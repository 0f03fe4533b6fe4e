----------------------------- MODULE MCMonitor ------------------------------
(***************************************************************************)
(* Executables that exercise the loader, each with every memory size and   *)
(* the debug server off, and one ordinary executable with the server on    *)
(* and clients: the program of the repository, one that asks for memory    *)
(* beyond the guest's, and one that only connects.                         *)
(***************************************************************************)
EXTENDS Monitor

Header(load, vaddr, filesz, memsz, present) ==
  [load |-> load, vaddr |-> vaddr, filesz |-> filesz, memsz |-> memsz,
   present |-> present]
Exe(headers) ==
  [magic |-> 4, format |-> "elf64", complete |-> TRUE, headers |-> headers]

MCBoot64 == [Exe(<<Header(TRUE, 1, 1, 3, 1)>>) EXCEPT !.format = "elf32"]

Ordinary == Exe(<<Header(FALSE, 0, 2, 2, 2), Header(TRUE, 28, 1, 3, 1)>>)
Overlapping == Exe(<<Header(TRUE, 28, 2, 4, 2), Header(TRUE, 30, 1, 1, 1)>>)
DataBelowText == Exe(<<Header(TRUE, 30, 2, 2, 2), Header(TRUE, 28, 1, 2, 1)>>)
AtTheEnd == Exe(<<Header(TRUE, 30, 1, 2, 1), Header(TRUE, 31, 1, 2, 1),
                  Header(TRUE, 62, 1, 2, 1)>>)
OverTheTables == Exe(<<Header(TRUE, 9, 20, 21, 20)>>)
Truncated == Exe(<<Header(TRUE, 28, 2, 3, 1), Header(TRUE, 29, 2, 2, 0)>>)
FileBiggerThanMemory == Exe(<<Header(TRUE, 31, 2, 1, 2)>>)
Wrapping == Exe(<<Header(TRUE, 1020, 1, 8, 1)>>)
Executables ==
  {Ordinary, Overlapping, DataBelowText, AtTheEnd, OverTheTables, Truncated,
   FileBiggerThanMemory, Wrapping,
   [Ordinary EXCEPT !.magic = 3], [Ordinary EXCEPT !.magic = 2],
   [Ordinary EXCEPT !.format = "other"], [Ordinary EXCEPT !.complete = FALSE]}

Repository == <<req_dump_mem(16, 24), req_info>>
Dump == <<req_dump_mem(16, 24)>>
Info == <<req_info>>
Beyond == <<req_dump_mem(30, 33)>>
Silent == << >>

Config(memsize, exe, users, scripts, tears, ctrl_c) ==
  [memsize |-> memsize, exe |-> exe, debug |-> users # {}, users |-> users,
   scripts |-> "c1" :> scripts[1] @@ "c2" :> scripts[2],
   tears |-> tears, ctrl_c |-> ctrl_c]

One(s) == <<s, Silent>>

MCConfigs ==
  {Config(m, e, {}, One(Silent), FALSE, 0) : m \in 0 .. 9, e \in Executables}
    \cup {Config(2, Ordinary, {}, One(Silent), FALSE, 2),
          Config(2, Ordinary, {"c1"}, One(Repository), FALSE, 2)}
    \cup {Config(2, Ordinary, {"c1"}, One(s), TRUE, 0) : s \in {Dump, Info}}
    \cup {Config(2, Ordinary, {"c1", "c2"}, <<Repository, s>>, FALSE, 0) :
            s \in {Beyond, Silent}}
=============================================================================
