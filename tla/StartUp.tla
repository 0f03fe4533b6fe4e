------------------------------- MODULE StartUp ------------------------------
(***************************************************************************)
(* main of kvm.cpp up to the start of the devices: the configuration, the  *)
(* guest memory, the program, the tables and the boot code, in that order. *)
(* Each stage may fail and end the program with a return or an exit.       *)
(***************************************************************************)
EXTENDS BootTables

CONSTANTS Configs,                  \* command line, config.ini, executable
          MinMiB, LimitMiB,         \* 8 and 1024, the accepted memory sizes
          DefaultMiB,               \* 8, for the others
          PageCells,                \* cells of a 2 MiB page
          ProgramBase,              \* 0x100000; below it only a warning
          Boot64                    \* build/boot64, linked at 0x2000

ASSUME StartUpAssumption ==
  /\ {MinMiB, LimitMiB, DefaultMiB} \subseteq Nat \ {0}
  /\ LimitMiB % 2 = 0 /\ LimitMiB <= 2 * Entries
  /\ DefaultMiB % 2 = 0 /\ DefaultMiB <= LimitMiB
ASSUME LayoutAssumption ==
  /\ {PageCells, ProgramBase} \subseteq Nat
  /\ Cell(pd + 3, 0) <= ProgramBase /\ ProgramBase <= PageCells
ASSUME ProgramAssumption ==
  \A c \in Configs : c.memsize \in Int /\ LoadHeaders(Segments(c.exe))
\* The boot code is the repository's own, built by its linker script.
ASSUME BootAssumption ==
  /\ LoadHeaders(Segments(Boot64))
  /\ \A k \in 1 .. Len(Segments(Boot64)) : WellFormed(Segments(Boot64)[k])

VARIABLES cfg,                      \* the configuration of this execution
          pages,                    \* guest memory, in pages of 2 MiB
          mem,                      \* guest memory
          todo,                     \* segments still to load
          stage                     \* where main is

startVars == <<cfg, pages, mem, todo, stage>>

Stages == {"config", "program", "segments", "vcpu", "server", "bootloader",
           "boot64", "boot_segments", "initIO", "console_out", "atexit",
           "signal", "run", "failed", "undefined"}

Guest == 0 .. (pages * PageCells - 1)

\* mutant: no upper limit.
NoLimit(m) == (IF MinMiB <= m THEN m + (m % 2) ELSE DefaultMiB) \div 2

\* An accepted size is rounded up to a whole page, any other is ignored.
GUEST_PHYSICAL_MEMORY_SIZE(m) ==
  (IF MinMiB <= m /\ m < LimitMiB THEN m + (m % 2) ELSE DefaultMiB) \div 2

StartInit ==
  /\ cfg \in Configs
  /\ pages = 0
  /\ mem = << >>
  /\ todo = << >>
  /\ stage = "config"

At(from, to) == stage = from /\ stage' = to

\* Allocate the memory (zero filled by the host), create the VM around it.
configure ==
  /\ At("config", "program")
  /\ pages' = GUEST_PHYSICAL_MEMORY_SIZE(cfg.memsize)
  /\ mem' = [a \in 0 .. (pages' * PageCells - 1) |-> Zero]
  /\ UNCHANGED <<cfg, todo>>

\* estrai_segmento up to its loop; any other file ends the monitor.
estrai_open(exe, from, to) ==
  /\ At(from, to)
  /\ Recognised(exe)
  /\ todo' = Segments(exe)
  /\ UNCHANGED <<cfg, pages, mem>>

(***************************************************************************)
(* One turn of the loop of estrai_segmento: a segment that does not fit is *)
(* logged and passed over.  Beyond guest memory the copy has no defined    *)
(* outcome.                                                                *)
(***************************************************************************)
estrai_next(from, k, dest_size) ==
  /\ stage = from
  /\ todo # << >>
  /\ todo' = Tail(todo)
  /\ IF Fits(Head(todo), dest_size)
       THEN /\ mem' = copia_segmento(mem, Head(todo), k)
            /\ stage' = IF Touched(Head(todo)) \subseteq Guest THEN from
                        ELSE "undefined"
       ELSE UNCHANGED <<mem, stage>>
  /\ UNCHANGED <<cfg, pages>>

estrai_done(from, to) ==
  /\ At(from, to)
  /\ todo = << >>
  /\ UNCHANGED <<cfg, pages, mem, todo>>

load_program ==
  \/ estrai_open(cfg.exe, "program", "segments")
  \/ estrai_next("segments", 1 + Len(Segments(cfg.exe)) - Len(todo),
                 pages * PageCells)
  \/ estrai_done("segments", "vcpu")

\* The vCPU, the interrupt controllers and the local APIC.
create_vcpu == At("vcpu", "server") /\ UNCHANGED <<cfg, pages, mem, todo>>

\* Bootloader::run_long_mode: the tables, over whatever the program left.
run_long_mode ==
  /\ At("bootloader", "boot64")
  /\ mem' = setup_page_tables(setup_protected_mode(mem), pages)
  /\ UNCHANGED <<cfg, pages, todo>>

BootLimit == Cell(gdt, 0)           \* 0x10000

\* The boot code, with memory bounded so that it stays below the tables.
load_boot64 ==
  \/ estrai_open(Boot64, "boot64", "boot_segments")
  \/ estrai_next("boot_segments", 0, BootLimit)
  \/ estrai_done("boot_segments", "initIO")

(***************************************************************************)
(* The returns and exits of main, Bootloader and estrai_segmento before    *)
(* the devices exist: no KVM, a failed ioctl, no memory, a file that is    *)
(* not an executable, a segment that cannot be found in its file, and,     *)
(* when everything else is in place, no port for the gdb server.           *)
(***************************************************************************)
start_fails ==
  /\ stage \in {"config", "program", "segments", "vcpu", "bootloader", "boot64",
                "boot_segments", "initIO"}
  /\ stage' = "failed"
  /\ UNCHANGED <<cfg, pages, mem, todo>>

StartStep ==
  configure \/ load_program \/ create_vcpu \/ run_long_mode \/ load_boot64

-----------------------------------------------------------------------------
ProgramSegments == Segments(cfg.exe)
Loaded == {k \in DOMAIN ProgramSegments :
             Fits(ProgramSegments[k], pages * PageCells)}

\* Everything is in place and the guest may run.
Booted == stage \in {"initIO", "console_out", "atexit", "signal", "run"}

(***************************************************************************)
(* The address space the guest starts in, for every memory size: its       *)
(* memory and the two pages of the APICs are mapped one to one, and        *)
(* nothing else is mapped.  Only a program loaded over the tables can      *)
(* leave something in the entries the boot loader does not write.          *)
(***************************************************************************)
IdentityMapped ==
  Booted =>
    \A i4, i3, i2 \in 0 .. (Entries - 1) :
      LET p == i3 * Entries + i2
          frame == Walk(mem, i4, i3, i2)
          mapped == /\ i4 = 0
                    /\ \/ p < pages
                       \/ i3 = ApicGiB /\ i2 \in {IoApicEntry, LocalApicEntry}
      IN  IF mapped THEN frame = p
          ELSE \/ frame = NotMapped
               \/ /\ frame = Unknown
                  /\ \E k \in Loaded : \E a \in Touched(ProgramSegments[k]) :
                       a < ProgramBase

\* What the last of the loaded segments that covers a puts there.
FromImage(a) ==
  LET ks == {k \in Loaded : a \in Touched(ProgramSegments[k])}
      k == CHOOSE x \in ks : \A y \in ks : y <= x
      i == a - ProgramSegments[k].vaddr
  IN  IF ks = {} THEN Zero
      ELSE IF i < ProgramSegments[k].present THEN Bytes(k, i)
      ELSE Zero

(***************************************************************************)
(* The program reaches the guest unharmed: above ProgramBase memory is the *)
(* image of the segments that fit, a later one over an earlier one, and    *)
(* zero elsewhere; neither the tables nor the boot code reach up there.    *)
(***************************************************************************)
ImageIntact ==
  Booted => \A a \in {x \in Guest : x >= ProgramBase} : mem[a] = FromImage(a)

(***************************************************************************)
(* The loader stays inside guest memory for every executable a linker      *)
(* produces: only a header whose filesz exceeds memsz, or whose end wraps, *)
(* takes it outside.                                                       *)
(***************************************************************************)
LoaderInBounds ==
  stage = "undefined" =>
    \E k \in DOMAIN ProgramSegments : ~WellFormed(ProgramSegments[k])
=============================================================================
