----------------------------- MODULE BootTables -----------------------------
(***************************************************************************)
(* The descriptor and page tables Bootloader writes into guest memory      *)
(* before the first instruction runs, and the walk the processor makes     *)
(* over them.  Memory is cut into blocks of one table each (0x10000 bytes  *)
(* apart in the code); block 0 is where the boot code goes.                *)
(***************************************************************************)
EXTENDS ElfLoader

CONSTANTS Entries,                  \* entries of a table; 512
          IoApicEntry,              \* 502, the page of 0xfec00000
          LocalApicEntry            \* 503, the page of 0xfee00000

ASSUME EntriesAssumption ==
  /\ Entries \in Nat /\ Entries >= 4
  /\ IoApicEntry \in 0 .. (Entries - 1)
  /\ LocalApicEntry \in 0 .. (Entries - 1)

gdt == 1                            \* 0x10000
pml4 == 2                           \* 0x20000
pdpt == 3                           \* 0x30000
pd == 4                             \* 0x40000, then one block per table
ApicGiB == 3                        \* the entry of the last GiB below 4 GiB

\* Address of entry i of the table in block t.
Cell(t, i) == t * Entries + i

Descriptor(kind) == Content("descriptor", 0, kind)
Table(t) == Content("table", 0, t)
Page(p) == Content("page", 0, p)
\* An entry whose PRESENT bit was cleared, whatever the rest holds.
Absent == Content("absent", 0, 0)

\* gdt[0] is left alone; 10 is code, 3 is data.
setup_protected_mode(mem) ==
  [mem EXCEPT ![Cell(gdt, 1)] = Descriptor(10), ![Cell(gdt, 2)] = Descriptor(3)]

\* The memory in 2 MiB pages gives the number of level 3 entries ...
last_index_lev3(pages) == pages \div Entries
\* mutant: the partial table gets one entry too many.
n_entry_lev2_inclusive(pages) == (pages % Entries) + 1
\* ... and of entries in the last level 2 table.
n_entry_lev2(pages) == pages % Entries

(***************************************************************************)
(* setup_page_tables: one level 4 entry, a level 2 table for every GiB     *)
(* begun, the last of them partly filled and the rest of it marked not     *)
(* present, and one more table for the pages of the two APICs, of which    *)
(* only their two entries are written.                                     *)
(***************************************************************************)
setup_page_tables(mem, pages) ==
  LET last == last_index_lev3(pages)
      apic == pd + last + 1
      Entry(t, i, old) ==
        CASE t = pml4 /\ i = 0 -> Table(pdpt)
          [] t = pdpt /\ i = ApicGiB -> Table(apic)
          [] t = pdpt /\ i <= last /\ i # ApicGiB -> Table(pd + i)
          [] t \in pd .. (pd + last) ->
               IF t # pd + last \/ i < n_entry_lev2(pages)
                 THEN Page((t - pd) * Entries + i)
                 ELSE Absent
          [] t = apic /\ i \in {IoApicEntry, LocalApicEntry} ->
               Page(ApicGiB * Entries + i)
          [] OTHER -> old
  IN  [a \in DOMAIN mem |-> Entry(a \div Entries, a % Entries, mem[a])]

(***************************************************************************)
(* The processor's walk (external) from cr3 = pml4 for the page with the   *)
(* given indices: the frame, or that the page is not mapped, or that the   *)
(* walk goes through something that is no entry of setup_page_tables.      *)
(***************************************************************************)
NotMapped == -1
Unknown == -2

Walk(mem, i4, i3, i2) ==
  LET e4 == mem[Cell(pml4, i4)]
      e3 == mem[Cell(e4.at, i3)]
      e2 == mem[Cell(e3.at, i2)]
      Outcome(e) == IF e.tag \in {"zero", "absent"} THEN NotMapped ELSE Unknown
  IN  IF e4.tag # "table" THEN Outcome(e4)
      ELSE IF e3.tag # "table" THEN Outcome(e3)
      ELSE IF e2.tag # "page" THEN Outcome(e2)
      ELSE e2.at
=============================================================================
