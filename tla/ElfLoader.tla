----------------------------- MODULE ElfLoader ------------------------------
(***************************************************************************)
(* estrai_segmento and the ELF interpreters behind it: how an executable   *)
(* reaches guest memory.  Memory is a function from cells to contents; a   *)
(* cell's contents say which segment, and which place of it, was copied    *)
(* there.  Segment 0 is the boot code, segments 1, 2, ... the program's.   *)
(***************************************************************************)
EXTENDS Integers, Sequences

CONSTANT AddressModulus             \* 2^64: sums of uint64_t wrap

ASSUME AddressModulusAssumption == AddressModulus \in Nat \ {0}

(***************************************************************************)
(* Contents of a cell: freshly allocated or cleared memory, a unit of an   *)
(* executable, or an entry of the tables the boot loader builds.           *)
(***************************************************************************)
Content(tag, of, at) == [tag |-> tag, of |-> of, at |-> at]
Zero == Content("zero", 0, 0)
Bytes(k, i) == Content("bytes", k, i)

(***************************************************************************)
(* An executable: how many of the four magic bytes match, the format,      *)
(* whether the segment and section tables are all in the file, the entry   *)
(* point and the program headers.  A header has the type PT_LOAD or not,   *)
(* p_vaddr, p_filesz, p_memsz and how much of p_filesz the file holds.     *)
(***************************************************************************)
\* init of the two interpreters: EI_MAG2 is compared twice and EI_MAG3 never.
InterpreteElf64(exe) == exe.magic >= 3 /\ exe.format = "elf64"
InterpreteElf32(exe) == exe.magic >= 3 /\ exe.format = "elf32"

\* estrai_segmento asks every interpreter; init itself ends the monitor when
\* a table of a file it took on is cut short.
Recognised(exe) == (InterpreteElf64(exe) \/ InterpreteElf32(exe)) /\ exe.complete

\* prossimo_segmento: the program headers of type PT_LOAD, in file order.
Segments(exe) == SelectSeq(exe.headers, LAMBDA h : h.load)

end_addr(h) == (h.vaddr + h.memsz) % AddressModulus

\* mutant: the part that is not in the file is left out of the bound.
FileFits(h, dest_size) == (h.vaddr + h.filesz) % AddressModulus <= dest_size

\* The only test before the copy; a segment that fails it is passed over.
Fits(h, dest_size) == end_addr(h) <= dest_size

\* The cells copia_segmento writes.
Touched(h) ==
  {h.vaddr + i : i \in 0 .. (h.present - 1) \cup h.filesz .. (h.memsz - 1)}

\* mutant: the zero fill is memsz long instead of memsz - filesz.
copia_segmento_overfill(mem, h, k) ==
  [a \in DOMAIN mem |->
     LET i == a - h.vaddr
     IN  IF i \in 0 .. (h.present - 1) THEN Bytes(k, i)
         ELSE IF h.memsz > h.filesz /\ i \in h.filesz .. (h.filesz + h.memsz - 1)
                THEN Zero
         ELSE mem[a]]

(***************************************************************************)
(* copia_segmento: fread takes what the file has of filesz (a short count  *)
(* is only logged), then the rest up to memsz is cleared.                  *)
(***************************************************************************)
copia_segmento(mem, h, k) ==
  [a \in DOMAIN mem |->
     LET i == a - h.vaddr
     IN  IF i \in 0 .. (h.present - 1) THEN Bytes(k, i)
         ELSE IF i \in h.filesz .. (h.memsz - 1) THEN Zero
         ELSE mem[a]]

\* Program headers as the interpreters hand them out.
Headers == [load : BOOLEAN, vaddr : Nat, filesz : Nat, memsz : Nat, present : Nat]
LoadHeaders(segments) ==
  /\ segments \in Seq(Headers)
  /\ \A k \in 1 .. Len(segments) : segments[k].present <= segments[k].filesz

\* What a linker produces: nothing wraps and memsz covers filesz.
WellFormed(h) == h.filesz <= h.memsz /\ h.vaddr + h.memsz < AddressModulus
=============================================================================
