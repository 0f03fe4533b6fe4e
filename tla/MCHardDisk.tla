----------------------------- MODULE MCHardDisk -----------------------------
(***************************************************************************)
(* A disk of one block of two words, driven by an arbitrary guest: block 0 *)
(* exists, the blocks after it are out of bounds.  Two byte values tell    *)
(* what the guest wrote from what was on the disk.                         *)
(***************************************************************************)
EXTENDS HardDisk

MCDiskBytes == {0, 1}
MCInitialDisks == {[b \in BlockNumbers |-> [p \in Positions |-> 0]]}
MCGarbageBlocks == {[p \in Positions |-> p % 2]}
MCRegisterValues ==
  [r \in Registers |-> CASE r = "SNR" -> {1}
                         [] r = "SCR" -> {1, 2}
                         [] OTHER     -> {}]
MCWords == {<<1, 1>>}
=============================================================================
