---------------------------- MODULE MCDiskDriver ----------------------------
(***************************************************************************)
(* A disk of four blocks (as in kvm.cpp) of two words.  With UINT32 = 64   *)
(* the block address wraps at block 16, inside the range of the lba, as it *)
(* does at block 2^23 in the code.                                         *)
(***************************************************************************)
EXTENDS DiskDriver

MCDiskBytes == 0..13
MCInitialDisks == {[b \in BlockNumbers |-> [p \in Positions |-> 10 + b]]}
MCGarbageBlocks == {[p \in Positions |-> 0]}
MCRegisterValues == [r \in Registers |-> {}]
MCWords == {}
MCLba == {0, 1, 2, 3, 5, 70}
MCLbaLow == {0, 1, 2}
MCLbaHigh == {1, 17}
=============================================================================
