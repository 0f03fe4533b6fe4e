---------------------------- MODULE DiskManager ----------------------------
(***************************************************************************)
(* The physical disk (backend/DiskManager.cpp): a file of blocks, opened   *)
(* anew and checked for its size on every access.  A block is a function   *)
(* from byte positions to bytes; the file is known by its blocks and by    *)
(* what an access finds when it opens it.                                  *)
(***************************************************************************)
EXTENDS Integers

CONSTANTS BLOCK_SIZE_BYTE,          \* 512 in the code
          blocks_number,            \* 4 in kvm.cpp
          UINT32,                   \* 2^32: the range of 32-bit arithmetic
          DiskBytes,                \* the bytes of this model
          InitialDisks,             \* contents the file may have at the start
          GarbageBlocks             \* contents of an uninitialised buffer

ASSUME DiskAssumption ==
  /\ BLOCK_SIZE_BYTE \in Nat /\ BLOCK_SIZE_BYTE > 0 /\ BLOCK_SIZE_BYTE % 2 = 0
  /\ blocks_number \in Nat \ {0}
  /\ UINT32 \in Nat /\ UINT32 % BLOCK_SIZE_BYTE = 0
  /\ blocks_number * BLOCK_SIZE_BYTE < UINT32

Positions == 0..(BLOCK_SIZE_BYTE - 1)
Block == [Positions -> DiskBytes]
BlockNumbers == 0..(blocks_number - 1)
disk_size == blocks_number * BLOCK_SIZE_BYTE

ASSUME ContentAssumption ==
  /\ InitialDisks \subseteq [BlockNumbers -> Block]
  /\ GarbageBlocks \subseteq Block

VARIABLES disk,                     \* the blocks of the file
          file_state                \* "ok", "readonly", or "resized" from outside

check_consistency == file_state # "resized"

(***************************************************************************)
(* uint64_t block_address = block_index * BLOCK_SIZE_BYTE: both operands   *)
(* are 32 bits wide, and so is the product that is then extended.          *)
(***************************************************************************)
block_address(block_index) == (block_index * BLOCK_SIZE_BYTE) % UINT32

out_of_bound(block_index) == block_address(block_index) >= disk_size
addressed(block_index) == block_address(block_index) \div BLOCK_SIZE_BYTE

\* The status of read and write, and what they leave in buffer and file.
read_status(block_index) ==
  CASE out_of_bound(block_index)                           -> "OUT_OF_BOUND"
    [] ~out_of_bound(block_index) /\ ~check_consistency    -> "FILE_ERROR_SIZE"
    [] OTHER                                               -> "NO_ERRORS"

write_status(block_index) ==
  IF read_status(block_index) = "NO_ERRORS" /\ file_state = "readonly"
    THEN "FILE_ERROR_OPEN"
    ELSE read_status(block_index)

read(buffer, block_index) ==
  IF read_status(block_index) = "NO_ERRORS" THEN disk[addressed(block_index)]
                                            ELSE buffer

write(buffer, block_index) ==
  IF write_status(block_index) = "NO_ERRORS"
    THEN [disk EXCEPT ![addressed(block_index)] = buffer]
    ELSE disk

(***************************************************************************)
(* The constructor: a file of the wrong size is rebuilt from one           *)
(* uninitialised buffer, written to every block.                           *)
(***************************************************************************)
DiskInit ==
  /\ disk \in InitialDisks
  /\ file_state \in {"ok", "readonly"}

build_disk ==
  /\ \E buffer \in GarbageBlocks : disk' = [b \in BlockNumbers |-> buffer]
  /\ file_state' = "ok"

open_disk == IF check_consistency THEN UNCHANGED <<disk, file_state>> ELSE build_disk

\* Somebody outside the monitor changes the file or its permissions.
file_tampered ==
  /\ \E s \in {"ok", "readonly", "resized"} :
       /\ s # file_state
       /\ file_state = "resized" => s = "resized"
       /\ file_state' = s
  /\ UNCHANGED disk
=============================================================================
