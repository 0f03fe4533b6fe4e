--------------------------- MODULE HardDiskProofs ---------------------------
(***************************************************************************)
(* Proofs about the emulated ATA disk under an arbitrary guest, for every  *)
(* block size, number of blocks and register width: the four invariants    *)
(* that the run hard_disk checks on a disk of one block of two words.      *)
(***************************************************************************)
EXTENDS HardDisk, TLAPS

-----------------------------------------------------------------------------
(***************************************************************************)
(* Dividing an offset inside n blocks of b bytes by b gives a block number.*)
(***************************************************************************)
LEMMA BlockOfOffset ==
  ASSUME NEW n \in Nat, NEW b \in Nat \ {0}, NEW x \in Nat, x < n * b
  PROVE  x \div b \in 0..(n - 1)
<1>1. /\ x \div b \in Nat
      /\ (x \div b) * b <= x
  BY Z3
<1>2. ASSUME x \div b >= n PROVE FALSE
  <2>1. (x \div b) * b >= n * b
    BY <1>1, <1>2, Z3
  <2>2. QED
    BY <1>1, <2>1, Z3
<1>3. QED
  BY <1>1, <1>2

(***************************************************************************)
(* The constants as the proofs use them.                                   *)
(***************************************************************************)
LEMMA Constants ==
  /\ BLOCK_SIZE_BYTE \in Nat \ {0}
  /\ BLOCK_SIZE_BYTE >= 2
  /\ BLOCK_SIZE_BYTE % 2 = 0
  /\ blocks_number \in Nat \ {0}
  /\ disk_size \in Nat
  /\ UINT32 \in Nat \ {0}
  /\ REG \in Nat \ {0}
  /\ LBA_SPACE \in Nat \ {0}
  /\ MaxSectors \in Nat
<1>1. disk_size \in Nat
  BY DiskAssumption DEF disk_size
<1>2. UINT32 \in Nat \ {0}
  BY <1>1, DiskAssumption DEF disk_size
<1>3. QED
  BY <1>1, <1>2, DiskAssumption, HardDiskAssumption

(***************************************************************************)
(* A block index that is not out of bounds addresses a block of the disk,  *)
(* although its address was reduced to 32 bits (DiskManager).              *)
(***************************************************************************)
LEMMA AddressedIsBlock ==
  ASSUME NEW b \in Nat, ~out_of_bound(b)
  PROVE  addressed(b) \in BlockNumbers
<1>1. block_address(b) \in Nat
  <2>1. b * BLOCK_SIZE_BYTE \in Nat
    BY Constants
  <2>2. QED
    BY <2>1, Constants DEF block_address
<1>2. block_address(b) < blocks_number * BLOCK_SIZE_BYTE
  BY <1>1, Constants DEF out_of_bound, disk_size
<1>3. QED
  BY <1>1, <1>2, Constants, BlockOfOffset DEF addressed, BlockNumbers

(***************************************************************************)
(* DiskManager::read and write return blocks and disks.                    *)
(***************************************************************************)
LEMMA FileTypes ==
  ASSUME disk \in [BlockNumbers -> Block], NEW buffer \in Block, NEW b \in Nat
  PROVE  read(buffer, b) \in Block /\ write(buffer, b) \in [BlockNumbers -> Block]
<1>1. CASE out_of_bound(b)
  BY <1>1 DEF read, write, read_status, write_status
<1>2. CASE ~out_of_bound(b)
  <2>1. addressed(b) \in BlockNumbers
    BY <1>2, AddressedIsBlock
  <2>2. QED
    BY <2>1 DEF read, write
<1>3. QED
  BY <1>1, <1>2

(***************************************************************************)
(* The block the next transfer goes to is a number.                        *)
(***************************************************************************)
LEMMA NextBlock == TypeOK => next_block \in Nat
  BY Constants DEF TypeOK, next_block

-----------------------------------------------------------------------------
(***************************************************************************)
(* The inductive invariant: the four invariants together.  That a guest    *)
(* which never mixes directions is safe rests on the type of the position, *)
(* and it needs its own clause on new_buffer: the word pointer is set by   *)
(* the first read of a sector and never forgotten.                         *)
(***************************************************************************)
DiskInv ==
  /\ TypeOK
  /\ IdleAtBoundary
  /\ OneDirectionIsSafe
  /\ LineTracked

(***************************************************************************)
(* The state the constructor leaves, whatever the file holds, satisfies    *)
(* the invariant; the same argument serves a restart.                      *)
(***************************************************************************)
LEMMA PowerOnInv ==
  /\ PowerOn
  /\ disk \in [BlockNumbers -> Block]
  /\ file_state \in {"ok", "readonly", "resized"}
  => DiskInv
<1> SUFFICES ASSUME PowerOn, disk \in [BlockNumbers -> Block],
                    file_state \in {"ok", "readonly", "resized"}
             PROVE  DiskInv
  OBVIOUS
<1>1. TypeOK
  <2>1. internal_buffer \in Block /\ BR \in DiskBytes \X DiskBytes
    BY HardDiskAssumption DEF PowerOn, Block
  <2>2. regs \in [Registers -> 0..(REG - 1)] /\ irq \in IrqStates
    BY Constants DEF PowerOn, idle_line, IrqStates
  <2>3. /\ current_position \in 0..(BLOCK_SIZE_BYTE - 2)
        /\ sector_numbers_cmd \in 0..(REG - 1)
        /\ current_sector_number \in 0..MaxSectors
        /\ lba \in 0..(LBA_SPACE - 1)
    BY Constants DEF PowerOn
  <2>4. QED
    BY <2>1, <2>2, <2>3, Zenon DEF PowerOn, TypeOK
<1>2. IdleAtBoundary /\ OneDirectionIsSafe /\ LineTracked
  BY DEF PowerOn, idle_line, IdleAtBoundary, OneDirectionIsSafe, LineTracked
<1>3. QED
  BY <1>1, <1>2 DEF DiskInv

(***************************************************************************)
(* raise_interrupt, which ends every transfer of a sector, keeps the line  *)
(* and the disk's idea of it together.                                     *)
(***************************************************************************)
LEMMA RaiseKeepsLine ==
  ASSUME TypeOK, LineTracked, raise_interrupt, UNCHANGED <<interrupt_enabled, masked>>
  PROVE  /\ irq' \in IrqStates
         /\ interrupt_raised' \in BOOLEAN
         /\ LineTracked'
<1>1. CASE interrupt_enabled
  <2>1. irq' = set_IRQline(irq, 1) /\ interrupt_raised' = TRUE
    BY <1>1 DEF raise_interrupt
  <2>2. irq' \in IrqStates /\ irq'.line = 1
    BY <2>1 DEF TypeOK, set_IRQline, IrqStates
  <2>3. QED
    BY <1>1, <2>1, <2>2 DEF LineTracked
<1>2. CASE ~interrupt_enabled
  BY <1>2 DEF TypeOK, LineTracked, raise_interrupt
<1>3. QED
  BY <1>1, <1>2

(***************************************************************************)
(* read_from_backend fetches a block, or leaves the buffer as it was.      *)
(***************************************************************************)
LEMMA FetchKeepsTypes ==
  ASSUME TypeOK, LineTracked, read_from_backend,
         UNCHANGED <<interrupt_enabled, masked>>
  PROVE  /\ internal_buffer' \in Block
         /\ current_sector_number' \in 0..MaxSectors
         /\ irq' \in IrqStates
         /\ interrupt_raised' \in BOOLEAN
         /\ LineTracked'
<1>1. internal_buffer' \in Block
  BY NextBlock, FileTypes DEF read_from_backend, TypeOK
<1>2. current_sector_number' \in 0..MaxSectors
  BY Constants DEF read_from_backend, TypeOK
<1>3. QED
  BY <1>1, <1>2, RaiseKeepsLine DEF read_from_backend

-----------------------------------------------------------------------------
(***************************************************************************)
(* A command, given at any point of a sector, keeps the invariant.         *)
(***************************************************************************)
LEMMA CommandKeepsInv ==
  ASSUME DiskInv, NEW command \in {READ_SECTORS, WRITE_SECTORS, 0}, write_CMD(command)
  PROVE  DiskInv'
<1>1. TypeOK /\ IdleAtBoundary /\ OneDirectionIsSafe /\ LineTracked
  BY DEF DiskInv
<1>2. /\ process_cmd(command)
      /\ UNCHANGED <<disk, file_state, regs, BR, interrupt_enabled, new_buffer,
                     current_position, crashed, direction, mixed, masked>>
  BY DEF write_CMD, diskVars
<1>3. lba' \in 0..(LBA_SPACE - 1) /\ sector_numbers_cmd' \in 0..(REG - 1)
  <2>1. lba' = compute_lba /\ sector_numbers_cmd' = regs["SCR"]
    BY <1>2 DEF process_cmd
  <2>2. /\ regs["HND"] \in Nat /\ regs["CNH"] \in Nat
        /\ regs["CNL"] \in Nat /\ regs["SNR"] \in Nat
        /\ regs["SCR"] \in 0..(REG - 1)
    BY <1>1, Constants DEF TypeOK, Registers
  <2>3. ((regs["HND"] * REG + regs["CNH"]) * REG + regs["CNL"]) * REG + regs["SNR"] \in Nat
    BY <2>2, Constants
  <2>4. QED
    BY <2>1, <2>2, <2>3, Constants DEF compute_lba
<1>4. /\ STS' \subseteq {"BUSY", "DRQ"}
      /\ STS' = STS \/ "BUSY" \notin STS'
      /\ internal_buffer' \in Block
      /\ current_sector_number' \in 0..MaxSectors
      /\ irq' \in IrqStates
      /\ interrupt_raised' \in BOOLEAN
      /\ LineTracked'
  <2>1. CASE command = READ_SECTORS
    <3>1. STS' = (STS \ {"BUSY"}) \cup {"DRQ"} /\ read_from_backend
      BY <1>2, <2>1 DEF process_cmd, READ_SECTORS, WRITE_SECTORS
    <3>2. QED
      BY <1>1, <1>2, <3>1, FetchKeepsTypes DEF TypeOK
  <2>2. CASE command # READ_SECTORS
    <3>1. /\ STS' = STS \/ STS' = (STS \ {"BUSY"}) \cup {"DRQ"}
          /\ UNCHANGED <<internal_buffer, current_sector_number, irq, interrupt_raised>>
      BY <1>2, <2>2 DEF process_cmd
    <3>2. QED
      BY <1>1, <1>2, <3>1 DEF TypeOK, LineTracked
  <2>3. QED
    BY <2>1, <2>2
<1>5. TypeOK'
  BY <1>1, <1>2, <1>3, <1>4 DEF TypeOK
<1>6. IdleAtBoundary' /\ OneDirectionIsSafe'
  BY <1>1, <1>2, <1>4 DEF IdleAtBoundary, OneDirectionIsSafe
<1>7. QED
  BY <1>4, <1>5, <1>6 DEF DiskInv

(***************************************************************************)
(* A word written to the data register keeps the invariant: the position   *)
(* stays in the buffer, and on word boundaries unless the sector was begun *)
(* with reads.                                                             *)
(***************************************************************************)
LEMMA WriteWordKeepsInv ==
  ASSUME DiskInv, NEW word \in DiskBytes \X DiskBytes, write_BR_register(word)
  PROVE  DiskInv'
<1> DEFINE filled == [internal_buffer EXCEPT ![current_position] = word[1],
                                             ![current_position + 1] = word[2]]
           done == sector_full(current_position + 2)
<1>1. TypeOK /\ IdleAtBoundary /\ OneDirectionIsSafe /\ LineTracked
  BY DEF DiskInv
<1>2. /\ ~crashed
      /\ BR' = word
      /\ internal_buffer' = filled
      /\ direction' = IF done THEN "none" ELSE "write"
      /\ mixed' = (mixed \/ direction \notin {"none", "write"})
      /\ UNCHANGED <<file_state, regs, interrupt_enabled, new_buffer,
                     sector_numbers_cmd, lba, crashed, masked>>
  BY DEF write_BR_register, accessed
<1>3. filled \in Block
  BY <1>1 DEF TypeOK, Block
<1>4. /\ disk' \in [BlockNumbers -> Block]
      /\ current_position' \in 0..(BLOCK_SIZE_BYTE - 2)
      /\ current_sector_number' \in 0..MaxSectors
      /\ STS' \subseteq {"BUSY", "DRQ"}
      /\ irq' \in IrqStates
      /\ interrupt_raised' \in BOOLEAN
      /\ IdleAtBoundary'
      /\ LineTracked'
      /\ done => current_position' = 0
      /\ ~done => current_position' = current_position + 2
  <2>1. CASE done
    <3>1. /\ current_sector_number < MaxSectors
          /\ current_position' = 0
          /\ disk' = write(filled, next_block)
          /\ current_sector_number' = current_sector_number + 1
          /\ STS' = sector_status(current_sector_number')
          /\ raise_interrupt
      BY <2>1 DEF write_BR_register
    <3>2. disk' \in [BlockNumbers -> Block]
      <4> HIDE DEF filled
      <4> QED BY <1>1, <1>3, <3>1, NextBlock, FileTypes DEF TypeOK
    <3>3. /\ current_position' \in 0..(BLOCK_SIZE_BYTE - 2)
          /\ current_sector_number' \in 0..MaxSectors
      BY <1>1, <3>1, Constants DEF TypeOK
    <3>4. STS' \subseteq {"BUSY", "DRQ"} /\ "BUSY" \notin STS'
      BY <3>1 DEF sector_status
    <3>5. irq' \in IrqStates /\ interrupt_raised' \in BOOLEAN /\ LineTracked'
      BY <1>1, <1>2, <3>1, RaiseKeepsLine
    <3>6. QED
      BY <2>1, <3>1, <3>2, <3>3, <3>4, <3>5 DEF IdleAtBoundary
  <2>2. CASE ~done
    <3>1. /\ current_position' = current_position + 2
          /\ STS' = STS \cup {"BUSY"}
          /\ UNCHANGED <<disk, current_sector_number, irq, interrupt_raised>>
      BY <2>2 DEF write_BR_register
    <3>2. current_position' \in 0..(BLOCK_SIZE_BYTE - 2) /\ current_position' # 0
      BY <1>1, <2>2, <3>1, Constants DEF TypeOK, sector_full
    <3>3. LineTracked' /\ STS' \subseteq {"BUSY", "DRQ"}
      BY <1>1, <1>2, <3>1 DEF LineTracked, TypeOK
    <3>4. QED
      BY <1>1, <2>2, <3>1, <3>2, <3>3 DEF TypeOK, IdleAtBoundary
  <2>3. QED
    BY <2>1, <2>2
<1>5. TypeOK'
  <2> HIDE DEF filled, done
  <2>1. mixed' \in BOOLEAN /\ direction' \in {"none", "read", "write"}
    BY <1>1, <1>2 DEF TypeOK
  <2>2. QED
    BY <1>1, <1>2, <1>3, <1>4, <2>1 DEF TypeOK
<1>6. OneDirectionIsSafe'
  <2> SUFFICES ASSUME ~mixed'
               PROVE  /\ ~crashed'
                      /\ direction' = "none" => current_position' = 0
                      /\ direction' # "read"
                      /\ direction' = "write" => current_position' % 2 = 0
    BY DEF OneDirectionIsSafe
  <2>1. ~mixed /\ direction \in {"none", "write"}
    BY <1>1, <1>2 DEF TypeOK
  <2>2. current_position % 2 = 0 /\ current_position \in Nat
    BY <1>1, <2>1, Constants DEF OneDirectionIsSafe, TypeOK
  <2>3. (current_position + 2) % 2 = 0
    BY <2>2
  <2>4. QED
    BY <1>2, <1>4, <2>3
<1>7. QED
  BY <1>4, <1>5, <1>6 DEF DiskInv

(***************************************************************************)
(* A word read from the data register keeps the invariant.                 *)
(***************************************************************************)
LEMMA ReadWordKeepsInv ==
  ASSUME DiskInv, read_BR_register
  PROVE  DiskInv'
<1> DEFINE done == current_position + 1 >= BLOCK_SIZE_BYTE \div 2
<1>1. TypeOK /\ IdleAtBoundary /\ OneDirectionIsSafe /\ LineTracked
  BY DEF DiskInv
<1>2. /\ ~crashed
      /\ BR' \in DiskBytes \X DiskBytes
      /\ new_buffer' = TRUE
      /\ direction' = IF done THEN "none" ELSE "read"
      /\ mixed' = (mixed \/ direction \notin {"none", "read"})
      /\ UNCHANGED <<disk, file_state, regs, interrupt_enabled, sector_numbers_cmd,
                     lba, crashed, masked>>
  <2>1. new_buffer' = TRUE
    BY <1>1 DEF read_BR_register, point_to_buffer, TypeOK
  <2>2. QED
    BY <2>1 DEF read_BR_register, accessed, diskVars
<1>3. BLOCK_SIZE_BYTE \div 2 \in Nat /\ BLOCK_SIZE_BYTE \div 2 <= BLOCK_SIZE_BYTE - 1
  BY Constants
<1>4. /\ current_position' \in 0..(BLOCK_SIZE_BYTE - 2)
      /\ internal_buffer' \in Block
      /\ current_sector_number' \in 0..MaxSectors
      /\ STS' \subseteq {"BUSY", "DRQ"}
      /\ irq' \in IrqStates
      /\ interrupt_raised' \in BOOLEAN
      /\ IdleAtBoundary'
      /\ LineTracked'
      /\ done => current_position' = 0
      /\ ~done => current_position' < BLOCK_SIZE_BYTE \div 2
  <2>1. CASE done
    <3>1. current_position' = 0 /\ STS' = sector_status(current_sector_number)
      BY <2>1 DEF read_BR_register
    <3>2. \/ UNCHANGED <<internal_buffer, current_sector_number, irq, interrupt_raised>>
          \/ read_from_backend
      BY <2>1 DEF read_BR_register
    <3>3. /\ internal_buffer' \in Block
          /\ current_sector_number' \in 0..MaxSectors
          /\ irq' \in IrqStates
          /\ interrupt_raised' \in BOOLEAN
          /\ LineTracked'
      <4>1. CASE read_from_backend
        BY <1>1, <1>2, <4>1, FetchKeepsTypes
      <4>2. CASE UNCHANGED <<internal_buffer, current_sector_number, irq, interrupt_raised>>
        BY <1>1, <1>2, <4>2 DEF TypeOK, LineTracked
      <4>3. QED
        BY <3>2, <4>1, <4>2
    <3>4. STS' \subseteq {"BUSY", "DRQ"} /\ "BUSY" \notin STS'
      BY <3>1 DEF sector_status
    <3>5. current_position' \in 0..(BLOCK_SIZE_BYTE - 2)
      BY <3>1, Constants
    <3>6. QED
      BY <2>1, <3>1, <3>3, <3>4, <3>5 DEF IdleAtBoundary
  <2>2. CASE ~done
    <3>1. /\ current_position' = current_position + 1
          /\ STS' = STS \cup {"BUSY"}
          /\ UNCHANGED <<internal_buffer, current_sector_number, irq, interrupt_raised>>
      BY <2>2 DEF read_BR_register
    <3>2. /\ current_position' \in 0..(BLOCK_SIZE_BYTE - 2)
          /\ current_position' # 0
          /\ current_position' < BLOCK_SIZE_BYTE \div 2
      BY <1>1, <1>3, <2>2, <3>1, Constants DEF TypeOK
    <3>3. LineTracked' /\ STS' \subseteq {"BUSY", "DRQ"}
      BY <1>1, <1>2, <3>1 DEF LineTracked, TypeOK
    <3>4. QED
      BY <1>1, <2>2, <3>1, <3>2, <3>3 DEF TypeOK, IdleAtBoundary
  <2>3. QED
    BY <2>1, <2>2
<1>5. TypeOK'
  <2> HIDE DEF done
  <2>1. mixed' \in BOOLEAN /\ direction' \in {"none", "read", "write"}
    BY <1>1, <1>2 DEF TypeOK
  <2>2. QED
    BY <1>1, <1>2, <1>4, <2>1 DEF TypeOK
<1>6. OneDirectionIsSafe'
  BY <1>2, <1>4 DEF OneDirectionIsSafe
<1>7. QED
  BY <1>4, <1>5, <1>6 DEF DiskInv

(***************************************************************************)
(* The read through the null word pointer only happens in a sector that    *)
(* was begun with writes.                                                  *)
(***************************************************************************)
LEMMA NullReadKeepsInv ==
  ASSUME DiskInv, read_BR_null
  PROVE  DiskInv'
<1>1. TypeOK /\ IdleAtBoundary /\ OneDirectionIsSafe /\ LineTracked
  BY DEF DiskInv
<1>2. /\ current_position # 0 /\ ~new_buffer
      /\ crashed' = TRUE
      /\ direction' = "read"
      /\ mixed' = (mixed \/ direction \notin {"none", "read"})
      /\ UNCHANGED <<disk, file_state, regs, STS, interrupt_enabled, interrupt_raised,
                     internal_buffer, new_buffer, current_position,
                     current_sector_number, BR, sector_numbers_cmd, lba, irq, masked>>
  BY DEF read_BR_null, accessed, diskVars
<1>3. mixed'
  BY <1>1, <1>2 DEF OneDirectionIsSafe, TypeOK
<1>4. TypeOK'
  BY <1>1, <1>2, <1>3 DEF TypeOK
<1>5. IdleAtBoundary' /\ OneDirectionIsSafe' /\ LineTracked'
  BY <1>1, <1>2, <1>3 DEF IdleAtBoundary, OneDirectionIsSafe, LineTracked
<1>6. QED
  BY <1>4, <1>5 DEF DiskInv

(***************************************************************************)
(* The accesses that move no word: registers, DCR, status, the vector.     *)
(***************************************************************************)
LEMMA RegisterKeepsInv ==
  ASSUME DiskInv, NEW r \in Registers, NEW val \in 0..(REG - 1), write_register(r, val)
  PROVE  DiskInv'
<1>1. regs' \in [Registers -> 0..(REG - 1)]
  BY DEF DiskInv, TypeOK, write_register
<1>2. QED
  BY <1>1 DEF DiskInv, TypeOK, IdleAtBoundary, OneDirectionIsSafe, LineTracked,
              write_register, diskVars, transfer

LEMMA ControlKeepsInv ==
  ASSUME DiskInv, NEW val \in {0, 2, 10}, write_DCR(val)
  PROVE  DiskInv'
  BY DEF DiskInv, TypeOK, IdleAtBoundary, OneDirectionIsSafe, LineTracked,
         write_DCR, diskVars, transfer

LEMMA StatusKeepsInv ==
  ASSUME DiskInv, read_STS
  PROVE  DiskInv'
<1>1. irq' \in IrqStates /\ LineTracked'
  BY DEF DiskInv, TypeOK, LineTracked, read_STS, set_IRQline, IrqStates
<1>2. QED
  BY <1>1 DEF DiskInv, TypeOK, IdleAtBoundary, OneDirectionIsSafe,
              read_STS, diskVars, transfer

LEMMA TakenKeepsInv ==
  ASSUME DiskInv, take_interrupt
  PROVE  DiskInv'
<1>1. irq' \in IrqStates /\ irq'.line = irq.line
  BY DEF DiskInv, TypeOK, take_interrupt, taken, IrqStates
<1>2. QED
  BY <1>1 DEF DiskInv, TypeOK, IdleAtBoundary, OneDirectionIsSafe, LineTracked,
              take_interrupt, diskVars, transfer

(***************************************************************************)
(* A restart finds a disk, or builds one, and constructs the rest anew.    *)
(***************************************************************************)
LEMMA RestartKeepsInv ==
  ASSUME DiskInv, restart
  PROVE  DiskInv'
<1>1. /\ disk' \in [BlockNumbers -> Block]
      /\ file_state' \in {"ok", "readonly", "resized"}
  <2>1. CASE check_consistency
    BY <2>1 DEF DiskInv, TypeOK, restart, open_disk
  <2>2. CASE ~check_consistency
    <3>1. PICK buffer \in GarbageBlocks : disk' = [b \in BlockNumbers |-> buffer]
      BY <2>2 DEF restart, open_disk, build_disk
    <3>2. buffer \in Block
      BY ContentAssumption
    <3>3. QED
      BY <2>2, <3>1, <3>2 DEF restart, open_disk, build_disk
  <2>3. QED
    BY <2>1, <2>2
<1>2. PowerOn'
  BY DEF restart, PowerOn
<1>3. (/\ PowerOn
       /\ disk \in [BlockNumbers -> Block]
       /\ file_state \in {"ok", "readonly", "resized"})'
  BY <1>1, <1>2
<1>4. QED
  BY <1>3, PowerOnInv, PTL

-----------------------------------------------------------------------------
(***************************************************************************)
(* The invariant is inductive.                                             *)
(***************************************************************************)
THEOREM DiskInvariant == Spec => []DiskInv
<1>1. Init => DiskInv
  <2> SUFFICES ASSUME Init PROVE DiskInv
    OBVIOUS
  <2>1. /\ disk \in [BlockNumbers -> Block]
        /\ file_state \in {"ok", "readonly", "resized"}
    BY ContentAssumption DEF Init, DiskInit
  <2>2. QED
    BY <2>1, PowerOnInv DEF Init
<1>2. DiskInv /\ [Next]_vars => DiskInv'
  <2> SUFFICES ASSUME DiskInv, [Next]_vars PROVE DiskInv'
    OBVIOUS
  <2>1. CASE \E r \in Registers : \E val \in RegisterValues[r] : write_register(r, val)
    BY <2>1, RegisterKeepsInv, HardDiskAssumption
  <2>2. CASE \E command \in {READ_SECTORS, WRITE_SECTORS, 0} : write_CMD(command)
    BY <2>2, CommandKeepsInv
  <2>3. CASE \E val \in {0, 2, 10} : write_DCR(val)
    BY <2>3, ControlKeepsInv
  <2>4. CASE read_STS
    BY <2>4, StatusKeepsInv
  <2>5. CASE take_interrupt
    BY <2>5, TakenKeepsInv
  <2>6. CASE \E word \in Words : write_BR_register(word)
    BY <2>6, WriteWordKeepsInv, HardDiskAssumption
  <2>7. CASE read_BR_register
    BY <2>7, ReadWordKeepsInv
  <2>8. CASE read_BR_null
    BY <2>8, NullReadKeepsInv
  <2>9. CASE tamper
    BY <2>9 DEF DiskInv, TypeOK, IdleAtBoundary, OneDirectionIsSafe, LineTracked,
                tamper, file_tampered, transfer
  <2>10. CASE restart
    BY <2>10, RestartKeepsInv
  <2>11. CASE UNCHANGED vars
    BY <2>11 DEF DiskInv, TypeOK, IdleAtBoundary, OneDirectionIsSafe, LineTracked,
                 vars, diskVars, transfer
  <2>12. QED
    BY <2>1, <2>2, <2>3, <2>4, <2>5, <2>6, <2>7, <2>8, <2>9, <2>10, <2>11 DEF Next
<1>3. QED
  BY <1>1, <1>2, PTL DEF Spec

(***************************************************************************)
(* Types, and with them: no sequence of accesses moves the position past   *)
(* the sector buffer, nor a write past the blocks of the disk.             *)
(***************************************************************************)
THEOREM TypeCorrect == Spec => []TypeOK
<1>1. DiskInv => TypeOK
  BY DEF DiskInv
<1>2. QED
  BY <1>1, DiskInvariant, PTL

(***************************************************************************)
(* BUSY never outlasts a sector: a guest that polls for it to clear        *)
(* between commands is not kept waiting by an earlier, abandoned transfer. *)
(***************************************************************************)
THEOREM NotBusyAtBoundary == Spec => []IdleAtBoundary
<1>1. DiskInv => IdleAtBoundary
  BY DEF DiskInv
<1>2. QED
  BY <1>1, DiskInvariant, PTL

(***************************************************************************)
(* The position counts bytes in writes and words in reads, and this hurts  *)
(* only a guest that mixes the two in one sector: for any other no read    *)
(* goes through the null pointer or past the buffer, under every sequence  *)
(* of commands, register writes and restarts.                              *)
(***************************************************************************)
THEOREM UnmixedSafe == Spec => []OneDirectionIsSafe
<1>1. DiskInv => OneDirectionIsSafe
  BY DEF DiskInv
<1>2. QED
  BY <1>1, DiskInvariant, PTL

(***************************************************************************)
(* interrupt_raised is the level of line 14 unless the guest has masked a  *)
(* raised interrupt.                                                       *)
(***************************************************************************)
THEOREM LineFlagCorrect == Spec => []LineTracked
<1>1. DiskInv => LineTracked
  BY DEF DiskInv
<1>2. QED
  BY <1>1, DiskInvariant, PTL
=============================================================================
