------------------------------ MODULE HardDisk ------------------------------
(***************************************************************************)
(* The emulated ATA disk (frontend/HardDisk.cpp): the task-file registers, *)
(* the programmed-I/O data register and interrupt line 14.  Only the vCPU  *)
(* thread reaches it, one port access at a time.                           *)
(***************************************************************************)
EXTENDS DiskManager, IrqLine

CONSTANTS REG,                      \* 256: values of an 8-bit register
          LBA_SPACE,                \* 2^28: compute_lba masks with 0x0FFFFFFF
          RegisterValues,           \* bytes the guest writes to each register
          Words,                    \* words the guest writes to BR, as <<low, high>>
          MaxSectors                \* bound: sectors moved between two starts

Registers == {"SCR", "SNR", "CNL", "CNH", "HND"}

ASSUME HardDiskAssumption ==
  /\ REG \in Nat \ {0}
  /\ LBA_SPACE \in Nat \ {0}
  /\ RegisterValues \in [Registers -> SUBSET (0..(REG - 1))]
  /\ 0 \in DiskBytes
  /\ Words \subseteq DiskBytes \X DiskBytes
  /\ MaxSectors \in Nat

VARIABLES regs,                     \* SCR, SNR, CNL, CNH, HND
          STS,                      \* the status bits that are set
          BR,                       \* the data register
          interrupt_enabled,        \* DCR: nIEN is clear
          interrupt_raised,         \* the disk believes its line is up
          internal_buffer,
          new_buffer,               \* the word pointer has been set
          current_position,         \* in bytes when writing, in words when reading
          sector_numbers_cmd,
          current_sector_number,
          lba,
          irq,                      \* line 14
          crashed,                  \* the monitor died on a null pointer
          direction,                \* history: accesses of the sector in progress
          mixed,                    \* history: a sector was both read and written
          masked                    \* history: interrupts disabled while one was up

diskVars == <<disk, file_state>>
transfer == <<internal_buffer, new_buffer, current_position, current_sector_number,
              BR, direction, mixed>>
vars == <<diskVars, regs, STS, interrupt_enabled, interrupt_raised, transfer,
          sector_numbers_cmd, lba, irq, crashed, masked>>

READ_SECTORS == 32                  \* 0x20
WRITE_SECTORS == 48                 \* 0x30

\* What the constructor leaves, the file apart.
PowerOn ==
  /\ regs = [r \in Registers |-> 0]
  /\ STS = {}
  /\ BR = <<0, 0>>
  /\ interrupt_enabled = FALSE
  /\ interrupt_raised = FALSE
  /\ internal_buffer = [p \in Positions |-> 0]
  /\ new_buffer = FALSE
  /\ current_position = 0
  /\ sector_numbers_cmd = 0
  /\ current_sector_number = 0
  /\ lba = 0
  /\ irq = idle_line
  /\ crashed = FALSE
  /\ direction = "none"
  /\ mixed = FALSE
  /\ masked = FALSE

Init == DiskInit /\ PowerOn

\* The monitor is started again on the same file.
restart ==
  /\ open_disk
  /\ regs' = [r \in Registers |-> 0]
  /\ STS' = {}
  /\ BR' = <<0, 0>>
  /\ interrupt_enabled' = FALSE
  /\ interrupt_raised' = FALSE
  /\ internal_buffer' = [p \in Positions |-> 0]
  /\ new_buffer' = FALSE
  /\ current_position' = 0
  /\ sector_numbers_cmd' = 0
  /\ current_sector_number' = 0
  /\ lba' = 0
  /\ irq' = idle_line
  /\ crashed' = FALSE
  /\ direction' = "none"
  /\ mixed' = FALSE
  /\ masked' = FALSE

-----------------------------------------------------------------------------
compute_lba ==
  (((regs["HND"] * REG + regs["CNH"]) * REG + regs["CNL"]) * REG + regs["SNR"])
    % LBA_SPACE

\* mutant: the counter is incremented before it is used.
next_block_late == (lba + current_sector_number + 1) % UINT32

\* The block the next transfer goes to, lba + current_sector_number++.
next_block == (lba + current_sector_number) % UINT32

raise_interrupt ==
  IF interrupt_enabled
    THEN irq' = set_IRQline(irq, 1) /\ interrupt_raised' = TRUE
    ELSE UNCHANGED <<irq, interrupt_raised>>

\* mutant: the sector counter is not advanced.
read_from_backend_again ==
  /\ current_sector_number < MaxSectors
  /\ internal_buffer' = read(internal_buffer, lba)
  /\ current_sector_number' = current_sector_number + 1
  /\ raise_interrupt

(***************************************************************************)
(* Its status is ignored: a refused read leaves the buffer as it was and   *)
(* is announced like any other.                                            *)
(***************************************************************************)
read_from_backend ==
  /\ current_sector_number < MaxSectors
  /\ internal_buffer' = read(internal_buffer, next_block)
  /\ current_sector_number' = current_sector_number + 1
  /\ raise_interrupt

(***************************************************************************)
(* A write to CMD.  A read command fetches its first sector before lba is  *)
(* computed from the registers; neither command resets the position in the *)
(* sector or the sector counter.                                           *)
(***************************************************************************)
process_cmd(command) ==
  /\ CASE command = WRITE_SECTORS ->
            /\ STS' = (STS \ {"BUSY"}) \cup {"DRQ"}
            /\ UNCHANGED <<internal_buffer, current_sector_number, irq, interrupt_raised>>
       [] command = READ_SECTORS ->
            /\ STS' = (STS \ {"BUSY"}) \cup {"DRQ"}
            /\ read_from_backend
       [] OTHER ->
            UNCHANGED <<STS, internal_buffer, current_sector_number, irq, interrupt_raised>>
  /\ lba' = compute_lba
  /\ sector_numbers_cmd' = regs["SCR"]

write_CMD(command) ==
  /\ ~crashed
  /\ process_cmd(command)
  /\ UNCHANGED <<diskVars, regs, BR, interrupt_enabled, new_buffer,
                 current_position, crashed, direction, mixed, masked>>

write_register(r, val) ==
  /\ ~crashed
  /\ regs' = [regs EXCEPT ![r] = val]
  /\ UNCHANGED <<diskVars, STS, interrupt_enabled, interrupt_raised, transfer,
                 sector_numbers_cmd, lba, irq, crashed, masked>>

(***************************************************************************)
(* DCR: 0x00 enables interrupts, any other value disables them and forgets *)
(* a raised one, without lowering the line.                                *)
(***************************************************************************)
write_DCR(val) ==
  /\ ~crashed
  /\ interrupt_enabled' = (val = 0)
  /\ interrupt_raised' = (val = 0 /\ interrupt_raised)
  /\ masked' = (masked \/ (val # 0 /\ interrupt_raised))
  /\ UNCHANGED <<diskVars, regs, STS, transfer, sector_numbers_cmd, lba, irq, crashed>>

\* mutant: the interrupt is forgotten and the line left up.
read_STS_keeps_line ==
  /\ ~crashed
  /\ interrupt_raised' = FALSE
  /\ UNCHANGED <<diskVars, regs, STS, interrupt_enabled, transfer,
                 sector_numbers_cmd, lba, irq, crashed, masked>>

\* Reading the status acknowledges the interrupt; the value returned is STS.
read_STS ==
  /\ ~crashed
  /\ irq' = IF interrupt_raised THEN set_IRQline(irq, 0) ELSE irq
  /\ interrupt_raised' = FALSE
  /\ UNCHANGED <<diskVars, regs, STS, interrupt_enabled, transfer,
                 sector_numbers_cmd, lba, crashed, masked>>

take_interrupt ==
  /\ ~crashed
  /\ irq.pending
  /\ irq' = taken(irq)
  /\ UNCHANGED <<diskVars, regs, STS, interrupt_enabled, interrupt_raised, transfer,
                 sector_numbers_cmd, lba, crashed, masked>>

-----------------------------------------------------------------------------
\* History of the direction in which a sector is accessed.
accessed(dir, done) ==
  /\ direction' = IF done THEN "none" ELSE dir
  /\ mixed' = (mixed \/ direction \notin {"none", dir})

\* mutant: BUSY is not cleared at the end of a sector.
sector_status_busy(sectorNumber) ==
  IF sector_numbers_cmd = sectorNumber THEN {"BUSY"} ELSE {"BUSY", "DRQ"}

\* mutant: DRQ is cleared one sector too early.
sector_status_early(sectorNumber) ==
  IF sector_numbers_cmd <= sectorNumber + 1 THEN {} ELSE {"DRQ"}

\* The last sector of the command clears DRQ.
sector_status(sectorNumber) ==
  IF sector_numbers_cmd = sectorNumber THEN {} ELSE {"DRQ"}

\* mutant: a written sector is complete one word late.
sector_full_late(position) == position > BLOCK_SIZE_BYTE

sector_full(position) == position >= BLOCK_SIZE_BYTE - 1

write_BR_register(word) ==
  LET filled == [internal_buffer EXCEPT ![current_position] = word[1],
                                        ![current_position + 1] = word[2]]
      done   == sector_full(current_position + 2)
  IN  /\ ~crashed
      /\ BR' = word
      /\ internal_buffer' = filled
      /\ IF done
           THEN /\ current_sector_number < MaxSectors
                /\ current_position' = 0
                /\ disk' = write(filled, next_block)
                /\ current_sector_number' = current_sector_number + 1
                /\ STS' = sector_status(current_sector_number')
                /\ raise_interrupt
           ELSE /\ current_position' = current_position + 2
                /\ STS' = STS \cup {"BUSY"}
                /\ UNCHANGED <<disk, current_sector_number, irq, interrupt_raised>>
      /\ accessed("write", done)
      /\ UNCHANGED <<file_state, regs, interrupt_enabled, new_buffer,
                     sector_numbers_cmd, lba, crashed, masked>>

(***************************************************************************)
(* The word read from the buffer.  Past its end, which a sector begun with *)
(* writes can reach, the memory that follows is read: any word.            *)
(***************************************************************************)
buffer_word(w) ==
  IF 2 * current_position + 1 \in Positions
    THEN w = <<internal_buffer[2 * current_position],
               internal_buffer[2 * current_position + 1]>>
    ELSE TRUE

\* mutant: the word pointer is never set.
point_to_buffer_skipped == UNCHANGED new_buffer

point_to_buffer == new_buffer' = (new_buffer \/ current_position = 0)

read_BR_register ==
  LET done == current_position + 1 >= BLOCK_SIZE_BYTE \div 2
      last == sector_numbers_cmd = current_sector_number
  IN  /\ ~crashed
      /\ current_position = 0 \/ new_buffer
      /\ point_to_buffer
      /\ \E w \in DiskBytes \X DiskBytes : buffer_word(w) /\ BR' = w
      /\ IF done
           THEN /\ current_position' = 0
                /\ STS' = sector_status(current_sector_number)
                /\ IF last
                     THEN UNCHANGED <<internal_buffer, current_sector_number,
                                      irq, interrupt_raised>>
                     ELSE read_from_backend
           ELSE /\ current_position' = current_position + 1
                /\ STS' = STS \cup {"BUSY"}
                /\ UNCHANGED <<internal_buffer, current_sector_number, irq,
                               interrupt_raised>>
      /\ accessed("read", done)
      /\ UNCHANGED <<diskVars, regs, interrupt_enabled, sector_numbers_cmd, lba,
                     crashed, masked>>

\* The same method before any read at position 0 has set new_buffer.
read_BR_null ==
  /\ ~crashed
  /\ current_position # 0
  /\ ~new_buffer
  /\ crashed' = TRUE
  /\ accessed("read", FALSE)
  /\ UNCHANGED <<diskVars, regs, STS, interrupt_enabled, interrupt_raised,
                 internal_buffer, new_buffer, current_position,
                 current_sector_number, BR, sector_numbers_cmd, lba, irq, masked>>

tamper ==
  /\ file_tampered
  /\ UNCHANGED <<regs, STS, interrupt_enabled, interrupt_raised, transfer,
                 sector_numbers_cmd, lba, irq, crashed, masked>>

Next ==
  \/ \E r \in Registers : \E val \in RegisterValues[r] : write_register(r, val)
  \/ \E command \in {READ_SECTORS, WRITE_SECTORS, 0} : write_CMD(command)
  \/ \E val \in {0, 2, 10} : write_DCR(val)
  \/ read_STS
  \/ take_interrupt
  \/ \E word \in Words : write_BR_register(word)
  \/ read_BR_register
  \/ read_BR_null
  \/ tamper
  \/ restart

Spec == Init /\ [][Next]_vars

-----------------------------------------------------------------------------
(***************************************************************************)
(* Types; in particular the position never leaves the sector buffer.       *)
(***************************************************************************)
TypeOK ==
  /\ disk \in [BlockNumbers -> Block]
  /\ file_state \in {"ok", "readonly", "resized"}
  /\ regs \in [Registers -> 0..(REG - 1)]
  /\ STS \subseteq {"BUSY", "DRQ"}
  /\ BR \in DiskBytes \X DiskBytes
  /\ interrupt_enabled \in BOOLEAN
  /\ interrupt_raised \in BOOLEAN
  /\ internal_buffer \in Block
  /\ new_buffer \in BOOLEAN
  /\ current_position \in 0..(BLOCK_SIZE_BYTE - 2)
  /\ sector_numbers_cmd \in 0..(REG - 1)
  /\ current_sector_number \in 0..MaxSectors
  /\ lba \in 0..(LBA_SPACE - 1)
  /\ irq \in IrqStates
  /\ crashed \in BOOLEAN
  /\ direction \in {"none", "read", "write"}
  /\ mixed \in BOOLEAN
  /\ masked \in BOOLEAN

(***************************************************************************)
(* At a sector boundary the disk is not busy, whatever commands were given *)
(* in the middle of sectors: a guest that polls for BUSY to clear before   *)
(* programming a command does not wait for ever.                           *)
(***************************************************************************)
IdleAtBoundary == current_position = 0 => "BUSY" \notin STS

(***************************************************************************)
(* The position counts bytes in a write and words in a read.  As long as   *)
(* no sector is accessed both ways, a read stays inside the buffer and     *)
(* never goes through the null word pointer, and a write stays on word     *)
(* boundaries.                                                             *)
(***************************************************************************)
OneDirectionIsSafe ==
  ~mixed =>
    /\ ~crashed
    /\ direction = "none" => current_position = 0
    /\ direction = "read" => new_buffer /\ current_position < BLOCK_SIZE_BYTE \div 2
    /\ direction = "write" => current_position % 2 = 0

(***************************************************************************)
(* interrupt_raised tells whether line 14 is up, and an interrupt is only  *)
(* up while the guest wants it, unless the guest disabled interrupts while *)
(* one was up (write_DCR forgets it and leaves the line as it is).         *)
(***************************************************************************)
LineTracked ==
  /\ interrupt_raised => interrupt_enabled /\ irq.line = 1
  /\ ~masked => (irq.line = 1 => interrupt_raised)
=============================================================================
