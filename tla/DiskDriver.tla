----------------------------- MODULE DiskDriver -----------------------------
(***************************************************************************)
(* The disk under the polling driver of the repository's test programs:    *)
(* scrivisett of target-sources/pci-hdd-1.cpp and leggisett of             *)
(* target-sources/pci-hdd-2.cpp.  The monitor may be stopped and started   *)
(* again at any point of a transfer.                                       *)
(***************************************************************************)
EXTENDS HardDisk, Sequences

CONSTANTS LbaValues,                \* first sectors the guest asks for
          QuantiValues,             \* numbers of sectors it asks for
          MaxCommands               \* bound: commands between two starts

ASSUME DriverAssumption ==
  /\ LbaValues \subseteq 0..(LBA_SPACE - 1)
  /\ QuantiValues \subseteq 1..(REG - 1)
  /\ MaxCommands \in Nat

(***************************************************************************)
(* 2^24 divides 2^28 and 2^28 divides 2^32: the four lba registers hold 32 *)
(* bits, of which the lba uses the lower 28.                               *)
(***************************************************************************)
ASSUME GeometryAssumption ==
  /\ LBA_SPACE % (REG * REG * REG) = 0
  /\ (REG * REG * REG * REG) % LBA_SPACE = 0

VARIABLES dpc,                      \* where the driver is
          command,                  \* READ_SECTORS or WRITE_SECTORS
          first, quanti,            \* its arguments lba and quanti
          sectors,                  \* its counter i: sectors moved so far
          vetti,                    \* the words of the sectors read so far
          commands,                 \* history: commands given since the start
          base                      \* history: the disk when the command began

driverVars == <<dpc, command, first, quanti, sectors, vetti, commands, base>>
driverSystemVars == <<vars, driverVars>>

WordsPerSector == BLOCK_SIZE_BYTE \div 2

(***************************************************************************)
(* The word that scrivisett writes in place j of sector i: every sector of *)
(* a command has its own contents.                                         *)
(***************************************************************************)
vetto(i, j) == <<i + 1, j>>

\* They are words of the disk, however many sectors a command has.
ASSUME VettoAssumption ==
  \A i \in 0..(REG - 2), j \in 0..(WordsPerSector - 1) :
    vetto(i, j) \in DiskBytes \X DiskBytes

SectorOf(i) == [p \in Positions |-> vetto(i, p \div 2)[(p % 2) + 1]]

DriverInit ==
  /\ Init
  /\ dpc = "idle"
  /\ command = READ_SECTORS
  /\ first = 0
  /\ quanti = 0
  /\ sectors = 0
  /\ vetti = << >>
  /\ commands = 0
  /\ base = disk

-----------------------------------------------------------------------------
call(cmd, l, n) ==
  /\ dpc = "idle"
  /\ commands < MaxCommands
  /\ dpc' = "ready"
  /\ command' = cmd
  /\ first' = l
  /\ quanti' = n
  /\ sectors' = 0
  /\ vetti' = << >>
  /\ commands' = commands + 1
  /\ base' = disk
  /\ UNCHANGED vars

\* do inputb(iSTS + bar0, s) while (s & 0x80), in leggisett
poll_ready ==
  /\ dpc = "ready"
  /\ command = READ_SECTORS
  /\ read_STS
  /\ dpc' = IF "BUSY" \in STS THEN "ready" ELSE "SNR"
  /\ UNCHANGED <<command, first, quanti, sectors, vetti, commands, base>>

(***************************************************************************)
(* The same loop of scrivisett leaves out bar0: it reads port 7, which no  *)
(* device owns and for which KVM hands the guest a zero.                   *)
(***************************************************************************)
poll_unowned ==
  /\ dpc = "ready"
  /\ command = WRITE_SECTORS
  /\ dpc' = "SNR"
  /\ UNCHANGED <<vars, command, first, quanti, sectors, vetti, commands, base>>

(***************************************************************************)
(* The five outputb that program the registers, in order; the drive select *)
(* bits of HND (| 0xE0) are above what the lba uses.                       *)
(***************************************************************************)
Program ==
  << [reg |-> "SNR", val |-> first % REG],
     [reg |-> "CNL", val |-> (first \div REG) % REG],
     [reg |-> "CNH", val |-> (first \div (REG * REG)) % REG],
     [reg |-> "HND", val |-> first \div (REG * REG * REG)
                             + (REG - LBA_SPACE \div (REG * REG * REG))],
     [reg |-> "SCR", val |-> quanti] >>

outputb(k) ==
  /\ dpc = Program[k].reg
  /\ write_register(Program[k].reg, Program[k].val)
  /\ dpc' = IF k = Len(Program) THEN "DCR" ELSE Program[k + 1].reg
  /\ UNCHANGED <<command, first, quanti, sectors, vetti, commands, base>>

disable_interrupts ==
  /\ dpc = "DCR"
  /\ write_DCR(10)
  /\ dpc' = "CMD"
  /\ UNCHANGED <<command, first, quanti, sectors, vetti, commands, base>>

give_command ==
  /\ dpc = "CMD"
  /\ write_CMD(command)
  /\ dpc' = "poll"
  /\ UNCHANGED <<command, first, quanti, sectors, vetti, commands, base>>

\* do inputb(iSTS, s) while ((s & 0x88) != 0x08)
poll_sector ==
  /\ dpc = "poll"
  /\ read_STS
  /\ dpc' = IF STS = {"DRQ"} THEN "transfer" ELSE "poll"
  /\ UNCHANGED <<command, first, quanti, sectors, vetti, commands, base>>

\* The loop over the words of a sector, one port access a step.
sector_moved ==
  IF current_position' = 0
    THEN /\ sectors' = sectors + 1
         /\ dpc' = IF sectors' = quanti THEN "idle" ELSE "poll"
    ELSE UNCHANGED <<sectors, dpc>>

output_word ==
  /\ dpc = "transfer"
  /\ command = WRITE_SECTORS
  /\ write_BR_register(vetto(sectors, current_position \div 2))
  /\ sector_moved
  /\ UNCHANGED <<command, first, quanti, vetti, commands, base>>

input_word ==
  /\ dpc = "transfer"
  /\ command = READ_SECTORS
  /\ read_BR_register
  /\ vetti' = Append(vetti, BR')
  /\ sector_moved
  /\ UNCHANGED <<command, first, quanti, commands, base>>

Driver ==
  \/ poll_ready
  \/ poll_unowned
  \/ \E k \in 1..Len(Program) : outputb(k)
  \/ disable_interrupts
  \/ give_command
  \/ poll_sector
  \/ output_word
  \/ input_word

\* The monitor is stopped and started again; the guest boots anew.
power_cycle ==
  /\ restart
  /\ dpc' = "idle"
  /\ sectors' = 0
  /\ quanti' = 0
  /\ vetti' = << >>
  /\ commands' = 0
  /\ base' = disk'
  /\ UNCHANGED <<command, first>>

Calls ==
  \E cmd \in {READ_SECTORS, WRITE_SECTORS}, l \in LbaValues, n \in QuantiValues :
    call(cmd, l, n)

DriverNext == Calls \/ Driver \/ power_cycle

(***************************************************************************)
(* The vCPU keeps executing a driver that has been called.                 *)
(***************************************************************************)
DriverSpec ==
  DriverInit /\ [][DriverNext]_driverSystemVars /\ WF_driverSystemVars(Driver)

-----------------------------------------------------------------------------
\* The disk a write command leaves once n of its sectors were moved.
Written(n) ==
  [b \in BlockNumbers |-> IF b - first \in 0..(n - 1) THEN SectorOf(b - first)
                                                      ELSE base[b]]

\* No block of the command aliases another one through 32-bit arithmetic.
NoWrap == (first + quanti) * BLOCK_SIZE_BYTE <= UINT32

(***************************************************************************)
(* At every point of the first write command after a start, and hence at   *)
(* every point where the monitor may be stopped, the disk holds exactly    *)
(* the sectors moved so far, each in the block asked for, and nothing else *)
(* changed; sectors beyond the end of the disk are discarded               *)
(* (write_BR_register, DiskManager::write).                                *)
(***************************************************************************)
FirstWriteLands ==
  commands = 1 /\ command = WRITE_SECTORS /\ file_state = "ok" /\ NoWrap =>
    disk = Written(sectors)

\* The words of vetti that came from sector i of the command.
ReadSector(i) ==
  [p \in Positions |-> vetti[i * WordsPerSector + (p \div 2) + 1][(p % 2) + 1]]

SectorReadIsBlock(i) ==
  first + i \in BlockNumbers => ReadSector(i) = base[first + i]

(***************************************************************************)
(* From its second sector on, the first read command after a start returns *)
(* the blocks asked for (read_BR_register, read_from_backend).             *)
(***************************************************************************)
LaterSectorsRead ==
  commands = 1 /\ command = READ_SECTORS /\ NoWrap =>
    \A i \in 1..(sectors - 1) : SectorReadIsBlock(i)

(***************************************************************************)
(* The first command after a start comes to its end: BUSY and DRQ never    *)
(* leave the driver polling for ever.                                      *)
(***************************************************************************)
FirstCommandTerminates ==
  commands = 1 /\ dpc # "idle" ~> dpc = "idle"

-----------------------------------------------------------------------------
(***************************************************************************)
(* What the test program expects of leggisett(lba, quanti, vetti): every   *)
(* sector read, the first included, is the block asked for.                *)
(***************************************************************************)
AllSectorsRead ==
  commands = 1 /\ command = READ_SECTORS /\ NoWrap =>
    \A i \in 0..(sectors - 1) : SectorReadIsBlock(i)

(***************************************************************************)
(* The lba stored with a command is where its sectors go, for every        *)
(* command and not only for the first one.                                 *)
(***************************************************************************)
EveryWriteLands ==
  command = WRITE_SECTORS /\ file_state = "ok" /\ NoWrap => disk = Written(sectors)

(***************************************************************************)
(* The block address is computed in 64 bits: a write beyond the end of the *)
(* disk is refused and never lands on a block of the disk.                 *)
(***************************************************************************)
BeyondEndRefused == first >= blocks_number => disk = base
=============================================================================
