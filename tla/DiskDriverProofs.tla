-------------------------- MODULE DiskDriverProofs --------------------------
(***************************************************************************)
(* Theorems about the polling driver on the disk, for every block size,    *)
(* disk size, register width, lba and number of sectors, with the monitor  *)
(* stopped and started at any point: the first command after a start moves *)
(* the sectors it names, a read all but the first of them.                 *)
(***************************************************************************)
EXTENDS DiskDriver, HardDiskProofs

-----------------------------------------------------------------------------
(***************************************************************************)
(* Division, for numbers of any size.                                      *)
(***************************************************************************)
LEMMA DivUnique ==
  ASSUME NEW b \in Nat \ {0}, NEW q \in Nat, NEW r \in Nat, r < b
  PROVE  (q * b + r) \div b = q /\ (q * b + r) % b = r
<1> PICK a \in Nat : a = q * b + r
  <2>1. q * b \in Nat
    OBVIOUS
  <2>2. QED
    BY <2>1
<1> PICK d \in Nat : d = a \div b
  BY Z3
<1> PICK e \in Nat : e = a % b
  BY Z3
<1>1. a = d * b + e /\ e < b
  BY Z3
<1>2. ASSUME NEW x \in Nat, NEW y \in Nat, NEW s \in Nat, NEW t \in Nat,
             x * b + s = y * b + t, s < b, t < b
      PROVE  x <= y
  <2>1. ASSUME x >= y + 1 PROVE FALSE
    <3>1. x * b >= (y + 1) * b /\ (y + 1) * b = y * b + b
      BY <2>1, Z3
    <3>2. x * b \in Nat /\ y * b \in Nat
      OBVIOUS
    <3>3. QED
      BY <1>2, <3>1, <3>2
  <2>2. QED
    BY <2>1
<1>3. d <= q /\ q <= d
  <2>1. d * b + e = q * b + r
    BY <1>1
  <2>2. QED
    BY <1>1, <1>2, <2>1
<1>4. d = q
  BY <1>3
<1>5. e = r
  <2>1. d * b \in Nat
    OBVIOUS
  <2>2. QED
    BY <1>1, <1>4, <2>1
<1>6. QED
  BY <1>4, <1>5

LEMMA DivMod ==
  ASSUME NEW a \in Nat, NEW b \in Nat \ {0}
  PROVE  /\ a \div b \in Nat /\ a % b \in 0..(b - 1)
         /\ a = (a \div b) * b + (a % b)
<1> PICK d \in Nat : d = a \div b
  BY Z3
<1> PICK e \in Nat : e = a % b
  BY Z3
<1>1. a = d * b + e /\ e < b
  BY Z3
<1>2. e \in 0..(b - 1)
  BY <1>1
<1>3. QED
  BY <1>1, <1>2, Zenon

LEMMA DivModExists ==
  ASSUME NEW a \in Nat, NEW b \in Nat \ {0}
  PROVE  \E x \in Nat, y \in Nat : x = a \div b /\ y = a % b /\ a = x * b + y
<1>1. PICK y \in Nat : y = a % b
  BY DivMod
<1>2. QED
  BY <1>1, DivMod, Zenon

LEMMA DivDiv ==
  ASSUME NEW a \in Nat, NEW b \in Nat \ {0}, NEW c \in Nat \ {0}
  PROVE  (a \div b) \div c = a \div (b * c)
<1> PICK x \in Nat : x = a \div b
  BY DivMod
<1> PICK r \in 0..(b - 1) : r = a % b
  BY DivMod
<1> PICK y \in Nat : y = x \div c
  BY DivMod
<1> PICK s \in 0..(c - 1) : s = x % c
  BY DivMod
<1>1. a = x * b + r /\ x = y * c + s
  BY DivMod
<1>2. a = y * (b * c) + (s * b + r)
  <2>1. (y * c + s) * b = y * (b * c) + s * b
    BY Z3
  <2>2. a = (y * c + s) * b + r
    BY <1>1
  <2>3. y * (b * c) \in Nat /\ s * b \in Nat
    BY Z3
  <2>4. QED
    BY <2>1, <2>2, <2>3
<1>3. s * b + r \in Nat /\ s * b + r < b * c
  <2>1. s * b <= (c - 1) * b /\ (c - 1) * b = b * c - b
    BY Z3
  <2>2. s * b \in Nat /\ b * c \in Nat
    BY Z3
  <2>3. QED
    BY <2>1, <2>2
<1>4. b * c \in Nat \ {0}
  BY Z3
<1>5. PICK m \in Nat \ {0} : m = b * c
  BY <1>4
<1>6. PICK t \in Nat : t = s * b + r
  BY <1>3
<1>7. (y * m + t) \div m = y
  BY <1>3, <1>5, <1>6, DivUnique
<1>8. a = y * m + t
  BY <1>2, <1>5, <1>6
<1>9. QED
  BY <1>5, <1>7, <1>8

LEMMA DivThree ==
  ASSUME NEW f \in Nat, NEW b \in Nat \ {0}
  PROVE  /\ (f \div b) \div b = f \div (b * b)
         /\ ((f \div b) \div b) \div b = f \div (b * b * b)
<1>1. (f \div b) \div b = f \div (b * b)
  BY DivDiv
<1>2. PICK d \in Nat \ {0} : d = b * b
  BY Z3
<1>3. (f \div d) \div b = f \div (d * b)
  BY DivDiv
<1>4. QED
  BY <1>1, <1>2, <1>3, Zenon

(***************************************************************************)
(* The lba registers: three whole ones and the part m of the fourth.       *)
(***************************************************************************)
LEMMA Geometry ==
  \E m \in 1..REG, q \in Nat \ {0} :
    /\ LBA_SPACE = m * (REG * REG * REG)
    /\ LBA_SPACE \div (REG * REG * REG) = m
    /\ REG * (REG * REG * REG) = q * LBA_SPACE
<1> PICK c \in Nat \ {0} : c = REG * REG * REG
  <2>1. REG * REG \in Nat \ {0}
    BY Constants, Z3
  <2>2. REG * REG * REG \in Nat \ {0}
    BY <2>1, Constants, Z3
  <2>3. QED
    BY <2>2
<1> PICK m \in Nat : m = LBA_SPACE \div c
  BY Constants, DivMod
<1> PICK q \in Nat : q = (c * REG) \div LBA_SPACE
  <2>1. c * REG \in Nat
    BY Constants
  <2>2. QED
    BY <2>1, Constants, DivMod
<1>1. LBA_SPACE = m * c
  <2>1. LBA_SPACE % c = 0
    BY GeometryAssumption
  <2>2. LBA_SPACE = m * c + (LBA_SPACE % c)
    BY Constants, DivMod
  <2>3. m * c \in Nat
    OBVIOUS
  <2>4. QED
    BY <2>1, <2>2, <2>3
<1>2. c * REG = q * LBA_SPACE
  <2>1. (c * REG) % LBA_SPACE = 0
    BY GeometryAssumption
  <2>2. c * REG \in Nat
    BY Constants
  <2>3. c * REG = q * LBA_SPACE + ((c * REG) % LBA_SPACE)
    BY <2>2, Constants, DivMod
  <2>4. q * LBA_SPACE \in Nat
    BY Constants
  <2>5. QED
    BY <2>1, <2>3, <2>4
<1>3. m # 0 /\ q # 0
  BY <1>1, <1>2, Constants, Z3
<1>4. m <= REG
  <2>1. ASSUME m >= REG + 1 PROVE FALSE
    <3>1. m * c >= (REG + 1) * c
      BY <2>1, Constants, Z3
    <3>2. (REG + 1) * c = c * REG + c /\ c * REG \in Nat
      BY Constants, Z3
    <3>3. q * LBA_SPACE >= LBA_SPACE
      BY <1>3, Constants, Z3
    <3>4. QED
      BY <1>1, <1>2, <3>1, <3>2, <3>3, Constants
  <2>2. QED
    BY <2>1, Constants
<1>5. REG * c = q * LBA_SPACE
  BY <1>2, Constants
<1>6. m \in 1..REG /\ q \in Nat \ {0}
  BY <1>3, <1>4, Constants
<1>7. QED
  BY <1>1, <1>5, <1>6

(***************************************************************************)
(* The driver writes bytes to the registers.                               *)
(***************************************************************************)
LEMMA ProgramTypes ==
  ASSUME first \in 0..(LBA_SPACE - 1), quanti \in 0..(REG - 1)
  PROVE  /\ Len(Program) = 5
         /\ \A k \in 1..5 : Program[k].val \in 0..(REG - 1) /\ Program[k].reg \in Registers
         /\ Program[1].reg = "SNR" /\ Program[2].reg = "CNL" /\ Program[3].reg = "CNH"
         /\ Program[4].reg = "HND" /\ Program[5].reg = "SCR"
<1>0. /\ Len(Program) = 5
      /\ \A k \in 1..5 : Program[k].reg \in Registers
      /\ Program[1].reg = "SNR" /\ Program[2].reg = "CNL" /\ Program[3].reg = "CNH"
      /\ Program[4].reg = "HND" /\ Program[5].reg = "SCR"
  BY DEF Program, Registers
<1> PICK c \in Nat \ {0} : c = REG * REG * REG
  <2>1. REG * REG \in Nat \ {0}
    BY Constants, Z3
  <2>2. REG * REG * REG \in Nat \ {0}
    BY <2>1, Constants, Z3
  <2>3. QED
    BY <2>2
<1> PICK d \in Nat \ {0} : d = REG * REG
  BY Constants, Z3
<1> PICK m \in 1..REG : LBA_SPACE = m * c /\ LBA_SPACE \div c = m
  BY Geometry
<1>1. first \in Nat
  BY Constants
<1>2. Program[1].val \in 0..(REG - 1)
  BY <1>1, Constants, DivMod DEF Program
<1>3. Program[2].val \in 0..(REG - 1)
  BY <1>1, Constants, DivMod DEF Program
<1>4. Program[3].val \in 0..(REG - 1)
  <2>1. Program[3].val = (first \div d) % REG
    BY DEF Program
  <2>2. first \div d \in Nat
    BY <1>1, DivMod
  <2>3. QED
    BY <2>1, <2>2, Constants, DivMod
<1>5. Program[4].val \in 0..(REG - 1)
  <2>1. Program[4].val = first \div c + (REG - m)
    BY DEF Program
  <2>2. first \div c \in 0..(m - 1)
    <3>1. first < m * c
      BY Constants
    <3>2. QED
      BY <1>1, <3>1, BlockOfOffset
  <2>3. QED
    BY <2>1, <2>2, Constants
<1>6. Program[5].val \in 0..(REG - 1)
  BY DEF Program
<1>7. QED
  BY <1>0, <1>2, <1>3, <1>4, <1>5, <1>6

(***************************************************************************)
(* compute_lba reads the lba back from the registers the driver wrote, the *)
(* drive select bits masked off.                                           *)
(***************************************************************************)
LEMMA ComputeLba ==
  ASSUME first \in 0..(LBA_SPACE - 1), quanti \in 0..(REG - 1),
         regs["SNR"] = Program[1].val, regs["CNL"] = Program[2].val,
         regs["CNH"] = Program[3].val, regs["HND"] = Program[4].val
  PROVE  compute_lba = first
<1> PICK d \in Nat \ {0} : d = REG * REG
  BY Constants, Z3
<1> PICK c \in Nat \ {0} : c = REG * REG * REG /\ c = d * REG /\ c = REG * d
  BY Constants, Z3
<1> PICK m \in 1..REG, q \in Nat \ {0} :
      LBA_SPACE = m * c /\ LBA_SPACE \div c = m /\ REG * c = q * LBA_SPACE
  BY Geometry
<1> PICK f \in Nat : f = first /\ f < LBA_SPACE
  BY Constants
<1> PICK f1 \in Nat, s1 \in Nat : f1 = f \div REG /\ s1 = f % REG /\ f = f1 * REG + s1
  BY Constants, DivModExists, Zenon
<1> PICK f2 \in Nat, s2 \in Nat : f2 = f1 \div REG /\ s2 = f1 % REG /\ f1 = f2 * REG + s2
  BY Constants, DivModExists, Zenon
<1> PICK f3 \in Nat, s3 \in Nat : f3 = f2 \div REG /\ s3 = f2 % REG /\ f2 = f3 * REG + s3
  BY Constants, DivModExists, Zenon
<1>1. f2 = f \div d
  <2>1. (f \div REG) \div REG = f \div (REG * REG)
    BY Constants, DivThree, Zenon
  <2>2. QED
    BY <2>1, Zenon
<1>2. f3 = f \div c
  <2>1. ((f \div REG) \div REG) \div REG = f \div (REG * REG * REG)
    BY Constants, DivThree, Zenon
  <2>2. QED
    BY <2>1, Zenon
<1>3. regs["SNR"] = s1 /\ regs["CNL"] = s2
  BY DEF Program
<1>4. regs["CNH"] = s3
  BY <1>1 DEF Program
<1>5. regs["HND"] = f3 + (REG - m)
  BY <1>2 DEF Program
<1> PICK n \in Nat : n = REG - m
  BY Constants
<1>6. (((f3 + n) * REG + s3) * REG + s2) * REG + s1 = f + n * c
  <2>1. (f3 + n) * REG + s3 = f2 + n * REG
    BY Constants, Z3
  <2>2. (f2 + n * REG) * REG + s2 = f1 + n * d
    BY Constants, Z3
  <2>3. (f1 + n * d) * REG + s1 = f + n * c
    BY Constants, Z3
  <2>4. QED
    BY <2>1, <2>2, <2>3
<1>7. n * c = (q - 1) * LBA_SPACE
  <2>1. n * c = REG * c - m * c
    BY Constants, Z3
  <2>2. (q - 1) * LBA_SPACE = q * LBA_SPACE - LBA_SPACE
    BY Constants, Z3
  <2>3. QED
    BY <2>1, <2>2
<1>8. PICK p \in Nat : p = q - 1
  OBVIOUS
<1>9. (p * LBA_SPACE + f) % LBA_SPACE = f
  BY Constants, DivUnique
<1>10. compute_lba = (f + n * c) % LBA_SPACE
  BY <1>3, <1>4, <1>5, <1>6 DEF compute_lba
<1>11. f + n * c = p * LBA_SPACE + f
  <2>1. p * LBA_SPACE \in Nat
    BY Constants
  <2>2. QED
    BY <1>7, <1>8, <2>1
<1>12. QED
  BY <1>9, <1>10, <1>11

-----------------------------------------------------------------------------
LEMMA HalfBlock ==
  /\ WordsPerSector \in Nat \ {0}
  /\ BLOCK_SIZE_BYTE = 2 * WordsPerSector
  BY Constants DEF WordsPerSector

(***************************************************************************)
(* Where nothing wraps, the block addressed is the one asked for, and it   *)
(* is out of bounds exactly when the disk has no such block (DiskManager). *)
(***************************************************************************)
LEMMA NoWrapAddress ==
  ASSUME first \in Nat, quanti \in Nat, NoWrap, NEW n \in Nat, n < quanti
  PROVE  /\ (first + n) % UINT32 = first + n
         /\ first + n \in BlockNumbers =>
              ~out_of_bound(first + n) /\ addressed(first + n) = first + n
         /\ first + n \notin BlockNumbers => out_of_bound(first + n)
<1> PICK k \in Nat : k = first + n
  OBVIOUS
<1> PICK b \in Nat \ {0} : b = BLOCK_SIZE_BYTE
  BY Constants
<1>1. k * b \in Nat /\ k <= k * b /\ k * b < UINT32
  <2>1. PICK t \in Nat : t = first + quanti
    OBVIOUS
  <2>2. t * b <= UINT32
    BY <2>1 DEF NoWrap
  <2>3. t >= k + 1
    BY <2>1
  <2>4. (k + 1) * b <= t * b /\ (k + 1) * b = k * b + b
    BY <2>1, <2>3, Z3
  <2>5. k * b \in Nat /\ k <= k * b
    BY Z3
  <2>6. t * b \in Nat
    BY <2>1
  <2>7. QED
    BY <2>2, <2>4, <2>5, <2>6, Constants
<1>2. k % UINT32 = k
  BY <1>1, Constants
<1>3. block_address(k) = k * b
  BY <1>1, Constants DEF block_address
<1>4. ASSUME k < blocks_number
      PROVE  ~out_of_bound(k) /\ addressed(k) = k
  <2>1. (k + 1) * b <= blocks_number * b /\ (k + 1) * b = k * b + b
    BY <1>4, Constants, Z3
  <2>2. blocks_number * b \in Nat
    BY Constants
  <2>3. k * b < blocks_number * b
    BY <1>1, <2>1, <2>2
  <2>4. ~out_of_bound(k)
    BY <1>1, <1>3, <2>2, <2>3 DEF out_of_bound, disk_size
  <2>5. (k * b + 0) \div b = k
    BY DivUnique
  <2>6. addressed(k) = k
    BY <1>1, <1>3, <2>5 DEF addressed
  <2>7. QED
    BY <2>4, <2>6
<1>5. ASSUME k >= blocks_number
      PROVE  out_of_bound(k)
  <2>1. k * b >= blocks_number * b
    BY <1>5, Constants, Z3
  <2>2. QED
    BY <1>3, <2>1 DEF out_of_bound, disk_size
<1>6. QED
  BY <1>2, <1>4, <1>5, Constants DEF BlockNumbers

-----------------------------------------------------------------------------
Programming == {"ready", "SNR", "CNL", "CNH", "HND", "SCR", "DCR", "CMD"}
Moving == {"poll", "transfer"}

\* Types, whatever command it is; the disk's own invariant is among them.
DriverTypes ==
  /\ DiskInv
  /\ file_state # "resized"
  /\ dpc \in {"idle"} \cup Programming \cup Moving
  /\ command \in {READ_SECTORS, WRITE_SECTORS}
  /\ first \in 0..(LBA_SPACE - 1)
  /\ quanti \in 0..(REG - 1)
  /\ sectors \in 0..quanti
  /\ dpc # "idle" => sectors < quanti
  /\ commands \in Nat
  /\ vetti \in Seq(DiskBytes \X DiskBytes)
  /\ base \in [BlockNumbers -> Block]

-----------------------------------------------------------------------------
(***************************************************************************)
(* What holds of the first command.                                        *)
(***************************************************************************)
\* The disk as the constructor leaves it.
Untouched ==
  current_position = 0 /\ current_sector_number = 0 /\ sectors = 0 /\ vetti = << >>

\* The registers programmed so far.
Programmed ==
  /\ dpc \in {"CNL", "CNH", "HND", "SCR", "DCR", "CMD"} => regs["SNR"] = Program[1].val
  /\ dpc \in {"CNH", "HND", "SCR", "DCR", "CMD"} => regs["CNL"] = Program[2].val
  /\ dpc \in {"HND", "SCR", "DCR", "CMD"} => regs["CNH"] = Program[3].val
  /\ dpc \in {"SCR", "DCR", "CMD"} => regs["HND"] = Program[4].val
  /\ dpc \in {"DCR", "CMD"} => regs["SCR"] = Program[5].val

\* The part of the sector that was sent is in the buffer.
WriteBuffer ==
  dpc \in Moving =>
    /\ current_position % 2 = 0
    /\ current_sector_number = sectors
    /\ \A p \in 0..(current_position - 1) : internal_buffer[p] = SectorOf(sectors)[p]

\* The words of the sector that were received came from the buffer, and the
\* buffer from the block, unless it is the first sector.
ReadBuffer ==
  dpc \in Moving =>
    /\ current_position < WordsPerSector
    /\ current_sector_number = sectors + 1
    /\ \A j \in 0..(current_position - 1) :
         vetti[sectors * WordsPerSector + j + 1] =
           <<internal_buffer[2 * j], internal_buffer[2 * j + 1]>>
    /\ NoWrap /\ sectors > 0 /\ first + sectors \in BlockNumbers =>
         internal_buffer = base[first + sectors]

Received ==
  Len(vetti) = sectors * WordsPerSector + IF dpc \in Moving THEN current_position ELSE 0

FirstCommand ==
  /\ commands = 0 => dpc = "idle" /\ Untouched
  /\ commands = 1 =>
       /\ dpc \in Programming => Untouched /\ Programmed /\ disk = base
       /\ dpc \in Moving => lba = first /\ sector_numbers_cmd = quanti
       /\ dpc = "poll" => current_position = 0
       /\ command = WRITE_SECTORS =>
            WriteBuffer /\ (file_state = "ok" /\ NoWrap => disk = Written(sectors))
       /\ command = READ_SECTORS => ReadBuffer /\ Received /\ disk = base /\ LaterSectorsRead
-----------------------------------------------------------------------------
(***************************************************************************)
(* Types.  The commands go to the disk through the ports alone, so the     *)
(* invariant of the disk under an arbitrary guest holds of this one.       *)
(***************************************************************************)
LEMMA TypesInit == DriverInit => DriverTypes
<1> SUFFICES ASSUME DriverInit PROVE DriverTypes
  OBVIOUS
<1>1. disk \in [BlockNumbers -> Block] /\ file_state \in {"ok", "readonly"}
  BY ContentAssumption DEF DriverInit, Init, DiskInit
<1>2. DiskInv
  BY <1>1, PowerOnInv DEF DriverInit, Init
<1>3. /\ first \in 0..(LBA_SPACE - 1)
      /\ quanti \in 0..(REG - 1)
      /\ sectors \in 0..quanti
  BY Constants DEF DriverInit
<1>4. vetti \in Seq(DiskBytes \X DiskBytes)
  BY DEF DriverInit
<1>5. QED
  BY <1>1, <1>2, <1>3, <1>4 DEF DriverInit, DriverTypes

\* The word the driver writes next is a word.
LEMMA VettoWord ==
  ASSUME DriverTypes, dpc = "transfer"
  PROVE  /\ sectors \in 0..(REG - 2)
         /\ current_position \div 2 \in 0..(WordsPerSector - 1)
         /\ vetto(sectors, current_position \div 2) \in DiskBytes \X DiskBytes
<1>1. sectors \in 0..(REG - 2)
  BY Constants DEF DriverTypes
<1>2. current_position \in 0..(2 * WordsPerSector - 2)
  BY HalfBlock DEF DriverTypes, DiskInv, TypeOK
<1>3. current_position \div 2 \in 0..(WordsPerSector - 1)
  BY <1>2, HalfBlock
<1>4. QED
  BY <1>1, <1>3, VettoAssumption

\* What sector_moved does to the driver's counter.
LEMMA SectorMovedTypes ==
  ASSUME DriverTypes, dpc = "transfer", sector_moved, quanti' = quanti
  PROVE  /\ sectors' \in 0..quanti'
         /\ dpc' \in {"idle", "poll", "transfer"}
         /\ dpc' # "idle" => sectors' < quanti'
<1>1. sectors \in Nat /\ quanti \in Nat /\ sectors < quanti
  BY Constants DEF DriverTypes
<1>2. CASE current_position' = 0
  BY <1>1, <1>2 DEF sector_moved
<1>3. CASE current_position' # 0
  BY <1>1, <1>3 DEF sector_moved
<1>4. QED
  BY <1>2, <1>3

LEMMA TypesStep ==
  ASSUME DriverTypes, [DriverNext]_driverSystemVars
  PROVE  DriverTypes'
<1> USE DEF DriverTypes
<1>1. ASSUME NEW cmd \in {READ_SECTORS, WRITE_SECTORS}, NEW l \in LbaValues,
             NEW n \in QuantiValues, call(cmd, l, n)
      PROVE  DriverTypes'
  <2>1. DiskInv'
    BY <1>1 DEF call, vars, diskVars, transfer, DiskInv, TypeOK, IdleAtBoundary,
                OneDirectionIsSafe, LineTracked
  <2>2. l \in 0..(LBA_SPACE - 1) /\ n \in 1..(REG - 1)
    BY DriverAssumption
  <2>3. base' \in [BlockNumbers -> Block] /\ file_state' = file_state
    BY <1>1 DEF call, vars, diskVars, DiskInv, TypeOK
  <2>4. vetti' \in Seq(DiskBytes \X DiskBytes)
    BY <1>1 DEF call
  <2>5. /\ first' \in 0..(LBA_SPACE - 1)
        /\ quanti' \in 0..(REG - 1)
        /\ sectors' \in 0..quanti'
        /\ sectors' < quanti'
        /\ commands' \in Nat
    BY <1>1, <2>2, Constants DEF call
  <2>6. dpc' = "ready" /\ command' = cmd
    BY <1>1 DEF call
  <2>7. QED
    BY <2>1, <2>3, <2>4, <2>5, <2>6 DEF Programming
<1>2. CASE poll_ready
  <2>1. DiskInv' /\ file_state' = file_state
    BY <1>2, StatusKeepsInv DEF poll_ready, read_STS, diskVars
  <2>2. dpc' \in {"ready", "SNR"}
    BY <1>2 DEF poll_ready
  <2>3. QED
    BY <1>2, <2>1, <2>2 DEF poll_ready, Programming
<1>3. CASE poll_unowned
  <2>1. DiskInv' /\ file_state' = file_state
    BY <1>3 DEF poll_unowned, vars, diskVars, transfer, DiskInv, TypeOK, IdleAtBoundary,
                OneDirectionIsSafe, LineTracked
  <2>2. QED
    BY <1>3, <2>1 DEF poll_unowned, Programming
<1>4. ASSUME NEW k \in 1..Len(Program), outputb(k)
      PROVE  DriverTypes'
  <2>1. /\ Len(Program) = 5
        /\ Program[k].val \in 0..(REG - 1) /\ Program[k].reg \in Registers
    BY ProgramTypes
  <2>2. DiskInv' /\ file_state' = file_state
    BY <1>4, <2>1, RegisterKeepsInv DEF outputb, write_register, diskVars
  <2>3. dpc' \in Programming /\ dpc # "idle"
    <3>1. k \in {1, 2, 3, 4, 5}
      BY <2>1
    <3>2. QED
      BY <1>4, <2>1, <3>1, ProgramTypes DEF outputb, Programming, Registers
  <2>4. QED
    BY <1>4, <2>2, <2>3 DEF outputb
<1>5. CASE disable_interrupts
  <2>1. DiskInv' /\ file_state' = file_state
    BY <1>5, ControlKeepsInv DEF disable_interrupts, write_DCR, diskVars
  <2>2. QED
    BY <1>5, <2>1 DEF disable_interrupts, Programming
<1>6. CASE give_command
  <2>1. DiskInv' /\ file_state' = file_state
    BY <1>6, CommandKeepsInv DEF give_command, write_CMD, diskVars
  <2>2. QED
    BY <1>6, <2>1 DEF give_command, Moving
<1>7. CASE poll_sector
  <2>1. DiskInv' /\ file_state' = file_state
    BY <1>7, StatusKeepsInv DEF poll_sector, read_STS, diskVars
  <2>2. dpc' \in Moving
    BY <1>7 DEF poll_sector, Moving
  <2>3. QED
    BY <1>7, <2>1, <2>2 DEF poll_sector, Moving
<1>8. CASE output_word
  <2>1. DiskInv' /\ file_state' = file_state
    BY <1>8, VettoWord, WriteWordKeepsInv DEF output_word, write_BR_register
  <2>2. /\ sectors' \in 0..quanti'
        /\ dpc' \in {"idle", "poll", "transfer"}
        /\ dpc' # "idle" => sectors' < quanti'
    BY <1>8, SectorMovedTypes DEF output_word
  <2>3. QED
    BY <1>8, <2>1, <2>2 DEF output_word, Moving
<1>9. CASE input_word
  <2>1. DiskInv' /\ file_state' = file_state
    BY <1>9, ReadWordKeepsInv DEF input_word, read_BR_register, diskVars
  <2>2. /\ sectors' \in 0..quanti'
        /\ dpc' \in {"idle", "poll", "transfer"}
        /\ dpc' # "idle" => sectors' < quanti'
    BY <1>9, SectorMovedTypes DEF input_word
  <2>3. vetti' \in Seq(DiskBytes \X DiskBytes)
    <3>1. BR' \in DiskBytes \X DiskBytes
      BY <2>1 DEF DiskInv, TypeOK
    <3>2. vetti' = Append(vetti, BR')
      BY <1>9 DEF input_word
    <3>3. QED
      BY <3>1, <3>2
  <2>4. QED
    BY <1>9, <2>1, <2>2, <2>3 DEF input_word, Moving
<1>10. CASE power_cycle
  <2>1. DiskInv'
    BY <1>10, RestartKeepsInv DEF power_cycle
  <2>2. file_state' = file_state
    BY <1>10 DEF power_cycle, restart, open_disk, check_consistency
  <2>3. quanti' \in 0..(REG - 1) /\ sectors' \in 0..quanti'
    BY <1>10, Constants DEF power_cycle
  <2>4. vetti' \in Seq(DiskBytes \X DiskBytes)
    BY <1>10 DEF power_cycle
  <2>5. base' \in [BlockNumbers -> Block]
    BY <1>10, <2>1 DEF power_cycle, DiskInv, TypeOK
  <2>6. QED
    BY <1>10, <2>1, <2>2, <2>3, <2>4, <2>5 DEF power_cycle
<1>11. CASE UNCHANGED driverSystemVars
  <2>1. DiskInv' /\ file_state' = file_state
    BY <1>11 DEF driverSystemVars, vars, diskVars, transfer, DiskInv, TypeOK,
                 IdleAtBoundary, OneDirectionIsSafe, LineTracked
  <2>2. QED
    BY <1>11, <2>1 DEF driverSystemVars, driverVars
<1>12. QED
  BY <1>1, <1>2, <1>3, <1>4, <1>5, <1>6, <1>7, <1>8, <1>9, <1>10, <1>11
     DEF DriverNext, Calls, Driver

-----------------------------------------------------------------------------
(***************************************************************************)
(* The disk that a write leaves, sector by sector.                         *)
(***************************************************************************)
LEMMA WrittenNone ==
  ASSUME base \in [BlockNumbers -> Block]
  PROVE  Written(0) = base
  BY DEF Written

LEMMA WrittenNext ==
  ASSUME first \in Nat, NEW n \in Nat, base \in [BlockNumbers -> Block]
  PROVE  /\ first + n \in BlockNumbers =>
              Written(n + 1) = [Written(n) EXCEPT ![first + n] = SectorOf(n)]
         /\ first + n \notin BlockNumbers => Written(n + 1) = Written(n)
<1>1. ASSUME NEW b \in BlockNumbers
      PROVE  /\ b # first + n => (b - first \in 0..n <=> b - first \in 0..(n - 1))
             /\ b = first + n => b - first \in 0..n /\ b - first = n
  BY Constants DEF BlockNumbers
<1>2. Written(n + 1) = [b \in BlockNumbers |-> IF b - first \in 0..n
                                                THEN SectorOf(b - first) ELSE base[b]]
  BY DEF Written
<1>3. ASSUME NEW b \in BlockNumbers, b # first + n
      PROVE  Written(n + 1)[b] = Written(n)[b]
  BY <1>1, <1>2, <1>3 DEF Written
<1>4. ASSUME first + n \in BlockNumbers
      PROVE  Written(n + 1)[first + n] = SectorOf(n)
  BY <1>1, <1>2, <1>4
<1>5. QED
  BY <1>3, <1>4 DEF Written

\* The two bytes of the word the driver writes at an even position.
LEMMA SectorBytes ==
  ASSUME NEW i, NEW p \in 0..(BLOCK_SIZE_BYTE - 2), p % 2 = 0
  PROVE  /\ SectorOf(i)[p] = vetto(i, p \div 2)[1]
         /\ SectorOf(i)[p + 1] = vetto(i, p \div 2)[2]
<1>1. p \in Positions /\ p + 1 \in Positions
  BY Constants DEF Positions
<1>2. (p + 1) \div 2 = p \div 2 /\ (p + 1) % 2 = 1
  BY Constants
<1>3. QED
  BY <1>1, <1>2 DEF SectorOf

-----------------------------------------------------------------------------
(***************************************************************************)
(* The steps of the first command.  Between the call and the command the   *)
(* driver only programs registers.                                         *)
(***************************************************************************)
LEMMA ProgrammingStep ==
  ASSUME DriverTypes, FirstCommand, dpc \in Programming, dpc' \in Programming,
         commands = 1 => Programmed',
         UNCHANGED <<disk, file_state, current_position, current_sector_number,
                     command, first, quanti, sectors, vetti, commands, base>>
  PROVE  FirstCommand'
<1>1. commands # 0 /\ dpc \notin Moving /\ dpc' \notin Moving /\ dpc' # "poll"
  BY DEF FirstCommand, Programming, Moving
<1>2. SUFFICES ASSUME commands = 1 PROVE FirstCommand'
  BY <1>1 DEF FirstCommand
<1>3. Untouched /\ disk = base
  BY <1>2 DEF FirstCommand
<1>4. Untouched' /\ (disk = base)'
  BY <1>3 DEF Untouched
<1>5. (file_state = "ok" /\ NoWrap => disk = Written(sectors))'
  <2>1. Written(0) = base
    BY WrittenNone DEF DriverTypes
  <2>2. Written(sectors)' = Written(0)
    BY <1>3 DEF Untouched, Written, SectorOf, vetto
  <2>3. QED
    BY <1>4, <2>1, <2>2
<1>6. Received'
  BY <1>1, <1>4, HalfBlock DEF Received, Untouched
<1>7. LaterSectorsRead'
  BY <1>4 DEF LaterSectorsRead, Untouched
<1>8. WriteBuffer' /\ ReadBuffer'
  BY <1>1 DEF WriteBuffer, ReadBuffer
<1>9. QED
  BY <1>1, <1>2, <1>4, <1>5, <1>6, <1>7, <1>8 DEF FirstCommand

LEMMA CallStep ==
  ASSUME DriverTypes, FirstCommand, NEW cmd, NEW l, NEW n, call(cmd, l, n)
  PROVE  FirstCommand'
<1>1. /\ commands' = commands + 1 /\ commands \in Nat
      /\ dpc' = "ready" /\ sectors' = 0 /\ vetti' = << >> /\ base' = disk
      /\ UNCHANGED <<disk, current_position, current_sector_number>>
  BY DEF call, DriverTypes, vars, diskVars, transfer
<1>2. SUFFICES ASSUME commands = 0 PROVE FirstCommand'
  BY <1>1 DEF FirstCommand
<1>3. Untouched'
  BY <1>1, <1>2 DEF FirstCommand, Untouched
<1>4. (disk = base)'
  BY <1>1
<1>5. Programmed'
  BY <1>1 DEF Programmed
<1>6. (disk = Written(sectors))'
  <2>1. base' \in [BlockNumbers -> Block]
    BY <1>1 DEF DriverTypes, DiskInv, TypeOK
  <2>2. Written(sectors)' = base'
    BY <1>1, <2>1 DEF Written, SectorOf, vetto
  <2>3. QED
    BY <1>4, <2>2
<1>7. WriteBuffer' /\ ReadBuffer' /\ Received' /\ LaterSectorsRead'
  BY <1>1, HalfBlock DEF WriteBuffer, ReadBuffer, Received, LaterSectorsRead, Moving
<1>8. QED
  BY <1>1, <1>2, <1>3, <1>4, <1>5, <1>6, <1>7 DEF FirstCommand, Moving

(***************************************************************************)
(* Each outputb adds one register to those programmed.                     *)
(***************************************************************************)
LEMMA OutputbStep ==
  ASSUME DriverTypes, FirstCommand, NEW k \in 1..Len(Program), outputb(k)
  PROVE  FirstCommand'
<1>1. /\ Len(Program) = 5 /\ Program[k].reg \in Registers
      /\ Program[1].reg = "SNR" /\ Program[2].reg = "CNL" /\ Program[3].reg = "CNH"
      /\ Program[4].reg = "HND" /\ Program[5].reg = "SCR"
  BY ProgramTypes DEF DriverTypes
<1>2. /\ dpc = Program[k].reg
      /\ regs' = [regs EXCEPT ![Program[k].reg] = Program[k].val]
      /\ dpc' = IF k = 5 THEN "DCR" ELSE Program[k + 1].reg
      /\ UNCHANGED <<disk, file_state, current_position, current_sector_number,
                     command, first, quanti, sectors, vetti, commands, base>>
  BY <1>1 DEF outputb, write_register, diskVars, transfer
<1>3. k \in {1, 2, 3, 4, 5}
  BY <1>1
<1>4. dpc \in Programming /\ dpc' \in Programming
  BY <1>1, <1>2, <1>3 DEF Programming
<1>5. \A j \in 1..5 : Program[j].val' = Program[j].val
  BY <1>2 DEF Program
<1>6. ASSUME commands = 1 PROVE Programmed'
  <2>1. Programmed
    BY <1>4, <1>6 DEF FirstCommand
  <2>2. regs \in [Registers -> 0..(REG - 1)]
    BY DEF DriverTypes, DiskInv, TypeOK
  <2>3. QED
    BY <1>1, <1>2, <1>3, <1>5, <2>1, <2>2 DEF Programmed, Registers
<1>7. QED
  BY <1>2, <1>4, <1>6, ProgrammingStep

(***************************************************************************)
(* The command: the lba is the one asked for.  A write has moved nothing;  *)
(* a read has fetched a sector, and it is not yet known which.             *)
(***************************************************************************)
LEMMA CommandStep ==
  ASSUME DriverTypes, FirstCommand, give_command
  PROVE  FirstCommand'
<1>1. /\ dpc = "CMD" /\ dpc' = "poll"
      /\ lba' = compute_lba /\ sector_numbers_cmd' = regs["SCR"]
      /\ UNCHANGED <<disk, file_state, current_position,
                     command, first, quanti, sectors, vetti, commands, base>>
  BY DEF give_command, write_CMD, process_cmd, diskVars
<1>2. SUFFICES ASSUME commands = 1 PROVE FirstCommand'
  BY <1>1 DEF FirstCommand
<1>3. Untouched /\ Programmed /\ disk = base
  BY <1>1, <1>2 DEF FirstCommand, Programming
<1>4. lba' = first'
  BY <1>1, <1>3, ComputeLba DEF Programmed, DriverTypes
<1>5. sector_numbers_cmd' = quanti'
  BY <1>1, <1>3 DEF Programmed, Program
<1>6. current_position' = 0 /\ sectors' = 0 /\ vetti' = << >> /\ disk' = base'
  BY <1>1, <1>3 DEF Untouched
<1>7. command = WRITE_SECTORS => WriteBuffer'
  <2>1. command = WRITE_SECTORS => current_sector_number' = 0
    BY <1>3 DEF give_command, write_CMD, process_cmd, Untouched,
                READ_SECTORS, WRITE_SECTORS
  <2>2. QED
    BY <1>6, <2>1 DEF WriteBuffer
<1>8. (disk = Written(sectors))'
  <2>1. base' \in [BlockNumbers -> Block]
    BY <1>1 DEF DriverTypes
  <2>2. Written(sectors)' = base'
    BY <1>6, <2>1 DEF Written, SectorOf, vetto
  <2>3. QED
    BY <1>6, <2>2
<1>9. command = READ_SECTORS => ReadBuffer'
  <2>1. command = READ_SECTORS => current_sector_number' = 1
    BY <1>3 DEF give_command, write_CMD, process_cmd, read_from_backend, Untouched,
                READ_SECTORS, WRITE_SECTORS
  <2>2. QED
    BY <1>6, <2>1, HalfBlock DEF ReadBuffer
<1>10. Received' /\ LaterSectorsRead'
  BY <1>6, HalfBlock DEF Received, LaterSectorsRead
<1>11. QED
  BY <1>1, <1>2, <1>4, <1>5, <1>6, <1>7, <1>8, <1>9, <1>10 DEF FirstCommand, Programming

LEMMA PollStep ==
  ASSUME DriverTypes, FirstCommand, poll_sector
  PROVE  FirstCommand'
<1>1. /\ dpc = "poll" /\ dpc' \in Moving
      /\ UNCHANGED <<disk, file_state, internal_buffer, current_position,
                     current_sector_number, lba, sector_numbers_cmd,
                     command, first, quanti, sectors, vetti, commands, base>>
  BY DEF poll_sector, read_STS, diskVars, transfer, Moving
<1>2. dpc \in Moving /\ dpc' \notin Programming /\ dpc' # "idle"
  BY <1>1 DEF Moving, Programming
<1>3. SUFFICES ASSUME commands = 1 PROVE FirstCommand'
  BY <1>1 DEF FirstCommand
<1>4. /\ lba = first /\ sector_numbers_cmd = quanti /\ current_position = 0
      /\ command = WRITE_SECTORS =>
           WriteBuffer /\ (file_state = "ok" /\ NoWrap => disk = Written(sectors))
      /\ command = READ_SECTORS => ReadBuffer /\ Received /\ disk = base /\ LaterSectorsRead
  BY <1>1, <1>2, <1>3 DEF FirstCommand
<1>5. WriteBuffer => WriteBuffer'
  BY <1>1, <1>2 DEF WriteBuffer, SectorOf, vetto
<1>6. Written(sectors)' = Written(sectors) /\ NoWrap' = NoWrap
  BY <1>1 DEF Written, NoWrap, SectorOf, vetto
<1>7. ReadBuffer => ReadBuffer'
  BY <1>1, <1>2 DEF ReadBuffer, NoWrap
<1>8. Received => Received'
  BY <1>1, <1>2 DEF Received
<1>9. LaterSectorsRead' = LaterSectorsRead
  BY <1>1 DEF LaterSectorsRead, NoWrap, SectorReadIsBlock, ReadSector
<1>10. QED
  BY <1>1, <1>2, <1>3, <1>4, <1>5, <1>6, <1>7, <1>8, <1>9 DEF FirstCommand

(***************************************************************************)
(* A word of a write: it continues the sector in the buffer, and the last  *)
(* one sends the sector to its block.                                      *)
(***************************************************************************)
LEMMA OutputStep ==
  ASSUME DriverTypes, FirstCommand, output_word
  PROVE  FirstCommand'
<1> PICK word : word = vetto(sectors, current_position \div 2)
  OBVIOUS
<1> PICK filled : filled = [internal_buffer EXCEPT ![current_position] = word[1],
                                                   ![current_position + 1] = word[2]]
  OBVIOUS
<1>1. /\ dpc = "transfer" /\ command = WRITE_SECTORS
      /\ sector_moved
      /\ internal_buffer' = filled
      /\ UNCHANGED <<file_state, sector_numbers_cmd, lba, command, first, quanti, vetti,
                     commands, base>>
  BY DEF output_word, write_BR_register
<1>2. dpc \in Moving /\ dpc \notin Programming
  BY <1>1 DEF Moving, Programming
<1>3. SUFFICES ASSUME commands = 1 PROVE FirstCommand'
  BY <1>1 DEF FirstCommand
<1>4. /\ lba = first /\ sector_numbers_cmd = quanti
      /\ current_position % 2 = 0
      /\ current_sector_number = sectors
      /\ \A p \in 0..(current_position - 1) : internal_buffer[p] = SectorOf(sectors)[p]
      /\ file_state = "ok" /\ NoWrap => disk = Written(sectors)
  BY <1>1, <1>2, <1>3 DEF FirstCommand, WriteBuffer
<1>5. /\ current_position \in 0..(BLOCK_SIZE_BYTE - 2) /\ internal_buffer \in Block
      /\ sectors \in Nat /\ quanti \in Nat /\ sectors < quanti /\ first \in Nat
      /\ base \in [BlockNumbers -> Block] /\ disk \in [BlockNumbers -> Block]
  BY <1>1, Constants DEF DriverTypes, DiskInv, TypeOK
<1>6. /\ DOMAIN filled = Positions
      /\ \A p \in 0..(current_position + 1) : filled[p] = SectorOf(sectors)[p]
  <2>1. /\ current_position \in Positions /\ current_position + 1 \in Positions
        /\ DOMAIN internal_buffer = Positions
    BY <1>5, Constants DEF Positions, Block
  <2>2. /\ filled[current_position] = word[1] /\ filled[current_position + 1] = word[2]
        /\ \A p \in 0..(current_position - 1) : filled[p] = internal_buffer[p]
    <3>1. current_position # current_position + 1
      BY <1>5
    <3>2. filled[current_position] = word[1] /\ filled[current_position + 1] = word[2]
      BY <2>1, <3>1
    <3>3. ASSUME NEW p \in 0..(current_position - 1)
          PROVE  filled[p] = internal_buffer[p]
      <4>1. p \in Positions /\ p # current_position /\ p # current_position + 1
        BY <1>5, Constants DEF Positions
      <4>2. QED
        BY <2>1, <4>1
    <3>4. QED
      BY <3>2, <3>3
  <2>3. /\ filled[current_position] = SectorOf(sectors)[current_position]
        /\ filled[current_position + 1] = SectorOf(sectors)[current_position + 1]
    BY <1>4, <1>5, <2>2, SectorBytes
  <2>4. \A p \in 0..(current_position + 1) :
          p \in 0..(current_position - 1) \/ p = current_position \/ p = current_position + 1
    BY <1>5
  <2>5. DOMAIN filled = Positions
    BY <2>1
  <2>6. QED
    BY <1>4, <2>2, <2>3, <2>4, <2>5
<1>7. dpc' \notin Programming /\ command' # READ_SECTORS /\ commands' = 1
  BY <1>1, <1>2, <1>3 DEF sector_moved, Programming, READ_SECTORS, WRITE_SECTORS
<1>8. CASE sector_full(current_position + 2)
  <2>1. /\ current_position' = 0
        /\ disk' = write(filled, next_block)
        /\ current_sector_number' = current_sector_number + 1
    BY <1>8 DEF output_word, write_BR_register
  <2>2. sectors' = sectors + 1 /\ (dpc' = "idle" \/ dpc' = "poll")
    BY <1>1, <2>1 DEF sector_moved
  <2>3. current_position = BLOCK_SIZE_BYTE - 2
    BY <1>4, <1>5, <1>8, Constants DEF sector_full
  <2>4. filled = SectorOf(sectors)
    <3>1. current_position + 1 = BLOCK_SIZE_BYTE - 1
      BY <2>3, Constants
    <3>2. \A p \in Positions : filled[p] = SectorOf(sectors)[p]
      BY <1>6, <3>1 DEF Positions
    <3>3. filled = [p \in Positions |-> filled[p]]
      BY <1>5 DEF Block
    <3>4. SectorOf(sectors) = [p \in Positions |-> SectorOf(sectors)[p]]
      BY DEF SectorOf
    <3>5. QED
      BY <3>2, <3>3, <3>4
  <2>5. ASSUME file_state = "ok", NoWrap
        PROVE  disk' = Written(sectors + 1)
    <3>1. next_block = first + sectors
      BY <1>4, <1>5, <2>5, NoWrapAddress DEF next_block
    <3>2. CASE first + sectors \in BlockNumbers
      <4>1. ~out_of_bound(first + sectors) /\ addressed(first + sectors) = first + sectors
        BY <1>5, <2>5, <3>2, NoWrapAddress
      <4>2. write_status(first + sectors) = "NO_ERRORS"
        BY <2>5, <4>1 DEF write_status, read_status, check_consistency
      <4>3. disk' = [disk EXCEPT ![first + sectors] = filled]
        BY <2>1, <3>1, <4>1, <4>2 DEF write
      <4>4. QED
        BY <1>4, <1>5, <2>4, <2>5, <3>2, <4>3, WrittenNext
    <3>3. CASE first + sectors \notin BlockNumbers
      <4>1. out_of_bound(first + sectors)
        BY <1>5, <2>5, <3>3, NoWrapAddress
      <4>2. write_status(first + sectors) # "NO_ERRORS"
        BY <4>1 DEF write_status, read_status
      <4>3. disk' = disk
        BY <2>1, <3>1, <4>2 DEF write
      <4>4. QED
        BY <1>4, <1>5, <2>5, <3>3, <4>3, WrittenNext
    <3>4. QED
      BY <3>2, <3>3
  <2>6. Written(sectors)' = Written(sectors + 1) /\ NoWrap' = NoWrap
    BY <1>1, <2>2 DEF Written, NoWrap, SectorOf, vetto
  <2>7. (file_state = "ok" /\ NoWrap => disk = Written(sectors))'
    BY <1>1, <2>5, <2>6
  <2>8. WriteBuffer'
    BY <1>4, <2>1, <2>2 DEF WriteBuffer
  <2>9. (lba = first /\ sector_numbers_cmd = quanti)'
    BY <1>1, <1>4
  <2>10. QED
    BY <1>7, <2>1, <2>7, <2>8, <2>9 DEF FirstCommand
<1>9. CASE ~sector_full(current_position + 2)
  <2>1. /\ current_position' = current_position + 2
        /\ UNCHANGED <<disk, current_sector_number>>
    BY <1>9 DEF output_word, write_BR_register
  <2>2. sectors' = sectors /\ dpc' = "transfer"
    BY <1>1, <1>5, <2>1 DEF sector_moved
  <2>3. Written(sectors)' = Written(sectors) /\ NoWrap' = NoWrap
    BY <1>1, <2>2 DEF Written, NoWrap, SectorOf, vetto
  <2>4. WriteBuffer'
    <3>1. current_position' % 2 = 0 /\ current_position' - 1 = current_position + 1
      BY <1>4, <1>5, <2>1
    <3>2. SectorOf(sectors)' = SectorOf(sectors)
      BY <2>2 DEF SectorOf, vetto
    <3>3. \A p \in 0..(current_position' - 1) : internal_buffer'[p] = SectorOf(sectors)[p]
      BY <1>1, <1>6, <3>1
    <3>4. QED
      BY <1>4, <2>1, <2>2, <3>1, <3>2, <3>3 DEF WriteBuffer
  <2>5. (lba = first /\ sector_numbers_cmd = quanti)'
    BY <1>1, <1>4
  <2>6. QED
    BY <1>1, <1>4, <1>7, <2>1, <2>2, <2>3, <2>4, <2>5 DEF FirstCommand
<1>10. QED
  BY <1>8, <1>9

-----------------------------------------------------------------------------
(***************************************************************************)
(* Where the words of a sector are in vetti.                               *)
(***************************************************************************)
LEMMA WordIndex ==
  ASSUME NEW s \in Nat, NEW i \in 0..(s - 1), NEW j \in 0..(WordsPerSector - 1)
  PROVE  i * WordsPerSector + j + 1 \in 1..(s * WordsPerSector)
<1> PICK w \in Nat \ {0} : w = WordsPerSector
  BY HalfBlock
<1>1. i * w \in Nat /\ s * w \in Nat
  OBVIOUS
<1>2. (i + 1) * w <= s * w /\ (i + 1) * w = i * w + w
  BY Z3
<1>3. QED
  BY <1>1, <1>2

\* The words received before are where they were when another one arrives.
LEMMA EarlierSectors ==
  ASSUME vetti \in Seq(DiskBytes \X DiskBytes), NEW w \in DiskBytes \X DiskBytes,
         vetti' = Append(vetti, w), NEW s \in Nat, Len(vetti) >= s * WordsPerSector,
         NEW i \in 0..(s - 1)
  PROVE  ReadSector(i)' = ReadSector(i)
<1>1. ASSUME NEW p \in Positions
      PROVE  vetti'[i * WordsPerSector + (p \div 2) + 1]
               = vetti[i * WordsPerSector + (p \div 2) + 1]
  <2>1. p \div 2 \in 0..(WordsPerSector - 1)
    BY HalfBlock DEF Positions
  <2>2. PICK k : k = i * WordsPerSector + (p \div 2) + 1
    OBVIOUS
  <2>3. k \in 1..(s * WordsPerSector)
    BY <2>1, <2>2, WordIndex
  <2>4. s * WordsPerSector \in Nat
    BY HalfBlock
  <2>5. k \in 1..Len(vetti)
    BY <2>3, <2>4
  <2>6. vetti'[k] = vetti[k]
    BY <2>5
  <2>7. QED
    BY <2>2, <2>6
<1>2. QED
  BY <1>1 DEF ReadSector

(***************************************************************************)
(* A sector all of whose words came from a buffer is that buffer.          *)
(***************************************************************************)
LEMMA SectorFromBuffer ==
  ASSUME NEW buffer \in Block, NEW i \in Nat, NEW words,
         \A j \in 0..(WordsPerSector - 1) :
           words[i * WordsPerSector + j + 1] = <<buffer[2 * j], buffer[2 * j + 1]>>
  PROVE  [p \in Positions |-> words[i * WordsPerSector + (p \div 2) + 1][(p % 2) + 1]]
           = buffer
<1>1. ASSUME NEW p \in Positions
      PROVE  words[i * WordsPerSector + (p \div 2) + 1][(p % 2) + 1] = buffer[p]
  <2>0. p \div 2 \in 0..(WordsPerSector - 1)
    BY HalfBlock DEF Positions
  <2>1. PICK j \in 0..(WordsPerSector - 1) : j = p \div 2
    BY <2>0
  <2>2. words[i * WordsPerSector + j + 1] = <<buffer[2 * j], buffer[2 * j + 1]>>
    OBVIOUS
  <2>3. \/ p = 2 * j /\ p % 2 = 0
        \/ p = 2 * j + 1 /\ p % 2 = 1
    BY <2>1, HalfBlock DEF Positions
  <2>4. words[i * WordsPerSector + (p \div 2) + 1] = <<buffer[2 * j], buffer[2 * j + 1]>>
    BY <2>1, <2>2, Zenon
  <2>5. CASE p = 2 * j /\ p % 2 = 0
    BY <2>4, <2>5
  <2>6. CASE p = 2 * j + 1 /\ p % 2 = 1
    BY <2>4, <2>6
  <2>7. QED
    BY <2>3, <2>5, <2>6
<1>2. QED
  BY <1>1 DEF Block

(***************************************************************************)
(* A word of a read comes from the buffer.  With the last word of a sector *)
(* the next one is fetched, from the lba that is now the right one.        *)
(***************************************************************************)
LEMMA InputStep ==
  ASSUME DriverTypes, FirstCommand, input_word
  PROVE  FirstCommand'
<1>1. /\ dpc = "transfer" /\ command = READ_SECTORS
      /\ sector_moved
      /\ vetti' = Append(vetti, BR')
      /\ UNCHANGED <<disk, file_state, sector_numbers_cmd, lba, command, first, quanti,
                     commands, base>>
  BY DEF input_word, read_BR_register, diskVars
<1>2. dpc \in Moving /\ dpc \notin Programming
  BY <1>1 DEF Moving, Programming
<1>3. SUFFICES ASSUME commands = 1 PROVE FirstCommand'
  BY <1>1 DEF FirstCommand
<1>4. /\ lba = first /\ sector_numbers_cmd = quanti /\ disk = base
      /\ ReadBuffer /\ Received /\ LaterSectorsRead
  BY <1>1, <1>2, <1>3 DEF FirstCommand
<1>5. /\ current_position \in Nat /\ current_position < WordsPerSector
      /\ current_sector_number = sectors + 1
      /\ internal_buffer \in Block
      /\ sectors \in Nat /\ quanti \in Nat /\ sectors < quanti /\ first \in Nat
      /\ base \in [BlockNumbers -> Block] /\ disk \in [BlockNumbers -> Block]
      /\ vetti \in Seq(DiskBytes \X DiskBytes)
      /\ Len(vetti) = sectors * WordsPerSector + current_position
      /\ file_state # "resized"
  BY <1>1, <1>2, <1>4, Constants DEF DriverTypes, DiskInv, TypeOK, ReadBuffer, Received
<1>6. PICK w \in DiskBytes \X DiskBytes : buffer_word(w) /\ BR' = w
  BY DEF input_word, read_BR_register
<1>7. w = <<internal_buffer[2 * current_position], internal_buffer[2 * current_position + 1]>>
  <2>1. 2 * current_position + 1 \in Positions
    BY <1>5, HalfBlock DEF Positions
  <2>2. QED
    BY <1>6, <2>1 DEF buffer_word
<1>8. sectors * WordsPerSector \in Nat
  BY <1>5, HalfBlock
\* The words of this sector, the new one included, came from the buffer.
<1>9. \A j \in 0..current_position :
        vetti'[sectors * WordsPerSector + j + 1] =
          <<internal_buffer[2 * j], internal_buffer[2 * j + 1]>>
  <2>1. vetti' = Append(vetti, w)
    BY <1>1, <1>6
  <2>2. ASSUME NEW j \in 0..(current_position - 1)
        PROVE  vetti'[sectors * WordsPerSector + j + 1] =
                 <<internal_buffer[2 * j], internal_buffer[2 * j + 1]>>
    <3>1. vetti[sectors * WordsPerSector + j + 1] =
            <<internal_buffer[2 * j], internal_buffer[2 * j + 1]>>
      BY <1>2, <1>4 DEF ReadBuffer
    <3>2. PICK k : k = sectors * WordsPerSector + j + 1
      OBVIOUS
    <3>3. k \in 1..Len(vetti)
      BY <1>5, <1>8, <3>2
    <3>4. vetti'[k] = vetti[k]
      BY <1>5, <2>1, <3>3
    <3>5. QED
      BY <3>1, <3>2, <3>4
  <2>3. vetti'[sectors * WordsPerSector + current_position + 1] = w
    <3>1. sectors * WordsPerSector + current_position + 1 = Len(vetti) + 1
      BY <1>5
    <3>2. vetti'[Len(vetti) + 1] = w
      BY <1>5, <2>1
    <3>3. QED
      BY <3>1, <3>2
  <2>4. \A j \in 0..current_position : j \in 0..(current_position - 1) \/ j = current_position
    BY <1>5
  <2>5. QED
    BY <1>7, <2>2, <2>3, <2>4
<1>10. Len(vetti') = sectors * WordsPerSector + current_position + 1
  BY <1>1, <1>5, <1>6, <1>8
<1>11. \A i \in 0..(sectors - 1) : ReadSector(i)' = ReadSector(i)
  <2>1. Len(vetti) >= sectors * WordsPerSector
    BY <1>5, <1>8
  <2>2. QED
    BY <1>1, <1>5, <1>6, <2>1, EarlierSectors
<1>12. NoWrap' = NoWrap
  BY <1>1 DEF NoWrap
<1>13. ASSUME NoWrap, NEW i \in 1..(sectors - 1)
       PROVE  SectorReadIsBlock(i)'
  <2>1. SectorReadIsBlock(i)
    BY <1>1, <1>3, <1>4, <1>13 DEF LaterSectorsRead
  <2>2. ReadSector(i)' = ReadSector(i)
    BY <1>5, <1>11
  <2>3. QED
    BY <1>1, <2>1, <2>2 DEF SectorReadIsBlock
<1>14. dpc' \notin Programming /\ command' # WRITE_SECTORS /\ commands' = 1
  BY <1>1, <1>2, <1>3 DEF sector_moved, Programming, READ_SECTORS, WRITE_SECTORS
<1>15. (lba = first /\ sector_numbers_cmd = quanti /\ disk = base)'
  BY <1>1, <1>4
<1>16. CASE current_position + 1 >= BLOCK_SIZE_BYTE \div 2
  <2>1. current_position + 1 = WordsPerSector
    BY <1>5, <1>16, HalfBlock DEF WordsPerSector
  <2>2. /\ current_position' = 0
        /\ IF sector_numbers_cmd = current_sector_number
             THEN UNCHANGED <<internal_buffer, current_sector_number>>
             ELSE read_from_backend
    BY <1>16 DEF input_word, read_BR_register
  <2>3. /\ sectors' = sectors + 1
        /\ dpc' = IF sectors' = quanti THEN "idle" ELSE "poll"
    BY <1>1, <2>2 DEF sector_moved
  <2>4. Len(vetti') = sectors' * WordsPerSector
    <3>1. (sectors + 1) * WordsPerSector = sectors * WordsPerSector + WordsPerSector
      BY <1>5, HalfBlock, Z3
    <3>2. QED
      BY <1>5, <1>8, <1>10, <2>1, <2>3, <3>1
  <2>5. Received'
    BY <1>5, <2>2, <2>3, <2>4, HalfBlock DEF Received
  <2>6. LaterSectorsRead'
    <3>1. SUFFICES ASSUME NoWrap, NEW i \in 1..sectors
                   PROVE  SectorReadIsBlock(i)'
      BY <1>5, <1>12, <2>3 DEF LaterSectorsRead
    <3>2. CASE i \in 1..(sectors - 1)
      BY <1>13, <3>1, <3>2
    <3>3. CASE i = sectors
      <4>1. SUFFICES ASSUME first + sectors \in BlockNumbers
                     PROVE  ReadSector(i)' = base[first + sectors]
        BY <1>1, <3>3 DEF SectorReadIsBlock
      <4>2. internal_buffer = base[first + sectors]
        BY <1>2, <1>4, <1>5, <3>1, <3>3, <4>1 DEF ReadBuffer
      <4>3. \A j \in 0..(WordsPerSector - 1) :
              vetti'[i * WordsPerSector + j + 1] =
                <<internal_buffer[2 * j], internal_buffer[2 * j + 1]>>
        BY <1>5, <1>9, <2>1, <3>3
      <4>4. ReadSector(i)' = internal_buffer
        <5>1. PICK v : v = vetti'
          OBVIOUS
        <5>2. [p \in Positions |-> v[i * WordsPerSector + (p \div 2) + 1][(p % 2) + 1]]
                = internal_buffer
          <6>1. i \in Nat /\ internal_buffer \in Block
            BY <1>5, <3>3
          <6>2. \A j \in 0..(WordsPerSector - 1) :
                  v[i * WordsPerSector + j + 1] =
                    <<internal_buffer[2 * j], internal_buffer[2 * j + 1]>>
            BY <4>3, <5>1
          <6>3. QED
            BY <6>1, <6>2, SectorFromBuffer, Zenon
        <5>3. QED
          BY <5>1, <5>2 DEF ReadSector
      <4>5. QED
        BY <4>2, <4>4
    <3>4. QED
      BY <1>5, <3>2, <3>3
  <2>7. ReadBuffer'
    <3>1. SUFFICES ASSUME dpc' \in Moving PROVE ReadBuffer'
      BY DEF ReadBuffer
    <3>2. sectors + 1 # quanti /\ sectors + 1 < quanti
      BY <1>1, <1>5, <2>3, <3>1 DEF Moving
    <3>3. read_from_backend
      BY <1>4, <1>5, <2>2, <3>2
    <3>4. /\ internal_buffer' = read(internal_buffer, next_block)
          /\ current_sector_number' = sectors' + 1
      BY <1>5, <2>3, <3>3 DEF read_from_backend
    <3>5. ASSUME NoWrap, first + (sectors + 1) \in BlockNumbers
          PROVE  internal_buffer' = base[first + (sectors + 1)]
      <4>1. PICK n \in Nat : n = sectors + 1 /\ n < quanti
        BY <1>5, <3>2
      <4>2. next_block = first + n
        BY <1>4, <1>5, <3>5, <4>1, NoWrapAddress DEF next_block
      <4>3. ~out_of_bound(first + n) /\ addressed(first + n) = first + n
        BY <1>5, <3>5, <4>1, NoWrapAddress
      <4>4. read_status(first + n) = "NO_ERRORS"
        BY <1>5, <4>3 DEF read_status, check_consistency
      <4>5. QED
        BY <1>4, <3>4, <4>1, <4>2, <4>3, <4>4 DEF read
    <3>6. current_position' < WordsPerSector
      BY <2>2, HalfBlock
    <3>7. QED
      BY <1>1, <1>12, <2>2, <2>3, <3>4, <3>5, <3>6 DEF ReadBuffer
  <2>8. QED
    BY <1>14, <1>15, <2>2, <2>5, <2>6, <2>7 DEF FirstCommand
<1>17. CASE ~(current_position + 1 >= BLOCK_SIZE_BYTE \div 2)
  <2>1. /\ current_position' = current_position + 1
        /\ UNCHANGED <<internal_buffer, current_sector_number>>
    BY <1>17 DEF input_word, read_BR_register
  <2>2. sectors' = sectors /\ dpc' = "transfer"
    BY <1>1, <1>5, <2>1 DEF sector_moved
  <2>3. Received'
    BY <1>5, <1>8, <1>10, <2>1, <2>2 DEF Received, Moving
  <2>4. LaterSectorsRead'
    BY <1>12, <1>13, <2>2 DEF LaterSectorsRead
  <2>5. ReadBuffer'
    <3>1. current_position' < WordsPerSector /\ current_position' - 1 = current_position
      BY <1>5, <1>17, <2>1, HalfBlock DEF WordsPerSector
    <3>2. \A j \in 0..(current_position' - 1) :
            vetti'[sectors' * WordsPerSector + j + 1] =
              <<internal_buffer'[2 * j], internal_buffer'[2 * j + 1]>>
      BY <1>9, <2>1, <2>2, <3>1
    <3>3. NoWrap /\ sectors > 0 /\ first + sectors \in BlockNumbers =>
            internal_buffer = base[first + sectors]
      BY <1>2, <1>4 DEF ReadBuffer
    <3>4. QED
      BY <1>1, <1>5, <1>12, <2>1, <2>2, <3>1, <3>2, <3>3 DEF ReadBuffer
  <2>6. QED
    BY <1>14, <1>15, <2>2, <2>3, <2>4, <2>5 DEF FirstCommand
<1>18. QED
  BY <1>16, <1>17

-----------------------------------------------------------------------------
(***************************************************************************)
(* The invariant holds throughout.                                         *)
(***************************************************************************)
THEOREM DriverInvariant == DriverSpec => [](DriverTypes /\ FirstCommand)
<1>1. DriverInit => FirstCommand
  BY DEF DriverInit, Init, PowerOn, FirstCommand, Untouched
<1>2. DriverTypes /\ FirstCommand /\ [DriverNext]_driverSystemVars => FirstCommand'
  <2> SUFFICES ASSUME DriverTypes, FirstCommand, [DriverNext]_driverSystemVars
               PROVE  FirstCommand'
    OBVIOUS
  <2>1. CASE Calls
    BY <2>1, CallStep DEF Calls
  <2>2. CASE poll_ready
    <3>1. /\ dpc = "ready" /\ dpc' \in {"ready", "SNR"}
          /\ UNCHANGED <<disk, file_state, current_position, current_sector_number,
                         command, first, quanti, sectors, vetti, commands, base>>
      BY <2>2 DEF poll_ready, read_STS, diskVars, transfer
    <3>2. QED
      BY <3>1, ProgrammingStep DEF Programming, Programmed
  <2>3. CASE poll_unowned
    <3>1. /\ dpc = "ready" /\ dpc' = "SNR"
          /\ UNCHANGED <<disk, file_state, current_position, current_sector_number,
                         command, first, quanti, sectors, vetti, commands, base>>
      BY <2>3 DEF poll_unowned, vars, diskVars, transfer
    <3>2. QED
      BY <3>1, ProgrammingStep DEF Programming, Programmed
  <2>4. CASE \E k \in 1..Len(Program) : outputb(k)
    BY <2>4, OutputbStep
  <2>5. CASE disable_interrupts
    <3>1. /\ dpc = "DCR" /\ dpc' = "CMD"
          /\ UNCHANGED <<disk, file_state, current_position, current_sector_number, regs,
                         command, first, quanti, sectors, vetti, commands, base>>
      BY <2>5 DEF disable_interrupts, write_DCR, diskVars, transfer
    <3>2. ASSUME commands = 1 PROVE Programmed'
      <4>1. Programmed
        BY <3>1, <3>2 DEF FirstCommand, Programming
      <4>2. QED
        BY <3>1, <4>1 DEF Programmed, Program
    <3>3. QED
      BY <3>1, <3>2, ProgrammingStep DEF Programming
  <2>6. CASE give_command
    BY <2>6, CommandStep
  <2>7. CASE poll_sector
    BY <2>7, PollStep
  <2>8. CASE output_word
    BY <2>8, OutputStep
  <2>9. CASE input_word
    BY <2>9, InputStep
  <2>10. CASE power_cycle
    BY <2>10 DEF power_cycle, restart, FirstCommand, Untouched
  <2>11. CASE UNCHANGED driverSystemVars
    <3>1. UNCHANGED <<disk, file_state, regs, internal_buffer, current_position,
                      current_sector_number, lba, sector_numbers_cmd,
                      dpc, command, first, quanti, sectors, vetti, commands, base>>
      BY <2>11 DEF driverSystemVars, driverVars, vars, diskVars, transfer
    <3>2. Untouched' = Untouched /\ Programmed' = Programmed
      BY <3>1 DEF Untouched, Programmed, Program
    <3>3. WriteBuffer' = WriteBuffer /\ Written(sectors)' = Written(sectors)
      BY <3>1 DEF WriteBuffer, Written, SectorOf, vetto
    <3>4. ReadBuffer' = ReadBuffer /\ Received' = Received /\ NoWrap' = NoWrap
      BY <3>1 DEF ReadBuffer, Received, NoWrap
    <3>5. LaterSectorsRead' = LaterSectorsRead
      BY <3>1, <3>4 DEF LaterSectorsRead, SectorReadIsBlock, ReadSector
    <3>6. QED
      BY <3>1, <3>2, <3>3, <3>4, <3>5 DEF FirstCommand
  <2>12. QED
    BY <2>1, <2>2, <2>3, <2>4, <2>5, <2>6, <2>7, <2>8, <2>9, <2>10, <2>11
       DEF DriverNext, Driver
<1>3. QED
  BY <1>1, <1>2, TypesInit, TypesStep, PTL DEF DriverSpec

(***************************************************************************)
(* Wherever the first write command after a start is interrupted, the disk *)
(* holds the sectors moved so far in the blocks asked for and is otherwise *)
(* unchanged, for every lba, number of sectors, block size and disk size.  *)
(***************************************************************************)
THEOREM FirstWriteCorrect == DriverSpec => []FirstWriteLands
<1>1. FirstCommand => FirstWriteLands
  BY DEF FirstCommand, FirstWriteLands
<1>2. QED
  BY <1>1, DriverInvariant, PTL

(***************************************************************************)
(* The first read command after a start returns, from its second sector    *)
(* on, the blocks asked for.                                               *)
(***************************************************************************)
THEOREM LaterReadsCorrect == DriverSpec => []LaterSectorsRead
<1>1. FirstCommand => LaterSectorsRead
  BY DEF FirstCommand, LaterSectorsRead
<1>2. QED
  BY <1>1, DriverInvariant, PTL
=============================================================================
