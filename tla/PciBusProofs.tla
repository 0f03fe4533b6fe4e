---------------------------- MODULE PciBusProofs ----------------------------
(***************************************************************************)
(* Proofs about the PCI host bridge, for every set of devices, addresses,  *)
(* ports and data: what the guest reads back is what it wrote, the bridge  *)
(* stays inside devices[] once CAP has been written, and the run loop and  *)
(* the ATA bridge agree on the owner of a port.                            *)
(***************************************************************************)
EXTENDS PciBus, TLAPS

Spaces == [Connected -> [Offsets -> Byte]]

-----------------------------------------------------------------------------
(***************************************************************************)
(* The selection prepare_data takes from an address has the right ranges,  *)
(* and its device number always lies in devices[].                         *)
(***************************************************************************)
LEMMA SelectionRange ==
  ASSUME NEW cap \in Byte \X Byte \X Byte \X Byte
  PROVE  /\ prepare_data(cap) \in Selections /\ prepare_data(cap) \in Decoded
         /\ ~wild(prepare_data(cap))
<1>1. cap[1] \in 0..255 /\ cap[2] \in 0..255 /\ cap[3] \in 0..255
  BY DEF Byte
<1>2. cap[2] \div 8 \in 0..31 /\ cap[2] % 8 \in 0..7
  BY <1>1
<1>3. prepare_data(cap) \in Selections /\ prepare_data(cap) \in Decoded
  BY <1>1, <1>2, SizesAssumption DEF prepare_data, Selections, Decoded, UInt32, Byte
<1>4. ~wild(prepare_data(cap))
  BY <1>2, SizesAssumption DEF prepare_data, wild
<1>5. QED
  BY <1>3, <1>4

(***************************************************************************)
(* Behind a decoded address no sum wraps, so the bound check is exact.     *)
(***************************************************************************)
LEMMA DecodedExact ==
  ASSUME NEW s \in Decoded, NEW port \in CDP_addr..(CDP_addr + 3), NEW n \in Sizes
  PROVE  /\ conf_offset(s, port) = s.offset + port - CDP_addr
         /\ in_bounds(conf_offset(s, port), n) <=> conf_offset(s, port) + n <= CONF_SIZE
<1>1. \A x \in 0..511 : x % Word = x
  BY SizesAssumption
<1>2. /\ s.offset + port - CDP_addr \in 0..258 /\ n \in 1..4
  BY DEF Decoded, Byte, CDP_addr, Sizes
<1>3. conf_offset(s, port) = s.offset + port - CDP_addr
  BY <1>1, <1>2 DEF conf_offset
<1>4. conf_offset(s, port) + n \in 0..511
  BY <1>2, <1>3
<1>5. (conf_offset(s, port) + n) % Word = conf_offset(s, port) + n
  BY <1>1, <1>4
<1>6. QED
  BY <1>3, <1>5 DEF in_bounds

\* The ports of the bridge other than CAP are the four data ports.
LEMMA DataPort ==
  ASSUME NEW port \in Ports, NEW n \in Sizes, owner(port, n) = "pci", port # CAP_addr
  PROVE  port \in CDP_addr..(CDP_addr + 3)
  BY DEF owner

(***************************************************************************)
(* Storing a value of one, two or four bytes leaves a configuration space. *)
(***************************************************************************)
LEMMA StoredType ==
  ASSUME NEW c \in [Offsets -> Byte], NEW offset \in Int, NEW val \in Seq(Byte)
  PROVE  stored(c, offset, val) \in [Offsets -> Byte]
<1>1. ASSUME NEW o \in Offsets, o - offset \in 0..(Len(val) - 1)
      PROVE  val[o - offset + 1] \in Byte
  <2>1. Len(val) \in Nat /\ o - offset + 1 \in 1..Len(val)
    BY <1>1, SizesAssumption DEF Offsets
  <2>2. QED
    BY <2>1
<1>2. QED
  BY <1>1 DEF stored

(***************************************************************************)
(* A write at a data port turns configuration spaces into such.            *)
(***************************************************************************)
LEMMA WriteRegType ==
  ASSUME NEW spaces \in Spaces, NEW s \in Selections, NEW port \in Ports, NEW val \in Data
  PROVE  write_reg(spaces, s, port, val) \in Spaces
<1>1. val \in Seq(Byte) /\ port \in Int /\ s.offset \in Int
  <2>1. val \in Seq(Byte)
    BY DataAssumption
  <2>2. port \in Int
    BY PortAssumption
  <2>3. s.offset \in Int
    BY SizesAssumption DEF Selections, UInt32
  <2>4. QED
    BY <2>1, <2>2, <2>3
<1>2. conf_offset(s, port) \in Int
  BY <1>1, SizesAssumption DEF conf_offset, CDP_addr
<1>3. CASE present(s)
  <2>1. s.device \in Connected
    BY <1>3 DEF present
  <2>2. stored(spaces[s.device], conf_offset(s, port), val) \in [Offsets -> Byte]
    BY <1>1, <1>2, <2>1, StoredType DEF Spaces
  <2>3. QED
    BY <2>1, <2>2 DEF write_reg, Spaces
<1>4. CASE ~present(s)
  BY <1>4 DEF write_reg
<1>5. QED
  BY <1>3, <1>4

(***************************************************************************)
(* The base address registers are pairs of 16-bit numbers.                 *)
(***************************************************************************)
LEMMA BarType ==
  ASSUME config \in Spaces, NEW i \in {0, 1}
  PROVE  getBar(i).low \in Nat /\ getBar(i).high \in Nat
<1> DEFINE b == bytes(config[0], BAR_offset(i), 4)
<1>1. config[0] \in [Offsets -> Byte]
  BY DevicesAssumption DEF Spaces
<1>2. \A j \in 1..4 : BAR_offset(i) + j - 1 \in Offsets
  BY SizesAssumption DEF BAR_offset, Offsets
<1>3. b[1] \in Nat /\ b[2] \in Nat /\ b[3] \in Nat /\ b[4] \in Nat
  <2>1. \A j \in 1..4 : b[j] \in Byte
    BY <1>1, <1>2 DEF bytes
  <2>2. QED
    BY <2>1 DEF Byte
<1>4. getBar(i) = [low |-> b[1] + 256 * b[2], high |-> b[3] + 256 * b[4]]
  BY DEF getBar
<1>5. QED
  <2> HIDE DEF b
  <2> QED BY <1>3, <1>4

(***************************************************************************)
(* A port that a serial port owns is one of its eight registers.           *)
(***************************************************************************)
LEMMA ComRegister ==
  ASSUME NEW port \in Int, NEW c \in OwnedByCom(port)
  PROVE  c \in 1..4 /\ port - com_base[c] \in 0..7
  BY DEF OwnedByCom, com_base

-----------------------------------------------------------------------------
(***************************************************************************)
(* The inductive invariant.  Reads and writes at the data ports go through *)
(* the selection that the last write of CAP cached, so ReadBack needs that *)
(* the cache is what CAP says; then the spaces are the history.            *)
(***************************************************************************)
CacheFresh == addressed => selected = prepare_data(CAP)
HistoryExact == image = config

PciInv ==
  /\ PciTypeOK
  /\ CacheFresh
  /\ HistoryExact

(***************************************************************************)
(* The invariant holds of the freshly constructed bridge.                  *)
(***************************************************************************)
LEMMA PciInitInv == PciInit => PciInv
<1> SUFFICES ASSUME PciInit PROVE PciInv
  OBVIOUS
<1>1. config \in Spaces
  <2>1. <<240, 1, 0, 0>> \in Seq(Byte) /\ <<246, 3, 0, 0>> \in Seq(Byte)
    BY DEF Byte
  <2>2. \A d \in Connected : setBar(Reset[d]) \in [Offsets -> Byte]
    <3> TAKE d \in Connected
    <3>1. Reset[d] \in [Offsets -> Byte]
      BY DevicesAssumption
    <3>2. BAR_offset(0) \in Int /\ BAR_offset(1) \in Int
      BY DEF BAR_offset
    <3>3. stored(Reset[d], BAR_offset(0), <<240, 1, 0, 0>>) \in [Offsets -> Byte]
      BY <2>1, <3>1, <3>2, StoredType
    <3>4. QED
      BY <2>1, <3>2, <3>3, StoredType DEF setBar
  <2>3. QED
    BY <2>2, DevicesAssumption DEF PciInit, Spaces
<1>2. PciTypeOK
  <2>1. CAP \in Byte \X Byte \X Byte \X Byte /\ com \in [1..4 -> [0..7 -> Byte]]
    BY DEF PciInit, Byte
  <2>2. selected \in Selections
    BY GarbageAssumption DEF PciInit
  <2>3. QED
    BY <1>1, <2>1, <2>2 DEF PciInit, PciTypeOK, Spaces
<1>3. QED
  BY <1>2 DEF PciInit, PciInv, CacheFresh, HistoryExact

(***************************************************************************)
(* Writing CAP renews the selection.                                       *)
(***************************************************************************)
LEMMA CapKeepsInv ==
  ASSUME PciInv, NEW val \in Addresses, write_CAP(val)
  PROVE  PciInv'
<1>1. val \in Byte \X Byte \X Byte \X Byte
  BY AddressAssumption
<1>2. prepare_data(val) \in Selections /\ prepare_data(val) \in Decoded
  BY <1>1, SelectionRange
<1>3. QED
  BY <1>1, <1>2 DEF PciInv, PciTypeOK, CacheFresh, HistoryExact, write_CAP

(***************************************************************************)
(* A write at a data port reaches the space that CAP names, or, before CAP *)
(* was ever written, whatever the uninitialised selection names.           *)
(***************************************************************************)
LEMMA CdpKeepsInv ==
  ASSUME PciInv, NEW port \in Ports, NEW val \in Data, write_CDP(port, val)
  PROVE  PciInv'
<1>1. /\ crashed' \in BOOLEAN
      /\ config' = write_reg(config, selected, port, val)
      /\ image' = IF addressed THEN write_reg(image, prepare_data(CAP), port, val)
                               ELSE config'
      /\ UNCHANGED <<CAP, selected, com, addressed>>
  BY DEF write_CDP, wild, present
<1>2. config' \in Spaces
  BY <1>1, WriteRegType DEF PciInv, PciTypeOK, Spaces
<1>3. PciTypeOK'
  BY <1>1, <1>2 DEF PciInv, PciTypeOK, Spaces
<1>4. CacheFresh' /\ HistoryExact'
  BY <1>1 DEF PciInv, CacheFresh, HistoryExact
<1>5. QED
  BY <1>3, <1>4 DEF PciInv

(***************************************************************************)
(* The serial ports keep bytes.                                            *)
(***************************************************************************)
LEMMA SerialKeepsInv ==
  ASSUME PciInv, NEW port \in Ports, serial_write(port) \/ serial_read_LSR(port)
  PROVE  PciInv'
<1>1. UNCHANGED <<CAP, selected, config, crashed, addressed, image>>
  BY DEF serial_write, serial_read_LSR
<1>2. port \in Nat /\ port % 256 \in Byte
  BY PortAssumption DEF Byte
<1>3. com \in [1..4 -> [0..7 -> Byte]]
  BY DEF PciInv, PciTypeOK
<1>4. com' \in [1..4 -> [0..7 -> Byte]]
  <2>1. CASE serial_write(port)
    <3>1. PICK c \in OwnedByCom(port) :
            com' = IF port - com_base[c] \in {5, 6} THEN com
                   ELSE [com EXCEPT ![c][port - com_base[c]] = port % 256]
      BY <2>1 DEF serial_write
    <3>2. c \in 1..4 /\ port - com_base[c] \in 0..7
      BY <1>2, ComRegister
    <3>3. QED
      BY <1>2, <1>3, <3>1, <3>2
  <2>2. CASE serial_read_LSR(port)
    <3>1. PICK c \in OwnedByCom(port) : com' = [com EXCEPT ![c][5] = 32]
      BY <2>2 DEF serial_read_LSR
    <3>2. c \in 1..4 /\ 32 \in Byte
      BY <1>2, ComRegister DEF Byte
    <3>3. QED
      BY <1>3, <3>1, <3>2
  <2>3. QED
    BY <2>1, <2>2
<1>5. QED
  BY <1>1, <1>4 DEF PciInv, PciTypeOK, CacheFresh, HistoryExact

-----------------------------------------------------------------------------
(***************************************************************************)
(* The invariant is inductive.                                             *)
(***************************************************************************)
THEOREM PciInvariant == PciSpec => []PciInv
<1>1. PciInv /\ [PciNext]_pciVars => PciInv'
  <2> SUFFICES ASSUME PciInv, [PciNext]_pciVars PROVE PciInv'
    OBVIOUS
  <2>1. ASSUME NEW val \in Addresses, write_CAP(val) PROVE PciInv'
    BY <2>1, CapKeepsInv
  <2>2. ASSUME NEW port \in Ports, NEW val \in Data, write_CDP(port, val) PROVE PciInv'
    BY <2>2, CdpKeepsInv
  <2>3. ASSUME NEW port \in Ports, NEW n \in Sizes, read_wild(port, n) PROVE PciInv'
    BY <2>3 DEF read_wild, PciInv, PciTypeOK, CacheFresh, HistoryExact
  <2>4. ASSUME NEW port \in Ports, serial_write(port) \/ serial_read_LSR(port)
        PROVE  PciInv'
    BY <2>4, SerialKeepsInv
  <2>5. CASE UNCHANGED pciVars
    BY <2>5 DEF pciVars, PciInv, PciTypeOK, CacheFresh, HistoryExact
  <2>6. QED
    BY <2>1, <2>2, <2>3, <2>4, <2>5 DEF PciNext
<1>2. QED
  BY <1>1, PciInitInv, PTL DEF PciSpec

(***************************************************************************)
(* Types of the bridge's registers and of the configuration spaces.        *)
(***************************************************************************)
THEOREM TypeCorrect == PciSpec => []PciTypeOK
<1>1. PciInv => PciTypeOK
  BY DEF PciInv
<1>2. QED
  BY <1>1, PciInvariant, PTL

(***************************************************************************)
(* The guest reads back, in any width, what it last wrote to a connected   *)
(* device, through every sequence of selections and partial writes.        *)
(***************************************************************************)
THEOREM ReadsBack == PciSpec => []ReadBack
<1>1. PciInv => ReadBack
  <2> SUFFICES ASSUME PciInv, addressed, present(prepare_data(CAP)),
                      prepare_data(CAP).bus = 0,
                      NEW port \in CDP_addr..(CDP_addr + 3), NEW n \in Sizes,
                      conf_offset(prepare_data(CAP), port) + n <= CONF_SIZE
               PROVE  read_CDP(port, n) = bytes(image[prepare_data(CAP).device],
                                                conf_offset(prepare_data(CAP), port), n)
    BY DEF ReadBack
  <2>1. selected = prepare_data(CAP) /\ image = config
    BY DEF PciInv, CacheFresh, HistoryExact
  <2>2. read_CDP(port, n) =
          read_reg_PCI(config[selected.device], conf_offset(selected, port), n)
    BY <2>1 DEF read_CDP, readable
  <2>3. in_bounds(conf_offset(selected, port), n)
    BY <2>1, DecodedExact DEF PciInv, PciTypeOK
  <2>4. QED
    BY <2>1, <2>2, <2>3 DEF read_reg_PCI
<1>2. QED
  BY <1>1, PciInvariant, PTL

(***************************************************************************)
(* Once the guest has written CAP, no access leads outside devices[] or a  *)
(* device's registers: the five bits of the device number cannot name a    *)
(* slot it does not have, and a byte of offset cannot wrap a bound check.  *)
(***************************************************************************)
THEOREM AddressedSafe == PciSpec => AddressedIsSafe
<1> DEFINE A == crashed' => ~addressed
<1>1. ASSUME PciInv, PciNext PROVE A
  <2> SUFFICES ASSUME crashed', addressed PROVE FALSE
    OBVIOUS
  <2>1. ~wild(selected) /\ selected \in Decoded
    BY <1>1, SelectionRange DEF PciInv, PciTypeOK, CacheFresh
  <2>2. ASSUME NEW port \in Ports, NEW n \in Sizes, owner(port, n) = "pci", port # CAP_addr
        PROVE  ~wrapped(selected, port, n)
    <3>1. port \in CDP_addr..(CDP_addr + 3)
      BY <2>2, DataPort
    <3>2. in_bounds(conf_offset(selected, port), n) => conf_offset(selected, port) + n <= CONF_SIZE
      BY <2>1, <3>1, DecodedExact
    <3>3. conf_offset(selected, port) \in Int /\ n \in Int /\ CONF_SIZE \in Int
      BY <2>1, <3>1, SizesAssumption, DecodedExact DEF Decoded, Byte, Sizes, CDP_addr
    <3>4. QED
      BY <3>2, <3>3 DEF wrapped
  <2>3. ~crashed
    BY <1>1 DEF PciNext
  <2>4. ASSUME NEW val \in Addresses, write_CAP(val) PROVE FALSE
    BY <2>3, <2>4 DEF write_CAP
  <2>5. ASSUME NEW port \in Ports, NEW val \in Data, write_CDP(port, val) PROVE FALSE
    BY <2>1, <2>2, <2>5, DataAssumption DEF write_CDP
  <2>6. ASSUME NEW port \in Ports, NEW n \in Sizes, read_wild(port, n) PROVE FALSE
    BY <2>1, <2>2, <2>6 DEF read_wild
  <2>7. ASSUME NEW port \in Ports, serial_write(port) \/ serial_read_LSR(port)
        PROVE  FALSE
    BY <2>3, <2>7 DEF serial_write, serial_read_LSR
  <2>8. QED
    BY <1>1, <2>4, <2>5, <2>6, <2>7 DEF PciNext
<1>2. PciInv /\ [PciNext]_pciVars => [A]_pciVars
  BY <1>1
<1>3. QED
  BY <1>2, PciInvariant, PTL DEF PciSpec, AddressedIsSafe

(***************************************************************************)
(* The window the run loop finds for a port is the one the ATA bridge      *)
(* translates it in, wherever in the port space the guest has moved the    *)
(* two windows, onto each other included.                                  *)
(***************************************************************************)
THEOREM BridgeAgreement == PciSpec => []BridgeAgrees
<1>1. PciInv => BridgeAgrees
  <2> SUFFICES ASSUME PciInv, getBar(0).high = 0, getBar(1).high = 0,
                      NEW port \in Ports, NEW n \in Sizes
               PROVE  /\ owner(port, n) = "bar0" =>
                           ata_register(port) - 496 = port - getBar(0).low
                      /\ owner(port, n) = "bar1" =>
                           ata_register(port) - 1014 = port - getBar(1).low
    BY DEF BridgeAgrees
  <2>1. port \in Nat /\ getBar(0).low \in Nat /\ getBar(1).low \in Nat
    BY PortAssumption, BarType DEF PciInv, PciTypeOK, Spaces
  <2>2. ASSUME owner(port, n) = "bar0"
        PROVE  ata_register(port) - 496 = port - getBar(0).low
    <3>1. port \in getBar(0).low..(getBar(0).low + 7)
      BY <2>1, <2>2 DEF owner, InWindow
    <3>2. QED
      BY <2>1, <3>1 DEF ata_register
  <2>3. ASSUME owner(port, n) = "bar1"
        PROVE  ata_register(port) - 1014 = port - getBar(1).low
    <3>1. /\ port \notin getBar(0).low..(getBar(0).low + 7)
          /\ port \in getBar(1).low..(getBar(1).low + 1)
      BY <2>1, <2>3 DEF owner, InWindow
    <3>2. QED
      BY <2>1, <3>1 DEF ata_register
  <2>4. QED
    BY <2>2, <2>3
<1>2. QED
  BY <1>1, PciInvariant, PTL
=============================================================================
