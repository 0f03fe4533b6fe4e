------------------------------- MODULE PciBus -------------------------------
(***************************************************************************)
(* The PCI host bridge and the configuration space of its devices          *)
(* (frontend/pci_host.cpp, PCIDevice.cpp), the serial ports                *)
(* (frontend/serial_port.cpp), the routing of port accesses to devices     *)
(* (the run loop of kvm.cpp) and the translation of the disk's ports       *)
(* (frontend/PCI_ATA.cpp).  What keyboard, VGA and disk do with an access  *)
(* is in their own modules.  Only the vCPU thread takes part.              *)
(*                                                                         *)
(* A value of 1, 2 or 4 bytes is the sequence of its bytes, the least      *)
(* significant one first.                                                  *)
(***************************************************************************)
EXTENDS Integers, Sequences

CONSTANTS CONF_SIZE,                \* bytes of a configuration space (192)
          SLOTS,                    \* entries of devices[] (32)
          Word,                     \* 2^32: the selectors are uint32_t
          Reset,                    \* configuration spaces, by slot, before setBar
          Garbage,                  \* what an uninitialised pci_host may have selected
          Addresses,                \* what the guest writes to CAP
          Ports,                    \* the ports the guest uses
          Data                      \* what it writes to other registers

CAP_addr == 3320                    \* 0x0CF8
CDP_addr == 3324                    \* 0x0CFC
BAR_offset(i) == 16 + 4 * i
Sizes == {1, 2, 4}
Offsets == 0..(CONF_SIZE - 1)
Connected == DOMAIN Reset           \* slot 0 is the ATA bridge
Byte == 0..255
UInt32 == 0..(Word - 1)
Selections == [bus : UInt32, device : UInt32, function : UInt32, offset : UInt32]
\* What prepare_data can make of an address.
Decoded == [bus : Byte, device : 0..31, function : 0..7, offset : Byte]

ASSUME SizesAssumption ==
  /\ CONF_SIZE \in Nat
  /\ BAR_offset(2) <= CONF_SIZE
  /\ SLOTS \in Nat
  /\ 32 <= SLOTS                    \* N_DEVICES: a device number has five bits
  /\ Word \in Nat /\ 512 <= Word /\ CONF_SIZE < Word

ASSUME DevicesAssumption ==
  /\ 0 \in Connected
  /\ Connected \subseteq 0..(SLOTS - 1)
  /\ \A d \in Connected : Reset[d] \in [Offsets -> Byte]

ASSUME GarbageAssumption == Garbage \subseteq Selections
ASSUME AddressAssumption == Addresses \subseteq Byte \X Byte \X Byte \X Byte
ASSUME PortAssumption == Ports \subseteq Nat
ASSUME DataAssumption == \A val \in Data : Len(val) \in Sizes /\ val \in Seq(Byte)

VARIABLES CAP,
          selected,                 \* bus, device, function and offset numbers
          config,                   \* the registers of every connected device
          com,                      \* the registers of the four serial ports
          crashed,                  \* the monitor followed a pointer outside devices[]
                                    \* or outside the registers of a device
          addressed,                \* history: CAP has been written
          image                     \* history: what the guest wrote where

pciVars == <<CAP, selected, config, com, crashed, addressed, image>>

-----------------------------------------------------------------------------
bytes(c, offset, n) == [i \in 1..n |-> c[offset + i - 1]]

stored(c, offset, val) ==
  [o \in Offsets |-> IF o - offset \in 0..(Len(val) - 1) THEN val[o - offset + 1] ELSE c[o]]

\* A base address register as its lower and its upper 16 bits.
getBar(i) ==
  LET b == bytes(config[0], BAR_offset(i), 4)
  IN  [low |-> b[1] + 256 * b[2], high |-> b[3] + 256 * b[4]]

\* The constructor of pci_host sets the BARs of the ATA bridge to 0x1F0 and 0x3F6.
setBar(c) == stored(stored(c, BAR_offset(0), <<240, 1, 0, 0>>), BAR_offset(1), <<246, 3, 0, 0>>)

PciInit ==
  /\ CAP = <<0, 0, 0, 0>>
  /\ selected \in Garbage
  /\ config = [d \in Connected |-> IF d = 0 THEN setBar(Reset[d]) ELSE Reset[d]]
  /\ com = [c \in 1..4 |-> [r \in 0..7 |-> 0]]
  /\ crashed = FALSE
  /\ addressed = FALSE
  /\ image = config

-----------------------------------------------------------------------------
(***************************************************************************)
(* The run loop's chain of tests on the port and the size of an access.    *)
(***************************************************************************)
com_base == <<1016, 760, 1000, 744>>          \* 0x3f8, 0x2f8, 0x3e8, 0x2e8

OwnedByCom(port) == {c \in 1..4 : port \in com_base[c]..(com_base[c] + 7)}

InWindow(port, bar, length) == bar.high = 0 /\ port \in bar.low..(bar.low + length - 1)

owner(port, size) ==
  CASE size = 1 /\ port \in {96, 100}              -> "keyboard"
    [] size = 1 /\ port \in {980, 981}             -> "vga"
    [] size = 1 /\ OwnedByCom(port) # {}           -> "com"
    [] port \in CDP_addr..(CDP_addr + 3) \cup {CAP_addr} -> "pci"
    [] OTHER -> IF InWindow(port, getBar(0), 8) THEN "bar0"
                ELSE IF InWindow(port, getBar(1), 2) THEN "bar1"
                ELSE "none"

\* mutant: the second window is tested first.
ata_register_swapped(port) ==
  LET bar0 == getBar(0).low
      bar1 == getBar(1).low
  IN  IF port \in bar1..(bar1 + 1) THEN port - bar1 + 1014
      ELSE IF port \in bar0..(bar0 + 7) THEN port - bar0 + 496
      ELSE port

\* The disk register a port stands for; PCI_ATA keeps the BARs in 16 bits.
ata_register(port) ==
  LET bar0 == getBar(0).low
      bar1 == getBar(1).low
  IN  IF port \in bar0..(bar0 + 7) THEN port - bar0 + 496
      ELSE IF port \in bar1..(bar1 + 1) THEN port - bar1 + 1014
      ELSE port

-----------------------------------------------------------------------------
\* mutant: the function number is not masked.
prepare_data_unmasked(cap) ==
  [bus |-> cap[3], device |-> cap[2] \div 8, function |-> cap[2], offset |-> cap[1]]

prepare_data(cap) ==
  [bus |-> cap[3], device |-> cap[2] \div 8, function |-> cap[2] % 8, offset |-> cap[1]]

\* devices[device_number] lies outside the array.
wild(s) == s.device \notin 0..(SLOTS - 1)

present(s) == s.device \in Connected /\ s.function = 0
\* Only a read of a word minds the bus.
readable(s, n) == present(s) /\ (n = 2 => s.bus = 0)

conf_offset(s, port) == (s.offset + port - CDP_addr) % Word

in_bounds(offset, n) == (offset + n) % Word <= CONF_SIZE

\* The sum in the bound check wrapped: the address lies outside the registers.
wrapped(s, port, n) == LET offset == conf_offset(s, port)
                       IN  in_bounds(offset, n) /\ offset + n > CONF_SIZE

ones(n) == [i \in 1..n |-> 255]
zeros(n) == [i \in 1..n |-> 0]

\* mutant: a word is taken from the even offset below.
read_reg_PCI_even(c, offset, n) ==
  IF n = 2 THEN bytes(c, offset - (offset % 2), 2)
  ELSE IF in_bounds(offset, n) THEN bytes(c, offset, n) ELSE zeros(n)

read_reg_PCI(c, offset, n) ==
  IF in_bounds(offset, n) THEN bytes(c, offset, n) ELSE zeros(n)

\* What a read of n bytes at a data port returns.
read_CDP(port, n) ==
  IF readable(selected, n)
    THEN read_reg_PCI(config[selected.device], conf_offset(selected, port), n)
    ELSE ones(n)

\* mutant: the selection is left as it was.
write_CAP_only(val) ==
  /\ CAP' = val
  /\ addressed' = TRUE
  /\ UNCHANGED <<selected, config, com, crashed, image>>

\* Only a long write changes CAP; a shorter one is ignored.
write_CAP(val) ==
  /\ CAP' = val
  /\ selected' = prepare_data(val)
  /\ addressed' = TRUE
  /\ UNCHANGED <<config, com, crashed, image>>

\* The configuration spaces after val has been written at a data port.
write_reg(spaces, s, port, val) ==
  IF present(s) /\ in_bounds(conf_offset(s, port), Len(val))
    THEN [spaces EXCEPT ![s.device] = stored(@, conf_offset(s, port), val)]
    ELSE spaces

write_CDP(port, val) ==
  /\ owner(port, Len(val)) = "pci"
  /\ port # CAP_addr
  /\ crashed' = (wild(selected) \/ (present(selected) /\ wrapped(selected, port, Len(val))))
  /\ config' = write_reg(config, selected, port, val)
  /\ image' = IF addressed THEN write_reg(image, prepare_data(CAP), port, val) ELSE config'
  /\ UNCHANGED <<CAP, selected, com, addressed>>

\* A read changes nothing unless it goes astray.
read_wild(port, n) ==
  /\ owner(port, n) = "pci"
  /\ port # CAP_addr
  /\ wild(selected) \/ (readable(selected, n) /\ wrapped(selected, port, n))
  /\ crashed' = TRUE
  /\ UNCHANGED <<CAP, selected, config, com, addressed, image>>

-----------------------------------------------------------------------------
(***************************************************************************)
(* Serial ports.  The code keeps the lower byte of the port, not of the    *)
(* value; IIR, LSR and MSR cannot be written.  THR and FCR are kept but    *)
(* never read back.                                                        *)
(***************************************************************************)
serial_write(port) ==
  /\ owner(port, 1) = "com"
  /\ \E c \in OwnedByCom(port) :
       LET r == port - com_base[c]
       IN  com' = IF r \in {5, 6} THEN com ELSE [com EXCEPT ![c][r] = port % 256]
  /\ UNCHANGED <<CAP, selected, config, crashed, addressed, image>>

\* Reading LSR sets the bit that says the port can take a character.
serial_read_LSR(port) ==
  /\ owner(port, 1) = "com"
  /\ \E c \in OwnedByCom(port) :
       /\ port - com_base[c] = 5
       /\ com' = [com EXCEPT ![c][5] = 32]
  /\ UNCHANGED <<CAP, selected, config, crashed, addressed, image>>

PciNext ==
  /\ ~crashed
  /\ \/ \E val \in Addresses : write_CAP(val)
     \/ \E port \in Ports :
          \/ \E val \in Data : write_CDP(port, val)
          \/ \E n \in Sizes : read_wild(port, n)
          \/ serial_write(port)
          \/ serial_read_LSR(port)

PciSpec == PciInit /\ [][PciNext]_pciVars

-----------------------------------------------------------------------------
(***************************************************************************)
(* Types of the registers, the selection and the configuration spaces.     *)
(***************************************************************************)
PciTypeOK ==
  /\ CAP \in Byte \X Byte \X Byte \X Byte
  /\ selected \in Selections
  /\ addressed => selected \in Decoded
  /\ config \in [Connected -> [Offsets -> Byte]]
  /\ com \in [1..4 -> [0..7 -> Byte]]
  /\ crashed \in BOOLEAN
  /\ addressed \in BOOLEAN

(***************************************************************************)
(* A guest that addresses a connected device on bus 0 reads, in any width  *)
(* and at any of the four data ports, the bytes it wrote there last, in    *)
(* whatever widths and under whatever addresses it wrote them, although    *)
(* data accesses use the selection that write_reg_long cached.             *)
(***************************************************************************)
ReadBack ==
  LET s == prepare_data(CAP)
  IN  addressed /\ present(s) /\ s.bus = 0 =>
        \A port \in CDP_addr..(CDP_addr + 3), n \in Sizes :
          conf_offset(s, port) + n <= CONF_SIZE =>
            read_CDP(port, n) = bytes(image[s.device], conf_offset(s, port), n)

(***************************************************************************)
(* The monitor follows a pointer outside devices[] or outside a device's   *)
(* registers only for a guest that uses the data port before it has ever   *)
(* written CAP: the selectors are not initialised by the constructor of    *)
(* pci_host, and the bound checks of PCIDevice wrap for an offset near     *)
(* 2^32.  Behind an address they cannot.                                   *)
(***************************************************************************)
AddressedIsSafe ==
  [][crashed' => ~addressed]_pciVars

(***************************************************************************)
(* The run loop and PCI_ATA agree on the window a port belongs to, for as  *)
(* long as both BARs lie in the 16-bit port space: the two test the BARs   *)
(* separately, and a guest may move them, byte by byte, onto each other.   *)
(***************************************************************************)
BridgeAgrees ==
  getBar(0).high = 0 /\ getBar(1).high = 0 =>
    \A port \in Ports, n \in Sizes :
      /\ owner(port, n) = "bar0" => ata_register(port) - 496 = port - getBar(0).low
      /\ owner(port, n) = "bar1" => ata_register(port) - 1014 = port - getBar(1).low
=============================================================================
