# Verification of kvm-endlessfault

kvm-endlessfault is a small virtual machine monitor on top of KVM. It boots the
64-bit ELF programs of a teaching kernel (`src/target-sources`) and emulates the
devices those programs use: a keyboard, a VGA text screen, four serial ports, a PCI
bus with one ATA disk. Beside the guest it runs a GDB stub and a small debug
server. This directory holds TLA+ models of that code, the TLC configurations that
check them on small instances, and proofs checked by TLAPS.

## 1. Inventory of the system

| Component (source) | State | Operations | Hard behaviour | What makes it correct |
|---|---|---|---|---|
| Keyboard controller (`frontend/keyboard.cpp`) | RBR, TBR, STR, CMR, enable flags, ring of 16 keycodes, `interrupt_raised` | port writes and reads (vCPU thread), `insert_keycode_event` (input thread), all under one mutex | two threads; ring full and empty; edge-triggered line | first-in first-out, FI truthful, line up exactly when it must be |
| Console input (`backend/ConsoleInput.cpp`) | terminal mode, `is_shifted`, locals of the loop | read a character, push up to three keycodes | the pushes are separately locked; end of file; drops | the guest decodes what was typed |
| Interrupt injection (`kvm.cpp` `set_IRQline`) | line levels in KVM | raise, lower | a line that stays up gives no new edge | no interrupt missed, none stray |
| Keyboard guest (`target-sources/int-tastiera/mod_tas.cpp`) | `cont`, `punt`, `shift` | `leggi_linea`, interrupt driver | the input thread runs between any two port accesses | line never overrun, every keycode read |
| Hard disk (`frontend/HardDisk.cpp`) | task file, status, sector buffer, position, lba, sector counter | register accesses, data words, commands | long sequences of legal accesses; state surviving a command | sectors go where they were asked to go; no polling for ever |
| Disk file (`backend/DiskManager.cpp`) | a file of blocks | `read`, `write`, constructor | 32-bit address arithmetic; file changed from outside; monitor stopped | accesses in bounds, block of the index |
| Polling disk guest (`target-sources/pci-hdd-1.cpp`, `pci-hdd-2.cpp`) | loop counters | `scrivisett`, `leggisett` | polls that depend on BUSY and DRQ | both return |
| VGA controller and console output (`frontend/vgaController.cpp`, `backend/ConsoleOutput.cpp`) | cursor registers, frame, blink flag | register accesses, render, blink | three threads; a cursor written in two halves | the screen comes to show the text as the guest left it, no trace of an old cursor; attributes do not spread |
| PCI bus and port dispatch (`frontend/pci_host.cpp`, `PCIDevice.cpp`, `PCI_ATA.cpp`, run loop of `kvm.cpp`) | configuration address, configuration space, BARs | configuration accesses, dispatch of port exits | BARs moved by the guest; selectors before the first address write | an access reaches at most the device that owns the port |
| Serial ports (`frontend/serial_port.cpp`) | registers | register accesses | none, no concurrency | a polling guest always finds the transmitter ready |
| GDB stub (`gdbserver/gdbserver.cpp`) | packet buffers, register copy, breakpoints | packet exchange, stop and resume | acknowledgements, retransmission, closed connection | registers written before a resume are the ones used |
| Debug server and client (`debug-server/`, `debug-client/`) | listening socket, workers and their buffers, connections | accept, requests, replies | threads, clients that leave, failed and partial receives, the vCPU's lock | requests answered in order and in full; a client cannot take the monitor down |
| Run loop, start and end (`kvm.cpp`) | vCPU, threads, terminal, exit handlers | the stages of `main`, `initIO`, exits, `endIO` | `endIO` from a signal handler and from atexit, early returns | terminal restored, nothing destroyed twice |
| Bootloader (`bootloader/Bootloader.cpp`) | GDT, page tables in guest memory | table construction, boot code | sizes at a boundary, memory already used by the program | identity map of guest memory and the APICs, nothing else |
| ELF loader (`elf/`) | segment cursor | recognise, iterate, copy | segments against guest memory, short files | copies in bounds, the image intact when the guest starts |
| Logger, INI reader | none of interest | output, parsing | none | not modelled |

Interactions. The vCPU thread runs the guest; a port access ends in the run loop,
which calls the device that owns the port. The input thread calls the keyboard. The
devices call `set_IRQline`; KVM delivers the vector to the vCPU. The disk calls the
disk manager, which opens the file anew on every access. The render thread reads the
VGA controller and guest memory, the blink thread only flips a flag. The GDB stub is
called by the run loop on a debug exit and blocks it until the client resumes. The
debug server starts between the loading of the program and the construction of the
tables; its workers read guest memory without a lock and share the vCPU descriptor
with the run loop.

`PROJECT.json` lists the same parts under `components` and, under `hazards`, the
lines where something can go wrong that a test would hardly reach.

## 2. Modules

| Module | Models | Role |
|---|---|---|
| `IrqLine` | `set_IRQline` and an edge-triggered pin | operators used by both devices |
| `KeyboardQueue` | nothing: it is the abstract specification | a bounded, lossy first-in first-out queue with an interrupt request |
| `Keyboard` | the keyboard controller | component specification, refines `KeyboardQueue` |
| `ConsoleInput` | the input thread | composed with `Keyboard` by extension |
| `KeyboardSystem` | the interrupt-driven guest | composition: thread, keyboard, guest |
| `DiskManager` | the disk file | operators and state used by `HardDisk` |
| `HardDisk` | the ATA disk | component specification, arbitrary guest |
| `DiskDriver` | the polling guest | composition: disk, file, driver, restarts |
| `GdbStub` | the GDB stub, its part of the run loop, and a client | component with its environment |
| `PciBus` | PCI bridge and configuration spaces, serial ports, port dispatch | component specification, arbitrary guest |
| `VgaConsole` | VGA controller, render and blink threads, and the terminal | component with its environment |
| `ElfLoader` | `estrai_segmento` and the ELF interpreters | operators used by `StartUp` |
| `BootTables` | descriptors and page tables; the processor's walk | operators used by `StartUp` |
| `StartUp` | `main` up to the devices | component: configuration, memory, program, tables, boot code |
| `DebugServer` | debug server, its TCP framing, its clients | component with its environment |
| `Monitor` | `initIO`, run loop, `endIO`, signals, exit handlers | composition: `StartUp`, `DebugServer` and the life of the process |
| `KeyboardProofs`, `KeyboardSystemProofs`, `HardDiskProofs`, `DiskDriverProofs`, `PciBusProofs`, `VgaConsoleProofs`, `GdbStubProofs`, `MonitorProofs` | | theorems about the module of the same name, with their inductive invariants |
| `MCKeyboard`, `MCKeyboardSystem`, `MCHardDisk`, `MCDiskDriver`, `MCGdbStub`, `MCPciBus`, `MCVgaConsole`, `MCMonitor` | | values for the constants |

### Keyboard side

*State.* `Keyboard` keeps the fields of the class under their own names. `irq` is
external state: the level of the line, and whether the vector is pending in the vCPU.
An edge, and only an edge, makes it pending.

*Actions.* Each public method locks the mutex for its whole body, so each is one
action: `write_CMR`, `write_TBR` (which runs `process_cmd`), `read_RBR` (`next_RBR`
then `update_FI`), `insert_keycode_event`. `update_FI` and `process_cmd` are the
private methods they call. A read of STR changes nothing and has no action.
`take_interrupt` is the vCPU accepting the vector.

*The thread.* `_mainThread` is cut where another thread can get in: at the read, and
between the pushes. `read(2)` may return a character, end of file or an error; in the
last two cases `newchar` keeps its value, as in the code. `typed`, `sent` and
`dropped` are history variables. The encode table is a constant: any three columns.

*The guest.* One action per port access, because each one is an exit to the monitor.
Between two of them the input thread may push. `conv` belongs to the guest's library,
which is not in the repository; it is modelled as the inverse the encoder assumes.
The semaphore is the program point `wait`: the guest has no other process, so waiting
for the semaphore is waiting for the interrupt. The guest asks for the next line as
soon as it has one.

### Disk side

*State.* `HardDisk` keeps the fields of the class. The status register is the set of
its bits that the code moves, BUSY and DRQ. `new_buffer` is a pointer in the code; the
only thing about it that matters is whether it has been set. ERR, DAR and ASR are
never assigned after construction and are left out.

*Actions.* One per register access. `write_BR_register` and `read_BR_register` move
one word. The position counts bytes in a write and words in a read, as in the code;
a guest that mixes the two within a sector can read past the buffer, which gives any
word, or go through a pointer that was never set, which is the action `read_BR_null`
and ends the monitor. `restart` runs the constructors again on the same file;
`tamper` changes the size or the permissions of the file from outside.

*The file.* A block address is computed in 32 bits and then extended, so the model
computes it modulo `UINT32`. `read` and `write` give the status in the order in which
the code tests for it. The second consistency check, after the access, could only
find a change made during the access; an access is atomic in the model. A rebuild of
a file of the wrong size always succeeds in the model.

*The driver.* `scrivisett` and `leggisett` differ in direction only and are one
driver with a `command`. Their first polls differ: that of `leggisett` reads the
status register (`poll_ready`), that of `scrivisett` uses a constant without the base
address, reads a port that belongs to no device, gets the zero KVM hands out, and
leaves its loop at once (`poll_unowned`).

### GDB stub

*State.* The stub's copy of the registers and its output buffer, the single-step bit
of `guest_debug`, the vCPU's registers, and the guest's code as the set of places that
hold a breakpoint instruction. Registers are those of `kvm_regs` (`General`), which
`kvm_load_registers_from_gdbcache` loads, and the selectors (`Segments`), which it does
not: a selector the user sets is answered OK, shown from then on, and never reaches
the guest, although the comments at `gdbserver.cpp:340` and `:367` speak of reloading
all registers. `ViewTrue` is therefore about the general registers.

*Actions.* A frame is one message, so `getpacket` and `putpacket` are cut where they
block: `putpacket` ends in the states `notify`, `reply` and `bye`, in which
`putpacket_wait` takes one character and either returns or sends the packet again.
`gdbserver_handle_exception` takes one message and handles the request in it.
`KVM_RUN` is one instruction of the guest with the debug exit it may cause, and
`final_exit` the exits that end the monitor. At end of file `getDebugChar` returns an
uninitialised character; in `putpacket` it may or may not be taken for an
acknowledgement (`putpacket_eof`), in `getpacket` the vCPU thread reads such
characters for ever, which in the model is a stub that takes no more steps.

*The client* is external: it does what gdb does (acknowledge, ask again for a garbled
packet, repeat a refused request). `noise` garbles a frame in flight.

### PCI bus and serial ports

A value of several bytes is the sequence of its bytes, so no number exceeds 16 bits.
`selected` are the four numbers `prepare_data` caches; before the first long write of
CAP they are whatever the heap held (`Garbage`), four arbitrary 32-bit numbers. A data
access with a device number outside `devices[]`, or with an offset so high that the sum
in the bound check wraps (`wrapped`), ends the monitor (`crashed`). Reads change nothing, except that
they can go astray too (`read_wild`) and that reading LSR sets a bit of it; what they
return is `read_CDP`. `owner` is the run loop's chain of tests, `ata_register` the
bridge's. The serial ports keep the lower byte of the port number instead of the value
written, as the code does. `image` is a history variable: what the guest wrote to the
address it had asked for.

### VGA and console output

Registers and text page belong to the vCPU thread. The render thread is cut where
another thread can interfere: at the start of a frame (window size and cursor), at the
unlocked read of a cell (`fetch`), at the two critical sections that read the blink
flag (`glyph`, `print`), at the end of a row and of the frame. `drawn` is a history
variable: which cell of the page a position of the screen was drawn from.

The terminal is external. It keeps its attributes until they are switched off, so an
attribute that is set and not reset shows in the cells after it. This is what
`UnderlineOnlyCursor` is about; the intensity of a bright colour does spread in this way.
It also takes the characters of a row as they come: the code writes the byte of each cell
without saying where, so a cell appears at the terminal's `column`, and a NUL byte takes
none. Guest memory starts as zeros, not as blanks, so on a page the guest has not filled
a character moves left by one column for each untouched cell before it. `ScreenConverges`
therefore says where a character comes to be shown (`Place`), which is its own position
only if the cells before it in its row hold characters.

### The monitor process

*Start-up.* `stage` is where `main` is. Guest memory is a function from cells to
contents, and a cell's contents say where they come from: which unit of which
segment, zero, or an entry of a table. One table fills one block of memory, so that
the low megabyte is a row of blocks: boot code, GDT, the three levels. An executable
is what the loader looks at: how many magic bytes match (three are enough, the fourth
is never compared although `elf64.cpp:81` says four must), the format, whether its
tables are complete, its program headers. A header also says how much of `filesz` the
file really holds. `estrai_next` is one turn of the loader's loop; the same action
loads the program, bounded by guest memory, and the boot code, bounded by 0x10000. A
copy that leaves guest memory has no defined outcome (`stage = "undefined"`).

*Debug server.* Each direction of a connection is a queue of messages. `recv_data`
gives the set of its outcomes: a whole message, one to three bytes of the length, a part
of the body, end of file, connection error. In the code the second, third and fourth are
-1, which `worker_fun` takes for success, and the fifth is 0, because -1 compared as an
unsigned number is not less than 4. So after end of file, or a torn length, the worker
converts and dispatches its buffer again: a null one is a segmentation fault; an old one
is already in host order, gets a type nobody knows, and the worker returns. A body cut
short is dispatched as far as it arrived (`Parts`): a request may keep its start and lose
its end, and the size of the dump then wraps. What is left of a torn message is read as
a length (`Misread`): too few bytes for one, zero, more than `malloc` can serve, or a
length that frames bytes never meant as a message; the contents are then one of
`Garbled`. This may happen again, up to `Misreads` more times. A client checks for -1
only at the first answer to `REQ_INFO`; elsewhere it prints what its buffer holds, or
faults on a null one (`client_fault`). A range outside memory is never answered. Sending to a client that has gone loses the data or
kills the monitor (SIGPIPE). Deleting the server twice may or may not be noticed by the
allocator (`abort`). `KVM_GET_REGS` and `KVM_GET_SREGS` each wait until the main thread is
outside `KVM_RUN`.

*Life of the process.* `handlers` is the list of exit handlers: the two destructors and
`endIO`, last registered first. Constructing `ConsoleInput` saves the attributes and
sets raw mode; `ConsoleOutput` comes second and saves raw mode. `endIO` is cut at each
of its calls. `SIGINT` takes the main thread wherever it is; since `endIO` does not
return, what main was doing is abandoned. While the handler runs the signal is blocked
in the main thread and a second one starts `endIO` in another thread. Standard input
and output are the same terminal.

### Faulty variants

A definition commented `mutant` is a faulty variant of the definition after it. No
specification uses it. Each is put in place of the real definition once, to see that
the property it is paired with (`mutants` in `PROJECT.json`) notices the fault.

## 3. Runs

Commands: `tlc -workers 2 -config X.cfg M`.

| Run | Module, configuration | Shows |
|---|---|---|
| `keyboard` | `MCKeyboard`, `Keyboard.cfg` | under any sequence of register accesses and pushes: ring counters agree (`RingConsistent`), FI is truthful (`StatusTruthful`), `interrupt_raised` is the level of the line (`LineTracked`), the line is up when it must be and only when it may be (`InterruptJustified`), a read that leaves keycodes behind gives a new edge (`ReadRearmsEdge`), the keyboard refines the queue (`ImplementsQueue`) |
| `keyboard_system` | `MCKeyboardSystem`, `KeyboardSystem.cfg` | thread, keyboard and guest: a guest that waits while keycodes are buffered has its interrupt pending (`NoMissedWakeup`), the driver never runs when no line is wanted or with nothing to read (`NoStrayInterrupt`), the guest decodes what was forwarded (`TextFaithful`), both ends agree on shift (`ShiftAgreed`), every accepted keycode is eventually read (`EventuallyRead`) |
| `console_eof` | `MCKeyboardSystem`, `ConsoleEof.cfg` | violated: `OnlyTypedText` |
| `hard_disk` | `MCHardDisk`, `HardDisk.cfg` | an arbitrary guest with restarts and tampering: the position stays in the buffer (`TypeOK`), BUSY is clear between sectors (`IdleAtBoundary`), accesses in one direction never reach the null pointer or the end of the buffer (`OneDirectionIsSafe`), the disk knows the level of its line unless interrupts were disabled while one was up (`LineTracked`) |
| `disk_driver` | `MCDiskDriver`, `DiskDriver.cfg` | the first write command puts exactly its sectors on the disk, at every point where the monitor may stop (`FirstWriteLands`); the first read command returns its sectors from the second on (`LaterSectorsRead`); both come to an end (`FirstCommandTerminates`) |
| `disk_read_first` | `MCDiskDriver`, `DiskReadFirst.cfg` | violated: `AllSectorsRead` |
| `disk_second_command` | `MCDiskDriver`, `DiskSecondCommand.cfg` | violated: `EveryWriteLands` |
| `disk_beyond_end` | `MCDiskDriver`, `DiskBeyondEnd.cfg` | violated: `BeyondEndRefused` |
| `gdb_stub` | `MCGdbStub`, `GdbStub.cfg` | with garbled frames, interrupt requests and disconnection: the packet the client takes for its answer is that answer (`ReplyMatches`), what the user saw or set of the general registers is what the guest resumes with (`ViewTrue`), a step is one instruction and a continue ends at a breakpoint (`ResumeHonoured`), a client that stays gets its answer (`EventuallyAnswered`) |
| `pci_bus` | `MCPciBus`, `PciBus.cfg` | bytes written in any width under any address are read back in any width (`ReadBack`), only a guest that never wrote CAP makes the monitor follow a wild pointer or an offset that wraps (`AddressedIsSafe`), run loop and bridge agree on which window of the disk a port is in while both BARs are port numbers (`BridgeAgrees`) |
| `vga_console` | `MCVgaConsole`, `VgaConsole.cfg` | underlining stays with the cursor of the frame (`UnderlineOnlyCursor`), and once the guest stops writing the screen shows every character it left, each row without its NUL cells, and no underline on a character the cursor has left (`ScreenConverges`) |
| `monitor` | `MCMonitor`, `Monitor.cfg` | for every memory size and executable: when the guest starts, its memory and the two APIC pages are mapped one to one and nothing else is, but for what a program loaded over the tables leaves (`IdentityMapped`); above 1 MiB memory is the image of the segments that fit (`ImageIntact`); the loader leaves guest memory only for headers no linker writes (`LoaderInBounds`). With clients and ctrl+c: what a client prints is what it asked for (`AnswersInOrder`), and it gets all of it (`ClientServed`); the monitor is killed from inside only by a client that leaves before its first request, by a request that arrives in pieces, by a client that leaves or gives up while it is answered, or by ctrl+c with the server on (`MonitorSurvives`); the terminal stays raw only after such a death, a ctrl+c during `initIO`, or two of them (`TerminalRestored`) |

### Disagreements between the code and what is written about it

1. *End of file on standard input* (`ConsoleInput.cpp:100`). The loop goes on while
   `res >= 0`; the comment says "res should be > 0". At end of file the last
   character is forwarded again, for ever.
2. *First sector of a read* (`HardDisk.cpp:145`). The first sector is fetched before
   `lba` is computed, so it comes from the lba of the previous command.
3. *Second command* (`HardDisk.cpp:181`). The sector counter is never reset; the
   blocks of a second command are displaced by the number of sectors moved before.
4. *Block address* (`DiskManager.cpp:68`). The product is taken in 32 bits although
   the comment says it is extended to 64. A block from 2^23 on, within the 28 bits of
   the lba, passes the bound check and aliases a block of the disk.

### Bounds, and why they are enough

* `INTERNAL_BUFFER_SIZE` is 3 or 4 instead of 16. Nothing in the code depends on the
  size but the two comparisons and the wrap; 3 slots are empty, partly full, full and
  wrapped in every combination. In the composition 4 slots are less than the keycodes
  of three characters, so that drops happen, and more than those of one, so that whole
  characters get through. The theorems hold for every size.
* Keycodes: two distinguishable ones for the keyboard alone; in the composition the
  make and break codes of three keys and of shift. Configuration bytes: all four
  combinations of the two bits the code looks at; one command that is `CONFIGURE` and
  one that is not.
* `MaxChars = 3`: three characters include one after the shift state has changed and
  changed back.
  `LineLength = 2` makes lines end both by newline and by count within them.
* Disk: blocks of two words, the least for which the middle of a sector differs from
  its ends. One block under the arbitrary guest (the next is out of bounds), four, as
  in `kvm.cpp`, under the driver. `REG = 4`, `LBA_SPACE = 128` keep the proportions of
  256 and 2^28: the top register has drive-select bits above the lba. `UINT32` is small
  enough for the wrap to lie within the lba, as in the code.
* `MaxSectors` bounds the sector counter between two starts: 2 for the arbitrary
  guest, 6 for the driver, which is twice the longest command. `MaxCommands` is 1, or
  2 where the question is about the second command.

* GDB: three instructions, so that a step, a wrap and a breakpoint ahead are different
  things; two general registers and a selector; a request of every kind. Three
  requests make a set, a resume and a look afterwards; two faults can hit both
  directions or the same frame twice.
* PCI: two devices, as in `initIO`. The spaces end behind the second BAR (24 bytes
  instead of 192), so that accesses run over the end; one address for each case the
  code tells apart. The three data values are chosen so that the two
  windows can come to overlap. `Word` is 65536 in place of 2^32, far above any offset the
  guest can form; `Garbage` has device numbers inside and outside `devices[]`, offsets
  inside the space and at the wrap.
* VGA: two rows of two cells and registers of two values, so that a cursor has two
  halves and can lie in every cell; one window that shows all and one that shows a row
  and is wider than the page. Three cell values: a plain character, a bright blinking one, and a
  blinking NUL, beside the zero word. `MaxChanges = 3`: both halves of a cursor and a cell.
* Monitor: tables of 4 entries, so that memory of 1 to 4 pages covers every fill of the
  last directory and the exact GiB (`memsize` 7 is rounded up to it), and sizes below,
  at and above both limits; a page has 32 cells, the boot
  tables fill the first one up to `ProgramBase` and its last cells are free for segments. The executables: ordinary, overlapping,
  out of address order, ending exactly at, one before and one behind the end of memory,
  over the tables, truncated, malformed, unrecognised. These start without clients. The
  ordinary one is also started with the debug server: the repository's client with two
  ctrl+c, the same beside a second client that asks for memory beyond the guest's or only
  connects, and, with torn messages in both directions, a client with a single request, a
  dump or the registers. `Misreads = 1`: what is left of a message is taken for a length
  once, and what that leaves once more. A dump starts at 16, so that a request cut
  between its addresses names a range inside memory. Every client may leave at any time.

### Fairness

`keyboard_system` assumes `WF(Guest)`: KVM keeps running the vCPU, and when the guest
has a next instruction or a pending vector it goes on. Nothing is assumed of the
input thread, which may stay in `read(2)` for ever. `disk_driver` assumes
`WF(Driver)`: a driver that has been called keeps executing. Calls and restarts are
not fair. `gdb_stub` assumes `WF(Stub)`, the vCPU thread, and `WF(Client)`: a client
that is waiting reads what arrives and minds its timer; what the user asks and when
the guest ends is open. `vga_console` assumes `WF(_mainThread)`: the render thread is
an endless loop that only waits for short critical sections. `monitor` assumes weak
fairness of `main` before the run loop, of a terminating thread, of each server thread
and of each client that stays, and strong fairness of reading the registers: the
kernel's mutex hands over to a waiter. Nothing is assumed of the guest, which may stay in
`KVM_RUN` for ever (with the interrupt controller in the kernel even `hlt` does not leave
it); `ClientServed` says so. The deadlock check is off only where the system may
really stop: `keyboard_system` and `console_eof` (everything typed and read),
`gdb_stub` and `monitor` (the monitor ended) and `pci_bus` (the monitor crashed).

## 4. Proofs

Every safety property of a passing run is also a theorem, for every value of the
constants that satisfies the assumptions of the modules. `tlapm M.tla` checks module `M`.
Each inductive invariant was first checked by TLC on the instance of the run.

| Module | Theorems (property) |
|---|---|
| `KeyboardProofs` | `TypeCorrect` (`TypeOK`), `RingCorrect` (`RingConsistent`), `NoLostInterrupt` (`InterruptJustified`), `StatusCorrect` (`StatusTruthful`), `LineFlagCorrect` (`LineTracked`), `EdgeRearmed` (`ReadRearmsEdge`), `Refinement` (`ImplementsQueue`) |
| `KeyboardSystemProofs` | `ControlInvariant`, `KeyboardInside`, `SystemTypeCorrect` (`SystemTypeOK`), `WakeupNotMissed` (`NoMissedWakeup`), `InterruptNotStray` (`NoStrayInterrupt`), `FaithfulInvariant`, `TextCorrect` (`TextFaithful`), `ShiftCorrect` (`ShiftAgreed`) |
| `HardDiskProofs` | `DiskInvariant`, `TypeCorrect` (`TypeOK`), `NotBusyAtBoundary` (`IdleAtBoundary`), `UnmixedSafe` (`OneDirectionIsSafe`), `LineFlagCorrect` (`LineTracked`) |
| `DiskDriverProofs` | `DriverInvariant`, `FirstWriteCorrect` (`FirstWriteLands`), `LaterReadsCorrect` (`LaterSectorsRead`) |
| `PciBusProofs` | `PciInvariant`, `TypeCorrect` (`PciTypeOK`), `ReadsBack` (`ReadBack`), `AddressedSafe` (`AddressedIsSafe`), `BridgeAgreement` (`BridgeAgrees`) |
| `VgaConsoleProofs` | `VgaInvariant`, `TypeCorrect` (`VgaTypeOK`), `UnderlineConfined` (`UnderlineOnlyCursor`) |
| `GdbStubProofs` | `GdbInvariant`, `TypeCorrect` (`GdbTypeOK`), `ReplyCorrect` (`ReplyMatches`), `ViewCorrect` (`ViewTrue`), `ResumeCorrect` (`ResumeHonoured`) |
| `MonitorProofs` | `LifeInvariant`, `TerminalGivenBack` (`TerminalRestored`), `LoadInvariant`, `LoaderSafe` (`LoaderInBounds`), `ProgramLoaded` (`ImageIntact`), `AddressSpaceCorrect` (`IdentityMapped`), `ServerInvariant`, `OnlyTheseKill` (`MonitorSurvives`), `AnswersCorrect` (`AnswersInOrder`), `TypeCorrect` (`MonitorTypeOK`) |

### Keyboard

The inductive invariant `KeyboardInv` conjoins `TypeOK`, `RingConsistent`,
`StatusTruthful`, `LineTracked` and `InterruptJustified`. None of the interrupt
properties is inductive alone. `InterruptJustified` needs `LineTracked`, because
`process_cmd` raises the line only if `interrupt_raised` is false: if the flag could be
set with the line down, a queued keycode would never be announced. `LineTracked` in turn
is preserved by `update_FI` because a read lowers the line whatever the flag says.
`ReadRearmsEdge` is an action property proved from the same invariant: the read lowers
the line, and the raise after it is therefore an edge.

The refinement maps the queue to `contents`, the slots of the ring from the tail on.
Two lemmas carry it, stated without primes about `ring_queue(buffer, tail, count)`:
`StoreAppends` (storing at the head slot appends to the queue, and uses
`RingConsistent` to know that the head slot is the one after the last) and
`AdvanceTakesTail` (moving the tail on drops the first element). Every step of the
keyboard then is a step of the queue or leaves it unchanged.

### Thread, keyboard and guest

`KeyboardInside` shows that the composition is a behaviour of `Keyboard`, so everything
proved there holds here. `NoMissedWakeup` and `NoStrayInterrupt` are inductive only
together with `DriverInv`, which says at each point of the guest what the driver has
already established: the line is down from the read of the keycode until interrupts are
on again, `CMR` holds the command whose data byte comes next, a pending vector
means that the line is up, and a line is wanted wherever a vector can arrive.

`TextFaithful` cannot be inductive as it stands: it speaks of characters sent and
characters decoded, and between the two there are keycodes in the ring. `InFlight` says
that the ring holds a run of the decoder from the guest's state (its shift flag and the
length of its text) to the thread's (its shift flag and the number of characters sent).
The run is given by two functions of the position, not by recursion; a push extends it at
the end, a read takes its first step. `ShiftAgreed` is the case of an empty ring. It needs
that `enc_t` lists no key twice and not the shift key (`KeysAssumption`), and that the
decoder's "no character" is none (`NoCharAssumption`).

### Disk

`DiskInv` is the conjunction of the four invariants of the run `hard_disk`. The position
is in its type because `sector_full` resets it; a transfer of the other direction in the
middle of a sector only moves it by another amount, which is why types survive mixing and
`OneDirectionIsSafe` needs its history variable. The constructor clears the buffer, so
zero has to be a byte (`HardDiskAssumption`).

`DiskDriverProofs` reuses the lemmas of `HardDiskProofs`, one per register access, for the
types (`DriverTypes`): the driver is one of the guests they speak of. `FirstCommand` is
what holds of the first command. Until the command is given, the disk is as constructed
and the registers written so far hold their part of the lba (`Programmed`). From then on
the counters of driver and disk are in step (in a read the disk is one ahead, it has
fetched already); the buffer agrees with the words sent (`WriteBuffer`), or the words
received agree with the buffer and the buffer, but for the first sector, with the block
(`ReadBuffer`); a write has changed the disk to `Written(sectors)`. Two arithmetic facts
carry it: `ComputeLba`, that the four registers give back the lba after the drive bits
are masked off, and `NoWrapAddress`, that a block whose byte address stays within 32 bits
is addressed as itself and refused exactly beyond the end of the disk. The first needs
that the lba fills whole registers and divides what the four hold (`GeometryAssumption`:
2^24, 2^28, 2^32), the second is where the fourth disagreement of section 3 is excluded
(`NoWrap`). The second and third show in the invariant as what it does not say: nothing
of a read's first sector, nothing once `commands` is 2.

### PCI and VGA

`PciInv` adds to the types that the cached selection is that of CAP once CAP was written
(`CacheFresh`), and that the spaces are exactly what the guest wrote (`HistoryExact`);
from these two `ReadBack` and `AddressedIsSafe` are computed for each width. A selection
decoded from CAP is in `Decoded`: a device number has five bits, so `devices[]` must have
32 slots, and the offset is a byte, so no sum with it wraps (`SizesAssumption`).

`UnderlineOnlyCursor` rests on `NoPendingUnderline`: whatever the blink flag did between
the two critical sections, the attribute is off again when the next cell is fetched. That
a row never runs over its end needs `column <= j`: a cell takes at most one column.

### GDB stub

`GdbInv` has three layers. `StubTypes` are types. `Conversation` tells, by what is in
flight, in which of five situations the two ends are: the guest runs (`Resumed`), the
answer is on its way (`Awaiting`), the client has its answer (`Settled`), its request was
garbled and refused (`Refused`), its request was taken and the client does not know yet
(`Taken`). Garbled and repeated frames move copies within a situation; only the
acknowledgement that both expect moves from one to the next. `ReplyMatches` follows. `Truth`
relates the packet in flight to the vCPU: while the guest is stopped the stub's copy agrees
with it in the general registers, and what the client will learn or has set is true of it.
The stop of a resume repeats the request's promise (`ResumeTrue`), from which the action
property `ResumeHonoured` follows.

### Monitor

Three invariants, about different parts of the state: the first two are inductive alone,
the third uses from the second the size of guest memory. `MonitorSurvives` needs all three.

`LifeInv`: the exit handlers are a suffix of one fixed list, at each stage of `main` a
known one, and the terminal mode is determined by which of them have run, as long as a
second thread is not in `endIO`. `TerminalRestored` is the case of the process being over.

`LoadInv`: while the program is loaded, each cell holds what the last segment that covers
it put there (`Image`); after `setup_page_tables` the cells of the tables hold their
entries, or what the program left in places the boot loader does not write (`Tables`,
`Leftover`). `IdentityMapped` is the walk over such tables, for any number of entries per
table. The assumptions are the layout of the low megabyte, that the fields of program
headers are numbers and a file holds no more of a segment than `filesz`, that the boot
code is well formed, and that `LimitMiB` fits one directory.

`ServerInv`: what a client asked for is what it was shown, then what is in flight to it,
then what the worker still owes it (`Owed`), unless the stream was torn. `AnswersInOrder`
is read off it. `MonitorSurvives` needs more of it (`Plumbing`): as long as no request was
torn, what is on the way to the worker are whole requests, and if its buffer is still
null after the client has asked, one of them is. A dump fits the length field (`DumpAssumption`).

### What is only model-checked

Liveness (`EventuallyRead`, `FirstCommandTerminates`, `EventuallyAnswered`,
`ScreenConverges`, `ClientServed`): fairness and ENABLED are beyond the prover. The four
violated properties are counterexamples and need no proof.

## 5. Not modelled

* A failing ioctl in `set_IRQline`, which the code only logs. The descriptor and the
  in-kernel interrupt controller exist for as long as the devices.
* The interrupt controller itself (masking, priorities, end of interrupt), which is
  KVM's. One vCPU, one vector per device.
* Wording and layout of log lines, and the INI parser (third-party): a configuration is
  a value of `Configs`.
* Port accesses with a repeat count other than one; gdb's sequence identifiers; debugger
  addresses outside guest memory; a resize of the terminal within a frame.
* `run_protected_mode`, the page-wise copying of the ELF classes and `close_connection`,
  which nothing calls; the instructions of `boot64.S`, which run in the guest.
* Failures of `KVM_GET_REGS` and `KVM_GET_SREGS`, clients that ask for a dump whose end
  lies before its start (a torn request can), and the locks of the C library that a
  signal can interrupt. The bytes a lost framing delivers are one of three buffers.
* Control characters other than NUL, and escape sequences, that the guest stores in the
  text page: the terminal obeys them and may put anything anywhere.
* The logger, whose output nothing reads.

Observations without a document that says otherwise, kept as text and not as runs: the
worker never sends the error it prepares (`DebugServer.cpp:92`), never closes its
socket, and after the server's socket is closed the accepting thread spins; a second
ctrl+c can leave the terminal raw although `endIO` is there "to restore the previous
console state" (`kvm.cpp:107`); a length that arrives in pieces kills the monitor if it is
the first of its connection (`net_wrapper.cpp:98`, `DebugServer.cpp:53`); on a page that
holds NUL the row moves left, older characters stay on its right, a cursor on a NUL cell
is not seen, and a blinking NUL moves the rest of its row back and forth
(`ConsoleOutput.cpp:94`).

Some properties have to except what the code does get wrong: `ShiftAgreed` a dropped shift
code, `LineTracked` of the disk interrupts disabled while the line is up, `BridgeAgrees` a
BAR above 64 KiB, `ImageIntact` a segment that was skipped, `LoaderInBounds` headers that
wrap or whose file size exceeds the memory size, `TerminalRestored` a ctrl+c during
`initIO`, `AnswersInOrder` and `ClientServed` torn messages and a monitor that died. The
`note` of the hazard says so in each case.

## 6. Plan

Every component but the logger and the INI reader has a model, and every safety property
that the runs check has a proof. What could still be added, in order of what it would say:

1. An abstract stop-and-resume specification that `GdbStub` implements: a debugger that
   looks at and changes a stopped vCPU with nothing in between. `Conversation` and `Truth`
   are the refinement mapping's invariant.
2. An abstract block device that `DiskDriver` implements for its first write command.
3. `ImplementsQueue` carried through `KeyboardInside` to the composed system: a lossy line
   from terminal to guest.
