# A verification of sdltrs-MultiHDC

sdltrs-MultiHDC emulates the TRS-80 family and the TCS Genie IIIs. What this
fork adds, and what these specifications begin with, is a hard-disk subsystem
of three controllers over one image format: OMTI 5527, Xebec S1410 and
WD1000/1010. Around the processor, the floppy controller, the serial port and
the interrupt lines share one event queue with room for one event; they are
modelled together. So are the processor itself, instruction by instruction, the
debugger with its disassembler, and the memory maps with the ports that switch
their banks. A wrong step in the controllers destroys the user's images silently,
long before anything looks wrong, and most of its hazards come from the order in
which three parties act that know nothing of each other: the guest's driver, the
user in the emulator's menus, and the host's file system. Paths below are
relative to `src/`; line numbers are those of the sources verified.

1. [The system](#1-the-system)
2. [The modules](#2-the-modules)
3. [What is checked](#3-what-is-checked)
4. [What is proved](#4-what-is-proved)
5. [Where the program and its documents disagree](#5-where-the-program-and-its-documents-disagree)
6. [What is abstracted, and what is not modelled](#6-what-is-abstracted-and-what-is-not-modelled)
7. [Plan](#7-plan)

## 1. The system

The emulator is one thread. `z80_run` (z80.c) executes guest instructions; `IN`
and `OUT` call `z80_in`/`z80_out` (trs_io.c), which call one function of one
device; between instructions it serves pending interrupts, scheduled events and
host events. The last open the menus (trs_sdl_gui.c), whose functions run to
completion and may attach and eject images, change write protection, create
images, save and load the whole state, or reset. So the unit of atomicity is one
port access or one menu operation, and every interleaving hazard lies *between*
such calls: a disk transfer takes hundreds of them.

| Component | State | Operations | Talks to |
|---|---|---|---|
| Reed image (trs_hard_image.c) | header, geometry, `FILE*` with position, mode, error indicator | open, offset | host files; all controllers |
| OMTI (trs_omti.c) | bus phase, status, CDB, sector buffer, byte counts, 2 slots | select, reset, CDB/data/status bytes, attach, remove, init, save, load | images, menu |
| Xebec (trs_xebec.c) | the same, with block count, host adapter's sector size, bus data, two-byte status | both adapters' ports, the same calls | images, menu |
| WD1000 (trs_hard.c) | task file, status, command, buffer, byte count, 4 slots | register reads and writes, eight commands, the same calls | images, menu, import/export |
| Routing (trs_hdctl.c, trs_io.c) | the pinned controller | which controller a port reaches | the three controllers |
| Hard-disk menu (trs_sdl_gui.c, trs_mkdisk.c) | geometry fields, insertion slot | choose, eject, protect, create | controllers, host files |
| State file (trs_state_save.c) | -- | save, load of every component in turn | everything |
| Interrupts, events (trs_interrupt.c) | latches, masks, one scheduled event | request, latch reads, schedule, do, cancel | Z80, disk, UART, cassette |
| Floppy controller (trs_disk.c) | registers, drive and image state | FDC commands, byte transfers, lost data | events, interrupts |
| UART (trs_uart.c) | receive buffer, status | port accesses, polling the host | events, interrupts |
| Cassette, stringy floppy | shift state, queues | port accesses, events | events, host files |
| Processor (z80.c) | registers, flags, interrupt flip-flops, the two lines | instructions, IRQ, NMI, HALT, reset | memory, ports, interrupts |
| Debugger (debug.c, dis.c) | table of traps, a flag for each address, counters | set, clear, run, step, next, list | Z80, memory |
| Memory, ports, CP-500, clones (trs_memory.c, trs_io.c, trs_cp500.c, trs_clones.c) | `memory_map`, bank registers, clone | read, write, lend a pointer; one handler for each bank port; reset | Z80, devices, state file |
| Import/export (trs_imp_exp.c) | descriptors, xtrshard slots | traps | host files, WD1000 |
| Keyboard, screen, options, printer | queues, tables | -- | SDL, host |

`PROJECT.json` lists every component, modelled or not, and every hazard with
the line where it bites.

**What is hard.** Interleaving: the menu exchanges an image between the command
and the data of a WRITE, reading one register of the WD1000 reopens every file.
Stale state: a stream position fixed when the command came is used hundreds of
accesses later; `present` is computed at power-on; `ferror` stays set. Partial
failure: `fwrite` takes half a sector. Crash and restore: a state file holds the
phase of a transfer but not the stream's position, the NMI latch but not its
mask. Shared state: scheduling an event runs the one that waits, whoever it
belongs to, and cancelling one cancels whatever is there. Timeouts: lost data
and the motor race with the guest's next byte. Numeric edges: geometry in
single bytes, 0 standing for 256, addresses that carry from sector to head to
cylinder; carry, overflow and half carry looked up by single bits. Copies: what
an address means is decided in three switches, how long an instruction is in two
sets of tables, where a trap lies in a list and in a flag. Liveness: a guest that does everything it is asked must see its
command end.

**What correct means.** For a controller: (1) a command reads or replaces
exactly the sectors it addresses, on the image in the drive it names, and
reports good only if the bytes are there; (2) nothing of one command reaches the
next one; (3) the machine never waits for a byte that cannot come, and every
command ends; (4) no slot is half open, and no seek divides by zero. For the
menu: an image is what its fields say. For the machine: a busy device has an
event that ends its business, a transfer is complete or says that it is not,
a byte that has arrived is announced, and the lines say what is latched. For the processor: it computes what arithmetic
says, and interrupts leave no trace in the program they interrupt. For the
debugger: it stops where it was told to. For the memory: reading, writing
and pointers mean the same byte, inside its array, and the bank is the one the
registers say. For save and load: the machine goes on where it was.

## 2. The modules

| Module | Models | Extends |
|---|---|---|
| `HardImage` | trs_hard_image.c, reed.h, the header written by trs_mkdisk.c, stdio as used here | -- |
| `Omti` | trs_omti.c | HardImage |
| `SasiDisk` | the abstract device both SASI controllers promise | -- |
| `OmtiDisk` | refinement mapping of Omti to SasiDisk | Omti |
| `OmtiSnapshot` | `trs_omti_save`, `trs_omti_load` | Omti |
| `Xebec` | trs_xebec.c | HardImage |
| `XebecDisk` | refinement mapping of Xebec to SasiDisk, with a history of interference | Xebec |
| `Wd1000` | trs_hard.c | HardImage |
| `Wd1000Disk` | what its transfers promise, with a history of the request | Wd1000 |
| `HardMenu` | `gui_hard_menu`, `trs_create_blank_hard` | HardImage |
| `Interrupts` | trs_interrupt.c: latches, masks, lines, the slot of the event | -- |
| `Events` | what events do (trs_disk.c, trs_uart.c), `trs_schedule_event`, `trs_do_event` | Interrupts |
| `Uart` | trs_uart.c, receiving | Events |
| `Fdc` | trs_disk.c | Events |
| `Machine` | the loop of `z80_run`, `trs_get_event`, `trs_reset`, the ports, snapshots | Uart, Fdc |
| `Z80Alu` | z80.c: flags and arithmetic | -- |
| `Z80Code`, `Z80Prefixed` | z80.c: the instructions; those behind CB, DD, ED, FD | Z80Alu; Z80Code |
| `Z80` | `z80_run`: fetch, execute, interrupts, HALT, reset | Z80Prefixed |
| `Z80Tasks` | what programs and operands are expected to give | Z80 |
| `Disassembler` | dis.c: lengths and jump targets | Z80 |
| `Debugger` | debug.c: traps, `run`, `next` | Disassembler |
| `DebuggerTasks` | the user at the shell, and what is expected | Debugger |
| `MemoryMaps` | trs_memory.c, trs_cp500.c: reading, writing, lending under every map | -- |
| `Board` | the bank ports of trs_io.c, trs_memory.c, clones, reset, snapshot | MemoryMaps |
| `MC*` | small instances for TLC | |
| `HardImageProofs` | lemmas about images, for the three controllers | HardImage |
| `OmtiProofs` | theorems: bus and slots; where writes go, refinement, snapshots | OmtiSnapshot, OmtiDisk |
| `XebecProofs` | theorems, with its refinement | XebecDisk |
| `Wd1000Proofs`, `HardMenuProofs`, `MachineProofs`, `BoardProofs` | theorems | Wd1000Disk, HardMenu, Machine, Board |
| `ProcessorProofs` | theorems about the processor and its debugger | Z80Tasks, DebuggerTasks |

**HardImage** has no variables: an image on the host is a record (decoded header,
the bytes after it, what `fopen` may do with the path), a slot a record (name,
open, write protection, heads, sectors, stream position, writability, error
indicator). `OpenFrom` follows `hard_image_open` through each failure, keeping
what had been decoded by then. `FreadOutcomes` and `FwriteOutcomes` return the
*set* of things the host may do, including a transfer cut short anywhere when
`IoFaults` allows it; a short read is an error only when `ferror` says so,
exactly as the code asks. Each is a function of slot and file, so that the
same facts about them are proved once (`HardImageProofs`).

**Omti, Xebec.** One action per handler call. The phase machine
IDLE -> CDB/DCB -> DATA_IN or DATA_OUT -> STATUS -> IDLE is driven by `Select`,
`CdbByte`/`DcbByte`, `OmtiCommand`/`XebecCommand` (the last byte of a command
block, with everything `omti_command`/`xebec_command` does), `DataOutMore`,
`DataOutLast` (which writes the sector), `DataIn...`, `Status...`; `SoftReset`
and `PowerOn` are `trs_*_init(0)` and `(1)`; `Attach`, `Remove`,
`ToggleWriteProtect` are the menu; `HostChmod` is the rest of the world. The
names and primed variables are the fields of `State`. `status` is kept apart
from `phase`, as in the code, because attaching an image rewrites one and not
the other. In Xebec a sector boundary inside a run is part of `DataOutLast`
(`BlockStored`) and `DataInLast` (`NextSector`).

**SasiDisk** knows drives, media and cells, and no bytes on a bus, files,
positions, geometry or buffers. It says when a sector is fetched, that it is
stored before the command is reported done, that a failure is reported and
spoils at most the sector it was at, and that nothing else ever changes a cell.
A command in whose midst media are exchanged is *void*: it may then do anything
to the medium in its drive, and still nothing to others. `OmtiDisk` maps a
medium to the bytes of an image continued by zeros (a READ past the end returns
zeros because the buffer is clear); `XebecDisk` to cells that are unwritten past
the end (the second sector of a run read there repeats the first).

**Wd1000** has no phases: every register may be written at any moment and a
command acts on what the registers then hold. `Wd1000Disk` therefore keeps a
history of what the last command asked for, and sorts the port accesses into
those a transfer must not notice (address and count registers, data, other
drives' ejection, changes of a file's mode) and those that disturb it.

**HardMenu** models a turn of the menu's loop as an action, with only the
headers of images. It is the one model in which opening an image may divide by
zero; the controllers assume no such image (`ImagesAssumption`).

**Interrupts, Events, Uart, Fdc, Machine.** The handlers of these four files call
each other in the middle of their work -- giving a command to the floppy
controller may run the serial port's event, which latches an interrupt. They are
therefore written as functions from a machine record to the next one, one
operator per function of the code, and only `Machine` has variables and
actions. An instruction ends with what follows it in `z80_run` (`RoundEnds`: an
event whose countdown is zero, `now`, and an NMI). Cycles are not counted, so any
other event may be due whenever an instruction ends (`EventDue`). A timer tick
polls the serial port, handles what the user did, and runs the timer event; each
of these calls is an action of its own, between which the guest may run. That
allows more interleavings than the program has and none less, and keeps the
transitions from multiplying. `Fdc` keeps of a command what its control depends on: status
bits, the bytes left, whether a track is being formatted, and of a drive whether
a file is open and of which format. How the search for a sector ends, and
whether the host takes a byte, is chosen. A call of stdio on a closed file ends
the emulator (`Crash`, `alive`), and the user starts it again. A *polite* guest
gives a busy controller no command but FORCEINT and does not change the drive,
as the data sheets of the chips ask; `Guests` says which guests there are.

**Z80Alu, Z80Code, Z80Prefixed, Z80.** A processor is a record; an instruction is
a function from it to the next one, one operator per group of cases of the
code's switches, chosen by the bits of the opcode as the switches list them.
Flags are a set of names, found by the code's own route (a table index of three
bits), so that comparing them with integer arithmetic says something.
`z80_run` executes one instruction and looks for an interrupt behind it; `IrqUp`,
`IrqDown`, `NmiUp`, `NmiDown` are what the devices of `Interrupts` do to the lines.
`Z80Tasks` compares single instructions with arithmetic, and the run of a
disturbed program with an undisturbed processor, whose block instructions are
the loops of the code's FAST_MOVE build.

**Disassembler, Debugger.** The tables of dis.c, by column; of a listing only the
address of the next line and the target of a relative jump are kept. The debugger
holds each trap twice, as in the code: an entry of `table` and a flag in `traps`.
`run` is one turn of its loop, with the traced watchpoint, the break request and
HALT; `NextCommand` sets its own trap, if there is room, and starts that loop.

**MemoryMaps, Board.** `mem_read`, `mem_write` and `mem_pointer` are three operators from
the bank registers and an address to a byte of `memory[]`, `rom[]`, `video[]`, or none,
written apart as the code's switches are. `Board` has the registers as one record, one operator per
bank port, and the dispatch of `z80_out` for every model and clone. Its history
variable keeps the last write to every port since the last reset, in order:
replaying that must give the map the board has.

## 3. What is checked

| Run | Question | Distinct states |
|---|---|---|
| MCOmtiAny | Does the OMTI survive anything the menu and the host do at any moment? | 1,552,734 |
| MCOmtiDisk | Is it the block device it promises, when slots change between commands? | 149,864 |
| MCXebec | Is the Xebec, through runs of sectors, both adapters and any interference? | 718,068 |
| MCWd1000 | Do the WD1000's transfers keep their sector through live registers? | 1,126,560 |
| MCSnapshot | May the state be saved and loaded at any moment? | 628,700 |
| MCHardMenu | Are created images what the fields say, around every limit? | 199,460 |
| MCMachine | Do floppy, serial port, timer, reset and user share one event slot and the lines without losing anything? | 607,878 |
| MCZ80 | Does the processor compute what arithmetic says, and do its programs end, whatever interrupts them? | 60,799 |
| MCDebugger | Does the debugger keep its traps, `next` come back, the listing keep step? | 422,966 |
| MCBoard | Does every memory map mean one byte per address, the bank selected, the ROM after a reset? | 118,020 |
| MCOmtiAimFinding, MCBankFinding | two documented claims the code does not keep (section 5) | -- |

- **MCOmtiAny.** `BusSound` has three parts: a name if and only if a stream, and
  then a geometry that can be divided by -- after every failing open, at power-on,
  in the menu or in a seek; no residue of a command aborted in any phase; never
  waiting for a byte that is not due. `WpIsTrue`: what the menu shows is what the
  image is. `Confined`: only the image in the addressed slot changes, and never a
  header's magic.
- **MCOmtiDisk.** `ImplementsDisk` is the refinement of SasiDisk;
  `OnlyAddressedSector` and `WriteIsAimed` say what an exchange in mid-command
  would break; `CommandsComplete` is liveness; `ToggleFlips` follows the five steps of
  changing write protection.
- **MCXebec.** The same for runs of sectors. Its `BusSound` adds that the count
  of sectors never passes zero; `WriteIsAimed` that *between* the sectors of a
  run the stream stands where the next belongs, though the code seeks once.
- **MCWd1000.** `TransferAimed`: while data is requested, the stream waits at the
  sector the command named, whatever was written to the address registers since.
  `SectorInPlace`: buffer and image agree when a transfer ends.
  `OnlyAddressedSector`: no other byte changes; FORMAT after a SEEK wipes the
  sectors from the one sought and no others.
- **MCSnapshot.** `OnlyWritesAreFragile`: if slots change only between commands,
  a snapshot can misdirect a later WRITE only if it was taken while a WRITE's
  data was arriving. `LoadThenSave`: saving after a load gives the snapshot back
  but for what the file system now says.
- **MCHardMenu.** `CreatedAsAsked`: an image created and inserted shows the
  cylinders, heads and sectors the fields had, through the header's four bytes and back. Field
  values on both sides of 32 and 256 sectors, 258 and 264 sectors a cylinder, 0
  heads, 8 and 9 heads, cylinders that need one byte or two; headers made elsewhere
  with both cylinder bytes zero (0 cylinders to the code, section 5), both full, or
  without the magic bytes.
- **MCMachine.** `BusyIsTimed`: a busy controller has an event of its own in the
  slot (or waits for an index pulse, as the data sheet says) -- nobody else's
  event has taken its place; this is the state form of "every command ends".
  `TransfersAccounted`: a transfer that ends has passed every byte or reports lost
  data or a fault, and has raised its interrupt, unless the motor stopped.
  `BytesAnnounced`: while bytes are buffered, one can be read or the event that
  announces it waits, never both -- and the three ways in which the code breaks
  this are named in the property (FORCEINT, the serial menu, a snapshot).
  `LinesTrue`: latches and lines agree through every source, mask, reset and
  snapshot. Saving and loading is one action: a new process continues with
  what was saved.

- **MCZ80.** `ArithmeticTrue`: sums, differences, increments and their flags
  against integers, for bytes and words around every boundary, with and without
  carry, and which flags an instruction keeps. `DecimalTrue`: DAA after any decimal
  addition or subtraction. `Transparent`: from one
  moment at which the stack is as the task has it to the next, the processor does
  what one without interrupts does -- through interrupted LDIR, LDDR and CPIR, a
  prefix, EI, HALT, LD A,I, both interrupt modes and NMIs. `StackBounded`: an IRQ held as long
  as it likes does not re-enter a handler that ends in EI and RET. `ProgramEnds`:
  every program reaches its end if devices take back their interrupts.
- **MCDebugger.** `TableCounts`: the counters are those of the table and no flag is
  left without an entry that can clear it. `NextReturns` and `NextStops`: stepping over calls,
  restarts and repeated instructions stops behind them with the stack as it was.
  `ListingAgrees`: for every opcode behind every prefix, the processor goes on where the
  listing's next line begins.
- **MCBoard.** `OneByteEach`: the three switches agree. `InsideArrays`: no sum of registers
  leaves its array, with one exception, named and exact (`BeforeVideo`): the CRTC of the Genie IIIs
  can start its 1K screen in front of `video[]` (section 5), and then it does. `OnlyLastWritesCount`: the map depends on the last value
  written to each port and on nothing before, though most handlers act on changes,
  several ports share a register, and a snapshot restores them by three routes.
  `ResetFindsRom`: a reset finds the ROM at address 0 on every map but the five of the
  Selector and Brewer's, which it leaves (section 5).

**Bounds, and why they are enough.** A unit stands for 256 bytes, so a header is
one unit, an OMTI or CP/M Xebec sector two, a TCS Xebec sector one: header and
sector keep their proportion, and a two-unit sector has a first, a last and a
"between" byte, which is all the byte loops distinguish. Command blocks have
two bytes: one before the last, and the last. Two slots, one image: the image may
be in either, or in none, while the other is addressed. Images end inside a
sector, so that reads run past the end and writes extend. Geometries differ in
heads and sectors, so that addresses carry. Xebec's zero count stands for 2
sectors instead of 256. The WD1000's `FileMax` caps the length to which a stream
can be driven on (by FORMAT after FORMAT, or a refused WRITE made good through
SDH); its addresses lie on either side of the end of the file. Two images at a
time exceed what TLC can do with these controllers; that nothing reaches another
image is proved for any number of them (`WritesAreConfined`), and checked with
one. No symmetry is used.

In MCMachine there is one drive, which may hold a JV1 or a DMK image that can be
written, or none (JV3 takes JV1's paths but for the full sector table and writing while it formats; READM,
WRITEM and the other type I commands take those of READTRK and RESTORE, and are
not in `GuestOps`). Sectors and IDs have one byte, tracks two: the last byte and
one before it, and the two a CRC takes at once. The serial port brings two bytes
at a time or none: an announced byte with and without another behind it; its device
always opens (`Opening`; failing opens multiply the states beyond the run's
time). Model I and Model III
stand for the two ways interrupts are wired; the guest enables the disk's NMI or
nothing, so that LinesTrue meets both sides of a mask, for the NMI only.

In MCZ80, IRQ is raised at most `IrqBound` times in a task unless it waits in a
HALT, NMI at most `NmiBound` times; two tasks between them interrupt every
kind of instruction, and a handler is interrupted by an NMI. The refresh register counts by `Refresh`.
In MCDebugger the table has room for two traps instead of 100 (`MaxTraps`), so that a
full table is met; the user names three addresses (`Sites`): a subroutine, a
return address and a watched byte. Every opcode is stepped over once, with operands that move nothing
that it needs itself.

In MCBoard there is a machine for every map and every expansion; `Writes` gives each port the values that
tell its banks, maps and pages apart, the largest among them; the addresses are
the first and last of every region that any map distinguishes (`RegionStarts`), and
between two neighbours no switch tells addresses apart. The
CRTC's start address is a number of 14 bits, of which each byte here takes 0 and 4: 0, 4, 1024,
which shows `video[0]` first, and 1028, the first to show bytes in front of it. Any Model III may be switched between
the CP-500's modes (`Modes`); that card's machine goes through all of them, as does
Brewer's. Port D1 of
the RAM disk, which moves on by one, is used where the disk ends. `SaveDepth` = 0: a
snapshot is taken after a reset or a change of clone and loaded at any moment, so
that every register differs from what is loaded; deeper ones multiply the states
beyond the run's time.

**Fairness.** `PoliteStep` is weakly fair in the runs that check
`CommandsComplete`: whenever the status byte asks for a byte, the guest
eventually gives or takes one. That is what a driver's polling loop does, and
the emulator always executes further guest instructions. It is fairness of the
*guest*, phrased in what the guest can see -- so that a status register that no
longer tells the truth makes the property fail. Nothing is assumed of the menu,
the host, or which command comes next. The guest may also reset or send
anything in between. MCMachine assumes no fairness: that a busy command is always
timed is an invariant there, and that the event comes when its time is over is
the main loop's comparison of two counters, which the model does not count.
The processor runs (`z80_run` is called for ever, hence weakly fair); an IRQ that
is up is taken down again (devices' handlers read the latch that raised it), and a
processor that waits in a HALT is eventually interrupted (the timer ticks for ever).
The debugger's loop goes on by itself as long as the shell does not have the word
(`RunsOn`). Board needs no fairness.

Every property of a passing run has a mutant in `PROJECT.json` that breaks it:
a plausible slip in one mapped definition, kept beside the original.

## 4. What is proved

For every value of the constants that satisfies the named assumptions: any number
of images, slots and drives, any lengths of sectors, buffers and command blocks,
any ROM and any bank values, with or without failing host I/O. A property's name
stands for the formula that the runs check.

| Module | Theorem | Statement |
|---|---|---|
| `OmtiProofs` | `Invariance` and its parts | `Spec => []IInv`: `TypeOK`, `SlotsConsistent`, `IdleIsClean`, `DataPhaseMoves` |
| | `BusStaysSound` | `Spec => []BusSound`, which is the last three |
| | `WritesAreConfined`, `ToggleAlwaysFlips` | `Spec => Confined`, `ToggleFlips` |
| | `ProtectionIsTrue` | `Spec => []WpIsTrue` |
| | `StatusIsTrue`, `WriteStaysAimed` | `QuietSpec => []StatusTracksPhase`, `[]WriteIsAimed` |
| | `WritesAreAddressed` | `QuietSpec => OnlyAddressedSector` |
| | `DiskImplemented` | `QuietSpec => ImplementsDisk`: the OMTI implements SasiDisk |
| | `SnapshotsAreSound`, `OnlyWritesFragile` | `SnapSpec => []SnapInvariants`, `[]OnlyWritesAreFragile` |
| | `LoadsResume` | `SnapSpec => LoadThenSave` |
| `XebecProofs` | `SeekIsFlat` | splitting a block address by any geometry and joining it again cancels out |
| | `Invariance` and its parts | `Spec => []IInv`: `TypeOK`, `SlotsConsistent`, `BusIsClean`, `TransferMoves` |
| | `BusStaysSound` | `Spec => []BusSound`, which is the last three |
| | `WritesAreConfined` | `Spec => Confined` |
| | `StatusIsTrue`, `WriteStaysAimed` | `DiskSpec => []StatusTracksPhase`, `[]WriteIsAimed` |
| | `DiskImplemented` | `DiskSpec => ImplementsDisk`: the Xebec implements SasiDisk, with media exchanged at any moment |
| `Wd1000Proofs` | `TypeCorrect` | `Spec => []TypeOK` |
| | `Invariance`, `TransferStaysAimed`, `SectorStaysInPlace` | `DiskSpec => []IInv`, `[]TransferAimed`, `[]SectorInPlace` |
| | `WritesAreAddressed` | `DiskSpec => OnlyAddressedSector` |
| `HardMenuProofs` | `CreatesAsAsked`, `FitsNeverKill` | `Spec => CreatedAsAsked` (cylinders, heads and sectors), `OnlyMisfitsKill` |
| | `SlotsFit` | `Spec => []OpenSlotsFit` |
| `MachineProofs` | `Invariance`, `TypeCorrect` | `Spec => []Inv`, `[]TypeOK` |
| | `LinesFollowLatches`, `SlotServesDisk` | `Spec => []LinesTrue`, `[]BusyIsTimed` |
| | `NoSilentEnd`, `BytesStayAnnounced` | `Spec => TransfersAccounted`, `BytesAnnounced` |
| `BoardProofs` | `Invariance` | `Spec => []Inv`: the map is one the board's registers build |
| | `SwitchesMeanOneByte` | `Spec => []OneByteEach`, if the CT-80's ROM ends below 37E0 and the LNW80's below 3700 |
| | `BytesStayInside` | `Spec => []InsideArrays`, for every start address of the CRTC: outside exactly in `BeforeVideo` |
| | `ResetsFindTheRom` | `Spec => ResetFindsRom` |
| `ProcessorProofs` | `ProcessorTyped` | `TaskSpec => []MachineTyped`: registers and memory keep their widths |
| | `ArithmeticHolds` | `TaskSpec => ArithmeticTrue` |
| | `DecimalHolds` | `TaskSpec => []DecimalTrue` |
| | `MovesAtOnce`, `SearchesAtOnce` | a repeated block instruction is FAST_MOVE's loop |
| | `TableCountsHolds`, `NextTrapKept` | `DebugSpec => []TableCounts`, `[](FreeUntrapped /\ NextWaits)` |
| | `ListingHolds` | `DebugSpec => ListingAgrees` |

**Slots and buses.** `SlotsConsistent` is not inductive: that an open slot stays
usable needs its type, and that a closed one cannot be reopened by a seek needs
that it has no name. `GoodSlots` says both. That positions never lie inside the
header, which is why `Confined` holds for the header, is in Xebec's `GoodSlots`
and by itself in Omti (`AfterHeader`), since there a state load may leave a stream at 0. In
Omti one more fact is needed, `SizeKnown`: the sector size is 0 until the first power-on with an
image, and a command that transfers can only come after it.
So Omti's invariant is
`IInv == TypeOK /\ GoodSlots /\ SizeKnown /\ IdleIsClean /\ DataPhaseMoves`,
Xebec's `IInv == TypeOK /\ GoodSlots /\ BusIsClean /\ TransferMoves`. Each has
one lemma per action and per conjunct the action can disturb. The facts about
opening, reading and writing (`OpenSlot`, `FreadOutcome`, `FwriteOutcome`, ...) are
lemmas of `HardImageProofs` used by all three controllers. `WriteStaysAimed` of Xebec is where the
arithmetic is: the stream moves by `secsize` per sector while the flat address
moves by one, and the two agree only because of `SeekIsFlat`; the invariant
counts sectors done as `SectorCount(dcb) - blocks`, which is why
`TransferMoves` must hold first. `WpIsTrue` needs that no image is in two slots
(`Apart`): changing the mode of a file through one slot would make the other's
flag a lie.

**Refinement of SasiDisk.** Both proofs have one lemma per action of the abstract
device, which says which formulas over the concrete variables amount to it
through the mapping, and then one step per handler. Three things need more than
`WriteStaysAimed`. A READ has no aim of its own in the code after its first
sector: `ReadIsAimed` says where the stream stands, *or* that it is at the end
of a file that ends before the sector asked for, since a short read moves
it less; at the end it stays there (`FreadStops`), and what the buffer then
still holds is what `XebecDisk` maps the missing cells to. A stage of the concrete
device is void in the abstract one as soon as a slot is exchanged under a
command, and stays so to its end: then nothing is asked of the command's own
medium, and the proof that no *other* medium changes is `Confined`'s. And the
drive a command names must be the one its transfer uses (`LunKnown`), because the
code looks the slot up again for every byte.

**Snapshots.** A state file may hold any state of the controller, but the images
go on changing, so what a load finds depends on the file system at that
moment. `SnapshotSound` is `IInv` of what a snapshot holds, without its streams:
a saved slot says nothing of them. A load gives `IInv` back but not
`AfterHeader` (a slot it reopens stands at 0), so the theorems about snapshots
rest on `IInv` alone. `OnlyWritesAreFragile` needs `CareInv` besides: until
slots are exchanged in mid-command, or a snapshot of an arriving WRITE is loaded, a WRITE is aimed, and
the images in the slots, *those a load would put there included*, have headers.

**WD1000.** There is no phase to hang an invariant on: every register may be
written at any moment. `IInv == SlotInv /\ CourseInv`, where `CourseInv`
says of an undisturbed request that did not fail that it is `OnCourse`: the
stream is `bytesdone` behind the sector requested or at its end, by kind of command
and by what the status still asks for, and the buffer agrees with the image so
far. `hard_sector` would reopen a closed slot (trs_hard.c); that this never
succeeds, because a closed slot has no name, is `ReadySlot`.

**Machine.** A handler takes a machine record to the next, and an instruction may
run up to four of them inside each other. `MachineProofs` has a lemma for each: what of the record it
leaves alone, and that it keeps three predicates. `Wired`: lines and latches
agree, and on a Model I no NMI stays taken, without which a second press of the
reset button would be lost. `Timed`: a busy controller has an event of its own,
*and a `lostdata` that waits is about the command under way* -- `BusyIsTimed`
alone is not inductive, since a `lostdata` about another command passes and
leaves the controller busy with nothing in the slot. `Counted`: a `done` that waits has no bytes left to
pass, or reports FAIL; that is why a transfer cannot end silently.
Between instructions `ev.now` is FALSE: an event due at once never waits.

**Board.** The invariant says that the map is one the model, the clone and the
card build, and on a Model 4 the one its mode register names; it holds of the saved board too, and a load combines two boards of
which only the kit is known to be the same. That `mem_read`, `mem_write` and
`mem_pointer` agree is then proved map by map, for every address and every value
of the bank registers (`SwitchesAgree`), not only for the addresses TLC
visits. One hypothesis was found that way, `RomsFit`. With a ROM file longer than 3700h
bytes, the LNW80's CP/M map reads that file at F700-F7FF through the
memory-mapped I/O, where `mem_pointer` lends RAM; with one longer than 37E0h, which only a
machine without a disk controller takes, the CT-80's reads it at EFE0-EFEF, where
`mem_pointer` lends another byte of the ROM. The machines' own ROMs
have 12 K. That no map leads outside its array needs more of the registers: `Ranged`
bounds each bank register by what its port can set, *by model and clone*, and
`OwnMap` says that a clone's map is shown by that clone alone. Neither is enough without the
other: the byte counter of the CT-80's RAM disk is the same `bank_base` that a
SpeedMaster adds to an address, and it may stand up to 16M high; what keeps the two apart
is that a machine leaves a CT-80 only through a reset, which clears it. `Ranged` also bounds
the CRTC's start address by 16383 and ties the Genie IIIs's window to it: from the
address 1024 on the window's first byte is `video[0]` or lies in front of it, and the
theorem says of every address of the map that its byte is outside *if and only
if* `BeforeVideo` holds. `Ranged` has one lemma per
port handler, and each family of maps one for what it makes of the ranges.

**Processor.** TLC runs single instructions on the operands around every boundary; the
theorem is for every operand, with any flags, in any register, at any address.
`IsProcessor` says what a processor record is, and one lemma per group of
instructions shows that it stays one, among them all behind a prefix: bytes stay bytes through shifts by
a bit, decimal correction and index arithmetic, and addresses wrap. `ArithmeticHolds` is
then proved from the tables up. The code finds carry, half carry and overflow from three bits: the top bit of
each operand and of the result. `AddTables` and `SubTables` show for a sum and a difference of *any* width, with a carry in,
that these three bits decide whether the result left its range -- once unsigned,
once for the lower digit, once signed -- and the rest is that each operation reads the table with the right bits. What INC and DEC test instead (the
result is 128, its lower digit is 0) is shown to be the same. Two facts about what is
around the instruction are needed: an interrupt behind it leaves A, F, HL
alone, and it may push over the byte that INC (HL) has just written, which
is why `ArithmeticTrue` excepts that case. `DecimalHolds` has the invariant `Stage`: a
decimal program is at its start, or behind its sum with what `TrueOnA` says, or at its
end with the answer. Between them is a digit-by-digit argument about `Daa`, with the
half carry of the first instruction telling 9 + 9 from 9 + 3.

z80.c has LDIR, LDDR, CPIR and CPDR twice: as a loop (FAST_MOVE), and as one pass that puts
the program counter back. `Transparent` compares the two on the tasks' few bytes;
`MovesAtOnce` and `SearchesAtOnce` state for every processor, memory and count (0 is
65536) that the turns of the one leave what the other does in one, R aside, which counts
turns. A move must not overwrite its own instruction (`Intact`): there the two builds
differ. The states between turns are given as a function p of which
each is a turn of the one before. `Moving` and `Searching` say how far such a state
has got, and hold before every pass by the least counterexample, so no induction
over an operator is needed. `MoveLoop` is a recursive function, of which one must
first know that it exists: p with the loop's flags and counter put in (`InLoop`) is
one, and `LoopReached` shows that there is no other. A search needs `EndsOnce`, and
`EndsSomewhere` shows that there is always a place where it ends.

**Debugger.** `TableCounts` is inductive but for two
things: `set_trap` must find a free entry whenever the counter is below the
limit (`FreeEntry`, from cardinalities), and clearing traps in a loop over the
table counts down once per entry. With it go `NextWaits`, which says that the
trap of a `next` cannot be lost while its code runs, and `FreeUntrapped`: the loop that does not look at traps runs
only when there are none. TLC compares listing and processor on every opcode once, in one
memory; `ListingHolds` does it for every memory, every register and every place in
memory, the last bytes before 65536 among them, where operands wrap to 0. One lemma per group of
instructions says how far it moves the program counter (`Keeps`, `Passed`,
`Jumped`), and the two ways of grouping opcodes, the code's switch
and the listing's columns, are then compared set by set (`LowLengths`, `HighLengths`,
`GroupClasses`, `GroupsCover`): what the processor does not know behind DD or FD must be what the
listing leaves out.

*Assumptions.* Those stated with `ASSUME` in each component: sizes positive and
no larger than the buffer, names of images different from "none", images that do
not divide by zero when opened; for `Board`, which ROM sizes
and expansions a machine can be built with (`BuildsAssumption`) and that addresses have 16
bits; for the processor, that every program starts in a state of the processor
(`ProgramsAssumption`) and that a program named "decimal" is one: two decimal
operands, one of the four operations, DAA and an end, undisturbed (`DecimalAssumption`). TLC evaluates them in every run.

*Only model-checked.* Liveness (`CommandsComplete`, `ProgramEnds`, `NextStops`), which is out
of the prover's reach, as are ENABLED and induction over data. The processor's
`Transparent` and `StackBounded` are about
two programs, and so is the debugger's `NextReturns`, which asks that a subroutine leaves the stack
as it was: these runs are computations
rather than instances of something larger. `OnlyLastWritesCount` replays a list of any length with a fold, which would
take induction over it. `BankIsSelected` and `WriteIsAimed` of the plain OMTI
are violated (section 5). No model here needs a recursive operator.

## 5. Where the program and its documents disagree

Two claims have a run that shows the violation:

- **MCOmtiAimFinding.** An image attached to the addressed slot while WRITE's
  data is arriving (trs_omti.c:167) is written at its first sector: the new
  stream stands behind the header. OMTI_CONTROLLER.md:89 gives the offset of
  every sector by its address.
- **MCBankFinding.** A reset selects bank 1 of the Genie IIIs (`bank_base`,
  trs_memory.c:623) with a bank register of 0, and `genie3s_bank_out`
  (trs_memory.c:293) acts on changes only: a program that selects bank 0 first
  has bank 1, against the table at trs_memory.c:310.

Others were met while modelling and are part of the models, without a run:

- `present` is set only by `trs_omti_init(1)` (trs_omti.c:162); a drive attached
  to a machine started without one never answers. HOWTO.md:77 promises attaching
  "on any slot without restarting".
- A state saved while WRITE's data is arriving: the load (trs_omti.c:604) reopens
  the file at offset 0 and the sector goes over the header that
  OMTI_CONTROLLER.md:86 describes.
- Heads times sectors is stored in one byte (trs_mkdisk.c:299): from 257 on the
  header is refused, or divides by zero, while MODIFICATIONS.md:38 calls what is
  written "a generic Reed header valid for either controller".
- `trs_disk_command_write` says "Cancel any ongoing command" (trs_disk.c:2418) but
  cancels only `trs_disk_lostdata` and `trs_disk_intrq_interrupt`, which nothing
  schedules. A READ's `trs_disk_firstdrq` stays, and announces data for the command
  that follows; a `trs_disk_done` ends it. It takes a guest that is not polite.
- Two traps of one kind at one address share one flag. Clearing one (debug.c:260)
  leaves the other in the list and without effect, though the help (debug.c:110)
  says that it is set.
- With a full table, `next` sets no trap and runs on until something else stops it
  (debug.c:221). `next` over an instruction that is not a call runs it with interrupts
  off (debug.c:731), where the help (debug.c:90) has "interrupt allowed".
- The listing does not know the halves of IY, which the processor executes
  (dis.c:1235 against z80.c:2100); `ListingAgrees` excepts them.
- An interrupt that finds a HALT steps the program counter over it (z80.c:4243). A
  HALT that reset the machine or entered the debugger was not stepped back to, so
  there the instruction behind it is skipped; the runs configure HALT to wait, or
  allow no interrupts.
- The Huffman board's bank is 0 after a reset (trs_memory.c:687), where the comment
  above `huffman_out` says "Set to 1 on a reset".
- A CP-500 that leaves M80 mode for its standard map (mode 00) gets the map of the
  extra ROM instead: `mem_map(0)` is followed by `trs_clones_model`, which sets the
  clone's own (trs_cp500.c:115). The second time the mode is selected it works.
- The RAM 192 B's card is multiplied by 192 and its block by 48 K: the factor 1024
  binds to the block only (trs_memory.c:570), so that cards overlap but for 768 bytes.
- A start address of the Genie IIIs's CRTC above 1024 puts the 1K screen in front
  of `video[]`: `mem_video_page(1024 - m6845.sta)` (trs_io.c:135) is negative, and reads
  (trs_memory.c:939) and lent pointers (trs_memory.c:1750) index with it unchecked, as
  does the look at the old byte before a font is changed (trs_memory.c:1394). Other
  writes go through `mem_video_write`, which checks.
- Reading port F4 switches modes on any Model III, not only on a CP-500
  (trs_io.c:1044).
- A pointer lent for writing (`mem_pointer`) leads to RAM that a write would not
  reach (write-protected or dropped) on the maps 18, 19, 1B, 1D, 1E, 34 and 50.
- A reset leaves the maps 11 to 15 of the Selector and Doppelbauer's modification,
  and Brewer's 35: the processor restarts in RAM. Power-on does not.
- Registers remember more than the last writes on four machines
  (`Remembers`): the 80-Z card's window moves when bit 2 changes and keeps its place else;
  the Genie IIIs keeps its bank through a change of clone; the two modifications at port FE act on a change, and
  which map that is made in depends on port D2; on the Model III without a card a VID-80 value of 0
  is no change, and Brewer's bit in port EC is compared with a register that reset leaves.
- A state load pins the controller that was only inferred when the state was
  saved (trs_state_save.c:54, 104).
- An image *removed* in the middle of a WRITE: the rest is dropped and reported
  good (trs_omti.c:403, trs_xebec.c:480; OMTI_CONTROLLER.md:70 says that on
  completion the buffer is written to the image file).
- Attaching resets the OMTI's status register to idle whatever the phase
  (trs_omti.c:520), though trs_omti.h:63 calls that value "idle, ready to
  accept SELECT". With slots exchanged in mid-command a polite
  guest waits for ever.
- The header's write-protect flag is shown, but a WRITE to a file that is itself
  writable succeeds (trs_omti.c:405; reed.h:24). A state load forgets the flag
  (trs_omti.c:616).
- 0/0 cylinders in a header are taken as 0 (trs_hard_image.c:55), below the comment
  "0/0 means 256, per reed.h", and reed.h:45 says so; the menu writes 0/0 back when its
  fields show such a slot.
- Xebec's READ BUFFER after WRITE BUFFER returns zeros: reading the final status
  clears the buffer (trs_xebec.c:162, against the comment at 443).
- A Xebec run read past the end of the file repeats the last sector read
  (trs_xebec.c:522); WD1000 READ past the end leaves the buffer as it was
  (trs_hard.c:432).
- Reading the WD1000's write-protect register reopens every image
  (trs_hard.c:264). In mid-WRITE the data then goes to the image's first sector,
  or, with the last drive empty, is silently dropped because the status has
  become an error.
- WD1000 FORMAT does not seek (trs_hard.c:482): after a READ it wipes the
  *following* sectors, after power-on those from the first. On an empty drive it
  succeeds.
- A WD1000 WRITE refused for its multiple-sector flag is accepted after all if
  SDH is written before the data (trs_hard.c:355), at the stream's old position.
- FORCEINT cancels whatever event is scheduled (trs_disk.c:3273). If it was the
  serial port's, its byte is never announced, and since the buffer is not
  empty no further bytes are fetched: the port is silent until it is opened again.
- The serial menu and a snapshot empty the serial buffer but leave the event that
  announces a byte; the guest then reads a byte that is not there, the count
  becomes -1, and from then on it announces and delivers bytes from behind the
  buffer (trs_uart.c:425).
- A byte that arrives while a sector is being passed runs the pending
  `trs_disk_lostdata` at once (trs_interrupt.c:669): the transfer is ended with
  LOSTDATA though the guest was in time. It is reported, so no property fails.
- After a load into a new process the NMI line stays as saved while the mask is
  the initial one (trs_interrupt.c:721).
- A motor that stops in mid-transfer ends the command with LOSTDATA and without
  INTRQ (trs_disk.c:962); so does a WRITE to a write-protected disk
  (trs_disk.c:2783) end without one.
- A disk ejected in the middle of a READ, a WRITE or a format: the next byte uses
  a closed stream (trs_disk.c:1508, 1692), and READADR on a drive that is neither
  JV1 nor JV3 does not look whether there is one (trs_disk.c:3103).
- A format that was complained about goes on: the event of the complaint ends the
  command, the bytes that follow are still taken (trs_disk.c:2250).

## 6. What is abstracted, and what is not modelled

- Bytes are a few symbolic values; those the guest writes never happen to form
  a Reed header. What a command block decodes to is chosen with its last byte.
- stdio is write-through: what `fwrite` accepted is in the file. Buffering is
  beyond the program's control; a crash of the host is not modelled. A write
  after a read continues at the position the read reached, as C libraries do.
- The OMTI's interrupt-mask register, the LEDs and a slot's cylinder count (never
  used in an address; HardMenu has it) are left out, as are the WD1000's control, error and
  precompensation registers.
- Xebec's idle bus data is reduced to the bit that selects; FORMAT TRACK and
  FORMAT DRIVE, which the code treats alike, are one.
- An image is in one slot at a time: two streams on one file would need stdio's
  buffers to be modelled.
- Failing `stat` or `chmod` in `trs_write_protect` leaves everything as it was
  and is not a separate step. A LUN above 1 or a drive above 3 cannot be sent.
- In the menu: one controller; an image whose magic bytes or version are wrong and one
  that cannot be opened are the same (`id` FALSE); `fopen` failing in `trs_create_blank_hard` is not
  modelled; creating an image over one that is open is modelled for its header
  only.
- In the machine: cycles are not counted. Accepting an IRQ only moves the program
  counter. The type I status bits, NOTRDY and the CRC and record-type bits decide
  nothing and are left out; NOTFOUND, WRITEPRT and WRITEFLT are one bit. What a
  drive that has forgotten its format still has in its track buffer is not kept.
  Not modelled: doublers (a second chip on a Model I), clones, real floppy
  drives, the serial port's line parameters and its transmit side (which never
  waits, so that its interrupt stays latched), sound and cassette events, turbo
  and timer speeds, an `fclose` that fails, an image that cannot be opened.
- In the processor: cycle counts and what depends on them, the emulator's own trap
  instructions (ED 28 and up, which call trs_imp_exp.c), and the memory-mapped
  devices. Bits 3 and 5 of the flags are modelled as the code sets them, and left
  out of what arithmetic is asked. The debugger's commands that print or change registers and
  memory, and `cont <address>`, are left out.
- In the memory: what a device or a graphics adaptor answers is "no byte"; so is a
  read that gives FF. The Micro-Labs board is off, as after a reset. Screen
  refreshes, timers, sound and interrupts that the same ports set are left out, as
  are ports that only read back a register.
- Not modelled: the routing of a port to one of three hard-disk controllers
  (the controllers are modelled one at a time, as the only one with images); the
  Stringy Floppy and the cassette, whose state is a bit stream; import and export.
- Rendering, glyphs, text formatting, option parsing, the keyboard's tables and the printer:
  pure input and output.

## 7. Plan

Done: HardImage, Omti, its refinement, snapshots, HardMenu, Xebec, Wd1000; the
machine around the event slot (Interrupts, Events, Uart, Fdc, Machine); the
processor, the debugger and the memory maps, and proofs for all of them. Next, in
this order:

1. **Proofs**: the processor's `Transparent` for every program whose interrupt
   handlers give back what they take. What a loop of `next` returns to stays with TLC.
2. **HdBus**: trs_hdctl.c. The controller that answers is inferred at every access
   when none is pinned (trs_hdctl.c:36), and changes when the menu attaches or
   ejects an image: no command may be split between two controllers, and none left
   waiting behind a bus that no longer reaches it.
3. **Cassette** as another client of the slot, and the event queue's abstract
   specification: each scheduled event runs exactly once unless cancelled.
   Doublers; write-protected images in MCMachine.
4. **FdcTracks**: the tables of JV3 and the IDs of DMK tracks as functions.
5. **Stringy**, **ImpExp** (descriptor table, xtrshard slots shared with the WD1000).
6. **StateFile**: order and width of what is saved against what is loaded,
   component by component.

The small ones of these share runs: one question, one run, few properties, and
the invariants proved that TLC confirms.
