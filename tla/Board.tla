-------------------------------- MODULE Board --------------------------------
(***************************************************************************)
(* The bank registers of trs_memory.c and the ports that set them          *)
(* (z80_out of trs_io.c), with the reset button, the clones a port write   *)
(* turns the machine into, the CP-500's mode switch and the snapshot; of   *)
(* the 6845 CRTC, its selected register and its start address (trs_io.c).  *)
(*                                                                         *)
(* MemoryMaps says what the registers mean.  The registers and the build   *)
(* (model, ROM and memory size, speed-up kit, expansion) are one record,   *)
(* board, because nearly every port changes several of them; the screen,   *)
(* the timer and the sound that the same ports set are left out.           *)
(***************************************************************************)
EXTENDS MemoryMaps, SequencesExt

CONSTANTS
  Builds,       \* the machines: model, speedup, romSize, memSize, card
  Writes(_),    \* Writes(board): the <<port, value>> pairs a program of that machine writes
  Modes(_),     \* Modes(board): values of register A when its program reads port F4
  Addresses,    \* the addresses the properties look at: the ends of every region
  SaveDepth     \* bound: a snapshot is taken while at most so many writes count

\* trs_rom_init cuts every ROM to 14K (a Model I's with a disk controller to
\* 37E0, below the memory-mapped disk); the options leave at least 4K of RAM.
ASSUME BuildsAssumption ==
  \A m \in Builds : /\ m.model \in {1, 3, 4, 5}
                    /\ m.romSize \in Nat \ {0} /\ m.romSize <= \h3800
                    /\ m.memSize \in Nat /\ m.memSize >= RAM_START + 4096 /\ m.memSize <= 65536
ASSUME AddressesAssumption == \A a \in Addresses : a \in Nat /\ a < 65536

VARIABLES
  board,        \* build and registers
  origin,       \* the board as the last reset or change of clone left it
  written,      \* the writes that count since: the last one of every port, in order
  saved         \* the snapshot: all three of these, or None

vars == <<board, origin, written, saved>>

None == [origin |-> "none"]

-----------------------------------------------------------------------------
(***************************************************************************)
(* Clones.                                                                 *)
(***************************************************************************)
mem_map(b, which) == [b EXCEPT !.memory_map = which + 16 * b.model]

mem_video_page(b, offset) == [b EXCEPT !.video_addr = offset - VIDEO_START]
ct80_video_addr(b, address) == [b EXCEPT !.video_addr = address]

CloneMap == [none |-> 0, CP500 |-> 1, CP500_M80 |-> 2, CT80 |-> \hC, EG3200 |-> \hA,
             GENIE3S |-> \hB, LNW80 |-> \hD, SPEEDMASTER |-> \hE]

\* Becoming another machine brings its memory map with it.
trs_clones_model(b, clone) ==
  IF clone = b.clone THEN b ELSE mem_map([b EXCEPT !.clone = clone], CloneMap[clone])

-----------------------------------------------------------------------------
(***************************************************************************)
(* Port handlers: Model I expansions.                                      *)
(***************************************************************************)
Offsets(low, high) == [i \in 0 .. 2 |-> CASE i = 0 -> low [] i = 1 -> high [] i = 2 -> 0]
BitsOf(value, first, count) == (value \div 2^first) % 2^count
If(condition, n) == IF condition THEN n ELSE 0

selector_out(b, bits) ==
  LET mode == bits % 8
      base == IF Bit(bits, 3)
              THEN 32768 + (BitsOf(bits, 4, 4) * 32768) + If(Bit(bits, 0), 32768)
              ELSE 0
  IN  [b EXCEPT !.mem_command = bits,
                !.memory_map = IF mode >= 6 THEN \h10 ELSE \h10 + mode,
                !.bank_base = base,
                !.bank_offset[0] = If(Bit(bits, 0), base),
                !.bank_offset[1] = If(~Bit(bits, 0), base)]

xmem80_out(b, port, page) ==
  LET paged == [b EXCEPT !.bank_offset[port - \h41] = page * 16384, !.memory_map = \h16]
  IN  IF port # \h43 THEN paged
      ELSE [paged EXCEPT !.bank_offset[0] = page * 16384, !.bank_offset[1] = page * 16384]

lubomir_out(b, bits) ==
  [b EXCEPT !.bank_offset[1] = If(Bit(bits, 4), 32768),
            !.memory_map = IF bits # 0 THEN \h19 ELSE \h10,
            !.sys_byte = bits]

\* The video window moves only when bit 2 changes.
s80z_out(b, value) ==
  LET window == IF ~Bit(value, 2) THEN VIDEO_START
                ELSE IF b.speedup = 4 THEN \h3900
                ELSE IF Bit(value, 1) THEN \hB000 ELSE \hF000
  IN  [b EXCEPT !.video_addr = IF Bit(value, 2) # Bit(b.sys_byte, 2) THEN window ELSE @,
                !.sys_byte = value, !.memory_map = \h17]

\* Bit 3 says RAM or ROM for the piece that bits 0 to 2 name; 7 switches it off.
eg64_mba_out(b, value) ==
  LET piece == value % 8
      without == b.sys_byte - If(Bit(b.sys_byte, piece), 2^piece)
  IN  IF value = 7 THEN [b EXCEPT !.memory_map = \h10, !.sys_byte = 0]
      ELSE [b EXCEPT !.sys_byte = without + If(Bit(value, 3), 2^piece), !.memory_map = \h18]

\* A value that changes nothing has no effect at all.
sys_byte_out(b, value) ==
  IF value = b.sys_byte THEN b
  ELSE IF b.memory_map = \h17
       THEN [b EXCEPT !.sys_byte = If(Bit(value, 4), 8) + (@ % 8)]
  ELSE IF b.memory_map \in {\h10, \h14}
       THEN [b EXCEPT !.memory_map = IF Bit(value, 4) THEN \h14 ELSE \h10, !.sys_byte = value]
  ELSE [b EXCEPT !.sys_byte = value]

m6845_select(b, value) == [b EXCEPT !.m6845_reg = value]

\* Registers 0C and 0D are the two bytes of the start address, and the second
\* moves the screen.
m6845_crtc(b, value) ==
  CASE b.m6845_reg = \h0C -> [b EXCEPT !.sta = (value % 64) * 256 + (@ % 256)]
    [] b.m6845_reg = \h0D ->
         LET started == [b EXCEPT !.sta = (@ - (@ % 256)) + value]
         IN  IF b.clone = "CT80" THEN ct80_video_addr(started, started.sta)
             ELSE IF b.clone = "GENIE3S" THEN mem_video_page(started, 1024 - started.sta)
             ELSE started
    [] OTHER -> b

-----------------------------------------------------------------------------
(***************************************************************************)
(* Port handlers: clones of the Model I.                                   *)
(***************************************************************************)
ct80_ramdisk_out(b, port) ==
  IF port = 1 /\ b.bank_base < MAX_MEMORY_SIZE - 1
  THEN [b EXCEPT !.bank_base = @ + 1] ELSE b
\* Ports 2 to 7 set the three bytes of the RAM disk's address.
ct80_ramdisk_address(b, port, byte) ==
  LET bytes == [b.bank_offset EXCEPT ![(port \div 2) - 1] = byte]
  IN  [b EXCEPT !.bank_offset = bytes,
                !.bank_base = bytes[0] + (bytes[1] * 256) + (bytes[2] * 65536) + 65536]
\* What ports 0 and 1 read and write.
RamDiskByte(b, port) ==
  IF b.bank_base < MAX_MEMORY_SIZE - port THEN Ram(b.bank_base) ELSE NoByte

eg3200_init_out(b, value) == trs_clones_model([b EXCEPT !.sys_byte = value], "EG3200")
eg3200_genieplus_out(b, bits) ==
  LET bank == BitsOf(bits, 0, 3) * 65536
      base == bank + If(bank # 0 /\ Bit(bits, 3), 32768)
  IN  [b EXCEPT !.bank_base = base, !.bank_offset[0] = base]

genie3s_bank_out(b, value) ==
  IF value = b.sys_byte_2 THEN b
  ELSE [b EXCEPT !.bank_base = BitsOf(value, 6, 2) * 65536, !.sys_byte_2 = value]
genie3s_init_out(b, value) ==
  trs_clones_model(mem_video_page(genie3s_bank_out(b, value), 0), "GENIE3S")
genie3s_mem_out(b, bits) ==
  IF bits = b.mem_command THEN b
  ELSE LET block == BitsOf(bits, 0, 2) * 262144
       IN  [b EXCEPT !.mem_command = bits, !.bank_offset[0] = block,
                     !.bank_offset[1] = If(Bit(bits, 7), block)]
genie3s_sys_out(b, value) == [b EXCEPT !.sys_byte = value]

lnw80_bank_out(b, value) ==
  IF value = b.sys_byte_2 THEN b
  ELSE LET banked == [b EXCEPT !.bank_offset[1] = If(Bit(value, 6), 32768), !.sys_byte_2 = value]
       IN  IF Bit(b.sys_byte, 1) THEN banked
           ELSE mem_video_page(banked, If(Bit(value, 3), 1024))

tcs_ram192b_out(b, bits) ==
  [b EXCEPT !.bank_base = (BitsOf(bits, 2, 2) * 4 * 192)
                          + (BitsOf(bits, 4, 2) * 16 * 48 * 1024) + 65536,
            !.mem_command = bits]

-----------------------------------------------------------------------------
(***************************************************************************)
(* Port handlers: Models III, 4 and 4P, and the SuperMem of all.           *)
(***************************************************************************)
vid80_vx3_out(b, bits) ==
  IF bits = b.sys_byte THEN b ELSE [b EXCEPT !.sys_byte = bits, !.memory_map = \h34]

\* Port EC, where Brewer's modification has its bank bit.
ModeImageOut(b, value) ==
  IF value = b.modeimage \/ (b.model = 3 /\ (b.speedup = 2 \/ b.clone = "CP500_M80")) THEN b
  ELSE LET mapped == IF b.model = 3 /\ b.speedup = 4 THEN mem_map(b, If(Bit(value, 0), 5)) ELSE b
       IN  [mapped EXCEPT !.modeimage = value]

\* Reading port F4 on a CP-500: the map first, then the clone.
cp500_switch_mode(b, mode) ==
  CASE mode = \h00 -> trs_clones_model(mem_map(b, 0), "CP500")
    [] mode = \h20 -> trs_clones_model(mem_map(b, 1), "CP500")
    [] mode \in {\h1D, \h1C} -> trs_clones_model(mem_map(b, 2), "CP500_M80")
    [] mode \in {\h05, \h45, \h85} ->
         trs_clones_model(mem_video_page(mem_map(b, 3), (mode \div 64) * 1024), "CP500_M80")
    [] OTHER -> b

mem_bank(b, command) ==
  LET base == b.bank_base
  IN  [b EXCEPT !.mem_command = command,
                !.bank_offset = CASE command = 0 -> [@ EXCEPT ![0] = 0, ![1] = 0]
                                  [] command = 2 -> [@ EXCEPT ![0] = 0, ![1] = base - 32768]
                                  [] command = 3 -> [@ EXCEPT ![0] = 0, ![1] = base]
                                  [] command = 6 -> [@ EXCEPT ![0] = base, ![1] = 0]
                                  [] command = 7 -> [@ EXCEPT ![0] = base + 32768, ![1] = 0]
                                  [] OTHER -> @]

\* Port 84: page, banks and map, each only when its bits change.
ModeSelectOut(b, value) ==
  LET old == b.modesel
      paged == IF Bit(value, 7) # Bit(old, 7) THEN mem_video_page(b, If(Bit(value, 7), 1024)) ELSE b
      banked == IF BitsOf(value, 4, 3) # BitsOf(old, 4, 3)
                THEN mem_bank(paged, BitsOf(value, 4, 3)) ELSE paged
      mapped == IF value % 4 # old % 4 THEN mem_map(banked, value % 4) ELSE banked
  IN  [mapped EXCEPT !.modesel = value]

huffman_out(b, bits) == mem_bank([b EXCEPT !.bank_base = (bits % 32) * 65536], b.mem_command)
hypermem_out(b, bits) ==
  mem_bank([b EXCEPT !.bank_base = (BitsOf(bits, 1, 4) * 65536) + 65536], b.mem_command)

\* Mutant: the slots counted from 1.
MegamemSlotFromOne(b, slot, value) ==
  [b EXCEPT !.megamem_addr = BitsOf(value, 6, 2) * 16384,
            !.megamem_base = (BitsOf(value, 0, 6) * 16 + (slot + 1) * 1024) * 1024 + MEGAMEM_START]
megamem_out(b, slot, value) ==
  IF slot = 0 /\ value = 0 THEN [b EXCEPT !.megamem_addr = 0, !.megamem_base = 0]
  ELSE [b EXCEPT !.megamem_addr = BitsOf(value, 6, 2) * 16384,
                 !.megamem_base = (BitsOf(value, 0, 6) * 16 + slot * 1024) * 1024 + MEGAMEM_START]

supermem_out(b, bits) ==
  [b EXCEPT !.supermem_base = (bits % 32) * 32768,
            !.supermem_high = If(~Bit(bits, 5), \h8000)]

sys_byte_write(b, value) == [b EXCEPT !.sys_byte = value]

-----------------------------------------------------------------------------
(***************************************************************************)
(* z80_out: who answers a port.  Ports of other devices change nothing     *)
(* here.                                                                   *)
(***************************************************************************)
\* The SuperMem that is fitted has all 32 pages.
OutAnyModel(b, port, value) ==
  IF port = \h43 /\ b.card = "supermem" THEN supermem_out(b, value) ELSE b

OutCt80(b, port, value) ==
  CASE port \in \hD0 .. \hD1 -> ct80_ramdisk_out(b, port % 8)
    [] port \in \hD2 .. \hD7 -> ct80_ramdisk_address(b, port % 8, value)
    [] port = \hFC -> m6845_select(b, value)
    [] port = \hFD -> m6845_crtc(b, value)
    [] port = \hFE -> sys_byte_out(b, value)
    [] OTHER -> OutAnyModel(b, port, value)

OutEg3200(b, port, value) ==
  CASE port = \h28 -> eg3200_genieplus_out(b, value)
    [] port = \hF6 -> m6845_select(b, value)
    [] port = \hF7 -> m6845_crtc(b, value)
    [] port = \hFA -> sys_byte_write(b, value % 16)
    [] OTHER -> b

OutGenie3s(b, port, value) ==
  CASE port = \hF6 -> m6845_select(b, value)
    [] port = \hF7 -> m6845_crtc(b, value)
    [] port = \hF9 -> genie3s_bank_out(b, value)
    [] port = \hFA -> genie3s_sys_out(b, value)
    [] port = \hFB -> genie3s_mem_out(b, value)
    [] OTHER -> b

OutLnw80(b, port, value) ==
  CASE port = \h1F -> lnw80_bank_out(b, value)
    [] port = \hFE -> sys_byte_out(b, value)
    [] OTHER -> OutAnyModel(b, port, value)

OutSpeedmaster(b, port, value) ==
  CASE port = \h7E -> tcs_ram192b_out(b, value)
    [] port = \hFE -> sys_byte_out(b, value)
    [] OTHER -> b

OutModel1(b, port, value) ==
  CASE port \in {\h1F, \h3F} /\ b.card = "selector" -> selector_out(b, value)
    [] port \in \h41 .. \h43 /\ b.card = "xmem80" -> xmem80_out(b, port, value % 32)
    [] port = \hC0 /\ b.card = "lubomir" -> lubomir_out(b, value)
    [] port \in {\hD0, \h10} -> m6845_select(b, value)
    [] port \in {\hD1, \h11} -> m6845_crtc(b, value)
    [] port = \hD2 -> s80z_out(b, value)
    [] port = \hDF /\ b.speedup <= 3 /\ b.card # "lubomir" -> eg64_mba_out(b, value)
    [] port = \hF9 /\ b.speedup < 4 /\ b.romSize <= \h2000 -> genie3s_init_out(b, value)
    [] port = \hFA /\ b.speedup < 4 /\ b.romSize <= \h2000 -> eg3200_init_out(b, value)
    [] port = \hFE /\ b.speedup >= 4 -> sys_byte_out(b, value)
    [] OTHER -> OutAnyModel(b, port, value)

OutModel3(b, port, value) ==
  CASE port \in {\h50, \h51, \h52, \h60, \h61, \h62} /\ b.card = "megamem" ->
         megamem_out(b, port % 16, value)
    [] port = \h3C /\ b.model = 3 -> m6845_select(b, value)
    [] port = \h3D /\ b.model = 3 -> m6845_crtc(b, value)
    [] port = \h3F /\ b.model = 3 -> vid80_vx3_out(b, value)
    [] port \in \hEC .. \hEF -> ModeImageOut(b, value)
    [] OTHER -> OutAnyModel(b, port, value)

OutModel4(b, port, value) ==
  CASE port \in \h84 .. \h87 -> ModeSelectOut(b, value)
    [] port = \h90 /\ b.card = "hypermem" -> hypermem_out(b, value)
    [] port = \h94 /\ b.card = "huffman" -> huffman_out(b, value)
    [] port \in \h9C .. \h9F /\ b.model = 5 -> sys_byte_write(b, value % 2)
    [] OTHER -> OutModel3(b, port, value)

z80_out(b, port, value) ==
  CASE b.model = 1 /\ b.clone = "CT80" -> OutCt80(b, port, value)
    [] b.model = 1 /\ b.clone = "EG3200" -> OutEg3200(b, port, value)
    [] b.model = 1 /\ b.clone = "GENIE3S" -> OutGenie3s(b, port, value)
    [] b.model = 1 /\ b.clone = "LNW80" -> OutLnw80(b, port, value)
    [] b.model = 1 /\ b.clone = "SPEEDMASTER" -> OutSpeedmaster(b, port, value)
    [] b.model = 1 /\ b.clone = "none" -> OutModel1(b, port, value)
    [] b.model = 3 -> OutModel3(b, port, value)
    [] b.model >= 4 -> OutModel4(b, port, value)

-----------------------------------------------------------------------------
(***************************************************************************)
(* trs_reset.                                                              *)
(***************************************************************************)
\* Mutant: the system registers survive.
ClearedButSystem(b) ==
  [b EXCEPT !.bank_base = 65536, !.bank_offset = Offsets(0, 0),
            !.megamem_addr = 0, !.megamem_base = 0, !.mem_command = 0,
            !.supermem_base = 0, !.supermem_high = \h8000]
Cleared(b) ==
  [b EXCEPT !.bank_base = 65536, !.bank_offset = Offsets(0, 0),
            !.megamem_addr = 0, !.megamem_base = 0, !.mem_command = 0,
            !.supermem_base = 0, !.supermem_high = \h8000, !.sys_byte = 0, !.sys_byte_2 = 0]

\* The reset button of a Model I only raises the processor's NMI.
IsFullReset(b, poweron) == poweron \/ b.model >= 3 \/ b.clone \in {"CT80", "GENIE3S"}

m6845_crtc_reset(b) == [b EXCEPT !.sta = 0]

SpeedupClone(b) ==
  CASE b.model = 1 /\ b.speedup = 5 -> trs_clones_model(b, "CT80")
    [] b.model = 1 /\ b.speedup = 6 -> trs_clones_model(b, "LNW80")
    [] b.model = 1 /\ b.speedup = 7 -> trs_clones_model(b, "SPEEDMASTER")
    [] OTHER -> b

trs_reset(b, poweron) ==
  LET initialised == IF poweron THEN mem_video_page(mem_map(Cleared(b), 0), 0) ELSE Cleared(b)
      plain == IF IsFullReset(b, poweron)
               THEN trs_clones_model(m6845_crtc_reset(initialised), "none") ELSE initialised
      boot == IF b.model = 5 THEN sys_byte_write(plain, 1) ELSE plain
      moded == IF b.model >= 4 THEN ModeSelectOut(boot, 0) ELSE boot
      base == IF b.model >= 4 /\ b.card = "huffman" THEN [moded EXCEPT !.bank_base = 0] ELSE moded
  IN  SpeedupClone(IF b.model = 3 THEN trs_clones_model(base, "none") ELSE base)

\* The program's variables as it starts.
Started(m) ==
  [model |-> m.model, speedup |-> m.speedup, romSize |-> m.romSize, memSize |-> m.memSize,
   card |-> m.card, clone |-> "none", memory_map |-> 0, video_addr |-> -VIDEO_START,
   bank_offset |-> Offsets(0, 0), bank_base |-> 0, megamem_addr |-> 0, megamem_base |-> 0,
   mem_command |-> 0, supermem_base |-> 0, supermem_high |-> 0, sys_byte |-> 0,
   sys_byte_2 |-> 0, modesel |-> 0, modeimage |-> 8, m6845_reg |-> 0, sta |-> 0]

Init ==
  /\ \E m \in Builds : board = trs_reset(Started(m), TRUE)
  /\ origin = board
  /\ written = << >>
  /\ saved = None

-----------------------------------------------------------------------------
(***************************************************************************)
(* Actions.  written keeps the last write of every port, in the order of   *)
(* those last writes.  The EG-64's port is a latch of eight bits set one   *)
(* by one, hence eight ports, and port D1 of the RAM disk moves on by      *)
(* itself.                                                                 *)
(***************************************************************************)
SamePort(w, v) == w[1] = v[1] /\ (w[1] = \hDF => w[2] % 8 = v[2] % 8)
WithLast(history, w) == Append(SelectSeq(history, LAMBDA v : ~SamePort(v, w)), w)

\* The machines whose registers keep more than the last writes say (the README
\* tells of each); of them no history is kept.
Remembers(b) ==
  \/ b.memory_map = \h17
  \/ b.clone = "GENIE3S"
  \/ b.model = 1 /\ b.speedup = 4
  \/ b.model = 3 /\ b.card = "none"

WithWrite(history, b, w) == IF Remembers(b) THEN << <<0, 0>> >> ELSE WithLast(history, w)

StartsOver(b) == board' = b /\ origin' = b /\ written' = << >>

\* Becoming a clone starts a new history: from then on other ports answer.
Out(port, value) ==
  LET b == z80_out(board, port, value)
  IN  /\ <<port, value>> \in Writes(board)
      /\ port \in 0 .. 255 /\ value \in 0 .. 255
      /\ port = \hD1 /\ board.clone = "CT80" => board.bank_base >= MAX_MEMORY_SIZE - 3
      /\ IF b.clone # board.clone THEN StartsOver(b)
         ELSE board' = b /\ written' = WithWrite(written, b, <<port, value>>) /\ UNCHANGED origin
      /\ UNCHANGED saved

\* IN A,(F4), which any Model III answers.
SwitchMode(mode) ==
  /\ board.model = 3
  /\ StartsOver(cp500_switch_mode(board, mode))
  /\ UNCHANGED saved

Reset(poweron) == StartsOver(trs_reset(board, poweron)) /\ UNCHANGED saved

\* trs_clone_save, trs_io_save and trs_mem_save.
Save ==
  /\ saved = None /\ Len(written) <= SaveDepth
  /\ saved' = [board |-> board, origin |-> origin, written |-> written]
  /\ UNCHANGED <<board, origin, written>>

\* The clone is loaded first, and becoming it changes the map; then the ports'
\* registers, and last the memory's, memory_map among them.
LoadedClone(b, file) == trs_clones_model(b, file.clone)
LoadedPorts(b, file) ==
  [b EXCEPT !.m6845_reg = file.m6845_reg, !.sta = file.sta, !.modeimage = file.modeimage,
            !.modesel = file.modesel]
LoadedMemory(b, file) ==
  [file EXCEPT !.clone = b.clone, !.m6845_reg = b.m6845_reg, !.sta = b.sta,
               !.modeimage = b.modeimage, !.modesel = b.modesel]
\* Mutant: the memory before the clone.
CloneLoadedLast(b, file) == LoadedClone(LoadedMemory(b, file), file)
trs_state_load(b, file) == LoadedMemory(LoadedPorts(LoadedClone(b, file), file), file)

Load ==
  /\ saved # None
  /\ board' = trs_state_load(board, saved.board)
  /\ origin' = saved.origin /\ written' = saved.written
  /\ UNCHANGED saved

Next ==
  \/ \E w \in Writes(board) : Out(w[1], w[2])
  \/ \E mode \in Modes(board) : SwitchMode(mode)
  \/ \E poweron \in BOOLEAN : Reset(poweron)
  \/ Save
  \/ Load

Spec == Init /\ [][Next]_vars

-----------------------------------------------------------------------------
(***************************************************************************)
(* Properties.                                                             *)
(***************************************************************************)

SameByte(p, q) == p.chip = q.chip /\ p.chip # "none" => p.at = q.at

\* What mem_read shows, what mem_write stores and what mem_pointer lends out at
\* one address is one byte, whenever they mean the same memory: the three
\* switches of trs_memory.c, written apart, agree in every bank setting.
OneByteEach ==
  \A a \in Addresses :
    LET read == mem_read(board, a)
        write == mem_write(board, a)
        lent == mem_pointer(board, a, FALSE)
        lentToWrite == mem_pointer(board, a, TRUE)
    IN  /\ SameByte(read, write)
        /\ read.chip # "none" /\ lent.chip # "none" => lent = read
        /\ write.chip # "none" /\ lentToWrite.chip # "none" => lentToWrite = write

Size == [ram |-> MAX_MEMORY_SIZE, rom |-> MAX_ROM_SIZE, video |-> MAX_VIDEO_SIZE, none |-> 1]

Inside(p) == p.at \in 0 .. Size[p.chip] - 1

\* The Genie IIIs's 1K screen begins 1024 bytes into video[] less the CRTC's start
\* address, and with a start address above 1024 before its first byte.
BeforeVideo(b, a) ==
  /\ b.memory_map = \h1B /\ ~Intercepted(b, a)
  /\ ScreenGenie(b, a) /\ ~Screen2K(b, a) /\ a + b.video_addr < 0

PatternWrite(b, a) == b.memory_map = \h1B /\ ~Intercepted(b, a) /\ FontGenie(b, a)

\* However the bank registers and the CRTC's start address, each set through ports
\* of its own, add up, the byte an access reaches lies inside its array, with one
\* exception that is stated here and not excluded from the model: mem_read and
\* mem_pointer index video[] with a negative number exactly where BeforeVideo says,
\* and so does the write of a character's pattern that looks at the first byte of
\* that screen.  What mem_write stores is always inside.
InsideArrays ==
  /\ \A a \in Addresses :
       LET read == {mem_read(board, a), mem_pointer(board, a, FALSE), mem_pointer(board, a, TRUE)}
       IN  /\ Inside(mem_write(board, a))
           /\ \A p \in read : Inside(p) <=> ~BeforeVideo(board, a)
           /\ PatternWrite(board, a) /\ board.video_addr + VIDEO_START >= 0
                => Inside(FontByte(board))
  /\ board.clone = "CT80" => Inside(RamDiskByte(board, 0)) /\ Inside(RamDiskByte(board, 1))

Replayed(b, history) == FoldLeft(LAMBDA c, w : z80_out(c, w[1], w[2]), b, history)

\* What a program finds at every address; of the screen, that it is there.
View(b) == [a \in Addresses |-> LET seen(p) == IF p.chip = "video" THEN Video(0) ELSE p
                                IN  <<seen(mem_read(b, a)), seen(mem_write(b, a))>>]

\* A write that a later one to the same port replaced leaves no trace in the map:
\* the registers are found by change, in the order of the ports, and after a
\* snapshot load through the clone, and must still mean the last values.
OnlyLastWritesCount ==
  ~Remembers(board) => View(board) = View(Replayed(origin, written))

\* Bits 7 and 6 of the Genie IIIs' bank register say which 64K bank is used, as the
\* table of genie3s_bank_out has it.
BankIsSelected ==
  board.clone = "GENIE3S" => board.bank_base = BitsOf(board.sys_byte_2, 6, 2) * 65536

\* After the reset button, the processor's next instructions come from the ROM,
\* except on the Model I and III maps that no reset undoes; power-on undoes all.
ResetFindsRom ==
  [][\A poweron \in BOOLEAN :
       Reset(poweron) /\ (poweron \/ board.memory_map \notin \h11 .. \h15 \cup {\h35})
         => mem_read(board', 0).chip = "rom"]_vars
=============================================================================
