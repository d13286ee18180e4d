----------------------------- MODULE MemoryMaps -----------------------------
(***************************************************************************)
(* The memory maps of trs_memory.c: which byte of which of the program's   *)
(* three arrays an address of the Z80 reaches.  mem_read, mem_write and    *)
(* mem_pointer decide it each on their own, map by map, in the same long   *)
(* switch written three times; here each decision is one operator of the   *)
(* board b (its bank registers and its build) and the address a, and its   *)
(* value is a byte of memory[], rom[] or video[], or NoByte for what is    *)
(* not a byte of theirs: a device, a graphics adaptor, a write that is     *)
(* dropped, a read that gives FF, a NULL pointer.                          *)
(*                                                                         *)
(* The order of the tests is the source's: several of them overlap.        *)
(***************************************************************************)
EXTENDS Integers

Byte(chip, i) == [chip |-> chip, at |-> i]
Ram(i) == Byte("ram", i)
Rom(i) == Byte("rom", i)
Video(i) == Byte("video", i)
NoByte == Byte("none", 0)

\* Bit n of a register, tested everywhere as value & (1 << n).
Bit(value, n) == (value \div 2^n) % 2 = 1

MAX_ROM_SIZE == 18432
MAX_VIDEO_SIZE == 3072
MAX_MEMORY_SIZE == 4 * 1024 * 1024 + 65536
MEGAMEM_START == 1024 * 1024 + 65536
KEYBOARD_START == \h3800
VIDEO_START == \h3C00
RAM_START == \h4000

\* mem_video_read, mem_video_write: what lies outside video[] is not there.
CheckedVideo(i) == IF i % 65536 < MAX_VIDEO_SIZE THEN Video(i) ELSE NoByte
PagedVideo(b, a) == CheckedVideo(a + b.video_addr)

\* The two 32K halves, each with its offset into memory[].
Banked(b, a) == Ram(a + b.bank_offset[a \div \h8000])

-----------------------------------------------------------------------------
(***************************************************************************)
(* MegaMem and SuperMem sit between the processor and the map.             *)
(***************************************************************************)
InMegaMem(b, a) == b.megamem_addr # 0 /\ a \in b.megamem_addr .. b.megamem_addr + \h3FFF
InSuperMem(b, a) ==
  b.card = "supermem" /\ b.supermem_base # 0 /\ (a >= \h8000) = (b.supermem_high = \h8000)
Intercepted(b, a) == InMegaMem(b, a) \/ InSuperMem(b, a)
InterceptedByte(b, a) ==
  IF InMegaMem(b, a) THEN Ram(b.megamem_base + (a % \h4000))
                     ELSE Ram(b.supermem_base + (a % \h8000))

-----------------------------------------------------------------------------
(***************************************************************************)
(* Model I.                                                                *)
(***************************************************************************)

\* In mode 6 the selector shows the low 16K at C000.
SelectorByte(b, a) ==
  LET bank == b.bank_offset[a \div \h8000]
  IN  Ram((IF b.mem_command % 8 = 6 /\ a >= \hC000 THEN a % \h4000 ELSE a) + bank)

Model1Ram(b, a) ==
  IF a >= b.memSize THEN NoByte
  ELSE IF b.card = "selector" THEN SelectorByte(b, a)
  ELSE Ram(a)

Model1Mmio(b, a) ==
  IF a >= VIDEO_START THEN Video(a - VIDEO_START)
  ELSE IF a < b.romSize THEN Rom(a)
  ELSE IF a >= \h3900 /\ b.card = "selector" THEN Model1Ram(b, a)
  ELSE NoByte

Model1WriteMem(b, a) ==
  IF b.card # "selector" THEN Ram(a)
  ELSE IF b.mem_command % 8 = 6 /\ a >= \hC000 /\ ~Bit(b.mem_command, 3) THEN NoByte
  ELSE SelectorByte(b, a)

Model1WriteMmio(b, a) ==
  IF a >= VIDEO_START THEN CheckedVideo(a - VIDEO_START)
  ELSE IF a >= \h3900 /\ b.card = "selector" THEN Model1WriteMem(b, a)
  ELSE NoByte

Model1MmioAddr(b, a, writing) ==
  IF a >= VIDEO_START THEN Video(a - VIDEO_START)
  ELSE IF a < b.romSize /\ ~writing THEN Rom(a)
  ELSE IF a >= \h3900 /\ b.card = "selector" THEN Model1Ram(b, a)
  ELSE NoByte

\* Where the maps 10 to 15 leave the ROM, the screen and the devices.
Model1Io(b, a) ==
  \/ b.memory_map = \h10 /\ a < RAM_START
  \/ b.memory_map = \h11 /\ a \in \hF7E0 .. \hF7FF
  \/ b.memory_map = \h12 /\ a \in \h37E0 .. RAM_START - 1
  \/ b.memory_map = \h13 /\ a >= \hF7E0

ReadModel1(b, a) == IF Model1Io(b, a) THEN Model1Mmio(b, a % \h4000) ELSE Model1Ram(b, a)
WriteModel1(b, a) ==
  IF Model1Io(b, a) THEN Model1WriteMmio(b, a % \h4000) ELSE Model1WriteMem(b, a)
PointModel1(b, a, writing) ==
  IF ~Model1Io(b, a) THEN Model1Ram(b, a)
  ELSE IF b.memory_map = \h11 THEN NoByte
  ELSE Model1MmioAddr(b, a % \h4000, writing)

\* 16: the X-MEM/80 pages the two upper 16K windows.
XmemByte(b, a) == IF a < \h8000 THEN Ram(a) ELSE Ram(a + b.bank_offset[(a - \h8000) \div \h4000])
ReadXmem(b, a) == IF a < RAM_START THEN Model1Mmio(b, a) ELSE XmemByte(b, a)
WriteXmem(b, a) == IF a < RAM_START THEN Model1WriteMmio(b, a) ELSE XmemByte(b, a)
PointXmem(b, a, writing) ==
  IF a < RAM_START THEN Model1MmioAddr(b, a, writing) ELSE XmemByte(b, a)

\* 17: the 80-Z card lays its 2K of video, twice, over 4K.
On80Z(b, a) == Bit(b.sys_byte, 0) /\ a \in b.video_addr .. b.video_addr + \hFFF
Screen80Z(b, a) == (a - b.video_addr) % \h800
Ram80Z(b, a) == Bit(b.sys_byte, 3) \/ a >= RAM_START
Read80Z(b, a) ==
  IF On80Z(b, a) THEN Video(Screen80Z(b, a))
  ELSE IF Ram80Z(b, a) THEN Ram(a) ELSE Model1Mmio(b, a)
Write80Z(b, a) ==
  IF On80Z(b, a) THEN CheckedVideo(Screen80Z(b, a))
  ELSE IF Ram80Z(b, a) THEN Ram(a) ELSE Model1WriteMmio(b, a)
Point80Z(b, a, writing) ==
  IF On80Z(b, a) THEN Video(Screen80Z(b, a))
  ELSE IF Ram80Z(b, a) THEN Ram(a) ELSE Model1MmioAddr(b, a, writing)

\* 18: the EG-64 uncovers the RAM under the ROM and the devices piece by
\* piece; for the first two pieces reading and writing have bits of their own.
Uncovered64(b, a, rom, upper) ==
  \/ a >= RAM_START
  \/ Bit(b.sys_byte, rom) /\ a <= \h2FFF
  \/ Bit(b.sys_byte, upper) /\ a \in \h3000 .. \h35FF
  \/ Bit(b.sys_byte, 4) /\ a \in \h3600 .. \h37FF
  \/ Bit(b.sys_byte, 5) /\ a \in \h3800 .. \h3BFF
  \/ Bit(b.sys_byte, 6) /\ a >= \h3C00
ReadEg64(b, a) == IF Uncovered64(b, a, 0, 2) THEN Ram(a) ELSE Model1Mmio(b, a)
WriteEg64(b, a) == IF Uncovered64(b, a, 1, 3) THEN Ram(a) ELSE Model1WriteMmio(b, a)
PointEg64(b, a, writing) ==
  IF Uncovered64(b, a, 0, 2) THEN Ram(a) ELSE Model1MmioAddr(b, a, writing)

\* 19: the Lubomir Soft Banker, with its 32K expander behind the upper half.
UncoveredSoft(b, a, rom) ==
  \/ Bit(b.sys_byte, rom) /\ a <= \h37DF
  \/ Bit(b.sys_byte, 5) /\ a >= \h37E0
ReadLubomir(b, a) ==
  IF a >= RAM_START THEN Banked(b, a)
  ELSE IF UncoveredSoft(b, a, 6) THEN Ram(a) ELSE Model1Mmio(b, a)
WriteLubomir(b, a) ==
  IF a >= RAM_START THEN Banked(b, a)
  ELSE IF UncoveredSoft(b, a, 7) THEN Ram(a) ELSE Model1WriteMmio(b, a)
\* Mutant: a pointer that forgets the expander.
PointUnbanked(b, a, writing) ==
  IF a >= RAM_START \/ UncoveredSoft(b, a, 6) THEN Ram(a) ELSE Model1MmioAddr(b, a, writing)
PointLubomir(b, a, writing) ==
  IF a >= RAM_START THEN Banked(b, a)
  ELSE IF UncoveredSoft(b, a, 6) THEN Ram(a) ELSE Model1MmioAddr(b, a, writing)

-----------------------------------------------------------------------------
(***************************************************************************)
(* The clones of the Model I.                                              *)
(***************************************************************************)

\* 1A: EACA EG 3200.  A bit set to 0 puts its bank over the RAM.
Rom3200(b, a) == a <= \h43FF /\ b.sys_byte # \h0F /\ ~Bit(b.sys_byte, 0) /\ a < b.romSize
Screen3200(b, a) ==
  /\ b.sys_byte # \h0F
  /\ \/ ~Bit(b.sys_byte, 1) /\ a \in VIDEO_START .. RAM_START - 1
     \/ ~Bit(b.sys_byte, 2) /\ a \in RAM_START .. \h43FF
Devices3200(b) == b.sys_byte # \h0F /\ ~Bit(b.sys_byte, 3)
ReadEg3200(b, a) ==
  IF Rom3200(b, a) THEN Rom(a)
  ELSE IF Screen3200(b, a) THEN Video(a - VIDEO_START)
  ELSE IF Devices3200(b) /\ a \in \h37E0 .. \h37EF THEN Model1Mmio(b, a)
  ELSE IF Devices3200(b) /\ a \in KEYBOARD_START .. VIDEO_START - 1 THEN NoByte
  ELSE Banked(b, a)
WriteEg3200(b, a) ==
  IF Screen3200(b, a) THEN CheckedVideo(a - VIDEO_START)
  ELSE IF b.sys_byte # \h0F /\ ~Bit(b.sys_byte, 2) /\ a \in \h4400 .. \h47FF THEN NoByte
  ELSE IF Devices3200(b) /\ a \in \h37E0 .. \h37EF THEN Model1WriteMmio(b, a)
  ELSE Banked(b, a)
PointEg3200(b, a, writing) ==
  IF Rom3200(b, a) THEN (IF writing THEN NoByte ELSE Rom(a))
  ELSE IF Screen3200(b, a) THEN Video(a - VIDEO_START)
  ELSE Banked(b, a)

\* 1B: TCS Genie IIIs.  bank_offset[0] is the 256K block, bank_base the 64K
\* bank in it, and the constant bit keeps a part of bank 0 in view.
ScreenGenie(b, a) == ~Bit(b.sys_byte, 0) /\ a >= VIDEO_START /\ a < RAM_START
Screen2K(b, a) ==
  ~Bit(b.sys_byte, 0) /\ Bit(b.sys_byte, 4) /\ a >= KEYBOARD_START /\ a < RAM_START
LatchOrKeys(b, a) ==
  ~Bit(b.sys_byte, 0) /\ (a \in \h37E0 .. \h37E3 \/ a \in KEYBOARD_START .. \h38FF)
RomGenie(b, a) == ~Bit(b.sys_byte, 2) /\ a <= \h2FFF
HrgGenie(b, a) == Bit(b.sys_byte, 3) /\ a >= \h8000
RamGenie(b, a) ==
  IF (a < RAM_START /\ ~Bit(b.sys_byte_2, 0)) \/ (a >= \hE000 /\ Bit(b.sys_byte_2, 0))
  THEN Ram(a + b.bank_offset[1])
  ELSE Ram(a + b.bank_offset[0] + b.bank_base)
\* A write to the font RAM takes the character to change from the screen's first byte.
FontGenie(b, a) == ~HrgGenie(b, a) /\ Bit(b.sys_byte_2, 1) /\ a >= \h8000
FontByte(b) == Video(VIDEO_START + b.video_addr)
ReadGenie(b, a) ==
  IF Screen2K(b, a) THEN Video((a + b.video_addr) % \h800)
  ELSE IF ScreenGenie(b, a) THEN Video(a + b.video_addr)
  ELSE IF LatchOrKeys(b, a) THEN NoByte
  ELSE IF ~Bit(b.sys_byte, 0) /\ a \in \h37E8 .. \h37EF THEN Model1Mmio(b, a)
  ELSE IF RomGenie(b, a) THEN Rom(a)
  ELSE IF HrgGenie(b, a) THEN NoByte
  ELSE RamGenie(b, a)
WriteGenie(b, a) ==
  IF Screen2K(b, a) THEN CheckedVideo((a + b.video_addr) % \h800)
  ELSE IF ScreenGenie(b, a) THEN CheckedVideo(a + b.video_addr)
  ELSE IF ~Bit(b.sys_byte, 0) /\ a \in \h37E0 .. \h37EF THEN Model1WriteMmio(b, a)
  ELSE IF Bit(b.sys_byte, 5) /\ a <= \h2FFF THEN NoByte
  ELSE IF HrgGenie(b, a) \/ FontGenie(b, a) THEN NoByte
  ELSE RamGenie(b, a)
PointGenie(b, a, writing) ==
  IF Screen2K(b, a) THEN Video((a + b.video_addr) % \h800)
  ELSE IF ScreenGenie(b, a) THEN Video(a + b.video_addr)
  ELSE IF RomGenie(b, a) THEN (IF writing THEN NoByte ELSE Rom(a))
  ELSE RamGenie(b, a)

\* 1C: Aster CT-80, as a TRS-80 or, with bit 3, for CP/M; bit 5 leaves RAM only.
TrsCt80(b) == ~Bit(b.sys_byte, 5) /\ ~Bit(b.sys_byte, 3)
CpmCt80(b) == ~Bit(b.sys_byte, 5) /\ Bit(b.sys_byte, 3)
ScreenCt80(b, a) == Video((a - b.video_addr) % \h800)
RomCt80(b, a) == ~Bit(b.sys_byte, 5) /\ a <= \h2FFF /\ (Bit(b.sys_byte, 1) \/ ~Bit(b.sys_byte, 2))
RomByteCt80(b, a) == IF Bit(b.sys_byte, 1) THEN Rom((a % \h800) + \h3000) ELSE Rom(a)
ReadCt80(b, a) ==
  IF RomCt80(b, a) THEN RomByteCt80(b, a)
  ELSE IF TrsCt80(b) /\ a \in \h3000 .. RAM_START - 1 THEN Model1Mmio(b, a)
  ELSE IF CpmCt80(b) /\ a >= \hF800 THEN ScreenCt80(b, a)
  ELSE IF CpmCt80(b) /\ a >= \hF400 THEN NoByte
  ELSE IF CpmCt80(b) /\ a \in \hEFE0 .. \hEFEF THEN Model1Mmio(b, a - \hB800)
  ELSE IF CpmCt80(b) /\ a >= \hEC00 THEN Rom(a - \hBC00)
  ELSE Ram(a)
WriteCt80(b, a) ==
  IF TrsCt80(b) /\ a \in \h37E0 .. RAM_START - 1 THEN Model1WriteMmio(b, a)
  ELSE IF CpmCt80(b) /\ a >= \hF800 THEN ScreenCt80(b, a)
  ELSE IF CpmCt80(b) /\ a \in \hEFE0 .. \hEFEF THEN Model1WriteMmio(b, a - \hB800)
  ELSE Ram(a)
PointCt80(b, a, writing) ==
  IF RomCt80(b, a) THEN (IF writing THEN NoByte ELSE RomByteCt80(b, a))
  ELSE IF TrsCt80(b) /\ a \in \h3000 .. RAM_START - 1 THEN Model1MmioAddr(b, a, writing)
  ELSE IF CpmCt80(b) /\ a >= \hF800 THEN ScreenCt80(b, a)
  ELSE IF CpmCt80(b) /\ a \in \hEC00 .. \hF3FF THEN (IF writing THEN NoByte ELSE Rom(a - \hBC00))
  ELSE Ram(a)

\* 1D: LNW80/II, whose second register puts ROM and devices low or, for CP/M, high.
HrgLnw(b, a) == Bit(b.sys_byte, 3) /\ a < RAM_START
LowLnw(b, a) == ~Bit(b.sys_byte_2, 0) /\ ~Bit(b.sys_byte_2, 4) /\ a < RAM_START
CpmLnw(b, a, first) == Bit(b.sys_byte_2, 0) /\ a >= first
RomLnw(b) == ~Bit(b.sys_byte_2, 1)
ReadLnw80(b, a) ==
  IF HrgLnw(b, a) THEN NoByte
  ELSE IF LowLnw(b, a) /\ a >= VIDEO_START THEN PagedVideo(b, a)
  ELSE IF LowLnw(b, a) /\ a \in \h37E0 .. \h38FF THEN Model1Mmio(b, a)
  ELSE IF LowLnw(b, a) /\ RomLnw(b) /\ a <= \h2FFF THEN Rom(a)
  ELSE IF CpmLnw(b, a, \hC000) /\ RomLnw(b) THEN Model1Mmio(b, a - \hC000)
  ELSE IF CpmLnw(b, a, \hFC00) THEN PagedVideo(b, a % \h4000)
  ELSE IF CpmLnw(b, a, \hF900) THEN Ram(a + \h8000)
  ELSE IF CpmLnw(b, a, \hF800) THEN NoByte
  ELSE IF CpmLnw(b, a, \hF700) THEN Model1Mmio(b, a % \h4000)
  ELSE Banked(b, a)
WriteLnw80(b, a) ==
  IF HrgLnw(b, a) THEN NoByte
  ELSE IF ~Bit(b.sys_byte_2, 0) /\ Bit(b.sys_byte_2, 7) /\ a <= \h2FFF THEN NoByte
  ELSE IF LowLnw(b, a) /\ a >= VIDEO_START THEN PagedVideo(b, a)
  ELSE IF LowLnw(b, a) /\ a \in \h37E0 .. \h37EF THEN Model1WriteMmio(b, a)
  ELSE IF CpmLnw(b, a, \hF700) /\ RomLnw(b) THEN Model1WriteMmio(b, a % \h4000)
  ELSE IF CpmLnw(b, a, \hFC00) THEN PagedVideo(b, a % \h4000)
  ELSE IF CpmLnw(b, a, \hF900) THEN Ram(a + \h8000)
  ELSE IF CpmLnw(b, a, \hF700) /\ a <= \hF7FF THEN Model1WriteMmio(b, a % \h4000)
  ELSE Banked(b, a)
PointLnw80(b, a, writing) ==
  IF HrgLnw(b, a) THEN NoByte
  ELSE IF LowLnw(b, a) /\ a >= VIDEO_START THEN PagedVideo(b, a)
  ELSE IF LowLnw(b, a) /\ RomLnw(b) /\ a <= \h2FFF THEN (IF writing THEN NoByte ELSE Rom(a))
  ELSE IF CpmLnw(b, a, \hC000) /\ RomLnw(b) THEN Model1MmioAddr(b, a % \h4000, writing)
  ELSE IF CpmLnw(b, a, \hFC00) THEN PagedVideo(b, a % \h4000)
  ELSE IF CpmLnw(b, a, \hF900) THEN Ram(a + \h8000)
  ELSE Banked(b, a)

\* 1E: TCS Genie IIs/SpeedMaster, with the RAM 192 B behind its expansions bit.
CardSpeed(b, a) == Bit(b.sys_byte, 7) /\ Bit(b.sys_byte, 0) /\ a <= \hBFFF
BasicSpeed(b, a) == Bit(b.sys_byte, 7) /\ ~Bit(b.sys_byte, 0) /\ a \in RAM_START .. \hBFFF
BasicByte(a) == Rom((IF Bit(a, 13) THEN \h2000 ELSE 0) + (a % \h1000) + \h1000)
HrgSpeed(b, a) == Bit(b.sys_byte, 3) /\ a < RAM_START
IoSpeed(b, a) == ~Bit(b.sys_byte, 0) /\ a \in \h3400 .. RAM_START - 1
RomSpeed(b, a) == ~Bit(b.sys_byte, 0) /\ ~Bit(b.sys_byte, 2) /\ a <= \h2FFF
ReadSpeed(b, a) ==
  IF CardSpeed(b, a) THEN Ram(a + b.bank_base)
  ELSE IF BasicSpeed(b, a) THEN BasicByte(a)
  ELSE IF HrgSpeed(b, a) THEN NoByte
  ELSE IF IoSpeed(b, a) THEN Model1Mmio(b, a)
  ELSE IF RomSpeed(b, a) THEN Rom(a)
  ELSE Ram(a)
WriteSpeed(b, a) ==
  IF CardSpeed(b, a) THEN Ram(a + b.bank_base)
  ELSE IF HrgSpeed(b, a) THEN NoByte
  ELSE IF IoSpeed(b, a) THEN Model1WriteMmio(b, a)
  ELSE IF ~Bit(b.sys_byte, 0) /\ Bit(b.sys_byte, 5) /\ a <= \h2FFF THEN NoByte
  ELSE Ram(a)
PointSpeed(b, a, writing) ==
  IF CardSpeed(b, a) THEN Ram(a + b.bank_base)
  ELSE IF BasicSpeed(b, a) THEN (IF writing THEN NoByte ELSE BasicByte(a))
  ELSE IF HrgSpeed(b, a) THEN NoByte
  ELSE IF IoSpeed(b, a) THEN Model1MmioAddr(b, a, writing)
  ELSE IF RomSpeed(b, a) THEN (IF writing THEN NoByte ELSE Rom(a))
  ELSE Ram(a)

-----------------------------------------------------------------------------
(***************************************************************************)
(* Model III: 30, the CP-500's 31 to 33, Holmes' 34 and Brewer's 35.       *)
(***************************************************************************)

\* With a Micro-Labs page the screen's window is the graphics board's; the
\* board is taken to be off, as after a reset.
ReadModel3(b, a) ==
  IF a >= b.memSize THEN NoByte
  ELSE IF a >= RAM_START THEN Ram(a)
  ELSE IF a >= VIDEO_START THEN Video(a - VIDEO_START)
  ELSE IF a >= KEYBOARD_START \/ a \in \h37E8 .. \h37E9 THEN NoByte
  ELSE IF a < b.romSize THEN Rom(a) ELSE NoByte
WriteModel3(b, a) ==
  IF a >= RAM_START THEN Ram(a)
  ELSE IF a >= VIDEO_START THEN CheckedVideo(a - VIDEO_START) ELSE NoByte
PointModel3(b, a, writing) ==
  IF a >= b.memSize THEN NoByte
  ELSE IF a >= RAM_START THEN Ram(a)
  ELSE IF a >= VIDEO_START THEN Video(a - VIDEO_START)
  ELSE IF a < b.romSize /\ ~writing THEN Rom(a) ELSE NoByte

ExtraRom(b, a) == b.memory_map = \h31 /\ a \in \h3000 .. \h37FF
ExtraByte(a) == Rom(a + \h800)
ReadCp500(b, a) ==
  CASE ExtraRom(b, a) -> ExtraByte(a)
    [] b.memory_map = \h31 /\ ~ExtraRom(b, a) -> ReadModel3(b, a)
    [] b.memory_map = \h32 -> Ram(a)
    [] b.memory_map = \h33 -> IF a >= RAM_START THEN Ram(a)
                              ELSE IF a >= VIDEO_START THEN PagedVideo(b, a) ELSE NoByte
WriteCp500(b, a) ==
  CASE b.memory_map = \h31 -> WriteModel3(b, a)
    [] b.memory_map = \h32 -> Ram(a)
    [] b.memory_map = \h33 -> IF a >= RAM_START THEN Ram(a)
                              ELSE IF a >= VIDEO_START THEN PagedVideo(b, a) ELSE NoByte
PointCp500(b, a, writing) ==
  CASE ExtraRom(b, a) -> IF writing THEN NoByte ELSE ExtraByte(a)
    [] b.memory_map = \h31 /\ ~ExtraRom(b, a) -> PointModel3(b, a, writing)
    [] b.memory_map = \h32 -> Ram(a)
    [] b.memory_map = \h33 -> IF a >= RAM_START THEN Ram(a)
                              ELSE IF a >= VIDEO_START THEN PagedVideo(b, a) ELSE NoByte

ExtendedVx3(b, a) == Bit(b.sys_byte, 6) /\ a <= \hBFFF
HighVx3(b, a) == ~Bit(b.sys_byte, 2) /\ a >= \hF800
LowVx3(b, a) == Bit(b.sys_byte, 3) /\ a \in VIDEO_START .. RAM_START - 1
AppendedVx3(b, a) == ~Bit(b.sys_byte, 4) /\ Bit(b.sys_byte, 0) /\ a < KEYBOARD_START
KeysVx3(b, a) == ~Bit(b.sys_byte, 1) /\ a \in KEYBOARD_START .. \h38FF
OwnRomVx3(b, a) == ~Bit(b.sys_byte, 0) /\ a <= \h0FFF
ReadVx3(b, a) ==
  IF ExtendedVx3(b, a) THEN Ram(a + 65536)
  ELSE IF HighVx3(b, a) THEN Video(a - \hF800)
  ELSE IF AppendedVx3(b, a) THEN Rom(a + \h1000)
  ELSE IF LowVx3(b, a) THEN Video(a - VIDEO_START)
  ELSE IF KeysVx3(b, a) THEN NoByte
  ELSE IF OwnRomVx3(b, a) THEN Rom(a)
  ELSE Ram(a)
WriteVx3(b, a) ==
  IF ExtendedVx3(b, a) THEN Ram(a + 65536)
  ELSE IF LowVx3(b, a) THEN Video(a - VIDEO_START)
  ELSE IF Bit(b.sys_byte, 3) /\ a < RAM_START THEN NoByte
  ELSE IF HighVx3(b, a) THEN CheckedVideo(a - \hF800)
  ELSE Ram(a)
PointVx3(b, a, writing) ==
  IF ExtendedVx3(b, a) THEN Ram(a + 65536)
  ELSE IF HighVx3(b, a) THEN Video(a - \hF800)
  ELSE IF AppendedVx3(b, a) THEN (IF writing THEN NoByte ELSE Rom(a + \h1000))
  ELSE IF LowVx3(b, a) THEN Video(a - VIDEO_START)
  ELSE IF OwnRomVx3(b, a) THEN (IF writing THEN NoByte ELSE Rom(a))
  ELSE Ram(a)

ReadBrewer(b, a) ==
  IF a >= \hFC00 THEN Video(a - \hFC00) ELSE IF a >= \hF800 THEN NoByte ELSE Ram(a)
WriteBrewer(b, a) == IF a >= \hFC00 THEN CheckedVideo(a - \hFC00) ELSE Ram(a)
PointBrewer(b, a) == IF a >= \hFC00 THEN Video(a - \hFC00) ELSE Ram(a)

-----------------------------------------------------------------------------
(***************************************************************************)
(* Model 4 (40 to 43) and 4P (50 to 53).                                   *)
(***************************************************************************)
BootRom(b, a) == b.memory_map \in {\h50, \h51} /\ b.sys_byte # 0 /\ a < b.romSize

\* Maps 1, and 0 of the 4P: RAM but for the keyboard and the screen.
ReadLowRam(b, a) ==
  IF a >= RAM_START \/ a < KEYBOARD_START THEN Banked(b, a)
  ELSE IF a >= VIDEO_START THEN PagedVideo(b, a) ELSE NoByte
ReadHighIo(b, a) ==
  IF a < \hF400 THEN Banked(b, a) ELSE IF a >= \hF800 THEN Video(a - \hF800) ELSE NoByte

ReadModel4(b, a) ==
  CASE b.memory_map = \h40 ->
         IF a >= RAM_START THEN Banked(b, a)
         ELSE IF a >= VIDEO_START THEN PagedVideo(b, a)
         ELSE IF a >= KEYBOARD_START \/ a \in \h37E8 .. \h37E9 THEN NoByte
         ELSE IF a < b.romSize THEN Rom(a) ELSE NoByte
    [] b.memory_map \in {\h41, \h50, \h51} ->
         IF BootRom(b, a) THEN Rom(a) ELSE ReadLowRam(b, a)
    [] b.memory_map \in {\h42, \h52} -> ReadHighIo(b, a)
    [] b.memory_map \in {\h43, \h53} -> Banked(b, a)
WriteModel4(b, a) ==
  CASE b.memory_map \in {\h40, \h50} ->
         IF a >= RAM_START THEN Banked(b, a)
         ELSE IF a >= VIDEO_START THEN PagedVideo(b, a) ELSE NoByte
    [] b.memory_map \in {\h41, \h51} -> ReadLowRam(b, a)
    [] b.memory_map \in {\h42, \h52} ->
         IF a < \hF400 THEN Banked(b, a)
         ELSE IF a >= \hF800 THEN CheckedVideo(a - \hF800) ELSE NoByte
    [] b.memory_map \in {\h43, \h53} -> Banked(b, a)
PointModel4(b, a, writing) ==
  CASE b.memory_map = \h40 ->
         IF a >= RAM_START THEN Banked(b, a)
         ELSE IF a >= VIDEO_START THEN PagedVideo(b, a)
         ELSE IF a < b.romSize /\ ~writing THEN Rom(a) ELSE NoByte
    [] b.memory_map \in {\h41, \h50, \h51} ->
         IF BootRom(b, a) /\ ~writing THEN Rom(a) ELSE ReadLowRam(b, a)
    [] b.memory_map \in {\h42, \h52} -> ReadHighIo(b, a)
    [] b.memory_map \in {\h43, \h53} -> Banked(b, a)

-----------------------------------------------------------------------------
(***************************************************************************)
(* mem_read, mem_write and mem_pointer.  A memory_map outside the switch   *)
(* reaches nothing.                                                        *)
(***************************************************************************)
mem_read(b, a) ==
  IF Intercepted(b, a) THEN InterceptedByte(b, a)
  ELSE CASE b.memory_map \in \h10 .. \h15 -> ReadModel1(b, a)
         [] b.memory_map = \h16 -> ReadXmem(b, a)
         [] b.memory_map = \h17 -> Read80Z(b, a)
         [] b.memory_map = \h18 -> ReadEg64(b, a)
         [] b.memory_map = \h19 -> ReadLubomir(b, a)
         [] b.memory_map = \h1A -> ReadEg3200(b, a)
         [] b.memory_map = \h1B -> ReadGenie(b, a)
         [] b.memory_map = \h1C -> ReadCt80(b, a)
         [] b.memory_map = \h1D -> ReadLnw80(b, a)
         [] b.memory_map = \h1E -> ReadSpeed(b, a)
         [] b.memory_map = \h30 -> ReadModel3(b, a)
         [] b.memory_map \in \h31 .. \h33 -> ReadCp500(b, a)
         [] b.memory_map = \h34 -> ReadVx3(b, a)
         [] b.memory_map = \h35 -> ReadBrewer(b, a)
         [] b.memory_map \in \h40 .. \h43 \cup \h50 .. \h53 -> ReadModel4(b, a)
         [] OTHER -> NoByte

mem_write(b, a) ==
  IF Intercepted(b, a) THEN InterceptedByte(b, a)
  ELSE CASE b.memory_map \in \h10 .. \h15 -> WriteModel1(b, a)
         [] b.memory_map = \h16 -> WriteXmem(b, a)
         [] b.memory_map = \h17 -> Write80Z(b, a)
         [] b.memory_map = \h18 -> WriteEg64(b, a)
         [] b.memory_map = \h19 -> WriteLubomir(b, a)
         [] b.memory_map = \h1A -> WriteEg3200(b, a)
         [] b.memory_map = \h1B -> WriteGenie(b, a)
         [] b.memory_map = \h1C -> WriteCt80(b, a)
         [] b.memory_map = \h1D -> WriteLnw80(b, a)
         [] b.memory_map = \h1E -> WriteSpeed(b, a)
         [] b.memory_map = \h30 -> WriteModel3(b, a)
         [] b.memory_map \in \h31 .. \h33 -> WriteCp500(b, a)
         [] b.memory_map = \h34 -> WriteVx3(b, a)
         [] b.memory_map = \h35 -> WriteBrewer(b, a)
         [] b.memory_map \in \h40 .. \h43 \cup \h50 .. \h53 -> WriteModel4(b, a)
         [] OTHER -> NoByte

mem_pointer(b, a, writing) ==
  IF Intercepted(b, a) THEN InterceptedByte(b, a)
  ELSE CASE b.memory_map \in \h10 .. \h15 -> PointModel1(b, a, writing)
         [] b.memory_map = \h16 -> PointXmem(b, a, writing)
         [] b.memory_map = \h17 -> Point80Z(b, a, writing)
         [] b.memory_map = \h18 -> PointEg64(b, a, writing)
         [] b.memory_map = \h19 -> PointLubomir(b, a, writing)
         [] b.memory_map = \h1A -> PointEg3200(b, a, writing)
         [] b.memory_map = \h1B -> PointGenie(b, a, writing)
         [] b.memory_map = \h1C -> PointCt80(b, a, writing)
         [] b.memory_map = \h1D -> PointLnw80(b, a, writing)
         [] b.memory_map = \h1E -> PointSpeed(b, a, writing)
         [] b.memory_map = \h30 -> PointModel3(b, a, writing)
         [] b.memory_map \in \h31 .. \h33 -> PointCp500(b, a, writing)
         [] b.memory_map = \h34 -> PointVx3(b, a, writing)
         [] b.memory_map = \h35 -> PointBrewer(b, a)
         [] b.memory_map \in \h40 .. \h43 \cup \h50 .. \h53 -> PointModel4(b, a, writing)
         [] OTHER -> NoByte
=============================================================================
