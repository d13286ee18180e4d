----------------------------- MODULE BoardProofs -----------------------------
(***************************************************************************)
(* Proofs about Board and MemoryMaps: the three switches of trs_memory.c   *)
(* mean one byte, map by map; the ports, the mode switch, the resets and   *)
(* the snapshot keep the registers together, and each in its range, so     *)
(* that every map stays inside its array; and a reset finds the ROM.       *)
(***************************************************************************)
EXTENDS Board, TLAPS

Agree(read, write, lent, writing) ==
  /\ SameByte(read, write)
  /\ writing => (write.chip # "none" /\ lent.chip # "none" => lent = write)
  /\ ~writing => (read.chip # "none" /\ lent.chip # "none" => lent = read)

Address(a) == a \in Nat /\ a < 65536

LEMMA Chips ==
  /\ \A i : Ram(i).chip = "ram" /\ Rom(i).chip = "rom" /\ Video(i).chip = "video"
  /\ NoByte.chip = "none"
  /\ \A i : CheckedVideo(i) = Video(i) \/ CheckedVideo(i) = NoByte
  /\ \A b, a : Banked(b, a).chip = "ram"
  /\ \A b, a : PagedVideo(b, a).chip \in {"video", "none"}
  /\ "ram" # "rom" /\ "ram" # "video" /\ "ram" # "none" /\ "rom" # "none" /\ "video" # "none"
BY DEF Ram, Rom, Video, NoByte, Byte, CheckedVideo, Banked, PagedVideo

LEMMA Model1Bytes ==
  ASSUME NEW b, NEW a
  PROVE  /\ Model1Ram(b, a) \in {NoByte, SelectorByte(b, a), Ram(a)}
         /\ Model1WriteMem(b, a) \in {NoByte, SelectorByte(b, a), Ram(a)}
         /\ b.card = "selector" => /\ Model1Ram(b, a) \in {NoByte, SelectorByte(b, a)}
                                   /\ Model1WriteMem(b, a) \in {NoByte, SelectorByte(b, a)}
         /\ b.card # "selector" => /\ Model1Ram(b, a) \in {NoByte, Ram(a)}
                                   /\ Model1WriteMem(b, a) = Ram(a)
         /\ SelectorByte(b, a).chip = "ram"
<1>1. SelectorByte(b, a).chip = "ram"
  BY Chips DEF SelectorByte
<1> QED BY <1>1 DEF Model1Ram, Model1WriteMem

LEMMA MmioAgrees ==
  ASSUME NEW b, NEW x \in Nat, NEW writing \in BOOLEAN
  PROVE  Agree(Model1Mmio(b, x), Model1WriteMmio(b, x), Model1MmioAddr(b, x, writing), writing)
BY Chips, Model1Bytes DEF Agree, SameByte, Model1Mmio, Model1WriteMmio, Model1MmioAddr, VIDEO_START

LEMMA RamAgrees ==
  ASSUME NEW b, NEW x \in Nat, NEW writing \in BOOLEAN
  PROVE  Agree(Model1Ram(b, x), Model1WriteMem(b, x), Model1Ram(b, x), writing)
BY Chips, Model1Bytes DEF Agree, SameByte

\* A byte agrees with itself, and with a pointer that is not lent.
LEMMA SameAgrees ==
  ASSUME NEW p, NEW writing \in BOOLEAN
  PROVE  Agree(p, p, p, writing) /\ Agree(p, p, NoByte, writing)
BY Chips DEF Agree, SameByte

LEMMA Model1Agrees ==
  ASSUME NEW b, NEW a, Address(a), NEW writing \in BOOLEAN
  PROVE  Agree(ReadModel1(b, a), WriteModel1(b, a), PointModel1(b, a, writing), writing)
<1> DEFINE x == a % \h4000
<1>1. x \in Nat
  BY Z3 DEF Address
<1>2. /\ Agree(Model1Mmio(b, x), Model1WriteMmio(b, x), Model1MmioAddr(b, x, writing), writing)
      /\ Agree(Model1Ram(b, a), Model1WriteMem(b, a), Model1Ram(b, a), writing)
  BY <1>1, MmioAgrees, RamAgrees DEF Address
<1> HIDE DEF x
<1> QED BY <1>2, Chips DEF ReadModel1, WriteModel1, PointModel1, Agree, x

LEMMA XmemAgrees ==
  ASSUME NEW b, NEW a, Address(a), NEW writing \in BOOLEAN
  PROVE  Agree(ReadXmem(b, a), WriteXmem(b, a), PointXmem(b, a, writing), writing)
BY MmioAgrees, SameAgrees DEF ReadXmem, WriteXmem, PointXmem, Address

LEMMA Card80ZAgrees ==
  ASSUME NEW b, NEW a, Address(a), NEW writing \in BOOLEAN
  PROVE  Agree(Read80Z(b, a), Write80Z(b, a), Point80Z(b, a, writing), writing)
BY MmioAgrees, SameAgrees, Chips DEF Read80Z, Write80Z, Point80Z, Address, Agree, SameByte

\* Below the keyboard's last page there is the ROM and nothing to write to.
LEMMA MmioLow ==
  ASSUME NEW b, NEW x \in Nat, x < \h3900, NEW writing \in BOOLEAN
  PROVE  /\ Model1WriteMmio(b, x) = NoByte
         /\ Model1Mmio(b, x) = IF x < b.romSize THEN Rom(x) ELSE NoByte
         /\ Model1MmioAddr(b, x, writing) =
              IF x < b.romSize /\ ~writing THEN Rom(x) ELSE NoByte
BY DEF Model1WriteMmio, Model1Mmio, Model1MmioAddr, VIDEO_START

LEMMA Eg64Agrees ==
  ASSUME NEW b, NEW a, Address(a), NEW writing \in BOOLEAN
  PROVE  Agree(ReadEg64(b, a), WriteEg64(b, a), PointEg64(b, a, writing), writing)
<1>1. CASE a < \h3600
  BY <1>1, MmioLow, Chips DEF ReadEg64, WriteEg64, PointEg64, Address, Agree, SameByte
<1>2. CASE a >= \h3600
  <2>1. Uncovered64(b, a, 0, 2) <=> Uncovered64(b, a, 1, 3)
    BY <1>2 DEF Uncovered64, Address
  <2> QED BY <2>1, MmioAgrees, SameAgrees DEF ReadEg64, WriteEg64, PointEg64, Address
<1> QED BY <1>1, <1>2 DEF Address

LEMMA LubomirAgrees ==
  ASSUME NEW b, NEW a, Address(a), NEW writing \in BOOLEAN
  PROVE  Agree(ReadLubomir(b, a), WriteLubomir(b, a), PointLubomir(b, a, writing), writing)
<1>1. CASE a >= RAM_START
  BY <1>1, SameAgrees DEF ReadLubomir, WriteLubomir, PointLubomir
<1>2. CASE a < \h37E0
  BY <1>2, MmioLow, Chips
     DEF ReadLubomir, WriteLubomir, PointLubomir, Address, Agree, SameByte, RAM_START
<1>3. CASE a >= \h37E0 /\ ~(a >= RAM_START)
  <2>1. UncoveredSoft(b, a, 6) <=> UncoveredSoft(b, a, 7)
    BY <1>3 DEF UncoveredSoft, Address
  <2> QED BY <1>3, <2>1, MmioAgrees, SameAgrees DEF ReadLubomir, WriteLubomir, PointLubomir, Address
<1> QED BY <1>1, <1>2, <1>3 DEF Address

LEMMA Eg3200Agrees ==
  ASSUME NEW b, NEW a, Address(a), NEW writing \in BOOLEAN,
         b.romSize \in Nat, b.romSize <= \h37E0
  PROVE  Agree(ReadEg3200(b, a), WriteEg3200(b, a), PointEg3200(b, a, writing), writing)
<1>1. CASE Devices3200(b) /\ a \in \h37E0 .. \h37EF
  <2>1. ~Screen3200(b, a) /\ ~(a < b.romSize) /\ ~(a \in \h4400 .. \h47FF)
    BY <1>1 DEF Screen3200, Address, VIDEO_START, RAM_START
  <2>2. Model1WriteMmio(b, a) = NoByte /\ Model1Mmio(b, a) = NoByte
    BY <1>1, <2>1, MmioLow DEF Address
  <2>3. ~Rom3200(b, a)
    BY <2>1 DEF Rom3200
  <2>4. ReadEg3200(b, a) = NoByte /\ WriteEg3200(b, a) = NoByte
    BY <1>1, <2>1, <2>2, <2>3 DEF ReadEg3200, WriteEg3200
  <2> QED BY <2>4, Chips DEF Agree, SameByte
<1>2. CASE ~(Devices3200(b) /\ a \in \h37E0 .. \h37EF)
  BY <1>2, Chips DEF ReadEg3200, WriteEg3200, PointEg3200, Address, Agree, SameByte
<1> QED BY <1>1, <1>2

LEMMA GenieAgrees ==
  ASSUME NEW b, NEW a, Address(a), NEW writing \in BOOLEAN,
         b.romSize \in Nat, b.romSize <= \h37E0
  PROVE  Agree(ReadGenie(b, a), WriteGenie(b, a), PointGenie(b, a, writing), writing)
<1>1. CASE Screen2K(b, a)
  BY <1>1, Chips DEF ReadGenie, WriteGenie, PointGenie, Agree, SameByte
<1>2. CASE ~Screen2K(b, a) /\ ScreenGenie(b, a)
  BY <1>2, Chips DEF ReadGenie, WriteGenie, PointGenie, Agree, SameByte
<1>3. CASE ~Screen2K(b, a) /\ ~ScreenGenie(b, a) /\ ~Bit(b.sys_byte, 0) /\ a \in \h37E0 .. \h37EF
  <2>1. ~RomGenie(b, a)
    BY <1>3 DEF RomGenie
  <2>2. Model1WriteMmio(b, a) = NoByte /\ Model1Mmio(b, a) = NoByte
    BY <1>3, MmioLow DEF Address
  <2>3. RamGenie(b, a).chip = "ram"
    BY Chips DEF RamGenie
  <2>4. WriteGenie(b, a) = NoByte
    BY <1>3, <2>2 DEF WriteGenie
  <2>5. ReadGenie(b, a) \in {NoByte, RamGenie(b, a)} /\ PointGenie(b, a, writing) = RamGenie(b, a)
    <3>1. ~HrgGenie(b, a)
      BY <1>3 DEF HrgGenie
    <3> QED BY <1>3, <2>1, <2>2, <3>1 DEF ReadGenie, PointGenie
  <2> QED BY <2>3, <2>4, <2>5, Chips DEF Agree, SameByte
<1>4. CASE ~Screen2K(b, a) /\ ~ScreenGenie(b, a) /\ ~(~Bit(b.sys_byte, 0) /\ a \in \h37E0 .. \h37EF)
  <2>1. ~(~Bit(b.sys_byte, 0) /\ a \in \h37E8 .. \h37EF)
    BY <1>4
  <2>2. RamGenie(b, a).chip = "ram"
    BY Chips DEF RamGenie
  <2> QED BY <1>4, <2>1, <2>2, Chips DEF ReadGenie, WriteGenie, PointGenie, Agree, SameByte
<1> QED BY <1>1, <1>2, <1>3, <1>4

LEMMA Ct80Agrees ==
  ASSUME NEW b, NEW a, Address(a), NEW writing \in BOOLEAN,
         b.romSize \in Nat, b.romSize <= \h37E0
  PROVE  Agree(ReadCt80(b, a), WriteCt80(b, a), PointCt80(b, a, writing), writing)
<1>1. CASE RomCt80(b, a)
  <2>1. a <= \h2FFF
    BY <1>1 DEF RomCt80
  <2>2. /\ \A last : a \notin \h37E0 .. last
        /\ a \notin \hEFE0 .. \hEFEF /\ ~(a >= \hF800)
    BY <2>1 DEF Address
  <2>3. /\ ReadCt80(b, a) = RomByteCt80(b, a)
        /\ PointCt80(b, a, writing) = IF writing THEN NoByte ELSE RomByteCt80(b, a)
    BY <1>1 DEF ReadCt80, PointCt80
  <2>4. WriteCt80(b, a) = Ram(a)
    BY <2>2 DEF WriteCt80
  <2>5. RomByteCt80(b, a).chip = "rom"
    BY Chips DEF RomByteCt80
  <2> QED BY <2>3, <2>4, <2>5, Chips DEF Agree, SameByte
<1>2. CASE ~RomCt80(b, a) /\ TrsCt80(b)
  <2>1. ~CpmCt80(b)
    BY <1>2 DEF TrsCt80, CpmCt80
  <2>2. CASE a < \h37E0
    <3>1. /\ Model1Mmio(b, a) = IF a < b.romSize THEN Rom(a) ELSE NoByte
          /\ Model1MmioAddr(b, a, writing) = IF a < b.romSize /\ ~writing THEN Rom(a) ELSE NoByte
      BY <2>2, MmioLow DEF Address
    <3>2. WriteCt80(b, a) = Ram(a)
      BY <2>1, <2>2 DEF WriteCt80, RAM_START, Address
    <3>3. CASE a < \h3000
      <4>1. \A last : a \notin \h3000 .. last
        BY <3>3 DEF Address
      <4>2. ReadCt80(b, a) = Ram(a)
        BY <1>2, <2>1, <4>1 DEF ReadCt80
      <4>3. PointCt80(b, a, writing) = Ram(a)
        BY <1>2, <2>1, <4>1 DEF PointCt80
      <4> QED BY <3>2, <4>2, <4>3, SameAgrees
    <3>4. CASE a >= \h3000
      <4>1. ReadCt80(b, a) = Model1Mmio(b, a) /\ PointCt80(b, a, writing) = Model1MmioAddr(b, a, writing)
        BY <1>2, <2>2, <3>4 DEF ReadCt80, PointCt80, RAM_START, Address
      <4> QED BY <3>1, <3>2, <4>1, Chips DEF Agree, SameByte
    <3> QED BY <3>3, <3>4 DEF Address
  <2>3. CASE a >= \h37E0
    <3>1. CASE a < RAM_START
      <4>1. a \in \h3000 .. RAM_START - 1 /\ a \in \h37E0 .. RAM_START - 1
        BY <2>3, <3>1 DEF Address, RAM_START
      <4>2. /\ ReadCt80(b, a) = Model1Mmio(b, a) /\ WriteCt80(b, a) = Model1WriteMmio(b, a)
            /\ PointCt80(b, a, writing) = Model1MmioAddr(b, a, writing)
        BY <1>2, <4>1 DEF ReadCt80, WriteCt80, PointCt80
      <4> QED BY <4>2, MmioAgrees DEF Address
    <3>2. CASE ~(a < RAM_START)
      <4>1. a \notin \h3000 .. RAM_START - 1 /\ a \notin \h37E0 .. RAM_START - 1
        <5>1. RAM_START \in Int
          BY DEF RAM_START
        <5> QED BY <3>2, <5>1 DEF Address
      <4>2. /\ ReadCt80(b, a) = Ram(a) /\ WriteCt80(b, a) = Ram(a)
            /\ PointCt80(b, a, writing) = Ram(a)
        BY <1>2, <2>1, <4>1 DEF ReadCt80, WriteCt80, PointCt80
      <4> QED BY <4>2, SameAgrees
    <3> QED BY <3>1, <3>2
  <2> QED BY <2>2, <2>3 DEF Address
<1>3. CASE ~RomCt80(b, a) /\ ~TrsCt80(b)
  <2> DEFINE x == a - \hB800
  <2>1. ASSUME a \in \hEFE0 .. \hEFEF
        PROVE  Model1Mmio(b, x) = NoByte /\ Model1WriteMmio(b, x) = NoByte
    BY <2>1, MmioLow DEF Address
  <2>2. CASE ~CpmCt80(b)
    <3>1. /\ ReadCt80(b, a) = Ram(a) /\ WriteCt80(b, a) = Ram(a)
          /\ PointCt80(b, a, writing) = Ram(a)
      BY <1>3, <2>2 DEF ReadCt80, WriteCt80, PointCt80
    <3> QED BY <3>1, SameAgrees
  <2>3. CASE CpmCt80(b) /\ a >= \hF800
    <3>1. /\ ReadCt80(b, a) = ScreenCt80(b, a) /\ WriteCt80(b, a) = ScreenCt80(b, a)
          /\ PointCt80(b, a, writing) = ScreenCt80(b, a)
      BY <1>3, <2>3 DEF ReadCt80, WriteCt80, PointCt80
    <3> QED BY <3>1, SameAgrees
  <2>4. CASE CpmCt80(b) /\ a < \hF800 /\ a >= \hF400
    <3>1. a \notin \hEFE0 .. \hEFEF /\ a \notin \hEC00 .. \hF3FF /\ ~(a >= \hF800)
      BY <2>4 DEF Address
    <3>2. /\ ReadCt80(b, a) = NoByte /\ WriteCt80(b, a) = Ram(a)
          /\ PointCt80(b, a, writing) = Ram(a)
      BY <1>3, <2>4, <3>1 DEF ReadCt80, WriteCt80, PointCt80
    <3> QED BY <3>2, Chips DEF Agree, SameByte
  <2>5. CASE CpmCt80(b) /\ a < \hF400 /\ a >= \hEC00
    <3>1. a \in \hEC00 .. \hF3FF /\ ~(a >= \hF800) /\ ~(a >= \hF400)
      BY <2>5 DEF Address
    <3>2. PointCt80(b, a, writing) = IF writing THEN NoByte ELSE Rom(a - \hBC00)
      BY <1>3, <2>5, <3>1 DEF PointCt80
    <3>3. CASE a \in \hEFE0 .. \hEFEF
      <4>1. ReadCt80(b, a) = NoByte /\ WriteCt80(b, a) = NoByte
        BY <1>3, <2>1, <2>5, <3>1, <3>3 DEF ReadCt80, WriteCt80, x
      <4> QED BY <4>1, Chips DEF Agree, SameByte
    <3>4. CASE a \notin \hEFE0 .. \hEFEF
      <4>1. ReadCt80(b, a) = Rom(a - \hBC00) /\ WriteCt80(b, a) = Ram(a)
        BY <1>3, <2>5, <3>1, <3>4 DEF ReadCt80, WriteCt80
      <4> QED BY <3>2, <4>1, Chips DEF Agree, SameByte
    <3> QED BY <3>3, <3>4
  <2>6. CASE CpmCt80(b) /\ a < \hEC00
    <3>1. /\ a \notin \hEFE0 .. \hEFEF /\ a \notin \hEC00 .. \hF3FF
          /\ ~(a >= \hF800) /\ ~(a >= \hF400) /\ ~(a >= \hEC00)
      BY <2>6 DEF Address
    <3>2. /\ ReadCt80(b, a) = Ram(a) /\ WriteCt80(b, a) = Ram(a)
          /\ PointCt80(b, a, writing) = Ram(a)
      BY <1>3, <3>1 DEF ReadCt80, WriteCt80, PointCt80
    <3> QED BY <3>2, SameAgrees
  <2> HIDE DEF x
  <2> QED BY <2>2, <2>3, <2>4, <2>5, <2>6 DEF Address
<1> QED BY <1>1, <1>2, <1>3

LEMMA Lnw80Agrees ==
  ASSUME NEW b, NEW a, Address(a), NEW writing \in BOOLEAN,
         b.romSize \in Nat, b.romSize <= \h3700
  PROVE  Agree(ReadLnw80(b, a), WriteLnw80(b, a), PointLnw80(b, a, writing), writing)
<1> DEFINE x == a % \h4000
           m == Model1Mmio(b, x)
           w == Model1WriteMmio(b, x)
           p == Model1MmioAddr(b, x, writing)
<1>1. x \in Nat /\ (a >= \hC000 => x = a - \hC000)
  BY Z3 DEF Address
<1>2. Agree(m, w, p, writing)
  BY <1>1, MmioAgrees
<1>3. a >= \hC000 /\ x < \h3900 =>
        /\ w = NoByte
        /\ m = IF x < b.romSize THEN Rom(x) ELSE NoByte
        /\ p = IF x < b.romSize /\ ~writing THEN Rom(x) ELSE NoByte
  BY <1>1, MmioLow
<1>4. a >= \hC000 => Model1Mmio(b, a - \hC000) = m
  BY <1>1
<1> HIDE DEF m, w, p, x
<1>5. CASE HrgLnw(b, a)
  BY <1>5, Chips DEF ReadLnw80, WriteLnw80, PointLnw80, Agree, SameByte
<1>6. CASE ~HrgLnw(b, a) /\ LowLnw(b, a)
  <2>1. ~CpmLnw(b, a, \hC000) /\ ~CpmLnw(b, a, \hFC00) /\ ~CpmLnw(b, a, \hF900)
        /\ ~CpmLnw(b, a, \hF800) /\ ~CpmLnw(b, a, \hF700)
    BY <1>6 DEF LowLnw, CpmLnw, RAM_START, Address
  <2>2. ASSUME a \in \h37E0 .. \h38FF
        PROVE  Model1WriteMmio(b, a) = NoByte /\ Model1Mmio(b, a) = NoByte
    BY <2>2, MmioLow DEF Address
  <2> QED BY <1>6, <2>1, <2>2, Chips
          DEF ReadLnw80, WriteLnw80, PointLnw80, Agree, SameByte, Address, VIDEO_START
<1>7. CASE ~HrgLnw(b, a) /\ ~LowLnw(b, a) /\ CpmLnw(b, a, \hC000) /\ RomLnw(b)
  BY <1>1, <1>2, <1>3, <1>4, <1>7, Chips
     DEF ReadLnw80, WriteLnw80, PointLnw80, Agree, SameByte, Address, CpmLnw, x, m, w, p
<1>8. CASE ~HrgLnw(b, a) /\ ~LowLnw(b, a) /\ ~(CpmLnw(b, a, \hC000) /\ RomLnw(b))
  <2>1. a >= \hF700 /\ a < \hF900 => m = NoByte /\ w = NoByte
    BY <1>1, <1>3 DEF Address
  <2> DEFINE v == PagedVideo(b, x)
             r == Ram(a + \h8000)
             k == Banked(b, a)
             cpm == Bit(b.sys_byte_2, 0)
  <2>2. v.chip \in {"video", "none"} /\ r.chip = "ram" /\ k.chip = "ram"
    BY Chips
  <2>3. ReadLnw80(b, a) = IF cpm /\ a >= \hFC00 THEN v ELSE IF cpm /\ a >= \hF900 THEN r
                          ELSE IF cpm /\ a >= \hF800 THEN NoByte
                          ELSE IF cpm /\ a >= \hF700 THEN m ELSE k
    BY <1>8 DEF ReadLnw80, CpmLnw, x, m
  <2>4. PointLnw80(b, a, writing) = IF cpm /\ a >= \hFC00 THEN v
                                    ELSE IF cpm /\ a >= \hF900 THEN r ELSE k
    BY <1>8 DEF PointLnw80, CpmLnw, x
  <2>5. \/ WriteLnw80(b, a) = IF cpm /\ a >= \hFC00 THEN v ELSE IF cpm /\ a >= \hF900 THEN r
                              ELSE IF cpm /\ a >= \hF700 /\ a <= \hF7FF THEN w ELSE k
        \/ WriteLnw80(b, a) = NoByte /\ ~cpm
    BY <1>8 DEF WriteLnw80, CpmLnw, x, w, Address
  <2> HIDE DEF v, r, k, cpm
  <2> QED BY <2>1, <2>2, <2>3, <2>4, <2>5, Chips DEF Agree, SameByte, Address
<1> QED BY <1>5, <1>6, <1>7, <1>8

LEMMA SpeedAgrees ==
  ASSUME NEW b, NEW a, Address(a), NEW writing \in BOOLEAN
  PROVE  Agree(ReadSpeed(b, a), WriteSpeed(b, a), PointSpeed(b, a, writing), writing)
<1>1. CASE ~CardSpeed(b, a) /\ BasicSpeed(b, a)
  <2>1. ~HrgSpeed(b, a) /\ ~IoSpeed(b, a)
    <3>1. a >= \h4000
      BY <1>1 DEF BasicSpeed, RAM_START, Address
    <3>2. ~(a < RAM_START) /\ ~(a \in \h3400 .. RAM_START - 1)
      <4>1. RAM_START \in Int /\ ~(a < RAM_START)
        BY <3>1 DEF Address, RAM_START
      <4> QED BY <4>1 DEF Address
    <3>3. HrgSpeed(b, a) => a < RAM_START
      BY DEF HrgSpeed
    <3>4. IoSpeed(b, a) => a \in \h3400 .. RAM_START - 1
      BY DEF IoSpeed
    <3> QED BY <3>2, <3>3, <3>4
  <2>2. BasicByte(a).chip = "rom"
    BY DEF BasicByte, Rom, Byte
  <2> QED BY <1>1, <2>1, <2>2, Chips DEF ReadSpeed, WriteSpeed, PointSpeed, Agree, SameByte
<1>2. CASE ~CardSpeed(b, a) /\ ~BasicSpeed(b, a) /\ ~HrgSpeed(b, a) /\ IoSpeed(b, a)
  BY <1>2, MmioAgrees DEF ReadSpeed, WriteSpeed, PointSpeed, Address
<1>3. CASE ~(~CardSpeed(b, a) /\ BasicSpeed(b, a))
           /\ ~(~CardSpeed(b, a) /\ ~BasicSpeed(b, a) /\ ~HrgSpeed(b, a) /\ IoSpeed(b, a))
  BY <1>3, Chips DEF ReadSpeed, WriteSpeed, PointSpeed, Agree, SameByte
<1> QED BY <1>1, <1>2, <1>3

LEMMA Model3Agrees ==
  ASSUME NEW b, NEW a, Address(a), NEW writing \in BOOLEAN
  PROVE  Agree(ReadModel3(b, a), WriteModel3(b, a), PointModel3(b, a, writing), writing)
BY Chips DEF ReadModel3, WriteModel3, PointModel3, Address, Agree, SameByte

LEMMA Cp500Agrees ==
  ASSUME NEW b, NEW a, Address(a), NEW writing \in BOOLEAN,
         b.memory_map \in {\h31, \h32, \h33}
  PROVE  Agree(ReadCp500(b, a), WriteCp500(b, a), PointCp500(b, a, writing), writing)
<1>1. CASE b.memory_map = \h31 /\ ExtraRom(b, a)
  <2>1. WriteModel3(b, a) = NoByte
    BY <1>1 DEF ExtraRom, WriteModel3, VIDEO_START, RAM_START, Address
  <2>2. ReadCp500(b, a) = ExtraByte(a) /\ WriteCp500(b, a) = NoByte
        /\ PointCp500(b, a, writing) = IF writing THEN NoByte ELSE ExtraByte(a)
    BY <1>1, <2>1 DEF ReadCp500, WriteCp500, PointCp500
  <2> QED BY <2>2, Chips DEF Agree, SameByte, ExtraByte
<1>2. CASE b.memory_map = \h31 /\ ~ExtraRom(b, a)
  <2>1. ReadCp500(b, a) = ReadModel3(b, a) /\ WriteCp500(b, a) = WriteModel3(b, a)
        /\ PointCp500(b, a, writing) = PointModel3(b, a, writing)
    BY <1>2 DEF ReadCp500, WriteCp500, PointCp500
  <2> QED BY <2>1, Model3Agrees
<1>3. CASE b.memory_map \in {\h32, \h33}
  <2>1. ~ExtraRom(b, a)
    BY <1>3 DEF ExtraRom
  <2>2. PointCp500(b, a, writing) = ReadCp500(b, a) /\ WriteCp500(b, a) = ReadCp500(b, a)
    BY <1>3, <2>1 DEF ReadCp500, WriteCp500, PointCp500
  <2> QED BY <2>2, SameAgrees
<1> QED BY <1>1, <1>2, <1>3

LEMMA Vx3Agrees ==
  ASSUME NEW b, NEW a, Address(a), NEW writing \in BOOLEAN
  PROVE  Agree(ReadVx3(b, a), WriteVx3(b, a), PointVx3(b, a, writing), writing)
<1>1. ~(HighVx3(b, a) /\ LowVx3(b, a))
  BY DEF HighVx3, LowVx3, RAM_START, Address
<1>2. ~(AppendedVx3(b, a) /\ LowVx3(b, a)) /\ ~(OwnRomVx3(b, a) /\ LowVx3(b, a))
  BY DEF AppendedVx3, OwnRomVx3, LowVx3, VIDEO_START, KEYBOARD_START, Address
<1>3. ~(HighVx3(b, a) /\ a < RAM_START)
  BY DEF HighVx3, RAM_START, Address
<1> QED BY <1>1, <1>2, <1>3, Chips DEF ReadVx3, WriteVx3, PointVx3, Agree, SameByte

LEMMA BrewerAgrees ==
  ASSUME NEW b, NEW a, Address(a), NEW writing \in BOOLEAN
  PROVE  Agree(ReadBrewer(b, a), WriteBrewer(b, a), PointBrewer(b, a), writing)
BY Chips DEF ReadBrewer, WriteBrewer, PointBrewer, Address, Agree, SameByte

LEMMA Model4Agrees ==
  ASSUME NEW b, NEW a, Address(a), NEW writing \in BOOLEAN,
         b.memory_map \in {\h40, \h41, \h42, \h43, \h50, \h51, \h52, \h53}
  PROVE  Agree(ReadModel4(b, a), WriteModel4(b, a), PointModel4(b, a, writing), writing)
<1> DEFINE k == Banked(b, a)
           v == PagedVideo(b, a)
           l == ReadLowRam(b, a)
<1>0. v.chip \in {"video", "none"} /\ k.chip = "ram" /\ l \in {k, v, NoByte}
  BY Chips DEF ReadLowRam
<1>1. CASE b.memory_map = \h40
  BY <1>0, <1>1, Chips DEF ReadModel4, WriteModel4, PointModel4, Address, Agree, SameByte
<1>2. CASE b.memory_map \in {\h41, \h50, \h51}
  <2>1. ReadModel4(b, a) = IF BootRom(b, a) THEN Rom(a) ELSE l
    BY <1>2 DEF ReadModel4
  <2>2. PointModel4(b, a, writing) = IF BootRom(b, a) /\ ~writing THEN Rom(a) ELSE l
    BY <1>2 DEF PointModel4
  <2>3. WriteModel4(b, a) = l \/ WriteModel4(b, a) \in {l, NoByte}
    <3>1. CASE b.memory_map = \h50
      <4>1. a >= RAM_START \/ ~(a >= RAM_START)
        OBVIOUS
      <4>2. a >= VIDEO_START => ~(a < KEYBOARD_START)
        BY DEF VIDEO_START, KEYBOARD_START, Address
      <4> QED BY <3>1, <4>1, <4>2 DEF WriteModel4, ReadLowRam
    <3>2. CASE b.memory_map \in {\h41, \h51}
      BY <3>2 DEF WriteModel4
    <3> QED BY <1>2, <3>1, <3>2
  <2> HIDE DEF k, v, l
  <2> QED BY <1>0, <2>1, <2>2, <2>3, Chips DEF Agree, SameByte
<1>3. CASE b.memory_map \in {\h42, \h52}
  <2>1. ReadModel4(b, a) = ReadHighIo(b, a) /\ PointModel4(b, a, writing) = ReadHighIo(b, a)
    BY <1>3 DEF ReadModel4, PointModel4
  <2>2. WriteModel4(b, a) = IF a < \hF400 THEN k
                            ELSE IF a >= \hF800 THEN CheckedVideo(a - \hF800) ELSE NoByte
    BY <1>3 DEF WriteModel4
  <2> HIDE DEF k
  <2> QED BY <1>0, <2>1, <2>2, Chips DEF Agree, SameByte, ReadHighIo, k
<1>4. CASE b.memory_map \in {\h43, \h53}
  <2>1. ReadModel4(b, a) = k /\ WriteModel4(b, a) = k /\ PointModel4(b, a, writing) = k
    BY <1>4 DEF ReadModel4, WriteModel4, PointModel4
  <2> QED BY <2>1, SameAgrees
<1> QED BY <1>1, <1>2, <1>3, <1>4

-----------------------------------------------------------------------------
(* The three switches.                                                     *)

\* The ROM of a clone of the Model I leaves its devices free.
RomFits(b) ==
  /\ b.memory_map \in Nat /\ b.romSize \in Nat
  /\ b.memory_map \in {\h1A, \h1B, \h1C} => b.romSize <= \h37E0
  /\ b.memory_map = \h1D => b.romSize <= \h3700

LEMMA SwitchesAgree ==
  ASSUME NEW b, RomFits(b), NEW a, Address(a), NEW writing \in BOOLEAN
  PROVE  Agree(mem_read(b, a), mem_write(b, a), mem_pointer(b, a, writing), writing)
<1>1. CASE Intercepted(b, a)
  BY <1>1, SameAgrees DEF mem_read, mem_write, mem_pointer
<1>2. CASE ~Intercepted(b, a) /\ b.memory_map \in \h10 .. \h15
  <2>1. mem_read(b, a) = ReadModel1(b, a)
    BY <1>2 DEF mem_read
  <2>2. mem_write(b, a) = WriteModel1(b, a)
    BY <1>2 DEF mem_write
  <2>3. mem_pointer(b, a, writing) = PointModel1(b, a, writing)
    BY <1>2 DEF mem_pointer
  <2> QED BY <1>2, <2>1, <2>2, <2>3, Model1Agrees
<1>3. CASE ~Intercepted(b, a) /\ b.memory_map = \h16
  <2>1. mem_read(b, a) = ReadXmem(b, a)
    BY <1>3 DEF mem_read
  <2>2. mem_write(b, a) = WriteXmem(b, a)
    BY <1>3 DEF mem_write
  <2>3. mem_pointer(b, a, writing) = PointXmem(b, a, writing)
    BY <1>3 DEF mem_pointer
  <2> QED BY <1>3, <2>1, <2>2, <2>3, XmemAgrees
<1>4. CASE ~Intercepted(b, a) /\ b.memory_map = \h17
  <2>1. mem_read(b, a) = Read80Z(b, a)
    BY <1>4 DEF mem_read
  <2>2. mem_write(b, a) = Write80Z(b, a)
    BY <1>4 DEF mem_write
  <2>3. mem_pointer(b, a, writing) = Point80Z(b, a, writing)
    BY <1>4 DEF mem_pointer
  <2> QED BY <1>4, <2>1, <2>2, <2>3, Card80ZAgrees
<1>5. CASE ~Intercepted(b, a) /\ b.memory_map = \h18
  <2>1. mem_read(b, a) = ReadEg64(b, a)
    BY <1>5 DEF mem_read
  <2>2. mem_write(b, a) = WriteEg64(b, a)
    BY <1>5 DEF mem_write
  <2>3. mem_pointer(b, a, writing) = PointEg64(b, a, writing)
    BY <1>5 DEF mem_pointer
  <2> QED BY <1>5, <2>1, <2>2, <2>3, Eg64Agrees
<1>6. CASE ~Intercepted(b, a) /\ b.memory_map = \h19
  <2>1. mem_read(b, a) = ReadLubomir(b, a)
    BY <1>6 DEF mem_read
  <2>2. mem_write(b, a) = WriteLubomir(b, a)
    BY <1>6 DEF mem_write
  <2>3. mem_pointer(b, a, writing) = PointLubomir(b, a, writing)
    BY <1>6 DEF mem_pointer
  <2> QED BY <1>6, <2>1, <2>2, <2>3, LubomirAgrees
<1>7. CASE ~Intercepted(b, a) /\ b.memory_map = \h1A
  <2>1. mem_read(b, a) = ReadEg3200(b, a)
    BY <1>7 DEF mem_read
  <2>2. mem_write(b, a) = WriteEg3200(b, a)
    BY <1>7 DEF mem_write
  <2>3. mem_pointer(b, a, writing) = PointEg3200(b, a, writing)
    BY <1>7 DEF mem_pointer
  <2> QED BY <1>7, <2>1, <2>2, <2>3, Eg3200Agrees DEF RomFits
<1>8. CASE ~Intercepted(b, a) /\ b.memory_map = \h1B
  <2>1. mem_read(b, a) = ReadGenie(b, a)
    BY <1>8 DEF mem_read
  <2>2. mem_write(b, a) = WriteGenie(b, a)
    BY <1>8 DEF mem_write
  <2>3. mem_pointer(b, a, writing) = PointGenie(b, a, writing)
    BY <1>8 DEF mem_pointer
  <2> QED BY <1>8, <2>1, <2>2, <2>3, GenieAgrees DEF RomFits
<1>9. CASE ~Intercepted(b, a) /\ b.memory_map = \h1C
  <2>1. mem_read(b, a) = ReadCt80(b, a)
    BY <1>9 DEF mem_read
  <2>2. mem_write(b, a) = WriteCt80(b, a)
    BY <1>9 DEF mem_write
  <2>3. mem_pointer(b, a, writing) = PointCt80(b, a, writing)
    BY <1>9 DEF mem_pointer
  <2> QED BY <1>9, <2>1, <2>2, <2>3, Ct80Agrees DEF RomFits
<1>10. CASE ~Intercepted(b, a) /\ b.memory_map = \h1D
  <2>1. mem_read(b, a) = ReadLnw80(b, a)
    BY <1>10 DEF mem_read
  <2>2. mem_write(b, a) = WriteLnw80(b, a)
    BY <1>10 DEF mem_write
  <2>3. mem_pointer(b, a, writing) = PointLnw80(b, a, writing)
    BY <1>10 DEF mem_pointer
  <2> QED BY <1>10, <2>1, <2>2, <2>3, Lnw80Agrees DEF RomFits
<1>11. CASE ~Intercepted(b, a) /\ b.memory_map = \h1E
  <2>1. mem_read(b, a) = ReadSpeed(b, a)
    BY <1>11 DEF mem_read
  <2>2. mem_write(b, a) = WriteSpeed(b, a)
    BY <1>11 DEF mem_write
  <2>3. mem_pointer(b, a, writing) = PointSpeed(b, a, writing)
    BY <1>11 DEF mem_pointer
  <2> QED BY <1>11, <2>1, <2>2, <2>3, SpeedAgrees
<1>12. CASE ~Intercepted(b, a) /\ b.memory_map = \h30
  <2>1. mem_read(b, a) = ReadModel3(b, a)
    BY <1>12 DEF mem_read
  <2>2. mem_write(b, a) = WriteModel3(b, a)
    BY <1>12 DEF mem_write
  <2>3. mem_pointer(b, a, writing) = PointModel3(b, a, writing)
    BY <1>12 DEF mem_pointer
  <2> QED BY <1>12, <2>1, <2>2, <2>3, Model3Agrees
<1>13. CASE ~Intercepted(b, a) /\ b.memory_map \in {\h31, \h32, \h33}
  <2>1. mem_read(b, a) = ReadCp500(b, a)
    BY <1>13 DEF mem_read
  <2>2. mem_write(b, a) = WriteCp500(b, a)
    BY <1>13 DEF mem_write
  <2>3. mem_pointer(b, a, writing) = PointCp500(b, a, writing)
    BY <1>13 DEF mem_pointer
  <2> QED BY <1>13, <2>1, <2>2, <2>3, Cp500Agrees
<1>14. CASE ~Intercepted(b, a) /\ b.memory_map = \h34
  <2>1. mem_read(b, a) = ReadVx3(b, a)
    BY <1>14 DEF mem_read
  <2>2. mem_write(b, a) = WriteVx3(b, a)
    BY <1>14 DEF mem_write
  <2>3. mem_pointer(b, a, writing) = PointVx3(b, a, writing)
    BY <1>14 DEF mem_pointer
  <2> QED BY <1>14, <2>1, <2>2, <2>3, Vx3Agrees
<1>15. CASE ~Intercepted(b, a) /\ b.memory_map = \h35
  <2>1. mem_read(b, a) = ReadBrewer(b, a)
    BY <1>15 DEF mem_read
  <2>2. mem_write(b, a) = WriteBrewer(b, a)
    BY <1>15 DEF mem_write
  <2>3. mem_pointer(b, a, writing) = PointBrewer(b, a)
    BY <1>15 DEF mem_pointer
  <2> QED BY <1>15, <2>1, <2>2, <2>3, BrewerAgrees
<1>16. CASE ~Intercepted(b, a) /\ b.memory_map \in {\h40, \h41, \h42, \h43, \h50, \h51, \h52, \h53}
  <2>1. mem_read(b, a) = ReadModel4(b, a)
    BY <1>16 DEF mem_read
  <2>2. mem_write(b, a) = WriteModel4(b, a)
    BY <1>16 DEF mem_write
  <2>3. mem_pointer(b, a, writing) = PointModel4(b, a, writing)
    BY <1>16 DEF mem_pointer
  <2> QED BY <1>16, <2>1, <2>2, <2>3, Model4Agrees
<1>17. CASE /\ ~Intercepted(b, a)
             /\ b.memory_map \notin \h10 .. \h1E \cup \h30 .. \h35 \cup \h40 .. \h43 \cup \h50 .. \h53
  <2>1. mem_read(b, a) = NoByte
    BY <1>17 DEF mem_read, RomFits
  <2>2. mem_write(b, a) = NoByte
    BY <1>17 DEF mem_write, RomFits
  <2>3. mem_pointer(b, a, writing) = NoByte
    BY <1>17 DEF mem_pointer, RomFits
  <2> QED BY <2>1, <2>2, <2>3, SameAgrees
<1> QED BY <1>1, <1>2, <1>3, <1>4, <1>5, <1>6, <1>7, <1>8, <1>9, <1>10, <1>11, <1>12, <1>13, <1>14, <1>15, <1>16, <1>17 DEF RomFits

-----------------------------------------------------------------------------
(* What keeps the registers together.                                      *)

Fields ==
  {"model", "speedup", "romSize", "memSize", "card", "clone", "memory_map", "video_addr",
   "bank_offset", "bank_base", "megamem_addr", "megamem_base", "mem_command",
   "supermem_base", "supermem_high", "sys_byte", "sys_byte_2", "modesel", "modeimage",
   "m6845_reg", "sta"}

\* t is the same machine as b, with other registers.
Kin(b, t) ==
  /\ DOMAIN t = Fields
  /\ t.model = b.model /\ t.speedup = b.speedup
  /\ t.romSize = b.romSize /\ t.memSize = b.memSize
\* A port that leaves map, clone and mode register alone.
Quiet(b, t) ==
  Kin(b, t) /\ t.memory_map = b.memory_map /\ t.clone = b.clone /\ t.modesel = b.modesel

BuiltFrom(b) ==
  /\ DOMAIN b = Fields
  /\ \E m \in Builds : /\ b.model = m.model /\ b.speedup = m.speedup
                       /\ b.romSize = m.romSize /\ b.memSize = m.memSize

Model1Clones == {"none", "CT80", "EG3200", "GENIE3S", "LNW80", "SPEEDMASTER"}

\* Which clones of the Model I a build can be, by the maps they have.
ClonesFit(b) ==
  /\ b.memory_map = \h1C => b.speedup = 5
  /\ b.memory_map = \h1D => b.speedup = 6
  /\ b.memory_map \in {\h1A, \h1B} => b.romSize <= \h2000

\* A Model 4's map is the one its mode register names, a Model III has a CP-500's
\* maps only as a CP-500, and a Model I has a clone's where it can be that clone.
MapTrue(b) ==
  CASE b.model = 1 -> /\ b.memory_map \in \h10 .. \h1E /\ b.clone \in Model1Clones
                      /\ ClonesFit(b)
    [] b.model = 3 -> /\ b.memory_map \in \h30 .. \h35
                      /\ b.clone \in {"none", "CP500", "CP500_M80"}
                      /\ b.memory_map \in {\h31, \h32, \h33} => b.clone # "none"
    [] b.model \in {4, 5} -> b.memory_map = (b.modesel % 4) + 16 * b.model /\ b.clone = "none"

BoardOK(b) == BuiltFrom(b) /\ b.modesel \in 0 .. 255 /\ MapTrue(b)

LEMMA Mode4Map ==
  ASSUME NEW b, b.model \in {4, 5}
  PROVE  MapTrue(b) <=> b.memory_map = (b.modesel % 4) + 16 * b.model /\ b.clone = "none"
<1>1. b.model # 1 /\ b.model # 3
  OBVIOUS
<1> DEFINE m == b.memory_map = (b.modesel % 4) + 16 * b.model
           one == /\ b.memory_map \in \h10 .. \h1E /\ b.clone \in Model1Clones
                  /\ ClonesFit(b)
           three == /\ b.memory_map \in \h30 .. \h35
                    /\ b.clone \in {"none", "CP500", "CP500_M80"}
                    /\ b.memory_map \in {\h31, \h32, \h33} => b.clone # "none"
<1>2. MapTrue(b) = CASE b.model = 1 -> one
                     [] b.model = 3 -> three
                     [] b.model \in {4, 5} -> m /\ b.clone = "none"
  BY DEF MapTrue
<1> HIDE DEF m, one, three
<1> QED BY <1>1, <1>2 DEF m

LEMMA KinBuilt ==
  ASSUME NEW b, NEW t, BuiltFrom(b), Kin(b, t)
  PROVE  BuiltFrom(t)
BY DEF BuiltFrom, Kin

LEMMA BuiltFacts ==
  ASSUME NEW b, BuiltFrom(b)
  PROVE  /\ b.model \in {1, 3, 4, 5} /\ b.romSize \in Nat /\ b.romSize >= 1
         /\ b.romSize <= \h3800
         /\ b.memSize \in Nat /\ b.memSize >= 1
         /\ DOMAIN b = Fields
<1>1. PICK m \in Builds : /\ b.model = m.model /\ b.romSize = m.romSize
                          /\ b.memSize = m.memSize
  BY DEF BuiltFrom
<1>2. /\ m.model \in {1, 3, 4, 5} /\ m.romSize \in Nat /\ m.romSize >= 1
      /\ m.romSize <= \h3800
      /\ m.memSize \in Nat /\ m.memSize >= 1
  BY BuildsAssumption DEF RAM_START
<1> QED BY <1>1, <1>2 DEF BuiltFrom

LEMMA MapKept ==
  ASSUME NEW b, NEW t, MapTrue(b), t.model = b.model, t.speedup = b.speedup,
         t.romSize = b.romSize, t.memory_map = b.memory_map, t.clone = b.clone, t.modesel = b.modesel
  PROVE  MapTrue(t)
<1>1. ClonesFit(b) <=> ClonesFit(t)
  BY DEF ClonesFit
<1> QED BY <1>1 DEF MapTrue

LEMMA QuietOK ==
  ASSUME NEW b, BoardOK(b), NEW t, Quiet(b, t)
  PROVE  BoardOK(t) /\ Kin(b, t)
BY KinBuilt, MapKept DEF BoardOK, Quiet, Kin

LEMMA QuietTrans ==
  ASSUME NEW b, NEW t, NEW u, Quiet(b, t), Quiet(t, u)
  PROVE  Quiet(b, u)
BY DEF Quiet, Kin

-----------------------------------------------------------------------------
(* The ports.                                                              *)

LEMMA PageQuiet ==
  ASSUME NEW b, DOMAIN b = Fields, NEW offset
  PROVE  Quiet(b, mem_video_page(b, offset)) /\ mem_video_page(b, offset).sys_byte = b.sys_byte
BY DEF Quiet, Kin, Fields, mem_video_page

LEMMA BankQuiet ==
  ASSUME NEW b, DOMAIN b = Fields, NEW command
  PROVE  LET t == mem_bank(b, command) IN
         /\ Quiet(b, t) /\ t.sys_byte = b.sys_byte /\ t.sys_byte_2 = b.sys_byte_2
         /\ t.megamem_addr = b.megamem_addr /\ t.supermem_base = b.supermem_base
BY DEF Quiet, Kin, Fields, mem_bank

LEMMA Model1Quiet ==
  ASSUME NEW b, DOMAIN b = Fields, NEW port, NEW value
  PROVE  /\ Quiet(b, ct80_ramdisk_out(b, port)) /\ Quiet(b, ct80_ramdisk_address(b, port, value))
         /\ Quiet(b, eg3200_genieplus_out(b, value)) /\ Quiet(b, genie3s_bank_out(b, value))
         /\ Quiet(b, genie3s_mem_out(b, value)) /\ Quiet(b, genie3s_sys_out(b, value))
         /\ Quiet(b, lnw80_bank_out(b, value)) /\ Quiet(b, tcs_ram192b_out(b, value))
         /\ Quiet(b, sys_byte_write(b, value)) /\ Quiet(b, OutAnyModel(b, port, value))
         /\ Quiet(b, m6845_select(b, value)) /\ Quiet(b, m6845_crtc(b, value))
<1>0. Quiet(b, b)
  BY DEF Quiet, Kin
<1>1. Quiet(b, ct80_ramdisk_out(b, port))
  BY DEF Quiet, Kin, Fields, ct80_ramdisk_out
<1>2. Quiet(b, ct80_ramdisk_address(b, port, value))
  BY DEF Quiet, Kin, Fields, ct80_ramdisk_address
<1>3. Quiet(b, eg3200_genieplus_out(b, value))
  BY DEF Quiet, Kin, Fields, eg3200_genieplus_out
<1>4. Quiet(b, genie3s_bank_out(b, value))
  BY DEF Quiet, Kin, Fields, genie3s_bank_out
<1>5. Quiet(b, genie3s_mem_out(b, value))
  BY DEF Quiet, Kin, Fields, genie3s_mem_out
<1>6. Quiet(b, genie3s_sys_out(b, value))
  BY DEF Quiet, Kin, Fields, genie3s_sys_out
<1>7. Quiet(b, lnw80_bank_out(b, value))
  <2> DEFINE banked == [b EXCEPT !.bank_offset[1] = If(Bit(value, 6), 32768), !.sys_byte_2 = value]
  <2>1. Quiet(b, banked)
    BY DEF Quiet, Kin, Fields
  <2>2. lnw80_bank_out(b, value) \in {b, banked, mem_video_page(banked, If(Bit(value, 3), 1024))}
    BY DEF lnw80_bank_out
  <2> HIDE DEF banked
  <2>3. Quiet(banked, mem_video_page(banked, If(Bit(value, 3), 1024)))
    BY <2>1, PageQuiet DEF Quiet, Kin
  <2> QED BY <1>0, <2>1, <2>2, <2>3, QuietTrans
<1>8. Quiet(b, tcs_ram192b_out(b, value))
  BY DEF Quiet, Kin, Fields, tcs_ram192b_out
<1>9. Quiet(b, sys_byte_write(b, value))
  BY DEF Quiet, Kin, Fields, sys_byte_write
<1>10. Quiet(b, OutAnyModel(b, port, value))
  <2>1. Quiet(b, supermem_out(b, value))
    BY DEF Quiet, Kin, Fields, supermem_out
  <2> QED BY <1>0, <2>1 DEF OutAnyModel
<1>11. Quiet(b, m6845_select(b, value))
  BY DEF Quiet, Kin, Fields, m6845_select
<1>12. Quiet(b, m6845_crtc(b, value))
  <2> DEFINE high == [b EXCEPT !.sta = (value % 64) * 256 + (@ % 256)]
             started == [b EXCEPT !.sta = (@ - (@ % 256)) + value]
  <2>1. Quiet(b, high) /\ Quiet(b, started)
    BY DEF Quiet, Kin, Fields
  <2>2. m6845_crtc(b, value) \in {b, high, started, ct80_video_addr(started, started.sta),
                                 mem_video_page(started, 1024 - started.sta)}
    BY DEF m6845_crtc
  <2> HIDE DEF high, started
  <2>3. DOMAIN started = Fields
    BY <2>1 DEF Quiet, Kin
  <2>4. Quiet(started, mem_video_page(started, 1024 - started.sta))
    BY <2>3, PageQuiet
  <2>5. Quiet(started, ct80_video_addr(started, started.sta))
    BY <2>3 DEF Quiet, Kin, Fields, ct80_video_addr
  <2> QED BY <1>0, <2>1, <2>2, <2>4, <2>5, QuietTrans
<1> QED BY <1>1, <1>2, <1>3, <1>4, <1>5, <1>6, <1>7, <1>8, <1>9, <1>10, <1>11, <1>12

\* The map of a Model I without a clone's.
Remapped(b, t) ==
  /\ Kin(b, t) /\ t.clone = b.clone /\ t.modesel = b.modesel
  /\ t.memory_map \in \h10 .. \h19 \/ t.memory_map = b.memory_map

LEMMA RemappedOK ==
  ASSUME NEW b, BoardOK(b), b.model = 1, NEW t, Remapped(b, t)
  PROVE  BoardOK(t) /\ Kin(b, t)
BY KinBuilt DEF BoardOK, Remapped, MapTrue, ClonesFit, Kin

LEMMA Model1Maps ==
  ASSUME NEW b, DOMAIN b = Fields, NEW port, NEW value \in Nat
  PROVE  /\ Remapped(b, selector_out(b, value)) /\ Remapped(b, xmem80_out(b, port, value))
         /\ Remapped(b, lubomir_out(b, value)) /\ Remapped(b, s80z_out(b, value))
         /\ Remapped(b, eg64_mba_out(b, value)) /\ Remapped(b, sys_byte_out(b, value))
<1>1. Remapped(b, selector_out(b, value))
  <2>1. value % 8 \in 0 .. 7
    BY Z3
  <2> DEFINE mode == value % 8
             base == IF Bit(value, 3)
                     THEN 32768 + (BitsOf(value, 4, 4) * 32768) + If(Bit(value, 0), 32768)
                     ELSE 0
             map == IF mode >= 6 THEN \h10 ELSE \h10 + mode
  <2>2. map \in \h10 .. \h19
    BY <2>1
  <2>3. selector_out(b, value) =
          [b EXCEPT !.mem_command = value, !.memory_map = map, !.bank_base = base,
                    !.bank_offset[0] = If(Bit(value, 0), base),
                    !.bank_offset[1] = If(~Bit(value, 0), base)]
    BY DEF selector_out
  <2> HIDE DEF base, map
  <2> QED BY <2>2, <2>3 DEF Remapped, Kin, Fields
<1>2. Remapped(b, xmem80_out(b, port, value))
  BY DEF Remapped, Kin, Fields, xmem80_out
<1>3. Remapped(b, lubomir_out(b, value))
  BY DEF Remapped, Kin, Fields, lubomir_out
<1>4. Remapped(b, s80z_out(b, value))
  BY DEF Remapped, Kin, Fields, s80z_out
<1>5. Remapped(b, eg64_mba_out(b, value))
  BY DEF Remapped, Kin, Fields, eg64_mba_out
<1>6. Remapped(b, sys_byte_out(b, value))
  BY DEF Remapped, Kin, Fields, sys_byte_out
<1> QED BY <1>1, <1>2, <1>3, <1>4, <1>5, <1>6

LEMMA CloneRuns ==
  ASSUME NEW b, DOMAIN b = Fields, NEW clone
  PROVE  LET t == trs_clones_model(b, clone) IN
         /\ Kin(b, t) /\ t.modesel = b.modesel /\ t.clone = clone
         /\ clone # b.clone => t.memory_map = CloneMap[clone] + 16 * b.model
         /\ clone = b.clone => t = b
         /\ t.sys_byte = b.sys_byte /\ t.sys_byte_2 = b.sys_byte_2
         /\ t.megamem_addr = b.megamem_addr /\ t.supermem_base = b.supermem_base
BY DEF Kin, Fields, trs_clones_model, mem_map

\* A Model I turned into another machine has that one's map.
LEMMA CloneOK ==
  ASSUME NEW b, BoardOK(b), b.model = 1, NEW clone \in Model1Clones,
         clone = "CT80" => b.speedup = 5, clone = "LNW80" => b.speedup = 6,
         clone \in {"EG3200", "GENIE3S"} => b.romSize <= \h2000
  PROVE  LET t == trs_clones_model(b, clone) IN BoardOK(t) /\ Kin(b, t)
<1> DEFINE t == trs_clones_model(b, clone)
<1>1. DOMAIN b = Fields
  BY DEF BoardOK, BuiltFrom
<1>2. /\ Kin(b, t) /\ t.modesel = b.modesel /\ t.clone = clone
      /\ clone # b.clone => t.memory_map = CloneMap[clone] + 16 * b.model
      /\ clone = b.clone => t = b
  BY <1>1, CloneRuns
<1> HIDE DEF t
<1>3. /\ CloneMap[clone] + 16 \in \h10 .. \h1E
      /\ CloneMap[clone] + 16 = \h1C => clone = "CT80"
      /\ CloneMap[clone] + 16 = \h1D => clone = "LNW80"
      /\ CloneMap[clone] + 16 \in {\h1A, \h1B} => clone \in {"EG3200", "GENIE3S"}
  BY DEF CloneMap, Model1Clones
<1>4. BuiltFrom(t)
  BY <1>2, KinBuilt DEF BoardOK
<1>5. CASE clone # b.clone
  <2>1. /\ t.model = 1 /\ t.speedup = b.speedup /\ t.romSize = b.romSize
        /\ t.memory_map = CloneMap[clone] + 16
    BY <1>2, <1>5 DEF Kin
  <2>2. MapTrue(t)
    BY <1>2, <1>3, <2>1 DEF MapTrue, ClonesFit
  <2> QED BY <1>2, <1>4, <2>2 DEF BoardOK, t
<1>6. CASE clone = b.clone
  BY <1>2, <1>6 DEF t
<1> QED BY <1>5, <1>6

\* What a port of a Model I does to its map.
LEMMA OutMaps ==
  ASSUME NEW b, BoardOK(b), b.model = 1, NEW port, NEW value \in 0 .. 255
  PROVE  LET t == z80_out(b, port, value) IN
         \/ Quiet(b, t) \/ Remapped(b, t)
         \/ /\ b.speedup < 4 /\ b.romSize <= \h2000
            /\ \E c : \E clone \in {"GENIE3S", "EG3200"} :
                 Quiet(b, c) /\ t = trs_clones_model(c, clone)
<1> DEFINE t == z80_out(b, port, value)
<1>0. DOMAIN b = Fields /\ b.clone \in Model1Clones /\ value \in Nat
  BY DEF BoardOK, BuiltFrom, MapTrue
<1>1. Quiet(b, b)
  BY <1>0 DEF Quiet, Kin
<1>2. /\ Quiet(b, OutAnyModel(b, port, value)) /\ Remapped(b, sys_byte_out(b, value))
      /\ Quiet(b, sys_byte_write(b, value % 16))
      /\ Quiet(b, m6845_select(b, value)) /\ Quiet(b, m6845_crtc(b, value))
  BY <1>0, Model1Quiet, Model1Maps
<1>3. CASE b.clone = "CT80"
  <2>1. t = OutCt80(b, port, value)
    BY <1>3 DEF z80_out
  <2>2. Quiet(b, ct80_ramdisk_out(b, port % 8)) /\ Quiet(b, ct80_ramdisk_address(b, port % 8, value))
    BY <1>0, Model1Quiet
  <2> HIDE DEF t
  <2>3. Quiet(b, t) \/ Remapped(b, t)
    BY <1>2, <2>1, <2>2 DEF OutCt80
  <2> QED BY <2>3 DEF t
<1>4. CASE b.clone = "EG3200"
  <2>1. t = OutEg3200(b, port, value)
    BY <1>4 DEF z80_out
  <2>2. Quiet(b, eg3200_genieplus_out(b, value))
    BY <1>0, Model1Quiet
  <2> HIDE DEF t
  <2>3. Quiet(b, t)
    BY <1>1, <1>2, <2>1, <2>2 DEF OutEg3200
  <2> QED BY <2>3 DEF t
<1>5. CASE b.clone = "GENIE3S"
  <2>1. t = OutGenie3s(b, port, value)
    BY <1>5 DEF z80_out
  <2>2. /\ Quiet(b, genie3s_bank_out(b, value))
        /\ Quiet(b, genie3s_sys_out(b, value)) /\ Quiet(b, genie3s_mem_out(b, value))
    BY <1>0, Model1Quiet
  <2> HIDE DEF t
  <2>3. Quiet(b, t)
    BY <1>1, <1>2, <2>1, <2>2 DEF OutGenie3s
  <2> QED BY <2>3 DEF t
<1>6. CASE b.clone = "LNW80"
  <2>1. t = OutLnw80(b, port, value)
    BY <1>6 DEF z80_out
  <2>2. Quiet(b, lnw80_bank_out(b, value))
    BY <1>0, Model1Quiet
  <2> HIDE DEF t
  <2>3. Quiet(b, t) \/ Remapped(b, t)
    BY <1>2, <2>1, <2>2 DEF OutLnw80
  <2> QED BY <2>3 DEF t
<1>7. CASE b.clone = "SPEEDMASTER"
  <2>1. t = OutSpeedmaster(b, port, value)
    BY <1>7 DEF z80_out
  <2>2. Quiet(b, tcs_ram192b_out(b, value))
    BY <1>0, Model1Quiet
  <2> HIDE DEF t
  <2>3. Quiet(b, t) \/ Remapped(b, t)
    BY <1>1, <1>2, <2>1, <2>2 DEF OutSpeedmaster
  <2> QED BY <2>3 DEF t
<1>8. CASE b.clone = "none"
  <2>1. t = OutModel1(b, port, value)
    BY <1>8 DEF z80_out
  <2>2. /\ Remapped(b, selector_out(b, value)) /\ Remapped(b, xmem80_out(b, port, value % 32))
        /\ Remapped(b, lubomir_out(b, value)) /\ Remapped(b, s80z_out(b, value))
        /\ Remapped(b, eg64_mba_out(b, value))
    <3>1. value % 32 \in Nat
      BY <1>0, Z3
    <3> QED BY <1>0, <3>1, Model1Maps
  <2> DEFINE g == mem_video_page(genie3s_bank_out(b, value), 0)
             e == [b EXCEPT !.sys_byte = value]
  <2>3. Quiet(b, g) /\ Quiet(b, e)
    <3>1. Quiet(b, e)
      BY <1>0 DEF Quiet, Kin, Fields
    <3>2. Quiet(b, genie3s_bank_out(b, value))
      BY <1>0, Model1Quiet
    <3>3. Quiet(genie3s_bank_out(b, value), g)
      BY <3>2, PageQuiet DEF Quiet, Kin
    <3> QED BY <3>1, <3>2, <3>3, QuietTrans
  <2>4. /\ genie3s_init_out(b, value) = trs_clones_model(g, "GENIE3S")
        /\ eg3200_init_out(b, value) = trs_clones_model(e, "EG3200")
    BY DEF genie3s_init_out, eg3200_init_out
  <2> HIDE DEF g, e, t
  <2>5. \/ Quiet(b, t) \/ Remapped(b, t)
        \/ /\ b.speedup < 4 /\ b.romSize <= \h2000
           /\ t \in {genie3s_init_out(b, value), eg3200_init_out(b, value)}
    BY <1>2, <2>1, <2>2 DEF OutModel1
  <2> QED BY <2>3, <2>4, <2>5 DEF t
<1> QED BY <1>0, <1>3, <1>4, <1>5, <1>6, <1>7, <1>8 DEF Model1Clones

LEMMA OutClonesOK ==
  ASSUME NEW b, BoardOK(b), b.model = 1, NEW port, NEW value \in 0 .. 255
  PROVE  LET t == z80_out(b, port, value) IN BoardOK(t) /\ Kin(b, t)
<1> DEFINE t == z80_out(b, port, value)
<1>1. ASSUME b.romSize <= \h2000, NEW c, NEW clone \in {"GENIE3S", "EG3200"}, Quiet(b, c)
      PROVE  BoardOK(trs_clones_model(c, clone)) /\ Kin(b, trs_clones_model(c, clone))
  <2>1. /\ BoardOK(c) /\ Kin(b, c) /\ c.model = 1 /\ clone \in Model1Clones
        /\ clone # "LNW80" /\ clone # "CT80" /\ c.romSize <= \h2000
    BY <1>1, QuietOK DEF Kin, Model1Clones
  <2>2. BoardOK(trs_clones_model(c, clone)) /\ Kin(c, trs_clones_model(c, clone))
    BY <2>1, CloneOK
  <2> QED BY <2>1, <2>2 DEF Kin
<1>2. \/ Quiet(b, t) \/ Remapped(b, t)
      \/ /\ b.romSize <= \h2000
         /\ \E c : \E clone \in {"GENIE3S", "EG3200"} :
              Quiet(b, c) /\ t = trs_clones_model(c, clone)
  BY OutMaps
<1> HIDE DEF t
<1> QED BY <1>1, <1>2, QuietOK, RemappedOK DEF t

\* The mode register of a Model 4 changes the map with itself.
LEMMA ModeSelectRuns ==
  ASSUME NEW b, DOMAIN b = Fields, NEW value
  PROVE  LET t == ModeSelectOut(b, value) IN
         /\ Kin(b, t) /\ t.clone = b.clone /\ t.modesel = value
         /\ t.memory_map = IF value % 4 # b.modesel % 4 THEN (value % 4) + 16 * b.model
                           ELSE b.memory_map
         /\ t.sys_byte = b.sys_byte /\ t.sys_byte_2 = b.sys_byte_2
         /\ t.megamem_addr = b.megamem_addr /\ t.supermem_base = b.supermem_base
<1> DEFINE Same(s, t) == /\ Quiet(s, t) /\ t.sys_byte = s.sys_byte /\ t.sys_byte_2 = s.sys_byte_2
                         /\ t.megamem_addr = s.megamem_addr /\ t.supermem_base = s.supermem_base
           paged == IF Bit(value, 7) # Bit(b.modesel, 7)
                    THEN mem_video_page(b, If(Bit(value, 7), 1024)) ELSE b
           banked == IF BitsOf(value, 4, 3) # BitsOf(b.modesel, 4, 3)
                     THEN mem_bank(paged, BitsOf(value, 4, 3)) ELSE paged
           mapped == IF value % 4 # b.modesel % 4 THEN mem_map(banked, value % 4) ELSE banked
<1>1. Same(b, paged)
  <2>1. Same(b, b)
    BY DEF Quiet, Kin
  <2>2. Same(b, mem_video_page(b, If(Bit(value, 7), 1024)))
    BY DEF Quiet, Kin, Fields, mem_video_page
  <2> QED BY <2>1, <2>2
<1> HIDE DEF paged
<1>2. Same(paged, banked)
  <2>1. DOMAIN paged = Fields
    BY <1>1 DEF Quiet, Kin
  <2>2. Same(paged, paged)
    BY <2>1 DEF Quiet, Kin
  <2>3. Same(paged, mem_bank(paged, BitsOf(value, 4, 3)))
    BY <2>1, BankQuiet
  <2> QED BY <2>2, <2>3
<1> HIDE DEF banked
<1>3. Same(b, banked)
  BY <1>1, <1>2, QuietTrans
<1>4. DOMAIN banked = Fields
  BY <1>3 DEF Quiet, Kin
<1>5. /\ Kin(banked, mapped) /\ mapped.clone = banked.clone
      /\ mapped.memory_map = IF value % 4 # b.modesel % 4 THEN (value % 4) + 16 * banked.model
                             ELSE banked.memory_map
      /\ mapped.sys_byte = banked.sys_byte /\ mapped.sys_byte_2 = banked.sys_byte_2
      /\ mapped.megamem_addr = banked.megamem_addr
      /\ mapped.supermem_base = banked.supermem_base
  BY <1>4 DEF Kin, Fields, mem_map
<1>6. ModeSelectOut(b, value) = [mapped EXCEPT !.modesel = value]
  BY DEF ModeSelectOut, mapped, banked, paged
<1> HIDE DEF mapped
<1> DEFINE t == [mapped EXCEPT !.modesel = value]
<1>7. /\ Kin(mapped, t) /\ t.clone = mapped.clone /\ t.modesel = value
      /\ t.memory_map = mapped.memory_map
      /\ t.sys_byte = mapped.sys_byte /\ t.sys_byte_2 = mapped.sys_byte_2
      /\ t.megamem_addr = mapped.megamem_addr /\ t.supermem_base = mapped.supermem_base
  BY <1>5 DEF Kin, Fields
<1> HIDE DEF t
<1> QED BY <1>3, <1>5, <1>6, <1>7 DEF Quiet, Kin, t

LEMMA OutModel3OK ==
  ASSUME NEW b, BoardOK(b), b.model \in {3, 4, 5}, NEW port, NEW value \in 0 .. 255
  PROVE  LET t == OutModel3(b, port, value) IN BoardOK(t) /\ Kin(b, t)
<1> DEFINE t == OutModel3(b, port, value)
           m == ModeImageOut(b, value)
           v == vid80_vx3_out(b, value)
<1>0. DOMAIN b = Fields
  BY DEF BoardOK, BuiltFrom
<1>1. Quiet(b, b)
  BY <1>0 DEF Quiet, Kin
<1>2. /\ Quiet(b, megamem_out(b, port % 16, value)) /\ Quiet(b, OutAnyModel(b, port, value))
      /\ Quiet(b, m6845_select(b, value)) /\ Quiet(b, m6845_crtc(b, value))
  <2>1. Quiet(b, megamem_out(b, port % 16, value))
    BY <1>0 DEF Quiet, Kin, Fields, megamem_out
  <2> QED BY <1>0, <2>1, Model1Quiet
<1>3. b.model = 3 => BoardOK(v) /\ Kin(b, v)
  <2>1. /\ Kin(b, v) /\ v.clone = b.clone /\ v.modesel = b.modesel
        /\ v.memory_map \in {b.memory_map, \h34}
    BY <1>0 DEF vid80_vx3_out, Kin, Fields
  <2> HIDE DEF v
  <2> QED BY <2>1, KinBuilt DEF BoardOK, MapTrue, Kin
<1>4. BoardOK(m) /\ Kin(b, m)
  <2> DEFINE k == IF b.model = 3 /\ b.speedup = 4 THEN mem_map(b, If(Bit(value, 0), 5)) ELSE b
  <2>1. /\ Kin(b, k) /\ k.clone = b.clone /\ k.modesel = b.modesel
        /\ k.memory_map = b.memory_map \/ (b.model = 3 /\ k.memory_map \in {\h30, \h35})
    BY <1>0 DEF mem_map, Kin, Fields, If
  <2> HIDE DEF k
  <2>2. Quiet(k, [k EXCEPT !.modeimage = value])
    BY <2>1 DEF Quiet, Kin, Fields
  <2>3. m \in {b, [k EXCEPT !.modeimage = value]}
    BY DEF ModeImageOut, k
  <2>4. BoardOK(k)
    <3>1. BuiltFrom(k)
      BY <2>1, KinBuilt DEF BoardOK
    <3>2. k.model = b.model /\ k.speedup = b.speedup
      BY <2>1 DEF Kin
    <3>3. MapTrue(b)
      BY DEF BoardOK
    <3>4. CASE b.model = 3
      <4>1. b.memory_map \in \h30 .. \h35 /\ b.clone \in {"none", "CP500", "CP500_M80"}
            /\ (b.memory_map \in {\h31, \h32, \h33} => b.clone # "none")
        BY <3>3, <3>4 DEF MapTrue
      <4>2. k.memory_map \in \h30 .. \h35
            /\ (k.memory_map \in {\h31, \h32, \h33} => k.clone # "none")
        BY <2>1, <4>1
      <4>3. MapTrue(k)
        BY <2>1, <3>2, <3>4, <4>1, <4>2 DEF MapTrue
      <4> QED BY <2>1, <3>1, <4>3 DEF BoardOK
    <3>5. CASE b.model \in {4, 5}
      <4>1. k.memory_map = b.memory_map
        BY <2>1, <3>5
      <4>2. MapTrue(k)
        BY <2>1, <3>2, <3>3, <4>1, MapKept DEF Kin
      <4> QED BY <2>1, <3>1, <4>2 DEF BoardOK
    <3> QED BY <3>4, <3>5
  <2> HIDE DEF m
  <2>5. BoardOK([k EXCEPT !.modeimage = value]) /\ Kin(b, [k EXCEPT !.modeimage = value])
    BY <2>1, <2>2, <2>4, QuietOK DEF Kin
  <2>6. Kin(b, b)
    BY <1>0 DEF Kin
  <2> QED BY <2>3, <2>5, <2>6
<1>5. \/ t = v /\ b.model = 3
      \/ t = m
      \/ t \in {megamem_out(b, port % 16, value), OutAnyModel(b, port, value),
                m6845_select(b, value), m6845_crtc(b, value)}
  BY DEF OutModel3
<1> HIDE DEF v, m, t
<1>6. Quiet(b, t) \/ (BoardOK(t) /\ Kin(b, t))
  BY <1>2, <1>3, <1>4, <1>5
<1> QED BY <1>6, QuietOK DEF t

LEMMA OutOK ==
  ASSUME NEW b, BoardOK(b), NEW port, NEW value \in 0 .. 255
  PROVE  LET t == z80_out(b, port, value) IN BoardOK(t) /\ Kin(b, t)
<1> DEFINE t == z80_out(b, port, value)
<1>0. DOMAIN b = Fields /\ b.model \in {1, 3, 4, 5}
  BY BuiltFacts DEF BoardOK
<1>1. CASE b.model = 1
  BY <1>1, OutClonesOK
<1>2. CASE b.model = 3
  <2>1. t = OutModel3(b, port, value)
    BY <1>2 DEF z80_out
  <2> QED BY <1>2, <2>1, OutModel3OK
<1>3. CASE b.model \in {4, 5}
  <2> DEFINE s == ModeSelectOut(b, value)
             h == hypermem_out(b, value)
             f == huffman_out(b, value)
             y == sys_byte_write(b, value % 2)
             o == OutModel3(b, port, value)
  <2>1. t = OutModel4(b, port, value)
    BY <1>3 DEF z80_out
  <2>2. BoardOK(o) /\ Kin(b, o)
    BY <1>3, OutModel3OK
  <2>3. BoardOK(s) /\ Kin(b, s)
    <3>1. /\ Kin(b, s) /\ s.clone = b.clone /\ s.modesel = value
          /\ s.memory_map = IF value % 4 # b.modesel % 4 THEN (value % 4) + 16 * b.model
                            ELSE b.memory_map
      BY <1>0, ModeSelectRuns
    <3> HIDE DEF s
    <3>2. BuiltFrom(s)
      BY <3>1, KinBuilt DEF BoardOK
    <3>3. s.model = b.model
      BY <3>1 DEF Kin
    <3>4. b.memory_map = (b.modesel % 4) + 16 * b.model /\ b.clone = "none"
      BY <1>3, Mode4Map DEF BoardOK
    <3>5. s.memory_map = (value % 4) + 16 * b.model
      BY <3>1, <3>4
    <3>6. MapTrue(s)
      BY <1>3, <3>1, <3>3, <3>4, <3>5, Mode4Map
    <3> QED BY <3>1, <3>2, <3>6 DEF BoardOK
  <2>4. Quiet(b, y)
    BY <1>0, Model1Quiet
  <2>5. Quiet(b, h) /\ Quiet(b, f)
    <3> DEFINE p == [b EXCEPT !.bank_base = (BitsOf(value, 1, 4) * 65536) + 65536]
               q == [b EXCEPT !.bank_base = (value % 32) * 65536]
    <3>1. Quiet(b, p) /\ Quiet(b, q)
      BY <1>0 DEF Quiet, Kin, Fields
    <3>2. h = mem_bank(p, b.mem_command) /\ f = mem_bank(q, b.mem_command)
      BY DEF hypermem_out, huffman_out
    <3> HIDE DEF p, q
    <3>3. Quiet(p, mem_bank(p, b.mem_command)) /\ Quiet(q, mem_bank(q, b.mem_command))
      BY <3>1, BankQuiet DEF Quiet, Kin
    <3> QED BY <3>1, <3>2, <3>3, QuietTrans
  <2>6. t \in {s, h, f, y, o}
    BY <2>1 DEF OutModel4
  <2> HIDE DEF s, h, f, y, o, t
  <2>7. Quiet(b, t) \/ (BoardOK(t) /\ Kin(b, t))
    BY <2>2, <2>3, <2>4, <2>5, <2>6
  <2> QED BY <2>7, QuietOK DEF t
<1> QED BY <1>0, <1>1, <1>2, <1>3

LEMMA SwitchModeOK ==
  ASSUME NEW b, BoardOK(b), b.model = 3, NEW mode
  PROVE  BoardOK(cp500_switch_mode(b, mode)) /\ Kin(b, cp500_switch_mode(b, mode))
<1> DEFINE t == cp500_switch_mode(b, mode)
           page(n) == mem_video_page(mem_map(b, 3), n)
<1>0. DOMAIN b = Fields
  BY DEF BoardOK, BuiltFrom
<1>1. ASSUME NEW c, Kin(b, c), c.modesel = b.modesel, c.clone = b.clone,
             NEW clone \in {"CP500", "CP500_M80"}, c.memory_map \in \h30 .. \h33
      PROVE  LET u == trs_clones_model(c, clone) IN BoardOK(u) /\ Kin(b, u)
  <2> DEFINE u == trs_clones_model(c, clone)
  <2>1. /\ Kin(c, u) /\ u.modesel = b.modesel /\ u.clone = clone
        /\ clone # c.clone => u.memory_map = CloneMap[clone] + 16 * c.model
        /\ clone = c.clone => u = c
    <3>1. DOMAIN c = Fields
      BY <1>1 DEF Kin
    <3> QED BY <1>1, <3>1, CloneRuns
  <2> HIDE DEF u
  <2>2. CloneMap[clone] \in {1, 2}
    BY DEF CloneMap
  <2>3. u.memory_map \in \h30 .. \h33 /\ u.model = 3 /\ Kin(b, u)
    BY <1>1, <2>1, <2>2 DEF Kin
  <2>4. BuiltFrom(u)
    BY <2>3, KinBuilt DEF BoardOK
  <2>5. MapTrue(u)
    BY <2>1, <2>3 DEF MapTrue
  <2> QED BY <2>1, <2>3, <2>4, <2>5 DEF BoardOK, u
<1>2. ASSUME NEW n \in {0, 1, 2, 3}
      PROVE  LET c == mem_map(b, n) IN
             /\ Kin(b, c) /\ c.modesel = b.modesel /\ c.clone = b.clone
             /\ c.memory_map \in \h30 .. \h33
  BY <1>0 DEF mem_map, Kin, Fields
<1>3. ASSUME NEW n
      PROVE  LET c == page(n) IN
             /\ Kin(b, c) /\ c.modesel = b.modesel /\ c.clone = b.clone
             /\ c.memory_map \in \h30 .. \h33
  <2> DEFINE k == mem_map(b, 3)
  <2>1. Kin(b, k) /\ k.modesel = b.modesel /\ k.clone = b.clone /\ k.memory_map \in \h30 .. \h33
    BY <1>2
  <2> HIDE DEF k
  <2>2. Quiet(k, mem_video_page(k, n))
    BY <2>1, PageQuiet DEF Kin
  <2> QED BY <2>1, <2>2 DEF Quiet, Kin, k
<1>4. t \in {trs_clones_model(mem_map(b, 0), "CP500"), trs_clones_model(mem_map(b, 1), "CP500"),
             trs_clones_model(mem_map(b, 2), "CP500_M80"),
             trs_clones_model(page((mode \div 64) * 1024), "CP500_M80"), b}
  BY DEF cp500_switch_mode
<1>5. Kin(b, b)
  BY <1>0 DEF Kin
<1> HIDE DEF t, page
<1> QED BY <1>1, <1>2, <1>3, <1>4, <1>5 DEF t

-----------------------------------------------------------------------------
(* trs_reset.                                                              *)

\* The registers a reset clears: with them at zero nothing stands between the
\* processor and its ROM.
Zeroed(b) == b.megamem_addr = 0 /\ b.supermem_base = 0 /\ b.sys_byte_2 = 0
Stuck == \h11 .. \h15 \cup {\h35}
\* The maps with the ROM at the bottom, as long as nothing is banked over it.
RomMaps == {\h10} \cup \h16 .. \h1E \cup {\h30, \h34, \h40, \h50}

LEMMA ClearedRuns ==
  ASSUME NEW b, DOMAIN b = Fields, NEW poweron \in BOOLEAN
  PROVE  LET t == IF poweron THEN mem_video_page(mem_map(Cleared(b), 0), 0) ELSE Cleared(b) IN
         /\ Kin(b, t) /\ Zeroed(t) /\ t.sys_byte = 0 /\ t.clone = b.clone /\ t.modesel = b.modesel
         /\ t.memory_map = IF poweron THEN 0 + 16 * b.model ELSE b.memory_map
<1> DEFINE c == Cleared(b)
           m == mem_map(c, 0)
           v == mem_video_page(m, 0)
<1>1. /\ Kin(b, c) /\ Zeroed(c) /\ c.sys_byte = 0 /\ c.clone = b.clone /\ c.modesel = b.modesel
      /\ c.memory_map = b.memory_map
  <2>1. DOMAIN c = DOMAIN b
    <3> DEFINE half == [b EXCEPT !.bank_base = 65536, !.bank_offset = Offsets(0, 0),
                                 !.megamem_addr = 0, !.megamem_base = 0, !.mem_command = 0]
    <3>1. DOMAIN half = DOMAIN b
      OBVIOUS
    <3>2. c = [half EXCEPT !.supermem_base = 0, !.supermem_high = \h8000,
                           !.sys_byte = 0, !.sys_byte_2 = 0]
      BY DEF Cleared
    <3> HIDE DEF half, c
    <3> QED BY <3>1, <3>2
  <2>2. /\ c.model = b.model /\ c.speedup = b.speedup /\ c.romSize = b.romSize
        /\ c.memSize = b.memSize
    BY DEF Cleared, Fields
  <2>3. c.clone = b.clone /\ c.modesel = b.modesel /\ c.memory_map = b.memory_map
    BY DEF Cleared, Fields
  <2>4. Zeroed(c)
    BY DEF Cleared, Fields, Zeroed
  <2>5. c.sys_byte = 0
    BY DEF Cleared, Fields
  <2> HIDE DEF c
  <2> QED BY <2>1, <2>2, <2>3, <2>4, <2>5 DEF Kin
<1> HIDE DEF c
<1>2. /\ Kin(b, m) /\ Zeroed(m) /\ m.sys_byte = 0 /\ m.clone = b.clone /\ m.modesel = b.modesel
      /\ m.memory_map = 0 + 16 * b.model
  BY <1>1 DEF Kin, Fields, Zeroed, mem_map
<1> HIDE DEF m
<1>3. /\ Kin(b, v) /\ Zeroed(v) /\ v.sys_byte = 0 /\ v.clone = b.clone /\ v.modesel = b.modesel
      /\ v.memory_map = m.memory_map
  BY <1>2 DEF Kin, Fields, Zeroed, mem_video_page
<1> HIDE DEF v
<1>4. CASE poweron
  BY <1>2, <1>3, <1>4 DEF v, m, c
<1>5. CASE ~poweron
  BY <1>1, <1>5 DEF c
<1> QED BY <1>4, <1>5

\* A Model I made CT-80, LNW80 or SpeedMaster by its speed-up kit.
LEMMA SpeedupRuns ==
  ASSUME NEW b, BoardOK(b)
  PROVE  LET t == SpeedupClone(b) IN
         /\ BoardOK(t) /\ Kin(b, t)
         /\ Zeroed(b) => Zeroed(t)
         /\ t.sys_byte = b.sys_byte
         /\ b.memory_map \in RomMaps => t.memory_map \in RomMaps
<1> DEFINE t == SpeedupClone(b)
<1>0. DOMAIN b = Fields
  BY DEF BoardOK, BuiltFrom
<1>1. ASSUME NEW clone \in {"CT80", "LNW80", "SPEEDMASTER"}, b.model = 1,
             clone = "CT80" => b.speedup = 5, clone = "LNW80" => b.speedup = 6
      PROVE  LET u == trs_clones_model(b, clone) IN
             /\ BoardOK(u) /\ Kin(b, u)
             /\ Zeroed(b) => Zeroed(u)
             /\ u.sys_byte = b.sys_byte
             /\ b.memory_map \in RomMaps => u.memory_map \in RomMaps
  <2> DEFINE u == trs_clones_model(b, clone)
  <2>1. BoardOK(u) /\ Kin(b, u)
    BY <1>1, CloneOK DEF Model1Clones
  <2>2. /\ clone # b.clone => u.memory_map = CloneMap[clone] + 16 * b.model
        /\ clone = b.clone => u = b
        /\ u.sys_byte = b.sys_byte /\ u.sys_byte_2 = b.sys_byte_2
        /\ u.megamem_addr = b.megamem_addr /\ u.supermem_base = b.supermem_base
    BY <1>0, CloneRuns
  <2> HIDE DEF u
  <2>3. CloneMap[clone] \in {\hC, \hD, \hE}
    BY <1>1 DEF CloneMap
  <2>4. b.memory_map \in RomMaps => u.memory_map \in RomMaps
    BY <1>1, <2>2, <2>3 DEF RomMaps
  <2> QED BY <2>1, <2>2, <2>4 DEF u, Zeroed
<1>2. \/ t = b
      \/ b.model = 1 /\ b.speedup = 5 /\ t = trs_clones_model(b, "CT80")
      \/ b.model = 1 /\ b.speedup = 6 /\ t = trs_clones_model(b, "LNW80")
      \/ b.model = 1 /\ t = trs_clones_model(b, "SPEEDMASTER")
  BY DEF SpeedupClone
<1>3. Kin(b, b)
  BY <1>0 DEF Kin
<1> HIDE DEF t
<1> QED BY <1>1, <1>2, <1>3 DEF t

\* Both resets leave a machine whose registers fit together, with its bank
\* registers cleared; power-on, and on the other maps the button too, leave a
\* map with the ROM at the bottom.
LEMMA ResetRuns ==
  ASSUME NEW b, BuiltFrom(b), b.modesel \in 0 .. 255, NEW poweron \in BOOLEAN,
         poweron \/ MapTrue(b)
  PROVE  LET t == trs_reset(b, poweron) IN
         /\ BoardOK(t) /\ Kin(b, t) /\ Zeroed(t)
         /\ t.sys_byte = IF b.model = 5 THEN 1 ELSE 0
         /\ poweron \/ b.memory_map \notin Stuck => t.memory_map \in RomMaps
<1> DEFINE i == IF poweron THEN mem_video_page(mem_map(Cleared(b), 0), 0) ELSE Cleared(b)
           j == m6845_crtc_reset(i)
           p == IF IsFullReset(b, poweron) THEN trs_clones_model(j, "none") ELSE i
           o == IF b.model = 5 THEN sys_byte_write(p, 1) ELSE p
           m == IF b.model >= 4 THEN ModeSelectOut(o, 0) ELSE o
           h == IF b.model >= 4 /\ b.card = "huffman" THEN [m EXCEPT !.bank_base = 0] ELSE m
           l == IF b.model = 3 THEN trs_clones_model(h, "none") ELSE h
           t == SpeedupClone(l)
<1>0. DOMAIN b = Fields /\ b.model \in {1, 3, 4, 5}
  BY BuiltFacts
<1>1. /\ Kin(b, i) /\ Zeroed(i) /\ i.sys_byte = 0 /\ i.clone = b.clone /\ i.modesel = b.modesel
      /\ i.memory_map = IF poweron THEN 0 + 16 * b.model ELSE b.memory_map
  BY <1>0, ClearedRuns
<1> DEFINE full == poweron \/ b.model >= 3 \/ b.clone \in {"CT80", "GENIE3S"}
<1>2. /\ Kin(b, p) /\ Zeroed(p) /\ p.sys_byte = 0 /\ p.modesel = b.modesel
      /\ full => /\ p.clone = "none"
                 /\ p.memory_map = IF poweron \/ b.clone # "none" THEN 0 + 16 * b.model
                                   ELSE b.memory_map
      /\ ~full => p.clone = b.clone /\ p.memory_map = b.memory_map
  <2> DEFINE n == trs_clones_model(j, "none")
  <2>0. /\ Kin(i, j) /\ j.modesel = i.modesel /\ j.clone = i.clone
        /\ j.memory_map = i.memory_map /\ j.sys_byte = i.sys_byte /\ Zeroed(j)
    BY <1>1 DEF Kin, Fields, Zeroed, m6845_crtc_reset
  <2> HIDE DEF i, j
  <2>1. DOMAIN j = Fields
    BY <2>0 DEF Kin
  <2>2. /\ Kin(j, n) /\ n.modesel = j.modesel /\ n.clone = "none"
        /\ "none" # j.clone => n.memory_map = CloneMap["none"] + 16 * j.model
        /\ "none" = j.clone => n = j
        /\ n.sys_byte = j.sys_byte /\ n.sys_byte_2 = j.sys_byte_2
        /\ n.megamem_addr = j.megamem_addr /\ n.supermem_base = j.supermem_base
    BY <2>1, CloneRuns
  <2>3. CloneMap["none"] = 0
    BY DEF CloneMap
  <2>4. p = IF full THEN n ELSE i
    BY DEF IsFullReset
  <2>5. i.model = b.model
    BY <1>1 DEF Kin
  <2> HIDE DEF n, p
  <2>6. CASE full
    BY <1>1, <2>0, <2>2, <2>3, <2>4, <2>5, <2>6 DEF Kin, Zeroed
  <2>7. CASE ~full
    BY <1>1, <2>4, <2>7
  <2> QED BY <2>6, <2>7
<1> HIDE DEF i, p
<1>3. /\ Kin(p, o) /\ Zeroed(o) /\ o.sys_byte = IF b.model = 5 THEN 1 ELSE 0
      /\ o.modesel = b.modesel /\ o.clone = p.clone /\ o.memory_map = p.memory_map
  <2>1. DOMAIN p = Fields
    BY <1>2 DEF Kin
  <2>2. CASE b.model = 5
    BY <1>2, <2>1, <2>2 DEF Kin, Fields, Zeroed, sys_byte_write
  <2>3. CASE b.model # 5
    BY <1>2, <2>1, <2>3 DEF Kin
  <2> QED BY <2>2, <2>3
<1> HIDE DEF o
<1>4. /\ Kin(o, m) /\ Zeroed(m) /\ m.sys_byte = o.sys_byte /\ m.clone = o.clone
      /\ b.model < 4 => m = o
      /\ b.model >= 4 => /\ m.modesel = 0
                         /\ m.memory_map = IF 0 % 4 # o.modesel % 4 THEN (0 % 4) + 16 * o.model
                                           ELSE o.memory_map
  <2>1. DOMAIN o = Fields
    BY <1>3 DEF Kin
  <2>2. CASE b.model >= 4
    <3>1. m = ModeSelectOut(o, 0)
      BY <2>2
    <3>2. ~(b.model < 4)
      BY <1>0, <2>2
    <3> QED BY <1>3, <2>1, <2>2, <3>1, <3>2, ModeSelectRuns DEF Zeroed
  <2>3. CASE ~(b.model >= 4)
    BY <1>3, <2>1, <2>3 DEF Kin
  <2> QED BY <2>2, <2>3
<1> HIDE DEF m
<1>5. Quiet(m, h) /\ Zeroed(h) /\ h.sys_byte = m.sys_byte
  <2>1. DOMAIN m = Fields
    BY <1>4 DEF Kin
  <2>2. LET n == [m EXCEPT !.bank_base = 0] IN Quiet(m, n) /\ Zeroed(n) /\ n.sys_byte = m.sys_byte
    BY <1>4, <2>1 DEF Quiet, Kin, Fields, Zeroed
  <2>3. Quiet(m, m)
    BY <2>1 DEF Quiet, Kin
  <2> QED BY <1>4, <2>2, <2>3
<1> HIDE DEF h
<1>6. Kin(b, h)
  BY <1>2, <1>3, <1>4, <1>5 DEF Quiet, Kin
<1>7. BuiltFrom(h)
  BY <1>6, KinBuilt
<1>8. l = h
  <2>1. b.model = 3 => full /\ b.model < 4
    BY <1>0
  <2>2. b.model = 3 => h.clone = "none"
    BY <1>2, <1>3, <1>4, <1>5, <2>1 DEF Quiet
  <2> QED BY <2>2 DEF trs_clones_model
<1>9. BoardOK(h) /\ (poweron \/ b.memory_map \notin Stuck => h.memory_map \in RomMaps)
  <2>1. CASE b.model = 1
    <3>1. h.memory_map = p.memory_map /\ h.clone = p.clone /\ h.modesel = b.modesel
      BY <1>3, <1>4, <1>5, <2>1 DEF Quiet
    <3>2. CASE full
      <4>1. p.memory_map = \h10 \/ (~poweron /\ p.memory_map = b.memory_map)
        BY <1>2, <2>1, <3>2
      <4>2. /\ p.memory_map = \h1C => h.speedup = 5
            /\ p.memory_map = \h1D => h.speedup = 6
            /\ p.memory_map \in {\h1A, \h1B} => h.romSize <= \h2000
        BY <1>6, <2>1, <4>1 DEF MapTrue, ClonesFit, Kin
      <4>3. p.memory_map \in \h10 .. \h1E
        BY <2>1, <4>1 DEF MapTrue
      <4>4. h.model = 1 /\ h.clone = "none"
        BY <1>2, <1>6, <2>1, <3>1, <3>2 DEF Kin
      <4>5. MapTrue(h)
        BY <3>1, <4>2, <4>3, <4>4 DEF MapTrue, ClonesFit, Model1Clones
      <4> QED BY <1>7, <3>1, <4>1, <4>3, <4>5 DEF BoardOK, Stuck, RomMaps
    <3>3. CASE ~full
      <4>1. MapTrue(b) /\ ~poweron
        BY <3>3
      <4>2. h.memory_map = b.memory_map /\ h.clone = b.clone
        BY <1>2, <3>1, <3>3
      <4>3. MapTrue(h)
        BY <1>6, <2>1, <4>1, <4>2 DEF MapTrue, ClonesFit, Kin
      <4>4. b.memory_map \notin Stuck => b.memory_map \in RomMaps
        BY <2>1, <4>1 DEF MapTrue, Stuck, RomMaps
      <4> QED BY <1>7, <3>1, <4>1, <4>2, <4>3, <4>4 DEF BoardOK
    <3> QED BY <3>2, <3>3
  <2>2. CASE b.model = 3
    <3>1. h.memory_map = p.memory_map /\ h.clone = "none" /\ h.modesel = b.modesel
      BY <1>2, <1>3, <1>4, <1>5, <2>2 DEF Quiet
    <3>2. p.memory_map = \h30 \/ (~poweron /\ b.clone = "none" /\ p.memory_map = b.memory_map)
      BY <1>2, <2>2
    <3>3. p.memory_map \in {\h30, \h34, \h35}
      BY <2>2, <3>2 DEF MapTrue
    <3>4. h.model = 3
      BY <1>6, <2>2 DEF Kin
    <3>5. MapTrue(h)
      BY <3>1, <3>3, <3>4 DEF MapTrue
    <3> QED BY <1>7, <3>1, <3>2, <3>3, <3>5 DEF BoardOK, Stuck, RomMaps
  <2>3. CASE b.model \in {4, 5}
    <3>1. b.model >= 4 /\ full
      BY <2>3
    <3>2. /\ o.model = b.model /\ h.clone = "none" /\ h.modesel = 0
          /\ h.memory_map = IF 0 % 4 # b.modesel % 4 THEN (0 % 4) + 16 * b.model ELSE p.memory_map
      BY <1>2, <1>3, <1>4, <1>5, <3>1 DEF Quiet, Kin
    <3>3. 0 % 4 = 0
      BY Z3
    <3>4. \/ p.memory_map = 0 + 16 * b.model
          \/ p.memory_map = (b.modesel % 4) + 16 * b.model
      <4>1. p.memory_map = 0 + 16 * b.model \/ (~poweron /\ p.memory_map = b.memory_map)
        BY <1>2, <3>1
      <4> QED BY <2>3, <4>1, Mode4Map
    <3> DEFINE k == b.modesel % 4
    <3>5. h.memory_map = 0 + 16 * b.model
      <4> k = b.modesel % 4
        OBVIOUS
      <4> HIDE DEF k
      <4> QED BY <3>2, <3>3, <3>4
    <3>6. h.model = b.model
      BY <1>6 DEF Kin
    <3>7. MapTrue(h)
      BY <2>3, <3>2, <3>3, <3>5, <3>6, Mode4Map
    <3>8. h.memory_map \in RomMaps
      BY <2>3, <3>5 DEF RomMaps
    <3> QED BY <1>7, <3>2, <3>7, <3>8 DEF BoardOK
  <2> QED BY <1>0, <2>1, <2>2, <2>3
<1>10. trs_reset(b, poweron) = t
  BY DEF trs_reset, i, j, p, o, m, h
<1> HIDE DEF l, t
<1>11. /\ BoardOK(t) /\ Kin(h, t) /\ Zeroed(t) /\ t.sys_byte = h.sys_byte
       /\ h.memory_map \in RomMaps => t.memory_map \in RomMaps
  BY <1>5, <1>8, <1>9, SpeedupRuns DEF t
<1> QED BY <1>3, <1>4, <1>5, <1>6, <1>9, <1>10, <1>11 DEF Kin

LEMMA BitsOfZero ==
  /\ ~Bit(0, 0) /\ ~Bit(0, 1) /\ ~Bit(0, 2) /\ ~Bit(0, 3)
  /\ ~Bit(0, 4) /\ ~Bit(0, 5) /\ ~Bit(0, 6) /\ ~Bit(0, 7)
BY DEF Bit

\* With its bank registers cleared, a machine reads its ROM at address 0.
LEMMA RomAtZero ==
  ASSUME NEW b, BoardOK(b), Zeroed(b), b.sys_byte = IF b.model = 5 THEN 1 ELSE 0,
         b.memory_map \in RomMaps
  PROVE  mem_read(b, 0).chip = "rom"
<1>0. /\ b.model \in {1, 3, 4, 5} /\ b.romSize \in Nat /\ 0 < b.romSize
      /\ b.memSize \in Nat /\ 0 < b.memSize
  BY BuiltFacts DEF BoardOK
<1>1. ~Intercepted(b, 0)
  BY DEF Intercepted, InMegaMem, InSuperMem, Zeroed
<1>2. Model1Mmio(b, 0).chip = "rom"
  BY <1>0, Chips DEF Model1Mmio, VIDEO_START
<1>3. ~Bit(0, 0) /\ ~Bit(0, 1) /\ ~Bit(0, 2) /\ ~Bit(0, 3)
      /\ ~Bit(0, 4) /\ ~Bit(0, 5) /\ ~Bit(0, 6) /\ ~Bit(0, 7)
  BY BitsOfZero
<1>4. CASE b.model = 1
  <2>1. b.sys_byte = 0 /\ b.sys_byte_2 = 0
    BY <1>4 DEF Zeroed
  <2>2. b.memory_map \in {\h10, \h16, \h17, \h18, \h19, \h1A, \h1B, \h1C, \h1D, \h1E}
    BY <1>4 DEF BoardOK, MapTrue, RomMaps
  <2>3. CASE b.memory_map = \h10
    <3>1. mem_read(b, 0) = ReadModel1(b, 0)
      BY <1>1, <2>3 DEF mem_read
    <3>2. Model1Io(b, 0) /\ 0 % \h4000 = 0
      BY <2>3 DEF Model1Io, RAM_START
    <3> QED BY <1>2, <3>1, <3>2 DEF ReadModel1
  <2>4. CASE b.memory_map = \h16
    <3>1. mem_read(b, 0) = ReadXmem(b, 0)
      BY <1>1, <2>4 DEF mem_read
    <3> QED BY <1>2, <3>1 DEF ReadXmem, RAM_START
  <2>5. CASE b.memory_map = \h17
    <3>1. mem_read(b, 0) = Read80Z(b, 0)
      BY <1>1, <2>5 DEF mem_read
    <3> QED BY <1>2, <1>3, <2>1, <3>1 DEF Read80Z, On80Z, Ram80Z, RAM_START
  <2>6. CASE b.memory_map = \h18
    <3>1. mem_read(b, 0) = ReadEg64(b, 0)
      BY <1>1, <2>6 DEF mem_read
    <3> QED BY <1>2, <1>3, <2>1, <3>1 DEF ReadEg64, Uncovered64, RAM_START
  <2>7. CASE b.memory_map = \h19
    <3>1. mem_read(b, 0) = ReadLubomir(b, 0)
      BY <1>1, <2>7 DEF mem_read
    <3> QED BY <1>2, <1>3, <2>1, <3>1 DEF ReadLubomir, UncoveredSoft, RAM_START
  <2>8. CASE b.memory_map = \h1A
    <3>1. mem_read(b, 0) = ReadEg3200(b, 0)
      BY <1>1, <2>8 DEF mem_read
    <3> QED BY <1>0, <1>3, <2>1, <3>1, Chips DEF ReadEg3200, Rom3200
  <2>9. CASE b.memory_map = \h1B
    <3>1. mem_read(b, 0) = ReadGenie(b, 0)
      BY <1>1, <2>9 DEF mem_read
    <3> QED BY <1>3, <2>1, <3>1, Chips DEF ReadGenie, Screen2K, ScreenGenie, LatchOrKeys, RomGenie,
            VIDEO_START, RAM_START, KEYBOARD_START
  <2>10. CASE b.memory_map = \h1C
    <3>1. mem_read(b, 0) = ReadCt80(b, 0)
      BY <1>1, <2>10 DEF mem_read
    <3> QED BY <1>3, <2>1, <3>1, Chips DEF ReadCt80, RomCt80, RomByteCt80
  <2>11. CASE b.memory_map = \h1D
    <3>1. mem_read(b, 0) = ReadLnw80(b, 0)
      BY <1>1, <2>11 DEF mem_read
    <3> QED BY <1>3, <2>1, <3>1, Chips DEF ReadLnw80, HrgLnw, LowLnw, RomLnw, VIDEO_START, RAM_START
  <2>12. CASE b.memory_map = \h1E
    <3>1. mem_read(b, 0) = ReadSpeed(b, 0)
      BY <1>1, <2>12 DEF mem_read
    <3> QED BY <1>3, <2>1, <3>1, Chips DEF ReadSpeed, CardSpeed, BasicSpeed, HrgSpeed, IoSpeed,
            RomSpeed, RAM_START
  <2> QED BY <2>2, <2>3, <2>4, <2>5, <2>6, <2>7, <2>8, <2>9, <2>10, <2>11, <2>12
<1>5. CASE b.model = 3
  <2>1. b.sys_byte = 0
    BY <1>5
  <2>2. b.memory_map \in {\h30, \h34}
    BY <1>5 DEF BoardOK, MapTrue, RomMaps
  <2>3. CASE b.memory_map = \h30
    <3>1. mem_read(b, 0) = ReadModel3(b, 0)
      BY <1>1, <2>3 DEF mem_read
    <3> QED BY <1>0, <3>1, Chips DEF ReadModel3, VIDEO_START, RAM_START, KEYBOARD_START
  <2>4. CASE b.memory_map = \h34
    <3>1. mem_read(b, 0) = ReadVx3(b, 0)
      BY <1>1, <2>4 DEF mem_read
    <3> QED BY <1>3, <2>1, <3>1, Chips DEF ReadVx3, ExtendedVx3, HighVx3, AppendedVx3, LowVx3,
            KeysVx3, OwnRomVx3, VIDEO_START, RAM_START, KEYBOARD_START
  <2> QED BY <2>2, <2>3, <2>4
<1>6. CASE b.model \in {4, 5}
  <2>1. mem_read(b, 0) = ReadModel4(b, 0) /\ b.memory_map \in {\h40, \h50}
    <3>1. b.memory_map = (b.modesel % 4) + 16 * b.model
      BY <1>6, Mode4Map DEF BoardOK
    <3> DEFINE k == b.modesel % 4
    <3>2. k \in 0 .. 3
      <4>1. b.modesel \in Nat
        BY DEF BoardOK
      <4> QED BY <4>1, Z3
    <3> HIDE DEF k
    <3>3. b.memory_map = k + 16 * b.model
      BY <3>1 DEF k
    <3>4. b.memory_map \in {\h40, \h50}
      BY <1>6, <3>2, <3>3 DEF RomMaps
    <3> QED BY <1>1, <3>4 DEF mem_read
  <2>2. CASE b.memory_map = \h40
    BY <1>0, <2>1, <2>2, Chips DEF ReadModel4, VIDEO_START, RAM_START, KEYBOARD_START
  <2>3. CASE b.memory_map = \h50
    <3>1. b.model = 5
      <4> DEFINE k == b.modesel % 4
      <4>1. b.memory_map = k + 16 * b.model
        BY <1>6, Mode4Map DEF BoardOK
      <4>2. k \in 0 .. 3
        <5>1. b.modesel \in Nat
          BY DEF BoardOK
        <5> QED BY <5>1, Z3
      <4> HIDE DEF k
      <4> QED BY <1>6, <2>3, <4>1, <4>2
    <3>2. BootRom(b, 0)
      BY <1>0, <2>3, <3>1 DEF BootRom
    <3> QED BY <2>1, <2>3, <3>2, Chips DEF ReadModel4
  <2> QED BY <2>1, <2>2, <2>3
<1> QED BY <1>0, <1>4, <1>5, <1>6

-----------------------------------------------------------------------------
(* The invariant of the board and of its snapshot.                         *)

Inv == BoardOK(board) /\ (saved # None => BoardOK(saved.board))

LEMMA LoadOK ==
  ASSUME NEW b, BoardOK(b), NEW file, BoardOK(file)
  PROVE  BoardOK(trs_state_load(b, file))
<1> DEFINE c == LoadedClone(b, file)
           p == LoadedPorts(c, file)
           t == LoadedMemory(p, file)
<1>0. DOMAIN b = Fields /\ DOMAIN file = Fields
  BY DEF BoardOK, BuiltFrom
<1>1. DOMAIN c = Fields /\ c.clone = file.clone
  BY <1>0, CloneRuns DEF LoadedClone, Kin
<1> HIDE DEF c
<1>2. p.clone = file.clone /\ p.modesel = file.modesel
  BY <1>1 DEF Fields, LoadedPorts
<1> HIDE DEF p
<1>3. Quiet(file, t)
  BY <1>0, <1>2 DEF Quiet, Kin, Fields, LoadedMemory
<1>4. trs_state_load(b, file) = t
  BY DEF trs_state_load, p, c
<1> HIDE DEF t
<1> QED BY <1>3, <1>4, QuietOK

LEMMA StartedRuns ==
  ASSUME NEW m \in Builds
  PROVE  BuiltFrom(Started(m)) /\ Started(m).modesel = 0
<1>1. DOMAIN Started(m) = Fields
  BY DEF Started, Fields
<1>2. /\ Started(m).model = m.model /\ Started(m).speedup = m.speedup
      /\ Started(m).romSize = m.romSize /\ Started(m).memSize = m.memSize
      /\ Started(m).modesel = 0
  BY DEF Started
<1> QED BY <1>1, <1>2 DEF BuiltFrom

LEMMA InitInv == Init => Inv
<1> SUFFICES ASSUME Init PROVE Inv
  OBVIOUS
<1>1. PICK m \in Builds : board = trs_reset(Started(m), TRUE)
  BY DEF Init
<1>2. Started(m).modesel \in 0 .. 255 /\ BuiltFrom(Started(m))
  BY StartedRuns
<1>3. ASSUME NEW poweron \in BOOLEAN, poweron PROVE BoardOK(trs_reset(Started(m), poweron))
  BY <1>2, <1>3, ResetRuns
<1>4. BoardOK(trs_reset(Started(m), TRUE))
  BY <1>3, Zenon
<1> QED BY <1>1, <1>4 DEF Init, Inv

LEMMA NextInv == Inv /\ [Next]_vars => Inv'
<1> SUFFICES ASSUME Inv, [Next]_vars PROVE Inv'
  OBVIOUS
<1>0. BoardOK(board)
  BY DEF Inv
<1>1. ASSUME NEW port, NEW value, Out(port, value) PROVE Inv'
  <2>1. value \in 0 .. 255 /\ board' = z80_out(board, port, value) /\ saved' = saved
    BY <1>1 DEF Out, StartsOver
  <2>2. BoardOK(board')
    BY <1>0, <2>1, OutOK
  <2> QED BY <2>1, <2>2 DEF Inv
<1>2. ASSUME NEW mode, SwitchMode(mode) PROVE Inv'
  <2>1. board.model = 3 /\ board' = cp500_switch_mode(board, mode) /\ saved' = saved
    BY <1>2 DEF SwitchMode, StartsOver
  <2>2. BoardOK(board')
    BY <1>0, <2>1, SwitchModeOK
  <2> QED BY <2>1, <2>2 DEF Inv
<1>3. ASSUME NEW poweron \in BOOLEAN, Reset(poweron) PROVE Inv'
  <2>1. board' = trs_reset(board, poweron) /\ saved' = saved
    BY <1>3 DEF Reset, StartsOver
  <2>2. BoardOK(board')
    BY <1>0, <2>1, ResetRuns DEF BoardOK
  <2> QED BY <2>1, <2>2 DEF Inv
<1>4. CASE Save
  <2>1. board' = board /\ saved'.board = board
    BY <1>4 DEF Save
  <2> QED BY <1>0, <2>1 DEF Inv
<1>5. CASE Load
  <2>1. saved # None /\ board' = trs_state_load(board, saved.board) /\ saved' = saved
    BY <1>5 DEF Load
  <2>2. BoardOK(saved.board)
    BY <2>1 DEF Inv
  <2>3. BoardOK(board')
    BY <1>0, <2>1, <2>2, LoadOK
  <2> QED BY <2>1, <2>3 DEF Inv
<1>6. CASE UNCHANGED vars
  BY <1>6 DEF Inv, vars
<1> QED BY <1>1, <1>2, <1>3, <1>4, <1>5, <1>6 DEF Next

\* Every port write, mode switch, reset and snapshot keeps the registers of the board
\* fitted together: a Model 4's memory map is the one its mode register of port 84 names,
\* a Model I or III has one of its own maps and clones, the CP-500's maps only as a
\* CP-500, the CT-80's and the LNW80's only with their kits, the Genies' only with a
\* ROM of at most 8K.
THEOREM Invariance == Spec => []Inv
<1>1. Init => Inv
  BY InitInv
<1>2. Inv /\ [Next]_vars => Inv'
  BY NextInv
<1> QED BY <1>1, <1>2, PTL DEF Spec

-----------------------------------------------------------------------------
(* Inside the arrays, map by map.                                          *)

Within(i, low, high) == i \in Int /\ low <= i /\ i <= high

\* A screen page the video memory has.
PageShown(b) == b.video_addr + VIDEO_START \in {0, 1024, 2048}

\* Where the CRTC's 14-bit start address can put the Genie IIIs's screen: from 2048
\* bytes into the video memory down to far before it.
GenieShown(b) == Within(b.video_addr + VIDEO_START, -15359, 2048)

\* What the bank ports can have set, taken together.
Ranged(b) ==
  /\ Within(b.megamem_base, 0, 4243456) /\ Within(b.supermem_base, 0, 1015808)
  /\ Within(b.sta, 0, 16383)
  /\ b.bank_offset \in [0 .. 2 -> Int] /\ b.bank_base \in Nat /\ b.video_addr \in Int
  /\ Within(b.bank_offset[0], 0, 2064384) /\ Within(b.bank_offset[1], -32768, 2031616)
  /\ b.model = 1 =>
       /\ \A i \in 0 .. 2 : Within(b.bank_offset[i], 0, 786432)
       /\ b.clone # "CT80" => b.bank_base <= 2427136
       /\ b.clone = "GENIE3S" => GenieShown(b)
       /\ b.clone = "LNW80" => PageShown(b)
  /\ b.model # 1 => b.bank_base <= 2031616 /\ PageShown(b)

\* On a Model I the clones' maps are theirs alone, and who has LNW's kit is an LNW80.
OwnMap(b) ==
  b.model = 1 =>
    /\ b.memory_map \in \h1A .. \h1E => b.memory_map = CloneMap[b.clone] + 16
    /\ b.speedup = 6 => b.clone = "LNW80"

LEMMA Insides ==
  /\ Inside(NoByte)
  /\ \A i \in Int : 0 <= i /\ i < 4259840 => Inside(Ram(i))
  /\ \A i \in Int : 0 <= i /\ i < 18432 => Inside(Rom(i))
  /\ \A i \in Int : 0 <= i /\ i < 3072 => Inside(Video(i)) /\ Inside(CheckedVideo(i))
  /\ \A i \in Int : i < 0 => ~Inside(Video(i))
  /\ \A i \in Int : -15359 <= i /\ i < 3072 => Inside(CheckedVideo(i))
<1>1. Inside(NoByte)
  BY DEF Inside, Size, Byte, NoByte
<1>2. \A i \in Int : 0 <= i /\ i < 4259840 => Inside(Ram(i))
  BY DEF Inside, Size, Byte, Ram, MAX_MEMORY_SIZE
<1>3. \A i \in Int : 0 <= i /\ i < 18432 => Inside(Rom(i))
  BY DEF Inside, Size, Byte, Rom, MAX_ROM_SIZE
<1>4. \A i \in Int : 0 <= i /\ i < 3072 => Inside(Video(i))
  BY DEF Inside, Size, Byte, Video, MAX_VIDEO_SIZE
<1>5. \A i : CheckedVideo(i) = Video(i) \/ CheckedVideo(i) = NoByte
  BY DEF CheckedVideo
<1>6. \A i \in Int : i < 0 => ~Inside(Video(i))
  BY DEF Inside, Size, Byte, Video, MAX_VIDEO_SIZE
<1>7. ASSUME NEW i \in Int, -15359 <= i, i < 0
      PROVE  CheckedVideo(i) = NoByte
  <2>1. i % 65536 = i + 65536
    BY <1>7, Z3
  <2>2. ~(i % 65536 < 3072)
    BY <1>7, <2>1
  <2> QED BY <2>2 DEF CheckedVideo, MAX_VIDEO_SIZE
<1>8. \A i \in Int : 0 <= i \/ i < 0
  OBVIOUS
<1> QED BY <1>1, <1>2, <1>3, <1>4, <1>5, <1>6, <1>7, <1>8

LEMMA Halves ==
  ASSUME NEW a, Address(a)
  PROVE  /\ a < 32768 => a \div 32768 = 0
         /\ a >= 32768 => a \div 32768 = 1
BY DEF Address

LEMMA Windows ==
  ASSUME NEW a \in Int
  PROVE  /\ a % 2048 \in Int /\ 0 <= a % 2048 /\ a % 2048 < 2048
         /\ a % 4096 \in Int /\ 0 <= a % 4096 /\ a % 4096 < 4096
         /\ a % 16384 \in Int /\ 0 <= a % 16384 /\ a % 16384 < 16384
         /\ a % 32768 \in Int /\ 0 <= a % 32768 /\ a % 32768 < 32768
BY Z3

LEMMA BankedInside ==
  ASSUME NEW b, Ranged(b), NEW a, Address(a)
  PROVE  Inside(Banked(b, a))
<1>1. CASE a < 32768
  BY <1>1, Halves, Insides DEF Banked, Ranged, Within, Address
<1>2. CASE a >= 32768
  BY <1>2, Halves, Insides DEF Banked, Ranged, Within, Address
<1> QED BY <1>1, <1>2 DEF Address

LEMMA PagedInside ==
  ASSUME NEW b, Ranged(b), PageShown(b), NEW a, Address(a), a >= VIDEO_START, a < RAM_START
  PROVE  Inside(PagedVideo(b, a)) /\ Inside(Video(a + b.video_addr))
BY Insides DEF PagedVideo, PageShown, VIDEO_START, RAM_START, Address, Ranged

LEMMA InterceptedInside ==
  ASSUME NEW b, Ranged(b), NEW a, Address(a)
  PROVE  Inside(InterceptedByte(b, a))
BY Windows, Insides DEF InterceptedByte, Ranged, Within, Address

\* The Model I's byte of RAM, behind a selector or not.
LEMMA Model1RamInside ==
  ASSUME NEW b, Ranged(b), b.model = 1, NEW a, Address(a)
  PROVE  /\ Inside(Ram(a)) /\ Inside(SelectorByte(b, a))
         /\ Inside(Model1Ram(b, a)) /\ Inside(Model1WriteMem(b, a))
<1>1. Inside(Ram(a))
  BY Insides DEF Address
<1>2. Inside(SelectorByte(b, a))
  <2> DEFINE o == b.bank_offset[a \div 32768]
             x == IF b.mem_command % 8 = 6 /\ a >= \hC000 THEN a % \h4000 ELSE a
  <2>1. o \in Int /\ 0 <= o /\ o <= 786432
    BY Halves DEF Ranged, Within, Address
  <2>2. x \in Int /\ 0 <= x /\ x < 65536
    BY Windows DEF Address
  <2>3. SelectorByte(b, a) = Ram(x + o)
    BY DEF SelectorByte
  <2> HIDE DEF o, x
  <2> QED BY <2>1, <2>2, <2>3, Insides
<1> QED BY <1>1, <1>2, Insides DEF Model1Ram, Model1WriteMem

\* ROM, keyboard and screen in the lowest 16K.
LEMMA Model1MmioInside ==
  ASSUME NEW b, Ranged(b), b.model = 1, b.romSize \in Nat, b.romSize <= 18432,
         NEW x \in Nat, x < 16384, NEW writing \in BOOLEAN
  PROVE  /\ Inside(Model1Mmio(b, x)) /\ Inside(Model1WriteMmio(b, x))
         /\ Inside(Model1MmioAddr(b, x, writing))
<1>1. Inside(Model1Ram(b, x)) /\ Inside(Model1WriteMem(b, x))
  BY Model1RamInside DEF Address
<1> QED BY <1>1, Insides DEF Model1Mmio, Model1WriteMmio, Model1MmioAddr, VIDEO_START

LEMMA Model1Inside ==
  ASSUME NEW b, Ranged(b), b.model = 1, b.romSize \in Nat, b.romSize <= 18432,
         NEW a, Address(a), NEW writing \in BOOLEAN
  PROVE  /\ Inside(ReadModel1(b, a)) /\ Inside(WriteModel1(b, a))
         /\ Inside(PointModel1(b, a, writing))
<1> DEFINE x == a % \h4000
<1>1. x \in Nat /\ x < 16384
  BY Windows DEF Address
<1>2. /\ Inside(Model1Mmio(b, x)) /\ Inside(Model1WriteMmio(b, x))
      /\ Inside(Model1MmioAddr(b, x, writing))
  BY <1>1, Model1MmioInside
<1>3. Inside(Model1Ram(b, a)) /\ Inside(Model1WriteMem(b, a))
  BY Model1RamInside
<1> QED BY <1>2, <1>3, Insides DEF ReadModel1, WriteModel1, PointModel1

LEMMA XmemInside ==
  ASSUME NEW b, Ranged(b), b.model = 1, b.romSize \in Nat, b.romSize <= 18432,
         NEW a, Address(a), NEW writing \in BOOLEAN
  PROVE  /\ Inside(ReadXmem(b, a)) /\ Inside(WriteXmem(b, a)) /\ Inside(PointXmem(b, a, writing))
<1>1. Inside(XmemByte(b, a))
  <2>1. CASE a < 32768
    BY <2>1, Insides DEF XmemByte, Address
  <2>2. CASE a >= 32768
    <3> DEFINE o == b.bank_offset[(a - 32768) \div \h4000]
    <3>1. (a - 32768) \div \h4000 \in {0, 1}
      BY <2>2 DEF Address
    <3>2. o \in Int /\ 0 <= o /\ o <= 786432
      BY <3>1 DEF Ranged, Within
    <3>3. XmemByte(b, a) = Ram(a + o)
      BY <2>2 DEF XmemByte, Address
    <3> HIDE DEF o
    <3> QED BY <3>2, <3>3, Insides DEF Address
  <2> QED BY <2>1, <2>2 DEF Address
<1>2. a < RAM_START => /\ Inside(Model1Mmio(b, a)) /\ Inside(Model1WriteMmio(b, a))
                       /\ Inside(Model1MmioAddr(b, a, writing))
  BY Model1MmioInside DEF Address, RAM_START
<1> QED BY <1>1, <1>2 DEF ReadXmem, WriteXmem, PointXmem

LEMMA Card80ZInside ==
  ASSUME NEW b, Ranged(b), b.model = 1, b.romSize \in Nat, b.romSize <= 18432,
         NEW a, Address(a), NEW writing \in BOOLEAN
  PROVE  /\ Inside(Read80Z(b, a)) /\ Inside(Write80Z(b, a)) /\ Inside(Point80Z(b, a, writing))
<1>1. Inside(Video(Screen80Z(b, a))) /\ Inside(CheckedVideo(Screen80Z(b, a)))
  <2>1. a - b.video_addr \in Int
    BY DEF Ranged, Address
  <2> HIDE DEF Ranged
  <2> DEFINE x == (a - b.video_addr) % 2048
  <2>2. x \in Int /\ 0 <= x /\ x < 2048
    BY <2>1, Windows
  <2>3. Screen80Z(b, a) = x
    BY DEF Screen80Z
  <2> HIDE DEF x
  <2> QED BY <2>2, <2>3, Insides
<1>2. ~Ram80Z(b, a) => /\ Inside(Model1Mmio(b, a)) /\ Inside(Model1WriteMmio(b, a))
                       /\ Inside(Model1MmioAddr(b, a, writing))
  BY Model1MmioInside DEF Address, RAM_START, Ram80Z
<1>3. Inside(Ram(a))
  BY Insides DEF Address
<1> QED BY <1>1, <1>2, <1>3 DEF Read80Z, Write80Z, Point80Z

LEMMA Eg64Inside ==
  ASSUME NEW b, Ranged(b), b.model = 1, b.romSize \in Nat, b.romSize <= 18432,
         NEW a, Address(a), NEW writing \in BOOLEAN
  PROVE  /\ Inside(ReadEg64(b, a)) /\ Inside(WriteEg64(b, a)) /\ Inside(PointEg64(b, a, writing))
<1>1. a < RAM_START => /\ Inside(Model1Mmio(b, a)) /\ Inside(Model1WriteMmio(b, a))
                       /\ Inside(Model1MmioAddr(b, a, writing))
  BY Model1MmioInside DEF Address, RAM_START
<1>2. Inside(Ram(a))
  BY Insides DEF Address
<1>3. \A r, u : ~Uncovered64(b, a, r, u) => a < RAM_START
  BY DEF Uncovered64, Address, RAM_START
<1> QED BY <1>1, <1>2, <1>3 DEF ReadEg64, WriteEg64, PointEg64

LEMMA LubomirInside ==
  ASSUME NEW b, Ranged(b), b.model = 1, b.romSize \in Nat, b.romSize <= 18432,
         NEW a, Address(a), NEW writing \in BOOLEAN
  PROVE  /\ Inside(ReadLubomir(b, a)) /\ Inside(WriteLubomir(b, a))
         /\ Inside(PointLubomir(b, a, writing))
<1>1. ~(a >= RAM_START) => /\ Inside(Model1Mmio(b, a)) /\ Inside(Model1WriteMmio(b, a))
                       /\ Inside(Model1MmioAddr(b, a, writing))
  BY Model1MmioInside DEF Address, RAM_START
<1>2. Inside(Ram(a)) /\ Inside(Banked(b, a))
  BY Insides, BankedInside DEF Address
<1> QED BY <1>1, <1>2 DEF ReadLubomir, WriteLubomir, PointLubomir

LEMMA Eg3200Inside ==
  ASSUME NEW b, Ranged(b), b.model = 1, b.romSize \in Nat, b.romSize <= 18432,
         NEW a, Address(a), NEW writing \in BOOLEAN
  PROVE  /\ Inside(ReadEg3200(b, a)) /\ Inside(WriteEg3200(b, a))
         /\ Inside(PointEg3200(b, a, writing))
<1>1. a < RAM_START => Inside(Model1Mmio(b, a)) /\ Inside(Model1WriteMmio(b, a))
  BY Model1MmioInside DEF Address, RAM_START
<1>2. Inside(Banked(b, a)) /\ Inside(NoByte)
  BY BankedInside, Insides
<1>3. Rom3200(b, a) => Inside(Rom(a))
  BY Insides DEF Rom3200, Address
<1>4. Screen3200(b, a) => Inside(Video(a - VIDEO_START)) /\ Inside(CheckedVideo(a - VIDEO_START))
  BY Insides DEF Screen3200, Address, VIDEO_START, RAM_START
<1>5. a \in \h37E0 .. \h37EF => a < RAM_START
  BY DEF RAM_START
<1> QED BY <1>1, <1>2, <1>3, <1>4, <1>5 DEF ReadEg3200, WriteEg3200, PointEg3200

\* Where the Genie IIIs's 1K screen lies before the video memory.
LeftOf(b, a) == ScreenGenie(b, a) /\ ~Screen2K(b, a) /\ a + b.video_addr < 0

LEMMA GenieInside ==
  ASSUME NEW b, Ranged(b), b.model = 1, b.clone = "GENIE3S", b.romSize \in Nat, b.romSize <= 18432,
         NEW a, Address(a), NEW writing \in BOOLEAN
  PROVE  /\ Inside(ReadGenie(b, a)) <=> ~LeftOf(b, a)
         /\ Inside(WriteGenie(b, a))
         /\ Inside(PointGenie(b, a, writing)) <=> ~LeftOf(b, a)
         /\ b.video_addr + VIDEO_START >= 0 => Inside(FontByte(b))
<1>1. a \in \h37E0 .. \h37EF => Inside(Model1Mmio(b, a)) /\ Inside(Model1WriteMmio(b, a))
  BY Model1MmioInside DEF Address
<1>2. Inside(RamGenie(b, a)) /\ Inside(NoByte)
  <2>1. /\ b.bank_offset[0] \in Int /\ 0 <= b.bank_offset[0] /\ b.bank_offset[0] <= 786432
        /\ b.bank_offset[1] \in Int /\ 0 <= b.bank_offset[1] /\ b.bank_offset[1] <= 786432
        /\ b.bank_base \in Nat /\ b.bank_base <= 2427136
    BY DEF Ranged, Within
  <2> QED BY <2>1, Insides DEF RamGenie, Address
<1>3. /\ b.video_addr \in Int
      /\ -15359 <= b.video_addr + VIDEO_START /\ b.video_addr + VIDEO_START <= 2048
  BY DEF Ranged, GenieShown, Within
<1> DEFINE y == a + b.video_addr
<1>4. ScreenGenie(b, a) => /\ y \in Int /\ -15359 <= y /\ y < 3072
                           /\ Inside(CheckedVideo(y))
                           /\ Inside(Video(y)) <=> ~(y < 0)
  <2> SUFFICES ASSUME ScreenGenie(b, a)
               PROVE  /\ y \in Int /\ -15359 <= y /\ y < 3072
                      /\ Inside(CheckedVideo(y)) /\ (Inside(Video(y)) <=> ~(y < 0))
    OBVIOUS
  <2>1. y \in Int /\ -15359 <= y /\ y < 3072
    BY <1>3 DEF ScreenGenie, Address, VIDEO_START, RAM_START
  <2> HIDE DEF y
  <2> QED BY <2>1, Insides
<1>5. Inside(Video((a + b.video_addr) % \h800)) /\ Inside(CheckedVideo((a + b.video_addr) % \h800))
  <2> DEFINE x == (a + b.video_addr) % \h800
  <2>1. a + b.video_addr \in Int
    BY <1>3 DEF Address
  <2>2. x \in Int /\ 0 <= x /\ x < 2048
    BY <2>1, Windows
  <2> HIDE DEF x
  <2>3. Inside(Video(x)) /\ Inside(CheckedVideo(x))
    BY <2>2, Insides
  <2> QED BY <2>3 DEF x
<1>6. RomGenie(b, a) => Inside(Rom(a))
  BY Insides DEF RomGenie, Address
<1>7. a \in \h37E8 .. \h37EF => a \in \h37E0 .. \h37EF
  OBVIOUS
<1>8. b.video_addr + VIDEO_START >= 0 => Inside(FontByte(b))
  <2> DEFINE z == b.video_addr + VIDEO_START
  <2>1. z \in Int /\ z <= 2048
    BY <1>3 DEF VIDEO_START
  <2>2. FontByte(b) = Video(z)
    BY <1>3 DEF FontByte, VIDEO_START
  <2> HIDE DEF z
  <2>3. z >= 0 => Inside(Video(z))
    BY <2>1, Insides
  <2> QED BY <2>2, <2>3 DEF z
<1>9. Inside(WriteGenie(b, a))
  BY <1>1, <1>2, <1>4, <1>5 DEF WriteGenie
<1>10. CASE Screen2K(b, a)
  <2>1. ~LeftOf(b, a)
    BY <1>10 DEF LeftOf
  <2>2. /\ ReadGenie(b, a) = Video((a + b.video_addr) % \h800)
        /\ PointGenie(b, a, writing) = Video((a + b.video_addr) % \h800)
    BY <1>10 DEF ReadGenie, PointGenie
  <2> QED BY <1>5, <1>8, <1>9, <2>1, <2>2
<1>11. CASE ~Screen2K(b, a) /\ ScreenGenie(b, a)
  <2>1. LeftOf(b, a) <=> y < 0
    BY <1>11 DEF LeftOf
  <2>2. ReadGenie(b, a) = Video(y) /\ PointGenie(b, a, writing) = Video(y)
    BY <1>11 DEF ReadGenie, PointGenie
  <2> QED BY <1>4, <1>8, <1>9, <1>11, <2>1, <2>2
<1>12. CASE ~Screen2K(b, a) /\ ~ScreenGenie(b, a)
  <2>1. ~LeftOf(b, a)
    BY <1>12 DEF LeftOf
  <2>2. Inside(ReadGenie(b, a)) /\ Inside(PointGenie(b, a, writing))
    BY <1>1, <1>2, <1>6, <1>7, <1>12 DEF ReadGenie, PointGenie
  <2> QED BY <1>8, <1>9, <2>1, <2>2
<1> QED BY <1>10, <1>11, <1>12

LEMMA Ct80Inside ==
  ASSUME NEW b, Ranged(b), b.model = 1, b.romSize \in Nat, b.romSize <= 18432,
         NEW a, Address(a), NEW writing \in BOOLEAN
  PROVE  /\ Inside(ReadCt80(b, a)) /\ Inside(WriteCt80(b, a)) /\ Inside(PointCt80(b, a, writing))
<1>1. a < RAM_START => /\ Inside(Model1Mmio(b, a)) /\ Inside(Model1WriteMmio(b, a))
                       /\ Inside(Model1MmioAddr(b, a, writing))
  BY Model1MmioInside DEF Address, RAM_START
<1>2. a \in \hEFE0 .. \hEFEF => Inside(Model1Mmio(b, a - \hB800)) /\ Inside(Model1WriteMmio(b, a - \hB800))
  <2> SUFFICES ASSUME a \in \hEFE0 .. \hEFEF
               PROVE  Inside(Model1Mmio(b, a - \hB800)) /\ Inside(Model1WriteMmio(b, a - \hB800))
    OBVIOUS
  <2>1. a - \hB800 \in Nat /\ a - \hB800 < 16384
    OBVIOUS
  <2> QED BY <2>1, Model1MmioInside
<1>3. Inside(Ram(a)) /\ Inside(NoByte)
  BY Insides DEF Address
<1>4. Inside(ScreenCt80(b, a))
  <2> DEFINE x == (a - b.video_addr) % \h800
  <2>1. a - b.video_addr \in Int
    BY DEF Address, Ranged
  <2>2. x \in Int /\ 0 <= x /\ x < 2048
    BY <2>1, Windows
  <2> HIDE DEF x
  <2>3. Inside(Video(x))
    BY <2>2, Insides
  <2> QED BY <2>3 DEF x, ScreenCt80
<1>5. RomCt80(b, a) => Inside(RomByteCt80(b, a))
  <2> DEFINE x == a % \h800
  <2>1. x \in Int /\ 0 <= x /\ x < 2048
    BY Windows DEF Address
  <2> HIDE DEF x
  <2>2. Inside(Rom(x + \h3000))
    BY <2>1, Insides
  <2>3. RomCt80(b, a) => Inside(Rom(a))
    BY Insides DEF RomCt80, Address
  <2> QED BY <2>2, <2>3 DEF RomByteCt80, x
<1>6. a >= \hEC00 /\ a < \hF400 => Inside(Rom(a - \hBC00))
  BY Insides DEF Address
<1>7. /\ a \in \h3000 .. RAM_START - 1 => a < RAM_START
      /\ a \in \h37E0 .. RAM_START - 1 => a < RAM_START
      /\ a \in \hEC00 .. \hF3FF => a >= \hEC00 /\ a < \hF400
      /\ a >= \hF400 \/ a < \hF400
  BY DEF RAM_START, Address
<1>8. Inside(ReadCt80(b, a))
  BY <1>1, <1>2, <1>3, <1>4, <1>5, <1>6, <1>7 DEF ReadCt80
<1>9. Inside(WriteCt80(b, a))
  BY <1>1, <1>2, <1>3, <1>4, <1>7 DEF WriteCt80
<1>10. Inside(PointCt80(b, a, writing))
  BY <1>1, <1>2, <1>3, <1>4, <1>5, <1>6, <1>7 DEF PointCt80
<1> QED BY <1>8, <1>9, <1>10

LEMMA Lnw80Inside ==
  ASSUME NEW b, Ranged(b), b.model = 1, b.clone = "LNW80", b.romSize \in Nat, b.romSize <= 18432,
         NEW a, Address(a), NEW writing \in BOOLEAN
  PROVE  /\ Inside(ReadLnw80(b, a)) /\ Inside(WriteLnw80(b, a)) /\ Inside(PointLnw80(b, a, writing))
<1> DEFINE x == a % \h4000
<1>0. x \in Nat /\ x < 16384
  BY Windows DEF Address
<1>1. /\ Inside(Model1Mmio(b, x)) /\ Inside(Model1WriteMmio(b, x))
      /\ Inside(Model1MmioAddr(b, x, writing))
  BY <1>0, Model1MmioInside
<1>2. a < RAM_START => Inside(Model1Mmio(b, a)) /\ Inside(Model1WriteMmio(b, a))
  BY Model1MmioInside DEF Address, RAM_START
<1>3. a >= \hC000 => Inside(Model1Mmio(b, a - \hC000))
  <2> SUFFICES ASSUME a >= \hC000 PROVE Inside(Model1Mmio(b, a - \hC000))
    OBVIOUS
  <2>1. a - \hC000 \in Nat /\ a - \hC000 < 16384
    BY DEF Address
  <2> QED BY <2>1, Model1MmioInside
<1>4. Inside(Banked(b, a)) /\ Inside(NoByte) /\ Inside(Ram(a + \h8000))
  BY BankedInside, Insides DEF Address
<1>5. PageShown(b)
  BY DEF Ranged
<1>6. LowLnw(b, a) /\ a >= VIDEO_START => Inside(PagedVideo(b, a))
  BY <1>5, PagedInside DEF LowLnw
<1>7. a >= \hFC00 => Inside(PagedVideo(b, x))
  <2> SUFFICES ASSUME a >= \hFC00 PROVE Inside(PagedVideo(b, x))
    OBVIOUS
  <2>1. x = a - \hC000
    BY DEF Address
  <2>2. Address(x) /\ x >= VIDEO_START /\ x < RAM_START
    BY <2>1 DEF Address, VIDEO_START, RAM_START
  <2> HIDE DEF x
  <2> QED BY <1>5, <2>2, PagedInside
<1>8. a <= \h2FFF => Inside(Rom(a))
  BY Insides DEF Address
<1>9. LowLnw(b, a) => a < RAM_START
  BY DEF LowLnw
<1>10. \A first : CpmLnw(b, a, first) => a >= first
  BY DEF CpmLnw
<1> HIDE DEF x
<1>11. Inside(ReadLnw80(b, a))
  BY <1>1, <1>2, <1>3, <1>4, <1>6, <1>7, <1>8, <1>9, <1>10 DEF ReadLnw80, x
<1>12. Inside(WriteLnw80(b, a))
  BY <1>1, <1>2, <1>4, <1>6, <1>7, <1>9, <1>10 DEF WriteLnw80, x
<1>13. Inside(PointLnw80(b, a, writing))
  BY <1>1, <1>4, <1>6, <1>7, <1>8, <1>9, <1>10 DEF PointLnw80, x
<1> QED BY <1>11, <1>12, <1>13

LEMMA SpeedInside ==
  ASSUME NEW b, Ranged(b), b.model = 1, b.clone # "CT80", b.romSize \in Nat, b.romSize <= 18432,
         NEW a, Address(a), NEW writing \in BOOLEAN
  PROVE  /\ Inside(ReadSpeed(b, a)) /\ Inside(WriteSpeed(b, a)) /\ Inside(PointSpeed(b, a, writing))
<1>1. a < RAM_START => /\ Inside(Model1Mmio(b, a)) /\ Inside(Model1WriteMmio(b, a))
                       /\ Inside(Model1MmioAddr(b, a, writing))
  BY Model1MmioInside DEF Address, RAM_START
<1>2. Inside(Ram(a)) /\ Inside(NoByte)
  BY Insides DEF Address
<1>3. Inside(Ram(a + b.bank_base))
  BY Insides DEF Address, Ranged
<1>4. Inside(BasicByte(a))
  <2> DEFINE x == a % \h1000
             y == IF Bit(a, 13) THEN \h2000 ELSE 0
  <2>1. x \in Int /\ 0 <= x /\ x < 4096 /\ y \in {0, \h2000}
    BY Windows DEF Address
  <2> HIDE DEF x, y
  <2>2. Inside(Rom(y + x + \h1000))
    BY <2>1, Insides
  <2> QED BY <2>2 DEF BasicByte, x, y
<1>5. RomSpeed(b, a) => Inside(Rom(a))
  BY Insides DEF RomSpeed, Address
<1>6. IoSpeed(b, a) => a < RAM_START
  BY DEF IoSpeed, RAM_START
<1> QED BY <1>1, <1>2, <1>3, <1>4, <1>5, <1>6 DEF ReadSpeed, WriteSpeed, PointSpeed

LEMMA Model3Inside ==
  ASSUME NEW b, b.romSize \in Nat, b.romSize <= 18432,
         NEW a, Address(a), NEW writing \in BOOLEAN
  PROVE  /\ Inside(ReadModel3(b, a)) /\ Inside(WriteModel3(b, a)) /\ Inside(PointModel3(b, a, writing))
<1>1. Inside(Ram(a)) /\ Inside(NoByte)
  BY Insides DEF Address
<1>2. a >= VIDEO_START /\ ~(a >= RAM_START)
        => Inside(Video(a - VIDEO_START)) /\ Inside(CheckedVideo(a - VIDEO_START))
  BY Insides DEF Address, VIDEO_START, RAM_START
<1>3. a < b.romSize => Inside(Rom(a))
  BY Insides DEF Address
<1> QED BY <1>1, <1>2, <1>3 DEF ReadModel3, WriteModel3, PointModel3

LEMMA Cp500Inside ==
  ASSUME NEW b, Ranged(b), b.model = 3, b.memory_map \in {\h31, \h32, \h33},
         b.romSize \in Nat, b.romSize <= 18432,
         NEW a, Address(a), NEW writing \in BOOLEAN
  PROVE  /\ Inside(ReadCp500(b, a)) /\ Inside(WriteCp500(b, a)) /\ Inside(PointCp500(b, a, writing))
<1>1. Inside(Ram(a)) /\ Inside(NoByte)
  BY Insides DEF Address
<1>2. PageShown(b)
  BY DEF Ranged
<1>3. a >= VIDEO_START /\ ~(a >= RAM_START) => Inside(PagedVideo(b, a))
  BY <1>2, PagedInside DEF Address, RAM_START
<1>4. ExtraRom(b, a) => Inside(ExtraByte(a))
  <2> SUFFICES ASSUME ExtraRom(b, a) PROVE Inside(ExtraByte(a))
    OBVIOUS
  <2>1. a >= \h3000 /\ a <= \h37FF
    BY DEF ExtraRom, Address
  <2> QED BY <2>1, Insides DEF ExtraByte, Address
<1>5. /\ Inside(ReadModel3(b, a)) /\ Inside(WriteModel3(b, a))
      /\ Inside(PointModel3(b, a, writing))
  BY Model3Inside
<1>6. ExtraRom(b, a) => b.memory_map = \h31
  BY DEF ExtraRom
<1>7. CASE b.memory_map = \h31
  BY <1>1, <1>4, <1>5, <1>7 DEF ReadCp500, WriteCp500, PointCp500
<1>8. CASE b.memory_map = \h32
  BY <1>1, <1>6, <1>8 DEF ReadCp500, WriteCp500, PointCp500
<1>9. CASE b.memory_map = \h33
  BY <1>1, <1>3, <1>6, <1>9 DEF ReadCp500, WriteCp500, PointCp500
<1> QED BY <1>7, <1>8, <1>9

LEMMA Vx3Inside ==
  ASSUME NEW b, NEW a, Address(a), NEW writing \in BOOLEAN
  PROVE  /\ Inside(ReadVx3(b, a)) /\ Inside(WriteVx3(b, a)) /\ Inside(PointVx3(b, a, writing))
<1>1. Inside(Ram(a)) /\ Inside(NoByte) /\ Inside(Ram(a + 65536))
  BY Insides DEF Address
<1>2. HighVx3(b, a) => Inside(Video(a - \hF800)) /\ Inside(CheckedVideo(a - \hF800))
  BY Insides DEF Address, HighVx3
<1>3. LowVx3(b, a) => Inside(Video(a - VIDEO_START))
  BY Insides DEF Address, LowVx3, VIDEO_START, RAM_START
<1>4. AppendedVx3(b, a) => Inside(Rom(a + \h1000))
  BY Insides DEF Address, AppendedVx3, KEYBOARD_START
<1>5. OwnRomVx3(b, a) => Inside(Rom(a))
  BY Insides DEF Address, OwnRomVx3
<1> QED BY <1>1, <1>2, <1>3, <1>4, <1>5 DEF ReadVx3, WriteVx3, PointVx3

LEMMA BrewerInside ==
  ASSUME NEW b, NEW a, Address(a)
  PROVE  /\ Inside(ReadBrewer(b, a)) /\ Inside(WriteBrewer(b, a)) /\ Inside(PointBrewer(b, a))
<1>1. Inside(Ram(a)) /\ Inside(NoByte)
  BY Insides DEF Address
<1>2. a >= \hFC00 => Inside(Video(a - \hFC00)) /\ Inside(CheckedVideo(a - \hFC00))
  BY Insides DEF Address
<1> QED BY <1>1, <1>2 DEF ReadBrewer, WriteBrewer, PointBrewer

LEMMA Model4Inside ==
  ASSUME NEW b, Ranged(b), b.model \in {4, 5},
         b.memory_map \in {\h40, \h41, \h42, \h43, \h50, \h51, \h52, \h53},
         b.romSize \in Nat, b.romSize <= 18432,
         NEW a, Address(a), NEW writing \in BOOLEAN
  PROVE  /\ Inside(ReadModel4(b, a)) /\ Inside(WriteModel4(b, a)) /\ Inside(PointModel4(b, a, writing))
<1>1. Inside(Banked(b, a)) /\ Inside(NoByte)
  BY BankedInside, Insides
<1>2. PageShown(b)
  BY DEF Ranged
<1>3. a >= VIDEO_START /\ ~(a >= RAM_START) => Inside(PagedVideo(b, a))
  BY <1>2, PagedInside DEF Address, RAM_START
<1>4. a < b.romSize => Inside(Rom(a))
  BY Insides DEF Address
<1>5. BootRom(b, a) => Inside(Rom(a))
  BY <1>4 DEF BootRom
<1>6. a >= \hF800 => Inside(Video(a - \hF800)) /\ Inside(CheckedVideo(a - \hF800))
  BY Insides DEF Address
<1>7. Inside(ReadLowRam(b, a))
  BY <1>1, <1>3 DEF ReadLowRam
<1>8. Inside(ReadHighIo(b, a))
  BY <1>1, <1>6 DEF ReadHighIo
<1>9. CASE b.memory_map = \h40
  BY <1>1, <1>3, <1>4, <1>9 DEF ReadModel4, WriteModel4, PointModel4
<1>10. CASE b.memory_map \in {\h41, \h51}
  BY <1>5, <1>7, <1>10 DEF ReadModel4, WriteModel4, PointModel4
<1>11. CASE b.memory_map = \h50
  BY <1>1, <1>3, <1>5, <1>7, <1>11 DEF ReadModel4, WriteModel4, PointModel4
<1>12. CASE b.memory_map \in {\h42, \h52}
  BY <1>1, <1>6, <1>8, <1>12 DEF ReadModel4, WriteModel4, PointModel4
<1>13. CASE b.memory_map \in {\h43, \h53}
  BY <1>1, <1>13 DEF ReadModel4, WriteModel4, PointModel4
<1> QED BY <1>9, <1>10, <1>11, <1>12, <1>13

\* What an access reaches is inside its array, unless it is the screen before its
\* first byte.
Reached(b, a, p) == Inside(p) <=> ~BeforeVideo(b, a)

LEMMA SwitchesInside ==
  ASSUME NEW b, BoardOK(b), Ranged(b), OwnMap(b), NEW a, Address(a), NEW writing \in BOOLEAN,
         Intercepted(b, a) \/ b.memory_map # \h1B
  PROVE  /\ Inside(mem_read(b, a)) /\ Inside(mem_write(b, a))
         /\ Inside(mem_pointer(b, a, writing))
<1>0. b.romSize \in Nat /\ b.romSize <= 18432 /\ b.model \in {1, 3, 4, 5}
  <2>1. PICK m \in Builds : b.model = m.model /\ b.romSize = m.romSize
    BY DEF BoardOK, BuiltFrom
  <2> QED BY <2>1, BuildsAssumption
<1>1. CASE Intercepted(b, a)
  BY <1>1, InterceptedInside DEF mem_read, mem_write, mem_pointer
<1>2. CASE ~Intercepted(b, a) /\ b.model = 1
  <2>0. b.memory_map \in \h10 .. \h1E /\ b.clone \in Model1Clones
    BY <1>2 DEF BoardOK, MapTrue
  <2>1. CASE b.memory_map \in \h10 .. \h15
    BY <1>0, <1>2, <2>1, Model1Inside DEF mem_read, mem_write, mem_pointer
  <2>2. CASE b.memory_map = \h16
    BY <1>0, <1>2, <2>2, XmemInside DEF mem_read, mem_write, mem_pointer
  <2>3. CASE b.memory_map = \h17
    BY <1>0, <1>2, <2>3, Card80ZInside DEF mem_read, mem_write, mem_pointer
  <2>4. CASE b.memory_map = \h18
    BY <1>0, <1>2, <2>4, Eg64Inside DEF mem_read, mem_write, mem_pointer
  <2>5. CASE b.memory_map = \h19
    BY <1>0, <1>2, <2>5, LubomirInside DEF mem_read, mem_write, mem_pointer
  <2>6. CASE b.memory_map = \h1A
    BY <1>0, <1>2, <2>6, Eg3200Inside DEF mem_read, mem_write, mem_pointer
  <2>7. b.memory_map # \h1B
    BY <1>2
  <2>8. CASE b.memory_map = \h1C
    BY <1>0, <1>2, <2>8, Ct80Inside DEF mem_read, mem_write, mem_pointer
  <2>9. CASE b.memory_map = \h1D
    <3>1. b.clone = "LNW80"
      BY <1>2, <2>0, <2>9 DEF OwnMap, CloneMap, Model1Clones
    <3> QED BY <1>0, <1>2, <2>9, <3>1, Lnw80Inside DEF mem_read, mem_write, mem_pointer
  <2>10. CASE b.memory_map = \h1E
    <3>1. b.clone # "CT80"
      BY <1>2, <2>0, <2>10 DEF OwnMap, CloneMap, Model1Clones
    <3> QED BY <1>0, <1>2, <2>10, <3>1, SpeedInside DEF mem_read, mem_write, mem_pointer
  <2> QED BY <2>0, <2>1, <2>2, <2>3, <2>4, <2>5, <2>6, <2>7, <2>8, <2>9, <2>10
<1>3. CASE ~Intercepted(b, a) /\ b.model = 3
  <2>0. b.memory_map \in \h30 .. \h35
    BY <1>3 DEF BoardOK, MapTrue
  <2>1. CASE b.memory_map = \h30
    BY <1>0, <1>3, <2>1, Model3Inside DEF mem_read, mem_write, mem_pointer
  <2>2. CASE b.memory_map \in {\h31, \h32, \h33}
    BY <1>0, <1>3, <2>2, Cp500Inside DEF mem_read, mem_write, mem_pointer
  <2>3. CASE b.memory_map = \h34
    BY <1>3, <2>3, Vx3Inside DEF mem_read, mem_write, mem_pointer
  <2>4. CASE b.memory_map = \h35
    BY <1>3, <2>4, BrewerInside DEF mem_read, mem_write, mem_pointer
  <2> QED BY <2>0, <2>1, <2>2, <2>3, <2>4
<1>4. CASE ~Intercepted(b, a) /\ b.model \in {4, 5}
  <2> DEFINE k == b.modesel % 4
  <2>1. b.memory_map = k + 16 * b.model
    BY <1>4, Mode4Map DEF BoardOK
  <2>2. k \in {0, 1, 2, 3}
    <3>1. b.modesel \in Nat
      BY DEF BoardOK
    <3> QED BY <3>1, Z3
  <2> HIDE DEF k
  <2>3. b.memory_map \in {\h40, \h41, \h42, \h43, \h50, \h51, \h52, \h53}
    BY <1>4, <2>1, <2>2
  <2> QED BY <1>0, <1>4, <2>3, Model4Inside DEF mem_read, mem_write, mem_pointer
<1> QED BY <1>0, <1>1, <1>2, <1>3, <1>4

LEMMA GenieReached ==
  ASSUME NEW b, BoardOK(b), Ranged(b), OwnMap(b), NEW a, Address(a), NEW writing \in BOOLEAN,
         ~Intercepted(b, a), b.memory_map = \h1B
  PROVE  /\ Reached(b, a, mem_read(b, a)) /\ Inside(mem_write(b, a))
         /\ Reached(b, a, mem_pointer(b, a, writing))
         /\ b.video_addr + VIDEO_START >= 0 => Inside(FontByte(b))
<1>1. b.romSize \in Nat /\ b.romSize <= 18432 /\ b.model \in {1, 3, 4, 5}
  BY BuiltFacts DEF BoardOK
<1>2. b.model = 1
  <2>1. b.model = 3 => b.memory_map \in \h30 .. \h35
    BY DEF BoardOK, MapTrue
  <2>2. CASE b.model \in {4, 5}
    <3> DEFINE k == b.modesel % 4
    <3>1. b.memory_map = k + 16 * b.model
      BY <2>2, Mode4Map DEF BoardOK
    <3>2. k \in {0, 1, 2, 3}
      <4>1. b.modesel \in Nat
        BY DEF BoardOK
      <4> QED BY <4>1, Z3
    <3> HIDE DEF k
    <3> QED BY <2>2, <3>1, <3>2
  <2> QED BY <1>1, <2>1, <2>2
<1>3. b.clone = "GENIE3S"
  <2>1. b.clone \in Model1Clones
    BY <1>2 DEF BoardOK, MapTrue
  <2> QED BY <1>2, <2>1 DEF OwnMap, CloneMap, Model1Clones
<1>4. /\ mem_read(b, a) = ReadGenie(b, a) /\ mem_write(b, a) = WriteGenie(b, a)
      /\ mem_pointer(b, a, writing) = PointGenie(b, a, writing)
  BY DEF mem_read, mem_write, mem_pointer
<1>5. BeforeVideo(b, a) <=> LeftOf(b, a)
  BY DEF BeforeVideo, LeftOf
<1> QED BY <1>1, <1>2, <1>3, <1>4, <1>5, GenieInside DEF Reached

\* What one address shows, of all that InsideArrays says of it.
Safe(b, a) ==
  /\ Reached(b, a, mem_read(b, a)) /\ Inside(mem_write(b, a))
  /\ Reached(b, a, mem_pointer(b, a, TRUE)) /\ Reached(b, a, mem_pointer(b, a, FALSE))
  /\ PatternWrite(b, a) /\ b.video_addr + VIDEO_START >= 0 => Inside(FontByte(b))

LEMMA PointersInside ==
  ASSUME NEW b, NEW a,
         \A writing \in BOOLEAN :
           /\ Reached(b, a, mem_read(b, a)) /\ Inside(mem_write(b, a))
           /\ Reached(b, a, mem_pointer(b, a, writing))
           /\ PatternWrite(b, a) /\ b.video_addr + VIDEO_START >= 0 => Inside(FontByte(b))
  PROVE  Safe(b, a)
BY Zenon DEF Safe

LEMMA SwitchesReached ==
  ASSUME NEW b, BoardOK(b), Ranged(b), OwnMap(b), NEW a, Address(a), NEW writing \in BOOLEAN
  PROVE  /\ Reached(b, a, mem_read(b, a)) /\ Inside(mem_write(b, a))
         /\ Reached(b, a, mem_pointer(b, a, writing))
         /\ PatternWrite(b, a) /\ b.video_addr + VIDEO_START >= 0 => Inside(FontByte(b))
<1>1. CASE Intercepted(b, a) \/ b.memory_map # \h1B
  <2>1. ~BeforeVideo(b, a) /\ ~PatternWrite(b, a)
    BY <1>1 DEF BeforeVideo, PatternWrite
  <2>2. /\ Inside(mem_read(b, a)) /\ Inside(mem_write(b, a))
        /\ Inside(mem_pointer(b, a, writing))
    BY <1>1, SwitchesInside
  <2> QED BY <2>1, <2>2 DEF Reached
<1>2. CASE ~Intercepted(b, a) /\ b.memory_map = \h1B
  BY <1>2, GenieReached
<1> QED BY <1>1, <1>2

-----------------------------------------------------------------------------
(* What the ports, the reset and the snapshot leave in the bank registers.  *)

\* Fields that Ranged looks at.
Placed(b, t) ==
  /\ t.model = b.model /\ t.clone = b.clone /\ t.video_addr = b.video_addr
  /\ t.megamem_base = b.megamem_base /\ t.supermem_base = b.supermem_base
  /\ t.sta = b.sta

LEMMA RangedSame ==
  ASSUME NEW b, Ranged(b), NEW t, Placed(b, t),
         t.bank_offset = b.bank_offset, t.bank_base = b.bank_base
  PROVE  Ranged(t)
BY DEF Ranged, Placed, PageShown, GenieShown

\* A Model I port that sets banks.
LEMMA RangedBanks ==
  ASSUME NEW b, Ranged(b), b.model = 1, NEW t, Placed(b, t),
         t.bank_offset \in [0 .. 2 -> Int], t.bank_base \in Nat,
         \A i \in 0 .. 2 : Within(t.bank_offset[i], 0, 786432),
         t.clone # "CT80" => t.bank_base <= 2427136
  PROVE  Ranged(t)
<1>1. Within(t.bank_offset[0], 0, 2064384) /\ Within(t.bank_offset[1], -32768, 2031616)
  BY DEF Within
<1> QED BY <1>1 DEF Ranged, Placed, PageShown, GenieShown

\* The same, when it sets at most two of the three offsets.
LEMMA OffsetsSet ==
  ASSUME NEW o \in [0 .. 2 -> Int], \A i \in 0 .. 2 : Within(o[i], 0, 786432),
         NEW j \in 0 .. 2, NEW v, Within(v, 0, 786432)
  PROVE  LET p == [o EXCEPT ![j] = v] IN
         p \in [0 .. 2 -> Int] /\ \A i \in 0 .. 2 : Within(p[i], 0, 786432)
BY DEF Within

LEMMA Bits ==
  ASSUME NEW v \in 0 .. 255
  PROVE  /\ BitsOf(v, 4, 4) \in Int /\ 0 <= BitsOf(v, 4, 4) /\ BitsOf(v, 4, 4) <= 15
         /\ BitsOf(v, 0, 3) \in Int /\ 0 <= BitsOf(v, 0, 3) /\ BitsOf(v, 0, 3) <= 7
         /\ BitsOf(v, 6, 2) \in Int /\ 0 <= BitsOf(v, 6, 2) /\ BitsOf(v, 6, 2) <= 3
         /\ BitsOf(v, 0, 2) \in Int /\ 0 <= BitsOf(v, 0, 2) /\ BitsOf(v, 0, 2) <= 3
         /\ BitsOf(v, 2, 2) \in Int /\ 0 <= BitsOf(v, 2, 2) /\ BitsOf(v, 2, 2) <= 3
         /\ BitsOf(v, 4, 2) \in Int /\ 0 <= BitsOf(v, 4, 2) /\ BitsOf(v, 4, 2) <= 3
         /\ BitsOf(v, 1, 4) \in Int /\ 0 <= BitsOf(v, 1, 4) /\ BitsOf(v, 1, 4) <= 15
         /\ BitsOf(v, 0, 6) \in Int /\ 0 <= BitsOf(v, 0, 6) /\ BitsOf(v, 0, 6) <= 63
         /\ v % 32 \in Int /\ 0 <= v % 32 /\ v % 32 <= 31
<1> DEFINE F(w, m) == w % m \in Int /\ 0 <= w % m /\ w % m < m
<1>1. \A w \in Int : F(w, 4) /\ F(w, 8) /\ F(w, 16) /\ F(w, 32) /\ F(w, 64)
  BY Z3
<1>2. /\ v \in Int /\ v \div 2^0 \in Int /\ v \div 2^1 \in Int /\ v \div 2^2 \in Int
      /\ v \div 2^4 \in Int /\ v \div 2^6 \in Int
  OBVIOUS
<1>3. 2^2 = 4 /\ 2^3 = 8 /\ 2^4 = 16 /\ 2^6 = 64
  OBVIOUS
<1> QED BY <1>1, <1>2, <1>3 DEF BitsOf

LEMMA IfWithin ==
  ASSUME NEW c, NEW n \in Nat
  PROVE  If(c, n) \in Int /\ 0 <= If(c, n) /\ If(c, n) <= n
BY DEF If

LEMMA SelectorRanged ==
  ASSUME NEW b, DOMAIN b = Fields, Ranged(b), b.model = 1, NEW bits \in 0 .. 255
  PROVE  Ranged(selector_out(b, bits))
<1> DEFINE q == BitsOf(bits, 4, 4)
           base == IF Bit(bits, 3) THEN 32768 + (q * 32768) + If(Bit(bits, 0), 32768) ELSE 0
           low == If(Bit(bits, 0), base)
           high == If(~Bit(bits, 0), base)
           map == IF bits % 8 >= 6 THEN \h10 ELSE \h10 + (bits % 8)
           t == [b EXCEPT !.mem_command = bits, !.memory_map = map, !.bank_base = base,
                          !.bank_offset[0] = low, !.bank_offset[1] = high]
<1>1. base \in Nat /\ base <= 557056
  <2>1. q \in Int /\ 0 <= q /\ q <= 15
    BY Bits
  <2> DEFINE z == If(Bit(bits, 0), 32768)
  <2>2. z \in Int /\ 0 <= z /\ z <= 32768
    BY IfWithin
  <2> HIDE DEF q, z
  <2>3. CASE Bit(bits, 3)
    <3>1. base = 32768 + (q * 32768) + z
      BY <2>3 DEF z
    <3> QED BY <2>1, <2>2, <3>1
  <2> QED BY <2>3
<1> HIDE DEF base
<1>2. Within(low, 0, 786432) /\ Within(high, 0, 786432)
  BY <1>1, IfWithin DEF Within
<1>3. selector_out(b, bits) = t
  BY DEF selector_out, base
<1> HIDE DEF low, high, map
<1>4. Placed(b, t) /\ t.bank_base = base
      /\ t.bank_offset = [[b.bank_offset EXCEPT ![0] = low] EXCEPT ![1] = high]
  BY DEF Placed, Fields
<1> HIDE DEF t
<1>5. t.bank_offset \in [0 .. 2 -> Int] /\ \A i \in 0 .. 2 : Within(t.bank_offset[i], 0, 786432)
  BY <1>2, <1>4, OffsetsSet DEF Ranged
<1> QED BY <1>1, <1>3, <1>4, <1>5, RangedBanks

LEMMA XmemRanged ==
  ASSUME NEW b, DOMAIN b = Fields, Ranged(b), b.model = 1, NEW port \in {\h41, \h42, \h43},
         NEW page \in Nat, page <= 31
  PROVE  Ranged(xmem80_out(b, port, page))
<1> DEFINE n == page * 16384
           j == port - \h41
           p == [b EXCEPT !.bank_offset[j] = n, !.memory_map = \h16]
           t == [p EXCEPT !.bank_offset[0] = n, !.bank_offset[1] = n]
<1>1. j \in 0 .. 2 /\ Within(n, 0, 786432)
  BY DEF Within
<1> HIDE DEF n, j
<1>2. /\ Placed(b, p) /\ p.bank_base = b.bank_base /\ DOMAIN p = Fields
      /\ p.bank_offset = [b.bank_offset EXCEPT ![j] = n]
  BY DEF Placed, Fields
<1> HIDE DEF p
<1>3. /\ Placed(p, t) /\ t.bank_base = p.bank_base
      /\ t.bank_offset = [[p.bank_offset EXCEPT ![0] = n] EXCEPT ![1] = n]
  BY <1>2 DEF Placed, Fields
<1> HIDE DEF t
<1>4. p.bank_offset \in [0 .. 2 -> Int] /\ \A i \in 0 .. 2 : Within(p.bank_offset[i], 0, 786432)
  BY <1>1, <1>2, OffsetsSet DEF Ranged
<1>5. t.bank_offset \in [0 .. 2 -> Int] /\ \A i \in 0 .. 2 : Within(t.bank_offset[i], 0, 786432)
  BY <1>1, <1>3, <1>4, OffsetsSet
<1>6. Ranged(p)
  BY <1>2, <1>4, RangedBanks DEF Ranged, Placed
<1>7. Ranged(t)
  BY <1>2, <1>3, <1>5, <1>6, RangedBanks DEF Ranged, Placed
<1>8. xmem80_out(b, port, page) \in {p, t}
  BY DEF xmem80_out, p, t, n, j
<1> QED BY <1>6, <1>7, <1>8

\* The ports of a Model I without a clone that leave the screen where it is; the
\* 80-Z's moves it, within 64K.
LEMMA OtherRanged ==
  ASSUME NEW b, DOMAIN b = Fields, Ranged(b), b.model = 1, NEW bits \in 0 .. 255
  PROVE  /\ Ranged(lubomir_out(b, bits)) /\ Ranged(eg64_mba_out(b, bits))
         /\ Ranged(sys_byte_out(b, bits))
         /\ b.clone = "none" => Ranged(s80z_out(b, bits))
<1>1. Ranged(lubomir_out(b, bits))
  <2> DEFINE v == If(Bit(bits, 4), 32768)
             t == lubomir_out(b, bits)
  <2>1. Within(v, 0, 786432)
    BY IfWithin DEF Within
  <2> HIDE DEF v
  <2>2. Placed(b, t) /\ t.bank_base = b.bank_base /\ t.bank_offset = [b.bank_offset EXCEPT ![1] = v]
    BY DEF lubomir_out, Placed, Fields, v
  <2> HIDE DEF t
  <2>3. t.bank_offset \in [0 .. 2 -> Int] /\ \A i \in 0 .. 2 : Within(t.bank_offset[i], 0, 786432)
    BY <2>1, <2>2, OffsetsSet DEF Ranged
  <2>4. Ranged(t)
    BY <2>2, <2>3, RangedBanks DEF Ranged, Placed
  <2> QED BY <2>4 DEF t
<1>2. Ranged(eg64_mba_out(b, bits))
  <2> DEFINE t == eg64_mba_out(b, bits)
  <2>1. Placed(b, t) /\ t.bank_base = b.bank_base /\ t.bank_offset = b.bank_offset
    BY DEF eg64_mba_out, Placed, Fields
  <2> QED BY <2>1, RangedSame
<1>3. Ranged(sys_byte_out(b, bits))
  <2> DEFINE t == sys_byte_out(b, bits)
  <2>1. Placed(b, t) /\ t.bank_base = b.bank_base /\ t.bank_offset = b.bank_offset
    BY DEF sys_byte_out, Placed, Fields
  <2> QED BY <2>1, RangedSame
<1>4. ASSUME b.clone = "none" PROVE Ranged(s80z_out(b, bits))
  <2> DEFINE t == s80z_out(b, bits)
  <2>1. /\ t.model = b.model /\ t.clone = b.clone /\ t.megamem_base = b.megamem_base
        /\ t.supermem_base = b.supermem_base /\ t.bank_base = b.bank_base
        /\ t.bank_offset = b.bank_offset /\ t.sta = b.sta
        /\ t.video_addr \in {b.video_addr, VIDEO_START, \h3900, \hB000, \hF000}
    BY DEF s80z_out, Fields
  <2> HIDE DEF t
  <2>2. t.video_addr \in Int
    BY <2>1 DEF Ranged, VIDEO_START
  <2>3. Ranged(t)
    BY <1>4, <2>1, <2>2 DEF Ranged
  <2> QED BY <2>3 DEF t
<1> QED BY <1>1, <1>2, <1>3, <1>4

LEMMA PageRanged ==
  ASSUME NEW b, DOMAIN b = Fields, Ranged(b), NEW offset \in {0, 1024, 2048}
  PROVE  Ranged(mem_video_page(b, offset)) /\ PageShown(mem_video_page(b, offset))
         /\ GenieShown(mem_video_page(b, offset))
<1> DEFINE t == mem_video_page(b, offset)
<1>1. /\ t.model = b.model /\ t.clone = b.clone /\ t.megamem_base = b.megamem_base
      /\ t.supermem_base = b.supermem_base /\ t.bank_base = b.bank_base
      /\ t.bank_offset = b.bank_offset /\ t.video_addr = offset - VIDEO_START
      /\ t.sta = b.sta
  BY DEF mem_video_page, Fields
<1> HIDE DEF t
<1>2. t.video_addr \in Int /\ PageShown(t) /\ GenieShown(t)
  BY <1>1 DEF VIDEO_START, PageShown, GenieShown, Within
<1>3. Ranged(t)
  BY <1>1, <1>2 DEF Ranged
<1> QED BY <1>2, <1>3 DEF t

LEMMA AnyRanged ==
  ASSUME NEW b, DOMAIN b = Fields, Ranged(b), NEW port, NEW value \in 0 .. 255
  PROVE  Ranged(OutAnyModel(b, port, value))
<1> DEFINE t == supermem_out(b, value)
           n == (value % 32) * 32768
<1>1. Within(n, 0, 1015808)
  <2> DEFINE q == value % 32
  <2>1. q \in Int /\ 0 <= q /\ q <= 31
    BY Bits
  <2> HIDE DEF q
  <2>2. q * 32768 \in Int /\ 0 <= q * 32768 /\ q * 32768 <= 1015808
    BY <2>1
  <2> QED BY <2>2 DEF Within, q
<1> HIDE DEF n
<1>2. /\ t.model = b.model /\ t.clone = b.clone /\ t.megamem_base = b.megamem_base
      /\ t.bank_base = b.bank_base /\ t.bank_offset = b.bank_offset
      /\ t.video_addr = b.video_addr /\ t.sta = b.sta /\ t.supermem_base = n
  BY DEF supermem_out, Fields, n
<1> HIDE DEF t
<1>3. Ranged(t)
  BY <1>1, <1>2 DEF Ranged, PageShown, GenieShown
<1> QED BY <1>3 DEF OutAnyModel, t

\* The two bytes of the CRTC's start address, and where the second moves the screen.
LEMMA StartBytes ==
  ASSUME NEW sta, Within(sta, 0, 16383), NEW value \in 0 .. 255
  PROVE  /\ Within((value % 64) * 256 + (sta % 256), 0, 16383)
         /\ Within((sta - (sta % 256)) + value, 0, 16383)
<1> DEFINE q == value % 64
           r == sta % 256
           k == sta \div 256
<1>0. sta \in Int /\ 0 <= sta /\ sta <= 16383
  BY DEF Within
<1>1. q \in Int /\ 0 <= q /\ q <= 63
  BY Z3
<1>2. /\ r \in Int /\ 0 <= r /\ r <= 255 /\ k \in Int /\ sta = (256 * k) + r
  BY <1>0, Z3
<1> HIDE DEF q, r, k
<1>3. k <= 63 /\ k >= 0
  BY <1>0, <1>2
<1>4. Within(q * 256 + r, 0, 16383) /\ Within((sta - r) + value, 0, 16383)
  BY <1>0, <1>1, <1>2, <1>3 DEF Within
<1> QED BY <1>4 DEF q, r

LEMMA CrtcRanged ==
  ASSUME NEW b, DOMAIN b = Fields, Ranged(b), NEW value \in 0 .. 255,
         b.model = 1 \/ b.clone \notin {"CT80", "GENIE3S"}
  PROVE  Ranged(m6845_select(b, value)) /\ Ranged(m6845_crtc(b, value))
<1> DEFINE n == (value % 64) * 256 + (b.sta % 256)
           m == (b.sta - (b.sta % 256)) + value
           h == [b EXCEPT !.sta = n]
           l == [b EXCEPT !.sta = m]
           c == ct80_video_addr(l, l.sta)
           g == mem_video_page(l, 1024 - l.sta)
           s == m6845_select(b, value)
<1>1. Within(n, 0, 16383) /\ Within(m, 0, 16383)
  BY StartBytes DEF Ranged
<1>2. /\ m6845_crtc(b, value) \in {b, h, l} \/ (l.clone = "CT80" /\ m6845_crtc(b, value) = c)
         \/ (l.clone = "GENIE3S" /\ m6845_crtc(b, value) = g)
  BY DEF m6845_crtc
<1>3. Placed(b, s) /\ s.bank_offset = b.bank_offset /\ s.bank_base = b.bank_base
  BY DEF m6845_select, Placed, Fields
<1> DEFINE Moved(t, sta, at) ==
             /\ t.model = b.model /\ t.clone = b.clone /\ t.megamem_base = b.megamem_base
             /\ t.supermem_base = b.supermem_base /\ t.bank_base = b.bank_base
             /\ t.bank_offset = b.bank_offset /\ t.sta = sta /\ t.video_addr = at
<1> HIDE DEF n, m, s
<1>4. Moved(h, n, b.video_addr) /\ Moved(l, m, b.video_addr) /\ DOMAIN l = Fields
  BY DEF Fields
<1> HIDE DEF h, l
<1>5. Moved(c, m, m) /\ Moved(g, m, 1024 - m - VIDEO_START)
  BY <1>1, <1>4 DEF ct80_video_addr, mem_video_page, Fields, Within, VIDEO_START
<1> HIDE DEF c, g
<1>6. Ranged(s)
  BY <1>3, RangedSame
<1>7. Ranged(h) /\ Ranged(l)
  BY <1>1, <1>4 DEF Ranged, PageShown, GenieShown
<1>8. l.clone = "CT80" => Ranged(c)
  <2>1. l.clone = "CT80" => c.model = 1 /\ c.clone = "CT80"
    BY <1>4, <1>5 DEF Ranged
  <2>2. m \in Int
    BY <1>1 DEF Within
  <2> QED BY <1>1, <1>5, <2>1, <2>2 DEF Ranged
<1>9. l.clone = "GENIE3S" => Ranged(g)
  <2>1. l.clone = "GENIE3S" => g.model = 1 /\ g.clone = "GENIE3S"
    BY <1>4, <1>5 DEF Ranged
  <2>2. g.video_addr \in Int /\ GenieShown(g)
    BY <1>1, <1>5 DEF GenieShown, Within, VIDEO_START
  <2> QED BY <1>1, <1>5, <2>1, <2>2 DEF Ranged
<1> QED BY <1>2, <1>6, <1>7, <1>8, <1>9 DEF s

LEMMA Ct80Ranged ==
  ASSUME NEW b, DOMAIN b = Fields, Ranged(b), b.model = 1, b.clone = "CT80",
         NEW port, NEW value \in 0 .. 255
  PROVE  Ranged(OutCt80(b, port, value))
<1>1. \A p : Ranged(ct80_ramdisk_out(b, p))
  <2> TAKE p
  <2> DEFINE t == [b EXCEPT !.bank_base = @ + 1]
  <2>1. Placed(b, t) /\ t.bank_base = b.bank_base + 1 /\ t.bank_offset = b.bank_offset
    BY DEF Placed, Fields
  <2> HIDE DEF t
  <2>2. Ranged(t)
    BY <2>1, RangedBanks DEF Ranged, Placed
  <2> QED BY <2>2 DEF ct80_ramdisk_out, t
<1>2. \A p \in 2 .. 7 : Ranged(ct80_ramdisk_address(b, p, value))
  <2> TAKE p \in 2 .. 7
  <2> DEFINE j == (p \div 2) - 1
             o == [b.bank_offset EXCEPT ![j] = value]
             n == o[0] + (o[1] * 256) + (o[2] * 65536) + 65536
             t == [b EXCEPT !.bank_offset = o, !.bank_base = n]
  <2>1. j \in 0 .. 2 /\ Within(value, 0, 786432)
    BY DEF Within
  <2> HIDE DEF j
  <2>2. o \in [0 .. 2 -> Int] /\ \A i \in 0 .. 2 : Within(o[i], 0, 786432)
    BY <2>1, OffsetsSet DEF Ranged
  <2>3. o[0] \in Nat /\ o[1] \in Nat /\ o[2] \in Nat
    BY <2>2 DEF Within
  <2> HIDE DEF o
  <2>4. n \in Nat
    BY <2>3
  <2>5. Placed(b, t) /\ t.bank_base = n /\ t.bank_offset = o
    BY DEF Placed, Fields
  <2>6. ct80_ramdisk_address(b, p, value) = t
    BY DEF ct80_ramdisk_address, o, j
  <2> HIDE DEF n, t
  <2> QED BY <2>2, <2>4, <2>5, <2>6, RangedBanks DEF Placed
<1>3. ASSUME port \in \hD2 .. \hD7 PROVE port % 8 \in 2 .. 7
  BY <1>3
<1>4. Ranged(OutAnyModel(b, port, value)) /\ Ranged(sys_byte_out(b, value))
  BY AnyRanged, OtherRanged
<1>5. Ranged(m6845_select(b, value)) /\ Ranged(m6845_crtc(b, value))
  BY CrtcRanged
<1> QED BY <1>1, <1>2, <1>3, <1>4, <1>5 DEF OutCt80

LEMMA SysRanged ==
  ASSUME NEW b, DOMAIN b = Fields, Ranged(b), NEW value
  PROVE  Ranged(sys_byte_write(b, value)) /\ Ranged(genie3s_sys_out(b, value))
<1> DEFINE t == [b EXCEPT !.sys_byte = value]
<1>1. Placed(b, t) /\ t.bank_base = b.bank_base /\ t.bank_offset = b.bank_offset
  BY DEF Placed, Fields
<1> HIDE DEF t
<1>2. Ranged(t)
  BY <1>1, RangedSame
<1> QED BY <1>2 DEF sys_byte_write, genie3s_sys_out, t

LEMMA Eg3200Ranged ==
  ASSUME NEW b, DOMAIN b = Fields, Ranged(b), b.model = 1, b.clone = "EG3200",
         NEW port, NEW value \in 0 .. 255
  PROVE  Ranged(OutEg3200(b, port, value))
<1> DEFINE q == BitsOf(value, 0, 3) * 65536
           z == If(q # 0 /\ Bit(value, 3), 32768)
           n == q + z
           t == [b EXCEPT !.bank_base = n, !.bank_offset[0] = n]
<1>1. n \in Nat /\ n <= 491520
  <2> DEFINE r == BitsOf(value, 0, 3)
  <2>1. r \in Int /\ 0 <= r /\ r <= 7
    BY Bits
  <2> HIDE DEF r
  <2>2. r * 65536 \in Int /\ 0 <= r * 65536 /\ r * 65536 <= 458752
    BY <2>1
  <2>3. q = r * 65536
    BY DEF r
  <2>4. z \in Int /\ 0 <= z /\ z <= 32768
    BY IfWithin
  <2> HIDE DEF q, z
  <2> QED BY <2>2, <2>3, <2>4
<1> HIDE DEF n
<1>2. Placed(b, t) /\ t.bank_base = n /\ t.bank_offset = [b.bank_offset EXCEPT ![0] = n]
  BY DEF Placed, Fields
<1>3. eg3200_genieplus_out(b, value) = t
  BY DEF eg3200_genieplus_out, n
<1> HIDE DEF t
<1>4. t.bank_offset \in [0 .. 2 -> Int] /\ \A i \in 0 .. 2 : Within(t.bank_offset[i], 0, 786432)
  <2>1. Within(n, 0, 786432)
    BY <1>1 DEF Within
  <2> QED BY <1>2, <2>1, OffsetsSet DEF Ranged
<1>5. Ranged(t)
  <2>1. Placed(b, t) /\ t.bank_base \in Nat /\ t.bank_base <= 2427136
    BY <1>1, <1>2
  <2> QED BY <1>4, <2>1, RangedBanks
<1> DEFINE s == sys_byte_write(b, value % 16)
<1>6. Ranged(s)
  BY SysRanged
<1> HIDE DEF s
<1>7. OutEg3200(b, port, value) \in {t, s, b, m6845_select(b, value), m6845_crtc(b, value)}
  BY <1>3 DEF OutEg3200, s
<1>8. Ranged(m6845_select(b, value)) /\ Ranged(m6845_crtc(b, value))
  BY CrtcRanged
<1> QED BY <1>5, <1>6, <1>7, <1>8

LEMMA GenieBankRanged ==
  ASSUME NEW b, DOMAIN b = Fields, Ranged(b), b.model = 1, NEW value \in 0 .. 255
  PROVE  Ranged(genie3s_bank_out(b, value))
<1> DEFINE n == BitsOf(value, 6, 2) * 65536
           t == [b EXCEPT !.bank_base = n, !.sys_byte_2 = value]
<1>1. n \in Nat /\ n <= 196608
  <2> DEFINE r == BitsOf(value, 6, 2)
  <2>1. r \in Int /\ 0 <= r /\ r <= 3
    BY Bits
  <2> HIDE DEF r
  <2>2. r * 65536 \in Nat /\ r * 65536 <= 196608
    BY <2>1
  <2> QED BY <2>2 DEF r
<1> HIDE DEF n
<1>2. Placed(b, t) /\ t.bank_base = n /\ t.bank_offset = b.bank_offset
  BY DEF Placed, Fields
<1>3. genie3s_bank_out(b, value) \in {b, t}
  BY DEF genie3s_bank_out, n
<1> HIDE DEF t
<1>4. Ranged(t)
  BY <1>1, <1>2, RangedBanks DEF Ranged
<1> QED BY <1>3, <1>4

LEMMA GenieRanged ==
  ASSUME NEW b, DOMAIN b = Fields, Ranged(b), b.model = 1, b.clone = "GENIE3S",
         NEW port, NEW value \in 0 .. 255
  PROVE  Ranged(OutGenie3s(b, port, value))
<1>1. Ranged(m6845_select(b, value)) /\ Ranged(m6845_crtc(b, value))
  BY CrtcRanged
<1>2. Ranged(genie3s_mem_out(b, value))
  <2> DEFINE n == BitsOf(value, 0, 2) * 262144
             z == If(Bit(value, 7), n)
             t == [b EXCEPT !.mem_command = value, !.bank_offset[0] = n, !.bank_offset[1] = z]
  <2>1. n \in Nat /\ n <= 786432
    <3> DEFINE r == BitsOf(value, 0, 2)
    <3>1. r \in Int /\ 0 <= r /\ r <= 3
      BY Bits
    <3> HIDE DEF r
    <3>2. r * 262144 \in Nat /\ r * 262144 <= 786432
      BY <3>1
    <3> QED BY <3>2 DEF r
  <2> HIDE DEF n
  <2>2. Within(n, 0, 786432) /\ Within(z, 0, 786432)
    BY <2>1, IfWithin DEF Within
  <2>3. genie3s_mem_out(b, value) \in {b, t}
    BY DEF genie3s_mem_out, n
  <2> HIDE DEF z
  <2>4. Placed(b, t) /\ t.bank_base = b.bank_base
        /\ t.bank_offset = [[b.bank_offset EXCEPT ![0] = n] EXCEPT ![1] = z]
    BY DEF Placed, Fields
  <2> HIDE DEF t
  <2>5. t.bank_offset \in [0 .. 2 -> Int] /\ \A i \in 0 .. 2 : Within(t.bank_offset[i], 0, 786432)
    BY <2>2, <2>4, OffsetsSet DEF Ranged
  <2>6. Ranged(t)
    BY <2>4, <2>5, RangedBanks DEF Ranged, Placed
  <2> QED BY <2>3, <2>6
<1> QED BY <1>1, <1>2, GenieBankRanged, SysRanged DEF OutGenie3s

LEMMA Lnw80Ranged ==
  ASSUME NEW b, DOMAIN b = Fields, Ranged(b), b.model = 1, NEW port, NEW value \in 0 .. 255
  PROVE  Ranged(OutLnw80(b, port, value))
<1>1. Ranged(lnw80_bank_out(b, value))
  <2> DEFINE v == If(Bit(value, 6), 32768)
             t == [b EXCEPT !.bank_offset[1] = v, !.sys_byte_2 = value]
             page == If(Bit(value, 3), 1024)
  <2>1. Within(v, 0, 786432) /\ page \in {0, 1024, 2048}
    BY IfWithin DEF Within, If
  <2>2. lnw80_bank_out(b, value) \in {b, t, mem_video_page(t, page)}
    BY DEF lnw80_bank_out
  <2> HIDE DEF v, page
  <2>3. Placed(b, t) /\ t.bank_base = b.bank_base /\ t.bank_offset = [b.bank_offset EXCEPT ![1] = v]
        /\ DOMAIN t = Fields
    BY DEF Placed, Fields
  <2> HIDE DEF t
  <2>4. t.bank_offset \in [0 .. 2 -> Int] /\ \A i \in 0 .. 2 : Within(t.bank_offset[i], 0, 786432)
    BY <2>1, <2>3, OffsetsSet DEF Ranged
  <2>5. Ranged(t)
    BY <2>3, <2>4, RangedBanks DEF Ranged, Placed
  <2> QED BY <2>1, <2>2, <2>3, <2>5, PageRanged
<1> QED BY <1>1, OtherRanged, AnyRanged DEF OutLnw80

LEMMA SpeedmasterRanged ==
  ASSUME NEW b, DOMAIN b = Fields, Ranged(b), b.model = 1, NEW port, NEW value \in 0 .. 255
  PROVE  Ranged(OutSpeedmaster(b, port, value))
<1>1. Ranged(tcs_ram192b_out(b, value))
  <2> DEFINE x == BitsOf(value, 2, 2)
             y == BitsOf(value, 4, 2)
             n == (x * 4 * 192) + (y * 16 * 48 * 1024) + 65536
             t == [b EXCEPT !.bank_base = n, !.mem_command = value]
  <2>1. x \in Int /\ 0 <= x /\ x <= 3 /\ y \in Int /\ 0 <= y /\ y <= 3
    BY Bits
  <2>2. tcs_ram192b_out(b, value) = t
    BY DEF tcs_ram192b_out
  <2> HIDE DEF x, y
  <2>3. n \in Nat /\ n <= 2427136
    BY <2>1
  <2> HIDE DEF n
  <2>4. Placed(b, t) /\ t.bank_base = n /\ t.bank_offset = b.bank_offset
    BY DEF Placed, Fields
  <2> HIDE DEF t
  <2>5. Ranged(t)
    BY <2>3, <2>4, RangedBanks DEF Ranged
  <2> QED BY <2>2, <2>5
<1> QED BY <1>1, OtherRanged DEF OutSpeedmaster

\* A change of clone leaves the banks alone; only a CT-80's RAM disk lies too high for
\* another machine, and only a Genie IIIs and an LNW80 look at the page.
LEMMA CloneRanged ==
  ASSUME NEW b, DOMAIN b = Fields, Ranged(b), NEW clone,
         b.model = 1 => /\ clone = "GENIE3S" => GenieShown(b)
                        /\ clone = "LNW80" => PageShown(b)
                        /\ clone # "CT80" => b.bank_base <= 2427136
  PROVE  LET t == trs_clones_model(b, clone) IN
         Ranged(t) /\ t.bank_base = b.bank_base /\ t.video_addr = b.video_addr
<1> DEFINE t == trs_clones_model(b, clone)
<1>1. /\ t.model = b.model /\ t.clone = clone /\ t.video_addr = b.video_addr
      /\ t.megamem_base = b.megamem_base /\ t.supermem_base = b.supermem_base
      /\ t.bank_base = b.bank_base /\ t.bank_offset = b.bank_offset
      /\ t.sta = b.sta
  BY DEF trs_clones_model, mem_map, Fields
<1> HIDE DEF t
<1>2. Ranged(t)
  BY <1>1 DEF Ranged, PageShown, GenieShown
<1> QED BY <1>1, <1>2 DEF t

LEMMA OutModel1Ranged ==
  ASSUME NEW b, DOMAIN b = Fields, Ranged(b), b.model = 1, b.clone = "none",
         NEW port, NEW value \in 0 .. 255
  PROVE  Ranged(OutModel1(b, port, value))
<1>1. Ranged(selector_out(b, value)) /\ Ranged(OutAnyModel(b, port, value))
  BY SelectorRanged, AnyRanged
<1>2. port \in \h41 .. \h43 => Ranged(xmem80_out(b, port, value % 32))
  <2> DEFINE q == value % 32
  <2>1. q \in Nat /\ q <= 31
    BY Bits
  <2> HIDE DEF q
  <2>2. port \in \h41 .. \h43 => port \in {\h41, \h42, \h43}
    OBVIOUS
  <2>3. port \in \h41 .. \h43 => Ranged(xmem80_out(b, port, q))
    BY <2>1, <2>2, XmemRanged
  <2> QED BY <2>3 DEF q
<1>3. /\ Ranged(lubomir_out(b, value)) /\ Ranged(s80z_out(b, value))
      /\ Ranged(eg64_mba_out(b, value)) /\ Ranged(sys_byte_out(b, value))
  BY OtherRanged
<1>4. Ranged(genie3s_init_out(b, value))
  <2> DEFINE g == genie3s_bank_out(b, value)
             p == mem_video_page(g, 0)
  <2>1. Ranged(g) /\ DOMAIN g = Fields /\ g.model = 1 /\ g.clone = "none"
    <3>1. Quiet(b, g)
      BY Model1Quiet
    <3> QED BY <3>1, GenieBankRanged DEF Quiet, Kin
  <2> HIDE DEF g
  <2>2. Ranged(p) /\ GenieShown(p)
    BY <2>1, PageRanged
  <2>3. DOMAIN p = Fields /\ p.clone = "none"
    BY <2>1, PageQuiet DEF Quiet, Kin
  <2> HIDE DEF p
  <2>4. Ranged(trs_clones_model(p, "GENIE3S"))
    BY <2>2, <2>3, CloneRanged DEF Ranged
  <2> QED BY <2>4 DEF genie3s_init_out, p, g
<1>5. Ranged(eg3200_init_out(b, value))
  <2> DEFINE s == [b EXCEPT !.sys_byte = value]
  <2>1. Ranged(s)
    BY SysRanged DEF sys_byte_write
  <2>2. DOMAIN s = Fields /\ s.clone = "none"
    BY DEF Fields
  <2> HIDE DEF s
  <2>3. Ranged(trs_clones_model(s, "EG3200"))
    BY <2>1, <2>2, CloneRanged DEF Ranged
  <2> QED BY <2>3 DEF eg3200_init_out, s
<1>6. Ranged(m6845_select(b, value)) /\ Ranged(m6845_crtc(b, value))
  BY CrtcRanged
<1> QED BY <1>1, <1>2, <1>3, <1>4, <1>5, <1>6 DEF OutModel1

LEMMA ClonesRanged ==
  ASSUME NEW b, BoardOK(b), Ranged(b), b.model = 1, NEW port, NEW value \in 0 .. 255
  PROVE  Ranged(z80_out(b, port, value))
<1> DEFINE t == z80_out(b, port, value)
<1>0. DOMAIN b = Fields /\ b.clone \in Model1Clones
  BY DEF BoardOK, BuiltFrom, MapTrue
<1>1. CASE b.clone = "CT80"
  <2>1. t = OutCt80(b, port, value)
    BY <1>1 DEF z80_out
  <2> QED BY <1>0, <1>1, <2>1, Ct80Ranged
<1>2. CASE b.clone = "EG3200"
  <2>1. t = OutEg3200(b, port, value)
    BY <1>2 DEF z80_out
  <2> QED BY <1>0, <1>2, <2>1, Eg3200Ranged
<1>3. CASE b.clone = "GENIE3S"
  <2>1. t = OutGenie3s(b, port, value)
    BY <1>3 DEF z80_out
  <2> QED BY <1>0, <1>3, <2>1, GenieRanged
<1>4. CASE b.clone = "LNW80"
  <2>1. t = OutLnw80(b, port, value)
    BY <1>4 DEF z80_out
  <2> QED BY <1>0, <2>1, Lnw80Ranged
<1>5. CASE b.clone = "SPEEDMASTER"
  <2>1. t = OutSpeedmaster(b, port, value)
    BY <1>5 DEF z80_out
  <2> QED BY <1>0, <2>1, SpeedmasterRanged
<1>6. CASE b.clone = "none"
  <2>1. t = OutModel1(b, port, value)
    BY <1>6 DEF z80_out
  <2> QED BY <1>0, <1>6, <2>1, OutModel1Ranged
<1> QED BY <1>0, <1>1, <1>2, <1>3, <1>4, <1>5, <1>6 DEF Model1Clones

LEMMA BankRanged ==
  ASSUME NEW b, DOMAIN b = Fields, Ranged(b), b.model # 1, NEW command
  PROVE  Ranged(mem_bank(b, command))
<1> DEFINE base == b.bank_base
           t == mem_bank(b, command)
           pair(l, h) == [b.bank_offset EXCEPT ![0] = l, ![1] = h]
<1>1. base \in Nat /\ base <= 2031616
  BY DEF Ranged
<1>2. ASSUME NEW l \in Int, NEW h \in Int
      PROVE  pair(l, h) \in [0 .. 2 -> Int] /\ pair(l, h)[0] = l /\ pair(l, h)[1] = h
  BY DEF Ranged
<1>3. t.bank_offset \in {pair(0, 0), pair(0, base - 32768), pair(0, base), pair(base, 0),
                         pair(base + 32768, 0), b.bank_offset}
  BY DEF mem_bank, Fields
<1>4. Placed(b, t) /\ t.bank_base = b.bank_base
  BY DEF mem_bank, Placed, Fields
<1> DEFINE Fit(o) == /\ o \in [0 .. 2 -> Int]
                     /\ Within(o[0], 0, 2064384) /\ Within(o[1], -32768, 2031616)
<1> HIDE DEF t, base
<1>5. Fit(b.bank_offset)
  BY DEF Ranged
<1>6. ASSUME NEW l, NEW h, Within(l, 0, 2064384), Within(h, -32768, 2031616)
      PROVE  Fit(pair(l, h))
  BY <1>2, <1>6 DEF Within
<1>7. /\ Within(base - 32768, -32768, 2031616) /\ Within(base, -32768, 2031616)
      /\ Within(base, 0, 2064384) /\ Within(base + 32768, 0, 2064384)
      /\ Within(0, 0, 2064384) /\ Within(0, -32768, 2031616)
  BY <1>1 DEF Within
<1> HIDE DEF pair, Fit
<1>8. Fit(t.bank_offset)
  BY <1>3, <1>5, <1>6, <1>7
<1>9. Ranged(t)
  BY <1>4, <1>8 DEF Ranged, Placed, PageShown, GenieShown, Fit
<1> QED BY <1>9 DEF t

LEMMA MegamemRanged ==
  ASSUME NEW b, DOMAIN b = Fields, Ranged(b), NEW slot \in {0, 1, 2}, NEW value \in 0 .. 255
  PROVE  Ranged(megamem_out(b, slot, value))
<1> DEFINE q == BitsOf(value, 0, 6)
           n == (q * 16 + slot * 1024) * 1024 + MEGAMEM_START
           z == IF slot = 0 /\ value = 0 THEN 0 ELSE n
           t == megamem_out(b, slot, value)
<1>1. Within(n, 0, 4243456)
  <2>1. q \in Int /\ 0 <= q /\ q <= 63
    BY Bits
  <2> HIDE DEF q
  <2> DEFINE w == q * 16 + slot * 1024
  <2>2. w \in Int /\ 0 <= w /\ w <= 3056
    BY <2>1
  <2> HIDE DEF w
  <2>3. n = w * 1024 + 1114112
    BY DEF MEGAMEM_START, w
  <2> HIDE DEF n
  <2> QED BY <2>2, <2>3 DEF Within
<1> HIDE DEF n
<1>2. t.megamem_base = z
  BY DEF megamem_out, Fields, n
<1>3. Within(z, 0, 4243456)
  BY <1>1 DEF Within
<1>4. /\ t.model = b.model /\ t.clone = b.clone /\ t.supermem_base = b.supermem_base
      /\ t.bank_base = b.bank_base /\ t.bank_offset = b.bank_offset
      /\ t.video_addr = b.video_addr /\ t.sta = b.sta
  BY DEF megamem_out, Fields
<1> HIDE DEF t, z
<1>5. Ranged(t)
  BY <1>2, <1>3, <1>4 DEF Ranged, PageShown, GenieShown
<1> QED BY <1>5 DEF t

LEMMA OutModel3Ranged ==
  ASSUME NEW b, DOMAIN b = Fields, Ranged(b), b.model # 1, b.clone \notin {"CT80", "GENIE3S"},
         NEW port, NEW value \in 0 .. 255
  PROVE  Ranged(OutModel3(b, port, value))
<1>1. port \in {\h50, \h51, \h52, \h60, \h61, \h62} => Ranged(megamem_out(b, port % 16, value))
  <2> SUFFICES ASSUME port \in {\h50, \h51, \h52, \h60, \h61, \h62}
               PROVE  Ranged(megamem_out(b, port % 16, value))
    OBVIOUS
  <2>1. port % 16 \in {0, 1, 2}
    OBVIOUS
  <2> QED BY <2>1, MegamemRanged
<1>2. Ranged(vid80_vx3_out(b, value))
  <2> DEFINE t == vid80_vx3_out(b, value)
  <2>1. Placed(b, t) /\ t.bank_offset = b.bank_offset /\ t.bank_base = b.bank_base
    BY DEF vid80_vx3_out, Placed, Fields
  <2> HIDE DEF t
  <2>2. Ranged(t)
    BY <2>1, RangedSame
  <2> QED BY <2>2 DEF t
<1>3. Ranged(ModeImageOut(b, value))
  <2> DEFINE k == IF b.model = 3 /\ b.speedup = 4 THEN mem_map(b, If(Bit(value, 0), 5)) ELSE b
             t == [k EXCEPT !.modeimage = value]
  <2>1. ModeImageOut(b, value) \in {b, t}
    BY DEF ModeImageOut
  <2>2. Placed(b, k) /\ k.bank_offset = b.bank_offset /\ k.bank_base = b.bank_base
        /\ DOMAIN k = Fields
    BY DEF mem_map, Placed, Fields
  <2> HIDE DEF k
  <2>3. Placed(b, t) /\ t.bank_offset = b.bank_offset /\ t.bank_base = b.bank_base
    BY <2>2 DEF Placed, Fields
  <2> HIDE DEF t
  <2>4. Ranged(t)
    BY <2>3, RangedSame
  <2> QED BY <2>1, <2>4
<1>4. Ranged(OutAnyModel(b, port, value))
  BY AnyRanged
<1>5. Ranged(m6845_select(b, value)) /\ Ranged(m6845_crtc(b, value))
  BY CrtcRanged
<1> QED BY <1>1, <1>2, <1>3, <1>4, <1>5 DEF OutModel3

LEMMA ModeSelectRanged ==
  ASSUME NEW b, DOMAIN b = Fields, Ranged(b), b.model # 1, NEW value
  PROVE  LET t == ModeSelectOut(b, value) IN Ranged(t) /\ DOMAIN t = Fields /\ t.model = b.model
<1> DEFINE paged == IF Bit(value, 7) # Bit(b.modesel, 7)
                    THEN mem_video_page(b, If(Bit(value, 7), 1024)) ELSE b
           banked == IF BitsOf(value, 4, 3) # BitsOf(b.modesel, 4, 3)
                     THEN mem_bank(paged, BitsOf(value, 4, 3)) ELSE paged
           mapped == IF value % 4 # b.modesel % 4 THEN mem_map(banked, value % 4) ELSE banked
           t == [mapped EXCEPT !.modesel = value]
<1>1. Ranged(paged) /\ DOMAIN paged = Fields /\ paged.model = b.model
  <2> DEFINE page == If(Bit(value, 7), 1024)
             p == mem_video_page(b, page)
  <2>1. page \in {0, 1024, 2048}
    BY DEF If
  <2> HIDE DEF page
  <2>2. Ranged(p) /\ Quiet(b, p)
    BY <2>1, PageRanged, PageQuiet
  <2>3. paged \in {b, p}
    BY DEF page
  <2> HIDE DEF p, paged
  <2> QED BY <2>2, <2>3 DEF Quiet, Kin
<1> HIDE DEF paged
<1>2. Ranged(banked) /\ DOMAIN banked = Fields /\ banked.model = b.model
  <2> DEFINE k == mem_bank(paged, BitsOf(value, 4, 3))
  <2>1. Ranged(k) /\ Quiet(paged, k)
    BY <1>1, BankRanged, BankQuiet
  <2>2. banked \in {paged, k}
    OBVIOUS
  <2> HIDE DEF k, banked
  <2> QED BY <1>1, <2>1, <2>2 DEF Quiet, Kin
<1> HIDE DEF banked
<1>3. Placed(banked, mapped) /\ mapped.bank_offset = banked.bank_offset
      /\ mapped.bank_base = banked.bank_base /\ DOMAIN mapped = Fields
  BY <1>2 DEF mem_map, Placed, Fields
<1>4. ModeSelectOut(b, value) = t
  BY DEF ModeSelectOut, mapped, banked, paged
<1> HIDE DEF mapped
<1>5. Placed(banked, t) /\ t.bank_offset = banked.bank_offset
      /\ t.bank_base = banked.bank_base /\ DOMAIN t = Fields
  BY <1>3 DEF Placed, Fields
<1> HIDE DEF t
<1>6. Ranged(t)
  BY <1>2, <1>5, RangedSame
<1> QED BY <1>2, <1>4, <1>5, <1>6 DEF Placed

\* A Model 4 is given another bank base, and banks by it.
LEMMA BaseRanged ==
  ASSUME NEW b, DOMAIN b = Fields, Ranged(b), b.model # 1, NEW base \in Nat, base <= 2031616
  PROVE  LET t == [b EXCEPT !.bank_base = base] IN
         Ranged(t) /\ Quiet(b, t)
<1> DEFINE t == [b EXCEPT !.bank_base = base]
<1>1. Placed(b, t) /\ t.bank_offset = b.bank_offset /\ t.bank_base = base /\ Quiet(b, t)
  BY DEF Placed, Fields, Quiet, Kin
<1> HIDE DEF t
<1>2. Ranged(t)
  BY <1>1 DEF Ranged, Placed, PageShown, GenieShown
<1> QED BY <1>1, <1>2 DEF t

LEMMA OutModel4Ranged ==
  ASSUME NEW b, DOMAIN b = Fields, Ranged(b), b.model # 1, b.clone \notin {"CT80", "GENIE3S"},
         NEW port, NEW value \in 0 .. 255
  PROVE  Ranged(OutModel4(b, port, value))
<1>1. Ranged(ModeSelectOut(b, value)) /\ Ranged(OutModel3(b, port, value))
  BY ModeSelectRanged, OutModel3Ranged
<1>2. Ranged(hypermem_out(b, value))
  <2> DEFINE q == BitsOf(value, 1, 4)
             n == (q * 65536) + 65536
             t == [b EXCEPT !.bank_base = n]
  <2>1. n \in Nat /\ n <= 2031616
    <3>1. q \in Int /\ 0 <= q /\ q <= 15
      BY Bits
    <3> HIDE DEF q
    <3> QED BY <3>1
  <2>2. hypermem_out(b, value) = mem_bank(t, b.mem_command)
    BY DEF hypermem_out
  <2> HIDE DEF n
  <2>3. Ranged(t) /\ Quiet(b, t)
    BY <2>1, BaseRanged
  <2> HIDE DEF t
  <2> QED BY <2>2, <2>3, BankRanged DEF Quiet, Kin
<1>3. Ranged(huffman_out(b, value))
  <2> DEFINE q == value % 32
             n == q * 65536
             t == [b EXCEPT !.bank_base = n]
  <2>1. n \in Nat /\ n <= 2031616
    <3>1. q \in Int /\ 0 <= q /\ q <= 31
      BY Bits
    <3> HIDE DEF q
    <3> QED BY <3>1
  <2>2. huffman_out(b, value) = mem_bank(t, b.mem_command)
    BY DEF huffman_out
  <2> HIDE DEF n
  <2>3. Ranged(t) /\ Quiet(b, t)
    BY <2>1, BaseRanged
  <2> HIDE DEF t
  <2> QED BY <2>2, <2>3, BankRanged DEF Quiet, Kin
<1> DEFINE s == sys_byte_write(b, value % 2)
<1>4. Ranged(s)
  BY SysRanged
<1>5. OutModel4(b, port, value) \in {ModeSelectOut(b, value), hypermem_out(b, value),
                                    huffman_out(b, value), s, OutModel3(b, port, value)}
  BY DEF OutModel4
<1> HIDE DEF s
<1> QED BY <1>1, <1>2, <1>3, <1>4, <1>5

LEMMA OutRanged ==
  ASSUME NEW b, BoardOK(b), Ranged(b), NEW port, NEW value \in 0 .. 255
  PROVE  Ranged(z80_out(b, port, value))
<1> DEFINE t == z80_out(b, port, value)
<1>0. DOMAIN b = Fields /\ b.model \in {1, 3, 4, 5}
  BY BuiltFacts DEF BoardOK
<1>1. CASE b.model = 1
  BY <1>1, ClonesRanged
<1>2. CASE b.model = 3
  <2>1. t = OutModel3(b, port, value)
    BY <1>2 DEF z80_out
  <2>2. b.model # 1 /\ b.clone \notin {"CT80", "GENIE3S"}
    BY <1>2 DEF BoardOK, MapTrue
  <2> QED BY <1>0, <2>1, <2>2, OutModel3Ranged
<1>3. CASE b.model \in {4, 5}
  <2>1. t = OutModel4(b, port, value)
    BY <1>3 DEF z80_out
  <2>2. b.model # 1 /\ b.clone \notin {"CT80", "GENIE3S"}
    BY <1>3, Mode4Map DEF BoardOK
  <2> QED BY <1>0, <2>1, <2>2, OutModel4Ranged
<1> QED BY <1>0, <1>1, <1>2, <1>3

LEMMA SwitchModeRanged ==
  ASSUME NEW b, DOMAIN b = Fields, Ranged(b), b.model = 3, NEW mode
  PROVE  Ranged(cp500_switch_mode(b, mode))
<1> DEFINE k(n) == mem_map(b, n)
           page(n) == mem_video_page(k(3), n)
<1>1. ASSUME NEW n PROVE Ranged(k(n)) /\ DOMAIN k(n) = Fields /\ k(n).model = 3
  <2> DEFINE m == k(n)
  <2>1. Placed(b, m) /\ m.bank_offset = b.bank_offset /\ m.bank_base = b.bank_base
        /\ DOMAIN m = Fields
    BY DEF mem_map, Placed, Fields
  <2> HIDE DEF m
  <2>2. Ranged(m)
    BY <2>1, RangedSame
  <2> QED BY <2>1, <2>2 DEF m, Placed
<1> HIDE DEF k
<1>2. ASSUME NEW n \in {0, 1024, 2048}
      PROVE  Ranged(page(n)) /\ DOMAIN page(n) = Fields /\ page(n).model = 3
  BY <1>1, PageRanged, PageQuiet DEF Quiet, Kin
<1>3. ASSUME NEW c, DOMAIN c = Fields, Ranged(c), c.model = 3, NEW clone
      PROVE  Ranged(trs_clones_model(c, clone))
  BY <1>3, CloneRanged
<1>4. mode \in {\h05, \h45, \h85} => (mode \div 64) * 1024 \in {0, 1024, 2048}
  OBVIOUS
<1>5. \/ \E n, clone : cp500_switch_mode(b, mode) = trs_clones_model(k(n), clone)
      \/ /\ mode \in {\h05, \h45, \h85}
         /\ cp500_switch_mode(b, mode) = trs_clones_model(page((mode \div 64) * 1024), "CP500_M80")
      \/ cp500_switch_mode(b, mode) = b
  BY DEF cp500_switch_mode, k
<1> HIDE DEF page
<1> QED BY <1>1, <1>2, <1>3, <1>4, <1>5

LEMMA ClearedRanged ==
  ASSUME NEW b, DOMAIN b = Fields, Ranged(b), NEW poweron \in BOOLEAN
  PROVE  LET t == IF poweron THEN mem_video_page(mem_map(Cleared(b), 0), 0) ELSE Cleared(b) IN
         /\ Ranged(t) /\ t.bank_base = 65536
         /\ IF poweron THEN PageShown(t) ELSE t.video_addr = b.video_addr
<1> DEFINE o == Offsets(0, 0)
           c == Cleared(b)
           m == mem_map(c, 0)
           v == mem_video_page(m, 0)
<1>1. Kin(b, c) /\ c.clone = b.clone
  BY ClearedRuns, Zenon
<1>2. /\ c.bank_base = 65536 /\ c.bank_offset = o /\ c.megamem_base = 0 /\ c.supermem_base = 0
      /\ c.video_addr = b.video_addr /\ c.sta = b.sta
  BY DEF Cleared, Fields
<1> HIDE DEF c
<1>3. /\ o \in [0 .. 2 -> Int] /\ \A i \in 0 .. 2 : Within(o[i], 0, 786432)
      /\ Within(o[0], 0, 2064384) /\ Within(o[1], -32768, 2031616)
  BY DEF Offsets, Within
<1> HIDE DEF o
<1>4. Within(0, 0, 4243456) /\ Within(0, 0, 1015808)
  BY DEF Within
<1>5. c.model = b.model /\ DOMAIN c = Fields
  BY <1>1 DEF Kin
<1>6. Ranged(c)
  <2>1. c.video_addr \in Int /\ c.bank_base \in Nat /\ c.bank_base <= 2031616
        /\ c.bank_base <= 2427136
    BY <1>2 DEF Ranged
  <2>2. (PageShown(b) => PageShown(c)) /\ (GenieShown(b) => GenieShown(c))
    BY <1>2 DEF PageShown, GenieShown
  <2> QED BY <1>1, <1>2, <1>3, <1>4, <1>5, <2>1, <2>2 DEF Ranged
<1>7. /\ Placed(c, m) /\ m.bank_offset = c.bank_offset /\ m.bank_base = c.bank_base
      /\ DOMAIN m = Fields
  BY <1>5 DEF mem_map, Placed, Fields
<1> HIDE DEF m
<1>8. Ranged(m)
  BY <1>6, <1>7, RangedSame
<1>9. Ranged(v) /\ PageShown(v) /\ v.bank_base = 65536
  <2>1. v.bank_base = m.bank_base
    BY <1>7 DEF mem_video_page, Fields
  <2> QED BY <1>2, <1>7, <1>8, <2>1, PageRanged
<1> HIDE DEF v
<1>10. CASE poweron
  BY <1>9, <1>10 DEF v, m, c
<1>11. CASE ~poweron
  BY <1>2, <1>6, <1>11 DEF c
<1> QED BY <1>10, <1>11

LEMMA SpeedupRanged ==
  ASSUME NEW b, DOMAIN b = Fields, Ranged(b),
         b.model = 1 => b.bank_base = 65536 /\ (b.speedup = 6 => PageShown(b))
  PROVE  Ranged(SpeedupClone(b))
<1>1. b.model = 1 => b.bank_base <= 2427136
  OBVIOUS
<1>2. \/ SpeedupClone(b) = b
      \/ b.model = 1 /\ SpeedupClone(b) = trs_clones_model(b, "CT80")
      \/ b.model = 1 /\ b.speedup = 6 /\ SpeedupClone(b) = trs_clones_model(b, "LNW80")
      \/ b.model = 1 /\ SpeedupClone(b) = trs_clones_model(b, "SPEEDMASTER")
  BY DEF SpeedupClone
<1> QED BY <1>1, <1>2, CloneRanged

LEMMA BecomesOwn ==
  ASSUME NEW b, DOMAIN b = Fields, b.model = 1, NEW clone,
         b.memory_map \in \h1A .. \h1E => b.memory_map = CloneMap[b.clone] + 16
  PROVE  LET t == trs_clones_model(b, clone) IN
         /\ t.memory_map \in \h1A .. \h1E => t.memory_map = CloneMap[t.clone] + 16
         /\ t.clone = clone /\ t.speedup = b.speedup
<1> DEFINE t == trs_clones_model(b, clone)
<1>1. /\ Kin(b, t) /\ t.clone = clone
      /\ clone # b.clone => t.memory_map = CloneMap[clone] + 16 * b.model
      /\ clone = b.clone => t = b
  BY CloneRuns
<1> HIDE DEF t
<1>2. 16 * b.model = 16
  OBVIOUS
<1> QED BY <1>1, <1>2 DEF Kin, t

LEMMA SpeedupMap ==
  ASSUME NEW b, DOMAIN b = Fields, b.model = 1,
         b.memory_map \in \h1A .. \h1E => b.memory_map = CloneMap[b.clone] + 16
  PROVE  OwnMap(SpeedupClone(b))
<1> DEFINE t == SpeedupClone(b)
<1>1. CASE b.speedup = 6
  <2>1. t = trs_clones_model(b, "LNW80")
    BY <1>1 DEF SpeedupClone
  <2> HIDE DEF t
  <2> QED BY <2>1, BecomesOwn DEF OwnMap, t
<1>2. CASE b.speedup # 6
  <2>1. t = b \/ t = trs_clones_model(b, "CT80") \/ t = trs_clones_model(b, "SPEEDMASTER")
    BY <1>2 DEF SpeedupClone
  <2> HIDE DEF t
  <2> QED BY <1>2, <2>1, BecomesOwn DEF OwnMap, t
<1> QED BY <1>1, <1>2

LEMMA ResetRanged ==
  ASSUME NEW b, BuiltFrom(b), Ranged(b), NEW poweron \in BOOLEAN, poweron \/ OwnMap(b)
  PROVE  LET t == trs_reset(b, poweron) IN Ranged(t) /\ OwnMap(t)
<1> DEFINE i == IF poweron THEN mem_video_page(mem_map(Cleared(b), 0), 0) ELSE Cleared(b)
           j == m6845_crtc_reset(i)
           p == IF IsFullReset(b, poweron) THEN trs_clones_model(j, "none") ELSE i
           o == IF b.model = 5 THEN sys_byte_write(p, 1) ELSE p
           m == IF b.model >= 4 THEN ModeSelectOut(o, 0) ELSE o
           h == IF b.model >= 4 /\ b.card = "huffman" THEN [m EXCEPT !.bank_base = 0] ELSE m
           l == IF b.model = 3 THEN trs_clones_model(h, "none") ELSE h
           t == SpeedupClone(l)
<1>0. DOMAIN b = Fields /\ b.model \in {1, 3, 4, 5}
  BY BuiltFacts
<1>1. /\ Kin(b, i) /\ i.clone = b.clone
      /\ i.memory_map = IF poweron THEN 0 + 16 * b.model ELSE b.memory_map
  BY <1>0, ClearedRuns
<1>2. /\ Ranged(i) /\ i.bank_base = 65536
      /\ IF poweron THEN PageShown(i) ELSE i.video_addr = b.video_addr
  BY <1>0, ClearedRanged
<1>3. b.model = 1 /\ b.speedup = 6 => PageShown(i)
  <2>1. CASE poweron
    BY <1>2, <2>1
  <2>2. CASE ~poweron
    BY <1>2, <2>2 DEF OwnMap, Ranged, PageShown
  <2> QED BY <2>1, <2>2
<1> HIDE DEF i
<1>4. /\ Ranged(j) /\ Kin(i, j) /\ j.bank_base = 65536 /\ j.video_addr = i.video_addr
       /\ j.clone = i.clone /\ j.memory_map = i.memory_map
  <2>1. /\ Kin(i, j) /\ j.bank_base = i.bank_base /\ j.video_addr = i.video_addr
        /\ j.clone = i.clone /\ j.memory_map = i.memory_map /\ j.bank_offset = i.bank_offset
        /\ j.megamem_base = i.megamem_base /\ j.supermem_base = i.supermem_base /\ j.sta = 0
    BY <1>1 DEF m6845_crtc_reset, Kin, Fields
  <2> HIDE DEF j
  <2>2. j.model = i.model /\ Within(0, 0, 16383)
    BY <2>1 DEF Kin, Within
  <2>3. Ranged(j)
    BY <1>2, <2>1, <2>2 DEF Ranged, PageShown, GenieShown
  <2> QED BY <1>2, <2>1, <2>3
<1> HIDE DEF j
<1> DEFINE n == trs_clones_model(j, "none")
<1>5. /\ Ranged(n) /\ n.bank_base = 65536 /\ n.video_addr = i.video_addr
      /\ Kin(j, n) /\ n.clone = "none"
      /\ "none" # j.clone => n.memory_map = CloneMap["none"] + 16 * j.model
      /\ "none" = j.clone => n = j
  <2>1. DOMAIN j = Fields /\ j.bank_base <= 2427136
    BY <1>4 DEF Kin
  <2>2. Ranged(n) /\ n.bank_base = 65536 /\ n.video_addr = i.video_addr
    BY <1>4, <2>1, CloneRanged
  <2> QED BY <2>1, <2>2, CloneRuns
<1>6. p \in {i, n}
  OBVIOUS
<1> HIDE DEF n, p
<1>7. /\ Ranged(p) /\ Kin(b, p) /\ p.bank_base = 65536 /\ p.video_addr = i.video_addr
  BY <1>1, <1>2, <1>5, <1>6, <1>4 DEF Kin
<1>8. b.model = 1 /\ p.memory_map \in \h1A .. \h1E => p.memory_map = CloneMap[p.clone] + 16
  <2> SUFFICES ASSUME b.model = 1, p.memory_map \in \h1A .. \h1E
               PROVE  p.memory_map = CloneMap[p.clone] + 16
    OBVIOUS
  <2>1. 16 * b.model = 16 /\ CloneMap["none"] = 0 /\ i.model = 1 /\ j.model = 1
    BY <1>1, <1>4 DEF CloneMap, Kin
  <2>2. i.memory_map \in \h1A .. \h1E => i.memory_map = CloneMap[i.clone] + 16
    BY <1>1, <2>1 DEF OwnMap
  <2>3. p.memory_map = i.memory_map /\ p.clone = i.clone
    BY <1>5, <1>6, <1>4, <2>1
  <2> QED BY <2>2, <2>3
<1>9. /\ Ranged(o) /\ Kin(b, o) /\ (b.model = 1 => o = p)
  <2>1. DOMAIN p = Fields
    BY <1>7 DEF Kin
  <2>2. Ranged(sys_byte_write(p, 1)) /\ Quiet(p, sys_byte_write(p, 1))
    BY <1>7, <2>1, SysRanged, Model1Quiet
  <2>3. b.model = 1 => b.model # 5
    OBVIOUS
  <2>4. o \in {p, sys_byte_write(p, 1)} /\ (b.model # 5 => o = p)
    OBVIOUS
  <2> HIDE DEF o
  <2> QED BY <1>7, <2>2, <2>3, <2>4 DEF Quiet, Kin
<1> HIDE DEF o
<1>10. Ranged(m) /\ Kin(b, m) /\ (b.model = 1 => m = o)
  <2>1. DOMAIN o = Fields /\ o.model = b.model
    BY <1>9 DEF Kin
  <2>2. b.model # 1 => Ranged(ModeSelectOut(o, 0)) /\ Kin(o, ModeSelectOut(o, 0))
    BY <1>9, <2>1, ModeSelectRanged, ModeSelectRuns
  <2>3. b.model >= 4 => b.model # 1
    OBVIOUS
  <2>4. IF b.model >= 4 THEN m = ModeSelectOut(o, 0) ELSE m = o
    OBVIOUS
  <2> HIDE DEF m
  <2> QED BY <1>9, <2>2, <2>3, <2>4 DEF Kin
<1> HIDE DEF m
<1>11. Ranged(h) /\ Kin(b, h) /\ (b.model = 1 => h = m)
  <2> DEFINE z == [m EXCEPT !.bank_base = 0]
  <2>1. DOMAIN m = Fields /\ m.model = b.model
    BY <1>10 DEF Kin
  <2>2. b.model # 1 => Ranged(z) /\ Quiet(m, z)
    BY <1>10, <2>1, BaseRanged
  <2>3. b.model >= 4 => b.model # 1
    OBVIOUS
  <2>4. h = m \/ (b.model >= 4 /\ h = z)
    OBVIOUS
  <2>5. b.model = 1 => h = m
    BY <2>3
  <2> HIDE DEF h, z
  <2> QED BY <1>10, <2>2, <2>3, <2>4, <2>5 DEF Quiet, Kin
<1> HIDE DEF h
<1>12. Ranged(l) /\ Kin(b, l) /\ (b.model = 1 => l = h)
  <2> DEFINE z == trs_clones_model(h, "none")
  <2>1. DOMAIN h = Fields /\ h.model = b.model
    BY <1>11 DEF Kin
  <2>2. b.model # 1 => Ranged(z) /\ Kin(h, z)
    BY <1>11, <2>1, CloneRanged, CloneRuns
  <2>3. b.model = 3 => b.model # 1
    OBVIOUS
  <2>4. IF b.model = 3 THEN l = z ELSE l = h
    OBVIOUS
  <2> HIDE DEF l, z
  <2> QED BY <1>11, <2>2, <2>3, <2>4 DEF Kin
<1> HIDE DEF l
<1>13. DOMAIN l = Fields /\ l.model = b.model /\ l.speedup = b.speedup
  BY <1>12 DEF Kin
<1>14. b.model = 1 => l = p
  BY <1>9, <1>10, <1>11, <1>12
<1>15. Ranged(t)
  <2>1. b.model = 1 => l.bank_base = 65536 /\ (l.speedup = 6 => PageShown(l))
    BY <1>3, <1>7, <1>13, <1>14 DEF PageShown
  <2> QED BY <1>12, <1>13, <2>1, SpeedupRanged
<1>16. OwnMap(t)
  <2>1. CASE b.model = 1
    <3>1. l.memory_map \in \h1A .. \h1E => l.memory_map = CloneMap[l.clone] + 16
      BY <1>8, <1>14, <2>1
    <3> QED BY <1>13, <2>1, <3>1, SpeedupMap
  <2>2. CASE b.model # 1
    <3>1. t = l
      BY <1>13, <2>2 DEF SpeedupClone
    <3> QED BY <1>13, <2>2, <3>1 DEF OwnMap
  <2> QED BY <2>1, <2>2
<1>17. trs_reset(b, poweron) = t
  BY DEF trs_reset, i, j, p, o, m, h, l
<1> HIDE DEF t
<1> QED BY <1>15, <1>16, <1>17

LEMMA OutOwn ==
  ASSUME NEW b, BoardOK(b), OwnMap(b), NEW port, NEW value \in 0 .. 255
  PROVE  OwnMap(z80_out(b, port, value))
<1> DEFINE t == z80_out(b, port, value)
<1>1. CASE b.model = 1
  <2>1. \/ Quiet(b, t) \/ Remapped(b, t)
        \/ /\ b.speedup < 4 /\ b.romSize <= \h2000
           /\ \E c : \E clone \in {"GENIE3S", "EG3200"} :
                Quiet(b, c) /\ t = trs_clones_model(c, clone)
    BY <1>1, OutMaps
  <2> HIDE DEF t
  <2> DEFINE own(c) == /\ c.memory_map \in \h1A .. \h1E => c.memory_map = CloneMap[c.clone] + 16
                       /\ c.speedup = 6 => c.clone = "LNW80"
  <2>6. own(b)
    BY <1>1 DEF OwnMap
  <2>7. own(t) => OwnMap(t)
    BY DEF OwnMap
  <2>2. ASSUME Quiet(b, t) PROVE OwnMap(t)
    <3>1. t.memory_map = b.memory_map /\ t.clone = b.clone /\ t.speedup = b.speedup
      BY <2>2 DEF Quiet, Kin
    <3>2. own(t)
      BY <2>6, <3>1
    <3> QED BY <2>7, <3>2
  <2>3. ASSUME Remapped(b, t) PROVE OwnMap(t)
    <3>1. t.clone = b.clone /\ t.speedup = b.speedup
      BY <2>3 DEF Remapped, Kin
    <3>2. t.memory_map \in \h1A .. \h1E => t.memory_map = b.memory_map
      BY <2>3 DEF Remapped
    <3>3. own(t)
      BY <2>6, <3>1, <3>2
    <3> QED BY <2>7, <3>3
  <2>4. ASSUME b.speedup < 4, NEW c, NEW clone, Quiet(b, c), t = trs_clones_model(c, clone)
        PROVE  OwnMap(t)
    <3>1. /\ DOMAIN c = Fields /\ c.model = 1 /\ c.speedup = b.speedup
          /\ c.memory_map \in \h1A .. \h1E => c.memory_map = CloneMap[c.clone] + 16
      BY <1>1, <2>4 DEF OwnMap, Quiet, Kin
    <3>2. /\ t.memory_map \in \h1A .. \h1E => t.memory_map = CloneMap[t.clone] + 16
          /\ t.speedup = b.speedup
      BY <2>4, <3>1, BecomesOwn
    <3>3. b.speedup # 6
      BY <2>4
    <3>4. own(t)
      BY <3>2, <3>3
    <3> QED BY <2>7, <3>4
  <2>5. OwnMap(t)
    BY <2>1, <2>2, <2>3, <2>4
  <2> QED BY <2>5 DEF t
<1>2. CASE b.model # 1
  <2>1. t.model = b.model
    BY OutOK DEF Kin
  <2> QED BY <1>2, <2>1 DEF OwnMap
<1> QED BY <1>1, <1>2

LEMMA StartedRanged ==
  ASSUME NEW m \in Builds
  PROVE  Ranged(Started(m))
<1> DEFINE b == Started(m)
           o == Offsets(0, 0)
<1>1. /\ b.bank_base = 0 /\ b.bank_offset = o /\ b.megamem_base = 0 /\ b.supermem_base = 0
      /\ b.video_addr = -VIDEO_START /\ b.clone = "none" /\ b.sta = 0
  BY DEF Started
<1> HIDE DEF b
<1>2. /\ o \in [0 .. 2 -> Int] /\ \A i \in 0 .. 2 : Within(o[i], 0, 786432)
      /\ Within(o[0], 0, 2064384) /\ Within(o[1], -32768, 2031616)
  BY DEF Offsets, Within
<1> HIDE DEF o
<1>3. Within(0, 0, 4243456) /\ Within(0, 0, 1015808) /\ Within(0, 0, 16383)
  BY DEF Within
<1>4. b.video_addr \in Int /\ PageShown(b)
  BY <1>1 DEF PageShown, VIDEO_START
<1>5. Ranged(b)
  BY <1>1, <1>2, <1>3, <1>4 DEF Ranged
<1> QED BY <1>5 DEF b

LEMMA LoadRanged ==
  ASSUME NEW b, BoardOK(b), NEW file, BoardOK(file), Ranged(file), OwnMap(file)
  PROVE  Ranged(trs_state_load(b, file)) /\ OwnMap(trs_state_load(b, file))
<1> DEFINE c == LoadedClone(b, file)
           p == LoadedPorts(c, file)
           t == LoadedMemory(p, file)
<1>0. DOMAIN b = Fields /\ DOMAIN file = Fields
  BY DEF BoardOK, BuiltFrom
<1>1. DOMAIN c = Fields /\ c.clone = file.clone
  BY <1>0, CloneRuns DEF LoadedClone, Kin
<1> HIDE DEF c
<1>2. p.clone = file.clone /\ p.sta = file.sta
  BY <1>1 DEF LoadedPorts, Fields
<1> HIDE DEF p
<1>3. /\ Placed(file, t) /\ t.bank_offset = file.bank_offset /\ t.bank_base = file.bank_base
      /\ t.memory_map = file.memory_map /\ t.speedup = file.speedup
  BY <1>0, <1>2 DEF LoadedMemory, Placed, Fields
<1>4. trs_state_load(b, file) = t
  BY DEF trs_state_load, p, c
<1> HIDE DEF t
<1>5. Ranged(t)
  BY <1>3, RangedSame
<1>6. OwnMap(t)
  BY <1>3 DEF OwnMap, Placed
<1> QED BY <1>4, <1>5, <1>6

\* The registers are such that no map leads outside.
Reach(b) == Ranged(b) /\ OwnMap(b)
ReachInv == Reach(board) /\ (saved # None => Reach(saved.board))

LEMMA InitReach == Init => ReachInv
<1> SUFFICES ASSUME Init PROVE ReachInv
  OBVIOUS
<1>1. PICK m \in Builds : board = trs_reset(Started(m), TRUE)
  BY DEF Init
<1>2. BuiltFrom(Started(m)) /\ Ranged(Started(m))
  BY StartedRuns, StartedRanged
<1>3. ASSUME NEW poweron \in BOOLEAN, poweron PROVE Reach(trs_reset(Started(m), poweron))
  BY <1>2, <1>3, ResetRanged DEF Reach
<1>4. Reach(trs_reset(Started(m), TRUE))
  BY <1>3, Zenon
<1> QED BY <1>1, <1>4 DEF Init, ReachInv

LEMMA NextReach == Inv /\ ReachInv /\ [Next]_vars => ReachInv'
<1> SUFFICES ASSUME Inv, ReachInv, [Next]_vars PROVE ReachInv'
  OBVIOUS
<1>0. BoardOK(board) /\ Ranged(board) /\ OwnMap(board)
  BY DEF Inv, ReachInv, Reach
<1>1. ASSUME NEW port, NEW value, Out(port, value) PROVE ReachInv'
  <2>1. /\ value \in 0 .. 255
        /\ board' = z80_out(board, port, value) /\ saved' = saved
    BY <1>1 DEF Out, StartsOver
  <2>2. Reach(board')
    BY <1>0, <2>1, OutRanged, OutOwn DEF Reach
  <2> QED BY <2>1, <2>2 DEF ReachInv
<1>2. ASSUME NEW mode, SwitchMode(mode) PROVE ReachInv'
  <2>1. board.model = 3 /\ board' = cp500_switch_mode(board, mode) /\ saved' = saved
    BY <1>2 DEF SwitchMode, StartsOver
  <2>2. DOMAIN board = Fields
    BY <1>0 DEF BoardOK, BuiltFrom
  <2>3. Ranged(board') /\ Kin(board, board')
    BY <1>0, <2>1, <2>2, SwitchModeRanged, SwitchModeOK
  <2>4. OwnMap(board')
    BY <2>1, <2>3 DEF OwnMap, Kin
  <2> QED BY <2>1, <2>3, <2>4 DEF ReachInv, Reach
<1>3. ASSUME NEW poweron \in BOOLEAN, Reset(poweron) PROVE ReachInv'
  <2>1. board' = trs_reset(board, poweron) /\ saved' = saved
    BY <1>3 DEF Reset, StartsOver
  <2>2. Reach(board')
    BY <1>0, <2>1, ResetRanged DEF BoardOK, Reach
  <2> QED BY <2>1, <2>2 DEF ReachInv
<1>4. CASE Save
  <2>1. board' = board /\ saved'.board = board
    BY <1>4 DEF Save
  <2> QED BY <2>1 DEF ReachInv
<1>5. CASE Load
  <2>1. saved # None /\ board' = trs_state_load(board, saved.board) /\ saved' = saved
    BY <1>5 DEF Load
  <2>2. BoardOK(saved.board) /\ Ranged(saved.board) /\ OwnMap(saved.board)
    BY <2>1 DEF Inv, ReachInv, Reach
  <2>3. Reach(board')
    BY <1>0, <2>1, <2>2, LoadRanged DEF Reach
  <2> QED BY <2>1, <2>3 DEF ReachInv
<1>6. CASE UNCHANGED vars
  BY <1>6 DEF ReachInv, vars
<1> QED BY <1>1, <1>2, <1>3, <1>4, <1>5, <1>6 DEF Next

LEMMA RamDiskInside ==
  ASSUME NEW b, Ranged(b), NEW port \in {0, 1}
  PROVE  Inside(RamDiskByte(b, port))
<1>1. b.bank_base \in Nat
  BY DEF Ranged
<1>2. b.bank_base < MAX_MEMORY_SIZE - port => b.bank_base < 4259840
  BY <1>1 DEF MAX_MEMORY_SIZE
<1> QED BY <1>1, <1>2, Insides DEF RamDiskByte

-----------------------------------------------------------------------------
(* The properties.                                                         *)

\* The ROMs of the two clones a build chooses leave the devices free, as a 12K BASIC
\* does.  A longer CT-80 ROM would be read at EFE0 of CP/M's map, where mem_pointer lends
\* another of its bytes, and a longer LNW80 ROM at F700, where it lends memory[].
RomsFit ==
  \A m \in Builds :
    m.model = 1 => /\ (m.speedup = 5 => m.romSize <= \h37E0)
                   /\ (m.speedup = 6 => m.romSize <= \h3700)

LEMMA BoardRomFits ==
  ASSUME RomsFit, NEW b, BoardOK(b)
  PROVE  RomFits(b)
<1>0. b.model \in {1, 3, 4, 5} /\ b.romSize \in Nat
  BY BuiltFacts DEF BoardOK
<1>1. PICK m \in Builds : b.model = m.model /\ b.speedup = m.speedup /\ b.romSize = m.romSize
  BY DEF BoardOK, BuiltFrom
<1>2. CASE b.model = 1
  <2>1. b.memory_map \in \h10 .. \h1E /\ ClonesFit(b)
    BY <1>2 DEF BoardOK, MapTrue
  <2>2. /\ b.speedup = 5 => b.romSize <= \h37E0
        /\ b.speedup = 6 => b.romSize <= \h3700
    <3>1. m.model = 1 => /\ (m.speedup = 5 => m.romSize <= \h37E0)
                         /\ (m.speedup = 6 => m.romSize <= \h3700)
      BY DEF RomsFit
    <3> QED BY <1>1, <1>2, <3>1
  <2> QED BY <1>0, <2>1, <2>2 DEF RomFits, ClonesFit
<1>3. CASE b.model = 3
  <2>1. b.memory_map \in \h30 .. \h35
    BY <1>3 DEF BoardOK, MapTrue
  <2> QED BY <1>0, <2>1 DEF RomFits
<1>4. CASE b.model \in {4, 5}
  <2> DEFINE k == b.modesel % 4
  <2>1. b.memory_map = k + 16 * b.model
    BY <1>4, Mode4Map DEF BoardOK
  <2>2. k \in 0 .. 3
    <3>1. b.modesel \in Nat
      BY DEF BoardOK
    <3> QED BY <3>1, Z3
  <2> HIDE DEF k
  <2>3. b.memory_map \in \h40 .. \h53
    BY <1>4, <2>1, <2>2
  <2> QED BY <1>0, <2>3 DEF RomFits
<1> QED BY <1>0, <1>2, <1>3, <1>4

LEMMA AddressesFit ==
  ASSUME NEW a \in Addresses
  PROVE  Address(a)
BY AddressesAssumption DEF Address

LEMMA InvOneByte ==
  ASSUME RomsFit, Inv
  PROVE  OneByteEach
<1>1. ASSUME NEW a \in Addresses, NEW writing \in BOOLEAN
      PROVE  Agree(mem_read(board, a), mem_write(board, a), mem_pointer(board, a, writing), writing)
  BY BoardRomFits, AddressesFit, SwitchesAgree DEF Inv
<1>2. ASSUME NEW a \in Addresses
      PROVE  /\ Agree(mem_read(board, a), mem_write(board, a), mem_pointer(board, a, FALSE), FALSE)
             /\ Agree(mem_read(board, a), mem_write(board, a), mem_pointer(board, a, TRUE), TRUE)
  BY <1>1, Zenon
<1> QED BY <1>2 DEF OneByteEach, Agree

\* mem_read, mem_write and mem_pointer mean the same byte of the same array at every
\* address they all reach, on every machine, in whatever bank setting the ports, the
\* resets and the snapshots have brought it to.
THEOREM SwitchesMeanOneByte ==
  ASSUME RomsFit
  PROVE  Spec => []OneByteEach
<1>1. Inv => OneByteEach
  BY InvOneByte
<1> QED BY <1>1, Invariance, PTL

LEMMA InvInside ==
  ASSUME Inv, ReachInv
  PROVE  InsideArrays
<1>1. ASSUME NEW a \in Addresses PROVE Safe(board, a)
  <2>1. BoardOK(board) /\ Ranged(board) /\ OwnMap(board) /\ Address(a)
    BY <1>1, AddressesFit DEF Inv, ReachInv, Reach
  <2>2. ASSUME NEW writing \in BOOLEAN
        PROVE  /\ Reached(board, a, mem_read(board, a)) /\ Inside(mem_write(board, a))
               /\ Reached(board, a, mem_pointer(board, a, writing))
               /\ PatternWrite(board, a) /\ board.video_addr + VIDEO_START >= 0
                    => Inside(FontByte(board))
    BY <2>1, SwitchesReached
  <2> QED BY <2>2, PointersInside, Zenon
<1>2. ASSUME NEW a \in Addresses,
             NEW p \in {mem_read(board, a), mem_pointer(board, a, FALSE),
                        mem_pointer(board, a, TRUE)}
      PROVE  Inside(p) <=> ~BeforeVideo(board, a)
  BY <1>1, <1>2, Zenon DEF Safe, Reached
<1>3. ASSUME NEW a \in Addresses
      PROVE  /\ Inside(mem_write(board, a))
             /\ PatternWrite(board, a) /\ board.video_addr + VIDEO_START >= 0
                  => Inside(FontByte(board))
  BY <1>1, <1>3 DEF Safe
<1>4. Inside(RamDiskByte(board, 0)) /\ Inside(RamDiskByte(board, 1))
  BY RamDiskInside DEF ReachInv, Reach
<1> QED BY <1>2, <1>3, <1>4, Zenon DEF InsideArrays

\* Whatever the bank ports, the CRTC's start address, the mode switch, the resets and the
\* snapshots have done, and on every machine, the byte that mem_read, mem_write,
\* mem_pointer and the CT-80's RAM disk reach lies inside memory[], rom[] or video[]; but
\* the Genie IIIs's 1K screen, read or lent while the CRTC starts it before the first byte
\* of video[], lies outside, exactly where BeforeVideo says, and so can the byte a write
\* of a character's pattern looks at.
THEOREM BytesStayInside == Spec => []InsideArrays
<1>1. Init => ReachInv
  BY InitReach
<1>2. Inv /\ ReachInv /\ [Next]_vars => ReachInv'
  BY NextReach
<1>3. Inv /\ ReachInv => InsideArrays
  BY InvInside
<1> QED BY <1>1, <1>2, <1>3, Invariance, PTL DEF Spec

\* After a reset, and whatever the bank registers held before, the processor fetches
\* its first instruction from the ROM, but for the maps of the Model I's selector card
\* and of Brewer's Model III, which only power-on undoes.
THEOREM ResetsFindTheRom == Spec => ResetFindsRom
<1> DEFINE Found == \A poweron \in BOOLEAN :
             Reset(poweron) /\ (poweron \/ board.memory_map \notin \h11 .. \h15 \cup {\h35})
               => mem_read(board', 0).chip = "rom"
<1>1. Inv => Found
  <2> SUFFICES ASSUME Inv, NEW poweron \in BOOLEAN, Reset(poweron),
                      poweron \/ board.memory_map \notin \h11 .. \h15 \cup {\h35}
               PROVE  mem_read(board', 0).chip = "rom"
    OBVIOUS
  <2> DEFINE t == trs_reset(board, poweron)
  <2>1. board' = t /\ BoardOK(board)
    BY DEF Reset, StartsOver, Inv
  <2>2. poweron \/ board.memory_map \notin Stuck
    BY DEF Stuck
  <2>3. /\ BoardOK(t) /\ Kin(board, t) /\ Zeroed(t)
        /\ t.sys_byte = IF board.model = 5 THEN 1 ELSE 0
        /\ t.memory_map \in RomMaps
    BY <2>1, <2>2, ResetRuns DEF BoardOK
  <2> HIDE DEF t
  <2>4. t.sys_byte = IF t.model = 5 THEN 1 ELSE 0
    BY <2>3 DEF Kin
  <2> QED BY <2>1, <2>3, <2>4, RomAtZero
<1>2. ResetFindsRom <=> [][Found]_vars
  BY PTL DEF ResetFindsRom
<1> HIDE DEF Found
<1> QED BY <1>1, <1>2, Invariance, PTL DEF Spec
=============================================================================
