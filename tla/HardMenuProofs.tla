--------------------------- MODULE HardMenuProofs ---------------------------
(***************************************************************************)
(* For which field values the menu's images come out as asked, for every   *)
(* number of cylinders, heads and sectors; that what a slot has open can   *)
(* be created again; and which fields the division by zero is met on.      *)
(***************************************************************************)
EXTENDS HardMenu, TLAPS

\* The header byte for the sectors of a cylinder loses nothing that fits:
\* 256 is stored as 0 and read back as 256.
LEMMA SectorsFit ==
  ASSUME NEW cyls \in Nat, NEW heads \in 1..255, NEW secs \in Nat \ {0},
         heads * secs <= 256
  PROVE  SectorsPerCyl(BlankHeader(cyls, heads, secs)) = heads * secs
<1>1. heads * secs \in 1..256
  OBVIOUS
<1> DEFINE p == heads * secs
<1>2. BlankHeader(cyls, heads, secs).sec = p % 256
  BY DEF BlankHeader
<1> HIDE DEF p
<1>3. p \in 1..256
  BY <1>1 DEF p
<1>4. (IF p % 256 = 0 THEN 256 ELSE p % 256) = p
  BY <1>3
<1> QED BY <1>2, <1>4 DEF SectorsPerCyl, p

LEMMA CylinderBounds ==
  ASSUME NEW c
  PROVE  c \in Cylinders <=> c \in Nat /\ c < 65536
BY DEF Cylinders

\* The two cylinder bytes lose nothing of a number of 16 bits, 0 among them.
LEMMA CylindersFit ==
  ASSUME NEW cyls \in Cylinders, NEW heads, NEW secs
  PROVE  Cyls(BlankHeader(cyls, heads, secs)) = cyls
<1>1. cyls \in Nat /\ cyls < 65536
  BY CylinderBounds
<1> DEFINE h == BlankHeader(cyls, heads, secs)
<1>2. h.cylhi = (cyls \div 256) % 256 /\ h.cyllo = cyls % 256
  BY DEF BlankHeader
<1>3. (cyls \div 256) % 256 = cyls \div 256
  BY <1>1
<1>4. 256 * (cyls \div 256) + (cyls % 256) = cyls
  BY <1>1
<1> HIDE DEF h
<1> QED BY <1>2, <1>3, <1>4 DEF Cyls, h

LEMMA HeaderCylinders ==
  ASSUME NEW h \in Header
  PROVE  Cyls(h) \in Cylinders
<1>1. h.cylhi \in 0..255 /\ h.cyllo \in 0..255
  BY DEF Header
<1> DEFINE hi == h.cylhi
           lo == h.cyllo
<1>2. Cyls(h) = 256 * hi + lo
  BY DEF Cyls
<1> HIDE DEF hi, lo
<1>3. hi \in 0..255 /\ lo \in 0..255
  BY <1>1 DEF hi, lo
<1>4. 256 * hi + lo \in Nat /\ 256 * hi + lo < 65536
  BY <1>3
<1>5. Cyls(h) \in Nat /\ Cyls(h) < 65536
  BY <1>2, <1>4
<1> QED BY <1>5, CylinderBounds

\* What hard_image_open decodes from a blank image's header.
LEMMA BlankRoundTrip ==
  ASSUME NEW cyls \in Nat, NEW heads \in 1..MaxHeads, NEW secs \in Nat \ {0},
         heads * secs <= 256
  PROVE  LET h == BlankHeader(cyls, heads, secs)
         IN /\ UsableGeometry(h, SecPerTrk, MaxHeads)
            /\ Heads(h, SecPerTrk) = heads /\ Secs(h, SecPerTrk) = secs
<1> DEFINE h == BlankHeader(cyls, heads, secs)
<1>1. heads \in 1..255
  BY MenuAssumption
<1>2. h.heads = heads
  BY <1>1 DEF BlankHeader
<1>3. SectorsPerCyl(h) = heads * secs
  BY <1>1, SectorsFit
<1> HIDE DEF h
<1>4. Heads(h, SecPerTrk) = heads
  BY <1>1, <1>2 DEF Heads
<1>5. Secs(h, SecPerTrk) = (heads * secs) \div heads
  BY <1>1, <1>2, <1>3 DEF Secs
<1>6. (heads * secs) \div heads = secs
  BY <1>1
<1>7. (heads * secs) % secs = 0
  BY <1>1
<1> QED BY <1>3, <1>4, <1>5, <1>6, <1>7 DEF UsableGeometry, DividesByZero, h

LEMMA GeometryType ==
  ASSUME NEW h \in Header
  PROVE  Heads(h, SecPerTrk) \in Nat /\ Secs(h, SecPerTrk) \in Nat
<1>1. /\ h.heads \in Nat /\ h.sec \in Nat /\ SectorsPerCyl(h) \in Nat
      /\ SecPerTrk \in Nat \ {0}
  BY MenuAssumption DEF Header, SectorsPerCyl
<1>2. \A x \in Nat, y \in Nat \ {0} : x \div y \in Nat
  OBVIOUS
<1>3. CASE h.heads = 0
  BY <1>1, <1>2, <1>3 DEF Heads, Secs
<1>4. CASE h.heads # 0
  BY <1>1, <1>2, <1>4 DEF Heads, Secs
<1> QED BY <1>3, <1>4

LEMMA AttachedType ==
  ASSUME NEW i \in Files, NEW h \in Header \cup {NoFile}
  PROVE  Attached(i, h) \in Slot /\ NoSlot \in Slot
<1>1. NoSlot \in Slot
  BY CylinderBounds DEF NoSlot, Slot
<1>2. CASE h # NoFile /\ h.id /\ UsableGeometry(h, SecPerTrk, MaxHeads)
  <2>1. /\ Cyls(h) \in Cylinders
        /\ Heads(h, SecPerTrk) \in Nat /\ Secs(h, SecPerTrk) \in Nat
    BY <1>2, GeometryType, HeaderCylinders
  <2> QED BY <1>1, <1>2, <2>1 DEF Attached, Slot
<1>3. CASE ~(h # NoFile /\ h.id /\ UsableGeometry(h, SecPerTrk, MaxHeads))
  BY <1>1, <1>3 DEF Attached
<1> QED BY <1>1, <1>2, <1>3

LEMMA BlankType ==
  ASSUME fields \in Geometry
  PROVE  Blank \in Header
<1>1. fields.cyls \in Nat /\ fields.heads \in Nat /\ fields.secs \in Nat
  BY CylinderBounds DEF Geometry
<1> DEFINE p == IF fields.heads = 0 THEN fields.secs ELSE fields.heads * fields.secs
<1>2. \A x \in Nat : x % 256 \in 0..255 /\ x \div 256 \in Nat
  OBVIOUS
<1>3. p \in Nat
  BY <1>1
<1>4. Blank = [id |-> TRUE, wp |-> FALSE, heads |-> fields.heads % 256,
               sec |-> p % 256, cylhi |-> (fields.cyls \div 256) % 256,
               cyllo |-> fields.cyls % 256]
  BY DEF Blank, BlankHeader
<1> HIDE DEF p
<1> QED BY <1>1, <1>2, <1>3, <1>4 DEF Header

LEMMA PutType ==
  ASSUME TypeOK, NEW s \in Slots, NEW i \in Files,
         NEW h \in Header \cup {NoFile}, Put(s, i, h)
  PROVE  slot' \in [Slots -> Slot] /\ running' \in BOOLEAN
BY AttachedType DEF Put, TypeOK

LEMMA FilledType ==
  ASSUME TypeOK, slot' \in [Slots -> Slot], NEW s \in Slots
  PROVE  Filled(s) \in Geometry
BY DEF Filled, GeometryOf, Geometry, TypeOK, Slot

LEMMA TypeInit == Init => TypeOK
BY MenuAssumption, CylinderBounds DEF Init, TypeOK, NoSlot, Slot, Defaults, Geometry

LEMMA TypeNext == TypeOK /\ [Next]_vars => TypeOK'
<1> SUFFICES ASSUME TypeOK, [Next]_vars PROVE TypeOK'
  OBVIOUS
<1>0. Defaults \in Geometry /\ NoSlot \in Slot
  BY CylinderBounds DEF Defaults, Geometry, NoSlot, Slot
<1>1. CASE Reenter
  BY <1>0, <1>1, MenuAssumption DEF Reenter, TypeOK, GeometryOf, Slot, Geometry
<1>2. CASE SelectInsert
  BY <1>2 DEF SelectInsert, TypeOK
<1>3. CASE Restart
  BY <1>0, <1>3 DEF Restart, TypeOK
<1>4. ASSUME NEW s \in Slots, Eject(s) PROVE TypeOK'
  BY <1>0, <1>4 DEF Eject, TypeOK
<1>5. ASSUME NEW s \in Slots, NEW i \in Files, Choose(s, i) PROVE TypeOK'
  <2>1. file[i] \in Header \cup {NoFile} /\ Put(s, i, file[i])
    BY <1>5 DEF Choose, TypeOK
  <2>2. slot' \in [Slots -> Slot] /\ running' \in BOOLEAN
    BY <2>1, PutType
  <2>3. Filled(s) \in Geometry
    BY <2>2, FilledType
  <2> QED BY <1>5, <2>2, <2>3 DEF Choose, TypeOK
<1>6. CASE TypeIn
  <2>1. fields' \in Geometry
    <3>1. ASSUME NEW v, TypeCyls(v) PROVE fields' \in Geometry
      <4>1. v \in Cylinders
        <5>1. v \in 3..8192
          BY <3>1 DEF TypeCyls
        <5>2. v \in Nat /\ v < 65536
          BY <5>1
        <5> QED BY <5>2, CylinderBounds
      <4> QED BY <3>1, <4>1 DEF TypeCyls, TypeOK, Geometry
    <3>2. ASSUME NEW v, TypeHeads(v) PROVE fields' \in Geometry
      <4>1. v \in Nat
        BY <3>2 DEF TypeHeads
      <4> QED BY <3>2, <4>1 DEF TypeHeads, TypeOK, Geometry
    <3>3. ASSUME NEW v, TypeSecs(v) PROVE fields' \in Geometry
      <4>1. v \in Nat
        BY <3>3 DEF TypeSecs
      <4> QED BY <3>3, <4>1 DEF TypeSecs, TypeOK, Geometry
    <3> QED BY <1>6, <3>1, <3>2, <3>3 DEF TypeIn
  <2> QED BY <1>6, <2>1 DEF TypeIn, TypeOK
<1>7. ASSUME NEW i \in Files, Create(i) PROVE TypeOK'
  <2>1. Blank \in Header
    BY BlankType DEF TypeOK
  <2>2. slot' \in [Slots -> Slot] /\ running' \in BOOLEAN
    <3>1. CASE insert = 0
      BY <1>7, <3>1 DEF Create, TypeOK
    <3>2. CASE insert # 0
      <4>1. insert - 1 \in Slots
        BY <3>2, MenuAssumption DEF TypeOK
      <4>2. Put(insert - 1, i, Blank)
        BY <1>7, <3>2 DEF Create
      <4> QED BY <2>1, <4>1, <4>2, PutType
    <3> QED BY <3>1, <3>2
  <2> QED BY <1>7, <2>1, <2>2 DEF Create, TypeOK
<1>8. CASE UNCHANGED vars
  BY <1>8 DEF vars, TypeOK
<1> QED BY <1>1, <1>2, <1>3, <1>4, <1>5, <1>6, <1>7, <1>8 DEF Next

\* What a step that creates and inserts an image whose geometry fits does.
AsAsked ==
  \A i \in Files : Create(i) /\ insert # 0 /\ Fits(fields) =>
    slot'[insert - 1].name = i /\ GeometryOf(slot'[insert - 1]) = fields

LEMMA AsAskedStep == TypeOK => AsAsked
<1> SUFFICES ASSUME TypeOK, NEW i \in Files, Create(i), insert # 0, Fits(fields)
             PROVE  slot'[insert - 1].name = i /\ GeometryOf(slot'[insert - 1]) = fields
  BY DEF AsAsked
<1>1. fields.cyls \in Cylinders /\ fields.cyls \in Nat /\ fields.heads \in 1..MaxHeads
      /\ fields.secs \in Nat \ {0} /\ fields.heads * fields.secs <= 256
  BY CylinderBounds DEF TypeOK, Geometry, Fits
<1>2. /\ UsableGeometry(Blank, SecPerTrk, MaxHeads)
      /\ Heads(Blank, SecPerTrk) = fields.heads
      /\ Secs(Blank, SecPerTrk) = fields.secs
      /\ Cyls(Blank) = fields.cyls
      /\ Blank.id
  <2>1. Blank.id
    BY DEF Blank, BlankHeader
  <2>2. Cyls(Blank) = fields.cyls
    BY <1>1, CylindersFit DEF Blank
  <2> QED BY <1>1, <2>1, <2>2, BlankRoundTrip DEF Blank
<1>3. ~Kills(Blank)
  BY <1>2 DEF Kills, UsableGeometry
<1>4. Blank # NoFile
  BY BlankType, MenuAssumption DEF TypeOK
<1>5. Attached(i, Blank) = [name |-> i, cyls |-> fields.cyls,
                            heads |-> fields.heads, secs |-> fields.secs]
  BY <1>2, <1>4 DEF Attached
<1>6. insert - 1 \in Slots /\ slot \in [Slots -> Slot]
  BY MenuAssumption DEF TypeOK
<1>7. slot'[insert - 1] = Attached(i, Blank)
  BY <1>3, <1>6 DEF Create, Put
<1>8. fields = [cyls |-> fields.cyls, heads |-> fields.heads, secs |-> fields.secs]
  BY DEF TypeOK, Geometry
<1> QED BY <1>5, <1>7, <1>8 DEF GeometryOf

\* An image whose heads and sectors fit a cylinder of 256 and that is inserted
\* as it is created has the cylinders, heads and sectors the fields showed.
THEOREM CreatesAsAsked == Spec => CreatedAsAsked
<1>1. TypeOK /\ [Next]_vars => [AsAsked]_vars
  BY AsAskedStep
<1>2. CreatedAsAsked <=> [][AsAsked]_vars
  BY PTL DEF CreatedAsAsked, AsAsked
<1> QED BY <1>1, <1>2, TypeInit, TypeNext, PTL DEF Spec

-----------------------------------------------------------------------------
\* A quotient times its divisor is at most what was divided.
LEMMA DivisionBounds ==
  ASSUME NEW x \in Nat, NEW y \in Nat \ {0}
  PROVE  x \div y \in Nat /\ y * (x \div y) <= x /\ (x \div y = 0 => x < y)
<1> DEFINE q == x \div y
           r == x % y
<1>1. q \in Nat /\ r \in Nat /\ r < y /\ x = y * q + r
  OBVIOUS
<1> HIDE DEF q, r
<1>2. y * q \in Nat
  BY <1>1
<1>3. q = 0 => x < y
  <2> SUFFICES ASSUME q = 0 PROVE x < y
    OBVIOUS
  <2>1. y * q = 0
    OBVIOUS
  <2> QED BY <1>1, <2>1
<1> QED BY <1>1, <1>2, <1>3 DEF q

\* What hard_image_open accepts fits, whichever way the heads were found.
LEMMA UsableFits ==
  ASSUME NEW h \in Header, UsableGeometry(h, SecPerTrk, MaxHeads)
  PROVE  /\ Heads(h, SecPerTrk) \in 1..MaxHeads
         /\ Secs(h, SecPerTrk) \in Nat \ {0}
         /\ Heads(h, SecPerTrk) * Secs(h, SecPerTrk) <= 256
<1>1. /\ h.heads \in Nat /\ SectorsPerCyl(h) \in 1..256
      /\ SecPerTrk \in Nat \ {0} /\ MaxHeads \in Nat
  BY MenuAssumption DEF Header, SectorsPerCyl
<1>2. /\ Heads(h, SecPerTrk) \in 1..MaxHeads
      /\ Secs(h, SecPerTrk) \in Nat \ {0}
  BY GeometryType DEF UsableGeometry, DividesByZero
<1> DEFINE n == SectorsPerCyl(h)
<1>n. n \in Nat
  BY <1>1
<1> HIDE DEF n
<1>3. CASE h.heads = 0
  <2>1. SecPerTrk * (n \div SecPerTrk) <= n /\ n \div SecPerTrk \in Nat
    BY <1>1, <1>n, DivisionBounds
  <2>2. Heads(h, SecPerTrk) = n \div SecPerTrk /\ Secs(h, SecPerTrk) = SecPerTrk
    BY <1>3 DEF Heads, Secs, n
  <2> DEFINE q == n \div SecPerTrk
  <2> HIDE DEF q
  <2>3. SecPerTrk * q <= n /\ q \in Nat /\ n <= 256 /\ n \in Nat
    BY <1>1, <2>1 DEF n, q
  <2>4. q * SecPerTrk = SecPerTrk * q
    BY <1>1, <2>3
  <2>5. q * SecPerTrk <= 256
    BY <1>1, <2>3, <2>4
  <2> QED BY <1>2, <2>2, <2>5 DEF q
<1>4. CASE h.heads # 0
  <2>1. h.heads * (n \div h.heads) <= n /\ n \div h.heads \in Nat
    BY <1>1, <1>4, <1>n, DivisionBounds
  <2>2. Heads(h, SecPerTrk) = h.heads /\ Secs(h, SecPerTrk) = n \div h.heads
    BY <1>4 DEF Heads, Secs, n
  <2> DEFINE p == h.heads * (n \div h.heads)
  <2>3. p \in Nat /\ p <= n /\ n <= 256 /\ n \in Nat
    BY <1>1, <2>1 DEF n
  <2> HIDE DEF p
  <2>4. p <= 256
    BY <2>3
  <2> QED BY <1>2, <2>2, <2>4 DEF p
<1> QED BY <1>3, <1>4

\* What a slot holds after a file was put into it.
LEMMA AttachedFits ==
  ASSUME NEW i \in Files, NEW h \in Header \cup {NoFile},
         IsOpen(Attached(i, h))
  PROVE  Fits(GeometryOf(Attached(i, h)))
<1>1. ~IsOpen(NoSlot)
  BY DEF IsOpen, NoSlot
<1>2. h # NoFile /\ h.id /\ UsableGeometry(h, SecPerTrk, MaxHeads) /\ h \in Header
  BY <1>1 DEF Attached
<1>3. Attached(i, h) = [name |-> i, cyls |-> Cyls(h), heads |-> Heads(h, SecPerTrk),
                        secs |-> Secs(h, SecPerTrk)]
  BY <1>2 DEF Attached
<1> QED BY <1>2, <1>3, UsableFits DEF GeometryOf, Fits

LEMMA PutFits ==
  ASSUME TypeOK, OpenSlotsFit, NEW s \in Slots, NEW i \in Files,
         NEW h \in Header \cup {NoFile}, Put(s, i, h)
  PROVE  OpenSlotsFit'
<1> SUFFICES ASSUME NEW t \in Slots, IsOpen(slot'[t])
             PROVE  Fits(GeometryOf(slot'[t]))
  BY DEF OpenSlotsFit
<1>1. ~IsOpen(NoSlot)
  BY DEF IsOpen, NoSlot
<1>2. slot \in [Slots -> Slot]
  BY DEF TypeOK
<1>3. CASE t # s
  BY <1>2, <1>3 DEF Put, OpenSlotsFit
<1>4. CASE t = s
  <2>1. slot'[s] \in {Attached(i, h), NoSlot}
    BY <1>2 DEF Put
  <2> QED BY <1>1, <1>4, <2>1, AttachedFits
<1> QED BY <1>3, <1>4

LEMMA FitsNext == TypeOK /\ OpenSlotsFit /\ [Next]_vars => OpenSlotsFit'
<1> SUFFICES ASSUME TypeOK, OpenSlotsFit, [Next]_vars PROVE OpenSlotsFit'
  OBVIOUS
<1>0. ~IsOpen(NoSlot) /\ slot \in [Slots -> Slot]
  BY DEF IsOpen, NoSlot, TypeOK
<1>1. CASE UNCHANGED slot
  BY <1>1 DEF OpenSlotsFit
<1>2. CASE Restart
  BY <1>0, <1>2 DEF Restart, OpenSlotsFit
<1>3. ASSUME NEW s \in Slots, Eject(s) PROVE OpenSlotsFit'
  BY <1>0, <1>3 DEF Eject, OpenSlotsFit
<1>4. ASSUME NEW s \in Slots, NEW i \in Files, Choose(s, i) PROVE OpenSlotsFit'
  <2>1. file[i] \in Header \cup {NoFile} /\ Put(s, i, file[i])
    BY <1>4 DEF Choose, TypeOK
  <2> QED BY <2>1, PutFits
<1>5. ASSUME NEW i \in Files, Create(i) PROVE OpenSlotsFit'
  <2>1. CASE insert = 0
    BY <1>1, <1>5, <2>1 DEF Create
  <2>2. CASE insert # 0
    <3>1. insert - 1 \in Slots
      BY <2>2, MenuAssumption DEF TypeOK
    <3>2. Put(insert - 1, i, Blank) /\ Blank \in Header
      BY <1>5, <2>2, BlankType DEF Create, TypeOK
    <3> QED BY <3>1, <3>2, PutFits
  <2> QED BY <2>1, <2>2
<1> QED BY <1>1, <1>2, <1>3, <1>4, <1>5
        DEF Next, Reenter, SelectInsert, TypeIn, vars

\* Whatever headers the host's files have and however often they are created
\* again, what hard_image_open accepted has a geometry whose sectors fit the
\* header's byte: the menu's fields, filled from it, ask for the same image.
THEOREM SlotsFit == Spec => []OpenSlotsFit
<1>1. Init => OpenSlotsFit
  BY DEF Init, OpenSlotsFit, IsOpen, NoSlot
<1> QED BY <1>1, TypeInit, TypeNext, FitsNext, PTL DEF Spec

-----------------------------------------------------------------------------
\* What a step that kills the emulator while it creates an image was asked.
Misfits ==
  \A i \in Files : Create(i) /\ ~running' => fields.heads * fields.secs > 256

\* A blank header whose sectors fit never has more heads than sectors: not
\* even with no heads, no sectors, or a number of heads that is cut to a byte.
LEMMA FittingNeverKills ==
  ASSUME NEW cyls \in Nat, NEW heads \in Nat, NEW secs \in Nat,
         heads * secs <= 256
  PROVE  ~DividesByZero(BlankHeader(cyls, heads, secs), SecPerTrk)
<1> DEFINE h == BlankHeader(cyls, heads, secs)
           p == IF heads = 0 THEN secs ELSE heads * secs
<1>1. h.heads = heads % 256 /\ h.sec = p % 256
  BY DEF BlankHeader
<1>2. heads % 256 \in 0..255 /\ p \in Nat /\ SecPerTrk \in Nat \ {0}
  BY MenuAssumption
<1> HIDE DEF h
<1> SUFFICES ~DividesByZero(h, SecPerTrk)
  BY DEF h
<1>3. CASE h.heads = 0
  BY <1>2, <1>3 DEF DividesByZero, Secs
<1>4. CASE h.heads # 0
  <2>1. heads # 0 /\ h.heads \in 1..255 /\ p = heads * secs
    BY <1>1, <1>2, <1>4
  <2>2. CASE secs = 0
    <3>1. h.sec = 0
      BY <1>1, <2>1, <2>2
    <3>2. SectorsPerCyl(h) = 256
      BY <3>1 DEF SectorsPerCyl
    <3>3. ~(256 \div h.heads = 0)
      BY <2>1, DivisionBounds
    <3> QED BY <1>4, <3>2, <3>3 DEF DividesByZero, Secs
  <2>3. CASE secs # 0
    <3>0. heads \in Nat \ {0} /\ secs \in Nat \ {0}
      BY <2>1, <2>3
    <3>1. heads \in 1..256 /\ heads * secs \in Nat \ {0} /\ heads <= heads * secs
      <4>1. \A x, y \in Nat \ {0} : x * y \in Nat \ {0} /\ x <= x * y
        OBVIOUS
      <4>2. heads * secs \in Nat \ {0} /\ heads <= heads * secs
        BY <3>0, <4>1
      <4> QED BY <3>0, <4>2
    <3>2. heads \in 1..255 /\ h.heads = heads
      <4>1. 256 % 256 = 0 /\ \A x \in 1..255 : x % 256 = x
        OBVIOUS
      <4>2. h.heads = heads % 256 /\ h.heads \in 1..255 /\ heads \in 1..256
        BY <1>1, <2>1, <3>1
      <4>3. heads # 256
        BY <4>1, <4>2
      <4>4. heads \in 1..255
        BY <4>2, <4>3
      <4> QED BY <4>1, <4>2, <4>4
    <3>3. SectorsPerCyl(h) = heads * secs
      BY <2>3, <3>2, SectorsFit DEF h
    <3> DEFINE q == heads * secs
    <3>4. q \in Nat /\ heads <= q /\ heads \in Nat \ {0}
      BY <3>1
    <3> HIDE DEF q
    <3>5. ~(q \div heads = 0)
      BY <3>4, DivisionBounds
    <3> QED BY <1>4, <3>2, <3>3, <3>5 DEF DividesByZero, Secs, q
  <2> QED BY <2>2, <2>3
<1> QED BY <1>3, <1>4

LEMMA MisfitsStep == TypeOK => Misfits
<1> SUFFICES ASSUME TypeOK, NEW i \in Files, Create(i), ~running'
             PROVE  fields.heads * fields.secs > 256
  BY DEF Misfits
<1>1. running /\ running' # running
  BY DEF Create
<1>2. Kills(Blank)
  BY <1>1 DEF Create, Put
<1>3. fields.cyls \in Nat /\ fields.heads \in Nat /\ fields.secs \in Nat
  BY CylinderBounds DEF TypeOK, Geometry
<1>4. ~(fields.heads * fields.secs <= 256)
  BY <1>2, <1>3, FittingNeverKills DEF Kills, Blank
<1>5. fields.heads * fields.secs \in Nat
  BY <1>3
<1> QED BY <1>4, <1>5

\* The division by zero in hard_image_open is met on a created image only when
\* its fields ask for more than 256 sectors on a cylinder.
THEOREM FitsNeverKill == Spec => OnlyMisfitsKill
<1>1. TypeOK /\ [Next]_vars => [Misfits]_vars
  BY MisfitsStep
<1>2. OnlyMisfitsKill <=> [][Misfits]_vars
  BY PTL DEF OnlyMisfitsKill, Misfits
<1> QED BY <1>1, <1>2, TypeInit, TypeNext, PTL DEF Spec
=============================================================================
