-------------------------- MODULE HardImageProofs --------------------------
(***************************************************************************)
(* Facts about the image operators, for every header length, byte set and  *)
(* geometry, that the controllers' proofs rest on.                         *)
(***************************************************************************)
EXTENDS HardImage, TLAPS

\* Writing at any position, header included, leaves an image.
LEMMA FwriteFromType ==
  ASSUME NEW f \in Image, NEW pos \in Nat, NEW m \in Nat, NEW n \in 0..m,
         NEW b \in [1..m -> Byte]
  PROVE  FwriteFrom(b, f, pos, n) \in Image
<1> DEFINE end == pos + n - HdrLen
           len == IF end > Len(f.data) THEN end ELSE Len(f.data)
           data == [j \in 1..len |->
                      LET k == HdrLen + j - pos
                      IN IF k \in 1..n THEN b[k]
                         ELSE ByteAt(f, j)]
<1>1. f.data \in Seq(Byte) /\ f.hdr \in Header
  BY DEF Image
<1>2. len \in Nat
  BY <1>1, HdrLenAssumption
<1>3. data \in [1..len -> Byte]
  <2> SUFFICES ASSUME NEW j \in 1..len
               PROVE  LET k == HdrLen + j - pos
                      IN (IF k \in 1..n THEN b[k]
                          ELSE ByteAt(f, j)) \in Byte
    OBVIOUS
  <2>1. CASE HdrLen + j - pos \in 1..n
    BY <2>1
  <2>2. CASE HdrLen + j - pos \notin 1..n /\ j <= Len(f.data)
    BY <1>1, <1>2, <2>2 DEF ByteAt
  <2>3. CASE HdrLen + j - pos \notin 1..n /\ ~(j <= Len(f.data))
    BY <2>3, ZeroAssumption DEF ByteAt
  <2> QED BY <2>1, <2>2, <2>3
<1>4. data \in Seq(Byte)
  <2> HIDE DEF data, len
  <2> QED BY <1>2, <1>3
<1>5. CASE n = 0
  BY <1>5 DEF FwriteFrom
<1>6. CASE n # 0
  <2> DEFINE hdr == IF pos >= HdrLen THEN f.hdr ELSE [f.hdr EXCEPT !.id = FALSE]
  <2>1. FwriteFrom(b, f, pos, n) = [f EXCEPT !.hdr = hdr, !.data = data]
    BY <1>6 DEF FwriteFrom
  <2>2. hdr \in Header
    BY <1>1 DEF Header
  <2> QED BY <2>1, <2>2, <1>4 DEF Image
<1> QED BY <1>5, <1>6

\* Writing after the header leaves the header alone.
LEMMA FwriteFromHeader ==
  ASSUME NEW f \in Image, NEW pos \in Nat, pos >= HdrLen, NEW n \in Nat, NEW b
  PROVE  FwriteFrom(b, f, pos, n).hdr = f.hdr
BY DEF FwriteFrom, Image

\* Of the data only the bytes under the write change; a gap reads as zeros as
\* it did before.
LEMMA FwriteFromStays ==
  ASSUME NEW f \in Image, NEW pos \in Nat, pos >= HdrLen, NEW n \in Nat,
         NEW b, NEW j \in Nat \ {0},
         HdrLen + j - pos \notin 1..n
  PROVE  ByteAt(FwriteFrom(b, f, pos, n), j) = ByteAt(f, j)
<1> DEFINE end == pos + n - HdrLen
           len == IF end > Len(f.data) THEN end ELSE Len(f.data)
           data == [k \in 1..len |->
                      LET i == HdrLen + k - pos
                      IN IF i \in 1..n THEN b[i] ELSE ByteAt(f, k)]
           out == FwriteFrom(b, f, pos, n)
<1>1. f.data \in Seq(Byte) /\ Len(f.data) \in Nat /\ len \in Nat
  BY HdrLenAssumption DEF Image
<1>2. CASE n = 0
  BY <1>2 DEF FwriteFrom
<1>3. CASE n # 0
  <2>1. out = [f EXCEPT !.hdr = f.hdr, !.data = data]
    BY <1>3 DEF FwriteFrom
  <2>2. out.hdr = f.hdr /\ out.data = data
    BY <2>1 DEF Image
  <2>3. Len(data) = len
    BY <1>1
  <2>4. CASE j <= len
    <3>1. j \in 1..len
      BY <1>1, <2>4
    <3>2. data[j] = ByteAt(f, j)
      BY <3>1
    <3> HIDE DEF data, len, out
    <3> QED BY <2>2, <2>3, <2>4, <3>2 DEF ByteAt, out
  <2>5. CASE ~(j <= len)
    <3>1. ByteAt(f, j) = Zero
      BY <1>1, <2>5, HdrLenAssumption DEF ByteAt
    <3> HIDE DEF data, len, out
    <3> QED BY <2>2, <2>3, <2>5, <3>1 DEF ByteAt, out
  <2> QED BY <2>4, <2>5
<1> QED BY <1>2, <1>3

\* Reading changes the buffer's bytes and never its size.
LEMMA FreadIntoType ==
  ASSUME NEW f \in Image, NEW pos \in Nat, NEW m \in Nat, NEW n \in Nat,
         NEW old \in [1..m -> Byte]
  PROVE  FreadInto(old, f, pos, n) \in [1..m -> Byte]
BY HdrLenAssumption DEF FreadInto, Image

LEMMA FreadCountRange ==
  ASSUME NEW f \in Image, NEW pos \in Nat, NEW n \in Nat
  PROVE  FreadCount(f, pos, n) \in 0..n
BY HdrLenAssumption DEF FreadCount, Image

-----------------------------------------------------------------------------
\* Decoding a header gives natural numbers.
LEMMA GeometryType ==
  ASSUME NEW h \in Header, NEW spt \in Nat \ {0}
  PROVE  /\ Heads(h, spt) \in Nat
         /\ Secs(h, spt) \in Nat
<1>1. SectorsPerCyl(h) \in Nat /\ h.heads \in Nat
  BY DEF SectorsPerCyl, Header
<1>2. \A x \in Nat, y \in Nat \ {0} : x \div y \in Nat
  OBVIOUS
<1> QED BY <1>1, <1>2 DEF Heads, Secs

LEMMA ClosedType ==
  ASSUME NEW Names, NEW dr \in DriveOf(Names)
  PROVE  Closed(dr) \in DriveOf(Names) /\ Closed(dr).name = None
                                       /\ Closed(dr).open = FALSE
BY DEF Closed, DriveOf

LEMMA EmptyDriveType ==
  ASSUME NEW Names
  PROVE  EmptyDrive \in DriveOf(Names) /\ EmptyDrive.name = None
                                       /\ EmptyDrive.open = FALSE
BY DEF EmptyDrive, DriveOf

\* A slot that hard_image_open could use: seeks can divide by its geometry.
UsableSlot(dr, maxheads) ==
  /\ dr.name # None
  /\ dr.secs > 0 /\ dr.heads \in 1..maxheads

\* The field updates hard_image_open makes keep a slot a slot.
LEMMA UpdateType ==
  ASSUME NEW Names, NEW dr \in DriveOf(Names), NEW w \in BOOLEAN,
         NEW c \in BOOLEAN, NEW h \in Nat, NEW s \in Nat, NEW p \in Nat
  PROVE  /\ [dr EXCEPT !.wp = w] \in DriveOf(Names)
         /\ [dr EXCEPT !.wp = w, !.heads = h, !.secs = s] \in DriveOf(Names)
         /\ [dr EXCEPT !.open = TRUE, !.pos = p, !.canWrite = c, !.err = FALSE]
              \in DriveOf(Names)
BY DEF DriveOf

\* The slot after hard_image_open: either open with a usable geometry and
\* the stream after the header, or closed and nameless.
OpenedOrNot(o, name, maxheads) ==
  /\ o.open => /\ UsableSlot(o, maxheads) /\ o.name = name
               /\ o.pos = HdrLen
  /\ ~o.open => o.name = None

LEMMA OpenSlot ==
  ASSUME NEW Names, None \notin Names, NEW host \in [Names -> Image],
         NEW dr \in DriveOf(Names), NEW spt \in Nat \ {0}, NEW maxheads \in Nat
  PROVE  /\ HardImageOpen(dr, host, spt, maxheads) \in DriveOf(Names)
         /\ OpenedOrNot(HardImageOpen(dr, host, spt, maxheads), dr.name, maxheads)
<1> DEFINE f == host[dr.name]
           ro == f.mode = "ro"
           wp == WriteProtected(f)
           hd == Heads(f.hdr, spt)
           sc == Secs(f.hdr, spt)
           geom == [dr EXCEPT !.wp = wp, !.heads = hd, !.secs = sc]
           opened == [geom EXCEPT !.open = TRUE, !.pos = HdrLen,
                                  !.canWrite = ~ro, !.err = FALSE]
           result == HardImageOpen(dr, host, spt, maxheads)
<1>1. CASE dr.name = None
  <2>1. result = Closed(dr)
    BY <1>1 DEF HardImageOpen
  <2> QED BY <2>1, ClosedType DEF OpenedOrNot
<1>2. CASE dr.name # None
  <2>1. dr.name \in Names
    BY <1>2 DEF DriveOf
  <2>2. f.hdr \in Header
    BY <2>1 DEF Image
  <2>3. hd \in Nat /\ sc \in Nat
    BY <2>2, GeometryType
  <2>4. ro \in BOOLEAN /\ (~ro) \in BOOLEAN /\ wp \in BOOLEAN
    <3>1. ro = TRUE \/ ro = FALSE
      BY Zenon
    <3>2. wp = TRUE \/ wp = FALSE
      BY Zenon DEF WriteProtected
    <3> HIDE DEF ro, wp
    <3>3. ro \in BOOLEAN /\ wp \in BOOLEAN
      BY <3>1, <3>2
    <3>4. (~ro) \in BOOLEAN
      BY <3>1
    <3> QED BY <3>3, <3>4
  <2>5. result = CASE f.mode = "none" -> Closed(dr)
                   [] f.mode # "none" /\ ~f.hdr.id -> Closed([dr EXCEPT !.wp = ro])
                   [] f.mode # "none" /\ f.hdr.id
                        /\ ~UsableGeometry(f.hdr, spt, maxheads) -> Closed(geom)
                   [] OTHER -> opened
    BY <1>2 DEF HardImageOpen, OpenFrom
  <2>6. \/ result = Closed(dr)
        \/ result = Closed([dr EXCEPT !.wp = ro])
        \/ result = Closed(geom)
        \/ /\ result = opened
           /\ UsableGeometry(f.hdr, spt, maxheads)
    BY <2>5
  <2> HIDE DEF ro, wp
  <2>7. [dr EXCEPT !.wp = ro] \in DriveOf(Names)
    BY <2>4, <2>3, UpdateType
  <2>8. geom \in DriveOf(Names)
    BY <2>4, <2>3, UpdateType
  <2> DEFINE nro == ~ro
  <2>9. opened = [geom EXCEPT !.open = TRUE, !.pos = HdrLen,
                              !.canWrite = nro, !.err = FALSE]
    OBVIOUS
  <2>10. nro \in BOOLEAN
    BY <2>4
  <2> HIDE DEF nro
  <2>11. opened \in DriveOf(Names)
    <3> HIDE DEF geom
    <3>1. [geom EXCEPT !.open = TRUE, !.pos = HdrLen,
                       !.canWrite = nro, !.err = FALSE] \in DriveOf(Names)
      BY <2>8, <2>10, <2>3, HdrLenAssumption, UpdateType
    <3> QED BY <3>1, <2>9
  <2>12. /\ opened.heads = hd /\ opened.secs = sc /\ opened.name = dr.name
         /\ opened.pos = HdrLen /\ opened.open = TRUE
    BY <2>9 DEF DriveOf
  <2>13. UsableGeometry(f.hdr, spt, maxheads) => OpenedOrNot(opened, dr.name, maxheads)
    <3>1. UsableGeometry(f.hdr, spt, maxheads) => sc > 0 /\ hd \in 1..maxheads
      BY <2>3 DEF UsableGeometry, DividesByZero
    <3> HIDE DEF opened, hd, sc
    <3> QED BY <3>1, <2>12, <1>2 DEF OpenedOrNot, UsableSlot
  <2>14. \A x \in DriveOf(Names) : /\ Closed(x) \in DriveOf(Names)
                                   /\ OpenedOrNot(Closed(x), dr.name, maxheads)
    BY ClosedType DEF OpenedOrNot
  <2> HIDE DEF opened, geom, result
  <2> QED BY <2>6, <2>7, <2>8, <2>11, <2>13, <2>14 DEF result
<1> QED BY <1>1, <1>2

\* The headers hard_image_open accepts.
Opens(h, spt, maxheads) == h.id /\ UsableGeometry(h, spt, maxheads)

\* Which slots open, and what an opened slot's flags mean: the stream may write unless the path is
\* read-only, and the slot is protected by that or by the header's flag.
LEMMA OpenSlotFlags ==
  ASSUME NEW Names, None \notin Names, NEW host \in [Names -> Image],
         NEW dr \in DriveOf(Names), NEW spt \in Nat \ {0}, NEW maxheads
  PROVE  LET o == HardImageOpen(dr, host, spt, maxheads)
         IN /\ o.open <=> /\ dr.name # None /\ host[dr.name].mode # "none"
                          /\ Opens(host[dr.name].hdr, spt, maxheads)
            /\ o.open => /\ o.name = dr.name
                         /\ o.wp <=> WriteProtected(host[dr.name])
                         /\ o.canWrite <=> host[dr.name].mode # "ro"
<1> DEFINE f == host[dr.name]
           ro == f.mode = "ro"
           wp == WriteProtected(f)
           geom == [dr EXCEPT !.wp = wp, !.heads = Heads(f.hdr, spt),
                              !.secs = Secs(f.hdr, spt)]
           opened == [geom EXCEPT !.open = TRUE, !.pos = HdrLen,
                                  !.canWrite = ~ro, !.err = FALSE]
           result == HardImageOpen(dr, host, spt, maxheads)
<1>1. CASE dr.name = None
  BY <1>1, ClosedType DEF HardImageOpen
<1>2. CASE dr.name # None
  <2>1. result = CASE f.mode = "none" -> Closed(dr)
                   [] f.mode # "none" /\ ~f.hdr.id -> Closed([dr EXCEPT !.wp = ro])
                   [] f.mode # "none" /\ f.hdr.id
                        /\ ~UsableGeometry(f.hdr, spt, maxheads) -> Closed(geom)
                   [] OTHER -> opened
    BY <1>2 DEF HardImageOpen, OpenFrom
  <2> DEFINE ok == f.mode # "none" /\ Opens(f.hdr, spt, maxheads)
  <2>2. \/ ~ok /\ result = Closed(dr)
        \/ ~ok /\ result = Closed([dr EXCEPT !.wp = ro])
        \/ ~ok /\ result = Closed(geom)
        \/ ok /\ result = opened
    BY <2>1 DEF Opens
  <2>3. /\ Closed(dr).open = FALSE
        /\ Closed([dr EXCEPT !.wp = ro]).open = FALSE
        /\ Closed(geom).open = FALSE
    BY DEF Closed, DriveOf
  <2>4. /\ opened.name = dr.name /\ opened.wp = wp /\ opened.canWrite = (~ro)
        /\ opened.open = TRUE
    BY DEF DriveOf
  <2> HIDE DEF opened, geom, result, wp, ro
  <2> QED BY <1>2, <2>2, <2>3, <2>4, Zenon DEF result, wp, ro
<1> QED BY <1>1, <1>2

\* The same of a slot filled from the menu; it is empty when that fails.
LEMMA SlotWithType ==
  ASSUME NEW Names, None \notin Names, NEW host \in [Names -> Image],
         NEW i \in Names, NEW spt \in Nat \ {0}, NEW maxheads \in Nat
  PROVE  /\ SlotWith(i, host, spt, maxheads) \in DriveOf(Names)
         /\ OpenedOrNot(SlotWith(i, host, spt, maxheads), i, maxheads)
<1> DEFINE e == [EmptyDrive EXCEPT !.name = i]
           o == HardImageOpen(e, host, spt, maxheads)
<1>1. e \in DriveOf(Names) /\ e.name = i
  BY DEF EmptyDrive, DriveOf
<1> HIDE DEF e
<1>2. o \in DriveOf(Names) /\ OpenedOrNot(o, i, maxheads)
  BY <1>1, OpenSlot
<1>3. SlotWith(i, host, spt, maxheads) = IF o.open THEN o ELSE EmptyDrive
  BY DEF SlotWith, e
<1>4. EmptyDrive \in DriveOf(Names) /\ OpenedOrNot(EmptyDrive, i, maxheads)
  BY EmptyDriveType DEF OpenedOrNot
<1> HIDE DEF o
<1> QED BY <1>2, <1>3, <1>4

\* The flags of a slot filled from the menu.
LEMMA SlotWithFlags ==
  ASSUME NEW Names, None \notin Names, NEW host \in [Names -> Image],
         NEW i \in Names, NEW spt \in Nat \ {0}, NEW maxheads
  PROVE  LET o == SlotWith(i, host, spt, maxheads)
         IN /\ o.open <=> host[i].mode # "none" /\ Opens(host[i].hdr, spt, maxheads)
            /\ o.open => /\ o.name = i
                         /\ o.wp <=> WriteProtected(host[i])
                         /\ o.canWrite <=> host[i].mode # "ro"
<1> DEFINE e == [EmptyDrive EXCEPT !.name = i]
           o == HardImageOpen(e, host, spt, maxheads)
<1>1. e \in DriveOf(Names) /\ e.name = i
  BY DEF EmptyDrive, DriveOf
<1> HIDE DEF e
<1>2. /\ o.open <=> host[i].mode # "none" /\ Opens(host[i].hdr, spt, maxheads)
      /\ o.open => /\ o.name = i
                   /\ o.wp <=> WriteProtected(host[i])
                   /\ o.canWrite <=> host[i].mode # "ro"
  BY <1>1, OpenSlotFlags
<1>3. SlotWith(i, host, spt, maxheads) = IF o.open THEN o ELSE EmptyDrive
  BY DEF SlotWith, e
<1> HIDE DEF o
<1> QED BY <1>2, <1>3, EmptyDriveType

\* Offsets of sectors lie after the header.
LEMMA SectorOffsetType ==
  ASSUME NEW Names, NEW dr \in DriveOf(Names), NEW secsize \in Nat,
         NEW cyl \in Nat, NEW head \in Nat, NEW sec \in Nat
  PROVE  /\ SectorOffset(dr, secsize, cyl, head, sec) \in Nat
         /\ SectorOffset(dr, secsize, cyl, head, sec) >= HdrLen
<1>1. dr.heads \in Nat /\ dr.secs \in Nat
  BY DEF DriveOf
<1>2. \A x, y \in Nat : x * y \in Nat
  OBVIOUS
<1>3. cyl * dr.heads + head \in Nat
  BY <1>1, <1>2
<1>4. (cyl * dr.heads + head) * dr.secs + sec \in Nat
  BY <1>1, <1>2, <1>3
<1>5. secsize * ((cyl * dr.heads + head) * dr.secs + sec) \in Nat
  BY <1>2, <1>4
<1> HIDE <1>1
<1> QED BY <1>5, HdrLenAssumption DEF SectorOffset

-----------------------------------------------------------------------------
\* y is slot x with, at most, another position and error indicator.
SameSlot(x, y) ==
  /\ y.name = x.name /\ y.open = x.open /\ y.heads = x.heads
  /\ y.secs = x.secs /\ y.wp = x.wp /\ y.canWrite = x.canWrite

LEMMA MovedSlot ==
  ASSUME NEW Names, NEW dr \in DriveOf(Names), NEW p \in Nat, NEW e \in BOOLEAN
  PROVE  /\ [dr EXCEPT !.pos = p] \in DriveOf(Names)
         /\ SameSlot(dr, [dr EXCEPT !.pos = p])
         /\ [dr EXCEPT !.pos = p, !.err = e] \in DriveOf(Names)
         /\ SameSlot(dr, [dr EXCEPT !.pos = p, !.err = e])
BY DEF DriveOf, SameSlot

\* Whatever fwrite returns, the file is an image and the slot the same one.
LEMMA FwriteOutcome ==
  ASSUME NEW Names, NEW dr \in DriveOf(Names), NEW f \in Image,
         NEW m \in Nat, NEW n \in 0..m, NEW b \in [1..m -> Byte],
         NEW faults, NEW o \in FwriteOutcomes(dr, f, b, n, faults)
  PROVE  /\ o.ok \in BOOLEAN /\ o.file \in Image
         /\ o.drive \in DriveOf(Names) /\ SameSlot(dr, o.drive)
         /\ o.drive.pos >= dr.pos
         /\ \E k \in 0..n : o.file = FwriteFrom(b, f, dr.pos, k)
<1> DEFINE Out(k, ok) ==
      [ok |-> ok, file |-> FwriteFrom(b, f, dr.pos, k),
       drive |-> [dr EXCEPT !.pos = @ + k, !.err = IF ok THEN @ ELSE TRUE]]
<1>0. n \in Nat
  OBVIOUS
<1>1. PICK k \in 0..n, ok \in BOOLEAN : o = Out(k, ok)
  <2>1. \/ o = Out(0, FALSE) \/ o = Out(n, TRUE)
        \/ \E k \in 0..(n - 1) : o = Out(k, FALSE)
    BY DEF FwriteOutcomes
  <2> HIDE DEF Out
  <2>2. CASE o = Out(0, FALSE)
    <3>1. 0 \in 0..n
      BY <1>0
    <3> QED BY <2>2, <3>1
  <2>3. CASE o = Out(n, TRUE)
    <3>1. n \in 0..n
      BY <1>0
    <3> QED BY <2>3, <3>1
  <2>4. CASE \E k \in 0..(n - 1) : o = Out(k, FALSE)
    <3>1. PICK k \in 0..(n - 1) : o = Out(k, FALSE)
      BY <2>4
    <3>2. k \in 0..n
      BY <1>0
    <3> QED BY <3>1, <3>2
  <2> QED BY <2>1, <2>2, <2>3, <2>4
<1>2. dr.pos \in Nat /\ dr.err \in BOOLEAN
  BY DEF DriveOf
<1>3. o.ok = ok /\ o.file = FwriteFrom(b, f, dr.pos, k)
      /\ o.drive = [dr EXCEPT !.pos = dr.pos + k,
                              !.err = IF ok THEN dr.err ELSE TRUE]
  BY <1>1
<1>4. o.file \in Image
  <2>1. k \in 0..m
    BY <1>0
  <2> QED BY <1>2, <1>3, <2>1, FwriteFromType
<1> DEFINE p == dr.pos + k
           e == IF ok THEN dr.err ELSE TRUE
<1>5. p \in Nat /\ p >= dr.pos
  BY <1>2
<1>6. e \in BOOLEAN
  <2>1. CASE ok
    BY <2>1, <1>2, Zenon
  <2>2. CASE ~ok
    BY <2>2, Zenon
  <2> QED BY <2>1, <2>2
<1>7. o.drive = [dr EXCEPT !.pos = p, !.err = e]
  BY <1>3
<1> HIDE DEF p, e
<1>8. [dr EXCEPT !.pos = p, !.err = e] \in DriveOf(Names)
      /\ SameSlot(dr, [dr EXCEPT !.pos = p, !.err = e])
  BY <1>5, <1>6, MovedSlot
<1>9. o.ok \in BOOLEAN
  BY <1>3
<1>10. o.drive.pos = p
  BY <1>7 DEF DriveOf
<1>11. o.drive.pos >= dr.pos
  BY <1>5, <1>10
<1>12. \E x \in 0..n : o.file = FwriteFrom(b, f, dr.pos, x)
  BY <1>3
<1> QED BY <1>4, <1>7, <1>8, <1>9, <1>11, <1>12, Zenon

\* An fwrite that succeeds leaves the stream just after what was written.
LEMMA FwriteAdvances ==
  ASSUME NEW Names, NEW dr \in DriveOf(Names), NEW f, NEW n \in Nat, NEW b,
         NEW faults, NEW o \in FwriteOutcomes(dr, f, b, n, faults), o.ok
  PROVE  o.drive.pos = dr.pos + n
<1> DEFINE Out(k, ok) ==
      [ok |-> ok, file |-> FwriteFrom(b, f, dr.pos, k),
       drive |-> [dr EXCEPT !.pos = @ + k, !.err = IF ok THEN @ ELSE TRUE]]
<1>1. \/ o = Out(0, FALSE) \/ o = Out(n, TRUE)
      \/ \E k \in 0..(n - 1) : o = Out(k, FALSE)
  BY DEF FwriteOutcomes
<1>2. \A k : Out(k, FALSE).ok = FALSE
  OBVIOUS
<1>3. o = Out(n, TRUE)
  <2> HIDE DEF Out
  <2> QED BY <1>1, <1>2
<1> QED BY <1>3 DEF DriveOf

\* The same of fread, which fills the buffer.
LEMMA FreadOutcome ==
  ASSUME NEW Names, NEW dr \in DriveOf(Names), NEW f \in Image,
         NEW m \in Nat, NEW n \in 0..m, NEW b \in [1..m -> Byte],
         NEW faults, NEW o \in FreadOutcomes(dr, f, b, n, faults)
  PROVE  /\ o.ok \in BOOLEAN /\ o.buf \in [1..m -> Byte]
         /\ o.drive \in DriveOf(Names) /\ SameSlot(dr, o.drive)
         /\ o.drive.pos >= dr.pos
<1> DEFINE Out(k, ok, err) ==
      [ok |-> ok, buf |-> FreadInto(b, f, dr.pos, k),
       drive |-> [dr EXCEPT !.pos = @ + k, !.err = err]]
           got == FreadCount(f, dr.pos, n)
<1>1. dr.pos \in Nat /\ dr.err \in BOOLEAN
  BY DEF DriveOf
<1>0. n \in Nat
  OBVIOUS
<1>2. got \in 0..n
  BY <1>0, <1>1, FreadCountRange
<1>3. PICK k \in 0..n, ok \in BOOLEAN, err \in BOOLEAN : o = Out(k, ok, err)
  <2>1. (got = n \/ ~dr.err) \in BOOLEAN
    BY Zenon
  <2> DEFINE g == (got = n \/ ~dr.err)
  <2>2. \/ o = Out(got, g, dr.err)
        \/ \E k \in 0..(n - 1) \cap 0..got : o = Out(k, FALSE, TRUE)
    BY DEF FreadOutcomes
  <2>3. CASE o = Out(got, g, dr.err)
    <3> HIDE DEF Out, got, g
    <3> QED BY <1>1, <1>2, <2>1, <2>3 DEF g
  <2>4. CASE \E k \in 0..(n - 1) \cap 0..got : o = Out(k, FALSE, TRUE)
    <3>1. PICK k \in 0..(n - 1) \cap 0..got : o = Out(k, FALSE, TRUE)
      BY <2>4
    <3>2. k \in 0..n
      BY <1>0
    <3> HIDE DEF Out, got
    <3> QED BY <3>1, <3>2
  <2> QED BY <2>2, <2>3, <2>4
<1>4. o.ok = ok /\ o.buf = FreadInto(b, f, dr.pos, k)
      /\ o.drive = [dr EXCEPT !.pos = dr.pos + k, !.err = err]
  BY <1>3
<1>5. o.buf \in [1..m -> Byte]
  BY <1>1, <1>4, FreadIntoType
<1> DEFINE p == dr.pos + k
<1>6. p \in Nat /\ p >= dr.pos
  BY <1>0, <1>1
<1>7. o.drive = [dr EXCEPT !.pos = p, !.err = err]
  BY <1>4
<1> HIDE DEF p
<1>8. [dr EXCEPT !.pos = p, !.err = err] \in DriveOf(Names)
      /\ SameSlot(dr, [dr EXCEPT !.pos = p, !.err = err])
  BY <1>6, MovedSlot
<1>9. o.ok \in BOOLEAN
  BY <1>4
<1>10. o.drive.pos = p
  BY <1>7 DEF DriveOf
<1>11. o.drive.pos >= dr.pos
  BY <1>6, <1>10
<1> QED BY <1>5, <1>7, <1>8, <1>9, <1>11, Zenon

-----------------------------------------------------------------------------
\* What was written can be read back at its place.
LEMMA FwriteFromPlaces ==
  ASSUME NEW f \in Image, NEW pos \in Nat, pos >= HdrLen, NEW n \in Nat \ {0},
         NEW b
  PROVE  LET out == FwriteFrom(b, f, pos, n).data
         IN /\ Len(out) \in Nat /\ (pos - HdrLen) + n <= Len(out)
            /\ \A k \in 1..n : out[(pos - HdrLen) + k] = b[k]
<1> DEFINE end == pos + n - HdrLen
           len == IF end > Len(f.data) THEN end ELSE Len(f.data)
           data == [j \in 1..len |->
                      LET k == HdrLen + j - pos
                      IN IF k \in 1..n THEN b[k] ELSE ByteAt(f, j)]
<1>1. Len(f.data) \in Nat /\ HdrLen \in Nat
  BY HdrLenAssumption DEF Image
<1>2. len \in Nat /\ end <= len
  BY <1>1
<1>3. FwriteFrom(b, f, pos, n).data = data
  BY DEF FwriteFrom, Image
<1>4. Len(data) = len
  BY <1>2
<1>5. ASSUME NEW k \in 1..n
      PROVE  data[(pos - HdrLen) + k] = b[k]
  <2> DEFINE j == (pos - HdrLen) + k
  <2>1. j \in 1..len /\ HdrLen + j - pos = k
    BY <1>1, <1>2
  <2>2. data[j] = IF HdrLen + j - pos \in 1..n THEN b[HdrLen + j - pos] ELSE ByteAt(f, j)
    <3> HIDE DEF j, len
    <3> QED BY <2>1
  <2> HIDE DEF j, data
  <2>3. data[j] = b[k]
    BY <2>1, <2>2
  <2> QED BY <2>3 DEF j
<1> HIDE DEF data, len
<1> QED BY <1>1, <1>2, <1>3, <1>4, <1>5

\* A successful fwrite has written everything.
LEMMA FwriteSucceeds ==
  ASSUME NEW dr, NEW f, NEW n, NEW b, NEW faults,
         NEW o \in FwriteOutcomes(dr, f, b, n, faults), o.ok
  PROVE  o.file = FwriteFrom(b, f, dr.pos, n)
<1> DEFINE Out(k, ok) ==
      [ok |-> ok, file |-> FwriteFrom(b, f, dr.pos, k),
       drive |-> [dr EXCEPT !.pos = @ + k, !.err = IF ok THEN @ ELSE TRUE]]
<1>1. \/ o = Out(0, FALSE) \/ o = Out(n, TRUE)
      \/ \E k \in 0..(n - 1) : o = Out(k, FALSE)
  BY DEF FwriteOutcomes
<1>2. \A k : Out(k, FALSE).ok = FALSE
  OBVIOUS
<1>3. o = Out(n, TRUE)
  <2> HIDE DEF Out
  <2> QED BY <1>1, <1>2
<1> QED BY <1>3

\* A successful fread has read whatever the file holds there.
LEMMA FreadSucceeds ==
  ASSUME NEW Names, NEW dr \in DriveOf(Names), dr.pos >= HdrLen,
         NEW f \in Image, NEW m \in Nat, NEW n \in 0..m, NEW b \in [1..m -> Byte],
         NEW faults, NEW o \in FreadOutcomes(dr, f, b, n, faults), o.ok,
         NEW k \in 1..n, (dr.pos - HdrLen) + k <= Len(f.data)
  PROVE  o.buf[k] = f.data[(dr.pos - HdrLen) + k]
<1> DEFINE Out(i, ok, err) ==
      [ok |-> ok, buf |-> FreadInto(b, f, dr.pos, i),
       drive |-> [dr EXCEPT !.pos = @ + i, !.err = err]]
           got == FreadCount(f, dr.pos, n)
           j == (dr.pos - HdrLen) + k
<1>1. \/ o = Out(got, got = n \/ ~dr.err, dr.err)
      \/ \E i \in 0..(n - 1) \cap 0..got : o = Out(i, FALSE, TRUE)
  BY DEF FreadOutcomes
<1>2. \A i : Out(i, FALSE, TRUE).ok = FALSE
  OBVIOUS
<1>3. o.buf = FreadInto(b, f, dr.pos, got)
  <2>1. o = Out(got, got = n \/ ~dr.err, dr.err)
    <3> HIDE DEF Out, got
    <3> QED BY <1>1, <1>2
  <2> QED BY <2>1
<1>4. /\ dr.pos \in Nat /\ HdrLen \in Nat /\ Len(f.data) \in Nat
      /\ n \in Nat /\ k \in Nat /\ k \in 1..m
  BY HdrLenAssumption DEF Image, DriveOf
<1>5. k <= got
  BY <1>4 DEF FreadCount
<1>6. j \in 1..Len(f.data) /\ dr.pos - HdrLen + k = j
  BY <1>4
<1>7. k \in DOMAIN b
  BY <1>4
<1> HIDE DEF got, j
<1>8. FreadInto(b, f, dr.pos, got)[k] = f.data[j]
  BY <1>5, <1>6, <1>7 DEF FreadInto
<1> QED BY <1>3, <1>8 DEF j

\* Into a clear buffer it has read the file as continued by zeros.
LEMMA FreadContinues ==
  ASSUME NEW Names, NEW dr \in DriveOf(Names), dr.pos >= HdrLen,
         NEW f \in Image, NEW m \in Nat, NEW n \in 0..m, NEW b \in [1..m -> Byte],
         NEW faults, NEW o \in FreadOutcomes(dr, f, b, n, faults), o.ok,
         NEW k \in 1..n, b[k] = Zero
  PROVE  o.buf[k] = ByteAt(f, (dr.pos - HdrLen) + k)
<1> DEFINE Out(i, ok, err) ==
      [ok |-> ok, buf |-> FreadInto(b, f, dr.pos, i),
       drive |-> [dr EXCEPT !.pos = @ + i, !.err = err]]
           got == FreadCount(f, dr.pos, n)
           j == (dr.pos - HdrLen) + k
<1>1. \/ o = Out(got, got = n \/ ~dr.err, dr.err)
      \/ \E i \in 0..(n - 1) \cap 0..got : o = Out(i, FALSE, TRUE)
  BY DEF FreadOutcomes
<1>2. \A i : Out(i, FALSE, TRUE).ok = FALSE
  OBVIOUS
<1>3. o.buf = FreadInto(b, f, dr.pos, got)
  <2>1. o = Out(got, got = n \/ ~dr.err, dr.err)
    <3> HIDE DEF Out, got
    <3> QED BY <1>1, <1>2
  <2> QED BY <2>1
<1>4. /\ dr.pos \in Nat /\ HdrLen \in Nat /\ Len(f.data) \in Nat
      /\ n \in Nat /\ k \in Nat /\ k \in 1..m
  BY HdrLenAssumption DEF Image, DriveOf
<1>5. dr.pos - HdrLen + k = j /\ k \in DOMAIN b
  BY <1>4
<1>6. CASE j <= Len(f.data)
  BY <1>4, <1>6, FreadSucceeds DEF ByteAt
<1>7. CASE ~(j <= Len(f.data))
  <2>1. j \notin 1..Len(f.data) /\ ByteAt(f, j) = Zero
    BY <1>4, <1>7 DEF ByteAt
  <2> HIDE DEF got, j
  <2>2. FreadInto(b, f, dr.pos, got)[k] = b[k]
    BY <1>5, <2>1 DEF FreadInto
  <2> QED BY <1>3, <2>1, <2>2 DEF j
<1> QED BY <1>6, <1>7

\* The bytes under a write are those written.
LEMMA FwriteFromBytes ==
  ASSUME NEW f \in Image, NEW pos \in Nat, pos >= HdrLen, NEW n \in Nat \ {0},
         NEW b, NEW k \in 1..n
  PROVE  ByteAt(FwriteFrom(b, f, pos, n), (pos - HdrLen) + k) = b[k]
<1> DEFINE out == FwriteFrom(b, f, pos, n).data
<1>1. /\ Len(out) \in Nat /\ (pos - HdrLen) + n <= Len(out)
      /\ out[(pos - HdrLen) + k] = b[k]
  BY FwriteFromPlaces
<1>2. (pos - HdrLen) + k <= Len(out)
  <2> HIDE DEF out
  <2> QED BY <1>1, HdrLenAssumption
<1> QED BY <1>1, <1>2 DEF ByteAt

\* A write never shortens a file, and ends within it.
LEMMA FwriteFromGrows ==
  ASSUME NEW f \in Image, NEW pos \in Nat, pos >= HdrLen, NEW n \in Nat, NEW b
  PROVE  /\ Len(FwriteFrom(b, f, pos, n).data) \in Nat
         /\ Len(f.data) <= Len(FwriteFrom(b, f, pos, n).data)
<1> DEFINE end == pos + n - HdrLen
           len == IF end > Len(f.data) THEN end ELSE Len(f.data)
           data == [j \in 1..len |->
                      LET k == HdrLen + j - pos
                      IN IF k \in 1..n THEN b[k] ELSE ByteAt(f, j)]
<1>1. Len(f.data) \in Nat /\ HdrLen \in Nat
  BY HdrLenAssumption DEF Image
<1>2. len \in Nat /\ Len(f.data) <= len
  BY <1>1
<1>3. CASE n = 0
  BY <1>1, <1>3 DEF FwriteFrom
<1>4. CASE n # 0
  <2>1. FwriteFrom(b, f, pos, n).data = data
    BY <1>4 DEF FwriteFrom, Image
  <2> HIDE DEF len
  <2>2. Len(data) = len
    BY <1>2
  <2> QED BY <1>2, <2>1, <2>2
<1> QED BY <1>3, <1>4

\* After a successful fread the stream stands behind what was asked for, or,
\* if the file ended before, at or behind its end.
LEMMA FreadStops ==
  ASSUME NEW Names, NEW dr \in DriveOf(Names), NEW f \in Image, NEW n \in Nat,
         NEW b, NEW faults, NEW o \in FreadOutcomes(dr, f, b, n, faults), o.ok
  PROVE  /\ o.drive.pos \in dr.pos..(dr.pos + n)
         /\ o.drive.pos < dr.pos + n => HdrLen + Len(f.data) <= o.drive.pos
<1> DEFINE Out(i, ok, err) ==
      [ok |-> ok, buf |-> FreadInto(b, f, dr.pos, i),
       drive |-> [dr EXCEPT !.pos = @ + i, !.err = err]]
           got == FreadCount(f, dr.pos, n)
<1>1. \/ o = Out(got, got = n \/ ~dr.err, dr.err)
      \/ \E i \in 0..(n - 1) \cap 0..got : o = Out(i, FALSE, TRUE)
  BY DEF FreadOutcomes
<1>2. \A i : Out(i, FALSE, TRUE).ok = FALSE
  OBVIOUS
<1>3. o = Out(got, got = n \/ ~dr.err, dr.err)
  <2> HIDE DEF Out, got
  <2> QED BY <1>1, <1>2
<1>4. dr.pos \in Nat /\ HdrLen \in Nat /\ Len(f.data) \in Nat
  BY HdrLenAssumption DEF Image, DriveOf
<1>5. got \in 0..n /\ (got < n => HdrLen + Len(f.data) <= dr.pos + got)
  BY <1>4 DEF FreadCount
<1> HIDE DEF got
<1>6. o.drive.pos = dr.pos + got
  BY <1>3 DEF DriveOf
<1> QED BY <1>4, <1>5, <1>6
=============================================================================
