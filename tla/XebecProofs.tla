----------------------------- MODULE XebecProofs -----------------------------
(***************************************************************************)
(* What Xebec guarantees for every set of images and slots, every buffer,  *)
(* sector and DCB length, every run of sectors, and whether or not the     *)
(* host's I/O fails: types, slots and bus, the images a step may change,   *)
(* where a WRITE lands, and that the controller implements SasiDisk.       *)
(***************************************************************************)
EXTENDS XebecDisk, HardImageProofs

USE HdrLenAssumption, NamesAssumption, ByteAssumption, SizeAssumption, GeometryAssumption

-----------------------------------------------------------------------------
(***************************************************************************)
(* Addresses                                                               *)
(***************************************************************************)
\* Splitting a number and putting it together again gives the number.
LEMMA Division ==
  ASSUME NEW a \in Nat, NEW b \in Nat \ {0}
  PROVE  a \div b \in Nat /\ a % b \in Nat /\ a = (a \div b) * b + (a % b)
<1>1. b \in Int /\ b > 0 /\ a \in Int
  OBVIOUS
<1>2. a \div b \in Nat /\ a % b \in Nat
  OBVIOUS
<1>3. a = b * (a \div b) + (a % b)
  BY <1>1
<1>4. b * (a \div b) = (a \div b) * b
  BY <1>1, <1>2
<1> QED BY <1>2, <1>3, <1>4

\* The detour through cylinder, head and sector cancels out: whatever the
\* slot's geometry, sector lba is the lba-th sector after the header.
LEMMA SeekIsFlat ==
  ASSUME NEW dr \in Drive, dr.secs > 0, dr.heads > 0, NEW lba \in Nat,
         secsize \in Nat
  PROVE  SeekPos(dr, lba) = HdrLen + secsize * lba
<1> DEFINE q == lba \div dr.secs
           r == lba % dr.secs
           c == q \div dr.heads
           h == q % dr.heads
<1>1. dr.secs \in Nat \ {0} /\ dr.heads \in Nat \ {0}
  BY DEF Drive, DriveOf
<1>2. q \in Nat /\ r \in Nat /\ lba = q * dr.secs + r
  BY <1>1, Division
<1>3. c \in Nat /\ h \in Nat /\ q = c * dr.heads + h
  <2> HIDE DEF q
  <2> QED BY <1>1, <1>2, Division
<1>4. SeekPos(dr, lba) = HdrLen + secsize * ((c * dr.heads + h) * dr.secs + r)
  BY DEF SeekPos, Split, SectorOffset
<1> HIDE DEF q, r, c, h
<1> QED BY <1>2, <1>3, <1>4

-----------------------------------------------------------------------------
(***************************************************************************)
(* Slots                                                                   *)
(***************************************************************************)
GoodSlot(dr) ==
  /\ dr \in Drive
  /\ dr.open => UsableSlot(dr, MaxHeads) /\ dr.pos >= HdrLen
  /\ ~dr.open => dr.name = None

GoodSlots == d \in [Luns -> Drive] /\ \A l \in Luns : GoodSlot(d[l])

\* The inductive invariant.
IInv == TypeOK /\ GoodSlots /\ BusIsClean /\ TransferMoves

LEMMA OpenedGood ==
  ASSUME NEW o \in Drive, NEW n, OpenedOrNot(o, n, MaxHeads)
  PROVE  GoodSlot(o)
BY DEF OpenedOrNot, GoodSlot

LEMMA SameGood ==
  ASSUME NEW x, GoodSlot(x), NEW y \in Drive, SameSlot(x, y), y.pos >= HdrLen
  PROVE  GoodSlot(y)
BY DEF GoodSlot, SameSlot, UsableSlot

LEMMA EmptyGood == GoodSlot(EmptyDrive)
BY EmptyDriveType DEF GoodSlot, Drive

\* xebec_open and trs_xebec_attach leave a good slot.
LEMMA OpenGood ==
  ASSUME NEW h \in [Images -> Image], NEW dr \in Drive
  PROVE  GoodSlot(HardImageOpen(dr, h, SecPerTrk, MaxHeads))
BY OpenSlot, OpenedGood DEF Drive

LEMMA SlotWithGood ==
  ASSUME NEW h \in [Images -> Image], NEW i \in Images
  PROVE  GoodSlot(SlotWith(i, h, SecPerTrk, MaxHeads))
BY SlotWithType, OpenedGood DEF Drive

\* The reopening branch of xebec_seek never opens anything: a closed slot has
\* no name to open.
LEMMA ReadySlot ==
  ASSUME IInv, NEW l \in Luns
  PROVE  /\ GoodSlot(Ready(l))
         /\ Ready(l).open => Ready(l) = d[l] /\ d[l].open
<1>1. GoodSlot(d[l])
  BY DEF IInv, GoodSlots
<1>2. CASE d[l].open
  BY <1>1, <1>2 DEF Ready
<1>3. CASE ~d[l].open
  <2>1. d[l].name = None /\ d[l] \in Drive
    BY <1>1, <1>3 DEF GoodSlot
  <2>2. Ready(l) = Closed(d[l])
    BY <1>3, <2>1 DEF Ready, XebecOpen, HardImageOpen
  <2>3. Closed(d[l]) \in Drive /\ Closed(d[l]).name = None
        /\ Closed(d[l]).open = FALSE
    BY <2>1, ClosedType DEF Drive
  <2> QED BY <1>3, <2>2, <2>3 DEF GoodSlot
<1> QED BY <1>2, <1>3

\* xebec_seek moves the stream to the addressed sector, and nothing else.
LEMMA SoughtSlot ==
  ASSUME IInv, NEW l \in Luns, NEW lba \in Nat, Ready(l).open
  PROVE  /\ GoodSlot(Sought(l, lba)) /\ Sought(l, lba) \in DriveOf(Images)
         /\ SameSlot(d[l], Sought(l, lba))
         /\ Sought(l, lba).open /\ Sought(l, lba).name \in Images
         /\ Sought(l, lba).pos = HdrLen + secsize * lba
         /\ secsize \in 1..BufLen
<1> DEFINE dr == d[l]
           p == HdrLen + secsize * lba
<1>1. Ready(l) = dr /\ dr.open /\ GoodSlot(dr) /\ dr \in Drive
  BY ReadySlot DEF IInv, GoodSlots, GoodSlot
<1>2. dr.secs > 0 /\ dr.heads > 0 /\ dr.name \in Images
  BY <1>1 DEF GoodSlot, UsableSlot, Drive, DriveOf
<1>3. secsize \in 1..BufLen /\ secsize \in Nat
  BY DEF IInv, TypeOK
<1>4. p \in Nat /\ p >= HdrLen
  <2>1. secsize * lba \in Nat
    BY <1>3
  <2> QED BY <2>1
<1> HIDE DEF p
<1>5. SeekPos(dr, lba) = p
  BY <1>1, <1>2, <1>3, SeekIsFlat DEF p
<1>6. Sought(l, lba) = [dr EXCEPT !.pos = p]
  BY <1>1, <1>5 DEF Sought
<1>7. [dr EXCEPT !.pos = p] \in Drive /\ SameSlot(dr, [dr EXCEPT !.pos = p])
      /\ [dr EXCEPT !.pos = p].pos = p
  <2>1. [dr EXCEPT !.pos = p] \in Drive /\ SameSlot(dr, [dr EXCEPT !.pos = p])
    BY <1>1, <1>4, MovedSlot DEF Drive
  <2> QED BY <1>1, <2>1 DEF Drive, DriveOf
<1>8. GoodSlot([dr EXCEPT !.pos = p])
  BY <1>1, <1>4, <1>7, SameGood
<1> HIDE DEF dr
<1> QED BY <1>1, <1>2, <1>3, <1>6, <1>7, <1>8 DEF SameSlot, Drive, p, dr

\* Replacing one slot by a good one leaves all of them good.
LEMMA SlotUpdate ==
  ASSUME GoodSlots, NEW l \in Luns, NEW dr, GoodSlot(dr), d' = [d EXCEPT ![l] = dr]
  PROVE  GoodSlots'
<1>1. dr \in Drive
  BY DEF GoodSlot
<1>2. d' \in [Luns -> Drive] /\ \A k \in Luns : d'[k] = IF k = l THEN dr ELSE d[k]
  BY <1>1 DEF GoodSlots
<1>3. \A k \in Luns : GoodSlot(d'[k])
  BY <1>2 DEF GoodSlots
<1> QED BY <1>2, <1>3 DEF GoodSlots, GoodSlot

LEMMA SameSlots == GoodSlots /\ UNCHANGED d => GoodSlots'
BY DEF GoodSlots, GoodSlot

-----------------------------------------------------------------------------
(***************************************************************************)
(* Reset and power-on                                                      *)
(***************************************************************************)
LEMMA ZeroBufType == ZeroBuf \in Buffer /\ FillBuf \in Buffer
BY ZeroAssumption DEF ZeroBuf, FillBuf, Buffer

LEMMA ResetType ==
  ASSUME TypeOK, ResetBus, host' \in [Images -> Image], present' \in BOOLEAN,
         secsize' \in {CpmSize, TcsSize}, GoodSlots'
  PROVE  IInv'
<1>1. TypeOK'
  <2>1. /\ phase' \in Phases /\ status' \in Phases /\ command' \in Commands
        /\ lun' \in Luns /\ buf' \in Buffer
        /\ finalStatus' \in {"OK", "ERROR"} /\ statusIndex' \in {0, 1}
    BY ZeroBufType DEF ResetBus, Phases, Commands
  <2>3. /\ dcbIndex' \in 0..DcbLen /\ bytesdone' \in 0..BufLen
        /\ datalen' \in 0..BufLen /\ blocks' \in 0..ZeroCount
    BY DEF ResetBus
  <2>4. dcb' \in Dcb
    BY DEF ResetBus, TypeOK
  <2>5. busdata' \in BOOLEAN
    BY DEF ResetBus
  <2>2. d' \in [Luns -> Drive]
    BY DEF GoodSlots
  <2> QED BY <2>1, <2>2, <2>3, <2>4, <2>5 DEF TypeOK
<1>2. BusIsClean' /\ TransferMoves'
  BY DEF ResetBus, BusIsClean, TransferMoves, ZeroBuf
<1> QED BY <1>1, <1>2 DEF IInv

LEMMA SoftResetInv == IInv /\ SoftReset => IInv'
<1> SUFFICES ASSUME IInv, SoftReset PROVE IInv'
  OBVIOUS
<1>1. GoodSlots'
  BY SameSlots DEF IInv, SoftReset
<1> QED BY <1>1, ResetType DEF IInv, SoftReset, TypeOK

LEMMA PowerOnInv == IInv /\ PowerOn => IInv'
<1> SUFFICES ASSUME IInv, PowerOn PROVE IInv'
  OBVIOUS
<1>1. host \in [Images -> Image] /\ d \in [Luns -> Drive] /\ host' = host
  BY DEF IInv, TypeOK, PowerOn
<1> DEFINE e(l) == [d[l] EXCEPT !.wp = FALSE, !.heads = 0, !.secs = 0]
<1>2. \A l \in Luns : e(l) \in Drive
  BY <1>1 DEF Drive, DriveOf
<1>3. \A l \in Luns : GoodSlot(XebecOpen(e(l)))
  <2> HIDE DEF e
  <2> QED BY <1>1, <1>2, OpenGood DEF XebecOpen
<1>4. d' = [l \in Luns |-> XebecOpen(e(l))]
  BY DEF PowerOn
<1> HIDE DEF e
<1>5. GoodSlots'
  BY <1>3, <1>4 DEF GoodSlots, GoodSlot
<1> QED BY <1>1, <1>5, ResetType DEF IInv, PowerOn

-----------------------------------------------------------------------------
(***************************************************************************)
(* The commands                                                            *)
(***************************************************************************)
\* What executing a command must leave behind.
Executed ==
  /\ host' \in [Images -> Image] /\ buf' \in Buffer /\ GoodSlots'
  /\ datalen' \in 0..BufLen
  /\ finalStatus' \in {"OK", "ERROR"} /\ statusIndex' \in {0, 1}
  /\ \/ phase' = "STATUS" /\ status' = "STATUS"
     \/ phase' \in {"DATA_IN", "DATA_OUT"} /\ status' = phase' /\ datalen' > 0

\* Slot l's drive is now dr.
LEMMA Driven ==
  ASSUME IInv, NEW l \in Luns, NEW dr, GoodSlot(dr), d' = [d EXCEPT ![l] = dr]
  PROVE  GoodSlots'
BY SlotUpdate DEF IInv

LEMMA FinishedStep ==
  ASSUME IInv, NEW ok, Finish(ok), UNCHANGED <<buf, datalen>>,
         host' \in [Images -> Image], GoodSlots'
  PROVE  Executed
BY DEF IInv, TypeOK, Finish, Executed, Buffer

LEMMA SeekRefusedStep ==
  ASSUME IInv, NEW l \in Luns, SeekRefused(l)
  PROVE  Executed
<1>1. GoodSlots'
  BY ReadySlot, Driven DEF SeekRefused
<1> QED BY <1>1, FinishedStep DEF SeekRefused, IInv, TypeOK

LEMMA TestDriveReadyStep ==
  ASSUME IInv, NEW l \in Luns, TestDriveReady(l)
  PROVE  Executed
<1>1. GoodSlots'
  BY ReadySlot, Driven DEF TestDriveReady
<1> QED BY <1>1, FinishedStep DEF TestDriveReady, IInv, TypeOK

LEMMA SeekStep ==
  ASSUME IInv, NEW l \in Luns, NEW lba \in Nat, Seek(l, lba)
  PROVE  Executed
<1>1. GoodSlots'
  BY SoughtSlot, Driven DEF Seek
<1> QED BY <1>1, FinishedStep DEF Seek, IInv, TypeOK

LEMMA WriteStep ==
  ASSUME IInv, NEW l \in Luns, NEW lba \in Nat, Write(l, lba)
  PROVE  Executed
<1>1. GoodSlots' /\ secsize \in 1..BufLen
  BY SoughtSlot, Driven DEF Write
<1>2. secsize \in 0..BufLen /\ secsize > 0
  BY <1>1
<1> QED BY <1>1, <1>2 DEF Write, DataPhase, IInv, TypeOK, Executed, Buffer

\* fwrite of a sector through drive dr of slot l: the images stay images, the
\* slot good; what else changes is dr's file, from its position on.
LEMMA WriteOutcome ==
  ASSUME IInv, NEW l \in Luns, NEW dr, GoodSlot(dr), dr.name \in Images,
         dr.open, NEW b \in Buffer,
         NEW o \in FwriteOutcomes(dr, host[dr.name], b, secsize, IoFaults),
         host' = [host EXCEPT ![dr.name] = o.file],
         d' = [d EXCEPT ![l] = o.drive]
  PROVE  /\ host' \in [Images -> Image] /\ GoodSlots' /\ o.ok \in BOOLEAN
         /\ SameSlot(dr, d'[l]) /\ (o.ok => d'[l].pos = dr.pos + secsize)
         /\ \A i \in Images : i # dr.name => host'[i] = host[i]
         /\ host'[dr.name].hdr = host[dr.name].hdr
<1>1. /\ host \in [Images -> Image] /\ host[dr.name] \in Image
      /\ dr \in DriveOf(Images) /\ d \in [Luns -> Drive]
      /\ dr.pos \in Nat /\ dr.pos >= HdrLen
  BY DEF IInv, TypeOK, GoodSlot, Drive, DriveOf
<1>2. /\ BufLen \in Nat /\ b \in [1..BufLen -> Byte]
      /\ secsize \in 0..BufLen /\ secsize \in Nat
  BY DEF Buffer, IInv, TypeOK
<1>3. /\ o.ok \in BOOLEAN /\ o.file \in Image
      /\ o.drive \in DriveOf(Images) /\ SameSlot(dr, o.drive)
      /\ o.drive.pos >= dr.pos
      /\ \E k \in 0..secsize : o.file = FwriteFrom(b, host[dr.name], dr.pos, k)
  BY <1>1, <1>2, FwriteOutcome
<1>4. o.ok => o.drive.pos = dr.pos + secsize
  BY <1>1, <1>2, FwriteAdvances
<1>5. PICK k \in 0..secsize : o.file = FwriteFrom(b, host[dr.name], dr.pos, k)
  BY <1>3
<1>6. k \in Nat
  BY <1>2
<1>7. o.file.hdr = host[dr.name].hdr
  BY <1>1, <1>5, <1>6, FwriteFromHeader
<1>8. GoodSlot(o.drive)
  <2>1. o.drive.pos >= HdrLen
    BY <1>1, <1>3 DEF DriveOf
  <2> QED BY <1>3, <2>1, SameGood DEF Drive
<1>9. GoodSlots'
  BY <1>8, Driven
<1>10. host' \in [Images -> Image] /\ host'[dr.name] = o.file
       /\ \A i \in Images : i # dr.name => host'[i] = host[i]
  BY <1>1, <1>3
<1>11. d'[l] = o.drive
  BY <1>1
<1> QED BY <1>3, <1>4, <1>7, <1>9, <1>10, <1>11

LEMMA FormatStep ==
  ASSUME IInv, NEW l \in Luns, NEW lba \in Nat, Format(l, lba)
  PROVE  Executed
<1> DEFINE dr == Sought(l, lba)
<1>1. GoodSlot(dr) /\ dr.name \in Images /\ dr.open
  BY SoughtSlot DEF Format
<1>2. PICK o \in FwriteOutcomes(dr, host[dr.name], FillBuf, secsize, IoFaults) :
        /\ host' = [host EXCEPT ![dr.name] = o.file]
        /\ d' = [d EXCEPT ![l] = o.drive]
        /\ Finish(o.ok)
  BY DEF Format
<1> HIDE DEF dr
<1>3. host' \in [Images -> Image] /\ GoodSlots'
  BY <1>1, <1>2, ZeroBufType, WriteOutcome
<1> QED BY <1>2, <1>3, FinishedStep DEF Format

\* fread of a sector through drive dr of slot l.
LEMMA ReadOutcome ==
  ASSUME IInv, NEW l \in Luns, NEW dr, GoodSlot(dr), dr.name \in Images, dr.open,
         NEW o \in FreadOutcomes(dr, host[dr.name], buf, secsize, IoFaults),
         buf' = o.buf, d' = [d EXCEPT ![l] = o.drive]
  PROVE  buf' \in Buffer /\ GoodSlots'
<1>1. host[dr.name] \in Image /\ dr \in DriveOf(Images) /\ dr.pos \in Nat
      /\ dr.pos >= HdrLen
  BY DEF IInv, TypeOK, GoodSlot, Drive, DriveOf
<1>2. /\ BufLen \in Nat /\ buf \in [1..BufLen -> Byte] /\ secsize \in 0..BufLen
  BY DEF Buffer, IInv, TypeOK
<1>3. /\ o.buf \in [1..BufLen -> Byte]
      /\ o.drive \in DriveOf(Images) /\ SameSlot(dr, o.drive)
      /\ o.drive.pos >= dr.pos
  BY <1>1, <1>2, FreadOutcome
<1>4. GoodSlot(o.drive)
  <2>1. o.drive.pos >= HdrLen
    BY <1>1, <1>3 DEF DriveOf
  <2> QED BY <1>3, <2>1, SameGood DEF Drive
<1> QED BY <1>3, <1>4, Driven DEF Buffer

LEMMA ReadStep ==
  ASSUME IInv, NEW l \in Luns, NEW lba \in Nat, Read(l, lba)
  PROVE  Executed
<1> DEFINE dr == Sought(l, lba)
<1>1. GoodSlot(dr) /\ dr.name \in Images /\ dr.open /\ secsize \in 1..BufLen
  BY SoughtSlot DEF Read
<1>2. PICK o \in FreadOutcomes(dr, host[dr.name], buf, secsize, IoFaults) :
        /\ buf' = o.buf
        /\ d' = [d EXCEPT ![l] = o.drive]
        /\ \/ o.ok /\ DataPhase("DATA_IN", secsize)
           \/ ~o.ok /\ Finish(FALSE) /\ UNCHANGED datalen
  BY DEF Read, Fetch
<1> HIDE DEF dr
<1>3. buf' \in Buffer /\ GoodSlots'
  BY <1>1, <1>2, ReadOutcome
<1>4. secsize \in 0..BufLen /\ secsize > 0
  BY <1>1
<1> QED BY <1>2, <1>3, <1>4
        DEF Read, IInv, TypeOK, Executed, Finish, DataPhase

LEMMA ImmediateStep ==
  ASSUME IInv, NEW op, Immediate(op)
  PROVE  Executed
<1>1. GoodSlots' /\ host' \in [Images -> Image]
  BY SameSlots DEF Immediate, IInv, TypeOK
<1>2. buf' \in Buffer
  BY ZeroAssumption DEF Immediate, IInv, TypeOK, Buffer
<1>3. \A n \in {SenseLen, CharLen, secsize} : n \in 0..BufLen /\ n > 0
  BY DEF IInv, TypeOK
<1> QED BY <1>1, <1>2, <1>3 DEF Immediate, IInv, TypeOK, Executed, Finish, DataPhase

LEMMA ExecuteStep ==
  ASSUME IInv, NEW c \in Dcb, Execute(c)
  PROVE  Executed
<1>1. c.lun \in Luns /\ c.lba \in Nat
  BY DEF Dcb
<1>2. CASE Read(c.lun, c.lba)
  BY <1>1, <1>2, ReadStep
<1>3. CASE Write(c.lun, c.lba)
  BY <1>1, <1>3, WriteStep
<1>4. CASE Format(c.lun, c.lba)
  BY <1>1, <1>4, FormatStep
<1>5. CASE Seek(c.lun, c.lba)
  BY <1>1, <1>5, SeekStep
<1>6. CASE Seek(c.lun, 0)
  BY <1>1, <1>6, SeekStep
<1>7. CASE SeekRefused(c.lun)
  BY <1>1, <1>7, SeekRefusedStep
<1>8. CASE TestDriveReady(c.lun)
  BY <1>1, <1>8, TestDriveReadyStep
<1>9. CASE Immediate(c.op)
  BY <1>9, ImmediateStep
<1> QED BY <1>2, <1>3, <1>4, <1>5, <1>6, <1>7, <1>8, <1>9 DEF Execute

\* A transfer is of at least one sector.
LEMMA SectorCountType ==
  ASSUME NEW c \in Dcb
  PROVE  SectorCount(c) \in 1..ZeroCount
BY DEF SectorCount, Dcb

LEMMA XebecCommandInv ==
  ASSUME IInv, NEW c \in GuestDcbs, XebecCommand(c)
  PROVE  IInv'
<1>1. c \in Dcb /\ c.lun \in Luns /\ c.op \in Commands
  BY DcbAssumption DEF Dcb
<1>2. Executed
  BY <1>1, ExecuteStep DEF XebecCommand
<1>3. blocks' \in 0..ZeroCount /\ blocks' > 0
  BY <1>1, SectorCountType DEF XebecCommand
<1>4. TypeOK'
  <2>1. /\ dcb' \in Dcb /\ dcbIndex' \in 0..DcbLen /\ command' \in Commands
        /\ lun' \in Luns /\ bytesdone' \in 0..BufLen
    BY <1>1 DEF XebecCommand
  <2>2. present' \in BOOLEAN /\ secsize' \in {CpmSize, TcsSize} /\ busdata' \in BOOLEAN
    BY DEF XebecCommand, IInv, TypeOK
  <2>3. phase' \in Phases /\ status' \in Phases /\ d' \in [Luns -> Drive]
    BY <1>2 DEF Executed, Phases, GoodSlots
  <2> QED BY <1>2, <1>3, <2>1, <2>2, <2>3 DEF Executed, TypeOK
<1>5. BusIsClean' /\ TransferMoves'
  BY <1>2, <1>3 DEF XebecCommand, Executed, BusIsClean, TransferMoves
<1> QED BY <1>2, <1>4, <1>5 DEF IInv, Executed

-----------------------------------------------------------------------------
(***************************************************************************)
(* The other steps of the guest                                            *)
(***************************************************************************)
LEMMA SelectedInv ==
  ASSUME IInv, NEW size \in {CpmSize, TcsSize}, Selected(size)
  PROVE  IInv'
<1>1. GoodSlots'
  BY SameSlots DEF IInv, Selected
<1>2. TypeOK'
  BY DEF IInv, TypeOK, Selected, Phases, Buffer, Drive
<1>3. BusIsClean' /\ TransferMoves'
  BY DEF IInv, Selected, BusIsClean, TransferMoves
<1> QED BY <1>1, <1>2, <1>3 DEF IInv

LEMMA TcsDataInv ==
  ASSUME IInv, NEW id \in BOOLEAN, TcsData(id)
  PROVE  IInv'
<1>1. GoodSlots'
  BY SameSlots DEF IInv, TcsData
<1>2. TypeOK'
  BY DEF IInv, TypeOK, TcsData, Buffer, Drive
<1>3. BusIsClean' /\ TransferMoves'
  BY DEF IInv, TcsData, BusIsClean, TransferMoves
<1> QED BY <1>1, <1>2, <1>3 DEF IInv

LEMMA DcbByteInv == IInv /\ DcbByte => IInv'
<1> SUFFICES ASSUME IInv, DcbByte PROVE IInv'
  OBVIOUS
<1>1. GoodSlots'
  BY SameSlots DEF IInv, DcbByte
<1>2. dcbIndex' \in 0..DcbLen
  BY DEF IInv, TypeOK, DcbByte
<1>3. TypeOK'
  BY <1>2 DEF IInv, TypeOK, DcbByte, Buffer, Drive
<1>4. BusIsClean' /\ TransferMoves'
  BY DEF IInv, DcbByte, BusIsClean, TransferMoves
<1> QED BY <1>1, <1>3, <1>4 DEF IInv

LEMMA StatusFirstInv == IInv /\ StatusFirst => IInv'
<1> SUFFICES ASSUME IInv, StatusFirst PROVE IInv'
  OBVIOUS
<1>1. GoodSlots'
  BY SameSlots DEF IInv, StatusFirst
<1>2. TypeOK'
  BY DEF IInv, TypeOK, StatusFirst, Buffer, Drive
<1>3. BusIsClean' /\ TransferMoves'
  BY DEF IInv, StatusFirst, BusIsClean, TransferMoves
<1> QED BY <1>1, <1>2, <1>3 DEF IInv

\* The steps of a data phase change no more than these.
Moving ==
  /\ phase \in {"DATA_IN", "DATA_OUT"}
  /\ UNCHANGED <<present, dcb, dcbIndex, command, lun, datalen, secsize, busdata>>

\* What a byte of a data phase must leave behind: the phase going on with
\* something to move, or over.
LEMMA MovedInv ==
  ASSUME IInv, Moving, host' \in [Images -> Image], GoodSlots', buf' \in Buffer,
         bytesdone' \in 0..BufLen, blocks' \in 0..ZeroCount,
         \/ Finish(TRUE) \/ Finish(FALSE)
         \/ /\ UNCHANGED <<phase, status, finalStatus, statusIndex>>
            /\ bytesdone' < datalen
            /\ command \in {"READ", "WRITE"} => blocks' > 0
  PROVE  IInv'
<1>1. /\ phase' \in Phases /\ status' \in Phases
      /\ finalStatus' \in {"OK", "ERROR"} /\ statusIndex' \in {0, 1}
  BY DEF IInv, TypeOK, Finish, Phases
<1>2. TypeOK'
  BY <1>1 DEF IInv, TypeOK, Moving, GoodSlots
<1>3. BusIsClean' /\ TransferMoves'
  BY DEF Moving, Finish, BusIsClean, TransferMoves
<1> QED BY <1>2, <1>3 DEF IInv

LEMMA DataInMoreInv == IInv /\ DataInMore => IInv'
<1> SUFFICES ASSUME IInv, DataInMore PROVE IInv'
  OBVIOUS
<1>1. /\ Moving /\ GoodSlots' /\ host' \in [Images -> Image] /\ buf' \in Buffer
      /\ blocks' \in 0..ZeroCount
  BY SameSlots DEF IInv, TypeOK, DataInMore, Moving, Buffer
<1>2. bytesdone' \in 0..BufLen /\ bytesdone' < datalen
  BY DEF IInv, TypeOK, DataInMore
<1>3. command \in {"READ", "WRITE"} => blocks' > 0
  BY DEF IInv, TransferMoves, DataInMore
<1> QED BY <1>1, <1>2, <1>3, MovedInv DEF DataInMore

LEMMA DataInLastInv == IInv /\ DataInLast => IInv'
<1> SUFFICES ASSUME IInv, DataInLast PROVE IInv'
  OBVIOUS
<1>1. command = "READ" => blocks > 0
  BY DEF IInv, TransferMoves, DataInLast
<1>2. /\ blocks' \in 0..ZeroCount /\ host' \in [Images -> Image]
      /\ bytesdone \in Nat /\ datalen \in 1..BufLen
  BY <1>1 DEF IInv, TypeOK, DataInLast
<1>3. 0 \in 0..BufLen /\ datalen \in 0..BufLen /\ 0 < datalen
  BY <1>2
<1>4. CASE command = "READ" /\ blocks' > 0 /\ NextSector
  <2>1. CASE d[lun].open
    <3>1. /\ d[lun].name \in Images /\ GoodSlot(d[lun]) /\ lun \in Luns
      BY <2>1 DEF IInv, TypeOK, GoodSlots, GoodSlot, UsableSlot, Drive, DriveOf
    <3>2. PICK o \in FreadOutcomes(d[lun], host[d[lun].name], buf, secsize, IoFaults) :
            /\ buf' = o.buf
            /\ d' = [d EXCEPT ![lun] = o.drive]
            /\ \/ /\ o.ok /\ bytesdone' = 0
                  /\ UNCHANGED <<phase, status, finalStatus, statusIndex>>
               \/ ~o.ok /\ bytesdone' = datalen /\ Finish(FALSE)
      BY <1>4, <2>1 DEF NextSector
    <3>3. buf' \in Buffer /\ GoodSlots'
      BY <2>1, <3>1, <3>2, ReadOutcome
    <3>4. Moving
      BY <1>4, <2>1 DEF DataInLast, NextSector, Moving
    <3> QED BY <1>2, <1>3, <1>4, <3>2, <3>3, <3>4, MovedInv
  <2>2. CASE ~d[lun].open
    <3>1. buf' \in Buffer /\ GoodSlots' /\ Moving /\ bytesdone' = 0
          /\ UNCHANGED <<phase, status, finalStatus, statusIndex>>
      BY <1>4, <2>2, SameSlots DEF IInv, TypeOK, NextSector, DataInLast, Moving, Buffer
    <3> QED BY <1>2, <1>3, <1>4, <3>1, MovedInv
  <2> QED BY <2>1, <2>2
<1>5. CASE /\ command = "READ" => blocks' <= 0
           /\ bytesdone' = datalen /\ Finish(TRUE) /\ UNCHANGED <<buf, datalen, d>>
  <2>1. buf' \in Buffer /\ GoodSlots' /\ Moving
    BY <1>5, SameSlots DEF IInv, TypeOK, DataInLast, Moving, Buffer
  <2> QED BY <1>2, <1>3, <1>5, <2>1, MovedInv
<1> QED BY <1>4, <1>5 DEF DataInLast

LEMMA StoreByteType ==
  ASSUME IInv, NEW v \in GuestByte, StoreByte(v)
  PROVE  buf' \in Buffer
BY DEF IInv, TypeOK, StoreByte, Buffer

LEMMA DataOutMoreInv ==
  ASSUME IInv, NEW v \in GuestByte, DataOutMore(v)
  PROVE  IInv'
<1>1. /\ Moving /\ GoodSlots' /\ host' \in [Images -> Image]
      /\ blocks' \in 0..ZeroCount
  BY SameSlots DEF IInv, TypeOK, DataOutMore, StoreByte, Moving
<1>2. bytesdone' \in 0..BufLen /\ bytesdone' < datalen
  BY DEF IInv, TypeOK, DataOutMore, StoreByte
<1>3. command \in {"READ", "WRITE"} => blocks' > 0
  BY DEF IInv, TransferMoves, DataOutMore, StoreByte
<1> QED BY <1>1, <1>2, <1>3, StoreByteType, MovedInv DEF DataOutMore

LEMMA BlockStoredStep ==
  ASSUME IInv, Moving, command = "WRITE", BlockStored, host' \in [Images -> Image],
         GoodSlots', buf' \in Buffer
  PROVE  IInv'
<1>1. blocks > 0 /\ bytesdone < datalen
  BY DEF IInv, TransferMoves, Moving
<1>2. blocks' \in 0..ZeroCount /\ datalen \in 0..BufLen /\ 0 < datalen /\ 0 \in 0..BufLen
  BY <1>1 DEF IInv, TypeOK, BlockStored
<1>3. CASE blocks' > 0
  BY <1>2, <1>3, MovedInv DEF BlockStored
<1>4. CASE ~(blocks' > 0)
  BY <1>2, <1>4, MovedInv DEF BlockStored
<1> QED BY <1>3, <1>4

LEMMA DataOutLastInv ==
  ASSUME IInv, NEW v \in GuestByte, DataOutLast(v)
  PROVE  IInv'
<1>1. buf' \in Buffer /\ Moving
  BY StoreByteType DEF DataOutLast, StoreByte, Moving
<1>2. datalen \in 0..BufLen
  BY DEF IInv, TypeOK
<1>3. CASE command = "WRITE" /\ d[lun].open /\ SectorWritten
  <2>1. d[lun].name \in Images /\ GoodSlot(d[lun]) /\ lun \in Luns
    BY <1>3 DEF IInv, TypeOK, GoodSlots, GoodSlot, UsableSlot, Drive, DriveOf
  <2>2. PICK o \in FwriteOutcomes(d[lun], host[d[lun].name], buf', secsize, IoFaults) :
          /\ host' = [host EXCEPT ![d[lun].name] = o.file]
          /\ d' = [d EXCEPT ![lun] = o.drive]
          /\ \/ o.ok /\ BlockStored
             \/ ~o.ok /\ Finish(FALSE) /\ bytesdone' = datalen /\ UNCHANGED blocks
    BY <1>3 DEF SectorWritten
  <2>3. host' \in [Images -> Image] /\ GoodSlots'
    BY <1>1, <1>3, <2>1, <2>2, WriteOutcome
  <2>4. CASE BlockStored
    BY <1>1, <1>3, <2>3, <2>4, BlockStoredStep
  <2>5. CASE Finish(FALSE) /\ bytesdone' = datalen /\ UNCHANGED blocks
    BY <1>1, <1>2, <2>3, <2>5, MovedInv DEF IInv, TypeOK
  <2> QED BY <2>2, <2>4, <2>5
<1>4. CASE command = "WRITE" /\ ~d[lun].open /\ BlockStored /\ UNCHANGED <<host, d>>
  BY <1>1, <1>4, SameSlots, BlockStoredStep DEF IInv, TypeOK
<1>5. CASE /\ command # "WRITE" /\ bytesdone' = datalen /\ Finish(TRUE)
           /\ UNCHANGED <<host, d, blocks>>
  BY <1>1, <1>2, <1>5, SameSlots, MovedInv DEF IInv, TypeOK
<1> QED BY <1>3, <1>4, <1>5 DEF DataOutLast

-----------------------------------------------------------------------------
(***************************************************************************)
(* The menu and the host                                                   *)
(***************************************************************************)
LEMMA InSlotInv ==
  ASSUME IInv, NEW l \in Luns, NEW dr, GoodSlot(dr), InSlot(l, dr),
         host' \in [Images -> Image]
  PROVE  IInv'
<1>1. GoodSlots'
  BY Driven DEF InSlot
<1>2. TypeOK'
  BY <1>1 DEF IInv, TypeOK, InSlot, GoodSlots, Phases, Buffer
<1>3. BusIsClean' /\ TransferMoves'
  BY DEF IInv, InSlot, BusIsClean, TransferMoves
<1> QED BY <1>1, <1>2, <1>3 DEF IInv

LEMMA AttachInv ==
  ASSUME IInv, NEW l \in Luns, NEW i \in Images, Attach(l, i)
  PROVE  IInv'
<1>1. host \in [Images -> Image] /\ host' = host
  BY DEF Attach, IInv, TypeOK
<1> QED BY <1>1, SlotWithGood, InSlotInv DEF Attach

LEMMA RemoveInv ==
  ASSUME IInv, NEW l \in Luns, Remove(l)
  PROVE  IInv'
<1>1. host' \in [Images -> Image]
  BY DEF Remove, IInv, TypeOK
<1> QED BY <1>1, EmptyGood, InSlotInv DEF Remove

\* trs_write_protect changes the header's flag and the mode of one image.
LEMMA ToggleHost ==
  ASSUME IInv, NEW l \in Luns, ToggleWriteProtect(l)
  PROVE  /\ d[l].name \in Images /\ host' \in [Images -> Image]
         /\ \A i \in Images : /\ host'[i].data = host[i].data
                              /\ host'[i].hdr.id = host[i].hdr.id
<1>1. d[l] \in Drive /\ d[l].name \in Images /\ d[l].wp \in BOOLEAN
  BY DEF ToggleWriteProtect, IInv, TypeOK, Drive, DriveOf
<1> DEFINE i == d[l].name
           on == ~d[l].wp
           h == [host[i].hdr EXCEPT !.wp = on]
           m == IF on THEN "ro" ELSE "rw"
           f == [host[i] EXCEPT !.hdr = h, !.mode = m]
<1>2. host \in [Images -> Image] /\ host[i] \in Image /\ on \in BOOLEAN
  BY <1>1 DEF IInv, TypeOK
<1>3. host' = [host EXCEPT ![i] = f]
  <2>1. host' = [host EXCEPT ![i] = Protected(host[i], on)]
    BY <1>2 DEF ToggleWriteProtect
  <2>2. Protected(host[i], on) = f
    <3> HIDE DEF on, i
    <3> QED BY DEF Protected
  <2> HIDE DEF f, on, i
  <2> QED BY <2>1, <2>2
<1>4. h \in Header /\ h.id = host[i].hdr.id
  <2>1. host[i].hdr \in Header
    BY <1>2 DEF Image
  <2>2. \A x \in Header, w \in BOOLEAN :
          [x EXCEPT !.wp = w] \in Header /\ [x EXCEPT !.wp = w].id = x.id
    BY DEF Header
  <2> HIDE DEF on, i
  <2> QED BY <1>2, <2>1, <2>2
<1>5. m \in {"rw", "ro", "none"}
  OBVIOUS
<1> HIDE DEF h, m, on
<1>6. f \in Image /\ f.data = host[i].data /\ f.hdr = h
  BY <1>2, <1>4, <1>5 DEF Image
<1> HIDE DEF f
<1> QED BY <1>1, <1>2, <1>3, <1>4, <1>6

LEMMA ToggleInv ==
  ASSUME IInv, NEW l \in Luns, ToggleWriteProtect(l)
  PROVE  IInv'
<1>1. InSlot(l, SlotWith(d[l].name, host', SecPerTrk, MaxHeads))
  BY DEF ToggleWriteProtect
<1>2. GoodSlot(SlotWith(d[l].name, host', SecPerTrk, MaxHeads))
  BY ToggleHost, SlotWithGood
<1> QED BY <1>1, <1>2, ToggleHost, InSlotInv

LEMMA HostChmodInv ==
  ASSUME IInv, NEW i \in Images, NEW m \in HostModes, HostChmod(i, m)
  PROVE  IInv'
<1>1. host' \in [Images -> Image]
  <2>1. host \in [Images -> Image] /\ host[i] \in Image
    BY DEF IInv, TypeOK
  <2>2. m \in {"rw", "ro", "none"}
    BY ImagesAssumption
  <2>3. [host[i] EXCEPT !.mode = m] \in Image
    BY <2>1, <2>2 DEF Image
  <2>4. host' = [host EXCEPT ![i] = [host[i] EXCEPT !.mode = m]]
    BY <2>1 DEF HostChmod
  <2> DEFINE f == [host[i] EXCEPT !.mode = m]
  <2> HIDE DEF f
  <2> QED BY <2>1, <2>3, <2>4 DEF f
<1>2. GoodSlots'
  BY SameSlots DEF HostChmod, IInv
<1>3. TypeOK'
  BY <1>1 DEF HostChmod, IInv, TypeOK, bus, Buffer, Drive
<1>4. BusIsClean' /\ TransferMoves'
  BY DEF HostChmod, IInv, bus, BusIsClean, TransferMoves
<1> QED BY <1>2, <1>3, <1>4 DEF IInv

-----------------------------------------------------------------------------
(***************************************************************************)
(* The invariant holds, and what follows from it                           *)
(***************************************************************************)
LEMMA InitInv == Init => IInv
<1> SUFFICES ASSUME Init PROVE IInv
  OBVIOUS
<1>1. host \in [Images -> Image]
  BY ImagesAssumption DEF Init
<1>2. PICK c \in Configured :
        d = [l \in Luns |-> XebecOpen([EmptyDrive EXCEPT !.name = c[l]])]
  BY DEF Init
<1>3. \A l \in Luns : GoodSlot(d[l])
  <2> TAKE l \in Luns
  <2> DEFINE e == [EmptyDrive EXCEPT !.name = c[l]]
  <2>1. c[l] \in Images \cup {None}
    BY DEF Configured
  <2>2. e \in Drive
    BY <2>1 DEF EmptyDrive, Drive, DriveOf
  <2> HIDE DEF e
  <2>3. d[l] = HardImageOpen(e, host, SecPerTrk, MaxHeads)
    BY <1>2 DEF XebecOpen, e
  <2> QED BY <1>1, <2>2, <2>3, OpenGood
<1>4. GoodSlots
  BY <1>2, <1>3 DEF GoodSlots, GoodSlot
<1>5. dcb \in Dcb
  BY DEF Init, Dcb, Commands
<1>6. TypeOK
  <2>1. dcbIndex \in 0..DcbLen /\ bytesdone \in 0..BufLen /\ datalen \in 0..BufLen
        /\ blocks \in 0..ZeroCount
    BY DEF Init
  <2>2. present \in BOOLEAN /\ secsize \in {CpmSize, TcsSize} /\ busdata \in BOOLEAN
    BY DEF Init
  <2> QED BY <1>1, <1>4, <1>5, <2>1, <2>2, ZeroBufType
          DEF Init, TypeOK, GoodSlots, Phases, Commands
<1>7. BusIsClean /\ TransferMoves
  BY DEF Init, BusIsClean, TransferMoves
<1> QED BY <1>4, <1>6, <1>7 DEF IInv

LEMMA NextInv == IInv /\ [Next]_vars => IInv'
<1> SUFFICES ASSUME IInv, [Next]_vars PROVE IInv'
  OBVIOUS
<1>1. CASE Guest
  <2>1. CASE Select \/ TcsSelect
    BY <2>1, SelectedInv DEF Select, TcsSelect
  <2>2. CASE SoftReset \/ StatusLast
    BY <2>2, SoftResetInv DEF StatusLast
  <2>3. CASE DcbByte \/ DataInMore \/ DataInLast \/ StatusFirst
    BY <2>3, DcbByteInv, DataInMoreInv, DataInLastInv, StatusFirstInv
  <2>4. ASSUME NEW id \in BOOLEAN, TcsData(id) PROVE IInv'
    BY <2>4, TcsDataInv
  <2>5. ASSUME NEW c \in GuestDcbs, XebecCommand(c) PROVE IInv'
    BY <2>5, XebecCommandInv
  <2>6. ASSUME NEW v \in GuestByte, DataOutMore(v) \/ DataOutLast(v) PROVE IInv'
    BY <2>6, DataOutMoreInv, DataOutLastInv
  <2> QED BY <1>1, <2>1, <2>2, <2>3, <2>4, <2>5, <2>6 DEF Guest
<1>2. CASE Menu
  BY <1>2, RemoveInv, AttachInv, ToggleInv DEF Menu
<1>3. CASE Outside
  BY <1>3, PowerOnInv, HostChmodInv DEF Outside
<1>4. CASE UNCHANGED vars
  BY <1>4 DEF vars, bus, IInv, TypeOK, GoodSlots, GoodSlot,
     BusIsClean, TransferMoves, Buffer, Drive
<1> QED BY <1>1, <1>2, <1>3, <1>4 DEF Next

\* Type correctness, good slots, a clean free bus and transfers that move,
\* whatever the guest, the menu and the host do.
THEOREM Invariance == Spec => []IInv
BY InitInv, NextInv, PTL DEF Spec

\* Every variable keeps to its type, in particular every buffer index.
THEOREM TypeCorrect == Spec => []TypeOK
<1>1. IInv => TypeOK
  BY DEF IInv
<1> QED BY <1>1, Invariance, PTL

\* A slot has a name exactly when it has a stream, and then a geometry
\* xebec_seek can divide by.
THEOREM SlotsStayConsistent == Spec => []SlotsConsistent
<1>1. ASSUME IInv, NEW l \in Luns
      PROVE  /\ d[l].open <=> d[l].name # None
             /\ d[l].open => d[l].secs > 0 /\ d[l].heads \in 1..MaxHeads
  <2>1. GoodSlot(d[l])
    BY <1>1 DEF IInv, GoodSlots
  <2> QED BY <2>1 DEF GoodSlot, UsableSlot, Drive, DriveOf
<1>2. IInv => SlotsConsistent
  BY <1>1 DEF SlotsConsistent
<1> QED BY <1>2, Invariance, PTL

\* Nothing of a command is left over when the bus is free again.
THEOREM BusStaysClean == Spec => []BusIsClean
<1>1. IInv => BusIsClean
  BY DEF IInv
<1> QED BY <1>1, Invariance, PTL

\* A data phase has a byte, and a READ or WRITE a sector, left to move.
THEOREM TransfersMove == Spec => []TransferMoves
<1>1. IInv => TransferMoves
  BY DEF IInv
<1> QED BY <1>1, Invariance, PTL

\* What commands rely on holds together: open slots can be sought in, a free bus
\* is clean, data phases move.
THEOREM BusStaysSound == Spec => []BusSound
BY SlotsStayConsistent, BusStaysClean, TransfersMove, PTL DEF BusSound

-----------------------------------------------------------------------------
(***************************************************************************)
(* Which images a step may change, whatever the menu does                  *)
(***************************************************************************)
\* The slot whose data is arriving is the one the DCB names.
LunKnown == phase = "DATA_OUT" => lun = dcb.lun

LEMMA LunInit == Init => LunKnown
BY DEF Init, LunKnown

LEMMA LunNext == LunKnown /\ [Next]_vars => LunKnown'
<1> SUFFICES ASSUME LunKnown, [Next]_vars PROVE LunKnown'
  OBVIOUS
<1>1. ASSUME NEW c \in GuestDcbs, XebecCommand(c) PROVE LunKnown'
  BY <1>1 DEF XebecCommand, LunKnown
<1>2. ASSUME NEW v \in GuestByte, DataOutMore(v) \/ DataOutLast(v) PROVE LunKnown'
  BY <1>2 DEF DataOutMore, DataOutLast, StoreByte, LunKnown
<1>3. CASE DataInLast
  <2>1. phase' # "DATA_OUT"
    BY <1>3 DEF DataInLast, NextSector, Finish
  <2> QED BY <2>1 DEF LunKnown
<1>4. ASSUME NEW id \in BOOLEAN, TcsData(id) PROVE LunKnown'
  BY <1>4 DEF TcsData, LunKnown
<1>5. CASE Guest
  BY <1>1, <1>2, <1>3, <1>4, <1>5
     DEF Guest, Select, TcsSelect, Selected, SoftReset, ResetBus, DcbByte,
         DataInMore, StatusFirst, StatusLast, LunKnown
<1>6. CASE Menu
  BY <1>6 DEF Menu, Remove, Attach, ToggleWriteProtect, InSlot, LunKnown
<1>7. CASE Outside
  BY <1>7 DEF Outside, PowerOn, ResetBus, HostChmod, bus, LunKnown
<1>8. CASE UNCHANGED vars
  BY <1>8 DEF vars, bus, LunKnown
<1> QED BY <1>5, <1>6, <1>7, <1>8 DEF Next

\* What a step may do to the images.
Confining ==
  \A i \in Images :
    /\ host'[i].data # host[i].data => d[dcb'.lun].name = i
    /\ host'[i].hdr.id = host[i].hdr.id

LEMMA ConfiningWrite ==
  ASSUME IInv, NEW l \in Luns, NEW dr, GoodSlot(dr), dr.name \in Images,
         dr.open, NEW b \in Buffer,
         NEW o \in FwriteOutcomes(dr, host[dr.name], b, secsize, IoFaults),
         host' = [host EXCEPT ![dr.name] = o.file],
         d' = [d EXCEPT ![l] = o.drive],
         d[dcb'.lun].name = dr.name
  PROVE  Confining
BY WriteOutcome DEF Confining

LEMMA ConfinedStep == IInv /\ LunKnown /\ [Next]_vars => Confining
<1> SUFFICES ASSUME IInv, LunKnown, [Next]_vars PROVE Confining
  OBVIOUS
<1>1. CASE UNCHANGED host
  BY <1>1 DEF Confining
<1>2. ASSUME NEW c \in GuestDcbs, XebecCommand(c) PROVE Confining
  <2>1. c \in Dcb /\ c.lun \in Luns /\ c.lba \in Nat /\ dcb' = c
    BY <1>2, DcbAssumption DEF XebecCommand, Dcb
  <2>2. CASE Format(c.lun, c.lba)
    <3> DEFINE dr == Sought(c.lun, c.lba)
    <3>1. GoodSlot(dr) /\ dr.name \in Images /\ dr.open
          /\ SameSlot(d[c.lun], dr)
      BY <2>1, <2>2, SoughtSlot DEF Format
    <3>2. PICK o \in FwriteOutcomes(dr, host[dr.name], FillBuf, secsize, IoFaults) :
            /\ host' = [host EXCEPT ![dr.name] = o.file]
            /\ d' = [d EXCEPT ![c.lun] = o.drive]
      BY <2>2 DEF Format
    <3> HIDE DEF dr
    <3>3. d[dcb'.lun].name = dr.name
      BY <2>1, <3>1 DEF SameSlot
    <3> QED BY <2>1, <3>1, <3>2, <3>3, ZeroBufType, ConfiningWrite
  <2>3. CASE ~Format(c.lun, c.lba)
    <3>1. UNCHANGED host
      BY <1>2, <2>3 DEF XebecCommand, Execute, Read, Write, Seek, SeekRefused,
         TestDriveReady, Immediate
    <3> QED BY <3>1, <1>1
  <2> QED BY <2>2, <2>3
<1>3. ASSUME NEW v \in GuestByte, DataOutLast(v) PROVE Confining
  <2>1. CASE d[lun].open /\ SectorWritten
    <3>1. GoodSlot(d[lun]) /\ lun \in Luns /\ d[lun].name \in Images
      BY <2>1 DEF IInv, TypeOK, GoodSlots, GoodSlot, UsableSlot, Drive, DriveOf
    <3>2. PICK o \in FwriteOutcomes(d[lun], host[d[lun].name], buf', secsize, IoFaults) :
            /\ host' = [host EXCEPT ![d[lun].name] = o.file]
            /\ d' = [d EXCEPT ![lun] = o.drive]
      BY <2>1 DEF SectorWritten
    <3>3. buf' \in Buffer /\ d[dcb'.lun].name = d[lun].name
      BY <1>3, StoreByteType DEF DataOutLast, StoreByte, LunKnown
    <3> QED BY <2>1, <3>1, <3>2, <3>3, ConfiningWrite
  <2> QED BY <1>1, <1>3, <2>1 DEF DataOutLast
<1>4. ASSUME NEW l \in Luns, ToggleWriteProtect(l) PROVE Confining
  BY <1>4, ToggleHost DEF Confining
<1>5. ASSUME NEW i \in Images, NEW m \in HostModes, HostChmod(i, m) PROVE Confining
  BY <1>5 DEF HostChmod, Confining, IInv, TypeOK, Image
<1>6. CASE Guest
  BY <1>1, <1>2, <1>3, <1>6
     DEF Guest, Select, TcsSelect, Selected, TcsData, SoftReset, DcbByte,
         DataInMore, DataInLast, DataOutMore, StatusFirst, StatusLast
<1>7. CASE Menu
  BY <1>1, <1>4, <1>7 DEF Menu, Remove, Attach
<1>8. CASE Outside
  BY <1>1, <1>5, <1>8 DEF Outside, PowerOn
<1> QED BY <1>1, <1>6, <1>7, <1>8 DEF Next, vars

\* Whatever the guest, the menu and the host do, a step changes data only in
\* the image of the slot the DCB names, and destroys no header.
THEOREM WritesAreConfined == Spec => Confined
<1>1. IInv /\ LunKnown /\ [Next]_vars => [Confining]_vars
  BY ConfinedStep
<1>2. Confined <=> [][Confining]_vars
  BY PTL DEF Confined, Confining
<1> QED BY <1>1, <1>2, Invariance, LunInit, LunNext, PTL DEF Spec

-----------------------------------------------------------------------------
(***************************************************************************)
(* Commands the menu leaves alone                                          *)
(***************************************************************************)
LEMMA DiskIsNext == [DiskNext]_dvars => [Next]_vars
BY DEF DiskNext, dvars, Next

LEMMA DiskInvariance == DiskSpec => [](IInv /\ LunKnown)
BY InitInv, NextInv, LunInit, LunNext, DiskIsNext, PTL DEF DiskSpec, DiskInit

\* The bus signals show the phase; the history ends with the command.
StatusInv == StatusTracksPhase /\ (swapped => phase # "IDLE")

LEMMA StatusInit == DiskInit => StatusInv
BY DEF DiskInit, Init, StatusInv, StatusTracksPhase

LEMMA StatusNext == StatusInv /\ [DiskNext]_dvars => StatusInv'
<1> SUFFICES ASSUME StatusInv, [DiskNext]_dvars PROVE StatusInv'
  OBVIOUS
<1>1. CASE Menu /\ swapped' = (swapped \/ phase # "IDLE")
  BY <1>1 DEF Menu, Remove, Attach, ToggleWriteProtect, InSlot, StatusInv,
     StatusTracksPhase
<1>2. CASE (Guest \/ Outside) /\ swapped' = (swapped /\ phase' # "IDLE")
  <2>1. phase' = status' \/ UNCHANGED <<phase, status>>
    <3>1. ASSUME NEW c \in GuestDcbs, XebecCommand(c) PROVE phase' = status'
      BY <3>1 DEF XebecCommand, Execute, Read, Fetch, Write, Format, Seek,
         SeekRefused, TestDriveReady, Immediate, Finish, DataPhase
    <3>2. ASSUME NEW v \in GuestByte, DataOutLast(v)
          PROVE  phase' = status' \/ UNCHANGED <<phase, status>>
      BY <3>2 DEF DataOutLast, SectorWritten, BlockStored, Finish
    <3>3. CASE DataInLast
      BY <3>3 DEF DataInLast, NextSector, Finish
    <3>4. CASE Guest
      BY <3>1, <3>2, <3>3, <3>4
         DEF Guest, Select, TcsSelect, Selected, TcsData, SoftReset, ResetBus,
             DcbByte, DataInMore, DataOutMore, StatusFirst, StatusLast
    <3>5. CASE Outside
      BY <3>5 DEF Outside, PowerOn, ResetBus, HostChmod, bus
    <3> QED BY <1>2, <3>4, <3>5
  <2> QED BY <1>2, <2>1 DEF StatusInv, StatusTracksPhase
<1>3. CASE UNCHANGED dvars
  BY <1>3 DEF dvars, vars, bus, StatusInv, StatusTracksPhase
<1> QED BY <1>1, <1>2, <1>3 DEF DiskNext

\* A guest that goes by the status byte is never misled, unless the menu
\* acts during its command.
THEOREM StatusIsTrue == DiskSpec => []StatusTracksPhase
<1>1. StatusInv => StatusTracksPhase
  BY DEF StatusInv
<1> QED BY <1>1, StatusInit, StatusNext, PTL DEF DiskSpec

LEMMA AimInit == DiskInit => WriteIsAimed
BY DEF DiskInit, Init, WriteIsAimed

\* The aim survives a step that leaves everything it speaks of alone.
LEMMA AimKept ==
  ASSUME WriteIsAimed, ~swapped',
         UNCHANGED <<phase, command, lun, d, dcb, secsize, datalen, blocks>>,
         ~swapped
  PROVE  WriteIsAimed'
BY DEF WriteIsAimed, Done, Transferring, SectorCount

\* xebec_seek aims the first sector of a WRITE.
LEMMA AimTaken ==
  ASSUME IInv, NEW c \in GuestDcbs, XebecCommand(c), Write(c.lun, c.lba)
  PROVE  WriteIsAimed'
<1>1. c \in Dcb /\ c.lun \in Luns /\ c.lba \in Nat /\ dcb' = c /\ lun' = c.lun
  BY DcbAssumption DEF XebecCommand, Dcb
<1> DEFINE l == c.lun
           dr == Sought(l, c.lba)
<1>2. dr.open /\ dr.pos = HdrLen + secsize * c.lba /\ GoodSlot(dr)
      /\ secsize \in 1..BufLen
  BY <1>1, SoughtSlot DEF Write
<1>3. d' = [d EXCEPT ![l] = dr] /\ datalen' = secsize /\ secsize' = secsize
  BY DEF Write, DataPhase, XebecCommand
<1>4. d'[l] = dr
  BY <1>1, <1>3 DEF IInv, TypeOK
<1>5. SectorCount(dcb)' - blocks' = 0
  <2>1. SectorCount(c) \in 1..ZeroCount
    BY <1>1, SectorCountType
  <2>2. SectorCount(dcb)' = SectorCount(c) /\ blocks' = SectorCount(c)
    BY <1>1 DEF SectorCount, XebecCommand
  <2> QED BY <2>1, <2>2
<1>6. Done' = 0
  BY <1>5 DEF Done
<1> HIDE DEF dr
<1> QED BY <1>1, <1>2, <1>3, <1>4, <1>6 DEF WriteIsAimed

\* fwrite leaves the stream where the next sector of the run belongs.
LEMMA AimAdvanced ==
  ASSUME IInv, WriteIsAimed, ~swapped, NEW v \in GuestByte, DataOutLast(v)
  PROVE  WriteIsAimed'
<1>1. CASE phase' # "DATA_OUT" \/ command # "WRITE"
  BY <1>1 DEF WriteIsAimed, DataOutLast
<1>2. CASE phase' = "DATA_OUT" /\ command = "WRITE"
  <2>1. /\ phase = "DATA_OUT" /\ lun = dcb.lun /\ d[lun].open /\ datalen = secsize
        /\ d[lun].pos = HdrLen + secsize * (dcb.lba + Done)
    BY <1>2 DEF WriteIsAimed, DataOutLast, StoreByte
  <2>2. PICK o \in FwriteOutcomes(d[lun], host[d[lun].name], buf', secsize, IoFaults) :
          /\ host' = [host EXCEPT ![d[lun].name] = o.file]
          /\ d' = [d EXCEPT ![lun] = o.drive]
          /\ o.ok /\ BlockStored
    BY <1>2, <2>1 DEF DataOutLast, SectorWritten, Finish
  <2>3. GoodSlot(d[lun]) /\ lun \in Luns /\ d[lun].name \in Images
    BY <2>1 DEF IInv, TypeOK, GoodSlots, GoodSlot, UsableSlot, Drive, DriveOf
  <2>4. buf' \in Buffer
    BY StoreByteType DEF DataOutLast
  <2>5. SameSlot(d[lun], d'[lun]) /\ d'[lun].pos = d[lun].pos + secsize
    BY <2>1, <2>2, <2>3, <2>4, WriteOutcome
  <2>6. /\ lun' = lun /\ dcb' = dcb /\ secsize' = secsize /\ datalen' = datalen
        /\ command' = command
    BY DEF DataOutLast
  <2>7. blocks \in Nat /\ blocks' = blocks - 1 /\ SectorCount(dcb) \in Nat
        /\ dcb.lba \in Nat /\ secsize \in Nat
    BY <2>2, SectorCountType DEF BlockStored, IInv, TypeOK, Dcb
  <2> DEFINE n == SectorCount(dcb)
  <2>8. Done = n - blocks /\ Done' = n - (blocks - 1)
    BY <1>2, <2>1, <2>6, <2>7 DEF Done, Transferring, SectorCount
  <2> HIDE DEF n
  <2>9. d'[lun].pos = HdrLen + secsize * (dcb.lba + Done')
    <3> DEFINE a == dcb.lba + (n - blocks)
    <3>1. a \in Int /\ secsize \in Int /\ HdrLen \in Int
      BY <2>7 DEF n
    <3>2. dcb.lba + (n - (blocks - 1)) = a + 1
      BY <2>7 DEF n
    <3>3. d[lun].pos = HdrLen + secsize * a
      BY <2>1, <2>8
    <3> HIDE DEF a
    <3>4. secsize * (a + 1) = secsize * a + secsize
      BY <3>1
    <3>5. secsize * a \in Int
      BY <3>1
    <3>6. HdrLen + secsize * (a + 1) = d[lun].pos + secsize
      BY <3>1, <3>3, <3>4, <3>5
    <3> QED BY <2>5, <2>8, <3>2, <3>6
  <2> QED BY <2>1, <2>5, <2>6, <2>9 DEF WriteIsAimed, SameSlot
<1> QED BY <1>1, <1>2

LEMMA AimNext ==
  IInv /\ StatusInv /\ WriteIsAimed /\ [DiskNext]_dvars => WriteIsAimed'
<1> SUFFICES ASSUME IInv, StatusInv, WriteIsAimed, [DiskNext]_dvars,
                    ~swapped', phase' = "DATA_OUT", command' = "WRITE"
             PROVE  WriteIsAimed'
  BY DEF WriteIsAimed
<1>1. CASE Menu /\ swapped' = (swapped \/ phase # "IDLE")
  <2>1. phase' = phase
    BY <1>1 DEF Menu, Remove, Attach, ToggleWriteProtect, InSlot
  <2> QED BY <1>1, <2>1
<1>2. CASE (Guest \/ Outside) /\ swapped' = (swapped /\ phase' # "IDLE")
  <2>1. ~swapped
    BY <1>2
  <2>2. ASSUME NEW c \in GuestDcbs, XebecCommand(c) PROVE WriteIsAimed'
    <3>1. Write(c.lun, c.lba)
      BY <2>2 DEF XebecCommand, Execute, Immediate, SeekRefused, Finish
    <3> QED BY <2>2, <3>1, AimTaken
  <2>3. ASSUME NEW v \in GuestByte, DataOutMore(v) PROVE WriteIsAimed'
    BY <2>1, <2>3, AimKept DEF DataOutMore
  <2>4. ASSUME NEW v \in GuestByte, DataOutLast(v) PROVE WriteIsAimed'
    BY <2>1, <2>4, AimAdvanced
  <2>5. CASE Outside
    BY <2>1, <2>5, AimKept DEF Outside, PowerOn, ResetBus, HostChmod, bus
  <2>6. ~DataInLast
    BY DEF DataInLast, NextSector, Finish
  <2> QED BY <1>2, <2>2, <2>3, <2>4, <2>5, <2>6
          DEF Guest, Select, TcsSelect, Selected, TcsData, SoftReset, ResetBus,
              DcbByte, DataInMore, StatusFirst, StatusLast
<1>3. CASE UNCHANGED dvars
  BY <1>3, AimKept DEF dvars, vars, bus
<1> QED BY <1>1, <1>2, <1>3 DEF DiskNext

\* All through a WRITE, however long its run and whatever the geometry, the
\* stream stands where the next sector belongs.
THEOREM WriteStaysAimed == DiskSpec => []WriteIsAimed
BY DiskInvariance, StatusInit, StatusNext, AimInit, AimNext, PTL DEF DiskSpec

-----------------------------------------------------------------------------
(***************************************************************************)
(* The controller implements SasiDisk                                      *)
(***************************************************************************)
\* The abstract disk's view of the slots, the images and the DCB's address.
LoadedMap == [l \in Luns |-> IF d[l].open THEN d[l].name ELSE None]
ShelfMap == [i \in Images |-> [c \in Cells |-> CellAt(host[i], c)]]
NextAddr == secsize * (dcb.lba + Done)

LEMMA LoadedStays ==
  ASSUME IInv, NEW l \in Luns, NEW x, d' = [d EXCEPT ![l] = x],
         x.open = d[l].open, x.open => x.name = d[l].name
  PROVE  UNCHANGED LoadedMap
BY DEF LoadedMap, IInv, TypeOK

LEMMA ShelfStays ==
  ASSUME \A i \in Images : host'[i].data = host[i].data
  PROVE  UNCHANGED ShelfMap
BY DEF ShelfMap, CellAt

LEMMA CellType == ASSUME NEW f \in Image, NEW c \in Nat
                  PROVE  CellAt(f, c) \in Byte \cup {None}
BY DEF CellAt, Image

\* A slot the guest's command reopens, or moves, is as loaded as before.
LEMMA ReadyLoaded ==
  ASSUME IInv, NEW l \in Luns, NEW x, d' = [d EXCEPT ![l] = x],
         x = Ready(l) \/ SameSlot(d[l], x)
  PROVE  UNCHANGED LoadedMap
<1>1. CASE SameSlot(d[l], x)
  BY <1>1, LoadedStays DEF SameSlot
<1>2. CASE x = Ready(l)
  <2>1. x.open <=> d[l].open
    <3>1. CASE d[l].open
      BY <1>2, <3>1 DEF Ready
    <3>2. CASE ~d[l].open
      BY <1>2, <3>2, ReadySlot
    <3> QED BY <3>1, <3>2
  <2>2. x.open \in BOOLEAN /\ d[l].open \in BOOLEAN
    BY <1>2, ReadySlot DEF IInv, TypeOK, GoodSlot, Drive, DriveOf
  <2>3. x.open => x.name = d[l].name
    BY <1>2, ReadySlot
  <2> QED BY <2>1, <2>2, <2>3, LoadedStays
<1> QED BY <1>1, <1>2

\* The cells a write through drive dr of a slot can change.
LEMMA WriteCells ==
  ASSUME IInv, NEW dr, GoodSlot(dr), dr.name \in Images, dr.open,
         NEW b \in Buffer,
         NEW o \in FwriteOutcomes(dr, host[dr.name], b, secsize, IoFaults),
         host' = [host EXCEPT ![dr.name] = o.file]
  PROVE  /\ dr.pos - HdrLen \in Nat
         /\ Disk!OnlyCells(dr.name, (dr.pos - HdrLen)..((dr.pos - HdrLen) + secsize - 1))
         /\ o.ok => \A c \in ((dr.pos - HdrLen)..((dr.pos - HdrLen) + secsize - 1)) \cap Cells :
              CellAt(host'[dr.name], c) = b[c - (dr.pos - HdrLen) + 1]
<1> DEFINE f == host[dr.name]
           a == dr.pos - HdrLen
<1>1. /\ f \in Image /\ dr \in DriveOf(Images) /\ dr.pos \in Nat /\ dr.pos >= HdrLen
      /\ a \in Nat /\ HdrLen \in Nat /\ Len(f.data) \in Nat
  BY DEF IInv, TypeOK, GoodSlot, Drive, DriveOf, Image
<1>2. /\ BufLen \in Nat /\ b \in [1..BufLen -> Byte]
      /\ secsize \in 0..BufLen /\ secsize \in Nat \ {0}
  BY DEF Buffer, IInv, TypeOK
<1>3. PICK k \in 0..secsize : o.file = FwriteFrom(b, f, dr.pos, k)
  BY <1>1, <1>2, FwriteOutcome
<1>4. /\ \A i \in Images : i # dr.name => host'[i] = host[i]
      /\ host'[dr.name] = o.file
  BY DEF IInv, TypeOK
<1>5. k \in Nat /\ k <= secsize
  BY <1>2
<1> HIDE DEF f
<1>6. Len(o.file.data) \in Nat /\ Len(f.data) <= Len(o.file.data)
  BY <1>1, <1>3, <1>5, FwriteFromGrows
<1>7. ASSUME NEW c \in Cells, CellAt(o.file, c) # CellAt(f, c), CellAt(f, c) # None
      PROVE  c \in a..(a + secsize - 1)
  <2>1. c \in Nat /\ c + 1 \in Nat \ {0}
    BY CellsAssumption
  <2>2. c + 1 <= Len(f.data)
    BY <1>7 DEF CellAt
  <2>3. c + 1 <= Len(o.file.data)
    BY <1>1, <1>6, <2>1, <2>2
  <2>4. ByteAt(o.file, c + 1) # ByteAt(f, c + 1)
    BY <1>7, <2>2, <2>3 DEF CellAt, ByteAt
  <2>5. HdrLen + (c + 1) - dr.pos \in 1..k
    BY <1>1, <1>3, <1>5, <2>1, <2>4, FwriteFromStays
  <2> QED BY <1>1, <1>2, <1>5, <2>1, <2>5
<1> HIDE DEF a
<1>8. Disk!OnlyCells(dr.name, a..(a + secsize - 1))
  <2>1. ASSUME NEW n \in Images, NEW c \in Cells,
               CellAt(host'[n], c) # CellAt(host[n], c)
        PROVE  n = dr.name /\ (c \in a..(a + secsize - 1) \/ CellAt(host[n], c) = None)
    <3>1. n = dr.name
      BY <1>4, <2>1
    <3> QED BY <1>4, <1>7, <2>1, <3>1 DEF f
  <2> QED BY <2>1 DEF Disk!OnlyCells
<1>9. ASSUME o.ok, NEW c \in (a..(a + secsize - 1)) \cap Cells
      PROVE  CellAt(host'[dr.name], c) = b[c - a + 1]
  <2>1. o.file = FwriteFrom(b, f, dr.pos, secsize)
    BY <1>9, FwriteSucceeds DEF f
  <2>2. LET out == FwriteFrom(b, f, dr.pos, secsize).data
        IN /\ Len(out) \in Nat /\ (dr.pos - HdrLen) + secsize <= Len(out)
           /\ \A j \in 1..secsize : out[(dr.pos - HdrLen) + j] = b[j]
    <3>1. f \in Image /\ dr.pos \in Nat /\ dr.pos >= HdrLen /\ secsize \in Nat \ {0}
      BY <1>1, <1>2, Zenon
    <3> HIDE DEF a
    <3> DEFINE n == secsize
    <3>2. f \in Image /\ dr.pos \in Nat /\ dr.pos >= HdrLen /\ n \in Nat \ {0}
      BY <3>1
    <3> HIDE DEF n
    <3>3. LET out == FwriteFrom(b, f, dr.pos, n).data
          IN /\ Len(out) \in Nat /\ (dr.pos - HdrLen) + n <= Len(out)
             /\ \A j \in 1..n : out[(dr.pos - HdrLen) + j] = b[j]
      BY <3>2, FwriteFromPlaces, SMTT(30)
    <3> QED BY <3>3 DEF n
  <2> DEFINE out == o.file.data
  <2>3. /\ Len(out) \in Nat /\ a + secsize <= Len(out)
        /\ \A j \in 1..secsize : out[a + j] = b[j]
    BY <2>1, <2>2 DEF a
  <2> HIDE DEF out
  <2>4. c \in Nat /\ c - a + 1 \in 1..secsize /\ a + (c - a + 1) = c + 1
        /\ c + 1 <= a + secsize
    <3>1. a \in Nat /\ secsize \in Nat /\ c \in a..(a + secsize - 1)
      BY <1>1, <1>2
    <3> QED BY <3>1
  <2>5. out[c + 1] = b[c - a + 1] /\ c + 1 <= Len(out)
    <3>1. c + 1 <= Len(out)
      <4>1. a \in Nat /\ secsize \in Nat
        BY <1>1, <1>2
      <4> QED BY <2>3, <2>4, <4>1
    <3> QED BY <2>3, <2>4, <3>1
  <2> QED BY <1>4, <2>5 DEF CellAt, out
<1> QED BY <1>1, <1>8, <1>9 DEF a

\* A step of a command the menu leaves alone.
Alone == ~swapped /\ ~swapped'

\* What a command's last byte fixes.
LEMMA CommandAt ==
  ASSUME IInv, NEW c \in GuestDcbs, XebecCommand(c)
  PROVE  /\ c \in Dcb /\ c.lun \in Luns /\ c.lba \in Nat /\ dcb' = c
         /\ phase = "DCB" /\ command' = c.op /\ secsize' = secsize
         /\ secsize \in Nat \ {0} /\ secsize \in 1..BufLen
         /\ blocks' > 0 /\ Done' = 0 /\ NextAddr' = secsize * c.lba
         /\ \A k \in 1..BufLen : buf[k] = Zero
<1>1. /\ c \in Dcb /\ c.lun \in Luns /\ c.lba \in Nat /\ dcb' = c
      /\ phase = "DCB" /\ command' = c.op /\ secsize' = secsize
      /\ blocks' = SectorCount(c)
  BY DcbAssumption DEF XebecCommand, Dcb
<1>2. secsize \in Nat \ {0} /\ secsize \in 1..BufLen
  BY DEF IInv, TypeOK
<1>3. SectorCount(c) \in 1..ZeroCount /\ SectorCount(dcb)' = SectorCount(c)
  BY <1>1, SectorCountType DEF SectorCount
<1>4. blocks' > 0 /\ Done' = 0
  <2>1. SectorCount(dcb)' - blocks' = 0 /\ blocks' > 0
    BY <1>1, <1>3
  <2> QED BY <2>1 DEF Done
<1>5. NextAddr' = secsize * c.lba
  <2>1. c.lba + Done' = c.lba
    BY <1>1, <1>4
  <2> QED BY <1>1, <2>1 DEF NextAddr
<1>6. \A k \in 1..BufLen : buf[k] = Zero
  BY <1>1 DEF IInv, BusIsClean, ZeroBuf
<1> QED BY <1>1, <1>2, <1>4, <1>5, <1>6

\* The slot a command moves to its address.
LEMMA SoughtAt ==
  ASSUME IInv, NEW l \in Luns, NEW lba \in Nat, Ready(l).open
  PROVE  /\ GoodSlot(Sought(l, lba)) /\ Sought(l, lba) \in DriveOf(Images)
         /\ SameSlot(d[l], Sought(l, lba)) /\ Sought(l, lba).open
         /\ Sought(l, lba).name \in Images /\ Sought(l, lba).name # None
         /\ LoadedMap[l] = Sought(l, lba).name
         /\ Sought(l, lba).pos - HdrLen = secsize * lba
         /\ Sought(l, lba).pos \in Nat /\ secsize * lba \in Nat
<1>1. secsize \in Nat /\ HdrLen \in Nat
  BY DEF IInv, TypeOK
<1>2. secsize * lba \in Nat
  BY <1>1
<1>3. /\ GoodSlot(Sought(l, lba)) /\ Sought(l, lba) \in DriveOf(Images)
      /\ SameSlot(d[l], Sought(l, lba)) /\ Sought(l, lba).open
      /\ Sought(l, lba).name \in Images
      /\ Sought(l, lba).pos = HdrLen + secsize * lba
  BY SoughtSlot
<1>4. Sought(l, lba).name # None /\ LoadedMap[l] = Sought(l, lba).name
  BY <1>3 DEF SameSlot, LoadedMap
<1> DEFINE n == secsize * lba
           dr == Sought(l, lba)
<1> HIDE DEF n, dr
<1>5. dr.pos - HdrLen = n /\ dr.pos \in Nat
  <2>1. dr.pos = HdrLen + n /\ n \in Nat
    BY <1>2, <1>3 DEF n, dr
  <2> QED BY <1>1, <2>1
<1> QED BY <1>2, <1>3, <1>4, <1>5 DEF n, dr

\* No command changes what is loaded, the menu's doings apart.
LEMMA CommandLoaded ==
  ASSUME IInv, NEW c \in GuestDcbs, XebecCommand(c)
  PROVE  UNCHANGED LoadedMap
<1> DEFINE l == c.lun
<1>1. l \in Luns /\ c.lba \in Nat /\ Execute(c)
  BY CommandAt DEF XebecCommand
<1>2. d \in [Luns -> Drive] /\ buf \in [1..BufLen -> Byte] /\ BufLen \in Nat
      /\ secsize \in 0..BufLen
  BY DEF IInv, TypeOK, Buffer
<1>3. ASSUME NEW lba \in Nat, Ready(l).open, d' = [d EXCEPT ![l] = Sought(l, lba)]
      PROVE  UNCHANGED LoadedMap
  BY <1>1, <1>3, SoughtAt, ReadyLoaded
<1>4. ASSUME d' = [d EXCEPT ![l] = Ready(l)] PROVE UNCHANGED LoadedMap
  BY <1>1, <1>4, ReadyLoaded
<1>5. ASSUME Read(l, c.lba) PROVE UNCHANGED LoadedMap
  <2> DEFINE dr == Sought(l, c.lba)
  <2>1. /\ GoodSlot(dr) /\ dr \in DriveOf(Images) /\ SameSlot(d[l], dr)
        /\ dr.open /\ dr.name \in Images
    BY <1>1, <1>5, SoughtAt DEF Read
  <2>2. PICK o \in FreadOutcomes(dr, host[dr.name], buf, secsize, IoFaults) :
          d' = [d EXCEPT ![l] = o.drive]
    BY <1>5 DEF Read, Fetch
  <2> HIDE DEF dr
  <2>3. host[dr.name] \in Image /\ dr.pos >= HdrLen
    BY <2>1 DEF IInv, TypeOK, GoodSlot
  <2>4. SameSlot(dr, o.drive)
    BY <1>2, <2>1, <2>3, FreadOutcome
  <2>5. SameSlot(d[l], o.drive)
    BY <2>1, <2>4 DEF SameSlot
  <2> QED BY <1>1, <2>2, <2>5, ReadyLoaded
<1>6. ASSUME Format(l, c.lba) PROVE UNCHANGED LoadedMap
  <2> DEFINE dr == Sought(l, c.lba)
  <2>1. /\ GoodSlot(dr) /\ dr \in DriveOf(Images) /\ SameSlot(d[l], dr)
        /\ dr.open /\ dr.name \in Images
    BY <1>1, <1>6, SoughtAt DEF Format
  <2>2. PICK o \in FwriteOutcomes(dr, host[dr.name], FillBuf, secsize, IoFaults) :
          host' = [host EXCEPT ![dr.name] = o.file] /\ d' = [d EXCEPT ![l] = o.drive]
    BY <1>6 DEF Format
  <2> HIDE DEF dr
  <2>3. SameSlot(dr, d'[l]) /\ d'[l] = o.drive
    BY <1>1, <1>2, <2>1, <2>2, ZeroBufType, WriteOutcome
  <2>4. SameSlot(d[l], o.drive)
    BY <2>1, <2>3 DEF SameSlot
  <2> QED BY <1>1, <2>2, <2>4, ReadyLoaded
<1>7. ASSUME UNCHANGED d PROVE UNCHANGED LoadedMap
  BY <1>7 DEF LoadedMap
<1> QED BY <1>1, <1>3, <1>4, <1>5, <1>6, <1>7
        DEF Execute, Write, Seek, SeekRefused, TestDriveReady, Immediate

\* A command that ends at once and leaves every byte alone.
LEMMA EndedMaps ==
  ASSUME IInv, Alone, NEW c \in GuestDcbs, XebecCommand(c), phase' = "STATUS",
         UNCHANGED host
  PROVE  Disk!Immediate
<1>1. phase = "DCB" /\ UNCHANGED ShelfMap /\ UNCHANGED LoadedMap
  BY CommandLoaded, ShelfStays DEF XebecCommand
<1>2. \A m, cs : Disk!OnlyCells(m, cs)
  BY <1>1 DEF Disk!OnlyCells, ShelfMap
<1> QED BY <1>1, <1>2
        DEF Disk!Immediate, LoadedMap, ShelfMap, StageOf, Phases, Alone

LEMMA FormatMaps ==
  ASSUME IInv, Alone, NEW c \in GuestDcbs, XebecCommand(c),
         Format(c.lun, c.lba)
  PROVE  Disk!Immediate
<1> DEFINE l == c.lun
           dr == Sought(l, c.lba)
<1>1. /\ l \in Luns /\ c.lba \in Nat /\ dcb' = c /\ phase = "DCB"
      /\ secsize' = secsize /\ NextAddr' = secsize * c.lba
  BY CommandAt
<1>2. /\ GoodSlot(dr) /\ dr \in DriveOf(Images) /\ SameSlot(d[l], dr)
      /\ dr.open /\ dr.name \in Images /\ dr.name # None
      /\ LoadedMap[l] = dr.name /\ dr.pos - HdrLen = secsize * c.lba
  BY <1>1, SoughtAt DEF Format
<1>3. PICK o \in FwriteOutcomes(dr, host[dr.name], FillBuf, secsize, IoFaults) :
        /\ host' = [host EXCEPT ![dr.name] = o.file]
        /\ d' = [d EXCEPT ![l] = o.drive]
        /\ Finish(o.ok)
  BY DEF Format
<1> HIDE DEF dr
<1>5. Disk!OnlyCells(dr.name, (dr.pos - HdrLen)..((dr.pos - HdrLen) + secsize - 1))
  BY <1>2, <1>3, ZeroBufType, WriteCells
<1>7. UNCHANGED LoadedMap
  BY CommandLoaded
<1>8. LoadedMap[dcb'.lun] = dr.name
      /\ Disk!OnlyCells(dr.name, NextAddr'..(NextAddr' + secsize' - 1))
  BY <1>1, <1>2, <1>5
<1>9. phase' = "STATUS"
  BY <1>3 DEF Finish
<1> QED BY <1>1, <1>2, <1>7, <1>8, <1>9
        DEF Disk!Immediate, Disk!Sector, LoadedMap, NextAddr, StageOf, Phases, Alone

\* A stream from which the cells from a on are read: it stands there, or the
\* file ends at or before the place it stands at.
Standing(dr, a) ==
  /\ dr.pos - HdrLen <= a
  /\ dr.pos - HdrLen < a => Len(host[dr.name].data) <= dr.pos - HdrLen

\* fread of a sector from such a stream fetches its cells and leaves a stream
\* from which the next sector's can be.
LEMMA FetchCells ==
  ASSUME IInv, NEW dr, GoodSlot(dr), dr.open, dr.name \in Images,
         NEW a \in Nat, Standing(dr, a),
         NEW o \in FreadOutcomes(dr, host[dr.name], buf, secsize, IoFaults), o.ok
  PROVE  /\ \A c \in (a..(a + secsize - 1)) \cap Cells :
              CellAt(host[dr.name], c) \in {o.buf[c - a + 1], None}
         /\ Standing(o.drive, a + secsize) /\ SameSlot(dr, o.drive)
<1> DEFINE f == host[dr.name]
           p == dr.pos - HdrLen
<1>1. /\ f \in Image /\ dr \in DriveOf(Images) /\ dr.pos \in Nat /\ dr.pos >= HdrLen
      /\ p \in Nat /\ HdrLen \in Nat /\ Len(f.data) \in Nat /\ dr.pos = HdrLen + p
  BY DEF IInv, TypeOK, GoodSlot, Drive, DriveOf, Image
<1>2. /\ BufLen \in Nat /\ buf \in [1..BufLen -> Byte]
      /\ secsize \in 0..BufLen /\ secsize \in Nat
  BY DEF IInv, TypeOK, Buffer
<1>3. p <= a /\ (p < a => Len(f.data) <= p)
  BY DEF Standing
<1>4. SameSlot(dr, o.drive)
  BY <1>1, <1>2, FreadOutcome
<1>5. /\ o.drive.pos \in dr.pos..(dr.pos + secsize)
      /\ o.drive.pos < dr.pos + secsize => HdrLen + Len(f.data) <= o.drive.pos
  BY <1>1, <1>2, FreadStops
<1> HIDE DEF f, p
<1>6. Standing(o.drive, a + secsize)
  <2> DEFINE q == o.drive.pos - HdrLen
             n == Len(f.data)
  <2>1. /\ n \in Nat /\ q \in p..(p + secsize) /\ q \in Nat
        /\ q < p + secsize => n <= q
    BY <1>1, <1>2, <1>5
  <2> HIDE DEF q, n
  <2>2. p <= a /\ (p < a => n <= p)
    BY <1>3 DEF n
  <2>3. q <= a + secsize /\ (q < a + secsize => n <= q)
    BY <1>1, <1>2, <2>1, <2>2
  <2> QED BY <1>4, <2>3 DEF Standing, SameSlot, q, n, f
<1>7. ASSUME NEW c \in (a..(a + secsize - 1)) \cap Cells
      PROVE  CellAt(f, c) \in {o.buf[c - a + 1], None}
  <2>1. c \in Nat /\ c >= a /\ c - a + 1 \in 1..secsize
    <3>1. c \in a..(a + secsize - 1) /\ secsize \in Nat
      BY <1>2
    <3> QED BY <3>1
  <2>2. CASE c + 1 <= Len(f.data)
    <3>1. p = a
      BY <1>1, <1>3, <2>1, <2>2
    <3>2. (dr.pos - HdrLen) + (c - a + 1) = c + 1
      BY <1>1, <2>1, <3>1
    <3>3. o.buf[c - a + 1] = f.data[(dr.pos - HdrLen) + (c - a + 1)]
      <4>1. (dr.pos - HdrLen) + (c - a + 1) <= Len(f.data)
        BY <2>2, <3>2
      <4>2. o \in FreadOutcomes(dr, f, buf, secsize, IoFaults)
        BY DEF f
      <4>3. c - a + 1 \in 1..secsize
        BY <2>1
      <4> DEFINE k == c - a + 1
      <4> HIDE DEF k
      <4>4. k \in 1..secsize /\ (dr.pos - HdrLen) + k <= Len(f.data)
        BY <4>1, <4>3 DEF k
      <4>5. o.buf[k] = f.data[(dr.pos - HdrLen) + k]
        <5>1. /\ f \in Image /\ dr \in DriveOf(Images) /\ dr.pos >= HdrLen
              /\ BufLen \in Nat /\ buf \in [1..BufLen -> Byte] /\ secsize \in 0..BufLen
          BY <1>1, <1>2
        <5> QED BY <5>1, <4>2, <4>4, FreadSucceeds
      <4> QED BY <4>5 DEF k
    <3> QED BY <2>2, <3>2, <3>3 DEF CellAt
  <2>3. CASE ~(c + 1 <= Len(f.data))
    BY <2>3 DEF CellAt
  <2> QED BY <2>2, <2>3
<1> QED BY <1>4, <1>6, <1>7 DEF f

\* As the abstract disk sees it: the sector at the command's address.
LEMMA FetchedMaps ==
  ASSUME NEW m \in Images, m # None, LoadedMap[dcb'.lun] = m,
         NEW a \in Nat, NextAddr' = a, NEW n \in 1..BufLen, secsize' = n,
         \A c \in (a..(a + n - 1)) \cap Cells :
           CellAt(host[m], c) \in {buf'[c - a + 1], None}
  PROVE  Disk!Fetched
<1>1. ASSUME NEW c \in (a..(a + n - 1)) \cap Cells
      PROVE  ShelfMap[m][c] \in {[k \in 1..n |-> buf'[k]][c - a + 1], None}
  <2>1. c - a + 1 \in 1..n
    <3>1. c \in a..(a + n - 1) /\ n \in Nat
      OBVIOUS
    <3> QED BY <3>1
  <2> QED BY <2>1 DEF ShelfMap
<1> QED BY <1>1 DEF Disk!Fetched, Disk!Sector, LoadedMap, ShelfMap, NextAddr

LEMMA ReadMaps ==
  ASSUME IInv, Alone, NEW c \in GuestDcbs, XebecCommand(c), c.op = "READ",
         Read(c.lun, c.lba)
  PROVE  Disk!StartRead \/ Disk!Immediate
<1> DEFINE l == c.lun
           dr == Sought(l, c.lba)
<1>1. /\ l \in Luns /\ c.lba \in Nat /\ dcb' = c /\ phase = "DCB"
      /\ secsize' = secsize /\ secsize \in 1..BufLen /\ blocks' > 0
      /\ command' = "READ" /\ NextAddr' = secsize * c.lba
  BY CommandAt
<1>2. /\ GoodSlot(dr) /\ dr \in DriveOf(Images) /\ SameSlot(d[l], dr)
      /\ dr.open /\ dr.name \in Images /\ dr.name # None
      /\ LoadedMap[l] = dr.name /\ dr.pos - HdrLen = secsize * c.lba
      /\ secsize * c.lba \in Nat
  BY <1>1, SoughtAt DEF Read
<1>3. PICK o \in FreadOutcomes(dr, host[dr.name], buf, secsize, IoFaults) :
        /\ buf' = o.buf
        /\ d' = [d EXCEPT ![l] = o.drive]
        /\ \/ o.ok /\ DataPhase("DATA_IN", secsize)
           \/ ~o.ok /\ Finish(FALSE) /\ UNCHANGED datalen
  BY DEF Read, Fetch
<1> HIDE DEF dr
<1>6. UNCHANGED LoadedMap /\ UNCHANGED host
  BY CommandLoaded DEF Read
<1>7. CASE ~o.ok
  BY <1>3, <1>6, <1>7, EndedMaps DEF Finish
<1>8. CASE o.ok
  <2> DEFINE a == secsize * c.lba
  <2> HIDE DEF a
  <2>1. a \in Nat /\ dr.pos - HdrLen = a /\ NextAddr' = a
    BY <1>1, <1>2 DEF a
  <2>2. Standing(dr, a)
    BY <2>1 DEF Standing
  <2>3. \A e \in (a..(a + secsize - 1)) \cap Cells :
           CellAt(host[dr.name], e) \in {buf'[e - a + 1], None}
    BY <1>2, <1>3, <1>8, <2>1, <2>2, FetchCells
  <2>4. Disk!Fetched
    BY <1>1, <1>2, <2>1, <2>3, FetchedMaps
  <2>5. phase' = "DATA_IN" /\ finalStatus' = finalStatus /\ UNCHANGED ShelfMap
    BY <1>3, <1>6, <1>8, ShelfStays DEF DataPhase
  <2> QED BY <1>1, <1>6, <2>4, <2>5
          DEF Disk!StartRead, Disk!SameMedia, LoadedMap, ShelfMap, StageOf, Phases,
              Transferring, Alone
<1> QED BY <1>7, <1>8

LEMMA WriteMaps ==
  ASSUME IInv, Alone, NEW c \in GuestDcbs, XebecCommand(c), c.op = "WRITE",
         Write(c.lun, c.lba)
  PROVE  Disk!StartWrite
<1> DEFINE l == c.lun
           dr == Sought(l, c.lba)
<1>1. /\ l \in Luns /\ c.lba \in Nat /\ dcb' = c /\ phase = "DCB"
      /\ blocks' > 0 /\ command' = "WRITE"
  BY CommandAt
<1>2. dr.name # None /\ LoadedMap[l] = dr.name
  BY <1>1, SoughtAt DEF Write
<1>3. host' = host /\ phase' = "DATA_OUT" /\ finalStatus' = finalStatus
  BY DEF Write, DataPhase
<1> HIDE DEF dr
<1>4. UNCHANGED LoadedMap /\ UNCHANGED ShelfMap
  BY <1>3, CommandLoaded, ShelfStays
<1> QED BY <1>1, <1>2, <1>3, <1>4
        DEF Disk!StartWrite, Disk!SameMedia, LoadedMap, ShelfMap, StageOf, Phases,
            Transferring, Alone

LEMMA ImmediateMaps ==
  ASSUME IInv, Alone, NEW c \in GuestDcbs, XebecCommand(c), Immediate(c.op)
  PROVE  Disk!StartTransfer \/ Disk!Immediate
<1>1. phase = "DCB" /\ UNCHANGED host /\ command' = c.op
  BY DEF XebecCommand, Immediate
<1>2. UNCHANGED LoadedMap /\ UNCHANGED ShelfMap
  BY <1>1, CommandLoaded, ShelfStays
<1>3. CASE phase' = "STATUS"
  BY <1>1, <1>2, <1>3, EndedMaps
<1>4. CASE phase' # "STATUS"
  <2>1. phase' \in {"DATA_IN", "DATA_OUT"} /\ finalStatus' = finalStatus
        /\ command' \notin {"READ", "WRITE"}
    BY <1>1, <1>4 DEF Immediate, DataPhase, Finish
  <2> QED BY <1>1, <1>2, <2>1
          DEF Disk!StartTransfer, Disk!SameMedia, LoadedMap, ShelfMap, StageOf,
              Phases, Transferring, Alone
<1> QED BY <1>3, <1>4

LEMMA CommandMaps ==
  ASSUME IInv, Alone, NEW c \in GuestDcbs, XebecCommand(c)
  PROVE  Disk!Next
<1>1. Execute(c) /\ c.lun \in Luns /\ c.lba \in Nat
  BY CommandAt DEF XebecCommand
<1>2. CASE c.op = "READ" /\ Read(c.lun, c.lba)
  BY <1>2, ReadMaps DEF Disk!Next
<1>3. CASE c.op = "WRITE" /\ Write(c.lun, c.lba)
  BY <1>3, WriteMaps DEF Disk!Next
<1>4. CASE c.op = "FORMAT" /\ Format(c.lun, c.lba)
  BY <1>4, FormatMaps DEF Disk!Next
<1>5. CASE phase' = "STATUS" /\ UNCHANGED host
  BY <1>5, EndedMaps DEF Disk!Next
<1>6. CASE Immediate(c.op)
  BY <1>6, ImmediateMaps DEF Disk!Next
<1> QED BY <1>1, <1>2, <1>3, <1>4, <1>5, <1>6
        DEF Execute, Seek, SeekRefused, TestDriveReady, Finish

-----------------------------------------------------------------------------
\* Data arrive for every command but READ and leave for every one but WRITE.
WayKnown ==
  /\ phase = "DATA_OUT" => command # "READ"
  /\ phase = "DATA_IN" => command # "WRITE"

\* All through a READ the next sector of the run can be read from the stream.
ReadIsAimed ==
  ~swapped /\ phase = "DATA_IN" /\ command = "READ" =>
    lun = dcb.lun /\ d[lun].open /\ Standing(d[lun], NextAddr + secsize)

LEMMA WayInit == DiskInit => WayKnown /\ ReadIsAimed
BY DEF DiskInit, Init, WayKnown, ReadIsAimed

LEMMA WayNext == WayKnown /\ [DiskNext]_dvars => WayKnown'
<1> SUFFICES ASSUME WayKnown, [DiskNext]_dvars PROVE WayKnown'
  OBVIOUS
<1>1. CASE phase' \notin {"DATA_IN", "DATA_OUT"}
  BY <1>1 DEF WayKnown
<1>2. CASE UNCHANGED <<phase, command>>
  BY <1>2 DEF WayKnown
<1>3. ASSUME NEW c \in GuestDcbs, XebecCommand(c) PROVE WayKnown'
  BY <1>3 DEF XebecCommand, Execute, Read, Fetch, Write, Format, Seek, SeekRefused,
     TestDriveReady, Immediate, Finish, DataPhase, WayKnown
<1>4. ASSUME NEW v \in GuestByte, DataOutLast(v) PROVE WayKnown'
  BY <1>1, <1>2, <1>4 DEF DataOutLast, SectorWritten, BlockStored, Finish
<1>5. CASE DataInLast
  BY <1>1, <1>2, <1>5 DEF DataInLast, NextSector, Finish
<1>6. CASE Guest
  BY <1>1, <1>2, <1>3, <1>4, <1>5, <1>6
     DEF Guest, Select, TcsSelect, Selected, TcsData, SoftReset, ResetBus, DcbByte,
         DataInMore, DataOutMore, StatusFirst, StatusLast
<1>7. CASE Menu
  BY <1>2, <1>7 DEF Menu, Remove, Attach, ToggleWriteProtect, InSlot
<1>8. CASE Outside
  BY <1>1, <1>2, <1>8 DEF Outside, PowerOn, ResetBus, HostChmod, bus
<1> QED BY <1>2, <1>6, <1>7, <1>8 DEF DiskNext, dvars, vars, bus

\* One sector on.
LEMMA AddrAdvances ==
  ASSUME IInv, Transferring, Transferring', UNCHANGED <<dcb, secsize>>,
         blocks' = blocks - 1
  PROVE  NextAddr \in Int /\ NextAddr' = NextAddr + secsize
<1> DEFINE n == SectorCount(dcb)
<1>1. /\ blocks \in Int /\ n \in Int /\ dcb.lba \in Int /\ secsize \in Int
  BY SectorCountType DEF IInv, TypeOK, Dcb
<1>2. Done = n - blocks /\ Done' = n - (blocks - 1)
  BY DEF Done, SectorCount
<1> DEFINE a == dcb.lba + (n - blocks)
<1> HIDE DEF n
<1>3. a \in Int /\ dcb.lba + (n - (blocks - 1)) = a + 1
  BY <1>1
<1>4. NextAddr = secsize * a /\ NextAddr' = secsize * (a + 1)
  BY <1>2, <1>3 DEF NextAddr
<1> HIDE DEF a
<1>5. secsize * a \in Int /\ secsize * (a + 1) = secsize * a + secsize
  BY <1>1, <1>3
<1> QED BY <1>4, <1>5

\* The first sector of a READ is fetched as it begins.
LEMMA ReadAimTaken ==
  ASSUME IInv, NEW c \in GuestDcbs, XebecCommand(c), c.op = "READ",
         Read(c.lun, c.lba)
  PROVE  ReadIsAimed'
<1> SUFFICES ASSUME phase' = "DATA_IN" PROVE ReadIsAimed'
  BY DEF ReadIsAimed
<1> DEFINE l == c.lun
           dr == Sought(l, c.lba)
           a == secsize * c.lba
<1>1. /\ l \in Luns /\ c.lba \in Nat /\ dcb' = c /\ secsize' = secsize
      /\ NextAddr' = a /\ lun' = l
  BY CommandAt DEF XebecCommand
<1>2. /\ GoodSlot(dr) /\ dr.open /\ dr.name \in Images
      /\ dr.pos - HdrLen = a /\ a \in Nat
  BY <1>1, SoughtAt DEF Read
<1>3. PICK o \in FreadOutcomes(dr, host[dr.name], buf, secsize, IoFaults) :
        d' = [d EXCEPT ![l] = o.drive] /\ o.ok
  BY DEF Read, Fetch, Finish
<1> HIDE DEF dr, a
<1>4. Standing(dr, a)
  BY <1>2 DEF Standing
<1>5. Standing(o.drive, a + secsize) /\ SameSlot(dr, o.drive)
  BY <1>2, <1>3, <1>4, FetchCells
<1>6. d'[l] = o.drive /\ host' = host
  BY <1>1, <1>3 DEF IInv, TypeOK, Read
<1> QED BY <1>1, <1>2, <1>5, <1>6 DEF ReadIsAimed, Standing, SameSlot

\* What a READ going on to its next sector does.
LEMMA NextFetched ==
  ASSUME IInv, ReadIsAimed, ~swapped, DataInLast, command = "READ",
         phase' = "DATA_IN"
  PROVE  /\ UNCHANGED <<host, dcb, secsize, lun, command, finalStatus>>
         /\ lun = dcb.lun /\ lun \in Luns /\ d[lun].open /\ d[lun].name \in Images
         /\ blocks' = blocks - 1 /\ blocks' > 0 /\ NextAddr' = NextAddr + secsize
         /\ NextAddr' \in Nat
         /\ \A c \in (NextAddr'..(NextAddr' + secsize - 1)) \cap Cells :
              CellAt(host[d[lun].name], c) \in {buf'[c - NextAddr' + 1], None}
         /\ Standing(d'[lun], NextAddr' + secsize) /\ SameSlot(d[lun], d'[lun])
<1> DEFINE dr == d[lun]
<1>1. /\ phase = "DATA_IN" /\ UNCHANGED <<host, dcb, secsize, lun, command>>
      /\ blocks' = blocks - 1 /\ blocks' > 0 /\ NextSector
  BY DEF DataInLast, Finish
<1>2. lun = dcb.lun /\ dr.open /\ Standing(dr, NextAddr + secsize)
  BY <1>1 DEF ReadIsAimed
<1>3. /\ GoodSlot(dr) /\ lun \in Luns /\ dr.name \in Images
      /\ dr.pos \in Nat /\ dr.pos >= HdrLen /\ d \in [Luns -> Drive]
  BY <1>2 DEF IInv, TypeOK, GoodSlots, GoodSlot, UsableSlot, Drive, DriveOf
<1>4. PICK o \in FreadOutcomes(dr, host[dr.name], buf, secsize, IoFaults) :
        /\ buf' = o.buf /\ d' = [d EXCEPT ![lun] = o.drive] /\ o.ok
        /\ finalStatus' = finalStatus
  BY <1>1, <1>2 DEF NextSector, Finish
<1>5. NextAddr \in Int /\ NextAddr' = NextAddr + secsize
  BY <1>1, AddrAdvances DEF Transferring
<1> DEFINE a == NextAddr + secsize
<1>6. secsize \in Nat /\ a \in Int
  BY <1>5 DEF IInv, TypeOK
<1> HIDE DEF a, dr
<1>7. Standing(dr, a) /\ NextAddr' = a
  BY <1>2, <1>5 DEF a
<1>8. a \in Nat
  <2>1. dr.pos - HdrLen <= a /\ dr.pos - HdrLen \in Nat
    BY <1>3, <1>7 DEF Standing
  <2> QED BY <1>6, <2>1
<1>9. /\ \A c \in (a..(a + secsize - 1)) \cap Cells :
           CellAt(host[dr.name], c) \in {o.buf[c - a + 1], None}
      /\ Standing(o.drive, a + secsize) /\ SameSlot(dr, o.drive)
  BY <1>2, <1>3, <1>4, <1>7, <1>8, FetchCells
<1>10. d'[lun] = o.drive
  BY <1>3, <1>4
<1> QED BY <1>1, <1>2, <1>3, <1>4, <1>5, <1>7, <1>8, <1>9, <1>10 DEF dr

LEMMA ReadAimNext ==
  IInv /\ StatusInv /\ ReadIsAimed /\ [DiskNext]_dvars => ReadIsAimed'
<1> SUFFICES ASSUME IInv, StatusInv, ReadIsAimed, [DiskNext]_dvars,
                    ~swapped', phase' = "DATA_IN", command' = "READ"
             PROVE  ReadIsAimed'
  BY DEF ReadIsAimed
<1>1. ASSUME UNCHANGED <<phase, command, lun, d, dcb, secsize, blocks>>, ~swapped,
             \A i \in Images : host'[i].data = host[i].data
      PROVE  ReadIsAimed'
  <2>1. lun = dcb.lun /\ d[lun].open /\ Standing(d[lun], NextAddr + secsize)
    BY <1>1 DEF ReadIsAimed
  <2>2. d[lun].name \in Images
    BY <2>1 DEF IInv, TypeOK, GoodSlots, GoodSlot, UsableSlot, Drive, DriveOf
  <2>3. NextAddr' = NextAddr
    BY <1>1 DEF NextAddr, Done, Transferring, SectorCount
  <2> QED BY <1>1, <2>1, <2>2, <2>3 DEF ReadIsAimed, Standing
<1>2. CASE Menu /\ swapped' = (swapped \/ phase # "IDLE")
  <2>1. phase' = phase
    BY <1>2 DEF Menu, Remove, Attach, ToggleWriteProtect, InSlot
  <2> QED BY <1>2, <2>1
<1>3. CASE (Guest \/ Outside) /\ swapped' = (swapped /\ phase' # "IDLE")
  <2>1. ~swapped
    BY <1>3
  <2>2. ASSUME NEW c \in GuestDcbs, XebecCommand(c) PROVE ReadIsAimed'
    <3>1. c.op = "READ" /\ Read(c.lun, c.lba)
      BY <2>2 DEF XebecCommand, Execute, Write, Format, Seek, SeekRefused,
         TestDriveReady, Immediate, Finish, DataPhase
    <3> QED BY <2>2, <3>1, ReadAimTaken
  <2>3. CASE DataInMore
    BY <1>1, <2>1, <2>3 DEF DataInMore
  <2>4. CASE DataInLast
    <3>1. command = "READ"
      BY <2>4 DEF DataInLast
    <3>2. /\ UNCHANGED <<host, dcb, secsize, lun>> /\ lun = dcb.lun /\ d[lun].open
          /\ Standing(d'[lun], NextAddr' + secsize) /\ SameSlot(d[lun], d'[lun])
      BY <2>1, <2>4, <3>1, NextFetched
    <3> QED BY <3>2 DEF ReadIsAimed, Standing, SameSlot
  <2>5. CASE PowerOn
    BY <2>5 DEF PowerOn, ResetBus
  <2>6. ASSUME NEW i \in Images, NEW m \in HostModes, HostChmod(i, m)
        PROVE  ReadIsAimed'
    <3>1. \A k \in Images : host'[k].data = host[k].data
      BY <2>6 DEF HostChmod, IInv, TypeOK, Image
    <3> QED BY <1>1, <2>1, <2>6, <3>1 DEF HostChmod, bus
  <2>7. ASSUME NEW v \in GuestByte, DataOutMore(v) \/ DataOutLast(v) PROVE FALSE
    BY <2>7 DEF DataOutMore, DataOutLast, StoreByte, SectorWritten, BlockStored, Finish
  <2> QED BY <1>3, <2>2, <2>3, <2>4, <2>5, <2>6, <2>7
          DEF Guest, Select, TcsSelect, Selected, TcsData, SoftReset, ResetBus,
              DcbByte, StatusFirst, StatusLast, Outside
<1>4. CASE UNCHANGED dvars
  BY <1>1, <1>4 DEF dvars, vars, bus
<1> QED BY <1>2, <1>3, <1>4 DEF DiskNext

-----------------------------------------------------------------------------
\* A byte of a data phase that does not end it.
LEMMA ByteMaps ==
  ASSUME Alone, DataInMore \/ \E v \in GuestByte : DataOutMore(v)
  PROVE  Disk!Move
<1>1. UNCHANGED <<phase, dcb, command, d, secsize, host, finalStatus, blocks>>
  BY DEF DataOutMore, DataInMore
<1>2. phase \in {"DATA_IN", "DATA_OUT"} /\ (phase = "DATA_IN" => buf' = buf)
  BY DEF DataOutMore, StoreByte, DataInMore
<1> QED BY <1>1, <1>2
        DEF Disk!Move, Disk!SameCommand, Disk!SameMedia, Done, SectorCount,
            Transferring, StageOf, Phases, Alone

\* A transfer whose last byte moves with nothing to store or to fetch.
LEMMA TransferMaps ==
  ASSUME Alone, phase \in {"DATA_IN", "DATA_OUT"}, Finish(TRUE), UNCHANGED <<host, d>>,
         phase = "DATA_OUT" => ~Transferring, Transferring => blocks <= 1
  PROVE  Disk!FinishTransfer
BY DEF Finish, Disk!FinishTransfer, Disk!SameMedia, StageOf, Phases, Alone

LEMMA DataInLastMaps ==
  ASSUME IInv, Alone, WayKnown, ReadIsAimed, DataInLast
  PROVE  Disk!Next
<1>1. phase = "DATA_IN" /\ host' = host /\ UNCHANGED ShelfMap
  BY ShelfStays DEF DataInLast
<1>2. CASE Finish(TRUE) /\ UNCHANGED d /\ (command = "READ" => blocks' <= 0)
  <2>1. Transferring => blocks <= 1
    BY <1>1, <1>2 DEF Transferring, WayKnown, DataInLast, IInv, TypeOK
  <2>2. Disk!FinishTransfer
    BY <1>1, <1>2, <2>1, TransferMaps
  <2> QED BY <2>2 DEF Disk!Next
<1>3. CASE command = "READ" /\ blocks' > 0 /\ NextSector
  <2>1. lun = dcb.lun /\ lun \in Luns /\ d[lun].open /\ dcb' = dcb
    BY <1>1, <1>3 DEF ReadIsAimed, Alone, IInv, TypeOK, DataInLast
  <2>2. PICK o \in FreadOutcomes(d[lun], host[d[lun].name], buf, secsize, IoFaults) :
          /\ d' = [d EXCEPT ![lun] = o.drive]
          /\ \/ o.ok /\ UNCHANGED <<phase, status, finalStatus, statusIndex>>
             \/ ~o.ok /\ Finish(FALSE)
    BY <1>3, <2>1 DEF NextSector
  <2>3. SameSlot(d[lun], o.drive)
    <3>1. /\ d[lun] \in DriveOf(Images) /\ d[lun].pos >= HdrLen
          /\ host[d[lun].name] \in Image /\ buf \in [1..BufLen -> Byte]
          /\ BufLen \in Nat /\ secsize \in 0..BufLen
      BY <2>1 DEF IInv, TypeOK, GoodSlots, GoodSlot, UsableSlot, Drive, DriveOf, Buffer
    <3> QED BY <3>1, FreadOutcome
  <2>4. UNCHANGED LoadedMap
    BY <2>1, <2>2, <2>3, LoadedStays DEF SameSlot
  <2>5. CASE ~o.ok
    <3>1. phase' = "STATUS" /\ finalStatus' = "ERROR"
      BY <2>2, <2>5 DEF Finish
    <3>2. Disk!Fail
      BY <1>1, <2>4, <3>1
         DEF Disk!Fail, LoadedMap, ShelfMap, StageOf, Phases, Alone
    <3> QED BY <3>2 DEF Disk!Next
  <2>6. CASE o.ok
    <3>1. phase' = "DATA_IN"
      BY <1>1, <2>2, <2>6
    <3>2. /\ UNCHANGED <<dcb, secsize, command, finalStatus>>
          /\ d[lun].name \in Images /\ blocks' = blocks - 1 /\ blocks' > 0
          /\ NextAddr' = NextAddr + secsize /\ NextAddr' \in Nat
          /\ \A c \in (NextAddr'..(NextAddr' + secsize - 1)) \cap Cells :
               CellAt(host[d[lun].name], c) \in {buf'[c - NextAddr' + 1], None}
      BY <1>3, <3>1, NextFetched DEF Alone
    <3>3. secsize \in 1..BufLen /\ blocks \in Nat
      BY DEF IInv, TypeOK
    <3>4. /\ d[lun].name # None /\ LoadedMap[dcb'.lun] = d[lun].name
      BY <2>1, <3>2 DEF LoadedMap
    <3>5. Disk!Fetched
      <4> DEFINE a == NextAddr'
                 m == d[lun].name
      <4>1. /\ m \in Images /\ m # None /\ LoadedMap[dcb'.lun] = m
            /\ a \in Nat /\ NextAddr' = a /\ secsize' = secsize
            /\ \A c \in (a..(a + secsize - 1)) \cap Cells :
                 CellAt(host[m], c) \in {buf'[c - a + 1], None}
        BY <3>2, <3>4
      <4> HIDE DEF a, m
      <4> QED BY <3>3, <4>1, FetchedMaps
    <3>6. blocks > 1
      BY <3>2, <3>3
    <3>7. Transferring /\ Transferring'
      BY <1>1, <1>3, <3>1, <3>2 DEF Transferring
    <3>8. Disk!FetchNext
      BY <1>1, <2>4, <3>1, <3>2, <3>5, <3>6, <3>7
         DEF Disk!FetchNext, Disk!Advance, Disk!SameMedia, LoadedMap, ShelfMap,
             NextAddr, StageOf, Phases, Alone
    <3> QED BY <3>8 DEF Disk!Next
  <2> QED BY <2>5, <2>6
<1> QED BY <1>2, <1>3 DEF DataInLast

\* As the abstract disk sees it: the sector under the command's address.
LEMMA StoredMaps ==
  ASSUME NEW m \in Images, LoadedMap[dcb.lun] = m, UNCHANGED LoadedMap,
         NEW a \in Nat, NextAddr = a, NEW n \in 1..BufLen, secsize = n, secsize' = n,
         Disk!OnlyCells(m, a..(a + n - 1)),
         \A c \in (a..(a + n - 1)) \cap Cells : CellAt(host'[m], c) = buf'[c - a + 1]
  PROVE  Disk!Stores
<1>1. ASSUME NEW c \in (a..(a + n - 1)) \cap Cells
      PROVE  ShelfMap'[m][c] = [k \in 1..n |-> buf'[k]][c - a + 1]
  <2>1. c - a + 1 \in 1..n
    <3>1. c \in a..(a + n - 1) /\ n \in Nat
      OBVIOUS
    <3> QED BY <3>1
  <2> QED BY <2>1 DEF ShelfMap
<1> QED BY <1>1 DEF Disk!Stores, Disk!Sector, LoadedMap, ShelfMap, NextAddr

LEMMA DataOutLastMaps ==
  ASSUME IInv, Alone, WayKnown, WriteIsAimed, NEW v \in GuestByte, DataOutLast(v)
  PROVE  Disk!Next
<1>1. phase = "DATA_OUT" /\ UNCHANGED <<dcb, command, secsize, lun>> /\ buf' \in Buffer
  BY StoreByteType DEF DataOutLast, StoreByte
<1>2. CASE command # "WRITE"
  <2>1. ~Transferring /\ Finish(TRUE) /\ UNCHANGED <<host, d>>
    BY <1>1, <1>2 DEF DataOutLast, WayKnown, Transferring
  <2>2. Disk!FinishTransfer
    BY <1>1, <2>1, TransferMaps
  <2> QED BY <2>2 DEF Disk!Next
<1>3. CASE command = "WRITE"
  <2> DEFINE dr == d[lun]
  <2>1. /\ lun = dcb.lun /\ dr.open /\ dr.pos = HdrLen + NextAddr /\ lun \in Luns
    BY <1>1, <1>3 DEF WriteIsAimed, Alone, IInv, TypeOK, NextAddr
  <2>2. /\ GoodSlot(dr) /\ dr.name \in Images /\ dr.name # None
        /\ dr.pos \in Nat /\ dr.pos >= HdrLen /\ d \in [Luns -> Drive]
    BY <2>1 DEF IInv, TypeOK, GoodSlots, GoodSlot, UsableSlot, Drive, DriveOf
  <2>3. PICK o \in FwriteOutcomes(dr, host[dr.name], buf', secsize, IoFaults) :
          /\ host' = [host EXCEPT ![dr.name] = o.file]
          /\ d' = [d EXCEPT ![lun] = o.drive]
          /\ \/ o.ok /\ BlockStored
             \/ ~o.ok /\ Finish(FALSE)
    BY <1>3, <2>1 DEF DataOutLast, SectorWritten
  <2>4. secsize \in 1..BufLen /\ blocks \in Nat /\ blocks > 0 /\ Transferring
        /\ LoadedMap[dcb.lun] = dr.name
    BY <1>1, <1>3, <2>1 DEF IInv, TypeOK, TransferMoves, Transferring, LoadedMap
  <2>5. NextAddr = dr.pos - HdrLen
    <3>1. NextAddr \in Int
      <4>1. /\ blocks \in Int /\ SectorCount(dcb) \in Int /\ dcb.lba \in Int
            /\ secsize \in Int
        BY SectorCountType DEF IInv, TypeOK, Dcb
      <4>2. dcb.lba + Done \in Int
        BY <2>4, <4>1 DEF Done
      <4> QED BY <4>1, <4>2 DEF NextAddr
    <3> QED BY <2>1, <2>2, <3>1
  <2> DEFINE a == dr.pos - HdrLen
  <2> HIDE DEF dr
  <2>6. /\ a \in Nat /\ Disk!OnlyCells(dr.name, a..(a + secsize - 1))
        /\ o.ok => \A c \in (a..(a + secsize - 1)) \cap Cells :
                     CellAt(host'[dr.name], c) = buf'[c - a + 1]
    BY <1>1, <2>1, <2>2, <2>3, WriteCells
  <2> HIDE DEF a
  <2>7. UNCHANGED LoadedMap
    <3>1. SameSlot(dr, d'[lun]) /\ d'[lun] = o.drive
      BY <1>1, <2>1, <2>2, <2>3, WriteOutcome
    <3> QED BY <2>1, <2>3, <3>1, LoadedStays DEF SameSlot, dr
  <2>8. NextAddr = a
    BY <2>5 DEF a
  <2>9. CASE o.ok
    <3>1. Disk!Stores
      BY <1>1, <2>2, <2>4, <2>6, <2>7, <2>8, <2>9, StoredMaps
    <3>2. blocks' = blocks - 1 /\ (blocks' > 0 \/ (Finish(TRUE) /\ blocks' = 0))
      <4>1. BlockStored
        BY <2>3, <2>9
      <4>2. blocks' = blocks - 1 /\ (blocks' > 0 \/ (Finish(TRUE) /\ ~(blocks' > 0)))
        BY <4>1 DEF BlockStored
      <4>3. ~(blocks' > 0) => blocks' = 0
        <5>1. blocks' = blocks - 1
          BY <4>2
        <5> QED BY <2>4, <5>1
      <4> QED BY <4>2, <4>3
    <3>3. CASE blocks' > 0
      <4>1. /\ phase' = "DATA_OUT" /\ finalStatus' = finalStatus /\ blocks > 1
            /\ Transferring'
        BY <1>1, <1>3, <2>3, <2>4, <2>9, <3>2, <3>3
           DEF BlockStored, Finish, Transferring
      <4>2. NextAddr' = NextAddr + secsize
        BY <1>1, <2>4, <3>2, <4>1, AddrAdvances
      <4>3. Disk!StoreNext
        BY <1>1, <2>4, <3>1, <3>2, <4>1, <4>2
           DEF Disk!StoreNext, Disk!Advance, NextAddr, StageOf, Phases, Alone
      <4> QED BY <4>3 DEF Disk!Next
    <3>4. CASE Finish(TRUE) /\ blocks' = 0
      <4>1. blocks = 1 /\ phase' = "STATUS" /\ finalStatus' = "OK"
        BY <2>4, <3>2, <3>4 DEF Finish
      <4>2. Disk!FinishWrite
        BY <1>1, <2>4, <3>1, <4>1 DEF Disk!FinishWrite, StageOf, Phases, Alone
      <4> QED BY <4>2 DEF Disk!Next
    <3> QED BY <3>2, <3>3, <3>4
  <2>10. CASE ~o.ok
    <3>1. phase' = "STATUS" /\ finalStatus' = "ERROR"
      BY <2>3, <2>10 DEF Finish
    <3>2. Disk!OnlyCells(LoadedMap[dcb.lun], NextAddr..(NextAddr + secsize - 1))
      BY <2>4, <2>6, <2>8
    <3>3. Disk!Fail
      BY <1>1, <2>4, <2>7, <3>1, <3>2
         DEF Disk!Fail, Disk!Sector, LoadedMap, NextAddr, StageOf, Phases, Alone
    <3> QED BY <3>3 DEF Disk!Next
  <2> QED BY <2>9, <2>10
<1> QED BY <1>2, <1>3
-----------------------------------------------------------------------------
\* A step that moves no medium, byte of the bus or sector of the run.
LEMMA SteadyMaps ==
  ASSUME UNCHANGED <<phase, dcb, command, d, secsize, buf, finalStatus, blocks>>,
         UNCHANGED ShelfMap, swapped' <=> swapped
  PROVE  UNCHANGED Disk!vars
<1>1. (IF swapped THEN "void" ELSE StageOf[phase])'
        = IF swapped THEN "void" ELSE StageOf[phase]
  <2>1. CASE swapped /\ swapped'
    BY <2>1
  <2>2. CASE ~swapped /\ ~swapped'
    BY <2>2 DEF StageOf, Phases
  <2> QED BY <2>1, <2>2
<1> QED BY <1>1 DEF Disk!vars, ShelfMap, Done, Transferring, SectorCount

\* The guest changes what no slot has loaded.
LEMMA GuestLoaded ==
  ASSUME IInv, Guest
  PROVE  UNCHANGED LoadedMap
<1>1. CASE UNCHANGED d
  BY <1>1 DEF LoadedMap
<1>2. ASSUME NEW c \in GuestDcbs, XebecCommand(c) PROVE UNCHANGED LoadedMap
  BY <1>2, CommandLoaded
<1>3. CASE DataInLast
  <2>1. CASE d[lun].open /\ NextSector
    <3>1. PICK o \in FreadOutcomes(d[lun], host[d[lun].name], buf, secsize, IoFaults) :
            d' = [d EXCEPT ![lun] = o.drive]
      BY <2>1 DEF NextSector
    <3>2. /\ lun \in Luns /\ d[lun] \in DriveOf(Images) /\ d[lun].pos >= HdrLen
          /\ host[d[lun].name] \in Image /\ buf \in [1..BufLen -> Byte]
          /\ BufLen \in Nat /\ secsize \in 0..BufLen
      BY <2>1 DEF IInv, TypeOK, GoodSlots, GoodSlot, UsableSlot, Drive, DriveOf, Buffer
    <3>3. SameSlot(d[lun], o.drive)
      BY <3>2, FreadOutcome
    <3> QED BY <3>1, <3>2, <3>3, LoadedStays DEF SameSlot
  <2> QED BY <1>1, <1>3, <2>1 DEF DataInLast, NextSector
<1>4. ASSUME NEW v \in GuestByte, DataOutLast(v) PROVE UNCHANGED LoadedMap
  <2>1. CASE d[lun].open /\ SectorWritten
    <3>1. /\ GoodSlot(d[lun]) /\ lun \in Luns /\ d[lun].name \in Images
          /\ buf' \in Buffer
      BY <1>4, <2>1, StoreByteType
         DEF DataOutLast, IInv, TypeOK, GoodSlots, GoodSlot, UsableSlot, Drive, DriveOf
    <3>2. PICK o \in FwriteOutcomes(d[lun], host[d[lun].name], buf', secsize, IoFaults) :
            /\ host' = [host EXCEPT ![d[lun].name] = o.file]
            /\ d' = [d EXCEPT ![lun] = o.drive]
      BY <2>1 DEF SectorWritten
    <3>3. SameSlot(d[lun], d'[lun]) /\ d'[lun] = o.drive
      <4>1. d \in [Luns -> Drive]
        BY DEF IInv, TypeOK
      <4> QED BY <2>1, <3>1, <3>2, <4>1, WriteOutcome
    <3> QED BY <3>1, <3>2, <3>3, LoadedStays DEF SameSlot
  <2> QED BY <1>1, <1>4, <2>1 DEF DataOutLast
<1> QED BY <1>1, <1>2, <1>3, <1>4
        DEF Guest, Select, TcsSelect, Selected, TcsData, SoftReset, DcbByte,
            DataInMore, DataOutMore, StatusFirst, StatusLast

\* The cells of an image are its data.
LEMMA ShelfOf ==
  ASSUME NEW i \in Images, host'[i].data = host[i].data
  PROVE  ShelfMap'[i] = ShelfMap[i]
BY DEF ShelfMap, CellAt

\* A void command may spoil the image in its slot, and no other.
LEMMA VoidMaps ==
  ASSUME IInv, LunKnown, swapped, swapped', Guest
  PROVE  Disk!Adrift
<1>1. Confining
  BY ConfinedStep DEF Next
<1>2. dcb'.lun \in Luns
  <2>1. IInv'
    BY NextInv DEF Next
  <2> QED BY <2>1 DEF IInv, TypeOK, Dcb
<1>3. ASSUME NEW m \in Images, ShelfMap'[m] # ShelfMap[m]
      PROVE  m = LoadedMap[dcb'.lun]
  <2>1. host'[m].data # host[m].data
    BY <1>3, ShelfOf
  <2>2. d[dcb'.lun].name = m
    BY <1>1, <2>1 DEF Confining
  <2>3. d[dcb'.lun].open
    BY <1>2, <2>2, NamesAssumption DEF IInv, GoodSlots, GoodSlot
  <2> QED BY <1>2, <2>2, <2>3 DEF LoadedMap
<1> QED BY <1>3, GuestLoaded DEF Disk!Adrift, LoadedMap, ShelfMap

\* The bus is free again, from whatever command.
LEMMA ReleaseMaps ==
  ASSUME SoftReset, ~swapped'
  PROVE  Disk!Release
BY DEF SoftReset, ResetBus, Disk!Release, Disk!SameMedia, StageOf, Phases

LEMMA GuestMaps ==
  ASSUME IInv, LunKnown, StatusInv, WriteIsAimed, ReadIsAimed, WayKnown,
         Guest, swapped' = (swapped /\ phase' # "IDLE")
  PROVE  Disk!Next \/ UNCHANGED Disk!vars
<1>1. CASE swapped /\ phase' # "IDLE"
  BY <1>1, VoidMaps DEF Disk!Next
<1>2. CASE SoftReset \/ StatusLast
  <2>1. SoftReset /\ ~swapped'
    BY <1>2 DEF StatusLast, SoftReset, ResetBus
  <2> QED BY <2>1, ReleaseMaps DEF Disk!Next
<1>3. CASE ~swapped
  <2>1. Alone
    BY <1>3 DEF Alone
  <2>2. CASE Select \/ TcsSelect
    <3>1. Disk!Select
      BY <2>1, <2>2 DEF Select, TcsSelect, Selected, Disk!Select, Disk!SameMedia,
         StageOf, Phases, Alone
    <3> QED BY <3>1 DEF Disk!Next
  <2>3. CASE DcbByte \/ \E id \in BOOLEAN : TcsData(id)
    <3>1. UNCHANGED <<phase, dcb, command, d, secsize, buf, finalStatus, blocks, host>>
      BY <2>3 DEF DcbByte, TcsData
    <3> QED BY <2>1, <3>1, ShelfStays, SteadyMaps DEF Alone
  <2>4. CASE StatusFirst
    <3>1. UNCHANGED <<phase, dcb, command, d, secsize, buf, finalStatus, blocks, host>>
      BY <2>4 DEF StatusFirst
    <3> QED BY <2>1, <3>1, ShelfStays, SteadyMaps DEF Alone
  <2>5. CASE DataInMore \/ \E v \in GuestByte : DataOutMore(v)
    BY <2>1, <2>5, ByteMaps DEF Disk!Next
  <2> QED BY <1>2, <2>1, <2>2, <2>3, <2>4, <2>5, CommandMaps, DataInLastMaps,
             DataOutLastMaps DEF Guest
<1>4. CASE swapped /\ phase' = "IDLE"
  <2>1. phase # "IDLE"
    BY <1>4 DEF StatusInv
  <2>2. ASSUME NEW c \in GuestDcbs, XebecCommand(c) PROVE phase' # "IDLE"
    BY <2>2 DEF XebecCommand, Execute, Read, Fetch, Write, Format, Seek, SeekRefused,
       TestDriveReady, Immediate, Finish, DataPhase
  <2>3. ASSUME NEW v \in GuestByte, DataOutLast(v) PROVE phase' # "IDLE"
    BY <2>3 DEF DataOutLast, StoreByte, SectorWritten, BlockStored, Finish
  <2>4. ASSUME \/ Select \/ TcsSelect \/ DcbByte \/ DataInMore \/ DataInLast
               \/ StatusFirst \/ \E id \in BOOLEAN : TcsData(id)
               \/ \E v \in GuestByte : DataOutMore(v)
        PROVE  phase' = phase \/ phase' # "IDLE"
    BY <2>4 DEF Select, TcsSelect, Selected, TcsData, DcbByte, DataInMore,
       DataOutMore, StatusFirst, DataInLast, NextSector, Finish
  <2>5. SoftReset \/ StatusLast
    BY <1>4, <2>1, <2>2, <2>3, <2>4 DEF Guest
  <2> QED BY <1>2, <2>5
<1> QED BY <1>1, <1>3, <1>4

\* The menu: between commands, or in the midst of one, which is then void.
LEMMA MenuMaps ==
  ASSUME IInv, StatusInv, Menu, swapped' = (swapped \/ phase # "IDLE")
  PROVE  Disk!Next
<1>1. UNCHANGED ShelfMap /\ phase' = phase
  BY ShelfStays, ToggleHost
     DEF Menu, Remove, Attach, ToggleWriteProtect, InSlot
<1>2. CASE phase = "IDLE"
  <2>1. ~swapped /\ ~swapped'
    BY <1>2 DEF StatusInv
  <2>2. Disk!Exchange
    BY <1>1, <1>2, <2>1 DEF Disk!Exchange, ShelfMap, StageOf, Phases
  <2> QED BY <2>2 DEF Disk!Next
<1>3. CASE phase # "IDLE"
  <2>1. StageOf[phase] # "free"
    BY <1>3 DEF StageOf, IInv, TypeOK, Phases
  <2>2. Disk!HotSwap
    BY <1>1, <1>3, <2>1 DEF Disk!HotSwap, ShelfMap
  <2> QED BY <2>2 DEF Disk!Next
<1> QED BY <1>2, <1>3

LEMMA OutsideMaps ==
  ASSUME IInv, StatusInv, Outside, swapped' = (swapped /\ phase' # "IDLE")
  PROVE  Disk!Next \/ UNCHANGED Disk!vars
<1>1. CASE PowerOn
  <2>1. Disk!Restart
    BY <1>1, ShelfStays
       DEF PowerOn, ResetBus, Disk!Restart, ShelfMap, StageOf, Phases
  <2> QED BY <2>1 DEF Disk!Next
<1>2. ASSUME NEW i \in Images, NEW m \in HostModes, HostChmod(i, m)
      PROVE  Disk!Next \/ UNCHANGED Disk!vars
  <2>1. \A k \in Images : host'[k].data = host[k].data
    BY <1>2 DEF HostChmod, IInv, TypeOK, Image
  <2>2. UNCHANGED <<phase, dcb, command, d, secsize, buf, finalStatus, blocks>>
    BY <1>2 DEF HostChmod, bus
  <2>3. swapped' <=> swapped
    BY <2>2 DEF StatusInv
  <2> QED BY <2>1, <2>2, <2>3, ShelfStays, SteadyMaps
<1> QED BY <1>1, <1>2 DEF Outside

LEMMA StepMaps ==
  /\ IInv /\ LunKnown /\ StatusInv /\ WriteIsAimed /\ ReadIsAimed /\ WayKnown
  /\ [DiskNext]_dvars
  => [Disk!Next]_(Disk!vars)
<1> SUFFICES ASSUME IInv, LunKnown, StatusInv, WriteIsAimed, ReadIsAimed, WayKnown,
                    [DiskNext]_dvars
             PROVE  Disk!Next \/ UNCHANGED Disk!vars
  OBVIOUS
<1>1. CASE UNCHANGED dvars
  BY <1>1, ShelfStays, SteadyMaps DEF dvars, vars, bus
<1> QED BY <1>1, GuestMaps, MenuMaps, OutsideMaps DEF DiskNext

LEMMA InitMaps == DiskInit => Disk!Init
<1> SUFFICES ASSUME DiskInit PROVE Disk!Init
  OBVIOUS
<1>1. IInv
  BY InitInv DEF DiskInit
<1>2. /\ secsize * (dcb.lba + Done) \in Nat /\ secsize \in 1..BufLen
      /\ dcb.lun \in Luns
  <2>1. secsize \in Nat /\ dcb.lba = 0 /\ Done = 0 /\ secsize \in 1..BufLen
    BY <1>1 DEF DiskInit, Init, Done, Transferring, IInv, TypeOK
  <2>2. secsize * 0 \in Nat
    BY <2>1
  <2> QED BY <1>1, <2>1, <2>2 DEF IInv, TypeOK, Dcb
<1>3. LoadedMap \in [Luns -> Images \cup {None}]
  BY <1>1 DEF LoadedMap, IInv, TypeOK, Drive, DriveOf
<1>4. ShelfMap \in [Images -> [Cells -> Byte \cup {None}]]
  <2>1. \A i \in Images, c \in Cells : CellAt(host[i], c) \in Byte \cup {None}
    BY <1>1, CellType, CellsAssumption DEF IInv, TypeOK
  <2> QED BY <2>1 DEF ShelfMap
<1>5. [k \in 1..secsize |-> buf[k]] \in [1..secsize -> Byte]
  BY <1>1, <1>2 DEF IInv, TypeOK, Buffer
<1> QED BY <1>2, <1>3, <1>4, <1>5
        DEF Disk!Init, Disk!TypeOK, LoadedMap, ShelfMap, DiskInit, Init, StageOf,
            Phases, Transferring

\* The controller is the abstract SASI disk: a READ of several sectors returns,
\* and a WRITE replaces, the run its DCB addresses, in order, in the image of
\* the slot it names; a WRITE reported good is in the image; a command in whose
\* midst the menu acts touches at most the image in its slot.
THEOREM DiskImplemented == DiskSpec => ImplementsDisk
<1>1. DiskSpec => []WriteIsAimed
  BY WriteStaysAimed
<1>2. DiskSpec => []StatusInv
  BY StatusInit, StatusNext, PTL DEF DiskSpec
<1>3. DiskSpec => []WayKnown
  BY WayInit, WayNext, PTL DEF DiskSpec
<1>4. DiskSpec => []ReadIsAimed
  BY <1>2, WayInit, ReadAimNext, DiskInvariance, PTL DEF DiskSpec
<1> QED BY <1>1, <1>2, <1>3, <1>4, DiskInvariance, InitMaps, StepMaps, PTL
        DEF DiskSpec, ImplementsDisk, Disk!Spec
=============================================================================
