----------------------------- MODULE OmtiProofs -----------------------------
(***************************************************************************)
(* What the OMTI controller guarantees for every set of images and slots,  *)
(* every buffer, sector and CDB length, and whether or not the host's I/O  *)
(* fails: first the bus and the slots, then where the writes go.           *)
(***************************************************************************)
EXTENDS Omti, OmtiSnapshot, OmtiDisk, HardImageProofs

USE HdrLenAssumption, NamesAssumption, ByteAssumption, SizeAssumption, GeometryAssumption

-----------------------------------------------------------------------------
(***************************************************************************)
(* Slots                                                                   *)
(***************************************************************************)
GoodSlot(dr) ==
  /\ dr \in Drive
  /\ dr.open => UsableSlot(dr, MaxHeads)
  /\ ~dr.open => dr.name = None

GoodSlots == d \in [Luns -> Drive] /\ \A l \in Luns : GoodSlot(d[l])

\* The size of a sector is known whenever a slot is open or the card answers.
SizeKnown ==
  /\ secsize \in {0, SecSize}
  /\ present => secsize = SecSize
  /\ \A l \in Luns : d[l].open => secsize = SecSize

LEMMA OpenedGood ==
  ASSUME NEW o \in Drive, NEW n, OpenedOrNot(o, n, MaxHeads)
  PROVE  GoodSlot(o)
BY DEF OpenedOrNot, GoodSlot

LEMMA SameGood ==
  ASSUME NEW x, GoodSlot(x), NEW y \in Drive, SameSlot(x, y)
  PROVE  GoodSlot(y)
BY DEF GoodSlot, SameSlot, UsableSlot

LEMMA EmptyGood == GoodSlot(EmptyDrive)
BY EmptyDriveType DEF GoodSlot, Drive

\* The reopening branch of omti_seek never opens anything: a closed slot has
\* no name to open.
LEMMA ReadySlot ==
  ASSUME host \in [Images -> Image], GoodSlots, SizeKnown, NEW l \in Luns
  PROVE  /\ GoodSlot(Ready(l))
         /\ Ready(l).open => Ready(l) = d[l] /\ d[l].open
         /\ ReadySize(l) = secsize
         /\ Ready(l).open => secsize = SecSize
<1>1. GoodSlot(d[l])
  BY DEF GoodSlots
<1>2. CASE d[l].open
  BY <1>1, <1>2 DEF Ready, ReadySize, SizeKnown
<1>3. CASE ~d[l].open
  <2>1. d[l].name = None /\ d[l] \in Drive
    BY <1>1, <1>3 DEF GoodSlot
  <2>2. Ready(l) = Closed(d[l])
    BY <1>3, <2>1 DEF Ready, OmtiOpen, HardImageOpen
  <2>3. Closed(d[l]) \in Drive /\ Closed(d[l]).name = None
        /\ Closed(d[l]).open = FALSE
    BY <2>1, ClosedType DEF Drive
  <2>4. GoodSlot(Ready(l))
    BY <2>2, <2>3 DEF GoodSlot
  <2> QED BY <1>3, <2>2, <2>3, <2>4 DEF ReadySize
<1> QED BY <1>2, <1>3

\* omti_seek moves the stream and nothing else, to a sector after the header.
LEMMA SoughtSlot ==
  ASSUME host \in [Images -> Image], GoodSlots, SizeKnown, NEW l \in Luns,
         NEW cyl \in Nat, NEW head \in Nat, NEW sector \in Nat,
         SeekOk(l, head, sector)
  PROVE  /\ GoodSlot(Sought(l, cyl, head, sector))
         /\ Sought(l, cyl, head, sector) =
              [d[l] EXCEPT !.pos = SeekPos(d[l], SecSize, cyl, head, sector)]
         /\ SameSlot(d[l], Sought(l, cyl, head, sector))
         /\ Sought(l, cyl, head, sector).open
         /\ Sought(l, cyl, head, sector).name \in Images
         /\ Sought(l, cyl, head, sector).pos >= HdrLen
         /\ secsize = SecSize /\ ReadySize(l) = SecSize
<1>1. Ready(l).open
  BY DEF SeekOk
<1>2. Ready(l) = d[l] /\ d[l].open /\ secsize = SecSize
      /\ ReadySize(l) = SecSize
  BY <1>1, ReadySlot
<1>3. GoodSlot(d[l]) /\ d[l] \in Drive
  BY DEF GoodSlots, GoodSlot
<1> DEFINE dr == d[l]
           p == SeekPos(dr, SecSize, cyl, head, sector)
<1>4. dr.secs \in Nat \ {0} /\ dr.heads \in Nat /\ dr.name \in Images
  BY <1>2, <1>3 DEF GoodSlot, UsableSlot, Drive, DriveOf
<1>5. p \in Nat /\ p >= HdrLen
  <2>1. \A x \in Nat, y \in Nat \ {0} : x \div y \in Nat /\ x % y \in Nat
    OBVIOUS
  <2>2. head + sector \div dr.secs \in Nat /\ sector % dr.secs \in Nat
    BY <1>4, <2>1
  <2> DEFINE h == head + sector \div dr.secs
             s == sector % dr.secs
  <2>3. h \in Nat /\ s \in Nat
    BY <2>2
  <2>4. p = SectorOffset(dr, SecSize, cyl, h, s)
    BY DEF SeekPos
  <2> HIDE DEF h, s, p
  <2> QED BY <2>3, <2>4, <1>3, SectorOffsetType DEF Drive
<1>6. Sought(l, cyl, head, sector) = [dr EXCEPT !.pos = p]
  BY <1>2 DEF Sought
<1> HIDE DEF p
<1>7. [dr EXCEPT !.pos = p] \in Drive /\ SameSlot(dr, [dr EXCEPT !.pos = p])
  BY <1>3, <1>5, MovedSlot DEF Drive
<1>8. GoodSlot([dr EXCEPT !.pos = p])
  BY <1>3, <1>7, SameGood
<1>9. [dr EXCEPT !.pos = p].pos >= HdrLen
  BY <1>3, <1>5 DEF Drive, DriveOf
<1> HIDE DEF dr
<1> QED BY <1>2, <1>4, <1>6, <1>7, <1>8, <1>9 DEF SameSlot, p, dr

-----------------------------------------------------------------------------
(***************************************************************************)
(* The inductive invariant                                                 *)
(***************************************************************************)
IInv == TypeOK /\ GoodSlots /\ SizeKnown /\ IdleIsClean /\ DataPhaseMoves

\* What holds of the buffers between power-on and a reset.
LEMMA BuffersType == ZeroBuf \in Buffer /\ FillBuf \in Buffer
BY ZeroAssumption DEF ZeroBuf, FillBuf, Buffer

\* Replacing one slot by a good one leaves all of them good.
LEMMA SlotUpdate ==
  ASSUME GoodSlots, SizeKnown, NEW l \in Luns, NEW dr, GoodSlot(dr),
         d' = [d EXCEPT ![l] = dr], dr.open => secsize' = SecSize,
         secsize' \in {secsize, SecSize}, UNCHANGED present
  PROVE  GoodSlots' /\ SizeKnown'
<1>1. dr \in Drive
  BY DEF GoodSlot
<1>2. d' \in [Luns -> Drive] /\ \A k \in Luns : d'[k] = IF k = l THEN dr ELSE d[k]
  BY <1>1 DEF GoodSlots
<1>3. \A k \in Luns : GoodSlot(d'[k])
  BY <1>2 DEF GoodSlots
<1>4. GoodSlots'
  BY <1>2, <1>3 DEF GoodSlots, GoodSlot
<1>5. SizeKnown'
  BY <1>2 DEF SizeKnown
<1> QED BY <1>4, <1>5

\* What a reset of the bus establishes.
LEMMA ResetType ==
  ASSUME TypeOK, ResetBus
  PROVE  /\ phase' \in Phases /\ status' \in StatusBytes
         /\ cdb' \in Cdb /\ cdbIndex' \in 0..CdbLen
         /\ command' \in Commands /\ lun' \in Luns /\ buf' \in Buffer
         /\ bytesdone' \in 0..BufLen /\ datalen' \in 0..BufLen
         /\ finalStatus' \in {"OK", "ERROR"}
         /\ IdleIsClean' /\ DataPhaseMoves'
BY BuffersType
   DEF TypeOK, ResetBus, Phases, StatusBytes, Commands, IdleIsClean,
       DataPhaseMoves, ZeroBuf

LEMMA SoftResetInv == IInv /\ SoftReset => IInv'
<1> SUFFICES ASSUME IInv, SoftReset PROVE IInv'
  OBVIOUS
<1>1. TypeOK /\ ResetBus
  BY DEF IInv, SoftReset
<1>2. TypeOK'
  BY <1>1, ResetType DEF SoftReset, TypeOK, Phases, StatusBytes, Buffer, Drive
<1>3. GoodSlots' /\ SizeKnown'
  BY DEF IInv, SoftReset, GoodSlots, SizeKnown, GoodSlot
<1> QED BY <1>1, <1>2, <1>3, ResetType DEF IInv

LEMMA ReopenedGood ==
  ASSUME IInv, NEW l \in Luns
  PROVE  GoodSlot(Reopened(l))
<1> DEFINE e == [d[l] EXCEPT !.wp = FALSE, !.heads = 0, !.secs = 0]
<1>1. d[l] \in DriveOf(Images) /\ host \in [Images -> Image]
  BY DEF IInv, GoodSlots, TypeOK, Drive
<1>2. e \in DriveOf(Images)
  BY <1>1 DEF DriveOf
<1> HIDE DEF e
<1>3. /\ HardImageOpen(e, host, SecPerTrk, MaxHeads) \in DriveOf(Images)
      /\ OpenedOrNot(HardImageOpen(e, host, SecPerTrk, MaxHeads), e.name, MaxHeads)
  BY <1>1, <1>2, OpenSlot
<1> QED BY <1>3, OpenedGood DEF Reopened, OmtiOpen, Drive, e

LEMMA PowerOnInv == IInv /\ PowerOn => IInv'
<1> SUFFICES ASSUME IInv, PowerOn PROVE IInv'
  OBVIOUS
<1>1. TypeOK /\ ResetBus
  BY DEF IInv, PowerOn
<1>2. \A l \in Luns : GoodSlot(Reopened(l)) /\ Reopened(l) \in Drive
  BY ReopenedGood DEF GoodSlot
<1>3. d' \in [Luns -> Drive] /\ \A l \in Luns : d'[l] = Reopened(l)
  BY <1>2 DEF PowerOn
<1>4. GoodSlots'
  BY <1>2, <1>3 DEF GoodSlots, GoodSlot
<1>5. present' \in BOOLEAN
  BY DEF PowerOn
<1>6. SizeKnown' /\ secsize' \in {0, SecSize}
  BY <1>1, <1>3 DEF PowerOn, SizeKnown, TypeOK
<1>7. host' \in [Images -> Image] /\ fillbuf' \in Buffer
  BY <1>1, BuffersType DEF PowerOn, TypeOK
<1>8. TypeOK'
  BY <1>1, <1>3, <1>5, <1>6, <1>7, ResetType DEF TypeOK, Drive, Phases,
     StatusBytes, Buffer
<1> QED BY <1>1, <1>4, <1>6, <1>8, ResetType DEF IInv

-----------------------------------------------------------------------------
(***************************************************************************)
(* The commands                                                            *)
(***************************************************************************)
\* What executing a command must leave behind.
Executed ==
  /\ host' \in [Images -> Image] /\ buf' \in Buffer /\ fillbuf' \in Buffer
  /\ GoodSlots' /\ SizeKnown'
  /\ datalen' \in 0..BufLen /\ finalStatus' \in {"OK", "ERROR"}
  /\ \/ phase' = "STATUS" /\ status' = "STATUS_RDY"
     \/ /\ phase' \in {"DATA_IN", "DATA_OUT"} /\ status' = phase'
        /\ present' => datalen' > 0

\* A command changes neither present nor, the slots being consistent, the
\* sector size.
Commanding == IInv /\ UNCHANGED <<present, secsize>>

LEMMA Untouched ==
  ASSUME Commanding, UNCHANGED d
  PROVE  GoodSlots' /\ SizeKnown'
BY DEF Commanding, IInv, GoodSlots, SizeKnown, GoodSlot

\* Slot l's drive is now dr, which is d[l] but for the stream.
LEMMA Driven ==
  ASSUME Commanding, NEW l \in Luns, NEW dr, GoodSlot(dr),
         dr.open => secsize = SecSize, d' = [d EXCEPT ![l] = dr]
  PROVE  GoodSlots' /\ SizeKnown'
<1>1. GoodSlots /\ SizeKnown /\ UNCHANGED present /\ secsize' = secsize
      /\ (dr.open => secsize' = SecSize) /\ secsize' \in {secsize, SecSize}
  BY DEF Commanding, IInv
<1> QED BY <1>1, SlotUpdate

LEMMA ReadyFacts ==
  ASSUME IInv, NEW l \in Luns
  PROVE  /\ GoodSlot(Ready(l)) /\ ReadySize(l) = secsize
         /\ Ready(l).open => Ready(l) = d[l] /\ d[l].open /\ secsize = SecSize
BY ReadySlot DEF IInv, TypeOK

LEMMA SeekRefusedStep ==
  ASSUME Commanding, NEW l \in Luns, NEW head, NEW sector,
         SeekRefused(l, head, sector)
  PROVE  Executed
<1>1. GoodSlots' /\ SizeKnown'
  BY ReadyFacts, Driven DEF SeekRefused, Commanding
<1> QED BY <1>1 DEF SeekRefused, Commanding, IInv, TypeOK, Executed, Finish, Buffer

LEMMA TestUnitReadyStep ==
  ASSUME Commanding, NEW l \in Luns, TestUnitReady(l)
  PROVE  Executed
<1>1. GoodSlots' /\ SizeKnown'
  BY ReadyFacts, Driven DEF TestUnitReady, Commanding
<1> QED BY <1>1 DEF TestUnitReady, Commanding, IInv, TypeOK, Executed, Finish, Buffer

LEMMA SoughtFacts ==
  ASSUME IInv, NEW l \in Luns, NEW cyl \in Nat, NEW head \in Nat,
         NEW sector \in Nat, SeekOk(l, head, sector)
  PROVE  /\ GoodSlot(Sought(l, cyl, head, sector))
         /\ Sought(l, cyl, head, sector) \in DriveOf(Images)
         /\ Sought(l, cyl, head, sector).name \in Images
         /\ Sought(l, cyl, head, sector).open
         /\ Sought(l, cyl, head, sector).pos >= HdrLen
         /\ secsize = SecSize /\ ReadySize(l) = SecSize
         /\ ReadySize(l) \in 0..BufLen /\ ReadySize(l) > 0
<1>1. host \in [Images -> Image] /\ GoodSlots /\ SizeKnown
  BY DEF IInv, TypeOK
<1> QED BY <1>1, SoughtSlot DEF GoodSlot, Drive

LEMMA SeekStep ==
  ASSUME Commanding, NEW l \in Luns, NEW cyl \in Nat, NEW head \in Nat,
         NEW sector \in Nat, Seek(l, cyl, head, sector)
  PROVE  Executed
<1>1. GoodSlots' /\ SizeKnown'
  BY SoughtFacts, Driven DEF Seek, Commanding
<1> QED BY <1>1 DEF Seek, Commanding, IInv, TypeOK, Executed, Finish, Buffer

LEMMA WriteSectorStep ==
  ASSUME Commanding, NEW l \in Luns, NEW cyl \in Nat, NEW head \in Nat,
         NEW sector \in Nat, WriteSector(l, cyl, head, sector)
  PROVE  Executed
<1>1. GoodSlots' /\ SizeKnown'
  BY SoughtFacts, Driven DEF WriteSector, Commanding
<1>2. datalen' \in 0..BufLen /\ datalen' > 0 /\ datalen' \in Nat
  BY SoughtFacts DEF WriteSector, DataPhase, Commanding
<1> QED BY <1>1, <1>2 DEF WriteSector, Commanding, IInv, TypeOK, Executed,
           DataPhase, Buffer

\* fwrite through drive dr of slot l and the end of the command.
LEMMA WriteOutStep ==
  ASSUME IInv, NEW l \in Luns, NEW dr, GoodSlot(dr), dr.name \in Images,
         dr.open, NEW b \in Buffer, NEW n \in 0..BufLen, WriteOut(l, dr, b, n)
  PROVE  /\ host' \in [Images -> Image]
         /\ Finish(TRUE) \/ Finish(FALSE)
         /\ \E x : GoodSlot(x) /\ x.open = dr.open /\ d' = [d EXCEPT ![l] = x]
<1>1. PICK o \in FwriteOutcomes(dr, host[dr.name], b, n, IoFaults) :
        /\ host' = [host EXCEPT ![dr.name] = o.file]
        /\ d' = [d EXCEPT ![l] = o.drive]
        /\ Finish(o.ok)
  BY DEF WriteOut
<1>2. host \in [Images -> Image] /\ host[dr.name] \in Image /\ dr \in DriveOf(Images)
  BY DEF IInv, TypeOK, GoodSlot, Drive
<1>3. BufLen \in Nat /\ b \in [1..BufLen -> Byte]
  BY DEF Buffer
<1>4. /\ o.ok \in BOOLEAN /\ o.file \in Image
      /\ o.drive \in DriveOf(Images) /\ SameSlot(dr, o.drive)
      /\ o.drive.pos >= dr.pos
  BY <1>1, <1>2, <1>3, FwriteOutcome
<1>5. GoodSlot(o.drive) /\ o.drive.open = dr.open
  BY <1>4, SameGood DEF Drive, SameSlot
<1>6. host' \in [Images -> Image]
  BY <1>1, <1>2, <1>4
<1>7. Finish(TRUE) \/ Finish(FALSE)
  BY <1>1, <1>4 DEF Finish
<1> QED BY <1>1, <1>5, <1>6, <1>7

LEMMA FormatSectorStep ==
  ASSUME Commanding, NEW l \in Luns, NEW cyl \in Nat, NEW head \in Nat,
         NEW sector \in Nat, FormatSector(l, cyl, head, sector)
  PROVE  Executed
<1> DEFINE dr == Sought(l, cyl, head, sector)
           n == ReadySize(l)
<1>1. GoodSlot(dr) /\ dr.name \in Images /\ dr.open /\ secsize = SecSize /\ n \in 0..BufLen
  BY SoughtFacts DEF FormatSector, Commanding
<1>2. WriteOut(l, dr, fillbuf, n) /\ fillbuf \in Buffer /\ IInv
  BY DEF FormatSector, Commanding, IInv, TypeOK
<1> HIDE DEF dr, n
<1>3. /\ host' \in [Images -> Image]
      /\ Finish(TRUE) \/ Finish(FALSE)
      /\ \E x : GoodSlot(x) /\ x.open = dr.open /\ d' = [d EXCEPT ![l] = x]
  BY <1>1, <1>2, WriteOutStep
<1>4. GoodSlots' /\ SizeKnown'
  BY <1>1, <1>3, Driven
<1> QED BY <1>3, <1>4 DEF FormatSector, Commanding, IInv, TypeOK, Executed,
           Finish, Buffer

LEMMA ReadSectorStep ==
  ASSUME Commanding, NEW l \in Luns, NEW cyl \in Nat, NEW head \in Nat,
         NEW sector \in Nat, ReadSector(l, cyl, head, sector)
  PROVE  Executed
<1> DEFINE dr == Sought(l, cyl, head, sector)
           n == ReadySize(l)
<1>1. GoodSlot(dr) /\ dr.name \in Images /\ dr.open /\ secsize = SecSize
      /\ n \in 0..BufLen /\ n > 0 /\ dr \in DriveOf(Images)
  BY SoughtFacts DEF ReadSector, Commanding
<1>2. PICK o \in FreadOutcomes(dr, host[dr.name], buf, n, IoFaults) :
        /\ buf' = o.buf
        /\ d' = [d EXCEPT ![l] = o.drive]
        /\ \/ o.ok /\ DataPhase("DATA_IN", n)
           \/ ~o.ok /\ Finish(FALSE) /\ UNCHANGED datalen
  BY DEF ReadSector
<1>3. host[dr.name] \in Image /\ BufLen \in Nat /\ buf \in [1..BufLen -> Byte]
  BY <1>1 DEF Commanding, IInv, TypeOK, Buffer
<1> HIDE DEF dr, n
<1>4. /\ o.ok \in BOOLEAN /\ o.buf \in [1..BufLen -> Byte]
      /\ o.drive \in DriveOf(Images) /\ SameSlot(dr, o.drive)
      /\ o.drive.pos >= dr.pos
  BY <1>1, <1>2, <1>3, FreadOutcome
<1>5. GoodSlot(o.drive)
  BY <1>1, <1>4, SameGood DEF Drive
<1>6. GoodSlots' /\ SizeKnown'
  BY <1>1, <1>2, <1>5, Driven
<1>7. n \in Nat
  BY <1>1
<1> QED BY <1>1, <1>2, <1>4, <1>6, <1>7
        DEF ReadSector, Commanding, IInv, TypeOK, Executed, Finish, DataPhase, Buffer

LEMMA ImmediateStep ==
  ASSUME Commanding, NEW op, Immediate(op)
  PROVE  Executed
<1>1. GoodSlots' /\ SizeKnown'
  BY Untouched DEF Immediate
<1> QED BY <1>1 DEF Immediate, Commanding, IInv, TypeOK, SizeKnown, Executed, Finish,
           DataPhase, Buffer

LEMMA ExecuteStep ==
  ASSUME Commanding, NEW c \in Cdb, Execute(c)
  PROVE  Executed
<1>1. c.lun \in Luns /\ c.cyl \in Nat /\ c.head \in Nat /\ c.sector \in Nat
  BY DEF Cdb
<1>2. CASE ReadSector(c.lun, c.cyl, c.head, c.sector)
  BY <1>1, <1>2, ReadSectorStep
<1>3. CASE WriteSector(c.lun, c.cyl, c.head, c.sector)
  BY <1>1, <1>3, WriteSectorStep
<1>4. CASE FormatSector(c.lun, c.cyl, c.head, c.sector)
  BY <1>1, <1>4, FormatSectorStep
<1>5. CASE Seek(c.lun, c.cyl, c.head, c.sector)
  BY <1>1, <1>5, SeekStep
<1>6. CASE Seek(c.lun, 0, 0, 0)
  BY <1>1, <1>6, SeekStep
<1>7. CASE SeekRefused(c.lun, c.head, c.sector) \/ SeekRefused(c.lun, 0, 0)
  BY <1>1, <1>7, SeekRefusedStep
<1>8. CASE TestUnitReady(c.lun)
  BY <1>1, <1>8, TestUnitReadyStep
<1>9. CASE Immediate(c.op)
  BY <1>9, ImmediateStep
<1> QED BY <1>2, <1>3, <1>4, <1>5, <1>6, <1>7, <1>8, <1>9 DEF Execute

LEMMA OmtiCommandInv ==
  ASSUME IInv, NEW c \in GuestCdbs, OmtiCommand(c)
  PROVE  IInv'
<1>1. c \in Cdb
  BY CdbAssumption
<1>2. c.lun \in Luns /\ c.op \in Commands
  BY <1>1 DEF Cdb
<1>3. ReadySize(c.lun) = secsize
  BY <1>2, ReadyFacts
<1>4. Commanding
  BY <1>3 DEF OmtiCommand, Commanding
<1>5. Executed
  BY <1>1, <1>4, ExecuteStep DEF OmtiCommand
<1>6. TypeOK'
  BY <1>1, <1>2, <1>5 DEF OmtiCommand, Executed, IInv, TypeOK, GoodSlots, SizeKnown,
     Phases, StatusBytes
<1>7. IdleIsClean' /\ DataPhaseMoves'
  BY <1>5 DEF OmtiCommand, Executed, IdleIsClean, DataPhaseMoves
<1> QED BY <1>5, <1>6, <1>7 DEF IInv, Executed

-----------------------------------------------------------------------------
(***************************************************************************)
(* The other steps of the guest                                            *)
(***************************************************************************)
LEMMA QuietBytes ==
  ASSUME IInv, UNCHANGED <<host, present, cdb, command, lun, fillbuf, secsize, d>>
  PROVE  GoodSlots' /\ SizeKnown'
BY DEF IInv, GoodSlots, SizeKnown, GoodSlot

LEMMA SelectInv == IInv /\ Select => IInv'
<1> SUFFICES ASSUME IInv, Select PROVE IInv'
  OBVIOUS
<1>1. GoodSlots' /\ SizeKnown'
  BY QuietBytes DEF Select
<1>2. TypeOK'
  BY DEF IInv, TypeOK, Select, Phases, StatusBytes, Buffer, Drive
<1>3. IdleIsClean' /\ DataPhaseMoves'
  BY DEF IInv, Select, IdleIsClean, DataPhaseMoves
<1> QED BY <1>1, <1>2, <1>3 DEF IInv

LEMMA CdbByteInv == IInv /\ CdbByte => IInv'
<1> SUFFICES ASSUME IInv, CdbByte PROVE IInv'
  OBVIOUS
<1>1. GoodSlots' /\ SizeKnown'
  BY QuietBytes DEF CdbByte
<1>2. TypeOK'
  BY DEF IInv, TypeOK, CdbByte, Buffer, Drive
<1>3. IdleIsClean' /\ DataPhaseMoves'
  BY DEF IInv, CdbByte, IdleIsClean, DataPhaseMoves
<1> QED BY <1>1, <1>2, <1>3 DEF IInv

LEMMA DataInInv == IInv /\ DataIn => IInv'
<1> SUFFICES ASSUME IInv, DataIn PROVE IInv'
  OBVIOUS
<1>1. GoodSlots' /\ SizeKnown'
  BY QuietBytes DEF DataIn
<1>2. bytesdone' \in 0..BufLen
  BY DEF IInv, TypeOK, DataIn
<1>3. TypeOK'
  BY <1>2 DEF IInv, TypeOK, DataIn, Finish, Phases, StatusBytes, Buffer, Drive
<1>4. IdleIsClean' /\ DataPhaseMoves'
  BY DEF IInv, TypeOK, DataIn, Finish, IdleIsClean, DataPhaseMoves
<1> QED BY <1>1, <1>3, <1>4 DEF IInv

LEMMA StoreByteType ==
  ASSUME IInv, NEW v \in GuestByte, StoreByte(v)
  PROVE  buf' \in Buffer /\ bytesdone' \in 0..BufLen
BY DEF IInv, TypeOK, StoreByte, Buffer

LEMMA DataOutMoreInv ==
  ASSUME IInv, NEW v \in GuestByte, DataOutMore(v)
  PROVE  IInv'
<1>1. GoodSlots' /\ SizeKnown'
  BY QuietBytes DEF DataOutMore
<1>2. TypeOK'
  BY StoreByteType DEF IInv, TypeOK, DataOutMore, Buffer, Drive
<1>3. IdleIsClean' /\ DataPhaseMoves'
  BY DEF IInv, DataOutMore, StoreByte, IdleIsClean, DataPhaseMoves
<1> QED BY <1>1, <1>2, <1>3 DEF IInv

LEMMA DataOutLastInv ==
  ASSUME IInv, NEW v \in GuestByte, DataOutLast(v)
  PROVE  IInv'
<1>1. buf' \in Buffer /\ bytesdone' \in 0..BufLen
  BY StoreByteType DEF DataOutLast
<1>2. secsize \in 0..BufLen /\ UNCHANGED <<present, secsize>>
  BY DEF IInv, TypeOK, DataOutLast
<1>3. Commanding
  BY <1>2 DEF Commanding
<1>4. /\ host' \in [Images -> Image] /\ fillbuf' \in Buffer
      /\ Finish(TRUE) \/ Finish(FALSE)
      /\ GoodSlots' /\ SizeKnown'
  <2>1. CASE WriteLast /\ ~d[lun].open
    BY <2>1, <1>3, Untouched DEF WriteLast, IInv, TypeOK, Buffer
  <2>2. CASE WriteLast /\ d[lun].open
    <3>1. GoodSlot(d[lun]) /\ lun \in Luns
      BY DEF IInv, TypeOK, GoodSlots
    <3>2. d[lun].name \in Images /\ secsize = SecSize
      BY <2>2, <3>1 DEF GoodSlot, UsableSlot, Drive, DriveOf, IInv, SizeKnown
    <3>3. WriteOut(lun, d[lun], buf', secsize) /\ fillbuf' = fillbuf
      BY <2>2 DEF WriteLast
    <3>4. /\ host' \in [Images -> Image]
          /\ Finish(TRUE) \/ Finish(FALSE)
          /\ \E x : GoodSlot(x) /\ x.open = d[lun].open /\ d' = [d EXCEPT ![lun] = x]
      BY <1>1, <1>2, <2>2, <3>1, <3>2, <3>3, WriteOutStep
    <3>5. GoodSlots' /\ SizeKnown'
      BY <1>3, <3>1, <3>2, <3>4, Driven
    <3> QED BY <3>3, <3>4, <3>5 DEF IInv, TypeOK
  <2>3. CASE ParameterLast
    <3>1. fillbuf' \in Buffer
      BY <2>3, <1>1 DEF ParameterLast, IInv, TypeOK, Buffer
    <3> QED BY <2>3, <3>1, <1>3, Untouched DEF ParameterLast, IInv, TypeOK
  <2> QED BY <2>1, <2>2, <2>3 DEF DataOutLast
<1>5. TypeOK'
  BY <1>1, <1>2, <1>4 DEF IInv, TypeOK, DataOutLast, Finish, GoodSlots, Phases,
     StatusBytes
<1>6. IdleIsClean' /\ DataPhaseMoves'
  BY <1>4 DEF Finish, IdleIsClean, DataPhaseMoves
<1> QED BY <1>4, <1>5, <1>6 DEF IInv

-----------------------------------------------------------------------------
(***************************************************************************)
(* The menu and the host                                                   *)
(***************************************************************************)
LEMMA InSlotInv ==
  ASSUME IInv, NEW l \in Luns, NEW dr, GoodSlot(dr), InSlot(l, dr),
         host' \in [Images -> Image]
  PROVE  IInv'
<1>1. GoodSlots' /\ SizeKnown'
  BY SlotUpdate DEF InSlot, IInv
<1>2. TypeOK'
  BY <1>1 DEF IInv, TypeOK, InSlot, GoodSlots, SizeKnown, StatusBytes, Buffer
<1>3. IdleIsClean' /\ DataPhaseMoves'
  BY DEF IInv, InSlot, IdleIsClean, DataPhaseMoves
<1> QED BY <1>1, <1>2, <1>3 DEF IInv

LEMMA SlotWithGood ==
  ASSUME NEW h \in [Images -> Image], NEW i \in Images
  PROVE  GoodSlot(SlotWith(i, h, SecPerTrk, MaxHeads))
<1>1. /\ SlotWith(i, h, SecPerTrk, MaxHeads) \in DriveOf(Images)
      /\ OpenedOrNot(SlotWith(i, h, SecPerTrk, MaxHeads), i, MaxHeads)
  BY SlotWithType
<1> QED BY <1>1, OpenedGood DEF Drive

LEMMA RemoveInv ==
  ASSUME IInv, NEW l \in Luns, Remove(l)
  PROVE  IInv'
<1>1. host' \in [Images -> Image]
  BY DEF Remove, IInv, TypeOK
<1> QED BY <1>1, EmptyGood, InSlotInv DEF Remove

LEMMA AttachInv ==
  ASSUME IInv, NEW l \in Luns, NEW i \in Images, Attach(l, i)
  PROVE  IInv'
<1>1. host \in [Images -> Image] /\ host' = host
  BY DEF Attach, IInv, TypeOK
<1> QED BY <1>1, SlotWithGood, InSlotInv DEF Attach

LEMMA ToggleInv ==
  ASSUME IInv, NEW l \in Luns, ToggleWriteProtect(l)
  PROVE  IInv'
<1>1. d[l] \in Drive /\ d[l].name \in Images /\ d[l].wp \in BOOLEAN
  BY DEF ToggleWriteProtect, IInv, TypeOK, Drive, DriveOf
<1> DEFINE i == d[l].name
           on == ~d[l].wp
<1>2. host' = [host EXCEPT ![i] = Protected(host[i], on)]
  BY <1>1 DEF ToggleWriteProtect, IInv, TypeOK
<1>3. host[i] \in Image /\ on \in BOOLEAN
  BY <1>1 DEF IInv, TypeOK
<1>4. InSlot(l, SlotWith(i, host', SecPerTrk, MaxHeads))
  BY DEF ToggleWriteProtect
<1>5. host \in [Images -> Image] /\ i \in Images
  BY <1>1 DEF IInv, TypeOK
<1> HIDE DEF i, on
<1>6. Protected(host[i], on) \in Image
  <2> DEFINE h == [host[i].hdr EXCEPT !.wp = on]
             m == IF on THEN "ro" ELSE "rw"
  <2>1. h \in Header
    BY <1>3 DEF Image, Header
  <2>2. m \in {"rw", "ro", "none"}
    OBVIOUS
  <2>3. Protected(host[i], on) = [host[i] EXCEPT !.hdr = h, !.mode = m]
    BY <1>3 DEF Protected, Image
  <2> HIDE DEF h, m
  <2> QED BY <1>3, <2>1, <2>2, <2>3 DEF Image
<1>7. host' \in [Images -> Image]
  BY <1>2, <1>5, <1>6
<1>8. GoodSlot(SlotWith(i, host', SecPerTrk, MaxHeads))
  BY <1>5, <1>7, SlotWithGood
<1> QED BY <1>4, <1>7, <1>8, InSlotInv

LEMMA HostChmodInv ==
  ASSUME IInv, NEW i \in Images, NEW m \in HostModes, HostChmod(i, m)
  PROVE  IInv'
<1>1. host' \in [Images -> Image]
  <2>1. m \in {"rw", "ro", "none"}
    BY ImagesAssumption
  <2>2. host \in [Images -> Image] /\ host' = [host EXCEPT ![i].mode = m]
    BY DEF HostChmod, IInv, TypeOK
  <2>3. [host[i] EXCEPT !.mode = m] \in Image
    BY <2>1, <2>2 DEF Image
  <2> QED BY <2>2, <2>3
<1>2. GoodSlots' /\ SizeKnown'
  BY DEF HostChmod, IInv, GoodSlots, SizeKnown, GoodSlot
<1>3. TypeOK'
  BY <1>1 DEF HostChmod, IInv, TypeOK, bus, Buffer, Drive
<1>4. IdleIsClean' /\ DataPhaseMoves'
  BY DEF HostChmod, IInv, bus, IdleIsClean, DataPhaseMoves
<1> QED BY <1>2, <1>3, <1>4 DEF IInv

-----------------------------------------------------------------------------
(***************************************************************************)
(* The invariant holds, and what follows from it                           *)
(***************************************************************************)
LEMMA InitInv == Init => IInv
<1> SUFFICES ASSUME Init PROVE IInv
  OBVIOUS
<1>1. host \in [Images -> Image]
  BY ImagesAssumption DEF Init
<1>2. PICK c \in Configured :
        d = [l \in Luns |-> OmtiOpen([EmptyDrive EXCEPT !.name = c[l]])]
  BY DEF Init
<1>3. \A l \in Luns : GoodSlot(d[l])
  <2> TAKE l \in Luns
  <2> DEFINE e == [EmptyDrive EXCEPT !.name = c[l]]
  <2>1. c[l] \in Images \cup {None}
    BY DEF Configured
  <2>2. e \in DriveOf(Images)
    BY <2>1 DEF EmptyDrive, DriveOf
  <2> HIDE DEF e
  <2>3. /\ HardImageOpen(e, host, SecPerTrk, MaxHeads) \in DriveOf(Images)
        /\ OpenedOrNot(HardImageOpen(e, host, SecPerTrk, MaxHeads), e.name, MaxHeads)
    BY <1>1, <2>2, OpenSlot
  <2>4. d[l] = HardImageOpen(e, host, SecPerTrk, MaxHeads)
    BY <1>2 DEF OmtiOpen, e
  <2> QED BY <2>3, <2>4, OpenedGood DEF Drive
<1>4. GoodSlots
  BY <1>2, <1>3 DEF GoodSlots, GoodSlot
<1>5. present \in BOOLEAN /\ secsize \in {0, SecSize} /\ SizeKnown
  BY <1>2 DEF Init, SizeKnown
<1>6. TypeOK
  <2>1. cdb \in Cdb
    BY DEF Init, Cdb, Commands
  <2> QED BY <1>1, <1>4, <1>5, <2>1, BuffersType
          DEF Init, TypeOK, GoodSlots, Phases, StatusBytes, Commands
<1>7. IdleIsClean /\ DataPhaseMoves
  BY DEF Init, IdleIsClean, DataPhaseMoves
<1> QED BY <1>4, <1>5, <1>6, <1>7 DEF IInv

LEMMA NextInv == IInv /\ [Next]_vars => IInv'
<1> SUFFICES ASSUME IInv, [Next]_vars PROVE IInv'
  OBVIOUS
<1>1. CASE Guest
  <2>1. CASE Select
    BY <2>1, SelectInv
  <2>2. CASE SoftReset
    BY <2>2, SoftResetInv
  <2>3. CASE CdbByte
    BY <2>3, CdbByteInv
  <2>4. CASE DataIn
    BY <2>4, DataInInv
  <2>5. CASE StatusIn
    BY <2>5, SoftResetInv DEF StatusIn
  <2>6. ASSUME NEW c \in GuestCdbs, OmtiCommand(c) PROVE IInv'
    BY <2>6, OmtiCommandInv
  <2>7. ASSUME NEW v \in GuestByte, DataOutMore(v) PROVE IInv'
    BY <2>7, DataOutMoreInv
  <2>8. ASSUME NEW v \in GuestByte, DataOutLast(v) PROVE IInv'
    BY <2>8, DataOutLastInv
  <2> QED BY <1>1, <2>1, <2>2, <2>3, <2>4, <2>5, <2>6, <2>7, <2>8 DEF Guest
<1>2. CASE Menu
  BY <1>2, RemoveInv, AttachInv, ToggleInv DEF Menu
<1>3. CASE Outside
  BY <1>3, PowerOnInv, HostChmodInv DEF Outside
<1>4. CASE UNCHANGED vars
  BY <1>4 DEF vars, bus, IInv, TypeOK, GoodSlots, GoodSlot, SizeKnown,
     IdleIsClean, DataPhaseMoves, Buffer, Drive
<1> QED BY <1>1, <1>2, <1>3, <1>4 DEF Next

THEOREM Invariance == Spec => []IInv
BY InitInv, NextInv, PTL DEF Spec

\* Every variable keeps its type whatever the guest, the menu and the host do.
THEOREM TypeCorrect == Spec => []TypeOK
<1>1. IInv => TypeOK
  BY DEF IInv
<1> QED BY <1>1, Invariance, PTL

LEMMA InvSlots == IInv => SlotsConsistent
<1> SUFFICES ASSUME IInv, NEW l \in Luns
             PROVE  /\ d[l].open <=> d[l].name # None
                    /\ d[l].open => /\ d[l].secs > 0 /\ d[l].heads \in 1..MaxHeads
                                    /\ secsize = SecSize
  BY DEF SlotsConsistent
<1>1. GoodSlot(d[l]) /\ SizeKnown
  BY DEF IInv, GoodSlots
<1> QED BY <1>1 DEF GoodSlot, UsableSlot, SizeKnown, Drive, DriveOf

\* A named slot is an open one with a usable geometry: omti_seek never
\* divides by zero and its reopening branch never runs.
THEOREM SlotsStayConsistent == Spec => []SlotsConsistent
BY InvSlots, Invariance, PTL

\* Between commands the sector buffer is clear and nothing is left to move.
THEOREM IdleStaysClean == Spec => []IdleIsClean
<1>1. IInv => IdleIsClean
  BY DEF IInv
<1> QED BY <1>1, Invariance, PTL

\* A card that answers never waits in a data phase with no byte to move.
THEOREM DataAlwaysMoves == Spec => []DataPhaseMoves
<1>1. IInv => DataPhaseMoves
  BY DEF IInv
<1> QED BY <1>1, Invariance, PTL

\* What commands rely on holds together: open slots can be sought in, a free bus
\* is clean, data phases move.
THEOREM BusStaysSound == Spec => []BusSound
BY SlotsStayConsistent, IdleStaysClean, DataAlwaysMoves, PTL DEF BusSound

-----------------------------------------------------------------------------
(***************************************************************************)
(* Where the writes go.  Whatever the menu does, no command touches        *)
(* another image or a header, and the write protection a slot shows is     *)
(* true.  With slots that change only between commands, every byte written *)
(* lies in the sector the CDB addresses, and the controller implements     *)
(* SasiDisk.  What saving and loading the state leaves of this.            *)
(***************************************************************************)


\* fwrite through drive dr of slot l, which stands after the header, changes
\* dr's file only, and there only the n bytes from the stream's position on;
\* the geometry stays.
LEMMA WriteOutBytes ==
  ASSUME IInv, NEW l \in Luns, NEW dr, GoodSlot(dr), dr.name \in Images,
         dr.open, dr.pos >= HdrLen, NEW b \in Buffer, NEW n \in 0..BufLen, WriteOut(l, dr, b, n)
  PROVE  /\ \A i \in Images : i # dr.name => host'[i] = host[i]
         /\ host'[dr.name].hdr = host[dr.name].hdr
         /\ \A j \in Nat \ {0} :
              ByteAt(host'[dr.name], j) # ByteAt(host[dr.name], j)
                => HdrLen + j - dr.pos \in 1..n
         /\ d'[l].heads = dr.heads /\ d'[l].secs = dr.secs
<1>1. PICK o \in FwriteOutcomes(dr, host[dr.name], b, n, IoFaults) :
        /\ host' = [host EXCEPT ![dr.name] = o.file]
        /\ d' = [d EXCEPT ![l] = o.drive]
        /\ Finish(o.ok)
  BY DEF WriteOut
<1>2. /\ host \in [Images -> Image] /\ host[dr.name] \in Image
      /\ dr \in DriveOf(Images) /\ d \in [Luns -> Drive]
      /\ dr.pos \in Nat
  BY DEF IInv, TypeOK, GoodSlot, Drive, DriveOf
<1>3. BufLen \in Nat /\ b \in [1..BufLen -> Byte]
  BY DEF Buffer
<1>4. SameSlot(dr, o.drive) /\ \E k \in 0..n :
        o.file = FwriteFrom(b, host[dr.name], dr.pos, k)
  BY <1>1, <1>2, <1>3, FwriteOutcome
<1>5. PICK k \in 0..n : o.file = FwriteFrom(b, host[dr.name], dr.pos, k)
  BY <1>4
<1>6. k \in Nat /\ n \in Nat
  OBVIOUS
<1>7. o.file.hdr = host[dr.name].hdr
  BY <1>2, <1>5, <1>6, FwriteFromHeader
<1>8. ASSUME NEW j \in Nat \ {0}, ByteAt(o.file, j) # ByteAt(host[dr.name], j)
      PROVE  HdrLen + j - dr.pos \in 1..n
  <2>1. HdrLen + j - dr.pos \in 1..k
    BY <1>2, <1>5, <1>6, <1>8, FwriteFromStays
  <2> QED BY <1>2, <1>6, <2>1
<1>9. host'[dr.name] = o.file /\ d'[l] = o.drive
      /\ \A i \in Images : i # dr.name => host'[i] = host[i]
  BY <1>1, <1>2
<1> QED BY <1>4, <1>7, <1>8, <1>9 DEF SameSlot

-----------------------------------------------------------------------------
(***************************************************************************)
(* Whatever the menu does                                                  *)
(***************************************************************************)
\* The slot whose data is arriving is the one the CDB names.
LunKnown == phase = "DATA_OUT" => lun = cdb.lun

LEMMA LunInit == Init => LunKnown
BY DEF Init, LunKnown

LEMMA LunNext == LunKnown /\ [Next]_vars => LunKnown'
<1> SUFFICES ASSUME LunKnown, [Next]_vars PROVE LunKnown'
  OBVIOUS
<1>1. CASE Guest
  <2>1. ASSUME NEW c \in GuestCdbs, OmtiCommand(c) PROVE LunKnown'
    BY <2>1 DEF OmtiCommand, LunKnown
  <2>2. ASSUME NEW v \in GuestByte, DataOutMore(v) PROVE LunKnown'
    BY <2>2 DEF DataOutMore, LunKnown
  <2>3. ASSUME NEW v \in GuestByte, DataOutLast(v) PROVE LunKnown'
    BY <2>3 DEF DataOutLast, WriteLast, ParameterLast, WriteOut, Finish, LunKnown
  <2> QED BY <1>1, <2>1, <2>2, <2>3
          DEF Guest, Select, SoftReset, ResetBus, CdbByte, DataIn, StatusIn,
              Finish, LunKnown
<1>2. CASE Menu
  BY <1>2 DEF Menu, Remove, Attach, ToggleWriteProtect, InSlot, LunKnown
<1>3. CASE Outside
  BY <1>3 DEF Outside, PowerOn, ResetBus, HostChmod, bus, LunKnown
<1>4. CASE UNCHANGED vars
  BY <1>4 DEF vars, bus, LunKnown
<1> QED BY <1>1, <1>2, <1>3, <1>4 DEF Next

\* Every stream stands after its image's header, wherever a command left it.
AfterHeader == \A l \in Luns : d[l].open => d[l].pos >= HdrLen

\* One slot changes, to one with no stream or one that stands no earlier.
LEMMA StaysAfter ==
  ASSUME IInv, AfterHeader, NEW l \in Luns, NEW x,
         x.open => x.pos >= HdrLen, d' = [d EXCEPT ![l] = x]
  PROVE  AfterHeader'
<1>1. \A k \in Luns : d'[k] = IF k = l THEN x ELSE d[k]
  BY DEF IInv, TypeOK
<1> QED BY <1>1 DEF AfterHeader

LEMMA WriteOutAfter ==
  ASSUME IInv, AfterHeader, NEW l \in Luns, NEW dr, GoodSlot(dr),
         dr.name \in Images, dr.pos >= HdrLen, NEW b \in Buffer,
         NEW n \in 0..BufLen, WriteOut(l, dr, b, n)
  PROVE  AfterHeader'
<1>1. PICK o \in FwriteOutcomes(dr, host[dr.name], b, n, IoFaults) :
        d' = [d EXCEPT ![l] = o.drive]
  BY DEF WriteOut
<1>2. /\ host[dr.name] \in Image /\ dr \in DriveOf(Images)
      /\ BufLen \in Nat /\ b \in [1..BufLen -> Byte]
  BY DEF IInv, TypeOK, GoodSlot, Drive, Buffer
<1>3. o.drive \in DriveOf(Images) /\ o.drive.pos >= dr.pos
  BY <1>1, <1>2, FwriteOutcome
<1>4. o.drive.pos >= HdrLen
  BY <1>2, <1>3 DEF DriveOf
<1> QED BY <1>1, <1>4, StaysAfter

LEMMA CommandAfter ==
  ASSUME IInv, AfterHeader, NEW c \in GuestCdbs, OmtiCommand(c)
  PROVE  AfterHeader'
<1>1. /\ c \in Cdb /\ c.lun \in Luns /\ c.cyl \in Nat /\ c.head \in Nat
      /\ c.sector \in Nat /\ 0 \in Nat
  BY CdbAssumption DEF Cdb
<1> DEFINE l == c.lun
<1>2. /\ buf \in [1..BufLen -> Byte] /\ fillbuf \in Buffer /\ BufLen \in Nat
      /\ host \in [Images -> Image]
  BY DEF IInv, TypeOK, Buffer
<1>3. CASE SeekRefused(l, c.head, c.sector) \/ SeekRefused(l, 0, 0) \/ TestUnitReady(l)
  <2>1. Ready(l).open => Ready(l).pos >= HdrLen
    BY <1>1, ReadyFacts DEF AfterHeader
  <2> QED BY <1>1, <1>3, <2>1, StaysAfter DEF SeekRefused, TestUnitReady
<1>4. ASSUME NEW y \in Nat, NEW h \in Nat, NEW s \in Nat,
             Seek(l, y, h, s) \/ WriteSector(l, y, h, s)
      PROVE  AfterHeader'
  <2>1. SeekOk(l, h, s) /\ d' = [d EXCEPT ![l] = Sought(l, y, h, s)]
    BY <1>4 DEF Seek, WriteSector
  <2>2. Sought(l, y, h, s).pos >= HdrLen
    BY <1>1, <2>1, SoughtFacts
  <2> QED BY <1>1, <2>1, <2>2, StaysAfter
<1>5. CASE FormatSector(l, c.cyl, c.head, c.sector)
  <2> DEFINE dr == Sought(l, c.cyl, c.head, c.sector)
  <2>1. SeekOk(l, c.head, c.sector) /\ WriteOut(l, dr, fillbuf, ReadySize(l))
    BY <1>5 DEF FormatSector
  <2>2. /\ GoodSlot(dr) /\ dr.name \in Images /\ dr.pos >= HdrLen
        /\ ReadySize(l) \in 0..BufLen
    BY <1>1, <2>1, SoughtFacts
  <2> HIDE DEF dr
  <2> QED BY <1>1, <1>2, <2>1, <2>2, WriteOutAfter
<1>6. CASE ReadSector(l, c.cyl, c.head, c.sector)
  <2> DEFINE dr == Sought(l, c.cyl, c.head, c.sector)
             n == ReadySize(l)
  <2>1. /\ SeekOk(l, c.head, c.sector)
        /\ \E o \in FreadOutcomes(dr, host[dr.name], buf, n, IoFaults) :
             d' = [d EXCEPT ![l] = o.drive]
    BY <1>6 DEF ReadSector
  <2>2. /\ dr \in DriveOf(Images) /\ dr.name \in Images /\ dr.pos >= HdrLen
        /\ n \in 0..BufLen
    BY <1>1, <2>1, SoughtFacts
  <2> HIDE DEF dr, n
  <2>3. PICK o \in FreadOutcomes(dr, host[dr.name], buf, n, IoFaults) :
          d' = [d EXCEPT ![l] = o.drive]
    BY <2>1
  <2>4. o.drive \in DriveOf(Images) /\ o.drive.pos >= dr.pos
    BY <1>2, <2>2, <2>3, FreadOutcome
  <2>5. o.drive.pos >= HdrLen
    BY <2>2, <2>4 DEF DriveOf
  <2> QED BY <1>1, <2>3, <2>5, StaysAfter
<1>7. CASE Immediate(c.op)
  BY <1>7 DEF Immediate, AfterHeader
<1>8. Execute(c)
  BY DEF OmtiCommand
<1> QED BY <1>1, <1>3, <1>4, <1>5, <1>6, <1>7, <1>8 DEF Execute

LEMMA MenuAfter ==
  ASSUME IInv, AfterHeader, NEW l \in Luns
  PROVE  /\ Remove(l) => AfterHeader'
         /\ \A i \in Images : Attach(l, i) => AfterHeader'
         /\ ToggleWriteProtect(l) => AfterHeader'
<1>1. ASSUME Remove(l) PROVE AfterHeader'
  BY <1>1, EmptyDriveType, StaysAfter DEF Remove, InSlot
<1>2. ASSUME NEW i \in Images, NEW h \in [Images -> Image],
             InSlot(l, SlotWith(i, h, SecPerTrk, MaxHeads))
      PROVE  AfterHeader'
  <2> DEFINE x == SlotWith(i, h, SecPerTrk, MaxHeads)
  <2>1. OpenedOrNot(x, i, MaxHeads)
    BY SlotWithType, NamesAssumption, GeometryAssumption
  <2>2. x.open => x.pos >= HdrLen
    BY <2>1, HdrLenAssumption DEF OpenedOrNot
  <2>3. d' = [d EXCEPT ![l] = x]
    BY <1>2 DEF InSlot
  <2> HIDE DEF x
  <2> QED BY <2>2, <2>3, StaysAfter
<1>3. ASSUME NEW i \in Images, Attach(l, i) PROVE AfterHeader'
  BY <1>2, <1>3 DEF Attach, IInv, TypeOK
<1>4. ASSUME ToggleWriteProtect(l) PROVE AfterHeader'
  <2>1. d[l].name \in Images
    BY <1>4 DEF ToggleWriteProtect, IInv, TypeOK, Drive, DriveOf
  <2>2. host' \in [Images -> Image]
    BY <1>4, ToggleInv DEF IInv, TypeOK
  <2>3. InSlot(l, SlotWith(d[l].name, host', SecPerTrk, MaxHeads))
    BY <1>4 DEF ToggleWriteProtect
  <2> QED BY <1>2, <2>1, <2>2, <2>3
<1> QED BY <1>1, <1>3, <1>4

\* hard_image_open leaves a stream it opens just after the header.
LEMMA OpenAfter ==
  ASSUME NEW h \in [Images -> Image], NEW e \in DriveOf(Images),
         HardImageOpen(e, h, SecPerTrk, MaxHeads).open
  PROVE  HardImageOpen(e, h, SecPerTrk, MaxHeads).pos >= HdrLen
<1>1. OpenedOrNot(HardImageOpen(e, h, SecPerTrk, MaxHeads), e.name, MaxHeads)
  BY OpenSlot, NamesAssumption, GeometryAssumption
<1> QED BY <1>1, HdrLenAssumption DEF OpenedOrNot

LEMMA AfterInit == Init => AfterHeader
<1> SUFFICES ASSUME Init, NEW l \in Luns, d[l].open
             PROVE  d[l].pos >= HdrLen
  BY DEF AfterHeader
<1>1. host \in [Images -> Image]
  BY ImagesAssumption DEF Init
<1>2. PICK c \in Configured :
        d = [k \in Luns |-> OmtiOpen([EmptyDrive EXCEPT !.name = c[k]])]
  BY DEF Init
<1> DEFINE e == [EmptyDrive EXCEPT !.name = c[l]]
<1>3. c[l] \in Images \cup {None}
  BY DEF Configured
<1>4. e \in DriveOf(Images)
  BY <1>3 DEF EmptyDrive, DriveOf
<1>5. d[l] = HardImageOpen(e, host, SecPerTrk, MaxHeads)
  BY <1>2 DEF OmtiOpen
<1> HIDE DEF e
<1> QED BY <1>1, <1>4, <1>5, OpenAfter

LEMMA PowerOnAfter ==
  ASSUME IInv, PowerOn
  PROVE  AfterHeader'
<1> SUFFICES ASSUME NEW l \in Luns, d'[l].open PROVE d'[l].pos >= HdrLen
  BY DEF AfterHeader
<1> DEFINE e == [d[l] EXCEPT !.wp = FALSE, !.heads = 0, !.secs = 0]
<1>1. d[l] \in DriveOf(Images) /\ host \in [Images -> Image]
  BY DEF IInv, TypeOK, Drive
<1>2. e \in DriveOf(Images)
  BY <1>1 DEF DriveOf
<1>3. d'[l] = HardImageOpen(e, host, SecPerTrk, MaxHeads)
  BY DEF PowerOn, Reopened, OmtiOpen
<1> HIDE DEF e
<1> QED BY <1>1, <1>2, <1>3, OpenAfter

LEMMA AfterNext == IInv /\ AfterHeader /\ [Next]_vars => AfterHeader'
<1> SUFFICES ASSUME IInv, AfterHeader, [Next]_vars PROVE AfterHeader'
  OBVIOUS
<1>1. CASE UNCHANGED d
  BY <1>1 DEF AfterHeader
<1>2. ASSUME NEW v \in GuestByte, DataOutLast(v) PROVE AfterHeader'
  <2>1. CASE WriteLast /\ d[lun].open
    <3>1. GoodSlot(d[lun]) /\ lun \in Luns /\ d[lun].pos >= HdrLen
      BY <2>1 DEF IInv, TypeOK, GoodSlots, AfterHeader
    <3>2. d[lun].name \in Images
      BY <2>1, <3>1 DEF GoodSlot, UsableSlot, Drive, DriveOf
    <3>3. buf' \in Buffer /\ secsize \in 0..BufLen
      BY <1>2, StoreByteType DEF DataOutLast, IInv, TypeOK
    <3>4. WriteOut(lun, d[lun], buf', secsize)
      BY <2>1 DEF WriteLast
    <3> QED BY <3>1, <3>2, <3>3, <3>4, WriteOutAfter
  <2> QED BY <1>1, <1>2, <2>1 DEF DataOutLast, WriteLast, ParameterLast
<1>3. CASE Guest
  BY <1>1, <1>2, <1>3, CommandAfter
     DEF Guest, Select, SoftReset, CdbByte, DataIn, StatusIn, DataOutMore
<1>4. CASE Menu
  BY <1>4, MenuAfter DEF Menu
<1>5. CASE Outside
  BY <1>1, <1>5, PowerOnAfter DEF Outside, HostChmod
<1> QED BY <1>1, <1>3, <1>4, <1>5 DEF Next, vars

\* The slot WRITE's last byte will be written through is the one the CDB
\* names, and its stream stands after the header.
WriteSafe ==
  phase = "DATA_OUT" /\ command = "WRITE" /\ d[lun].open =>
    lun = cdb.lun /\ d[lun].pos >= HdrLen

LEMMA AfterIsSafe == IInv /\ LunKnown /\ AfterHeader => WriteSafe
BY DEF IInv, TypeOK, LunKnown, AfterHeader, WriteSafe

\* What a step may do to the images.
Confining ==
  \A i \in Images :
    /\ host'[i].data # host[i].data => d[cdb'.lun].name = i
    /\ host'[i].hdr.id = host[i].hdr.id

LEMMA ConfiningWrite ==
  ASSUME IInv, NEW l \in Luns, NEW dr, GoodSlot(dr), dr.name \in Images,
         dr.open, dr.pos >= HdrLen, NEW b \in Buffer, NEW n \in 0..BufLen,
         WriteOut(l, dr, b, n), d[cdb'.lun].name = dr.name
  PROVE  Confining
BY WriteOutBytes DEF Confining

LEMMA ConfinedStep == IInv /\ WriteSafe /\ [Next]_vars => Confining
<1> SUFFICES ASSUME IInv, WriteSafe, [Next]_vars PROVE Confining
  OBVIOUS
<1>1. CASE UNCHANGED host
  BY <1>1 DEF Confining
<1>2. ASSUME NEW c \in GuestCdbs, OmtiCommand(c) PROVE Confining
  <2>1. c \in Cdb /\ c.lun \in Luns /\ cdb' = c
    BY <1>2, CdbAssumption DEF OmtiCommand, Cdb
  <2>2. CASE FormatSector(c.lun, c.cyl, c.head, c.sector)
    <3> DEFINE dr == Sought(c.lun, c.cyl, c.head, c.sector)
               n == ReadySize(c.lun)
    <3>1. /\ GoodSlot(dr) /\ dr.name \in Images /\ dr.open /\ n \in 0..BufLen
          /\ dr.name = d[c.lun].name /\ dr.pos >= HdrLen
      <4>1. c.cyl \in Nat /\ c.head \in Nat /\ c.sector \in Nat
        BY <2>1 DEF Cdb
      <4>2. SeekOk(c.lun, c.head, c.sector)
        BY <2>2 DEF FormatSector
      <4>3. dr.name = d[c.lun].name
        BY <2>1, <4>1, <4>2, SoughtSlot DEF IInv, TypeOK, SameSlot
      <4> QED BY <2>1, <4>1, <4>2, <4>3, SoughtFacts
    <3>2. WriteOut(c.lun, dr, fillbuf, n) /\ fillbuf \in Buffer
      BY <2>2 DEF FormatSector, IInv, TypeOK
    <3> HIDE DEF dr, n
    <3> QED BY <2>1, <3>1, <3>2, ConfiningWrite
  <2>3. CASE ~FormatSector(c.lun, c.cyl, c.head, c.sector)
    <3>1. UNCHANGED host
      BY <1>2, <2>3 DEF OmtiCommand, Execute, ReadSector, WriteSector, Seek,
         SeekRefused, TestUnitReady, Immediate
    <3> QED BY <3>1, <1>1
  <2> QED BY <2>2, <2>3
<1>3. ASSUME NEW v \in GuestByte, DataOutLast(v) PROVE Confining
  <2>1. CASE WriteLast /\ d[lun].open
    <3>1. GoodSlot(d[lun]) /\ lun \in Luns
      BY DEF IInv, TypeOK, GoodSlots
    <3>2. d[lun].name \in Images
      BY <2>1, <3>1 DEF GoodSlot, UsableSlot, Drive, DriveOf
    <3>3. WriteOut(lun, d[lun], buf', secsize)
      BY <2>1 DEF WriteLast
    <3>4. buf' \in Buffer /\ secsize \in 0..BufLen
      BY <1>3, StoreByteType DEF DataOutLast, IInv, TypeOK
    <3>5. cdb'.lun = lun /\ d[lun].pos >= HdrLen
      BY <1>3, <2>1 DEF DataOutLast, StoreByte, WriteLast, WriteSafe
    <3> QED BY <2>1, <3>1, <3>2, <3>3, <3>4, <3>5, ConfiningWrite
  <2> QED BY <1>1, <1>3, <2>1 DEF DataOutLast, WriteLast, ParameterLast
<1>4. ASSUME NEW l \in Luns, ToggleWriteProtect(l) PROVE Confining
  BY <1>4 DEF ToggleWriteProtect, Protected, Confining, IInv, TypeOK, Image, Header
<1>5. ASSUME NEW i \in Images, NEW m \in HostModes, HostChmod(i, m) PROVE Confining
  BY <1>5 DEF HostChmod, Confining, IInv, TypeOK, Image
<1>6. ASSUME NEW v \in GuestByte, DataOutMore(v) PROVE Confining
  BY <1>1, <1>6 DEF DataOutMore
<1>7. CASE Guest
  BY <1>1, <1>2, <1>3, <1>6, <1>7
     DEF Guest, Select, SoftReset, CdbByte, DataIn, StatusIn
<1>8. CASE Menu
  BY <1>1, <1>4, <1>8 DEF Menu, Remove, Attach
<1>9. CASE Outside
  BY <1>1, <1>5, <1>9 DEF Outside, PowerOn
<1> QED BY <1>1, <1>7, <1>8, <1>9 DEF Next, vars

LEMMA SafeInvariance == Spec => [](IInv /\ WriteSafe)
BY Invariance, LunInit, LunNext, AfterInit, AfterNext, AfterIsSafe, PTL DEF Spec

\* Whatever the guest, the menu and the host do, a step changes data only in
\* the image of the slot the CDB names, and destroys no header.
THEOREM WritesAreConfined == Spec => Confined
<1>1. IInv /\ WriteSafe /\ [Next]_vars => [Confining]_vars
  BY ConfinedStep
<1>2. Confined <=> [][Confining]_vars
  BY PTL DEF Confined, Confining
<1> QED BY <1>1, <1>2, SafeInvariance, PTL DEF Spec

-----------------------------------------------------------------------------
(***************************************************************************)
(* What the menu shows as write protection                                 *)
(***************************************************************************)
\* Slot dr's flag is what the images h and its stream say, and its image's
\* header would be accepted again.
TrueSlot(dr, h) ==
  dr.open => /\ dr.wp <=> h[dr.name].hdr.wp \/ ~dr.canWrite
             /\ Opens(h[dr.name].hdr, SecPerTrk, MaxHeads)

\* No image is in two slots: toggling one would rewrite the header under the
\* other's flag.
Apart == \A k, l \in Luns : d[k].name = d[l].name /\ d[k].name # None => k = l

TrueSlots == \A l \in Luns : TrueSlot(d[l], host)

\* Slot x holds what slot dr held, or nothing.
KeptOrNone(dr, x) == SameSlot(dr, x) \/ (~x.open /\ x.name = None)

LEMMA WpMeaning == TrueSlots => WpIsTrue
BY DEF WpIsTrue, TrueSlots, TrueSlot

\* No slot takes another image.
SlotsKept ==
  d' \in [Luns -> Drive] /\ \A l \in Luns : KeptOrNone(d[l], d'[l])

HeadersSame == \A i \in Images : host'[i].hdr = host[i].hdr

LEMMA NoSlotFilled ==
  ASSUME IInv, TrueSlots, Apart, SlotsKept, HeadersSame
  PROVE  TrueSlots' /\ Apart'
<1>1. \A l \in Luns : d[l].open => d[l].name \in Images
  BY DEF IInv, GoodSlots, GoodSlot, UsableSlot, Drive, DriveOf
<1>2. TrueSlots'
  BY <1>1 DEF TrueSlots, TrueSlot, SlotsKept, HeadersSame, KeptOrNone, SameSlot
<1>3. Apart'
  BY DEF Apart, SlotsKept, KeptOrNone, SameSlot
<1> QED BY <1>2, <1>3

\* One slot changes, to what it was or to nothing.
LEMMA OneSlotKept ==
  ASSUME IInv, NEW l \in Luns, NEW x \in Drive, KeptOrNone(d[l], x),
         d' = [d EXCEPT ![l] = x]
  PROVE  SlotsKept
<1>1. /\ d \in [Luns -> Drive] /\ d' \in [Luns -> Drive]
      /\ \A k \in Luns : d'[k] = IF k = l THEN x ELSE d[k]
  BY DEF IInv, TypeOK
<1> QED BY <1>1 DEF SlotsKept, KeptOrNone, SameSlot

\* No slot is emptied either, and a stream stays the same one.
Stays(dr, x) == x.open = dr.open /\ x.name = dr.name /\ (dr.open => SameSlot(dr, x))

SlotsStay == d' \in [Luns -> Drive] /\ \A l \in Luns : Stays(d[l], d'[l])

LEMMA StayIsKept == IInv /\ SlotsStay => SlotsKept
BY DEF SlotsStay, SlotsKept, Stays, KeptOrNone, IInv, GoodSlots, GoodSlot

LEMMA OneSlotStays ==
  ASSUME IInv, NEW l \in Luns, NEW x \in Drive, Stays(d[l], x),
         d' = [d EXCEPT ![l] = x]
  PROVE  SlotsStay
<1>1. /\ d \in [Luns -> Drive] /\ d' \in [Luns -> Drive]
      /\ \A k \in Luns : d'[k] = IF k = l THEN x ELSE d[k]
  BY DEF IInv, TypeOK
<1> QED BY <1>1 DEF SlotsStay, Stays, SameSlot

LEMMA SlotsUnchanged == IInv /\ UNCHANGED d => SlotsStay
BY DEF IInv, TypeOK, SlotsStay, Stays, SameSlot

\* Slot l is given image i, which is in no other slot; the headers of the
\* images in the others stay.
LEMMA SlotFilled ==
  ASSUME IInv, TrueSlots, Apart, NEW l \in Luns, NEW i \in Images,
         \A k \in Luns \ {l} : d[k].name # i,
         host' \in [Images -> Image],
         \A j \in Images \ {i} : host'[j] = host[j],
         d' = [d EXCEPT ![l] = SlotWith(i, host', SecPerTrk, MaxHeads)]
  PROVE  TrueSlots' /\ Apart'
<1> DEFINE x == SlotWith(i, host', SecPerTrk, MaxHeads)
<1>1. x \in Drive /\ OpenedOrNot(x, i, MaxHeads)
  BY SlotWithType, NamesAssumption, GeometryAssumption DEF Drive
<1>2. x.open => /\ x.name = i /\ Opens(host'[i].hdr, SecPerTrk, MaxHeads)
                /\ x.wp <=> WriteProtected(host'[i])
                /\ x.canWrite <=> host'[i].mode # "ro"
  BY SlotWithFlags, NamesAssumption, GeometryAssumption
<1>3. TrueSlot(x, host')
  BY <1>2 DEF TrueSlot, WriteProtected
<1>4. x.name \in {i, None}
  BY <1>1 DEF OpenedOrNot
<1>5. /\ d \in [Luns -> Drive]
      /\ \A k \in Luns : d'[k] = IF k = l THEN x ELSE d[k]
  BY <1>1 DEF IInv, TypeOK
<1>6. \A k \in Luns : d[k].open => d[k].name \in Images
  BY DEF IInv, GoodSlots, GoodSlot, UsableSlot, Drive, DriveOf
<1> HIDE DEF x
<1>7. TrueSlots'
  BY <1>3, <1>5, <1>6 DEF TrueSlots, TrueSlot
<1>8. Apart'
  BY <1>4, <1>5 DEF Apart
<1> QED BY <1>7, <1>8

\* fwrite leaves the slot the one it was.
LEMMA WriteOutKeeps ==
  ASSUME IInv, NEW l \in Luns, NEW dr, GoodSlot(dr), dr.name \in Images,
         SameSlot(d[l], dr), NEW b \in Buffer, NEW n \in 0..BufLen,
         WriteOut(l, dr, b, n)
  PROVE  SlotsStay
<1>1. PICK o \in FwriteOutcomes(dr, host[dr.name], b, n, IoFaults) :
        d' = [d EXCEPT ![l] = o.drive]
  BY DEF WriteOut
<1>2. /\ host[dr.name] \in Image /\ dr \in DriveOf(Images)
      /\ BufLen \in Nat /\ b \in [1..BufLen -> Byte]
  BY DEF IInv, TypeOK, GoodSlot, Drive, Buffer
<1>3. o.drive \in Drive /\ SameSlot(dr, o.drive)
  BY <1>1, <1>2, FwriteOutcome DEF Drive
<1>4. Stays(d[l], o.drive)
  BY <1>3 DEF Stays, SameSlot
<1> QED BY <1>1, <1>3, <1>4, OneSlotStays

\* omti_seek's way into a slot leaves it as it is.
LEMMA ReadyKeeps ==
  ASSUME IInv, NEW l \in Luns
  PROVE  Ready(l) \in Drive /\ Stays(d[l], Ready(l))
<1>1. /\ GoodSlot(Ready(l)) /\ (Ready(l).open => Ready(l) = d[l])
      /\ GoodSlot(d[l]) /\ (d[l].open => Ready(l) = d[l])
  BY ReadyFacts DEF IInv, GoodSlots, Ready
<1> QED BY <1>1 DEF GoodSlot, Stays, SameSlot, Drive, DriveOf

\* Where omti_seek leads a command that may go on.
LEMMA SoughtKeeps ==
  ASSUME IInv, NEW l \in Luns, NEW y \in Nat, NEW h \in Nat, NEW s \in Nat,
         SeekOk(l, h, s)
  PROVE  /\ Sought(l, y, h, s) \in Drive
         /\ SameSlot(d[l], Sought(l, y, h, s))
         /\ Stays(d[l], Sought(l, y, h, s))
<1>1. host \in [Images -> Image] /\ GoodSlots /\ SizeKnown
  BY DEF IInv, TypeOK
<1> QED BY <1>1, SoughtSlot, SoughtFacts DEF Drive, Stays, SameSlot

LEMMA CommandKeeps ==
  ASSUME IInv, NEW c \in GuestCdbs, OmtiCommand(c)
  PROVE  SlotsStay
<1>1. /\ c \in Cdb /\ c.lun \in Luns /\ c.cyl \in Nat /\ c.head \in Nat
      /\ c.sector \in Nat /\ 0 \in Nat
  BY CdbAssumption DEF Cdb
<1> DEFINE l == c.lun
<1>2. host \in [Images -> Image] /\ buf \in Buffer /\ fillbuf \in Buffer
  BY DEF IInv, TypeOK
<1>3. CASE SeekRefused(l, c.head, c.sector) \/ SeekRefused(l, 0, 0) \/ TestUnitReady(l)
  BY <1>1, <1>3, ReadyKeeps, OneSlotStays DEF SeekRefused, TestUnitReady
<1>4. ASSUME NEW y \in Nat, NEW h \in Nat, NEW s \in Nat,
             Seek(l, y, h, s) \/ WriteSector(l, y, h, s)
      PROVE  SlotsStay
  <2>1. SeekOk(l, h, s) /\ d' = [d EXCEPT ![l] = Sought(l, y, h, s)]
    BY <1>4 DEF Seek, WriteSector
  <2> QED BY <1>1, <2>1, SoughtKeeps, OneSlotStays
<1>5. CASE FormatSector(l, c.cyl, c.head, c.sector)
  <2> DEFINE dr == Sought(l, c.cyl, c.head, c.sector)
  <2>1. SeekOk(l, c.head, c.sector) /\ WriteOut(l, dr, fillbuf, ReadySize(l))
    BY <1>5 DEF FormatSector
  <2>2. /\ GoodSlot(dr) /\ SameSlot(d[l], dr) /\ dr.name \in Images
        /\ ReadySize(l) \in 0..BufLen
    BY <1>1, <2>1, SoughtKeeps, SoughtFacts
  <2> HIDE DEF dr
  <2> QED BY <1>1, <1>2, <2>1, <2>2, WriteOutKeeps
<1>6. CASE ReadSector(l, c.cyl, c.head, c.sector)
  <2> DEFINE dr == Sought(l, c.cyl, c.head, c.sector)
             n == ReadySize(l)
  <2>1. /\ SeekOk(l, c.head, c.sector)
        /\ \E o \in FreadOutcomes(dr, host[dr.name], buf, n, IoFaults) :
             d' = [d EXCEPT ![l] = o.drive]
    BY <1>6 DEF ReadSector
  <2>2. /\ SameSlot(d[l], dr) /\ dr.name \in Images
        /\ n \in 0..BufLen /\ dr \in DriveOf(Images)
    BY <1>1, <2>1, SoughtKeeps, SoughtFacts
  <2> HIDE DEF dr, n
  <2>3. PICK o \in FreadOutcomes(dr, host[dr.name], buf, n, IoFaults) :
          d' = [d EXCEPT ![l] = o.drive]
    BY <2>1
  <2>4. host[dr.name] \in Image /\ BufLen \in Nat /\ buf \in [1..BufLen -> Byte]
    BY <1>2, <2>2 DEF Buffer
  <2>5. o.drive \in Drive /\ SameSlot(dr, o.drive)
    BY <2>2, <2>3, <2>4, FreadOutcome DEF Drive
  <2>6. Stays(d[l], o.drive)
    BY <2>2, <2>5 DEF Stays, SameSlot
  <2> QED BY <1>1, <2>3, <2>5, <2>6, OneSlotStays
<1>7. CASE Immediate(c.op)
  BY <1>7, SlotsUnchanged DEF Immediate
<1>8. Execute(c)
  BY DEF OmtiCommand
<1> QED BY <1>1, <1>3, <1>4, <1>5, <1>6, <1>7, <1>8 DEF Execute

\* Nothing the guest does exchanges or closes an image in a slot.
LEMMA GuestKeepsSlots == IInv /\ Guest => SlotsStay
<1> SUFFICES ASSUME IInv, Guest PROVE SlotsStay
  OBVIOUS
<1>1. ASSUME NEW v \in GuestByte, DataOutLast(v) PROVE SlotsStay
  <2>1. CASE WriteLast /\ d[lun].open
    <3>1. GoodSlot(d[lun]) /\ lun \in Luns
      BY DEF IInv, TypeOK, GoodSlots
    <3>2. d[lun].name \in Images
      BY <2>1, <3>1 DEF GoodSlot, UsableSlot, Drive, DriveOf
    <3>3. buf' \in Buffer /\ secsize \in 0..BufLen
      BY <1>1, StoreByteType DEF DataOutLast, IInv, TypeOK
    <3>4. WriteOut(lun, d[lun], buf', secsize) /\ SameSlot(d[lun], d[lun])
      BY <2>1 DEF WriteLast, SameSlot
    <3> QED BY <3>1, <3>2, <3>3, <3>4, WriteOutKeeps
  <2> QED BY <1>1, <2>1, SlotsUnchanged DEF DataOutLast, WriteLast, ParameterLast
<1> QED BY <1>1, CommandKeeps, SlotsUnchanged
        DEF Guest, Select, SoftReset, CdbByte, DataIn, StatusIn, DataOutMore

\* Nor does it change a header.
LEMMA GuestKeepsHeaders == IInv /\ WriteSafe /\ Guest => HeadersSame
<1> SUFFICES ASSUME IInv, WriteSafe, Guest PROVE HeadersSame
  OBVIOUS
<1>1. CASE UNCHANGED host
  BY <1>1 DEF HeadersSame
<1>2. ASSUME NEW l \in Luns, NEW dr, GoodSlot(dr), dr.name \in Images,
             dr.open, dr.pos >= HdrLen, NEW b \in Buffer, NEW n \in 0..BufLen,
             WriteOut(l, dr, b, n)
      PROVE  HeadersSame
  <2>1. /\ \A i \in Images : i # dr.name => host'[i] = host[i]
        /\ host'[dr.name].hdr = host[dr.name].hdr
    BY <1>2, WriteOutBytes
  <2> QED BY <2>1 DEF HeadersSame
<1>3. ASSUME NEW c \in GuestCdbs, OmtiCommand(c) PROVE HeadersSame
  <2>1. /\ c \in Cdb /\ c.lun \in Luns /\ c.cyl \in Nat /\ c.head \in Nat
        /\ c.sector \in Nat
    BY CdbAssumption DEF Cdb
  <2>2. CASE FormatSector(c.lun, c.cyl, c.head, c.sector)
    <3> DEFINE dr == Sought(c.lun, c.cyl, c.head, c.sector)
    <3>1. /\ SeekOk(c.lun, c.head, c.sector)
          /\ WriteOut(c.lun, dr, fillbuf, ReadySize(c.lun))
      BY <2>2 DEF FormatSector
    <3>2. /\ GoodSlot(dr) /\ dr.name \in Images /\ dr.open /\ dr.pos >= HdrLen
          /\ ReadySize(c.lun) \in 0..BufLen /\ fillbuf \in Buffer
      BY <2>1, <3>1, SoughtFacts DEF IInv, TypeOK
    <3> HIDE DEF dr
    <3> QED BY <1>2, <2>1, <3>1, <3>2
  <2>3. CASE ~FormatSector(c.lun, c.cyl, c.head, c.sector)
    BY <1>1, <1>3, <2>3 DEF OmtiCommand, Execute, ReadSector, WriteSector, Seek,
       SeekRefused, TestUnitReady, Immediate
  <2> QED BY <2>2, <2>3
<1>4. ASSUME NEW v \in GuestByte, DataOutLast(v) PROVE HeadersSame
  <2>1. CASE WriteLast /\ d[lun].open
    <3>1. GoodSlot(d[lun]) /\ lun \in Luns
      BY DEF IInv, TypeOK, GoodSlots
    <3>2. d[lun].name \in Images /\ d[lun].pos >= HdrLen
      BY <1>4, <2>1, <3>1 DEF GoodSlot, UsableSlot, Drive, DriveOf, DataOutLast,
         StoreByte, WriteLast, WriteSafe
    <3>3. buf' \in Buffer /\ secsize \in 0..BufLen
      BY <1>4, StoreByteType DEF DataOutLast, IInv, TypeOK
    <3>4. WriteOut(lun, d[lun], buf', secsize)
      BY <2>1 DEF WriteLast
    <3> QED BY <1>2, <2>1, <3>1, <3>2, <3>3, <3>4
  <2> QED BY <1>1, <1>4, <2>1 DEF DataOutLast, WriteLast, ParameterLast
<1> QED BY <1>1, <1>3, <1>4
        DEF Guest, Select, SoftReset, CdbByte, DataIn, StatusIn, DataOutMore

LEMMA MenuKeepsWp ==
  ASSUME IInv, TrueSlots, Apart, NEW l \in Luns
  PROVE  /\ Remove(l) => TrueSlots' /\ Apart'
         /\ \A i \in Images : Attach(l, i) => TrueSlots' /\ Apart'
         /\ ToggleWriteProtect(l) => TrueSlots' /\ Apart'
<1>1. ASSUME Remove(l) PROVE TrueSlots' /\ Apart'
  <2>1. EmptyDrive \in Drive /\ KeptOrNone(d[l], EmptyDrive)
    BY EmptyDriveType DEF KeptOrNone, Drive
  <2>2. SlotsKept
    BY <1>1, <2>1, OneSlotKept DEF Remove, InSlot
  <2>3. HeadersSame
    BY <1>1 DEF Remove, HeadersSame
  <2> QED BY <2>2, <2>3, NoSlotFilled
<1>2. ASSUME NEW i \in Images, Attach(l, i) PROVE TrueSlots' /\ Apart'
  <2>1. host \in [Images -> Image] /\ host' = host
    BY <1>2 DEF Attach, IInv, TypeOK
  <2> QED BY <1>2, <2>1, SlotFilled DEF Attach, InSlot
<1>3. ASSUME ToggleWriteProtect(l) PROVE TrueSlots' /\ Apart'
  <2> DEFINE i == d[l].name
  <2>1. i \in Images /\ \A k \in Luns \ {l} : d[k].name # i
    BY <1>3 DEF ToggleWriteProtect, IInv, TypeOK, Drive, DriveOf, Apart
  <2>2. host' \in [Images -> Image]
    BY <1>3, ToggleInv DEF IInv, TypeOK
  <2>3. \A j \in Images \ {i} : host'[j] = host[j]
    BY <1>3, <2>1 DEF ToggleWriteProtect, IInv, TypeOK
  <2>4. d' = [d EXCEPT ![l] = SlotWith(i, host', SecPerTrk, MaxHeads)]
    BY <1>3 DEF ToggleWriteProtect, InSlot
  <2> HIDE DEF i
  <2> QED BY <2>1, <2>2, <2>3, <2>4, SlotFilled
<1> QED BY <1>1, <1>2, <1>3

\* Power-on opens every named image afresh, so each flag is derived anew.
LEMMA PowerOnKeepsWp ==
  ASSUME IInv, Apart, PowerOn
  PROVE  TrueSlots' /\ Apart'
<1>1. ASSUME NEW l \in Luns
      PROVE  /\ Reopened(l) \in Drive /\ TrueSlot(Reopened(l), host)
             /\ Reopened(l).name \in {d[l].name, None}
  <2> DEFINE e == [d[l] EXCEPT !.wp = FALSE, !.heads = 0, !.secs = 0]
             o == HardImageOpen(e, host, SecPerTrk, MaxHeads)
  <2>1. d[l] \in DriveOf(Images) /\ host \in [Images -> Image]
    BY DEF IInv, TypeOK, Drive
  <2>2. e \in DriveOf(Images) /\ e.name = d[l].name
    BY <2>1 DEF DriveOf
  <2>3. Reopened(l) = o
    BY DEF Reopened, OmtiOpen
  <2> HIDE DEF e
  <2>4. /\ o \in DriveOf(Images) /\ OpenedOrNot(o, e.name, MaxHeads)
        /\ o.open => /\ o.name = e.name
                     /\ Opens(host[e.name].hdr, SecPerTrk, MaxHeads)
                     /\ o.wp <=> WriteProtected(host[e.name])
                     /\ o.canWrite <=> host[e.name].mode # "ro"
    BY <2>1, <2>2, OpenSlot, OpenSlotFlags, NamesAssumption, GeometryAssumption
  <2> HIDE DEF o
  <2>5. TrueSlot(o, host)
    BY <2>4 DEF TrueSlot, WriteProtected
  <2>6. o.name \in {d[l].name, None}
    BY <2>2, <2>4 DEF OpenedOrNot
  <2> QED BY <2>3, <2>4, <2>5, <2>6 DEF Drive
<1>2. host' = host /\ \A l \in Luns : d'[l] = Reopened(l)
  BY DEF PowerOn
<1>3. TrueSlots'
  BY <1>1, <1>2 DEF TrueSlots
<1>4. Apart'
  BY <1>1, <1>2 DEF Apart
<1> QED BY <1>3, <1>4

LEMMA WpInit == Init => TrueSlots /\ Apart
<1> SUFFICES ASSUME Init PROVE TrueSlots /\ Apart
  OBVIOUS
<1>1. host \in [Images -> Image]
  BY ImagesAssumption DEF Init
<1>2. PICK c \in Configured :
        d = [l \in Luns |-> OmtiOpen([EmptyDrive EXCEPT !.name = c[l]])]
  BY DEF Init
<1>3. ASSUME NEW l \in Luns
      PROVE  TrueSlot(d[l], host) /\ d[l].name \in {c[l], None}
  <2> DEFINE e == [EmptyDrive EXCEPT !.name = c[l]]
             o == HardImageOpen(e, host, SecPerTrk, MaxHeads)
  <2>1. c[l] \in Images \cup {None}
    BY DEF Configured
  <2>2. e \in DriveOf(Images) /\ e.name = c[l]
    BY <2>1 DEF EmptyDrive, DriveOf
  <2>3. d[l] = o
    BY <1>2 DEF OmtiOpen
  <2> HIDE DEF e
  <2>4. /\ OpenedOrNot(o, e.name, MaxHeads)
        /\ o.open => /\ o.name = e.name
                     /\ Opens(host[e.name].hdr, SecPerTrk, MaxHeads)
                     /\ o.wp <=> WriteProtected(host[e.name])
                     /\ o.canWrite <=> host[e.name].mode # "ro"
    BY <1>1, <2>2, OpenSlot, OpenSlotFlags, NamesAssumption, GeometryAssumption
  <2> HIDE DEF o
  <2>5. TrueSlot(o, host)
    BY <2>4 DEF TrueSlot, WriteProtected
  <2> QED BY <2>2, <2>3, <2>4, <2>5 DEF OpenedOrNot
<1>4. TrueSlots
  BY <1>3 DEF TrueSlots
<1>5. Apart
  BY <1>3 DEF Apart, Configured
<1> QED BY <1>4, <1>5

LEMMA WpNext ==
  IInv /\ WriteSafe /\ TrueSlots /\ Apart /\ [Next]_vars => TrueSlots' /\ Apart'
<1> SUFFICES ASSUME IInv, WriteSafe, TrueSlots, Apart, [Next]_vars
             PROVE  TrueSlots' /\ Apart'
  OBVIOUS
<1>1. CASE UNCHANGED <<host, d>>
  BY <1>1 DEF TrueSlots, Apart
<1>2. ASSUME NEW i \in Images, NEW m \in HostModes, HostChmod(i, m)
      PROVE  TrueSlots' /\ Apart'
  <2>1. d' = d /\ HeadersSame
    BY <1>2 DEF HostChmod, IInv, TypeOK, Image, HeadersSame
  <2> QED BY <2>1, SlotsUnchanged, StayIsKept, NoSlotFilled
<1>3. CASE Guest
  BY <1>3, GuestKeepsSlots, StayIsKept, GuestKeepsHeaders, NoSlotFilled
<1>4. CASE Menu
  BY <1>4, MenuKeepsWp DEF Menu
<1>5. CASE Outside
  BY <1>2, <1>5, PowerOnKeepsWp DEF Outside
<1> QED BY <1>1, <1>3, <1>4, <1>5 DEF Next, vars

\* What the menu shows as write protection is what the image and its stream
\* are, whatever was attached, toggled, powered or renamed before.
THEOREM ProtectionIsTrue == Spec => []WpIsTrue
<1>1. TrueSlots => WpIsTrue
  BY WpMeaning
<1> QED BY <1>1, SafeInvariance, WpInit, WpNext, PTL DEF Spec

\* What toggling promises of a step.
Flips == \A l \in Luns : ToggleWriteProtect(l) => d'[l].wp = ~d[l].wp

\* The toggled image's header is one that opens, so the slot is filled again
\* and both of its sources of protection have been rewritten.
LEMMA FlipsStep == IInv /\ TrueSlots /\ [Next]_vars => Flips
<1> SUFFICES ASSUME IInv, TrueSlots, NEW l \in Luns, ToggleWriteProtect(l)
             PROVE  d'[l].wp = ~d[l].wp
  BY DEF Flips
<1> DEFINE i == d[l].name
           on == ~d[l].wp
           x == SlotWith(i, host', SecPerTrk, MaxHeads)
<1>1. i \in Images /\ d[l].wp \in BOOLEAN /\ d[l].open
  BY DEF ToggleWriteProtect, IInv, TypeOK, Drive, DriveOf, GoodSlots, GoodSlot
<1>2. Opens(host[i].hdr, SecPerTrk, MaxHeads)
  BY <1>1 DEF TrueSlots, TrueSlot
<1>3. /\ host \in [Images -> Image] /\ host[i] \in Image
      /\ host' = [host EXCEPT ![i] = Protected(host[i], on)]
      /\ d' = [d EXCEPT ![l] = x]
  BY <1>1 DEF ToggleWriteProtect, InSlot, IInv, TypeOK
<1>4. host' \in [Images -> Image]
  BY ToggleInv DEF IInv, TypeOK
<1> HIDE DEF i, on, x
<1>5. host'[i] = Protected(host[i], on)
  BY <1>1, <1>3
<1>6. /\ host'[i].hdr = [host[i].hdr EXCEPT !.wp = on]
      /\ host'[i].mode = IF on THEN "ro" ELSE "rw"
  BY <1>3, <1>5 DEF Protected, Image
<1>7. /\ host'[i].hdr.wp = on /\ host'[i].hdr.id = host[i].hdr.id
      /\ host'[i].hdr.heads = host[i].hdr.heads
      /\ host'[i].hdr.sec = host[i].hdr.sec
  BY <1>3, <1>6 DEF Image, Header
<1>8. Opens(host'[i].hdr, SecPerTrk, MaxHeads)
  BY <1>2, <1>7 DEF Opens, UsableGeometry, DividesByZero, Secs, Heads, SectorsPerCyl
<1>9. WriteProtected(host'[i]) <=> on
  BY <1>6, <1>7 DEF WriteProtected
<1>10. x.wp <=> on
  <2>1. host'[i].mode # "none"
    BY <1>6
  <2>2. x.wp <=> WriteProtected(host'[i])
    BY <1>1, <1>4, <1>8, <2>1, SlotWithFlags, NamesAssumption, GeometryAssumption DEF x
  <2> QED BY <1>9, <2>2
<1>11. x \in Drive
  BY <1>1, <1>4, SlotWithType, NamesAssumption, GeometryAssumption DEF x, Drive
<1>12. x.wp \in BOOLEAN
  BY <1>11 DEF Drive, DriveOf
<1>13. d'[l] = x
  BY <1>3, <1>11 DEF IInv, TypeOK
<1>14. x.wp = on
  BY <1>1, <1>10, <1>12 DEF on
<1> QED BY <1>13, <1>14 DEF on

\* Toggling write protection always flips what the slot reports, whatever the
\* menu, the guest and the host did before.
THEOREM ToggleAlwaysFlips == Spec => ToggleFlips
<1>1. IInv /\ TrueSlots /\ [Next]_vars => [Flips]_vars
  BY FlipsStep
<1>2. ToggleFlips <=> [][Flips]_vars
  BY PTL DEF ToggleFlips, Flips
<1> QED BY <1>1, <1>2, SafeInvariance, WpInit, WpNext, PTL DEF Spec

-----------------------------------------------------------------------------
(***************************************************************************)
(* With slots that change only between commands                            *)
(***************************************************************************)
LEMMA QuietIsNext == [QuietNext]_vars => [Next]_vars
BY DEF QuietNext, QuietMenu, Next

LEMMA QuietInvariance == QuietSpec => [](IInv /\ AfterHeader /\ LunKnown)
BY InitInv, NextInv, AfterInit, AfterNext, LunInit, LunNext, QuietIsNext, PTL
   DEF QuietSpec

LEMMA StatusInit == Init => StatusTracksPhase
BY DEF Init, StatusTracksPhase, StatusOf, Phases

LEMMA StatusNext ==
  IInv /\ StatusTracksPhase /\ [QuietNext]_vars => StatusTracksPhase'
<1> SUFFICES ASSUME IInv, StatusTracksPhase, [QuietNext]_vars
             PROVE  StatusTracksPhase'
  OBVIOUS
<1>1. ASSUME NEW c \in GuestCdbs, OmtiCommand(c) PROVE StatusTracksPhase'
  BY <1>1 DEF OmtiCommand, Execute, ReadSector, WriteSector, FormatSector, Seek,
     SeekRefused, TestUnitReady, Immediate, WriteOut, Finish, DataPhase,
     StatusTracksPhase, StatusOf, Phases
<1>2. ASSUME NEW v \in GuestByte, DataOutMore(v) PROVE StatusTracksPhase'
  BY <1>2 DEF DataOutMore, StatusTracksPhase, StatusOf
<1>3. ASSUME NEW v \in GuestByte, DataOutLast(v) PROVE StatusTracksPhase'
  BY <1>3 DEF DataOutLast, WriteLast, ParameterLast, WriteOut, Finish,
     StatusTracksPhase, StatusOf, Phases
<1>4. CASE Guest
  BY <1>1, <1>2, <1>3, <1>4
     DEF Guest, Select, SoftReset, ResetBus, CdbByte, DataIn, StatusIn, Finish,
         StatusTracksPhase, StatusOf, Phases
<1>5. CASE QuietMenu
  BY <1>5 DEF QuietMenu, Menu, Remove, Attach, ToggleWriteProtect, InSlot,
     StatusTracksPhase, StatusOf, Phases
<1>6. CASE Outside
  BY <1>6 DEF Outside, PowerOn, ResetBus, HostChmod, bus, StatusTracksPhase,
     StatusOf, Phases
<1>7. CASE UNCHANGED vars
  BY <1>7 DEF vars, bus, StatusTracksPhase, StatusOf
<1> QED BY <1>4, <1>5, <1>6, <1>7 DEF QuietNext

\* A guest that goes by the status byte is never misled.
THEOREM StatusIsTrue == QuietSpec => []StatusTracksPhase
BY QuietInvariance, StatusInit, StatusNext, PTL DEF QuietSpec

LEMMA AimInit == Init => WriteIsAimed
BY DEF Init, WriteIsAimed

LEMMA AimMenu == QuietMenu => WriteIsAimed'
BY DEF QuietMenu, Menu, Remove, Attach, ToggleWriteProtect, InSlot, WriteIsAimed

LEMMA AimGuest == IInv /\ WriteIsAimed /\ (Guest \/ Outside) => WriteIsAimed'
<1> SUFFICES ASSUME IInv, WriteIsAimed, Guest \/ Outside
             PROVE  WriteIsAimed'
  OBVIOUS
<1>1. CASE UNCHANGED <<phase, command, lun, d, cdb, secsize, datalen>>
  BY <1>1 DEF WriteIsAimed, CdbPos, SeekPos
<1>2. CASE phase' # "DATA_OUT"
  BY <1>2 DEF WriteIsAimed
<1>3. ASSUME NEW c \in GuestCdbs, OmtiCommand(c) PROVE WriteIsAimed'
  <2>1. /\ c \in Cdb /\ c.lun \in Luns /\ cdb' = c /\ lun' = c.lun
        /\ c.cyl \in Nat /\ c.head \in Nat /\ c.sector \in Nat
    BY <1>3, CdbAssumption DEF OmtiCommand, Cdb
  <2>2. CASE c.op = "WRITE" /\ WriteSector(c.lun, c.cyl, c.head, c.sector)
    <3> DEFINE l == c.lun
               dr == Sought(l, c.cyl, c.head, c.sector)
    <3>1. /\ SeekOk(l, c.head, c.sector) /\ d' = [d EXCEPT ![l] = dr]
          /\ datalen' = ReadySize(l)
      BY <2>2 DEF WriteSector, DataPhase
    <3>2. /\ host \in [Images -> Image] /\ GoodSlots /\ SizeKnown
          /\ d \in [Luns -> Drive] /\ d[l] \in DriveOf(Images)
      BY <2>1 DEF IInv, TypeOK, Drive
    <3>3. /\ dr = [d[l] EXCEPT !.pos =
                     SeekPos(d[l], SecSize, c.cyl, c.head, c.sector)]
          /\ dr.open /\ secsize = SecSize /\ ReadySize(l) = SecSize
      BY <2>1, <3>1, <3>2, SoughtSlot
    <3>4. secsize' = SecSize
      BY <1>3, <3>3, <2>2 DEF OmtiCommand, ReopensSlot
    <3>5. d'[l] = dr
      BY <2>1, <3>1, <3>2
    <3> HIDE DEF dr
    <3>6. /\ dr.pos = SeekPos(d[l], SecSize, c.cyl, c.head, c.sector)
          /\ dr.heads = d[l].heads /\ dr.secs = d[l].secs
      BY <3>2, <3>3 DEF DriveOf
    <3>7. dr.pos = SeekPos(dr, SecSize, c.cyl, c.head, c.sector)
      BY <3>6 DEF SeekPos, SectorOffset
    <3> QED BY <2>1, <3>1, <3>3, <3>4, <3>5, <3>7 DEF WriteIsAimed, CdbPos, SeekPos
  <2>3. CASE ~(c.op = "WRITE" /\ WriteSector(c.lun, c.cyl, c.head, c.sector))
    <3>1. command' = "WRITE" => phase' = "STATUS"
      BY <1>3, <2>3 DEF OmtiCommand, Execute, SeekRefused, Immediate, Finish
    <3> QED BY <3>1 DEF WriteIsAimed
  <2> QED BY <2>2, <2>3
<1>4. ASSUME NEW v \in GuestByte, DataOutMore(v) PROVE WriteIsAimed'
  BY <1>1, <1>4 DEF DataOutMore
<1>5. ASSUME NEW v \in GuestByte, DataOutLast(v) PROVE WriteIsAimed'
  BY <1>2, <1>5 DEF DataOutLast, WriteLast, ParameterLast, WriteOut, Finish
<1>6. CASE Guest
  BY <1>1, <1>2, <1>3, <1>4, <1>5, <1>6
     DEF Guest, Select, SoftReset, ResetBus, CdbByte, DataIn, StatusIn, Finish
<1>7. CASE Outside
  BY <1>1, <1>2, <1>7 DEF Outside, PowerOn, ResetBus, HostChmod, bus
<1> QED BY <1>6, <1>7

LEMMA AimNext == IInv /\ WriteIsAimed /\ [QuietNext]_vars => WriteIsAimed'
<1>1. WriteIsAimed /\ UNCHANGED vars => WriteIsAimed'
  BY DEF vars, bus, WriteIsAimed, CdbPos, SeekPos
<1> QED BY <1>1, AimGuest, AimMenu DEF QuietNext

\* While WRITE's data arrives the stream stands at the addressed sector.
THEOREM WriteStaysAimed == QuietSpec => []WriteIsAimed
BY QuietInvariance, AimInit, AimNext, PTL DEF QuietSpec

\* What a step may do to the bytes of the images.
Addressed ==
  \A i \in Images : \A j \in 1..Len(host'[i].data) :
    ByteAt(host'[i], j) # ByteAt(host[i], j) =>
      HdrLen + j - CdbPos(d[lun])' \in 1..SecSize

\* fwrite of one sector from the position the CDB decodes to.
LEMMA AddressedWrite ==
  ASSUME IInv, NEW l \in Luns, NEW dr, GoodSlot(dr), dr.name \in Images,
         dr.open, dr.pos >= HdrLen, NEW b \in Buffer, WriteOut(l, dr, b, SecSize),
         lun' = l, secsize' = SecSize,
         dr.pos = SeekPos(dr, SecSize, cdb'.cyl, cdb'.head, cdb'.sector)
  PROVE  Addressed
<1>1. SecSize \in 0..BufLen
  OBVIOUS
<1>2. /\ \A i \in Images : i # dr.name => host'[i] = host[i]
      /\ \A j \in Nat \ {0} :
           ByteAt(host'[dr.name], j) # ByteAt(host[dr.name], j)
             => HdrLen + j - dr.pos \in 1..SecSize
      /\ d'[l].heads = dr.heads /\ d'[l].secs = dr.secs
  BY <1>1, WriteOutBytes
<1>3. CdbPos(d[lun])' = dr.pos
  BY <1>2 DEF CdbPos, SeekPos, SectorOffset
<1> SUFFICES ASSUME NEW i \in Images, NEW j \in 1..Len(host'[i].data),
                    ByteAt(host'[i], j) # ByteAt(host[i], j)
             PROVE  HdrLen + j - CdbPos(d[lun])' \in 1..SecSize
  BY DEF Addressed
<1>4. i = dr.name /\ j \in Nat \ {0}
  BY <1>2
<1> QED BY <1>2, <1>3, <1>4

LEMMA AddressedStep ==
  IInv /\ AfterHeader /\ LunKnown /\ WriteIsAimed /\ [QuietNext]_vars => Addressed
<1> SUFFICES ASSUME IInv, AfterHeader, LunKnown, WriteIsAimed, [QuietNext]_vars
             PROVE  Addressed
  OBVIOUS
<1>1. CASE UNCHANGED host
  BY <1>1 DEF Addressed
<1>2. ASSUME NEW c \in GuestCdbs, OmtiCommand(c) PROVE Addressed
  <2>1. /\ c \in Cdb /\ c.lun \in Luns /\ cdb' = c /\ lun' = c.lun
        /\ c.cyl \in Nat /\ c.head \in Nat /\ c.sector \in Nat
    BY <1>2, CdbAssumption DEF OmtiCommand, Cdb
  <2>2. CASE c.op = "FORMAT" /\ FormatSector(c.lun, c.cyl, c.head, c.sector)
    <3> DEFINE l == c.lun
               dr == Sought(l, c.cyl, c.head, c.sector)
    <3>1. SeekOk(l, c.head, c.sector) /\ WriteOut(l, dr, fillbuf, ReadySize(l))
      BY <2>2 DEF FormatSector
    <3>2. /\ host \in [Images -> Image] /\ GoodSlots /\ SizeKnown
          /\ fillbuf \in Buffer /\ d[l] \in DriveOf(Images)
      BY <2>1 DEF IInv, TypeOK, Drive
    <3>3. /\ dr = [d[l] EXCEPT !.pos =
                     SeekPos(d[l], SecSize, c.cyl, c.head, c.sector)]
          /\ GoodSlot(dr) /\ dr.name \in Images /\ dr.pos >= HdrLen
          /\ dr.open /\ secsize = SecSize /\ ReadySize(l) = SecSize
      BY <2>1, <3>1, <3>2, SoughtSlot
    <3>4. secsize' = SecSize
      BY <1>2, <3>3, <2>2 DEF OmtiCommand, ReopensSlot
    <3> HIDE DEF dr
    <3>5. /\ dr.pos = SeekPos(d[l], SecSize, c.cyl, c.head, c.sector)
          /\ dr.heads = d[l].heads /\ dr.secs = d[l].secs
      BY <3>2, <3>3 DEF DriveOf
    <3>6. dr.pos = SeekPos(dr, SecSize, c.cyl, c.head, c.sector)
      BY <3>5 DEF SeekPos, SectorOffset
    <3> QED BY <2>1, <3>1, <3>2, <3>3, <3>4, <3>6, AddressedWrite
  <2>3. CASE ~(c.op = "FORMAT" /\ FormatSector(c.lun, c.cyl, c.head, c.sector))
    <3>1. UNCHANGED host
      BY <1>2, <2>3 DEF OmtiCommand, Execute, ReadSector, WriteSector, Seek,
         SeekRefused, TestUnitReady, Immediate
    <3> QED BY <3>1, <1>1
  <2> QED BY <2>2, <2>3
<1>3. ASSUME NEW v \in GuestByte, DataOutLast(v) PROVE Addressed
  <2>1. CASE WriteLast /\ d[lun].open
    <3>1. /\ GoodSlot(d[lun]) /\ lun \in Luns /\ secsize = SecSize
          /\ d[lun].pos >= HdrLen
      BY <2>1 DEF IInv, TypeOK, GoodSlots, SizeKnown, AfterHeader
    <3>2. d[lun].name \in Images
      BY <2>1, <3>1 DEF GoodSlot, UsableSlot, Drive, DriveOf
    <3>3. WriteOut(lun, d[lun], buf', SecSize)
      BY <2>1, <3>1 DEF WriteLast
    <3>4. buf' \in Buffer /\ secsize' = SecSize /\ lun' = lun /\ cdb' = cdb
      BY <1>3, <3>1, StoreByteType DEF DataOutLast
    <3>5. d[lun].pos = SeekPos(d[lun], SecSize, cdb'.cyl, cdb'.head, cdb'.sector)
      BY <1>3, <2>1, <3>1, <3>4
         DEF WriteIsAimed, CdbPos, WriteLast, DataOutLast, StoreByte
    <3> QED BY <2>1, <3>1, <3>2, <3>3, <3>4, <3>5, AddressedWrite
  <2> QED BY <1>1, <1>3, <2>1 DEF DataOutLast, WriteLast, ParameterLast
<1>4. ASSUME NEW l \in Luns, ToggleWriteProtect(l) PROVE Addressed
  <2>1. \A i \in Images : host'[i].data = host[i].data
    BY <1>4 DEF ToggleWriteProtect, Protected, IInv, TypeOK, Image
  <2> QED BY <2>1 DEF Addressed, ByteAt
<1>5. ASSUME NEW i \in Images, NEW m \in HostModes, HostChmod(i, m) PROVE Addressed
  <2>1. \A k \in Images : host'[k].data = host[k].data
    BY <1>5 DEF HostChmod, IInv, TypeOK, Image
  <2> QED BY <2>1 DEF Addressed, ByteAt
<1>6. CASE Guest
  BY <1>1, <1>2, <1>3, <1>6
     DEF Guest, Select, SoftReset, CdbByte, DataIn, StatusIn, DataOutMore
<1>7. CASE QuietMenu
  BY <1>1, <1>4, <1>7 DEF QuietMenu, Menu, Remove, Attach
<1>8. CASE Outside
  BY <1>1, <1>5, <1>8 DEF Outside, PowerOn
<1> QED BY <1>1, <1>6, <1>7, <1>8 DEF QuietNext, vars

\* An aimed WRITE is a safe one.
LEMMA AimedIsSafe == IInv /\ WriteIsAimed => WriteSafe
<1> SUFFICES ASSUME IInv, WriteIsAimed, phase = "DATA_OUT", command = "WRITE",
                    d[lun].open
             PROVE  lun = cdb.lun /\ d[lun].pos >= HdrLen
  BY DEF WriteSafe
<1>1. /\ lun = cdb.lun /\ d[lun].pos = CdbPos(d[lun])
      /\ d[lun] \in DriveOf(Images) /\ d[lun].secs \in Nat \ {0}
      /\ secsize \in Nat /\ cdb.cyl \in Nat /\ cdb.head \in Nat /\ cdb.sector \in Nat
  BY DEF WriteIsAimed, IInv, TypeOK, GoodSlots, GoodSlot, UsableSlot, Drive,
     DriveOf, Cdb
<1>2. \A x \in Nat, y \in Nat \ {0} : x \div y \in Nat /\ x % y \in Nat
  OBVIOUS
<1> DEFINE h == cdb.head + cdb.sector \div d[lun].secs
           s == cdb.sector % d[lun].secs
<1>3. h \in Nat /\ s \in Nat
  BY <1>1, <1>2
<1>4. CdbPos(d[lun]) = SectorOffset(d[lun], secsize, cdb.cyl, h, s)
  BY DEF CdbPos, SeekPos
<1> HIDE DEF h, s
<1>5. SectorOffset(d[lun], secsize, cdb.cyl, h, s) >= HdrLen
  BY <1>1, <1>3, SectorOffsetType
<1> QED BY <1>1, <1>4, <1>5

\* Every byte a step changes lies in the sector its CDB addresses.
THEOREM WritesAreAddressed == QuietSpec => OnlyAddressedSector
<1>1. IInv /\ AfterHeader /\ LunKnown /\ WriteIsAimed /\ [QuietNext]_vars
        => [Addressed]_vars
  BY AddressedStep
<1>2. OnlyAddressedSector <=> [][Addressed]_vars
  BY PTL DEF OnlyAddressedSector, Addressed
<1> QED BY <1>1, <1>2, QuietInvariance, WriteStaysAimed, PTL DEF QuietSpec

-----------------------------------------------------------------------------
(***************************************************************************)
(* The controller implements SasiDisk                                      *)
(***************************************************************************)
\* The abstract disk's view of the slots and of the CDB's address.
LoadedMap == [l \in Luns |-> IF d[l].open THEN d[l].name ELSE None]
ShelfMap == [i \in Images |-> [c \in Cells |-> ByteAt(host[i], c + 1)]]
CdbAddr == IF d[cdb.lun].open THEN CdbPos(d[cdb.lun]) - HdrLen ELSE 0

LEMMA CdbAddrType == IInv => CdbAddr \in Nat
<1> SUFFICES ASSUME IInv, d[cdb.lun].open PROVE CdbPos(d[cdb.lun]) - HdrLen \in Nat
  BY DEF CdbAddr
<1> DEFINE dr == d[cdb.lun]
<1>1. /\ dr \in DriveOf(Images) /\ dr.secs \in Nat \ {0}
      /\ secsize \in Nat /\ cdb.cyl \in Nat /\ cdb.head \in Nat /\ cdb.sector \in Nat
  BY DEF IInv, TypeOK, GoodSlots, GoodSlot, UsableSlot, Drive, DriveOf, Cdb
<1>2. \A x \in Nat, y \in Nat \ {0} : x \div y \in Nat /\ x % y \in Nat
  OBVIOUS
<1> DEFINE h == cdb.head + cdb.sector \div dr.secs
           s == cdb.sector % dr.secs
<1>3. h \in Nat /\ s \in Nat
  BY <1>1, <1>2
<1>4. CdbPos(dr) = SectorOffset(dr, secsize, cdb.cyl, h, s)
  BY DEF CdbPos, SeekPos
<1> HIDE DEF h, s, dr
<1>5. /\ SectorOffset(dr, secsize, cdb.cyl, h, s) \in Nat
      /\ SectorOffset(dr, secsize, cdb.cyl, h, s) >= HdrLen
  BY <1>1, <1>3, SectorOffsetType
<1>6. CdbPos(dr) \in Nat /\ CdbPos(dr) >= HdrLen
  BY <1>4, <1>5
<1> QED BY <1>6, HdrLenAssumption DEF dr

LEMMA LoadedStays == SlotsStay => UNCHANGED LoadedMap
BY DEF SlotsStay, Stays, SameSlot, LoadedMap

LEMMA ShelfStays ==
  ASSUME \A i \in Images : host'[i].data = host[i].data
  PROVE  UNCHANGED ShelfMap
BY DEF ShelfMap, ByteAt

LEMMA ByteType == ASSUME NEW f \in Image, NEW j \in Nat \ {0}
                  PROVE  ByteAt(f, j) \in Byte
BY ZeroAssumption DEF ByteAt, Image

LEMMA InitMaps == Init => Disk!Init
<1> SUFFICES ASSUME Init PROVE Disk!Init
  OBVIOUS
<1>1. IInv
  BY InitInv
<1>2. CdbAddr \in Nat /\ SecSize \in Nat /\ cdb.lun \in Luns
  BY <1>1, CdbAddrType, SizeAssumption DEF IInv, TypeOK, Cdb
<1>3. LoadedMap \in [Luns -> Images \cup {None}]
  BY <1>1 DEF LoadedMap, IInv, TypeOK, Drive, DriveOf
<1>4. ShelfMap \in [Images -> [Cells -> Byte \cup {None}]]
  <2>1. \A i \in Images, c \in Cells : ByteAt(host[i], c + 1) \in Byte
    BY <1>1, ByteType, CellsAssumption DEF IInv, TypeOK
  <2> QED BY <2>1 DEF ShelfMap
<1>5. [k \in 1..SecSize |-> buf[k]] \in [1..SecSize -> Byte]
  BY <1>1, SizeAssumption DEF IInv, TypeOK, Buffer
<1> QED BY <1>2, <1>3, <1>4, <1>5
        DEF Disk!Init, Disk!TypeOK, CdbAddr, LoadedMap, ShelfMap, Init, StageOf,
            Phases, Transferring

-----------------------------------------------------------------------------
\* Of the images only i changes, and of its cells only a sector's at a.
LEMMA OneSectorMaps ==
  ASSUME NEW i \in Images, NEW a \in Nat,
         \A k \in Images : k # i => host'[k] = host[k],
         \A j \in Nat \ {0} :
           ByteAt(host'[i], j) # ByteAt(host[i], j) => j - a \in 1..SecSize
  PROVE  Disk!OnlyCells(i, a..(a + SecSize - 1))
<1>1. ASSUME NEW n \in Images, NEW c \in Cells,
             ByteAt(host'[n], c + 1) # ByteAt(host[n], c + 1)
      PROVE  n = i /\ c \in a..(a + SecSize - 1)
  <2>1. n = i
    BY <1>1
  <2>2. c \in Nat /\ c + 1 \in Nat \ {0}
    BY CellsAssumption
  <2>3. (c + 1) - a \in 1..SecSize
    BY <1>1, <2>1, <2>2
  <2> QED BY <2>1, <2>2, <2>3, SizeAssumption
<1> QED BY <1>1 DEF Disk!OnlyCells

\* fwrite of a sector through drive dr of slot l, cell for cell.
LEMMA WriteOutCells ==
  ASSUME IInv, NEW l \in Luns, NEW dr, GoodSlot(dr), dr.name \in Images,
         dr.open, dr.pos >= HdrLen, NEW b \in Buffer, WriteOut(l, dr, b, SecSize)
  PROVE  /\ dr.pos - HdrLen \in Nat
         /\ Disk!OnlyCells(dr.name, (dr.pos - HdrLen)..((dr.pos - HdrLen) + SecSize - 1))
         /\ finalStatus' \in {"OK", "ERROR"}
         /\ finalStatus' = "OK" =>
              \A k \in 1..SecSize :
                ByteAt(host'[dr.name], (dr.pos - HdrLen) + k) = b[k]
<1> DEFINE a == dr.pos - HdrLen
<1>1. dr.pos \in Nat /\ a \in Nat /\ HdrLen \in Nat /\ SecSize \in 0..BufLen
  BY HdrLenAssumption, SizeAssumption DEF GoodSlot, Drive, DriveOf
<1>2. /\ \A i \in Images : i # dr.name => host'[i] = host[i]
      /\ \A j \in Nat \ {0} :
           ByteAt(host'[dr.name], j) # ByteAt(host[dr.name], j)
             => HdrLen + j - dr.pos \in 1..SecSize
  BY <1>1, WriteOutBytes
<1>3. \A j \in Nat : HdrLen + j - dr.pos = j - a
  BY <1>1
<1> HIDE DEF a
<1>4. Disk!OnlyCells(dr.name, a..(a + SecSize - 1))
  BY <1>1, <1>2, <1>3, OneSectorMaps
<1>5. PICK o \in FwriteOutcomes(dr, host[dr.name], b, SecSize, IoFaults) :
        host' = [host EXCEPT ![dr.name] = o.file] /\ Finish(o.ok)
  BY DEF WriteOut
<1>6. ASSUME finalStatus' = "OK", NEW k \in 1..SecSize
      PROVE  ByteAt(host'[dr.name], a + k) = b[k]
  <2>1. o.ok
    BY <1>5, <1>6 DEF Finish
  <2>2. host'[dr.name] = FwriteFrom(b, host[dr.name], dr.pos, SecSize)
    BY <1>5, <2>1, FwriteSucceeds DEF IInv, TypeOK
  <2>3. host[dr.name] \in Image /\ SecSize \in Nat \ {0}
    BY SizeAssumption DEF IInv, TypeOK
  <2> QED BY <1>1, <2>2, <2>3, FwriteFromBytes DEF a
<1>7. finalStatus' \in {"OK", "ERROR"}
  BY <1>5 DEF Finish
<1> QED BY <1>1, <1>4, <1>6, <1>7 DEF a

\* The address a command decoded to, seen from the stream that was moved there.
LEMMA AddrReached ==
  ASSUME NEW l \in Luns, NEW dr, NEW x, cdb'.lun = l, d'[l] = x, x.open,
         x.heads = dr.heads, x.secs = dr.secs, secsize' = SecSize,
         dr.pos = SeekPos(dr, SecSize, cdb'.cyl, cdb'.head, cdb'.sector)
  PROVE  CdbAddr' = dr.pos - HdrLen
BY DEF CdbAddr, CdbPos, SeekPos, SectorOffset

-----------------------------------------------------------------------------
\* A command that ends at once and leaves every byte alone.
LEMMA EndedMaps ==
  ASSUME IInv, NEW c \in GuestCdbs, OmtiCommand(c), phase' = "STATUS",
         \A i \in Images : host'[i].data = host[i].data
  PROVE  Disk!Immediate
<1>1. UNCHANGED LoadedMap /\ UNCHANGED ShelfMap
  BY CommandKeeps, LoadedStays, ShelfStays
<1>2. phase = "CDB"
  BY DEF OmtiCommand
<1>3. \A m, cs : Disk!OnlyCells(m, cs)
  BY <1>1 DEF Disk!OnlyCells, ShelfMap
<1> QED BY <1>1, <1>2, <1>3
        DEF Disk!Immediate, LoadedMap, ShelfMap, StageOf, Phases

LEMMA CommandAt ==
  ASSUME NEW c \in GuestCdbs, OmtiCommand(c)
  PROVE  /\ c \in Cdb /\ c.lun \in Luns /\ cdb' = c /\ phase = "CDB"
         /\ c.cyl \in Nat /\ c.head \in Nat /\ c.sector \in Nat
         /\ command' = c.op
BY CdbAssumption DEF OmtiCommand, Cdb

\* The slot a command moves to its address.
LEMMA SoughtAt ==
  ASSUME IInv, NEW l \in Luns, NEW y \in Nat, NEW h \in Nat, NEW s \in Nat,
         SeekOk(l, h, s)
  PROVE  LET dr == Sought(l, y, h, s)
         IN /\ dr.pos = SeekPos(dr, SecSize, y, h, s)
            /\ d[l].open /\ d[l].name = dr.name
            /\ GoodSlot(dr) /\ dr \in DriveOf(Images) /\ dr.name \in Images
            /\ dr.open /\ dr.pos >= HdrLen
            /\ secsize = SecSize /\ ReadySize(l) = SecSize
<1> DEFINE dr == Sought(l, y, h, s)
<1>1. /\ host \in [Images -> Image] /\ GoodSlots /\ SizeKnown
      /\ d[l] \in DriveOf(Images)
  BY DEF IInv, TypeOK, Drive
<1>2. /\ dr = [d[l] EXCEPT !.pos = SeekPos(d[l], SecSize, y, h, s)]
      /\ SameSlot(d[l], dr) /\ dr.open
  BY <1>1, SoughtSlot
<1>3. dr.pos = SeekPos(d[l], SecSize, y, h, s)
  BY <1>1, <1>2 DEF DriveOf
<1> HIDE DEF dr
<1>4. dr.pos = SeekPos(dr, SecSize, y, h, s)
  BY <1>2, <1>3 DEF SeekPos, SectorOffset, SameSlot
<1> QED BY <1>2, <1>4, SoughtFacts DEF dr, SameSlot

LEMMA FormatMaps ==
  ASSUME IInv, NEW c \in GuestCdbs, OmtiCommand(c), c.op = "FORMAT",
         FormatSector(c.lun, c.cyl, c.head, c.sector)
  PROVE  Disk!Immediate
<1> DEFINE l == c.lun
           dr == Sought(l, c.cyl, c.head, c.sector)
<1>1. /\ c \in Cdb /\ l \in Luns /\ cdb' = c /\ phase = "CDB"
      /\ c.cyl \in Nat /\ c.head \in Nat /\ c.sector \in Nat
  BY CommandAt
<1>2. SeekOk(l, c.head, c.sector) /\ WriteOut(l, dr, fillbuf, ReadySize(l))
  BY DEF FormatSector
<1>3. /\ dr.pos = SeekPos(dr, SecSize, c.cyl, c.head, c.sector)
      /\ d[l].open /\ d[l].name = dr.name
      /\ GoodSlot(dr) /\ dr \in DriveOf(Images) /\ dr.name \in Images
      /\ dr.open /\ dr.pos >= HdrLen
      /\ secsize = SecSize /\ ReadySize(l) = SecSize
  BY <1>1, <1>2, SoughtAt
<1>4. fillbuf \in Buffer /\ host[dr.name] \in Image /\ d \in [Luns -> Drive]
  BY <1>3 DEF IInv, TypeOK
<1> HIDE DEF dr
<1>5. /\ dr.pos - HdrLen \in Nat
      /\ Disk!OnlyCells(dr.name, (dr.pos - HdrLen)..((dr.pos - HdrLen) + SecSize - 1))
  BY <1>1, <1>2, <1>3, <1>4, WriteOutCells
<1>6. UNCHANGED LoadedMap
  BY CommandKeeps, LoadedStays
<1>7. d'[l].open /\ d'[l].heads = dr.heads /\ d'[l].secs = dr.secs
  <2>1. d'[l].heads = dr.heads /\ d'[l].secs = dr.secs
    BY <1>1, <1>2, <1>3, <1>4, WriteOutBytes, SizeAssumption
  <2>2. Stays(d[l], d'[l])
    BY <1>1, CommandKeeps DEF SlotsStay
  <2> QED BY <1>3, <2>1, <2>2 DEF Stays
<1>8. secsize' = SecSize
  <2>1. secsize' = IF ReopensSlot(c.op) THEN ReadySize(l) ELSE secsize
    BY DEF OmtiCommand
  <2> QED BY <1>3, <2>1
<1>9. CdbAddr' = dr.pos - HdrLen
  BY <1>1, <1>3, <1>7, <1>8, AddrReached
<1>10. phase' = "STATUS" /\ LoadedMap[cdb'.lun] = dr.name /\ dr.name # None
  BY <1>1, <1>2, <1>3, NamesAssumption DEF WriteOut, Finish, LoadedMap
<1> QED BY <1>1, <1>5, <1>6, <1>9, <1>10
        DEF Disk!Immediate, Disk!Sector, LoadedMap, CdbAddr, StageOf, Phases

LEMMA ReadMaps ==
  ASSUME IInv, NEW c \in GuestCdbs, OmtiCommand(c), c.op = "READ",
         ReadSector(c.lun, c.cyl, c.head, c.sector)
  PROVE  Disk!StartRead \/ Disk!Immediate
<1> DEFINE l == c.lun
           dr == Sought(l, c.cyl, c.head, c.sector)
           n == ReadySize(l)
<1>1. /\ c \in Cdb /\ l \in Luns /\ cdb' = c /\ phase = "CDB"
      /\ c.cyl \in Nat /\ c.head \in Nat /\ c.sector \in Nat /\ command' = "READ"
  BY CommandAt
<1>2. SeekOk(l, c.head, c.sector) /\ host' = host
  BY DEF ReadSector
<1>3. /\ dr.pos = SeekPos(dr, SecSize, c.cyl, c.head, c.sector)
      /\ d[l].open /\ d[l].name = dr.name
      /\ GoodSlot(dr) /\ dr \in DriveOf(Images) /\ dr.name \in Images
      /\ dr.open /\ dr.pos >= HdrLen
      /\ secsize = SecSize /\ n = SecSize
  BY <1>1, <1>2, SoughtAt
<1>4. PICK o \in FreadOutcomes(dr, host[dr.name], buf, n, IoFaults) :
        /\ buf' = o.buf
        /\ d' = [d EXCEPT ![l] = o.drive]
        /\ \/ o.ok /\ DataPhase("DATA_IN", n)
           \/ ~o.ok /\ Finish(FALSE) /\ UNCHANGED datalen
  BY DEF ReadSector
<1>5. CASE ~o.ok
  BY <1>2, <1>4, <1>5, EndedMaps DEF Finish
<1>6. CASE o.ok
  <2> HIDE DEF dr, n
  <2>1. /\ host[dr.name] \in Image /\ buf \in [1..BufLen -> Byte]
        /\ d \in [Luns -> Drive] /\ BufLen \in Nat /\ SecSize \in 0..BufLen
        /\ SecSize \in Nat
    BY <1>3, SizeAssumption DEF IInv, TypeOK, Buffer
  <2>2. \A k \in 1..SecSize : buf[k] = Zero
    BY <1>1, SizeAssumption DEF IInv, IdleIsClean, ZeroBuf
  <2>3. \A k \in 1..SecSize :
          buf'[k] = ByteAt(host[dr.name], (dr.pos - HdrLen) + k)
    <3>1. SecSize = n /\ \A k \in 1..SecSize : o.buf[k] =
                                     ByteAt(host[dr.name], (dr.pos - HdrLen) + k)
      <4> SUFFICES ASSUME NEW k \in 1..SecSize
                   PROVE  o.buf[k] = ByteAt(host[dr.name], (dr.pos - HdrLen) + k)
        BY <1>3
      <4> QED BY <1>3, <1>6, <2>1, <2>2, FreadContinues
    <3> QED BY <1>4, <3>1
  <2>4. o.drive \in DriveOf(Images) /\ SameSlot(dr, o.drive)
    BY <1>3, <1>4, <2>1, FreadOutcome
  <2>5. d'[l] = o.drive
    BY <1>1, <1>4, <2>1
  <2>6. secsize' = SecSize
    <3>1. secsize' = IF ReopensSlot(c.op) THEN ReadySize(l) ELSE secsize
      BY DEF OmtiCommand
    <3> QED BY <1>3, <3>1 DEF n
  <2>7. CdbAddr' = dr.pos - HdrLen
    BY <1>1, <1>3, <2>4, <2>5, <2>6, AddrReached DEF SameSlot
  <2>8. LoadedMap[cdb'.lun] = dr.name /\ dr.name # None
    BY <1>1, <1>3, NamesAssumption DEF LoadedMap
  <2>9. dr.pos - HdrLen \in Nat /\ HdrLen \in Nat /\ dr.pos \in Nat
    BY <1>3, HdrLenAssumption DEF DriveOf
  <2> DEFINE a == dr.pos - HdrLen
  <2>10. ASSUME NEW e \in (a..(a + SecSize - 1)) \cap Cells
         PROVE  ShelfMap[dr.name][e] = [k \in 1..SecSize |-> buf'[k]][e - a + 1]
    <3>0. a \in Nat /\ SecSize \in Nat
      BY <2>1, <2>9
    <3> HIDE DEF a
    <3>1. e - a + 1 \in 1..SecSize /\ a + (e - a + 1) = e + 1
      BY <3>0
    <3>2. buf'[e - a + 1] = ByteAt(host[dr.name], e + 1)
      BY <2>3, <3>1 DEF a
    <3> QED BY <1>3, <3>1, <3>2 DEF ShelfMap
  <2>11. Disk!Fetched
    <3>1. \A e \in (a..(a + SecSize - 1)) \cap Cells :
            ShelfMap[dr.name][e] \in {[k \in 1..SecSize |-> buf'[k]][e - a + 1], None}
      BY <2>10
    <3> HIDE DEF a
    <3>2. CdbAddr' = a
      BY <2>7 DEF a
    <3> QED BY <2>8, <3>1, <3>2
            DEF Disk!Fetched, Disk!Sector, LoadedMap, CdbAddr, ShelfMap
  <2>12. UNCHANGED LoadedMap /\ UNCHANGED ShelfMap
    BY <1>2, CommandKeeps, LoadedStays, ShelfStays
  <2>13. phase' = "DATA_IN" /\ finalStatus' = finalStatus
    BY <1>4, <1>6 DEF DataPhase
  <2>14. Disk!StartRead
    BY <1>1, <2>11, <2>12, <2>13
       DEF Disk!StartRead, Disk!SameMedia, LoadedMap, ShelfMap, StageOf, Phases,
           Transferring
  <2> QED BY <2>14
<1> QED BY <1>5, <1>6

LEMMA WriteMaps ==
  ASSUME IInv, NEW c \in GuestCdbs, OmtiCommand(c), c.op = "WRITE",
         WriteSector(c.lun, c.cyl, c.head, c.sector)
  PROVE  Disk!StartWrite
<1> DEFINE l == c.lun
<1>1. /\ c \in Cdb /\ l \in Luns /\ cdb' = c /\ phase = "CDB"
      /\ c.cyl \in Nat /\ c.head \in Nat /\ c.sector \in Nat /\ command' = "WRITE"
  BY CommandAt
<1>2. /\ SeekOk(l, c.head, c.sector) /\ host' = host
      /\ phase' = "DATA_OUT" /\ finalStatus' = finalStatus
  BY DEF WriteSector, DataPhase
<1>3. d[l].open /\ d[l].name \in Images
  BY <1>1, <1>2, SoughtAt
<1>4. LoadedMap[cdb'.lun] # None
  BY <1>1, <1>3, NamesAssumption DEF LoadedMap
<1>5. UNCHANGED LoadedMap /\ UNCHANGED ShelfMap
  BY <1>2, CommandKeeps, LoadedStays, ShelfStays
<1> QED BY <1>1, <1>2, <1>4, <1>5
        DEF Disk!StartWrite, Disk!SameMedia, LoadedMap, ShelfMap, StageOf, Phases,
            Transferring

LEMMA CommandMaps ==
  ASSUME IInv, NEW c \in GuestCdbs, OmtiCommand(c)
  PROVE  Disk!Next
<1>1. Execute(c)
  BY DEF OmtiCommand
<1>2. CASE c.op = "READ" /\ ReadSector(c.lun, c.cyl, c.head, c.sector)
  BY <1>2, ReadMaps DEF Disk!Next
<1>3. CASE c.op = "WRITE" /\ WriteSector(c.lun, c.cyl, c.head, c.sector)
  BY <1>3, WriteMaps DEF Disk!Next
<1>4. CASE c.op = "FORMAT" /\ FormatSector(c.lun, c.cyl, c.head, c.sector)
  BY <1>4, FormatMaps DEF Disk!Next
<1>5. CASE phase' = "STATUS" /\ host' = host
  BY <1>5, EndedMaps DEF Disk!Next
<1>6. CASE \/ c.op = "SET_CHARACTERISTICS" /\ DataPhase("DATA_OUT", CharLen)
           \/ c.op = "WRITE_SECTOR_BUFFER" /\ DataPhase("DATA_OUT", secsize)
  <2>1. CASE host' = host
    <3>1. UNCHANGED LoadedMap /\ UNCHANGED ShelfMap
      BY <2>1, CommandKeeps, LoadedStays, ShelfStays
    <3>2. /\ phase = "CDB" /\ phase' = "DATA_OUT" /\ finalStatus' = finalStatus
          /\ command' \notin {"READ", "WRITE"}
      BY <1>6, CommandAt DEF DataPhase
    <3>3. Disk!StartTransfer
      BY <3>1, <3>2 DEF Disk!StartTransfer, Disk!SameMedia, LoadedMap, ShelfMap,
         StageOf, Phases, Transferring
    <3> QED BY <3>3 DEF Disk!Next
  <2>2. CASE host' # host
    BY <1>1, <1>6, <2>2 DEF Execute, Seek, SeekRefused, TestUnitReady, Immediate
  <2> QED BY <2>1, <2>2
<1> QED BY <1>1, <1>2, <1>3, <1>4, <1>5, <1>6
        DEF Execute, Seek, SeekRefused, TestUnitReady, Immediate, Finish

-----------------------------------------------------------------------------
\* Data arrive for every command but READ.
ReadIsIn == phase = "DATA_OUT" => command # "READ"

LEMMA ReadInit == Init => ReadIsIn
BY DEF Init, ReadIsIn

LEMMA ReadNext == ReadIsIn /\ [QuietNext]_vars => ReadIsIn'
<1> SUFFICES ASSUME ReadIsIn, [QuietNext]_vars PROVE ReadIsIn'
  OBVIOUS
<1>1. CASE phase' # "DATA_OUT"
  BY <1>1 DEF ReadIsIn
<1>2. CASE UNCHANGED <<phase, command>>
  BY <1>2 DEF ReadIsIn
<1>3. ASSUME NEW c \in GuestCdbs, OmtiCommand(c) PROVE ReadIsIn'
  BY <1>3 DEF OmtiCommand, Execute, ReadSector, WriteSector, FormatSector, Seek,
     SeekRefused, TestUnitReady, Immediate, WriteOut, Finish, DataPhase, ReadIsIn
<1>4. ASSUME NEW v \in GuestByte, DataOutLast(v) PROVE ReadIsIn'
  BY <1>1, <1>4 DEF DataOutLast, WriteLast, ParameterLast, WriteOut, Finish
<1>5. CASE Guest
  BY <1>1, <1>2, <1>3, <1>4, <1>5
     DEF Guest, Select, SoftReset, ResetBus, CdbByte, DataIn, StatusIn, DataOutMore,
         Finish
<1>6. CASE QuietMenu
  BY <1>2, <1>6 DEF QuietMenu, Menu, Remove, Attach, ToggleWriteProtect, InSlot
<1>7. CASE Outside
  BY <1>1, <1>2, <1>7 DEF Outside, PowerOn, ResetBus, HostChmod, bus
<1> QED BY <1>2, <1>5, <1>6, <1>7 DEF QuietNext, vars, bus

\* A byte of a data phase that does not end it.
LEMMA ByteMaps ==
  ASSUME IInv,
         (\E v \in GuestByte : DataOutMore(v)) \/ (DataIn /\ bytesdone' # datalen)
  PROVE  Disk!Move
<1>1. UNCHANGED <<phase, cdb, command, d, secsize, host, finalStatus>>
  BY DEF DataOutMore, DataIn
<1>2. phase \in {"DATA_IN", "DATA_OUT"} /\ (phase = "DATA_IN" => buf' = buf)
  BY DEF DataOutMore, StoreByte, DataIn
<1> QED BY <1>1, <1>2
        DEF Disk!Move, Disk!SameCommand, Disk!SameMedia, CdbPos, SeekPos,
            Transferring, StageOf, Phases

\* A transfer whose last byte moves with nothing to store.
LEMMA TransferMaps ==
  ASSUME IInv, phase \in {"DATA_IN", "DATA_OUT"}, Finish(TRUE), UNCHANGED <<host, d>>,
         phase = "DATA_OUT" => command \notin {"READ", "WRITE"}
  PROVE  Disk!FinishTransfer
BY DEF Finish, Disk!FinishTransfer, Disk!SameMedia, StageOf, Phases, Transferring

LEMMA DataInMaps == IInv /\ ReadIsIn /\ DataIn => Disk!Next
<1> SUFFICES ASSUME IInv, ReadIsIn, DataIn PROVE Disk!Next
  OBVIOUS
<1>1. CASE bytesdone' # datalen
  BY <1>1, ByteMaps DEF Disk!Next
<1>2. CASE bytesdone' = datalen
  BY <1>2, TransferMaps DEF DataIn, Disk!Next
<1> QED BY <1>1, <1>2

LEMMA DataOutLastMaps ==
  ASSUME IInv, ReadIsIn, WriteIsAimed, NEW v \in GuestByte, DataOutLast(v)
  PROVE  Disk!Next
<1>1. /\ phase = "DATA_OUT" /\ UNCHANGED <<cdb, command, secsize, lun>>
      /\ WriteLast \/ ParameterLast
  BY DEF DataOutLast, StoreByte
<1>2. CASE ParameterLast
  BY <1>1, <1>2, TransferMaps DEF ParameterLast, ReadIsIn, Disk!Next
<1>3. CASE WriteLast
  <2> DEFINE dr == d[lun]
             a == dr.pos - HdrLen
  <2>1. /\ command = "WRITE" /\ dr.open /\ lun = cdb.lun /\ dr.pos = CdbPos(dr)
        /\ lun \in Luns
    BY <1>1, <1>3 DEF WriteLast, WriteIsAimed, IInv, TypeOK
  <2>2. /\ GoodSlot(dr) /\ secsize = SecSize /\ dr.name \in Images
        /\ dr.pos >= HdrLen /\ dr.name # None
    <3>1. dr.pos >= HdrLen
      BY <1>1, <2>1, AimedIsSafe DEF WriteSafe
    <3> QED BY <2>1, <3>1
            DEF IInv, GoodSlots, SizeKnown, GoodSlot, UsableSlot, Drive, DriveOf
  <2>3. WriteOut(lun, dr, buf', SecSize) /\ buf' \in Buffer
    BY <1>3, <2>1, <2>2, StoreByteType DEF WriteLast, DataOutLast
  <2>4. CdbAddr = a /\ LoadedMap[cdb.lun] = dr.name /\ Transferring
    BY <1>1, <2>1, <2>2 DEF CdbAddr, LoadedMap, Transferring
  <2> HIDE DEF dr, a
  <2>5. /\ a \in Nat /\ Disk!OnlyCells(dr.name, a..(a + SecSize - 1))
        /\ finalStatus' \in {"OK", "ERROR"}
        /\ finalStatus' = "OK" =>
             \A k \in 1..SecSize : ByteAt(host'[dr.name], a + k) = buf'[k]
    BY <2>1, <2>2, <2>3, WriteOutCells DEF a
  <2>6. UNCHANGED LoadedMap
    <3>1. Guest
      BY DEF Guest
    <3> QED BY <3>1, GuestKeepsSlots, LoadedStays
  <2>7. Disk!OnlyCells(LoadedMap[cdb.lun], CdbAddr..(CdbAddr + SecSize - 1))
    BY <2>4, <2>5
  <2>8. phase' = "STATUS" /\ SecSize \in Nat
    BY <2>3, SizeAssumption DEF WriteOut, Finish
  <2>9. CASE finalStatus' = "OK"
    <3>1. ASSUME NEW e \in (a..(a + SecSize - 1)) \cap Cells
          PROVE  ShelfMap'[dr.name][e] = [k \in 1..SecSize |-> buf'[k]][e - a + 1]
      <4>1. e - a + 1 \in 1..SecSize /\ a + (e - a + 1) = e + 1
        BY <2>5, <2>8
      <4>2. buf'[e - a + 1] = ByteAt(host'[dr.name], e + 1)
        BY <2>5, <2>9, <4>1
      <4> QED BY <2>2, <4>1, <4>2 DEF ShelfMap
    <3>2. Disk!Stores
      BY <2>4, <2>6, <2>7, <3>1
         DEF Disk!Stores, Disk!Sector, LoadedMap, ShelfMap, CdbAddr
    <3>3. Disk!FinishWrite
      BY <1>1, <2>4, <2>8, <2>9, <3>2 DEF Disk!FinishWrite, StageOf, Phases
    <3> QED BY <3>3 DEF Disk!Next
  <2>10. CASE finalStatus' = "ERROR"
    <3>1. Disk!Fail
      BY <1>1, <2>4, <2>6, <2>7, <2>8, <2>10
         DEF Disk!Fail, Disk!Sector, LoadedMap, CdbAddr, StageOf, Phases
    <3> QED BY <3>1 DEF Disk!Next
  <2> QED BY <2>5, <2>9, <2>10
<1> QED BY <1>1, <1>2, <1>3

\* A toggle or a change of mode rewrites no cell.
LEMMA SameBytes ==
  ASSUME IInv, Menu \/ Outside
  PROVE  UNCHANGED ShelfMap
<1>1. \A i \in Images : host'[i].data = host[i].data
  <2>1. ASSUME NEW l \in Luns, ToggleWriteProtect(l)
        PROVE  \A i \in Images : host'[i].data = host[i].data
    BY <2>1 DEF ToggleWriteProtect, Protected, IInv, TypeOK, Image
  <2>2. ASSUME NEW i \in Images, NEW m \in HostModes, HostChmod(i, m)
        PROVE  \A k \in Images : host'[k].data = host[k].data
    BY <2>2 DEF HostChmod, IInv, TypeOK, Image
  <2> QED BY <2>1, <2>2 DEF Menu, Remove, Attach, Outside, PowerOn
<1> QED BY <1>1, ShelfStays

LEMMA StepMaps ==
  IInv /\ ReadIsIn /\ WriteIsAimed /\ [QuietNext]_vars => [Disk!Next]_(Disk!vars)
<1> SUFFICES ASSUME IInv, ReadIsIn, WriteIsAimed, [QuietNext]_vars
             PROVE  Disk!Next \/ UNCHANGED Disk!vars
  OBVIOUS
<1>1. CASE UNCHANGED <<phase, cdb, command, d, secsize, buf, finalStatus>> /\ UNCHANGED ShelfMap
  BY <1>1 DEF Disk!vars, ShelfMap, CdbPos, SeekPos, Transferring
<1>2. CASE Select
  <2>1. Disk!Select
    BY <1>2 DEF Select, Disk!Select, Disk!SameMedia, StageOf, Phases
  <2> QED BY <2>1 DEF Disk!Next
<1>3. CASE SoftReset \/ StatusIn
  <2>1. Disk!Release
    BY <1>3 DEF StatusIn, SoftReset, ResetBus, Disk!Release, Disk!SameMedia, StageOf, Phases
  <2> QED BY <2>1 DEF Disk!Next
<1>4. CASE CdbByte
  BY <1>1, <1>4, ShelfStays DEF CdbByte
<1>5. CASE Guest
  BY <1>2, <1>3, <1>4, <1>5, CommandMaps, DataInMaps, ByteMaps, DataOutLastMaps
     DEF Guest, Disk!Next
<1>6. CASE QuietMenu
  <2>1. UNCHANGED ShelfMap
    BY <1>6, SameBytes DEF QuietMenu
  <2>2. phase = "IDLE" /\ phase' = "IDLE"
    BY <1>6 DEF QuietMenu, Menu, Remove, Attach, ToggleWriteProtect, InSlot
  <2>3. Disk!Exchange
    BY <2>1, <2>2 DEF Disk!Exchange, ShelfMap, StageOf, Phases
  <2> QED BY <2>3 DEF Disk!Next
<1>7. CASE PowerOn
  <2>1. Disk!Restart
    BY <1>7 DEF PowerOn, ResetBus, Disk!Restart, StageOf, Phases
  <2> QED BY <2>1 DEF Disk!Next
<1>8. ASSUME NEW i \in Images, NEW m \in HostModes, HostChmod(i, m)
      PROVE  Disk!Next \/ UNCHANGED Disk!vars
  <2>1. UNCHANGED ShelfMap
    BY <1>8, SameBytes DEF Outside
  <2> QED BY <1>1, <1>8, <2>1 DEF HostChmod, bus
<1>9. CASE UNCHANGED vars
  BY <1>1, <1>9, ShelfStays DEF vars, bus
<1> QED BY <1>5, <1>6, <1>7, <1>8, <1>9 DEF QuietNext, Outside

\* With slots that change only between commands the controller is the abstract
\* disk: READ returns and WRITE and FORMAT replace exactly the addressed sector
\* of the image in the addressed slot, a WRITE reported good is in the image,
\* and nothing else changes one.
THEOREM DiskImplemented == QuietSpec => ImplementsDisk
<1>1. QuietSpec => []ReadIsIn
  BY ReadInit, ReadNext, PTL DEF QuietSpec
<1> QED BY <1>1, QuietInvariance, WriteStaysAimed, InitMaps, StepMaps, PTL
        DEF QuietSpec, ImplementsDisk, Disk!Spec

-----------------------------------------------------------------------------
(***************************************************************************)
(* With the state saved and loaded between any two steps                   *)
(***************************************************************************)
Snapshots ==
  [present : BOOLEAN, phase : Phases, status : StatusBytes, cdb : Cdb,
   cdbIndex : 0..CdbLen, command : Commands, lun : Luns, buf : Buffer,
   fillbuf : Buffer, bytesdone : 0..BufLen, datalen : 0..BufLen,
   secsize : {0, SecSize}, finalStatus : {"OK", "ERROR"}, d : [Luns -> Drive]]

\* A saved slot says nothing of the stream.
Streamless(dr) == dr.pos = 0 /\ ~dr.canWrite /\ ~dr.err

\* A snapshot is one of a machine whose invariant held.
SnapshotSound(s) ==
  /\ s \in Snapshots
  /\ \A l \in Luns : GoodSlot(s.d[l]) /\ Streamless(s.d[l])
  /\ s.present => s.secsize = SecSize
  /\ \A l \in Luns : s.d[l].open => s.secsize = SecSize
  /\ s.phase \in {"IDLE", "CDB"} =>
       s.buf = ZeroBuf /\ s.bytesdone = 0 /\ s.datalen = 0
  /\ s.present /\ s.phase \in {"DATA_IN", "DATA_OUT"} => s.bytesdone < s.datalen

SavedSound == saved # NoSnapshot => SnapshotSound(saved)

LEMMA SnapshotFields ==
  /\ Snapshot.present = present /\ Snapshot.phase = phase
  /\ Snapshot.status = status /\ Snapshot.cdb = cdb
  /\ Snapshot.cdbIndex = cdbIndex /\ Snapshot.command = command
  /\ Snapshot.lun = lun /\ Snapshot.buf = buf /\ Snapshot.fillbuf = fillbuf
  /\ Snapshot.bytesdone = bytesdone /\ Snapshot.datalen = datalen
  /\ Snapshot.secsize = secsize /\ Snapshot.finalStatus = finalStatus
  /\ Snapshot.d = [l \in Luns |-> SavedSlot(d[l])]
BY DEF Snapshot

LEMMA SavedSlotType ==
  ASSUME NEW dr, GoodSlot(dr)
  PROVE  /\ GoodSlot(SavedSlot(dr)) /\ SavedSlot(dr) \in Drive
         /\ Streamless(SavedSlot(dr)) /\ SavedSlot(dr).open = dr.open
         /\ SavedSlot(dr).name = dr.name
BY DEF SavedSlot, GoodSlot, UsableSlot, Streamless, Drive, DriveOf

LEMMA SnapshotIsSound == IInv => SnapshotSound(Snapshot)
<1> SUFFICES ASSUME IInv PROVE SnapshotSound(Snapshot)
  OBVIOUS
<1>1. \A l \in Luns : /\ GoodSlot(SavedSlot(d[l])) /\ SavedSlot(d[l]) \in Drive
                      /\ Streamless(SavedSlot(d[l]))
                      /\ SavedSlot(d[l]).open = d[l].open
  BY SavedSlotType DEF IInv, GoodSlots
<1> DEFINE sd == [l \in Luns |-> SavedSlot(d[l])]
<1>2. sd \in [Luns -> Drive] /\ \A l \in Luns : sd[l] = SavedSlot(d[l])
  BY <1>1
<1>3. Snapshot \in Snapshots
  <2>1. Snapshot = [present |-> present, phase |-> phase, status |-> status,
          cdb |-> cdb, cdbIndex |-> cdbIndex, command |-> command, lun |-> lun,
          buf |-> buf, fillbuf |-> fillbuf, bytesdone |-> bytesdone,
          datalen |-> datalen, secsize |-> secsize, finalStatus |-> finalStatus,
          d |-> sd]
    BY DEF Snapshot
  <2> HIDE DEF sd
  <2> QED BY <1>2, <2>1 DEF IInv, TypeOK, Snapshots
<1>4. Snapshot.d = sd
  BY SnapshotFields
<1> HIDE DEF sd
<1>5. /\ \A l \in Luns : GoodSlot(Snapshot.d[l]) /\ Streamless(Snapshot.d[l])
      /\ \A l \in Luns : Snapshot.d[l].open => Snapshot.secsize = SecSize
  BY <1>1, <1>2, <1>4, SnapshotFields DEF IInv, SizeKnown
<1> QED BY <1>3, <1>5, SnapshotFields
        DEF SnapshotSound, IInv, SizeKnown, IdleIsClean, DataPhaseMoves

\* A loaded slot is the saved one with a stream at the start of its file, or
\* none.
LEMMA LoadedSlot ==
  ASSUME NEW s, GoodSlot(s)
  PROVE  /\ GoodSlot(SlotLoaded(s, host)) /\ SlotLoaded(s, host) \in Drive
         /\ SlotLoaded(s, host).open => /\ s.open
                                        /\ SlotLoaded(s, host).name = s.name
<1> DEFINE m == host[s.name].mode
           x == [Closed(s) EXCEPT !.wp = FALSE]
           w == m = "ro"
           cw == m = "rw"
           y == [s EXCEPT !.wp = w, !.canWrite = cw, !.pos = 0, !.err = FALSE]
           r == SlotLoaded(s, host)
<1>1. r = IF ~s.open THEN s ELSE IF m = "none" THEN x ELSE y
  BY DEF SlotLoaded
<1>2. s \in DriveOf(Images) /\ (s.open => UsableSlot(s, MaxHeads))
  BY DEF GoodSlot, Drive
<1>3. x \in DriveOf(Images) /\ x.open = FALSE /\ x.name = None
  BY <1>2 DEF Closed, DriveOf
<1>4. w \in BOOLEAN /\ cw \in BOOLEAN
  BY Zenon
<1> HIDE DEF m, w, cw, x, r
<1>5. /\ y \in DriveOf(Images) /\ y.open = s.open /\ y.name = s.name
      /\ y.secs = s.secs /\ y.heads = s.heads
  BY <1>2, <1>4 DEF DriveOf
<1> HIDE DEF y
<1>6. GoodSlot(x)
  BY <1>3 DEF GoodSlot, Drive
<1>7. s.open => GoodSlot(y)
  BY <1>2, <1>5 DEF GoodSlot, UsableSlot, Drive
<1> QED BY <1>1, <1>3, <1>5, <1>6, <1>7, <1>2 DEF r, Drive

LEMMA LoadInv == IInv /\ SavedSound /\ Load => IInv'
<1> SUFFICES ASSUME IInv, SnapshotSound(saved), Load PROVE IInv'
  BY DEF SavedSound, Load
<1>1. \A l \in Luns :
        /\ d'[l] = SlotLoaded(saved.d[l], host)
        /\ GoodSlot(d'[l]) /\ d'[l] \in Drive
        /\ d'[l].open => saved.d[l].open
  BY LoadedSlot DEF SnapshotSound, Load
<1>2. d' \in [Luns -> Drive]
  BY <1>1 DEF Load
<1>3. GoodSlots'
  BY <1>1, <1>2 DEF GoodSlots, GoodSlot
<1>4. /\ present' \in BOOLEAN /\ phase' \in Phases /\ status' \in StatusBytes
      /\ cdb' \in Cdb /\ cdbIndex' \in 0..CdbLen /\ command' \in Commands
      /\ lun' \in Luns /\ buf' \in Buffer /\ fillbuf' \in Buffer
      /\ bytesdone' \in 0..BufLen /\ datalen' \in 0..BufLen
      /\ secsize' \in {0, SecSize} /\ finalStatus' \in {"OK", "ERROR"}
  BY DEF SnapshotSound, Snapshots, Load, TransferRestored
<1>5. TypeOK'
  BY <1>2, <1>4 DEF TypeOK, Load, IInv, Phases, StatusBytes, Buffer, Drive, Cdb, Commands
<1>6. SizeKnown'
  BY <1>1, <1>4 DEF SizeKnown, SnapshotSound, Load
<1>7. IdleIsClean' /\ DataPhaseMoves'
  BY DEF IdleIsClean, DataPhaseMoves, SnapshotSound, Load, TransferRestored, ZeroBuf
<1> QED BY <1>3, <1>5, <1>6, <1>7 DEF IInv

LEMMA SnapInitInv == SnapInit => IInv /\ SavedSound
BY InitInv DEF SnapInit, SavedSound

LEMMA SavedSame == SavedSound /\ UNCHANGED saved => SavedSound'
BY DEF SavedSound, SnapshotSound, Snapshots, GoodSlot, Streamless, Buffer, ZeroBuf

LEMMA SnapNextInv == IInv /\ SavedSound /\ [SnapNext]_svars => (IInv /\ SavedSound)'
<1> SUFFICES ASSUME IInv, SavedSound, [SnapNext]_svars
             PROVE  IInv' /\ SavedSound'
  OBVIOUS
<1>1. CASE Next /\ UNCHANGED saved
  BY <1>1, NextInv, SavedSame
<1>2. CASE Save
  <2>1. UNCHANGED vars /\ saved' = Snapshot
    BY <1>2 DEF Save
  <2>2. IInv'
    BY <2>1, NextInv
  <2>3. SnapshotSound(saved')
    BY <2>1, SnapshotIsSound
  <2>4. SavedSound'
    BY <2>3 DEF SavedSound, SnapshotSound, Snapshots, GoodSlot, Streamless, Buffer, ZeroBuf
  <2> QED BY <2>2, <2>4
<1>3. CASE Load
  <2>1. UNCHANGED saved
    BY <1>3 DEF Load
  <2> QED BY <1>3, <2>1, LoadInv, SavedSame
<1>4. CASE UNCHANGED svars
  BY <1>4, NextInv, SavedSame DEF svars
<1> QED BY <1>1, <1>2, <1>3, <1>4 DEF SnapNext

LEMMA SnapInvariance == SnapSpec => [](IInv /\ SavedSound)
BY SnapInitInv, SnapNextInv, PTL DEF SnapSpec

\* Whatever is saved and loaded, and whenever, commands find open slots they
\* can seek in, a clean free bus and data phases that move.
THEOREM SnapshotsAreSound == SnapSpec => []SnapInvariants
<1>1. IInv => SnapInvariants
  BY InvSlots DEF SnapInvariants, IInv
<1> QED BY <1>1, SnapInvariance, PTL

\* A load goes on where the snapshot was taken.
Resumes ==
  Load => \A l \in Luns :
    d'[l].open => Snapshot' = [saved EXCEPT !.d = Snapshot'.d]
                  /\ [Snapshot'.d[l] EXCEPT !.wp = saved.d[l].wp] = saved.d[l]

\* Saved again, a loaded slot is the one that was loaded but for its flag.
LEMMA SavedLoadedSlot ==
  ASSUME NEW s, GoodSlot(s), Streamless(s), SlotLoaded(s, host).open
  PROVE  [SavedSlot(SlotLoaded(s, host)) EXCEPT !.wp = s.wp] = s
<1> DEFINE m == host[s.name].mode
           w == m = "ro"
           cw == m = "rw"
           y == [s EXCEPT !.wp = w, !.canWrite = cw, !.pos = 0, !.err = FALSE]
<1>1. s \in DriveOf(Images)
  BY DEF GoodSlot, Drive
<1>2. SlotLoaded(s, host) = y
  <2>1. [Closed(s) EXCEPT !.wp = FALSE].open = FALSE
    BY <1>1 DEF Closed, DriveOf
  <2>2. s.open
    BY LoadedSlot
  <2> QED BY <2>1, <2>2 DEF SlotLoaded
<1>3. s.pos = 0 /\ s.canWrite = FALSE /\ s.err = FALSE
  BY <1>1 DEF Streamless, DriveOf
<1> HIDE DEF m, w, cw
<1>4. SavedSlot(y) = [s EXCEPT !.wp = w]
  BY <1>1, <1>3 DEF SavedSlot, DriveOf
<1>5. [[s EXCEPT !.wp = w] EXCEPT !.wp = s.wp] = s
  BY <1>1 DEF DriveOf
<1> HIDE DEF y
<1> QED BY <1>2, <1>4, <1>5

LEMMA ResumesStep == IInv /\ SavedSound /\ [SnapNext]_svars => Resumes
<1> SUFFICES ASSUME SnapshotSound(saved), Load, NEW l \in Luns, d'[l].open
             PROVE  /\ Snapshot' = [saved EXCEPT !.d = Snapshot'.d]
                    /\ [Snapshot'.d[l] EXCEPT !.wp = saved.d[l].wp] = saved.d[l]
  BY DEF Resumes, SavedSound, Load
<1> DEFINE sd == [k \in Luns |-> SavedSlot(d'[k])]
<1>1. Snapshot' = [present |-> saved.present, phase |-> saved.phase,
        status |-> saved.status, cdb |-> saved.cdb, cdbIndex |-> saved.cdbIndex,
        command |-> saved.command, lun |-> saved.lun, buf |-> saved.buf,
        fillbuf |-> saved.fillbuf, bytesdone |-> saved.bytesdone,
        datalen |-> saved.datalen, secsize |-> saved.secsize,
        finalStatus |-> saved.finalStatus, d |-> sd]
  BY DEF Snapshot, Load, TransferRestored
<1>2. sd[l] = SavedSlot(d'[l])
  OBVIOUS
<1> HIDE DEF sd
<1>3. Snapshot'.d = sd
  BY <1>1
<1>4. saved \in Snapshots
  BY DEF SnapshotSound
<1>5. Snapshot' = [saved EXCEPT !.d = sd]
  BY <1>1, <1>4 DEF Snapshots
<1>6. d'[l] = SlotLoaded(saved.d[l], host)
  BY DEF Load
<1>7. [SavedSlot(d'[l]) EXCEPT !.wp = saved.d[l].wp] = saved.d[l]
  BY <1>6, SavedLoadedSlot DEF SnapshotSound
<1> QED BY <1>2, <1>3, <1>5, <1>7

\* Saving right after a load writes the file that was loaded, write protection
\* and missing images aside.
THEOREM LoadsResume == SnapSpec => LoadThenSave
<1>1. IInv /\ SavedSound /\ [SnapNext]_svars => [Resumes]_svars
  BY ResumesStep
<1>2. LoadThenSave <=> [][Resumes]_svars
  BY PTL DEF LoadThenSave, Resumes
<1> QED BY <1>1, <1>2, SnapInvariance, PTL DEF SnapSpec

\* The images in the slots, and those a load would put there, are images.
SlotHeaders ==
  /\ HeadersKept
  /\ saved # NoSnapshot =>
       \A l \in Luns : saved.d[l].open => host[saved.d[l].name].hdr.id

\* What holds until slots are exchanged, or loaded, in the midst of a WRITE.
CareInv == ~careless => WriteIsAimed /\ SlotHeaders

\* A menu call that leaves the slots as they were leaves a WRITE aimed.
LEMMA AimSameSlots == IInv /\ WriteIsAimed /\ Menu /\ UNCHANGED d => WriteIsAimed'
<1> SUFFICES ASSUME IInv, WriteIsAimed, NEW l \in Luns, NEW dr, InSlot(l, dr), d' = d
             PROVE  WriteIsAimed'
  BY DEF Menu, Remove, Attach, ToggleWriteProtect
<1>1. secsize' \in {secsize, SecSize} /\ (d[lun].open => secsize = SecSize)
  BY DEF InSlot, IInv, TypeOK, SizeKnown
<1> QED BY <1>1 DEF InSlot, WriteIsAimed, CdbPos, SeekPos

\* No step of the machine destroys a header while WRITEs are aimed.
LEMMA IdsStay ==
  IInv /\ WriteIsAimed /\ [Next]_vars =>
    \A i \in Images : host'[i].hdr.id = host[i].hdr.id
BY AimedIsSafe, ConfinedStep DEF Confining

LEMMA HeadersNext == IInv /\ WriteIsAimed /\ HeadersKept /\ Next => HeadersKept'
<1> SUFFICES ASSUME IInv, WriteIsAimed, HeadersKept, Next PROVE HeadersKept'
  OBVIOUS
<1>1. \A i \in Images : host'[i].hdr.id = host[i].hdr.id
  BY IdsStay
<1>2. \A l \in Luns : d[l].open => d[l].name \in Images /\ host[d[l].name].hdr.id
  BY DEF IInv, GoodSlots, GoodSlot, UsableSlot, Drive, DriveOf, HeadersKept
<1>3. CASE SlotsKept
  BY <1>1, <1>2, <1>3 DEF SlotsKept, KeptOrNone, SameSlot, HeadersKept
<1>4. ASSUME NEW l \in Luns, NEW x, d' = [d EXCEPT ![l] = x],
             x.open => x.name \in Images /\ host'[x.name].hdr.id
      PROVE  HeadersKept'
  <2>1. \A k \in Luns : d'[k] = IF k = l THEN x ELSE d[k]
    BY <1>4 DEF IInv, TypeOK
  <2> QED BY <1>1, <1>2, <1>4, <2>1 DEF HeadersKept
<1>5. ASSUME NEW l \in Luns, NEW i \in Images, host' \in [Images -> Image],
             InSlot(l, SlotWith(i, host', SecPerTrk, MaxHeads))
      PROVE  HeadersKept'
  <2> DEFINE x == SlotWith(i, host', SecPerTrk, MaxHeads)
  <2>1. x.open => x.name \in Images /\ host'[x.name].hdr.id
    BY <1>5, SlotWithFlags, NamesAssumption, GeometryAssumption DEF Opens
  <2>2. d' = [d EXCEPT ![l] = x]
    BY <1>5 DEF InSlot
  <2> HIDE DEF x
  <2> QED BY <1>4, <2>1, <2>2
<1>6. ASSUME NEW l \in Luns, Remove(l) PROVE HeadersKept'
  BY <1>4, <1>6, EmptyDriveType DEF Remove, InSlot
<1>7. ASSUME NEW l \in Luns, NEW i \in Images, Attach(l, i) PROVE HeadersKept'
  BY <1>5, <1>7 DEF Attach, IInv, TypeOK
<1>8. ASSUME NEW l \in Luns, ToggleWriteProtect(l) PROVE HeadersKept'
  <2>1. d[l].name \in Images
    BY <1>8 DEF ToggleWriteProtect, IInv, TypeOK, Drive, DriveOf
  <2>2. host' \in [Images -> Image]
    BY <1>8, ToggleInv DEF IInv, TypeOK
  <2> QED BY <1>5, <1>8, <2>1, <2>2 DEF ToggleWriteProtect
<1>9. CASE PowerOn
  <2> SUFFICES ASSUME NEW l \in Luns, d'[l].open PROVE host'[d'[l].name].hdr.id
    BY DEF HeadersKept
  <2> DEFINE e == [d[l] EXCEPT !.wp = FALSE, !.heads = 0, !.secs = 0]
  <2>1. d[l] \in DriveOf(Images) /\ host \in [Images -> Image]
    BY DEF IInv, TypeOK, Drive
  <2>2. e \in DriveOf(Images)
    BY <2>1 DEF DriveOf
  <2>3. d'[l] = HardImageOpen(e, host, SecPerTrk, MaxHeads) /\ host' = host
    BY <1>9 DEF PowerOn, Reopened, OmtiOpen
  <2> HIDE DEF e
  <2> QED BY <2>1, <2>2, <2>3, OpenSlotFlags, NamesAssumption, GeometryAssumption
          DEF Opens
<1>10. ASSUME NEW i \in Images, NEW m \in HostModes, HostChmod(i, m)
       PROVE  HeadersKept'
  BY <1>3, <1>10, SlotsUnchanged, StayIsKept DEF HostChmod
<1> QED BY <1>3, <1>6, <1>7, <1>8, <1>9, <1>10, GuestKeepsSlots, StayIsKept
        DEF Next, Menu, Outside

LEMMA CareInit == SnapInit => CareInv
<1> SUFFICES ASSUME SnapInit PROVE WriteIsAimed /\ SlotHeaders
  BY DEF CareInv
<1>1. WriteIsAimed
  BY AimInit DEF SnapInit
<1>2. HeadersKept
  BY WpInit DEF SnapInit, TrueSlots, TrueSlot, Opens, HeadersKept
<1> QED BY <1>1, <1>2 DEF SlotHeaders, SnapInit

LEMMA CareNext == IInv /\ SavedSound /\ CareInv /\ [SnapNext]_svars => CareInv'
<1> SUFFICES ASSUME IInv, SavedSound, CareInv, [SnapNext]_svars, ~careless'
             PROVE  WriteIsAimed' /\ SlotHeaders'
  BY DEF CareInv
<1>1. ~careless
  BY DEF SnapNext, Save, Load, svars
<1>2. WriteIsAimed /\ SlotHeaders
  BY <1>1 DEF CareInv
<1>3. saved # NoSnapshot => \A l \in Luns : saved.d[l].open => saved.d[l].name \in Images
  BY DEF SavedSound, SnapshotSound, GoodSlot, UsableSlot, Drive, DriveOf
<1>4. CASE /\ Next /\ UNCHANGED saved
           /\ careless' = (careless \/ (phase # "IDLE" /\ d' # d /\ Menu))
  <2>1. WriteIsAimed'
    <3>1. CASE Guest \/ Outside
      BY <1>2, <3>1, AimGuest
    <3>2. CASE Menu
      <4>1. phase = "IDLE" \/ d' = d
        BY <1>4, <3>2
      <4> QED BY <1>2, <3>2, <4>1, AimMenu, AimSameSlots DEF QuietMenu
    <3> QED BY <1>4, <3>1, <3>2 DEF Next
  <2>2. HeadersKept'
    BY <1>2, <1>4, HeadersNext DEF SlotHeaders
  <2>3. \A i \in Images : host'[i].hdr.id = host[i].hdr.id
    BY <1>2, <1>4, IdsStay
  <2> QED BY <1>2, <1>3, <1>4, <2>1, <2>2, <2>3 DEF SlotHeaders
<1>5. CASE Save
  <2>1. UNCHANGED vars /\ saved' = Snapshot
    BY <1>5 DEF Save
  <2>2. WriteIsAimed' /\ HeadersKept'
    BY <1>2, <2>1 DEF vars, bus, SlotHeaders, WriteIsAimed, CdbPos, SeekPos, HeadersKept
  <2>3. \A l \in Luns : /\ saved'.d[l].open = d[l].open
                        /\ saved'.d[l].name = d[l].name
    BY <2>1, SnapshotFields, SavedSlotType DEF IInv, GoodSlots
  <2>4. UNCHANGED host
    BY <2>1 DEF vars
  <2> QED BY <1>2, <2>2, <2>3, <2>4 DEF SlotHeaders, HeadersKept
<1>6. CASE Load
  <2>1. ~(phase' = "DATA_OUT" /\ command' = "WRITE")
    BY <1>6 DEF Load
  <2>2. SnapshotSound(saved) /\ UNCHANGED <<host, saved>> /\ saved # NoSnapshot
    BY <1>6 DEF Load, SavedSound
  <2>3. \A l \in Luns : d'[l].open => /\ saved.d[l].open
                                      /\ d'[l].name = saved.d[l].name
    BY <1>6, <2>2, LoadedSlot DEF Load, SnapshotSound
  <2>4. HeadersKept'
    BY <1>2, <2>2, <2>3 DEF SlotHeaders, HeadersKept
  <2> QED BY <1>2, <2>1, <2>2, <2>4 DEF WriteIsAimed, SlotHeaders
<1>7. CASE UNCHANGED svars
  BY <1>2, <1>7 DEF svars, vars, bus, SlotHeaders, WriteIsAimed, CdbPos, SeekPos,
     HeadersKept
<1> QED BY <1>4, <1>5, <1>6, <1>7 DEF SnapNext

\* A snapshot is dangerous only when it was taken while WRITE's data was
\* arriving: after any other, every WRITE is aimed at its sector and no header
\* is lost.
THEOREM OnlyWritesFragile == SnapSpec => []OnlyWritesAreFragile
<1>1. CareInv => OnlyWritesAreFragile
  BY DEF CareInv, SlotHeaders, OnlyWritesAreFragile
<1> QED BY <1>1, SnapInvariance, CareInit, CareNext, PTL DEF SnapSpec
=============================================================================
