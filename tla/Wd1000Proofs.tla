---------------------------- MODULE Wd1000Proofs ----------------------------
(***************************************************************************)
(* What the WD1000 guarantees for every set of images and slots, every     *)
(* buffer and sector size, every register value, and whether or not the    *)
(* host's I/O fails or the paths of the images change.                     *)
(***************************************************************************)
EXTENDS Wd1000Disk, HardImageProofs

USE HdrLenAssumption, NamesAssumption, GeometryAssumption

-----------------------------------------------------------------------------
(***************************************************************************)
(* Slots                                                                   *)
(***************************************************************************)
Slot == DriveOf(Images)

\* An open slot can be sought in and its stream is past the header; a closed
\* one has no name, so hard_sector never opens anything.
GoodSlot(dr) ==
  /\ dr \in Slot
  /\ dr.open => UsableSlot(dr, MaxHeads) /\ dr.pos >= HdrLen
  /\ ~dr.open => dr.name = None

GoodSlots == d \in [Units -> Slot] /\ \A u \in Units : GoodSlot(d[u])

Hosts == [Images -> Image]
Buffers == [1..BufLen -> Byte]
Statuses == {"READY", "DRQ", "ERROR"}
Kinds == {"READ", "WRITE", "SEEK", "OTHER"}

TaskfileOK ==
  /\ seccnt \in 0..255 /\ secnum \in 0..255 /\ cyl \in Nat /\ cyl < 65536
  /\ secsize \in {0} \cup SectorSizes /\ drive \in Units /\ head \in Nat

\* TypeOK but for the slots.
RegistersOK ==
  /\ host \in Hosts /\ present \in BOOLEAN
  /\ status \in Statuses /\ command \in Kinds
  /\ buf \in Buffers /\ bytesdone \in 0..BufLen

SlotInv == RegistersOK /\ TaskfileOK /\ GoodSlots

LEMMA TypesNamed ==
  /\ {Kind(op) : op \in Commands} = Kinds
  /\ SlotInv => TypeOK
<1>1. {Kind(op) : op \in Commands} = Kinds
  BY DEF Kind, Commands, Kinds
<1>2. SlotInv => TypeOK
  BY <1>1 DEF SlotInv, RegistersOK, TaskfileOK, GoodSlots, TypeOK, Hosts, Buffers,
              Statuses, Slot
<1> QED BY <1>1, <1>2

LEMMA SameTaskfile == TaskfileOK /\ UNCHANGED taskfile => TaskfileOK'
BY DEF TaskfileOK, taskfile

\* A sector fits the buffer.
LEMMA SectorFits == TaskfileOK => /\ secsize \in Nat /\ secsize \in 0..BufLen
                                  /\ BufLen \in Nat
BY RegisterAssumption DEF TaskfileOK

LEMMA OpenedGood ==
  ASSUME NEW o \in Slot, NEW n, OpenedOrNot(o, n, MaxHeads)
  PROVE  GoodSlot(o)
BY DEF OpenedOrNot, GoodSlot

LEMMA SameGood ==
  ASSUME NEW x, GoodSlot(x), NEW y \in Slot, SameSlot(x, y), y.pos >= HdrLen
  PROVE  GoodSlot(y)
BY DEF GoodSlot, SameSlot, UsableSlot

LEMMA EmptyGood == GoodSlot(EmptyDrive)
BY EmptyDriveType DEF GoodSlot, Slot

\* hard_open and trs_hard_attach leave a good slot.
LEMMA OpenGood ==
  ASSUME NEW h \in Hosts, NEW dr \in Slot
  PROVE  GoodSlot(HardImageOpen(dr, h, SecPerTrk, MaxHeads))
BY OpenSlot, OpenedGood DEF Slot, Hosts

LEMMA SlotWithGood ==
  ASSUME NEW h \in Hosts, NEW i \in Images
  PROVE  GoodSlot(SlotWith(i, h, SecPerTrk, MaxHeads))
BY SlotWithType, OpenedGood DEF Slot, Hosts

\* Replacing one slot by a good one leaves all of them good.
LEMMA SlotUpdate ==
  ASSUME GoodSlots, NEW u \in Units, NEW dr, GoodSlot(dr), d' = [d EXCEPT ![u] = dr]
  PROVE  GoodSlots'
<1>1. dr \in Slot
  BY DEF GoodSlot
<1>2. d' \in [Units -> Slot] /\ \A k \in Units : d'[k] = IF k = u THEN dr ELSE d[k]
  BY <1>1 DEF GoodSlots
<1>3. \A k \in Units : GoodSlot(d'[k])
  BY <1>2 DEF GoodSlots
<1> QED BY <1>2, <1>3 DEF GoodSlots, GoodSlot

LEMMA SameSlots == GoodSlots /\ UNCHANGED d => GoodSlots'
BY DEF GoodSlots, GoodSlot

\* The branch of hard_sector that opens a closed slot never succeeds.
LEMMA ReadySlot ==
  ASSUME SlotInv
  PROVE  /\ drive \in Units /\ GoodSlot(d[drive]) /\ GoodSlot(Ready)
         /\ Ready.open => Ready = d[drive] /\ d[drive].open
<1>1. drive \in Units /\ GoodSlot(d[drive])
  BY DEF SlotInv, GoodSlots, TaskfileOK
<1>2. CASE d[drive].open
  BY <1>1, <1>2 DEF Ready
<1>3. CASE ~d[drive].open
  <2>1. d[drive].name = None /\ d[drive] \in Slot
    BY <1>1, <1>3 DEF GoodSlot
  <2>2. Ready = Closed(d[drive])
    BY <1>3, <2>1 DEF Ready, HardOpen, HardImageOpen
  <2>3. Closed(d[drive]) \in Slot /\ Closed(d[drive]).name = None
        /\ Closed(d[drive]).open = FALSE
    BY <2>1, ClosedType DEF Slot
  <2> QED BY <1>1, <2>2, <2>3 DEF GoodSlot
<1> QED BY <1>2, <1>3

\* hard_sector moves the stream to the first cell of the addressed sector,
\* for a number counted from 0 or from 1, and changes nothing else.
LEMMA SoughtSlot ==
  ASSUME SlotInv, Addressable(Ready)
  PROVE  /\ GoodSlot(Sought) /\ SameSlot(d[drive], Sought) /\ Sought.open
         /\ Sought.name \in Images
         /\ FirstCell(d[drive]) \in Nat
         /\ Sought.pos = HdrLen + FirstCell(d[drive])
<1> DEFINE dr == d[drive]
           p == Addressed(dr)
<1>1. Ready = dr /\ dr.open /\ GoodSlot(dr) /\ dr \in Slot /\ drive \in Units
  BY ReadySlot DEF Addressable, GoodSlot
<1>2. /\ dr.secs \in Nat \ {0} /\ dr.heads \in Nat /\ dr.name \in Images
      /\ secnum <= dr.secs
  BY <1>1 DEF GoodSlot, UsableSlot, Slot, DriveOf, Addressable
<1>3. /\ secsize \in Nat /\ cyl \in Nat /\ head \in Nat /\ secnum \in Nat
  BY SectorFits DEF SlotInv, TaskfileOK
<1> DEFINE r == secnum % dr.secs
<1>4. r = (IF secnum = dr.secs THEN 0 ELSE secnum) /\ r \in Nat
  BY <1>2, <1>3, Z3
<1>5. p = SectorOffset(dr, secsize, cyl, head, r)
  BY DEF Addressed
<1> HIDE DEF r
<1>6. SectorOffset(dr, secsize, cyl, head, r) = HdrLen + FirstCell(dr)
  BY <1>4 DEF SectorOffset, FirstCell
<1>7. p \in Nat /\ p >= HdrLen
  BY <1>1, <1>3, <1>4, <1>5, SectorOffsetType DEF Slot
<1>8. FirstCell(dr) \in Nat
  <2>1. FirstCell(dr) = secsize * (((cyl * dr.heads + head) * dr.secs) + r)
    BY <1>4 DEF FirstCell
  <2>2. \A x, y \in Nat : x * y \in Nat /\ x + y \in Nat
    OBVIOUS
  <2>3. (cyl * dr.heads + head) * dr.secs \in Nat
    BY <1>2, <1>3, <2>2
  <2> QED BY <1>3, <1>4, <2>1, <2>2, <2>3
<1> HIDE DEF p
<1>9. Sought = [dr EXCEPT !.pos = p]
  BY <1>1 DEF Sought, p
<1>10. [dr EXCEPT !.pos = p] \in Slot /\ SameSlot(dr, [dr EXCEPT !.pos = p])
      /\ [dr EXCEPT !.pos = p].pos = p
  <2>1. [dr EXCEPT !.pos = p] \in Slot /\ SameSlot(dr, [dr EXCEPT !.pos = p])
    BY <1>1, <1>7, MovedSlot DEF Slot
  <2> QED BY <1>1, <2>1 DEF Slot, DriveOf
<1>11. GoodSlot([dr EXCEPT !.pos = p])
  BY <1>1, <1>7, <1>10, SameGood
<1> HIDE DEF dr
<1>12. p = HdrLen + FirstCell(dr)
  BY <1>5, <1>6
<1> QED BY <1>1, <1>2, <1>8, <1>9, <1>10, <1>11, <1>12 DEF SameSlot, dr

-----------------------------------------------------------------------------
(***************************************************************************)
(* Reset, power-on, the menu and the host                                  *)
(***************************************************************************)
LEMMA ZeroBufType == ZeroBuf \in Buffers
BY ZeroAssumption DEF ZeroBuf, Buffers

LEMMA ResetRegistersType ==
  ASSUME SlotInv, ResetRegisters, seccnt' \in 0..255
  PROVE  TaskfileOK' /\ command' \in Kinds /\ buf' \in Buffers
<1>1. 0 \in Units
  BY DEF Units
<1>2. TaskfileOK'
  BY <1>1 DEF ResetRegisters, TaskfileOK
<1> QED BY <1>2, ZeroBufType DEF ResetRegisters, Kinds

LEMMA SoftResetInv == SlotInv /\ SoftReset => SlotInv'
<1> SUFFICES ASSUME SlotInv, SoftReset PROVE SlotInv'
  OBVIOUS
<1>1. GoodSlots'
  BY SameSlots DEF SlotInv, SoftReset
<1>2. seccnt' \in 0..255 /\ ResetRegisters
  BY DEF SoftReset, SlotInv, TaskfileOK
<1>3. TaskfileOK' /\ command' \in Kinds /\ buf' \in Buffers
  BY <1>2, ResetRegistersType
<1> QED BY <1>1, <1>3 DEF SlotInv, SoftReset, RegistersOK

LEMMA OpenStatusType == \A dr : OpenStatus(dr) \in Statuses
BY DEF OpenStatus, Statuses

\* Reopening every slot, whatever they hold.
LEMMA ReopenAllGood ==
  ASSUME host \in Hosts, NEW slots \in [Units -> Slot], ReopenAll(slots)
  PROVE  GoodSlots' /\ status' \in Statuses
<1>1. \A k \in Units : GoodSlot(HardOpen(slots[k]))
  BY OpenGood DEF HardOpen
<1>2. d' = [k \in Units |-> HardOpen(slots[k])]
  BY DEF ReopenAll
<1>3. GoodSlots'
  BY <1>1, <1>2 DEF GoodSlots, GoodSlot
<1> QED BY <1>3, OpenStatusType DEF ReopenAll

LEMMA PowerOnInv == SlotInv /\ PowerOn => SlotInv'
<1> SUFFICES ASSUME SlotInv, PowerOn PROVE SlotInv'
  OBVIOUS
<1> DEFINE slots == [k \in Units |-> [d[k] EXCEPT !.wp = FALSE, !.heads = 0, !.secs = 0]]
<1>1. host \in Hosts /\ d \in [Units -> Slot]
  BY DEF SlotInv, GoodSlots, RegistersOK
<1>2. slots \in [Units -> Slot]
  BY <1>1 DEF Slot, DriveOf
<1>3. ReopenAll(slots)
  BY DEF PowerOn
<1> HIDE DEF slots
<1>4. GoodSlots' /\ status' \in Statuses
  BY <1>1, <1>2, <1>3, ReopenAllGood
<1>5. present' \in BOOLEAN
  <2>1. present' = \E k \in Units : d'[k].open
    BY DEF PowerOn
  <2>2. present' = TRUE \/ present' = FALSE
    BY <2>1, Zenon
  <2> QED BY <2>2
<1>6. /\ seccnt' \in 0..255 /\ bytesdone' = bytesdone
      /\ host' = host /\ ResetRegisters
  <2>1. seccnt' = 0 /\ bytesdone' = bytesdone /\ host' = host /\ ResetRegisters
    BY Zenon DEF PowerOn
  <2> QED BY <2>1
<1>7. TaskfileOK' /\ command' \in Kinds /\ buf' \in Buffers
  BY <1>6, ResetRegistersType
<1> QED BY <1>4, <1>5, <1>6, <1>7 DEF SlotInv, RegistersOK

LEMMA ReadWpInv == SlotInv /\ ReadWp => SlotInv'
<1> SUFFICES ASSUME SlotInv, ReadWp PROVE SlotInv'
  OBVIOUS
<1>1. host \in Hosts /\ d \in [Units -> Slot] /\ ReopenAll(d)
  BY DEF SlotInv, GoodSlots, RegistersOK, ReadWp
<1>2. GoodSlots' /\ status' \in Statuses
  BY <1>1, ReopenAllGood
<1>3. TaskfileOK'
  BY SameTaskfile DEF SlotInv, ReadWp
<1> QED BY <1>2, <1>3 DEF ReadWp, SlotInv, RegistersOK

\* What the menu and the host do to the slots and files.
LEMMA AttachInv ==
  ASSUME SlotInv, NEW u \in Units, NEW i \in Images, Attach(u, i)
  PROVE  SlotInv'
<1>1. GoodSlots'
  BY SlotWithGood, SlotUpdate DEF SlotInv, RegistersOK, Attach
<1>2. TaskfileOK'
  BY SameTaskfile DEF SlotInv, Attach
<1>3. status' \in Statuses
  BY OpenStatusType DEF Attach
<1> QED BY <1>1, <1>2, <1>3 DEF Attach, SlotInv, RegistersOK

LEMMA RemoveInv ==
  ASSUME SlotInv, NEW u \in Units, Remove(u)
  PROVE  SlotInv'
<1>1. GoodSlots'
  BY EmptyGood, SlotUpdate DEF SlotInv, Remove
<1>2. TaskfileOK'
  BY SameTaskfile DEF SlotInv, Remove
<1> QED BY <1>1, <1>2 DEF Remove, SlotInv, RegistersOK

\* trs_write_protect rewrites a header's flag and the mode, never its magic or
\* the data.
LEMMA ProtectedType ==
  ASSUME NEW f \in Image, NEW on \in BOOLEAN
  PROVE  /\ Protected(f, on) \in Image
         /\ Protected(f, on).data = f.data /\ Protected(f, on).hdr.id = f.hdr.id
BY ZenonT(40) DEF Protected, Image, Header

\* The files are what they were, but for flags and modes.
SameFiles ==
  /\ host' \in Hosts
  /\ \A i \in Images : host'[i].data = host[i].data
                       /\ host'[i].hdr.id = host[i].hdr.id

LEMMA ToggleFile ==
  ASSUME SlotInv, NEW u \in Units, ToggleWriteProtect(u)
  PROVE  d[u].name \in Images /\ SameFiles
<1>1. /\ d[u] \in Slot /\ d[u].name \in Images /\ d[u].wp \in BOOLEAN
      /\ host \in Hosts
  BY DEF SlotInv, RegistersOK, GoodSlots, ToggleWriteProtect, Slot, DriveOf
<1> DEFINE on == ~d[u].wp
           i == d[u].name
<1>2. on \in BOOLEAN
  BY <1>1
<1>3. host' = [host EXCEPT ![i] = Protected(host[i], on)]
  BY DEF ToggleWriteProtect
<1> HIDE DEF on, i
<1>4. i \in Images
  BY <1>1 DEF i
<1>5. /\ Protected(host[i], on) \in Image
      /\ Protected(host[i], on).data = host[i].data
      /\ Protected(host[i], on).hdr.id = host[i].hdr.id
  BY <1>1, <1>2, <1>4, ProtectedType DEF Hosts
<1> QED BY <1>1, <1>3, <1>4, <1>5 DEF i, Hosts, SameFiles

LEMMA ToggleInv ==
  ASSUME SlotInv, NEW u \in Units, ToggleWriteProtect(u)
  PROVE  SlotInv'
<1>1. d[u].name \in Images /\ host' \in Hosts
  BY ToggleFile DEF SameFiles
<1>2. GoodSlots'
  BY <1>1, SlotWithGood, SlotUpdate DEF SlotInv, ToggleWriteProtect
<1>3. TaskfileOK'
  BY SameTaskfile DEF SlotInv, ToggleWriteProtect
<1>4. status' \in Statuses
  BY OpenStatusType DEF ToggleWriteProtect
<1> QED BY <1>1, <1>2, <1>3, <1>4 DEF ToggleWriteProtect, SlotInv, RegistersOK

LEMMA ChmodFile ==
  ASSUME SlotInv, NEW i \in Images, NEW m \in HostModes, HostChmod(i, m)
  PROVE  SameFiles
<1>1. host \in Hosts /\ m \in {"rw", "ro", "none"}
  BY ImagesAssumption DEF SlotInv, RegistersOK
<1>2. [host[i] EXCEPT !.mode = m] \in Image
      /\ [host[i] EXCEPT !.mode = m].data = host[i].data
      /\ [host[i] EXCEPT !.mode = m].hdr = host[i].hdr
  BY <1>1 DEF Hosts, Image
<1>3. host' = [host EXCEPT ![i] = [host[i] EXCEPT !.mode = m]]
  BY DEF HostChmod
<1> QED BY <1>1, <1>2, <1>3 DEF Hosts, SameFiles

LEMMA ChmodInv ==
  ASSUME SlotInv, NEW i \in Images, NEW m \in HostModes, HostChmod(i, m)
  PROVE  SlotInv'
<1>1. GoodSlots'
  BY SameSlots DEF SlotInv, HostChmod
<1>2. TaskfileOK'
  BY SameTaskfile DEF SlotInv, HostChmod
<1>3. host' \in Hosts
  BY ChmodFile DEF SameFiles
<1> QED BY <1>1, <1>2, <1>3 DEF HostChmod, SlotInv, RegistersOK

-----------------------------------------------------------------------------
(***************************************************************************)
(* The task file and the transfers                                         *)
(***************************************************************************)
\* Either byte of the cylinder replaced leaves two bytes.
LEMMA CylinderBytes ==
  ASSUME NEW c \in Nat, c < 65536, NEW v \in Nat, v < 256
  PROVE  /\ (256 * (c \div 256)) + v \in Nat /\ (256 * (c \div 256)) + v < 65536
         /\ (c % 256) + (256 * v) \in Nat /\ (c % 256) + (256 * v) < 65536
<1>1. c \div 256 \in Nat /\ c \div 256 < 256
  BY Z3
<1>2. c % 256 \in Nat /\ c % 256 < 256
  BY Z3
<1> QED BY <1>1, <1>2

LEMMA WriteCylInv ==
  ASSUME SlotInv, NEW c \in Nat, c < 65536, WriteCyl(c)
  PROVE  SlotInv'
<1>1. GoodSlots'
  BY SameSlots DEF SlotInv, WriteCyl, SameExceptTaskfile
<1>2. TaskfileOK'
  BY DEF WriteCyl, SlotInv, TaskfileOK
<1>3. RegistersOK'
  BY DEF WriteCyl, SameExceptTaskfile, SlotInv, RegistersOK
<1> QED BY <1>1, <1>2, <1>3 DEF SlotInv

LEMMA TaskfileInv ==
  ASSUME SlotInv,
         \/ \E v \in GuestCounts : WriteSeccnt(v)
         \/ \E v \in GuestSectors : WriteSecnum(v)
         \/ \E v \in GuestCylLo : WriteCylLo(v)
         \/ \E v \in GuestCylHi : WriteCylHi(v)
         \/ \E s \in GuestSdh : WriteSdh(s)
  PROVE  SlotInv'
<1>1. ASSUME NEW v \in GuestCounts, WriteSeccnt(v) PROVE SlotInv'
  <2>1. GoodSlots' /\ v \in 0..255
    BY <1>1, SameSlots, RegisterAssumption DEF SlotInv, WriteSeccnt, SameExceptTaskfile
  <2> QED BY <1>1, <2>1 DEF WriteSeccnt, SameExceptTaskfile, SlotInv, RegistersOK, TaskfileOK
<1>2. ASSUME NEW v \in GuestSectors, WriteSecnum(v) PROVE SlotInv'
  <2>1. GoodSlots' /\ v \in 0..255
    BY <1>2, SameSlots, RegisterAssumption DEF SlotInv, WriteSecnum, SameExceptTaskfile
  <2> QED BY <1>2, <2>1 DEF WriteSecnum, SameExceptTaskfile, SlotInv, RegistersOK, TaskfileOK
<1>3. ASSUME NEW v \in GuestCylLo, WriteCylLo(v) PROVE SlotInv'
  <2>1. cyl \in Nat /\ cyl < 65536 /\ v \in Nat /\ v < 256
    BY RegisterAssumption DEF SlotInv, TaskfileOK
  <2>2. (256 * (cyl \div 256)) + v \in Nat /\ (256 * (cyl \div 256)) + v < 65536
    BY <2>1, CylinderBytes
  <2> QED BY <1>3, <2>2, WriteCylInv DEF WriteCylLo
<1>4. ASSUME NEW v \in GuestCylHi, WriteCylHi(v) PROVE SlotInv'
  <2>1. cyl \in Nat /\ cyl < 65536 /\ v \in Nat /\ v < 256
    BY RegisterAssumption DEF SlotInv, TaskfileOK
  <2>2. (cyl % 256) + (256 * v) \in Nat /\ (cyl % 256) + (256 * v) < 65536
    BY <2>1, CylinderBytes
  <2> QED BY <1>4, <2>2, WriteCylInv DEF WriteCylHi
<1>5. ASSUME NEW s \in GuestSdh, WriteSdh(s) PROVE SlotInv'
  <2>1. GoodSlots'
    BY <1>5, SameSlots DEF SlotInv, WriteSdh, SameExceptTaskfile
  <2>2. s.size \in SectorSizes /\ s.drive \in Units /\ s.head \in Nat
    BY RegisterAssumption DEF Sdh
  <2>3. TaskfileOK'
    BY <1>5, <2>2 DEF WriteSdh, SlotInv, TaskfileOK
  <2>4. RegistersOK'
    BY <1>5 DEF WriteSdh, SameExceptTaskfile, SlotInv, RegistersOK, Statuses
  <2> QED BY <2>1, <2>3, <2>4 DEF SlotInv
<1> QED BY <1>1, <1>2, <1>3, <1>4, <1>5

LEMMA DataInInv == SlotInv /\ DataIn => SlotInv'
<1> SUFFICES ASSUME SlotInv, DataIn PROVE SlotInv'
  OBVIOUS
<1>1. GoodSlots' /\ TaskfileOK'
  BY SameSlots, SameTaskfile DEF SlotInv, DataIn
<1>2. bytesdone' \in 0..BufLen
  BY SectorFits DEF SlotInv, RegistersOK, DataIn, Room
<1> QED BY <1>1, <1>2 DEF DataIn, SlotInv, RegistersOK, Statuses

\* fwrite of n bytes of b through the selected drive's open slot: the images
\* stay images, the slots good; what else changes is the drive's file, from its
\* position on.
LEMMA WriteOutcome ==
  ASSUME SlotInv, d[drive].open, NEW m \in Nat, NEW n \in 0..m, NEW b \in [1..m -> Byte],
         NEW o \in FwriteOutcomes(d[drive], host[d[drive].name], b, n, IoFaults),
         host' = [host EXCEPT ![d[drive].name] = o.file],
         d' = [d EXCEPT ![drive] = o.drive]
  PROVE  /\ host' \in Hosts /\ GoodSlots' /\ d[drive].name \in Images
         /\ SameSlot(d[drive], d'[drive])
         /\ \A i \in Images : i # d[drive].name => host'[i] = host[i]
         /\ host'[d[drive].name].hdr = host[d[drive].name].hdr
         /\ \E k \in 0..n : host'[d[drive].name]
                               = FwriteFrom(b, host[d[drive].name], d[drive].pos, k)
         /\ o.ok => host'[d[drive].name]
                     = FwriteFrom(b, host[d[drive].name], d[drive].pos, n)
<1> DEFINE dr == d[drive]
           f == host[dr.name]
<1>1. drive \in Units /\ GoodSlot(dr) /\ host \in Hosts /\ d \in [Units -> Slot]
  BY DEF SlotInv, GoodSlots, TaskfileOK, RegistersOK
<1>2. dr \in Slot /\ dr.name \in Images /\ dr.pos \in Nat /\ dr.pos >= HdrLen
  BY <1>1 DEF GoodSlot, UsableSlot, Slot, DriveOf
<1>3. f \in Image
  BY <1>1, <1>2 DEF Hosts
<1> HIDE DEF dr, f
<1>4. o \in FwriteOutcomes(dr, f, b, n, IoFaults) /\ dr \in DriveOf(Images) /\ n \in Nat
  BY <1>2 DEF Slot, dr, f
<1>5. /\ o.file \in Image /\ o.drive \in DriveOf(Images) /\ SameSlot(dr, o.drive)
      /\ o.drive.pos >= dr.pos
      /\ \E k \in 0..n : o.file = FwriteFrom(b, f, dr.pos, k)
  BY <1>3, <1>4, FwriteOutcome
<1>6. o.ok => o.file = FwriteFrom(b, f, dr.pos, n)
  BY <1>4, FwriteSucceeds
<1>7. PICK k \in 0..n : o.file = FwriteFrom(b, f, dr.pos, k)
  BY <1>5
<1>8. o.file.hdr = f.hdr
  BY <1>2, <1>3, <1>4, <1>7, FwriteFromHeader
<1>9. GoodSlot(o.drive)
  <2>1. o.drive.pos >= HdrLen
    BY <1>2, <1>5 DEF DriveOf
  <2> QED BY <1>1, <1>5, <2>1, SameGood DEF Slot, dr
<1>10. GoodSlots'
  BY <1>1, <1>9, SlotUpdate DEF SlotInv
<1>11. host' \in Hosts /\ host'[dr.name] = o.file
       /\ \A i \in Images : i # dr.name => host'[i] = host[i]
  BY <1>1, <1>2, <1>5 DEF Hosts, dr
<1>12. d'[drive] = o.drive
  BY <1>1
<1> QED BY <1>2, <1>5, <1>6, <1>8, <1>10, <1>11, <1>12 DEF dr, f

\* What hard_data_out stores.
LEMMA StoredType ==
  ASSUME SlotInv, NEW v \in GuestByte, DataOut(v)
  PROVE  bytesdone' \in 0..BufLen /\ buf' \in Buffers /\ v \in Byte
BY SectorFits, RegisterAssumption DEF SlotInv, RegistersOK, DataOut, Room, Buffers

\* The three ways a byte written to the data port can go.
SectorWritten == /\ bytesdone' = secsize /\ command = "WRITE" /\ status # "ERROR"
                 /\ d[drive].open /\ SectorOut
SectorLost == /\ bytesdone' = secsize /\ command = "WRITE" /\ status # "ERROR"
              /\ ~d[drive].open /\ status' = "READY" /\ UNCHANGED <<host, d>>
ByteStored == /\ ~(bytesdone' = secsize /\ command = "WRITE" /\ status # "ERROR")
              /\ UNCHANGED <<host, d, status>>

LEMMA DataOutWays ==
  ASSUME NEW v, DataOut(v)
  PROVE  SectorWritten \/ SectorLost \/ ByteStored
BY DEF DataOut, SectorWritten, SectorLost, ByteStored

LEMMA SectorOutcome ==
  ASSUME SlotInv, buf' \in Buffers, d[drive].open, SectorOut
  PROVE  /\ host' \in Hosts /\ GoodSlots' /\ status' \in Statuses
         /\ d[drive].name \in Images /\ SameSlot(d[drive], d'[drive])
         /\ \A i \in Images : i # d[drive].name => host'[i] = host[i]
         /\ host'[d[drive].name].hdr = host[d[drive].name].hdr
         /\ \E k \in 0..secsize : host'[d[drive].name]
                               = FwriteFrom(buf', host[d[drive].name], d[drive].pos, k)
         /\ status' = "READY" => host'[d[drive].name]
                     = FwriteFrom(buf', host[d[drive].name], d[drive].pos, secsize)
<1>1. PICK o \in FwriteOutcomes(d[drive], host[d[drive].name], buf', secsize, IoFaults) :
        /\ host' = [host EXCEPT ![d[drive].name] = o.file]
        /\ d' = [d EXCEPT ![drive] = o.drive]
        /\ status' = IF o.ok THEN "READY" ELSE "ERROR"
  BY DEF SectorOut
<1>2. BufLen \in Nat /\ secsize \in 0..BufLen /\ buf' \in [1..BufLen -> Byte]
  BY SectorFits DEF SlotInv, Buffers
<1>3. status' \in Statuses /\ (status' = "READY" => o.ok)
  BY <1>1 DEF Statuses
<1> QED BY <1>1, <1>2, <1>3, WriteOutcome, ZenonT(40)

LEMMA DataOutInv ==
  ASSUME SlotInv, NEW v \in GuestByte, DataOut(v)
  PROVE  SlotInv'
<1>1. bytesdone' \in 0..BufLen /\ buf' \in Buffers
  BY StoredType
<1>2. TaskfileOK' /\ present' = present /\ command' = command
  BY SameTaskfile DEF SlotInv, DataOut
<1>3. host' \in Hosts /\ status' \in Statuses /\ GoodSlots'
  <2>1. CASE SectorWritten
    BY <1>1, <2>1, SectorOutcome DEF SectorWritten
  <2>2. CASE SectorLost
    BY <2>2, SameSlots DEF SectorLost, SlotInv, RegistersOK, Statuses
  <2>3. CASE ByteStored
    BY <2>3, SameSlots DEF ByteStored, SlotInv, RegistersOK
  <2> QED BY <2>1, <2>2, <2>3, DataOutWays
<1> QED BY <1>1, <1>2, <1>3 DEF SlotInv, RegistersOK

-----------------------------------------------------------------------------
(***************************************************************************)
(* The commands                                                            *)
(***************************************************************************)
\* What executing a command must leave behind.
Executed ==
  /\ host' \in Hosts /\ buf' \in Buffers /\ status' \in Statuses /\ GoodSlots'
  /\ seccnt' \in 0..255 /\ cyl' \in {0, cyl}

LEMMA RefusedStep ==
  ASSUME SlotInv, SectorRefused, UNCHANGED <<seccnt, cyl>>
  PROVE  Executed
<1>1. GoodSlots'
  BY ReadySlot, SlotUpdate DEF SectorRefused, SlotInv
<1> QED BY <1>1 DEF SectorRefused, SlotInv, RegistersOK, TaskfileOK, Executed, Statuses

LEMMA PositionStep ==
  ASSUME SlotInv, NEW s \in Statuses, Position(s), UNCHANGED <<seccnt, cyl>>
  PROVE  Executed
<1>1. GoodSlots'
  BY SoughtSlot, ReadySlot, SlotUpdate DEF Position, SlotInv
<1> QED BY <1>1 DEF Position, SlotInv, RegistersOK, TaskfileOK, Executed

\* fread of the addressed sector.
LEMMA ReadOutcome ==
  ASSUME SlotInv, Read
  PROVE  /\ buf' \in Buffers /\ GoodSlots' /\ status' \in Statuses
         /\ SameSlot(d[drive], d'[drive]) /\ d[drive].open
         /\ d[drive].name \in Images
         /\ status' # "ERROR" => \A k \in 1..secsize :
              FirstCell(d[drive]) + k <= Len(host[d[drive].name].data) =>
                buf'[k] = host[d[drive].name].data[FirstCell(d[drive]) + k]
<1> DEFINE f == host[d[drive].name]
           c == FirstCell(d[drive])
<1>1. /\ GoodSlot(Sought) /\ SameSlot(d[drive], Sought) /\ Sought.open
      /\ Sought.name \in Images /\ c \in Nat /\ Sought.pos = HdrLen + c
      /\ Ready = d[drive]
  BY SoughtSlot, ReadySlot DEF Read, Addressable
<1>2. PICK o \in FreadOutcomes(Sought, host[Ready.name], buf, secsize, IoFaults) :
        /\ buf' = o.buf
        /\ d' = [d EXCEPT ![drive] = o.drive]
        /\ status' = IF o.ok THEN "DRQ" ELSE "ERROR"
  BY DEF Read
<1>3. /\ host \in Hosts /\ buf \in [1..BufLen -> Byte] /\ d \in [Units -> Slot]
      /\ drive \in Units
  BY DEF SlotInv, RegistersOK, Buffers, GoodSlots, TaskfileOK
<1>4. secsize \in 0..BufLen /\ BufLen \in Nat /\ secsize \in Nat
  BY SectorFits DEF SlotInv
<1>5. d[drive].name \in Images /\ f \in Image /\ Sought \in DriveOf(Images)
  BY <1>1, <1>3 DEF SameSlot, Hosts, GoodSlot, Slot
<1>6. o \in FreadOutcomes(Sought, f, buf, secsize, IoFaults)
  BY <1>1, <1>2
<1> HIDE DEF f, c
<1>7. /\ o.ok \in BOOLEAN /\ o.buf \in [1..BufLen -> Byte]
      /\ o.drive \in DriveOf(Images) /\ SameSlot(Sought, o.drive)
      /\ o.drive.pos >= Sought.pos
  BY <1>3, <1>4, <1>5, <1>6, FreadOutcome
<1>8. GoodSlot(o.drive)
  <2>1. o.drive.pos >= HdrLen
    BY <1>1, <1>7 DEF DriveOf
  <2> QED BY <1>1, <1>7, <2>1, SameGood DEF Slot
<1>9. GoodSlots' /\ d'[drive] = o.drive
  BY <1>2, <1>3, <1>8, SlotUpdate DEF SlotInv
<1>10. SameSlot(d[drive], d'[drive]) /\ d[drive].open
  BY <1>1, <1>7, <1>9 DEF SameSlot
<1>11. ASSUME o.ok, NEW k \in 1..secsize, c + k <= Len(f.data)
       PROVE  buf'[k] = f.data[c + k]
  <2>1. Sought.pos >= HdrLen /\ Sought.pos - HdrLen = c
    BY <1>1
  <2> QED BY <1>2, <1>3, <1>4, <1>5, <1>6, <1>11, <2>1, FreadSucceeds
<1>12. status' \in Statuses /\ (status' # "ERROR" => o.ok)
  BY <1>2 DEF Statuses
<1> QED BY <1>2, <1>5, <1>7, <1>9, <1>10, <1>11, <1>12 DEF Buffers, f, c

LEMMA ReadStep ==
  ASSUME SlotInv, Read, UNCHANGED <<seccnt, cyl>>
  PROVE  Executed
<1>1. host' = host
  BY DEF Read
<1> QED BY <1>1, ReadOutcome DEF SlotInv, RegistersOK, TaskfileOK, Executed

\* FORMAT on an open slot writes the sectors from the stream's position on.
LEMMA FormatOutcome ==
  ASSUME SlotInv, Format, d[drive].open
  PROVE  /\ host' \in Hosts /\ GoodSlots' /\ buf' \in Buffers /\ status' \in Statuses
         /\ seccnt' \in 0..255 /\ d[drive].name \in Images
         /\ \A i \in Images : i # d[drive].name => host'[i] = host[i]
         /\ host'[d[drive].name].hdr = host[d[drive].name].hdr
         /\ seccnt * secsize \in Nat
         /\ \E k \in 0..(seccnt * secsize) : \E b :
              host'[d[drive].name] = FwriteFrom(b, host[d[drive].name], d[drive].pos, k)
<1> DEFINE n == seccnt * secsize
           zeros == [k \in 1..n |-> Zero]
<1>1. n \in Nat
  BY SectorFits DEF SlotInv, TaskfileOK
<1> HIDE DEF n
<1>2. zeros \in [1..n -> Byte] /\ n \in 0..n
  BY <1>1, ZeroAssumption
<1>3. PICK o \in FwriteOutcomes(d[drive], host[d[drive].name], zeros, n, IoFaults) :
         /\ host' = [host EXCEPT ![d[drive].name] = o.file]
         /\ d' = [d EXCEPT ![drive] = o.drive]
         /\ \/ o.ok /\ seccnt' = 0 /\ status' = "READY"
            \/ ~o.ok /\ status' = "ERROR" /\ UNCHANGED seccnt
  BY DEF Format, n
<1> HIDE DEF zeros
<1>4. /\ host' \in Hosts /\ GoodSlots' /\ d[drive].name \in Images
      /\ \A i \in Images : i # d[drive].name => host'[i] = host[i]
      /\ host'[d[drive].name].hdr = host[d[drive].name].hdr
      /\ \E k \in 0..n : host'[d[drive].name]
                            = FwriteFrom(zeros, host[d[drive].name], d[drive].pos, k)
  BY <1>1, <1>2, <1>3, WriteOutcome, ZenonT(40)
<1>5. seccnt' \in 0..255 /\ status' \in Statuses
  BY <1>3 DEF SlotInv, TaskfileOK, Statuses
<1>6. buf' \in Buffers
  BY ZeroBufType DEF Format
<1>7. \E k \in 0..n : \E b :
        host'[d[drive].name] = FwriteFrom(b, host[d[drive].name], d[drive].pos, k)
  BY <1>4
<1> QED BY <1>1, <1>4, <1>5, <1>6, <1>7 DEF n

LEMMA FormatStep ==
  ASSUME SlotInv, Format, UNCHANGED cyl
  PROVE  Executed
<1>1. CASE d[drive].open
  BY <1>1, FormatOutcome DEF Executed
<1>2. CASE ~d[drive].open
  <2>1. seccnt' = 0 /\ status' = "READY" /\ UNCHANGED <<buf, host, d>>
    BY <1>2 DEF Format
  <2>2. GoodSlots'
    BY <2>1, SameSlots DEF SlotInv
  <2> QED BY <2>1, <2>2 DEF SlotInv, RegistersOK, Executed, Statuses
<1> QED BY <1>1, <1>2

LEMMA TrivialStep ==
  ASSUME SlotInv, NEW op, Trivial(op)
  PROVE  Executed
<1>1. GoodSlots'
  BY SameSlots DEF Trivial, SlotInv
<1> QED BY <1>1 DEF Trivial, SlotInv, RegistersOK, TaskfileOK, Executed, Statuses

LEMMA ExecuteStep ==
  ASSUME SlotInv, NEW op, NEW multi, Execute(op, multi)
  PROVE  Executed
<1>1. CASE Trivial(op)
  BY <1>1, TrivialStep
<1>2. CASE Format /\ UNCHANGED cyl
  BY <1>2, FormatStep
<1>3. CASE status' = "ERROR" /\ UNCHANGED <<seccnt, cyl, buf, host, d>>
  <2>1. GoodSlots'
    BY <1>3, SameSlots DEF SlotInv
  <2> QED BY <1>3, <2>1 DEF SlotInv, RegistersOK, TaskfileOK, Executed, Statuses
<1>4. CASE UNCHANGED <<seccnt, cyl>> /\ (Read \/ SectorRefused)
  BY <1>4, ReadStep, RefusedStep
<1>5. CASE UNCHANGED <<seccnt, cyl>> /\ (Position("DRQ") \/ Position("READY"))
  BY <1>5, PositionStep DEF Statuses
<1> QED BY <1>1, <1>2, <1>3, <1>4, <1>5 DEF Execute

LEMMA CommandInv ==
  ASSUME SlotInv, NEW op \in Commands, NEW multi, Command(op, multi)
  PROVE  SlotInv'
<1>1. Executed
  BY ExecuteStep DEF Command
<1>2. command' \in Kinds /\ bytesdone' \in 0..BufLen /\ present' = present
  BY TypesNamed, SectorFits DEF Command, SlotInv
<1>3. TaskfileOK'
  BY <1>1 DEF Command, Executed, SlotInv, TaskfileOK
<1> QED BY <1>1, <1>2, <1>3 DEF SlotInv, RegistersOK, Executed

-----------------------------------------------------------------------------
(***************************************************************************)
(* Type correctness                                                        *)
(***************************************************************************)
LEMMA InitInv == Init => SlotInv
<1> SUFFICES ASSUME Init PROVE SlotInv
  OBVIOUS
<1>1. host \in Hosts
  BY ImagesAssumption DEF Init, Hosts
<1>2. PICK c \in Configured :
        d = [k \in Units |-> HardOpen([EmptyDrive EXCEPT !.name = c[k]])]
  BY DEF Init
<1> DEFINE e(k) == [EmptyDrive EXCEPT !.name = c[k]]
<1>3. \A k \in Units : e(k) \in Slot
  BY EmptyDriveType DEF Slot, DriveOf, Configured
<1>4. d = [k \in Units |-> HardOpen(e(k))]
  BY <1>2
<1> HIDE DEF e
<1>5. \A k \in Units : GoodSlot(HardOpen(e(k)))
  BY <1>1, <1>3, OpenGood DEF HardOpen
<1>6. GoodSlots
  BY <1>4, <1>5 DEF GoodSlots, GoodSlot
<1>7. TaskfileOK
  <2>1. 0 \in Units
    BY DEF Units
  <2> QED BY <2>1 DEF Init, TaskfileOK
<1>8. present \in BOOLEAN
  <2>1. present = \E k \in Units : d[k].open
    BY DEF Init
  <2>2. present = TRUE \/ present = FALSE
    BY <2>1, Zenon
  <2> QED BY <2>2
<1>9. /\ status \in Statuses /\ command \in Kinds /\ buf \in Buffers
      /\ bytesdone \in 0..BufLen
  BY OpenStatusType, ZeroBufType, RegisterAssumption DEF Init, Kinds
<1> QED BY <1>1, <1>6, <1>7, <1>8, <1>9 DEF SlotInv, RegistersOK

LEMMA SlotStep == SlotInv /\ [Next]_vars => SlotInv'
<1> SUFFICES ASSUME SlotInv, [Next]_vars PROVE SlotInv'
  OBVIOUS
<1>1. CASE SoftReset \/ PowerOn \/ ReadWp \/ DataIn
  BY <1>1, SoftResetInv, PowerOnInv, ReadWpInv, DataInInv
<1>2. CASE \/ \E v \in GuestCounts : WriteSeccnt(v)
           \/ \E v \in GuestSectors : WriteSecnum(v)
           \/ \E v \in GuestCylLo : WriteCylLo(v)
           \/ \E v \in GuestCylHi : WriteCylHi(v)
           \/ \E s \in GuestSdh : WriteSdh(s)
  BY <1>2, TaskfileInv
<1>3. CASE \E op \in Commands, multi \in BOOLEAN : Command(op, multi)
  BY <1>3, CommandInv
<1>4. CASE \E v \in GuestByte : DataOut(v)
  BY <1>4, DataOutInv
<1>5. CASE \E u \in Units : Remove(u) \/ ToggleWriteProtect(u)
  BY <1>5, RemoveInv, ToggleInv
<1>6. CASE \E u \in Units, i \in Images : Attach(u, i)
  BY <1>6, AttachInv
<1>7. CASE \E i \in Images, m \in HostModes : HostChmod(i, m)
  BY <1>7, ChmodInv
<1>8. CASE UNCHANGED vars
  <2>1. GoodSlots' /\ TaskfileOK'
    BY <1>8, SameSlots, SameTaskfile DEF vars, SlotInv
  <2> QED BY <1>8, <2>1 DEF vars, SlotInv, RegistersOK
<1> QED BY <1>1, <1>2, <1>3, <1>4, <1>5, <1>6, <1>7, <1>8 DEF Next

\* Every variable keeps its type, and every open slot a geometry that no seek
\* divides by zero with, whatever the guest, the menu and the host do.
THEOREM TypeCorrect == Spec => []TypeOK
<1>1. Spec => []SlotInv
  BY InitInv, SlotStep, PTL DEF Spec
<1>2. SlotInv => TypeOK
  BY TypesNamed
<1> QED BY <1>1, <1>2, PTL

-----------------------------------------------------------------------------
(***************************************************************************)
(* Transfers                                                               *)
(***************************************************************************)
Data == host[d[drive].name].data

\* The sector asked for is in the buffer, as far as the file goes.
InPlace == \A k \in 1..secsize : req.cell + k <= Len(Data) => buf[k] = Data[req.cell + k]

\* What an undisturbed command without an error has led to.
OnCourse ==
  /\ d[drive].open /\ req.drive = drive /\ req.size = secsize /\ req.cell \in Nat
  /\ status = "DRQ" => /\ command \in {"READ", "WRITE"}
                       /\ bytesdone < secsize \/ secsize = 0
  /\ command = "SEEK" \/ (command = "WRITE" /\ status = "DRQ") =>
       d[drive].pos = HdrLen + req.cell
  /\ command = "WRITE" /\ status = "READY" =>
       bytesdone = secsize /\ req.cell + secsize <= Len(Data)
  /\ command = "READ" \/ (command = "WRITE" /\ status = "READY") => InPlace

\* The strengthening of TransferAimed and SectorInPlace: it says besides where
\* the stream stands after a SEEK, and that the registers a transfer depends on
\* still are what they were when it was asked for.
CourseInv == ~void => command # "OTHER" /\ (status # "ERROR" => OnCourse)

IInv == SlotInv /\ CourseInv

\* Nothing that OnCourse looks at has changed.
LEMMA SameCourse ==
  ASSUME CourseInv,
         UNCHANGED <<status, command, buf, bytesdone, drive, secsize, req, void>>,
         d'[drive] = d[drive], Data' = Data
  PROVE  CourseInv'
BY DEF CourseInv, OnCourse, InPlace

LEMMA DriveOpen ==
  ASSUME SlotInv, d[drive].open
  PROVE  d[drive].name \in Images /\ d[drive].pos \in Nat /\ d[drive].pos >= HdrLen
         /\ host[d[drive].name] \in Image
<1>1. drive \in Units /\ GoodSlot(d[drive]) /\ host \in Hosts
  BY DEF SlotInv, GoodSlots, TaskfileOK, RegistersOK
<1>2. d[drive].name \in Images /\ d[drive].pos \in Nat /\ d[drive].pos >= HdrLen
  BY <1>1 DEF GoodSlot, UsableSlot, Slot, DriveOf
<1> QED BY <1>1, <1>2 DEF Hosts

LEMMA TaskfileCourse ==
  ASSUME IInv, UNCHANGED <<req, void>>,
         \/ \E v \in GuestCounts : WriteSeccnt(v)
         \/ \E v \in GuestSectors : WriteSecnum(v)
         \/ \E v \in GuestCylLo : WriteCylLo(v)
         \/ \E v \in GuestCylHi : WriteCylHi(v)
  PROVE  CourseInv'
BY SameCourse DEF IInv, Data, WriteSeccnt, WriteSecnum, WriteCylLo, WriteCylHi, WriteCyl,
                  SameExceptTaskfile

LEMMA DataInCourse == IInv /\ UNCHANGED <<req, void>> /\ DataIn => CourseInv'
<1> SUFFICES ASSUME IInv, UNCHANGED <<req, void>>, DataIn, ~void
             PROVE  CourseInv'
  BY DEF CourseInv
<1>1. /\ command = "READ" /\ status # "ERROR" /\ OnCourse
      /\ status' = "READY" /\ command' = "READ"
  BY DEF DataIn, IInv, CourseInv
<1>2. UNCHANGED <<host, buf, d, drive, secsize>>
  BY DEF DataIn, taskfile
<1>3. InPlace'
  BY <1>1, <1>2 DEF OnCourse, InPlace, Data
<1> QED BY <1>1, <1>2, <1>3 DEF OnCourse, CourseInv

\* The last byte of a WRITE puts the buffer in its place.
LEMMA WrittenCourse ==
  ASSUME IInv, UNCHANGED <<req, void>>, ~void, NEW v \in GuestByte, DataOut(v),
         SectorWritten, status' = "READY"
  PROVE  OnCourse'
<1> DEFINE i == d[drive].name
           f == host[i]
           c == req.cell
<1>1. OnCourse /\ command = "WRITE" /\ SectorOut /\ bytesdone' = secsize /\ d[drive].open
  BY DEF IInv, CourseInv, SectorWritten
<1>2. UNCHANGED <<drive, secsize, command>> /\ secsize \in Nat /\ bytesdone < secsize
  BY SectorFits DEF DataOut, taskfile, Room, IInv, SlotInv
<1>3. buf' \in Buffers
  BY StoredType DEF IInv
<1>4. /\ SameSlot(d[drive], d'[drive])
      /\ host'[i] = FwriteFrom(buf', f, d[drive].pos, secsize)
  BY <1>1, <1>3, SectorOutcome DEF IInv
<1>5. f \in Image /\ d[drive].pos \in Nat /\ d[drive].pos >= HdrLen
  BY <1>1, DriveOpen DEF IInv
<1>6. bytesdone \in Nat
  BY SectorFits DEF IInv, SlotInv, RegistersOK
<1>7. status = "DRQ"
  <2>1. status \in {"READY", "DRQ"}
    BY DEF SectorWritten, IInv, SlotInv, RegistersOK, Statuses
  <2>2. status # "READY"
    BY <1>1, <1>2, <1>6 DEF OnCourse
  <2> QED BY <2>1, <2>2
<1>8. d[drive].pos = HdrLen + c /\ c \in Nat
  BY <1>1, <1>7 DEF OnCourse
<1>9. secsize \in Nat \ {0} /\ d[drive].pos - HdrLen = c
  BY <1>2, <1>6, <1>8
<1>10. /\ Len(host'[i].data) \in Nat /\ c + secsize <= Len(host'[i].data)
       /\ \A k \in 1..secsize : host'[i].data[c + k] = buf'[k]
  <2> HIDE DEF i, f, c
  <2> QED BY <1>4, <1>5, <1>9, FwriteFromPlaces
<1>11. d'[drive'].open /\ d'[drive'].name = i
  BY <1>1, <1>2, <1>4 DEF SameSlot
<1>12. Data' = host'[i].data
  BY <1>11 DEF Data
<1>13. InPlace'
  BY <1>2, <1>10, <1>12 DEF InPlace
<1> QED BY <1>1, <1>2, <1>10, <1>11, <1>12, <1>13 DEF OnCourse

LEMMA DataOutCourse ==
  ASSUME IInv, UNCHANGED <<req, void>>, command # "READ", NEW v \in GuestByte, DataOut(v)
  PROVE  CourseInv'
<1> SUFFICES ASSUME ~void, status' # "ERROR" PROVE OnCourse' /\ command' # "OTHER"
  BY DEF CourseInv, IInv, DataOut
<1>1. command # "OTHER" /\ command' = command /\ UNCHANGED <<drive, secsize>>
  BY DEF DataOut, taskfile, IInv, CourseInv
<1>2. CASE SectorWritten
  <2>1. status' = "READY"
    BY <1>2 DEF SectorWritten, SectorOut
  <2> QED BY <1>1, <1>2, <2>1, WrittenCourse
<1>3. CASE SectorLost
  BY <1>3 DEF SectorLost, IInv, CourseInv, OnCourse
<1>4. CASE ByteStored
  <2>1. status # "ERROR" /\ UNCHANGED <<host, d, status>> /\ OnCourse
    BY <1>4 DEF ByteStored, IInv, CourseInv
  <2>2. /\ bytesdone' = bytesdone + 1 /\ bytesdone < secsize /\ bytesdone \in Nat
        /\ secsize \in Nat
    BY SectorFits DEF DataOut, Room, IInv, SlotInv, RegistersOK
  <2>3. command = "WRITE" => status = "DRQ" /\ bytesdone' # secsize
    BY <1>4, <2>1, <2>2 DEF ByteStored, OnCourse, IInv, SlotInv, RegistersOK, Statuses
  <2>4. command = "SEEK" => status # "DRQ"
    BY <2>1 DEF OnCourse
  <2>5. command \in {"WRITE", "SEEK"}
    BY <1>1 DEF IInv, SlotInv, RegistersOK, Kinds
  <2>6. status = "DRQ" => bytesdone' < secsize
    BY <2>2, <2>3, <2>4, <2>5
  <2> QED BY <1>1, <2>1, <2>3, <2>4, <2>5, <2>6 DEF OnCourse
<1> QED BY <1>2, <1>3, <1>4, DataOutWays

LEMMA RemoveCourse ==
  ASSUME IInv, UNCHANGED <<req, void>>, NEW u \in Units, u # drive, Remove(u)
  PROVE  CourseInv'
<1>1. d'[drive] = d[drive] /\ UNCHANGED <<host, drive, secsize, status, command, buf, bytesdone>>
  BY DEF Remove, taskfile, IInv, SlotInv, GoodSlots
<1> QED BY <1>1, SameCourse DEF IInv, Data

LEMMA ChmodCourse ==
  ASSUME IInv, UNCHANGED <<req, void>>, NEW i \in Images, NEW m \in HostModes,
         HostChmod(i, m)
  PROVE  CourseInv'
<1>1. UNCHANGED <<d, drive, secsize, status, command, buf, bytesdone>>
  BY DEF HostChmod, taskfile
<1>2. CASE d[drive].open
  <2>1. Data' = Data
    BY <1>1, <1>2, ChmodFile, DriveOpen DEF IInv, SameFiles, Data
  <2> QED BY <1>1, <2>1, SameCourse DEF IInv
<1>3. CASE ~d[drive].open
  BY <1>1, <1>3 DEF IInv, CourseInv, OnCourse
<1> QED BY <1>2, <1>3

\* A command leaves the stream at its sector, a READ also the sector's bytes in
\* the buffer, or says that it failed.
LEMMA CommandedCourse == IInv /\ Commanded => CourseInv'
<1> SUFFICES ASSUME IInv, Commanded PROVE CourseInv'
  OBVIOUS
<1>0. CASE void' \/ status' = "ERROR"
  BY <1>0 DEF CourseInv, Commanded
<1> SUFFICES ASSUME ~void', status' # "ERROR" PROVE OnCourse' /\ command' # "OTHER"
  BY <1>0 DEF CourseInv
<1>1. PICK op \in Commands, multi \in BOOLEAN : Command(op, multi)
  BY DEF Commanded
<1>2. command' # "OTHER" /\ command' = Kind(op) /\ SlotInv
  BY <1>1 DEF Commanded, Command, IInv
<1>3. /\ op \in {"READ", "WRITE", "VERIFY", "SEEK"}
      /\ command' = IF op \in {"READ", "WRITE"} THEN op ELSE "SEEK"
  BY <1>2 DEF Kind, Commands
<1>4. /\ UNCHANGED <<drive, secsize>> /\ bytesdone' = 0 /\ Execute(op, multi)
  BY <1>1 DEF Command
<1> DEFINE c == FirstCell(d[drive])
<1>5. \/ op = "READ" /\ Read
      \/ op = "WRITE" /\ Position("DRQ")
      \/ op \in {"VERIFY", "SEEK"} /\ Position("READY")
  BY <1>3, <1>4 DEF Execute, SectorRefused
<1>6. Addressable(Ready) /\ drive \in Units /\ d[drive].open
  BY <1>2, <1>5, ReadySlot DEF Read, Position, Addressable
<1>7. /\ SameSlot(d[drive], Sought) /\ Sought.pos = HdrLen + c /\ c \in Nat
  BY <1>2, <1>6, SoughtSlot
<1>8. SameSlot(d[drive], d'[drive]) /\ host' = host
  <2>1. CASE Read
    BY <1>2, <2>1, ReadOutcome DEF Read
  <2>2. CASE Position("DRQ") \/ Position("READY")
    <3>1. d' = [d EXCEPT ![drive] = Sought] /\ host' = host
      BY <2>2 DEF Position
    <3>2. d'[drive] = Sought
      BY <1>2, <1>6, <3>1 DEF SlotInv, GoodSlots
    <3> QED BY <1>7, <3>1, <3>2
  <2> QED BY <1>5, <2>1, <2>2
<1>9. d'[drive'].open /\ d'[drive'].name = d[drive].name /\ FirstCell(d'[drive]) = c
  BY <1>4, <1>6, <1>8 DEF SameSlot, FirstCell
<1>10. req' = [drive |-> drive, size |-> secsize, cell |-> c]
  BY <1>4, <1>9 DEF Commanded
<1>11. Data' = host[d[drive].name].data
  BY <1>8, <1>9 DEF Data
<1>12. bytesdone' < secsize \/ secsize = 0
  BY <1>2, <1>4, SectorFits DEF SlotInv
<1>13. CASE op = "READ" /\ Read
  <2>1. \A k \in 1..secsize : c + k <= Len(Data') => buf'[k] = Data'[c + k]
    BY <1>2, <1>11, <1>13, ReadOutcome
  <2> HIDE DEF c
  <2>2. InPlace'
    BY <1>4, <1>10, <2>1 DEF InPlace
  <2> QED BY <1>3, <1>4, <1>7, <1>9, <1>10, <1>12, <1>13, <2>2 DEF OnCourse
<1>14. CASE op # "READ"
  <2>1. d'[drive].pos = HdrLen + c
    BY <1>2, <1>5, <1>6, <1>7, <1>14 DEF Position, SlotInv, GoodSlots
  <2>2. op = "WRITE" => status' = "DRQ"
    BY <1>5 DEF Position
  <2>3. op \in {"VERIFY", "SEEK"} => status' = "READY"
    BY <1>5 DEF Position
  <2> HIDE DEF c
  <2> QED BY <1>3, <1>4, <1>7, <1>9, <1>10, <1>12, <1>14, <2>1, <2>2, <2>3 DEF OnCourse
<1> QED BY <1>2, <1>5, <1>13, <1>14

LEMMA CourseStep == IInv /\ [DiskNext]_dvars => CourseInv'
<1> SUFFICES ASSUME IInv, [DiskNext]_dvars PROVE CourseInv'
  OBVIOUS
<1>1. CASE Harmless /\ UNCHANGED <<req, void>>
  <2>1. CASE \/ \E v \in GuestCounts : WriteSeccnt(v)
             \/ \E v \in GuestSectors : WriteSecnum(v)
             \/ \E v \in GuestCylLo : WriteCylLo(v)
             \/ \E v \in GuestCylHi : WriteCylHi(v)
    BY <1>1, <2>1, TaskfileCourse
  <2>2. CASE DataIn
    BY <1>1, <2>2, DataInCourse
  <2>3. CASE command # "READ" /\ \E v \in GuestByte : DataOut(v)
    BY <1>1, <2>3, DataOutCourse
  <2>4. CASE \E u \in Units : u # drive /\ Remove(u)
    BY <1>1, <2>4, RemoveCourse
  <2>5. CASE \E i \in Images, m \in HostModes : HostChmod(i, m)
    BY <1>1, <2>5, ChmodCourse
  <2> QED BY <1>1, <2>1, <2>2, <2>3, <2>4, <2>5 DEF Harmless
<1>2. CASE Disturbing /\ void' = TRUE /\ req' = NoRequest
  BY <1>2 DEF CourseInv
<1>3. CASE Commanded
  BY <1>3, CommandedCourse
<1>4. CASE UNCHANGED dvars
  BY <1>4, SameCourse DEF IInv, Data, dvars, vars, taskfile
<1> QED BY <1>1, <1>2, <1>3, <1>4 DEF DiskNext

\* The history changes nothing in what the controller does.
LEMMA DiskIsNext == SlotInv /\ [DiskNext]_dvars => [Next]_vars
<1> SUFFICES ASSUME SlotInv, DiskNext PROVE Next
  BY DEF dvars
<1>1. drive \in Units
  BY DEF SlotInv, TaskfileOK
<1>2. CASE Harmless
  BY <1>2 DEF Harmless, Next
<1>3. CASE Disturbing
  BY <1>1, <1>3 DEF Disturbing, Next
<1>4. CASE Commanded
  BY <1>4 DEF Commanded, Next
<1> QED BY <1>2, <1>3, <1>4 DEF DiskNext

\* The strengthened invariant holds for every set of images and slots, every
\* register value and failing host I/O.
THEOREM Invariance == DiskSpec => []IInv
<1>1. DiskInit => IInv
  BY InitInv DEF DiskInit, IInv, CourseInv
<1>2. IInv /\ [DiskNext]_dvars => IInv'
  BY SlotStep, DiskIsNext, CourseStep DEF IInv
<1> QED BY <1>1, <1>2, PTL DEF DiskSpec

\* While a request for data stands there is a byte to move, and a WRITE's
\* stream waits at the sector asked for, whatever the guest has since written
\* to the task file.
THEOREM TransferStaysAimed == DiskSpec => []TransferAimed
<1>1. IInv => TransferAimed
  BY DEF IInv, CourseInv, OnCourse, TransferAimed
<1> QED BY <1>1, Invariance, PTL

\* A READ without error holds the sector asked for, a WRITE reported done has
\* put the whole buffer there.
THEOREM SectorStaysInPlace == DiskSpec => []SectorInPlace
<1>1. IInv => SectorInPlace
  BY DEF IInv, CourseInv, OnCourse, SectorInPlace, InPlace, Contents, Data
<1> QED BY <1>1, Invariance, PTL

-----------------------------------------------------------------------------
(***************************************************************************)
(* What a step may change                                                  *)
(***************************************************************************)
\* The images are the same but for one, whose data was written to at p.
WrittenAt(i, p, n) ==
  /\ \A k \in Images : k # i => host'[k] = host[k]
  /\ host'[i].hdr.id = host[i].hdr.id
  /\ \E k \in 0..n : \E b : host'[i] = FwriteFrom(b, host[i], p, k)

\* What OnlyAddressedSector says of one step.
StepAddressed ==
  \A i \in Images :
    /\ host'[i].hdr.id = host[i].hdr.id
    /\ \A j \in 1..Len(host'[i].data) : Touched(i, j) =>
         /\ i = d[drive].name
         /\ command' = "WRITE" /\ ~void => j - req.cell \in 1..req.size
         /\ command = "SEEK" /\ ~void /\ status = "READY" =>
              j - req.cell \in 1..(seccnt * req.size)

LEMMA UntouchedStep ==
  ASSUME \A i \in Images : host'[i].data = host[i].data /\ host'[i].hdr.id = host[i].hdr.id
  PROVE  StepAddressed
BY DEF StepAddressed, Touched, ByteAt

\* Every byte a write touches lies under it.
LEMMA WrittenStep ==
  ASSUME IInv, d[drive].open, NEW n \in Nat,
         WrittenAt(d[drive].name, d[drive].pos, n), host' \in Hosts,
         NEW i \in Images, NEW j \in 1..Len(host'[i].data), Touched(i, j)
  PROVE  i = d[drive].name /\ HdrLen + j - d[drive].pos \in 1..n
<1> DEFINE f == host[d[drive].name]
           p == d[drive].pos
<1>1. i = d[drive].name
  BY DEF WrittenAt, Touched
<1>2. f \in Image /\ p \in Nat /\ p >= HdrLen
  BY DriveOpen DEF IInv
<1>3. j \in Nat \ {0}
  BY DEF Hosts, Image
<1>4. PICK k \in 0..n : \E b : host'[i] = FwriteFrom(b, f, p, k)
  BY <1>1 DEF WrittenAt
<1>5. PICK b : ByteAt(FwriteFrom(b, f, p, k), j) # ByteAt(f, j)
  BY <1>1, <1>4 DEF Touched
<1>6. k \in Nat
  OBVIOUS
<1> HIDE DEF f, p
<1>7. HdrLen + j - p \in 1..k
  BY <1>2, <1>3, <1>5, <1>6, FwriteFromStays
<1> QED BY <1>1, <1>7 DEF p

LEMMA FormatAddressed ==
  ASSUME IInv, Format, command' = "OTHER"
  PROVE  StepAddressed
<1>1. CASE ~d[drive].open
  <2>1. host' = host
    BY <1>1 DEF Format
  <2> QED BY <2>1, UntouchedStep
<1>2. CASE d[drive].open
  <2> DEFINE n == seccnt * secsize
  <2>1. /\ n \in Nat /\ host' \in Hosts
        /\ WrittenAt(d[drive].name, d[drive].pos, n)
    BY <1>2, FormatOutcome DEF IInv, WrittenAt
  <2> HIDE DEF n
  <2>2. \A i \in Images : host'[i].hdr.id = host[i].hdr.id
    BY <2>1 DEF WrittenAt
  <2>3. ASSUME NEW i \in Images, NEW j \in 1..Len(host'[i].data), Touched(i, j)
        PROVE  /\ i = d[drive].name
               /\ command = "SEEK" /\ ~void /\ status = "READY" =>
                    j - req.cell \in 1..(seccnt * req.size)
    <3>1. i = d[drive].name /\ HdrLen + j - d[drive].pos \in 1..n
      BY <1>2, <2>1, <2>3, WrittenStep
    <3>2. ASSUME command = "SEEK", ~void, status = "READY"
          PROVE  j - req.cell \in 1..(seccnt * req.size)
      <4>1. d[drive].pos = HdrLen + req.cell /\ req.cell \in Nat /\ req.size = secsize
        BY <3>2 DEF IInv, CourseInv, OnCourse
      <4>2. j \in Nat
        BY <2>1 DEF Hosts, Image
      <4>3. HdrLen + j - d[drive].pos = j - req.cell
        BY <4>1, <4>2
      <4> QED BY <3>1, <4>1, <4>3 DEF n
    <3> QED BY <3>1, <3>2
  <2> QED BY <2>2, <2>3 DEF StepAddressed
<1> QED BY <1>1, <1>2

LEMMA DataOutAddressed ==
  ASSUME IInv, NEW v \in GuestByte, DataOut(v)
  PROVE  StepAddressed
<1>1. CASE SectorLost \/ ByteStored
  <2>1. host' = host
    BY <1>1 DEF SectorLost, ByteStored
  <2> QED BY <2>1, UntouchedStep
<1>2. CASE SectorWritten
  <2>1. command = "WRITE" /\ command' = "WRITE" /\ d[drive].open /\ SectorOut
        /\ bytesdone < secsize /\ secsize \in Nat /\ bytesdone' = secsize /\ status # "ERROR"
    BY <1>2, SectorFits DEF SectorWritten, DataOut, Room, IInv, SlotInv
  <2>2. buf' \in Buffers
    BY StoredType DEF IInv
  <2>3. host' \in Hosts /\ WrittenAt(d[drive].name, d[drive].pos, secsize)
    BY <2>1, <2>2, SectorOutcome DEF IInv, WrittenAt
  <2>4. \A i \in Images : host'[i].hdr.id = host[i].hdr.id
    BY <2>3 DEF WrittenAt
  <2>5. ASSUME ~void
        PROVE  d[drive].pos = HdrLen + req.cell /\ req.cell \in Nat /\ req.size = secsize
    <3>1. OnCourse
      BY <2>1, <2>5 DEF IInv, CourseInv
    <3>2. status = "DRQ"
      <4>1. bytesdone # secsize
        BY <2>1 DEF IInv, SlotInv, RegistersOK
      <4> QED BY <2>1, <3>1, <4>1 DEF OnCourse, IInv, SlotInv, RegistersOK, Statuses
    <3> QED BY <2>1, <3>1, <3>2 DEF OnCourse
  <2>6. ASSUME NEW i \in Images, NEW j \in 1..Len(host'[i].data), Touched(i, j)
        PROVE  /\ i = d[drive].name
               /\ ~void => j - req.cell \in 1..req.size
    <3>1. i = d[drive].name /\ HdrLen + j - d[drive].pos \in 1..secsize
      BY <2>1, <2>3, <2>6, WrittenStep
    <3>2. j \in Nat
      BY <2>3 DEF Hosts, Image
    <3>3. ~void => HdrLen + j - d[drive].pos = j - req.cell
      BY <2>5, <3>2
    <3> QED BY <2>5, <3>1, <3>3
  <2> QED BY <2>1, <2>4, <2>6 DEF StepAddressed
<1> QED BY <1>1, <1>2, DataOutWays

LEMMA CommandAddressed ==
  ASSUME IInv, NEW op, NEW multi, Command(op, multi)
  PROVE  StepAddressed
<1>1. CASE op = "FORMAT" /\ Format
  BY <1>1, FormatAddressed DEF Command, Kind
<1>2. CASE ~(op = "FORMAT" /\ Format)
  <2>1. host' = host
    BY <1>2 DEF Command, Execute, Trivial, Read, Position, SectorRefused
  <2> QED BY <2>1, UntouchedStep
<1> QED BY <1>1, <1>2

LEMMA NextAddressed == IInv /\ [Next]_vars => StepAddressed
<1> SUFFICES ASSUME IInv, [Next]_vars PROVE StepAddressed
  OBVIOUS
<1>1. CASE host' = host
  BY <1>1, UntouchedStep
<1>2. CASE \E op \in Commands, multi \in BOOLEAN : Command(op, multi)
  BY <1>2, CommandAddressed
<1>3. CASE \E v \in GuestByte : DataOut(v)
  BY <1>3, DataOutAddressed
<1>4. CASE \E u \in Units : ToggleWriteProtect(u)
  BY <1>4, ToggleFile, UntouchedStep DEF IInv, SameFiles
<1>5. CASE \E i \in Images, m \in HostModes : HostChmod(i, m)
  BY <1>5, ChmodFile, UntouchedStep DEF IInv, SameFiles
<1>6. CASE SoftReset \/ PowerOn \/ ReadWp \/ DataIn
  BY <1>1, <1>6 DEF SoftReset, PowerOn, ReadWp, DataIn
<1>7. CASE \/ \E v \in GuestCounts : WriteSeccnt(v)
           \/ \E v \in GuestSectors : WriteSecnum(v)
           \/ \E v \in GuestCylLo : WriteCylLo(v)
           \/ \E v \in GuestCylHi : WriteCylHi(v)
           \/ \E s \in GuestSdh : WriteSdh(s)
  BY <1>1, <1>7 DEF WriteSeccnt, WriteSecnum, WriteCylLo, WriteCylHi, WriteCyl, WriteSdh,
                    SameExceptTaskfile
<1>8. CASE \E u \in Units : Remove(u) \/ \E i \in Images : Attach(u, i)
  BY <1>1, <1>8 DEF Remove, Attach
<1>9. CASE UNCHANGED vars
  BY <1>1, <1>9 DEF vars
<1> QED BY <1>2, <1>3, <1>4, <1>5, <1>6, <1>7, <1>8, <1>9 DEF Next

\* No step changes an image but the one in the selected drive, or any header's
\* magic; an undisturbed WRITE changes its sector alone, FORMAT after a SEEK
\* only the sectors from there on.
THEOREM WritesAreAddressed == DiskSpec => OnlyAddressedSector
<1>1. IInv /\ [DiskNext]_dvars => [StepAddressed]_dvars
  BY DiskIsNext, NextAddressed DEF IInv
<1>2. OnlyAddressedSector <=> [][StepAddressed]_dvars
  BY PTL DEF OnlyAddressedSector, StepAddressed
<1> QED BY <1>1, <1>2, Invariance, PTL DEF DiskSpec
=============================================================================
