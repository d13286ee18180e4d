------------------------------- MODULE Omti -------------------------------
(***************************************************************************)
(* The OMTI 5527 SASI controller (trs_omti.c): the bus as the guest's port *)
(* reads and writes drive it, the two drive slots, and the operations of   *)
(* the hard-disk menu and of the host on the images.  Every action is one  *)
(* call of a handler; the guest's port instructions and the menu's calls   *)
(* interleave between instructions.                                        *)
(*                                                                         *)
(* The six CDB bytes are counted one by one; what they decode to is chosen *)
(* with the last.  Buffer and file bytes are counted in units of one       *)
(* constant size, so HdrLen : SecSize is 256 : 512 = 1 : 2.                *)
(***************************************************************************)
EXTENDS HardImage

CONSTANTS Images,      \* file names of the images on the host
          Luns,        \* 0 .. TRS_OMTI_MAXDRIVES - 1
          GuestCdbs,   \* what the CDBs the guest sends may decode to
          GuestByte,   \* bytes the guest writes in a data phase
          Fill,        \* 0xE5, power-on contents of the format buffer
          CdbLen, CharLen, SecSize, BufLen,
          SecPerTrk, MaxHeads,
          InitialImages,   \* what a host file may hold when the program starts
          HostModes,       \* modes a path may be given behind its back
          IoFaults     \* {FALSE}, or BOOLEAN when host I/O may fail

ASSUME NamesAssumption == None \notin Images /\ 0 \in Luns
\* An image with more heads than sectors stops the emulator in
\* hard_image_open (HardMenu models it); no such file is offered here.
ASSUME ImagesAssumption ==
  /\ InitialImages \subseteq Image
  /\ \A f \in InitialImages : ~DividesByZero(f.hdr, SecPerTrk)
  /\ HostModes \subseteq {"rw", "ro", "none"}
ASSUME ByteAssumption == Fill \in Byte /\ GuestByte \subseteq Byte
ASSUME SizeAssumption ==
  /\ CdbLen \in Nat \ {0} /\ CharLen \in 1..BufLen
  /\ SecSize \in 1..BufLen /\ BufLen \in Nat
ASSUME GeometryAssumption == SecPerTrk \in Nat \ {0} /\ MaxHeads \in Nat \ {0}
ASSUME FaultsAssumption == IoFaults \subseteq BOOLEAN /\ FALSE \in IoFaults

Phases == {"IDLE", "CDB", "DATA_IN", "DATA_OUT", "STATUS"}
StatusBytes == {"IDLE", "DATA_OUT", "DATA_IN", "STATUS_RDY"}
Commands == {"TEST_UNIT_READY", "REZERO", "REQUEST_SENSE", "FORMAT", "READ",
             "WRITE", "SEEK", "SET_CHARACTERISTICS", "WRITE_SECTOR_BUFFER",
             "UNKNOWN"}
Cdb == [op : Commands, lun : Luns, cyl : Nat, head : Nat, sector : Nat]
ASSUME CdbAssumption == GuestCdbs \subseteq Cdb

VARIABLES
  host,         \* the images on the host
  present,      \* state.present: the card answers port reads
  phase, status,
  cdb, cdbIndex, command, lun,
  buf, fillbuf, bytesdone, datalen, secsize, finalStatus,
  d             \* state.d[]: the drive slots

bus == <<phase, status, cdb, cdbIndex, command, lun, buf, bytesdone, datalen,
         finalStatus>>
vars == <<host, present, bus, fillbuf, secsize, d>>

Buffer == [1..BufLen -> Byte]
ZeroBuf == [k \in 1..BufLen |-> Zero]
FillBuf == [k \in 1..BufLen |-> Fill]

Drive == DriveOf(Images)

TypeOK ==
  /\ host \in [Images -> Image]
  /\ present \in BOOLEAN
  /\ phase \in Phases /\ status \in StatusBytes
  /\ cdb \in Cdb /\ cdbIndex \in 0..CdbLen
  /\ command \in Commands /\ lun \in Luns
  /\ buf \in Buffer /\ fillbuf \in Buffer
  /\ bytesdone \in 0..BufLen /\ datalen \in 0..BufLen
  /\ secsize \in {0, SecSize}
  /\ finalStatus \in {"OK", "ERROR"}
  /\ d \in [Luns -> Drive]

-----------------------------------------------------------------------------
OmtiOpen(dr) == HardImageOpen(dr, host, SecPerTrk, MaxHeads)

\* Mutant: the sector buffer is not cleared.
ResetKeepsBuffer ==
  /\ phase' = "IDLE" /\ status' = "IDLE" /\ cdbIndex' = 0
  /\ command' = "TEST_UNIT_READY" /\ lun' = 0
  /\ bytesdone' = 0 /\ datalen' = 0 /\ finalStatus' = "OK"
  /\ UNCHANGED <<cdb, buf>>

\* trs_omti_init(0): the registers a reset clears; cdb, fillbuf, secsize and
\* the drives survive it.
ResetBus ==
  /\ phase' = "IDLE" /\ status' = "IDLE" /\ cdbIndex' = 0
  /\ command' = "TEST_UNIT_READY" /\ lun' = 0
  /\ bytesdone' = 0 /\ datalen' = 0 /\ finalStatus' = "OK"
  /\ buf' = ZeroBuf
  /\ UNCHANGED cdb

\* trs_omti_init(1): every configured image is opened afresh.
Reopened(l) == OmtiOpen([d[l] EXCEPT !.wp = FALSE, !.heads = 0, !.secs = 0])

PowerOn ==
  /\ ResetBus
  /\ fillbuf' = FillBuf
  /\ d' = [l \in Luns |-> Reopened(l)]
  /\ present' = \E l \in Luns : d'[l].open
  /\ secsize' = IF present' THEN SecSize ELSE secsize
  /\ UNCHANGED host

\* Mutant: the status register is left as it was.
FinishSilently(ok) ==
  /\ phase' = "STATUS" /\ UNCHANGED status
  /\ finalStatus' = IF ok THEN "OK" ELSE "ERROR"

\* omti_finish
Finish(ok) ==
  /\ phase' = "STATUS" /\ status' = "STATUS_RDY"
  /\ finalStatus' = IF ok THEN "OK" ELSE "ERROR"

\* Mutant: one byte too many is announced.
LongDataPhase(p, n) ==
  /\ phase' = p /\ status' = p /\ datalen' = n + 1
  /\ UNCHANGED finalStatus

\* A command whose data phase the guest now drives, n bytes long.
DataPhase(p, n) ==
  /\ phase' = p /\ status' = p /\ datalen' = n
  /\ UNCHANGED finalStatus

-----------------------------------------------------------------------------
\* omti_seek: a closed slot is opened first, the sector number carries into
\* the head, and only the head is bounded.
Ready(l) == IF d[l].open THEN d[l] ELSE OmtiOpen(d[l])
ReadySize(l) == IF ~d[l].open /\ Ready(l).open THEN SecSize ELSE secsize

SeekOk(l, head, sector) ==
  Ready(l).open /\ head + sector \div Ready(l).secs < Ready(l).heads

SeekPos(dr, size, cyl, head, sector) ==
  SectorOffset(dr, size, cyl, head + sector \div dr.secs, sector % dr.secs)

\* Mutant: a sector number past the track does not carry into the head.
SoughtInTrack(l, cyl, head, sector) ==
  [Ready(l) EXCEPT !.pos = SectorOffset(Ready(l), ReadySize(l), cyl, head,
                                        sector % Ready(l).secs)]

Sought(l, cyl, head, sector) ==
  [Ready(l) EXCEPT !.pos = SeekPos(Ready(l), ReadySize(l), cyl, head, sector)]

\* The refusal every addressing command shares: no image, a head out of
\* range, or fseek failing on the host.
SeekRefused(l, head, sector) ==
  /\ ~SeekOk(l, head, sector) \/ TRUE \in IoFaults
  /\ d' = [d EXCEPT ![l] = Ready(l)]
  /\ Finish(FALSE)
  /\ UNCHANGED <<buf, datalen, host, fillbuf>>

\* Mutant: fwrite's result is not looked at.
WriteOutBlindly(l, dr, b, n) ==
  \E o \in FwriteOutcomes(dr, host[dr.name], b, n, IoFaults) :
    /\ host' = [host EXCEPT ![dr.name] = o.file]
    /\ d' = [d EXCEPT ![l] = o.drive]
    /\ Finish(TRUE)

\* fwrite of n bytes of b through drive dr of slot l, then omti_finish.
WriteOut(l, dr, b, n) ==
  \E o \in FwriteOutcomes(dr, host[dr.name], b, n, IoFaults) :
    /\ host' = [host EXCEPT ![dr.name] = o.file]
    /\ d' = [d EXCEPT ![l] = o.drive]
    /\ Finish(o.ok)

ReadSector(l, cyl, head, sector) ==
  LET dr == Sought(l, cyl, head, sector)
      n == ReadySize(l)
  IN /\ SeekOk(l, head, sector)
     /\ \E o \in FreadOutcomes(dr, host[dr.name], buf, n, IoFaults) :
          /\ buf' = o.buf
          /\ d' = [d EXCEPT ![l] = o.drive]
          /\ \/ o.ok /\ DataPhase("DATA_IN", n)
             \/ ~o.ok /\ Finish(FALSE) /\ UNCHANGED datalen
     /\ UNCHANGED <<host, fillbuf>>

\* Mutant: the address is checked but the stream is not moved there.
WriteSectorUnsought(l, cyl, head, sector) ==
  /\ SeekOk(l, head, sector)
  /\ DataPhase("DATA_OUT", ReadySize(l))
  /\ UNCHANGED <<buf, host, fillbuf, d>>

WriteSector(l, cyl, head, sector) ==
  /\ SeekOk(l, head, sector)
  /\ d' = [d EXCEPT ![l] = Sought(l, cyl, head, sector)]
  /\ DataPhase("DATA_OUT", ReadySize(l))
  /\ UNCHANGED <<buf, host, fillbuf>>

FormatSector(l, cyl, head, sector) ==
  /\ SeekOk(l, head, sector)
  /\ WriteOut(l, Sought(l, cyl, head, sector), fillbuf, ReadySize(l))
  /\ UNCHANGED <<buf, datalen, fillbuf>>

Seek(l, cyl, head, sector) ==
  /\ SeekOk(l, head, sector)
  /\ d' = [d EXCEPT ![l] = Sought(l, cyl, head, sector)]
  /\ Finish(TRUE)
  /\ UNCHANGED <<buf, datalen, host, fillbuf>>

TestUnitReady(l) ==
  /\ d' = [d EXCEPT ![l] = Ready(l)]
  /\ Finish(Ready(l).open)
  /\ UNCHANGED <<buf, datalen, host, fillbuf>>

\* The commands that touch no drive.
Immediate(op) ==
  /\ \/ op = "REQUEST_SENSE" /\ Finish(TRUE) /\ UNCHANGED datalen
     \/ op = "UNKNOWN" /\ Finish(FALSE) /\ UNCHANGED datalen
     \/ op = "SET_CHARACTERISTICS" /\ DataPhase("DATA_OUT", CharLen)
     \/ op = "WRITE_SECTOR_BUFFER" /\ DataPhase("DATA_OUT", secsize)
  /\ UNCHANGED <<d, buf, host, fillbuf>>

\* omti_command, for the CDB the six bytes decode to.
Execute(c) ==
  \/ c.op = "READ" /\ ReadSector(c.lun, c.cyl, c.head, c.sector)
  \/ c.op = "WRITE" /\ WriteSector(c.lun, c.cyl, c.head, c.sector)
  \/ c.op = "FORMAT" /\ FormatSector(c.lun, c.cyl, c.head, c.sector)
  \/ c.op = "SEEK" /\ Seek(c.lun, c.cyl, c.head, c.sector)
  \/ c.op = "REZERO" /\ Seek(c.lun, 0, 0, 0)
  \/ /\ c.op \in {"READ", "WRITE", "FORMAT", "SEEK"}
     /\ SeekRefused(c.lun, c.head, c.sector)
  \/ c.op = "REZERO" /\ SeekRefused(c.lun, 0, 0)
  \/ c.op = "TEST_UNIT_READY" /\ TestUnitReady(c.lun)
  \/ Immediate(c.op)

ReopensSlot(op) == op \notin {"REQUEST_SENSE", "UNKNOWN", "SET_CHARACTERISTICS",
                              "WRITE_SECTOR_BUFFER"}

OmtiCommand(c) ==
  /\ phase = "CDB" /\ cdbIndex = CdbLen - 1
  /\ cdb' = c /\ cdbIndex' = CdbLen
  /\ command' = c.op /\ lun' = c.lun /\ bytesdone' = 0
  /\ secsize' = IF ReopensSlot(c.op) THEN ReadySize(c.lun) ELSE secsize
  /\ Execute(c)
  /\ UNCHANGED present

-----------------------------------------------------------------------------

\* trs_omti_out(TRS_OMTI_SELECT)
Select ==
  /\ phase = "IDLE"
  /\ phase' = "CDB" /\ cdbIndex' = 0 /\ status' = "DATA_OUT"
  /\ UNCHANGED <<host, present, cdb, command, lun, buf, bytesdone, datalen,
                 finalStatus, fillbuf, secsize, d>>

\* trs_omti_out(TRS_OMTI_STATUS): software reset; also the reset button.
SoftReset == ResetBus /\ UNCHANGED <<host, present, fillbuf, secsize, d>>

\* A CDB byte before the last.
CdbByte ==
  /\ phase = "CDB" /\ cdbIndex < CdbLen - 1
  /\ cdbIndex' = cdbIndex + 1
  /\ UNCHANGED <<host, present, phase, status, cdb, command, lun, buf,
                 bytesdone, datalen, finalStatus, fillbuf, secsize, d>>

\* omti_data_out in the DATA_OUT phase.
StoreByte(v) ==
  /\ phase = "DATA_OUT" /\ bytesdone < datalen
  /\ buf' = [buf EXCEPT ![bytesdone + 1] = v]
  /\ bytesdone' = bytesdone + 1

DataOutMore(v) ==
  /\ StoreByte(v) /\ bytesdone' < datalen
  /\ UNCHANGED <<host, present, phase, status, cdb, cdbIndex, command, lun,
                 datalen, finalStatus, fillbuf, secsize, d>>

\* The last byte of WRITE's data.  With no stream in the slot nothing is
\* written and the command still succeeds.
WriteLast ==
  /\ command = "WRITE"
  /\ \/ ~d[lun].open /\ Finish(TRUE) /\ UNCHANGED <<host, d>>
     \/ d[lun].open /\ WriteOut(lun, d[lun], buf', secsize)
  /\ UNCHANGED fillbuf

\* The last byte of the other two: WRITE SECTOR BUFFER copies the buffer to
\* the format buffer, SET DRIVE CHARACTERISTICS is only acknowledged.
ParameterLast ==
  /\ command # "WRITE"
  /\ fillbuf' = IF command = "WRITE_SECTOR_BUFFER"
                THEN [k \in 1..BufLen |-> IF k <= secsize THEN buf'[k]
                                                          ELSE fillbuf[k]]
                ELSE fillbuf
  /\ Finish(TRUE)
  /\ UNCHANGED <<host, d>>

DataOutLast(v) ==
  /\ StoreByte(v) /\ bytesdone' = datalen
  /\ WriteLast \/ ParameterLast
  /\ UNCHANGED <<present, cdb, cdbIndex, command, lun, datalen, secsize>>

\* trs_omti_in(TRS_OMTI_PORT) with a data byte pending; with the card absent
\* the port floats and nothing moves.
DataIn ==
  /\ present /\ phase = "DATA_IN" /\ bytesdone < datalen
  /\ bytesdone' = bytesdone + 1
  /\ IF bytesdone' = datalen
     THEN Finish(TRUE)
     ELSE UNCHANGED <<phase, status, finalStatus>>
  /\ UNCHANGED <<host, present, cdb, cdbIndex, command, lun, buf, datalen,
                 fillbuf, secsize, d>>

\* Reading the final status byte returns the bus to idle.
StatusIn == present /\ phase = "STATUS" /\ SoftReset

-----------------------------------------------------------------------------
\* trs_omti_attach: whatever the bus is doing, a successful open resets the
\* status register and the sector size.  An image is in one slot at a time.
InSlot(l, dr) ==
  /\ d' = [d EXCEPT ![l] = dr]
  /\ secsize' = IF dr.open THEN SecSize ELSE secsize
  /\ status' = IF dr.open THEN "IDLE" ELSE status
  /\ UNCHANGED <<present, phase, cdb, cdbIndex, command, lun, buf, bytesdone,
                 datalen, finalStatus, fillbuf>>

Attach(l, i) ==
  /\ \A k \in Luns \ {l} : d[k].name # i
  /\ InSlot(l, SlotWith(i, host, SecPerTrk, MaxHeads))
  /\ UNCHANGED host

\* trs_omti_remove
Remove(l) == InSlot(l, EmptyDrive) /\ UNCHANGED host

\* trs_write_protect: the slot is emptied, the header's flag and the file's
\* mode are rewritten, and the image is attached again.
ToggleWriteProtect(l) ==
  LET i == d[l].name
  IN /\ i # None /\ host[i].mode # "none"
     /\ host' = [host EXCEPT ![i] = Protected(@, ~d[l].wp)]
     /\ InSlot(l, SlotWith(i, host', SecPerTrk, MaxHeads))

\* Someone changes or withdraws the image's path outside the emulator; a
\* stream already open keeps working.
HostChmod(i, m) ==
  /\ host' = [host EXCEPT ![i].mode = m]
  /\ UNCHANGED <<present, bus, fillbuf, secsize, d>>

-----------------------------------------------------------------------------
\* Just after power-on (trs_omti_init(1)) with any images configured.
Configured == {c \in [Luns -> Images \cup {None}] :
                 \A k, l \in Luns : c[k] = c[l] /\ c[k] # None => k = l}

Init ==
  /\ host \in [Images -> InitialImages]
  /\ phase = "IDLE" /\ status = "IDLE" /\ cdbIndex = 0
  /\ cdb = [op |-> "TEST_UNIT_READY", lun |-> 0, cyl |-> 0, head |-> 0,
             sector |-> 0]
  /\ command = "TEST_UNIT_READY" /\ lun = 0
  /\ buf = ZeroBuf /\ fillbuf = FillBuf
  /\ bytesdone = 0 /\ datalen = 0 /\ finalStatus = "OK"
  /\ \E c \in Configured :
       d = [l \in Luns |-> OmtiOpen([EmptyDrive EXCEPT !.name = c[l]])]
  /\ present = \E l \in Luns : d[l].open
  /\ secsize = IF present THEN SecSize ELSE 0

\* What the guest's port instructions do.
Guest ==
  \/ Select \/ SoftReset \/ CdbByte \/ DataIn \/ StatusIn
  \/ \E c \in GuestCdbs : OmtiCommand(c)
  \/ \E v \in GuestByte : DataOutMore(v) \/ DataOutLast(v)

\* What the menu does to the slots.
Menu == \E l \in Luns : \/ Remove(l) \/ ToggleWriteProtect(l)
                        \/ \E i \in Images : Attach(l, i)

Outside == PowerOn \/ \E i \in Images, m \in HostModes : HostChmod(i, m)

Next == Guest \/ Menu \/ Outside
Spec == Init /\ [][Next]_vars

\* The same machine used as its menu is meant to be: slots change only while
\* no command is on the bus.
QuietMenu == phase = "IDLE" /\ Menu
QuietNext == Guest \/ QuietMenu \/ Outside
QuietSpec == Init /\ [][QuietNext]_vars

-----------------------------------------------------------------------------
(***************************************************************************)
(* Properties that hold whatever the menu does                             *)
(***************************************************************************)
\* A slot has a name exactly when it has an open stream, and then a geometry
\* omti_seek can divide by: the reopening branches of omti_seek and TEST UNIT
\* READY never run, and no seek divides by zero.
SlotsConsistent ==
  \A l \in Luns :
    /\ d[l].open <=> d[l].name # None
    /\ d[l].open => /\ d[l].secs > 0 /\ d[l].heads \in 1..MaxHeads
                    /\ secsize = SecSize

\* Between commands the sector buffer is all zeros and no transfer is left
\* over, so what READ returns past the end of an image is zeros and not the
\* previous sector.
IdleIsClean ==
  phase \in {"IDLE", "CDB"} => buf = ZeroBuf /\ bytesdone = 0 /\ datalen = 0

\* A card that answers never sits in a data phase with nothing left to move:
\* the guest's next byte always gets it further.
DataPhaseMoves ==
  present /\ phase \in {"DATA_IN", "DATA_OUT"} => bytesdone < datalen

\* What every command may rely on when it begins and while it lasts.
BusSound == SlotsConsistent /\ IdleIsClean /\ DataPhaseMoves

\* What the menu shows as write protection is what the image is: flagged in
\* its header or open for reading only.
WpIsTrue ==
  \A l \in Luns : d[l].open => (d[l].wp <=> host[d[l].name].hdr.wp \/ ~d[l].canWrite)

\* No command, and no mishap during one, touches an image other than the one
\* in the slot the CDB names, or changes that image's header.
Confined ==
  [][\A i \in Images :
       /\ host'[i].data # host[i].data => d[cdb'.lun].name = i
       /\ host'[i].hdr.id = host[i].hdr.id]_vars

(***************************************************************************)
(* Properties of the machine whose slots change only between commands      *)
(***************************************************************************)
StatusOf == [p \in Phases |-> CASE p = "IDLE" -> "IDLE"
                                [] p \in {"CDB", "DATA_OUT"} -> "DATA_OUT"
                                [] p = "DATA_IN" -> "DATA_IN"
                                [] p = "STATUS" -> "STATUS_RDY"]

\* The status byte the guest polls says what the controller waits for.
StatusTracksPhase == status = StatusOf[phase]

CdbPos(dr) == SeekPos(dr, secsize, cdb.cyl, cdb.head, cdb.sector)

\* While WRITE's data is arriving, the slot's stream stands at the sector
\* the CDB asked for: the position fixed when the command arrived is still
\* right when the bytes are written.
WriteIsAimed ==
  phase = "DATA_OUT" /\ command = "WRITE" =>
    d[lun].open /\ lun = cdb.lun /\ d[lun].pos = CdbPos(d[lun]) /\ datalen = SecSize

\* A step changes no byte outside the sector its CDB addresses.
OnlyAddressedSector ==
  [][\A i \in Images : \A j \in 1..Len(host'[i].data) :
       ByteAt(host'[i], j) # ByteAt(host[i], j) =>
         HdrLen + j - CdbPos(d[lun])' \in 1..SecSize]_vars

\* Toggling write protection really flips what the slot reports.
ToggleFlips ==
  [][\A l \in Luns : ToggleWriteProtect(l) => d'[l].wp = ~d[l].wp]_vars

\* Claims of the documentation that the code does not keep (see README).
\* The header stays a header: sectors are written after it.
HeadersKept == \A l \in Luns : d[l].open => host[d[l].name].hdr.id

\* A guest that moves a byte whenever the status byte asks for one.
PoliteStep ==
  \/ /\ status = "DATA_OUT"
     /\ \/ CdbByte \/ \E c \in GuestCdbs : OmtiCommand(c)
        \/ \E v \in GuestByte : DataOutMore(v) \/ DataOutLast(v)
  \/ status = "DATA_IN" /\ DataIn
  \/ status = "STATUS_RDY" /\ StatusIn

PoliteQuietSpec == QuietSpec /\ WF_vars(PoliteStep)

\* Every command such a guest starts ends with the bus idle.
CommandsComplete == present /\ phase # "IDLE" ~> phase = "IDLE"
=============================================================================
