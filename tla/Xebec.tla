------------------------------- MODULE Xebec -------------------------------
(***************************************************************************)
(* The Xebec S1410 SASI controller (trs_xebec.c): one bus machine behind   *)
(* two host adapters, Holte's (512-byte sectors) and the TCS Genie IIIs'   *)
(* own (256 bytes, selection by the ID on the data bus); multi-sector      *)
(* READ and WRITE at flat block addresses; a two-byte completion status.   *)
(* Every action is one call of a handler.                                  *)
(*                                                                         *)
(* The DCB bytes are counted one by one; what they decode to is chosen     *)
(* with the last.  Positions and buffers count units of one size.          *)
(***************************************************************************)
EXTENDS HardImage

CONSTANTS Images,      \* file names of the images on the host
          Luns,        \* 0 .. TRS_XEBEC_MAXDRIVES - 1, all a DCB can name
          GuestDcbs,   \* what the DCBs the guest sends may decode to
          GuestByte,   \* bytes the guest writes in a data phase
          Fill,        \* 0xE5, contents of the format buffer
          DcbLen, CharLen, SenseLen, BufLen,
          CpmSize, TcsSize,   \* XEBEC_DEFAULT_SECSIZE, TRS_XEBEC_TCS_SECSIZE
          ZeroCount,   \* 256, what a zero block count stands for
          SecPerTrk, MaxHeads,
          InitialImages,   \* what a host file may hold when the program starts
          HostModes,       \* modes a path may be given behind its back
          IoFaults     \* {FALSE}, or BOOLEAN when host I/O may fail

ASSUME NamesAssumption == None \notin Images /\ 0 \in Luns
\* No image stops the emulator when opened (HardMenu models those that do).
ASSUME ImagesAssumption ==
  /\ InitialImages \subseteq Image
  /\ \A f \in InitialImages : ~DividesByZero(f.hdr, SecPerTrk)
  /\ HostModes \subseteq {"rw", "ro", "none"}
ASSUME ByteAssumption == Fill \in Byte /\ GuestByte \subseteq Byte
ASSUME SizeAssumption ==
  /\ DcbLen \in Nat \ {0} /\ BufLen \in Nat
  /\ CharLen \in 1..BufLen /\ SenseLen \in 1..BufLen
  /\ CpmSize \in 1..BufLen /\ TcsSize \in 1..BufLen
  /\ ZeroCount \in Nat \ {0}
ASSUME GeometryAssumption == SecPerTrk \in Nat \ {0} /\ MaxHeads \in Nat \ {0}
ASSUME FaultsAssumption == IoFaults \subseteq BOOLEAN /\ FALSE \in IoFaults

Phases == {"IDLE", "DCB", "DATA_IN", "DATA_OUT", "STATUS"}
Commands == {"TEST_DRIVE_READY", "RECALIBRATE", "REQUEST_SENSE", "FORMAT",
             "READ", "WRITE", "SEEK", "INIT_DRIVE_CHAR", "READ_BUFFER",
             "WRITE_BUFFER", "UNKNOWN"}
Dcb == [op : Commands, lun : Luns, lba : Nat, count : 0..ZeroCount]
ASSUME DcbAssumption == GuestDcbs \subseteq Dcb

VARIABLES
  host,         \* the images on the host
  present,      \* state.present: the card answers port reads
  phase,
  status,       \* named by the phase whose REQ/BUSY/CD/IO bits it shows
  dcb, dcbIndex, command, lun,
  buf, bytesdone, datalen, secsize,
  blocks,       \* sectors left in the current command
  busdata,      \* bit 0 of the byte last put on the idle TCS bus
  finalStatus, statusIndex,
  d             \* state.d[]: the drive slots

bus == <<phase, status, dcb, dcbIndex, command, lun, buf, bytesdone, datalen,
         secsize, blocks, busdata, finalStatus, statusIndex>>
vars == <<host, present, bus, d>>

Buffer == [1..BufLen -> Byte]
ZeroBuf == [k \in 1..BufLen |-> Zero]
FillBuf == [k \in 1..BufLen |-> Fill]

Drive == DriveOf(Images)

TypeOK ==
  /\ host \in [Images -> Image]
  /\ present \in BOOLEAN
  /\ phase \in Phases /\ status \in Phases
  /\ dcb \in Dcb /\ dcbIndex \in 0..DcbLen
  /\ command \in Commands /\ lun \in Luns
  /\ buf \in Buffer /\ bytesdone \in 0..BufLen /\ datalen \in 0..BufLen
  /\ secsize \in {CpmSize, TcsSize}
  /\ blocks \in 0..ZeroCount /\ busdata \in BOOLEAN
  /\ finalStatus \in {"OK", "ERROR"} /\ statusIndex \in {0, 1}
  /\ d \in [Luns -> Drive]

-----------------------------------------------------------------------------
XebecOpen(dr) == HardImageOpen(dr, host, SecPerTrk, MaxHeads)

\* trs_xebec_init(0): the registers a reset clears; dcb, secsize and the
\* drives survive it.
ResetBus ==
  /\ phase' = "IDLE" /\ status' = "IDLE" /\ dcbIndex' = 0
  /\ command' = "TEST_DRIVE_READY" /\ lun' = 0
  /\ bytesdone' = 0 /\ datalen' = 0 /\ blocks' = 0 /\ busdata' = FALSE
  /\ finalStatus' = "OK" /\ statusIndex' = 0
  /\ buf' = ZeroBuf
  /\ UNCHANGED dcb

\* trs_xebec_init(1): every configured image is opened afresh.
PowerOn ==
  /\ ResetBus
  /\ d' = [l \in Luns |-> XebecOpen([d[l] EXCEPT !.wp = FALSE, !.heads = 0,
                                                 !.secs = 0])]
  /\ present' = \E l \in Luns : d'[l].open
  /\ secsize' = CpmSize
  /\ UNCHANGED host

\* xebec_finish
Finish(ok) ==
  /\ phase' = "STATUS" /\ status' = "STATUS" /\ statusIndex' = 0
  /\ finalStatus' = IF ok THEN "OK" ELSE "ERROR"

\* A command whose data phase the guest now drives, n units a sector.
DataPhase(p, n) ==
  /\ phase' = p /\ status' = p /\ datalen' = n
  /\ UNCHANGED <<finalStatus, statusIndex>>

-----------------------------------------------------------------------------
\* xebec_seek: a closed slot is opened first; the flat address is split by
\* the slot's geometry, unchecked against its capacity.
Ready(l) == IF d[l].open THEN d[l] ELSE XebecOpen(d[l])

\* Mutant: the cylinder is not divided by the heads.
SplitWithoutHeads(dr, lba) ==
  [cyl |-> lba \div dr.secs, head |-> (lba \div dr.secs) % dr.heads,
   sector |-> lba % dr.secs]

Split(dr, lba) ==
  [cyl |-> (lba \div dr.secs) \div dr.heads,
   head |-> (lba \div dr.secs) % dr.heads, sector |-> lba % dr.secs]

SeekPos(dr, lba) ==
  LET a == Split(dr, lba) IN SectorOffset(dr, secsize, a.cyl, a.head, a.sector)

Sought(l, lba) == [Ready(l) EXCEPT !.pos = SeekPos(Ready(l), lba)]

\* The refusal every addressing command shares: no image, or fseek failing.
SeekRefused(l) ==
  /\ ~Ready(l).open \/ TRUE \in IoFaults
  /\ d' = [d EXCEPT ![l] = Ready(l)]
  /\ Finish(FALSE)
  /\ UNCHANGED <<buf, datalen, host>>

\* fread of a sector into the buffer by drive dr of slot l.
Fetch(l, dr) ==
  \E o \in FreadOutcomes(dr, host[dr.name], buf, secsize, IoFaults) :
    /\ buf' = o.buf
    /\ d' = [d EXCEPT ![l] = o.drive]
    /\ \/ o.ok /\ DataPhase("DATA_IN", secsize)
       \/ ~o.ok /\ Finish(FALSE) /\ UNCHANGED datalen

Read(l, lba) ==
  /\ Ready(l).open
  /\ Fetch(l, Sought(l, lba))
  /\ UNCHANGED host

Write(l, lba) ==
  /\ Ready(l).open
  /\ d' = [d EXCEPT ![l] = Sought(l, lba)]
  /\ DataPhase("DATA_OUT", secsize)
  /\ UNCHANGED <<buf, host>>

\* FORMAT TRACK and FORMAT DRIVE alike fill the one sector addressed.
Format(l, lba) ==
  LET dr == Sought(l, lba)
  IN /\ Ready(l).open
     /\ \E o \in FwriteOutcomes(dr, host[dr.name], FillBuf, secsize, IoFaults) :
          /\ host' = [host EXCEPT ![dr.name] = o.file]
          /\ d' = [d EXCEPT ![l] = o.drive]
          /\ Finish(o.ok)
     /\ UNCHANGED <<buf, datalen>>

Seek(l, lba) ==
  /\ Ready(l).open
  /\ d' = [d EXCEPT ![l] = Sought(l, lba)]
  /\ Finish(TRUE)
  /\ UNCHANGED <<buf, datalen, host>>

TestDriveReady(l) ==
  /\ d' = [d EXCEPT ![l] = Ready(l)]
  /\ Finish(Ready(l).open)
  /\ UNCHANGED <<buf, datalen, host>>

\* The commands that touch no drive.
Immediate(op) ==
  /\ \/ /\ op = "REQUEST_SENSE" /\ DataPhase("DATA_IN", SenseLen)
        /\ buf' = [k \in 1..BufLen |-> IF k <= SenseLen THEN Zero ELSE buf[k]]
     \/ /\ op = "READ_BUFFER" /\ DataPhase("DATA_IN", secsize) /\ UNCHANGED buf
     \/ /\ op = "WRITE_BUFFER" /\ DataPhase("DATA_OUT", secsize) /\ UNCHANGED buf
     \/ /\ op = "INIT_DRIVE_CHAR" /\ DataPhase("DATA_OUT", CharLen) /\ UNCHANGED buf
     \/ op = "UNKNOWN" /\ Finish(FALSE) /\ UNCHANGED <<buf, datalen>>
  /\ UNCHANGED <<d, host>>

\* xebec_command, for the DCB the six bytes decode to.
Execute(c) ==
  \/ c.op = "READ" /\ Read(c.lun, c.lba)
  \/ c.op = "WRITE" /\ Write(c.lun, c.lba)
  \/ c.op = "FORMAT" /\ Format(c.lun, c.lba)
  \/ c.op = "SEEK" /\ Seek(c.lun, c.lba)
  \/ c.op = "RECALIBRATE" /\ Seek(c.lun, 0)
  \/ c.op \in {"READ", "WRITE", "FORMAT", "SEEK", "RECALIBRATE"} /\ SeekRefused(c.lun)
  \/ c.op = "TEST_DRIVE_READY" /\ TestDriveReady(c.lun)
  \/ Immediate(c.op)

\* Mutant: a zero count is taken as it stands.
CountAsSent(c) == c.count

\* DCB byte 4: how many sectors a READ or WRITE moves.
SectorCount(c) == IF c.count = 0 THEN ZeroCount ELSE c.count

XebecCommand(c) ==
  /\ phase = "DCB" /\ dcbIndex = DcbLen - 1
  /\ dcb' = c /\ dcbIndex' = DcbLen
  /\ command' = c.op /\ lun' = c.lun /\ bytesdone' = 0
  /\ blocks' = SectorCount(c)
  /\ Execute(c)
  /\ UNCHANGED <<present, secsize, busdata>>

-----------------------------------------------------------------------------
Selected(size) ==
  /\ phase = "IDLE"
  /\ secsize' = size
  /\ phase' = "DCB" /\ status' = "DCB" /\ dcbIndex' = 0
  /\ UNCHANGED <<host, present, dcb, command, lun, buf, bytesdone, datalen,
                 blocks, busdata, finalStatus, statusIndex, d>>

\* trs_xebec_out(TRS_XEBEC_SELECT): Holte's adapter.
Select == Selected(CpmSize)

\* trs_xebec_tcs_out(TRS_XEBEC_TCS_SEL): only when addressed as controller 0.
TcsSelect == busdata /\ Selected(TcsSize)

\* trs_xebec_tcs_out(TRS_XEBEC_TCS_DATA) while idle: the ID on the bus.
TcsData(id) ==
  /\ phase = "IDLE"
  /\ busdata' = id
  /\ UNCHANGED <<host, present, phase, status, dcb, dcbIndex, command, lun,
                 buf, bytesdone, datalen, secsize, blocks, finalStatus,
                 statusIndex, d>>

\* Software reset, bus release by either adapter, and the reset button.
SoftReset == ResetBus /\ UNCHANGED <<host, present, secsize, d>>

\* A DCB byte before the last.
DcbByte ==
  /\ phase = "DCB" /\ dcbIndex < DcbLen - 1
  /\ dcbIndex' = dcbIndex + 1
  /\ UNCHANGED <<host, present, phase, status, dcb, command, lun, buf,
                 bytesdone, datalen, secsize, blocks, busdata, finalStatus,
                 statusIndex, d>>

\* xebec_data_out in the DATA_OUT phase.
StoreByte(v) ==
  /\ phase = "DATA_OUT" /\ bytesdone < datalen
  /\ buf' = [buf EXCEPT ![bytesdone + 1] = v]

DataOutMore(v) ==
  /\ StoreByte(v)
  /\ bytesdone' = bytesdone + 1 /\ bytesdone' < datalen
  /\ UNCHANGED <<host, present, phase, status, dcb, dcbIndex, command, lun,
                 datalen, secsize, blocks, busdata, finalStatus, statusIndex, d>>

\* After a sector of WRITE: the data phase stays open for the next one.
BlockStored ==
  /\ blocks' = blocks - 1
  /\ IF blocks' > 0
     THEN bytesdone' = 0 /\ UNCHANGED <<phase, status, finalStatus, statusIndex>>
     ELSE bytesdone' = datalen /\ Finish(TRUE)

\* Mutant: a sector the host refused is passed over.
SectorWrittenBlindly ==
  \E o \in FwriteOutcomes(d[lun], host[d[lun].name], buf', secsize, IoFaults) :
    /\ host' = [host EXCEPT ![d[lun].name] = o.file]
    /\ d' = [d EXCEPT ![lun] = o.drive]
    /\ BlockStored

\* The sector is written where the stream stands.
SectorWritten ==
  \E o \in FwriteOutcomes(d[lun], host[d[lun].name], buf', secsize, IoFaults) :
    /\ host' = [host EXCEPT ![d[lun].name] = o.file]
    /\ d' = [d EXCEPT ![lun] = o.drive]
    /\ \/ o.ok /\ BlockStored
       \/ ~o.ok /\ Finish(FALSE) /\ bytesdone' = datalen /\ UNCHANGED blocks

\* The last byte of a sector, or of parameters, which are only acknowledged.
\* With no stream in the slot a sector is dropped and taken for written.
DataOutLast(v) ==
  /\ StoreByte(v) /\ bytesdone + 1 = datalen
  /\ \/ command = "WRITE" /\ d[lun].open /\ SectorWritten
     \/ command = "WRITE" /\ ~d[lun].open /\ BlockStored /\ UNCHANGED <<host, d>>
     \/ /\ command # "WRITE" /\ bytesdone' = datalen /\ Finish(TRUE)
        /\ UNCHANGED <<host, d, blocks>>
  /\ UNCHANGED <<present, dcb, dcbIndex, command, lun, datalen, secsize, busdata>>

\* A data byte read before the last of its sector; with the card absent the
\* port floats and nothing moves.
DataInMore ==
  /\ present /\ phase = "DATA_IN" /\ bytesdone + 1 < datalen
  /\ bytesdone' = bytesdone + 1
  /\ UNCHANGED <<host, present, phase, status, dcb, dcbIndex, command, lun, buf,
                 datalen, secsize, blocks, busdata, finalStatus, statusIndex, d>>

\* READ goes on: the buffer is filled from where the stream stands.  With no
\* stream in the slot the sector before is sent again.
NextSector ==
  \/ /\ d[lun].open
     /\ \E o \in FreadOutcomes(d[lun], host[d[lun].name], buf, secsize, IoFaults) :
          /\ buf' = o.buf
          /\ d' = [d EXCEPT ![lun] = o.drive]
          /\ \/ /\ o.ok /\ bytesdone' = 0
                /\ UNCHANGED <<phase, status, finalStatus, statusIndex>>
             \/ ~o.ok /\ bytesdone' = datalen /\ Finish(FALSE)
     /\ UNCHANGED datalen
  \/ /\ ~d[lun].open /\ bytesdone' = 0
     /\ UNCHANGED <<phase, status, finalStatus, statusIndex, buf, datalen, d>>

\* Mutant: the sectors of a READ are not counted down.
DataInUncounted ==
  /\ present /\ phase = "DATA_IN" /\ bytesdone + 1 = datalen
  /\ \/ command = "READ" /\ NextSector
     \/ /\ command # "READ"
        /\ bytesdone' = datalen /\ Finish(TRUE) /\ UNCHANGED <<buf, datalen, d>>
  /\ UNCHANGED <<host, present, dcb, dcbIndex, command, lun, secsize, blocks, busdata>>

\* The last data byte of a sector, of sense bytes or of the buffer.
DataInLast ==
  /\ present /\ phase = "DATA_IN" /\ bytesdone + 1 = datalen
  /\ blocks' = IF command = "READ" THEN blocks - 1 ELSE blocks
  /\ \/ command = "READ" /\ blocks' > 0 /\ NextSector
     \/ /\ command = "READ" => blocks' <= 0
        /\ bytesdone' = datalen /\ Finish(TRUE) /\ UNCHANGED <<buf, datalen, d>>
  /\ UNCHANGED <<host, present, dcb, dcbIndex, command, lun, secsize, busdata>>

\* The first of the two status bytes carries the result.
StatusFirst ==
  /\ present /\ phase = "STATUS" /\ statusIndex = 0
  /\ statusIndex' = 1
  /\ UNCHANGED <<host, present, phase, status, dcb, dcbIndex, command, lun, buf,
                 bytesdone, datalen, secsize, blocks, busdata, finalStatus, d>>

\* Reading the second returns the bus to idle.
StatusLast == present /\ phase = "STATUS" /\ statusIndex = 1 /\ SoftReset

-----------------------------------------------------------------------------
\* trs_xebec_attach and trs_xebec_remove: a successful open resets the status
\* register, whatever the bus is doing.  An image is in one slot at a time.
InSlot(l, dr) ==
  /\ d' = [d EXCEPT ![l] = dr]
  /\ status' = IF dr.open THEN "IDLE" ELSE status
  /\ UNCHANGED <<present, phase, dcb, dcbIndex, command, lun, buf, bytesdone,
                 datalen, secsize, blocks, busdata, finalStatus, statusIndex>>

Attach(l, i) ==
  /\ \A k \in Luns \ {l} : d[k].name # i
  /\ InSlot(l, SlotWith(i, host, SecPerTrk, MaxHeads))
  /\ UNCHANGED host

Remove(l) == InSlot(l, EmptyDrive) /\ UNCHANGED host

\* trs_write_protect: the slot is emptied, the header's flag and the file's
\* mode are rewritten, and the image is attached again.
ToggleWriteProtect(l) ==
  LET i == d[l].name
  IN /\ i # None /\ host[i].mode # "none"
     /\ host' = [host EXCEPT ![i] = Protected(@, ~d[l].wp)]
     /\ InSlot(l, SlotWith(i, host', SecPerTrk, MaxHeads))

\* Someone changes or withdraws the image's path outside the emulator.
HostChmod(i, m) ==
  /\ host' = [host EXCEPT ![i].mode = m]
  /\ UNCHANGED <<present, bus, d>>

-----------------------------------------------------------------------------
\* Just after power-on with any images configured.
Configured == {c \in [Luns -> Images \cup {None}] :
                 \A k, l \in Luns : c[k] = c[l] /\ c[k] # None => k = l}

Init ==
  /\ host \in [Images -> InitialImages]
  /\ phase = "IDLE" /\ status = "IDLE" /\ dcbIndex = 0
  /\ dcb = [op |-> "TEST_DRIVE_READY", lun |-> 0, lba |-> 0, count |-> 0]
  /\ command = "TEST_DRIVE_READY" /\ lun = 0
  /\ buf = ZeroBuf /\ bytesdone = 0 /\ datalen = 0 /\ blocks = 0
  /\ busdata = FALSE /\ finalStatus = "OK" /\ statusIndex = 0
  /\ secsize = CpmSize
  /\ \E c \in Configured :
       d = [l \in Luns |-> XebecOpen([EmptyDrive EXCEPT !.name = c[l]])]
  /\ present = \E l \in Luns : d[l].open

Guest ==
  \/ Select \/ TcsSelect \/ SoftReset \/ DcbByte
  \/ DataInMore \/ DataInLast \/ StatusFirst \/ StatusLast
  \/ \E id \in BOOLEAN : TcsData(id)
  \/ \E c \in GuestDcbs : XebecCommand(c)
  \/ \E v \in GuestByte : DataOutMore(v) \/ DataOutLast(v)

Menu == \E l \in Luns : \/ Remove(l) \/ ToggleWriteProtect(l)
                        \/ \E i \in Images : Attach(l, i)

Outside == PowerOn \/ \E i \in Images, m \in HostModes : HostChmod(i, m)

Next == Guest \/ Menu \/ Outside
Spec == Init /\ [][Next]_vars

-----------------------------------------------------------------------------
\* A slot has a name exactly when it has an open stream, and then a geometry
\* xebec_seek can divide by: its reopening branch never runs.
SlotsConsistent ==
  \A l \in Luns : /\ d[l].open <=> d[l].name # None
                  /\ d[l].open => d[l].secs > 0 /\ d[l].heads \in 1..MaxHeads

\* Between commands nothing is left over: neither data, nor a count of bytes
\* or sectors, nor half of a status report.
BusIsClean ==
  phase \in {"IDLE", "DCB"} =>
    buf = ZeroBuf /\ bytesdone = 0 /\ datalen = 0 /\ blocks = 0 /\ statusIndex = 0

\* A data phase always has a byte, and a READ or WRITE a sector, left to move:
\* the sector count never runs below zero and wraps into an endless transfer.
TransferMoves ==
  phase \in {"DATA_IN", "DATA_OUT"} =>
    bytesdone < datalen /\ (command \in {"READ", "WRITE"} => blocks > 0)

\* What every command may rely on when it begins and while it lasts.
BusSound == SlotsConsistent /\ BusIsClean /\ TransferMoves

\* No command touches an image other than the one in the slot its DCB names,
\* or changes that image's header, even with images exchanged in its midst.
Confined ==
  [][\A i \in Images :
       /\ host'[i].data # host[i].data => d[dcb'.lun].name = i
       /\ host'[i].hdr.id = host[i].hdr.id]_vars
=============================================================================
