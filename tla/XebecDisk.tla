----------------------------- MODULE XebecDisk -----------------------------
(***************************************************************************)
(* The Xebec controller implements SasiDisk: the bytes of an image after   *)
(* its header are the cells of a medium, those past the end of the file    *)
(* unwritten; a sector's length is the selecting adapter's; a command in   *)
(* whose midst the menu exchanged an image is void.                        *)
(***************************************************************************)
EXTENDS Xebec

CONSTANT Cells        \* cell numbers compared: those a DCB can reach
ASSUME CellsAssumption == Cells \subseteq Nat

VARIABLE swapped      \* history: the menu acted during the current command

dvars == <<vars, swapped>>

DiskInit == Init /\ swapped = FALSE
DiskNext ==
  \/ (Guest \/ Outside) /\ swapped' = (swapped /\ phase' # "IDLE")
  \/ Menu /\ swapped' = (swapped \/ phase # "IDLE")
DiskSpec == DiskInit /\ [][DiskNext]_dvars

StageOf == [p \in Phases |-> CASE p = "IDLE" -> "free"
                               [] p = "DCB" -> "selected"
                               [] p = "DATA_IN" -> "in"
                               [] p = "DATA_OUT" -> "out"
                               [] p = "STATUS" -> "done"]

Transferring == phase \in {"DATA_IN", "DATA_OUT"} /\ command \in {"READ", "WRITE"}

\* Sectors of the transfer under way that are behind it.
Done == IF Transferring THEN SectorCount(dcb) - blocks ELSE 0

CellAt(f, c) == IF c + 1 <= Len(f.data) THEN f.data[c + 1] ELSE None

Disk == INSTANCE SasiDisk WITH
  Drives <- Luns, Media <- Images, NoMedium <- None,
  Cell <- Byte, Unwritten <- None,
  stage <- IF swapped THEN "void" ELSE StageOf[phase],
  drive <- dcb.lun,
  addr <- secsize * (dcb.lba + Done),
  span <- secsize,
  left <- IF Transferring THEN blocks ELSE 0,
  xfer <- [k \in 1..secsize |-> buf[k]],
  result <- finalStatus,
  loaded <- [l \in Luns |-> IF d[l].open THEN d[l].name ELSE None],
  shelf <- [i \in Images |-> [c \in Cells |-> CellAt(host[i], c)]]

\* A multi-sector READ returns, and a WRITE replaces, exactly the run of
\* sectors its DCB addresses, in order, in the image of the slot it names; a
\* WRITE reported good is in the image; other images and sectors are safe.
ImplementsDisk == Disk!Spec

\* Unless the menu interferes, at every moment of a WRITE the slot's stream
\* stands where the next sector of the run belongs, whatever the geometry.
WriteIsAimed ==
  ~swapped /\ phase = "DATA_OUT" /\ command = "WRITE" =>
    /\ lun = dcb.lun /\ d[lun].open /\ datalen = secsize
    /\ d[lun].pos = HdrLen + secsize * (dcb.lba + Done)

\* Unless the menu interferes, the bus signals a guest polls show the phase.
StatusTracksPhase == ~swapped => status = phase

\* A guest that moves a byte whenever the status byte asks for one.
PoliteStep ==
  \/ status = "DCB" /\ (DcbByte \/ \E c \in GuestDcbs : XebecCommand(c))
  \/ status = "DATA_OUT" /\ \E v \in GuestByte : DataOutMore(v) \/ DataOutLast(v)
  \/ status = "DATA_IN" /\ (DataInMore \/ DataInLast)
  \/ status = "STATUS" /\ (StatusFirst \/ StatusLast)

PoliteDiskSpec == DiskSpec /\ WF_vars(PoliteStep)

\* Every command such a guest starts ends with the bus idle, unless the menu
\* exchanges an image in its midst.
CommandsComplete == present /\ phase # "IDLE" ~> phase = "IDLE" \/ swapped
=============================================================================
