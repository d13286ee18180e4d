--------------------------------- MODULE Fdc --------------------------------
(***************************************************************************)
(* The floppy controller (trs_disk.c): one command at a time, its bytes    *)
(* passed through the data register, its end told by a scheduled event.    *)
(* s.fdc is the selected chip:                                             *)
(*                                                                         *)
(*   status  bits of the status register; FAIL stands for NOTFOUND,        *)
(*           WRITEPRT and WRITEFLT alike                                   *)
(*   cmd     currcommand          left    bytecount, never below zero      *)
(*   fmt     a track is being formatted (format # FMT_DONE)                *)
(*   drive   curdrive             motor   the motor has not timed out      *)
(*                                                                         *)
(* and s.disk[d] = [file, type, wp] is drive d: whether an image is open,  *)
(* its format, its write protection.  Where the head is and what the       *)
(* tracks hold decides only whether a sector is found, and that is chosen  *)
(* with the command.  The bits of type I commands other than BUSY, and     *)
(* NOTRDY, CRCERR and the record type, are left out: nothing is decided by *)
(* them.  Real floppy drives, doublers (a second chip on a Model I) and    *)
(* the clones' registers are not modelled.                                 *)
(***************************************************************************)
EXTENDS Events

CONSTANTS LastDrive,     \* NDRIVES - 1
          SectorLen, IdLen, TrackLen    \* bytes that READ and WRITE, READADR
                                        \* and the track commands pass

Drives == 0..LastDrive
ASSUME FdcAssumption ==
  /\ LastDrive \in Nat
  /\ {SectorLen, IdLen, TrackLen} \subseteq Nat \ {0}

DiskTypes == {"NONE", "JV1", "JV3", "DMK"}
Disk == [file : BOOLEAN, type : DiskTypes, wp : BOOLEAN]

Bits == {"BUSY", "DRQ", "LOST", "FAIL"}
TypeI == {"RESTORE", "SEEK", "STEP"}
Transfers == {"READ", "WRITE", "READADR", "READTRK", "WRITETRK"}
Commands == TypeI \cup Transfers \cup {"READM", "WRITEM", "FORCEINT"}

FdcState == [status : SUBSET Bits, cmd : Commands, left : Nat, fmt : BOOLEAN,
             drive : Drives, motor : BOOLEAN]

\* trs_disk_init; with the power the drives without a file forget.
FdcStart == [status |-> {}, cmd |-> "RESTORE", left |-> 0, fmt |-> FALSE,
             drive |-> 0, motor |-> FALSE]
FdcReset(s, poweron) ==
  [Cancel(s) EXCEPT
     !.fdc = FdcStart,
     !.disk = [d \in Drives |-> IF poweron /\ ~@[d].file
                                THEN [@[d] EXCEPT !.type = "NONE"] ELSE @[d]]]

Selected(s) == s.disk[s.fdc.drive]

\* A call on a file that is not open ends the emulator.
Crash(s) == [s EXCEPT !.alive = FALSE]

\* trs_disk_unimpl: complains, and ends the command at the end of this
\* instruction.
Unimpl(s) ==
  Schedule([s EXCEPT !.fdc.status = {"FAIL"}, !.fdc.left = 0, !.fdc.fmt = FALSE],
           "done", "none", TRUE)

\* trs_disk_motoroff and the NMI it asks for, when the timer finds the motor
\* stopped: a command that waits for the guest is ended with LOSTDATA.
MotorStops(s) ==
  LET aborts == s.fdc.cmd \notin TypeI \cup {"FORCEINT"} /\ "DRQ" \in s.fdc.status
      off == [s EXCEPT !.fdc.motor = FALSE]
  IN  MotoroffInterrupt(
        IF aborts
        THEN [off EXCEPT !.fdc.status = (@ \cup {"LOST"}) \ {"BUSY", "DRQ"},
                         !.fdc.left = 0]
        ELSE off, TRUE)
MotorTurns(s) == MotoroffInterrupt(s, FALSE)

-----------------------------------------------------------------------------
(* Selecting a drive.                                                      *)

\* With WAIT set a Model III halts until a pending event is due, so it runs
\* now; lostdata would never come in time.
WaitForEvent(s) == IF s.ev.f # "lostdata" THEN DoEvent(s) ELSE s

\* trs_disk_select_write; a drive code of none or of several selects nothing.
Select(s, drive, wait) ==
  LET w == IF wait /\ s.model > 1 THEN WaitForEvent(s) ELSE s IN
  MotoroffInterrupt([w EXCEPT !.fdc.drive = drive, !.fdc.motor = TRUE], FALSE)
SelectNone(s, wait) == IF wait /\ s.model > 1 THEN WaitForEvent(s) ELSE s
SelectBogus(s, wait) == Unimpl(SelectNone(s, wait))

\* trs_disk_status_read: reading the status takes the interrupt back.
DiskStatusRead(s) == IntrqInterrupt(s, FALSE)

-----------------------------------------------------------------------------
(* The data register.                                                      *)

\* The last byte has passed: no more DRQ, lostdata is called off, done follows.
Finish(s) ==
  LET rest == [s EXCEPT !.fdc.status = @ \ {"DRQ"}] IN
  Schedule(IF rest.ev.f = "lostdata" THEN Cancel(rest) ELSE rest,
           "done", "none", FALSE)

Passed(s, n) == [s EXCEPT !.fdc.left = IF @ > n THEN @ - n ELSE 0]

\* JV1 and JV3 data comes from the file, DMK data from the track buffer.
ReadByte(s) ==
  LET p == Passed(s, 1) IN
  IF s.fdc.cmd # "READTRK" /\ s.fdc.left = 0 THEN s
  ELSE IF s.fdc.cmd = "READ" /\ Selected(s).type # "DMK" /\ ~Selected(s).file
  THEN Crash(s)
  ELSE IF p.fdc.left = 0 THEN Finish(p) ELSE p

DataRead(s) ==
  IF s.fdc.cmd \in {"READ", "READADR", "READTRK"} /\ "DRQ" \in s.fdc.status
  THEN ReadByte(s) ELSE s

\* WRITE does not look at DRQ, only at the count; the byte goes to the file of
\* the drive selected now.  ok: the host takes it.
Fault(s, ok) == IF ok THEN s ELSE [s EXCEPT !.fdc.status = @ \cup {"FAIL"}]
WriteByte(s, ok) ==
  LET p == Fault(Passed(s, 1), ok) IN
  IF s.fdc.left = 0 THEN s
  ELSE IF ~Selected(s).file THEN Crash(s)
  ELSE IF p.fdc.left = 0 THEN Fault(Finish(p), ok) ELSE p

\* What a formatting byte in its place can lead to (the state machine of
\* WRITETRK): taken; taken and written to a JV3 file; taken for two, a CRC; a
\* complaint, after which formatting goes on all the same; no room for one more
\* sector in a JV3 table.  DMK takes anything.
FormatEvents(type) ==
  CASE type = "DMK" -> {"taken", "crc"}
    [] type = "JV3" -> {"taken", "written", "crc", "complaint", "full"}
    [] OTHER -> {"taken", "crc", "complaint"}
FormatStep(s, e) ==
  CASE e \in {"taken", "written"} -> s
    [] e = "crc" -> Passed(s, 1)
    [] e = "complaint" -> [Unimpl(s) EXCEPT !.fdc.fmt = TRUE]
    [] e = "full" -> [s EXCEPT !.fdc.status = @ \cup {"FAIL"}, !.fdc.left = 0,
                               !.fdc.fmt = FALSE]

\* The end of the track.  One that ends after a sector's ID is complained about
\* first, JV3 records it as a CRC error.
FormatEnd(s, e, ok) ==
  LET c == IF e = "complaint" /\ Selected(s).type # "JV3" THEN Unimpl(s) ELSE s
      d == Finish([c EXCEPT !.fdc.fmt = FALSE])
  IN  IF Selected(s).file THEN Fault(d, ok) ELSE d

\* A JV1 file is not touched before the end, where an fflush without a file is
\* harmless; a DMK file is written at the end.
FormatByte(s, e, ok) ==
  LET p == Passed(s, 1)
      touches == CASE Selected(s).type = "JV3" -> e \in {"written", "crc"}
                   [] Selected(s).type = "DMK" -> p.fdc.left = 0
                   [] OTHER -> FALSE
  IN  IF ~s.fdc.fmt THEN p
      ELSE IF touches /\ ~Selected(s).file THEN Crash(s)
      ELSE IF p.fdc.left = 0 THEN FormatEnd(p, e, ok)
      ELSE IF touches THEN Fault(FormatStep(p, e), ok) ELSE FormatStep(p, e)

\* Only what is written can be refused.
Taken(s) == IF s.fdc.cmd \in {"WRITE", "WRITETRK"} /\ Selected(s).file
            THEN BOOLEAN ELSE {TRUE}
DataWrite(s, e, ok) ==
  CASE s.fdc.cmd = "WRITE" -> WriteByte(s, ok)
    [] s.fdc.cmd = "WRITETRK" -> FormatByte(s, e, ok)
    [] OTHER -> s
-----------------------------------------------------------------------------
(* The command register.  A command has an op; a found, how the search for *)
(* its sector or ID ends; and a bit, which of FORCEINT's bits decide.      *)

\* On a DMK drive a found ID may lack its data mark.  READADR takes any drive that
\* is neither JV1 nor JV3 for one, and without an image it reads the track through
\* the closed file unless the buffer still holds it (what a drive without a format
\* holds from earlier images is not kept, so it may be either).  fault: the host
\* does not take the new data mark; the disk does not take the density.
Outcomes(s, op) ==
  LET d == Selected(s) IN
  CASE op = "READ" -> IF ~d.file THEN {"none"}
                      ELSE {"none", "found"} \cup
                           (IF d.type = "DMK" THEN {"nomark"} ELSE {})
    [] op = "WRITE" -> IF ~d.file THEN {"none"}
                       ELSE {"none", "found"} \cup
                            (IF d.type = "JV1" THEN {"wrongmark", "refused"}
                                               ELSE {"fault"})
    [] op = "WRITETRK" -> {"found"} \cup (IF d.type = "DMK" THEN {"fault"} ELSE {})
    [] op = "READADR" -> IF d.file THEN {"none", "found"}
                         ELSE IF d.type \in {"JV1", "JV3"} THEN {"none"}
                         ELSE {"none", "found", "closed"}
    [] OTHER -> {"found"}
CommandBits(op) ==
  IF op = "FORCEINT" THEN {"plain", "immediate", "condition"} ELSE {"plain"}

Status(s, bits) == [s EXCEPT !.fdc.status = bits]
Done(s, arg) == Schedule(s, "done", arg, FALSE)
\* The guest has half a second from here to pass all the bytes.
Transfer(s, bits, n) ==
  Schedule([Status(s, bits) EXCEPT !.fdc.left = n], "lostdata", s.fdc.cmd, FALSE)

Move(s) == Done(Status(s, {"BUSY"}), "none")

ReadCommand(s, found) ==
  CASE found = "none" -> Done(Status(s, {"FAIL", "BUSY"}), "none")
    [] found = "nomark" ->
         Done([Status(s, {"BUSY"}) EXCEPT !.fdc.left = SectorLen], "FAIL")
    [] found = "found" ->
         Schedule([Status(s, {"BUSY"}) EXCEPT !.fdc.left = SectorLen],
                  "firstdrq", "none", FALSE)

\* A write-protected disk is reported at once, without an interrupt.  JV1 can
\* not keep every data mark: one is complained about and written all the same.
WriteCommand(s, found) ==
  IF Selected(s).wp THEN Status(s, {"FAIL"})
  ELSE CASE found = "none" -> Done(Status(s, {"FAIL", "BUSY"}), "none")
         [] found = "refused" -> Unimpl(s)
         [] found = "wrongmark" ->
              LET u == Unimpl(s) IN
              Transfer(u, u.fdc.status \cup {"BUSY", "DRQ"}, SectorLen)
         [] found = "found" -> Transfer(s, {"BUSY", "DRQ"}, SectorLen)
         [] found = "fault" -> Transfer(s, {"BUSY", "DRQ", "FAIL"}, SectorLen)

ReadAdrCommand(s, found) ==
  CASE found = "none" -> Done(Status(s, {"BUSY"}), "FAIL")
    [] found = "closed" -> Crash(s)
    [] found = "found" ->
         Schedule([Status(s, {"BUSY"}) EXCEPT !.fdc.left = IdLen],
                  "firstdrq", "none", FALSE)

\* Without an image the track commands wait for an index pulse for ever.
ReadTrkCommand(s) ==
  IF ~Selected(s).file THEN Status(s, {"BUSY"})
  ELSE IF Selected(s).type # "DMK" THEN Unimpl(s)
  ELSE Transfer(s, {"BUSY", "DRQ"}, TrackLen)

WriteTrkCommand(s, found) ==
  IF Selected(s).wp THEN Status(s, {"FAIL"})
  ELSE IF ~Selected(s).file THEN Status(s, {"BUSY"})
  ELSE [Transfer(s, {"BUSY", "DRQ"} \cup (IF found = "fault" THEN {"FAIL"} ELSE {}), TrackLen)
          EXCEPT !.fdc.fmt = TRUE, !.fdc.left = TrackLen]

\* Cancels whatever is scheduled, for the disk or for another device.
ForceInt(s, bit) ==
  LET c == Status(Cancel(s), {}) IN
  CASE bit = "condition" -> Unimpl(c)
    [] bit = "immediate" -> IntrqInterrupt(c, TRUE)
    [] OTHER -> IntrqInterrupt(c, FALSE)

\* Before the command: the track of an interrupted DMK format is written, and
\* of the pending events lostdata, but no other, is cancelled.
Accept(s, op) ==
  LET partial == Selected(s).type = "DMK" /\ s.fdc.cmd = "WRITETRK" /\ s.fdc.fmt
      quiet == IF s.ev.f = "lostdata" THEN Cancel(s) ELSE s
  IN  IF partial /\ ~Selected(s).file THEN Crash(s)
      ELSE IntrqInterrupt([quiet EXCEPT !.fdc.left = 0, !.fdc.cmd = op,
                                        !.fdc.fmt = @ /\ ~partial], FALSE)

Execute(s, op, found, bit) ==
  CASE op \in TypeI -> Move(s)
    [] op = "READ" -> ReadCommand(s, found)
    [] op = "READM" -> Unimpl(s)
    [] op = "WRITE" -> WriteCommand(s, found)
    [] op = "WRITEM" -> IF Selected(s).wp THEN Status(s, {"FAIL"}) ELSE Unimpl(s)
    [] op = "READADR" -> ReadAdrCommand(s, found)
    [] op = "READTRK" -> ReadTrkCommand(s)
    [] op = "WRITETRK" -> WriteTrkCommand(s, found)
    [] op = "FORCEINT" -> ForceInt(s, bit)

\* trs_disk_command_write.
CommandWrite(s, op, found, bit) ==
  LET a == Accept(s, op) IN
  IF a.alive THEN Execute(a, op, found, bit) ELSE a

-----------------------------------------------------------------------------
(* The host puts images into drives and takes them out.  That closing one  *)
(* can fail, which would set WRITEFLT, is left out.                        *)

Removed(s, d) == [s EXCEPT !.disk[d].file = FALSE, !.disk[d].wp = FALSE]
Inserted(s, d, disk) == [s EXCEPT !.disk[d] = disk]
=============================================================================
