------------------------------- MODULE Events -------------------------------
(***************************************************************************)
(* What a scheduled event does when it runs, and trs_schedule_event, which *)
(* runs whatever is still in the slot before it puts the new event there.  *)
(***************************************************************************)
EXTENDS Interrupts

\* trs_uart_set_avail: the next buffered byte has arrived.
SetAvail(s) == RcvInterrupt([s EXCEPT !.uart.rcvd = TRUE], TRUE)

\* trs_disk_done: the command is over; arg is the bit it adds, or "none".
DiskDone(s, arg) ==
  IntrqInterrupt([s EXCEPT !.fdc.status = (@ \ {"BUSY"}) \cup ({arg} \ {"none"})],
                 TRUE)

\* Mutant: the guest is not interrupted.
LostDataQuietly(s, cmd) ==
  IF s.fdc.cmd = cmd
  THEN [s EXCEPT !.fdc.status = (@ \ {"BUSY"}) \cup {"LOST"}, !.fdc.left = 0]
  ELSE s
\* trs_disk_lostdata: the guest let the bytes of this command pass.
LostData(s, cmd) ==
  IF s.fdc.cmd = cmd
  THEN IntrqInterrupt([s EXCEPT !.fdc.status = (@ \ {"BUSY"}) \cup {"LOST"},
                                !.fdc.left = 0], TRUE)
  ELSE s

\* trs_disk_firstdrq: the first byte is there; the clock starts.  The slot is
\* empty here, trs_do_event has just cleared it.
FirstDrq(s) == Post([s EXCEPT !.fdc.status = @ \cup {"DRQ"}],
                    "lostdata", s.fdc.cmd, FALSE)

\* trs_do_event.
DoEvent(s) ==
  LET e == s.ev  idle == Cancel(s) IN
  CASE e.f = "none" -> s
    [] e.f = "avail" -> SetAvail(idle)
    [] e.f = "done" -> DiskDone(idle, e.arg)
    [] e.f = "lostdata" -> LostData(idle, e.arg)
    [] e.f = "firstdrq" -> FirstDrq(idle)
    [] e.f = "reset" -> ResetButton(idle, FALSE)

\* The loop of trs_schedule_event: firstdrq leaves an event behind, which
\* leaves none, so two rounds always empty the slot.
Drain(s) == DoEvent(DoEvent(s))
\* Mutant: what is in the slot is forgotten.
ScheduleOver(s, f, arg, now) == Post(s, f, arg, now)
Schedule(s, f, arg, now) == Post(Drain(s), f, arg, now)
=============================================================================
