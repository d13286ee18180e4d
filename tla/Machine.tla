------------------------------- MODULE Machine -------------------------------
(***************************************************************************)
(* The main loop of the emulator around the floppy controller, the serial  *)
(* port, the interrupt lines and the one event slot they share (z80_run,   *)
(* trs_get_event, trs_reset, saving and loading a snapshot).               *)
(*                                                                         *)
(* The program is single-threaded.  z80_run alternates between timer ticks *)
(* and instructions: both are actions here, each call of a tick one of its *)
(* own, and the guest chooses its instructions.  Cycles are not counted:   *)
(* an event may be due after any instruction (EventDue), one for now is.   *)
(* Accepting an IRQ only moves the program counter and is left out.        *)
(***************************************************************************)
EXTENDS Uart, Fdc

CONSTANTS Models,      \* trs_model: 1, 3, 4 or 5
          Guests,      \* what the guest program may do: see Free
          GuestOps,    \* the commands it gives the floppy controller
          IrqMasks, NmiMasks,   \* values it writes to the mask ports
          Images       \* disk images that the host has

ASSUME MachineAssumption ==
  /\ Models \subseteq {1, 3, 4, 5} /\ Guests \subseteq {"polite", "any"}
  /\ GuestOps \subseteq Commands
  /\ IrqMasks \subseteq SUBSET Irqs /\ NmiMasks \subseteq SUBSET Nmis
  /\ Images \subseteq Disk /\ \A i \in Images : i.file /\ i.type # "NONE"
  /\ Reads \subseteq Nat /\ Opening \subseteq BOOLEAN

VARIABLES model, int, ev, uart, fdc, disk, alive,
          guest        \* which kind of guest runs
vars == <<model, int, ev, uart, fdc, disk, alive, guest>>

Now == [model |-> model, int |-> int, ev |-> ev, uart |-> uart, fdc |-> fdc,
        disk |-> disk, alive |-> alive]
Becomes(s) ==
  /\ int' = s.int /\ ev' = s.ev /\ uart' = s.uart
  /\ fdc' = s.fdc /\ disk' = s.disk /\ alive' = s.alive
  /\ UNCHANGED <<model, guest>>

-----------------------------------------------------------------------------
(* Resets and the timer.                                                   *)

\* trs_timer_event; stopped is whether the time of the motor is over.
TimerEvent(s, stopped) ==
  LET t == TimerInterrupt(s, TRUE) IN IF stopped THEN MotorStops(t) ELSE MotorTurns(t)
MayStop(s) == IF s.fdc.motor THEN BOOLEAN ELSE {TRUE}

\* trs_reset.  poweron is the hard reset; a Model I's reset button leaves the
\* processor running and only pulses the NMI line.
Reset(s, poweron, opens, stopped) ==
  LET r == TimerInterrupt(UartInit(FdcReset(s, poweron), opens), FALSE)
      restarted == ResetLines(TimerEvent(r, stopped))
      button == Schedule(ResetButton(r, TRUE), "reset", "none", FALSE)
  IN  IF s.model # 1 THEN NmiMaskWrite(MaskWrite(restarted, {}), {})
      ELSE LatchClear(IF poweron THEN restarted ELSE button)

\* A new process, after main's trs_reset(1): the cycle counter is still zero,
\* so the motor's time is not over.
NoDisk == [file |-> FALSE, type |-> "NONE", wp |-> FALSE]
Loaded == [Drives -> {NoDisk} \cup Images]
Started(m, disks, opens) ==
  Reset([model |-> m, int |-> IntStart, ev |-> NoEvent, uart |-> UartStart,
         fdc |-> FdcStart, disk |-> disks, alive |-> TRUE], TRUE, opens, FALSE)

Init ==
  /\ model \in Models /\ guest \in Guests
  /\ \E disks \in Loaded, opens \in Opening :
       LET s == Started(model, disks, opens) IN
       /\ int = s.int /\ ev = s.ev /\ uart = s.uart
       /\ fdc = s.fdc /\ disk = s.disk /\ alive = s.alive

\* The emulator crashed; the user starts it again.
Restart ==
  /\ ~alive
  /\ \E disks \in Loaded, opens \in Opening : Becomes(Started(model, disks, opens))

-----------------------------------------------------------------------------
(* An instruction of the guest.  A polite one gives the controller no new  *)
(* command but FORCEINT and no other drive while it is busy, as the data   *)
(* sheets ask; any guest may do what it likes.                             *)

Free == guest = "any" \/ "BUSY" \notin fdc.status

\* What follows in the same round: an event that is for now, and an NMI.
RoundEnds(s) == AcceptNmi(IF s.ev.now THEN DoEvent(s) ELSE s)
\* Nothing of a crashed emulator is left.
Crashed(s) == [s EXCEPT !.int = IntStart, !.ev = NoEvent, !.uart = UartStart,
                        !.fdc = FdcStart, !.disk = [d \in Drives |-> NoDisk]]
\* s is what the instruction makes of Now.
Instruction(s) == alive /\ Becomes(IF s.alive THEN RoundEnds(s) ELSE Crashed(s))

\* The time of the event has come.  It runs at the end of an instruction; here
\* that is one which does nothing else.
EventDue == alive /\ ev.f # "none" /\ Becomes(AcceptNmi(DoEvent(Now)))

Other == Instruction(Now)
UartStatus ==
  \E opens \in Opens(Now), n \in Waiting(Now) : Instruction(UartStatusIn(Now, opens, n))
UartData ==
  \E opens \in Opens(Now), n \in Waiting(Now) : Instruction(UartDataIn(Now, opens, n))
\* The ports that only open the device: modem, switches, baud, control, data out.
UartOther == uart.init = "no" /\ \E opens \in Opens(Now) : Instruction(Opened(Now, opens))

Waits == IF model = 1 THEN {FALSE} ELSE BOOLEAN   \* the WAIT bit
DriveSelect ==
  \E drive \in Drives, wait \in Waits :
    /\ Free \/ drive = fdc.drive
    /\ Instruction(Select(Now, drive, wait))
NoneSelect == model > 1 /\ Instruction(SelectNone(Now, TRUE))
BogusSelect ==
  Free /\ \E wait \in Waits : Instruction(SelectBogus(Now, wait))
FdcStatus == Instruction(DiskStatusRead(Now))
FdcDataIn == Instruction(DataRead(Now))
FdcDataOut ==
  \E e \in (IF fdc.fmt THEN FormatEvents(Selected(Now).type) ELSE {"taken"}),
     ok \in Taken(Now) :
    Instruction(DataWrite(Now, e, ok))
Command(op) ==
  /\ Free \/ op = "FORCEINT"
  /\ \E found \in Outcomes(Now, op), bit \in CommandBits(op) :
       Instruction(CommandWrite(Now, op, found, bit))

LatchIn == Instruction(LatchRead(Now))
\* Model III: port 0xEC; the Model I acknowledges by reading the latch.
TimerAck == model > 1 /\ Instruction(TimerInterrupt(Now, FALSE))
IrqMaskOut ==
  model > 1 /\ \E mask \in IrqMasks : Instruction(MaskWrite(Now, mask))
NmiMaskOut ==
  model > 1 /\ \E mask \in NmiMasks : Instruction(NmiMaskWrite(Now, mask))
\* A Model I's HALT pulls the reset line.
Halt ==
  /\ model = 1
  /\ \E opens \in Opening : Instruction(Reset(Now, FALSE, opens, TRUE))

-----------------------------------------------------------------------------
(* A tick of the timer between two instructions: trs_get_event looks for    *)
(* bytes at the serial port, then handles what the user has done; the timer *)
(* event follows, except while the emulator is paused.  Each of these calls *)
(* is an action, and the guest may run between any two of them: that allows *)
(* more than the program does, never less.                                  *)

Happens(s) == alive /\ Becomes(s)

PollSerial == model > 1 /\ \E n \in Waiting(Now) : Happens(CheckAvail(Now, n))
Tick == \E stopped \in MayStop(Now) : Happens(TimerEvent(Now, stopped))
RemoveDisk == \E d \in Drives : disk[d].file /\ Happens(Removed(Now, d))
InsertDisk == \E d \in Drives, i \in Images : Happens(Inserted(Now, d, i))
\* Another serial device or other switches (gui menu).
SerialMenu == \E opens \in Opening : Happens(UartInit(Now, opens))
ResetKey ==
  \E poweron \in BOOLEAN, opens \in Opening : Happens(Reset(Now, poweron, opens, TRUE))

\* A snapshot saved, the emulator left, and the snapshot loaded by a new
\* process: the NMI mask and the serial port are not in it, images are opened
\* again or have gone.  A read-only file is write-protected again, a file whose
\* header says so is not.
Resumed(s, gone, readonly) ==
  [s EXCEPT !.int.nmiMask = {"reset"}, !.uart = UartStart,
            !.disk = [d \in Drives |->
                        IF d \in gone THEN NoDisk
                        ELSE [s.disk[d] EXCEPT !.wp = d \in readonly]]]
Resume ==
  \E gone \in SUBSET {d \in Drives : disk[d].file},
     readonly \in SUBSET {d \in Drives : disk[d].wp} :
    Happens(Resumed(Now, gone, readonly))

-----------------------------------------------------------------------------
Instructions ==
  \/ Other \/ UartStatus \/ UartData \/ UartOther
  \/ DriveSelect \/ NoneSelect \/ BogusSelect
  \/ FdcStatus \/ FdcDataIn \/ FdcDataOut
  \/ \E op \in GuestOps : Command(op)
  \/ LatchIn \/ TimerAck \/ IrqMaskOut \/ NmiMaskOut
  \/ Halt

Next ==
  \/ Instructions \/ EventDue
  \/ PollSerial \/ Tick
  \/ RemoveDisk \/ InsertDisk \/ SerialMenu \/ ResetKey \/ Resume \/ Restart

Spec == Init /\ [][Next]_vars

-----------------------------------------------------------------------------
(* Properties.                                                             *)

EventState ==
  [f : {"none", "avail", "done", "lostdata", "firstdrq", "reset"},
   arg : {"none", "FAIL"} \cup Commands, now : BOOLEAN]

\* Every variable keeps its type, and an event for now never outlives the
\* instruction that asked for it.
TypeOK ==
  /\ model \in Models /\ guest \in Guests /\ alive \in BOOLEAN
  /\ int \in IntState /\ ev \in EventState /\ uart \in UartState
  /\ fdc \in FdcState /\ disk \in [Drives -> Disk]
  /\ alive => ~ev.now

\* No interrupt is lost or made up between latch and line: on a Model I a
\* latched interrupt keeps the line up, on the others the line is up exactly
\* while an enabled one is latched; an NMI counts as taken only while its line
\* is up (trs_interrupt.c).
LinesTrue ==
  /\ IF model = 1 THEN int.latch # {} => int.irq
                  ELSE int.irq = (int.latch \cap int.mask # {})
  /\ int.seen => int.nmi

AwaitsIndex == fdc.cmd \in {"READTRK", "WRITETRK"} /\ "DRQ" \notin fdc.status
DiskEvent == ev.f \in {"done", "firstdrq", "lostdata"}

\* A busy controller always has an event of its own in the slot that it shares
\* with the serial port and the reset button, or waits for an index pulse: no
\* other device's event takes its place (trs_schedule_event).
BusyIsTimed ==
  guest = "polite" /\ alive /\ "BUSY" \in fdc.status => DiskEvent \/ AwaitsIndex

IntrqRaised == IF model = 1 THEN "disk" \in int.latch ELSE "intrq" \in int.nmiLatch

\* A transfer that stops being busy has passed every byte or says that it has
\* not, and its interrupt is up, unless the motor stopped.
TransfersAccounted ==
  [][guest = "polite" /\ alive' /\ fdc.cmd \in Transfers /\ fdc'.cmd = fdc.cmd
       /\ "BUSY" \in fdc.status /\ "BUSY" \notin fdc'.status
     => /\ fdc.left = 0 \/ {"LOST", "FAIL"} \cap fdc'.status # {}
        /\ IntrqRaised' \/ ~fdc'.motor]_vars

\* The buffered bytes of the serial port are announced: while some are left,
\* either one can be read or the event that announces it is scheduled, never
\* both, and never without a byte.
BytesSound ==
  IF uart.init = "yes"
  THEN /\ uart.left >= 0
       /\ IF uart.left = 0 THEN ~uart.rcvd /\ ev.f # "avail"
                           ELSE uart.rcvd # (ev.f = "avail")
  ELSE ev.f # "avail"

\* Only three things take the event of the serial port away or leave it without
\* its byte: a FORCEINT to the floppy controller, the serial menu, a snapshot.
BytesAnnounced ==
  [][BytesSound /\ alive' =>
       \/ BytesSound'
       \/ ev.f = "avail" /\ ev'.f = "none" /\ fdc'.cmd = "FORCEINT"
       \/ SerialMenu \/ Resume]_vars

=============================================================================
