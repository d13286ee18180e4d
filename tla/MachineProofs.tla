---------------------------- MODULE MachineProofs ----------------------------
(***************************************************************************)
(* Proofs about Machine.  A handler takes a machine record to the next, so *)
(* there is a lemma for each: what it does to each part of the record and  *)
(* what stays true.  Three things are kept by all handlers, each of which  *)
(* the properties need for its own reason:                                 *)
(*                                                                         *)
(*   Wired    the lines follow the latches, and on a Model I no NMI stays  *)
(*            taken: the reset button is let go of when it is              *)
(*   Timed    a busy controller has an event, and a pending lostdata is    *)
(*            about the command under way; without this a lostdata would   *)
(*            pass and leave the controller busy                           *)
(*   Counted  a pending done has no bytes left to pass, or reports FAIL    *)
(***************************************************************************)
EXTENDS Machine, TLAPS

Machines == [model : {1, 3, 4, 5}, int : IntState, ev : EventState,
             uart : UartState, fdc : FdcState, disk : [Drives -> Disk],
             alive : BOOLEAN]

Wired(s) ==
  /\ IF s.model = 1 THEN (s.int.latch # {} => s.int.irq) /\ ~s.int.seen
                    ELSE s.int.irq = (s.int.latch \cap s.int.mask # {})
  /\ s.int.seen => s.int.nmi

Waiting4Index(s) ==
  s.fdc.cmd \in {"READTRK", "WRITETRK"} /\ "DRQ" \notin s.fdc.status

Timed(s) ==
  "BUSY" \in s.fdc.status =>
    \/ s.ev.f \in {"done", "firstdrq"}
    \/ s.ev.f = "lostdata" /\ s.ev.arg = s.fdc.cmd
    \/ Waiting4Index(s)

Counted(s) ==
  s.ev.f = "done" => s.fdc.left = 0 \/ s.ev.arg = "FAIL"

\* BytesSound of a machine record.
Announced(s) ==
  IF s.uart.init = "yes"
  THEN /\ s.uart.left >= 0
       /\ IF s.uart.left = 0 THEN ~s.uart.rcvd /\ s.ev.f # "avail"
                             ELSE s.uart.rcvd # (s.ev.f = "avail")
  ELSE s.ev.f # "avail"

\* IntrqRaised of a machine record.
Raised(s) ==
  /\ s.model = 1 => "disk" \in s.int.latch
  /\ s.model # 1 => "intrq" \in s.int.nmiLatch

Sound(s) ==
  /\ s \in Machines /\ Wired(s)
  /\ s.ev.f = "done" => s.ev.arg \in {"none", "FAIL"}
  /\ s.ev.f = "none" => s.ev = NoEvent

-----------------------------------------------------------------------------
(* Interrupts.  What they do to a machine is to change its lines.          *)

Signals(s, t) ==
  /\ t \in Machines /\ Wired(t) /\ t.model = s.model
  /\ t.ev = s.ev /\ t.uart = s.uart /\ t.fdc = s.fdc /\ t.disk = s.disk
  /\ t.alive = s.alive

LEMMA SetInt ==
  ASSUME NEW s \in Machines, NEW i \in IntState
  PROVE  LET t == [s EXCEPT !.int = i] IN
         /\ t \in Machines /\ t.int = i /\ t.model = s.model
         /\ t.ev = s.ev /\ t.uart = s.uart /\ t.fdc = s.fdc /\ t.disk = s.disk
         /\ t.alive = s.alive
BY DEF Machines

LEMMA RaiseIrqSignals ==
  ASSUME NEW s, Sound(s), NEW bit \in Irqs, NEW on \in BOOLEAN
  PROVE  /\ Signals(s, RaiseIrq(s, bit, on))
         /\ RaiseIrq(s, bit, on).int.latch = Put(s.int.latch, bit, on)
         /\ RaiseIrq(s, bit, on).int.nmiLatch = s.int.nmiLatch
<1> DEFINE i == [s.int EXCEPT !.latch = Put(s.int.latch, bit, on)]
           j == IF s.model = 1 THEN [i EXCEPT !.irq = i.irq \/ on] ELSE IrqLine(i)
<1>1. s \in Machines /\ s.int \in IntState
  BY DEF Sound, Machines
<1>2. Put(s.int.latch, bit, on) \in SUBSET Irqs
  BY <1>1 DEF IntState, Put
<1>3. i \in IntState /\ i.latch = Put(s.int.latch, bit, on) /\ i.mask = s.int.mask
      /\ i.irq = s.int.irq /\ i.seen = s.int.seen /\ i.nmi = s.int.nmi
      /\ i.nmiLatch = s.int.nmiLatch
  BY <1>1, <1>2 DEF IntState
<1> HIDE DEF i
<1>4. /\ j \in IntState /\ j.latch = Put(s.int.latch, bit, on) /\ j.mask = s.int.mask
      /\ j.seen = s.int.seen /\ j.nmi = s.int.nmi /\ j.nmiLatch = s.int.nmiLatch
      /\ j.irq = IF s.model = 1 THEN s.int.irq \/ on ELSE j.latch \cap j.mask # {}
  BY <1>3 DEF IntState, IrqLine
<1>5. RaiseIrq(s, bit, on) = [s EXCEPT !.int = j]
  BY DEF RaiseIrq, i
<1> HIDE DEF j
<1>6. ASSUME s.model = 1, Put(s.int.latch, bit, on) # {}, ~on
      PROVE  s.int.irq
  <2>1. s.int.latch # {}
    BY <1>6 DEF Put
  <2> QED BY <1>6, <2>1, Zenon DEF Sound, Wired
<1> DEFINE t == [s EXCEPT !.int = j]
<1>7. t \in Machines /\ t.int = j /\ t.model = s.model /\ t.ev = s.ev /\ t.uart = s.uart
      /\ t.fdc = s.fdc /\ t.disk = s.disk /\ t.alive = s.alive
  BY <1>1, <1>4, SetInt
<1> HIDE DEF t
<1>8. j.seen => j.nmi
  BY <1>4, Zenon DEF Sound, Wired
<1>9. CASE s.model = 1
  <2>1. ~s.int.seen
    BY <1>9, Zenon DEF Sound, Wired
  <2>2. j.latch # {} => j.irq
    BY <1>4, <1>6, <1>9
  <2> QED BY <1>4, <1>5, <1>7, <1>8, <1>9, <2>1, <2>2 DEF Signals, Wired, t
<1>10. CASE s.model # 1
  <2>1. j.irq = (j.latch \cap j.mask # {})
    BY <1>4, <1>10
  <2> QED BY <1>4, <1>5, <1>7, <1>8, <1>10, <2>1 DEF Signals, Wired, t
<1> QED BY <1>9, <1>10

LEMMA NmiLineType ==
  ASSUME NEW i \in IntState
  PROVE  LET j == NmiLine(i) IN
         /\ j \in IntState /\ j.latch = i.latch /\ j.mask = i.mask /\ j.irq = i.irq
         /\ j.nmiLatch = i.nmiLatch /\ (j.seen => j.nmi) /\ (j.seen => i.seen)
BY DEF IntState, NmiLine

LEMMA RaiseNmiSignals ==
  ASSUME NEW s, Sound(s), NEW bit \in Nmis, NEW on \in BOOLEAN
  PROVE  /\ Signals(s, RaiseNmi(s, bit, on))
         /\ RaiseNmi(s, bit, on).int.latch = s.int.latch
         /\ RaiseNmi(s, bit, on).int.nmiLatch = Put(s.int.nmiLatch, bit, on)
<1> DEFINE i == [s.int EXCEPT !.nmiLatch = Put(s.int.nmiLatch, bit, on)]
           j == NmiLine(i)
<1>1. s \in Machines /\ s.int \in IntState
  BY DEF Sound, Machines
<1>2. Put(s.int.nmiLatch, bit, on) \in SUBSET Nmis
  BY <1>1 DEF IntState, Put
<1>3. i \in IntState /\ i.nmiLatch = Put(s.int.nmiLatch, bit, on) /\ i.mask = s.int.mask
      /\ i.irq = s.int.irq /\ i.seen = s.int.seen /\ i.latch = s.int.latch
  BY <1>1, <1>2 DEF IntState
<1> HIDE DEF i
<1>4. /\ j \in IntState /\ j.latch = s.int.latch /\ j.mask = s.int.mask
      /\ j.irq = s.int.irq /\ j.nmiLatch = Put(s.int.nmiLatch, bit, on)
      /\ (j.seen => j.nmi) /\ (j.seen => s.int.seen)
  BY <1>3, NmiLineType
<1>5. RaiseNmi(s, bit, on) = [s EXCEPT !.int = j]
  BY DEF RaiseNmi, i
<1> HIDE DEF j
<1> QED BY <1>1, <1>4, <1>5, SetInt DEF Signals, Sound, Wired

\* Raising a source does not take the disk's interrupt back, unless it is that.
LEMMA RaiseIrqKeeps ==
  ASSUME NEW s, Sound(s), NEW bit \in Irqs, NEW on \in BOOLEAN
  PROVE  /\ Raised(s) /\ (bit # "disk" \/ on) => Raised(RaiseIrq(s, bit, on))
         /\ s.model = 1 /\ bit = "disk" /\ on => Raised(RaiseIrq(s, bit, on))
<1> DEFINE t == RaiseIrq(s, bit, on)
<1>1. /\ t.model = s.model /\ t.int.latch = Put(s.int.latch, bit, on)
      /\ t.int.nmiLatch = s.int.nmiLatch
  BY RaiseIrqSignals DEF Signals
<1> HIDE DEF t
<1>2. on => bit \in Put(s.int.latch, bit, on)
  BY DEF Put
<1>3. ASSUME bit # "disk" \/ on, "disk" \in s.int.latch
      PROVE  "disk" \in Put(s.int.latch, bit, on)
  BY <1>3 DEF Put
<1>4. Raised(s) /\ (bit # "disk" \/ on) => Raised(t)
  BY <1>1, <1>3 DEF Raised
<1>5. s.model = 1 /\ bit = "disk" /\ on => Raised(t)
  BY <1>1, <1>2 DEF Raised
<1> QED BY <1>4, <1>5 DEF t

LEMMA RaiseNmiKeeps ==
  ASSUME NEW s, Sound(s), NEW bit \in Nmis, NEW on \in BOOLEAN
  PROVE  /\ Raised(s) /\ (bit # "intrq" \/ on) => Raised(RaiseNmi(s, bit, on))
         /\ s.model # 1 /\ bit = "intrq" /\ on => Raised(RaiseNmi(s, bit, on))
<1> DEFINE t == RaiseNmi(s, bit, on)
<1>1. /\ t.model = s.model /\ t.int.nmiLatch = Put(s.int.nmiLatch, bit, on)
      /\ t.int.latch = s.int.latch
  BY RaiseNmiSignals DEF Signals
<1> HIDE DEF t
<1>2. on => bit \in Put(s.int.nmiLatch, bit, on)
  BY DEF Put
<1>3. ASSUME bit # "intrq" \/ on, "intrq" \in s.int.nmiLatch
      PROVE  "intrq" \in Put(s.int.nmiLatch, bit, on)
  BY <1>3 DEF Put
<1>4. Raised(s) /\ (bit # "intrq" \/ on) => Raised(t)
  BY <1>1, <1>3 DEF Raised
<1>5. s.model # 1 /\ bit = "intrq" /\ on => Raised(t)
  BY <1>1, <1>2 DEF Raised
<1> QED BY <1>4, <1>5 DEF t

LEMMA ResetButtonSignals ==
  ASSUME NEW s, Sound(s), NEW on \in BOOLEAN
  PROVE  /\ Signals(s, ResetButton(s, on))
         /\ Raised(s) => Raised(ResetButton(s, on))
<1>1. s \in Machines /\ s.int \in IntState
  BY DEF Sound, Machines
<1>2. CASE s.model = 1
  <2> DEFINE j == [s.int EXCEPT !.nmi = on, !.seen = s.int.seen /\ on]
  <2>1. j \in IntState /\ j.latch = s.int.latch /\ j.mask = s.int.mask
        /\ j.irq = s.int.irq /\ j.seen = (s.int.seen /\ on)
    BY <1>1 DEF IntState
  <2>2. ResetButton(s, on) = [s EXCEPT !.int = j]
    BY <1>1, <1>2 DEF ResetButton, Machines, IntState
  <2> HIDE DEF j
  <2>3. ~s.int.seen /\ (s.int.latch # {} => s.int.irq)
    BY <1>2, Zenon DEF Sound, Wired
  <2>4. ~j.seen
    BY <2>1, <2>3, Zenon
  <2>5. Wired([s EXCEPT !.int = j])
    BY <1>1, <1>2, <2>1, <2>3, <2>4, SetInt DEF Wired
  <2>6. Signals(s, [s EXCEPT !.int = j])
    BY <1>1, <2>1, <2>5, SetInt DEF Signals
  <2>7. [s EXCEPT !.int = j].int = j /\ [s EXCEPT !.int = j].model = s.model
    BY <1>1, <2>1, SetInt
  <2> QED BY <1>2, <2>1, <2>2, <2>6, <2>7 DEF Raised
<1>3. CASE s.model # 1
  BY <1>3, RaiseNmiSignals, RaiseNmiKeeps DEF ResetButton, Nmis
<1> QED BY <1>2, <1>3

LEMMA SignalsSound ==
  ASSUME NEW s, NEW t, Sound(s), Signals(s, t)
  PROVE  /\ Sound(t) /\ (Timed(s) <=> Timed(t)) /\ (Counted(s) <=> Counted(t))
         /\ (Announced(s) <=> Announced(t))
BY DEF Sound, Signals, Timed, Counted, Announced, Waiting4Index

LEMMA SignalsTrans ==
  ASSUME NEW s, NEW t, NEW u, Signals(s, t), Signals(t, u)
  PROVE  Signals(s, u)
BY DEF Signals

LEMMA TimerSignals ==
  ASSUME NEW s, Sound(s), NEW on \in BOOLEAN
  PROVE  Signals(s, TimerInterrupt(s, on)) /\ (Raised(s) => Raised(TimerInterrupt(s, on)))
BY RaiseIrqSignals, RaiseIrqKeeps DEF TimerInterrupt, Irqs

LEMMA RcvSignals ==
  ASSUME NEW s, Sound(s), NEW on \in BOOLEAN
  PROVE  Signals(s, RcvInterrupt(s, on)) /\ (Raised(s) => Raised(RcvInterrupt(s, on)))
<1>1. Signals(s, s)
  BY DEF Signals, Sound
<1> QED BY <1>1, RaiseIrqSignals, RaiseIrqKeeps DEF RcvInterrupt, Irqs

LEMMA MotoroffSignals ==
  ASSUME NEW s, Sound(s), NEW on \in BOOLEAN
  PROVE  /\ Signals(s, MotoroffInterrupt(s, on))
         /\ Raised(s) => Raised(MotoroffInterrupt(s, on))
<1>1. Signals(s, s)
  BY DEF Signals, Sound
<1> QED BY <1>1, RaiseNmiSignals, RaiseNmiKeeps DEF MotoroffInterrupt, Nmis

LEMMA IntrqSignals ==
  ASSUME NEW s, Sound(s), NEW on \in BOOLEAN
  PROVE  Signals(s, IntrqInterrupt(s, on)) /\ (on => Raised(IntrqInterrupt(s, on)))
BY RaiseIrqSignals, RaiseNmiSignals, RaiseIrqKeeps, RaiseNmiKeeps
   DEF IntrqInterrupt, Irqs, Nmis

LEMMA LatchReadSignals ==
  ASSUME NEW s, Sound(s)
  PROVE  Signals(s, LatchRead(s))
<1>1. s \in Machines /\ s.int \in IntState
  BY DEF Sound, Machines
<1>2. CASE s.model = 1
  <2> DEFINE j == [s.int EXCEPT !.latch = {}, !.irq = FALSE]
  <2>1. j \in IntState /\ j.latch = {} /\ j.seen = s.int.seen /\ j.nmi = s.int.nmi
    BY <1>1 DEF IntState
  <2>2. LatchRead(s) = [s EXCEPT !.int = j]
    BY <1>1, <1>2 DEF LatchRead, Machines, IntState
  <2> HIDE DEF j
  <2>3. ~s.int.seen
    BY <1>2, Zenon DEF Sound, Wired
  <2> QED BY <1>1, <1>2, <2>1, <2>2, <2>3, SetInt DEF Signals, Wired
<1>3. CASE s.model # 1
  BY <1>3 DEF LatchRead, Sound, Signals
<1> QED BY <1>2, <1>3

LEMMA MaskSignals ==
  ASSUME NEW s, Sound(s), s.model # 1, NEW mask \in SUBSET Irqs
  PROVE  Signals(s, MaskWrite(s, mask)) /\ (Raised(s) => Raised(MaskWrite(s, mask)))
<1> DEFINE j == IrqLine([s.int EXCEPT !.mask = mask])
<1>1. s \in Machines /\ s.int \in IntState
  BY DEF Sound, Machines
<1>2. /\ j \in IntState /\ j.irq = (j.latch \cap j.mask # {})
      /\ j.seen = s.int.seen /\ j.nmi = s.int.nmi /\ j.nmiLatch = s.int.nmiLatch
  BY <1>1 DEF IntState, IrqLine
<1> HIDE DEF j
<1>3. MaskWrite(s, mask) = [s EXCEPT !.int = j]
  BY DEF MaskWrite, j
<1>4. j.seen => j.nmi
  BY <1>2, Zenon DEF Sound, Wired
<1> QED BY <1>1, <1>2, <1>3, <1>4, SetInt DEF Signals, Wired, Raised

LEMMA NmiMaskSignals ==
  ASSUME NEW s, Sound(s), s.model # 1, NEW mask \in SUBSET Nmis
  PROVE  Signals(s, NmiMaskWrite(s, mask)) /\ (Raised(s) => Raised(NmiMaskWrite(s, mask)))
<1> DEFINE i == [s.int EXCEPT !.nmiMask = mask \cup {"reset"}]
           j == NmiLine(i)
<1>1. s \in Machines /\ s.int \in IntState
  BY DEF Sound, Machines
<1>2. i \in IntState /\ i.latch = s.int.latch /\ i.mask = s.int.mask
      /\ i.irq = s.int.irq /\ i.nmiLatch = s.int.nmiLatch
  BY <1>1 DEF IntState, Nmis
<1> HIDE DEF i
<1>3. /\ j \in IntState /\ j.latch = s.int.latch /\ j.mask = s.int.mask /\ j.irq = s.int.irq
      /\ j.nmiLatch = s.int.nmiLatch /\ (j.seen => j.nmi)
  BY <1>2, NmiLineType
<1> HIDE DEF j
<1>4. NmiMaskWrite(s, mask) = [s EXCEPT !.int = j]
  BY DEF NmiMaskWrite, i, j
<1> QED BY <1>1, <1>3, <1>4, SetInt DEF Signals, Sound, Wired, Raised

LEMMA AcceptSignals ==
  ASSUME NEW s, Sound(s)
  PROVE  Signals(s, AcceptNmi(s)) /\ (Raised(s) => Raised(AcceptNmi(s)))
<1>1. s \in Machines /\ s.int \in IntState
  BY DEF Sound, Machines
<1>2. CASE ~(s.int.nmi /\ ~s.int.seen)
  BY <1>2 DEF AcceptNmi, Sound, Signals
<1>3. CASE s.int.nmi /\ ~s.int.seen /\ s.model = 1
  BY <1>3, ResetButtonSignals DEF AcceptNmi
<1>4. CASE s.int.nmi /\ ~s.int.seen /\ s.model # 1
  <2> DEFINE j == [s.int EXCEPT !.seen = TRUE]
  <2>1. j \in IntState /\ j.latch = s.int.latch /\ j.mask = s.int.mask
        /\ j.irq = s.int.irq /\ j.nmiLatch = s.int.nmiLatch /\ j.nmi = s.int.nmi
    BY <1>1 DEF IntState
  <2>2. AcceptNmi(s) = [s EXCEPT !.int = j]
    BY <1>1, <1>4 DEF AcceptNmi, Machines, IntState
  <2> HIDE DEF j
  <2>3. Signals(s, [s EXCEPT !.int = j])
    <3>1. s.int.irq = (s.int.latch \cap s.int.mask # {})
      BY <1>4 DEF Sound, Wired
    <3>2. j.nmi
      BY <1>4, <2>1, Zenon
    <3> QED BY <1>1, <1>4, <2>1, <3>1, <3>2, SetInt DEF Signals, Wired
  <2>4. [s EXCEPT !.int = j].int = j /\ [s EXCEPT !.int = j].model = s.model
    BY <1>1, <2>1, SetInt
  <2> QED BY <2>1, <2>2, <2>3, <2>4 DEF Raised
<1> QED BY <1>2, <1>3, <1>4

-----------------------------------------------------------------------------
(* Events.                                                                 *)

\* The controller after the event of s has run.
EventFdc(s) ==
  CASE s.ev.f = "done" ->
         [s.fdc EXCEPT !.status = (@ \ {"BUSY"}) \cup ({s.ev.arg} \ {"none"})]
    [] s.ev.f = "lostdata" /\ s.ev.arg = s.fdc.cmd ->
         [s.fdc EXCEPT !.status = (@ \ {"BUSY"}) \cup {"LOST"}, !.left = 0]
    [] s.ev.f = "firstdrq" -> [s.fdc EXCEPT !.status = @ \cup {"DRQ"}]
    [] OTHER -> s.fdc
EventNext(s) ==
  IF s.ev.f = "firstdrq" THEN [f |-> "lostdata", arg |-> s.fdc.cmd, now |-> FALSE]
                         ELSE NoEvent
EventUart(s) == IF s.ev.f = "avail" THEN [s.uart EXCEPT !.rcvd = TRUE] ELSE s.uart
Ends(s) ==
  \/ s.ev.f = "done"
  \/ s.ev.f = "lostdata" /\ s.ev.arg = s.fdc.cmd

\* t is s after its event.
Ran(s, t) ==
  /\ Sound(t) /\ t.model = s.model /\ t.disk = s.disk /\ t.alive = s.alive
  /\ t.fdc = EventFdc(s) /\ t.ev = EventNext(s) /\ t.uart = EventUart(s)
  /\ Raised(s) \/ Ends(s) => Raised(t)

LEMMA NoEventType == NoEvent \in EventState
BY DEF NoEvent, EventState

\* s with another controller, serial port and event.
With(s, f, u, e) == [s EXCEPT !.fdc = f, !.uart = u, !.ev = e]

LEMMA SetFields ==
  ASSUME NEW s, Sound(s), NEW f \in FdcState, NEW u \in UartState, NEW e \in EventState,
         e.f = "done" => e.arg \in {"none", "FAIL"}, e.f = "none" => e = NoEvent
  PROVE  LET t == With(s, f, u, e) IN
         /\ Sound(t) /\ t.fdc = f /\ t.uart = u /\ t.ev = e /\ t.int = s.int
         /\ t.model = s.model /\ t.disk = s.disk /\ t.alive = s.alive
         /\ Raised(s) <=> Raised(t)
BY DEF Sound, Machines, Wired, Raised, With

LEMMA EventFdcType ==
  ASSUME NEW s, Sound(s)
  PROVE  EventFdc(s) \in FdcState
<1>1. s.fdc \in FdcState /\ (s.ev.f = "done" => s.ev.arg \in {"none", "FAIL"})
  BY DEF Sound, Machines
<1>2. "LOST" \in Bits /\ "FAIL" \in Bits /\ "DRQ" \in Bits
  BY DEF Bits
<1> QED BY <1>1, <1>2 DEF EventFdc, FdcState

LEMMA EventUartType ==
  ASSUME NEW s, Sound(s)
  PROVE  EventUart(s) \in UartState
BY DEF Sound, Machines, UartState, EventUart

LEMMA EventNextType ==
  ASSUME NEW s, Sound(s)
  PROVE  EventNext(s) \in EventState
BY NoEventType DEF Sound, Machines, FdcState, EventState, EventNext

\* What is put in place before an interrupt is given.
LEMMA IdleSound ==
  ASSUME NEW s, Sound(s), NEW f \in FdcState, NEW u \in UartState
  PROVE  LET t == With(s, f, u, NoEvent) IN
         /\ Sound(t) /\ t.fdc = f /\ t.uart = u /\ t.ev = NoEvent /\ t.int = s.int
         /\ t.model = s.model /\ t.disk = s.disk /\ t.alive = s.alive
         /\ Raised(s) <=> Raised(t)
<1>1. NoEvent.f = "none"
  BY DEF NoEvent
<1> QED BY <1>1, SetFields, NoEventType

LEMMA DoEventRuns ==
  ASSUME NEW s, Sound(s)
  PROVE  Ran(s, DoEvent(s))
<1> DEFINE e == s.ev
           idle == Cancel(s)
<1>0. s \in Machines /\ e \in EventState /\ s.fdc \in FdcState /\ s.uart \in UartState
  BY DEF Sound, Machines
<1>1. CASE e.f = "none"
  <2>1. DoEvent(s) = s
    BY <1>1 DEF DoEvent
  <2>2. s.ev = NoEvent /\ ~Ends(s) /\ EventFdc(s) = s.fdc /\ EventUart(s) = s.uart
        /\ EventNext(s) = NoEvent
    BY <1>1 DEF Sound, Ends, EventFdc, EventUart, EventNext
  <2> QED BY <2>1, <2>2 DEF Ran
<1>2. CASE e.f = "avail"
  <2> DEFINE u == [s.uart EXCEPT !.rcvd = TRUE]
             m == With(s, s.fdc, u, NoEvent)
  <2>1. u \in UartState
    BY <1>0 DEF UartState
  <2>2. DoEvent(s) = RcvInterrupt(m, TRUE)
    BY <1>0, <1>2 DEF DoEvent, SetAvail, Cancel, With, Machines
  <2>3. ~Ends(s) /\ EventFdc(s) = s.fdc /\ EventUart(s) = u /\ EventNext(s) = NoEvent
    BY <1>2 DEF Ends, EventFdc, EventUart, EventNext
  <2> HIDE DEF u
  <2>4. /\ Sound(m) /\ m.fdc = s.fdc /\ m.uart = u /\ m.ev = NoEvent
        /\ m.model = s.model /\ m.disk = s.disk /\ m.alive = s.alive
        /\ Raised(s) <=> Raised(m)
    BY <1>0, <2>1, IdleSound
  <2> HIDE DEF m
  <2> QED BY <2>2, <2>3, <2>4, RcvSignals, SignalsSound, ZenonT(40) DEF Ran, Signals
<1>3. CASE e.f = "done"
  <2> DEFINE f == [s.fdc EXCEPT !.status = (@ \ {"BUSY"}) \cup ({e.arg} \ {"none"})]
             m == With(s, f, s.uart, NoEvent)
  <2>1. EventFdc(s) = f /\ EventUart(s) = s.uart /\ EventNext(s) = NoEvent
    BY <1>3 DEF EventFdc, EventUart, EventNext
  <2>2. f \in FdcState
    BY <2>1, EventFdcType
  <2>3. DoEvent(s) = IntrqInterrupt(m, TRUE)
    BY <1>0, <1>3 DEF DoEvent, DiskDone, Cancel, With, Machines
  <2> HIDE DEF f
  <2>4. /\ Sound(m) /\ m.fdc = f /\ m.uart = s.uart /\ m.ev = NoEvent
        /\ m.model = s.model /\ m.disk = s.disk /\ m.alive = s.alive
    BY <1>0, <2>2, IdleSound
  <2> HIDE DEF m
  <2> QED BY <2>1, <2>3, <2>4, IntrqSignals, SignalsSound DEF Ran, Signals
<1>4. CASE e.f = "lostdata" /\ e.arg = s.fdc.cmd
  <2> DEFINE f == [s.fdc EXCEPT !.status = (@ \ {"BUSY"}) \cup {"LOST"}, !.left = 0]
             m == With(s, f, s.uart, NoEvent)
  <2>1. EventFdc(s) = f /\ EventUart(s) = s.uart /\ EventNext(s) = NoEvent
    BY <1>4 DEF EventFdc, EventUart, EventNext
  <2>2. f \in FdcState
    BY <2>1, EventFdcType
  <2>3. DoEvent(s) = IntrqInterrupt(m, TRUE)
    BY <1>0, <1>4 DEF DoEvent, LostData, Cancel, With, Machines
  <2> HIDE DEF f
  <2>4. /\ Sound(m) /\ m.fdc = f /\ m.uart = s.uart /\ m.ev = NoEvent
        /\ m.model = s.model /\ m.disk = s.disk /\ m.alive = s.alive
    BY <1>0, <2>2, IdleSound
  <2> HIDE DEF m
  <2> QED BY <2>1, <2>3, <2>4, IntrqSignals, SignalsSound DEF Ran, Signals
<1>5. CASE e.f = "lostdata" /\ e.arg # s.fdc.cmd
  <2> DEFINE m == With(s, s.fdc, s.uart, NoEvent)
  <2>1. /\ EventFdc(s) = s.fdc /\ EventUart(s) = s.uart /\ EventNext(s) = NoEvent
        /\ ~Ends(s)
    BY <1>5 DEF EventFdc, EventUart, EventNext, Ends
  <2>2. DoEvent(s) = m
    BY <1>0, <1>5 DEF DoEvent, LostData, Cancel, With, Machines
  <2>3. /\ Sound(m) /\ m.fdc = s.fdc /\ m.uart = s.uart /\ m.ev = NoEvent
        /\ m.model = s.model /\ m.disk = s.disk /\ m.alive = s.alive
        /\ Raised(s) <=> Raised(m)
    BY <1>0, IdleSound
  <2> HIDE DEF m
  <2> QED BY <2>1, <2>2, <2>3 DEF Ran
<1>6. CASE e.f = "firstdrq"
  <2> DEFINE f == [s.fdc EXCEPT !.status = @ \cup {"DRQ"}]
             n == EventNext(s)
             m == With(s, f, s.uart, n)
  <2>1. /\ EventFdc(s) = f /\ EventUart(s) = s.uart /\ ~Ends(s)
        /\ n = [f |-> "lostdata", arg |-> s.fdc.cmd, now |-> FALSE]
    BY <1>6 DEF EventFdc, EventUart, EventNext, Ends
  <2>2. f \in FdcState
    BY <2>1, EventFdcType
  <2>3. DoEvent(s) = m
    BY <1>0, <1>6, <2>1 DEF DoEvent, FirstDrq, Post, Cancel, With, Machines
  <2>4. n \in EventState /\ n.f = "lostdata"
    <3>1. n \in EventState
      BY EventNextType
    <3> QED BY <2>1, <3>1
  <2> HIDE DEF f, n
  <2>5. /\ Sound(m) /\ m.fdc = f /\ m.uart = s.uart /\ m.ev = n
        /\ m.model = s.model /\ m.disk = s.disk /\ m.alive = s.alive
        /\ Raised(s) <=> Raised(m)
    BY <1>0, <2>2, <2>4, SetFields
  <2> HIDE DEF m
  <2> QED BY <2>1, <2>3, <2>5 DEF Ran, n
<1>7. CASE e.f = "reset"
  <2> DEFINE m == With(s, s.fdc, s.uart, NoEvent)
  <2>1. /\ EventFdc(s) = s.fdc /\ EventUart(s) = s.uart /\ EventNext(s) = NoEvent
        /\ ~Ends(s)
    BY <1>7 DEF EventFdc, EventUart, EventNext, Ends
  <2>2. DoEvent(s) = ResetButton(m, FALSE)
    BY <1>0, <1>7 DEF DoEvent, Cancel, With, Machines
  <2>3. /\ Sound(m) /\ m.fdc = s.fdc /\ m.uart = s.uart /\ m.ev = NoEvent
        /\ m.model = s.model /\ m.disk = s.disk /\ m.alive = s.alive
        /\ Raised(s) <=> Raised(m)
    BY <1>0, IdleSound
  <2> HIDE DEF m
  <2> QED BY <2>1, <2>2, <2>3, ResetButtonSignals, SignalsSound DEF Ran, Signals
<1> QED BY <1>0, <1>1, <1>2, <1>3, <1>4, <1>5, <1>6, <1>7 DEF EventState

\* The controller after the slot of s has been emptied.
DrainFdc(s) ==
  IF s.ev.f = "firstdrq"
  THEN [s.fdc EXCEPT !.status = ((@ \cup {"DRQ"}) \ {"BUSY"}) \cup {"LOST"}, !.left = 0]
  ELSE EventFdc(s)

Drained(s, t) ==
  /\ Sound(t) /\ t.model = s.model /\ t.disk = s.disk /\ t.alive = s.alive
  /\ t.fdc = DrainFdc(s) /\ t.uart = EventUart(s)
  /\ Raised(s) \/ Ends(s) \/ s.ev.f = "firstdrq" => Raised(t)

LEMMA DrainRuns ==
  ASSUME NEW s, Sound(s)
  PROVE  Drained(s, Drain(s)) /\ Drain(s).ev = NoEvent
<1> DEFINE r == DoEvent(s)
           t == DoEvent(r)
<1>1. Ran(s, r)
  BY DoEventRuns
<1>2. Drain(s) = t
  BY DEF Drain
<1> HIDE DEF r
<1>3. Ran(r, t)
  BY <1>1, DoEventRuns DEF Ran
<1> HIDE DEF t
<1>4. CASE s.ev.f # "firstdrq"
  <2>1. r.ev.f = "none" /\ r.ev.f # "firstdrq" /\ ~Ends(r)
    BY <1>1, <1>4 DEF Ran, EventNext, NoEvent, Ends
  <2>2. EventFdc(r) = r.fdc /\ EventUart(r) = r.uart /\ EventNext(r) = NoEvent
    BY <2>1 DEF EventFdc, EventUart, EventNext
  <2> QED BY <1>1, <1>2, <1>3, <1>4, <2>2 DEF Ran, Drained, DrainFdc
<1>5. CASE s.ev.f = "firstdrq"
  <2>1. /\ r.ev.f = "lostdata" /\ r.ev.arg = s.fdc.cmd
        /\ r.fdc = [s.fdc EXCEPT !.status = @ \cup {"DRQ"}] /\ r.uart = s.uart
    BY <1>1, <1>5 DEF Ran, EventNext, EventFdc, EventUart
  <2>2. s.fdc \in FdcState
    BY DEF Sound, Machines
  <2>3. r.fdc.cmd = s.fdc.cmd
    BY <2>1, <2>2 DEF FdcState
  <2>4. Ends(r) /\ EventUart(r) = r.uart /\ EventNext(r) = NoEvent
    BY <2>1, <2>3 DEF Ends, EventUart, EventNext
  <2>5. EventFdc(r) = [r.fdc EXCEPT !.status = (@ \ {"BUSY"}) \cup {"LOST"}, !.left = 0]
    BY <2>1, <2>3 DEF EventFdc
  <2>6. EventFdc(r) = DrainFdc(s)
    BY <1>5, <2>1, <2>2, <2>5 DEF DrainFdc, FdcState
  <2>7. EventUart(s) = s.uart
    BY <1>5 DEF EventUart
  <2> QED BY <1>1, <1>2, <1>3, <2>1, <2>4, <2>6, <2>7 DEF Ran, Drained
<1> QED BY <1>4, <1>5

\* An emptied slot leaves the controller busy only if it was not about it.
LEMMA DrainFdcFacts ==
  ASSUME NEW s, Sound(s)
  PROVE  LET c == DrainFdc(s) IN
         /\ c \in FdcState /\ c.cmd = s.fdc.cmd /\ c.drive = s.fdc.drive
         /\ c.motor = s.fdc.motor /\ c.fmt = s.fdc.fmt /\ c.left \in {0, s.fdc.left}
         /\ s.fdc.status \ {"BUSY"} \subseteq c.status
         /\ "BUSY" \in c.status =>
              c = s.fdc /\ s.ev.f \notin {"done", "firstdrq"} /\ ~Ends(s)
         /\ "BUSY" \in s.fdc.status /\ "BUSY" \notin c.status =>
              Ends(s) \/ s.ev.f = "firstdrq"
         /\ s.ev.f \in {"lostdata", "firstdrq"} /\ "BUSY" \in s.fdc.status
              => c = s.fdc \/ "LOST" \in c.status
         /\ s.ev.f = "done" => {s.ev.arg} \ {"none"} \subseteq c.status
<1> DEFINE c == DrainFdc(s)
<1>0. s.fdc \in FdcState /\ s.ev \in EventState
  BY DEF Sound, Machines
<1>1. CASE s.ev.f = "firstdrq"
  <2>1. c = [s.fdc EXCEPT !.status = ((@ \cup {"DRQ"}) \ {"BUSY"}) \cup {"LOST"}, !.left = 0]
    BY <1>1 DEF DrainFdc
  <2>2. "DRQ" \in Bits /\ "LOST" \in Bits
    BY DEF Bits
  <2> HIDE DEF c
  <2>3. /\ c \in FdcState /\ c.cmd = s.fdc.cmd /\ c.drive = s.fdc.drive
        /\ c.motor = s.fdc.motor /\ c.fmt = s.fdc.fmt /\ c.left = 0
        /\ c.status = ((s.fdc.status \cup {"DRQ"}) \ {"BUSY"}) \cup {"LOST"}
    BY <1>0, <2>1, <2>2 DEF FdcState
  <2>4. "BUSY" \notin c.status /\ "LOST" \in c.status
    BY <2>3
  <2> QED BY <1>1, <2>3, <2>4 DEF c
<1>2. CASE s.ev.f = "done"
  <2>1. c = [s.fdc EXCEPT !.status = (@ \ {"BUSY"}) \cup ({s.ev.arg} \ {"none"})]
    BY <1>2 DEF DrainFdc, EventFdc
  <2>2. c \in FdcState
    BY <1>2, EventFdcType DEF DrainFdc
  <2> HIDE DEF c
  <2>3. /\ c.cmd = s.fdc.cmd /\ c.drive = s.fdc.drive
        /\ c.motor = s.fdc.motor /\ c.fmt = s.fdc.fmt /\ c.left = s.fdc.left
        /\ c.status = (s.fdc.status \ {"BUSY"}) \cup ({s.ev.arg} \ {"none"})
    BY <1>0, <2>1 DEF FdcState
  <2>4. "BUSY" \notin c.status
    BY <1>2, <2>3 DEF Sound
  <2>5. s.fdc.status \ {"BUSY"} \subseteq c.status /\ {s.ev.arg} \ {"none"} \subseteq c.status
    BY <2>3
  <2>6. s.ev.f \notin {"lostdata", "firstdrq"}
    BY <1>2
  <2>7. Ends(s)
    BY <1>2 DEF Ends
  <2>8. c.left \in {0, s.fdc.left}
    BY <2>3
  <2> QED BY <2>2, <2>3, <2>4, <2>5, <2>6, <2>7, <2>8 DEF c
<1>3. CASE s.ev.f = "lostdata" /\ s.ev.arg = s.fdc.cmd
  <2>1. c = [s.fdc EXCEPT !.status = (@ \ {"BUSY"}) \cup {"LOST"}, !.left = 0]
    BY <1>3 DEF DrainFdc, EventFdc
  <2>2. c \in FdcState
    BY <1>3, EventFdcType DEF DrainFdc
  <2> HIDE DEF c
  <2>3. /\ c.cmd = s.fdc.cmd /\ c.drive = s.fdc.drive
        /\ c.motor = s.fdc.motor /\ c.fmt = s.fdc.fmt /\ c.left = 0
        /\ c.status = (s.fdc.status \ {"BUSY"}) \cup {"LOST"}
    BY <1>0, <2>1 DEF FdcState
  <2>4. "BUSY" \notin c.status /\ "LOST" \in c.status
    BY <2>3
  <2> QED BY <1>3, <2>2, <2>3, <2>4 DEF c, Ends
<1>4. CASE s.ev.f \notin {"done", "firstdrq"} /\ ~Ends(s)
  <2>1. c = s.fdc
    BY <1>4 DEF DrainFdc, EventFdc, Ends
  <2> QED BY <1>0, <1>4, <2>1
<1> QED BY <1>1, <1>2, <1>3, <1>4 DEF Ends

\* trs_schedule_event: what is in the slot runs first.
LEMMA ScheduleRuns ==
  ASSUME NEW s, Sound(s), NEW f, NEW arg, NEW now,
         [f |-> f, arg |-> arg, now |-> now] \in EventState,
         f # "none", f = "done" => arg \in {"none", "FAIL"}
  PROVE  /\ Drained(s, Schedule(s, f, arg, now))
         /\ Schedule(s, f, arg, now).ev = [f |-> f, arg |-> arg, now |-> now]
<1> DEFINE e == [f |-> f, arg |-> arg, now |-> now]
           d == Drain(s)
<1>1. Drained(s, d)
  BY DrainRuns
<1>2. d \in Machines /\ Sound(d) /\ d.fdc \in FdcState /\ d.uart \in UartState
  BY <1>1 DEF Drained, Sound, Machines
<1>3. Schedule(s, f, arg, now) = With(d, d.fdc, d.uart, e)
  BY <1>2 DEF Schedule, Post, With, Machines
<1>4. e \in EventState /\ e.f = f /\ e.arg = arg
  OBVIOUS
<1> HIDE DEF d, e
<1>5. LET t == With(d, d.fdc, d.uart, e) IN
      /\ Sound(t) /\ t.fdc = d.fdc /\ t.uart = d.uart /\ t.ev = e
      /\ t.model = d.model /\ t.disk = d.disk /\ t.alive = d.alive
      /\ Raised(d) <=> Raised(t)
  BY <1>2, <1>4, SetFields
<1>6. e = [f |-> f, arg |-> arg, now |-> now]
  BY DEF e
<1> QED BY <1>1, <1>3, <1>5, <1>6 DEF Drained

LEMMA DoneScheduled ==
  ASSUME NEW s, Sound(s), NEW arg \in {"none", "FAIL"}, NEW now \in BOOLEAN
  PROVE  /\ Drained(s, Schedule(s, "done", arg, now))
         /\ Schedule(s, "done", arg, now).ev = [f |-> "done", arg |-> arg, now |-> now]
<1>1. [f |-> "done", arg |-> arg, now |-> now] \in EventState
  BY DEF EventState
<1> QED BY <1>1, ScheduleRuns

LEMMA OtherScheduled ==
  ASSUME NEW s, Sound(s), NEW f \in {"avail", "reset", "firstdrq", "lostdata"},
         NEW arg \in {"none"} \cup Commands, NEW now \in BOOLEAN
  PROVE  /\ Drained(s, Schedule(s, f, arg, now))
         /\ Schedule(s, f, arg, now).ev = [f |-> f, arg |-> arg, now |-> now]
<1>1. [f |-> f, arg |-> arg, now |-> now] \in EventState
  BY DEF EventState
<1> QED BY <1>1, ScheduleRuns

-----------------------------------------------------------------------------
(* What a handler keeps, and how a command may end in it.                  *)

\* An event for now is a done that a controller no longer busy asked for.
Prompt(s) == s.ev.now => s.ev.f = "done" /\ "BUSY" \notin s.fdc.status

Accounts(s, t) ==
  "BUSY" \in s.fdc.status /\ "BUSY" \notin t.fdc.status =>
    /\ s.fdc.left = 0 \/ "LOST" \in t.fdc.status \/ "FAIL" \in t.fdc.status
    /\ Raised(t) \/ ~t.fdc.motor \/ (t.ev.now /\ t.ev.f = "done")

Follows(s, t) ==
  /\ Sound(t) /\ t.model = s.model
  /\ Timed(s) => Timed(t)
  /\ Counted(s) => Counted(t)
  /\ Prompt(s) => Prompt(t)
  /\ Announced(s) => Announced(t)

Keeps(s, t) == Follows(s, t) /\ (Timed(s) /\ Counted(s) => Accounts(s, t))

LEMMA FollowsTrans ==
  ASSUME NEW s, NEW t, NEW u, Follows(s, t), Follows(t, u)
  PROVE  Follows(s, u)
BY DEF Follows

LEMMA KeepsItself ==
  ASSUME NEW s, Sound(s)
  PROVE  Keeps(s, s)
BY DEF Keeps, Follows, Accounts

\* Interrupts, apart from those taken back, change nothing of it.
LEMMA SignalsKeep ==
  ASSUME NEW s, Sound(s), NEW t, Signals(s, t)
  PROVE  Keeps(s, t)
<1>1. t.model = s.model /\ t.fdc = s.fdc /\ t.ev = s.ev
  BY DEF Signals
<1> QED BY <1>1, SignalsSound DEF Keeps, Follows, Accounts, Prompt

LEMMA KeepsSignals ==
  ASSUME NEW s, NEW t, NEW u, Keeps(s, t), Signals(t, u), Raised(t) => Raised(u)
  PROVE  Keeps(s, u)
<1>1. Sound(t)
  BY DEF Keeps, Follows
<1>2. u.model = t.model /\ u.fdc = t.fdc /\ u.ev = t.ev
  BY DEF Signals
<1>3. Follows(s, u)
  BY <1>1, <1>2, SignalsSound DEF Keeps, Follows, Prompt
<1>4. Timed(s) /\ Counted(s) => Accounts(s, u)
  BY <1>2 DEF Keeps, Accounts
<1> QED BY <1>3, <1>4 DEF Keeps

\* The serial port's bytes stay announced if its event runs or stays.
LEMMA EventAnnounces ==
  ASSUME NEW s, Sound(s), NEW t, Announced(s), t.uart = EventUart(s), t.ev.f # "avail"
  PROVE  Announced(t)
<1>1. s.uart \in UartState
  BY DEF Sound, Machines
<1>2. CASE s.ev.f = "avail"
  <2>1. t.uart = [s.uart EXCEPT !.rcvd = TRUE]
    BY <1>2 DEF EventUart
  <2>2. t.uart.init = s.uart.init /\ t.uart.left = s.uart.left /\ t.uart.rcvd
    BY <1>1, <2>1 DEF UartState
  <2>3. s.uart.init = "yes" /\ s.uart.left >= 0 /\ s.uart.left # 0
    BY <1>2 DEF Announced
  <2> QED BY <2>2, <2>3 DEF Announced
<1>3. CASE s.ev.f # "avail"
  <2>1. t.uart = s.uart
    BY <1>3 DEF EventUart
  <2> QED BY <1>3, <2>1 DEF Announced
<1> QED BY <1>2, <1>3

\* A step that only adds to the status, passes bytes or ends formatting.
Stays(s, t) ==
  /\ Sound(t) /\ t.model = s.model /\ t.disk = s.disk /\ t.alive = s.alive
  /\ t.int = s.int /\ t.ev = s.ev /\ t.uart = s.uart
  /\ t.fdc.cmd = s.fdc.cmd /\ t.fdc.motor = s.fdc.motor /\ t.fdc.drive = s.fdc.drive
  /\ s.fdc.status \subseteq t.fdc.status
  /\ t.fdc.status \subseteq s.fdc.status \cup {"FAIL"}
  /\ s.fdc.left = 0 => t.fdc.left = 0

LEMMA StaysTrans ==
  ASSUME NEW s, NEW t, NEW u, Stays(s, t), Stays(t, u)
  PROVE  Stays(s, u)
BY DEF Stays

LEMMA StaysKeeps ==
  ASSUME NEW s, Sound(s), NEW t, Stays(s, t)
  PROVE  Keeps(s, t)
<1>1. "BUSY" \in s.fdc.status <=> "BUSY" \in t.fdc.status
  BY DEF Stays
<1>2. "DRQ" \in s.fdc.status <=> "DRQ" \in t.fdc.status
  BY DEF Stays
<1>3. /\ Timed(s) => Timed(t)
      /\ Counted(s) => Counted(t)
      /\ Prompt(s) => Prompt(t)
      /\ Announced(s) => Announced(t)
  BY <1>1, <1>2 DEF Stays, Timed, Counted, Prompt, Announced, Waiting4Index
<1> QED BY <1>1, <1>3 DEF Stays, Keeps, Follows, Accounts

LEMMA KeepsStays ==
  ASSUME NEW s, NEW t, NEW u, Keeps(s, t), Stays(t, u)
  PROVE  Keeps(s, u)
<1>1. Sound(t)
  BY DEF Keeps, Follows
<1>2. Follows(t, u)
  BY <1>1, StaysKeeps DEF Keeps
<1>3. Follows(s, u)
  BY <1>2, FollowsTrans DEF Keeps
<1>4. Raised(t) <=> Raised(u)
  BY DEF Stays, Raised
<1>5. ASSUME Accounts(s, t) PROVE Accounts(s, u)
  BY <1>4, <1>5 DEF Accounts, Stays
<1> QED BY <1>3, <1>5 DEF Keeps

LEMMA SetFdcStays ==
  ASSUME NEW s, Sound(s), NEW f \in FdcState,
         f.cmd = s.fdc.cmd, f.motor = s.fdc.motor, f.drive = s.fdc.drive,
         s.fdc.status \subseteq f.status, f.status \subseteq s.fdc.status \cup {"FAIL"},
         s.fdc.left = 0 => f.left = 0
  PROVE  LET t == [s EXCEPT !.fdc = f] IN Stays(s, t) /\ t.fdc = f
<1>1. s \in Machines /\ s.uart \in UartState /\ s.ev \in EventState
      /\ (s.ev.f = "done" => s.ev.arg \in {"none", "FAIL"})
      /\ (s.ev.f = "none" => s.ev = NoEvent)
  BY DEF Sound, Machines
<1>2. [s EXCEPT !.fdc = f] = With(s, f, s.uart, s.ev)
  BY <1>1 DEF Machines, With
<1> QED BY <1>1, <1>2, SetFields DEF Stays

LEMMA FaultStays ==
  ASSUME NEW s, Sound(s), NEW ok \in BOOLEAN
  PROVE  Stays(s, Fault(s, ok)) /\ Fault(s, ok).fdc.left = s.fdc.left
         /\ Fault(s, ok).fdc.fmt = s.fdc.fmt
<1>1. Stays(s, s)
  BY DEF Stays
<1> DEFINE f == [s.fdc EXCEPT !.status = @ \cup {"FAIL"}]
<1>2. s \in Machines /\ s.fdc \in FdcState
  BY DEF Sound, Machines
<1>3. f \in FdcState /\ f.cmd = s.fdc.cmd /\ f.motor = s.fdc.motor /\ f.drive = s.fdc.drive
      /\ f.status = s.fdc.status \cup {"FAIL"} /\ f.left = s.fdc.left
      /\ f.fmt = s.fdc.fmt
  BY <1>2 DEF FdcState, Bits
<1>4. ~ok => Fault(s, ok) = [s EXCEPT !.fdc = f]
  BY <1>2 DEF Fault, Machines, FdcState
<1> HIDE DEF f
<1>5. s.fdc.status \subseteq f.status /\ f.status \subseteq s.fdc.status \cup {"FAIL"}
  BY <1>3
<1>6. Stays(s, [s EXCEPT !.fdc = f]) /\ [s EXCEPT !.fdc = f].fdc = f
  BY <1>3, <1>5, SetFdcStays
<1> QED BY <1>1, <1>3, <1>4, <1>6 DEF Fault

LEMMA PassedStays ==
  ASSUME NEW s, Sound(s)
  PROVE  Stays(s, Passed(s, 1)) /\ Passed(s, 1).fdc.fmt = s.fdc.fmt
<1> DEFINE n == IF s.fdc.left > 1 THEN s.fdc.left - 1 ELSE 0
           f == [s.fdc EXCEPT !.left = n]
<1>1. s \in Machines /\ s.fdc \in FdcState /\ s.fdc.left \in Nat
  BY DEF Sound, Machines, FdcState
<1>2. n \in Nat /\ (s.fdc.left = 0 => n = 0)
  BY <1>1
<1>3. Passed(s, 1) = [s EXCEPT !.fdc = f]
  BY <1>1 DEF Passed, Machines, FdcState
<1> HIDE DEF n
<1>4. f \in FdcState /\ f.cmd = s.fdc.cmd /\ f.motor = s.fdc.motor /\ f.drive = s.fdc.drive
      /\ f.status = s.fdc.status /\ f.left = n /\ f.fmt = s.fdc.fmt
  BY <1>1, <1>2 DEF FdcState
<1> HIDE DEF f
<1>5. Stays(s, [s EXCEPT !.fdc = f]) /\ [s EXCEPT !.fdc = f].fdc = f
  BY <1>2, <1>4, SetFdcStays
<1> QED BY <1>3, <1>4, <1>5

LEMMA FmtStays ==
  ASSUME NEW s, Sound(s), NEW on \in BOOLEAN
  PROVE  Stays(s, [s EXCEPT !.fdc.fmt = on]) /\ [s EXCEPT !.fdc.fmt = on].fdc.left = s.fdc.left
<1> DEFINE f == [s.fdc EXCEPT !.fmt = on]
<1>1. s \in Machines /\ s.fdc \in FdcState
  BY DEF Sound, Machines, FdcState
<1>3. [s EXCEPT !.fdc.fmt = on] = [s EXCEPT !.fdc = f]
  BY <1>1 DEF Machines, FdcState
<1>4. f \in FdcState /\ f.cmd = s.fdc.cmd /\ f.motor = s.fdc.motor /\ f.drive = s.fdc.drive
      /\ f.status = s.fdc.status /\ f.left = s.fdc.left
  BY <1>1 DEF FdcState
<1> HIDE DEF f
<1>5. Stays(s, [s EXCEPT !.fdc = f]) /\ [s EXCEPT !.fdc = f].fdc = f
  BY <1>4, SetFdcStays
<1> QED BY <1>3, <1>4, <1>5

LEMMA CrashKeeps ==
  ASSUME NEW s, NEW t, Keeps(s, t)
  PROVE  Keeps(s, Crash(t)) /\ ~Crash(t).alive
<1> DEFINE u == Crash(t)
<1>1. t \in Machines
  BY DEF Keeps, Follows, Sound
<1>2. /\ u \in Machines /\ u.model = t.model /\ u.int = t.int /\ u.ev = t.ev
      /\ u.uart = t.uart /\ u.fdc = t.fdc /\ ~u.alive
  BY <1>1 DEF Crash, Machines
<1> HIDE DEF u
<1>3. /\ Sound(t) => Sound(u) /\ u.model = t.model
      /\ Timed(t) <=> Timed(u)
      /\ Counted(t) <=> Counted(u)
      /\ Prompt(t) <=> Prompt(u)
      /\ Announced(t) <=> Announced(u)
      /\ Raised(t) <=> Raised(u)
  BY <1>2 DEF Sound, Wired, Timed, Counted, Prompt, Announced, Raised, Waiting4Index
<1>4. Follows(s, u)
  BY <1>2, <1>3 DEF Keeps, Follows
<1>5. Accounts(s, t) => Accounts(s, u)
  BY <1>2, <1>3 DEF Accounts
<1> QED BY <1>2, <1>4, <1>5 DEF Keeps, u

\* trs_disk_unimpl.
LEMMA UnimplRuns ==
  ASSUME NEW s, Sound(s)
  PROVE  LET t == Unimpl(s) IN
         /\ Sound(t) /\ t.model = s.model /\ t.disk = s.disk /\ t.alive = s.alive
         /\ t.uart = EventUart(s) /\ t.ev = [f |-> "done", arg |-> "none", now |-> TRUE]
         /\ t.fdc.cmd = s.fdc.cmd /\ t.fdc.drive = s.fdc.drive /\ t.fdc.motor = s.fdc.motor
         /\ t.fdc.left = 0 /\ "FAIL" \in t.fdc.status /\ "BUSY" \notin t.fdc.status
<1> DEFINE f == [s.fdc EXCEPT !.status = {"FAIL"}, !.left = 0, !.fmt = FALSE]
           p == With(s, f, s.uart, s.ev)
           t == Schedule(p, "done", "none", TRUE)
<1>1. s \in Machines /\ s.fdc \in FdcState /\ s.uart \in UartState /\ s.ev \in EventState
      /\ (s.ev.f = "done" => s.ev.arg \in {"none", "FAIL"})
      /\ (s.ev.f = "none" => s.ev = NoEvent)
  BY DEF Sound, Machines
<1>2. /\ f \in FdcState /\ f.cmd = s.fdc.cmd /\ f.motor = s.fdc.motor
      /\ f.drive = s.fdc.drive /\ f.left = 0 /\ f.status = {"FAIL"}
  BY <1>1 DEF FdcState, Bits
<1>3. Unimpl(s) = t
  BY <1>1 DEF Unimpl, With, Machines
<1> HIDE DEF f
<1>4. /\ Sound(p) /\ p.fdc = f /\ p.uart = s.uart /\ p.ev = s.ev
      /\ p.model = s.model /\ p.disk = s.disk /\ p.alive = s.alive
  BY <1>1, <1>2, SetFields
<1> HIDE DEF p
<1>6. Drained(p, t) /\ t.ev = [f |-> "done", arg |-> "none", now |-> TRUE]
  BY <1>4, DoneScheduled
<1> HIDE DEF t
<1>7. EventUart(p) = EventUart(s)
  BY <1>4 DEF EventUart
<1>8. /\ t.fdc.cmd = s.fdc.cmd /\ t.fdc.drive = s.fdc.drive /\ t.fdc.motor = s.fdc.motor
      /\ t.fdc.left = 0 /\ {"FAIL"} \ {"BUSY"} \subseteq t.fdc.status
      /\ "BUSY" \notin t.fdc.status
  BY <1>2, <1>4, <1>6, DrainFdcFacts DEF Drained
<1> QED BY <1>3, <1>4, <1>6, <1>7, <1>8 DEF Drained

LEMMA UnimplKeeps ==
  ASSUME NEW s, Sound(s)
  PROVE  Keeps(s, Unimpl(s)) /\ Unimpl(s).fdc.left = 0 /\ Unimpl(s).ev.f = "done"
<1> DEFINE t == Unimpl(s)
<1>1. /\ Sound(t) /\ t.model = s.model
      /\ t.uart = EventUart(s) /\ t.ev.f = "done" /\ t.ev.now
      /\ t.fdc.left = 0 /\ "FAIL" \in t.fdc.status /\ "BUSY" \notin t.fdc.status
  BY UnimplRuns
<1> HIDE DEF t
<1>2. Announced(s) => Announced(t)
  BY <1>1, EventAnnounces
<1> QED BY <1>1, <1>2 DEF Keeps, Follows, Accounts, Timed, Counted, Prompt, t

\* Finish: the interrupt of what was in the slot before, if it ran.
LEMMA FinishRuns ==
  ASSUME NEW s, Sound(s)
  PROVE  LET t == Finish(s) IN
         /\ Sound(t) /\ t.model = s.model
         /\ t.uart = EventUart(s) /\ t.ev = [f |-> "done", arg |-> "none", now |-> FALSE]
         /\ t.fdc.cmd = s.fdc.cmd /\ t.fdc.motor = s.fdc.motor
         /\ t.fdc.left \in {0, s.fdc.left}
         /\ s.fdc.status \ {"BUSY", "DRQ"} \subseteq t.fdc.status
         /\ "BUSY" \in s.fdc.status /\ "BUSY" \notin t.fdc.status =>
              /\ Raised(t)
              /\ \/ s.ev.f = "firstdrq" /\ "LOST" \in t.fdc.status
                 \/ s.ev.f = "done" /\ {s.ev.arg} \ {"none"} \subseteq t.fdc.status
         /\ Raised(s) \/ s.ev.f = "done" => Raised(t)
<1> DEFINE f == [s.fdc EXCEPT !.status = @ \ {"DRQ"}]
           e == IF s.ev.f = "lostdata" THEN NoEvent ELSE s.ev
           p == With(s, f, s.uart, e)
           t == Schedule(p, "done", "none", FALSE)
<1>1. s \in Machines /\ s.fdc \in FdcState /\ s.uart \in UartState /\ s.ev \in EventState
      /\ (s.ev.f = "done" => s.ev.arg \in {"none", "FAIL"})
      /\ (s.ev.f = "none" => s.ev = NoEvent)
  BY DEF Sound, Machines
<1>2. /\ f \in FdcState /\ f.cmd = s.fdc.cmd /\ f.motor = s.fdc.motor
      /\ f.drive = s.fdc.drive /\ f.left = s.fdc.left /\ f.status = s.fdc.status \ {"DRQ"}
  BY <1>1 DEF FdcState
<1>3. Finish(s) = t
  BY <1>1 DEF Finish, With, Machines, Cancel
<1>4. /\ e \in EventState /\ e.f # "lostdata"
      /\ (e.f = "done" => e.arg \in {"none", "FAIL"})
      /\ (e.f = "none" => e = NoEvent)
  BY <1>1, NoEventType DEF NoEvent
<1>5. s.ev.f # "lostdata" => e = s.ev
  OBVIOUS
<1>6. s.ev.f = "lostdata" => e.f = "none"
  BY DEF NoEvent
<1> HIDE DEF f, e
<1>7. /\ Sound(p) /\ p.fdc = f /\ p.uart = s.uart /\ p.ev = e
      /\ p.model = s.model /\ (Raised(s) <=> Raised(p))
  BY <1>1, <1>2, <1>4, SetFields
<1> HIDE DEF p
<1>9. Drained(p, t) /\ t.ev = [f |-> "done", arg |-> "none", now |-> FALSE]
  BY <1>7, DoneScheduled
<1> HIDE DEF t
<1>10. EventUart(p) = EventUart(s)
  BY <1>5, <1>6, <1>7 DEF EventUart
<1>11. /\ t.fdc.cmd = s.fdc.cmd /\ t.fdc.motor = s.fdc.motor
       /\ t.fdc.left \in {0, s.fdc.left}
       /\ (s.fdc.status \ {"DRQ"}) \ {"BUSY"} \subseteq t.fdc.status
       /\ "BUSY" \in f.status /\ "BUSY" \notin t.fdc.status =>
            Ends(p) \/ e.f = "firstdrq"
       /\ e.f = "firstdrq" /\ "BUSY" \in f.status => t.fdc = f \/ "LOST" \in t.fdc.status
       /\ e.f = "done" => {e.arg} \ {"none"} \subseteq t.fdc.status
  BY <1>2, <1>7, <1>9, DrainFdcFacts DEF Drained
<1>12. ASSUME "BUSY" \in s.fdc.status, "BUSY" \notin t.fdc.status
       PROVE  /\ Raised(t)
              /\ \/ s.ev.f = "firstdrq" /\ "LOST" \in t.fdc.status
                 \/ s.ev.f = "done" /\ {s.ev.arg} \ {"none"} \subseteq t.fdc.status
  <2>1. "BUSY" \in f.status
    BY <1>2, <1>12
  <2>2. Ends(p) \/ e.f = "firstdrq"
    BY <1>11, <1>12, <2>1
  <2>3. e.f \in {"done", "firstdrq"}
    BY <1>4, <1>7, <2>2 DEF Ends
  <2>4. e = s.ev
    BY <1>5, <1>6, <2>3
  <2>5. Raised(t)
    BY <1>7, <1>9, <2>2 DEF Drained
  <2> QED BY <1>11, <1>12, <2>1, <2>3, <2>4, <2>5
<1>13. Raised(s) \/ s.ev.f = "done" => Raised(t)
  BY <1>5, <1>7, <1>9 DEF Drained, Ends
<1>14. s.fdc.status \ {"BUSY", "DRQ"} \subseteq t.fdc.status
  BY <1>11
<1> QED BY <1>3, <1>7, <1>9, <1>10, <1>11, <1>12, <1>13, <1>14 DEF Drained

\* The last byte has passed, perhaps after a complaint about the track.
LEMMA FinishKeeps ==
  ASSUME NEW s, Sound(s), NEW p, Stays(s, p), p.fdc.left = 0
  PROVE  Keeps(s, Finish(p))
<1> DEFINE t == Finish(p)
<1>1. Sound(p) /\ Keeps(s, p)
  BY StaysKeeps DEF Stays
<1>2. /\ Sound(t) /\ t.model = s.model /\ t.uart = EventUart(p)
      /\ t.ev.f = "done" /\ ~t.ev.now /\ t.fdc.left = 0
      /\ p.fdc.status \ {"BUSY", "DRQ"} \subseteq t.fdc.status
      /\ "BUSY" \in p.fdc.status /\ "BUSY" \notin t.fdc.status =>
           /\ Raised(t)
           /\ \/ "LOST" \in t.fdc.status
              \/ p.ev.f = "done" /\ {p.ev.arg} \ {"none"} \subseteq t.fdc.status
  BY <1>1, FinishRuns DEF Stays
<1> HIDE DEF t
<1>3. Announced(s) => Announced(t)
  BY <1>1, <1>2, EventAnnounces DEF Keeps, Follows
<1>4. Follows(s, t)
  BY <1>2, <1>3 DEF Follows, Timed, Counted, Prompt
<1>5. ASSUME Counted(s), "BUSY" \in s.fdc.status, "BUSY" \notin t.fdc.status
      PROVE  /\ Raised(t)
             /\ s.fdc.left = 0 \/ "LOST" \in t.fdc.status \/ "FAIL" \in t.fdc.status
  <2>1. "BUSY" \in p.fdc.status /\ p.ev = s.ev
    BY <1>5 DEF Stays
  <2>2. CASE s.ev.f = "done" /\ {s.ev.arg} \ {"none"} \subseteq t.fdc.status
    BY <1>2, <1>5, <2>1, <2>2 DEF Counted
  <2> QED BY <1>2, <1>5, <2>1, <2>2
<1> QED BY <1>4, <1>5 DEF Keeps, Accounts, t

LEMMA ComplaintFinishKeeps ==
  ASSUME NEW s, Sound(s), NEW p, Stays(Unimpl(s), p)
  PROVE  Keeps(s, Finish(p))
<1> DEFINE u == Unimpl(s)
           t == Finish(p)
<1>1. /\ Keeps(s, u) /\ u.fdc.left = 0 /\ u.ev.f = "done"
      /\ "FAIL" \in u.fdc.status /\ Sound(u)
  BY UnimplKeeps, UnimplRuns
<1> HIDE DEF u
<1>2. Sound(p) /\ p.fdc.left = 0 /\ p.ev = u.ev /\ "FAIL" \in p.fdc.status
      /\ Stays(u, p)
  BY <1>1 DEF Stays, u
<1>3. Keeps(u, t)
  BY <1>1, <1>2, FinishKeeps
<1>4. Raised(t) /\ "FAIL" \in t.fdc.status
  BY <1>1, <1>2, FinishRuns
<1> HIDE DEF t
<1>5. Follows(s, t)
  BY <1>1, <1>3, FollowsTrans DEF Keeps
<1> QED BY <1>4, <1>5 DEF Keeps, Accounts, t

LEMMA DataReadKeeps ==
  ASSUME NEW s, Sound(s)
  PROVE  Keeps(s, DataRead(s))
<1> DEFINE p == Passed(s, 1)
<1>1. Stays(s, p) /\ Keeps(s, s)
  BY PassedStays, KeepsItself
<1> HIDE DEF p
<1>2. Keeps(s, p) /\ Keeps(s, Crash(s)) /\ (p.fdc.left = 0 => Keeps(s, Finish(p)))
  BY <1>1, StaysKeeps, CrashKeeps, FinishKeeps
<1>3. DataRead(s) \in {s, Crash(s), p, Finish(p)}
      /\ (DataRead(s) = Finish(p) => p.fdc.left = 0 \/ DataRead(s) \in {s, Crash(s), p})
  BY DEF DataRead, ReadByte, p
<1> QED BY <1>1, <1>2, <1>3

LEMMA WriteByteKeeps ==
  ASSUME NEW s, Sound(s), NEW ok \in BOOLEAN
  PROVE  Keeps(s, WriteByte(s, ok))
<1> DEFINE q == Passed(s, 1)
           p == Fault(q, ok)
<1>1. Stays(s, q) /\ Sound(q)
  BY PassedStays DEF Stays
<1>2. Stays(q, p)
  BY <1>1, FaultStays
<1>3. Stays(s, p)
  BY <1>1, <1>2, StaysTrans
<1>4. WriteByte(s, ok) = IF s.fdc.left = 0 THEN s
                         ELSE IF ~Selected(s).file THEN Crash(s)
                         ELSE IF p.fdc.left = 0 THEN Fault(Finish(p), ok) ELSE p
  BY DEF WriteByte
<1> HIDE DEF p, q
<1>5. CASE p.fdc.left = 0 /\ WriteByte(s, ok) = Fault(Finish(p), ok)
  <2>1. Keeps(s, Finish(p)) /\ Sound(Finish(p))
    BY <1>3, <1>5, FinishKeeps DEF Keeps, Follows
  <2>2. Stays(Finish(p), Fault(Finish(p), ok))
    BY <2>1, FaultStays
  <2> QED BY <1>5, <2>1, <2>2, KeepsStays
<1>6. Keeps(s, s) /\ Keeps(s, Crash(s)) /\ Keeps(s, p)
  BY <1>3, StaysKeeps, CrashKeeps, KeepsItself
<1> QED BY <1>4, <1>5, <1>6

LEMMA FormatEndKeeps ==
  ASSUME NEW s, Sound(s), NEW p, Stays(s, p), p.fdc.left = 0, NEW e, NEW ok \in BOOLEAN
  PROVE  Keeps(s, FormatEnd(p, e, ok))
<1> DEFINE complains == e = "complaint" /\ Selected(p).type # "JV3"
           c == IF complains THEN Unimpl(p) ELSE p
           f == [c EXCEPT !.fdc.fmt = FALSE]
           d == Finish(f)
<1>1. Sound(p) /\ Keeps(s, p)
  BY StaysKeeps DEF Stays
<1>2. FormatEnd(p, e, ok) = IF Selected(p).file THEN Fault(d, ok) ELSE d
  BY DEF FormatEnd
<1>3. CASE complains
  <2>1. c = Unimpl(p) /\ Sound(c)
    BY <1>1, <1>3, UnimplRuns
  <2>2. Stays(c, f)
    BY <2>1, FmtStays
  <2> HIDE DEF f
  <2>3. Keeps(p, d)
    BY <1>1, <2>1, <2>2, ComplaintFinishKeeps
  <2>4. Raised(d) /\ "FAIL" \in d.fdc.status
    <3>1. Sound(f) /\ f.ev.f = "done" /\ "FAIL" \in f.fdc.status
      BY <1>1, <2>1, <2>2, UnimplRuns DEF Stays
    <3> QED BY <3>1, FinishRuns
  <2> HIDE DEF d
  <2>5. Follows(s, d)
    BY <1>1, <2>3, FollowsTrans DEF Keeps
  <2>6. Keeps(s, d) /\ Sound(d)
    BY <2>4, <2>5 DEF Keeps, Accounts, Follows
  <2> QED BY <1>2, <2>6, FaultStays, KeepsStays
<1>4. CASE ~complains
  <2>1. Stays(p, f) /\ f.fdc.left = 0
    BY <1>1, <1>4, FmtStays
  <2> HIDE DEF f
  <2>2. Stays(s, f)
    BY <2>1, StaysTrans
  <2>3. Keeps(s, d)
    BY <2>1, <2>2, FinishKeeps
  <2>4. Sound(d)
    BY <2>3 DEF Keeps, Follows
  <2> HIDE DEF d
  <2> QED BY <1>2, <2>3, <2>4, FaultStays, KeepsStays
<1> QED BY <1>3, <1>4

LEMMA KeepsUnimpl ==
  ASSUME NEW s, NEW p, Keeps(s, p)
  PROVE  Keeps(s, Unimpl(p)) /\ Sound(Unimpl(p))
<1>1. Sound(p)
  BY DEF Keeps, Follows
<1>2. Keeps(p, Unimpl(p)) /\ "FAIL" \in Unimpl(p).fdc.status
      /\ Unimpl(p).ev = [f |-> "done", arg |-> "none", now |-> TRUE]
  BY <1>1, UnimplKeeps, UnimplRuns
<1>3. Follows(s, Unimpl(p))
  BY <1>2, FollowsTrans DEF Keeps
<1> QED BY <1>2, <1>3 DEF Keeps, Accounts, Follows

LEMMA FormatStepKeeps ==
  ASSUME NEW s, Sound(s), NEW p, Stays(s, p),
         NEW e \in {"taken", "written", "crc", "complaint", "full"}
  PROVE  Keeps(s, FormatStep(p, e))
<1>1. Sound(p) /\ Keeps(s, p)
  BY StaysKeeps DEF Stays
<1>2. CASE e \in {"taken", "written"}
  BY <1>1, <1>2 DEF FormatStep
<1>3. CASE e = "crc"
  <2>1. FormatStep(p, e) = Passed(p, 1)
    BY <1>3 DEF FormatStep
  <2> QED BY <1>1, <2>1, PassedStays, KeepsStays
<1>4. CASE e = "complaint"
  <2>1. FormatStep(p, e) = [Unimpl(p) EXCEPT !.fdc.fmt = TRUE]
    BY <1>4 DEF FormatStep
  <2>2. Keeps(s, Unimpl(p)) /\ Sound(Unimpl(p))
    BY <1>1, KeepsUnimpl
  <2> QED BY <2>1, <2>2, FmtStays, KeepsStays
<1>5. CASE e = "full"
  <2> DEFINE f == [p.fdc EXCEPT !.status = @ \cup {"FAIL"}, !.left = 0, !.fmt = FALSE]
  <2>1. p \in Machines /\ p.fdc \in FdcState
    BY <1>1 DEF Sound, Machines
  <2>2. FormatStep(p, e) = [p EXCEPT !.fdc = f]
    BY <1>5, <2>1 DEF FormatStep, Machines, FdcState
  <2>3. f \in FdcState /\ f.cmd = p.fdc.cmd /\ f.motor = p.fdc.motor /\ f.drive = p.fdc.drive
        /\ f.status = p.fdc.status \cup {"FAIL"} /\ f.left = 0
    BY <2>1 DEF FdcState, Bits
  <2> HIDE DEF f
  <2>4. p.fdc.status \subseteq f.status /\ f.status \subseteq p.fdc.status \cup {"FAIL"}
    BY <2>3
  <2>5. Stays(p, [p EXCEPT !.fdc = f])
    BY <1>1, <2>3, <2>4, SetFdcStays
  <2> QED BY <1>1, <2>2, <2>5, KeepsStays
<1> QED BY <1>2, <1>3, <1>4, <1>5

LEMMA FormatByteKeeps ==
  ASSUME NEW s, Sound(s), NEW ok \in BOOLEAN,
         NEW e \in {"taken", "written", "crc", "complaint", "full"}
  PROVE  Keeps(s, FormatByte(s, e, ok))
<1> DEFINE p == Passed(s, 1)
<1>1. Stays(s, p) /\ Keeps(s, p)
  BY PassedStays, StaysKeeps
<1>2. \/ FormatByte(s, e, ok) \in {p, Crash(s), FormatStep(p, e), Fault(FormatStep(p, e), ok)}
      \/ p.fdc.left = 0 /\ FormatByte(s, e, ok) = FormatEnd(p, e, ok)
  BY DEF FormatByte
<1> HIDE DEF p
<1>3. Keeps(s, FormatStep(p, e))
  BY <1>1, FormatStepKeeps
<1>4. Sound(FormatStep(p, e))
  BY <1>3 DEF Keeps, Follows
<1>5. Keeps(s, Fault(FormatStep(p, e), ok))
  BY <1>3, <1>4, FaultStays, KeepsStays
<1>6. Keeps(s, Crash(s))
  BY KeepsItself, CrashKeeps
<1>7. CASE p.fdc.left = 0 /\ FormatByte(s, e, ok) = FormatEnd(p, e, ok)
  BY <1>1, <1>7, FormatEndKeeps
<1> QED BY <1>1, <1>2, <1>3, <1>5, <1>6, <1>7

LEMMA DataWriteKeeps ==
  ASSUME NEW s, Sound(s), NEW ok \in BOOLEAN,
         NEW e \in {"taken", "written", "crc", "complaint", "full"}
  PROVE  Keeps(s, DataWrite(s, e, ok))
BY WriteByteKeeps, FormatByteKeeps, KeepsItself DEF DataWrite

-----------------------------------------------------------------------------
(* The motor and the choice of a drive.                                    *)

LEMMA MotorStopsKeeps ==
  ASSUME NEW s, Sound(s)
  PROVE  /\ Keeps(s, MotorStops(s)) /\ (~s.ev.now => ~MotorStops(s).ev.now)
         /\ MotorStops(s).alive = s.alive /\ MotorStops(s).fdc.cmd = s.fdc.cmd
<1> DEFINE aborts == s.fdc.cmd \notin TypeI \cup {"FORCEINT"} /\ "DRQ" \in s.fdc.status
           f == IF aborts
                THEN [s.fdc EXCEPT !.motor = FALSE, !.left = 0,
                                   !.status = (@ \cup {"LOST"}) \ {"BUSY", "DRQ"}]
                ELSE [s.fdc EXCEPT !.motor = FALSE]
           m == With(s, f, s.uart, s.ev)
<1>1. s \in Machines /\ s.fdc \in FdcState /\ s.uart \in UartState /\ s.ev \in EventState
      /\ (s.ev.f = "done" => s.ev.arg \in {"none", "FAIL"})
      /\ (s.ev.f = "none" => s.ev = NoEvent)
  BY DEF Sound, Machines
<1>2. MotorStops(s) = MotoroffInterrupt(m, TRUE)
  <2>1. CASE aborts
    <3>1. m = [[s EXCEPT !.fdc.motor = FALSE] EXCEPT
                 !.fdc.status = (@ \cup {"LOST"}) \ {"BUSY", "DRQ"}, !.fdc.left = 0]
      BY <1>1, <2>1, ZenonT(40) DEF With, Machines, FdcState
    <3> HIDE DEF m
    <3> QED BY <2>1, <3>1 DEF MotorStops
  <2>2. CASE ~aborts
    <3>1. m = [s EXCEPT !.fdc.motor = FALSE]
      BY <1>1, <2>2 DEF With, Machines, FdcState
    <3> HIDE DEF m
    <3> QED BY <2>2, <3>1 DEF MotorStops
  <2> QED BY <2>1, <2>2
<1>3. f \in FdcState /\ f.cmd = s.fdc.cmd /\ ~f.motor /\ (s.fdc.left = 0 => f.left = 0)
  BY <1>1 DEF FdcState, Bits
<1>4. aborts => "LOST" \in f.status /\ "BUSY" \notin f.status
  BY <1>1 DEF FdcState
<1>5. ~aborts => f.status = s.fdc.status
  BY <1>1 DEF FdcState
<1> HIDE DEF f, aborts
<1>6. /\ Sound(m) /\ m.fdc = f /\ m.uart = s.uart /\ m.ev = s.ev /\ m.model = s.model
      /\ m.alive = s.alive
  BY <1>1, <1>3, SetFields
<1> HIDE DEF m
<1>7. Follows(s, m)
  <2>1. Timed(s) => Timed(m)
    BY <1>3, <1>4, <1>5, <1>6 DEF Timed, Waiting4Index
  <2>2. (Counted(s) => Counted(m)) /\ (Announced(s) => Announced(m))
    BY <1>3, <1>6 DEF Counted, Announced
  <2>3. Prompt(s) => Prompt(m)
    BY <1>4, <1>5, <1>6 DEF Prompt
  <2> QED BY <1>6, <2>1, <2>2, <2>3 DEF Follows
<1>8. Accounts(s, m)
  BY <1>3, <1>4, <1>5, <1>6 DEF Accounts
<1>9. Keeps(s, m)
  BY <1>7, <1>8 DEF Keeps
<1>10. Signals(m, MotoroffInterrupt(m, TRUE))
       /\ (Raised(m) => Raised(MotoroffInterrupt(m, TRUE)))
  BY <1>6, MotoroffSignals
<1> QED BY <1>2, <1>3, <1>6, <1>9, <1>10, KeepsSignals DEF Signals

LEMMA MotorTurnsKeeps ==
  ASSUME NEW s, Sound(s)
  PROVE  /\ Keeps(s, MotorTurns(s)) /\ MotorTurns(s).ev = s.ev
         /\ MotorTurns(s).alive = s.alive /\ MotorTurns(s).fdc.cmd = s.fdc.cmd
BY MotoroffSignals, KeepsItself, KeepsSignals DEF MotorTurns, Signals

LEMMA TimerEventKeeps ==
  ASSUME NEW s, Sound(s), NEW stopped \in BOOLEAN
  PROVE  LET t == TimerEvent(s, stopped) IN
         /\ Keeps(s, t) /\ (~s.ev.now => ~t.ev.now) /\ t.alive = s.alive
         /\ t.fdc.cmd = s.fdc.cmd
<1> DEFINE r == TimerInterrupt(s, TRUE)
           t == TimerEvent(s, stopped)
<1>1. Signals(s, r) /\ Sound(r)
  BY TimerSignals, SignalsSound
<1>2. t = IF stopped THEN MotorStops(r) ELSE MotorTurns(r)
  BY DEF TimerEvent
<1> HIDE DEF r
<1>3. /\ Keeps(r, t) /\ (~r.ev.now => ~t.ev.now) /\ t.alive = r.alive
      /\ t.fdc.cmd = r.fdc.cmd
  BY <1>1, <1>2, MotorStopsKeeps, MotorTurnsKeeps
<1> HIDE DEF t
<1>4. Follows(s, t)
  BY <1>1, <1>3, SignalsKeep, FollowsTrans DEF Keeps
<1>5. ASSUME Timed(s), Counted(s) PROVE Accounts(s, t)
  BY <1>1, <1>3, <1>5, SignalsSound DEF Keeps, Accounts, Signals
<1> QED BY <1>1, <1>3, <1>4, <1>5 DEF Keeps, Signals, t

\* A command ends by its event: with an interrupt, and reported if it lost bytes.
LEMMA RanKeeps ==
  ASSUME NEW s, Sound(s), NEW t, Ran(s, t)
  PROVE  /\ Keeps(s, t) /\ ~t.ev.now /\ t.alive = s.alive /\ t.fdc.cmd = s.fdc.cmd
         /\ "BUSY" \in s.fdc.status /\ "BUSY" \notin t.fdc.status => Raised(t)
<1>1. s.fdc \in FdcState /\ (s.ev.f = "done" => s.ev.arg \in {"none", "FAIL"})
      /\ Sound(t) /\ t.fdc = EventFdc(s)
  BY DEF Sound, Machines, Ran
<1>2. ~t.ev.now /\ t.ev.f # "avail" /\ t.ev.f # "done"
      /\ (t.ev.f = "lostdata" <=> s.ev.f = "firstdrq")
  BY DEF Ran, EventNext, NoEvent
<1>3. Announced(s) => Announced(t)
  BY <1>2, EventAnnounces DEF Ran
<1>4. CASE s.ev.f = "done"
  <2>1. /\ t.fdc.cmd = s.fdc.cmd /\ "BUSY" \notin t.fdc.status
        /\ {s.ev.arg} \ {"none"} \subseteq t.fdc.status
    BY <1>1, <1>4 DEF EventFdc, FdcState
  <2>2. Raised(t)
    BY <1>4 DEF Ran, Ends
  <2>3. Counted(s) => s.fdc.left = 0 \/ "FAIL" \in t.fdc.status
    BY <1>4, <2>1 DEF Counted
  <2> QED BY <1>1, <1>2, <1>3, <2>1, <2>2, <2>3
          DEF Ran, Keeps, Follows, Accounts, Timed, Counted, Prompt
<1>5. CASE s.ev.f = "lostdata" /\ s.ev.arg = s.fdc.cmd
  <2>0. t.fdc = [s.fdc EXCEPT !.status = (@ \ {"BUSY"}) \cup {"LOST"}, !.left = 0]
    BY <1>1, <1>5 DEF EventFdc
  <2>1. /\ t.fdc.cmd = s.fdc.cmd /\ "BUSY" \notin t.fdc.status /\ "LOST" \in t.fdc.status
    BY <1>1, <2>0 DEF FdcState
  <2>2. Raised(t)
    BY <1>5 DEF Ran, Ends
  <2> QED BY <1>1, <1>2, <1>3, <2>1, <2>2
          DEF Ran, Keeps, Follows, Accounts, Timed, Counted, Prompt
<1>6. CASE s.ev.f = "firstdrq"
  <2>1. /\ t.fdc.cmd = s.fdc.cmd /\ s.fdc.status \subseteq t.fdc.status
    BY <1>1, <1>6 DEF EventFdc, FdcState
  <2>2. t.ev.f = "lostdata" /\ t.ev.arg = s.fdc.cmd
    BY <1>6 DEF Ran, EventNext
  <2> QED BY <1>1, <1>2, <1>3, <2>1, <2>2
          DEF Ran, Keeps, Follows, Accounts, Timed, Counted, Prompt
<1>7. CASE s.ev.f \notin {"done", "firstdrq"} /\ ~(s.ev.f = "lostdata" /\ s.ev.arg = s.fdc.cmd)
  <2>1. t.fdc = s.fdc
    BY <1>1, <1>7 DEF EventFdc
  <2>2. Timed(s) => Timed(t)
    BY <1>7, <2>1 DEF Timed, Waiting4Index
  <2> QED BY <1>1, <1>2, <1>3, <2>1, <2>2 DEF Ran, Keeps, Follows, Accounts, Counted, Prompt
<1> QED BY <1>4, <1>5, <1>6, <1>7

LEMMA DoEventKeeps ==
  ASSUME NEW s, Sound(s)
  PROVE  LET t == DoEvent(s) IN
         /\ Keeps(s, t) /\ ~t.ev.now /\ t.alive = s.alive /\ t.fdc.cmd = s.fdc.cmd
         /\ "BUSY" \in s.fdc.status /\ "BUSY" \notin t.fdc.status => Raised(t)
BY DoEventRuns, RanKeeps

LEMMA WaitKeeps ==
  ASSUME NEW s, Sound(s)
  PROVE  LET t == WaitForEvent(s) IN
         /\ Keeps(s, t) /\ t.alive = s.alive /\ t.fdc.cmd = s.fdc.cmd
         /\ "BUSY" \in s.fdc.status /\ "BUSY" \notin t.fdc.status => Raised(t)
BY DoEventKeeps, KeepsItself DEF WaitForEvent

LEMMA SelectKeeps ==
  ASSUME NEW s, Sound(s), NEW drive \in Drives, NEW wait \in BOOLEAN
  PROVE  Keeps(s, Select(s, drive, wait))
<1> DEFINE w == IF wait /\ s.model > 1 THEN WaitForEvent(s) ELSE s
           f == [w.fdc EXCEPT !.drive = drive, !.motor = TRUE]
           m == With(w, f, w.uart, w.ev)
<1>1. /\ Keeps(s, w)
      /\ "BUSY" \in s.fdc.status /\ "BUSY" \notin w.fdc.status => Raised(w)
  BY WaitKeeps, KeepsItself
<1>2. Select(s, drive, wait) = MotoroffInterrupt([w EXCEPT !.fdc.drive = drive, !.fdc.motor = TRUE], FALSE)
  BY DEF Select
<1> HIDE DEF w
<1>3. w \in Machines /\ w.fdc \in FdcState /\ w.uart \in UartState /\ w.ev \in EventState
      /\ (w.ev.f = "done" => w.ev.arg \in {"none", "FAIL"})
      /\ (w.ev.f = "none" => w.ev = NoEvent) /\ Sound(w)
  BY <1>1 DEF Keeps, Follows, Sound, Machines
<1>4. [w EXCEPT !.fdc.drive = drive, !.fdc.motor = TRUE] = m
  BY <1>3 DEF With, Machines, FdcState
<1>5. f \in FdcState /\ f.cmd = w.fdc.cmd /\ f.left = w.fdc.left /\ f.status = w.fdc.status
  BY <1>3 DEF FdcState
<1> HIDE DEF f
<1>6. /\ Sound(m) /\ m.fdc = f /\ m.uart = w.uart /\ m.ev = w.ev /\ m.model = w.model
      /\ (Raised(w) <=> Raised(m))
  BY <1>3, <1>5, SetFields
<1> HIDE DEF m
<1>7. Follows(w, m)
  BY <1>5, <1>6 DEF Follows, Timed, Counted, Prompt, Announced, Waiting4Index
<1>8. Follows(s, m)
  BY <1>1, <1>7, FollowsTrans DEF Keeps
<1>9. ASSUME Accounts(s, w) PROVE Accounts(s, m)
  BY <1>1, <1>5, <1>6, <1>9 DEF Accounts
<1>10. Keeps(s, m)
  BY <1>1, <1>8, <1>9 DEF Keeps
<1> QED BY <1>2, <1>4, <1>6, <1>10, MotoroffSignals, KeepsSignals

LEMMA SelectNoneKeeps ==
  ASSUME NEW s, Sound(s), NEW wait \in BOOLEAN
  PROVE  Keeps(s, SelectNone(s, wait))
BY WaitKeeps, KeepsItself DEF SelectNone

LEMMA SelectBogusKeeps ==
  ASSUME NEW s, Sound(s), NEW wait \in BOOLEAN
  PROVE  Keeps(s, SelectBogus(s, wait))
BY SelectNoneKeeps, KeepsUnimpl DEF SelectBogus

LEMMA DiskStatusReadKeeps ==
  ASSUME NEW s, Sound(s)
  PROVE  Keeps(s, DiskStatusRead(s))
BY IntrqSignals, SignalsKeep DEF DiskStatusRead

-----------------------------------------------------------------------------
(* The serial port.                                                        *)

\* Its event in the slot that a disk event may have been in.
LEMMA Refilled ==
  ASSUME NEW s, Sound(s), NEW p, Sound(p), p.model = s.model, p.fdc = s.fdc, p.ev = s.ev,
         Raised(s) => Raised(p), NEW t, Drained(p, t), t.ev.f \in {"avail", "reset"},
         ~t.ev.now
  PROVE  /\ Sound(t) /\ t.model = s.model /\ t.alive = p.alive
         /\ (Timed(s) => Timed(t)) /\ Counted(t) /\ Prompt(t)
         /\ t.fdc.cmd = s.fdc.cmd /\ t.fdc.motor = s.fdc.motor
         /\ s.fdc.status \ {"BUSY"} \subseteq t.fdc.status
         /\ "BUSY" \in t.fdc.status => t.fdc = s.fdc
         /\ "BUSY" \in s.fdc.status /\ "BUSY" \notin t.fdc.status => Raised(t)
         /\ Raised(s) \/ s.ev.f = "done" => Raised(t)
         /\ Counted(s) => Accounts(s, t)
<1>1. /\ t.fdc.cmd = s.fdc.cmd /\ t.fdc.motor = s.fdc.motor
      /\ s.fdc.status \ {"BUSY"} \subseteq t.fdc.status
      /\ "BUSY" \in t.fdc.status =>
           t.fdc = s.fdc /\ s.ev.f \notin {"done", "firstdrq"} /\ ~Ends(p)
      /\ "BUSY" \in s.fdc.status /\ "BUSY" \notin t.fdc.status =>
           Ends(p) \/ s.ev.f = "firstdrq"
      /\ s.ev.f \in {"lostdata", "firstdrq"} /\ "BUSY" \in s.fdc.status
           => t.fdc = s.fdc \/ "LOST" \in t.fdc.status
      /\ s.ev.f = "done" => {s.ev.arg} \ {"none"} \subseteq t.fdc.status
  BY DrainFdcFacts DEF Drained
<1>2. Ends(p) <=> Ends(s)
  BY DEF Ends
<1>3. Raised(s) \/ Ends(s) \/ s.ev.f = "firstdrq" => Raised(t)
  BY <1>2 DEF Drained
<1>4. Timed(s) => Timed(t)
  BY <1>1, <1>2 DEF Timed, Ends, Waiting4Index
<1>5. Counted(t) /\ Prompt(t)
  BY DEF Counted, Prompt
<1>6. ASSUME Counted(s), "BUSY" \in s.fdc.status, "BUSY" \notin t.fdc.status
      PROVE  /\ Raised(t)
             /\ s.fdc.left = 0 \/ "LOST" \in t.fdc.status \/ "FAIL" \in t.fdc.status
  <2>1. Ends(s) \/ s.ev.f = "firstdrq"
    BY <1>1, <1>2, <1>6
  <2>2. CASE s.ev.f = "done"
    BY <1>1, <1>3, <1>6, <2>1, <2>2 DEF Counted
  <2>3. CASE s.ev.f \in {"lostdata", "firstdrq"}
    <3>1. t.fdc # s.fdc
      BY <1>6
    <3> QED BY <1>1, <1>3, <1>6, <2>1, <2>3, <3>1
  <2> QED BY <2>1, <2>2, <2>3 DEF Ends
<1>7. Counted(s) => Accounts(s, t)
  BY <1>6 DEF Accounts
<1> QED BY <1>1, <1>2, <1>3, <1>4, <1>5, <1>6, <1>7 DEF Drained, Ends

LEMMA SetUart ==
  ASSUME NEW s, Sound(s), NEW u \in UartState
  PROVE  LET t == [s EXCEPT !.uart = u] IN
         /\ Sound(t) /\ t.model = s.model /\ t.int = s.int /\ t.ev = s.ev /\ t.uart = u
         /\ t.fdc = s.fdc /\ t.disk = s.disk /\ t.alive = s.alive
         /\ (Raised(s) <=> Raised(t))
         /\ (Timed(s) => Timed(t)) /\ (Counted(s) => Counted(t)) /\ (Prompt(s) => Prompt(t))
<1>1. s \in Machines /\ s.fdc \in FdcState /\ s.ev \in EventState
      /\ (s.ev.f = "done" => s.ev.arg \in {"none", "FAIL"})
      /\ (s.ev.f = "none" => s.ev = NoEvent)
  BY DEF Sound, Machines
<1>2. [s EXCEPT !.uart = u] = With(s, s.fdc, u, s.ev)
  BY <1>1 DEF With, Machines
<1>3. LET t == [s EXCEPT !.uart = u] IN
      /\ Sound(t) /\ t.model = s.model /\ t.int = s.int /\ t.ev = s.ev /\ t.uart = u
      /\ t.fdc = s.fdc /\ t.disk = s.disk /\ t.alive = s.alive
      /\ (Raised(s) <=> Raised(t))
  BY <1>1, <1>2, SetFields
<1> QED BY <1>3 DEF Timed, Counted, Prompt, Waiting4Index

LEMMA UartInitRuns ==
  ASSUME NEW s, Sound(s), NEW opens \in BOOLEAN
  PROVE  LET t == UartInit(s, opens) IN
         /\ Sound(t) /\ t.model = s.model /\ t.ev = s.ev /\ t.fdc = s.fdc /\ t.alive = s.alive
         /\ t.int = s.int /\ t.disk = s.disk
         /\ (Raised(s) <=> Raised(t))
         /\ (Timed(s) => Timed(t)) /\ (Counted(s) => Counted(t)) /\ (Prompt(s) => Prompt(t))
         /\ t.uart.init \in {"yes", "failed"}
         /\ s.ev.f # "avail" => Announced(t)
<1> DEFINE u == IF opens THEN [UartStart EXCEPT !.init = "yes"]
                         ELSE [UartStart EXCEPT !.init = "failed"]
<1>1. u \in UartState /\ u.init \in {"yes", "failed"} /\ u.left = 0 /\ ~u.rcvd
  <2>1. UartStart \in UartState /\ UartStart.left = 0 /\ UartStart.rcvd = FALSE
    BY DEF UartState, UartStart
  <2> QED BY <2>1 DEF UartState
<1>2. UartInit(s, opens) = [s EXCEPT !.uart = u]
  BY DEF UartInit
<1> HIDE DEF u
<1>3. LET t == [s EXCEPT !.uart = u] IN s.ev.f # "avail" => Announced(t)
  BY <1>1, SetUart DEF Announced
<1> QED BY <1>1, <1>2, <1>3, SetUart

LEMMA OpenedKeeps ==
  ASSUME NEW s, Sound(s), NEW opens \in BOOLEAN
  PROVE  LET t == Opened(s, opens) IN
         Keeps(s, t) /\ t.uart.init # "no" /\ t.fdc = s.fdc /\ t.alive = s.alive
<1>1. CASE s.uart.init = "no"
  <2>1. Opened(s, opens) = UartInit(s, opens)
    BY <1>1 DEF Opened
  <2>2. Announced(s) => s.ev.f # "avail"
    BY <1>1 DEF Announced
  <2> QED BY <2>1, <2>2, UartInitRuns DEF Keeps, Follows, Accounts
<1>2. CASE s.uart.init # "no"
  BY <1>2, KeepsItself DEF Opened
<1> QED BY <1>1, <1>2

LEMMA CheckAvailKeeps ==
  ASSUME NEW s, Sound(s), NEW n \in Nat
  PROVE  LET t == CheckAvail(s, n) IN
         /\ Keeps(s, t) /\ t.uart.init = s.uart.init /\ t.alive = s.alive
         /\ t.fdc.cmd = s.fdc.cmd /\ (~s.ev.now => ~t.ev.now)
         /\ t.fdc.motor = s.fdc.motor
         /\ "BUSY" \in t.fdc.status => t.fdc = s.fdc
         /\ "BUSY" \in s.fdc.status /\ "BUSY" \notin t.fdc.status => Raised(t)
<1>1. CASE ~(s.uart.init = "yes" /\ s.uart.left = 0 /\ n > 0)
  BY <1>1, KeepsItself DEF CheckAvail
<1>2. CASE s.uart.init = "yes" /\ s.uart.left = 0 /\ n > 0
  <2> DEFINE u == [s.uart EXCEPT !.left = n]
             p == [s EXCEPT !.uart = u]
             t == Schedule(p, "avail", "none", FALSE)
  <2>1. s \in Machines /\ s.uart \in UartState
    BY DEF Sound, Machines
  <2>2. CheckAvail(s, n) = t
    BY <1>2, <2>1 DEF CheckAvail, Machines, UartState
  <2>3. u \in UartState /\ u.left = n /\ u.rcvd = s.uart.rcvd /\ u.init = "yes"
    BY <1>2, <2>1 DEF UartState
  <2> HIDE DEF u
  <2>4. /\ Sound(p) /\ p.model = s.model /\ p.ev = s.ev /\ p.fdc = s.fdc /\ p.uart = u
        /\ p.alive = s.alive /\ (Raised(s) <=> Raised(p))
    BY <2>3, SetUart
  <2> HIDE DEF p
  <2>5. Drained(p, t) /\ t.ev = [f |-> "avail", arg |-> "none", now |-> FALSE]
    BY <2>4, OtherScheduled
  <2> HIDE DEF t
  <2>6. t.ev.f = "avail" /\ ~t.ev.now
    BY <2>5
  <2>7. /\ Sound(t) /\ t.model = s.model /\ t.alive = p.alive
        /\ (Timed(s) => Timed(t)) /\ Counted(t) /\ Prompt(t)
        /\ t.fdc.cmd = s.fdc.cmd /\ t.fdc.motor = s.fdc.motor
        /\ "BUSY" \in t.fdc.status => t.fdc = s.fdc
        /\ "BUSY" \in s.fdc.status /\ "BUSY" \notin t.fdc.status => Raised(t)
        /\ Counted(s) => Accounts(s, t)
    BY <2>4, <2>5, <2>6, Refilled
  <2>8. t.uart = EventUart(p) /\ t.uart.init = "yes"
    BY <2>3, <2>4, <2>5 DEF Drained, EventUart, UartState
  <2>9. ASSUME Announced(s) PROVE Announced(t)
    <3>1. ~s.uart.rcvd /\ s.ev.f # "avail"
      BY <1>2, <2>9 DEF Announced
    <3>2. t.uart = u
      BY <2>4, <2>8, <3>1 DEF EventUart
    <3>3. t.uart.rcvd = FALSE /\ (t.ev.f = "avail") = TRUE
      BY <2>1, <2>3, <2>6, <3>1, <3>2 DEF UartState
    <3>4. t.uart.rcvd # (t.ev.f = "avail")
      BY <3>3
    <3>5. t.uart.left = n /\ n >= 0 /\ n # 0 /\ t.uart.init = "yes"
      BY <1>2, <2>3, <3>2
    <3> QED BY <3>4, <3>5 DEF Announced
  <2>10. Keeps(s, t)
    BY <2>7, <2>9 DEF Keeps, Follows
  <2> QED BY <1>2, <2>2, <2>4, <2>6, <2>7, <2>8, <2>10
<1> QED BY <1>1, <1>2

LEMMA UartStatusKeeps ==
  ASSUME NEW s, Sound(s), NEW opens \in BOOLEAN, NEW n \in Nat
  PROVE  LET t == UartStatusIn(s, opens, n) IN
         /\ Keeps(s, t) /\ t.uart.init # "no"
         /\ t.fdc.cmd = s.fdc.cmd /\ t.fdc.motor = s.fdc.motor
         /\ "BUSY" \in t.fdc.status => t.fdc = s.fdc
         /\ "BUSY" \in s.fdc.status /\ "BUSY" \notin t.fdc.status => Raised(t)
<1> DEFINE o == Opened(s, opens)
           t == CheckAvail(o, n)
<1>1. Keeps(s, o) /\ o.uart.init # "no" /\ o.fdc = s.fdc
  BY OpenedKeeps
<1>2. UartStatusIn(s, opens, n) = IF o.uart.init = "failed" THEN o ELSE t
  BY DEF UartStatusIn
<1> HIDE DEF o
<1>3. Sound(o)
  BY <1>1 DEF Keeps, Follows
<1>4. /\ Keeps(o, t) /\ t.uart.init = o.uart.init
      /\ t.fdc.cmd = o.fdc.cmd /\ t.fdc.motor = o.fdc.motor
      /\ "BUSY" \in t.fdc.status => t.fdc = o.fdc
      /\ "BUSY" \in o.fdc.status /\ "BUSY" \notin t.fdc.status => Raised(t)
  BY <1>3, CheckAvailKeeps
<1> HIDE DEF t
<1>5. Follows(s, t)
  BY <1>1, <1>4, FollowsTrans DEF Keeps
<1>6. Timed(s) /\ Counted(s) => Accounts(s, t)
  BY <1>1, <1>4 DEF Keeps, Follows, Accounts
<1>7. Keeps(s, t)
  BY <1>5, <1>6 DEF Keeps
<1> QED BY <1>1, <1>2, <1>4, <1>7

\* Reading the data register: the next byte is announced if one is left.
LEMMA UartDataKeeps ==
  ASSUME NEW s, Sound(s), NEW opens \in BOOLEAN, NEW n \in Nat
  PROVE  Keeps(s, UartDataIn(s, opens, n))
<1> DEFINE c == UartStatusIn(s, opens, n)
           left == IF c.uart.left > 0 THEN c.uart.left - 1 ELSE -1
           u == [c.uart EXCEPT !.rcvd = FALSE, !.left = left]
           p == [c EXCEPT !.uart = u]
           r == RcvInterrupt(p, FALSE)
           t == Schedule(r, "avail", "none", FALSE)
<1>1. /\ Keeps(s, c) /\ c.uart.init # "no"
      /\ c.fdc.cmd = s.fdc.cmd /\ c.fdc.motor = s.fdc.motor
      /\ "BUSY" \in c.fdc.status => c.fdc = s.fdc
      /\ "BUSY" \in s.fdc.status /\ "BUSY" \notin c.fdc.status => Raised(c)
  BY UartStatusKeeps
<1>2. Sound(c) /\ c \in Machines /\ c.uart \in UartState
  BY <1>1 DEF Keeps, Follows, Sound, Machines
<1>3. UartDataIn(s, opens, n) =
        IF c.uart.init = "failed" \/ ~c.uart.rcvd THEN c
        ELSE IF left # 0 THEN t ELSE r
  <2>1. [c EXCEPT !.uart.rcvd = FALSE, !.uart.left = left] = p
    BY <1>2 DEF Machines, UartState
  <2> HIDE DEF p, left
  <2> QED BY <2>1 DEF UartDataIn, left
<1> HIDE DEF c
<1>4. left \in Int
  BY <1>2 DEF UartState
<1>5. (c.uart.left > 0 => left = c.uart.left - 1 /\ left >= 0)
  BY <1>2 DEF UartState
<1> HIDE DEF left
<1>6. u \in UartState /\ u.init = c.uart.init /\ u.rcvd = FALSE /\ u.left = left
  BY <1>2, <1>4 DEF UartState
<1> HIDE DEF u
<1>7. /\ Sound(p) /\ p.model = c.model /\ p.ev = c.ev /\ p.uart = u /\ p.fdc = c.fdc
      /\ p.alive = c.alive /\ (Raised(c) <=> Raised(p))
      /\ (Timed(c) => Timed(p)) /\ (Counted(c) => Counted(p)) /\ (Prompt(c) => Prompt(p))
  BY <1>2, <1>6, SetUart
<1> HIDE DEF p
<1>8. Signals(p, r) /\ Sound(r) /\ (Raised(p) => Raised(r))
      /\ (Timed(p) => Timed(r)) /\ (Counted(p) => Counted(r))
  BY <1>7, RcvSignals, SignalsSound
<1>9. /\ r.model = c.model /\ r.ev = c.ev /\ r.uart = u /\ r.fdc = c.fdc /\ r.alive = c.alive
      /\ (Prompt(c) => Prompt(r)) /\ (Raised(c) => Raised(r))
  BY <1>7, <1>8 DEF Signals, Prompt
<1> HIDE DEF r
<1>10. Drained(r, t) /\ t.ev = [f |-> "avail", arg |-> "none", now |-> FALSE]
  BY <1>8, OtherScheduled
<1> HIDE DEF t
<1>11. t.ev.f = "avail" /\ ~t.ev.now
  BY <1>10
<1>12. /\ Sound(t) /\ t.model = c.model
       /\ (Timed(c) => Timed(t)) /\ Counted(t) /\ Prompt(t)
       /\ t.fdc.cmd = c.fdc.cmd /\ t.fdc.motor = c.fdc.motor
       /\ c.fdc.status \ {"BUSY"} \subseteq t.fdc.status
       /\ "BUSY" \in t.fdc.status => t.fdc = c.fdc
       /\ "BUSY" \in c.fdc.status /\ "BUSY" \notin t.fdc.status => Raised(t)
       /\ Raised(c) \/ c.ev.f = "done" => Raised(t)
       /\ Counted(c) => Accounts(c, t)
  BY <1>2, <1>8, <1>9, <1>10, <1>11, Refilled
\* What the port announces.
<1>13. ASSUME c.uart.init # "failed", c.uart.rcvd, Announced(c)
       PROVE  /\ c.uart.init = "yes" /\ c.ev.f # "avail"
              /\ left = c.uart.left - 1 /\ left >= 0
  <2>1. c.uart.init = "yes"
    BY <1>1, <1>2, <1>13 DEF UartState
  <2>2. c.uart.left # 0 /\ c.uart.left >= 0
    BY <1>13, <2>1 DEF Announced
  <2>3. c.uart.rcvd = TRUE
    BY <1>2, <1>13 DEF UartState
  <2>4. c.uart.rcvd # (c.ev.f = "avail")
    BY <1>13, <2>1, <2>2 DEF Announced
  <2>5. c.ev.f # "avail"
    BY <2>3, <2>4
  <2> QED BY <1>2, <1>5, <2>1, <2>2, <2>5 DEF UartState
<1>14. CASE c.uart.init = "failed" \/ ~c.uart.rcvd
  BY <1>1, <1>3, <1>14
<1>15. CASE ~(c.uart.init = "failed" \/ ~c.uart.rcvd) /\ left # 0
  <2>1. ASSUME Announced(c) PROVE Announced(t)
    <3>1. c.uart.init = "yes" /\ c.ev.f # "avail" /\ left >= 0
      BY <1>13, <1>15, <2>1
    <3>2. t.uart = u
      BY <1>9, <1>10, <3>1 DEF Drained, EventUart
    <3>3. t.uart.rcvd = FALSE /\ (t.ev.f = "avail") = TRUE
      BY <1>6, <1>11, <3>2
    <3>4. t.uart.rcvd # (t.ev.f = "avail")
      BY <3>3
    <3>5. t.uart.left = left /\ t.uart.init = "yes"
      BY <1>6, <3>1, <3>2
    <3> QED BY <1>15, <3>1, <3>4, <3>5 DEF Announced
  <2>2. Follows(s, t)
    BY <1>1, <1>12, <2>1 DEF Keeps, Follows
  <2>3. ASSUME Timed(s), Counted(s), "BUSY" \in s.fdc.status, "BUSY" \notin t.fdc.status
        PROVE  /\ s.fdc.left = 0 \/ "LOST" \in t.fdc.status \/ "FAIL" \in t.fdc.status
               /\ Raised(t)
    <3>1. CASE "BUSY" \in c.fdc.status
      <4>1. c.fdc = s.fdc /\ Counted(c)
        BY <1>1, <2>3, <3>1 DEF Keeps, Follows
      <4> QED BY <1>12, <2>3, <3>1, <4>1 DEF Accounts
    <3>2. CASE "BUSY" \notin c.fdc.status
      <4>1. s.fdc.left = 0 \/ "LOST" \in c.fdc.status \/ "FAIL" \in c.fdc.status
        BY <1>1, <2>3, <3>2 DEF Keeps, Accounts
      <4> QED BY <1>1, <1>12, <2>3, <3>2, <4>1
    <3> QED BY <3>1, <3>2
  <2>4. UartDataIn(s, opens, n) = t
    BY <1>3, <1>15
  <2> QED BY <2>2, <2>3, <2>4 DEF Keeps, Accounts
<1>16. CASE ~(c.uart.init = "failed" \/ ~c.uart.rcvd) /\ left = 0
  <2>1. ASSUME Announced(c) PROVE Announced(r)
    <3>1. c.uart.init = "yes" /\ c.ev.f # "avail"
      BY <1>13, <1>16, <2>1
    <3>2. r.uart.rcvd = FALSE /\ r.uart.left = 0 /\ r.uart.init = "yes" /\ r.ev.f # "avail"
      BY <1>6, <1>9, <1>16, <3>1
    <3> QED BY <3>2 DEF Announced
  <2>2. Follows(s, r)
    BY <1>1, <1>7, <1>8, <1>9, <2>1 DEF Keeps, Follows
  <2>3. Timed(s) /\ Counted(s) => Accounts(s, r)
    BY <1>1, <1>9 DEF Keeps, Accounts
  <2>4. UartDataIn(s, opens, n) = r
    BY <1>3, <1>16
  <2> QED BY <2>2, <2>3, <2>4 DEF Keeps
<1> QED BY <1>14, <1>15, <1>16

-----------------------------------------------------------------------------
(* The command register.  A command is executed in the machine a that has  *)
(* accepted it: no lostdata is pending any more, no byte is left.          *)

Obeys(a, t) ==
  /\ Sound(t) /\ t.model = a.model /\ t.fdc.cmd = a.fdc.cmd
  /\ Counted(t)
  /\ ~a.ev.now => Prompt(t)
  /\ "BUSY" \notin a.fdc.status => Timed(t)
  /\ Announced(a) => Announced(t)

LEMMA LeftRuns ==
  ASSUME NEW s, Sound(s), NEW bits \in SUBSET Bits, NEW n \in Nat
  PROVE  LET p == [Status(s, bits) EXCEPT !.fdc.left = n] IN
         /\ Sound(p) /\ p.model = s.model /\ p.ev = s.ev /\ p.uart = s.uart
         /\ p.alive = s.alive /\ p.disk = s.disk
         /\ p.fdc.status = bits /\ p.fdc.left = n /\ p.fdc.cmd = s.fdc.cmd
         /\ p.fdc.drive = s.fdc.drive
<1> DEFINE f == [s.fdc EXCEPT !.status = bits, !.left = n]
<1>1. s \in Machines /\ s.fdc \in FdcState /\ s.uart \in UartState /\ s.ev \in EventState
      /\ (s.ev.f = "done" => s.ev.arg \in {"none", "FAIL"})
      /\ (s.ev.f = "none" => s.ev = NoEvent)
  BY DEF Sound, Machines
<1> DEFINE p == [Status(s, bits) EXCEPT !.fdc.left = n]
<1>2. p = With(s, f, s.uart, s.ev)
  BY <1>1 DEF Status, With, Machines, FdcState
<1>3. f \in FdcState /\ f.status = bits /\ f.left = n /\ f.cmd = s.fdc.cmd
      /\ f.drive = s.fdc.drive
  BY <1>1 DEF FdcState
<1> HIDE DEF f, p
<1>4. /\ Sound(p) /\ p.model = s.model /\ p.ev = s.ev /\ p.uart = s.uart
      /\ p.alive = s.alive /\ p.disk = s.disk /\ p.fdc = f
  BY <1>1, <1>2, <1>3, SetFields
<1> QED BY <1>3, <1>4 DEF p

LEMMA StatusRuns ==
  ASSUME NEW s, Sound(s), NEW bits \in SUBSET Bits
  PROVE  LET p == Status(s, bits) IN
         /\ Sound(p) /\ p.model = s.model /\ p.ev = s.ev /\ p.uart = s.uart
         /\ p.alive = s.alive /\ p.disk = s.disk
         /\ p.fdc.status = bits /\ p.fdc.left = s.fdc.left /\ p.fdc.cmd = s.fdc.cmd
         /\ p.fdc.drive = s.fdc.drive
<1> DEFINE f == [s.fdc EXCEPT !.status = bits]
           p == Status(s, bits)
<1>1. s \in Machines /\ s.fdc \in FdcState /\ s.uart \in UartState /\ s.ev \in EventState
      /\ (s.ev.f = "done" => s.ev.arg \in {"none", "FAIL"})
      /\ (s.ev.f = "none" => s.ev = NoEvent)
  BY DEF Sound, Machines
<1>2. p = With(s, f, s.uart, s.ev)
  BY <1>1 DEF Status, With, Machines, FdcState
<1>3. f \in FdcState /\ f.status = bits /\ f.left = s.fdc.left /\ f.cmd = s.fdc.cmd
      /\ f.drive = s.fdc.drive
  BY <1>1 DEF FdcState
<1> HIDE DEF f, p
<1>4. /\ Sound(p) /\ p.model = s.model /\ p.ev = s.ev /\ p.uart = s.uart
      /\ p.alive = s.alive /\ p.disk = s.disk /\ p.fdc = f
  BY <1>1, <1>2, <1>3, SetFields
<1> QED BY <1>3, <1>4 DEF p

\* A command that sets the status to p's and posts the event that ends it.
LEMMA PostedObeys ==
  ASSUME NEW a, Sound(a), NEW p, Sound(p), p.model = a.model, p.ev = a.ev, p.uart = a.uart,
         p.fdc.cmd = a.fdc.cmd, NEW t, Drained(p, t), ~t.ev.now,
         \/ t.ev.f = "done" /\ (p.fdc.left = 0 \/ t.ev.arg = "FAIL")
         \/ t.ev.f = "firstdrq"
         \/ t.ev.f = "lostdata" /\ t.ev.arg = a.fdc.cmd
  PROVE  Obeys(a, t)
<1>1. t.fdc.cmd = a.fdc.cmd /\ t.fdc.left \in {0, p.fdc.left}
  BY DrainFdcFacts DEF Drained
<1>2. t.uart = EventUart(a) /\ t.ev.f # "avail"
  BY DEF Drained, EventUart
<1>3. Announced(a) => Announced(t)
  BY <1>2, EventAnnounces
<1> QED BY <1>1, <1>3 DEF Obeys, Drained, Counted, Prompt, Timed

LEMMA StatusObeys ==
  ASSUME NEW a, Sound(a), a.fdc.left = 0, NEW bits \in SUBSET Bits,
         "BUSY" \in bits => a.fdc.cmd \in {"READTRK", "WRITETRK"} /\ "DRQ" \notin bits
  PROVE  Obeys(a, Status(a, bits))
<1> DEFINE p == Status(a, bits)
<1>1. /\ Sound(p) /\ p.model = a.model /\ p.ev = a.ev /\ p.uart = a.uart
      /\ p.fdc.status = bits /\ p.fdc.left = a.fdc.left /\ p.fdc.cmd = a.fdc.cmd
  BY StatusRuns
<1> HIDE DEF p
<1> QED BY <1>1 DEF Obeys, Counted, Prompt, Timed, Waiting4Index, Announced, p

LEMMA DoneObeys ==
  ASSUME NEW a, Sound(a), a.fdc.left = 0, NEW bits \in SUBSET Bits,
         NEW arg \in {"none", "FAIL"}
  PROVE  Obeys(a, Done(Status(a, bits), arg))
<1> DEFINE p == Status(a, bits)
           t == Schedule(p, "done", arg, FALSE)
<1>1. /\ Sound(p) /\ p.model = a.model /\ p.ev = a.ev /\ p.uart = a.uart
      /\ p.fdc.left = 0 /\ p.fdc.cmd = a.fdc.cmd
  BY StatusRuns
<1>2. Done(p, arg) = t
  BY DEF Done
<1> HIDE DEF p
<1>3. Drained(p, t) /\ t.ev = [f |-> "done", arg |-> arg, now |-> FALSE]
  BY <1>1, DoneScheduled
<1> HIDE DEF t
<1>4. t.ev.f = "done" /\ ~t.ev.now
  BY <1>3
<1>5. Obeys(a, t)
  BY <1>1, <1>3, <1>4, PostedObeys
<1> QED BY <1>2, <1>5 DEF p

LEMMA FirstDrqObeys ==
  ASSUME NEW a, Sound(a), NEW n \in Nat, NEW bits \in SUBSET Bits
  PROVE  Obeys(a, Schedule([Status(a, bits) EXCEPT !.fdc.left = n], "firstdrq", "none", FALSE))
<1> DEFINE p == [Status(a, bits) EXCEPT !.fdc.left = n]
           t == Schedule(p, "firstdrq", "none", FALSE)
<1>1. /\ Sound(p) /\ p.model = a.model /\ p.ev = a.ev /\ p.uart = a.uart
      /\ p.fdc.cmd = a.fdc.cmd
  BY LeftRuns
<1> HIDE DEF p
<1>3. Drained(p, t) /\ t.ev = [f |-> "firstdrq", arg |-> "none", now |-> FALSE]
  BY <1>1, OtherScheduled
<1> HIDE DEF t
<1>4. t.ev.f = "firstdrq" /\ ~t.ev.now
  BY <1>3
<1>5. Obeys(a, t)
  BY <1>1, <1>3, <1>4, PostedObeys
<1> QED BY <1>5 DEF p, t

LEMMA NoMarkObeys ==
  ASSUME NEW a, Sound(a), NEW n \in Nat, NEW bits \in SUBSET Bits
  PROVE  Obeys(a, Done([Status(a, bits) EXCEPT !.fdc.left = n], "FAIL"))
<1> DEFINE p == [Status(a, bits) EXCEPT !.fdc.left = n]
           t == Schedule(p, "done", "FAIL", FALSE)
<1>1. /\ Sound(p) /\ p.model = a.model /\ p.ev = a.ev /\ p.uart = a.uart
      /\ p.fdc.cmd = a.fdc.cmd
  BY LeftRuns
<1>2. Done(p, "FAIL") = t
  BY DEF Done
<1> HIDE DEF p
<1>3. Drained(p, t) /\ t.ev = [f |-> "done", arg |-> "FAIL", now |-> FALSE]
  BY <1>1, DoneScheduled
<1> HIDE DEF t
<1>4. t.ev.f = "done" /\ ~t.ev.now /\ t.ev.arg = "FAIL"
  BY <1>3
<1>5. Obeys(a, t)
  BY <1>1, <1>3, <1>4, PostedObeys
<1> QED BY <1>2, <1>5 DEF p

LEMMA TransferObeys ==
  ASSUME NEW a, Sound(a), NEW n \in Nat, NEW bits \in SUBSET Bits
  PROVE  /\ Obeys(a, Transfer(a, bits, n))
         /\ Transfer(a, bits, n).ev = [f |-> "lostdata", arg |-> a.fdc.cmd, now |-> FALSE]
<1> DEFINE p == [Status(a, bits) EXCEPT !.fdc.left = n]
           t == Schedule(p, "lostdata", a.fdc.cmd, FALSE)
<1>1. /\ Sound(p) /\ p.model = a.model /\ p.ev = a.ev /\ p.uart = a.uart
      /\ p.fdc.cmd = a.fdc.cmd
  BY LeftRuns
<1>2. Transfer(a, bits, n) = t
  BY DEF Transfer
<1>3. a.fdc.cmd \in Commands
  BY DEF Sound, Machines, FdcState
<1> HIDE DEF p
<1>4. Drained(p, t) /\ t.ev = [f |-> "lostdata", arg |-> a.fdc.cmd, now |-> FALSE]
  BY <1>1, <1>3, OtherScheduled
<1> HIDE DEF t
<1>5. t.ev.f = "lostdata" /\ ~t.ev.now /\ t.ev.arg = a.fdc.cmd
  BY <1>4
<1>6. Obeys(a, t)
  BY <1>1, <1>4, <1>5, PostedObeys
<1> QED BY <1>2, <1>4, <1>6

LEMMA UnimplObeys ==
  ASSUME NEW a, Sound(a)
  PROVE  Obeys(a, Unimpl(a))
<1>1. Keeps(a, Unimpl(a))
  BY UnimplKeeps
<1>2. /\ Unimpl(a).fdc.cmd = a.fdc.cmd /\ Unimpl(a).fdc.left = 0
      /\ "BUSY" \notin Unimpl(a).fdc.status
      /\ Unimpl(a).ev = [f |-> "done", arg |-> "none", now |-> TRUE]
  BY UnimplRuns
<1> QED BY <1>1, <1>2 DEF Obeys, Keeps, Follows, Counted, Prompt, Timed

LEMMA CrashObeys ==
  ASSUME NEW a, Sound(a), a.fdc.left = 0
  PROVE  Obeys(a, Crash(a))
<1>1. Keeps(a, Crash(a)) /\ Counted(a)
  BY KeepsItself, CrashKeeps DEF Counted
<1>2. Crash(a).fdc = a.fdc
  BY DEF Crash, Sound, Machines
<1> QED BY <1>1, <1>2 DEF Obeys, Keeps, Follows, Timed, Prompt

LEMMA FormatObeys ==
  ASSUME NEW a, NEW t, Obeys(a, t), t.ev.f = "lostdata", ~t.ev.now, NEW n \in Nat
  PROVE  Obeys(a, [t EXCEPT !.fdc.fmt = TRUE, !.fdc.left = n])
<1> DEFINE f == [t.fdc EXCEPT !.fmt = TRUE, !.left = n]
           u == [t EXCEPT !.fdc.fmt = TRUE, !.fdc.left = n]
<1>0. Sound(t)
  BY DEF Obeys
<1>1. t \in Machines /\ t.fdc \in FdcState /\ t.uart \in UartState /\ t.ev \in EventState
      /\ (t.ev.f = "done" => t.ev.arg \in {"none", "FAIL"})
      /\ (t.ev.f = "none" => t.ev = NoEvent)
  BY <1>0 DEF Sound, Machines
<1>2. u = With(t, f, t.uart, t.ev)
  BY <1>1 DEF With, Machines, FdcState
<1>3. f \in FdcState /\ f.status = t.fdc.status /\ f.cmd = t.fdc.cmd
  BY <1>1 DEF FdcState
<1> HIDE DEF f, u
<1>4. Sound(u) /\ u.model = t.model /\ u.ev = t.ev /\ u.uart = t.uart /\ u.fdc = f
  BY <1>0, <1>1, <1>2, <1>3, SetFields
<1>5. Obeys(a, u)
  BY <1>3, <1>4 DEF Obeys, Counted, Prompt, Timed, Waiting4Index, Announced
<1> QED BY <1>5 DEF u

LEMMA BitSets ==
  /\ {} \in SUBSET Bits /\ {"BUSY"} \in SUBSET Bits /\ {"FAIL"} \in SUBSET Bits
  /\ {"FAIL", "BUSY"} \in SUBSET Bits /\ {"BUSY", "DRQ"} \in SUBSET Bits
  /\ {"BUSY", "DRQ", "FAIL"} \in SUBSET Bits
BY DEF Bits

\* A command other than FORCEINT, in the machine that has accepted it.
LEMMA ReadObeys ==
  ASSUME NEW a, Sound(a), a.fdc.left = 0, NEW found \in {"none", "found", "nomark"}
  PROVE  Obeys(a, ReadCommand(a, found))
<1>1. SectorLen \in Nat
  BY FdcAssumption
<1>2. CASE found = "none"
  BY <1>2, BitSets, DoneObeys DEF ReadCommand
<1>3. CASE found = "nomark"
  BY <1>1, <1>3, BitSets, NoMarkObeys DEF ReadCommand
<1>4. CASE found = "found"
  BY <1>1, <1>4, BitSets, FirstDrqObeys DEF ReadCommand
<1> QED BY <1>2, <1>3, <1>4

LEMMA WriteObeys ==
  ASSUME NEW a, Sound(a), a.fdc.left = 0,
         NEW found \in {"none", "found", "wrongmark", "refused", "fault"}
  PROVE  Obeys(a, WriteCommand(a, found))
<1>1. SectorLen \in Nat
  BY FdcAssumption
<1>2. CASE Selected(a).wp
  <2>1. Obeys(a, Status(a, {"FAIL"}))
    BY BitSets, StatusObeys
  <2> QED BY <1>2, <2>1 DEF WriteCommand
<1>3. CASE ~Selected(a).wp /\ found = "none"
  <2>1. Obeys(a, Done(Status(a, {"FAIL", "BUSY"}), "none"))
    BY BitSets, DoneObeys
  <2> QED BY <1>3, <2>1 DEF WriteCommand
<1>4. CASE ~Selected(a).wp /\ found = "refused"
  BY <1>4, UnimplObeys DEF WriteCommand
<1>5. CASE ~Selected(a).wp /\ found = "wrongmark"
  <2> DEFINE u == Unimpl(a)
             bits == u.fdc.status \cup {"BUSY", "DRQ"}
  <2>1. WriteCommand(a, found) = Transfer(u, bits, SectorLen)
    BY <1>5 DEF WriteCommand
  <2>2. Obeys(a, u) /\ Sound(u) /\ "BUSY" \notin u.fdc.status
    BY UnimplObeys, UnimplRuns
  <2> HIDE DEF u
  <2>3. bits \in SUBSET Bits
    BY <2>2 DEF Sound, Machines, FdcState, Bits
  <2> HIDE DEF bits
  <2>4. /\ Obeys(u, Transfer(u, bits, SectorLen))
        /\ Transfer(u, bits, SectorLen).ev
             = [f |-> "lostdata", arg |-> u.fdc.cmd, now |-> FALSE]
    BY <1>1, <2>2, <2>3, TransferObeys
  <2>5. Prompt(Transfer(u, bits, SectorLen))
    BY <2>4 DEF Prompt
  <2> QED BY <2>1, <2>2, <2>4, <2>5 DEF Obeys
<1>6. CASE ~Selected(a).wp /\ found \in {"found", "fault"}
  BY <1>1, <1>6, BitSets, TransferObeys DEF WriteCommand
<1> QED BY <1>2, <1>3, <1>4, <1>5, <1>6

LEMMA ReadAdrObeys ==
  ASSUME NEW a, Sound(a), a.fdc.left = 0, NEW found \in {"none", "found", "closed"}
  PROVE  Obeys(a, ReadAdrCommand(a, found))
<1>1. IdLen \in Nat
  BY FdcAssumption
<1>2. CASE found = "none"
  BY <1>2, BitSets, DoneObeys DEF ReadAdrCommand
<1>3. CASE found = "closed"
  BY <1>3, CrashObeys DEF ReadAdrCommand
<1>4. CASE found = "found"
  BY <1>1, <1>4, BitSets, FirstDrqObeys DEF ReadAdrCommand
<1> QED BY <1>2, <1>3, <1>4

LEMMA ReadTrkObeys ==
  ASSUME NEW a, Sound(a), a.fdc.left = 0, a.fdc.cmd = "READTRK"
  PROVE  Obeys(a, ReadTrkCommand(a))
<1>1. TrackLen \in Nat
  BY FdcAssumption
<1>2. Obeys(a, Status(a, {"BUSY"}))
  BY BitSets, StatusObeys
<1>3. Obeys(a, Transfer(a, {"BUSY", "DRQ"}, TrackLen))
  BY <1>1, BitSets, TransferObeys
<1> QED BY <1>2, <1>3, UnimplObeys DEF ReadTrkCommand

LEMMA WriteTrkObeys ==
  ASSUME NEW a, Sound(a), a.fdc.left = 0, a.fdc.cmd = "WRITETRK", NEW found
  PROVE  Obeys(a, WriteTrkCommand(a, found))
<1> DEFINE bits == {"BUSY", "DRQ"} \cup (IF found = "fault" THEN {"FAIL"} ELSE {})
           t == Transfer(a, bits, TrackLen)
<1>1. TrackLen \in Nat /\ bits \in SUBSET Bits
  BY FdcAssumption DEF Bits
<1>2. WriteTrkCommand(a, found) \in
        {Status(a, {"FAIL"}), Status(a, {"BUSY"}),
         [t EXCEPT !.fdc.fmt = TRUE, !.fdc.left = TrackLen]}
  BY DEF WriteTrkCommand
<1> HIDE DEF bits
<1>3. Obeys(a, Status(a, {"BUSY"})) /\ Obeys(a, Status(a, {"FAIL"}))
  BY BitSets, StatusObeys
<1>4. Obeys(a, t) /\ t.ev.f = "lostdata" /\ ~t.ev.now
  <2>1. Obeys(a, t) /\ t.ev = [f |-> "lostdata", arg |-> a.fdc.cmd, now |-> FALSE]
    BY <1>1, TransferObeys
  <2> HIDE DEF t
  <2> QED BY <2>1
<1> HIDE DEF t
<1>5. Obeys(a, [t EXCEPT !.fdc.fmt = TRUE, !.fdc.left = TrackLen])
  BY <1>1, <1>4, FormatObeys
<1> QED BY <1>2, <1>3, <1>5

LEMMA ExecuteObeys ==
  ASSUME NEW a, Sound(a), a.fdc.left = 0, a.fdc.cmd \in Commands \ {"FORCEINT"},
         NEW found, NEW bit,
         a.fdc.cmd = "READ" => found \in {"none", "found", "nomark"},
         a.fdc.cmd = "WRITE" => found \in {"none", "found", "wrongmark", "refused", "fault"},
         a.fdc.cmd = "READADR" => found \in {"none", "found", "closed"}
  PROVE  Obeys(a, Execute(a, a.fdc.cmd, found, bit))
<1> DEFINE op == a.fdc.cmd
<1>1. CASE op \in TypeI
  <2>1. Execute(a, op, found, bit) = Done(Status(a, {"BUSY"}), "none")
    BY <1>1 DEF Execute, Move, TypeI
  <2> QED BY <2>1, BitSets, DoneObeys
<1>2. CASE op = "READ"
  BY <1>2, ReadObeys DEF Execute, TypeI
<1>3. CASE op = "READM"
  BY <1>3, UnimplObeys DEF Execute, TypeI
<1>4. CASE op = "WRITE"
  BY <1>4, WriteObeys DEF Execute, TypeI
<1>5. CASE op = "WRITEM"
  <2>1. Obeys(a, Status(a, {"FAIL"}))
    BY BitSets, StatusObeys
  <2> QED BY <1>5, <2>1, UnimplObeys DEF Execute, TypeI
<1>6. CASE op = "READADR"
  BY <1>6, ReadAdrObeys DEF Execute, TypeI
<1>7. CASE op = "READTRK"
  BY <1>7, ReadTrkObeys DEF Execute, TypeI
<1>8. CASE op = "WRITETRK"
  BY <1>8, WriteTrkObeys DEF Execute, TypeI
<1> QED BY <1>1, <1>2, <1>3, <1>4, <1>5, <1>6, <1>7, <1>8 DEF Commands, Transfers

\* Before the command: of the pending events only lostdata is called off.
LEMMA AcceptRuns ==
  ASSUME NEW s, Sound(s), NEW op \in Commands
  PROVE  LET a == Accept(s, op) IN
         \/ a = Crash(s)
         \/ /\ Sound(a) /\ a.model = s.model /\ a.alive = s.alive /\ a.uart = s.uart
            /\ a.fdc.status = s.fdc.status /\ a.fdc.left = 0 /\ a.fdc.cmd = op
            /\ a.ev = IF s.ev.f = "lostdata" THEN NoEvent ELSE s.ev
<1> DEFINE partial == Selected(s).type = "DMK" /\ s.fdc.cmd = "WRITETRK" /\ s.fdc.fmt
           f == [s.fdc EXCEPT !.left = 0, !.cmd = op, !.fmt = @ /\ ~partial]
           e == IF s.ev.f = "lostdata" THEN NoEvent ELSE s.ev
           quiet == IF s.ev.f = "lostdata" THEN Cancel(s) ELSE s
           p == With(s, f, s.uart, e)
           a == IntrqInterrupt(p, FALSE)
<1>1. s \in Machines /\ s.fdc \in FdcState /\ s.uart \in UartState /\ s.ev \in EventState
      /\ (s.ev.f = "done" => s.ev.arg \in {"none", "FAIL"})
      /\ (s.ev.f = "none" => s.ev = NoEvent)
  BY DEF Sound, Machines
<1>2. /\ e \in EventState
      /\ (e.f = "done" => e.arg \in {"none", "FAIL"})
      /\ (e.f = "none" => e = NoEvent)
  BY <1>1, NoEventType DEF NoEvent
<1>3. p = [quiet EXCEPT !.fdc.left = 0, !.fdc.cmd = op, !.fdc.fmt = @ /\ ~partial]
  BY <1>1 DEF With, Machines, FdcState, Cancel
<1>4. f \in FdcState /\ f.left = 0 /\ f.cmd = op /\ f.status = s.fdc.status
  BY <1>1 DEF FdcState
<1>5. Accept(s, op) = IF partial /\ ~Selected(s).file THEN Crash(s) ELSE a
  <2> HIDE DEF p, f, e
  <2> QED BY <1>3 DEF Accept
<1> HIDE DEF f, e, partial
<1>6. /\ Sound(p) /\ p.fdc = f /\ p.uart = s.uart /\ p.ev = e /\ p.model = s.model
      /\ p.alive = s.alive
  BY <1>1, <1>2, <1>4, SetFields
<1> HIDE DEF p
<1>7. Signals(p, a) /\ Sound(a)
  BY <1>6, IntrqSignals, SignalsSound
<1> QED BY <1>4, <1>5, <1>6, <1>7 DEF Signals, e

LEMMA ForceIntRuns ==
  ASSUME NEW a, Sound(a), NEW bit, a.fdc.cmd = "FORCEINT", a.fdc.left = 0
  PROVE  LET t == ForceInt(a, bit) IN
         /\ Sound(t) /\ t.model = a.model /\ t.fdc.cmd = "FORCEINT"
         /\ Timed(t) /\ Counted(t) /\ Prompt(t)
         /\ t.ev.f = "none" \/ (t.ev.f = "done" /\ t.ev.now)
         /\ Announced(a) => Announced(t) \/ a.ev.f = "avail"
<1> DEFINE f == [a.fdc EXCEPT !.status = {}]
           c == With(a, f, a.uart, NoEvent)
<1>1. a \in Machines /\ a.fdc \in FdcState /\ a.uart \in UartState
  BY DEF Sound, Machines
<1>2. c = Status(Cancel(a), {})
  BY <1>1 DEF With, Status, Cancel, Machines, FdcState
<1>3. f \in FdcState /\ f.cmd = "FORCEINT" /\ f.left = 0 /\ f.status = {}
  BY <1>1 DEF FdcState
<1> HIDE DEF f
<1>4. /\ Sound(c) /\ c.fdc = f /\ c.uart = a.uart /\ c.ev = NoEvent /\ c.model = a.model
  BY <1>1, <1>3, IdleSound
<1>5. ForceInt(a, bit) \in {Unimpl(c), IntrqInterrupt(c, TRUE), IntrqInterrupt(c, FALSE)}
  <2> HIDE DEF c
  <2> QED BY <1>2 DEF ForceInt
<1> HIDE DEF c
<1>6. Timed(c) /\ Counted(c) /\ Prompt(c) /\ c.ev.f = "none"
  BY <1>3, <1>4 DEF Timed, Counted, Prompt, NoEvent
<1>7. Announced(a) => Announced(c) \/ a.ev.f = "avail"
  BY <1>4 DEF Announced, NoEvent
<1>8. ASSUME NEW on \in BOOLEAN
      PROVE  LET t == IntrqInterrupt(c, on) IN
             Follows(c, t) /\ t.fdc = c.fdc /\ t.ev = c.ev
  BY <1>4, IntrqSignals, SignalsKeep DEF Keeps, Signals
<1>9. LET t == Unimpl(c) IN
      /\ Follows(c, t) /\ t.fdc.cmd = c.fdc.cmd
      /\ t.ev = [f |-> "done", arg |-> "none", now |-> TRUE]
  BY <1>4, UnimplKeeps, UnimplRuns DEF Keeps
<1>10. ASSUME NEW on \in BOOLEAN, ForceInt(a, bit) = IntrqInterrupt(c, on)
       PROVE  LET t == ForceInt(a, bit) IN
              Follows(c, t) /\ t.fdc.cmd = "FORCEINT" /\ t.ev.f = "none"
  BY <1>3, <1>4, <1>6, <1>8, <1>10
<1>11. ASSUME ForceInt(a, bit) = Unimpl(c)
       PROVE  LET t == ForceInt(a, bit) IN
              Follows(c, t) /\ t.fdc.cmd = "FORCEINT" /\ t.ev.f = "done" /\ t.ev.now
  BY <1>3, <1>4, <1>9, <1>11
<1>12. LET t == ForceInt(a, bit) IN
       /\ Follows(c, t) /\ t.fdc.cmd = "FORCEINT"
       /\ t.ev.f = "none" \/ (t.ev.f = "done" /\ t.ev.now)
  BY <1>5, <1>10, <1>11
<1> QED BY <1>4, <1>6, <1>7, <1>12 DEF Follows

LEMMA CommandRuns ==
  ASSUME NEW s, Sound(s), s.alive, ~s.ev.now, NEW op \in Commands, NEW bit,
         NEW found \in Outcomes(s, op)
  PROVE  LET t == CommandWrite(s, op, found, bit) IN
         /\ Sound(t) /\ t.model = s.model /\ (Counted(s) => Counted(t)) /\ Prompt(t)
         /\ Timed(s) /\ ("BUSY" \notin s.fdc.status \/ op = "FORCEINT") => Timed(t)
         /\ t.alive => t.fdc.cmd = op
         /\ Announced(s) => \/ Announced(t)
                            \/ /\ op = "FORCEINT" /\ s.ev.f = "avail"
                               /\ t.ev.f = "none" \/ (t.ev.f = "done" /\ t.ev.now)
<1> DEFINE a == Accept(s, op)
           t == CommandWrite(s, op, found, bit)
<1>1. t = IF a.alive THEN Execute(a, op, found, bit) ELSE a
  BY DEF CommandWrite
<1>2. CASE a = Crash(s)
  <2>1. Keeps(s, Crash(s)) /\ ~Crash(s).alive
    BY KeepsItself, CrashKeeps
  <2>2. t = Crash(s)
    BY <1>1, <1>2, <2>1
  <2> HIDE DEF t
  <2> QED BY <2>1, <2>2 DEF Keeps, Follows, Prompt, t
<1>3. CASE a # Crash(s)
  <2>1. /\ Sound(a) /\ a.model = s.model /\ a.alive = s.alive /\ a.uart = s.uart
        /\ a.fdc.status = s.fdc.status /\ a.fdc.left = 0 /\ a.fdc.cmd = op
        /\ a.ev = IF s.ev.f = "lostdata" THEN NoEvent ELSE s.ev
    BY <1>3, AcceptRuns
  <2> HIDE DEF a
  <2>2. ~a.ev.now /\ (a.ev.f = "avail" <=> s.ev.f = "avail")
    BY <2>1 DEF NoEvent
  <2>3. Announced(s) => Announced(a)
    BY <2>1, <2>2 DEF Announced
  <2>4. Counted(a) /\ Prompt(a)
    BY <2>1, <2>2 DEF Counted, Prompt
  <2>5. CASE op = "FORCEINT" /\ a.alive
    <3>1. t = ForceInt(a, bit)
      BY <1>1, <2>5 DEF Execute, TypeI
    <3> HIDE DEF t
    <3>2. /\ Sound(t) /\ t.model = a.model /\ t.fdc.cmd = "FORCEINT"
          /\ Timed(t) /\ Counted(t) /\ Prompt(t)
          /\ t.ev.f = "none" \/ (t.ev.f = "done" /\ t.ev.now)
          /\ Announced(a) => Announced(t) \/ a.ev.f = "avail"
      BY <2>1, <2>5, <3>1, ForceIntRuns
    <3> QED BY <2>1, <2>2, <2>3, <2>5, <3>2 DEF t
  <2>6. CASE op # "FORCEINT" /\ a.alive
    <3>1. /\ op = "READ" => found \in {"none", "found", "nomark"}
          /\ op = "WRITE" => found \in {"none", "found", "wrongmark", "refused", "fault"}
          /\ op = "READADR" => found \in {"none", "found", "closed"}
      BY DEF Outcomes
    <3>2. t = Execute(a, a.fdc.cmd, found, bit)
      BY <1>1, <2>1, <2>6
    <3> HIDE DEF t
    <3>3. Obeys(a, t)
      BY <2>1, <2>6, <3>1, <3>2, ExecuteObeys
    <3> QED BY <2>1, <2>2, <2>3, <2>6, <3>3 DEF Obeys, t
  <2> QED BY <2>1, <2>5, <2>6
<1> QED BY <1>2, <1>3

-----------------------------------------------------------------------------
(* Resets.                                                                 *)

LEMMA SetIntSound ==
  ASSUME NEW t, Sound(t), NEW i \in IntState,
         t.model = 1 => (i.latch # {} => i.irq) /\ ~i.seen,
         t.model # 1 => i.irq = (i.latch \cap i.mask # {}),
         i.seen => i.nmi
  PROVE  LET u == [t EXCEPT !.int = i] IN
         /\ Sound(u) /\ u.model = t.model /\ u.ev = t.ev /\ u.uart = t.uart
         /\ u.fdc = t.fdc /\ u.disk = t.disk /\ u.alive = t.alive
<1> DEFINE u == [t EXCEPT !.int = i]
<1>1. t \in Machines
  BY DEF Sound
<1>2. /\ u \in Machines /\ u.int = i /\ u.model = t.model /\ u.ev = t.ev /\ u.uart = t.uart
      /\ u.fdc = t.fdc /\ u.disk = t.disk /\ u.alive = t.alive
  BY <1>1, SetInt
<1> HIDE DEF u
<1>3. Wired(u)
  BY <1>2 DEF Wired
<1> QED BY <1>2, <1>3 DEF Sound, u

\* The lines come back from a reset as the latches say.
LEMMA LinesReset ==
  ASSUME NEW t, Sound(t), t.model # 1
  PROVE  LET u == NmiMaskWrite(MaskWrite(ResetLines(t), {}), {}) IN
         /\ Sound(u) /\ u.model = t.model /\ u.ev = t.ev /\ u.uart = t.uart
         /\ u.fdc = t.fdc /\ u.disk = t.disk /\ u.alive = t.alive
<1> DEFINE i == [t.int EXCEPT !.irq = FALSE, !.nmi = FALSE]
           j == IrqLine([i EXCEPT !.mask = {}])
           k == [j EXCEPT !.nmiMask = {} \cup {"reset"}]
           l == NmiLine(k)
           u == [t EXCEPT !.int = l]
<1>1. t \in Machines /\ t.int \in IntState
  BY DEF Sound, Machines
<1>2. i \in IntState
  BY <1>1 DEF IntState
<1>3. ResetLines(t) = [t EXCEPT !.int = i]
  BY <1>1 DEF ResetLines, Machines, IntState
<1> HIDE DEF i
<1>4. j \in IntState /\ j.irq = (j.latch \cap j.mask # {})
  BY <1>2 DEF IntState, IrqLine
<1>5. MaskWrite([t EXCEPT !.int = i], {}) = [t EXCEPT !.int = j]
  BY <1>1 DEF MaskWrite, Machines
<1> HIDE DEF j
<1>6. k \in IntState /\ k.irq = (k.latch \cap k.mask # {})
  BY <1>4 DEF IntState, Nmis
<1>7. NmiMaskWrite([t EXCEPT !.int = j], {}) = u
  BY <1>1 DEF NmiMaskWrite, Machines
<1> HIDE DEF k
<1>8. l \in IntState /\ (l.seen => l.nmi) /\ l.irq = (l.latch \cap l.mask # {})
  BY <1>6, NmiLineType
<1> HIDE DEF l
<1>9. /\ Sound(u) /\ u.model = t.model /\ u.ev = t.ev /\ u.uart = t.uart
      /\ u.fdc = t.fdc /\ u.disk = t.disk /\ u.alive = t.alive
  BY <1>8, SetIntSound
<1> HIDE DEF u
<1> QED BY <1>3, <1>5, <1>7, <1>9

LEMMA LatchCleared ==
  ASSUME NEW t, Sound(t), t.model = 1
  PROVE  /\ LET u == LatchClear(t) IN
            /\ Sound(u) /\ u.model = t.model /\ u.ev = t.ev /\ u.uart = t.uart
            /\ u.fdc = t.fdc /\ u.disk = t.disk /\ u.alive = t.alive
         /\ LET u == LatchClear(ResetLines(t)) IN
            /\ Sound(u) /\ u.model = t.model /\ u.ev = t.ev /\ u.uart = t.uart
            /\ u.fdc = t.fdc /\ u.disk = t.disk /\ u.alive = t.alive
<1> DEFINE i == [t.int EXCEPT !.latch = {}]
           j == [t.int EXCEPT !.irq = FALSE, !.nmi = FALSE, !.latch = {}]
<1>1. t \in Machines /\ t.int \in IntState
  BY DEF Sound, Machines
<1>2. ~t.int.seen /\ (t.int.seen => t.int.nmi)
  BY Zenon DEF Sound, Wired
<1>3. i \in IntState /\ i.latch = {} /\ i.seen = t.int.seen /\ i.nmi = t.int.nmi
  BY <1>1 DEF IntState
<1>4. j \in IntState /\ j.latch = {} /\ j.seen = t.int.seen
  BY <1>1 DEF IntState
<1>5. LatchClear(t) = [t EXCEPT !.int = i]
  BY <1>1 DEF LatchClear, Machines, IntState
<1>6. LatchClear(ResetLines(t)) = [t EXCEPT !.int = j]
  BY <1>1 DEF LatchClear, ResetLines, Machines, IntState
<1> HIDE DEF i, j
<1> QED BY <1>2, <1>3, <1>4, <1>5, <1>6, SetIntSound

LEMMA FdcStartType == FdcStart \in FdcState
<1>1. 0 \in Drives
  BY FdcAssumption DEF Drives
<1> QED BY <1>1 DEF FdcStart, FdcState, Commands, TypeI

LEMMA FdcResetRuns ==
  ASSUME NEW s, Sound(s), NEW poweron \in BOOLEAN
  PROVE  LET t == FdcReset(s, poweron) IN
         /\ Sound(t) /\ t.model = s.model /\ t.alive = s.alive
         /\ t.fdc = FdcStart /\ t.ev = NoEvent
<1> DEFINE k == [d \in Drives |-> IF poweron /\ ~s.disk[d].file
                                  THEN [s.disk[d] EXCEPT !.type = "NONE"] ELSE s.disk[d]]
           p == With(s, FdcStart, s.uart, NoEvent)
           t == [p EXCEPT !.disk = k]
<1>1. s \in Machines /\ s.uart \in UartState /\ s.disk \in [Drives -> Disk]
  BY DEF Sound, Machines
<1>2. k \in [Drives -> Disk]
  BY <1>1 DEF Disk, DiskTypes
<1>3. FdcReset(s, poweron) = t
  BY <1>1 DEF FdcReset, Cancel, With, Machines
<1> HIDE DEF k
<1>4. /\ Sound(p) /\ p.fdc = FdcStart /\ p.ev = NoEvent /\ p.model = s.model
      /\ p.alive = s.alive
  BY <1>1, FdcStartType, IdleSound
<1> HIDE DEF p
<1>5. /\ Sound(t) /\ t.fdc = p.fdc /\ t.ev = p.ev /\ t.model = p.model /\ t.alive = p.alive
  BY <1>2, <1>4 DEF Sound, Machines, Wired
<1> HIDE DEF t
<1> QED BY <1>3, <1>4, <1>5

\* A reset leaves an idle controller; its serial port has nothing to announce.
LEMMA ResetRuns ==
  ASSUME NEW s, Sound(s), NEW poweron \in BOOLEAN, NEW opens \in BOOLEAN,
         NEW stopped \in BOOLEAN
  PROVE  LET t == Reset(s, poweron, opens, stopped) IN
         /\ Sound(t) /\ t.model = s.model /\ t.alive = s.alive /\ ~t.ev.now
         /\ Timed(t) /\ Counted(t) /\ Announced(t) /\ t.fdc.cmd = "RESTORE"
<1> DEFINE f == FdcReset(s, poweron)
           u == UartInit(f, opens)
           r == TimerInterrupt(u, FALSE)
           e == TimerEvent(r, stopped)
           q == ResetButton(r, TRUE)
           b == Schedule(q, "reset", "none", FALSE)
           t == Reset(s, poweron, opens, stopped)
<1>1. t = IF s.model # 1 THEN NmiMaskWrite(MaskWrite(ResetLines(e), {}), {})
          ELSE LatchClear(IF poweron THEN ResetLines(e) ELSE b)
  BY DEF Reset
<1>2. /\ Sound(f) /\ f.model = s.model /\ f.alive = s.alive
      /\ f.fdc = FdcStart /\ f.ev = NoEvent
  BY FdcResetRuns
<1> HIDE DEF f
<1>3. /\ Sound(u) /\ u.model = s.model /\ u.alive = s.alive
      /\ u.fdc = FdcStart /\ u.ev = NoEvent /\ Announced(u)
  BY <1>2, UartInitRuns DEF NoEvent
<1> HIDE DEF u
<1>4. Signals(u, r) /\ Sound(r) /\ Announced(r)
  BY <1>3, TimerSignals, SignalsSound
<1>5. /\ r.model = s.model /\ r.alive = s.alive /\ r.fdc = FdcStart /\ r.ev = NoEvent
  BY <1>3, <1>4 DEF Signals
<1> HIDE DEF r
<1>6. Timed(r) /\ Counted(r) /\ ~r.ev.now /\ r.fdc.cmd = "RESTORE"
  BY <1>5 DEF Timed, Counted, NoEvent, FdcStart
<1>7. /\ Sound(e) /\ e.model = s.model /\ e.alive = s.alive /\ ~e.ev.now
      /\ Timed(e) /\ Counted(e) /\ Announced(e) /\ e.fdc.cmd = "RESTORE"
  BY <1>4, <1>5, <1>6, TimerEventKeeps DEF Keeps, Follows
<1> HIDE DEF e
<1>8. /\ Sound(b) /\ b.model = s.model /\ b.alive = s.alive /\ ~b.ev.now
      /\ Timed(b) /\ Counted(b) /\ Announced(b) /\ b.fdc.cmd = "RESTORE"
  <2>1. Signals(r, q) /\ Sound(q) /\ Announced(q)
    BY <1>4, ResetButtonSignals, SignalsSound
  <2>2. q.model = s.model /\ q.alive = s.alive /\ q.fdc = FdcStart /\ q.ev = NoEvent
    BY <1>5, <2>1 DEF Signals
  <2> HIDE DEF q
  <2>3. Drained(q, b) /\ b.ev = [f |-> "reset", arg |-> "none", now |-> FALSE]
    BY <2>1, OtherScheduled
  <2> HIDE DEF b
  <2>4. b.ev.f = "reset" /\ ~b.ev.now
    BY <2>3
  <2>5. b.fdc = FdcStart /\ Sound(b) /\ b.model = s.model /\ b.alive = s.alive
    BY <2>2, <2>3 DEF Drained, DrainFdc, EventFdc, NoEvent
  <2>6. Announced(b)
    BY <2>1, <2>3, <2>4, EventAnnounces DEF Drained
  <2> QED BY <2>4, <2>5, <2>6 DEF Timed, Counted, FdcStart
<1> HIDE DEF b, t
<1>9. CASE s.model # 1
  <2>1. /\ Sound(t) /\ t.model = e.model /\ t.ev = e.ev /\ t.uart = e.uart
        /\ t.fdc = e.fdc /\ t.alive = e.alive
    BY <1>1, <1>7, <1>9, LinesReset
  <2> QED BY <1>7, <2>1 DEF Timed, Counted, Announced, Waiting4Index, t
<1>10. CASE s.model = 1 /\ poweron
  <2>1. /\ Sound(t) /\ t.model = e.model /\ t.ev = e.ev /\ t.uart = e.uart
        /\ t.fdc = e.fdc /\ t.alive = e.alive
    BY <1>1, <1>7, <1>10, LatchCleared
  <2> QED BY <1>7, <2>1 DEF Timed, Counted, Announced, Waiting4Index, t
<1>11. CASE s.model = 1 /\ ~poweron
  <2>1. /\ Sound(t) /\ t.model = b.model /\ t.ev = b.ev /\ t.uart = b.uart
        /\ t.fdc = b.fdc /\ t.alive = b.alive
    BY <1>1, <1>8, <1>11, LatchCleared
  <2> QED BY <1>8, <2>1 DEF Timed, Counted, Announced, Waiting4Index, t
<1> QED BY <1>9, <1>10, <1>11

-----------------------------------------------------------------------------
(* The machine's steps.                                                    *)

Inv ==
  /\ Sound(Now) /\ Counted(Now) /\ ~ev.now
  /\ guest = "polite" => Timed(Now)
  /\ model \in Models /\ guest \in Guests

\* What TransfersAccounted and BytesAnnounced say of one step.
StepAccounted ==
  guest = "polite" /\ alive' /\ fdc.cmd \in Transfers /\ fdc'.cmd = fdc.cmd
    /\ "BUSY" \in fdc.status /\ "BUSY" \notin fdc'.status
  => /\ fdc.left = 0 \/ {"LOST", "FAIL"} \cap fdc'.status # {}
     /\ IntrqRaised' \/ ~fdc'.motor
StepAnnounced ==
  BytesSound /\ alive' =>
    \/ BytesSound'
    \/ ev.f = "avail" /\ ev'.f = "none" /\ fdc'.cmd = "FORCEINT"
    \/ SerialMenu \/ Resume

StepKept == Inv' /\ StepAccounted /\ StepAnnounced

LEMMA NowFields ==
  /\ Now.model = model /\ Now.int = int /\ Now.ev = ev /\ Now.uart = uart
  /\ Now.fdc = fdc /\ Now.disk = disk /\ Now.alive = alive
BY DEF Now

LEMMA NowIs == (Announced(Now) <=> BytesSound) /\ (Raised(Now) <=> IntrqRaised)
BY NowFields DEF Announced, BytesSound, Raised, IntrqRaised

\* What holds of s holds of the next state that Becomes gives it.
LEMMA NextIs ==
  ASSUME NEW s, Sound(s), s.model = model, Becomes(s), Inv
  PROVE  /\ Sound(s) <=> Sound(Now)'
         /\ Timed(s) <=> Timed(Now)'
         /\ Counted(s) <=> Counted(Now)'
         /\ Announced(s) <=> BytesSound'
         /\ Raised(s) <=> IntrqRaised'
         /\ fdc' = s.fdc /\ ev' = s.ev /\ alive' = s.alive
         /\ guest' = guest /\ model' = model
<1>1. /\ Now'.model = s.model /\ Now'.int = s.int /\ Now'.ev = s.ev /\ Now'.uart = s.uart
      /\ Now'.fdc = s.fdc /\ Now'.disk = s.disk /\ Now'.alive = s.alive
      /\ Now' \in Machines
  BY DEF Now, Becomes, Sound, Machines
<1>2. s \in Machines
  BY DEF Sound
<1>3. Now' = s
  BY <1>1, <1>2 DEF Machines
<1>4. (Announced(s) <=> BytesSound') /\ (Raised(s) <=> IntrqRaised')
  BY DEF Becomes, Announced, BytesSound, Raised, IntrqRaised
<1> QED BY <1>3, <1>4 DEF Becomes

LEMMA NextInv ==
  ASSUME NEW s, Sound(s), s.model = model, Becomes(s), Inv,
         Counted(s), ~s.ev.now, guest = "polite" => Timed(s)
  PROVE  Inv'
BY NextIs DEF Inv

\* The end of a round: the event that is for now, and the NMI.
LEMMA RoundEndsKeeps ==
  ASSUME NEW s, Sound(s)
  PROVE  LET t == RoundEnds(s) IN
         /\ Sound(t) /\ t.model = s.model /\ ~t.ev.now /\ t.alive = s.alive
         /\ (Timed(s) => Timed(t)) /\ (Counted(s) => Counted(t))
         /\ (Announced(s) => Announced(t)) /\ (Raised(s) => Raised(t))
         /\ t.fdc.cmd = s.fdc.cmd /\ (~s.ev.now => t.fdc = s.fdc /\ t.ev = s.ev)
         /\ s.ev.now /\ s.ev.f = "done" =>
              /\ Raised(t) /\ t.ev.f = "none" /\ t.fdc.motor = s.fdc.motor
              /\ s.fdc.status \ {"BUSY"} \subseteq t.fdc.status
<1> DEFINE e == IF s.ev.now THEN DoEvent(s) ELSE s
           t == AcceptNmi(e)
<1>1. RoundEnds(s) = t
  BY DEF RoundEnds
<1>2. Ran(s, DoEvent(s)) /\ Keeps(s, DoEvent(s)) /\ ~DoEvent(s).ev.now
      /\ DoEvent(s).alive = s.alive /\ DoEvent(s).fdc.cmd = s.fdc.cmd
  BY DoEventRuns, DoEventKeeps
<1>3. Keeps(s, e) /\ ~e.ev.now /\ e.alive = s.alive /\ e.fdc.cmd = s.fdc.cmd
      /\ (~s.ev.now => e = s) /\ (Raised(s) => Raised(e))
  BY <1>2, KeepsItself DEF Ran
<1>4. ASSUME s.ev.now, s.ev.f = "done"
      PROVE  /\ Raised(e) /\ e.ev.f = "none" /\ e.fdc.motor = s.fdc.motor
             /\ s.fdc.status \ {"BUSY"} \subseteq e.fdc.status
  <2>1. e.fdc = [s.fdc EXCEPT !.status = (@ \ {"BUSY"}) \cup ({s.ev.arg} \ {"none"})]
        /\ e.ev = NoEvent /\ Raised(e)
    BY <1>2, <1>4 DEF Ran, EventFdc, EventNext, Ends
  <2>2. s.fdc \in FdcState
    BY DEF Sound, Machines
  <2> HIDE DEF e
  <2> QED BY <2>1, <2>2 DEF FdcState, NoEvent
<1> HIDE DEF e
<1>5. Signals(e, t) /\ (Raised(e) => Raised(t)) /\ Sound(e)
  BY <1>3, AcceptSignals DEF Keeps, Follows
<1>6. /\ Sound(t) /\ (Timed(e) => Timed(t)) /\ (Counted(e) => Counted(t))
      /\ (Announced(e) => Announced(t))
  BY <1>5, SignalsSound
<1>7. t.model = e.model /\ t.ev = e.ev /\ t.fdc = e.fdc /\ t.alive = e.alive
  BY <1>5 DEF Signals
<1> HIDE DEF t
<1> QED BY <1>1, <1>3, <1>4, <1>5, <1>6, <1>7 DEF Keeps, Follows

\* Nothing of a crashed machine could break anything.
LEMMA CrashedRuns ==
  ASSUME NEW s, Sound(s)
  PROVE  LET t == Crashed(s) IN
         /\ Sound(t) /\ t.model = s.model /\ ~t.ev.now /\ t.alive = s.alive
         /\ Timed(t) /\ Counted(t)
<1> DEFINE k == [d \in Drives |-> NoDisk]
           t == Crashed(s)
<1>1. k \in [Drives -> Disk]
  BY DEF NoDisk, Disk, DiskTypes
<1>2. IntStart \in IntState /\ IntStart.latch = {} /\ IntStart.seen = FALSE
      /\ IntStart.irq = FALSE
  BY DEF IntStart, IntState, Nmis
<1>3. UartStart \in UartState
  BY DEF UartStart, UartState
<1>4. s \in Machines /\ s.model = t.model
  BY DEF Sound, Machines, Crashed
<1>5. t = [s EXCEPT !.int = IntStart, !.ev = NoEvent, !.uart = UartStart,
                    !.fdc = FdcStart, !.disk = k]
  BY DEF Crashed
<1> HIDE DEF k
<1>6. /\ t \in Machines /\ t.int = IntStart /\ t.ev = NoEvent /\ t.fdc = FdcStart
      /\ t.model = s.model /\ t.alive = s.alive
  BY <1>1, <1>2, <1>3, <1>4, <1>5, FdcStartType, NoEventType DEF Machines
<1> HIDE DEF t
<1>7. FdcStart.status = {} /\ FdcStart.left = 0 /\ FdcStart.cmd = "RESTORE"
      /\ NoEvent.f = "none" /\ NoEvent.now = FALSE
  BY DEF FdcStart, NoEvent
<1>8. Wired(t)
  <2>1. IntStart.latch \cap IntStart.mask = {}
    BY <1>2
  <2> QED BY <1>2, <1>6, <2>1 DEF Wired
<1>9. Timed(t)
  BY <1>6, <1>7 DEF Timed
<1>10. Counted(t)
  BY <1>6, <1>7 DEF Counted
<1> QED BY <1>6, <1>7, <1>8, <1>9, <1>10 DEF Sound, t

\* An instruction that ends in t.
LEMMA InstructionInv ==
  ASSUME Inv, NEW t, Sound(t), t.model = model, Counted(t), guest = "polite" => Timed(t),
         Instruction(t)
  PROVE  Inv'
<1>1. CASE t.alive
  <2>1. Becomes(RoundEnds(t))
    BY <1>1 DEF Instruction
  <2> QED BY <2>1, RoundEndsKeeps, NextInv
<1>2. CASE ~t.alive
  <2>1. Becomes(Crashed(t))
    BY <1>2 DEF Instruction
  <2> QED BY <2>1, CrashedRuns, NextInv
<1> QED BY <1>1, <1>2

\* Nothing is left to account for when the emulator has crashed.
LEMMA InstructionAlive ==
  ASSUME Inv, NEW t, Sound(t), t.model = model, Instruction(t), alive'
  PROVE  Becomes(RoundEnds(t)) /\ t.alive
<1>1. ASSUME ~t.alive PROVE FALSE
  <2>1. Becomes(Crashed(t))
    BY <1>1 DEF Instruction
  <2> QED BY <1>1, <2>1, CrashedRuns DEF Becomes
<1> QED BY <1>1 DEF Instruction

LEMMA KeepsInstruction ==
  ASSUME Inv, NEW t, Keeps(Now, t), Instruction(t)
  PROVE  StepKept
<1>1. /\ Sound(t) /\ t.model = model /\ Counted(t)
      /\ (guest = "polite" => Timed(t)) /\ (BytesSound => Announced(t)) /\ Prompt(t)
  BY NowFields, NowIs DEF Inv, Keeps, Follows, Prompt
<1>2. Inv'
  BY <1>1, InstructionInv
<1> DEFINE r == RoundEnds(t)
<1>3. /\ Sound(r) /\ r.model = model
      /\ (Announced(t) => Announced(r)) /\ (Raised(t) => Raised(r))
      /\ (~t.ev.now => r.fdc = t.fdc)
      /\ t.ev.now /\ t.ev.f = "done" =>
              /\ Raised(r) /\ r.fdc.motor = t.fdc.motor
              /\ t.fdc.status \ {"BUSY"} \subseteq r.fdc.status
  BY <1>1, RoundEndsKeeps
<1>4. alive' => Becomes(r)
  BY <1>1, InstructionAlive
<1> HIDE DEF r
<1>5. ASSUME Becomes(r) PROVE /\ (Announced(r) <=> BytesSound') /\ (Raised(r) <=> IntrqRaised')
                              /\ fdc' = r.fdc
  BY <1>3, <1>5, NextIs
<1>6. StepAnnounced
  BY <1>1, <1>3, <1>4, <1>5 DEF StepAnnounced
<1>7. ASSUME guest = "polite", Becomes(r), "BUSY" \in fdc.status, "BUSY" \notin fdc'.status
      PROVE  /\ fdc.left = 0 \/ {"LOST", "FAIL"} \cap fdc'.status # {}
             /\ IntrqRaised' \/ ~fdc'.motor
  <2>1. "BUSY" \notin t.fdc.status
    BY <1>1, <1>3, <1>5, <1>7 DEF Prompt
  <2>2. Accounts(Now, t)
    BY <1>7 DEF Inv, Keeps
  <2>3. /\ fdc.left = 0 \/ "LOST" \in t.fdc.status \/ "FAIL" \in t.fdc.status
        /\ Raised(t) \/ ~t.fdc.motor \/ (t.ev.now /\ t.ev.f = "done")
    BY <1>7, <2>1, <2>2, NowFields DEF Accounts
  <2> QED BY <1>1, <1>3, <1>5, <1>7, <2>3 DEF Prompt
<1>8. StepAccounted
  BY <1>4, <1>7 DEF StepAccounted
<1> QED BY <1>2, <1>6, <1>8 DEF StepKept

\* A call of the timer that ends in t.
LEMMA KeepsHappens ==
  ASSUME Inv, NEW t, Keeps(Now, t), ~t.ev.now, Becomes(t)
  PROVE  StepKept
<1>1. /\ Sound(t) /\ t.model = model /\ Counted(t)
      /\ (guest = "polite" => Timed(t)) /\ (BytesSound => Announced(t))
  BY NowFields, NowIs DEF Inv, Keeps, Follows
<1>2. Inv'
  BY <1>1, NextInv
<1>3. (Announced(t) <=> BytesSound') /\ (Raised(t) <=> IntrqRaised') /\ fdc' = t.fdc
  BY <1>1, NextIs
<1>4. StepAnnounced
  BY <1>1, <1>3 DEF StepAnnounced
<1>5. ASSUME guest = "polite", "BUSY" \in fdc.status, "BUSY" \notin fdc'.status
      PROVE  /\ fdc.left = 0 \/ {"LOST", "FAIL"} \cap fdc'.status # {}
             /\ IntrqRaised' \/ ~fdc'.motor
  <2>1. Accounts(Now, t)
    BY <1>5 DEF Inv, Keeps
  <2> QED BY <1>3, <1>5, <2>1, NowFields DEF Accounts
<1>6. StepAccounted
  BY <1>5 DEF StepAccounted
<1> QED BY <1>2, <1>4, <1>6 DEF StepKept

\* One lemma for each kind of step.
LEMMA OtherKept == ASSUME Inv, Other PROVE StepKept
BY KeepsItself, KeepsInstruction DEF Inv, Other

LEMMA UartStatusKept == ASSUME Inv, UartStatus PROVE StepKept
<1>1. PICK opens \in Opens(Now), n \in Waiting(Now) : Instruction(UartStatusIn(Now, opens, n))
  BY DEF UartStatus
<1>2. opens \in BOOLEAN /\ n \in Nat
  <2>1. opens \in BOOLEAN
    BY MachineAssumption DEF Opens
  <2>2. n \in Reads \cup {0}
    BY DEF Waiting
  <2> QED BY <2>1, <2>2, MachineAssumption
<1>3. Keeps(Now, UartStatusIn(Now, opens, n))
  BY <1>2, UartStatusKeeps DEF Inv
<1> QED BY <1>1, <1>3, KeepsInstruction

LEMMA UartDataKept == ASSUME Inv, UartData PROVE StepKept
<1>1. PICK opens \in Opens(Now), n \in Waiting(Now) : Instruction(UartDataIn(Now, opens, n))
  BY DEF UartData
<1>2. opens \in BOOLEAN /\ n \in Nat
  <2>1. opens \in BOOLEAN
    BY MachineAssumption DEF Opens
  <2>2. n \in Reads \cup {0}
    BY DEF Waiting
  <2> QED BY <2>1, <2>2, MachineAssumption
<1>3. Keeps(Now, UartDataIn(Now, opens, n))
  BY <1>2, UartDataKeeps DEF Inv
<1> QED BY <1>1, <1>3, KeepsInstruction

LEMMA UartOtherKept == ASSUME Inv, UartOther PROVE StepKept
<1>1. PICK opens \in Opens(Now) : Instruction(Opened(Now, opens))
  BY DEF UartOther
<1>2. opens \in BOOLEAN
  BY MachineAssumption DEF Opens
<1>3. Keeps(Now, Opened(Now, opens))
  BY <1>2, OpenedKeeps DEF Inv
<1> QED BY <1>1, <1>3, KeepsInstruction

LEMMA SelectKept == ASSUME Inv, DriveSelect \/ NoneSelect \/ BogusSelect PROVE StepKept
<1>1. CASE DriveSelect
  <2>1. PICK drive \in Drives, wait \in Waits : Instruction(Select(Now, drive, wait))
    BY <1>1 DEF DriveSelect
  <2>2. wait \in BOOLEAN
    BY DEF Waits
  <2>3. Keeps(Now, Select(Now, drive, wait))
    BY <2>2, SelectKeeps DEF Inv
  <2> QED BY <2>1, <2>3, KeepsInstruction
<1>2. CASE NoneSelect
  <2>1. Keeps(Now, SelectNone(Now, TRUE))
    BY SelectNoneKeeps DEF Inv
  <2> QED BY <1>2, <2>1, KeepsInstruction DEF NoneSelect
<1>3. CASE BogusSelect
  <2>1. PICK wait \in Waits : Instruction(SelectBogus(Now, wait))
    BY <1>3 DEF BogusSelect
  <2>2. wait \in BOOLEAN
    BY DEF Waits
  <2>3. Keeps(Now, SelectBogus(Now, wait))
    BY <2>2, SelectBogusKeeps DEF Inv
  <2> QED BY <2>1, <2>3, KeepsInstruction
<1> QED BY <1>1, <1>2, <1>3

LEMMA DataKept == ASSUME Inv, FdcStatus \/ FdcDataIn \/ FdcDataOut PROVE StepKept
<1>1. CASE FdcStatus
  BY <1>1, DiskStatusReadKeeps, KeepsInstruction DEF FdcStatus, Inv
<1>2. CASE FdcDataIn
  BY <1>2, DataReadKeeps, KeepsInstruction DEF FdcDataIn, Inv
<1>3. CASE FdcDataOut
  <2>1. PICK e \in (IF fdc.fmt THEN FormatEvents(Selected(Now).type) ELSE {"taken"}),
             ok \in Taken(Now) : Instruction(DataWrite(Now, e, ok))
    BY <1>3 DEF FdcDataOut
  <2>2. ok \in BOOLEAN
    BY DEF Taken
  <2>3. e \in {"taken", "written", "crc", "complaint", "full"}
    BY DEF FormatEvents
  <2>4. Keeps(Now, DataWrite(Now, e, ok))
    BY <2>2, <2>3, DataWriteKeeps DEF Inv
  <2> QED BY <2>1, <2>4, KeepsInstruction
<1> QED BY <1>1, <1>2, <1>3

\* A new command drops what the old one had left; a polite guest interrupts a
\* busy controller only by a FORCEINT.
LEMMA CommandKept ==
  ASSUME Inv, NEW op \in Commands, Command(op)
  PROVE  StepKept
<1>1. PICK found \in Outcomes(Now, op), bit \in CommandBits(op) :
        Instruction(CommandWrite(Now, op, found, bit))
  BY DEF Command
<1> DEFINE t == CommandWrite(Now, op, found, bit)
           r == RoundEnds(t)
<1>2. alive /\ (guest = "polite" => "BUSY" \notin fdc.status \/ op = "FORCEINT")
  BY <1>1 DEF Instruction, Command, Free
<1>3. /\ Sound(t) /\ t.model = model /\ Counted(t)
      /\ (guest = "polite" => Timed(t)) /\ (t.alive => t.fdc.cmd = op)
      /\ BytesSound => \/ Announced(t)
                       \/ /\ op = "FORCEINT" /\ ev.f = "avail"
                          /\ t.ev.f = "none" \/ (t.ev.f = "done" /\ t.ev.now)
  <2>1. Sound(Now) /\ Now.alive /\ ~Now.ev.now
    BY <1>2, NowFields DEF Inv
  <2> QED BY <1>2, <2>1, CommandRuns, NowFields, NowIs DEF Inv
<1>4. Instruction(t)
  BY <1>1
<1> HIDE DEF t
<1>5. Inv'
  BY <1>3, <1>4, InstructionInv
<1>6. /\ Sound(r) /\ r.model = model /\ (Announced(t) => Announced(r))
      /\ r.fdc.cmd = t.fdc.cmd /\ (~t.ev.now => r.ev = t.ev)
      /\ (t.ev.now /\ t.ev.f = "done" => r.ev.f = "none")
  BY <1>3, RoundEndsKeeps
<1>7. alive' => Becomes(r) /\ t.alive
  BY <1>3, <1>4, InstructionAlive
<1> HIDE DEF r
<1>8. ASSUME Becomes(r) PROVE (Announced(r) <=> BytesSound') /\ fdc' = r.fdc /\ ev' = r.ev
  BY <1>6, <1>8, NextIs
<1>9. ASSUME alive' PROVE fdc'.cmd = op
  BY <1>3, <1>6, <1>7, <1>8, <1>9
<1>10. StepAnnounced
  <2>1. ASSUME BytesSound, alive', ~Announced(t)
        PROVE  ev.f = "avail" /\ ev'.f = "none" /\ fdc'.cmd = "FORCEINT"
    <3>1. op = "FORCEINT" /\ ev.f = "avail"
          /\ (t.ev.f = "none" \/ (t.ev.f = "done" /\ t.ev.now))
      BY <1>3, <2>1
    <3>2. t.ev.f = "none" => ~t.ev.now
      BY <1>3 DEF Sound, NoEvent
    <3>3. ev'.f = "none" /\ fdc'.cmd = op
      BY <1>6, <1>7, <1>8, <1>9, <2>1, <3>1, <3>2
    <3> QED BY <3>1, <3>3
  <2> QED BY <1>6, <1>7, <1>8, <2>1 DEF StepAnnounced
<1>11. StepAccounted
  <2>1. "FORCEINT" \notin Transfers
    BY DEF Transfers
  <2> QED BY <1>2, <1>9, <2>1 DEF StepAccounted
<1> QED BY <1>5, <1>10, <1>11 DEF StepKept

LEMMA LinesKept ==
  ASSUME Inv, LatchIn \/ TimerAck \/ IrqMaskOut \/ NmiMaskOut
  PROVE  StepKept
<1>0. Now.model = model
  BY NowFields
<1>1. CASE LatchIn
  BY <1>1, LatchReadSignals, SignalsKeep, KeepsInstruction DEF LatchIn, Inv
<1>2. CASE TimerAck
  BY <1>2, TimerSignals, SignalsKeep, KeepsInstruction DEF TimerAck, Inv
<1>3. CASE IrqMaskOut
  <2>1. PICK mask \in IrqMasks : Instruction(MaskWrite(Now, mask))
    BY <1>3 DEF IrqMaskOut
  <2>2. mask \in SUBSET Irqs /\ Now.model # 1
    BY <1>0, <1>3, MachineAssumption DEF IrqMaskOut
  <2>3. Keeps(Now, MaskWrite(Now, mask))
    BY <2>2, MaskSignals, SignalsKeep DEF Inv
  <2> QED BY <2>1, <2>3, KeepsInstruction
<1>4. CASE NmiMaskOut
  <2>1. PICK mask \in NmiMasks : Instruction(NmiMaskWrite(Now, mask))
    BY <1>4 DEF NmiMaskOut
  <2>2. mask \in SUBSET Nmis /\ Now.model # 1
    BY <1>0, <1>4, MachineAssumption DEF NmiMaskOut
  <2>3. Keeps(Now, NmiMaskWrite(Now, mask))
    BY <2>2, NmiMaskSignals, SignalsKeep DEF Inv
  <2> QED BY <2>1, <2>3, KeepsInstruction
<1> QED BY <1>1, <1>2, <1>3, <1>4

LEMMA TimeKept == ASSUME Inv, EventDue \/ PollSerial \/ Tick PROVE StepKept
<1>0. Sound(Now) /\ ~Now.ev.now
  BY NowFields DEF Inv
<1>1. CASE EventDue
  <2> DEFINE d == DoEvent(Now)
             t == AcceptNmi(d)
  <2>1. Keeps(Now, d) /\ ~d.ev.now
    BY <1>0, DoEventKeeps
  <2>2. Becomes(t)
    BY <1>1 DEF EventDue
  <2> HIDE DEF d
  <2>3. Sound(d)
    BY <2>1 DEF Keeps, Follows
  <2>4. Signals(d, t) /\ (Raised(d) => Raised(t))
    BY <2>3, AcceptSignals
  <2> HIDE DEF t
  <2>5. Keeps(Now, t) /\ ~t.ev.now
    BY <2>1, <2>4, KeepsSignals DEF Signals
  <2> QED BY <2>2, <2>5, KeepsHappens
<1>2. CASE PollSerial
  <2>1. PICK n \in Waiting(Now) : Happens(CheckAvail(Now, n))
    BY <1>2 DEF PollSerial
  <2>2. n \in Nat
    BY MachineAssumption DEF Waiting
  <2>3. Keeps(Now, CheckAvail(Now, n)) /\ ~CheckAvail(Now, n).ev.now
    BY <1>0, <2>2, CheckAvailKeeps
  <2> QED BY <2>1, <2>3, KeepsHappens DEF Happens
<1>3. CASE Tick
  <2>1. PICK stopped \in MayStop(Now) : Happens(TimerEvent(Now, stopped))
    BY <1>3 DEF Tick
  <2>2. stopped \in BOOLEAN
    BY DEF MayStop
  <2>3. Keeps(Now, TimerEvent(Now, stopped)) /\ ~TimerEvent(Now, stopped).ev.now
    BY <1>0, <2>2, TimerEventKeeps
  <2> QED BY <2>1, <2>3, KeepsHappens DEF Happens
<1> QED BY <1>1, <1>2, <1>3

\* A machine that has been reset owes nothing.
LEMMA RestartedKept ==
  ASSUME Inv, NEW u, Sound(u), u.model = model, ~u.ev.now, Timed(u), Counted(u),
         Announced(u), u.fdc.cmd = "RESTORE", Becomes(u)
  PROVE  StepKept
<1>1. Inv'
  BY NextInv
<1>2. BytesSound' /\ fdc'.cmd = "RESTORE"
  BY NextIs
<1>3. "RESTORE" \notin Transfers
  BY DEF Transfers
<1> QED BY <1>1, <1>2, <1>3 DEF StepKept, StepAccounted, StepAnnounced

\* The serial port was opened anew, the controller left alone.
LEMMA SetKept ==
  ASSUME Inv, NEW t, Sound(t), t.model = Now.model, t.ev = Now.ev, t.fdc = Now.fdc,
         Timed(Now) => Timed(t), Counted(Now) => Counted(t), Becomes(t),
         SerialMenu \/ Resume
  PROVE  StepKept
<1>1. t.model = model /\ t.ev = ev /\ t.fdc = fdc
  BY NowFields
<1>2. Inv'
  BY <1>1, NextInv DEF Inv
<1>3. fdc' = fdc
  BY <1>1, NextIs
<1> QED BY <1>2, <1>3 DEF StepKept, StepAccounted, StepAnnounced

\* Another disk in a drive: nothing else looks at it before the next command.
LEMMA DiskKeeps ==
  ASSUME NEW s, Sound(s), ~s.ev.now, NEW k \in [Drives -> Disk]
  PROVE  LET t == [s EXCEPT !.disk = k] IN Keeps(s, t) /\ ~t.ev.now
<1> DEFINE t == [s EXCEPT !.disk = k]
<1>1. /\ t \in Machines /\ t.model = s.model /\ t.int = s.int /\ t.ev = s.ev
      /\ t.uart = s.uart /\ t.fdc = s.fdc /\ t.alive = s.alive
  BY DEF Sound, Machines
<1> HIDE DEF t
<1>2. Sound(t)
  BY <1>1 DEF Sound, Wired
<1>3. Timed(s) <=> Timed(t)
  BY <1>1 DEF Timed, Waiting4Index
<1>4. (Counted(s) <=> Counted(t)) /\ (Prompt(s) <=> Prompt(t))
  BY <1>1 DEF Counted, Prompt
<1>5. Announced(s) <=> Announced(t)
  BY <1>1 DEF Announced
<1>6. Accounts(s, t)
  BY <1>1 DEF Accounts
<1> QED BY <1>1, <1>2, <1>3, <1>4, <1>5, <1>6 DEF Keeps, Follows, t

\* Resets, on the processor's side and on the user's.
LEMMA ResetKept == ASSUME Inv, Halt \/ ResetKey PROVE StepKept
<1>1. \E poweron \in BOOLEAN, opens \in BOOLEAN :
        LET t == Reset(Now, poweron, opens, TRUE) IN Instruction(t) \/ Happens(t)
  BY MachineAssumption DEF Halt, ResetKey
<1>2. PICK poweron \in BOOLEAN, opens \in BOOLEAN :
        LET t == Reset(Now, poweron, opens, TRUE) IN Instruction(t) \/ Happens(t)
  BY <1>1
<1> DEFINE t == Reset(Now, poweron, opens, TRUE)
           r == RoundEnds(t)
<1>3. alive /\ Now.alive
  BY <1>2, NowFields DEF Instruction, Happens
<1>4. /\ Sound(t) /\ t.model = model /\ t.alive /\ ~t.ev.now
      /\ Timed(t) /\ Counted(t) /\ Announced(t) /\ t.fdc.cmd = "RESTORE"
  <2>1. Sound(Now) /\ Now.model = model
    BY NowFields DEF Inv
  <2>2. TRUE \in BOOLEAN
    OBVIOUS
  <2>3. /\ Sound(t) /\ t.model = Now.model /\ t.alive = Now.alive /\ ~t.ev.now
        /\ Timed(t) /\ Counted(t) /\ Announced(t) /\ t.fdc.cmd = "RESTORE"
    BY <2>1, <2>2, ResetRuns
  <2> HIDE DEF t
  <2> QED BY <1>3, <2>1, <2>3
<1>5. Becomes(r) \/ Becomes(t)
  BY <1>2, <1>4 DEF Instruction, Happens
<1> HIDE DEF t
<1>6. /\ Sound(r) /\ r.model = model /\ ~r.ev.now
      /\ Timed(r) /\ Counted(r) /\ Announced(r) /\ r.fdc.cmd = "RESTORE"
  BY <1>4, RoundEndsKeeps
<1> HIDE DEF r
<1>7. PICK u \in {t, r} : Becomes(u)
  BY <1>5
<1>8. /\ Sound(u) /\ u.model = model /\ ~u.ev.now
      /\ Timed(u) /\ Counted(u) /\ Announced(u) /\ u.fdc.cmd = "RESTORE"
  BY <1>4, <1>6
<1> QED BY <1>7, <1>8, RestartedKept

\* What the user does to the disks and to the serial port.
LEMMA DisksKept == ASSUME Inv, RemoveDisk \/ InsertDisk \/ SerialMenu \/ Resume PROVE StepKept
<1>0. /\ Now \in Machines /\ Sound(Now) /\ Now.int \in IntState /\ Now.disk \in [Drives -> Disk]
      /\ Now.alive = alive
  BY NowFields DEF Inv, Sound, Machines
<1>1. CASE RemoveDisk
  <2>1. PICK d \in Drives : Happens(Removed(Now, d))
    BY <1>1 DEF RemoveDisk
  <2> DEFINE k == [Now.disk EXCEPT ![d].file = FALSE, ![d].wp = FALSE]
  <2>2. k \in [Drives -> Disk]
    BY <1>0 DEF Disk
  <2>3. Removed(Now, d) = [Now EXCEPT !.disk = k]
    BY DEF Removed
  <2> HIDE DEF k
  <2>4. ~Now.ev.now
    BY NowFields DEF Inv
  <2> DEFINE t == [Now EXCEPT !.disk = k]
  <2>5. Keeps(Now, t) /\ ~t.ev.now
    BY <1>0, <2>2, <2>4, DiskKeeps
  <2>6. Becomes(t)
    BY <2>1, <2>3 DEF Happens
  <2> HIDE DEF t
  <2> QED BY <2>5, <2>6, KeepsHappens
<1>2. CASE InsertDisk
  <2>1. PICK d \in Drives, i \in Images : Happens(Inserted(Now, d, i))
    BY <1>2 DEF InsertDisk
  <2> DEFINE k == [Now.disk EXCEPT ![d] = i]
  <2>2. k \in [Drives -> Disk]
    BY <1>0, MachineAssumption
  <2>3. Inserted(Now, d, i) = [Now EXCEPT !.disk = k]
    BY DEF Inserted
  <2> HIDE DEF k
  <2>4. ~Now.ev.now
    BY NowFields DEF Inv
  <2> DEFINE t == [Now EXCEPT !.disk = k]
  <2>5. Keeps(Now, t) /\ ~t.ev.now
    BY <1>0, <2>2, <2>4, DiskKeeps
  <2>6. Becomes(t)
    BY <2>1, <2>3 DEF Happens
  <2> HIDE DEF t
  <2> QED BY <2>5, <2>6, KeepsHappens
<1>3. CASE SerialMenu
  <2>1. PICK opens \in Opening : Happens(UartInit(Now, opens))
    BY <1>3 DEF SerialMenu
  <2>2. opens \in BOOLEAN
    BY MachineAssumption
  <2> DEFINE t == UartInit(Now, opens)
  <2>3. /\ Sound(t) /\ t.model = Now.model /\ t.ev = Now.ev /\ t.fdc = Now.fdc
        /\ (Timed(Now) => Timed(t)) /\ (Counted(Now) => Counted(t))
    BY <1>0, <2>2, UartInitRuns
  <2> HIDE DEF t
  <2>4. Becomes(t)
    BY <2>1 DEF Happens, t
  <2> QED BY <1>3, <2>3, <2>4, SetKept
<1>4. CASE Resume
  <2>1. PICK gone \in SUBSET {d \in Drives : disk[d].file},
             readonly \in SUBSET {d \in Drives : disk[d].wp} :
          Happens(Resumed(Now, gone, readonly))
    BY <1>4 DEF Resume
  <2> DEFINE k == [d \in Drives |-> IF d \in gone THEN NoDisk
                                    ELSE [Now.disk[d] EXCEPT !.wp = d \in readonly]]
             i == [Now.int EXCEPT !.nmiMask = {"reset"}]
             t == [Now EXCEPT !.int = i, !.uart = UartStart, !.disk = k]
  <2>2. k \in [Drives -> Disk]
    <3>1. NoDisk \in Disk
      BY DEF NoDisk, Disk, DiskTypes
    <3>2. ASSUME NEW d \in Drives PROVE [Now.disk[d] EXCEPT !.wp = d \in readonly] \in Disk
      <4> DEFINE wp == d \in readonly
      <4>1. wp \in BOOLEAN /\ Now.disk[d] \in Disk
        BY <1>0
      <4> HIDE DEF wp
      <4>2. [Now.disk[d] EXCEPT !.wp = wp] \in Disk
        BY <4>1 DEF Disk
      <4> QED BY <4>2 DEF wp
    <3> QED BY <3>1, <3>2
  <2>3. /\ i \in IntState /\ i.latch = Now.int.latch /\ i.mask = Now.int.mask
        /\ i.irq = Now.int.irq /\ i.seen = Now.int.seen /\ i.nmi = Now.int.nmi
    BY <1>0 DEF IntState, Nmis
  <2>4. UartStart \in UartState
    BY DEF UartStart, UartState
  <2>5. Resumed(Now, gone, readonly) = t
    BY <1>0 DEF Resumed, Machines, IntState
  <2> HIDE DEF k, i
  <2>6. /\ t \in Machines /\ t.int = i /\ t.model = Now.model /\ t.ev = Now.ev
        /\ t.fdc = Now.fdc
    BY <1>0, <2>2, <2>3, <2>4 DEF Machines
  <2> HIDE DEF t
  <2>7. Sound(t)
    <3>1. Wired(t)
      BY <1>0, <2>3, <2>6 DEF Sound, Wired
    <3> QED BY <1>0, <2>6, <3>1 DEF Sound
  <2>8. (Timed(Now) => Timed(t)) /\ (Counted(Now) => Counted(t))
    BY <2>6 DEF Timed, Counted, Waiting4Index
  <2>9. Becomes(t)
    BY <2>1, <2>5 DEF Happens
  <2> QED BY <1>4, <2>6, <2>7, <2>8, <2>9, SetKept
<1> QED BY <1>1, <1>2, <1>3, <1>4

\* A new process.
LEMMA StartedRuns ==
  ASSUME NEW m \in Models, NEW disks \in Loaded, NEW opens \in Opening
  PROVE  LET t == Started(m, disks, opens) IN
         /\ Sound(t) /\ t.model = m /\ ~t.ev.now
         /\ Timed(t) /\ Counted(t) /\ Announced(t) /\ t.fdc.cmd = "RESTORE"
<1> DEFINE s == [model |-> m, int |-> IntStart, ev |-> NoEvent, uart |-> UartStart,
                 fdc |-> FdcStart, disk |-> disks, alive |-> TRUE]
<1>1. opens \in BOOLEAN /\ m \in {1, 3, 4, 5}
  BY MachineAssumption
<1>2. disks \in [Drives -> Disk]
  <2>1. NoDisk \in Disk
    BY DEF NoDisk, Disk, DiskTypes
  <2> QED BY <2>1, MachineAssumption DEF Loaded
<1>3. IntStart \in IntState /\ IntStart.latch = {} /\ IntStart.mask = {}
      /\ IntStart.seen = FALSE /\ IntStart.irq = FALSE
  BY DEF IntStart, IntState, Nmis
<1>4. UartStart \in UartState
  BY DEF UartStart, UartState
<1>5. NoEvent.f = "none"
  BY DEF NoEvent
<1>6. s \in Machines /\ s.model = m /\ s.int = IntStart /\ s.ev = NoEvent
  BY <1>1, <1>2, <1>3, <1>4, FdcStartType, NoEventType DEF Machines
<1> HIDE DEF s
<1>7. Wired(s)
  BY <1>3, <1>6 DEF Wired
<1>8. Sound(s)
  BY <1>5, <1>6, <1>7 DEF Sound
<1>9. Started(m, disks, opens) = Reset(s, TRUE, opens, FALSE)
  BY DEF Started, s
<1> HIDE DEF s
<1>10. TRUE \in BOOLEAN /\ FALSE \in BOOLEAN
  OBVIOUS
<1> DEFINE t == Reset(s, TRUE, opens, FALSE)
<1>11. /\ Sound(t) /\ t.model = s.model /\ ~t.ev.now
       /\ Timed(t) /\ Counted(t) /\ Announced(t) /\ t.fdc.cmd = "RESTORE"
  BY <1>1, <1>8, <1>10, ResetRuns
<1> HIDE DEF t
<1> QED BY <1>6, <1>9, <1>11 DEF t

LEMMA RestartKept == ASSUME Inv, Restart PROVE StepKept
<1>1. PICK disks \in Loaded, opens \in Opening : Becomes(Started(model, disks, opens))
  BY DEF Restart
<1> QED BY <1>1, StartedRuns, RestartedKept DEF Inv

-----------------------------------------------------------------------------
(* The theorems.                                                           *)

LEMMA NextKept == ASSUME Inv, [Next]_vars PROVE StepKept
<1>1. CASE Instructions
  <2>1. GuestOps \subseteq Commands
    BY MachineAssumption
  <2> QED BY <1>1, <2>1, OtherKept, UartStatusKept, UartDataKept, UartOtherKept, SelectKept,
             DataKept, CommandKept, LinesKept, ResetKept DEF Instructions
<1>2. CASE EventDue \/ PollSerial \/ Tick
  BY <1>2, TimeKept
<1>3. CASE RemoveDisk \/ InsertDisk \/ SerialMenu \/ ResetKey \/ Resume \/ Restart
  BY <1>3, DisksKept, ResetKept, RestartKept
<1>4. CASE UNCHANGED vars
  <2>1. StepAccounted /\ StepAnnounced
    BY <1>4 DEF vars, StepAccounted, StepAnnounced, BytesSound
  <2>2. Inv'
    BY <1>4 DEF vars, Inv, Now
  <2> QED BY <2>1, <2>2 DEF StepKept
<1> QED BY <1>1, <1>2, <1>3, <1>4 DEF Next

LEMMA InitInv == Init => Inv
<1> SUFFICES ASSUME Init PROVE Inv
  OBVIOUS
<1>1. PICK disks \in Loaded, opens \in Opening :
        LET s == Started(model, disks, opens) IN
        /\ int = s.int /\ ev = s.ev /\ uart = s.uart
        /\ fdc = s.fdc /\ disk = s.disk /\ alive = s.alive
  BY DEF Init
<1> DEFINE s == Started(model, disks, opens)
<1>2. model \in Models /\ guest \in Guests
  BY DEF Init
<1>3. Sound(s) /\ s.model = model /\ ~s.ev.now /\ Timed(s) /\ Counted(s)
  BY <1>2, StartedRuns
<1>4. int = s.int /\ ev = s.ev /\ uart = s.uart
        /\ fdc = s.fdc /\ disk = s.disk /\ alive = s.alive
  BY <1>1
<1> HIDE DEF s
<1>5. Now = s
  BY <1>3, <1>4 DEF Now, Sound, Machines
<1> QED BY <1>2, <1>3, <1>4, <1>5 DEF Inv

\* The invariant holds of every reachable machine: the lines follow the
\* latches, no event for now outlives its instruction, and with a polite guest
\* a busy controller's event is its own.
THEOREM Invariance == Spec => []Inv
<1>1. Inv /\ [Next]_vars => Inv'
  BY NextKept DEF StepKept
<1> QED BY <1>1, InitInv, PTL DEF Spec

\* Every variable of the machine keeps its type, and an event for now never
\* outlives the instruction that asked for it.
THEOREM TypeCorrect == Spec => []TypeOK
<1>1. Inv => TypeOK
  BY NowFields DEF Inv, TypeOK, Sound, Machines
<1> QED BY <1>1, Invariance, PTL

\* trs_interrupt.c: after any sequence of calls the interrupt lines say what
\* the latches and masks say, and only an NMI whose line is up counts as taken.
THEOREM LinesFollowLatches == Spec => []LinesTrue
<1>1. Inv => LinesTrue
  BY NowFields, Zenon DEF Inv, LinesTrue, Sound, Wired
<1> QED BY <1>1, Invariance, PTL

\* trs_schedule_event: although the serial port and the reset button use the
\* same slot, a busy floppy controller never loses its event to them.
THEOREM SlotServesDisk == Spec => []BusyIsTimed
<1>1. Inv => BusyIsTimed
  BY NowFields DEF Inv, BusyIsTimed, Timed, DiskEvent, AwaitsIndex, Waiting4Index
<1> QED BY <1>1, Invariance, PTL

\* trs_disk.c: a transfer of a guest that keeps to the data sheets never ends
\* short without LOST or an error, nor without its interrupt while the motor
\* turns.
THEOREM NoSilentEnd == Spec => TransfersAccounted
<1>1. Inv /\ [Next]_vars => StepAccounted
  BY NextKept DEF StepKept
<1>2. TransfersAccounted <=> [][StepAccounted]_vars
  BY PTL DEF TransfersAccounted, StepAccounted
<1> QED BY <1>1, <1>2, Invariance, PTL DEF Spec

\* trs_uart.c: every byte that the host has sent is offered to the guest or has
\* its event scheduled, but for a FORCEINT that takes the slot, the serial menu
\* and a snapshot.
THEOREM BytesStayAnnounced == Spec => BytesAnnounced
<1>1. Inv /\ [Next]_vars => StepAnnounced
  BY NextKept DEF StepKept
<1>2. BytesAnnounced <=> [][StepAnnounced]_vars
  BY PTL DEF BytesAnnounced, StepAnnounced
<1> QED BY <1>1, <1>2, Invariance, PTL DEF Spec
=============================================================================
