----------------------------- MODULE Interrupts -----------------------------
(***************************************************************************)
(* The interrupt latches and the lines they drive (trs_interrupt.c), and   *)
(* the one scheduled event.  The machine's handlers call each other, so    *)
(* they are written as operators from a machine record s to the next one:  *)
(*                                                                         *)
(*   s.model   trs_model                                                   *)
(*   s.int     latches, masks and lines                                    *)
(*   s.ev      the scheduled event, or NoEvent                             *)
(*   s.uart    the serial port        s.fdc   the floppy controller        *)
(*   s.disk    the drives             s.alive FALSE once it has crashed    *)
(*                                                                         *)
(* A latch is the set of its raised bits.  How many cycles an event waits  *)
(* is kept only where it is none at all: such an event is "now".           *)
(***************************************************************************)
EXTENDS Integers

Irqs == {"timer", "disk", "rcv"}
Nmis == {"intrq", "motoroff", "reset"}

IntState == [latch : SUBSET Irqs, mask : SUBSET Irqs,
             nmiLatch : SUBSET Nmis, nmiMask : SUBSET Nmis,
             irq : BOOLEAN, nmi : BOOLEAN, seen : BOOLEAN]

\* The static initial values: reset is the one NMI that cannot be masked.
IntStart == [latch |-> {}, mask |-> {}, nmiLatch |-> {}, nmiMask |-> {"reset"},
             irq |-> FALSE, nmi |-> FALSE, seen |-> FALSE]

Put(set, bit, on) == IF on THEN set \cup {bit} ELSE set \ {bit}

\* z80_state.irq and z80_state.nmi follow latch and mask; an NMI line that
\* falls makes the next one count as new.
IrqLine(i) == [i EXCEPT !.irq = i.latch \cap i.mask # {}]
\* Mutant: a line that falls leaves the NMI taken.
NmiLineKept(i) == [i EXCEPT !.nmi = i.nmiLatch \cap i.nmiMask # {}]
NmiLine(i) == LET high == i.nmiLatch \cap i.nmiMask # {} IN
              [i EXCEPT !.nmi = high, !.seen = i.seen /\ high]

-----------------------------------------------------------------------------
(* The sources.                                                            *)

\* On a Model I only a rising source moves the line.
RaiseIrq(s, bit, on) ==
  LET i == [s.int EXCEPT !.latch = Put(s.int.latch, bit, on)] IN
  [s EXCEPT !.int = IF s.model = 1 THEN [i EXCEPT !.irq = i.irq \/ on]
                                   ELSE IrqLine(i)]
RaiseNmi(s, bit, on) ==
  [s EXCEPT !.int = NmiLine([s.int EXCEPT !.nmiLatch = Put(s.int.nmiLatch, bit, on)])]

TimerInterrupt(s, on) == RaiseIrq(s, "timer", on)
IntrqInterrupt(s, on) == IF s.model = 1 THEN RaiseIrq(s, "disk", on)
                                        ELSE RaiseNmi(s, "intrq", on)
MotoroffInterrupt(s, on) == IF s.model = 1 THEN s ELSE RaiseNmi(s, "motoroff", on)
RcvInterrupt(s, on) == IF s.model > 1 THEN RaiseIrq(s, "rcv", on) ELSE s
ResetButton(s, on) ==
  IF s.model = 1
  THEN [s EXCEPT !.int.nmi = on, !.int.seen = s.int.seen /\ on]
  ELSE RaiseNmi(s, "reset", on)

-----------------------------------------------------------------------------
(* The ports.                                                              *)

LatchClear(s) == [s EXCEPT !.int.latch = {}]
LatchRead(s) == IF s.model = 1 THEN [s EXCEPT !.int.latch = {}, !.int.irq = FALSE]
                               ELSE s
MaskWrite(s, mask) == [s EXCEPT !.int = IrqLine([s.int EXCEPT !.mask = mask])]
NmiMaskWrite(s, mask) ==
  [s EXCEPT !.int = NmiLine([s.int EXCEPT !.nmiMask = mask \cup {"reset"}])]

\* What z80_reset does to the lines; the latches keep what they hold.
ResetLines(s) == [s EXCEPT !.int.irq = FALSE, !.int.nmi = FALSE]

\* The Z80 takes an NMI at the end of an instruction, once for each rise.  On
\* a Model I it is the reset button, and taking it lets go of the button.
AcceptNmi(s) ==
  IF s.int.nmi /\ ~s.int.seen
  THEN IF s.model = 1 THEN ResetButton(s, FALSE)
                      ELSE [s EXCEPT !.int.seen = TRUE]
  ELSE s

-----------------------------------------------------------------------------
(* The slot of the scheduled event.                                        *)

NoEvent == [f |-> "none", arg |-> "none", now |-> FALSE]
Cancel(s) == [s EXCEPT !.ev = NoEvent]
\* Fills the slot; Events!Schedule empties it first.
Post(s, f, arg, now) == [s EXCEPT !.ev = [f |-> f, arg |-> arg, now |-> now]]
=============================================================================
