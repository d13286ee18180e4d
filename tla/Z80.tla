-------------------------------- MODULE Z80 ---------------------------------
(***************************************************************************)
(* The processor at work (z80_run): fetch, execute, then look for an       *)
(* interrupt.  The lines irq and nmi are moved by the devices, here by the *)
(* environment; seen remembers that this NMI was taken.  What HALT does is *)
(* configured: wait, reset the machine, or enter the debugger.             *)
(***************************************************************************)
EXTENDS Z80Prefixed

CONSTANTS
  Model,         \* 1, 3 or 4
  HaltAction,    \* "halt", "reset", "debug" or "default"
  Ins,           \* the bytes that ports may give
  Programs,      \* programs by name, each the processor record it starts with
  Disturbed,     \* the programs during which devices interrupt
  IrqBound,      \* bound: how often IRQ is raised, unless the processor waits
  NmiBound       \* bound: how often NMI is raised

ASSUME Z80Assumption == /\ Model \in {1, 3, 4}
                        /\ HaltAction \in {"halt", "reset", "debug", "default"}
                        /\ Ins \subseteq 0..255
\* What a program starts with is a state of the processor.
ASSUME ProgramsAssumption == \A p \in DOMAIN Programs : IsProcessor(Programs[p])

VARIABLES
  prog,    \* the program that runs
  cpu,     \* the processor and its memory, see Z80Code
  line,    \* irq, nmi and seen
  raised   \* how often irq and nmi were raised, for the bounds

vars == <<prog, cpu, line, raised>>

-----------------------------------------------------------------------------
\* The instructions of one byte and the prefixes, by opcode.
LowInstruction(s, op) ==
  CASE op = 0 -> s
    [] op \in {9, 25, 41, 57} -> AddHL(s, op)
    [] op \in {1, 17, 33, 49} -> LoadPair(s, op)
    [] op \in {3, 19, 35, 51} -> IncPair(s, op)
    [] op \in {11, 27, 43, 59} -> DecPair(s, op)
    [] op \in {4 + 8 * n : n \in 0..7} -> Inc(s, op)
    [] op \in {5 + 8 * n : n \in 0..7} -> Dec(s, op)
    [] op \in {6 + 8 * n : n \in 0..7} -> LoadByteNext(s, op)
    [] op \in {2, 18} -> StoreAAtPair(s, op)
    [] op \in {10, 26} -> LoadAFromPair(s, op)
    [] op = 34 -> StoreHLAt(s)
    [] op = 42 -> LoadHLFrom(s)
    [] op = 50 -> StoreAAt(s)
    [] op = 58 -> LoadAFrom(s)
    [] op = 8 -> ExAf(s)
    [] op = 16 -> Djnz(s)
    [] op = 24 -> Jr(s)
    [] op \in {32, 40, 48, 56} -> JrIf(s, op)
    [] op = 7 -> Rlca(s)
    [] op = 15 -> Rrca(s)
    [] op = 23 -> Rla(s)
    [] op = 31 -> Rra(s)
    [] op = 39 -> Daa(s)
    [] op = 47 -> Cpl(s)
    [] op = 55 -> Scf(s)
    [] op = 63 -> Ccf(s)
LoadInstruction(s, op) ==
  CASE Y(op) = 6 -> StoreAtHL(s, op)
    [] Y(op) # 6 /\ Z(op) = 6 -> LoadFromHL(s, op)
    [] OTHER -> LoadByte(s, op)
ArithmeticInstruction(s, op) ==
  CASE op \in Arithmetic(0) -> Add(s, op) [] op \in Arithmetic(1) -> Adc(s, op)
    [] op \in Arithmetic(2) -> Sub(s, op) [] op \in Arithmetic(3) -> Sbc(s, op)
    [] op \in Arithmetic(4) -> And(s, op) [] op \in Arithmetic(5) -> Xor(s, op)
    [] op \in Arithmetic(6) -> Or(s, op)  [] op \in Arithmetic(7) -> Compare(s, op)
HighInstruction(s, op, in) ==
  CASE op \in {192 + 8 * n : n \in 0..7} -> RetIf(s, op)
    [] op \in {194 + 8 * n : n \in 0..7} -> JpIf(s, op)
    [] op \in {196 + 8 * n : n \in 0..7} -> CallIf(s, op)
    [] op \in {199 + 8 * n : n \in 0..7} -> Rst(s, op)
    [] op \in {193, 209, 225, 241} -> PopPair(s, op)
    [] op \in {197, 213, 229, 245} -> PushPair(s, op)
    [] op = 195 -> Jp(s)
    [] op = 201 -> Ret(s)
    [] op = 205 -> Call(s)
    [] op = 211 -> OutA(s)
    [] op = 219 -> InA(s, in)
    [] op = 217 -> Exx(s)
    [] op = 227 -> ExSpHl(s)
    [] op = 233 -> JumpTo(s, HL(s))
    [] op = 235 -> ExDeHl(s)
    [] op = 243 -> Di(s)
    [] op = 249 -> [s EXCEPT !.sp = HL(s)]
    [] op = 251 -> Ei(s)
    [] op = 203 -> CbInstruction(Refreshed(s, 1))
    [] op = 221 -> IndexedInstruction(Refreshed(s, 1), "ix")
    [] op = 237 -> EdInstruction(Refreshed(s, 1), in)
    [] op = 253 -> IndexedInstruction(Refreshed(s, 1), "iy")
    [] OTHER -> ArithmeticInstruction(s, op)
Instruction(s, op, in) ==
  CASE op < 64 -> LowInstruction(s, op)
    [] op \in 64..127 -> LoadInstruction(s, op)
    [] op \in 128..191 -> ArithmeticInstruction(s, op)
    [] op > 191 -> HighInstruction(s, op, in)

-----------------------------------------------------------------------------
(* HALT and reset.  m is a record of cpu and line.                         *)

\* trs_reset clears the NMI mask as well, and seen with it.
z80_reset(m) ==
  [cpu |-> [m.cpu EXCEPT !.a = 255, !.f = Flags, !.pc = 0, !.sp = Word - 1,
                         !.i = 0, !.r = 0, !.r7 = 0, !.im = 1,
                         !.iff1 = FALSE, !.iff2 = FALSE],
   line |-> [irq |-> FALSE, nmi |-> FALSE, seen |-> FALSE]]
\* The reset button of a Model I pulls NMI; others reset the processor.
trs_reset(m) ==
  IF Model = 1 THEN [m EXCEPT !.line.nmi = TRUE] ELSE z80_reset(m)
Waits ==
  HaltAction = "halt" \/ (HaltAction = "default" /\ Model # 1)
\* A waiting processor steps back and executes its HALT again.
Halt(m) ==
  CASE HaltAction = "debug" -> m
    [] Waits -> [m EXCEPT !.cpu = Skip(@, -1)]
    [] OTHER -> trs_reset(m)

Executed(m, in) ==
  LET op == Fetch(m.cpu)  s == Refreshed(Skip(m.cpu, 1), 1) IN
  IF op = 118 THEN Halt([m EXCEPT !.cpu = s])
              ELSE [m EXCEPT !.cpu = Instruction(s, op, in)]

-----------------------------------------------------------------------------
(* Interrupts.                                                             *)

do_nmi(s) ==
  [Refreshed(Push(s, s.pc), 1) EXCEPT !.iff1 = FALSE, !.pc = 102]
do_int(s) ==
  LET t == Refreshed(Push([s EXCEPT !.iff1 = FALSE, !.iff2 = FALSE], s.pc), 1) IN
  JumpTo(t, IF s.im = 2 THEN PeekWord(t, 256 * s.i + 255) ELSE 56)
\* Mutant: the processor returns to its HALT.
WokenBadly(s, op) == s
\* An interrupt gets the processor out of a HALT.
Woken(s, op) == IF op = 118 THEN Skip(s, 1) ELSE s
TakesNmi(m) == m.line.nmi /\ ~m.line.seen
\* Mutant: an interrupt may come between EI and the next instruction.
TakesIntBadly(m, op) == m.line.irq /\ m.cpu.iff1
TakesInt(m, op) == m.line.irq /\ m.cpu.iff1 /\ op # 251
\* On a Model I the button is released at once.
Interrupted(m, op) ==
  CASE TakesNmi(m) ->
         [cpu |-> do_nmi(Woken(m.cpu, op)),
          line |-> IF Model = 1 THEN [m.line EXCEPT !.nmi = FALSE]
                                ELSE [m.line EXCEPT !.seen = TRUE]]
    [] ~TakesNmi(m) /\ TakesInt(m, op) -> [m EXCEPT !.cpu = do_int(Woken(@, op))]
    [] OTHER -> m

\* One turn of the loop; single steps of the debugger may forbid interrupts.
Turn(s, ln, in, allowed) ==
  LET m == Executed([cpu |-> s, line |-> ln], in) IN
  IF allowed THEN Interrupted(m, Fetch(s)) ELSE m

-----------------------------------------------------------------------------
Init ==
  /\ prog \in DOMAIN Programs
  /\ cpu = Programs[prog]
  /\ line = [irq |-> FALSE, nmi |-> FALSE, seen |-> FALSE]
  /\ raised = [irq |-> 0, nmi |-> 0]

z80_run ==
  \E in \in Ins :
    LET m == Turn(cpu, line, in, TRUE) IN
    cpu' = m.cpu /\ line' = m.line /\ UNCHANGED <<prog, raised>>

\* Devices move their lines between two instructions.
Waiting == Fetch(cpu) = 118
LineBecomes(l) == line' = l /\ UNCHANGED <<prog, cpu>>
IrqUp ==
  /\ prog \in Disturbed /\ ~line.irq
  /\ \/ Waiting /\ UNCHANGED raised
     \/ raised.irq < IrqBound /\ raised' = [raised EXCEPT !.irq = @ + 1]
  /\ LineBecomes([line EXCEPT !.irq = TRUE])
\* A device takes IRQ back when its handler asks for it.
IrqDown ==
  line.irq /\ ~cpu.iff1 /\ LineBecomes([line EXCEPT !.irq = FALSE]) /\ UNCHANGED raised
NmiUp ==
  /\ prog \in Disturbed /\ ~line.nmi /\ raised.nmi < NmiBound
  /\ raised' = [raised EXCEPT !.nmi = @ + 1]
  /\ LineBecomes([line EXCEPT !.nmi = TRUE])
NmiDown ==
  line.nmi /\ LineBecomes([line EXCEPT !.nmi = FALSE, !.seen = FALSE]) /\ UNCHANGED raised

Next == z80_run \/ IrqUp \/ IrqDown \/ NmiUp \/ NmiDown
\* The processor never stops: WF_vars(z80_run), its enabling condition written
\* out as TLC needs it.  A turn changes nothing on a JR to itself or a HALT that
\* no interrupt ends.
Idles ==
  /\ Waiting \/ FetchWord(cpu) = 65048
  /\ ~TakesNmi([cpu |-> cpu, line |-> line])
  /\ ~(line.irq /\ cpu.iff1)
Runs == <>[]~Idles => []<><<z80_run>>_vars
\* A handler that runs again and again does ask, and the heartbeat of the machine
\* interrupts a processor that waits.
Fairness == Runs /\ SF_vars(IrqDown) /\ WF_vars(Waiting /\ IrqUp)
Spec == Init /\ [][Next]_vars /\ Fairness
=============================================================================
