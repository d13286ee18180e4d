------------------------------ MODULE Z80Tasks ------------------------------
(***************************************************************************)
(* What is expected of the processor: that its tables compute arithmetic,  *)
(* that DAA makes decimal arithmetic of it, and that programs get their    *)
(* work done whatever interrupts arrive.  A program is named by a tuple:   *)
(*   <<"arithmetic", ...>>       one instruction                           *)
(*   <<"decimal", op, x, y, c>>  an addition or subtraction and DAA        *)
(*   <<"task", n>>               a longer one, disturbed by interrupts     *)
(***************************************************************************)
EXTENDS Z80, FiniteSets

CONSTANTS
  End,         \* where every program ends, by name, in a jump to itself
  Top,         \* the stack pointer that tasks start with
  Stack,       \* the addresses below Top that the stack may use
  Nest         \* bound: instructions of a task between a push and its pop

VARIABLE main  \* the processor when the task last had its stack for itself

taskVars == <<prog, cpu, line, raised, main>>
Kind == prog[1]

-----------------------------------------------------------------------------
(* Arithmetic.  a and v are what an instruction works on, c the carry it   *)
(* takes in, half and full the powers at which the carries leave.          *)

SignedBy(v, full) == IF 2 * v >= full THEN v - full ELSE v
Computed(x, y, c, sub) == IF sub THEN x - y - c ELSE x + y + c
Expected(a, v, c, half, full, sub) ==
  LET r == Computed(a, v, c, sub)
      signed == Computed(SignedBy(a, full), SignedBy(v, full), c, sub)
  IN  [result |-> r % full,
       flags |-> On(r \notin 0..(full - 1), "C")
                   \cup On(Computed(a % half, v % half, c, sub) \notin 0..(half - 1), "H")
                   \cup On(signed \notin (-(full \div 2))..((full \div 2) - 1), "P")
                   \cup On(2 * (r % full) >= full, "S") \cup On(r % full = 0, "Z")
                   \cup On(sub, "N")]
Defined(f) == f \ {"3", "5"}

\* What an instruction makes of processor s, u being the processor after it.
\* The instructions with an operation on A, by number.
TrueOnA(s, u, n, v) ==
  LET c == IF n \in {1, 3} THEN Carry(s.f) ELSE 0
      x == Expected(s.a, v, c, 16, 256, n \in {2, 3, 7})
  IN  /\ x.flags = Defined(u.f)
      /\ u.a = IF n = 7 THEN s.a ELSE x.result
TrueNegate(s, u) ==
  LET x == Expected(0, s.a, 0, 16, 256, TRUE) IN
  x.flags = Defined(u.f) /\ u.a = x.result
TrueOnPair(s, u, v, c, sub, flags) ==
  LET x == Expected(HL(s), v, c, 4096, 65536, sub) IN
  /\ HL(u) = x.result
  /\ x.flags \cap flags = u.f \cap flags
  /\ u.f \cap (Defined(Flags) \ flags) = s.f \cap (Defined(Flags) \ flags)
TrueStep(s, u, n, sub) ==
  LET x == Expected(Get8(s, n), 1, 0, 16, 256, sub) IN
  /\ Get8(u, n) = x.result
  /\ Defined(u.f) = (x.flags \ {"C"}) \cup (s.f \cap {"C"})
\* An interrupt behind INC (HL) or DEC (HL) may push over the byte.
TrueArithmetic(s, u, disturbed) ==
  LET op == Fetch(s)  op2 == Peek(s, (s.pc + 1) % Word) IN
  /\ \A n \in {0, 1, 2, 3, 7} :
       op \in Arithmetic(n) =>
         TrueOnA(s, u, n, IF op >= 192 THEN op2 ELSE Get8(s, Z(op)))
  /\ op = 237 /\ op2 = 68 => TrueNegate(s, u)
  /\ op \in {9, 25, 41, 57} =>
       TrueOnPair(s, u, GetPair(s, P(op)), 0, FALSE, {"C", "H", "N"})
  /\ op = 237 /\ op2 \in {66, 82, 98, 114} =>
       TrueOnPair(s, u, GetPair(s, P(op2)), Carry(s.f), TRUE, Defined(Flags))
  /\ op = 237 /\ op2 \in {74, 90, 106, 122} =>
       TrueOnPair(s, u, GetPair(s, P(op2)), Carry(s.f), FALSE, Defined(Flags))
  /\ op \in {4 + 8 * n : n \in 0..7} /\ ~(Y(op) = 6 /\ disturbed) =>
       TrueStep(s, u, Y(op), FALSE)
  /\ op \in {5 + 8 * n : n \in 0..7} /\ ~(Y(op) = 6 /\ disturbed) =>
       TrueStep(s, u, Y(op), TRUE)

\* The tables of sign, carry, overflow and half carry, indexed by single bits of
\* the operands and the result, give what integer arithmetic gives, for bytes
\* and words, with and without a carry in; and instructions that promise to
\* keep a flag keep it (z80.c:101-301 and the instructions that use them).
ArithmeticTrue ==
  [][z80_run => TrueArithmetic(cpu, cpu', line.irq \/ line.nmi)]_taskVars

\* A program named "decimal" is what its name says: the operation on A and B,
\* DAA, and an end, with nothing to interrupt it.
DecimalOps == [add |-> 128, adc |-> 136, sub |-> 144, sbc |-> 152]
IsDecimal(v, n) == n \in 0..99 /\ v = 16 * (n \div 10) + (n % 10)
ASSUME DecimalAssumption ==
  \A p \in DOMAIN Programs :
    p[1] = "decimal" =>
      LET s == Programs[p]  second == (s.pc + 1) % Word IN
      /\ p \notin Disturbed
      /\ p[2] \in DOMAIN DecimalOps /\ p[5] \in 0..1
      /\ IsDecimal(s.a, p[3]) /\ IsDecimal(s.b, p[4]) /\ ("C" \in s.f <=> p[5] = 1)
      /\ Fetch(s) = DecimalOps[p[2]] /\ Peek(s, second) = 39
      /\ End[p] = (second + 1) % Word /\ PeekWord(s, End[p]) = 65048

\* u holds what p was asked for.
Digits(v) == 10 * (v \div 16) + (v % 16)
IsAnswer(p, u) ==
  LET sub == p[2] \in {"sub", "sbc"}
      c == IF p[2] \in {"adc", "sbc"} THEN p[5] ELSE 0
      r == Computed(p[3], p[4], c, sub)
  IN  Digits(u.a) = r % 100 /\ ("C" \in u.f <=> r \notin 0..99)
\* An addition or subtraction of two numbers of two decimal digits, followed by
\* DAA, leaves the decimal sum or difference in A and the borrow or carry in C
\* (do_daa, after the flags of the instruction before it).
DecimalTrue == Kind = "decimal" /\ cpu.pc = End[prog] => IsAnswer(prog, cpu)

-----------------------------------------------------------------------------
(* Tasks.                                                                  *)

Repeats(s) ==
  /\ Fetch(s) = 237
  /\ Peek(s, (s.pc + 1) % Word) \in {176, 177, 184, 185}
\* A step of a task that nothing disturbs, in the build with FAST_MOVE: a block
\* instruction is one step, and a HALT is left at once.
Fast(s) ==
  LET op == Fetch(s)
      op2 == Peek(s, (s.pc + 1) % Word)
      t == Skip(s, 2)
  IN  CASE Repeats(s) /\ op2 \in {176, 184} -> MoveLoop(t, Dir(op2))
        [] Repeats(s) /\ op2 \in {177, 185} -> SearchLoop(t, Dir(op2))
        [] op = 118 -> Skip(s, 1)
        [] OTHER -> Instruction(Skip(s, 1), op, 0)
View(s) ==
  [s EXCEPT !.r = 0, !.mem = [x \in DOMAIN s.mem \ Stack |-> s.mem[x]]]
\* The next step that leaves the stack as it was.
Undisturbed(s) ==
  LET after[n \in 1..Nest] ==
        IF n = 1 THEN Fast(s)
        ELSE LET t == after[n - 1] IN IF t.sp = Top THEN t ELSE Fast(t)
  IN  View(after[Nest])

\* A block instruction half way is not a state that the task alone passes.
Follow ==
  main' = IF Kind = "task" /\ cpu'.sp = Top
               /\ ~(Repeats(cpu') /\ cpu'.pc = main.pc)
          THEN View(cpu') ELSE main

TaskInit == Init /\ main = IF Kind = "task" THEN View(cpu) ELSE cpu
TaskNext == Next /\ Follow
TaskSpec == TaskInit /\ [][TaskNext]_taskVars /\ Fairness

\* Interrupts leave no trace: from one state in which the stack is as the task
\* has it to the next, the processor does what a processor without interrupts
\* would do, whose block instructions are single loops.  Interrupting LDIR or
\* CPIR half way, waking a HALT, an interrupt behind a prefix or an EI makes no
\* difference to registers, flags, flip-flops or memory (z80.c:4237-4264 against
\* the two versions of the block instructions).
Transparent == [][main' # main => main' = Undisturbed(main)]_taskVars

\* However long a device holds IRQ, a handler that ends in EI and RET is not
\* entered again before it has returned: the stack holds the word a task pushes,
\* one return address and the AF the handler saves, and the same again for every
\* NMI that came between EI and RET, with its own return address (the test of
\* 0xFB, z80.c:4253).
StackBounded ==
  Kind = "task" => cpu.sp >= Top - 6 - 6 * raised.nmi

\* Every program ends: block instructions reach their count and a HALT is left,
\* as long as devices take back their interrupts.
ProgramEnds == <>(cpu.pc = End[prog])
=============================================================================
