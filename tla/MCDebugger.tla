----------------------------- MODULE MCDebugger -----------------------------
(* One program with calls, a restart, a block instruction and a loop, for the *)
(* user to debug, and every opcode behind every prefix, to step over once.    *)
EXTENDS DebuggerTasks

At(addr, code) == [x \in addr..(addr + Len(code) - 1) |-> code[x - addr + 1]]
Both(m1, m2) ==
  [x \in DOMAIN m1 \cup DOMAIN m2 |-> IF x \in DOMAIN m1 THEN m1[x] ELSE m2[x]]
Blank ==
  [a |-> 0, b |-> 0, c |-> 1, d |-> 0, e |-> 150, h |-> 0, l |-> 160, f |-> {},
   a2 |-> 0, b2 |-> 0, c2 |-> 0, d2 |-> 0, e2 |-> 0, h2 |-> 0, l2 |-> 0, f2 |-> {},
   ix |-> 170, iy |-> 180, sp |-> 240, pc |-> 128, i |-> 0, r |-> 0, r7 |-> 0, im |-> 1,
   iff1 |-> FALSE, iff2 |-> FALSE, mem |-> <<>>]

\* XOR A, LD BC 2, LD HL 180, LD DE 190, LDIR, CALL 64, CALL NZ 64, CALL Z 64,
\* RST 8, JR to the start; at 64: INC A, LD (186) A, RET; at 8: RET.
Program ==
  Both(At(128, <<175, 1, 2, 0, 33, 180, 0, 17, 190, 0, 237, 176, 205, 64, 0,
                 196, 64, 0, 204, 64, 0, 207, 24, 232>>),
       Both(At(64, <<60, 50, 186, 0, 201>>), At(8, <<201>>)))
Opcodes ==
  {<<op>> : op \in 0..255}
    \cup {<<prefix, op>> : prefix \in {203, 221, 237, 253}, op \in 0..255}
    \cup {<<prefix, 203, 1, op>> : prefix \in {221, 253}, op \in 0..255}
MCCommanded == {<<"program">>}
MCPrograms ==
  [p \in MCCommanded \cup {<<"opcode">> \o code : code \in Opcodes} |->
     IF p \in MCCommanded THEN [Blank EXCEPT !.mem = Program]
                          ELSE [Blank EXCEPT !.mem = At(128, Tail(p))]]
MCSites == {64, 149, 186}
=============================================================================
