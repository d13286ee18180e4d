-------------------------------- MODULE MCZ80 -------------------------------
(* Programs for the processor: single instructions on operands around the    *)
(* boundaries, decimal sums and differences, and two tasks with handlers.    *)
EXTENDS Z80Tasks

\* Memory with the bytes of code from addr on.
At(addr, code) == [x \in addr..(addr + Len(code) - 1) |-> code[x - addr + 1]]
Both(m1, m2) ==
  [x \in DOMAIN m1 \cup DOMAIN m2 |-> IF x \in DOMAIN m1 THEN m1[x] ELSE m2[x]]
Blank ==
  [a |-> 0, b |-> 0, c |-> 0, d |-> 0, e |-> 0, h |-> 0, l |-> 0, f |-> {},
   a2 |-> 0, b2 |-> 0, c2 |-> 0, d2 |-> 0, e2 |-> 0, h2 |-> 0, l2 |-> 0, f2 |-> {},
   ix |-> 0, iy |-> 0, sp |-> 240, pc |-> 128, i |-> 0, r |-> 0, r7 |-> 0, im |-> 1,
   iff1 |-> FALSE, iff2 |-> FALSE, mem |-> <<>>]
JumpToItself == <<24, 254>>

Bytes == {0, 1, 7, 8, 15, 16, 100, 127, 128, 129, 240, 247, 255}
Words == {0, 1, 255, 4095, 4096, 32767, 32768, 65535}
ByteOps == {<<128>>, <<136>>, <<144>>, <<152>>, <<184>>, <<4>>, <<5>>, <<237, 68>>}
PairOps == {<<9>>, <<237, 66>>, <<237, 74>>}
Arithmetics ==
  [kind : {"arithmetic"}, op : ByteOps, a : Bytes, v : Bytes, c : 0..1]
    \cup [kind : {"arithmetic"}, op : PairOps, a : Words, v : Words, c : 0..1]

Decimal(n) == 16 * (n \div 10) + (n % 10)
Numbers == {10 * n + m : n \in {0, 4, 5, 9}, m \in {0, 1, 4, 5, 8, 9}}

Named(p) == <<p.kind, p.op, p.a, p.v, p.c>>
Names ==
  {Named(p) : p \in Arithmetics}
    \cup ({"decimal"} \X (DOMAIN DecimalOps) \X Numbers \X Numbers \X (0..1))
    \cup {<<"task", 1>>, <<"task", 2>>}

Handlers ==
  Both(At(56, <<245, 175, 241, 251, 201>>),     \* PUSH AF, XOR A, POP AF, EI, RET
       Both(At(102, <<237, 69>>),               \* RETN
            At(255, <<56, 0>>)))                \* the vector of mode 2
Data == At(180, <<17, 34, 51, 68, 85, 102, 119>>)
\* EI, LDIR, LD BC 3, CPIR, HALT, a prefix before INC A, end.
Task1 ==
  Both(At(128, <<251, 237, 176, 1, 3, 0, 237, 177, 118, 221, 60>> \o JumpToItself),
       Both(Handlers, Data))
\* IM 2, EI, LD HL 183, LD DE 185, LD BC 3, LDDR, LD A I, LD IX 180, LD B 2,
\* twice INC and RLC of IX+1, CALL 40, RLD, EXX, PUSH IY, POP IY, HALT, end;
\* at 40: SCF, ADC HL BC, CCF, RET.
Task2 ==
  Both(At(128, <<237, 94, 251, 33, 183, 0, 17, 185, 0, 1, 3, 0, 237, 184, 237, 87,
                 221, 33, 180, 0, 6, 2, 221, 52, 1, 221, 203, 1, 6, 16, 247,
                 205, 40, 0, 237, 111, 217, 253, 229, 253, 225, 118>>
                 \o JumpToItself),
       Both(At(40, <<55, 237, 74, 63, 201>>), Both(Handlers, Data)))

Begin(p) ==
  CASE p = <<"task", 1>> ->
         [Blank EXCEPT !.mem = Task1, !.a = 85, !.l = 180, !.e = 190, !.c = 3]
    [] p = <<"task", 2>> -> [Blank EXCEPT !.mem = Task2, !.iy = 4660]
    [] p[1] = "decimal" ->
         [Blank EXCEPT !.a = Decimal(p[3]), !.b = Decimal(p[4]),
                       !.f = On(p[5] = 1, "C"),
                       !.mem = At(128, <<DecimalOps[p[2]], 39>> \o JumpToItself)]
    [] p[1] = "arithmetic" ->
         LET s == [Blank EXCEPT !.f = On(p[5] = 1, "C"),
                                !.mem = At(128, p[2] \o JumpToItself)]
         IN  IF p[2] \in ByteOps THEN [s EXCEPT !.a = p[3], !.b = p[4]]
             ELSE PutPair(PutPair(s, 2, p[3]), 0, p[4])

MCPrograms == [p \in Names |-> Begin(p)]
MCDisturbed == {<<"task", 1>>, <<"task", 2>>}
MCEnd ==
  [p \in Names |-> CASE p = <<"task", 1>> -> 139
                     [] p = <<"task", 2>> -> 170
                     [] p[1] = "decimal" -> 130
                     [] p[1] = "arithmetic" -> 128 + Len(p[2])]
MCStack == 200..239
=============================================================================
