------------------------------- MODULE Z80Code ------------------------------
(***************************************************************************)
(* What each instruction does (z80.c).  A processor record s holds the     *)
(* bytes a to l, i and r, the flags f, the words ix, iy, sp and pc, the    *)
(* second register set (f2 a set of flags too), r7, iff1, iff2 and the     *)
(* interrupt mode im, and the memory s.mem: the bytes written so far, all  *)
(* others zero.  Addresses and words wrap at 65536, as mem_read and        *)
(* mem_write do.  One operator stands for each group of instructions of    *)
(* the code's three switches; op is the byte that selects within a group,  *)
(* pc is already behind it.                                                *)
(*                                                                         *)
(* Left out: cycle counts, and what the devices behind ports and traps do; *)
(* in is the byte that a port gives.                                       *)
(***************************************************************************)
EXTENDS Z80Alu

Word == 65536
IsByte(v) == v \in Int /\ 0 <= v /\ v < 256
IsWord(v) == v \in Int /\ 0 <= v /\ v < Word

\* The fields of a processor record, and the values each may have.
ByteRegs == {"a", "b", "c", "d", "e", "h", "l",
             "a2", "b2", "c2", "d2", "e2", "h2", "l2", "i", "r"}
WordRegs == {"ix", "iy", "sp", "pc"}
FlagRegs == {"f", "f2"}
IsMemory(m) == \A x \in DOMAIN m : IsWord(x) /\ IsByte(m[x])
IsProcessor(s) ==
  /\ DOMAIN s = ByteRegs \cup WordRegs \cup FlagRegs
                  \cup {"r7", "im", "iff1", "iff2", "mem"}
  /\ \A x \in ByteRegs : IsByte(s[x])
  /\ \A x \in WordRegs : IsWord(s[x])
  /\ \A x \in FlagRegs : s[x] \subseteq Flags
  /\ s.r7 \in {0, 128} /\ s.im \in {0, 1, 2}
  /\ s.iff1 \in BOOLEAN /\ s.iff2 \in BOOLEAN
  /\ IsMemory(s.mem)

Peek(s, addr) == IF addr \in DOMAIN s.mem THEN s.mem[addr] ELSE 0
Poke(s, addr, v) ==
  [s EXCEPT !.mem = [x \in DOMAIN s.mem \cup {addr} |-> IF x = addr THEN v
                                                        ELSE s.mem[x]]]
PeekWord(s, addr) == Peek(s, addr) + 256 * Peek(s, (addr + 1) % Word)
PokeWord(s, addr, w) ==
  Poke(Poke(s, addr, w % 256), (addr + 1) % Word, (w \div 256) % 256)

Fetch(s) == Peek(s, s.pc)
FetchWord(s) == PeekWord(s, s.pc)
Skip(s, n) == [s EXCEPT !.pc = (@ + n) % Word]
Push(s, w) ==
  LET sp == (s.sp - 2) % Word IN PokeWord([s EXCEPT !.sp = sp], sp, w)
Popped(s) == [s EXCEPT !.sp = (@ + 2) % Word]
Signed(v) == IF v > 127 THEN v - 256 ELSE v

\* Registers as the opcode's bits name them; 6 is the byte at HL.
R8 == <<"b", "c", "d", "e", "h", "l", "at hl", "a">>
HL(s) == 256 * s.h + s.l
BC(s) == 256 * s.b + s.c
DE(s) == 256 * s.d + s.e
Get8(s, n) == IF n = 6 THEN Peek(s, HL(s)) ELSE s[R8[n + 1]]
Put8(s, n, v) == IF n = 6 THEN Poke(s, HL(s), v) ELSE [s EXCEPT ![R8[n + 1]] = v]
GetPair(s, n) == <<BC(s), DE(s), HL(s), s.sp>>[n + 1]
PutPair(s, n, v) ==
  LET w == v % Word  high == w \div 256  low == w % 256 IN
  CASE n = 0 -> [s EXCEPT !.b = high, !.c = low]
    [] n = 1 -> [s EXCEPT !.d = high, !.e = low]
    [] n = 2 -> [s EXCEPT !.h = high, !.l = low]
    [] n = 3 -> [s EXCEPT !.sp = w]
High(w) == w \div 256
Low(w) == w % 256

Y(op) == (op \div 8) % 8
Z(op) == op % 8
P(op) == (op \div 16) % 4
\* The condition a jump, call or return names.
Holds(s, y) == (<<"Z", "C", "P", "S">>[y \div 2 + 1] \in s.f) = (y % 2 = 1)

-----------------------------------------------------------------------------
(* The instructions of one byte.                                           *)

\* The operand of an arithmetic instruction: a register, or the next byte.
Operand(s, op) == IF op >= 192 THEN Fetch(s) ELSE Get8(s, Z(op))
Past(s, op) == IF op >= 192 THEN Skip(s, 1) ELSE s
Arithmetic(n) == (128 + 8 * n)..(135 + 8 * n) \cup {198 + 8 * n}

Add(s, op) == AddByte(Past(s, op), Operand(s, op))
Adc(s, op) == AdcByte(Past(s, op), Operand(s, op))
Sub(s, op) == SubByte(Past(s, op), Operand(s, op))
Sbc(s, op) == SbcByte(Past(s, op), Operand(s, op))
And(s, op) == AndByte(Past(s, op), Operand(s, op))
Xor(s, op) == XorByte(Past(s, op), Operand(s, op))
Or(s, op) == OrByte(Past(s, op), Operand(s, op))
Compare(s, op) == Cp(Past(s, op), Operand(s, op))
AddHL(s, op) ==
  LET v == GetPair(s, P(op))  r == (HL(s) + v) % Word IN
  [PutPair(s, 2, r) EXCEPT !.f = AddWordFlags(s.f, HL(s), v, r)]

Ccf(s) ==
  [s EXCEPT !.f = (@ \cap {"Z", "P", "S"}) \cup On("C" \notin @, "C")
                    \cup On("C" \in @, "H") \cup Undoc(s.a)]
Scf(s) == [s EXCEPT !.f = (@ \cap {"Z", "P", "S"}) \cup {"C"} \cup Undoc(s.a)]
Cpl(s) ==
  [s EXCEPT !.a = 255 - @,
            !.f = (@ \cap {"C", "P", "Z", "S"}) \cup {"H", "N"} \cup Undoc(255 - s.a)]

Dec(s, op) ==
  LET v == (Get8(s, Y(op)) - 1) % 256 IN
  [Put8(s, Y(op), v) EXCEPT !.f = DecFlags(@, v)]
Inc(s, op) ==
  LET v == (Get8(s, Y(op)) + 1) % 256 IN
  [Put8(s, Y(op), v) EXCEPT !.f = IncFlags(@, v)]
DecPair(s, op) == PutPair(s, P(op), GetPair(s, P(op)) - 1)
IncPair(s, op) == PutPair(s, P(op), GetPair(s, P(op)) + 1)

JumpTo(s, addr) == [s EXCEPT !.pc = addr]
Jr(s) == Skip(s, Signed(Fetch(s)) + 1)
JrIf(s, op) == IF Holds(s, Y(op) - 4) THEN Jr(s) ELSE Skip(s, 1)
Djnz(s) ==
  LET t == [s EXCEPT !.b = (@ - 1) % 256] IN IF t.b # 0 THEN Jr(t) ELSE Skip(t, 1)
Jp(s) == JumpTo(s, FetchWord(s))
JpIf(s, op) == IF Holds(s, Y(op)) THEN Jp(s) ELSE Skip(s, 2)
Call(s) == JumpTo(Push(s, s.pc + 2), FetchWord(s))
CallIf(s, op) == IF Holds(s, Y(op)) THEN Call(s) ELSE Skip(s, 2)
Ret(s) == JumpTo(Popped(s), PeekWord(s, s.sp))
RetIf(s, op) == IF Holds(s, Y(op)) THEN Ret(s) ELSE s
Rst(s, op) == JumpTo(Push(s, s.pc), 8 * Y(op))

Di(s) == [s EXCEPT !.iff1 = FALSE, !.iff2 = FALSE]
Ei(s) == [s EXCEPT !.iff1 = TRUE, !.iff2 = TRUE]

ExAf(s) == [s EXCEPT !.a = s.a2, !.f = s.f2, !.a2 = s.a, !.f2 = s.f]
ExDeHl(s) == [s EXCEPT !.d = s.h, !.e = s.l, !.h = s.d, !.l = s.e]
ExSpHl(s) == PutPair(PokeWord(s, s.sp, HL(s)), 2, PeekWord(s, s.sp))
Exx(s) ==
  [s EXCEPT !.b = s.b2, !.c = s.c2, !.d = s.d2, !.e = s.e2, !.h = s.h2, !.l = s.l2,
            !.b2 = s.b, !.c2 = s.c, !.d2 = s.d, !.e2 = s.e, !.h2 = s.h, !.l2 = s.l]

InA(s, in) == [Skip(s, 1) EXCEPT !.a = in]
OutA(s) == Skip(s, 1)

LoadByte(s, op) == Put8(s, Y(op), Get8(s, Z(op)))
StoreAtHL(s, op) == Put8(s, 6, Get8(s, Z(op)))
LoadFromHL(s, op) == Put8(s, Y(op), Peek(s, HL(s)))
LoadByteNext(s, op) == Put8(Skip(s, 1), Y(op), Fetch(s))
LoadPair(s, op) == PutPair(Skip(s, 2), P(op), FetchWord(s))
StoreAAtPair(s, op) == Poke(s, GetPair(s, P(op)), s.a)
LoadAFromPair(s, op) == [s EXCEPT !.a = Peek(s, GetPair(s, P(op)))]
LoadAFrom(s) == [Skip(s, 2) EXCEPT !.a = Peek(s, FetchWord(s))]
StoreAAt(s) == Poke(Skip(s, 2), FetchWord(s), s.a)
StoreHLAt(s) == PokeWord(Skip(s, 2), FetchWord(s), HL(s))
LoadHLFrom(s) == PutPair(Skip(s, 2), 2, PeekWord(s, FetchWord(s)))

\* The fourth pair on the stack is AF.
PopPair(s, op) ==
  LET w == PeekWord(s, s.sp) IN
  IF P(op) = 3 THEN [Popped(s) EXCEPT !.a = High(w), !.f = FlagsOf(Low(w))]
               ELSE PutPair(Popped(s), P(op), w)
PushPair(s, op) ==
  Push(s, IF P(op) = 3 THEN 256 * s.a + Byte(s.f) ELSE GetPair(s, P(op)))

-----------------------------------------------------------------------------
(* After CB: rotates, shifts and single bits.                              *)

Shifted(y, v, f) ==
  CASE y = 0 -> Rlc(v)    [] y = 1 -> Rrc(v)
    [] y = 2 -> Rl(v, f)  [] y = 3 -> Rr(v, f)
    [] y = 4 -> Sla(v)    [] y = 5 -> Sra(v)
    [] y = 6 -> Slia(v)   [] y = 7 -> Srl(v)
ResetBit(v, n) == v - Mask(n) * Bit(v, Mask(n))
SetBit(v, n) == v + Mask(n) * (1 - Bit(v, Mask(n)))

ShiftCode(s, op) ==
  LET r == Shifted(Y(op), Get8(s, Z(op)), s.f) IN
  [Put8(s, Z(op), r.v) EXCEPT !.f = ShiftFlags(r)]
BitCode(s, op) ==
  [s EXCEPT !.f = TestBit(@, Get8(s, Z(op)), Y(op), Z(op) = 6)]
ResCode(s, op) == Put8(s, Z(op), ResetBit(Get8(s, Z(op)), Y(op)))
SetCode(s, op) == Put8(s, Z(op), SetBit(Get8(s, Z(op)), Y(op)))

CbInstruction(s) ==
  LET op == Fetch(s)  t == Skip(s, 1) IN
  CASE op < 64 -> ShiftCode(t, op)
    [] op \in 64..127 -> BitCode(t, op)
    [] op \in 128..191 -> ResCode(t, op)
    [] op > 191 -> SetCode(t, op)
=============================================================================
