----------------------------- MODULE Z80Prefixed ----------------------------
(***************************************************************************)
(* The instructions behind the prefixes DD, FD and ED (z80.c).  x is "ix"  *)
(* or "iy"; an indexed instruction is the plain one with HL, its halves    *)
(* and the byte at HL replaced by x, its halves and the byte at x + d.     *)
(* The repeated block instructions exist twice: one pass that steps back   *)
(* onto itself (the build's choice), and the loop of FAST_MOVE.            *)
(***************************************************************************)
EXTENDS Z80Code

\* The refresh register counts modulo Refresh: 256 in the program.
CONSTANT Refresh
ASSUME RefreshAssumption == Refresh \in 1..256
Refreshed(s, n) == [s EXCEPT !.r = (@ + n) % Refresh]

Indexed(s, x) == (s[x] + Signed(Fetch(s))) % Word
\* Operand n of an indexed instruction; 6 is in memory and needs its offset.
GetX(s, x, n) ==
  CASE n = 4 -> High(s[x]) [] n = 5 -> Low(s[x]) [] n = 6 -> Peek(s, Indexed(s, x))
    [] OTHER -> s[R8[n + 1]]
PutX(s, x, n, v) ==
  CASE n = 4 -> [s EXCEPT ![x] = 256 * v + Low(@)]
    [] n = 5 -> [s EXCEPT ![x] = 256 * High(@) + v]
    [] n = 6 -> Skip(Poke(s, Indexed(s, x), v), 1)
    [] OTHER -> [s EXCEPT ![R8[n + 1]] = v]
PastX(s, n) == IF n = 6 THEN Skip(s, 1) ELSE s

Halves == {4, 5, 6}
IndexedArithmetic == {op \in 128..191 : Z(op) \in Halves}
ArithmeticX(s, x, op) ==
  LET t == PastX(s, Z(op))  v == GetX(s, x, Z(op)) IN
  CASE Y(op) = 0 -> AddByte(t, v) [] Y(op) = 1 -> AdcByte(t, v)
    [] Y(op) = 2 -> SubByte(t, v) [] Y(op) = 3 -> SbcByte(t, v)
    [] Y(op) = 4 -> AndByte(t, v) [] Y(op) = 5 -> XorByte(t, v)
    [] Y(op) = 6 -> OrByte(t, v)  [] Y(op) = 7 -> Cp(t, v)
AddX(s, x, op) ==
  LET v == IF P(op) = 2 THEN s[x] ELSE GetPair(s, P(op))
      r == (s[x] + v) % Word
  IN  [s EXCEPT ![x] = r, !.f = AddWordFlags(@, s[x], v, r)]
IncX(s, x, op) ==
  LET v == (GetX(s, x, Y(op)) + 1) % 256 IN
  [PutX(s, x, Y(op), v) EXCEPT !.f = IncFlags(@, v)]
DecX(s, x, op) ==
  LET v == (GetX(s, x, Y(op)) - 1) % 256 IN
  [PutX(s, x, Y(op), v) EXCEPT !.f = DecFlags(@, v)]
\* With an operand in memory, h and l are the plain registers.
IndexedLoads ==
  {op \in 64..127 \ {118} : Z(op) \in Halves \/ Y(op) \in Halves}
LoadX(s, x, op) ==
  CASE Z(op) = 6 -> Put8(Skip(s, 1), Y(op), GetX(s, x, 6))
    [] Y(op) = 6 -> PutX(s, x, 6, Get8(s, Z(op)))
    [] OTHER -> PutX(s, x, Y(op), GetX(s, x, Z(op)))
LoadXNext(s, x, op) ==
  IF Y(op) = 6 THEN Poke(Skip(s, 2), Indexed(s, x), Peek(s, (s.pc + 1) % Word))
               ELSE PutX(Skip(s, 1), x, Y(op), Fetch(s))
WordX(s, x, op) ==
  CASE op = 33 -> [Skip(s, 2) EXCEPT ![x] = FetchWord(s)]
    [] op = 34 -> PokeWord(Skip(s, 2), FetchWord(s), s[x])
    [] op = 42 -> [Skip(s, 2) EXCEPT ![x] = PeekWord(s, FetchWord(s))]
    [] op = 35 -> [s EXCEPT ![x] = (@ + 1) % Word]
    [] op = 43 -> [s EXCEPT ![x] = (@ - 1) % Word]
    [] op = 225 -> [Popped(s) EXCEPT ![x] = PeekWord(s, s.sp)]
    [] op = 227 -> [PokeWord(s, s.sp, s[x]) EXCEPT ![x] = PeekWord(s, s.sp)]
    [] op = 229 -> Push(s, s[x])
    [] op = 233 -> JumpTo(s, s[x])
    [] op = 249 -> [s EXCEPT !.sp = s[x]]
\* Offset first, then the operation.  All but BIT also load a register, if named.
CbX(s, x) ==
  LET addr == Indexed(s, x)
      op == Peek(s, (s.pc + 1) % Word)
      v == Peek(s, addr)
      t == Skip(s, 2)
      r == Shifted(Y(op), v, s.f)
      Into(v2) == LET u == Poke(t, addr, v2) IN
                  IF Z(op) = 6 THEN u ELSE [u EXCEPT ![R8[Z(op) + 1]] = v2]
  IN  CASE op < 64 -> [Into(r.v) EXCEPT !.f = ShiftFlags(r)]
        [] op \in 64..127 -> [t EXCEPT !.f = TestBit(@, v, Y(op), Z(op) = 6)]
        [] op \in 128..191 -> Into(ResetBit(v, Y(op)))
        [] op > 191 -> Into(SetBit(v, Y(op)))
\* The prefix counts for nothing; what follows is an instruction of its own.
IgnorePrefix(s) == Refreshed(Skip(s, -1), -1)

IndexedInstruction(s, x) ==
  LET op == Fetch(s)  t == Skip(s, 1) IN
  CASE op \in IndexedArithmetic -> ArithmeticX(t, x, op)
    [] op \in {9, 25, 41, 57} -> AddX(t, x, op)
    [] op \in {36, 44, 52} -> IncX(t, x, op)
    [] op \in {37, 45, 53} -> DecX(t, x, op)
    [] op \in IndexedLoads -> LoadX(t, x, op)
    [] op \in {38, 46, 54} -> LoadXNext(t, x, op)
    [] op \in {33, 34, 35, 42, 43, 225, 227, 229, 233, 249} -> WordX(t, x, op)
    [] op = 203 -> CbX(t, x)
    [] OTHER -> IgnorePrefix(t)

-----------------------------------------------------------------------------
(* After ED.                                                               *)

AdcPair(s, op) ==
  LET v == GetPair(s, P(op))  r == (HL(s) + v + Carry(s.f)) % Word IN
  [PutPair(s, 2, r) EXCEPT !.f = AdcWordFlags(HL(s), v, r)]
SbcPair(s, op) ==
  LET v == GetPair(s, P(op))  r == (HL(s) - (v + Carry(s.f))) % Word IN
  [PutPair(s, 2, r) EXCEPT !.f = SbcWordFlags(HL(s), v, r)]
LoadPairFrom(s, op) == PutPair(Skip(s, 2), P(op), PeekWord(s, FetchWord(s)))
StorePairAt(s, op) == PokeWord(Skip(s, 2), FetchWord(s), GetPair(s, P(op)))

\* Not all of the flags that are put right are named in the code's mask.
InFlags(f, v) ==
  (f \ {"S", "Z", "H", "P", "N"}) \cup SignZero(v) \cup On(EvenParity(v), "P")
InC(s, op, in) ==
  LET t == [s EXCEPT !.f = InFlags(@, in)] IN
  IF Y(op) = 6 THEN t ELSE Put8(t, Y(op), in)

\* Sign, zero and the undocumented flags of A, and the interrupt flip-flop.
LoadAFlags(s) ==
  [s EXCEPT !.f = (@ \cap {"C"}) \cup SignZero(s.a) \cup On(s.iff2, "P")
                    \cup Undoc(s.a)]
LoadAI(s) == LoadAFlags([s EXCEPT !.a = s.i])
LoadAR(s) == LoadAFlags([s EXCEPT !.a = (s.r % 128) + s.r7])
LoadRA(s) == [s EXCEPT !.r = s.a % Refresh, !.r7 = 128 * Bit(s.a, 128)]

Reti(s) == [Ret(s) EXCEPT !.iff1 = s.iff2]
Retn(s) == [Ret(s) EXCEPT !.iff1 = s.iff2]

RotateDigits(s, a, v) ==
  Poke([s EXCEPT !.a = a, !.f = (@ \cap {"C"}) \cup LogicFlags(a)], HL(s), v)
Rld(s) ==
  LET v == Peek(s, HL(s)) IN
  RotateDigits(s, 16 * (s.a \div 16) + (v \div 16), 16 * (v % 16) + (s.a % 16))
Rrd(s) ==
  LET v == Peek(s, HL(s)) IN
  RotateDigits(s, 16 * (s.a \div 16) + (v % 16), (v \div 16) + 16 * (s.a % 16))

-----------------------------------------------------------------------------
(* Blocks.  dir is 1 or -1.                                                *)

Count(s) == PutPair(s, 0, BC(s) - 1)
\* LDI, LDD: one byte from HL to DE.
MoveFlags(f, a, v) ==
  LET u == a + v IN
  (f \ {"3", "5", "H", "N"}) \cup On(Bit(u, 8) = 1, "3") \cup On(Bit(u, 2) = 1, "5")
Moved(s, dir) ==
  LET t == Poke(s, DE(s), Peek(s, HL(s))) IN
  Count(PutPair(PutPair(t, 1, DE(s) + dir), 2, HL(s) + dir))
Move(s, dir) ==
  LET t == Moved(s, dir)
      f == IF BC(t) = 0 THEN s.f \ {"P"} ELSE s.f \cup {"P"}
  IN  [t EXCEPT !.f = MoveFlags(f, s.a, Peek(s, HL(s)))]
\* Mutant: the test is made on BC before it is counted down.
MoveRepeatBadly(s, dir) ==
  LET t == Move(s, dir) IN IF BC(s) # 0 THEN Skip(t, -2) ELSE t
MoveRepeat(s, dir) ==
  LET t == Move(s, dir) IN IF "P" \in t.f THEN Skip(t, -2) ELSE t
\* FAST_MOVE: the loop in one instruction.
Passes(s) == IF BC(s) = 0 THEN Word ELSE BC(s)
MoveLoop(s, dir) ==
  LET before[n \in 1..Passes(s)] == IF n = 1 THEN s ELSE Moved(before[n - 1], dir)
      last == before[Passes(s)]
  IN  [Moved(last, dir) EXCEPT
         !.f = MoveFlags(@ \ {"P"}, s.a, Peek(last, HL(last)))]

\* CPI, CPD: compare A with the byte at HL.
SearchFlags(s, v, bc) ==
  LET r == s.a - v
      f == SubFlags(s.a, v, r % 256)
      half == IF "H" \in f THEN 1 ELSE 0
  IN  ((f \ {"C", "P", "5"}) \cup (s.f \cap {"C"}) \cup On(bc # 0, "P")
         \cup On(Bit(r - half, 2) = 1, "5"))
        \ On(r % 16 = 8 /\ "H" \in f, "3")
Searched(s, dir) == Count(PutPair(s, 2, HL(s) + dir))
Search(s, dir) ==
  LET t == Searched(s, dir) IN
  [t EXCEPT !.f = SearchFlags(s, Peek(s, HL(s)), BC(t))]
SearchRepeat(s, dir) ==
  LET t == Search(s, dir) IN
  IF "P" \in t.f /\ "Z" \notin t.f THEN Skip(t, -2) ELSE t
SearchLoop(s, dir) ==
  LET at(n) == Peek(s, (HL(s) + dir * (n - 1)) % Word)
      k == CHOOSE n \in 1..Passes(s) : /\ at(n) = s.a \/ n = Passes(s)
                                       /\ \A m \in 1..(n - 1) : at(m) # s.a
      t == PutPair(PutPair(s, 2, HL(s) + dir * k), 0, BC(s) - k)
  IN  [t EXCEPT !.f = SearchFlags(s, at(k), BC(t))]

\* INI, IND, OUTI, OUTD: B counts.
Port(s, dir) ==
  LET b == (s.b - 1) % 256 IN
  [PutPair(s, 2, HL(s) + dir) EXCEPT
     !.b = b, !.f = (@ \ {"Z"}) \cup On(b = 0, "Z") \cup {"N"}]
In(s, dir, in) == Port(Poke(s, HL(s), in), dir)
Out(s, dir) == Port(s, dir)
Again(t) == IF "Z" \notin t.f THEN Skip(t, -2) ELSE t
InRepeat(s, dir, in) == Again(In(s, dir, in))
OutRepeat(s, dir) == Again(Out(s, dir))

Dir(op) == IF op % 16 < 8 THEN 1 ELSE -1
EdInstruction(s, in) ==
  LET op == Fetch(s)  t == Skip(s, 1) IN
  CASE op \in {66, 82, 98, 114} -> SbcPair(t, op)
    [] op \in {74, 90, 106, 122} -> AdcPair(t, op)
    [] op \in {67, 83, 99, 115} -> StorePairAt(t, op)
    [] op \in {75, 91, 107, 123} -> LoadPairFrom(t, op)
    [] op \in {64 + 8 * n : n \in 0..7} -> InC(t, op, in)
    [] op \in {68 + 8 * n : n \in 0..7} -> Negate(t)
    [] op = 77 -> Reti(t)
    [] op \in {69 + 8 * n : n \in 0..7 \ {1}} -> Retn(t)
    [] op \in {70, 102} -> [t EXCEPT !.im = 0]
    [] op \in {86, 118} -> [t EXCEPT !.im = 1]
    [] op \in {94, 126} -> [t EXCEPT !.im = 2]
    [] op = 71 -> [t EXCEPT !.i = t.a]
    [] op = 79 -> LoadRA(t)
    [] op = 87 -> LoadAI(t)
    [] op = 95 -> LoadAR(t)
    [] op = 103 -> Rrd(t)
    [] op = 111 -> Rld(t)
    [] op \in {160, 168} -> Move(t, Dir(op))
    [] op \in {176, 184} -> MoveRepeat(t, Dir(op))
    [] op \in {161, 169} -> Search(t, Dir(op))
    [] op \in {177, 185} -> SearchRepeat(t, Dir(op))
    [] op \in {162, 170} -> In(t, Dir(op), in)
    [] op \in {178, 186} -> InRepeat(t, Dir(op), in)
    [] op \in {163, 171} -> Out(t, Dir(op))
    [] op \in {179, 187} -> OutRepeat(t, Dir(op))
    [] OTHER -> t        \* OUT (C),r; traps of the emulator; nothing
=============================================================================
