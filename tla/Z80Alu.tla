------------------------------- MODULE Z80Alu -------------------------------
(***************************************************************************)
(* The arithmetic of the processor (z80.c): flags looked up in tables, and *)
(* the routines that compute on A, HL and bytes.  A byte is a number below *)
(* 256, a word one below 65536, the flag register the set of the flags it  *)
(* has raised; "3" and "5" are the undocumented ones.  s is a processor    *)
(* record, see Z80Code, of which the accumulator s.a and the flags s.f are *)
(* used here.                                                              *)
(***************************************************************************)
EXTENDS Integers, Sequences

Flags == {"C", "N", "P", "3", "H", "5", "Z", "S"}   \* P also stands for overflow

On(cond, flag) == IF cond THEN {flag} ELSE {}
Bit(v, power) == (v \div power) % 2          \* power = 2^i selects bit i
Mask(n) == <<1, 2, 4, 8, 16, 32, 64, 128>>[n + 1]      \* 1 << n
Carry(f) == IF "C" \in f THEN 1 ELSE 0
Undoc(v) == On(Bit(v, 8) = 1, "3") \cup On(Bit(v, 32) = 1, "5")

\* The flag register as a byte, for the stack.
Byte(f) ==
  LET w(flag, n) == IF flag \in f THEN n ELSE 0 IN
  w("C", 1) + w("N", 2) + w("P", 4) + w("3", 8)
    + w("H", 16) + w("5", 32) + w("Z", 64) + w("S", 128)
FlagsOf(v) ==
  On(Bit(v, 1) = 1, "C") \cup On(Bit(v, 2) = 1, "N") \cup On(Bit(v, 4) = 1, "P")
    \cup On(Bit(v, 16) = 1, "H") \cup On(Bit(v, 64) = 1, "Z")
    \cup On(Bit(v, 128) = 1, "S") \cup Undoc(v)

\* parity_table
EvenParity(v) ==
  (Bit(v, 1) + Bit(v, 2) + Bit(v, 4) + Bit(v, 8)
     + Bit(v, 16) + Bit(v, 32) + Bit(v, 64) + Bit(v, 128)) % 2 = 0

\* Bit by bit: both holds for the pairs of bits that give 1.
Bitwise8(a, b, both(_, _)) ==
  LET at(p) == IF both(Bit(a, p), Bit(b, p)) THEN p ELSE 0 IN
  at(1) + at(2) + at(4) + at(8) + at(16) + at(32) + at(64) + at(128)
And8(a, b) == Bitwise8(a, b, LAMBDA x, y : x = 1 /\ y = 1)
Or8(a, b) == Bitwise8(a, b, LAMBDA x, y : x = 1 \/ y = 1)
Xor8(a, b) == Bitwise8(a, b, LAMBDA x, y : x # y)

-----------------------------------------------------------------------------
(* The tables.  The top bit of either operand and of the result make an    *)
(* index into one, bit 3 (of a word: bit 11) of the three into the other.  *)

\* Mutant: the row of two negative numbers with a positive sum forgets C.
SignCarryOverflowBadly ==
  <<{}, {"P", "S"}, {"C"}, {"S"}, {"C"}, {"S"}, {"P"}, {"C", "S"}>>
SignCarryOverflow ==
  <<{}, {"P", "S"}, {"C"}, {"S"}, {"C"}, {"S"}, {"C", "P"}, {"C", "S"}>>
HalfCarry == <<{}, {}, {"H"}, {}, {"H"}, {}, {"H"}, {"H"}>>
SubSignCarryOverflow ==
  <<{}, {"C", "S"}, {"C"}, {"P", "C", "S"}, {"P"}, {"S"}, {}, {"C", "S"}>>
SubHalfCarry == <<{}, {"H"}, {"H"}, {"H"}, {}, {}, {}, {"H"}>>

Index(a, b, r, power) == 4 * Bit(a, power) + 2 * Bit(b, power) + Bit(r, power) + 1

AddFlags(a, b, r) ==
  HalfCarry[Index(a, b, r, 8)] \cup SignCarryOverflow[Index(a, b, r, 128)]
    \cup Undoc(r) \cup On(r % 256 = 0, "Z")
SubFlags(a, b, r) ==
  {"N"} \cup SubHalfCarry[Index(a, b, r, 8)]
    \cup SubSignCarryOverflow[Index(a, b, r, 128)]
    \cup Undoc(r) \cup On(r % 256 = 0, "Z")
AdcWordFlags(a, b, r) ==
  HalfCarry[Index(a, b, r, 2048)] \cup SignCarryOverflow[Index(a, b, r, 32768)]
    \cup Undoc(r \div 256) \cup On(r % 65536 = 0, "Z")
AddWordFlags(f, a, b, r) ==
  HalfCarry[Index(a, b, r, 2048)]
    \cup (SignCarryOverflow[Index(a, b, r, 32768)] \cap {"C"})
    \cup (f \cap {"Z", "P", "S"}) \cup Undoc(r \div 256)
SbcWordFlags(a, b, r) ==
  {"N"} \cup SubHalfCarry[Index(a, b, r, 2048)]
    \cup SubSignCarryOverflow[Index(a, b, r, 32768)]
    \cup Undoc(r \div 256) \cup On(r % 65536 = 0, "Z")

SignZero(v) == On(v \div 128 = 1, "S") \cup On(v = 0, "Z")
DecFlags(f, v) ==
  (f \cap {"C"}) \cup {"N"} \cup On(v = 127, "P") \cup On(v % 16 = 15, "H")
    \cup SignZero(v) \cup Undoc(v)
IncFlags(f, v) ==
  (f \cap {"C"}) \cup On(v = 128, "P") \cup On(v % 16 = 0, "H")
    \cup SignZero(v) \cup Undoc(v)
\* Sign, zero, parity and the undocumented flags of v.
LogicFlags(v) == SignZero(v) \cup On(EvenParity(v), "P") \cup Undoc(v)

-----------------------------------------------------------------------------
(* Arithmetic and logic on A and on HL.                                    *)

AndByte(s, v) ==
  LET r == And8(s.a, v) IN [s EXCEPT !.a = r, !.f = {"H"} \cup LogicFlags(r)]
OrByte(s, v) ==
  LET r == Or8(s.a, v) IN [s EXCEPT !.a = r, !.f = LogicFlags(r)]
XorByte(s, v) ==
  LET r == Xor8(s.a, v) IN [s EXCEPT !.a = r, !.f = LogicFlags(r)]
AddByte(s, v) ==
  LET r == (s.a + v) % 256 IN [s EXCEPT !.a = r, !.f = AddFlags(s.a, v, r)]
AdcByte(s, v) ==
  LET r == (s.a + v + Carry(s.f)) % 256
  IN  [s EXCEPT !.a = r, !.f = AddFlags(s.a, v, r)]
SubByte(s, v) ==
  LET r == (s.a - v) % 256 IN [s EXCEPT !.a = r, !.f = SubFlags(s.a, v, r)]
SbcByte(s, v) ==
  LET r == (s.a - (v + Carry(s.f))) % 256
  IN  [s EXCEPT !.a = r, !.f = SubFlags(s.a, v, r)]
Negate(s) ==
  LET r == (-s.a) % 256 IN [s EXCEPT !.a = r, !.f = SubFlags(0, s.a, r)]
\* The undocumented flags come from the operand.
Cp(s, v) ==
  [s EXCEPT !.f = (SubFlags(s.a, v, (s.a - v) % 256) \ {"3", "5"}) \cup Undoc(v)]

\* Mutant: the low nibble is only corrected when it is no digit.
DaaAfterAddBadly(a, f) ==
  LET low == IF a % 16 > 9 THEN a + 6 ELSE a
  IN  IF "C" \in f \/ (low \div 16) % 32 > 9 THEN low + 96 ELSE low
DaaAfterAdd(a, f) ==
  LET low == IF "H" \in f \/ a % 16 > 9 THEN a + 6 ELSE a
  IN  IF "C" \in f \/ (low \div 16) % 32 > 9 THEN low + 96 ELSE low
DaaAfterSub(a, f) ==
  LET low == IF "H" \in f \/ a % 16 > 9 THEN (a - 6) % 256 ELSE a
  IN  IF "C" \in f \/ a > 153 THEN low - 352 ELSE low
\* a keeps nine bits while it is corrected; the ninth raises the carry.
Daa(s) ==
  LET sub == "N" \in s.f
      a == IF sub THEN DaaAfterSub(s.a, s.f) ELSE DaaAfterAdd(s.a, s.f)
      half == IF sub THEN "H" \in s.f /\ s.a % 16 <= 5 ELSE s.a % 16 > 9
      r == a % 256
  IN  [s EXCEPT !.a = r,
                !.f = LogicFlags(r) \cup (s.f \cap {"N", "C"}) \cup On(half, "H")
                        \cup On(Bit(a, 256) = 1, "C")]
-----------------------------------------------------------------------------
(* Rotates and shifts of a byte v: the result, and the bit that leaves.    *)

Rl(v, f) == [v |-> ((2 * v) % 256) + Carry(f), c |-> Bit(v, 128)]
Rr(v, f) == [v |-> v \div 2 + 128 * Carry(f), c |-> v % 2]
Rlc(v) == [v |-> ((2 * v) % 256) + Bit(v, 128), c |-> Bit(v, 128)]
Rrc(v) == [v |-> v \div 2 + 128 * (v % 2), c |-> v % 2]
Sla(v) == [v |-> (2 * v) % 256, c |-> Bit(v, 128)]
Sra(v) == [v |-> v \div 2 + 128 * Bit(v, 128), c |-> v % 2]
Slia(v) == [v |-> ((2 * v) % 256) + 1, c |-> Bit(v, 128)]
Srl(v) == [v |-> v \div 2, c |-> v % 2]
ShiftFlags(r) == LogicFlags(r.v) \cup On(r.c = 1, "C")

\* Rotates of A alone leave sign, zero and parity as they are.
RotateA(s, r) ==
  [s EXCEPT !.a = r.v,
            !.f = (@ \cap {"P", "Z", "S"}) \cup On(r.c = 1, "C") \cup Undoc(r.v)]
Rla(s) == RotateA(s, Rl(s.a, s.f))
Rra(s) == RotateA(s, Rr(s.a, s.f))
Rlca(s) == RotateA(s, Rlc(s.a))
Rrca(s) == RotateA(s, Rrc(s.a))

\* memory says whether the operand is (HL): then the undocumented flags are 0.
TestBit(f, v, i, memory) ==
  LET set == Bit(v, Mask(i)) = 1 IN
  (f \cap {"C"}) \cup {"H"} \cup On(set /\ i = 7, "S")
    \cup (IF set THEN {} ELSE {"P", "Z"}) \cup (IF memory THEN {} ELSE Undoc(v))
=============================================================================
