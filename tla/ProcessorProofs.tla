--------------------------- MODULE ProcessorProofs ---------------------------
(***************************************************************************)
(* Proofs about the processor and its debugger, for every program and      *)
(* every memory: the processor stays a processor whatever it executes and  *)
(* whatever interrupts it; its tables of flags compute what integers       *)
(* compute, and DAA makes decimal arithmetic of it; and the debugger's     *)
(* two copies of its traps agree.                                          *)
(***************************************************************************)
EXTENDS Z80Tasks, DebuggerTasks, FiniteSetTheorems, WellFoundedInduction, TLAPS

-----------------------------------------------------------------------------
(* Numbers                                                                 *)

\* Numbers are made bytes and words by the masks of the code.
LEMMA ModByte == \A n \in Int : IsByte(n % 256)
BY Z3 DEF IsByte

LEMMA ModWord == \A n \in Int : IsWord(n % 65536) /\ IsWord(n % Word)
BY Z3 DEF IsWord, Word

\* A word and its two bytes.
LEMMA WordHalves ==
  ASSUME NEW w, IsWord(w)
  PROVE  IsByte(High(w)) /\ IsByte(Low(w)) /\ w = 256 * High(w) + Low(w)
BY Z3 DEF IsByte, IsWord, Word, High, Low

LEMMA WordOfBytes ==
  ASSUME NEW h, IsByte(h), NEW l, IsByte(l)
  PROVE  IsWord(256 * h + l) /\ IsWord(l + 256 * h)
BY DEF IsByte, IsWord, Word

LEMMA BitTyped == \A v \in Int, p \in Int : p > 0 => Bit(v, p) \in {0, 1}
BY Z3 DEF Bit

\* The fields of an opcode name registers, pairs and conditions that exist.
LEMMA OpcodeFields == \A op \in Int : Y(op) \in 0..7 /\ Z(op) \in 0..7 /\ P(op) \in 0..3
BY Z3 DEF Y, Z, P

LEMMA BytesAreWords == ASSUME NEW v, IsByte(v) PROVE IsWord(v) /\ v \in Int
BY DEF IsByte, IsWord, Word

LEMMA SignedTyped == ASSUME NEW v, IsByte(v) PROVE Signed(v) \in Int
BY DEF IsByte, Signed

-----------------------------------------------------------------------------
(* Flags                                                                   *)

\* Every routine that computes flags computes a set of flags.
LEMMA OnFlags == \A cond : \A flag \in Flags : On(cond, flag) \subseteq Flags
BY DEF On

LEMMA UndocFlags == \A v : Undoc(v) \subseteq Flags
BY OnFlags DEF Undoc, Flags

LEMMA SignZeroFlags == \A v : SignZero(v) \subseteq Flags
BY OnFlags DEF SignZero, Flags

LEMMA LogicFlagsTyped == \A v : LogicFlags(v) \subseteq Flags
BY OnFlags, SignZeroFlags, UndocFlags DEF LogicFlags, Flags

LEMMA FlagsOfTyped == \A v : FlagsOf(v) \subseteq Flags
BY OnFlags, UndocFlags DEF FlagsOf, Flags

LEMMA IndexTyped ==
  ASSUME NEW a \in Int, NEW b \in Int, NEW r \in Int, NEW p \in Int, p > 0
  PROVE  Index(a, b, r, p) \in 1..8
<1>1. Bit(a, p) \in {0, 1} /\ Bit(b, p) \in {0, 1} /\ Bit(r, p) \in {0, 1}
  BY BitTyped
<1> QED BY <1>1 DEF Index

LEMMA TablesTyped ==
  \A i \in 1..8 : /\ HalfCarry[i] \subseteq Flags /\ SignCarryOverflow[i] \subseteq Flags
                  /\ SubHalfCarry[i] \subseteq Flags /\ SubSignCarryOverflow[i] \subseteq Flags
BY DEF HalfCarry, SignCarryOverflow, SubHalfCarry, SubSignCarryOverflow, Flags

\* An index made of three bits stays inside the tables of flags.
LEMMA TableFlagsTyped ==
  ASSUME NEW a \in Int, NEW b \in Int, NEW r \in Int
  PROVE  /\ AddFlags(a, b, r) \subseteq Flags /\ SubFlags(a, b, r) \subseteq Flags
         /\ AdcWordFlags(a, b, r) \subseteq Flags /\ SbcWordFlags(a, b, r) \subseteq Flags
         /\ \A f : f \subseteq Flags => AddWordFlags(f, a, b, r) \subseteq Flags
<1>1. \A p \in {8, 128, 2048, 32768} : Index(a, b, r, p) \in 1..8
  BY IndexTyped
<1>2. "N" \in Flags /\ "Z" \in Flags
  BY DEF Flags
<1>3. On(r % 256 = 0, "Z") \subseteq Flags /\ On(r % 65536 = 0, "Z") \subseteq Flags
      /\ Undoc(r) \subseteq Flags /\ Undoc(r \div 256) \subseteq Flags
  BY <1>2, OnFlags, UndocFlags
<1> QED BY <1>1, <1>2, <1>3, TablesTyped
    DEF AddFlags, SubFlags, AdcWordFlags, SbcWordFlags, AddWordFlags

LEMMA CountFlagsTyped ==
  ASSUME NEW f, f \subseteq Flags, NEW v
  PROVE  IncFlags(f, v) \subseteq Flags /\ DecFlags(f, v) \subseteq Flags
<1>1. \A c : On(c, "P") \subseteq Flags /\ On(c, "H") \subseteq Flags
  BY OnFlags DEF Flags
<1>2. "N" \in Flags
  BY DEF Flags
<1> QED BY <1>1, <1>2, SignZeroFlags, UndocFlags DEF IncFlags, DecFlags

LEMMA ShiftFlagsTyped == \A r : ShiftFlags(r) \subseteq Flags
BY LogicFlagsTyped, OnFlags DEF ShiftFlags, Flags

LEMMA TestBitTyped ==
  ASSUME NEW f, f \subseteq Flags, NEW v, NEW i, NEW m
  PROVE  TestBit(f, v, i, m) \subseteq Flags
BY OnFlags, UndocFlags DEF TestBit, Flags

-----------------------------------------------------------------------------
(* Registers and memory                                                    *)

LEMMA Registers ==
  ASSUME NEW s, IsProcessor(s)
  PROVE  /\ IsByte(s.a) /\ IsByte(s.b) /\ IsByte(s.c) /\ IsByte(s.d) /\ IsByte(s.e)
         /\ IsByte(s.h) /\ IsByte(s.l) /\ IsByte(s.i) /\ IsByte(s.r)
         /\ IsWord(s.ix) /\ IsWord(s.iy) /\ IsWord(s.sp) /\ IsWord(s.pc)
         /\ s.f \subseteq Flags /\ s.f2 \subseteq Flags
BY DEF IsProcessor, ByteRegs, WordRegs, FlagRegs

\* A register takes a value of its width, and the record stays a processor.
LEMMA PutByte ==
  ASSUME NEW s, IsProcessor(s), NEW x \in ByteRegs, NEW v, IsByte(v)
  PROVE  IsProcessor([s EXCEPT ![x] = v])
BY DEF IsProcessor, ByteRegs, WordRegs, FlagRegs

LEMMA PutWord ==
  ASSUME NEW s, IsProcessor(s), NEW x \in WordRegs, NEW v, IsWord(v)
  PROVE  IsProcessor([s EXCEPT ![x] = v])
BY DEF IsProcessor, ByteRegs, WordRegs, FlagRegs
WithA(s, v) == [s EXCEPT !.a = v]
WithF(s, f) == [s EXCEPT !.f = f]
WithAF(s, v, f) == [s EXCEPT !.a = v, !.f = f]

LEMMA WithTyped ==
  ASSUME NEW s, IsProcessor(s)
  PROVE  /\ \A v : IsByte(v) => IsProcessor(WithA(s, v))
         /\ \A f : f \subseteq Flags => IsProcessor(WithF(s, f))
         /\ \A v, f : IsByte(v) /\ f \subseteq Flags => IsProcessor(WithAF(s, v, f))
BY DEF WithA, WithF, WithAF, IsProcessor, ByteRegs, WordRegs, FlagRegs

LEMMA PutPc ==
  ASSUME NEW s, IsProcessor(s), NEW v, IsWord(v)
  PROVE  IsProcessor([s EXCEPT !.pc = v])
BY PutWord DEF WordRegs

LEMMA PutSp ==
  ASSUME NEW s, IsProcessor(s), NEW v, IsWord(v)
  PROVE  IsProcessor([s EXCEPT !.sp = v])
BY PutWord DEF WordRegs

LEMMA PeekTyped ==
  ASSUME NEW s, IsProcessor(s), NEW addr
  PROVE  IsByte(Peek(s, addr))
<1> DEFINE m == s.mem
<1>1. IsMemory(m)
  BY DEF IsProcessor
<1>2. Peek(s, addr) = IF addr \in DOMAIN m THEN m[addr] ELSE 0
  BY DEF Peek
<1> HIDE DEF m
<1>3. IsByte(0)
  BY DEF IsByte
<1> QED BY <1>1, <1>2, <1>3 DEF IsMemory

\* Memory stays a memory when a byte or a word is written to it.
LEMMA PokeTyped ==
  ASSUME NEW s, IsProcessor(s), NEW addr, IsWord(addr), NEW v, IsByte(v)
  PROVE  IsProcessor(Poke(s, addr, v))
<1> DEFINE m == s.mem
           n == [x \in DOMAIN m \cup {addr} |-> IF x = addr THEN v ELSE m[x]]
<1>1. IsMemory(m)
  BY DEF IsProcessor
<1>2. IsMemory(n)
  <2> HIDE DEF m
  <2> QED BY <1>1 DEF IsMemory
<1>3. Poke(s, addr, v) = [s EXCEPT !.mem = n]
  BY DEF Poke
<1> HIDE DEF n
<1> QED BY <1>2, <1>3 DEF IsProcessor, ByteRegs, WordRegs, FlagRegs

LEMMA PeekWordTyped ==
  ASSUME NEW s, IsProcessor(s), NEW addr
  PROVE  IsWord(PeekWord(s, addr))
BY PeekTyped, WordOfBytes DEF PeekWord

LEMMA PokeWordTyped ==
  ASSUME NEW s, IsProcessor(s), NEW addr, IsWord(addr), NEW w \in Int
  PROVE  IsProcessor(PokeWord(s, addr, w))
<1>1. IsByte(w % 256) /\ IsByte((w \div 256) % 256)
  BY ModByte
<1>2. addr \in Int /\ IsWord((addr + 1) % Word)
  BY ModWord DEF IsWord
<1>3. IsProcessor(Poke(s, addr, w % 256))
  BY <1>1, PokeTyped
<1> QED BY <1>1, <1>2, <1>3, PokeTyped DEF PokeWord

LEMMA WordsAreInts == ASSUME NEW v, IsWord(v) PROVE v \in Int
BY DEF IsWord

LEMMA FetchTyped ==
  ASSUME NEW s, IsProcessor(s)
  PROVE  IsByte(Fetch(s)) /\ IsWord(FetchWord(s))
BY PeekTyped, PeekWordTyped DEF Fetch, FetchWord

LEMMA SkipTyped ==
  ASSUME NEW s, IsProcessor(s), NEW n \in Int
  PROVE  IsProcessor(Skip(s, n))
<1>1. s.pc \in Int /\ IsWord((s.pc + n) % Word)
  BY Registers, WordsAreInts, ModWord
<1> QED BY <1>1, PutPc DEF Skip

LEMMA RefreshByte == \A k \in Int : IsByte(k % Refresh)
<1>1. Refresh \in Int /\ 0 < Refresh /\ Refresh <= 256
  BY RefreshAssumption
<1>2. \A k \in Int : k % Refresh \in Int /\ 0 <= k % Refresh /\ k % Refresh < Refresh
  BY <1>1
<1> QED BY <1>1, <1>2 DEF IsByte

LEMMA RefreshedTyped ==
  ASSUME NEW s, IsProcessor(s), NEW n \in Int
  PROVE  IsProcessor(Refreshed(s, n))
<1>1. s.r + n \in Int
  BY Registers, BytesAreWords
<1> DEFINE v == (s.r + n) % Refresh
<1>3. IsByte(v)
  BY <1>1, RefreshByte
<1>4. Refreshed(s, n) = [s EXCEPT !.r = v]
  BY DEF Refreshed
<1> HIDE DEF v
<1> QED BY <1>3, <1>4 DEF IsProcessor, ByteRegs, WordRegs, FlagRegs

LEMMA PushTyped ==
  ASSUME NEW s, IsProcessor(s), NEW w \in Int
  PROVE  IsProcessor(Push(s, w))
<1>1. s.sp \in Int /\ IsWord((s.sp - 2) % Word)
  BY Registers, WordsAreInts, ModWord
<1>2. IsProcessor([s EXCEPT !.sp = (s.sp - 2) % Word])
  BY <1>1, PutSp
<1> QED BY <1>1, <1>2, PokeWordTyped DEF Push

LEMMA PoppedTyped ==
  ASSUME NEW s, IsProcessor(s)
  PROVE  IsProcessor(Popped(s))
<1>1. s.sp \in Int /\ IsWord((s.sp + 2) % Word)
  BY Registers, WordsAreInts, ModWord
<1> QED BY <1>1, PutSp DEF Popped

\* A pair is a word, whichever two registers it is made of.
LEMMA PairsTyped ==
  ASSUME NEW s, IsProcessor(s)
  PROVE  IsWord(HL(s)) /\ IsWord(BC(s)) /\ IsWord(DE(s))
BY Registers, WordOfBytes DEF HL, BC, DE

LEMMA RegisterNames == \A n \in 0..7 \ {6} : R8[n + 1] \in ByteRegs
<1> SUFFICES ASSUME NEW n \in 0..7 \ {6} PROVE R8[n + 1] \in ByteRegs
  OBVIOUS
<1>1. R8[1] = "b" /\ R8[2] = "c" /\ R8[3] = "d" /\ R8[4] = "e" /\ R8[5] = "h"
      /\ R8[6] = "l" /\ R8[8] = "a"
  BY DEF R8
<1>2. n + 1 \in {1, 2, 3, 4, 5, 6, 8}
  OBVIOUS
<1> QED BY <1>1, <1>2 DEF ByteRegs

LEMMA Get8Typed ==
  ASSUME NEW s, IsProcessor(s), NEW n \in 0..7
  PROVE  IsByte(Get8(s, n))
<1>1. \A x \in ByteRegs : IsByte(s[x])
  BY DEF IsProcessor
<1>2. CASE n = 6
  BY <1>2, PeekTyped DEF Get8
<1>3. CASE n # 6
  BY <1>1, <1>3, RegisterNames DEF Get8
<1> QED BY <1>2, <1>3

LEMMA Put8Typed ==
  ASSUME NEW s, IsProcessor(s), NEW n \in 0..7, NEW v, IsByte(v)
  PROVE  IsProcessor(Put8(s, n, v))
<1>1. CASE n = 6
  BY <1>1, PokeTyped, PairsTyped DEF Put8
<1>2. CASE n # 6
  <2> DEFINE x == R8[n + 1]
  <2>1. Put8(s, n, v) = IF n = 6 THEN Poke(s, HL(s), v) ELSE [s EXCEPT ![x] = v]
    BY DEF Put8
  <2>2. x \in ByteRegs
    BY <1>2, RegisterNames
  <2> HIDE DEF x
  <2>3. IsProcessor([s EXCEPT ![x] = v])
    BY <2>2, PutByte
  <2> QED BY <1>2, <2>1, <2>3
<1> QED BY <1>1, <1>2

LEMMA GetPairTyped ==
  ASSUME NEW s, IsProcessor(s), NEW n \in 0..3
  PROVE  IsWord(GetPair(s, n))
<1>1. IsWord(BC(s)) /\ IsWord(DE(s)) /\ IsWord(HL(s)) /\ IsWord(s.sp)
  BY PairsTyped, Registers
<1>2. n = 0 \/ n = 1 \/ n = 2 \/ n = 3
  OBVIOUS
<1> QED BY <1>1, <1>2 DEF GetPair

LEMMA PutPairTyped ==
  ASSUME NEW s, IsProcessor(s), NEW n \in 0..3, NEW v \in Int
  PROVE  IsProcessor(PutPair(s, n, v))
<1> DEFINE w == v % Word
<1>1. IsWord(w)
  BY ModWord
<1>2. IsByte(w \div 256) /\ IsByte(w % 256)
  BY <1>1, WordHalves DEF High, Low
<1>3. PutPair(s, n, v) =
        CASE n = 0 -> [s EXCEPT !.b = w \div 256, !.c = w % 256]
          [] n = 1 -> [s EXCEPT !.d = w \div 256, !.e = w % 256]
          [] n = 2 -> [s EXCEPT !.h = w \div 256, !.l = w % 256]
          [] n = 3 -> [s EXCEPT !.sp = w]
  BY DEF PutPair
<1> HIDE DEF w
<1>5. IsProcessor([s EXCEPT !.b = w \div 256, !.c = w % 256])
      /\ IsProcessor([s EXCEPT !.d = w \div 256, !.e = w % 256])
      /\ IsProcessor([s EXCEPT !.h = w \div 256, !.l = w % 256])
  BY <1>2 DEF IsProcessor, ByteRegs, WordRegs, FlagRegs
<1>6. IsProcessor([s EXCEPT !.sp = w])
  BY <1>1, PutSp
<1>7. n = 0 \/ n = 1 \/ n = 2 \/ n = 3
  OBVIOUS
<1> QED BY <1>3, <1>5, <1>6, <1>7

-----------------------------------------------------------------------------
(* Arithmetic and logic                                                    *)

LEMMA Bitwise8Typed ==
  \A a, v : IsByte(And8(a, v)) /\ IsByte(Or8(a, v)) /\ IsByte(Xor8(a, v))
BY DEF And8, Or8, Xor8, Bitwise8, IsByte

LEMMA CarryTyped == \A f : Carry(f) \in {0, 1}
BY DEF Carry

LEMMA DaaAfterTyped ==
  ASSUME NEW a, IsByte(a), NEW f
  PROVE  DaaAfterAdd(a, f) \in Int /\ DaaAfterSub(a, f) \in Int
<1>1. a \in Int /\ (a - 6) % 256 \in Int
  BY DEF IsByte
<1> QED BY <1>1 DEF DaaAfterAdd, DaaAfterSub

\* The routines on A and on bytes.
LEMMA AluTyped ==
  ASSUME NEW s, IsProcessor(s), NEW v, IsByte(v)
  PROVE  /\ IsProcessor(AddByte(s, v)) /\ IsProcessor(AdcByte(s, v))
         /\ IsProcessor(SubByte(s, v)) /\ IsProcessor(SbcByte(s, v))
         /\ IsProcessor(AndByte(s, v)) /\ IsProcessor(OrByte(s, v))
         /\ IsProcessor(XorByte(s, v)) /\ IsProcessor(Cp(s, v))
<1>1. s.a \in Int /\ v \in Int /\ Carry(s.f) \in Int
  BY Registers, BytesAreWords, CarryTyped
<1>2. ASSUME NEW n \in Int
      PROVE  /\ IsByte(n % 256) /\ AddFlags(s.a, v, n % 256) \subseteq Flags
             /\ SubFlags(s.a, v, n % 256) \subseteq Flags
  <2>1. IsByte(n % 256) /\ n % 256 \in Int
    BY ModByte
  <2> QED BY <1>1, <2>1, TableFlagsTyped
<1>3. IsProcessor(AddByte(s, v)) /\ IsProcessor(AdcByte(s, v))
  <2>1. /\ s.a + v \in Int /\ s.a + v + Carry(s.f) \in Int
    BY <1>1
  <2>2. \A n \in Int : IsProcessor(WithAF(s, n % 256, AddFlags(s.a, v, n % 256)))
    BY <1>2, WithTyped
  <2> QED BY <2>1, <2>2 DEF AddByte, AdcByte, WithAF
<1>4. IsProcessor(SubByte(s, v)) /\ IsProcessor(SbcByte(s, v))
  <2>1. /\ s.a - v \in Int /\ s.a - (v + Carry(s.f)) \in Int
    BY <1>1
  <2>2. \A n \in Int : IsProcessor(WithAF(s, n % 256, SubFlags(s.a, v, n % 256)))
    BY <1>2, WithTyped
  <2> QED BY <2>1, <2>2 DEF SubByte, SbcByte, WithAF
<1>5. IsProcessor(OrByte(s, v)) /\ IsProcessor(XorByte(s, v))
  BY Bitwise8Typed, LogicFlagsTyped, WithTyped DEF OrByte, XorByte, WithAF
<1>6. IsProcessor(AndByte(s, v))
  <2>1. {"H"} \cup LogicFlags(And8(s.a, v)) \subseteq Flags
    BY LogicFlagsTyped DEF Flags
  <2> QED BY <2>1, Bitwise8Typed, WithTyped DEF AndByte, WithAF
<1>7. IsProcessor(Cp(s, v))
  <2> DEFINE g == SubFlags(s.a, v, (s.a - v) % 256)
             f == (g \ {"3", "5"}) \cup Undoc(v)
  <2>1. f \subseteq Flags
    <3>1. s.a - v \in Int
      BY <1>1
    <3>2. g \subseteq Flags
      BY <1>2, <3>1
    <3> HIDE DEF g
    <3> QED BY <3>2, UndocFlags
  <2>2. Cp(s, v) = WithF(s, f)
    BY DEF Cp, WithF
  <2> HIDE DEF f
  <2> QED BY <1>1, <2>1, <2>2, WithTyped
<1> QED BY <1>3, <1>4, <1>5, <1>6, <1>7

LEMMA OnATyped ==
  ASSUME NEW s, IsProcessor(s)
  PROVE  IsProcessor(Negate(s)) /\ IsProcessor(Daa(s)) /\ IsProcessor(Cpl(s))
<1>1. s.a \in Int /\ 0 \in Int
  BY Registers, BytesAreWords
<1>2. IsProcessor(Negate(s))
  <2> DEFINE r == (-s.a) % 256
  <2>1. IsByte(r) /\ r \in Int
    BY <1>1, ModByte
  <2>2. Negate(s) = WithAF(s, r, SubFlags(0, s.a, r))
    BY DEF Negate, WithAF
  <2> HIDE DEF r
  <2>3. SubFlags(0, s.a, r) \subseteq Flags
    BY <1>1, <2>1, TableFlagsTyped
  <2> QED BY <2>1, <2>2, <2>3, WithTyped
<1>3. IsProcessor(Daa(s))
  <2> DEFINE a == IF "N" \in s.f THEN DaaAfterSub(s.a, s.f) ELSE DaaAfterAdd(s.a, s.f)
             half == IF "N" \in s.f THEN "H" \in s.f /\ s.a % 16 <= 5 ELSE s.a % 16 > 9
             f == LogicFlags(a % 256) \cup (s.f \cap {"N", "C"}) \cup On(half, "H")
                    \cup On(Bit(a, 256) = 1, "C")
  <2>1. a \in Int
    BY Registers, DaaAfterTyped
  <2>2. IsByte(a % 256)
    BY <2>1, ModByte
  <2>3. f \subseteq Flags
    <3> HIDE DEF a, half
    <3> QED BY Registers, LogicFlagsTyped, OnFlags DEF Flags
  <2>4. Daa(s) = WithAF(s, a % 256, f)
    BY DEF Daa, WithAF
  <2> HIDE DEF a, f
  <2> QED BY <2>2, <2>3, <2>4, WithTyped
<1>4. IsProcessor(Cpl(s))
  <2> DEFINE f == (s.f \cap {"C", "P", "Z", "S"}) \cup {"H", "N"} \cup Undoc(255 - s.a)
  <2>1. IsByte(255 - s.a)
    BY Registers DEF IsByte
  <2>2. f \subseteq Flags
    BY UndocFlags DEF Flags
  <2>3. Cpl(s) = WithAF(s, 255 - s.a, f)
    BY DEF Cpl, WithAF
  <2> HIDE DEF f
  <2> QED BY <2>1, <2>2, <2>3, WithTyped
<1> QED BY <1>2, <1>3, <1>4

LEMMA RotatesTyped ==
  ASSUME NEW v, IsByte(v), NEW f
  PROVE  /\ IsByte(Rl(v, f).v) /\ IsByte(Rr(v, f).v) /\ IsByte(Rlc(v).v) /\ IsByte(Rrc(v).v)
         /\ IsByte(Sla(v).v) /\ IsByte(Sra(v).v) /\ IsByte(Slia(v).v) /\ IsByte(Srl(v).v)
<1>1. Bit(v, 128) \in {0, 1} /\ Carry(f) \in {0, 1}
  BY BitTyped, CarryTyped DEF IsByte
<1>2. \A b \in {0, 1} : /\ IsByte(((2 * v) % 256) + b) /\ IsByte(v \div 2 + 128 * b)
                        /\ IsByte((2 * v) % 256) /\ IsByte(v \div 2)
  BY Z3 DEF IsByte
<1>3. v % 2 \in {0, 1} /\ 1 \in {0, 1}
  BY Z3 DEF IsByte
<1> QED BY <1>1, <1>2, <1>3 DEF Rl, Rr, Rlc, Rrc, Sla, Sra, Slia, Srl

LEMMA ShiftedTyped ==
  ASSUME NEW v, IsByte(v), NEW f, NEW y \in 0..7
  PROVE  IsByte(Shifted(y, v, f).v)
<1>1. y = 0 \/ y = 1 \/ y = 2 \/ y = 3 \/ y = 4 \/ y = 5 \/ y = 6 \/ y = 7
  OBVIOUS
<1> QED BY <1>1, RotatesTyped DEF Shifted

LEMMA RotateATyped ==
  ASSUME NEW s, IsProcessor(s)
  PROVE  /\ IsProcessor(Rla(s)) /\ IsProcessor(Rra(s))
         /\ IsProcessor(Rlca(s)) /\ IsProcessor(Rrca(s))
<1>1. ASSUME NEW r, IsByte(r.v)
      PROVE  IsProcessor(RotateA(s, r))
  <2> DEFINE f == (s.f \cap {"P", "Z", "S"}) \cup On(r.c = 1, "C") \cup Undoc(r.v)
  <2>1. f \subseteq Flags
    BY OnFlags, UndocFlags DEF Flags
  <2>2. RotateA(s, r) = WithAF(s, r.v, f)
    BY DEF RotateA, WithAF
  <2> HIDE DEF f
  <2> QED BY <1>1, <2>1, <2>2, WithTyped
<1> QED BY <1>1, Registers, RotatesTyped DEF Rla, Rra, Rlca, Rrca

LEMMA MaskTyped == \A n \in 0..7 : Mask(n) \in {1, 2, 4, 8, 16, 32, 64, 128}
<1> SUFFICES ASSUME NEW n \in 0..7 PROVE Mask(n) \in {1, 2, 4, 8, 16, 32, 64, 128}
  OBVIOUS
<1>1. n = 0 \/ n = 1 \/ n = 2 \/ n = 3 \/ n = 4 \/ n = 5 \/ n = 6 \/ n = 7
  OBVIOUS
<1> QED BY <1>1 DEF Mask

LEMMA BitsTyped ==
  ASSUME NEW v, IsByte(v), NEW n \in 0..7
  PROVE  IsByte(ResetBit(v, n)) /\ IsByte(SetBit(v, n))
<1>1. ASSUME NEW m \in {1, 2, 4, 8, 16, 32, 64, 128}
      PROVE  IsByte(v - m * Bit(v, m)) /\ IsByte(v + m * (1 - Bit(v, m)))
  BY Z3 DEF IsByte, Bit
<1> QED BY <1>1, MaskTyped DEF ResetBit, SetBit

-----------------------------------------------------------------------------
(* The instructions of one byte                                            *)

LEMMA OperandTyped ==
  ASSUME NEW s, IsProcessor(s), NEW op, IsByte(op)
  PROVE  IsByte(Operand(s, op)) /\ IsProcessor(Past(s, op))
<1>1. Z(op) \in 0..7
  BY OpcodeFields, BytesAreWords
<1>2. IsByte(Fetch(s)) /\ IsByte(Get8(s, Z(op))) /\ IsProcessor(Skip(s, 1))
  BY <1>1, FetchTyped, Get8Typed, SkipTyped
<1> QED BY <1>2 DEF Operand, Past

LEMMA ArithmeticTyped ==
  ASSUME NEW s, IsProcessor(s), NEW op, IsByte(op)
  PROVE  /\ IsProcessor(Add(s, op)) /\ IsProcessor(Adc(s, op)) /\ IsProcessor(Sub(s, op))
         /\ IsProcessor(Sbc(s, op)) /\ IsProcessor(And(s, op)) /\ IsProcessor(Xor(s, op))
         /\ IsProcessor(Or(s, op)) /\ IsProcessor(Compare(s, op))
<1>1. IsByte(Operand(s, op)) /\ IsProcessor(Past(s, op))
  BY OperandTyped
<1> QED BY <1>1, AluTyped DEF Add, Adc, Sub, Sbc, And, Xor, Or, Compare

LEMMA AddHLTyped ==
  ASSUME NEW s, IsProcessor(s), NEW op, IsByte(op)
  PROVE  IsProcessor(AddHL(s, op))
<1> DEFINE v == GetPair(s, P(op))
           r == (HL(s) + v) % Word
<1>1. v \in Int /\ HL(s) \in Int
  BY OpcodeFields, BytesAreWords, GetPairTyped, PairsTyped, WordsAreInts
<1>2. r \in Int
  BY <1>1, ModWord, WordsAreInts
<1>3. AddHL(s, op) = WithF(PutPair(s, 2, r), AddWordFlags(s.f, HL(s), v, r))
  BY DEF AddHL, WithF
<1> HIDE DEF v, r
<1>4. AddWordFlags(s.f, HL(s), v, r) \subseteq Flags
  BY <1>1, <1>2, TableFlagsTyped, Registers
<1>5. IsProcessor(PutPair(s, 2, r)) /\ IsByte(0)
  BY <1>2, PutPairTyped DEF IsByte
<1> QED BY <1>3, <1>4, <1>5, WithTyped

LEMMA CarryCodesTyped ==
  ASSUME NEW s, IsProcessor(s)
  PROVE  IsProcessor(Ccf(s)) /\ IsProcessor(Scf(s))
<1>1. s.f \subseteq Flags /\ IsByte(0) /\ {"C"} \subseteq Flags
  BY Registers DEF IsByte, Flags
<1>2. \A c : On(c, "C") \subseteq Flags /\ On(c, "H") \subseteq Flags
  BY OnFlags DEF Flags
<1> DEFINE f == (s.f \cap {"Z", "P", "S"}) \cup On("C" \notin s.f, "C")
                  \cup On("C" \in s.f, "H") \cup Undoc(s.a)
           g == (s.f \cap {"Z", "P", "S"}) \cup {"C"} \cup Undoc(s.a)
<1>3. f \subseteq Flags /\ g \subseteq Flags
  BY <1>1, <1>2, UndocFlags
<1>4. Ccf(s) = WithF(s, f) /\ Scf(s) = WithF(s, g)
  BY DEF Ccf, Scf, WithF
<1> HIDE DEF f, g
<1> QED BY <1>1, <1>3, <1>4, WithTyped

LEMMA ByteCountTyped ==
  ASSUME NEW s, IsProcessor(s), NEW op, IsByte(op)
  PROVE  IsProcessor(Inc(s, op)) /\ IsProcessor(Dec(s, op))
<1>1. Y(op) \in 0..7
  BY OpcodeFields, BytesAreWords
<1>2. Get8(s, Y(op)) \in Int
  BY <1>1, Get8Typed, BytesAreWords
<1>3. ASSUME NEW v, IsByte(v)
      PROVE  /\ IsProcessor([Put8(s, Y(op), v) EXCEPT !.f = IncFlags(@, v)])
             /\ IsProcessor([Put8(s, Y(op), v) EXCEPT !.f = DecFlags(@, v)])
  <2> DEFINE t == Put8(s, Y(op), v)
  <2>1. IsProcessor(t)
    BY <1>1, <1>3, Put8Typed
  <2> HIDE DEF t
  <2>2. IncFlags(t.f, v) \subseteq Flags /\ DecFlags(t.f, v) \subseteq Flags
    BY <2>1, Registers, CountFlagsTyped
  <2>3. IsProcessor(WithF(t, IncFlags(t.f, v))) /\ IsProcessor(WithF(t, DecFlags(t.f, v)))
    BY <1>3, <2>1, <2>2, WithTyped
  <2> QED BY <2>3 DEF WithF, t
<1>4. IsByte((Get8(s, Y(op)) - 1) % 256) /\ IsByte((Get8(s, Y(op)) + 1) % 256)
  BY <1>2, ModByte
<1> QED BY <1>3, <1>4 DEF Inc, Dec

LEMMA PairCountTyped ==
  ASSUME NEW s, IsProcessor(s), NEW op, IsByte(op)
  PROVE  IsProcessor(IncPair(s, op)) /\ IsProcessor(DecPair(s, op))
<1>1. P(op) \in 0..3
  BY OpcodeFields, BytesAreWords
<1> DEFINE v == GetPair(s, P(op))
<1>2. v \in Int
  BY <1>1, GetPairTyped, WordsAreInts
<1>3. IncPair(s, op) = PutPair(s, P(op), v + 1) /\ DecPair(s, op) = PutPair(s, P(op), v - 1)
  BY DEF IncPair, DecPair
<1> HIDE DEF v
<1>4. v + 1 \in Int /\ v - 1 \in Int
  BY <1>2
<1> QED BY <1>1, <1>3, <1>4, PutPairTyped

LEMMA JumpsTyped ==
  ASSUME NEW s, IsProcessor(s), NEW op, IsByte(op)
  PROVE  /\ IsProcessor(Jr(s)) /\ IsProcessor(JrIf(s, op)) /\ IsProcessor(Djnz(s))
         /\ IsProcessor(Jp(s)) /\ IsProcessor(JpIf(s, op))
<1>1. \A t : IsProcessor(t) => IsProcessor(Jr(t)) /\ IsProcessor(Skip(t, 1))
  <2> SUFFICES ASSUME NEW t, IsProcessor(t) PROVE IsProcessor(Jr(t)) /\ IsProcessor(Skip(t, 1))
    OBVIOUS
  <2>1. Signed(Fetch(t)) + 1 \in Int
    BY FetchTyped, SignedTyped
  <2> QED BY <2>1, SkipTyped DEF Jr
<1>2. IsProcessor(Jp(s)) /\ IsProcessor(Skip(s, 2))
  BY FetchTyped, PutPc, SkipTyped DEF Jp, JumpTo
<1>3. IsProcessor(Djnz(s))
  <2> DEFINE v == (s.b - 1) % 256
             t == [s EXCEPT !.b = v]
  <2>1. IsByte(v)
    BY Registers, BytesAreWords, ModByte
  <2>2. Djnz(s) = IF t.b # 0 THEN Jr(t) ELSE Skip(t, 1)
    BY DEF Djnz
  <2>3. IsProcessor(t)
    <3> HIDE DEF v
    <3> QED BY <2>1 DEF IsProcessor, ByteRegs, WordRegs, FlagRegs
  <2> HIDE DEF t
  <2> QED BY <1>1, <2>2, <2>3
<1> QED BY <1>1, <1>2, <1>3 DEF JrIf, JpIf

LEMMA JumpToTyped ==
  ASSUME NEW s, IsProcessor(s), NEW addr, IsWord(addr)
  PROVE  IsProcessor(JumpTo(s, addr))
BY PutPc DEF JumpTo

LEMMA CallsTyped ==
  ASSUME NEW s, IsProcessor(s), NEW op, IsByte(op)
  PROVE  /\ IsProcessor(Call(s)) /\ IsProcessor(CallIf(s, op)) /\ IsProcessor(Ret(s))
         /\ IsProcessor(RetIf(s, op)) /\ IsProcessor(Rst(s, op))
<1>1. s.pc \in Int /\ s.pc + 2 \in Int
  BY Registers, WordsAreInts
<1>2. IsProcessor(Push(s, s.pc)) /\ IsProcessor(Push(s, s.pc + 2)) /\ IsProcessor(Popped(s))
  BY <1>1, PushTyped, PoppedTyped
<1>3. IsWord(FetchWord(s)) /\ IsWord(PeekWord(s, s.sp)) /\ IsWord(8 * Y(op))
  <2>1. IsWord(8 * Y(op))
    BY OpcodeFields, BytesAreWords DEF IsWord, Word
  <2> QED BY <2>1, FetchTyped, PeekWordTyped
<1>4. IsProcessor(Call(s)) /\ IsProcessor(Ret(s)) /\ IsProcessor(Rst(s, op))
  BY <1>2, <1>3, JumpToTyped DEF Call, Ret, Rst
<1>5. IsProcessor(Skip(s, 2))
  BY SkipTyped
<1> QED BY <1>4, <1>5 DEF CallIf, RetIf

LEMMA SwitchesTyped ==
  ASSUME NEW s, IsProcessor(s)
  PROVE  IsProcessor(Di(s)) /\ IsProcessor(Ei(s))
BY DEF Di, Ei, IsProcessor, ByteRegs, WordRegs, FlagRegs

LEMMA ExchangesTyped ==
  ASSUME NEW s, IsProcessor(s)
  PROVE  /\ IsProcessor(ExAf(s)) /\ IsProcessor(ExDeHl(s))
         /\ IsProcessor(ExSpHl(s)) /\ IsProcessor(Exx(s))
<1>1. IsProcessor(ExAf(s))
  BY DEF ExAf, IsProcessor, ByteRegs, WordRegs, FlagRegs
<1>2. IsProcessor(ExDeHl(s))
  BY DEF ExDeHl, IsProcessor, ByteRegs, WordRegs, FlagRegs
<1>3. IsProcessor(Exx(s))
  BY DEF Exx, IsProcessor, ByteRegs, WordRegs, FlagRegs
<1>4. IsProcessor(ExSpHl(s))
  <2>1. IsWord(s.sp) /\ HL(s) \in Int /\ PeekWord(s, s.sp) \in Int
    BY Registers, PairsTyped, PeekWordTyped, WordsAreInts
  <2>2. IsProcessor(PokeWord(s, s.sp, HL(s)))
    BY <2>1, PokeWordTyped
  <2> QED BY <2>1, <2>2, PutPairTyped DEF ExSpHl
<1> QED BY <1>1, <1>2, <1>3, <1>4

LEMMA PortsTyped ==
  ASSUME NEW s, IsProcessor(s), NEW in, IsByte(in)
  PROVE  IsProcessor(InA(s, in)) /\ IsProcessor(OutA(s))
<1>1. IsProcessor(Skip(s, 1)) /\ {} \subseteq Flags
  BY SkipTyped
<1>2. InA(s, in) = WithA(Skip(s, 1), in)
  BY DEF InA, WithA
<1> QED BY <1>1, <1>2, WithTyped DEF OutA

LEMMA LoadsTyped ==
  ASSUME NEW s, IsProcessor(s), NEW op, IsByte(op)
  PROVE  /\ IsProcessor(LoadByte(s, op)) /\ IsProcessor(StoreAtHL(s, op))
         /\ IsProcessor(LoadFromHL(s, op)) /\ IsProcessor(LoadByteNext(s, op))
         /\ IsProcessor(LoadPair(s, op)) /\ IsProcessor(StoreAAtPair(s, op))
         /\ IsProcessor(LoadAFromPair(s, op)) /\ IsProcessor(LoadAFrom(s))
         /\ IsProcessor(StoreAAt(s)) /\ IsProcessor(StoreHLAt(s))
         /\ IsProcessor(LoadHLFrom(s))
<1>1. Y(op) \in 0..7 /\ Z(op) \in 0..7 /\ P(op) \in 0..3 /\ 6 \in 0..7 /\ 2 \in 0..3
  BY OpcodeFields, BytesAreWords
<1>2. IsProcessor(Skip(s, 1)) /\ IsProcessor(Skip(s, 2)) /\ {} \subseteq Flags
  BY SkipTyped
<1>3. IsByte(Get8(s, Z(op))) /\ IsByte(Fetch(s)) /\ IsByte(s.a) /\ IsWord(FetchWord(s))
      /\ FetchWord(s) \in Int
  BY <1>1, Get8Typed, FetchTyped, Registers, WordsAreInts
<1>4. IsWord(GetPair(s, P(op))) /\ HL(s) \in Int
  BY <1>1, GetPairTyped, PairsTyped, WordsAreInts
<1>5. \A addr : IsByte(Peek(s, addr)) /\ PeekWord(s, addr) \in Int
  BY PeekTyped, PeekWordTyped, WordsAreInts
<1>6. IsProcessor(LoadByte(s, op)) /\ IsProcessor(StoreAtHL(s, op))
      /\ IsProcessor(LoadFromHL(s, op)) /\ IsProcessor(LoadByteNext(s, op))
  BY <1>1, <1>2, <1>3, <1>5, Put8Typed DEF LoadByte, StoreAtHL, LoadFromHL, LoadByteNext
<1>7. IsProcessor(LoadPair(s, op)) /\ IsProcessor(LoadHLFrom(s))
  BY <1>1, <1>2, <1>3, <1>5, PutPairTyped DEF LoadPair, LoadHLFrom
<1>8. IsProcessor(StoreAAtPair(s, op)) /\ IsProcessor(StoreAAt(s))
  BY <1>2, <1>3, <1>4, PokeTyped DEF StoreAAtPair, StoreAAt
<1>9. IsProcessor(StoreHLAt(s))
  BY <1>2, <1>3, <1>4, PokeWordTyped DEF StoreHLAt
<1>10. IsProcessor(LoadAFromPair(s, op)) /\ IsProcessor(LoadAFrom(s))
  <2>1. LoadAFromPair(s, op) = WithA(s, Peek(s, GetPair(s, P(op))))
        /\ LoadAFrom(s) = WithA(Skip(s, 2), Peek(s, FetchWord(s)))
    BY DEF LoadAFromPair, LoadAFrom, WithA
  <2> QED BY <1>2, <1>5, <2>1, WithTyped
<1> QED BY <1>6, <1>7, <1>8, <1>9, <1>10

LEMMA ByteOfFlags == \A f : Byte(f) \in Int
BY DEF Byte

LEMMA StackTyped ==
  ASSUME NEW s, IsProcessor(s), NEW op, IsByte(op)
  PROVE  IsProcessor(PopPair(s, op)) /\ IsProcessor(PushPair(s, op))
<1>1. P(op) \in 0..3
  BY OpcodeFields, BytesAreWords
<1>2. IsWord(PeekWord(s, s.sp)) /\ IsProcessor(Popped(s))
  BY PeekWordTyped, PoppedTyped
<1>3. IsProcessor(PushPair(s, op))
  <2>1. GetPair(s, P(op)) \in Int /\ 256 * s.a + Byte(s.f) \in Int
    BY <1>1, GetPairTyped, WordsAreInts, BytesAreWords, Registers, ByteOfFlags
  <2> QED BY <2>1, PushTyped DEF PushPair
<1>4. IsProcessor(PopPair(s, op))
  <2> DEFINE w == PeekWord(s, s.sp)
  <2>1. IsByte(High(w)) /\ FlagsOf(Low(w)) \subseteq Flags /\ w \in Int
    BY <1>2, WordHalves, FlagsOfTyped, WordsAreInts
  <2>2. PopPair(s, op) = IF P(op) = 3 THEN WithAF(Popped(s), High(w), FlagsOf(Low(w)))
                                     ELSE PutPair(Popped(s), P(op), w)
    BY DEF PopPair, WithAF
  <2> HIDE DEF w
  <2> QED BY <1>1, <1>2, <2>1, <2>2, WithTyped, PutPairTyped
<1> QED BY <1>3, <1>4

LEMMA CbTyped ==
  ASSUME NEW s, IsProcessor(s)
  PROVE  IsProcessor(CbInstruction(s))
<1> DEFINE op == Fetch(s)
           t == Skip(s, 1)
<1>1. IsByte(op) /\ IsProcessor(t)
  BY FetchTyped, SkipTyped
<1>2. CbInstruction(s) = CASE op < 64 -> ShiftCode(t, op)
                           [] op \in 64..127 -> BitCode(t, op)
                           [] op \in 128..191 -> ResCode(t, op)
                           [] op > 191 -> SetCode(t, op)
  BY DEF CbInstruction
<1>3. op < 64 \/ op \in 64..127 \/ op \in 128..191 \/ op > 191
  <2> HIDE DEF op
  <2> QED BY <1>1 DEF IsByte
<1> HIDE DEF op, t
<1>4. Y(op) \in 0..7 /\ Z(op) \in 0..7
  BY <1>1, OpcodeFields, BytesAreWords
<1>5. IsByte(Get8(t, Z(op))) /\ t.f \subseteq Flags
  BY <1>1, <1>4, Get8Typed, Registers
<1>6. IsProcessor(ResCode(t, op)) /\ IsProcessor(SetCode(t, op))
  BY <1>1, <1>4, <1>5, BitsTyped, Put8Typed DEF ResCode, SetCode
<1>7. IsProcessor(BitCode(t, op))
  <2> DEFINE f == TestBit(t.f, Get8(t, Z(op)), Y(op), Z(op) = 6)
  <2>1. f \subseteq Flags
    BY <1>5, TestBitTyped
  <2>2. BitCode(t, op) = WithF(t, f)
    BY DEF BitCode, WithF
  <2> HIDE DEF f
  <2> QED BY <1>1, <2>1, <2>2, WithTyped
<1>8. IsProcessor(ShiftCode(t, op))
  <2> DEFINE r == Shifted(Y(op), Get8(t, Z(op)), t.f)
             u == Put8(t, Z(op), r.v)
  <2>1. IsByte(r.v)
    BY <1>4, <1>5, ShiftedTyped
  <2>2. ShiftCode(t, op) = WithF(u, ShiftFlags(r))
    BY DEF ShiftCode, WithF
  <2>3. IsProcessor(u)
    <3> HIDE DEF r
    <3> QED BY <1>1, <1>4, <2>1, Put8Typed
  <2> HIDE DEF u, r
  <2> QED BY <2>1, <2>2, <2>3, ShiftFlagsTyped, WithTyped
<1> QED BY <1>2, <1>3, <1>6, <1>7, <1>8

-----------------------------------------------------------------------------
(* Behind DD and FD                                                        *)

LEMMA IndexRegister ==
  ASSUME NEW s, IsProcessor(s), NEW x \in {"ix", "iy"}
  PROVE  /\ IsWord(s[x]) /\ x \in WordRegs
         /\ \A v : IsWord(v) => IsProcessor([s EXCEPT ![x] = v])
<1>1. x \in WordRegs
  BY DEF WordRegs
<1>2. IsWord(s[x])
  BY <1>1 DEF IsProcessor
<1> QED BY <1>1, <1>2, PutWord

LEMMA IndexedTyped ==
  ASSUME NEW s, IsProcessor(s), NEW x \in {"ix", "iy"}
  PROVE  IsWord(Indexed(s, x))
<1>1. s[x] + Signed(Fetch(s)) \in Int
  BY IndexRegister, WordsAreInts, FetchTyped, SignedTyped
<1> QED BY <1>1, ModWord DEF Indexed

LEMMA GetXTyped ==
  ASSUME NEW s, IsProcessor(s), NEW x \in {"ix", "iy"}, NEW n \in 0..7
  PROVE  IsByte(GetX(s, x, n))
<1>1. IsByte(High(s[x])) /\ IsByte(Low(s[x])) /\ IsByte(Peek(s, Indexed(s, x)))
  BY IndexRegister, WordHalves, PeekTyped
<1>2. n \notin {4, 5, 6} => IsByte(s[R8[n + 1]])
  BY RegisterNames DEF IsProcessor
<1> QED BY <1>1, <1>2 DEF GetX

LEMMA PutXTyped ==
  ASSUME NEW s, IsProcessor(s), NEW x \in {"ix", "iy"}, NEW n \in 0..7, NEW v, IsByte(v)
  PROVE  IsProcessor(PutX(s, x, n, v))
<1>1. IsWord(256 * v + Low(s[x])) /\ IsWord(256 * High(s[x]) + v)
  <2>1. IsByte(High(s[x])) /\ IsByte(Low(s[x]))
    BY IndexRegister, WordHalves
  <2> QED BY <2>1, WordOfBytes
<1>2. IsProcessor(Skip(Poke(s, Indexed(s, x), v), 1))
  <2>1. IsProcessor(Poke(s, Indexed(s, x), v))
    BY IndexedTyped, PokeTyped
  <2> QED BY <2>1, SkipTyped
<1>3. n \notin {4, 5, 6} => IsProcessor([s EXCEPT ![R8[n + 1]] = v])
  <2> DEFINE y == R8[n + 1]
  <2>1. n \notin {4, 5, 6} => y \in ByteRegs
    BY RegisterNames
  <2> HIDE DEF y
  <2>2. n \notin {4, 5, 6} => IsProcessor([s EXCEPT ![y] = v])
    BY <2>1, PutByte
  <2> QED BY <2>2 DEF y
<1>4. /\ IsProcessor([s EXCEPT ![x] = 256 * v + Low(s[x])])
      /\ IsProcessor([s EXCEPT ![x] = 256 * High(s[x]) + v])
  <2> DEFINE a == 256 * v + Low(s[x])  b == 256 * High(s[x]) + v
  <2>1. IsWord(a) /\ IsWord(b)
    BY <1>1
  <2> HIDE DEF a, b
  <2>2. IsProcessor([s EXCEPT ![x] = a])
    BY <2>1, IndexRegister
  <2>3. IsProcessor([s EXCEPT ![x] = b])
    BY <2>1, IndexRegister
  <2> QED BY <2>2, <2>3 DEF a, b
<1>5. PutX(s, x, n, v) = CASE n = 4 -> [s EXCEPT ![x] = 256 * v + Low(s[x])]
                           [] n = 5 -> [s EXCEPT ![x] = 256 * High(s[x]) + v]
                           [] n = 6 -> Skip(Poke(s, Indexed(s, x), v), 1)
                           [] OTHER -> [s EXCEPT ![R8[n + 1]] = v]
  BY DEF PutX
<1> QED BY <1>2, <1>3, <1>4, <1>5

LEMMA ArithmeticXTyped ==
  ASSUME NEW s, IsProcessor(s), NEW x \in {"ix", "iy"}, NEW op, IsByte(op)
  PROVE  IsProcessor(ArithmeticX(s, x, op))
<1> DEFINE t == PastX(s, Z(op))
           v == GetX(s, x, Z(op))
<1>1. Y(op) \in 0..7 /\ Z(op) \in 0..7
  BY OpcodeFields, BytesAreWords
<1>2. IsProcessor(t) /\ IsByte(v)
  BY <1>1, SkipTyped, GetXTyped DEF PastX
<1>3. Y(op) = 0 \/ Y(op) = 1 \/ Y(op) = 2 \/ Y(op) = 3 \/ Y(op) = 4 \/ Y(op) = 5
      \/ Y(op) = 6 \/ Y(op) = 7
  BY <1>1
<1>4. ArithmeticX(s, x, op) =
        CASE Y(op) = 0 -> AddByte(t, v) [] Y(op) = 1 -> AdcByte(t, v)
          [] Y(op) = 2 -> SubByte(t, v) [] Y(op) = 3 -> SbcByte(t, v)
          [] Y(op) = 4 -> AndByte(t, v) [] Y(op) = 5 -> XorByte(t, v)
          [] Y(op) = 6 -> OrByte(t, v)  [] Y(op) = 7 -> Cp(t, v)
  BY DEF ArithmeticX
<1> HIDE DEF t, v
<1> QED BY <1>2, <1>3, <1>4, AluTyped

LEMMA AddXTyped ==
  ASSUME NEW s, IsProcessor(s), NEW x \in {"ix", "iy"}, NEW op, IsByte(op)
  PROVE  IsProcessor(AddX(s, x, op))
<1> DEFINE v == IF P(op) = 2 THEN s[x] ELSE GetPair(s, P(op))
           r == (s[x] + v) % Word
           f == AddWordFlags(s.f, s[x], v, r)
           t == [s EXCEPT ![x] = r]
<1>1. v \in Int /\ s[x] \in Int
  BY IndexRegister, OpcodeFields, BytesAreWords, GetPairTyped, WordsAreInts
<1>2. IsWord(r) /\ r \in Int
  <2>1. s[x] + v \in Int
    BY <1>1
  <2> QED BY <2>1, ModWord, WordsAreInts
<1>3. f \subseteq Flags
  BY <1>1, <1>2, TableFlagsTyped, Registers
<1>4. IsProcessor(t)
  BY <1>2, IndexRegister
<1>5. AddX(s, x, op) = WithF(t, f)
  <2>1. AddX(s, x, op) = [s EXCEPT ![x] = r, !.f = f]
    <3>1. [s EXCEPT ![x] = r].f = s.f
      BY DEF IsProcessor, FlagRegs
    <3> QED BY <3>1 DEF AddX
  <2> QED BY <2>1 DEF WithF
<1> HIDE DEF t, f
<1> QED BY <1>3, <1>4, <1>5, WithTyped

LEMMA CountXTyped ==
  ASSUME NEW s, IsProcessor(s), NEW x \in {"ix", "iy"}, NEW op, IsByte(op)
  PROVE  IsProcessor(IncX(s, x, op)) /\ IsProcessor(DecX(s, x, op))
<1>1. Y(op) \in 0..7
  BY OpcodeFields, BytesAreWords
<1>2. ASSUME NEW v, IsByte(v)
      PROVE  /\ IsProcessor([PutX(s, x, Y(op), v) EXCEPT !.f = IncFlags(@, v)])
             /\ IsProcessor([PutX(s, x, Y(op), v) EXCEPT !.f = DecFlags(@, v)])
  <2> DEFINE t == PutX(s, x, Y(op), v)
  <2>1. IsProcessor(t)
    BY <1>1, <1>2, PutXTyped
  <2> HIDE DEF t
  <2>2. IncFlags(t.f, v) \subseteq Flags /\ DecFlags(t.f, v) \subseteq Flags
    BY <2>1, Registers, CountFlagsTyped
  <2>3. IsProcessor(WithF(t, IncFlags(t.f, v))) /\ IsProcessor(WithF(t, DecFlags(t.f, v)))
    BY <2>1, <2>2, WithTyped
  <2> QED BY <2>3 DEF WithF, t
<1> DEFINE v == GetX(s, x, Y(op))
<1>3. v \in Int
  BY <1>1, GetXTyped, BytesAreWords
<1>4. IsByte((v - 1) % 256) /\ IsByte((v + 1) % 256)
  <2> HIDE DEF v
  <2> QED BY <1>3, ModByte
<1> QED BY <1>2, <1>4 DEF IncX, DecX

LEMMA LoadXTyped ==
  ASSUME NEW s, IsProcessor(s), NEW x \in {"ix", "iy"}, NEW op, IsByte(op)
  PROVE  IsProcessor(LoadX(s, x, op)) /\ IsProcessor(LoadXNext(s, x, op))
<1>1. Y(op) \in 0..7 /\ Z(op) \in 0..7 /\ 6 \in 0..7
  BY OpcodeFields, BytesAreWords
<1>2. IsProcessor(Skip(s, 1)) /\ IsProcessor(Skip(s, 2)) /\ IsWord(Indexed(s, x))
  BY SkipTyped, IndexedTyped
<1>3. IsByte(GetX(s, x, 6)) /\ IsByte(Get8(s, Z(op))) /\ IsByte(GetX(s, x, Z(op)))
  BY <1>1, GetXTyped, Get8Typed
<1>4. IsProcessor(LoadX(s, x, op))
  BY <1>1, <1>2, <1>3, Put8Typed, PutXTyped DEF LoadX
<1>5. IsProcessor(LoadXNext(s, x, op))
  BY <1>1, <1>2, FetchTyped, PeekTyped, PokeTyped, PutXTyped DEF LoadXNext
<1> QED BY <1>4, <1>5
WithX(s, x, v) == [s EXCEPT ![x] = v]

LEMMA WordXTyped ==
  ASSUME NEW s, IsProcessor(s), NEW x \in {"ix", "iy"},
         NEW op \in {33, 34, 35, 42, 43, 225, 227, 229, 233, 249}
  PROVE  IsProcessor(WordX(s, x, op))
<1>1. \A t : IsProcessor(t) => \A v : IsWord(v) => IsProcessor(WithX(t, x, v))
  BY IndexRegister DEF WithX
<1>2. /\ IsWord(s[x]) /\ s[x] \in Int /\ IsWord(FetchWord(s)) /\ IsWord(s.sp)
      /\ \A addr : IsWord(PeekWord(s, addr))
  BY IndexRegister, WordsAreInts, FetchTyped, Registers, PeekWordTyped
<1>3. IsProcessor(Skip(s, 2)) /\ IsProcessor(Popped(s)) /\ IsProcessor(Push(s, s[x]))
  BY <1>2, SkipTyped, PoppedTyped, PushTyped
<1>4. IsProcessor(PokeWord(Skip(s, 2), FetchWord(s), s[x]))
      /\ IsProcessor(PokeWord(s, s.sp, s[x]))
  BY <1>2, <1>3, PokeWordTyped
<1>5. IsWord((s[x] + 1) % Word) /\ IsWord((s[x] - 1) % Word)
  <2>1. s[x] + 1 \in Int /\ s[x] - 1 \in Int
    BY <1>2
  <2> QED BY <2>1, ModWord
<1>6. IsProcessor(JumpTo(s, s[x])) /\ IsProcessor([s EXCEPT !.sp = s[x]])
  BY <1>2, JumpToTyped, PutSp
<1>7. WordX(s, x, op) =
        CASE op = 33 -> WithX(Skip(s, 2), x, FetchWord(s))
          [] op = 34 -> PokeWord(Skip(s, 2), FetchWord(s), s[x])
          [] op = 42 -> WithX(Skip(s, 2), x, PeekWord(s, FetchWord(s)))
          [] op = 35 -> WithX(s, x, (s[x] + 1) % Word)
          [] op = 43 -> WithX(s, x, (s[x] - 1) % Word)
          [] op = 225 -> WithX(Popped(s), x, PeekWord(s, s.sp))
          [] op = 227 -> WithX(PokeWord(s, s.sp, s[x]), x, PeekWord(s, s.sp))
          [] op = 229 -> Push(s, s[x])
          [] op = 233 -> JumpTo(s, s[x])
          [] op = 249 -> [s EXCEPT !.sp = s[x]]
  BY DEF WordX, WithX
<1> QED BY <1>1, <1>2, <1>3, <1>4, <1>5, <1>6, <1>7

LEMMA CbXTyped ==
  ASSUME NEW s, IsProcessor(s), NEW x \in {"ix", "iy"}
  PROVE  IsProcessor(CbX(s, x))
<1> DEFINE addr == Indexed(s, x)
           op == Peek(s, (s.pc + 1) % Word)
           v == Peek(s, addr)
           t == Skip(s, 2)
           r == Shifted(Y(op), v, s.f)
           Into(w) == LET u == Poke(t, addr, w) IN
                      IF Z(op) = 6 THEN u ELSE [u EXCEPT ![R8[Z(op) + 1]] = w]
           f == TestBit(t.f, v, Y(op), Z(op) = 6)
<1>1. IsByte(op) /\ IsByte(v) /\ IsProcessor(t) /\ IsWord(addr)
  BY PeekTyped, SkipTyped, IndexedTyped
<1>2. CbX(s, x) = CASE op < 64 -> WithF(Into(r.v), ShiftFlags(r))
                    [] op \in 64..127 -> WithF(t, f)
                    [] op \in 128..191 -> Into(ResetBit(v, Y(op)))
                    [] op > 191 -> Into(SetBit(v, Y(op)))
  BY DEF CbX, WithF
<1>3. Y(op) \in 0..7 /\ Z(op) \in 0..7
  BY <1>1, OpcodeFields, BytesAreWords
<1>4. op < 64 \/ op \in 64..127 \/ op \in 128..191 \/ op > 191
  <2> HIDE DEF op
  <2> QED BY <1>1 DEF IsByte
<1>5. f \subseteq Flags
  <2> HIDE DEF t, v, op
  <2> QED BY <1>1, Registers, TestBitTyped
<1>6. IsByte(r.v) /\ IsByte(ResetBit(v, Y(op))) /\ IsByte(SetBit(v, Y(op)))
  <2> HIDE DEF v, op
  <2> QED BY <1>1, <1>3, ShiftedTyped, BitsTyped
<1>7. ASSUME NEW w, IsByte(w) PROVE IsProcessor(Into(w))
  <2> DEFINE u == Poke(t, addr, w)
             y == R8[Z(op) + 1]
  <2>1. IsProcessor(u)
    <3> HIDE DEF t, addr
    <3> QED BY <1>1, <1>7, PokeTyped
  <2>2. Z(op) # 6 => y \in ByteRegs
    BY <1>3, RegisterNames
  <2> HIDE DEF u, y
  <2>3. Z(op) # 6 => IsProcessor([u EXCEPT ![y] = w])
    BY <1>7, <2>1, <2>2, PutByte
  <2> QED BY <2>1, <2>3 DEF u, y
<1> HIDE DEF Into, r, v, f, t, op, addr
<1> QED BY <1>1, <1>2, <1>4, <1>5, <1>6, <1>7, ShiftFlagsTyped, WithTyped

LEMMA IndexedInstructionTyped ==
  ASSUME NEW s, IsProcessor(s), NEW x \in {"ix", "iy"}
  PROVE  IsProcessor(IndexedInstruction(s, x))
<1> DEFINE op == Fetch(s)
           t == Skip(s, 1)
<1>1. IsByte(op) /\ IsProcessor(t)
  BY FetchTyped, SkipTyped
<1>2. IndexedInstruction(s, x) =
        CASE op \in IndexedArithmetic -> ArithmeticX(t, x, op)
          [] op \in {9, 25, 41, 57} -> AddX(t, x, op)
          [] op \in {36, 44, 52} -> IncX(t, x, op)
          [] op \in {37, 45, 53} -> DecX(t, x, op)
          [] op \in IndexedLoads -> LoadX(t, x, op)
          [] op \in {38, 46, 54} -> LoadXNext(t, x, op)
          [] op \in {33, 34, 35, 42, 43, 225, 227, 229, 233, 249} -> WordX(t, x, op)
          [] op = 203 -> CbX(t, x)
          [] OTHER -> IgnorePrefix(t)
  BY DEF IndexedInstruction
<1> HIDE DEF op, t
<1>3. IsProcessor(IgnorePrefix(t))
  <2>1. IsProcessor(Skip(t, -1)) /\ -1 \in Int
    BY <1>1, SkipTyped
  <2> QED BY <2>1, RefreshedTyped DEF IgnorePrefix
<1>4. /\ IsProcessor(ArithmeticX(t, x, op)) /\ IsProcessor(AddX(t, x, op))
      /\ IsProcessor(IncX(t, x, op)) /\ IsProcessor(DecX(t, x, op))
      /\ IsProcessor(LoadX(t, x, op)) /\ IsProcessor(LoadXNext(t, x, op))
      /\ IsProcessor(CbX(t, x))
  BY <1>1, ArithmeticXTyped, AddXTyped, CountXTyped, LoadXTyped, CbXTyped
<1>5. op \in {33, 34, 35, 42, 43, 225, 227, 229, 233, 249} => IsProcessor(WordX(t, x, op))
  BY <1>1, WordXTyped
<1> QED BY <1>2, <1>3, <1>4, <1>5

-----------------------------------------------------------------------------
(* Behind ED                                                               *)

LEMMA PairArithmeticTyped ==
  ASSUME NEW s, IsProcessor(s), NEW op, IsByte(op)
  PROVE  IsProcessor(AdcPair(s, op)) /\ IsProcessor(SbcPair(s, op))
<1> DEFINE v == GetPair(s, P(op))
           c == Carry(s.f)
           r == (HL(s) + v + c) % Word
           q == (HL(s) - (v + c)) % Word
<1>1. v \in Int /\ HL(s) \in Int /\ c \in Int
  BY OpcodeFields, BytesAreWords, GetPairTyped, PairsTyped, WordsAreInts, CarryTyped
<1>2. r \in Int /\ q \in Int
  <2>1. HL(s) + v + c \in Int /\ HL(s) - (v + c) \in Int
    BY <1>1
  <2> QED BY <2>1, ModWord, WordsAreInts
<1>3. /\ AdcPair(s, op) = WithF(PutPair(s, 2, r), AdcWordFlags(HL(s), v, r))
      /\ SbcPair(s, op) = WithF(PutPair(s, 2, q), SbcWordFlags(HL(s), v, q))
  BY DEF AdcPair, SbcPair, WithF
<1> HIDE DEF v, c, r, q
<1>4. AdcWordFlags(HL(s), v, r) \subseteq Flags /\ SbcWordFlags(HL(s), v, q) \subseteq Flags
  BY <1>1, <1>2, TableFlagsTyped
<1>5. IsProcessor(PutPair(s, 2, r)) /\ IsProcessor(PutPair(s, 2, q))
  BY <1>2, PutPairTyped
<1> QED BY <1>3, <1>4, <1>5, WithTyped

LEMMA PairLoadsTyped ==
  ASSUME NEW s, IsProcessor(s), NEW op, IsByte(op)
  PROVE  IsProcessor(LoadPairFrom(s, op)) /\ IsProcessor(StorePairAt(s, op))
<1>1. P(op) \in 0..3
  BY OpcodeFields, BytesAreWords
<1>2. IsProcessor(Skip(s, 2)) /\ IsWord(FetchWord(s))
  BY SkipTyped, FetchTyped
<1>3. PeekWord(s, FetchWord(s)) \in Int /\ GetPair(s, P(op)) \in Int
  BY <1>1, PeekWordTyped, GetPairTyped, WordsAreInts
<1> QED BY <1>1, <1>2, <1>3, PutPairTyped, PokeWordTyped DEF LoadPairFrom, StorePairAt

LEMMA InCTyped ==
  ASSUME NEW s, IsProcessor(s), NEW op, IsByte(op), NEW in, IsByte(in)
  PROVE  IsProcessor(InC(s, op, in))
<1> DEFINE f == InFlags(s.f, in)
           t == WithF(s, f)
<1>1. f \subseteq Flags
  BY Registers, SignZeroFlags, OnFlags DEF InFlags, Flags
<1>2. InC(s, op, in) = IF Y(op) = 6 THEN t ELSE Put8(t, Y(op), in)
  BY DEF InC, WithF
<1>3. IsProcessor(t)
  <2> HIDE DEF f
  <2> QED BY <1>1, WithTyped
<1>4. Y(op) \in 0..7
  BY OpcodeFields, BytesAreWords
<1> HIDE DEF t
<1> QED BY <1>2, <1>3, <1>4, Put8Typed

LEMMA SpecialLoadsTyped ==
  ASSUME NEW s, IsProcessor(s)
  PROVE  /\ IsProcessor(LoadAI(s)) /\ IsProcessor(LoadAR(s)) /\ IsProcessor(LoadRA(s))
         /\ IsProcessor([s EXCEPT !.i = s.a])
         /\ \A m \in {0, 1, 2} : IsProcessor([s EXCEPT !.im = m])
<1>1. ASSUME NEW t, IsProcessor(t)
      PROVE  IsProcessor(LoadAFlags(t))
  <2> DEFINE f == (t.f \cap {"C"}) \cup SignZero(t.a) \cup On(t.iff2, "P") \cup Undoc(t.a)
  <2>1. f \subseteq Flags
    BY <1>1, SignZeroFlags, OnFlags, UndocFlags DEF Flags
  <2>2. LoadAFlags(t) = WithF(t, f)
    BY DEF LoadAFlags, WithF
  <2> HIDE DEF f
  <2> QED BY <1>1, <2>1, <2>2, WithTyped
<1>2. IsByte(s.i) /\ IsByte(s.a)
  BY Registers
<1>3. IsByte((s.r % 128) + s.r7)
  <2>1. IsByte(s.r) /\ s.r7 \in {0, 128}
    BY Registers DEF IsProcessor
  <2>2. \A r, h : IsByte(r) /\ h \in {0, 128} => IsByte((r % 128) + h)
    BY Z3 DEF IsByte
  <2> QED BY <2>1, <2>2
<1>4. IsProcessor(LoadAI(s)) /\ IsProcessor(LoadAR(s))
  <2>1. IsProcessor(WithA(s, s.i)) /\ IsProcessor(WithA(s, (s.r % 128) + s.r7))
    BY <1>2, <1>3, WithTyped
  <2> QED BY <1>1, <2>1 DEF LoadAI, LoadAR, WithA
<1>5. IsProcessor(LoadRA(s))
  <2> DEFINE r == s.a % Refresh
             h == 128 * Bit(s.a, 128)
  <2>1. IsByte(r)
    BY <1>2, BytesAreWords, RefreshByte
  <2>2. h \in {0, 128}
    <3>1. Bit(s.a, 128) \in {0, 1}
      BY <1>2, BytesAreWords, BitTyped
    <3> QED BY <3>1
  <2>3. LoadRA(s) = [s EXCEPT !.r = r, !.r7 = h]
    BY DEF LoadRA
  <2> HIDE DEF r, h
  <2> QED BY <2>1, <2>2, <2>3 DEF IsProcessor, ByteRegs, WordRegs, FlagRegs
<1>6. IsProcessor([s EXCEPT !.i = s.a])
  BY <1>2 DEF IsProcessor, ByteRegs, WordRegs, FlagRegs
<1>7. ASSUME NEW m \in {0, 1, 2} PROVE IsProcessor([s EXCEPT !.im = m])
  BY DEF IsProcessor, ByteRegs, WordRegs, FlagRegs
<1> QED BY <1>4, <1>5, <1>6, <1>7

LEMMA ReturnsTyped ==
  ASSUME NEW s, IsProcessor(s)
  PROVE  IsProcessor(Reti(s)) /\ IsProcessor(Retn(s))
<1> DEFINE t == Ret(s)
<1>1. IsProcessor(t) /\ s.iff2 \in BOOLEAN
  <2>1. IsByte(0)
    BY DEF IsByte
  <2> QED BY <2>1, CallsTyped DEF IsProcessor
<1>2. Reti(s) = [t EXCEPT !.iff1 = s.iff2] /\ Retn(s) = [t EXCEPT !.iff1 = s.iff2]
  BY DEF Reti, Retn
<1> HIDE DEF t
<1>3. IsProcessor([t EXCEPT !.iff1 = s.iff2])
  BY <1>1 DEF IsProcessor, ByteRegs, WordRegs, FlagRegs
<1> QED BY <1>2, <1>3

LEMMA DigitsTyped ==
  ASSUME NEW s, IsProcessor(s)
  PROVE  IsProcessor(Rld(s)) /\ IsProcessor(Rrd(s))
<1>1. ASSUME NEW a, IsByte(a), NEW v, IsByte(v)
      PROVE  IsProcessor(RotateDigits(s, a, v))
  <2> DEFINE f == (s.f \cap {"C"}) \cup LogicFlags(a)
             t == WithAF(s, a, f)
  <2>1. f \subseteq Flags
    BY LogicFlagsTyped DEF Flags
  <2>2. RotateDigits(s, a, v) = Poke(t, HL(s), v)
    BY DEF RotateDigits, WithAF
  <2>3. IsProcessor(t)
    <3> HIDE DEF f
    <3> QED BY <1>1, <2>1, WithTyped
  <2> HIDE DEF t
  <2> QED BY <1>1, <2>2, <2>3, PairsTyped, PokeTyped
<1>2. ASSUME NEW a, IsByte(a), NEW v, IsByte(v)
      PROVE  /\ IsByte(16 * (a \div 16) + (v \div 16)) /\ IsByte(16 * (v % 16) + (a % 16))
             /\ IsByte(16 * (a \div 16) + (v % 16)) /\ IsByte((v \div 16) + 16 * (a % 16))
  BY <1>2, Z3 DEF IsByte
<1>3. IsByte(s.a) /\ IsByte(Peek(s, HL(s)))
  BY Registers, PeekTyped
<1> QED BY <1>1, <1>2, <1>3 DEF Rld, Rrd

-----------------------------------------------------------------------------
(* Blocks                                                                  *)

LEMMA PassTyped ==
  ASSUME NEW s, IsProcessor(s), NEW dir \in {1, -1}
  PROVE  /\ IsProcessor(Moved(s, dir)) /\ IsProcessor(Searched(s, dir))
         /\ IsProcessor(Port(s, dir))
<1>1. /\ IsWord(HL(s)) /\ IsWord(DE(s)) /\ IsByte(Peek(s, HL(s)))
      /\ HL(s) + dir \in Int /\ DE(s) + dir \in Int
  <2>1. HL(s) \in Int /\ DE(s) \in Int /\ dir \in Int
    BY PairsTyped, WordsAreInts
  <2>2. HL(s) + dir \in Int /\ DE(s) + dir \in Int
    BY <2>1
  <2> QED BY <2>2, PairsTyped, PeekTyped
<1>2. ASSUME NEW t, IsProcessor(t)
      PROVE  IsProcessor(Count(t))
  <2>1. BC(t) \in Int
    BY <1>2, PairsTyped, WordsAreInts
  <2>2. BC(t) - 1 \in Int
    BY <2>1
  <2> QED BY <1>2, <2>2, PutPairTyped DEF Count
<1>3. IsProcessor(Moved(s, dir))
  <2> DEFINE t == Poke(s, DE(s), Peek(s, HL(s)))
             u == PutPair(t, 1, DE(s) + dir)
  <2>1. IsProcessor(t)
    BY <1>1, PokeTyped
  <2>2. IsProcessor(u)
    <3> HIDE DEF t
    <3> QED BY <1>1, <2>1, PutPairTyped
  <2>3. Moved(s, dir) = Count(PutPair(u, 2, HL(s) + dir))
    BY DEF Moved
  <2> HIDE DEF u
  <2>4. IsProcessor(PutPair(u, 2, HL(s) + dir))
    BY <1>1, <2>2, PutPairTyped
  <2> QED BY <1>2, <2>3, <2>4
<1>4. IsProcessor(PutPair(s, 2, HL(s) + dir))
  BY <1>1, PutPairTyped
<1>5. IsProcessor(Searched(s, dir))
  BY <1>2, <1>4 DEF Searched
<1>6. IsProcessor(Port(s, dir))
  <2> DEFINE b == (s.b - 1) % 256
             t == PutPair(s, 2, HL(s) + dir)
             f == (t.f \ {"Z"}) \cup On(b = 0, "Z") \cup {"N"}
  <2>1. IsByte(b)
    <3>1. s.b - 1 \in Int
      BY Registers, BytesAreWords
    <3> QED BY <3>1, ModByte
  <2>2. f \subseteq Flags
    <3> HIDE DEF b, t
    <3> QED BY <1>4, Registers, OnFlags DEF Flags, t
  <2>3. Port(s, dir) = [t EXCEPT !.b = b, !.f = f]
    <3>1. [t EXCEPT !.b = b].f = t.f
      <4> HIDE DEF t, b
      <4> QED BY <1>4 DEF t, IsProcessor, FlagRegs
    <3> QED BY <3>1 DEF Port
  <2>4. IsProcessor(t)
    BY <1>4
  <2> HIDE DEF b, t, f
  <2> QED BY <2>1, <2>2, <2>3, <2>4 DEF IsProcessor, ByteRegs, WordRegs, FlagRegs
<1> QED BY <1>3, <1>5, <1>6

LEMMA AgainTyped ==
  ASSUME NEW s, IsProcessor(s)
  PROVE  IsProcessor(Again(s)) /\ IsProcessor(Skip(s, -2))
<1>1. -2 \in Int
  OBVIOUS
<1> QED BY <1>1, SkipTyped DEF Again

LEMMA MoveTyped ==
  ASSUME NEW s, IsProcessor(s), NEW dir \in {1, -1}
  PROVE  IsProcessor(Move(s, dir)) /\ IsProcessor(MoveRepeat(s, dir))
<1> DEFINE t == Moved(s, dir)
           g == IF BC(t) = 0 THEN s.f \ {"P"} ELSE s.f \cup {"P"}
           f == MoveFlags(g, s.a, Peek(s, HL(s)))
<1>1. g \subseteq Flags
  <2> HIDE DEF t
  <2> QED BY Registers DEF Flags
<1>2. f \subseteq Flags
  <2> HIDE DEF g
  <2> QED BY <1>1, OnFlags DEF MoveFlags, Flags
<1>3. Move(s, dir) = WithF(t, f)
  BY DEF Move, WithF
<1>4. IsProcessor(t)
  BY PassTyped
<1> HIDE DEF t, f
<1>5. IsProcessor(Move(s, dir))
  BY <1>2, <1>3, <1>4, WithTyped
<1> QED BY <1>5, AgainTyped DEF MoveRepeat

LEMMA SearchTyped ==
  ASSUME NEW s, IsProcessor(s), NEW dir \in {1, -1}
  PROVE  IsProcessor(Search(s, dir)) /\ IsProcessor(SearchRepeat(s, dir))
<1>1. ASSUME NEW v, IsByte(v), NEW bc
      PROVE  SearchFlags(s, v, bc) \subseteq Flags
  <2> DEFINE r == s.a - v
             f == SubFlags(s.a, v, r % 256)
             half == IF "H" \in f THEN 1 ELSE 0
  <2>1. s.a \in Int /\ v \in Int /\ r \in Int
    BY <1>1, Registers, BytesAreWords
  <2>2. r % 256 \in Int
    BY <2>1, ModByte, BytesAreWords
  <2>3. f \subseteq Flags
    <3> HIDE DEF r
    <3> QED BY <2>1, <2>2, TableFlagsTyped
  <2>4. \A c : On(c, "P") \subseteq Flags /\ On(c, "5") \subseteq Flags
    BY OnFlags DEF Flags
  <2>5. SearchFlags(s, v, bc) =
          ((f \ {"C", "P", "5"}) \cup (s.f \cap {"C"}) \cup On(bc # 0, "P")
             \cup On(Bit(r - half, 2) = 1, "5"))
            \ On(r % 16 = 8 /\ "H" \in f, "3")
    BY DEF SearchFlags
  <2> HIDE DEF f, r, half
  <2> QED BY <2>3, <2>4, <2>5, Registers
<1> DEFINE t == Searched(s, dir)
           g == SearchFlags(s, Peek(s, HL(s)), BC(t))
<1>2. IsProcessor(t) /\ g \subseteq Flags
  BY <1>1, PassTyped, PeekTyped
<1>3. Search(s, dir) = WithF(t, g)
  BY DEF Search, WithF
<1> HIDE DEF t, g
<1>4. IsProcessor(Search(s, dir))
  BY <1>2, <1>3, WithTyped
<1> QED BY <1>4, AgainTyped DEF SearchRepeat

LEMMA PortBlocksTyped ==
  ASSUME NEW s, IsProcessor(s), NEW dir \in {1, -1}, NEW in, IsByte(in)
  PROVE  /\ IsProcessor(In(s, dir, in)) /\ IsProcessor(InRepeat(s, dir, in))
         /\ IsProcessor(Out(s, dir)) /\ IsProcessor(OutRepeat(s, dir))
<1>1. IsProcessor(Poke(s, HL(s), in))
  BY PairsTyped, PokeTyped
<1>2. IsProcessor(In(s, dir, in)) /\ IsProcessor(Out(s, dir))
  BY <1>1, PassTyped DEF In, Out
<1> QED BY <1>2, AgainTyped DEF InRepeat, OutRepeat

LEMMA EdTyped ==
  ASSUME NEW s, IsProcessor(s), NEW in, IsByte(in)
  PROVE  IsProcessor(EdInstruction(s, in))
<1> DEFINE op == Fetch(s)
           t == Skip(s, 1)
           dir == Dir(op)
<1>1. IsByte(op) /\ IsProcessor(t) /\ dir \in {1, -1}
  BY FetchTyped, SkipTyped DEF Dir
<1>2. EdInstruction(s, in) =
  CASE op \in {66, 82, 98, 114} -> SbcPair(t, op)
    [] op \in {74, 90, 106, 122} -> AdcPair(t, op)
    [] op \in {67, 83, 99, 115} -> StorePairAt(t, op)
    [] op \in {75, 91, 107, 123} -> LoadPairFrom(t, op)
    [] op \in {64 + 8 * n : n \in 0..7} -> InC(t, op, in)
    [] op \in {68 + 8 * n : n \in 0..7} -> Negate(t)
    [] op = 77 -> Reti(t)
    [] op \in {69 + 8 * n : n \in 0..7 \ {1}} -> Retn(t)
    [] op \in {70, 102} -> [t EXCEPT !.im = 0]
    [] op \in {86, 118} -> [t EXCEPT !.im = 1]
    [] op \in {94, 126} -> [t EXCEPT !.im = 2]
    [] op = 71 -> [t EXCEPT !.i = t.a]
    [] op = 79 -> LoadRA(t)
    [] op = 87 -> LoadAI(t)
    [] op = 95 -> LoadAR(t)
    [] op = 103 -> Rrd(t)
    [] op = 111 -> Rld(t)
    [] op \in {160, 168} -> Move(t, dir)
    [] op \in {176, 184} -> MoveRepeat(t, dir)
    [] op \in {161, 169} -> Search(t, dir)
    [] op \in {177, 185} -> SearchRepeat(t, dir)
    [] op \in {162, 170} -> In(t, dir, in)
    [] op \in {178, 186} -> InRepeat(t, dir, in)
    [] op \in {163, 171} -> Out(t, dir)
    [] op \in {179, 187} -> OutRepeat(t, dir)
    [] OTHER -> t
  BY DEF EdInstruction
<1> HIDE DEF op, t, dir
<1>3. /\ IsProcessor(SbcPair(t, op)) /\ IsProcessor(AdcPair(t, op))
      /\ IsProcessor(StorePairAt(t, op)) /\ IsProcessor(LoadPairFrom(t, op))
      /\ IsProcessor(InC(t, op, in)) /\ IsProcessor(Negate(t))
      /\ IsProcessor(Reti(t)) /\ IsProcessor(Retn(t))
  BY <1>1, PairArithmeticTyped, PairLoadsTyped, InCTyped, OnATyped, ReturnsTyped
<1>4. /\ IsProcessor([t EXCEPT !.im = 0]) /\ IsProcessor([t EXCEPT !.im = 1])
      /\ IsProcessor([t EXCEPT !.im = 2]) /\ IsProcessor([t EXCEPT !.i = t.a])
      /\ IsProcessor(LoadRA(t)) /\ IsProcessor(LoadAI(t)) /\ IsProcessor(LoadAR(t))
      /\ IsProcessor(Rrd(t)) /\ IsProcessor(Rld(t))
  BY <1>1, SpecialLoadsTyped, DigitsTyped
<1>5. /\ IsProcessor(Move(t, dir)) /\ IsProcessor(MoveRepeat(t, dir))
      /\ IsProcessor(Search(t, dir)) /\ IsProcessor(SearchRepeat(t, dir))
      /\ IsProcessor(In(t, dir, in)) /\ IsProcessor(InRepeat(t, dir, in))
      /\ IsProcessor(Out(t, dir)) /\ IsProcessor(OutRepeat(t, dir))
  BY <1>1, MoveTyped, SearchTyped, PortBlocksTyped
<1> QED BY <1>1, <1>2, <1>3, <1>4, <1>5

-----------------------------------------------------------------------------
(* Every instruction, and interrupts                                       *)

LEMMA RowAndColumn ==
  ASSUME NEW op \in Int, NEW base \in Int, base <= op, op < base + 64
  PROVE  \E n, k \in 0..7 : op = base + 8 * n + k
<1> DEFINE d == op - base
           n == d \div 8
           k == d % 8
<1>1. d \in Int /\ 0 <= d /\ d < 64 /\ op = base + d
  OBVIOUS
<1>2. n \in Int /\ k \in Int /\ 0 <= k /\ k < 8 /\ d = 8 * n + k
  <2> HIDE DEF d
  <2> QED BY <1>1, Z3
<1> HIDE DEF d, n, k
<1>3. 0 <= n /\ n < 8
  BY <1>1, <1>2
<1>4. n \in 0..7 /\ k \in 0..7 /\ op = base + 8 * n + k
  BY <1>1, <1>2, <1>3
<1> QED BY <1>4

LEMMA Octal == \A n \in 0..7 : n = 0 \/ n = 1 \/ n = 2 \/ n = 3 \/ n = 4 \/ n = 5 \/ n = 6 \/ n = 7
OBVIOUS

LEMMA LowOpcodes ==
  ASSUME NEW op, IsByte(op), op < 64
  PROVE  \/ op \in {4 + 8 * n : n \in 0..7} \/ op \in {5 + 8 * n : n \in 0..7}
         \/ op \in {6 + 8 * n : n \in 0..7}
         \/ op \in {0, 9, 25, 41, 57, 1, 17, 33, 49, 3, 19, 35, 51, 11, 27, 43, 59, 2, 18, 10, 26,
                    34, 42, 50, 58, 8, 16, 24, 32, 40, 48, 56, 7, 15, 23, 31, 39, 47, 55, 63}
<1>1. op \in Int /\ 0 <= op /\ op < 0 + 64
  BY DEF IsByte
<1>2. PICK n, k \in 0..7 : op = 0 + 8 * n + k
  BY <1>1, RowAndColumn
<1>3. CASE k = 4
  BY <1>2, <1>3
<1>4. CASE k = 5
  BY <1>2, <1>4
<1>5. CASE k = 6
  BY <1>2, <1>5
<1>6. ASSUME k = 0 \/ k = 1 \/ k = 2 \/ k = 3 \/ k = 7
      PROVE  op \in {0, 9, 25, 41, 57, 1, 17, 33, 49, 3, 19, 35, 51, 11, 27, 43, 59, 2, 18, 10, 26,
               34, 42, 50, 58, 8, 16, 24, 32, 40, 48, 56, 7, 15, 23, 31, 39, 47, 55, 63}
  <2>1. n = 0 \/ n = 1 \/ n = 2 \/ n = 3 \/ n = 4 \/ n = 5 \/ n = 6 \/ n = 7
    BY Octal
  <2> QED BY <1>2, <1>6, <2>1
<1> QED BY <1>3, <1>4, <1>5, <1>6, Octal

LEMMA LowTyped ==
  ASSUME NEW s, IsProcessor(s), NEW op, IsByte(op), op < 64
  PROVE  IsProcessor(LowInstruction(s, op))
<1> DEFINE Col(k) == {k + 8 * n : n \in 0..7}
<1>1. LowInstruction(s, op) =
  CASE op = 0 -> s
    [] op \in {9, 25, 41, 57} -> AddHL(s, op)
    [] op \in {1, 17, 33, 49} -> LoadPair(s, op)
    [] op \in {3, 19, 35, 51} -> IncPair(s, op)
    [] op \in {11, 27, 43, 59} -> DecPair(s, op)
    [] op \in Col(4) -> Inc(s, op)
    [] op \in Col(5) -> Dec(s, op)
    [] op \in Col(6) -> LoadByteNext(s, op)
    [] op \in {2, 18} -> StoreAAtPair(s, op)
    [] op \in {10, 26} -> LoadAFromPair(s, op)
    [] op = 34 -> StoreHLAt(s)
    [] op = 42 -> LoadHLFrom(s)
    [] op = 50 -> StoreAAt(s)
    [] op = 58 -> LoadAFrom(s)
    [] op = 8 -> ExAf(s)
    [] op = 16 -> Djnz(s)
    [] op = 24 -> Jr(s)
    [] op \in {32, 40, 48, 56} -> JrIf(s, op)
    [] op = 7 -> Rlca(s)
    [] op = 15 -> Rrca(s)
    [] op = 23 -> Rla(s)
    [] op = 31 -> Rra(s)
    [] op = 39 -> Daa(s)
    [] op = 47 -> Cpl(s)
    [] op = 55 -> Scf(s)
    [] op = 63 -> Ccf(s)
  BY DEF LowInstruction
<1>2. \/ op \in Col(4) \/ op \in Col(5) \/ op \in Col(6)
      \/ op \in {0, 9, 25, 41, 57, 1, 17, 33, 49, 3, 19, 35, 51, 11, 27, 43, 59, 2, 18, 10, 26,
                 34, 42, 50, 58, 8, 16, 24, 32, 40, 48, 56, 7, 15, 23, 31, 39, 47, 55, 63}
  BY LowOpcodes
<1>3. /\ IsProcessor(AddHL(s, op)) /\ IsProcessor(IncPair(s, op)) /\ IsProcessor(DecPair(s, op))
      /\ IsProcessor(Inc(s, op)) /\ IsProcessor(Dec(s, op))
      /\ IsProcessor(Scf(s)) /\ IsProcessor(Ccf(s)) /\ IsProcessor(Daa(s)) /\ IsProcessor(Cpl(s))
      /\ IsProcessor(ExAf(s))
  BY AddHLTyped, PairCountTyped, ByteCountTyped, CarryCodesTyped, OnATyped, ExchangesTyped
<1>4. /\ IsProcessor(Jr(s)) /\ IsProcessor(JrIf(s, op)) /\ IsProcessor(Djnz(s))
      /\ IsProcessor(Rla(s)) /\ IsProcessor(Rra(s)) /\ IsProcessor(Rlca(s)) /\ IsProcessor(Rrca(s))
  BY JumpsTyped, RotateATyped
<1>5. /\ IsProcessor(LoadByteNext(s, op)) /\ IsProcessor(LoadPair(s, op))
      /\ IsProcessor(StoreAAtPair(s, op)) /\ IsProcessor(LoadAFromPair(s, op))
      /\ IsProcessor(LoadAFrom(s)) /\ IsProcessor(StoreAAt(s)) /\ IsProcessor(StoreHLAt(s))
      /\ IsProcessor(LoadHLFrom(s))
  BY LoadsTyped
<1> HIDE DEF Col
<1> QED BY <1>1, <1>2, <1>3, <1>4, <1>5

LEMMA ArithmeticInstructionTyped ==
  ASSUME NEW s, IsProcessor(s), NEW op, IsByte(op),
         \E n \in 0..7 : op \in Arithmetic(n)
  PROVE  IsProcessor(ArithmeticInstruction(s, op))
<1>1. \/ op \in Arithmetic(0) \/ op \in Arithmetic(1) \/ op \in Arithmetic(2)
      \/ op \in Arithmetic(3) \/ op \in Arithmetic(4) \/ op \in Arithmetic(5)
      \/ op \in Arithmetic(6) \/ op \in Arithmetic(7)
  OBVIOUS
<1> QED BY <1>1, ArithmeticTyped DEF ArithmeticInstruction

LEMMA HighOpcodes ==
  ASSUME NEW op, IsByte(op), op > 191
  PROVE  \/ op \in {192 + 8 * n : n \in 0..7} \/ op \in {194 + 8 * n : n \in 0..7}
         \/ op \in {196 + 8 * n : n \in 0..7} \/ op \in {199 + 8 * n : n \in 0..7}
         \/ op \in {193, 209, 225, 241, 197, 213, 229, 245, 195, 201, 205, 211, 219, 217,
                    227, 233, 235, 243, 249, 251, 203, 221, 237, 253}
         \/ \E n \in 0..7 : op = 198 + 8 * n
<1>1. op \in Int /\ 192 <= op /\ op < 192 + 64
  BY DEF IsByte
<1>2. PICK n, k \in 0..7 : op = 192 + 8 * n + k
  BY <1>1, RowAndColumn
<1>3. CASE k = 0
  BY <1>2, <1>3
<1>4. CASE k = 2
  BY <1>2, <1>4
<1>5. CASE k = 4
  BY <1>2, <1>5
<1>6. CASE k = 7
  BY <1>2, <1>6
<1>7. CASE k = 6
  BY <1>2, <1>7
<1>8. ASSUME k = 1 \/ k = 3 \/ k = 5
      PROVE  op \in {193, 209, 225, 241, 197, 213, 229, 245, 195, 201, 205, 211, 219, 217,
                    227, 233, 235, 243, 249, 251, 203, 221, 237, 253}
  <2>1. n = 0 \/ n = 1 \/ n = 2 \/ n = 3 \/ n = 4 \/ n = 5 \/ n = 6 \/ n = 7
    BY Octal
  <2> QED BY <1>2, <1>8, <2>1
<1> QED BY <1>3, <1>4, <1>5, <1>6, <1>7, <1>8, Octal

LEMMA HighTyped ==
  ASSUME NEW s, IsProcessor(s), NEW op, IsByte(op), op > 191, NEW in, IsByte(in)
  PROVE  IsProcessor(HighInstruction(s, op, in))
<1> DEFINE Col(k) == {k + 8 * n : n \in 0..7}
           t == Refreshed(s, 1)
           Others == {193, 209, 225, 241, 197, 213, 229, 245, 195, 201, 205, 211, 219, 217,
                      227, 233, 235, 243, 249, 251, 203, 221, 237, 253}
<1>1. HighInstruction(s, op, in) =
  CASE op \in Col(192) -> RetIf(s, op)
    [] op \in Col(194) -> JpIf(s, op)
    [] op \in Col(196) -> CallIf(s, op)
    [] op \in Col(199) -> Rst(s, op)
    [] op \in {193, 209, 225, 241} -> PopPair(s, op)
    [] op \in {197, 213, 229, 245} -> PushPair(s, op)
    [] op = 195 -> Jp(s)
    [] op = 201 -> Ret(s)
    [] op = 205 -> Call(s)
    [] op = 211 -> OutA(s)
    [] op = 219 -> InA(s, in)
    [] op = 217 -> Exx(s)
    [] op = 227 -> ExSpHl(s)
    [] op = 233 -> JumpTo(s, HL(s))
    [] op = 235 -> ExDeHl(s)
    [] op = 243 -> Di(s)
    [] op = 249 -> [s EXCEPT !.sp = HL(s)]
    [] op = 251 -> Ei(s)
    [] op = 203 -> CbInstruction(t)
    [] op = 221 -> IndexedInstruction(t, "ix")
    [] op = 237 -> EdInstruction(t, in)
    [] op = 253 -> IndexedInstruction(t, "iy")
    [] OTHER -> ArithmeticInstruction(s, op)
  BY DEF HighInstruction
<1>2. \/ op \in Col(192) \/ op \in Col(194) \/ op \in Col(196) \/ op \in Col(199)
      \/ op \in Others \/ \E n \in 0..7 : op = 198 + 8 * n
  BY HighOpcodes
<1>3. (\E n \in 0..7 : op = 198 + 8 * n) => \E n \in 0..7 : op \in Arithmetic(n)
  BY DEF Arithmetic
<1>4. IsProcessor(t)
  BY RefreshedTyped
<1>5. /\ IsProcessor(RetIf(s, op)) /\ IsProcessor(JpIf(s, op)) /\ IsProcessor(CallIf(s, op))
      /\ IsProcessor(Rst(s, op)) /\ IsProcessor(PopPair(s, op)) /\ IsProcessor(PushPair(s, op))
      /\ IsProcessor(Jp(s)) /\ IsProcessor(Ret(s)) /\ IsProcessor(Call(s))
  BY CallsTyped, JumpsTyped, StackTyped
<1>6. /\ IsProcessor(OutA(s)) /\ IsProcessor(InA(s, in)) /\ IsProcessor(Exx(s))
      /\ IsProcessor(ExSpHl(s)) /\ IsProcessor(ExDeHl(s)) /\ IsProcessor(Di(s))
      /\ IsProcessor(Ei(s))
  BY PortsTyped, ExchangesTyped, SwitchesTyped
<1>7. IsProcessor(JumpTo(s, HL(s))) /\ IsProcessor([s EXCEPT !.sp = HL(s)])
  BY PairsTyped, JumpToTyped, PutSp
<1>8. /\ IsProcessor(CbInstruction(t)) /\ IsProcessor(IndexedInstruction(t, "ix"))
      /\ IsProcessor(IndexedInstruction(t, "iy")) /\ IsProcessor(EdInstruction(t, in))
  <2> HIDE DEF t
  <2> QED BY <1>4, CbTyped, IndexedInstructionTyped, EdTyped
<1>9. (\E n \in 0..7 : op = 198 + 8 * n) => IsProcessor(ArithmeticInstruction(s, op))
  BY <1>3, ArithmeticInstructionTyped
<1> HIDE DEF Col, t
<1> QED BY <1>1, <1>2, <1>5, <1>6, <1>7, <1>8, <1>9

\* Every instruction, of every opcode behind every prefix, leaves a processor.
LEMMA InstructionTyped ==
  ASSUME NEW s, IsProcessor(s), NEW op, IsByte(op), NEW in, IsByte(in)
  PROVE  IsProcessor(Instruction(s, op, in))
<1>1. op \in Int /\ 0 <= op /\ op < 256
  BY DEF IsByte
<1>2. CASE op < 64
  BY <1>1, <1>2, LowTyped DEF Instruction
<1>3. CASE op \in 64..127
  <2>1. IsProcessor(LoadInstruction(s, op))
    BY LoadsTyped DEF LoadInstruction
  <2>2. ~(op < 64)
    BY <1>3
  <2> QED BY <1>3, <2>1, <2>2 DEF Instruction
<1>4. CASE op \in 128..191
  <2>1. \E n \in 0..7 : op \in Arithmetic(n)
    <3>1. 128 <= op /\ op < 128 + 64
      BY <1>4
    <3>2. PICK n, k \in 0..7 : op = 128 + 8 * n + k
      BY <1>1, <3>1, RowAndColumn
    <3> QED BY <3>2 DEF Arithmetic
  <2>2. ~(op < 64) /\ op \notin 64..127
    BY <1>4
  <2> QED BY <1>4, <2>1, <2>2, ArithmeticInstructionTyped DEF Instruction
<1>5. CASE op > 191
  <2>1. ~(op < 64) /\ op \notin 64..127 /\ op \notin 128..191
    BY <1>1, <1>5
  <2> QED BY <1>5, <2>1, HighTyped DEF Instruction
<1> QED BY <1>1, <1>2, <1>3, <1>4, <1>5

-----------------------------------------------------------------------------
(* HALT, reset, interrupts, and the whole turn                             *)

IsLine(l) == l \in [irq : BOOLEAN, nmi : BOOLEAN, seen : BOOLEAN]
IsMachine(m) == m = [cpu |-> m.cpu, line |-> m.line] /\ IsProcessor(m.cpu) /\ IsLine(m.line)

\* Resetting, halting, NMI and interrupts leave a processor and its lines.
LEMMA ResetTyped ==
  ASSUME NEW m, IsMachine(m)
  PROVE  IsMachine(z80_reset(m))
<1> DEFINE s == m.cpu
           u == [s EXCEPT !.a = 255, !.f = Flags, !.pc = 0, !.sp = Word - 1, !.i = 0]
           t == [u EXCEPT !.r = 0, !.r7 = 0, !.im = 1, !.iff1 = FALSE, !.iff2 = FALSE]
           l == [irq |-> FALSE, nmi |-> FALSE, seen |-> FALSE]
<1>1. IsProcessor(s)
  BY DEF IsMachine
<1>2. IsByte(255) /\ IsByte(0) /\ IsWord(0) /\ IsWord(Word - 1)
  BY DEF IsByte, IsWord, Word
<1>3. IsProcessor(u)
  <2> DEFINE Byte1 == 255  Word1 == Word - 1
  <2>1. u = [s EXCEPT !.a = Byte1, !.f = Flags, !.pc = 0, !.sp = Word1, !.i = 0]
    OBVIOUS
  <2>2. IsByte(Byte1) /\ IsWord(Word1)
    BY <1>2
  <2> HIDE DEF s, u, Byte1, Word1
  <2> QED BY <1>1, <1>2, <2>1, <2>2 DEF IsProcessor, ByteRegs, WordRegs, FlagRegs
<1>4. IsProcessor(t)
  <2> HIDE DEF u
  <2> QED BY <1>2, <1>3 DEF IsProcessor, ByteRegs, WordRegs, FlagRegs
<1>5. IsLine(l)
  BY DEF IsLine
<1>6. z80_reset(m) = [cpu |-> t, line |-> l]
  BY DEF z80_reset
<1> HIDE DEF t, l
<1> QED BY <1>4, <1>5, <1>6 DEF IsMachine

LEMMA NmiLineTyped ==
  ASSUME NEW l, IsLine(l)
  PROVE  /\ IsLine([l EXCEPT !.nmi = TRUE]) /\ IsLine([l EXCEPT !.nmi = FALSE])
         /\ IsLine([l EXCEPT !.seen = TRUE]) /\ IsLine([l EXCEPT !.irq = TRUE])
         /\ IsLine([l EXCEPT !.irq = FALSE])
         /\ IsLine([l EXCEPT !.nmi = FALSE, !.seen = FALSE])
BY DEF IsLine

LEMMA HaltTyped ==
  ASSUME NEW m, IsMachine(m)
  PROVE  IsMachine(Halt(m))
<1>1. IsMachine([m EXCEPT !.cpu = Skip(@, -1)])
  <2>1. IsProcessor(Skip(m.cpu, -1))
    BY SkipTyped DEF IsMachine
  <2>2. [m EXCEPT !.cpu = Skip(@, -1)] = [cpu |-> Skip(m.cpu, -1), line |-> m.line]
    BY DEF IsMachine
  <2> QED BY <2>1, <2>2 DEF IsMachine
<1>2. IsMachine([m EXCEPT !.line.nmi = TRUE])
  <2>1. IsLine([m.line EXCEPT !.nmi = TRUE])
    BY NmiLineTyped DEF IsMachine
  <2> DEFINE l == [m.line EXCEPT !.nmi = TRUE]
  <2>2. [m EXCEPT !.line.nmi = TRUE] = [m EXCEPT !.line = l]
    OBVIOUS
  <2>3. \A x : [m EXCEPT !.line = x] = [cpu |-> m.cpu, line |-> x]
    BY DEF IsMachine
  <2> HIDE DEF l
  <2> QED BY <2>1, <2>2, <2>3 DEF IsMachine
<1>3. IsMachine(z80_reset(m))
  BY ResetTyped
<1> QED BY <1>1, <1>2, <1>3 DEF Halt, trs_reset

LEMMA ExecutedTyped ==
  ASSUME NEW m, IsMachine(m), NEW in, IsByte(in)
  PROVE  IsMachine(Executed(m, in))
<1> DEFINE op == Fetch(m.cpu)
           s == Refreshed(Skip(m.cpu, 1), 1)
<1>1. IsProcessor(m.cpu) /\ IsLine(m.line) /\ m = [cpu |-> m.cpu, line |-> m.line]
  BY DEF IsMachine
<1>2. IsByte(op) /\ IsProcessor(s)
  BY <1>1, FetchTyped, SkipTyped, RefreshedTyped
<1>3. Executed(m, in) = IF op = 118 THEN Halt([m EXCEPT !.cpu = s])
                                   ELSE [m EXCEPT !.cpu = Instruction(s, op, in)]
  BY DEF Executed
<1> HIDE DEF op, s
<1>4. IsProcessor(Instruction(s, op, in))
  BY <1>2, InstructionTyped
<1>5. \A t : [m EXCEPT !.cpu = t] = [cpu |-> t, line |-> m.line]
  BY <1>1
<1>6. \A t : IsProcessor(t) => IsMachine([m EXCEPT !.cpu = t])
  BY <1>1, <1>5 DEF IsMachine
<1> QED BY <1>2, <1>3, <1>4, <1>6, HaltTyped

LEMMA WokenTyped ==
  ASSUME NEW s, IsProcessor(s), NEW op
  PROVE  IsProcessor(Woken(s, op))
BY SkipTyped DEF Woken

LEMMA do_nmiTyped ==
  ASSUME NEW s, IsProcessor(s)
  PROVE  IsProcessor(do_nmi(s))
<1> DEFINE t == Refreshed(Push(s, s.pc), 1)
<1>1. s.pc \in Int
  BY Registers DEF IsWord
<1>2. IsProcessor(t)
  BY <1>1, PushTyped, RefreshedTyped
<1>3. do_nmi(s) = [t EXCEPT !.iff1 = FALSE, !.pc = 102]
  BY DEF do_nmi
<1>4. IsWord(102)
  BY DEF IsWord, Word
<1> HIDE DEF t
<1> QED BY <1>2, <1>3, <1>4 DEF IsProcessor, ByteRegs, WordRegs, FlagRegs

LEMMA do_intTyped ==
  ASSUME NEW s, IsProcessor(s)
  PROVE  IsProcessor(do_int(s))
<1> DEFINE u == [s EXCEPT !.iff1 = FALSE, !.iff2 = FALSE]
           t == Refreshed(Push(u, s.pc), 1)
<1>1. s.pc \in Int
  BY Registers DEF IsWord
<1>2. IsProcessor(u)
  BY DEF IsProcessor, ByteRegs, WordRegs, FlagRegs
<1>3. IsProcessor(t)
  <2> HIDE DEF u
  <2> QED BY <1>1, <1>2, PushTyped, RefreshedTyped
<1>4. do_int(s) = JumpTo(t, IF s.im = 2 THEN PeekWord(t, 256 * s.i + 255) ELSE 56)
  BY DEF do_int
<1>5. IsWord(56)
  BY DEF IsWord, Word
<1> HIDE DEF u, t
<1> QED BY <1>3, <1>4, <1>5, PeekWordTyped, JumpToTyped

LEMMA InterruptedTyped ==
  ASSUME NEW m, IsMachine(m), NEW op
  PROVE  IsMachine(Interrupted(m, op))
<1> DEFINE w == Woken(m.cpu, op)
           one == [cpu |-> do_nmi(w), line |-> [m.line EXCEPT !.nmi = FALSE]]
           two == [cpu |-> do_nmi(w), line |-> [m.line EXCEPT !.seen = TRUE]]
           three == [m EXCEPT !.cpu = do_int(Woken(@, op))]
<1>1. IsProcessor(m.cpu) /\ IsLine(m.line) /\ m = [cpu |-> m.cpu, line |-> m.line]
  BY DEF IsMachine
<1>2. IsProcessor(do_nmi(w)) /\ IsProcessor(do_int(w))
  BY <1>1, WokenTyped, do_nmiTyped, do_intTyped
<1>3. IsLine([m.line EXCEPT !.nmi = FALSE]) /\ IsLine([m.line EXCEPT !.seen = TRUE])
  BY <1>1, NmiLineTyped
<1>4. three = [cpu |-> do_int(w), line |-> m.line]
  BY <1>1
<1>5. \/ Interrupted(m, op) = one \/ Interrupted(m, op) = two
      \/ Interrupted(m, op) = three \/ Interrupted(m, op) = m
  <2>1. CASE TakesNmi(m)
    BY <2>1 DEF Interrupted
  <2>2. CASE ~TakesNmi(m) /\ TakesInt(m, op)
    BY <2>2 DEF Interrupted
  <2>3. CASE ~TakesNmi(m) /\ ~TakesInt(m, op)
    BY <2>3 DEF Interrupted
  <2> QED BY <2>1, <2>2, <2>3
<1>6. IsMachine(one) /\ IsMachine(two)
  <2> HIDE DEF w
  <2> QED BY <1>2, <1>3 DEF IsMachine
<1>7. IsMachine(three)
  <2> HIDE DEF w, three
  <2> QED BY <1>1, <1>2, <1>4 DEF IsMachine
<1> HIDE DEF one, two, three
<1> QED BY <1>5, <1>6, <1>7

\* A whole turn of the loop: fetch, execute, look for an interrupt (z80_run).
LEMMA TurnTyped ==
  ASSUME IsProcessor(cpu), IsLine(line), NEW in \in Ins, NEW allowed
  PROVE  IsMachine(Turn(cpu, line, in, allowed))
<1> DEFINE x == [cpu |-> cpu, line |-> line]
           m == Executed(x, in)
<1>1. IsByte(in)
  BY Z80Assumption DEF IsByte
<1>2. IsMachine(x)
  BY DEF IsMachine
<1>3. IsMachine(m)
  <2> HIDE DEF x
  <2> QED BY <1>1, <1>2, ExecutedTyped
<1>4. Turn(cpu, line, in, allowed) = IF allowed THEN Interrupted(m, Fetch(cpu)) ELSE m
  BY DEF Turn
<1> HIDE DEF m
<1> QED BY <1>3, <1>4, InterruptedTyped
\* The type of the processor, its memory and its lines.
MachineTyped == IsProcessor(cpu) /\ IsLine(line)

LEMMA MachineInit == ASSUME Init PROVE MachineTyped
BY ProgramsAssumption DEF Init, MachineTyped, IsLine

LEMMA MachineStep ==
  ASSUME MachineTyped, NEW in \in Ins, NEW allowed,
         cpu' = Turn(cpu, line, in, allowed).cpu, line' = Turn(cpu, line, in, allowed).line
  PROVE  MachineTyped'
BY TurnTyped DEF MachineTyped, IsMachine

LEMMA LinesStep ==
  ASSUME MachineTyped, IrqUp \/ IrqDown \/ NmiUp \/ NmiDown
  PROVE  MachineTyped'
BY NmiLineTyped DEF MachineTyped, IrqUp, IrqDown, NmiUp, NmiDown, LineBecomes

\* Whatever a program executes and whenever a device interrupts, registers stay
\* bytes and words, the flags a set of flags, and memory a function from
\* addresses to bytes (z80_run, every instruction).
THEOREM ProcessorTyped == TaskSpec => []MachineTyped
<1>1. TaskInit => MachineTyped
  BY MachineInit DEF TaskInit
<1>2. MachineTyped /\ [TaskNext]_taskVars => MachineTyped'
  <2> SUFFICES ASSUME MachineTyped, [TaskNext]_taskVars PROVE MachineTyped'
    OBVIOUS
  <2>1. CASE z80_run
    BY <2>1, MachineStep DEF z80_run
  <2>2. CASE IrqUp \/ IrqDown \/ NmiUp \/ NmiDown
    BY <2>2, LinesStep
  <2>3. CASE UNCHANGED taskVars
    BY <2>3 DEF taskVars, MachineTyped
  <2> QED BY <2>1, <2>2, <2>3 DEF TaskNext, Next
<1> QED BY <1>1, <1>2, PTL DEF TaskSpec
-----------------------------------------------------------------------------
(* Tables of flags                                                         *)

\* The top bit of a number below 2 * p, and the row that three of them choose.
Top1(v, p) == IF v >= p THEN 1 ELSE 0
Row(x, y, z, p) == 4 * Top1(x, p) + 2 * Top1(y, p) + Top1(z, p) + 1
\* A number below 2 * p, read with its sign.
SignOf(x, p) == IF x >= p THEN x - 2 * p ELSE x

\* Rows are numbered by the three bits.
LEMMA RowValue ==
  ASSUME NEW p \in Int, NEW x \in Int, NEW y \in Int, NEW z \in Int
  PROVE  /\ x < p /\ y < p /\ z < p => Row(x, y, z, p) = 1
         /\ x < p /\ y < p /\ z >= p => Row(x, y, z, p) = 2
         /\ x < p /\ y >= p /\ z < p => Row(x, y, z, p) = 3
         /\ x < p /\ y >= p /\ z >= p => Row(x, y, z, p) = 4
         /\ x >= p /\ y < p /\ z < p => Row(x, y, z, p) = 5
         /\ x >= p /\ y < p /\ z >= p => Row(x, y, z, p) = 6
         /\ x >= p /\ y >= p /\ z < p => Row(x, y, z, p) = 7
         /\ x >= p /\ y >= p /\ z >= p => Row(x, y, z, p) = 8
BY DEF Row, Top1
\* z is the sum or difference of x and y that fits below 2 * p.
Adds(x, y, c, z, p) ==
  /\ p \in Int /\ p > 0 /\ c \in Int /\ 0 <= c /\ c <= 1
  /\ x \in Int /\ 0 <= x /\ x < 2 * p /\ y \in Int /\ 0 <= y /\ y < 2 * p
  /\ z \in Int /\ 0 <= z /\ z < 2 * p
  /\ z = x + y + c \/ z = x + y + c - 2 * p
Subtracts(x, y, c, z, p) ==
  /\ p \in Int /\ p > 0 /\ c \in Int /\ 0 <= c /\ c <= 1
  /\ x \in Int /\ 0 <= x /\ x < 2 * p /\ y \in Int /\ 0 <= y /\ y < 2 * p
  /\ z \in Int /\ 0 <= z /\ z < 2 * p
  /\ z = x - y - c \/ z = x - y - c + 2 * p
\* The reference: what integers give, for a sum and for a difference.
SumOf(a, v, c, half, full) == Expected(a, v, c, half, full, FALSE)
DifferenceOf(a, v, c, half, full) == Expected(a, v, c, half, full, TRUE)
\* The powers at which the carries leave, and the operands' remainders.
Width(p, q, full, half) ==
  p \in Int /\ q \in Int /\ full = 2 * p /\ full \div 2 = p /\ half = 2 * q
Rest(r, n, d) == r \in Int /\ r = n % d
RestOfSum(r, a, v, c, d) ==
  a \in Int /\ v \in Int /\ c \in Int /\ r \in Int /\ r = (a + v + c) % d
RestOfDifference(r, a, v, c, d) ==
  a \in Int /\ v \in Int /\ c \in Int /\ r \in Int /\ r = (a - v - c) % d
Outside(n, p) == n < 0 \/ n >= 2 * p
OutsideSigned(n, p) == n < -p \/ n >= p
\* The reference's flags, written with the powers p and q.
SumFlags(a, v, c, r, al, vl, p, q) ==
  On(Outside(a + v + c, p), "C") \cup On(Outside(al + vl + c, q), "H")
  \cup On(OutsideSigned(SignOf(a, p) + SignOf(v, p) + c, p), "P")
  \cup On(r >= p, "S") \cup On(r = 0, "Z")
DifferenceFlags(a, v, c, r, al, vl, p, q) ==
  On(Outside(a - v - c, p), "C") \cup On(Outside(al - vl - c, q), "H")
  \cup On(OutsideSigned(SignOf(a, p) - SignOf(v, p) - c, p), "P")
  \cup On(r >= p, "S") \cup On(r = 0, "Z") \cup {"N"}

\* The rows of the tables say when the sum left the range, with and without sign.
LEMMA AddTables ==
  ASSUME NEW p, NEW x, NEW y, NEW z, NEW c, Adds(x, y, c, z, p)
  PROVE  /\ HalfCarry[Row(x, y, z, p)] = On(Outside(x + y + c, p), "H")
         /\ SignCarryOverflow[Row(x, y, z, p)] =
              On(Outside(x + y + c, p), "C")
                \cup On(OutsideSigned(SignOf(x, p) + SignOf(y, p) + c, p), "P")
                \cup On(z >= p, "S")
<1> DEFINE sum == x + y + c
           signed == SignOf(x, p) + SignOf(y, p) + c
           beyond == OutsideSigned(signed, p)
           i == Row(x, y, z, p)
           carry == Outside(sum, p)
           sign == z >= p
<1>1. HalfCarry[1] = {} /\ HalfCarry[2] = {} /\ HalfCarry[3] = {"H"} /\ HalfCarry[4] = {}
      /\ HalfCarry[5] = {"H"} /\ HalfCarry[6] = {} /\ HalfCarry[7] = {"H"} /\ HalfCarry[8] = {"H"}
  BY DEF HalfCarry
<1>2. /\ SignCarryOverflow[1] = {} /\ SignCarryOverflow[2] = {"P", "S"}
      /\ SignCarryOverflow[3] = {"C"} /\ SignCarryOverflow[4] = {"S"}
      /\ SignCarryOverflow[5] = {"C"} /\ SignCarryOverflow[6] = {"S"}
      /\ SignCarryOverflow[7] = {"C", "P"} /\ SignCarryOverflow[8] = {"C", "S"}
  BY DEF SignCarryOverflow
<1>4. \/ i = 1 \/ i = 2 \/ i = 3 \/ i = 4 \/ i = 5 \/ i = 6 \/ i = 7 \/ i = 8
  BY RowValue DEF Adds
<1>6. /\ i = 1 => ~carry /\ ~beyond /\ ~sign
      /\ i = 2 => ~carry /\ beyond /\ sign
      /\ i = 3 => carry /\ ~beyond /\ ~sign
      /\ i = 4 => ~carry /\ ~beyond /\ sign
      /\ i = 5 => carry /\ ~beyond /\ ~sign
      /\ i = 6 => ~carry /\ ~beyond /\ sign
      /\ i = 7 => carry /\ beyond /\ ~sign
      /\ i = 8 => carry /\ ~beyond /\ sign
  BY DEF Row, Top1, SignOf, Outside, OutsideSigned, Adds
<1>7. HalfCarry[i] = On(carry, "H")
      /\ SignCarryOverflow[i] = On(carry, "C") \cup On(beyond, "P") \cup On(sign, "S")
  <2> HIDE DEF i, carry, beyond, sign
  <2> QED BY <1>1, <1>2, <1>4, <1>6 DEF On
<1> QED BY <1>7

\* The same for the tables of subtractions.
LEMMA SubTables ==
  ASSUME NEW p, NEW x, NEW y, NEW z, NEW c, Subtracts(x, y, c, z, p)
  PROVE  /\ SubHalfCarry[Row(x, y, z, p)] = On(Outside(x - y - c, p), "H")
         /\ SubSignCarryOverflow[Row(x, y, z, p)] =
              On(Outside(x - y - c, p), "C")
                \cup On(OutsideSigned(SignOf(x, p) - SignOf(y, p) - c, p), "P")
                \cup On(z >= p, "S")
<1> DEFINE diff == x - y - c
           signed == SignOf(x, p) - SignOf(y, p) - c
           beyond == OutsideSigned(signed, p)
           i == Row(x, y, z, p)
           carry == Outside(diff, p)
           sign == z >= p
<1>1. /\ SubHalfCarry[1] = {} /\ SubHalfCarry[2] = {"H"} /\ SubHalfCarry[3] = {"H"}
      /\ SubHalfCarry[4] = {"H"} /\ SubHalfCarry[5] = {} /\ SubHalfCarry[6] = {}
      /\ SubHalfCarry[7] = {} /\ SubHalfCarry[8] = {"H"}
  BY DEF SubHalfCarry
<1>2. /\ SubSignCarryOverflow[1] = {} /\ SubSignCarryOverflow[2] = {"C", "S"}
      /\ SubSignCarryOverflow[3] = {"C"} /\ SubSignCarryOverflow[4] = {"P", "C", "S"}
      /\ SubSignCarryOverflow[5] = {"P"} /\ SubSignCarryOverflow[6] = {"S"}
      /\ SubSignCarryOverflow[7] = {} /\ SubSignCarryOverflow[8] = {"C", "S"}
  BY DEF SubSignCarryOverflow
<1>4. \/ i = 1 \/ i = 2 \/ i = 3 \/ i = 4 \/ i = 5 \/ i = 6 \/ i = 7 \/ i = 8
  BY RowValue DEF Subtracts
<1>6. /\ i = 1 => ~carry /\ ~beyond /\ ~sign
      /\ i = 2 => carry /\ ~beyond /\ sign
      /\ i = 3 => carry /\ ~beyond /\ ~sign
      /\ i = 4 => carry /\ beyond /\ sign
      /\ i = 5 => ~carry /\ beyond /\ ~sign
      /\ i = 6 => ~carry /\ ~beyond /\ sign
      /\ i = 7 => ~carry /\ ~beyond /\ ~sign
      /\ i = 8 => carry /\ ~beyond /\ sign
  BY DEF Row, Top1, SignOf, Outside, OutsideSigned, Subtracts
<1>7. SubHalfCarry[i] = On(carry, "H")
      /\ SubSignCarryOverflow[i] = On(carry, "C") \cup On(beyond, "P") \cup On(sign, "S")
  <2> HIDE DEF i, carry, beyond, sign
  <2> QED BY <1>1, <1>2, <1>4, <1>6 DEF On
<1> QED BY <1>7

LEMMA OnSame ==
  ASSUME NEW c1, NEW c2, c1 <=> c2
  PROVE  \A flag : On(c1, flag) = On(c2, flag)
BY DEF On

LEMMA FieldsOf == \A x, f : [result |-> x, flags |-> f].result = x /\ [result |-> x, flags |-> f].flags = f
OBVIOUS

\* The reference in terms of the powers: a sum, a difference.
LEMMA ExpectedSum ==
  ASSUME NEW p, NEW q, NEW full, NEW half, Width(p, q, full, half),
         NEW a, NEW v, NEW c, NEW al, Rest(al, a, half), NEW vl, Rest(vl, v, half),
         NEW r, RestOfSum(r, a, v, c, full)
  PROVE  /\ SumOf(a, v, c, half, full).result = r
         /\ SumOf(a, v, c, half, full).flags =
              SumFlags(a, v, c, r, al, vl, p, q)
<1> DEFINE n == Computed(a, v, c, FALSE)
           l == Computed(a % half, v % half, c, FALSE)
           w == Computed(SignedBy(a, full), SignedBy(v, full), c, FALSE)
           sum == a + v + c
           low == al + vl + c
           signed == SignOf(a, p) + SignOf(v, p) + c
           C == On(n \notin 0..(full - 1), "C")
           H == On(l \notin 0..(half - 1), "H")
           O == On(w \notin (-(full \div 2))..((full \div 2) - 1), "P")
           S == On(2 * (n % full) >= full, "S")
           E == On(n % full = 0, "Z")
           N == On(FALSE, "N")
           f == C \cup H \cup O \cup S \cup E \cup N
<1>0. /\ p \in Int /\ q \in Int /\ full = 2 * p /\ full \div 2 = p /\ half = 2 * q
      /\ al \in Int /\ al = a % half /\ vl \in Int /\ vl = v % half
      /\ r \in Int /\ r = (a + v + c) % full /\ a \in Int /\ v \in Int /\ c \in Int
  BY DEF Width, Rest, RestOfSum
<1>1. SumOf(a, v, c, half, full) = [result |-> n % full, flags |-> f]
  BY Zenon DEF Expected, SumOf, DifferenceOf
<1>2. SignedBy(a, full) = SignOf(a, p) /\ SignedBy(v, full) = SignOf(v, p)
  BY <1>0 DEF SignedBy, SignOf
<1>3. n = sum /\ l = low /\ w = signed
  <2>1. \A x, y : Computed(x, y, c, FALSE) = x + y + c
    BY DEF Computed
  <2> QED BY <1>0, <1>2, <2>1
<1>4. sum \in Int /\ low \in Int /\ signed \in Int
  BY <1>0 DEF SignOf
<1>5. n % full = r
  BY <1>0, <1>3
<1> HIDE DEF n, l, w, sum, low, signed
<1>6. C = On(Outside(sum, p), "C")
  <2>1. (n \notin 0..(full - 1)) <=> Outside(sum, p)
    BY <1>0, <1>3, <1>4 DEF Outside
  <2> QED BY <2>1, OnSame, Zenon
<1>7. H = On(Outside(low, q), "H")
  <2>1. (l \notin 0..(half - 1)) <=> Outside(low, q)
    BY <1>0, <1>3, <1>4 DEF Outside
  <2> QED BY <2>1, OnSame, Zenon
<1>8. O = On(OutsideSigned(signed, p), "P")
  <2>1. (w \notin (-(full \div 2))..((full \div 2) - 1)) <=> OutsideSigned(signed, p)
    BY <1>0, <1>3, <1>4 DEF OutsideSigned
  <2> QED BY <2>1, OnSame, Zenon
<1>9. S = On(r >= p, "S")
  <2>1. (2 * (n % full) >= full) <=> (r >= p)
    BY <1>0, <1>5
  <2> QED BY <2>1 DEF On
<1>10. E = On(r = 0, "Z") /\ N = {}
  BY <1>5 DEF On
<1> HIDE DEF C, H, O, S, E, N
<1>11. f = On(Outside(sum, p), "C") \cup On(Outside(low, q), "H") \cup On(OutsideSigned(signed, p), "P")
             \cup On(r >= p, "S") \cup On(r = 0, "Z")
  BY <1>6, <1>7, <1>8, <1>9, <1>10
<1>12. SumOf(a, v, c, half, full) = [result |-> r, flags |-> f]
  BY <1>1, <1>5
<1> HIDE DEF f
<1>13. SumOf(a, v, c, half, full).result = r /\ SumOf(a, v, c, half, full).flags = f
  BY <1>12, FieldsOf
<1> QED BY <1>11, <1>13 DEF sum, low, signed, SumFlags

LEMMA ExpectedDifference ==
  ASSUME NEW p, NEW q, NEW full, NEW half, Width(p, q, full, half),
         NEW a, NEW v, NEW c, NEW al, Rest(al, a, half), NEW vl, Rest(vl, v, half),
         NEW r, RestOfDifference(r, a, v, c, full)
  PROVE  /\ DifferenceOf(a, v, c, half, full).result = r
         /\ DifferenceOf(a, v, c, half, full).flags =
              DifferenceFlags(a, v, c, r, al, vl, p, q)
<1> DEFINE n == Computed(a, v, c, TRUE)
           l == Computed(a % half, v % half, c, TRUE)
           w == Computed(SignedBy(a, full), SignedBy(v, full), c, TRUE)
           sum == a - v - c
           low == al - vl - c
           signed == SignOf(a, p) - SignOf(v, p) - c
           C == On(n \notin 0..(full - 1), "C")
           H == On(l \notin 0..(half - 1), "H")
           O == On(w \notin (-(full \div 2))..((full \div 2) - 1), "P")
           S == On(2 * (n % full) >= full, "S")
           E == On(n % full = 0, "Z")
           N == On(TRUE, "N")
           f == C \cup H \cup O \cup S \cup E \cup N
<1>0. /\ p \in Int /\ q \in Int /\ full = 2 * p /\ full \div 2 = p /\ half = 2 * q
      /\ al \in Int /\ al = a % half /\ vl \in Int /\ vl = v % half
      /\ r \in Int /\ r = (a - v - c) % full /\ a \in Int /\ v \in Int /\ c \in Int
  BY DEF Width, Rest, RestOfDifference
<1>1. DifferenceOf(a, v, c, half, full) = [result |-> n % full, flags |-> f]
  BY Zenon DEF Expected, SumOf, DifferenceOf
<1>2. SignedBy(a, full) = SignOf(a, p) /\ SignedBy(v, full) = SignOf(v, p)
  BY <1>0 DEF SignedBy, SignOf
<1>3. n = sum /\ l = low /\ w = signed
  <2>1. \A x, y : Computed(x, y, c, TRUE) = x - y - c
    BY DEF Computed
  <2> QED BY <1>0, <1>2, <2>1
<1>4. sum \in Int /\ low \in Int /\ signed \in Int
  BY <1>0 DEF SignOf
<1>5. n % full = r
  BY <1>0, <1>3
<1> HIDE DEF n, l, w, sum, low, signed
<1>6. C = On(Outside(sum, p), "C")
  <2>1. (n \notin 0..(full - 1)) <=> Outside(sum, p)
    BY <1>0, <1>3, <1>4 DEF Outside
  <2> QED BY <2>1, OnSame, Zenon
<1>7. H = On(Outside(low, q), "H")
  <2>1. (l \notin 0..(half - 1)) <=> Outside(low, q)
    BY <1>0, <1>3, <1>4 DEF Outside
  <2> QED BY <2>1, OnSame, Zenon
<1>8. O = On(OutsideSigned(signed, p), "P")
  <2>1. (w \notin (-(full \div 2))..((full \div 2) - 1)) <=> OutsideSigned(signed, p)
    BY <1>0, <1>3, <1>4 DEF OutsideSigned
  <2> QED BY <2>1, OnSame, Zenon
<1>9. S = On(r >= p, "S")
  <2>1. (2 * (n % full) >= full) <=> (r >= p)
    BY <1>0, <1>5
  <2> QED BY <2>1 DEF On
<1>10. E = On(r = 0, "Z") /\ N = {"N"}
  BY <1>5 DEF On
<1> HIDE DEF C, H, O, S, E, N
<1>11. f = On(Outside(sum, p), "C") \cup On(Outside(low, q), "H") \cup On(OutsideSigned(signed, p), "P")
             \cup On(r >= p, "S") \cup On(r = 0, "Z") \cup {"N"}
  BY <1>6, <1>7, <1>8, <1>9, <1>10
<1>12. DifferenceOf(a, v, c, half, full) = [result |-> r, flags |-> f]
  BY <1>1, <1>5
<1> HIDE DEF f
<1>13. DifferenceOf(a, v, c, half, full).result = r /\ DifferenceOf(a, v, c, half, full).flags = f
  BY <1>12, FieldsOf
<1> QED BY <1>11, <1>13 DEF sum, low, signed, DifferenceFlags

LEMMA ByteBits ==
  \A v \in Int : 0 <= v /\ v < 256 =>
    /\ Bit(v, 128) = Top1(v, 128) /\ Bit(v, 8) = Top1(v % 16, 8)
    /\ v % 16 \in Int /\ 0 <= v % 16 /\ v % 16 < 16
BY Z3 DEF Bit, Top1

LEMMA WordBits ==
  \A v \in Int : 0 <= v /\ v < 65536 =>
    /\ Bit(v, 32768) = Top1(v, 32768) /\ Bit(v, 2048) = Top1(v % 4096, 2048)
    /\ v % 4096 \in Int /\ 0 <= v % 4096 /\ v % 4096 < 4096
BY Z3 DEF Bit, Top1

LEMMA ByteSums ==
  ASSUME NEW a, IsByte(a), NEW v, IsByte(v), NEW c \in {0, 1}, NEW r, r = (a + v + c) % 256
  PROVE  /\ IsByte(r) /\ (r = a + v + c \/ r = a + v + c - 256)
         /\ (r % 16 = (a % 16) + (v % 16) + c \/ r % 16 = (a % 16) + (v % 16) + c - 16)
BY Z3 DEF IsByte

LEMMA ByteDifferences ==
  ASSUME NEW a, IsByte(a), NEW v, IsByte(v), NEW c \in {0, 1}, NEW r, r = (a - v - c) % 256
  PROVE  /\ IsByte(r) /\ (r = a - v - c \/ r = a - v - c + 256)
         /\ (r % 16 = (a % 16) - (v % 16) - c \/ r % 16 = (a % 16) - (v % 16) - c + 16)
BY Z3 DEF IsByte

LEMMA WordSums ==
  ASSUME NEW a, IsWord(a), NEW v, IsWord(v), NEW c \in {0, 1}, NEW r, r = (a + v + c) % 65536
  PROVE  /\ IsWord(r) /\ (r = a + v + c \/ r = a + v + c - 65536)
         /\ (r % 4096 = (a % 4096) + (v % 4096) + c \/ r % 4096 = (a % 4096) + (v % 4096) + c - 4096)
BY Z3 DEF IsWord, Word

LEMMA WordDifferences ==
  ASSUME NEW a, IsWord(a), NEW v, IsWord(v), NEW c \in {0, 1}, NEW r, r = (a - v - c) % 65536
  PROVE  /\ IsWord(r) /\ (r = a - v - c \/ r = a - v - c + 65536)
         /\ (r % 4096 = (a % 4096) - (v % 4096) - c \/ r % 4096 = (a % 4096) - (v % 4096) - c + 4096)
BY Z3 DEF IsWord, Word

LEMMA UndocUndefined == \A v : Undoc(v) \subseteq {"3", "5"}
BY DEF Undoc, On
IsUndoc(U) == U \subseteq {"3", "5"}
AddTableFlags(i, j, r, U) ==
  HalfCarry[j] \cup SignCarryOverflow[i] \cup U \cup On(r = 0, "Z")
SubTableFlags(i, j, r, U) ==
  {"N"} \cup SubHalfCarry[j] \cup SubSignCarryOverflow[i] \cup U \cup On(r = 0, "Z")

\* Flags by table are the reference's flags, once the half carry is seen to be
\* the table's: the parts that bytes and words share.
LEMMA AddTrue ==
  ASSUME NEW p, NEW q, NEW full, NEW half, Width(p, q, full, half),
         NEW a, NEW v, NEW c, NEW r, Adds(a, v, c, r, p), RestOfSum(r, a, v, c, full),
         NEW al, Rest(al, a, half), NEW vl, Rest(vl, v, half), NEW rl, Adds(al, vl, c, rl, q),
         NEW U, IsUndoc(U)
  PROVE  /\ SumOf(a, v, c, half, full).result = r
         /\ SumOf(a, v, c, half, full).flags =
              Defined(AddTableFlags(Row(a, v, r, p), Row(al, vl, rl, q), r, U))
<1> DEFINE C == On(Outside(a + v + c, p), "C")
           H == On(Outside(al + vl + c, q), "H")
           O == On(OutsideSigned(SignOf(a, p) + SignOf(v, p) + c, p), "P")
           S == On(r >= p, "S")
           E == On(r = 0, "Z")
<1>1. SignCarryOverflow[Row(a, v, r, p)] = C \cup O \cup S
  BY AddTables
<1>2. HalfCarry[Row(al, vl, rl, q)] = H
  BY AddTables
<1>3. /\ p \in Int /\ q \in Int /\ a \in Int /\ v \in Int /\ c \in Int /\ r \in Int
  BY DEF Adds, Rest, RestOfSum
<1>4. /\ SumOf(a, v, c, half, full).result = r
      /\ SumOf(a, v, c, half, full).flags = SumFlags(a, v, c, r, al, vl, p, q)
  BY ExpectedSum
<1>7. SumFlags(a, v, c, r, al, vl, p, q) = C \cup H \cup O \cup S \cup E
  BY Zenon DEF SumFlags
<1>5. C \cap {"3", "5"} = {} /\ H \cap {"3", "5"} = {} /\ O \cap {"3", "5"} = {}
      /\ S \cap {"3", "5"} = {} /\ E \cap {"3", "5"} = {}
  <2>1. \A cond : On(cond, "C") \cap {"3", "5"} = {} /\ On(cond, "H") \cap {"3", "5"} = {}
          /\ On(cond, "P") \cap {"3", "5"} = {} /\ On(cond, "S") \cap {"3", "5"} = {}
          /\ On(cond, "Z") \cap {"3", "5"} = {}
    BY DEF On
  <2> QED BY <2>1, Zenon
<1> HIDE DEF C, H, O, S, E
<1>6. Defined(H \cup (C \cup O \cup S) \cup U \cup E) = C \cup H \cup O \cup S \cup E
  BY <1>5 DEF Defined, IsUndoc
<1> QED BY <1>1, <1>2, <1>4, <1>6, <1>7 DEF E, AddTableFlags

LEMMA SubTrue ==
  ASSUME NEW p, NEW q, NEW full, NEW half, Width(p, q, full, half),
         NEW a, NEW v, NEW c, NEW r, Subtracts(a, v, c, r, p), RestOfDifference(r, a, v, c, full),
         NEW al, Rest(al, a, half), NEW vl, Rest(vl, v, half), NEW rl, Subtracts(al, vl, c, rl, q),
         NEW U, IsUndoc(U)
  PROVE  /\ DifferenceOf(a, v, c, half, full).result = r
         /\ DifferenceOf(a, v, c, half, full).flags =
              Defined(SubTableFlags(Row(a, v, r, p), Row(al, vl, rl, q), r, U))
<1> DEFINE C == On(Outside(a - v - c, p), "C")
           H == On(Outside(al - vl - c, q), "H")
           O == On(OutsideSigned(SignOf(a, p) - SignOf(v, p) - c, p), "P")
           S == On(r >= p, "S")
           E == On(r = 0, "Z")
<1>1. SubSignCarryOverflow[Row(a, v, r, p)] = C \cup O \cup S
  BY SubTables
<1>2. SubHalfCarry[Row(al, vl, rl, q)] = H
  BY SubTables
<1>3. /\ p \in Int /\ q \in Int /\ a \in Int /\ v \in Int /\ c \in Int /\ r \in Int
  BY DEF Subtracts, Rest, RestOfDifference
<1>4. /\ DifferenceOf(a, v, c, half, full).result = r
      /\ DifferenceOf(a, v, c, half, full).flags = DifferenceFlags(a, v, c, r, al, vl, p, q)
  BY ExpectedDifference
<1>7. DifferenceFlags(a, v, c, r, al, vl, p, q) = C \cup H \cup O \cup S \cup E \cup {"N"}
  BY Zenon DEF DifferenceFlags
<1>5. C \cap {"3", "5"} = {} /\ H \cap {"3", "5"} = {} /\ O \cap {"3", "5"} = {}
      /\ S \cap {"3", "5"} = {} /\ E \cap {"3", "5"} = {}
  <2>1. \A cond : On(cond, "C") \cap {"3", "5"} = {} /\ On(cond, "H") \cap {"3", "5"} = {}
          /\ On(cond, "P") \cap {"3", "5"} = {} /\ On(cond, "S") \cap {"3", "5"} = {}
          /\ On(cond, "Z") \cap {"3", "5"} = {}
    BY DEF On
  <2> QED BY <2>1, Zenon
<1> HIDE DEF C, H, O, S, E
<1>6. Defined({"N"} \cup H \cup (C \cup O \cup S) \cup U \cup E) = C \cup H \cup O \cup S \cup E \cup {"N"}
  BY <1>5 DEF Defined, IsUndoc
<1> QED BY <1>1, <1>2, <1>4, <1>6, <1>7 DEF E, SubTableFlags

\* Additions and subtractions of bytes and of words, with a carry in or without,
\* give the result and the flags that integers give.
LEMMA AddByteTrue ==
  ASSUME NEW a, IsByte(a), NEW v, IsByte(v), NEW c \in {0, 1},
         NEW r, r = (a + v + c) % 256
  PROVE  /\ SumOf(a, v, c, 16, 256).result = r
         /\ SumOf(a, v, c, 16, 256).flags = Defined(AddFlags(a, v, r))
<1> DEFINE full == 256  p == 128  half == 16  q == 8
           al == a % half  vl == v % half  rl == r % half
           U == Undoc(r)
<1>1. Adds(a, v, c, r, p)
  BY ByteSums DEF IsByte, Word, Adds
<1>2. /\ Index(a, v, r, 128) = Row(a, v, r, p)
      /\ Index(a, v, r, 8) = Row(al, vl, rl, q)
      /\ al \in Int /\ 0 <= al /\ al < half /\ vl \in Int /\ 0 <= vl /\ vl < half
      /\ rl \in Int /\ 0 <= rl /\ rl < half
  BY <1>1, ByteBits DEF Index, Row, Adds
<1>3. Adds(al, vl, c, rl, q)
  BY <1>2, ByteSums DEF Adds
<1>4. On(r % 256 = 0, "Z") = On(r = 0, "Z")
  <2>1. r % 256 = r
    BY <1>1, Z3 DEF Adds
  <2> QED BY <2>1
<1>5. full = 2 * p /\ half = 2 * q
  OBVIOUS
<1>6. full \div 2 = p
  BY Z3
<1>7. Width(p, q, full, half)
  BY <1>5, <1>6 DEF Width
<1>12. Rest(al, a, half) /\ Rest(vl, v, half) /\ RestOfSum(r, a, v, c, full)
  BY <1>1, <1>2 DEF Rest, RestOfSum, Adds
<1>8. IsUndoc(U)
  BY UndocUndefined DEF IsUndoc
<1>9. full = 256 /\ half = 16
  OBVIOUS
<1> HIDE DEF full, p, half, q, al, vl, rl
<1>10. AddFlags(a, v, r) =
         AddTableFlags(Row(a, v, r, p), Row(al, vl, rl, q), r, U)
  BY <1>2, <1>4 DEF AddTableFlags, AddFlags
<1> HIDE DEF U
<1>11. /\ SumOf(a, v, c, half, full).result = r
       /\ SumOf(a, v, c, half, full).flags =
            Defined(AddTableFlags(Row(a, v, r, p), Row(al, vl, rl, q), r, U))
  BY <1>1, <1>3, <1>7, <1>8, <1>12, AddTrue
<1> QED BY <1>9, <1>10, <1>11

LEMMA SubByteTrue ==
  ASSUME NEW a, IsByte(a), NEW v, IsByte(v), NEW c \in {0, 1},
         NEW r, r = (a - v - c) % 256
  PROVE  /\ DifferenceOf(a, v, c, 16, 256).result = r
         /\ DifferenceOf(a, v, c, 16, 256).flags = Defined(SubFlags(a, v, r))
<1> DEFINE full == 256  p == 128  half == 16  q == 8
           al == a % half  vl == v % half  rl == r % half
           U == Undoc(r)
<1>1. Subtracts(a, v, c, r, p)
  BY ByteDifferences DEF IsByte, Word, Subtracts
<1>2. /\ Index(a, v, r, 128) = Row(a, v, r, p)
      /\ Index(a, v, r, 8) = Row(al, vl, rl, q)
      /\ al \in Int /\ 0 <= al /\ al < half /\ vl \in Int /\ 0 <= vl /\ vl < half
      /\ rl \in Int /\ 0 <= rl /\ rl < half
  BY <1>1, ByteBits DEF Index, Row, Subtracts
<1>3. Subtracts(al, vl, c, rl, q)
  BY <1>2, ByteDifferences DEF Subtracts
<1>4. On(r % 256 = 0, "Z") = On(r = 0, "Z")
  <2>1. r % 256 = r
    BY <1>1, Z3 DEF Subtracts
  <2> QED BY <2>1
<1>5. full = 2 * p /\ half = 2 * q
  OBVIOUS
<1>6. full \div 2 = p
  BY Z3
<1>7. Width(p, q, full, half)
  BY <1>5, <1>6 DEF Width
<1>12. Rest(al, a, half) /\ Rest(vl, v, half) /\ RestOfDifference(r, a, v, c, full)
  BY <1>1, <1>2 DEF Rest, RestOfDifference, Subtracts
<1>8. IsUndoc(U)
  BY UndocUndefined DEF IsUndoc
<1>9. full = 256 /\ half = 16
  OBVIOUS
<1> HIDE DEF full, p, half, q, al, vl, rl
<1>10. SubFlags(a, v, r) =
         SubTableFlags(Row(a, v, r, p), Row(al, vl, rl, q), r, U)
  BY <1>2, <1>4 DEF SubTableFlags, SubFlags
<1> HIDE DEF U
<1>11. /\ DifferenceOf(a, v, c, half, full).result = r
       /\ DifferenceOf(a, v, c, half, full).flags =
            Defined(SubTableFlags(Row(a, v, r, p), Row(al, vl, rl, q), r, U))
  BY <1>1, <1>3, <1>7, <1>8, <1>12, SubTrue
<1> QED BY <1>9, <1>10, <1>11

LEMMA AdcWordTrue ==
  ASSUME NEW a, IsWord(a), NEW v, IsWord(v), NEW c \in {0, 1},
         NEW r, r = (a + v + c) % 65536
  PROVE  /\ SumOf(a, v, c, 4096, 65536).result = r
         /\ SumOf(a, v, c, 4096, 65536).flags = Defined(AdcWordFlags(a, v, r))
<1> DEFINE full == 65536  p == 32768  half == 4096  q == 2048
           al == a % half  vl == v % half  rl == r % half
           U == Undoc(r \div 256)
<1>1. Adds(a, v, c, r, p)
  BY WordSums DEF IsWord, Word, Adds
<1>2. /\ Index(a, v, r, 32768) = Row(a, v, r, p)
      /\ Index(a, v, r, 2048) = Row(al, vl, rl, q)
      /\ al \in Int /\ 0 <= al /\ al < half /\ vl \in Int /\ 0 <= vl /\ vl < half
      /\ rl \in Int /\ 0 <= rl /\ rl < half
  BY <1>1, WordBits DEF Index, Row, Adds
<1>3. Adds(al, vl, c, rl, q)
  BY <1>2, WordSums DEF Adds
<1>4. On(r % 65536 = 0, "Z") = On(r = 0, "Z")
  <2>1. r % 65536 = r
    BY <1>1, Z3 DEF Adds
  <2> QED BY <2>1
<1>5. full = 2 * p /\ half = 2 * q
  OBVIOUS
<1>6. full \div 2 = p
  BY Z3
<1>7. Width(p, q, full, half)
  BY <1>5, <1>6 DEF Width
<1>12. Rest(al, a, half) /\ Rest(vl, v, half) /\ RestOfSum(r, a, v, c, full)
  BY <1>1, <1>2 DEF Rest, RestOfSum, Adds
<1>8. IsUndoc(U)
  BY UndocUndefined DEF IsUndoc
<1>9. full = 65536 /\ half = 4096
  OBVIOUS
<1> HIDE DEF full, p, half, q, al, vl, rl
<1>10. AdcWordFlags(a, v, r) =
         AddTableFlags(Row(a, v, r, p), Row(al, vl, rl, q), r, U)
  BY <1>2, <1>4 DEF AddTableFlags, AdcWordFlags
<1> HIDE DEF U
<1>11. /\ SumOf(a, v, c, half, full).result = r
       /\ SumOf(a, v, c, half, full).flags =
            Defined(AddTableFlags(Row(a, v, r, p), Row(al, vl, rl, q), r, U))
  BY <1>1, <1>3, <1>7, <1>8, <1>12, AddTrue
<1> QED BY <1>9, <1>10, <1>11

LEMMA SbcWordTrue ==
  ASSUME NEW a, IsWord(a), NEW v, IsWord(v), NEW c \in {0, 1},
         NEW r, r = (a - v - c) % 65536
  PROVE  /\ DifferenceOf(a, v, c, 4096, 65536).result = r
         /\ DifferenceOf(a, v, c, 4096, 65536).flags = Defined(SbcWordFlags(a, v, r))
<1> DEFINE full == 65536  p == 32768  half == 4096  q == 2048
           al == a % half  vl == v % half  rl == r % half
           U == Undoc(r \div 256)
<1>1. Subtracts(a, v, c, r, p)
  BY WordDifferences DEF IsWord, Word, Subtracts
<1>2. /\ Index(a, v, r, 32768) = Row(a, v, r, p)
      /\ Index(a, v, r, 2048) = Row(al, vl, rl, q)
      /\ al \in Int /\ 0 <= al /\ al < half /\ vl \in Int /\ 0 <= vl /\ vl < half
      /\ rl \in Int /\ 0 <= rl /\ rl < half
  BY <1>1, WordBits DEF Index, Row, Subtracts
<1>3. Subtracts(al, vl, c, rl, q)
  BY <1>2, WordDifferences DEF Subtracts
<1>4. On(r % 65536 = 0, "Z") = On(r = 0, "Z")
  <2>1. r % 65536 = r
    BY <1>1, Z3 DEF Subtracts
  <2> QED BY <2>1
<1>5. full = 2 * p /\ half = 2 * q
  OBVIOUS
<1>6. full \div 2 = p
  BY Z3
<1>7. Width(p, q, full, half)
  BY <1>5, <1>6 DEF Width
<1>12. Rest(al, a, half) /\ Rest(vl, v, half) /\ RestOfDifference(r, a, v, c, full)
  BY <1>1, <1>2 DEF Rest, RestOfDifference, Subtracts
<1>8. IsUndoc(U)
  BY UndocUndefined DEF IsUndoc
<1>9. full = 65536 /\ half = 4096
  OBVIOUS
<1> HIDE DEF full, p, half, q, al, vl, rl
<1>10. SbcWordFlags(a, v, r) =
         SubTableFlags(Row(a, v, r, p), Row(al, vl, rl, q), r, U)
  BY <1>2, <1>4 DEF SubTableFlags, SbcWordFlags
<1> HIDE DEF U
<1>11. /\ DifferenceOf(a, v, c, half, full).result = r
       /\ DifferenceOf(a, v, c, half, full).flags =
            Defined(SubTableFlags(Row(a, v, r, p), Row(al, vl, rl, q), r, U))
  BY <1>1, <1>3, <1>7, <1>8, <1>12, SubTrue
<1> QED BY <1>9, <1>10, <1>11
-----------------------------------------------------------------------------
(* What an instruction finds, and what an interrupt leaves                 *)

\* The data an instruction works on: registers and flags; with the memory and
\* the stack pointer.
Alike(s, t) ==
  /\ s.a = t.a /\ s.b = t.b /\ s.c = t.c /\ s.d = t.d /\ s.e = t.e /\ s.h = t.h
  /\ s.l = t.l /\ s.f = t.f
SameData(s, t) == Alike(s, t) /\ s.mem = t.mem /\ s.sp = t.sp

\* Fetching moves the program counter and the refresh register, no data.
LEMMA SkipSame ==
  ASSUME NEW s, NEW n
  PROVE  SameData(s, Skip(s, n)) /\ SameData(s, Refreshed(s, n))
BY DEF SameData, Alike, Skip, Refreshed

LEMMA PastSame ==
  ASSUME NEW s, NEW op
  PROVE  SameData(s, Past(s, op))
BY SkipSame DEF Past, SameData, Alike

LEMMA SameChain ==
  ASSUME NEW r, NEW s, NEW t, SameData(r, s), SameData(s, t)
  PROVE  SameData(r, t)
BY DEF SameData, Alike

LEMMA AlikeChain ==
  ASSUME NEW r, NEW s, NEW t, Alike(r, s), Alike(s, t)
  PROVE  Alike(r, t)
BY DEF Alike

\* From the same data the same operands are read.
LEMMA SamePeek ==
  ASSUME NEW s, NEW t, SameData(s, t), NEW addr
  PROVE  Peek(s, addr) = Peek(t, addr)
BY DEF SameData, Peek

LEMMA SameGet ==
  ASSUME NEW s, NEW t, SameData(s, t)
  PROVE  /\ HL(s) = HL(t) /\ BC(s) = BC(t) /\ DE(s) = DE(t)
         /\ \A n \in 0..3 : GetPair(s, n) = GetPair(t, n)
         /\ \A n \in 0..7 : Get8(s, n) = Get8(t, n)
<1>1. HL(s) = HL(t) /\ BC(s) = BC(t) /\ DE(s) = DE(t) /\ s.sp = t.sp
  BY DEF SameData, Alike, HL, BC, DE
<1>2. \A n \in 0..3 : GetPair(s, n) = GetPair(t, n)
  BY <1>1 DEF GetPair
<1>3. ASSUME NEW n \in 0..7, n # 6 PROVE s[R8[n + 1]] = t[R8[n + 1]]
  <2>1. R8[1] = "b" /\ R8[2] = "c" /\ R8[3] = "d" /\ R8[4] = "e" /\ R8[5] = "h"
        /\ R8[6] = "l" /\ R8[8] = "a"
    BY DEF R8
  <2>2. n + 1 = 1 \/ n + 1 = 2 \/ n + 1 = 3 \/ n + 1 = 4 \/ n + 1 = 5 \/ n + 1 = 6 \/ n + 1 = 8
    BY <1>3
  <2> QED BY <2>1, <2>2 DEF SameData, Alike
<1>4. Peek(s, HL(s)) = Peek(t, HL(t))
  BY <1>1, SamePeek
<1> QED BY <1>1, <1>2, <1>3, <1>4 DEF Get8

\* The byte behind the opcode is what the next fetch gives, prefix or not.
LEMMA NextByte ==
  ASSUME NEW s, IsProcessor(s)
  PROVE  /\ Fetch(Refreshed(Skip(s, 1), 1)) = Peek(s, (s.pc + 1) % Word)
         /\ Fetch(Refreshed(Refreshed(Skip(s, 1), 1), 1)) = Peek(s, (s.pc + 1) % Word)
<1> DEFINE t == Skip(s, 1)  u == Refreshed(t, 1)  w == Refreshed(u, 1)
<1>1. t.pc = (s.pc + 1) % Word /\ t.mem = s.mem
  BY DEF Skip, IsProcessor, WordRegs
<1>2. u.pc = t.pc /\ u.mem = t.mem /\ w.pc = u.pc /\ w.mem = u.mem
  BY DEF Refreshed
<1> HIDE DEF t, u, w
<1>3. Peek(u, u.pc) = Peek(s, (s.pc + 1) % Word) /\ Peek(w, w.pc) = Peek(s, (s.pc + 1) % Word)
  BY <1>1, <1>2 DEF Peek
<1> QED BY <1>3 DEF Fetch, t, u, w

LEMMA PushAlike ==
  ASSUME NEW s, NEW w
  PROVE  Alike(s, Push(s, w))
BY DEF Alike, Push, PokeWord, Poke

LEMMA WokenAlike ==
  ASSUME NEW s, NEW op
  PROVE  Alike(s, Woken(s, op))
BY SkipSame DEF Woken, SameData, Alike

\* An interrupt pushes the program counter and leaves registers and flags; with
\* no line pulled there is none.
LEMMA do_nmiAlike ==
  ASSUME NEW s
  PROVE  Alike(s, do_nmi(s))
<1>1. Alike(s, Push(s, s.pc))
  BY PushAlike
<1> DEFINE t == Push(s, s.pc)
<1>2. Alike(t, do_nmi(s))
  <2> HIDE DEF t
  <2>1. do_nmi(s) = [Refreshed(t, 1) EXCEPT !.iff1 = FALSE, !.pc = 102]
    BY DEF do_nmi, t
  <2> QED BY <2>1 DEF Alike, Refreshed
<1> QED BY <1>1, <1>2, AlikeChain

LEMMA do_intAlike ==
  ASSUME NEW s
  PROVE  Alike(s, do_int(s))
<1> DEFINE r == [s EXCEPT !.iff1 = FALSE, !.iff2 = FALSE]
           t == Push(r, s.pc)
           u == Refreshed(t, 1)
<1>1. Alike(s, r)
  BY DEF Alike
<1>2. Alike(r, t)
  BY PushAlike
<1>3. Alike(t, u)
  BY SkipSame DEF SameData
<1>4. \A addr : Alike(u, JumpTo(u, addr))
  BY DEF Alike, JumpTo
<1>5. do_int(s) = JumpTo(u, IF s.im = 2 THEN PeekWord(u, 256 * s.i + 255) ELSE 56)
  BY DEF do_int
<1> HIDE DEF r, t, u
<1> QED BY <1>1, <1>2, <1>3, <1>4, <1>5, AlikeChain

LEMMA InterruptedAlike ==
  ASSUME NEW m, IsMachine(m), NEW op
  PROVE  /\ Alike(m.cpu, Interrupted(m, op).cpu)
         /\ ~m.line.irq /\ ~m.line.nmi => Interrupted(m, op) = m
<1> DEFINE w == Woken(m.cpu, op)
<1>1. Alike(m.cpu, do_nmi(w)) /\ Alike(m.cpu, do_int(w))
  BY WokenAlike, do_nmiAlike, do_intAlike, AlikeChain
<1>2. Alike(m.cpu, m.cpu)
  BY DEF Alike
<1>3. CASE TakesNmi(m)
  BY <1>1, <1>3 DEF Interrupted, TakesNmi
<1>4. CASE ~TakesNmi(m) /\ TakesInt(m, op)
  <2>1. Interrupted(m, op) = [m EXCEPT !.cpu = do_int(Woken(@, op))]
    BY <1>4 DEF Interrupted
  <2>2. Interrupted(m, op).cpu = do_int(w)
    BY <2>1 DEF IsMachine
  <2> QED BY <1>1, <1>4, <2>2 DEF TakesInt
<1>5. CASE ~TakesNmi(m) /\ ~TakesInt(m, op)
  BY <1>2, <1>5 DEF Interrupted
<1> QED BY <1>3, <1>4, <1>5
-----------------------------------------------------------------------------
(* Operations on A                                                         *)

\* The carry that the nth operation on A takes in, and its reference.
CarryIn(n, f) == IF n \in {1, 3} THEN Carry(f) ELSE 0
ExpectedOnA(n, s, v) ==
  IF n \in {2, 3, 7} THEN DifferenceOf(s.a, v, CarryIn(n, s.f), 16, 256)
                     ELSE SumOf(s.a, v, CarryIn(n, s.f), 16, 256)

LEMMA TrueOnAIs ==
  ASSUME NEW s, NEW u, NEW n, NEW v,
         ExpectedOnA(n, s, v).flags = Defined(u.f),
         u.a = IF n = 7 THEN s.a ELSE ExpectedOnA(n, s, v).result
  PROVE  TrueOnA(s, u, n, v)
<1> DEFINE sub == n \in {2, 3, 7}
           c == CarryIn(n, s.f)
           x == Expected(s.a, v, c, 16, 256, sub)
<1>1. x = ExpectedOnA(n, s, v)
  <2>1. CASE sub
    <3>1. ExpectedOnA(n, s, v) = DifferenceOf(s.a, v, c, 16, 256)
      BY <2>1 DEF ExpectedOnA
    <3>2. sub = TRUE
      BY <2>1
    <3> HIDE DEF c, sub
    <3> QED BY <3>1, <3>2, Zenon DEF DifferenceOf
  <2>2. CASE ~sub
    <3>1. ExpectedOnA(n, s, v) = SumOf(s.a, v, c, 16, 256)
      BY <2>2 DEF ExpectedOnA
    <3>2. sub = FALSE
      BY <2>2
    <3> HIDE DEF c, sub
    <3> QED BY <3>1, <3>2, Zenon DEF SumOf
  <2> QED BY <2>1, <2>2
<1>2. TrueOnA(s, u, n, v) <=> x.flags = Defined(u.f) /\ u.a = IF n = 7 THEN s.a ELSE x.result
  BY DEF TrueOnA, CarryIn
<1> HIDE DEF x
<1> QED BY <1>1, <1>2

LEMMA NoCarry ==
  ASSUME NEW a \in Int, NEW v \in Int
  PROVE  /\ (a + v) % 256 = (a + v + 0) % 256 /\ (a - v) % 256 = (a - v - 0) % 256
         /\ (a + v) % 65536 = (a + v + 0) % 65536
OBVIOUS

LEMMA Regrouped ==
  ASSUME NEW a \in Int, NEW v \in Int, NEW c \in Int
  PROVE  (a - (v + c)) % 256 = (a - v - c) % 256 /\ (a - (v + c)) % 65536 = (a - v - c) % 65536
OBVIOUS

LEMMA WithAFFields ==
  ASSUME NEW s, IsProcessor(s), NEW v, NEW f
  PROVE  WithAF(s, v, f).a = v /\ WithAF(s, v, f).f = f
BY DEF WithAF, IsProcessor, ByteRegs, FlagRegs

\* ADD, ADC, SUB, SBC and CP, applied to the state as it is after fetching, give
\* what TrueOnA asks of the state before.
LEMMA OnATrue ==
  ASSUME NEW s, IsProcessor(s), NEW p, IsProcessor(p), SameData(s, p), NEW v, IsByte(v)
  PROVE  /\ TrueOnA(s, AddByte(p, v), 0, v) /\ TrueOnA(s, AdcByte(p, v), 1, v)
         /\ TrueOnA(s, SubByte(p, v), 2, v) /\ TrueOnA(s, SbcByte(p, v), 3, v)
         /\ TrueOnA(s, Cp(p, v), 7, v)
<1>1. p.a = s.a /\ p.f = s.f /\ IsByte(s.a) /\ s.a \in Int /\ v \in Int /\ IsByte(v)
  BY Registers, BytesAreWords DEF SameData, Alike
<1> DEFINE a == s.a
           c == Carry(s.f)
<1>2. c \in {0, 1} /\ 0 \in {0, 1} /\ c \in Int
  BY CarryTyped
<1>3. TrueOnA(s, AddByte(p, v), 0, v)
  <2> DEFINE r == (a + v) % 256
  <2>1. AddByte(p, v) = WithAF(p, r, AddFlags(a, v, r))
    BY <1>1 DEF AddByte, WithAF
  <2>2. AddByte(p, v).a = r /\ AddByte(p, v).f = AddFlags(a, v, r)
    BY <2>1, WithAFFields
  <2>3. r = (a + v + 0) % 256
    BY <1>1, NoCarry
  <2>4. ExpectedOnA(0, s, v) = SumOf(a, v, 0, 16, 256)
    BY DEF ExpectedOnA, CarryIn
  <2> HIDE DEF r, a
  <2>5. SumOf(a, v, 0, 16, 256).result = r /\ SumOf(a, v, 0, 16, 256).flags = Defined(AddFlags(a, v, r))
    BY <1>1, <1>2, <2>3, AddByteTrue DEF a
  <2>6. ~(0 = 7)
    OBVIOUS
  <2> QED BY <2>2, <2>4, <2>5, <2>6, TrueOnAIs
<1>4. TrueOnA(s, AdcByte(p, v), 1, v)
  <2> DEFINE r == (a + v + c) % 256
  <2>1. AdcByte(p, v) = WithAF(p, r, AddFlags(a, v, r))
    BY <1>1 DEF AdcByte, WithAF
  <2>2. AdcByte(p, v).a = r /\ AdcByte(p, v).f = AddFlags(a, v, r)
    BY <2>1, WithAFFields
  <2>3. r = (a + v + c) % 256
    OBVIOUS
  <2>4. ExpectedOnA(1, s, v) = SumOf(a, v, c, 16, 256)
    BY DEF ExpectedOnA, CarryIn
  <2> HIDE DEF r, a, c
  <2>5. SumOf(a, v, c, 16, 256).result = r /\ SumOf(a, v, c, 16, 256).flags = Defined(AddFlags(a, v, r))
    BY <1>1, <1>2, <2>3, AddByteTrue DEF a
  <2>6. ~(1 = 7)
    OBVIOUS
  <2> QED BY <2>2, <2>4, <2>5, <2>6, TrueOnAIs
<1>5. TrueOnA(s, SubByte(p, v), 2, v)
  <2> DEFINE r == (a - v) % 256
  <2>1. SubByte(p, v) = WithAF(p, r, SubFlags(a, v, r))
    BY <1>1 DEF SubByte, WithAF
  <2>2. SubByte(p, v).a = r /\ SubByte(p, v).f = SubFlags(a, v, r)
    BY <2>1, WithAFFields
  <2>3. r = (a - v - 0) % 256
    BY <1>1, NoCarry
  <2>4. ExpectedOnA(2, s, v) = DifferenceOf(a, v, 0, 16, 256)
    BY DEF ExpectedOnA, CarryIn
  <2> HIDE DEF r, a
  <2>5. /\ DifferenceOf(a, v, 0, 16, 256).result = r
        /\ DifferenceOf(a, v, 0, 16, 256).flags = Defined(SubFlags(a, v, r))
    BY <1>1, <1>2, <2>3, SubByteTrue DEF a
  <2>6. ~(2 = 7)
    OBVIOUS
  <2> QED BY <2>2, <2>4, <2>5, <2>6, TrueOnAIs
<1>6. TrueOnA(s, SbcByte(p, v), 3, v)
  <2> DEFINE r == (a - (v + c)) % 256
  <2>1. SbcByte(p, v) = WithAF(p, r, SubFlags(a, v, r))
    BY <1>1 DEF SbcByte, WithAF
  <2>2. SbcByte(p, v).a = r /\ SbcByte(p, v).f = SubFlags(a, v, r)
    BY <2>1, WithAFFields
  <2>3. r = (a - v - c) % 256
    BY <1>1, <1>2, Regrouped
  <2>4. ExpectedOnA(3, s, v) = DifferenceOf(a, v, c, 16, 256)
    BY DEF ExpectedOnA, CarryIn
  <2> HIDE DEF r, a, c
  <2>5. /\ DifferenceOf(a, v, c, 16, 256).result = r
        /\ DifferenceOf(a, v, c, 16, 256).flags = Defined(SubFlags(a, v, r))
    BY <1>1, <1>2, <2>3, SubByteTrue DEF a
  <2>6. ~(3 = 7)
    OBVIOUS
  <2> QED BY <2>2, <2>4, <2>5, <2>6, TrueOnAIs
<1>7. TrueOnA(s, Cp(p, v), 7, v)
  <2> DEFINE r == (a - v) % 256
             f == (SubFlags(a, v, r) \ {"3", "5"}) \cup Undoc(v)
  <2>1. Cp(p, v) = WithF(p, f)
    BY <1>1 DEF Cp, WithF
  <2>2. Cp(p, v).a = a /\ Cp(p, v).f = f
    <3> HIDE DEF f
    <3> QED BY <1>1, <2>1 DEF WithF, IsProcessor, ByteRegs, FlagRegs
  <2>3. r = (a - v - 0) % 256
    BY <1>1, NoCarry
  <2>4. ExpectedOnA(7, s, v) = DifferenceOf(a, v, 0, 16, 256)
    BY DEF ExpectedOnA, CarryIn
  <2>5. Defined(f) = Defined(SubFlags(a, v, r))
    BY UndocUndefined DEF Defined
  <2> HIDE DEF r, a, f
  <2>6. DifferenceOf(a, v, 0, 16, 256).flags = Defined(SubFlags(a, v, r))
    BY <1>1, <1>2, <2>3, SubByteTrue DEF a
  <2>7. (IF 7 = 7 THEN s.a ELSE ExpectedOnA(7, s, v).result) = a
    BY DEF a
  <2> QED BY <2>2, <2>4, <2>5, <2>6, <2>7, TrueOnAIs
<1> QED BY <1>3, <1>4, <1>5, <1>6, <1>7
-----------------------------------------------------------------------------
(* Operations on HL                                                        *)

\* NEG is a subtraction from zero.
LEMMA NegateTrue ==
  ASSUME NEW s, IsProcessor(s), NEW t, IsProcessor(t), SameData(s, t)
  PROVE  TrueNegate(s, Negate(t))
<1> DEFINE a == s.a
           r == (-a) % 256
<1>1. t.a = a /\ IsByte(a) /\ a \in Int /\ IsByte(0) /\ 0 \in {0, 1}
  BY Registers, BytesAreWords DEF SameData, Alike, IsByte
<1>2. Negate(t) = WithAF(t, r, SubFlags(0, a, r))
  BY <1>1 DEF Negate, WithAF
<1>3. Negate(t).a = r /\ Negate(t).f = SubFlags(0, a, r)
  BY <1>2, WithAFFields
<1>4. r = (0 - a - 0) % 256
  BY <1>1
<1>5. TrueNegate(s, Negate(t)) <=>
        DifferenceOf(0, a, 0, 16, 256).flags = Defined(Negate(t).f)
          /\ Negate(t).a = DifferenceOf(0, a, 0, 16, 256).result
  BY DEF TrueNegate, DifferenceOf
<1> DEFINE z == 0
<1>6. r = (z - a - 0) % 256 /\ IsByte(z)
  BY <1>1, <1>4
<1> HIDE DEF a, r, z
<1>7. /\ DifferenceOf(z, a, 0, 16, 256).result = r
      /\ DifferenceOf(z, a, 0, 16, 256).flags = Defined(SubFlags(z, a, r))
  BY <1>1, <1>6, SubByteTrue
<1> QED BY <1>3, <1>5, <1>7 DEF z

LEMMA WordAgain == ASSUME NEW w, IsWord(w) PROVE w % Word = w
BY Z3 DEF IsWord, Word

\* HL holds what was put there.
LEMMA PutHL ==
  ASSUME NEW s, IsProcessor(s), NEW w, IsWord(w), NEW f
  PROVE  HL([PutPair(s, 2, w) EXCEPT !.f = f]) = w /\ [PutPair(s, 2, w) EXCEPT !.f = f].f = f
<1> DEFINE high == w \div 256
           low == w % 256
           t == [s EXCEPT !.h = high, !.l = low]
<1>1. w % Word = w
  BY WordAgain
<1>2. PutPair(s, 2, w) = t
  <2>1. PutPair(s, 2, w) = [s EXCEPT !.h = (w % Word) \div 256, !.l = (w % Word) % 256]
    BY DEF PutPair
  <2> QED BY <1>1, <2>1
<1>3. w = 256 * high + low
  BY WordHalves DEF High, Low
<1> HIDE DEF high, low
<1>4. t.h = high /\ t.l = low /\ DOMAIN t = DOMAIN s
  BY DEF IsProcessor, ByteRegs
<1> HIDE DEF t
<1>5. [t EXCEPT !.f = f].h = high /\ [t EXCEPT !.f = f].l = low /\ [t EXCEPT !.f = f].f = f
  BY <1>4 DEF IsProcessor, FlagRegs
<1> QED BY <1>2, <1>3, <1>5 DEF HL

\* ADD HL looks at the same tables as ADC HL, and keeps what it has to keep.
LEMMA WordFlagsTrue ==
  ASSUME NEW f, f \subseteq Flags, NEW a, IsWord(a), NEW v, IsWord(v), NEW r, r = (a + v + 0) % 65536
  PROVE  /\ SumOf(a, v, 0, 4096, 65536).result = r
         /\ SumOf(a, v, 0, 4096, 65536).flags \cap {"C", "H", "N"} =
              AddWordFlags(f, a, v, r) \cap {"C", "H", "N"}
         /\ AddWordFlags(f, a, v, r) \cap (Defined(Flags) \ {"C", "H", "N"}) =
              f \cap (Defined(Flags) \ {"C", "H", "N"})
<1> DEFINE half1 == HalfCarry[Index(a, v, r, 2048)]
           T == SignCarryOverflow[Index(a, v, r, 32768)]
           U == Undoc(r \div 256)
           E == On(r % 65536 = 0, "Z")
<1>1. a \in Int /\ v \in Int /\ 0 \in {0, 1}
  BY WordsAreInts
<1>2. r \in Int
  BY <1>1
<1>3. /\ SumOf(a, v, 0, 4096, 65536).result = r
      /\ SumOf(a, v, 0, 4096, 65536).flags = Defined(AdcWordFlags(a, v, r))
  BY <1>1, AdcWordTrue
<1>4. AdcWordFlags(a, v, r) = half1 \cup T \cup U \cup E
  BY DEF AdcWordFlags
<1>5. AddWordFlags(f, a, v, r) = half1 \cup (T \cap {"C"}) \cup (f \cap {"Z", "P", "S"}) \cup U
  BY DEF AddWordFlags
<1>6. Index(a, v, r, 2048) \in 1..8 /\ Index(a, v, r, 32768) \in 1..8
  BY <1>1, <1>2, IndexTyped
<1>7. half1 \subseteq {"H"} /\ T \subseteq {"C", "P", "S"}
  <2>1. \A i \in 1..8 : HalfCarry[i] \subseteq {"H"} /\ SignCarryOverflow[i] \subseteq {"C", "P", "S"}
    BY DEF HalfCarry, SignCarryOverflow
  <2> QED BY <1>6, <2>1
<1>8. U \subseteq {"3", "5"} /\ E \subseteq {"Z"}
  BY UndocUndefined DEF On
<1> DEFINE x == SumOf(a, v, 0, 4096, 65536)
<1>10. x.result = r /\ x.flags = Defined(AdcWordFlags(a, v, r))
  BY <1>3
<1> DEFINE all1 == half1 \cup T \cup U \cup E
           kept1 == half1 \cup (T \cap {"C"}) \cup (f \cap {"Z", "P", "S"}) \cup U
           some == {"C", "H", "N"}
           rest == Defined(Flags) \ {"C", "H", "N"}
           w == AddWordFlags(f, a, v, r)
<1> HIDE DEF half1, T, U, E, x, w
<1>13. AdcWordFlags(a, v, r) = all1
  BY <1>4
<1>14. w = kept1
  BY <1>5 DEF w
<1>9. x.flags = Defined(all1) /\ w = kept1
  <2> HIDE DEF all1, kept1
  <2> QED BY <1>10, <1>13, <1>14
<1>11. Defined(all1) \cap some = kept1 \cap some /\ kept1 \cap rest = f \cap rest
  BY <1>7, <1>8 DEF Defined, Flags
<1> HIDE DEF all1, kept1, some, rest
<1>12. x.result = r /\ x.flags \cap some = w \cap some /\ w \cap rest = f \cap rest
  BY <1>9, <1>10, <1>11
<1> QED BY <1>12 DEF x, w, some, rest

LEMMA PairTyped ==
  ASSUME NEW s, IsProcessor(s), NEW n \in 0..3
  PROVE  IsWord(GetPair(s, n))
BY GetPairTyped

\* The operations on HL and a pair.
LEMMA AddHLTrue ==
  ASSUME NEW s, IsProcessor(s), NEW t, IsProcessor(t), SameData(s, t), NEW op \in Int
  PROVE  TrueOnPair(s, AddHL(t, op), GetPair(s, P(op)), 0, FALSE, {"C", "H", "N"})
<1> DEFINE a == HL(s)
           v == GetPair(s, P(op))
           r == (a + v) % Word
           f == AddWordFlags(t.f, a, v, r)
           u == AddHL(t, op)
<1>1. P(op) \in 0..3
  BY OpcodeFields
<1>2. HL(t) = a /\ GetPair(t, P(op)) = v /\ t.f = s.f /\ t.f \subseteq Flags
  BY <1>1, SameGet, Registers DEF SameData, Alike
<1>3. IsWord(a) /\ IsWord(v)
  BY <1>1, PairsTyped, PairTyped
<1>4. u = [PutPair(t, 2, r) EXCEPT !.f = f]
  BY <1>2 DEF AddHL
<1>5. a \in Int /\ v \in Int
  BY <1>3, WordsAreInts
<1> HIDE DEF a, v
<1>6. IsWord(r) /\ r = (a + v + 0) % 65536
  BY <1>5, ModWord, NoCarry DEF Word
<1> HIDE DEF r, f
<1>7. HL(u) = r /\ u.f = f
  BY <1>4, <1>6, PutHL
<1> DEFINE x == SumOf(a, v, 0, 4096, 65536)
<1> DEFINE some == {"C", "H", "N"}
           rest == Defined(Flags) \ {"C", "H", "N"}
<1>9. x.result = r /\ x.flags \cap some = f \cap some /\ f \cap rest = t.f \cap rest
  <2> DEFINE g == t.f
  <2>1. g \subseteq Flags /\ f = AddWordFlags(g, a, v, r)
    BY <1>2 DEF f
  <2> HIDE DEF g
  <2>2. x.result = r /\ x.flags \cap some = AddWordFlags(g, a, v, r) \cap some
        /\ AddWordFlags(g, a, v, r) \cap rest = g \cap rest
    BY <1>3, <1>6, <2>1, WordFlagsTrue
  <2> HIDE DEF x, some, rest
  <2> QED BY <2>1, <2>2 DEF g
<1>10. TrueOnPair(s, u, v, 0, FALSE, some) <=>
        /\ HL(u) = x.result /\ x.flags \cap some = u.f \cap some /\ u.f \cap rest = s.f \cap rest
  BY DEF TrueOnPair, SumOf, a
<1> HIDE DEF u, x, some, rest
<1>11. TrueOnPair(s, u, v, 0, FALSE, some)
  BY <1>2, <1>7, <1>9, <1>10
<1> QED BY <1>11 DEF u, v, some

LEMMA AllFlags ==
  ASSUME NEW x, NEW f, x = Defined(f), f \subseteq Flags, NEW g
  PROVE  /\ x \cap Defined(Flags) = f \cap Defined(Flags)
         /\ f \cap (Defined(Flags) \ Defined(Flags)) = g \cap (Defined(Flags) \ Defined(Flags))
BY DEF Defined

LEMMA AdcPairTrue ==
  ASSUME NEW s, IsProcessor(s), NEW t, IsProcessor(t), SameData(s, t), NEW op \in Int
  PROVE  TrueOnPair(s, AdcPair(t, op), GetPair(s, P(op)), Carry(s.f), FALSE, Defined(Flags))
<1> DEFINE a == HL(s)
           v == GetPair(s, P(op))
           c == Carry(s.f)
           r == (a + v + c) % Word
           f == AdcWordFlags(a, v, r)
           u == AdcPair(t, op)
<1>1. P(op) \in 0..3
  BY OpcodeFields
<1>2. HL(t) = a /\ GetPair(t, P(op)) = v /\ t.f = s.f
  BY <1>1, SameGet DEF SameData, Alike
<1>3. IsWord(a) /\ IsWord(v) /\ c \in {0, 1} /\ c \in Int
  BY <1>1, PairsTyped, PairTyped, CarryTyped
<1>4. u = [PutPair(t, 2, r) EXCEPT !.f = f]
  BY <1>2 DEF AdcPair
<1>5. a \in Int /\ v \in Int
  BY <1>3, WordsAreInts
<1> HIDE DEF a, v, c
<1>6. IsWord(r) /\ r = (a + v + c) % 65536 /\ r \in Int
  BY <1>3, <1>5, ModWord DEF Word
<1> HIDE DEF r
<1>11. f \subseteq Flags
  BY <1>5, <1>6, TableFlagsTyped
<1> HIDE DEF f
<1>7. HL(u) = r /\ u.f = f
  BY <1>4, <1>6, PutHL
<1> DEFINE x == SumOf(a, v, c, 4096, 65536)
<1>8. TrueOnPair(s, u, v, c, FALSE, Defined(Flags)) <=>
        /\ HL(u) = x.result
        /\ x.flags \cap Defined(Flags) = u.f \cap Defined(Flags)
        /\ u.f \cap (Defined(Flags) \ Defined(Flags)) = s.f \cap (Defined(Flags) \ Defined(Flags))
  BY DEF TrueOnPair, SumOf, a, x
<1>9. /\ x.result = r
      /\ x.flags = Defined(f)
  BY <1>3, <1>6, AdcWordTrue DEF f, x
<1> HIDE DEF u, x
<1>10. TrueOnPair(s, u, v, c, FALSE, Defined(Flags))
  BY <1>7, <1>8, <1>9, <1>11, AllFlags
<1> QED BY <1>10 DEF u, v, c

LEMMA SbcPairTrue ==
  ASSUME NEW s, IsProcessor(s), NEW t, IsProcessor(t), SameData(s, t), NEW op \in Int
  PROVE  TrueOnPair(s, SbcPair(t, op), GetPair(s, P(op)), Carry(s.f), TRUE, Defined(Flags))
<1> DEFINE a == HL(s)
           v == GetPair(s, P(op))
           c == Carry(s.f)
           r == (a - (v + c)) % Word
           f == SbcWordFlags(a, v, r)
           u == SbcPair(t, op)
<1>1. P(op) \in 0..3
  BY OpcodeFields
<1>2. HL(t) = a /\ GetPair(t, P(op)) = v /\ t.f = s.f
  BY <1>1, SameGet DEF SameData, Alike
<1>3. IsWord(a) /\ IsWord(v) /\ c \in {0, 1} /\ c \in Int
  BY <1>1, PairsTyped, PairTyped, CarryTyped
<1>4. u = [PutPair(t, 2, r) EXCEPT !.f = f]
  BY <1>2 DEF SbcPair
<1>5. a \in Int /\ v \in Int
  BY <1>3, WordsAreInts
<1> HIDE DEF a, v, c
<1>6. IsWord(r) /\ r = (a - v - c) % 65536 /\ r \in Int
  BY <1>3, <1>5, ModWord, Regrouped DEF Word
<1> HIDE DEF r
<1>11. f \subseteq Flags
  BY <1>5, <1>6, TableFlagsTyped
<1> HIDE DEF f
<1>7. HL(u) = r /\ u.f = f
  BY <1>4, <1>6, PutHL
<1> DEFINE x == DifferenceOf(a, v, c, 4096, 65536)
<1>8. TrueOnPair(s, u, v, c, TRUE, Defined(Flags)) <=>
        /\ HL(u) = x.result
        /\ x.flags \cap Defined(Flags) = u.f \cap Defined(Flags)
        /\ u.f \cap (Defined(Flags) \ Defined(Flags)) = s.f \cap (Defined(Flags) \ Defined(Flags))
  BY DEF TrueOnPair, DifferenceOf, a, x
<1>9. /\ x.result = r
      /\ x.flags = Defined(f)
  BY <1>3, <1>6, SbcWordTrue DEF f, x
<1> HIDE DEF u, x
<1>10. TrueOnPair(s, u, v, c, TRUE, Defined(Flags))
  BY <1>7, <1>8, <1>9, <1>11, AllFlags
<1> QED BY <1>10 DEF u, v, c
-----------------------------------------------------------------------------
(* INC and DEC                                                             *)

\* INC and DEC: a sum and a difference with 1 that keep the carry.
LEMMA IncFlagsTrue ==
  ASSUME NEW a, IsByte(a), NEW f, NEW r, r = (a + 1) % 256
  PROVE  /\ SumOf(a, 1, 0, 16, 256).result = r
         /\ Defined(IncFlags(f, r)) = (SumOf(a, 1, 0, 16, 256).flags \ {"C"}) \cup (f \cap {"C"})
<1> DEFINE full == 256  p == 128  half == 16  q == 8  one == 1  no == 0
           al == a % half
           x == SumOf(a, one, no, half, full)
<1>1. a \in Int /\ 0 <= a /\ a < 256 /\ r \in Int /\ al \in Int /\ 0 <= al /\ al < 16
  BY Z3 DEF IsByte
<1>2. /\ a < 255 => r = a + 1
      /\ a = 255 => r = 0
  BY <1>1, Z3
<1>3. (r % 16 = 0) <=> (al = 15)
  BY <1>1, Z3
<1>4. (r \div 128 = 1) <=> (r >= 128)
  BY <1>1, <1>2, Z3
<1>5. Width(p, q, full, half)
  BY Z3 DEF Width
<1>6. Rest(al, a, half) /\ Rest(one, one, half) /\ RestOfSum(r, a, one, no, full)
  BY <1>1, Z3 DEF Rest, RestOfSum
<1>7. /\ Outside(al + 1 + 0, 8) <=> r % 16 = 0
      /\ OutsideSigned(SignOf(a, 128) + SignOf(1, 128) + 0, 128) <=> r = 128
  BY <1>1, <1>2, <1>3 DEF Outside, OutsideSigned, SignOf
<1>8. x.result = r /\ x.flags = SumFlags(a, one, no, r, al, one, p, q)
  <2> HIDE DEF full, p, half, q, one, no, al
  <2> QED BY <1>5, <1>6, ExpectedSum
<1> DEFINE C == On(Outside(a + 1 + 0, 128), "C")
           H == On(r % 16 = 0, "H")
           O == On(r = 128, "P")
           S == On(r \div 128 = 1, "S")
           E == On(r = 0, "Z")
<1>9. SumFlags(a, one, no, r, al, one, p, q) = C \cup H \cup O \cup S \cup E
  <2>1. H = On(Outside(al + 1 + 0, 8), "H")
    BY <1>7 DEF On
  <2>2. O = On(OutsideSigned(SignOf(a, 128) + SignOf(1, 128) + 0, 128), "P")
    BY <1>7 DEF On
  <2>3. S = On(r >= 128, "S")
    BY <1>4 DEF On
  <2> HIDE DEF H, O, S
  <2> QED BY <2>1, <2>2, <2>3 DEF SumFlags
<1>10. IncFlags(f, r) = (f \cap {"C"}) \cup O \cup H \cup (S \cup E) \cup Undoc(r)
  BY DEF IncFlags, SignZero
<1>11. C \subseteq {"C"} /\ H \subseteq {"H"} /\ O \subseteq {"P"} /\ S \subseteq {"S"} /\ E \subseteq {"Z"}
       /\ Undoc(r) \subseteq {"3", "5"}
  BY UndocUndefined DEF On
<1> HIDE DEF C, H, O, S, E, x
<1>12. Defined((f \cap {"C"}) \cup O \cup H \cup (S \cup E) \cup Undoc(r)) =
         ((C \cup H \cup O \cup S \cup E) \ {"C"}) \cup (f \cap {"C"})
  <2> DEFINE U == Undoc(r)
             k == f \cap {"C"}
             d == H \cup O \cup S \cup E
  <2>1. U \subseteq {"3", "5"} /\ k \subseteq {"C"} /\ d \cap {"C", "3", "5"} = {}
    BY <1>11
  <2>2. C \cup H \cup O \cup S \cup E = C \cup d /\ k \cup O \cup H \cup (S \cup E) \cup U = k \cup d \cup U
    OBVIOUS
  <2> HIDE DEF U, k, d
  <2>3. (k \cup d \cup U) \ {"3", "5"} = ((C \cup d) \ {"C"}) \cup k
    BY <1>11, <2>1
  <2> QED BY <2>2, <2>3 DEF Defined, U, k
<1>13. Defined(IncFlags(f, r)) = (x.flags \ {"C"}) \cup (f \cap {"C"})
  BY <1>8, <1>9, <1>10, <1>12
<1> QED BY <1>8, <1>13 DEF x

LEMMA DecFlagsTrue ==
  ASSUME NEW a, IsByte(a), NEW f, NEW r, r = (a - 1) % 256
  PROVE  /\ DifferenceOf(a, 1, 0, 16, 256).result = r
         /\ Defined(DecFlags(f, r)) =
              (DifferenceOf(a, 1, 0, 16, 256).flags \ {"C"}) \cup (f \cap {"C"})
<1> DEFINE full == 256  p == 128  half == 16  q == 8  one == 1  no == 0
           al == a % half
           x == DifferenceOf(a, one, no, half, full)
<1>1. a \in Int /\ 0 <= a /\ a < 256 /\ r \in Int /\ al \in Int /\ 0 <= al /\ al < 16
  BY Z3 DEF IsByte
<1>2. /\ a > 0 => r = a - 1
      /\ a = 0 => r = 255
  BY <1>1, Z3
<1>3. (r % 16 = 15) <=> (al = 0)
  BY <1>1, Z3
<1>4. (r \div 128 = 1) <=> (r >= 128)
  BY <1>1, <1>2, Z3
<1>5. Width(p, q, full, half)
  BY Z3 DEF Width
<1>6. Rest(al, a, half) /\ Rest(one, one, half) /\ RestOfDifference(r, a, one, no, full)
  BY <1>1, Z3 DEF Rest, RestOfDifference
<1>7. /\ Outside(al - 1 - 0, 8) <=> r % 16 = 15
      /\ OutsideSigned(SignOf(a, 128) - SignOf(1, 128) - 0, 128) <=> r = 127
  BY <1>1, <1>2, <1>3 DEF Outside, OutsideSigned, SignOf
<1>8. x.result = r /\ x.flags = DifferenceFlags(a, one, no, r, al, one, p, q)
  <2> HIDE DEF full, p, half, q, one, no, al
  <2> QED BY <1>5, <1>6, ExpectedDifference
<1> DEFINE C == On(Outside(a - 1 - 0, 128), "C")
           H == On(r % 16 = 15, "H")
           O == On(r = 127, "P")
           S == On(r \div 128 = 1, "S")
           E == On(r = 0, "Z")
<1>9. DifferenceFlags(a, one, no, r, al, one, p, q) = C \cup H \cup O \cup S \cup E \cup {"N"}
  <2>1. H = On(Outside(al - 1 - 0, 8), "H")
    BY <1>7 DEF On
  <2>2. O = On(OutsideSigned(SignOf(a, 128) - SignOf(1, 128) - 0, 128), "P")
    BY <1>7 DEF On
  <2>3. S = On(r >= 128, "S")
    BY <1>4 DEF On
  <2> HIDE DEF H, O, S
  <2> QED BY <2>1, <2>2, <2>3 DEF DifferenceFlags
<1>10. DecFlags(f, r) = (f \cap {"C"}) \cup {"N"} \cup O \cup H \cup (S \cup E) \cup Undoc(r)
  BY DEF DecFlags, SignZero
<1>11. C \subseteq {"C"} /\ H \subseteq {"H"} /\ O \subseteq {"P"} /\ S \subseteq {"S"} /\ E \subseteq {"Z"}
       /\ Undoc(r) \subseteq {"3", "5"}
  BY UndocUndefined DEF On
<1> HIDE DEF C, H, O, S, E, x
<1>12. Defined((f \cap {"C"}) \cup {"N"} \cup O \cup H \cup (S \cup E) \cup Undoc(r)) =
         ((C \cup H \cup O \cup S \cup E \cup {"N"}) \ {"C"}) \cup (f \cap {"C"})
  <2> DEFINE U == Undoc(r)
             k == f \cap {"C"}
             d == H \cup O \cup S \cup E \cup {"N"}
  <2>1. U \subseteq {"3", "5"} /\ k \subseteq {"C"} /\ d \cap {"C", "3", "5"} = {}
    BY <1>11
  <2>2. /\ C \cup H \cup O \cup S \cup E \cup {"N"} = C \cup d
        /\ k \cup {"N"} \cup O \cup H \cup (S \cup E) \cup U = k \cup d \cup U
    OBVIOUS
  <2> HIDE DEF U, k, d
  <2>3. (k \cup d \cup U) \ {"3", "5"} = ((C \cup d) \ {"C"}) \cup k
    BY <1>11, <2>1
  <2> QED BY <2>2, <2>3 DEF Defined, U, k
<1>13. Defined(DecFlags(f, r)) = (x.flags \ {"C"}) \cup (f \cap {"C"})
  BY <1>8, <1>9, <1>10, <1>12
<1> QED BY <1>8, <1>13 DEF x

\* What is put into a register, or to memory at HL, is there.
LEMMA PutGet ==
  ASSUME NEW t, IsProcessor(t), NEW n \in 0..7, NEW v
  PROVE  /\ Put8(t, n, v).f = t.f /\ "f" \in DOMAIN Put8(t, n, v)
         /\ \A g : Get8(WithF(Put8(t, n, v), g), n) = v
<1>1. CASE n = 6
  <2> DEFINE m == [x \in DOMAIN t.mem \cup {HL(t)} |-> IF x = HL(t) THEN v ELSE t.mem[x]]
             w == [t EXCEPT !.mem = m]
  <2>1. Put8(t, n, v) = w
    BY <1>1 DEF Put8, Poke
  <2>2. m[HL(t)] = v /\ HL(t) \in DOMAIN m
    OBVIOUS
  <2> HIDE DEF m
  <2>3. w.mem = m /\ w.f = t.f /\ w.h = t.h /\ w.l = t.l /\ DOMAIN w = DOMAIN t /\ "f" \in DOMAIN w
    BY DEF IsProcessor, FlagRegs
  <2> HIDE DEF w
  <2>4. ASSUME NEW g PROVE Get8(WithF(w, g), n) = v
    <3>1. WithF(w, g).mem = m /\ WithF(w, g).h = t.h /\ WithF(w, g).l = t.l
      BY <2>3 DEF WithF
    <3>2. HL(WithF(w, g)) = HL(t)
      BY <3>1 DEF HL
    <3> QED BY <1>1, <2>2, <3>1, <3>2 DEF Get8, Peek
  <2> QED BY <2>1, <2>3, <2>4
<1>2. CASE n # 6
  <2> DEFINE x == R8[n + 1]
             w == [t EXCEPT ![x] = v]
  <2>1. Put8(t, n, v) = w
    BY <1>2 DEF Put8
  <2>2. x \in ByteRegs
    BY <1>2, RegisterNames
  <2>3. x \in DOMAIN t /\ "f" \in DOMAIN t /\ x # "f"
    BY <2>2 DEF IsProcessor, ByteRegs, FlagRegs
  <2>4. \A s : Get8(s, n) = s[x]
    BY <1>2 DEF Get8
  <2> HIDE DEF x
  <2>5. w[x] = v /\ w.f = t.f /\ DOMAIN w = DOMAIN t
    BY <2>3
  <2> HIDE DEF w
  <2>6. \A g : WithF(w, g)[x] = v
    BY <2>3, <2>5 DEF WithF
  <2> QED BY <2>1, <2>3, <2>4, <2>5, <2>6
<1> QED BY <1>1, <1>2

\* INC and DEC of a register or of memory.
LEMMA StepsTrue ==
  ASSUME NEW s, IsProcessor(s), NEW t, IsProcessor(t), SameData(s, t), NEW op \in Int
  PROVE  TrueStep(s, Inc(t, op), Y(op), FALSE) /\ TrueStep(s, Dec(t, op), Y(op), TRUE)
<1> DEFINE n == Y(op)
           a == Get8(s, n)
<1>1. n \in 0..7
  BY OpcodeFields
<1>2. Get8(t, n) = a /\ t.f = s.f /\ IsByte(a) /\ a \in Int
  BY <1>1, SameGet, Get8Typed, BytesAreWords DEF SameData, Alike
<1> HIDE DEF n, a
<1>3. TrueStep(s, Inc(t, op), n, FALSE)
  <2> DEFINE r == (a + 1) % 256
             f == IncFlags(t.f, r)
             u == Inc(t, op)
             x == SumOf(a, 1, 0, 16, 256)
  <2>1. u = WithF(Put8(t, n, r), f)
    BY <1>1, <1>2, PutGet DEF Inc, WithF, n
  <2>2. x.result = r /\ Defined(f) = (x.flags \ {"C"}) \cup (s.f \cap {"C"})
    BY <1>2, IncFlagsTrue
  <2>3. TrueStep(s, u, n, FALSE) <=>
          Get8(u, n) = x.result /\ Defined(u.f) = (x.flags \ {"C"}) \cup (s.f \cap {"C"})
    BY DEF TrueStep, SumOf, a
  <2> HIDE DEF r, f, x
  <2>6. Get8(u, n) = r
    BY <1>1, <2>1, PutGet
  <2> DEFINE w == Put8(t, n, r)
  <2>7. "f" \in DOMAIN w /\ u = WithF(w, f)
    BY <1>1, <2>1, PutGet
  <2> HIDE DEF w, u
  <2>8. u.f = f
    BY <2>7 DEF WithF
  <2>4. Get8(u, n) = r /\ u.f = f
    BY <2>6, <2>8
  <2>5. TrueStep(s, u, n, FALSE)
    BY <2>2, <2>3, <2>4
  <2> QED BY <2>5 DEF u
<1>4. TrueStep(s, Dec(t, op), n, TRUE)
  <2> DEFINE r == (a - 1) % 256
             f == DecFlags(t.f, r)
             u == Dec(t, op)
             x == DifferenceOf(a, 1, 0, 16, 256)
  <2>1. u = WithF(Put8(t, n, r), f)
    BY <1>1, <1>2, PutGet DEF Dec, WithF, n
  <2>2. x.result = r /\ Defined(f) = (x.flags \ {"C"}) \cup (s.f \cap {"C"})
    BY <1>2, DecFlagsTrue
  <2>3. TrueStep(s, u, n, TRUE) <=>
          Get8(u, n) = x.result /\ Defined(u.f) = (x.flags \ {"C"}) \cup (s.f \cap {"C"})
    BY DEF TrueStep, DifferenceOf, a
  <2> HIDE DEF r, f, x
  <2>6. Get8(u, n) = r
    BY <1>1, <2>1, PutGet
  <2> DEFINE w == Put8(t, n, r)
  <2>7. "f" \in DOMAIN w /\ u = WithF(w, f)
    BY <1>1, <2>1, PutGet
  <2> HIDE DEF w, u
  <2>8. u.f = f
    BY <2>7 DEF WithF
  <2>4. Get8(u, n) = r /\ u.f = f
    BY <2>6, <2>8
  <2>5. TrueStep(s, u, n, TRUE)
    BY <2>2, <2>3, <2>4
  <2> QED BY <2>5 DEF u
<1> QED BY <1>3, <1>4 DEF n
-----------------------------------------------------------------------------
(* From the opcode to the operation                                        *)

\* The opcodes of a row are those of the registers and one with an operand.
LEMMA ArithmeticRows ==
  ASSUME NEW n \in 0..7, NEW op \in Int, op \in Arithmetic(n)
  PROVE  op = 198 + 8 * n \/ (128 <= op /\ op < 192 /\ op >= 128 + 8 * n /\ op <= 135 + 8 * n)
BY DEF Arithmetic

LEMMA RowsApart ==
  ASSUME NEW m \in 0..7, NEW n \in 0..7, NEW op \in Int, op \in Arithmetic(m), op \in Arithmetic(n)
  PROVE  m = n
BY ArithmeticRows

\* Opcodes lead to their operations: the rows of arithmetic.
LEMMA RowInstruction ==
  ASSUME NEW s, NEW op \in Int
  PROVE  /\ op \in Arithmetic(0) => ArithmeticInstruction(s, op) = Add(s, op)
         /\ op \in Arithmetic(1) => ArithmeticInstruction(s, op) = Adc(s, op)
         /\ op \in Arithmetic(2) => ArithmeticInstruction(s, op) = Sub(s, op)
         /\ op \in Arithmetic(3) => ArithmeticInstruction(s, op) = Sbc(s, op)
         /\ op \in Arithmetic(7) => ArithmeticInstruction(s, op) = Compare(s, op)
<1>1. \A m, n \in 0..7 : op \in Arithmetic(m) /\ op \in Arithmetic(n) => m = n
  BY RowsApart
<1> DEFINE in0 == op \in Arithmetic(0)  in1 == op \in Arithmetic(1)
           in2 == op \in Arithmetic(2)  in3 == op \in Arithmetic(3)
           in4 == op \in Arithmetic(4)  in5 == op \in Arithmetic(5)
           in6 == op \in Arithmetic(6)  in7 == op \in Arithmetic(7)
<1>2. /\ in0 => ~in1 /\ ~in2 /\ ~in3 /\ ~in4 /\ ~in5 /\ ~in6 /\ ~in7
      /\ in1 => ~in0 /\ ~in2 /\ ~in3 /\ ~in4 /\ ~in5 /\ ~in6 /\ ~in7
      /\ in2 => ~in0 /\ ~in1 /\ ~in3 /\ ~in4 /\ ~in5 /\ ~in6 /\ ~in7
      /\ in3 => ~in0 /\ ~in1 /\ ~in2 /\ ~in4 /\ ~in5 /\ ~in6 /\ ~in7
      /\ in7 => ~in0 /\ ~in1 /\ ~in2 /\ ~in3 /\ ~in4 /\ ~in5 /\ ~in6
  BY <1>1
<1> DEFINE x == ArithmeticInstruction(s, op)
<1>3. x =
        CASE in0 -> Add(s, op) [] in1 -> Adc(s, op) [] in2 -> Sub(s, op) [] in3 -> Sbc(s, op)
          [] in4 -> And(s, op) [] in5 -> Xor(s, op) [] in6 -> Or(s, op) [] in7 -> Compare(s, op)
  BY DEF ArithmeticInstruction
<1> HIDE DEF in0, in1, in2, in3, in4, in5, in6, in7, x
<1>4. ASSUME in0 PROVE x = Add(s, op)
  BY <1>2, <1>3, <1>4
<1>5. ASSUME in1 PROVE x = Adc(s, op)
  BY <1>2, <1>3, <1>5
<1>6. ASSUME in2 PROVE x = Sub(s, op)
  BY <1>2, <1>3, <1>6
<1>7. ASSUME in3 PROVE x = Sbc(s, op)
  BY <1>2, <1>3, <1>7
<1>8. ASSUME in7 PROVE x = Compare(s, op)
  BY <1>2, <1>3, <1>8
<1> QED BY <1>4, <1>5, <1>6, <1>7, <1>8 DEF in0, in1, in2, in3, in7, x

LEMMA ColumnOf ==
  ASSUME NEW n \in 0..7
  PROVE  LET op == 198 + 8 * n IN
         /\ op \notin {192 + 8 * k : k \in 0..7} /\ op \notin {194 + 8 * k : k \in 0..7}
         /\ op \notin {196 + 8 * k : k \in 0..7} /\ op \notin {199 + 8 * k : k \in 0..7}
OBVIOUS

LEMMA HighColumn ==
  ASSUME NEW n \in 0..7, NEW s, NEW in
  PROVE  HighInstruction(s, 198 + 8 * n, in) = ArithmeticInstruction(s, 198 + 8 * n)
<1> DEFINE op == 198 + 8 * n
           Col(k) == {k + 8 * i : i \in 0..7}
<1>1. op \notin Col(192) /\ op \notin Col(194) /\ op \notin Col(196) /\ op \notin Col(199)
  BY ColumnOf
<1>2. op \notin {193, 209, 225, 241, 197, 213, 229, 245, 195, 201, 205, 211, 219, 217,
                 227, 233, 235, 243, 249, 251, 203, 221, 237, 253}
  BY Octal
<1> HIDE DEF op
<1>3. HighInstruction(s, op, in) = ArithmeticInstruction(s, op)
  BY <1>1, <1>2 DEF HighInstruction
<1> QED BY <1>3 DEF op

LEMMA ArithmeticDispatch ==
  ASSUME NEW s, NEW in, NEW n \in 0..7, NEW op \in Int, op \in Arithmetic(n)
  PROVE  Instruction(s, op, in) = ArithmeticInstruction(s, op)
<1>1. CASE op = 198 + 8 * n
  <2>1. ~(op < 64) /\ op \notin 64..127 /\ op \notin 128..191 /\ op > 191
    BY <1>1
  <2>2. HighInstruction(s, op, in) = ArithmeticInstruction(s, op)
    BY <1>1, HighColumn
  <2> QED BY <2>1, <2>2 DEF Instruction
<1>2. CASE 128 <= op /\ op < 192
  <2>1. ~(op < 64) /\ op \notin 64..127 /\ op \in 128..191
    BY <1>2
  <2> QED BY <2>1 DEF Instruction
<1> QED BY <1>1, <1>2, ArithmeticRows

LEMMA ArithmeticOnA ==
  ASSUME NEW s, IsProcessor(s), NEW t, IsProcessor(t), SameData(s, t), NEW in,
         NEW op, IsByte(op), NEW n \in {0, 1, 2, 3, 7}, op \in Arithmetic(n)
  PROVE  TrueOnA(s, Instruction(t, op, in), n, IF op >= 192 THEN Fetch(t) ELSE Get8(s, Z(op)))
<1> DEFINE p == Past(t, op)
           v == Operand(t, op)
           w == IF op >= 192 THEN Fetch(t) ELSE Get8(s, Z(op))
           u == Instruction(t, op, in)
<1>1. op \in Int /\ n \in 0..7 /\ Z(op) \in 0..7
  BY OpcodeFields, BytesAreWords
<1>2. IsProcessor(p) /\ IsByte(v)
  BY <1>1, OperandTyped
<1>3. SameData(s, p)
  BY PastSame, SameChain
<1>4. v = w
  BY <1>1, SameGet DEF Operand
<1>5. u = ArithmeticInstruction(t, op)
  BY <1>1, ArithmeticDispatch
<1>6. /\ Add(t, op) = AddByte(p, v) /\ Adc(t, op) = AdcByte(p, v) /\ Sub(t, op) = SubByte(p, v)
      /\ Sbc(t, op) = SbcByte(p, v) /\ Compare(t, op) = Cp(p, v)
  BY DEF Add, Adc, Sub, Sbc, Compare
<1> HIDE DEF p, v, u, w
<1>7. TrueOnA(s, u, n, v)
  <2>1. CASE n = 0
    BY <1>1, <1>2, <1>3, <1>5, <1>6, <2>1, RowInstruction, OnATrue
  <2>2. CASE n = 1
    BY <1>1, <1>2, <1>3, <1>5, <1>6, <2>2, RowInstruction, OnATrue
  <2>3. CASE n = 2
    BY <1>1, <1>2, <1>3, <1>5, <1>6, <2>3, RowInstruction, OnATrue
  <2>4. CASE n = 3
    BY <1>1, <1>2, <1>3, <1>5, <1>6, <2>4, RowInstruction, OnATrue
  <2>5. CASE n = 7
    BY <1>1, <1>2, <1>3, <1>5, <1>6, <2>5, RowInstruction, OnATrue
  <2> QED BY <2>1, <2>2, <2>3, <2>4, <2>5
<1> QED BY <1>4, <1>7 DEF u, w

\* ... what stands behind ED, ADD HL, and the columns of INC and DEC.
LEMMA EdDispatch ==
  ASSUME NEW t, NEW in
  PROVE  Instruction(t, 237, in) = EdInstruction(Refreshed(t, 1), in)
<1> DEFINE op == 237
           Col(k) == {k + 8 * i : i \in 0..7}
<1>1. ~(op < 64) /\ op \notin 64..127 /\ op \notin 128..191 /\ op > 191
  OBVIOUS
<1>2. op \notin Col(192) /\ op \notin Col(194) /\ op \notin Col(196) /\ op \notin Col(199)
  OBVIOUS
<1>3. op \notin {193, 209, 225, 241, 197, 213, 229, 245, 195, 201, 205, 211, 219, 217,
                 227, 233, 235, 243, 249, 251, 203, 221, 253}
  OBVIOUS
<1>4. op = 237
  OBVIOUS
<1> HIDE DEF op
<1>5. HighInstruction(t, op, in) = EdInstruction(Refreshed(t, 1), in)
  BY <1>2, <1>3, <1>4 DEF HighInstruction
<1>6. Instruction(t, op, in) = EdInstruction(Refreshed(t, 1), in)
  BY <1>1, <1>5 DEF Instruction
<1> QED BY <1>4, <1>6

LEMMA EdColumns ==
  ASSUME NEW t, NEW in
  PROVE  LET op == Fetch(t)  u == Skip(t, 1) IN
         /\ op \in {66, 82, 98, 114} => EdInstruction(t, in) = SbcPair(u, op)
         /\ op \in {74, 90, 106, 122} => EdInstruction(t, in) = AdcPair(u, op)
         /\ op = 68 => EdInstruction(t, in) = Negate(u)
BY DEF EdInstruction

LEMMA AddHLDispatch ==
  ASSUME NEW t, NEW in, NEW op \in {9, 25, 41, 57}
  PROVE  Instruction(t, op, in) = AddHL(t, op)
<1>1. op < 64 /\ op \notin 64..127 /\ op \notin 128..191 /\ ~(op > 191)
  OBVIOUS
<1>2. LowInstruction(t, op) = AddHL(t, op)
  BY DEF LowInstruction
<1> QED BY <1>1, <1>2 DEF Instruction

LEMMA CountDispatch ==
  ASSUME NEW t, NEW in, NEW n \in 0..7
  PROVE  /\ Instruction(t, 4 + 8 * n, in) = Inc(t, 4 + 8 * n)
         /\ Instruction(t, 5 + 8 * n, in) = Dec(t, 5 + 8 * n)
<1> DEFINE Col(k) == {k + 8 * i : i \in 0..7}
           Others == {9, 25, 41, 57, 1, 17, 33, 49, 3, 19, 35, 51, 11, 27, 43, 59, 2, 18, 10, 26,
                      34, 42, 50, 58, 8, 16, 24, 32, 40, 48, 56, 7, 15, 23, 31, 39, 47, 55, 63}
<1>1. ASSUME NEW op, op = 4 + 8 * n PROVE Instruction(t, op, in) = Inc(t, op)
  <2>1. op < 64 /\ op \notin 64..127 /\ op \notin 128..191 /\ ~(op > 191) /\ op # 0
    BY <1>1
  <2>2. op \in Col(4) /\ op \notin Col(5) /\ op \notin Col(6)
    BY <1>1
  <2>3. op \notin Others
    BY <1>1, Octal
  <2>4. LowInstruction(t, op) = Inc(t, op)
    BY <2>1, <2>2, <2>3 DEF LowInstruction
  <2> QED BY <2>1, <2>4 DEF Instruction
<1>2. ASSUME NEW op, op = 5 + 8 * n PROVE Instruction(t, op, in) = Dec(t, op)
  <2>1. op < 64 /\ op \notin 64..127 /\ op \notin 128..191 /\ ~(op > 191) /\ op # 0
    BY <1>2
  <2>2. op \in Col(5) /\ op \notin Col(4) /\ op \notin Col(6)
    BY <1>2
  <2>3. op \notin Others
    BY <1>2, Octal
  <2>4. LowInstruction(t, op) = Dec(t, op)
    BY <2>1, <2>2, <2>3 DEF LowInstruction
  <2> QED BY <2>1, <2>4 DEF Instruction
<1> QED BY <1>1, <1>2
-----------------------------------------------------------------------------
(* A whole turn                                                            *)

\* What an instruction made true stays true when an interrupt follows.
LEMMA CarriedOn ==
  ASSUME NEW v, NEW u, Alike(v, u), NEW s, NEW n, NEW x
  PROVE  /\ TrueOnA(s, v, n, x) => TrueOnA(s, u, n, x)
         /\ TrueNegate(s, v) => TrueNegate(s, u)
<1>1. v.a = u.a /\ v.f = u.f
  BY DEF Alike
<1>2. TrueOnA(s, v, n, x) => TrueOnA(s, u, n, x)
  BY <1>1 DEF TrueOnA
<1>3. TrueNegate(s, v) => TrueNegate(s, u)
  BY <1>1 DEF TrueNegate
<1> QED BY <1>2, <1>3

LEMMA CarriedOnPair ==
  ASSUME NEW v, NEW u, Alike(v, u), NEW s, NEW x, NEW c, NEW sub, NEW flags,
         TrueOnPair(s, v, x, c, sub, flags)
  PROVE  TrueOnPair(s, u, x, c, sub, flags)
<1>1. HL(v) = HL(u) /\ v.f = u.f
  BY DEF Alike, HL
<1> QED BY <1>1 DEF TrueOnPair

LEMMA CarriedStep ==
  ASSUME NEW v, NEW u, Alike(v, u), NEW s, NEW n \in 0..7, n # 6, NEW sub, TrueStep(s, v, n, sub)
  PROVE  TrueStep(s, u, n, sub)
<1>1. v.f = u.f
  BY DEF Alike
<1>2. v[R8[n + 1]] = u[R8[n + 1]]
  <2>1. R8[1] = "b" /\ R8[2] = "c" /\ R8[3] = "d" /\ R8[4] = "e" /\ R8[5] = "h"
        /\ R8[6] = "l" /\ R8[8] = "a"
    BY DEF R8
  <2>2. n + 1 = 1 \/ n + 1 = 2 \/ n + 1 = 3 \/ n + 1 = 4 \/ n + 1 = 5 \/ n + 1 = 6 \/ n + 1 = 8
    OBVIOUS
  <2> QED BY <2>1, <2>2 DEF Alike
<1>3. Get8(v, n) = Get8(u, n)
  BY <1>2 DEF Get8
<1> QED BY <1>1, <1>3 DEF TrueStep

\* One instruction, and what may follow it before the turn is over.
LEMMA ExecutedTrue ==
  ASSUME NEW s, IsProcessor(s), NEW in, NEW t, t = Refreshed(Skip(s, 1), 1),
         NEW u, Alike(Instruction(t, Fetch(s), in), u), NEW disturbed,
         ~disturbed => u = Instruction(t, Fetch(s), in)
  PROVE  TrueArithmetic(s, u, disturbed)
<1> DEFINE op == Fetch(s)
           op2 == Peek(s, (s.pc + 1) % Word)
           v == Instruction(t, op, in)
           w == Refreshed(t, 1)
           x == Skip(w, 1)
<1>1. IsByte(op) /\ op \in Int
  BY FetchTyped, BytesAreWords
<1>2. IsProcessor(t) /\ IsProcessor(w) /\ IsProcessor(x)
  BY SkipTyped, RefreshedTyped
<1>3. SameData(s, t) /\ SameData(s, x)
  BY SkipSame, SameChain
<1>4. Fetch(t) = op2 /\ Fetch(w) = op2
  BY NextByte
<1>5. IsByte(op2) /\ op2 \in Int
  BY <1>2, <1>4, FetchTyped, BytesAreWords
<1>6. Alike(v, u) /\ (~disturbed => u = v)
  OBVIOUS
<1>7. op = 237 => v = EdInstruction(w, in)
  BY EdDispatch
<1> HIDE DEF op, op2, v, w, x
<1>8. ASSUME NEW n \in {0, 1, 2, 3, 7}, op \in Arithmetic(n)
      PROVE  TrueOnA(s, u, n, IF op >= 192 THEN op2 ELSE Get8(s, Z(op)))
  <2>1. TrueOnA(s, v, n, IF op >= 192 THEN op2 ELSE Get8(s, Z(op)))
    BY <1>1, <1>2, <1>3, <1>4, <1>8, ArithmeticOnA DEF v
  <2> QED BY <1>6, <2>1, CarriedOn
<1>9. ASSUME op = 237, op2 = 68 PROVE TrueNegate(s, u)
  <2>1. v = Negate(x)
    BY <1>4, <1>7, <1>9, EdColumns DEF x
  <2> QED BY <1>2, <1>3, <1>6, <2>1, NegateTrue, CarriedOn
<1>10. ASSUME op \in {9, 25, 41, 57}
       PROVE  TrueOnPair(s, u, GetPair(s, P(op)), 0, FALSE, {"C", "H", "N"})
  <2>1. v = AddHL(t, op)
    BY <1>10, AddHLDispatch DEF v
  <2> QED BY <1>1, <1>2, <1>3, <1>6, <2>1, AddHLTrue, CarriedOnPair
<1>11. ASSUME op = 237, op2 \in {66, 82, 98, 114}
       PROVE  TrueOnPair(s, u, GetPair(s, P(op2)), Carry(s.f), TRUE, Defined(Flags))
  <2>1. v = SbcPair(x, op2)
    BY <1>4, <1>7, <1>11, EdColumns DEF x
  <2> QED BY <1>2, <1>3, <1>5, <1>6, <2>1, SbcPairTrue, CarriedOnPair
<1>12. ASSUME op = 237, op2 \in {74, 90, 106, 122}
       PROVE  TrueOnPair(s, u, GetPair(s, P(op2)), Carry(s.f), FALSE, Defined(Flags))
  <2>1. v = AdcPair(x, op2)
    BY <1>4, <1>7, <1>12, EdColumns DEF x
  <2> QED BY <1>2, <1>3, <1>5, <1>6, <2>1, AdcPairTrue, CarriedOnPair
<1>13. Y(op) \in 0..7
  BY <1>1, OpcodeFields
<1>14. ASSUME op \in {4 + 8 * n : n \in 0..7}, ~(Y(op) = 6 /\ disturbed)
       PROVE  TrueStep(s, u, Y(op), FALSE)
  <2>1. v = Inc(t, op)
    BY <1>14, CountDispatch DEF v
  <2>2. TrueStep(s, v, Y(op), FALSE)
    BY <1>1, <1>2, <1>3, <2>1, StepsTrue
  <2> QED BY <1>6, <1>13, <1>14, <2>2, CarriedStep
<1>15. ASSUME op \in {5 + 8 * n : n \in 0..7}, ~(Y(op) = 6 /\ disturbed)
       PROVE  TrueStep(s, u, Y(op), TRUE)
  <2>1. v = Dec(t, op)
    BY <1>15, CountDispatch DEF v
  <2>2. TrueStep(s, v, Y(op), TRUE)
    BY <1>1, <1>2, <1>3, <2>1, StepsTrue
  <2> QED BY <1>6, <1>13, <1>15, <2>2, CarriedStep
<1> QED BY <1>8, <1>9, <1>10, <1>11, <1>12, <1>14, <1>15 DEF TrueArithmetic, op, op2

LEMMA NotArithmetic ==
  ASSUME NEW s, Fetch(s) = 118, NEW u, NEW disturbed
  PROVE  TrueArithmetic(s, u, disturbed)
<1> DEFINE op == Fetch(s)
<1>1. \A n \in {0, 1, 2, 3, 7} : 118 \notin Arithmetic(n)
  BY DEF Arithmetic
<1>2. op \notin {4 + 8 * n : n \in 0..7} /\ op \notin {5 + 8 * n : n \in 0..7}
  OBVIOUS
<1> QED BY <1>1, <1>2 DEF TrueArithmetic

\* One turn, with the interrupt it may end in.
LEMMA TurnTrue ==
  ASSUME IsProcessor(cpu), IsLine(line), NEW in \in Ins
  PROVE  TrueArithmetic(cpu, Turn(cpu, line, in, TRUE).cpu, line.irq \/ line.nmi)
<1> DEFINE op == Fetch(cpu)
           t == Refreshed(Skip(cpu, 1), 1)
           x == [cpu |-> cpu, line |-> line]
           m == Executed(x, in)
           v == Instruction(t, op, in)
           u == Turn(cpu, line, in, TRUE).cpu
<1>1. CASE op = 118
  <2>1. \A v1, x1 : TrueArithmetic(cpu, v1, x1)
    BY <1>1, NotArithmetic
  <2> QED BY <2>1, Zenon
<1>2. CASE op # 118
  <2>1. IsByte(in) /\ IsMachine(x)
    BY Z80Assumption DEF IsByte, IsMachine
  <2>2. m = [x EXCEPT !.cpu = v]
    BY <1>2 DEF Executed
  <2>3. x.line = line /\ x = [cpu |-> cpu, line |-> line]
    OBVIOUS
  <2>4. IsMachine(m)
    <3> HIDE DEF x
    <3> QED BY <2>1, ExecutedTyped
  <2> HIDE DEF v
  <2>5. m.cpu = v /\ m.line = line
    BY <2>2
  <2>6. u = Interrupted(m, op).cpu
    BY DEF Turn
  <2> HIDE DEF m, op, t, x
  <2>7. Alike(v, u) /\ (~(line.irq \/ line.nmi) => u = v)
    <3> HIDE DEF u
    <3> QED BY <2>4, <2>5, <2>6, InterruptedAlike
  <2> DEFINE disturbed == line.irq \/ line.nmi
  <2>8. TrueArithmetic(cpu, u, disturbed)
    <3> HIDE DEF u, disturbed
    <3>1. Alike(Instruction(t, Fetch(cpu), in), u) /\ (~disturbed => u = Instruction(t, Fetch(cpu), in))
      BY <2>7 DEF v, op, disturbed
    <3> QED BY <3>1, ExecutedTrue DEF t
  <2> QED BY <2>8
<1> QED BY <1>1, <1>2

\* Every arithmetic instruction, on all operands in any state: the flags found in
\* the tables by single bits, and the results, are those of integer arithmetic,
\* also when an interrupt comes at once (z80.c:101-301).
THEOREM ArithmeticHolds == TaskSpec => ArithmeticTrue
<1>1. MachineTyped /\ [TaskNext]_taskVars
        => [z80_run => TrueArithmetic(cpu, cpu', line.irq \/ line.nmi)]_taskVars
  <2> SUFFICES ASSUME MachineTyped, z80_run
               PROVE  TrueArithmetic(cpu, cpu', line.irq \/ line.nmi)
    OBVIOUS
  <2>1. PICK in \in Ins : cpu' = Turn(cpu, line, in, TRUE).cpu
    BY DEF z80_run
  <2> QED BY <2>1, TurnTrue DEF MachineTyped
<1>2. ArithmeticTrue <=> [][z80_run => TrueArithmetic(cpu, cpu', line.irq \/ line.nmi)]_taskVars
  BY PTL DEF ArithmeticTrue
<1> QED BY <1>1, <1>2, ProcessorTyped, PTL DEF TaskSpec
-----------------------------------------------------------------------------
(* DAA                                                                     *)

\* Two digits to the base of 16.
Pair(t, o) == t \in Int /\ o \in Int /\ 0 <= o /\ o < 16

LEMMA PairOf ==
  ASSUME NEW t, NEW o, Pair(t, o), NEW w, w = 16 * t + o
  PROVE  w \in Int /\ w \div 16 = t /\ w % 16 = o
BY Z3 DEF Pair

LEMMA DigitsOfPair ==
  ASSUME NEW t, NEW o, Pair(t, o), NEW w, w = 16 * t + o
  PROVE  Digits(w) = 10 * t + o
BY PairOf DEF Digits

LEMMA Hundreds ==
  ASSUME NEW t, t \in Int, 0 <= t, t <= 20, NEW o, o \in Int, 0 <= o, o <= 9
  PROVE  /\ t <= 9 => (10 * t + o) % 100 = 10 * t + o
         /\ t > 9 /\ t <= 19 => (10 * t + o) % 100 = 10 * (t - 10) + o
BY Z3
\* What A and the flags hold after an addition of two decimal numbers: o is the sum
\* of the ones with the carry, t that of the tens.
Summed(t, o, n, f) ==
  /\ t \in 0..18 /\ o \in 0..19 /\ n = (16 * t + o) % 256
  /\ "C" \in f <=> 16 * t + o > 255
  /\ "H" \in f <=> o > 15

\* DAA corrects it to the decimal sum.
LEMMA DaaAdds ==
  ASSUME NEW t, NEW o, NEW n, NEW f, Summed(t, o, n, f)
  PROVE  LET r == DaaAfterAdd(n, f) IN
         /\ r \in Int
         /\ Digits(r % 256) = (10 * t + o) % 100
         /\ "C" \in f \/ Bit(r, 256) = 1 <=> 10 * t + o > 99
<1> DEFINE carry == "C" \in f
           half == "H" \in f
           k == IF carry THEN 256 ELSE 0
           more == o > 9
           t2 == IF more THEN t + 1 ELSE t
           o2 == IF more THEN o - 10 ELSE o
           low == IF half \/ n % 16 > 9 THEN n + 6 ELSE n
           r == IF carry \/ (low \div 16) % 32 > 9 THEN low + 96 ELSE low
<1>0. n = (16 * t + o) % 256 /\ (carry <=> 16 * t + o > 255) /\ (half <=> o > 15)
  BY DEF Summed
<1>1. t \in Int /\ o \in Int /\ 0 <= t /\ t <= 18 /\ 0 <= o /\ o <= 19
  BY DEF Summed
<1>2. n = 16 * t + o - k /\ n \in Int
  BY <1>0, <1>1, Z3
<1>3. o2 \in Int /\ 0 <= o2 /\ o2 <= 9 /\ t2 \in Int /\ 0 <= t2 /\ t2 <= 19
      /\ 10 * t + o = 10 * t2 + o2
  BY <1>1
<1> DEFINE t3 == IF carry THEN t2 - 16 ELSE t2
<1>4. low = 16 * t3 + o2
  <2>1. CASE o <= 9
    <3>1. Pair(IF carry THEN t - 16 ELSE t, o)
      BY <1>1, <2>1 DEF Pair
    <3>2. n % 16 = o
      BY <1>0, <1>1, <1>2, <2>1, <3>1, PairOf
    <3> QED BY <1>0, <1>1, <1>2, <2>1, <3>2
  <2>2. CASE o > 9 /\ o <= 15
    <3>1. Pair(IF carry THEN t - 16 ELSE t, o)
      BY <1>1, <2>2 DEF Pair
    <3>2. n % 16 = o
      BY <1>0, <1>1, <1>2, <2>2, <3>1, PairOf
    <3> QED BY <1>0, <1>1, <1>2, <2>2, <3>2
  <2>3. CASE o > 15
    BY <1>0, <1>1, <1>2, <2>3
  <2> QED BY <1>1, <2>1, <2>2, <2>3
<1>5. Pair(t3, o2) /\ t3 \in Int
  BY <1>3 DEF Pair
<1>6. low \div 16 = t3 /\ low \in Int
  BY <1>4, <1>5, PairOf
<1>7. /\ carry => t3 >= 0 /\ t3 <= 3 /\ t2 = t3 + 16
      /\ ~carry => t3 = t2 /\ t3 <= 16
  BY <1>0, <1>1, <1>3
<1> HIDE DEF carry, half, k, more, o2, t2, t3, low
<1>8. r = IF t2 > 9 THEN 16 * (t3 + 6) + o2 ELSE 16 * t3 + o2
  <2>1. ~carry => t3 % 32 = t3
    BY <1>3, <1>7
  <2> QED BY <1>3, <1>4, <1>5, <1>6, <1>7, <2>1
<1> DEFINE t4 == IF t2 > 9 THEN t3 + 6 ELSE t3
           t5 == IF t2 > 9 THEN t2 - 10 ELSE t2
<1>9. r = 16 * t4 + o2 /\ Pair(t5, o2) /\ t5 >= 0 /\ t5 <= 9
  BY <1>3, <1>5, <1>7, <1>8 DEF Pair
<1>10. r \in Int /\ r % 256 = 16 * t5 + o2 /\ (carry \/ Bit(r, 256) = 1 <=> t2 > 9)
  <2>1. CASE t2 <= 9
    <3>1. ~carry /\ r = 16 * t5 + o2 /\ r >= 0 /\ r < 256 /\ r \in Int
      BY <1>3, <1>5, <1>7, <1>9, <2>1
    <3> HIDE DEF r
    <3>2. r % 256 = r /\ r \div 256 = 0
      BY <3>1, Z3
    <3> QED BY <1>3, <2>1, <3>1, <3>2 DEF Bit
  <2>2. CASE t2 > 9 /\ carry
    <3>1. r = 16 * t5 + o2 /\ r >= 0 /\ r < 256 /\ r \in Int
      BY <1>3, <1>5, <1>7, <1>9, <2>2
    <3> HIDE DEF r
    <3>2. r % 256 = r
      BY <3>1, Z3
    <3> QED BY <2>2, <3>1, <3>2
  <2>3. CASE t2 > 9 /\ ~carry
    <3>1. r = 16 * t5 + o2 + 256 /\ r >= 256 /\ r < 512 /\ r \in Int
      BY <1>3, <1>5, <1>7, <1>9, <2>3
    <3> HIDE DEF r
    <3>2. r % 256 = r - 256 /\ r \div 256 = 1
      BY <3>1, Z3
    <3> HIDE DEF t5
    <3>3. t5 \in Int
      BY <1>9 DEF Pair
    <3> QED BY <1>3, <2>3, <3>1, <3>2, <3>3 DEF Bit
  <2> QED BY <1>3, <2>1, <2>2, <2>3
<1>11. DaaAfterAdd(n, f) = r
  BY DEF DaaAfterAdd, carry, half, low
<1> HIDE DEF r, t4, t5
<1>12. Digits(r % 256) = 10 * t5 + o2
  BY <1>9, <1>10, DigitsOfPair
<1>13. (10 * t + o) % 100 = 10 * t5 + o2
  BY <1>3, Hundreds DEF t5
<1>14. 10 * t + o > 99 <=> t2 > 9
  BY <1>3
<1> QED BY <1>10, <1>11, <1>12, <1>13, <1>14 DEF carry

\* The same after a subtraction.
Subtracted(t, o, n, f) ==
  /\ t \in (-9)..9 /\ o \in (-10)..9 /\ n = (16 * t + o) % 256
  /\ "C" \in f <=> 16 * t + o < 0
  /\ "H" \in f <=> o < 0

LEMMA DaaSubtracts ==
  ASSUME NEW t, NEW o, NEW n, NEW f, Subtracted(t, o, n, f)
  PROVE  LET r == DaaAfterSub(n, f) IN
         /\ r \in Int
         /\ Digits(r % 256) = (10 * t + o) % 100
         /\ "C" \in f \/ Bit(r, 256) = 1 <=> 10 * t + o < 0
<1> DEFINE carry == "C" \in f
           half == "H" \in f
           k == IF carry THEN 256 ELSE 0
           t2 == IF half THEN t - 1 ELSE t
           o2 == IF half THEN o + 10 ELSE o
           t3 == IF carry THEN t2 + 16 ELSE t2
           low == IF half \/ n % 16 > 9 THEN (n - 6) % 256 ELSE n
           r == IF carry \/ n > 153 THEN low - 352 ELSE low
<1>0. n = (16 * t + o) % 256 /\ (carry <=> 16 * t + o < 0) /\ (half <=> o < 0)
  BY DEF Subtracted
<1>1. t \in Int /\ o \in Int /\ -9 <= t /\ t <= 9 /\ -10 <= o /\ o <= 9
  BY DEF Subtracted
<1>2. n = 16 * t + o + k /\ n \in Int
  BY <1>0, <1>1, Z3
<1>3. o2 \in Int /\ 0 <= o2 /\ o2 <= 9 /\ t2 \in Int /\ -10 <= t2 /\ t2 <= 9
      /\ 10 * t + o = 10 * t2 + o2 /\ t3 \in Int
  BY <1>0, <1>1
<1>4. /\ carry => t2 < 0 /\ 6 <= t3 /\ t3 <= 15 /\ t3 = t2 + 16
      /\ ~carry => 0 <= t2 /\ t3 = t2
  BY <1>0, <1>1, <1>3
<1>5. low = 16 * t3 + o2
  <2>1. CASE half
    <3>1. n - 6 = 16 * t3 + o2 /\ 0 <= n - 6 /\ n - 6 < 256
      BY <1>0, <1>1, <1>2, <1>3, <1>4, <2>1
    <3>2. (n - 6) % 256 = n - 6
      BY <1>2, <3>1, Z3
    <3> DEFINE w == (n - 6) % 256
    <3>3. w = n - 6 /\ (low = IF half \/ n % 16 > 9 THEN w ELSE n)
      BY <3>2
    <3> HIDE DEF w, low
    <3>4. low = w
      BY <2>1, <3>3
    <3> HIDE DEF t3, o2
    <3> QED BY <3>1, <3>3, <3>4
  <2>2. CASE ~half
    <3>1. n = 16 * t3 + o2 /\ Pair(t3, o2) /\ o2 <= 9
      BY <1>0, <1>1, <1>2, <1>3, <2>2 DEF Pair
    <3>2. n % 16 = o2
      <4> HIDE DEF t3, o2
      <4> QED BY <3>1, PairOf
    <3> DEFINE m == n % 16
    <3>3. m = o2 /\ (low = IF half \/ m > 9 THEN (n - 6) % 256 ELSE n)
      BY <3>2
    <3> HIDE DEF m, low, o2, t3
    <3>4. ~(m > 9)
      BY <1>3, <3>3
    <3> QED BY <2>2, <3>1, <3>3, <3>4
  <2> QED BY <2>1, <2>2
<1>6. ~carry => n <= 153
  BY <1>0, <1>1, <1>2
<1> HIDE DEF carry, half, k, t2, o2, t3, low
<1> DEFINE t5 == IF carry THEN t2 + 10 ELSE t2
<1>7. /\ carry => r = 16 * t5 + o2 - 256
      /\ ~carry => r = 16 * t5 + o2
  BY <1>2, <1>3, <1>4, <1>5, <1>6
<1>8. t5 \in Int /\ 0 <= t5 /\ t5 <= 9
  BY <1>3, <1>4
<1>9. DaaAfterSub(n, f) = r
  BY DEF DaaAfterSub, carry, half, low
<1> HIDE DEF r
<1>10. r \in Int /\ r % 256 = 16 * t5 + o2 /\ (carry \/ Bit(r, 256) = 1 <=> carry)
  <2>1. CASE carry
    <3>1. r \in Int /\ r >= -256 /\ r < 0 /\ r + 256 = 16 * t5 + o2
      BY <1>3, <1>7, <1>8, <2>1
    <3>2. r % 256 = r + 256
      BY <3>1, Z3
    <3> QED BY <2>1, <3>1, <3>2
  <2>2. CASE ~carry
    <3>1. r \in Int /\ r >= 0 /\ r < 256 /\ r = 16 * t5 + o2
      BY <1>3, <1>7, <1>8, <2>2
    <3>2. r % 256 = r /\ r \div 256 = 0
      BY <3>1, Z3
    <3> QED BY <2>2, <3>1, <3>2 DEF Bit
  <2> QED BY <2>1, <2>2
<1>11. Pair(t5, o2)
  BY <1>3, <1>8 DEF Pair
<1> DEFINE d == 10 * t5 + o2
<1>12. /\ carry => 10 * t + o = d - 100
       /\ ~carry => 10 * t + o = d
       /\ d \in Int /\ 0 <= d /\ d < 100
  BY <1>3, <1>8
<1>13. 10 * t + o < 0 <=> carry
  BY <1>0, <1>1, <1>12
<1>14. Digits(r % 256) = d
  <2> HIDE DEF t5
  <2> QED BY <1>10, <1>11, DigitsOfPair
<1> HIDE DEF d, t5
<1>15. (10 * t + o) % 100 = d
  <2> DEFINE e == 10 * t + o
  <2>1. e = d - 100 \/ e = d
    BY <1>12
  <2> HIDE DEF e
  <2>2. e % 100 = d
    BY <1>12, <2>1, Z3
  <2> QED BY <2>2 DEF e
<1> QED BY <1>9, <1>10, <1>13, <1>14, <1>15 DEF carry

LEMMA DecimalParts ==
  ASSUME NEW v, NEW n, IsDecimal(v, n)
  PROVE  /\ IsByte(v) /\ v \in Int
         /\ \E t, o \in 0..9 : v = 16 * t + o /\ n = 10 * t + o /\ v % 16 = o
<1> DEFINE t == n \div 10
           o == n % 10
<1>1. n \in Int /\ 0 <= n /\ n < 100 /\ v = 16 * t + o
  BY DEF IsDecimal
<1>2. t \in Int /\ o \in Int /\ 0 <= o /\ o < 10 /\ n = 10 * t + o /\ 0 <= t /\ t < 10
  BY <1>1, Z3
<1> HIDE DEF t, o
<1>3. t \in 0..9 /\ o \in 0..9 /\ Pair(t, o)
  BY <1>2 DEF Pair
<1>4. v % 16 = o
  BY <1>1, <1>3, PairOf
<1> QED BY <1>1, <1>2, <1>3, <1>4 DEF IsByte

\* What DAA leaves: the corrected A, and C if it was set or the ninth bit is.
LEMMA DaaFields ==
  ASSUME NEW s, IsProcessor(s)
  PROVE  LET r == IF "N" \in s.f THEN DaaAfterSub(s.a, s.f) ELSE DaaAfterAdd(s.a, s.f) IN
         /\ Daa(s).a = r % 256
         /\ "C" \in Daa(s).f <=> "C" \in s.f \/ Bit(r, 256) = 1
         /\ Daa(s).pc = s.pc /\ Daa(s).mem = s.mem
<1> DEFINE sub == "N" \in s.f
           r == IF sub THEN DaaAfterSub(s.a, s.f) ELSE DaaAfterAdd(s.a, s.f)
           half == IF sub THEN "H" \in s.f /\ s.a % 16 <= 5 ELSE s.a % 16 > 9
           b == r % 256
           h == On(half, "H")
           c == On(Bit(r, 256) = 1, "C")
           l == LogicFlags(b)
           f == l \cup (s.f \cap {"N", "C"}) \cup h \cup c
<1>1. Daa(s) = WithAF(s, b, f)
  BY DEF Daa, WithAF
<1>2. "C" \notin l
  BY DEF LogicFlags, SignZero, On, Undoc
<1>3. h \subseteq {"H"}
  BY DEF On
<1>4. "C" \in c <=> Bit(r, 256) = 1
  BY DEF On
<1> HIDE DEF h, c, l, b, r
<1>5. "C" \in f <=> "C" \in s.f \/ Bit(r, 256) = 1
  BY <1>2, <1>3, <1>4
<1> HIDE DEF f
<1>6. WithAF(s, b, f).a = b /\ WithAF(s, b, f).f = f /\ WithAF(s, b, f).pc = s.pc
      /\ WithAF(s, b, f).mem = s.mem
  BY DEF WithAF, IsProcessor, ByteRegs, FlagRegs
<1> QED BY <1>1, <1>5, <1>6 DEF b, r

\* After a binary sum with its flags, DAA leaves the decimal sum.
LEMMA SumThenDaa ==
  ASSUME NEW a, NEW x, IsDecimal(a, x), NEW v, NEW y, IsDecimal(v, y), NEW c \in {0, 1},
         NEW s, IsProcessor(s), Defined(s.f) = SumOf(a, v, c, 16, 256).flags,
         s.a = SumOf(a, v, c, 16, 256).result
  PROVE  /\ Digits(Daa(s).a) = (x + y + c) % 100
         /\ "C" \in Daa(s).f <=> x + y + c > 99
<1> DEFINE full == 256  p == 128  half == 16  q == 8
<1>1. PICK t1, o1 \in 0..9 : a = 16 * t1 + o1 /\ x = 10 * t1 + o1 /\ a % 16 = o1
  BY DecimalParts
<1>2. PICK t2, o2 \in 0..9 : v = 16 * t2 + o2 /\ y = 10 * t2 + o2 /\ v % 16 = o2
  BY DecimalParts
<1> DEFINE t == t1 + t2
           o == o1 + o2 + c
           n == (a + v + c) % full
<1>3. a \in Int /\ v \in Int /\ c \in Int /\ n \in Int
  BY <1>1, <1>2
<1>4. Width(p, q, full, half) /\ Rest(o1, a, half) /\ Rest(o2, v, half) /\ RestOfSum(n, a, v, c, full)
  BY <1>1, <1>2, <1>3, Z3 DEF Width, Rest, RestOfSum
<1>5. SumOf(a, v, c, half, full).result = n
      /\ SumOf(a, v, c, half, full).flags = SumFlags(a, v, c, n, o1, o2, p, q)
  <2> HIDE DEF full, p, half, q, n
  <2> QED BY <1>4, ExpectedSum
<1> DEFINE g == SumFlags(a, v, c, n, o1, o2, p, q)
<1>6. ("C" \in g <=> a + v + c > 255) /\ ("H" \in g <=> o > 15) /\ "N" \notin g
  BY <1>1, <1>2, <1>3 DEF SumFlags, On, Outside
<1>7. a + v + c = 16 * t + o /\ x + y + c = 10 * t + o /\ t \in 0..18 /\ o \in 0..19
  BY <1>1, <1>2
<1>8. Defined(s.f) = g /\ s.a = n
  BY <1>5
<1> HIDE DEF g
<1>9. ("C" \in s.f <=> a + v + c > 255) /\ ("H" \in s.f <=> o > 15) /\ "N" \notin s.f
  BY <1>6, <1>8 DEF Defined
<1>10. s.a = (16 * t + o) % 256
  BY <1>7, <1>8
<1> HIDE DEF t, o, n
<1> DEFINE r == DaaAfterAdd(s.a, s.f)
<1>11. Digits(r % 256) = (10 * t + o) % 100
       /\ ("C" \in s.f \/ Bit(r, 256) = 1 <=> 10 * t + o > 99)
  <2>1. Summed(t, o, s.a, s.f)
    BY <1>7, <1>9, <1>10 DEF Summed
  <2> QED BY <2>1, DaaAdds
<1>12. Daa(s).a = r % 256 /\ ("C" \in Daa(s).f <=> "C" \in s.f \/ Bit(r, 256) = 1)
  BY <1>9, DaaFields
<1> HIDE DEF r
<1> QED BY <1>7, <1>11, <1>12

\* After a binary difference with its flags, the decimal difference.
LEMMA DifferenceThenDaa ==
  ASSUME NEW a, NEW x, IsDecimal(a, x), NEW v, NEW y, IsDecimal(v, y), NEW c \in {0, 1},
         NEW s, IsProcessor(s), Defined(s.f) = DifferenceOf(a, v, c, 16, 256).flags,
         s.a = DifferenceOf(a, v, c, 16, 256).result
  PROVE  /\ Digits(Daa(s).a) = (x - y - c) % 100
         /\ "C" \in Daa(s).f <=> x - y - c < 0
<1> DEFINE full == 256  p == 128  half == 16  q == 8
<1>1. PICK t1, o1 \in 0..9 : a = 16 * t1 + o1 /\ x = 10 * t1 + o1 /\ a % 16 = o1
  BY DecimalParts
<1>2. PICK t2, o2 \in 0..9 : v = 16 * t2 + o2 /\ y = 10 * t2 + o2 /\ v % 16 = o2
  BY DecimalParts
<1> DEFINE t == t1 - t2
           o == o1 - o2 - c
           n == (a - v - c) % full
<1>3. a \in Int /\ v \in Int /\ c \in Int /\ n \in Int
  BY <1>1, <1>2
<1>4. Width(p, q, full, half) /\ Rest(o1, a, half) /\ Rest(o2, v, half)
      /\ RestOfDifference(n, a, v, c, full)
  BY <1>1, <1>2, <1>3, Z3 DEF Width, Rest, RestOfDifference
<1>5. DifferenceOf(a, v, c, half, full).result = n
      /\ DifferenceOf(a, v, c, half, full).flags = DifferenceFlags(a, v, c, n, o1, o2, p, q)
  <2> HIDE DEF full, p, half, q, n
  <2> QED BY <1>4, ExpectedDifference
<1> DEFINE g == DifferenceFlags(a, v, c, n, o1, o2, p, q)
<1>6. ("C" \in g <=> a - v - c < 0) /\ ("H" \in g <=> o < 0) /\ "N" \in g
  BY <1>1, <1>2, <1>3 DEF DifferenceFlags, On, Outside
<1>7. a - v - c = 16 * t + o /\ x - y - c = 10 * t + o /\ t \in (-9)..9 /\ o \in (-10)..9
  BY <1>1, <1>2
<1>8. Defined(s.f) = g /\ s.a = n
  BY <1>5
<1> HIDE DEF g
<1>9. ("C" \in s.f <=> a - v - c < 0) /\ ("H" \in s.f <=> o < 0) /\ "N" \in s.f
  BY <1>6, <1>8 DEF Defined
<1>10. s.a = (16 * t + o) % 256
  BY <1>7, <1>8
<1> HIDE DEF t, o, n
<1> DEFINE r == DaaAfterSub(s.a, s.f)
<1>11. Digits(r % 256) = (10 * t + o) % 100
       /\ ("C" \in s.f \/ Bit(r, 256) = 1 <=> 10 * t + o < 0)
  <2>1. Subtracted(t, o, s.a, s.f)
    BY <1>7, <1>9, <1>10 DEF Subtracted
  <2> QED BY <2>1, DaaSubtracts
<1>12. Daa(s).a = r % 256 /\ ("C" \in Daa(s).f <=> "C" \in s.f \/ Bit(r, 256) = 1)
  BY <1>9, DaaFields
<1> HIDE DEF r
<1> QED BY <1>7, <1>11, <1>12
-----------------------------------------------------------------------------
(* Programs that compute decimals                                          *)

\* The programs' operations by the number of their row.
RowOf(name) == CASE name = "add" -> 0 [] name = "adc" -> 1 [] name = "sub" -> 2 [] name = "sbc" -> 3

LEMMA OperationRow ==
  ASSUME NEW name \in DOMAIN DecimalOps
  PROVE  LET op == DecimalOps[name] IN
         /\ op \in Arithmetic(RowOf(name)) /\ RowOf(name) \in {0, 1, 2, 3} /\ IsByte(op)
         /\ op < 192 /\ op # 118 /\ Z(op) = 0
<1>1. DOMAIN DecimalOps = {"add", "adc", "sub", "sbc"}
  BY DEF DecimalOps
<1>2. CASE name = "add"
  <2>1. DecimalOps[name] = 128 /\ RowOf(name) = 0
    BY <1>2 DEF DecimalOps, RowOf
  <2> QED BY <2>1 DEF Arithmetic, IsByte, Z
<1>3. CASE name = "adc"
  <2>1. DecimalOps[name] = 136 /\ RowOf(name) = 1
    BY <1>3 DEF DecimalOps, RowOf
  <2> QED BY <2>1 DEF Arithmetic, IsByte, Z
<1>4. CASE name = "sub"
  <2>1. DecimalOps[name] = 144 /\ RowOf(name) = 2
    BY <1>4 DEF DecimalOps, RowOf
  <2> QED BY <2>1 DEF Arithmetic, IsByte, Z
<1>5. CASE name = "sbc"
  <2>1. DecimalOps[name] = 152 /\ RowOf(name) = 3
    BY <1>5 DEF DecimalOps, RowOf
  <2> QED BY <2>1 DEF Arithmetic, IsByte, Z
<1> QED BY <1>1, <1>2, <1>3, <1>4, <1>5

\* What TrueOnA says, operation by operation.
LEMMA TrueOnAGives ==
  ASSUME NEW s, NEW u, NEW v
  PROVE  /\ TrueOnA(s, u, 0, v) => /\ Defined(u.f) = SumOf(s.a, v, 0, 16, 256).flags
                                   /\ u.a = SumOf(s.a, v, 0, 16, 256).result
         /\ TrueOnA(s, u, 1, v) => /\ Defined(u.f) = SumOf(s.a, v, Carry(s.f), 16, 256).flags
                                   /\ u.a = SumOf(s.a, v, Carry(s.f), 16, 256).result
         /\ TrueOnA(s, u, 2, v) => /\ Defined(u.f) = DifferenceOf(s.a, v, 0, 16, 256).flags
                                   /\ u.a = DifferenceOf(s.a, v, 0, 16, 256).result
         /\ TrueOnA(s, u, 3, v) => /\ Defined(u.f) = DifferenceOf(s.a, v, Carry(s.f), 16, 256).flags
                                   /\ u.a = DifferenceOf(s.a, v, Carry(s.f), 16, 256).result
<1> DEFINE X(n) == Expected(s.a, v, CarryIn(n, s.f), 16, 256, n \in {2, 3, 7})
<1>1. ASSUME NEW n \in 0..3, TrueOnA(s, u, n, v)
      PROVE  Defined(u.f) = X(n).flags /\ u.a = X(n).result
  <2>1. n # 7
    OBVIOUS
  <2>2. X(n).flags = Defined(u.f) /\ u.a = IF n = 7 THEN s.a ELSE X(n).result
    BY <1>1 DEF TrueOnA, CarryIn
  <2> QED BY <2>1, <2>2
<1> DEFINE c0 == CarryIn(0, s.f)  c1 == CarryIn(1, s.f)  c2 == CarryIn(2, s.f)  c3 == CarryIn(3, s.f)
           n0 == 0 \in {2, 3, 7}  n1 == 1 \in {2, 3, 7}  n2 == 2 \in {2, 3, 7}  n3 == 3 \in {2, 3, 7}
<1>2. c0 = 0 /\ c1 = Carry(s.f) /\ c2 = 0 /\ c3 = Carry(s.f)
  BY DEF CarryIn
<1>3. n0 = FALSE /\ n1 = FALSE /\ n2 = TRUE /\ n3 = TRUE
  OBVIOUS
<1>4. /\ Expected(s.a, v, c0, 16, 256, n0) = SumOf(s.a, v, 0, 16, 256)
      /\ Expected(s.a, v, c1, 16, 256, n1) = SumOf(s.a, v, Carry(s.f), 16, 256)
  <2> HIDE DEF c0, c1, n0, n1
  <2> QED BY <1>2, <1>3, Zenon DEF SumOf
<1>5. /\ Expected(s.a, v, c2, 16, 256, n2) = DifferenceOf(s.a, v, 0, 16, 256)
      /\ Expected(s.a, v, c3, 16, 256, n3) = DifferenceOf(s.a, v, Carry(s.f), 16, 256)
  <2> HIDE DEF c2, c3, n2, n3
  <2> QED BY <1>2, <1>3, Zenon DEF DifferenceOf
<1>6. /\ X(0) = SumOf(s.a, v, 0, 16, 256) /\ X(1) = SumOf(s.a, v, Carry(s.f), 16, 256)
      /\ X(2) = DifferenceOf(s.a, v, 0, 16, 256) /\ X(3) = DifferenceOf(s.a, v, Carry(s.f), 16, 256)
  BY <1>4, <1>5, Zenon
<1> HIDE DEF X
<1> QED BY <1>1, <1>6

\* The program's answer, once its operation is done.
LEMMA AnswerOf ==
  ASSUME NEW p \in DOMAIN Programs, p[1] = "decimal", NEW s, s = Programs[p],
         NEW u, IsProcessor(u), TrueOnA(s, u, RowOf(p[2]), s.b)
  PROVE  IsAnswer(p, Daa(u))
<1>1. /\ p[2] \in {"add", "adc", "sub", "sbc"} /\ p[5] \in 0..1
      /\ IsDecimal(s.a, p[3]) /\ IsDecimal(s.b, p[4]) /\ ("C" \in s.f <=> p[5] = 1)
  BY DecimalAssumption DEF DecimalOps
<1>2. Carry(s.f) = p[5] /\ 0 \in {0, 1} /\ p[5] \in {0, 1}
  BY <1>1 DEF Carry
<1> DEFINE x == p[3]
           y == p[4]
<1>9. \A v, n : IsDecimal(v, n) => n \in Int /\ 0 <= n /\ n <= 99
  BY DEF IsDecimal
<1>3. x \in Int /\ y \in Int /\ 0 <= x /\ x <= 99 /\ 0 <= y /\ y <= 99
  BY <1>1, <1>9
<1>4. \A r \in Int : (r \notin 0..99) <=> (r < 0 \/ r > 99)
  OBVIOUS
<1>5. CASE p[2] = "add"
  <2>1. Digits(Daa(u).a) = (x + y + 0) % 100 /\ ("C" \in Daa(u).f <=> x + y + 0 > 99)
    <3>1. RowOf(p[2]) = 0
      BY <1>5 DEF RowOf
    <3> QED BY <1>1, <1>2, <3>1, TrueOnAGives, SumThenDaa
  <2>2. IsAnswer(p, Daa(u)) <=> Digits(Daa(u).a) = (x + y + 0) % 100
                                /\ ("C" \in Daa(u).f <=> x + y + 0 \notin 0..99)
    BY <1>5 DEF IsAnswer, Computed
  <2> QED BY <1>3, <2>1, <2>2
<1>6. CASE p[2] = "adc"
  <2>1. Digits(Daa(u).a) = (x + y + p[5]) % 100 /\ ("C" \in Daa(u).f <=> x + y + p[5] > 99)
    <3>1. RowOf(p[2]) = 1
      BY <1>6 DEF RowOf
    <3> QED BY <1>1, <1>2, <3>1, TrueOnAGives, SumThenDaa
  <2>2. IsAnswer(p, Daa(u)) <=> Digits(Daa(u).a) = (x + y + p[5]) % 100
                                /\ ("C" \in Daa(u).f <=> x + y + p[5] \notin 0..99)
    BY <1>6 DEF IsAnswer, Computed
  <2> DEFINE r == x + y + p[5]
  <2>3. r \in Int /\ 0 <= r
    BY <1>1, <1>3
  <2> HIDE DEF r
  <2>4. r \notin 0..99 <=> r > 99
    BY <2>3
  <2> QED BY <2>1, <2>2, <2>4 DEF r
<1>7. CASE p[2] = "sub"
  <2>1. Digits(Daa(u).a) = (x - y - 0) % 100 /\ ("C" \in Daa(u).f <=> x - y - 0 < 0)
    <3>1. RowOf(p[2]) = 2
      BY <1>7 DEF RowOf
    <3> QED BY <1>1, <1>2, <3>1, TrueOnAGives, DifferenceThenDaa
  <2>2. IsAnswer(p, Daa(u)) <=> Digits(Daa(u).a) = (x - y - 0) % 100
                                /\ ("C" \in Daa(u).f <=> x - y - 0 \notin 0..99)
    BY <1>7 DEF IsAnswer, Computed
  <2> QED BY <1>3, <2>1, <2>2
<1>8. CASE p[2] = "sbc"
  <2>1. Digits(Daa(u).a) = (x - y - p[5]) % 100 /\ ("C" \in Daa(u).f <=> x - y - p[5] < 0)
    <3>1. RowOf(p[2]) = 3
      BY <1>8 DEF RowOf
    <3> QED BY <1>1, <1>2, <3>1, TrueOnAGives, DifferenceThenDaa
  <2>2. IsAnswer(p, Daa(u)) <=> Digits(Daa(u).a) = (x - y - p[5]) % 100
                                /\ ("C" \in Daa(u).f <=> x - y - p[5] \notin 0..99)
    BY <1>8 DEF IsAnswer, Computed
  <2> QED BY <1>1, <1>3, <2>1, <2>2
<1> QED BY <1>1, <1>5, <1>6, <1>7, <1>8

\* Without interrupts a turn is one instruction.
LEMMA QuietStep ==
  ASSUME MachineTyped, ~line.irq, ~line.nmi, Fetch(cpu) # 118, z80_run
  PROVE  \E in \in Ins :
           /\ cpu' = Instruction(Refreshed(Skip(cpu, 1), 1), Fetch(cpu), in)
           /\ line' = line /\ prog' = prog
<1> DEFINE op == Fetch(cpu)
           t == Refreshed(Skip(cpu, 1), 1)
           x == [cpu |-> cpu, line |-> line]
<1>1. PICK in \in Ins : /\ cpu' = Turn(cpu, line, in, TRUE).cpu
                        /\ line' = Turn(cpu, line, in, TRUE).line /\ prog' = prog
  BY DEF z80_run
<1> DEFINE m == Executed(x, in)
           v == Instruction(t, op, in)
<1>2. IsByte(in) /\ IsMachine(x)
  BY Z80Assumption DEF IsByte, IsMachine, MachineTyped
<1>3. m = [x EXCEPT !.cpu = v]
  BY DEF Executed
<1>4. IsMachine(m)
  <2> HIDE DEF x
  <2> QED BY <1>2, ExecutedTyped
<1> HIDE DEF v
<1>5. m.cpu = v /\ m.line = line
  BY <1>3
<1>6. Turn(cpu, line, in, TRUE) = Interrupted(m, op)
  BY DEF Turn
<1> HIDE DEF m, op, t, x
<1>7. Interrupted(m, op) = m
  BY <1>4, <1>5, InterruptedAlike
<1> QED BY <1>1, <1>5, <1>6, <1>7 DEF v, op, t

LEMMA DaaDispatch ==
  ASSUME NEW t, NEW in
  PROVE  Instruction(t, 39, in) = Daa(t) /\ Instruction(t, 24, in) = Jr(t)
<1>1. ASSUME NEW op, op = 39 PROVE Instruction(t, op, in) = Daa(t)
  <2>1. op < 64 /\ op \notin 64..127 /\ op \notin 128..191 /\ ~(op > 191)
    BY <1>1
  <2>2. LowInstruction(t, op) = Daa(t)
    BY <1>1 DEF LowInstruction
  <2> QED BY <2>1, <2>2 DEF Instruction
<1>2. ASSUME NEW op, op = 24 PROVE Instruction(t, op, in) = Jr(t)
  <2>1. op < 64 /\ op \notin 64..127 /\ op \notin 128..191 /\ ~(op > 191)
    BY <1>2
  <2>2. LowInstruction(t, op) = Jr(t)
    BY <1>2 DEF LowInstruction
  <2> QED BY <2>1, <2>2 DEF Instruction
<1> QED BY <1>1, <1>2

LEMMA Placed ==
  ASSUME NEW s, IsProcessor(s)
  PROVE  LET t == Refreshed(Skip(s, 1), 1) IN t.pc = (s.pc + 1) % Word /\ t.mem = s.mem
<1> DEFINE t == Skip(s, 1)
<1>1. t.pc = (s.pc + 1) % Word /\ t.mem = s.mem
  BY DEF Skip, IsProcessor, WordRegs
<1> HIDE DEF t
<1> QED BY <1>1 DEF Refreshed, t

LEMMA OperationPlaced ==
  ASSUME NEW t, NEW in, NEW name \in DOMAIN DecimalOps
  PROVE  LET u == Instruction(t, DecimalOps[name], in) IN u.pc = t.pc /\ u.mem = t.mem
<1> DEFINE op == DecimalOps[name]
           v == Operand(t, op)
<1>1. op \in Arithmetic(RowOf(name)) /\ RowOf(name) \in {0, 1, 2, 3} /\ op \in Int /\ op < 192
  BY OperationRow, BytesAreWords
<1> HIDE DEF op, v
<1>2. Past(t, op) = t /\ RowOf(name) \in 0..7
  BY <1>1 DEF Past
<1>3. Instruction(t, op, in) = ArithmeticInstruction(t, op)
  BY <1>1, <1>2, ArithmeticDispatch
<1>4. \/ Instruction(t, op, in) = AddByte(t, v) \/ Instruction(t, op, in) = AdcByte(t, v)
      \/ Instruction(t, op, in) = SubByte(t, v) \/ Instruction(t, op, in) = SbcByte(t, v)
  BY <1>1, <1>2, <1>3, RowInstruction DEF Add, Adc, Sub, Sbc, v
<1>5. \A x : /\ AddByte(t, x).pc = t.pc /\ AddByte(t, x).mem = t.mem
             /\ AdcByte(t, x).pc = t.pc /\ AdcByte(t, x).mem = t.mem
  BY DEF AddByte, AdcByte
<1>6. \A x : /\ SubByte(t, x).pc = t.pc /\ SubByte(t, x).mem = t.mem
             /\ SbcByte(t, x).pc = t.pc /\ SbcByte(t, x).mem = t.mem
  BY DEF SubByte, SbcByte
<1> QED BY <1>4, <1>5, <1>6 DEF op

LEMMA AfterIs ==
  ASSUME NEW n, IsWord(n)
  PROVE  /\ IsWord((n + 1) % Word)
         /\ n # (n + 1) % Word
         /\ n # (((n + 1) % Word) + 1) % Word
         /\ (((n + 1) % Word) - 1) % Word = n
BY Z3 DEF IsWord, Word

\* The jump to itself in which programs end changes nothing but R.
LEMMA JumpsBack ==
  ASSUME NEW s, IsProcessor(s), FetchWord(s) = 65048
  PROVE  /\ Fetch(s) = 24
         /\ LET u == Jr(Refreshed(Skip(s, 1), 1)) IN
            u.pc = s.pc /\ u.mem = s.mem /\ u.a = s.a /\ u.f = s.f
<1> DEFINE t == Refreshed(Skip(s, 1), 1)
           h == Peek(s, (s.pc + 1) % Word)
           l == Fetch(s)
<1>1. l + 256 * h = 65048
  BY DEF FetchWord, PeekWord, Fetch
<1>2. IsWord(s.pc) /\ s.pc \in Int /\ IsProcessor(t)
  <2>1. IsWord(s.pc)
    BY Registers
  <2>2. IsProcessor(Skip(s, 1))
    BY SkipTyped
  <2>3. IsProcessor(t)
    BY <2>2, RefreshedTyped
  <2> QED BY <2>1, <2>3, WordsAreInts
<1>3. IsByte(h) /\ IsByte(l)
  BY <1>2, PeekTyped, FetchTyped
<1>4. Fetch(t) = h /\ t.pc = (s.pc + 1) % Word /\ t.mem = s.mem
  BY NextByte, Placed
<1> HIDE DEF l, h
<1>5. l = 24 /\ h = 254
  BY <1>1, <1>3, Z3 DEF IsByte
<1>6. Jr(t) = Skip(t, -1)
  BY <1>4, <1>5 DEF Jr, Signed
<1>7. t.a = s.a /\ t.f = s.f
  BY SkipSame, SameChain DEF SameData, Alike
<1> HIDE DEF t
<1> DEFINE u == Skip(t, -1)
<1>8. u.pc = (t.pc - 1) % Word /\ u.mem = t.mem /\ u.a = t.a /\ u.f = t.f
  <2>1. t.pc + (-1) = t.pc - 1
    BY <1>2, Registers, WordsAreInts
  <2> QED BY <1>2, <2>1 DEF Skip, IsProcessor, WordRegs, ByteRegs, FlagRegs
<1> HIDE DEF u
<1>9. u.pc = s.pc
  BY <1>2, <1>4, <1>8, AfterIs
<1> QED BY <1>4, <1>5, <1>6, <1>7, <1>8, <1>9 DEF t, l, u

\* Where a decimal program is: before its operation, before DAA, or at its end.
Stage(p, u) ==
  LET s == Programs[p] IN
  \/ u = s
  \/ u.pc = (s.pc + 1) % Word /\ TrueOnA(s, u, RowOf(p[2]), s.b)
  \/ u.pc = End[p] /\ IsAnswer(p, u)
DecimalInv ==
  /\ prog \in DOMAIN Programs
  /\ Kind = "decimal" => /\ ~line.irq /\ ~line.nmi
                         /\ cpu.mem = Programs[prog].mem
                         /\ Stage(prog, cpu)

\* A decimal program goes from stage to stage.
LEMMA StageStep ==
  ASSUME NEW p \in DOMAIN Programs, p[1] = "decimal", NEW u, IsProcessor(u),
         u.mem = Programs[p].mem, Stage(p, u)
  PROVE  /\ Fetch(u) # 118
         /\ \A in : LET v == Instruction(Refreshed(Skip(u, 1), 1), Fetch(u), in) IN
                    v.mem = Programs[p].mem /\ Stage(p, v)
<1> DEFINE s == Programs[p]
           t == Refreshed(Skip(u, 1), 1)
           second == (s.pc + 1) % Word
           row == RowOf(p[2])
<1>1. /\ IsProcessor(s) /\ p[2] \in DOMAIN DecimalOps
      /\ Fetch(s) = DecimalOps[p[2]] /\ Peek(s, second) = 39
      /\ End[p] = (second + 1) % Word /\ PeekWord(s, End[p]) = 65048
  BY ProgramsAssumption, DecimalAssumption
<1>2. IsProcessor(t)
  <2>1. IsProcessor(Skip(u, 1))
    BY SkipTyped
  <2> QED BY <2>1, RefreshedTyped
<1>3. SameData(u, t) /\ t.pc = (u.pc + 1) % Word /\ t.mem = s.mem
  BY SkipSame, SameChain, Placed
<1>4. \A addr : Peek(u, addr) = Peek(s, addr)
  BY DEF Peek
<1> HIDE DEF s, t, second, row
<1>5. CASE u = s
  <2> DEFINE op == DecimalOps[p[2]]
  <2>1. /\ op \in Arithmetic(row) /\ row \in {0, 1, 2, 3} /\ IsByte(op) /\ op < 192 /\ op # 118
        /\ Z(op) = 0
    BY <1>1, OperationRow DEF row
  <2>2. Fetch(u) = op
    BY <1>1, <1>5
  <2>3. ASSUME NEW in PROVE Instruction(t, op, in).mem = s.mem /\ Stage(p, Instruction(t, op, in))
    <3> DEFINE v == Instruction(t, op, in)
    <3>1. v.pc = t.pc /\ v.mem = t.mem
      BY <1>1, OperationPlaced
    <3>2. TrueOnA(s, v, row, IF op >= 192 THEN Fetch(t) ELSE Get8(s, Z(op)))
      <4>1. row \in {0, 1, 2, 3, 7} /\ SameData(s, t)
        BY <1>3, <1>5, <2>1
      <4> HIDE DEF op
      <4> QED BY <1>1, <1>2, <2>1, <4>1, ArithmeticOnA
    <3>3. Get8(s, 0) = s.b
      BY DEF Get8, R8
    <3>4. ~(op >= 192)
      BY <2>1, BytesAreWords
    <3>5. TrueOnA(s, v, row, s.b)
      BY <2>1, <3>2, <3>3, <3>4
    <3> HIDE DEF v
    <3> QED BY <1>3, <1>5, <3>1, <3>5 DEF Stage, s, row, v
  <2> HIDE DEF op
  <2> QED BY <2>1, <2>2, <2>3 DEF s, t
<1>6. CASE u.pc = second /\ TrueOnA(s, u, row, s.b)
  <2>1. Fetch(u) = 39
    BY <1>1, <1>4, <1>6 DEF Fetch
  <2>2. TrueOnA(s, t, row, s.b)
    BY <1>3, <1>6, CarriedOn DEF SameData
  <2>3. IsAnswer(p, Daa(t))
    BY <1>2, <2>2, AnswerOf DEF s, row
  <2>4. Daa(t).pc = t.pc /\ Daa(t).mem = t.mem
    BY <1>2, DaaFields
  <2>5. Daa(t).pc = End[p] /\ Daa(t).mem = s.mem
    BY <1>1, <1>3, <1>6, <2>4
  <2>6. Stage(p, Daa(t))
    BY <2>3, <2>5 DEF Stage
  <2>7. \A in : Instruction(t, 39, in) = Daa(t)
    BY DaaDispatch
  <2>8. 39 # 118
    OBVIOUS
  <2> QED BY <2>1, <2>5, <2>6, <2>7, <2>8 DEF s, t
<1>7. CASE u.pc = End[p] /\ IsAnswer(p, u)
  <2> DEFINE v == Jr(t)
  <2>1. FetchWord(u) = 65048
    BY <1>1, <1>4, <1>7 DEF FetchWord, PeekWord
  <2>2. /\ Fetch(u) = 24
        /\ v.pc = u.pc /\ v.mem = u.mem /\ v.a = u.a /\ v.f = u.f
    BY <2>1, JumpsBack DEF t
  <2> HIDE DEF v
  <2>3. IsAnswer(p, v)
    BY <1>7, <2>2 DEF IsAnswer
  <2>4. v.mem = s.mem /\ Stage(p, v)
    BY <1>7, <2>2, <2>3 DEF Stage, s
  <2>5. \A in : Instruction(t, 24, in) = v
    BY DaaDispatch DEF v
  <2>6. 24 # 118
    OBVIOUS
  <2> QED BY <2>2, <2>4, <2>5, <2>6 DEF s, t
<1> QED BY <1>5, <1>6, <1>7 DEF Stage, s, second, row

LEMMA StageAnswers ==
  ASSUME NEW p \in DOMAIN Programs, p[1] = "decimal", NEW u, Stage(p, u), u.pc = End[p]
  PROVE  IsAnswer(p, u)
<1> DEFINE s == Programs[p]
           n == s.pc
<1>1. IsProcessor(s) /\ End[p] = (((n + 1) % Word) + 1) % Word
  BY ProgramsAssumption, DecimalAssumption
<1>2. IsWord(n)
  BY <1>1, Registers
<1>3. IsWord((n + 1) % Word)
  BY <1>2, AfterIs
<1>4. u # s /\ u.pc # (n + 1) % Word
  <2>1. n # (((n + 1) % Word) + 1) % Word
    BY <1>2, AfterIs
  <2>2. \A w : IsWord(w) => w # (w + 1) % Word
    BY AfterIs
  <2> QED BY <1>1, <1>3, <2>1, <2>2
<1> QED BY <1>4 DEF Stage

\* Every sum and difference of two decimal numbers, in every program that asks
\* for one: DAA after ADD, ADC, SUB and SBC, with and without a carry (do_daa).
THEOREM DecimalHolds == TaskSpec => []DecimalTrue
<1>1. TaskInit => DecimalInv
  BY DEF TaskInit, Init, DecimalInv, Stage
<1>2. MachineTyped /\ DecimalInv /\ [TaskNext]_taskVars => DecimalInv'
  <2> SUFFICES ASSUME MachineTyped, DecimalInv, [TaskNext]_taskVars PROVE DecimalInv'
    OBVIOUS
  <2>1. CASE z80_run
    <3>1. prog' = prog
      BY <2>1 DEF z80_run
    <3>2. CASE Kind = "decimal"
      <4>1. /\ prog \in DOMAIN Programs /\ prog[1] = "decimal" /\ IsProcessor(cpu)
            /\ cpu.mem = Programs[prog].mem /\ Stage(prog, cpu) /\ ~line.irq /\ ~line.nmi
        BY <3>2 DEF DecimalInv, MachineTyped, Kind
      <4>2. /\ Fetch(cpu) # 118
            /\ \A in : LET v == Instruction(Refreshed(Skip(cpu, 1), 1), Fetch(cpu), in) IN
                       v.mem = Programs[prog].mem /\ Stage(prog, v)
        BY <4>1, StageStep
      <4>3. PICK in \in Ins :
              /\ cpu' = Instruction(Refreshed(Skip(cpu, 1), 1), Fetch(cpu), in)
              /\ line' = line
        BY <2>1, <4>1, <4>2, QuietStep
      <4>4. cpu'.mem = Programs[prog].mem /\ Stage(prog, cpu')
        BY <4>2, <4>3
      <4> QED BY <3>1, <4>1, <4>3, <4>4 DEF DecimalInv, Kind
    <3>3. CASE Kind # "decimal"
      BY <3>1, <3>3 DEF DecimalInv, Kind
    <3> QED BY <3>2, <3>3
  <2>2. CASE IrqUp \/ IrqDown \/ NmiUp \/ NmiDown
    <3>1. prog' = prog /\ cpu' = cpu
      BY <2>2 DEF IrqUp, IrqDown, NmiUp, NmiDown, LineBecomes
    <3>2. Kind # "decimal"
      <4>1. prog \in DOMAIN Programs /\ prog[1] = "decimal" => prog \notin Disturbed
        BY DecimalAssumption
      <4> QED BY <2>2, <4>1 DEF IrqUp, IrqDown, NmiUp, NmiDown, DecimalInv, Kind
    <3> QED BY <3>1, <3>2 DEF DecimalInv, Kind
  <2>3. CASE UNCHANGED taskVars
    BY <2>3 DEF taskVars, DecimalInv, Kind
  <2> QED BY <2>1, <2>2, <2>3 DEF TaskNext, Next
<1>3. DecimalInv => DecimalTrue
  BY StageAnswers DEF DecimalInv, DecimalTrue, Kind
<1> QED BY <1>1, <1>2, <1>3, ProcessorTyped, PTL DEF TaskSpec
-----------------------------------------------------------------------------
(* The traps of the debugger                                               *)

\* What the table of traps holds, and what the debugger counts of it.
TrapFlags == {"break", "once", "trace", "on", "off", "watch"}
IsTrap(e) == DOMAIN e = {"address", "flag", "byte"} /\ e.flag \in TrapFlags
Taken(d) == {i \in Entries : valid(d, i)}
Watching(d) == {i \in Taken(d) : d.table[i].flag = "watch"}
Kept(d) == {<<d.table[i].address, d.table[i].flag>> : i \in Taken(d)}
Counted(d) ==
  /\ d.num = Cardinality(Taken(d))
  /\ d.watches = Cardinality(Watching(d))
  /\ d.traps \subseteq Kept(d)
IsTable(t) ==
  DOMAIN t = Entries /\ \A i \in Entries : t[i] # NoTrap => IsTrap(t[i])
TableOK(d) ==
  /\ DOMAIN d = {"traps", "table", "num", "watches", "printing"}
  /\ IsTable(d.table)
  /\ Counted(d)

\* The table has MaxTraps entries; those taken can be counted.
LEMMA EntriesFinite == IsFiniteSet(Entries) /\ Cardinality(Entries) = MaxTraps
<1>1. MaxTraps \in Nat /\ MaxTraps - 1 \in Int /\ ~(0 > MaxTraps - 1)
  BY MaxTrapsAssumption
<1> QED BY <1>1, FS_Interval DEF Entries

LEMMA TakenFinite ==
  ASSUME NEW d
  PROVE  /\ IsFiniteSet(Taken(d)) /\ IsFiniteSet(Watching(d))
         /\ Cardinality(Taken(d)) \in Nat /\ Cardinality(Watching(d)) \in Nat
         /\ Cardinality(Taken(d)) = MaxTraps => Taken(d) = Entries
<1>1. IsFiniteSet(Entries) /\ Cardinality(Entries) = MaxTraps
  BY EntriesFinite
<1>2. Taken(d) \in SUBSET Entries /\ Watching(d) \in SUBSET Taken(d)
  BY DEF Taken, Watching
<1>3. IsFiniteSet(Taken(d))
      /\ (Cardinality(Entries) = Cardinality(Taken(d)) => Taken(d) = Entries)
  BY <1>1, <1>2, FS_Subset
<1>4. IsFiniteSet(Watching(d))
  BY <1>2, <1>3, FS_Subset
<1> QED BY <1>1, <1>3, <1>4, FS_CardinalityType

LEMMA LeastExists ==
  ASSUME NEW S \in SUBSET Nat, S # {}
  PROVE  \E i \in S : \A j \in 0..(i - 1) : j \notin S
<1>1. PICK i \in S : \A j \in S : ~(<<j, i>> \in OpToRel(<, Nat))
  BY NatLessThanWellFounded, WFMin
<1>2. ASSUME NEW j \in S, j < i
      PROVE FALSE
  <2>1. <<j, i>> \in OpToRel(<, Nat)
    BY <1>2 DEF OpToRel
  <2> QED BY <1>1, <2>1
<1> QED BY <1>2

\* A table that is not full has a first free entry: set_trap finds it.
LEMMA FreeEntry ==
  ASSUME NEW d, TableOK(d), d.num # MaxTraps
  PROVE  \E i \in Entries : ~valid(d, i) /\ \A j \in 0..(i - 1) : valid(d, j)
<1> DEFINE Free == {i \in Entries : ~valid(d, i)}
<1>1. Taken(d) # Entries
  <2>1. IsFiniteSet(Entries) /\ Cardinality(Entries) = MaxTraps
    BY EntriesFinite
  <2> QED BY <2>1 DEF TableOK, Counted
<1>2. Free # {} /\ Free \in SUBSET Nat
  BY <1>1, MaxTrapsAssumption DEF Taken, Entries
<1>3. PICK i \in Free : \A j \in 0..(i - 1) : j \notin Free
  BY <1>2, LeastExists
<1>4. \A j \in 0..(i - 1) : j \in Entries
  BY <1>3, MaxTrapsAssumption DEF Entries
<1> QED BY <1>3, <1>4

\* Setting and clearing traps keeps counters, table and flags together.
LEMMA SetTrapCounted ==
  ASSUME NEW d, TableOK(d), NEW s, NEW addr, NEW flag \in TrapFlags
  PROVE  TableOK(set_trap(d, s, addr, flag))
<1> DEFINE i == CHOOSE i \in Entries : ~valid(d, i) /\ \A j \in 0..(i - 1) : valid(d, j)
           e == [address |-> addr, flag |-> flag,
                 byte |-> IF flag = "watch" THEN Peek(s, addr) ELSE 0]
           t == set_trap(d, s, addr, flag)
<1>1. CASE d.num = MaxTraps
  BY <1>1 DEF set_trap
<1>2. CASE d.num # MaxTraps
  <2>1. i \in Entries /\ ~valid(d, i)
    BY <1>2, FreeEntry
  <2>2. /\ t.table = [d.table EXCEPT ![i] = e]
        /\ t.traps = d.traps \cup {<<addr, flag>>}
        /\ t.num = d.num + 1
        /\ t.watches = IF flag = "watch" THEN d.watches + 1 ELSE d.watches
        /\ DOMAIN t = {"traps", "table", "num", "watches", "printing"}
    <3>1. t = [d EXCEPT !.table[i] = e, !.traps = @ \cup {<<addr, flag>>},
                        !.num = @ + 1,
                        !.watches = IF flag = "watch" THEN @ + 1 ELSE @]
      BY <1>2 DEF set_trap
    <3> HIDE DEF t, e, i
    <3> QED BY <3>1 DEF TableOK
  <2>3. IsTrap(e) /\ e # NoTrap /\ e.flag = flag /\ e.address = addr
    BY DEF IsTrap, NoTrap, TrapFlags
  <2> HIDE DEF t, e, i
  <2>4. DOMAIN t.table = Entries /\ t.table[i] = e
        /\ \A j \in Entries \ {i} : t.table[j] = d.table[j]
    BY <2>1, <2>2 DEF TableOK, IsTable
  <2>5. IsTable(t.table)
    BY <2>3, <2>4 DEF TableOK, IsTable
  <2>6. Taken(t) = Taken(d) \cup {i} /\ i \notin Taken(d)
    BY <2>1, <2>3, <2>4 DEF Taken, valid
  <2>7. Watching(t) = IF flag = "watch" THEN Watching(d) \cup {i} ELSE Watching(d)
    BY <2>1, <2>3, <2>4, <2>6 DEF Watching, Taken
  <2>8. t.num = Cardinality(Taken(t))
    <3>1. IsFiniteSet(Taken(d)) /\ d.num = Cardinality(Taken(d))
      BY TakenFinite DEF TableOK, Counted
    <3>2. Cardinality(Taken(d) \cup {i}) = Cardinality(Taken(d)) + 1
      BY <2>6, <3>1, FS_AddElement
    <3> QED BY <2>2, <2>6, <3>1, <3>2
  <2>9. t.watches = Cardinality(Watching(t))
    <3>1. i \notin Watching(d)
      BY <2>6 DEF Watching
    <3>2. IsFiniteSet(Watching(d)) /\ d.watches = Cardinality(Watching(d))
      BY TakenFinite DEF TableOK, Counted
    <3>3. Cardinality(Watching(d) \cup {i}) = Cardinality(Watching(d)) + 1
      BY <3>1, <3>2, FS_AddElement
    <3> QED BY <2>2, <2>7, <3>2, <3>3
  <2>10. t.traps \subseteq Kept(t)
    <3>1. \A j \in Taken(d) : t.table[j] = d.table[j] /\ j \in Taken(t)
      BY <2>4, <2>6 DEF Taken
    <3>2. d.traps \subseteq Kept(d)
      BY DEF TableOK, Counted
    <3>3. <<addr, flag>> \in Kept(t)
      BY <2>3, <2>4, <2>6 DEF Kept
    <3>4. \A x \in Kept(d) : x \in Kept(t)
      BY <3>1 DEF Kept
    <3> QED BY <2>2, <3>2, <3>3, <3>4
  <2>11. TableOK(t)
    BY <2>2, <2>5, <2>8, <2>9, <2>10 DEF TableOK, Counted
  <2> QED BY <2>11 DEF t
<1> QED BY <1>1, <1>2

LEMMA ClearedCounted ==
  ASSUME NEW d, TableOK(d), NEW gone \in SUBSET Taken(d)
  PROVE  TableOK(cleared(d, gone))
<1> DEFINE t == cleared(d, gone)
           w == {i \in gone : d.table[i].flag = "watch"}
<1>1. /\ t.table = [i \in Entries |-> IF i \in gone THEN NoTrap ELSE d.table[i]]
      /\ t.traps = d.traps \ {<<d.table[i].address, d.table[i].flag>> : i \in gone}
      /\ t.num = d.num - Cardinality(gone)
      /\ t.watches = d.watches - Cardinality(w)
      /\ DOMAIN t = {"traps", "table", "num", "watches", "printing"}
  BY DEF cleared, TableOK
<1> HIDE DEF t
<1>2. IsTable(t.table)
  BY <1>1 DEF TableOK, IsTable
<1>3. Taken(t) = Taken(d) \ gone /\ Taken(d) \cap gone = gone
  BY <1>1 DEF Taken, valid
<1>4. Watching(t) = Watching(d) \ w /\ Watching(d) \cap w = w
  BY <1>1, <1>3 DEF Watching, Taken
<1> HIDE DEF w
<1>5. t.num = Cardinality(Taken(t))
  <2>1. IsFiniteSet(Taken(d)) /\ d.num = Cardinality(Taken(d))
    BY TakenFinite DEF TableOK, Counted
  <2>2. Cardinality(Taken(d) \ gone) = Cardinality(Taken(d)) - Cardinality(Taken(d) \cap gone)
    BY <2>1, FS_Difference
  <2> QED BY <1>1, <1>3, <2>1, <2>2
<1>6. t.watches = Cardinality(Watching(t))
  <2>1. IsFiniteSet(Watching(d)) /\ d.watches = Cardinality(Watching(d))
    BY TakenFinite DEF TableOK, Counted
  <2>2. Cardinality(Watching(d) \ w) = Cardinality(Watching(d)) - Cardinality(Watching(d) \cap w)
    BY <2>1, FS_Difference
  <2> QED BY <1>1, <1>4, <2>1, <2>2
<1>7. t.traps \subseteq Kept(t)
  <2> SUFFICES ASSUME NEW x \in t.traps
               PROVE  x \in Kept(t)
    OBVIOUS
  <2>1. PICK j \in Taken(d) : x = <<d.table[j].address, d.table[j].flag>>
    BY <1>1 DEF TableOK, Counted, Kept
  <2>2. j \notin gone
    BY <1>1, <2>1
  <2>3. j \in Taken(t) /\ t.table[j] = d.table[j]
    BY <1>1, <1>3, <2>1, <2>2 DEF Taken
  <2> QED BY <2>1, <2>3 DEF Kept
<1>8. TableOK(t)
  BY <1>1, <1>2, <1>5, <1>6, <1>7 DEF TableOK, Counted
<1> QED BY <1>8 DEF t

LEMMA ClearsCounted ==
  ASSUME NEW d, TableOK(d)
  PROVE  /\ \A i \in Entries : TableOK(clear_trap(d, i))
         /\ \A addr, flags : TableOK(clear_trap_address(d, addr, flags))
         /\ TableOK(clear_all_traps(d))
<1>1. ASSUME NEW i \in Entries PROVE TableOK(clear_trap(d, i))
  BY ClearedCounted DEF clear_trap, Taken
<1>2. ASSUME NEW addr, NEW flags PROVE TableOK(clear_trap_address(d, addr, flags))
  <2>1. {i \in Entries : /\ valid(d, i) /\ d.table[i].address = addr
                         /\ d.table[i].flag \in flags} \in SUBSET Taken(d)
    BY DEF Taken
  <2> QED BY <2>1, ClearedCounted DEF clear_trap_address
<1>3. TableOK(clear_all_traps(d))
  <2> DEFINE t == cleared(d, Taken(d))
  <2>1. clear_all_traps(d) = [t EXCEPT !.num = 0, !.watches = 0]
    BY DEF clear_all_traps, Taken
  <2>2. TableOK(t)
    BY ClearedCounted
  <2>3. t.num = 0 /\ t.watches = 0
    <3>1. t.num = d.num - Cardinality(Taken(d))
          /\ t.watches = d.watches - Cardinality(Watching(d))
      BY DEF cleared, Watching, TableOK
    <3> QED BY <3>1, TakenFinite DEF TableOK, Counted
  <2> HIDE DEF t
  <2> DEFINE u == clear_all_traps(d)
  <2>5. u.table = t.table /\ u.num = t.num /\ u.watches = t.watches /\ u.traps = t.traps
        /\ DOMAIN u = DOMAIN t
    BY <2>1, <2>2, <2>3 DEF TableOK
  <2> HIDE DEF u
  <2>6. Taken(u) = Taken(t) /\ Watching(u) = Watching(t)
    BY <2>5 DEF Taken, Watching, valid
  <2>7. Kept(u) = Kept(t)
    BY <2>5, <2>6 DEF Kept
  <2>8. TableOK(u)
    BY <2>2, <2>5, <2>6, <2>7 DEF TableOK, Counted
  <2> QED BY <2>8 DEF u
<1> QED BY <1>1, <1>2, <1>3

\* Bringing watched bytes up to date, or printing, changes no count.
LEMMA UpdatedCounted ==
  ASSUME NEW d, TableOK(d), NEW s
  PROVE  TableOK(Updated(d, s)) /\ Updated(d, s).traps = d.traps
<1> DEFINE t == Updated(d, s)
           v(i) == Peek(s, d.table[i].address)
<1>1. /\ t.table = [i \in Entries |-> IF i \in Changed(d, s)
                                      THEN [d.table[i] EXCEPT !.byte = v(i)]
                                      ELSE d.table[i]]
      /\ t.traps = d.traps /\ t.num = d.num /\ t.watches = d.watches
      /\ DOMAIN t = {"traps", "table", "num", "watches", "printing"}
  BY DEF Updated, TableOK
<1> HIDE DEF t, v
<1>2. \A i \in Changed(d, s) : i \in Entries /\ IsTrap(d.table[i])
  BY DEF Changed, valid, TableOK, IsTable
<1>3. ASSUME NEW i \in Entries
      PROVE  /\ t.table[i].flag = d.table[i].flag
             /\ t.table[i].address = d.table[i].address
             /\ IsTrap(d.table[i]) => IsTrap(t.table[i])
             /\ t.table[i] = NoTrap <=> d.table[i] = NoTrap
  <2>1. CASE i \in Changed(d, s)
    <3> DEFINE e == d.table[i]
               u == t.table[i]
    <3>1. u = [e EXCEPT !.byte = v(i)] /\ IsTrap(e)
      BY <1>1, <1>2, <2>1
    <3> HIDE DEF e, u
    <3>2. u.flag = e.flag /\ u.address = e.address /\ IsTrap(u)
      BY <3>1 DEF IsTrap
    <3>3. u # NoTrap /\ e # NoTrap
      BY <3>1, <3>2 DEF IsTrap, NoTrap, TrapFlags
    <3> QED BY <3>1, <3>2, <3>3 DEF e, u
  <2>2. CASE i \notin Changed(d, s)
    BY <1>1, <2>2
  <2> QED BY <2>1, <2>2
<1>4. IsTable(t.table)
  BY <1>1, <1>3 DEF TableOK, IsTable
<1>5. Taken(t) = Taken(d)
  BY <1>3 DEF Taken, valid
<1>6. Watching(t) = Watching(d) /\ Kept(t) = Kept(d)
  BY <1>3, <1>5 DEF Watching, Kept, Taken
<1>7. TableOK(t)
  BY <1>1, <1>4, <1>5, <1>6 DEF TableOK, Counted
<1> QED BY <1>1, <1>7 DEF t

LEMMA PrintingCounted ==
  ASSUME NEW d, TableOK(d), NEW on
  PROVE  LET t == [d EXCEPT !.printing = on] IN
         TableOK(t) /\ t.traps = d.traps /\ t.num = d.num
<1> DEFINE t == [d EXCEPT !.printing = on]
<1>1. /\ t.table = d.table /\ t.traps = d.traps /\ t.num = d.num /\ t.watches = d.watches
      /\ DOMAIN t = DOMAIN d
  BY DEF TableOK
<1> HIDE DEF t
<1>2. Taken(t) = Taken(d)
  BY <1>1 DEF Taken, valid
<1>3. Watching(t) = Watching(d) /\ Kept(t) = Kept(d)
  BY <1>1, <1>2 DEF Watching, Kept
<1>4. TableOK(t)
  BY <1>1, <1>2, <1>3 DEF TableOK, Counted
<1> QED BY <1>1, <1>4 DEF t

-----------------------------------------------------------------------------
\* While the code that "next" stepped over runs, its trap is set; the processor
\* runs free only when no trap is.
NextWaits ==
  over.room /\ mode # "shell" =>
    \E n \in 1..3 : <<(over.pc + n) % Word, "once">> \in dbg.traps
FreeUntrapped == mode = "free" => dbg.num = 0 /\ ~dbg.printing
\* The invariant: the table and its counters, and what the modes rely on.
DebugInv ==
  /\ TableOK(dbg)
  /\ FreeUntrapped
  /\ NextWaits

LEMMA DebugInitOK == DebugInit => DebugInv
<1> SUFFICES ASSUME DebugInit PROVE DebugInv
  OBVIOUS
<1>1. /\ DOMAIN dbg = {"traps", "table", "num", "watches", "printing"}
      /\ dbg.table = [i \in Entries |-> NoTrap] /\ dbg.num = 0 /\ dbg.watches = 0
      /\ dbg.traps = {}
  BY DEF DebugInit
<1>2. IsTable(dbg.table)
  BY <1>1 DEF IsTable
<1>3. Taken(dbg) = {}
  BY <1>1 DEF Taken, valid
<1>4. Watching(dbg) = {}
  BY <1>3 DEF Watching
<1>5. TableOK(dbg)
  BY <1>1, <1>2, <1>3, <1>4, FS_EmptySet DEF TableOK, Counted
<1>6. FreeUntrapped /\ NextWaits
  BY DEF DebugInit, FreeUntrapped, NextWaits, None
<1> QED BY <1>5, <1>6 DEF DebugInv

\* run() comes back: in the shell, or with the traps it had.
LEMMA ReturnedCounted ==
  ASSUME NEW d, TableOK(d), NEW stopped, Returned(d, stopped)
  PROVE  /\ TableOK(dbg') /\ mode' \in {"shell", "run"}
         /\ mode' = "run" => dbg'.traps = d.traps
         /\ stopped = TRUE => mode' = "shell"
<1> DEFINE at == {f \in {"break", "once"} : <<cpu'.pc, f>> \in d.traps}
           e == IF "once" \in at THEN clear_trap_address(d, cpu'.pc, {"once"}) ELSE d
<1>1. /\ dbg' = Updated(e, cpu')
      /\ stop' = (stopped \/ at # {} \/ Changed(e, cpu') # {})
      /\ mode' = IF stop' THEN "shell" ELSE "run"
  BY DEF Returned
<1>2. TableOK(e)
  BY ClearsCounted
<1>3. at = {} => e = d
  OBVIOUS
<1> HIDE DEF at, e
<1>4. TableOK(dbg') /\ dbg'.traps = e.traps
  BY <1>1, <1>2, UpdatedCounted
<1> QED BY <1>1, <1>3, <1>4

\* A pass of the loop, a turn of the free processor, and the user's commands.
LEMMA RunStep ==
  ASSUME DebugInv, run, over' = over
  PROVE  DebugInv'
<1> DEFINE t == TrapsAt(cpu.pc)
           d == [dbg EXCEPT !.printing = (@ \/ "on" \in t) /\ "off" \notin t]
<1>1. TableOK(d) /\ d.traps = dbg.traps /\ d.num = dbg.num
  BY PrintingCounted DEF DebugInv
<1>2. \/ /\ ~d.printing /\ d.num = 0 /\ mode' = "free" /\ dbg' = d
      \/ \E stopped : Returned(d, stopped)
  BY DEF run
<1>3. mode = "run"
  BY DEF run
<1> HIDE DEF d
<1>4. ASSUME ~d.printing, d.num = 0, mode' = "free", dbg' = d
      PROVE  DebugInv'
  BY <1>1, <1>3, <1>4 DEF DebugInv, FreeUntrapped, NextWaits
<1>5. ASSUME NEW stopped, Returned(d, stopped)
      PROVE  DebugInv'
  BY <1>1, <1>3, <1>5, ReturnedCounted DEF DebugInv, FreeUntrapped, NextWaits
<1> QED BY <1>2, <1>4, <1>5

LEMMA FreeStep ==
  ASSUME DebugInv, FreeTurn, over' = over
  PROVE  DebugInv'
<1>1. \/ Returned(dbg, TRUE)
      \/ UNCHANGED <<dbg, mode, stop>>
  BY DEF FreeTurn
<1>2. CASE Returned(dbg, TRUE)
  <2>1. TableOK(dbg') /\ mode' = "shell"
    BY <1>2, ReturnedCounted DEF DebugInv
  <2> QED BY <2>1 DEF DebugInv, FreeUntrapped, NextWaits
<1>3. CASE UNCHANGED <<dbg, mode, stop>>
  BY <1>3 DEF DebugInv, FreeUntrapped, NextWaits, TableOK, Counted, Taken, Watching, Kept, valid
<1> QED BY <1>1, <1>2, <1>3

\* A command that leaves the shell's table counted.
LEMMA CommandStep ==
  ASSUME DebugInv, Command
  PROVE  DebugInv'
<1>1. mode' \in {"shell", "run"} /\ over' = None
  BY DEF Command, SetTrap, Clear, Delete, DeleteAll, TraceOn, Cont, Step, StepInt,
         StepCommand, Traps, Start, Shell
<1>2. TableOK(dbg')
  <2>1. CASE SetTrap
    BY <2>1, SetTrapCounted DEF SetTrap, Traps, DebugInv, TrapFlags
  <2>2. CASE Clear
    BY <2>2, ClearsCounted DEF Clear, Traps, DebugInv
  <2>3. CASE Delete
    BY <2>3, ClearsCounted DEF Delete, Traps, DebugInv
  <2>4. CASE DeleteAll
    BY <2>4, ClearsCounted DEF DeleteAll, Traps, DebugInv
  <2>5. CASE TraceOn
    BY <2>5, PrintingCounted DEF TraceOn, Traps, DebugInv
  <2>6. CASE Cont \/ Step \/ StepInt
    <3>1. dbg' = dbg
      BY <2>6 DEF Cont, Step, StepInt, StepCommand, Start
    <3> QED BY <3>1 DEF DebugInv
  <2> QED BY <2>1, <2>2, <2>3, <2>4, <2>5, <2>6 DEF Command
<1> QED BY <1>1, <1>2 DEF DebugInv, FreeUntrapped, NextWaits, None

\* A "next" sets its trap when the table has room for it.
LEMMA OverStep ==
  ASSUME DebugInv, Over1
  PROVE  DebugInv'
<1>1. over' = [pc |-> cpu.pc, sp |-> cpu.sp, room |-> dbg.num < MaxTraps]
  BY DEF Over1
<1>2. PICK allowed \in BOOLEAN : NextCommand(allowed)
  BY DEF Over1, NextStep, NextInt
<1>3. CASE Over(cpu) = 0
  <2>1. dbg' = dbg /\ mode' = "shell"
    BY <1>2, <1>3 DEF NextCommand, StepCommand, Shell
  <2> QED BY <2>1 DEF DebugInv, FreeUntrapped, NextWaits
<1>4. CASE Over(cpu) # 0
  <2> DEFINE addr == (cpu.pc + Over(cpu)) % Word
  <2>1. dbg' = set_trap(dbg, cpu, addr, "once") /\ mode' = "run"
    BY <1>2, <1>4 DEF NextCommand, Start
  <2>2. Over(cpu) \in 1..3
    BY <1>4 DEF Over
  <2>3. over'.room => <<addr, "once">> \in dbg'.traps
    <3> HIDE DEF addr
    <3>1. ASSUME over'.room PROVE dbg.num # MaxTraps
      <4>1. ~(MaxTraps < MaxTraps)
        BY MaxTrapsAssumption
      <4>2. over'.room = (dbg.num < MaxTraps)
        BY <1>1
      <4> QED BY <3>1, <4>1, <4>2, Zenon
    <3>2. DOMAIN dbg = {"traps", "table", "num", "watches", "printing"}
      BY DEF DebugInv, TableOK
    <3> QED BY <2>1, <3>1, <3>2 DEF set_trap
  <2>4. TableOK(dbg')
    BY <2>1, SetTrapCounted DEF DebugInv, TrapFlags
  <2>5. NextWaits'
    BY <1>1, <2>2, <2>3 DEF NextWaits
  <2> QED BY <2>1, <2>4, <2>5 DEF DebugInv, FreeUntrapped
<1> QED BY <1>3, <1>4

LEMMA DebugStep == DebugInv /\ [DebugNext]_userVars => DebugInv'
<1> SUFFICES ASSUME DebugInv, [DebugNext]_userVars PROVE DebugInv'
  OBVIOUS
<1>1. CASE StepOnce
  <2>1. dbg' = dbg /\ mode' = mode /\ over' = None
    BY <1>1 DEF StepOnce, Step, StepCommand
  <2> QED BY <2>1 DEF DebugInv, FreeUntrapped, NextWaits, None
<1>2. CASE Command
  BY <1>2, CommandStep
<1>3. CASE Over1
  BY <1>3, OverStep
<1>4. CASE Processor
  BY <1>4, RunStep, FreeStep DEF Processor
<1>5. CASE UserBreak
  <2>1. dbg' = dbg /\ mode' = mode /\ over' = None
    BY <1>5 DEF UserBreak, trs_debug
  <2> QED BY <2>1 DEF DebugInv, FreeUntrapped, NextWaits, None
<1>6. CASE UNCHANGED userVars
  BY <1>6 DEF userVars, DebugInv, FreeUntrapped, NextWaits
<1> QED BY <1>1, <1>2, <1>3, <1>4, <1>5, <1>6 DEF DebugNext

\* The invariant holds whatever the user commands and the processor does.
THEOREM DebuggerInvariant == DebugSpec => []DebugInv
BY DebugInitOK, DebugStep, PTL DEF DebugSpec

\* The counters are those of the table and no flag is left without an entry,
\* whatever is set, cleared, hit, or changed while it was watched (debug.c:181-279).
THEOREM TableCountsHolds == DebugSpec => []TableCounts
<1>1. DebugInv => TableCounts
  BY DEF DebugInv, TableOK, Counted, TableCounts, Taken, Watching, Kept
<1> QED BY <1>1, DebuggerInvariant, PTL

\* The trap of a "next" stays set as long as its code runs, and the processor runs
\* free, where nobody looks at traps, only when there are none (debug.c:664-732).
THEOREM NextTrapKept == DebugSpec => [](FreeUntrapped /\ NextWaits)
<1>1. DebugInv => FreeUntrapped /\ NextWaits
  BY DEF DebugInv
<1> QED BY <1>1, DebuggerInvariant, PTL

-----------------------------------------------------------------------------
(* Where the program counter stands                                        *)

\* t stands where s stands.
Keeps(t, s) == "pc" \in DOMAIN t /\ t.pc = s.pc

LEMMA HasPc == \A s : IsProcessor(s) => Keeps(s, s) /\ "pc" \notin ByteRegs
BY DEF IsProcessor, WordRegs, Keeps, ByteRegs

\* What writes a register, memory or the stack leaves the program counter.
LEMMA ChangesKeep ==
  ASSUME NEW s, "pc" \in DOMAIN s, NEW x, x # "pc", NEW v
  PROVE  Keeps([s EXCEPT ![x] = v], s)
BY DEF Keeps

LEMMA PokesKeep ==
  ASSUME NEW s, "pc" \in DOMAIN s, NEW addr, NEW v
  PROVE  Keeps(Poke(s, addr, v), s) /\ Keeps(PokeWord(s, addr, v), s)
<1>1. \A t, n, w : "pc" \in DOMAIN t => Keeps(Poke(t, n, w), t)
  BY DEF Keeps, Poke
<1> QED BY <1>1 DEF PokeWord, Keeps

LEMMA PutsKeep ==
  ASSUME NEW s, "pc" \in DOMAIN s, NEW n \in 0..7, NEW v
  PROVE  Keeps(Put8(s, n, v), s)
<1>1. CASE n = 6
  BY <1>1, PokesKeep DEF Put8
<1>2. CASE n # 6
  <2> DEFINE x == R8[n + 1]
  <2>1. x \in ByteRegs
    BY <1>2, RegisterNames
  <2>2. x # "pc"
    BY <2>1 DEF ByteRegs
  <2>3. Put8(s, n, v) = [s EXCEPT ![x] = v]
    BY <1>2 DEF Put8
  <2> HIDE DEF x
  <2>4. Keeps([s EXCEPT ![x] = v], s)
    BY <2>2, ChangesKeep
  <2> QED BY <2>3, <2>4
<1> QED BY <1>1, <1>2

LEMMA PairsKeep ==
  ASSUME NEW s, "pc" \in DOMAIN s, NEW n \in 0..3, NEW v
  PROVE  Keeps(PutPair(s, n, v), s)
<1> DEFINE w == v % Word  high == w \div 256  low == w % 256
<1>1. PutPair(s, n, v) = CASE n = 0 -> [s EXCEPT !.b = high, !.c = low]
                           [] n = 1 -> [s EXCEPT !.d = high, !.e = low]
                           [] n = 2 -> [s EXCEPT !.h = high, !.l = low]
                           [] n = 3 -> [s EXCEPT !.sp = w]
  BY DEF PutPair
<1> HIDE DEF w, high, low
<1>2. /\ Keeps([s EXCEPT !.b = high, !.c = low], s) /\ Keeps([s EXCEPT !.d = high, !.e = low], s)
      /\ Keeps([s EXCEPT !.h = high, !.l = low], s) /\ Keeps([s EXCEPT !.sp = w], s)
  BY DEF Keeps
<1>3. n = 0 \/ n = 1 \/ n = 2 \/ n = 3
  OBVIOUS
<1> QED BY <1>1, <1>2, <1>3

LEMMA StacksKeep ==
  ASSUME NEW s, "pc" \in DOMAIN s, NEW w
  PROVE  Keeps(Push(s, w), s) /\ Keeps(Popped(s), s)
<1> DEFINE t == [s EXCEPT !.sp = (s.sp - 2) % Word]
<1>1. Keeps(t, s) /\ Keeps(Popped(s), s)
  BY DEF Keeps, Popped
<1>2. Push(s, w) = PokeWord(t, (s.sp - 2) % Word, w)
  BY DEF Push
<1> HIDE DEF t
<1>3. Keeps(PokeWord(t, (s.sp - 2) % Word, w), t)
  BY <1>1, PokesKeep DEF Keeps
<1> QED BY <1>1, <1>2, <1>3 DEF Keeps

\* What reads an operand moves it, and counting a refresh does not.
LEMMA SkipMoves ==
  ASSUME NEW s, "pc" \in DOMAIN s, NEW n
  PROVE  Skip(s, n).pc = (s.pc + n) % Word /\ "pc" \in DOMAIN Skip(s, n)
BY DEF Skip

LEMMA RefreshKeeps ==
  ASSUME NEW s, "pc" \in DOMAIN s, NEW n
  PROVE  Keeps(Refreshed(s, n), s)
BY DEF Refreshed, Keeps

\* Operations on registers leave it.
LEMMA AluKeeps ==
  ASSUME NEW s, "pc" \in DOMAIN s, NEW v
  PROVE  /\ Keeps(AddByte(s, v), s) /\ Keeps(AdcByte(s, v), s) /\ Keeps(SubByte(s, v), s)
         /\ Keeps(SbcByte(s, v), s) /\ Keeps(AndByte(s, v), s) /\ Keeps(XorByte(s, v), s)
         /\ Keeps(OrByte(s, v), s) /\ Keeps(Cp(s, v), s)
<1>1. \A a, f : Keeps([s EXCEPT !.a = a, !.f = f], s) /\ Keeps([s EXCEPT !.f = f], s)
  BY DEF Keeps
<1>2. Keeps(AddByte(s, v), s) /\ Keeps(AdcByte(s, v), s)
  BY <1>1, Zenon DEF AddByte, AdcByte
<1>3. Keeps(SubByte(s, v), s) /\ Keeps(SbcByte(s, v), s)
  BY <1>1, Zenon DEF SubByte, SbcByte
<1>4. Keeps(AndByte(s, v), s) /\ Keeps(XorByte(s, v), s) /\ Keeps(OrByte(s, v), s)
  BY <1>1, Zenon DEF AndByte, XorByte, OrByte
<1>5. Keeps(Cp(s, v), s)
  BY <1>1, Zenon DEF Cp
<1> QED BY <1>2, <1>3, <1>4, <1>5

\* Nor do rotations, exchanges and switches of one byte.
LEMMA SwitchesKeep ==
  ASSUME NEW s, "pc" \in DOMAIN s
  PROVE  /\ Keeps(Scf(s), s) /\ Keeps(Ccf(s), s) /\ Keeps(Cpl(s), s) /\ Keeps(Daa(s), s)
         /\ Keeps(Rla(s), s) /\ Keeps(Rra(s), s) /\ Keeps(Rlca(s), s) /\ Keeps(Rrca(s), s)
         /\ Keeps(ExAf(s), s) /\ Keeps(ExDeHl(s), s) /\ Keeps(Exx(s), s)
         /\ Keeps(Di(s), s) /\ Keeps(Ei(s), s) /\ Keeps(Negate(s), s)
<1>1. \A a, f : Keeps([s EXCEPT !.a = a, !.f = f], s) /\ Keeps([s EXCEPT !.f = f], s)
  BY DEF Keeps
<1>2. Keeps(Scf(s), s) /\ Keeps(Ccf(s), s) /\ Keeps(Cpl(s), s) /\ Keeps(Daa(s), s) /\ Keeps(Negate(s), s)
  <2>1. Keeps(Scf(s), s) /\ Keeps(Ccf(s), s)
    BY DEF Keeps, Scf, Ccf
  <2>2. Keeps(Cpl(s), s)
    BY <1>1, Zenon DEF Cpl
  <2>3. Keeps(Daa(s), s)
    <3> DEFINE a == IF "N" \in s.f THEN DaaAfterSub(s.a, s.f) ELSE DaaAfterAdd(s.a, s.f)
               half == IF "N" \in s.f THEN "H" \in s.f /\ s.a % 16 <= 5 ELSE s.a % 16 > 9
               f == LogicFlags(a % 256) \cup (s.f \cap {"N", "C"}) \cup On(half, "H")
                      \cup On(Bit(a, 256) = 1, "C")
               b == a % 256
    <3>1. Daa(s) = WithAF(s, b, f)
      BY DEF Daa, WithAF
    <3> HIDE DEF a, b, f
    <3>2. Keeps(WithAF(s, b, f), s)
      BY <1>1 DEF WithAF
    <3> QED BY <3>1, <3>2
  <2>4. Keeps(Negate(s), s)
    BY <1>1, Zenon DEF Negate
  <2> QED BY <2>1, <2>2, <2>3, <2>4
<1>3. \A r : Keeps(RotateA(s, r), s)
  BY <1>1, Zenon DEF RotateA
<1>4. Keeps(Rla(s), s) /\ Keeps(Rra(s), s) /\ Keeps(Rlca(s), s) /\ Keeps(Rrca(s), s)
  BY <1>3 DEF Rla, Rra, Rlca, Rrca
<1>5. Keeps(ExAf(s), s) /\ Keeps(ExDeHl(s), s) /\ Keeps(Di(s), s) /\ Keeps(Ei(s), s)
  BY DEF Keeps, ExAf, ExDeHl, Di, Ei
<1>6. Keeps(Exx(s), s)
  BY DEF Keeps, Exx
<1> QED BY <1>2, <1>4, <1>5, <1>6

\* Instructions of one byte without an operand behind them.
LEMMA PlainKeep ==
  ASSUME NEW s, "pc" \in DOMAIN s, NEW op \in Int
  PROVE  /\ Keeps(AddHL(s, op), s) /\ Keeps(IncPair(s, op), s) /\ Keeps(DecPair(s, op), s)
         /\ Keeps(Inc(s, op), s) /\ Keeps(Dec(s, op), s)
         /\ Keeps(StoreAAtPair(s, op), s) /\ Keeps(LoadAFromPair(s, op), s)
         /\ Keeps(LoadByte(s, op), s) /\ Keeps(StoreAtHL(s, op), s) /\ Keeps(LoadFromHL(s, op), s)
<1>1. Y(op) \in 0..7 /\ Z(op) \in 0..7 /\ P(op) \in 0..3 /\ 2 \in 0..3 /\ 6 \in 0..7
  BY OpcodeFields
<1>2. \A t, f : Keeps(t, s) => Keeps([t EXCEPT !.f = f], s)
  BY DEF Keeps
<1>3. Keeps(AddHL(s, op), s) /\ Keeps(IncPair(s, op), s) /\ Keeps(DecPair(s, op), s)
  BY <1>1, <1>2, PairsKeep DEF AddHL, IncPair, DecPair
<1>4. Keeps(Inc(s, op), s) /\ Keeps(Dec(s, op), s)
  BY <1>1, <1>2, PutsKeep DEF Inc, Dec
<1>5. Keeps(StoreAAtPair(s, op), s) /\ Keeps(LoadAFromPair(s, op), s)
  <2>1. \A v : Keeps([s EXCEPT !.a = v], s)
    BY DEF Keeps
  <2> QED BY <2>1, PokesKeep DEF StoreAAtPair, LoadAFromPair
<1>6. Keeps(LoadByte(s, op), s) /\ Keeps(StoreAtHL(s, op), s) /\ Keeps(LoadFromHL(s, op), s)
  BY <1>1, PutsKeep DEF LoadByte, StoreAtHL, LoadFromHL
<1> QED BY <1>3, <1>4, <1>5, <1>6

\* Neither do the instructions that use the stack and do not jump.
LEMMA StackKeeps ==
  ASSUME NEW s, "pc" \in DOMAIN s, NEW op \in Int
  PROVE  /\ Keeps(PopPair(s, op), s) /\ Keeps(PushPair(s, op), s)
         /\ Keeps(ExSpHl(s), s) /\ Keeps([s EXCEPT !.sp = HL(s)], s)
<1>1. P(op) \in 0..3 /\ 2 \in 0..3
  BY OpcodeFields
<1>2. Keeps(PushPair(s, op), s)
  BY StacksKeep DEF PushPair
<1>3. Keeps(PopPair(s, op), s)
  <2> DEFINE w == PeekWord(s, s.sp)
             t == Popped(s)
  <2>1. Keeps(t, s)
    BY StacksKeep
  <2>2. PopPair(s, op) = IF P(op) = 3 THEN [t EXCEPT !.a = High(w), !.f = FlagsOf(Low(w))]
                                      ELSE PutPair(t, P(op), w)
    BY DEF PopPair
  <2> HIDE DEF w, t
  <2>3. Keeps([t EXCEPT !.a = High(w), !.f = FlagsOf(Low(w))], s)
    BY <2>1 DEF Keeps
  <2>4. Keeps(PutPair(t, P(op), w), t)
    BY <1>1, <2>1, PairsKeep DEF Keeps
  <2> QED BY <2>1, <2>2, <2>3, <2>4 DEF Keeps
<1>4. Keeps(ExSpHl(s), s)
  <2> DEFINE t == PokeWord(s, s.sp, HL(s))
  <2>1. Keeps(t, s)
    BY PokesKeep
  <2> HIDE DEF t
  <2>2. Keeps(PutPair(t, 2, PeekWord(s, s.sp)), t)
    BY <1>1, <2>1, PairsKeep DEF Keeps
  <2> QED BY <2>1, <2>2 DEF Keeps, ExSpHl, t
<1>5. Keeps([s EXCEPT !.sp = HL(s)], s)
  BY DEF Keeps
<1> QED BY <1>2, <1>3, <1>4, <1>5

\* t stands n bytes behind s.
Passed(t, s, n) == "pc" \in DOMAIN t /\ t.pc = (s.pc + n) % Word

\* Instructions with operands behind the opcode go past all of them.
LEMMA OperandsPassed ==
  ASSUME NEW s, "pc" \in DOMAIN s, NEW op \in Int, NEW in
  PROVE  /\ Passed(LoadByteNext(s, op), s, 1) /\ Passed(InA(s, in), s, 1) /\ Passed(OutA(s), s, 1)
         /\ Passed(LoadPair(s, op), s, 2) /\ Passed(LoadAFrom(s), s, 2)
         /\ Passed(StoreAAt(s), s, 2) /\ Passed(StoreHLAt(s), s, 2) /\ Passed(LoadHLFrom(s), s, 2)
<1>1. Y(op) \in 0..7 /\ P(op) \in 0..3 /\ 2 \in 0..3
  BY OpcodeFields
<1>2. \A n : Passed(Skip(s, n), s, n)
  BY SkipMoves DEF Passed
<1>3. \A t, u, n : Passed(t, s, n) /\ Keeps(u, t) => Passed(u, s, n)
  BY DEF Passed, Keeps
<1>4. \A n, v : Passed([Skip(s, n) EXCEPT !.a = v], s, n)
  BY <1>2 DEF Passed
<1>5. \A n : "pc" \in DOMAIN Skip(s, n)
  BY SkipMoves
<1>6. Passed(InA(s, in), s, 1) /\ Passed(OutA(s), s, 1) /\ Passed(LoadAFrom(s), s, 2)
  BY <1>2, <1>4 DEF InA, OutA, LoadAFrom
<1>7. Passed(LoadByteNext(s, op), s, 1)
  BY <1>1, <1>2, <1>3, <1>5, PutsKeep DEF LoadByteNext
<1>8. Passed(LoadPair(s, op), s, 2) /\ Passed(LoadHLFrom(s), s, 2)
  BY <1>1, <1>2, <1>3, <1>5, PairsKeep DEF LoadPair, LoadHLFrom
<1>9. Passed(StoreAAt(s), s, 2) /\ Passed(StoreHLAt(s), s, 2)
  BY <1>2, <1>3, <1>5, PokesKeep DEF StoreAAt, StoreHLAt
<1> QED BY <1>6, <1>7, <1>8, <1>9

-----------------------------------------------------------------------------
(* The listing and the processor                                           *)

\* How much is listed behind a byte that is an opcode of its own.
LEMMA ArgLengths ==
  /\ arglen("none") = 0 /\ arglen("byte") = 1 /\ arglen("word") = 2 /\ arglen("noop") = -1
  /\ arglen("before") = 0 /\ arglen("relative") = 1 /\ arglen("bytes") = 2
BY DEF arglen

Behind(op) == arglen(major(op))

\* The first table of the listing, by the groups of opcodes that the code of the
\* processor has.
LEMMA LowLengths ==
  /\ \A op \in {1, 17, 33, 49, 34, 42, 50, 58} : major(op) = "word"
  /\ \A op \in {16, 24, 32, 40, 48, 56} : major(op) = "relative"
  /\ \A n \in 0..7 : major(6 + 8 * n) = "byte"
  /\ \A op \in {0, 9, 25, 41, 57, 3, 19, 35, 51, 11, 27, 43, 59, 2, 18, 10, 26, 8,
                7, 15, 23, 31, 39, 47, 55, 63} : major(op) = "none"
  /\ \A n \in 0..7 : major(4 + 8 * n) = "none" /\ major(5 + 8 * n) = "none"
  /\ \A op \in 64..127 : major(op) = "none"
  /\ \A op \in 128..191 : major(op) = "none"
<1>1. \A op \in {1, 17, 33, 49, 34, 42, 50, 58} : major(op) = "word"
  BY DEF major, majorLow, Columns
<1>3. \A op \in {16, 24, 32, 40, 48, 56} : major(op) = "relative"
  BY DEF major, majorLow, Columns
<1>4. \A n \in 0..7 : major(6 + 8 * n) = "byte"
  BY DEF major, majorLow, Columns
<1>5. \A op \in {0, 9, 25, 41, 57, 3, 19, 35, 51, 11, 27, 43, 59, 2, 18, 10, 26, 8,
                7, 15, 23, 31, 39, 47, 55, 63} : major(op) = "none"
  BY DEF major, majorLow, Columns
<1>6. \A n \in 0..7 : major(4 + 8 * n) = "none" /\ major(5 + 8 * n) = "none"
  BY DEF major, majorLow, Columns
<1>7. \A op \in 64..127 : major(op) = "none"
  BY DEF major, majorLow, Columns
<1>8. \A op \in 128..191 : major(op) = "none"
  BY DEF major, majorHigh, Columns
<1> QED BY <1>1, <1>3, <1>4, <1>5, <1>6, <1>7, <1>8

LEMMA HighLengths ==
  /\ \A n \in 0..7 : major(192 + 8 * n) = "none" /\ major(199 + 8 * n) = "none"
  /\ \A n \in 0..7 : major(194 + 8 * n) = "word" /\ major(196 + 8 * n) = "word"
  /\ \A n \in 0..7 : major(198 + 8 * n) = "byte"
  /\ \A op \in {195, 205} : major(op) = "word"
  /\ \A op \in {211, 219} : major(op) = "byte"
  /\ \A op \in {203, 221, 237, 253} : major(op) = "table"
  /\ \A op \in {193, 209, 225, 241, 197, 213, 229, 245, 201, 217, 227, 233, 235, 243, 249, 251} :
       major(op) = "none"
<1>1. \A n \in 0..7 : major(192 + 8 * n) = "none" /\ major(199 + 8 * n) = "none"
  BY DEF major, majorHigh, Columns
<1>2. \A n \in 0..7 : major(194 + 8 * n) = "word" /\ major(196 + 8 * n) = "word"
  BY DEF major, majorHigh, Columns
<1>3. \A n \in 0..7 : major(198 + 8 * n) = "byte"
  BY DEF major, majorHigh, Columns
<1>4. \A op \in {195, 205} : major(op) = "word"
  BY DEF major, majorHigh, Columns
<1>5. \A op \in {211, 219} : major(op) = "byte"
  BY DEF major, majorHigh, Columns
<1>6. \A op \in {203, 221, 237, 253} : major(op) = "table"
  BY DEF major, majorHigh, Columns
<1>7. \A op \in {193, 209, 225, 241, 197, 213, 229, 245, 201, 217, 227, 233, 235, 243, 249, 251} :
       major(op) = "none"
  BY DEF major, majorHigh, Columns
<1> QED BY <1>1, <1>2, <1>3, <1>4, <1>5, <1>6, <1>7

-----------------------------------------------------------------------------
(* Instructions of one byte, against the listing                           *)

LEMMA ModSum == \A a, n \in Int : ((a % Word) + n) % Word = (a + n) % Word
BY Z3 DEF Word

\* An instruction without operands ends where its opcode did.
LEMMA KeptIsPassed ==
  ASSUME NEW s, IsProcessor(s), NEW t, Keeps(t, s)
  PROVE  Passed(t, s, 0)
<1>1. s.pc \in Int /\ 0 <= s.pc /\ s.pc < Word
  BY DEF IsProcessor, WordRegs, IsWord
<1>2. (s.pc + 0) % Word = s.pc
  BY <1>1, Z3 DEF Word
<1> QED BY <1>2 DEF Keeps, Passed

\* A relative jump from s, which stands at the distance.
Jumped(t, s) == t.pc = (s.pc + (Signed(Fetch(s)) + 1)) % Word

\* A relative jump goes past its distance, or as far as that says.
LEMMA RelativesFollow ==
  ASSUME NEW s, IsProcessor(s), NEW op
  PROVE  /\ Jumped(Jr(s), s)
         /\ Passed(JrIf(s, op), s, 1) \/ Jumped(JrIf(s, op), s)
         /\ Passed(Djnz(s), s, 1) \/ Jumped(Djnz(s), s)
<1>1. "pc" \in DOMAIN s
  BY HasPc DEF Keeps
<1>2. \A t : "pc" \in DOMAIN t /\ t.pc = s.pc => \A n : Skip(t, n).pc = (s.pc + n) % Word /\ "pc" \in DOMAIN Skip(t, n)
  BY SkipMoves
<1>3. Jumped(Jr(s), s)
  BY <1>1, <1>2 DEF Jr, Jumped
<1>4. Passed(JrIf(s, op), s, 1) \/ Jumped(JrIf(s, op), s)
  BY <1>1, <1>2, <1>3 DEF JrIf, Passed
<1>5. Passed(Djnz(s), s, 1) \/ Jumped(Djnz(s), s)
  <2> DEFINE t == [s EXCEPT !.b = (@ - 1) % 256]
  <2>1. t.pc = s.pc /\ t.mem = s.mem /\ "pc" \in DOMAIN t
    BY <1>1 DEF IsProcessor
  <2>2. Djnz(s) = IF t.b # 0 THEN Jr(t) ELSE Skip(t, 1)
    BY DEF Djnz
  <2> HIDE DEF t
  <2>3. Fetch(t) = Fetch(s)
    BY <2>1 DEF Fetch, Peek
  <2> QED BY <1>2, <2>1, <2>2, <2>3 DEF Jr, Jumped, Passed
<1> QED BY <1>3, <1>4, <1>5

\* Where the processor is after an instruction of one byte, op.
Listed(t, s, op) ==
  \/ Passed(t, s, Behind(op))
  \/ major(op) = "relative" /\ Jumped(t, s)
  \/ op \in Jumps

\* So an instruction for which the listing has no arguments is where it says.
LEMMA KeptIsListed ==
  ASSUME NEW s, IsProcessor(s), NEW t, Keeps(t, s), NEW op, major(op) = "none"
  PROVE  Listed(t, s, op)
BY KeptIsPassed, ArgLengths DEF Listed, Behind

\* The opcodes below 64, from NOP to CCF.
LEMMA LowFollows ==
  ASSUME NEW s, IsProcessor(s), NEW op, IsByte(op), op < 64
  PROVE  Listed(LowInstruction(s, op), s, op)
<1> DEFINE Col(k) == {k + 8 * n : n \in 0..7}
<1>1. LowInstruction(s, op) =
  CASE op = 0 -> s
    [] op \in {9, 25, 41, 57} -> AddHL(s, op)
    [] op \in {1, 17, 33, 49} -> LoadPair(s, op)
    [] op \in {3, 19, 35, 51} -> IncPair(s, op)
    [] op \in {11, 27, 43, 59} -> DecPair(s, op)
    [] op \in Col(4) -> Inc(s, op)
    [] op \in Col(5) -> Dec(s, op)
    [] op \in Col(6) -> LoadByteNext(s, op)
    [] op \in {2, 18} -> StoreAAtPair(s, op)
    [] op \in {10, 26} -> LoadAFromPair(s, op)
    [] op = 34 -> StoreHLAt(s)
    [] op = 42 -> LoadHLFrom(s)
    [] op = 50 -> StoreAAt(s)
    [] op = 58 -> LoadAFrom(s)
    [] op = 8 -> ExAf(s)
    [] op = 16 -> Djnz(s)
    [] op = 24 -> Jr(s)
    [] op \in {32, 40, 48, 56} -> JrIf(s, op)
    [] op = 7 -> Rlca(s)
    [] op = 15 -> Rrca(s)
    [] op = 23 -> Rla(s)
    [] op = 31 -> Rra(s)
    [] op = 39 -> Daa(s)
    [] op = 47 -> Cpl(s)
    [] op = 55 -> Scf(s)
    [] op = 63 -> Ccf(s)
  BY DEF LowInstruction
<1>2. \/ op \in Col(4) \/ op \in Col(5) \/ op \in Col(6)
      \/ op \in {0, 9, 25, 41, 57, 1, 17, 33, 49, 3, 19, 35, 51, 11, 27, 43, 59, 2, 18, 10, 26,
                 34, 42, 50, 58, 8, 16, 24, 32, 40, 48, 56, 7, 15, 23, 31, 39, 47, 55, 63}
  BY LowOpcodes
<1>3. /\ "pc" \in DOMAIN s /\ Keeps(s, s) /\ op \in Int
      /\ \A t : Keeps(t, s) /\ major(op) = "none" => Listed(t, s, op)
      /\ \A t : Passed(t, s, 1) /\ major(op) \in {"byte", "relative"} => Listed(t, s, op)
      /\ \A t : Passed(t, s, 2) /\ major(op) = "word" => Listed(t, s, op)
  BY HasPc, KeptIsListed, ArgLengths DEF Keeps, Listed, Behind, IsByte
<1>4. /\ op \in {0, 9, 25, 41, 57, 3, 19, 35, 51, 11, 27, 43, 59, 2, 18, 10, 26, 8,
                7, 15, 23, 31, 39, 47, 55, 63} \/ op \in Col(4) \/ op \in Col(5) => major(op) = "none"
      /\ op \in Col(6) => major(op) = "byte"
      /\ op \in {1, 17, 33, 49, 34, 42, 50, 58} => major(op) = "word"
      /\ op \in {16, 24, 32, 40, 48, 56} => major(op) = "relative"
  BY LowLengths
<1> HIDE DEF Col
<1>5. op \in {9, 25, 41, 57} => Listed(AddHL(s, op), s, op)
  BY <1>3, <1>4, PlainKeep
<1>6. /\ op \in {3, 19, 35, 51} => Listed(IncPair(s, op), s, op)
      /\ op \in {11, 27, 43, 59} => Listed(DecPair(s, op), s, op)
  BY <1>3, <1>4, PlainKeep
<1>7. /\ op \in Col(4) => Listed(Inc(s, op), s, op)
      /\ op \in Col(5) => Listed(Dec(s, op), s, op)
  BY <1>3, <1>4, PlainKeep
<1>8. /\ op \in {2, 18} => Listed(StoreAAtPair(s, op), s, op)
      /\ op \in {10, 26} => Listed(LoadAFromPair(s, op), s, op)
  BY <1>3, <1>4, PlainKeep
<1>9. /\ op \in {1, 17, 33, 49} => Listed(LoadPair(s, op), s, op)
      /\ op \in Col(6) => Listed(LoadByteNext(s, op), s, op)
      /\ op = 34 => Listed(StoreHLAt(s), s, op)
      /\ op = 42 => Listed(LoadHLFrom(s), s, op)
      /\ op = 50 => Listed(StoreAAt(s), s, op)
      /\ op = 58 => Listed(LoadAFrom(s), s, op)
  BY <1>3, <1>4, OperandsPassed
<1>10. /\ op = 16 => Listed(Djnz(s), s, op)
       /\ op = 24 => Listed(Jr(s), s, op)
       /\ op \in {32, 40, 48, 56} => Listed(JrIf(s, op), s, op)
  BY <1>3, <1>4, RelativesFollow DEF Listed
<1>11. /\ op = 0 => Listed(s, s, op)
       /\ op = 8 => Listed(ExAf(s), s, op)
       /\ op = 7 => Listed(Rlca(s), s, op) 
       /\ op = 15 => Listed(Rrca(s), s, op)
       /\ op = 23 => Listed(Rla(s), s, op)
       /\ op = 31 => Listed(Rra(s), s, op)
       /\ op = 39 => Listed(Daa(s), s, op)
       /\ op = 47 => Listed(Cpl(s), s, op)
       /\ op = 55 => Listed(Scf(s), s, op)
       /\ op = 63 => Listed(Ccf(s), s, op)
  BY <1>3, <1>4, SwitchesKeep
<1> QED BY <1>1, <1>2, <1>5, <1>6, <1>7, <1>8, <1>9, <1>10, <1>11

\* Operations on A, with a register or a byte behind the opcode.
LEMMA OperandPassed ==
  ASSUME NEW s, IsProcessor(s), NEW op, op \in Int
  PROVE  Passed(Past(s, op), s, IF op >= 192 THEN 1 ELSE 0)
<1>1. "pc" \in DOMAIN s /\ Keeps(s, s)
  BY HasPc DEF Keeps
<1>2. Passed(s, s, 0)
  BY <1>1, KeptIsPassed
<1>3. Passed(Skip(s, 1), s, 1)
  BY <1>1, SkipMoves DEF Passed
<1> QED BY <1>2, <1>3 DEF Past

LEMMA ArithmeticFollows ==
  ASSUME NEW s, IsProcessor(s), NEW op, IsByte(op), op \in 128..191 \/ \E n \in 0..7 : op = 198 + 8 * n
  PROVE  Listed(ArithmeticInstruction(s, op), s, op)
<1> DEFINE t == Past(s, op)
           v == Operand(s, op)
           k == IF op >= 192 THEN 1 ELSE 0
<1>1. op \in Int
  BY DEF IsByte
<1>2. Passed(t, s, k) /\ "pc" \in DOMAIN t
  BY <1>1, OperandPassed DEF Passed
<1>3. k = Behind(op)
  <2>1. CASE op \in 128..191
    <3>1. major(op) = "none" /\ k = 0
      BY <1>1, <2>1, LowLengths
    <3> QED BY <3>1, ArgLengths DEF Behind
  <2>2. CASE \E n \in 0..7 : op = 198 + 8 * n
    <3>1. major(op) = "byte" /\ k = 1
      BY <1>1, <2>2, HighLengths
    <3> QED BY <3>1, ArgLengths DEF Behind
  <2> QED BY <2>1, <2>2
<1> HIDE DEF t, v, k
<1>4. \A u : Keeps(u, t) => Listed(u, s, op)
  BY <1>2, <1>3 DEF Keeps, Passed, Listed
<1>5. /\ Listed(AddByte(t, v), s, op) /\ Listed(AdcByte(t, v), s, op)
      /\ Listed(SubByte(t, v), s, op) /\ Listed(SbcByte(t, v), s, op)
      /\ Listed(AndByte(t, v), s, op) /\ Listed(XorByte(t, v), s, op)
      /\ Listed(OrByte(t, v), s, op) /\ Listed(Cp(t, v), s, op)
  BY <1>2, <1>4, AluKeeps
<1>6. \/ op \in Arithmetic(0) \/ op \in Arithmetic(1) \/ op \in Arithmetic(2)
      \/ op \in Arithmetic(3) \/ op \in Arithmetic(4) \/ op \in Arithmetic(5)
      \/ op \in Arithmetic(6) \/ op \in Arithmetic(7)
  <2>1. CASE op \in 128..191
    <3>1. 128 <= op /\ op < 128 + 64
      BY <2>1
    <3>2. PICK n, j \in 0..7 : op = 128 + 8 * n + j
      BY <1>1, <3>1, RowAndColumn
    <3> QED BY <3>2, Octal DEF Arithmetic
  <2>2. CASE \E n \in 0..7 : op = 198 + 8 * n
    BY <2>2, Octal DEF Arithmetic
  <2> QED BY <2>1, <2>2
<1> QED BY <1>5, <1>6 DEF ArithmeticInstruction, Add, Adc, Sub, Sbc, And, Xor, Or, Compare, t, v

\* LD r,r.
LEMMA LoadFollows ==
  ASSUME NEW s, IsProcessor(s), NEW op, op \in 64..127
  PROVE  Listed(LoadInstruction(s, op), s, op)
<1>1. op \in Int /\ "pc" \in DOMAIN s
  BY HasPc DEF Keeps
<1>2. major(op) = "none"
  BY LowLengths
<1> QED BY <1>1, <1>2, PlainKeep, KeptIsListed DEF LoadInstruction

\* The opcodes from 192 on that are no prefixes.
LEMMA HighFollows ==
  ASSUME NEW s, IsProcessor(s), NEW op, IsByte(op), op > 191, NEW in,
         op \notin {203, 221, 237, 253}
  PROVE  Listed(HighInstruction(s, op, in), s, op)
<1> DEFINE Col(k) == {k + 8 * n : n \in 0..7}
           t == Refreshed(s, 1)
<1>1. HighInstruction(s, op, in) =
  CASE op \in Col(192) -> RetIf(s, op)
    [] op \in Col(194) -> JpIf(s, op)
    [] op \in Col(196) -> CallIf(s, op)
    [] op \in Col(199) -> Rst(s, op)
    [] op \in {193, 209, 225, 241} -> PopPair(s, op)
    [] op \in {197, 213, 229, 245} -> PushPair(s, op)
    [] op = 195 -> Jp(s)
    [] op = 201 -> Ret(s)
    [] op = 205 -> Call(s)
    [] op = 211 -> OutA(s)
    [] op = 219 -> InA(s, in)
    [] op = 217 -> Exx(s)
    [] op = 227 -> ExSpHl(s)
    [] op = 233 -> JumpTo(s, HL(s))
    [] op = 235 -> ExDeHl(s)
    [] op = 243 -> Di(s)
    [] op = 249 -> [s EXCEPT !.sp = HL(s)]
    [] op = 251 -> Ei(s)
    [] op = 203 -> CbInstruction(t)
    [] op = 221 -> IndexedInstruction(t, "ix")
    [] op = 237 -> EdInstruction(t, in)
    [] op = 253 -> IndexedInstruction(t, "iy")
    [] OTHER -> ArithmeticInstruction(s, op)
  BY DEF HighInstruction
<1>2. \/ op \in Col(192) \/ op \in Col(194) \/ op \in Col(196) \/ op \in Col(199)
      \/ op \in {193, 209, 225, 241, 197, 213, 229, 245, 195, 201, 205, 211, 219, 217,
                    227, 233, 235, 243, 249, 251, 203, 221, 237, 253}
      \/ \E n \in 0..7 : op = 198 + 8 * n
  BY HighOpcodes
<1>3. op \in Col(192) \/ op \in Col(194) \/ op \in Col(196) \/ op \in Col(199)
        \/ op \in {195, 201, 205, 233} => \A u : Listed(u, s, op)
  BY DEF Listed, Jumps, Columns
<1>4. /\ "pc" \in DOMAIN s /\ op \in Int
      /\ \A u : Keeps(u, s) /\ major(op) = "none" => Listed(u, s, op)
      /\ \A u : Passed(u, s, 1) /\ major(op) = "byte" => Listed(u, s, op)
  <2>1. "pc" \in DOMAIN s /\ op \in Int
    BY HasPc DEF Keeps, IsByte
  <2>2. \A u : Passed(u, s, 1) /\ major(op) = "byte" => Listed(u, s, op)
    BY ArgLengths DEF Listed, Behind
  <2> QED BY <2>1, <2>2, KeptIsListed
<1>5. /\ op \in {193, 209, 225, 241, 197, 213, 229, 245, 217, 227, 235, 243, 249, 251}
           => major(op) = "none"
      /\ op \in {211, 219} => major(op) = "byte"
  BY HighLengths
<1> HIDE DEF Col, t
<1>6. /\ op \in {193, 209, 225, 241} => Listed(PopPair(s, op), s, op)
      /\ op \in {197, 213, 229, 245} => Listed(PushPair(s, op), s, op)
      /\ op = 227 => Listed(ExSpHl(s), s, op)
      /\ op = 249 => Listed([s EXCEPT !.sp = HL(s)], s, op)
  BY <1>4, <1>5, StackKeeps
<1>7. /\ op = 217 => Listed(Exx(s), s, op)
      /\ op = 235 => Listed(ExDeHl(s), s, op)
      /\ op = 243 => Listed(Di(s), s, op)
      /\ op = 251 => Listed(Ei(s), s, op)
  BY <1>4, <1>5, SwitchesKeep
<1>8. /\ op = 211 => Listed(OutA(s), s, op)
      /\ op = 219 => Listed(InA(s, in), s, op)
  BY <1>4, <1>5, OperandsPassed
<1>9. (\E n \in 0..7 : op = 198 + 8 * n) => Listed(ArithmeticInstruction(s, op), s, op)
  BY ArithmeticFollows
<1> QED BY <1>1, <1>2, <1>3, <1>6, <1>7, <1>8, <1>9

-----------------------------------------------------------------------------
(* Behind CB and ED                                                        *)

\* Rotations and bits are two bytes, whatever they work on.
LEMMA CbFollows ==
  ASSUME NEW s, IsProcessor(s)
  PROVE  Passed(CbInstruction(s), s, 1)
<1> DEFINE op == Fetch(s)
           t == Skip(s, 1)
<1>1. IsByte(op) /\ IsProcessor(t) /\ Passed(t, s, 1)
  <2>1. "pc" \in DOMAIN s
    BY HasPc DEF Keeps
  <2> QED BY <2>1, FetchTyped, SkipTyped, SkipMoves DEF Passed
<1>2. CbInstruction(s) = CASE op < 64 -> ShiftCode(t, op)
                           [] op \in 64..127 -> BitCode(t, op)
                           [] op \in 128..191 -> ResCode(t, op)
                           [] op > 191 -> SetCode(t, op)
  BY DEF CbInstruction
<1> HIDE DEF op, t
<1>3. op \in Int /\ "pc" \in DOMAIN t /\ Y(op) \in 0..7 /\ Z(op) \in 0..7
  <2>1. op \in Int /\ "pc" \in DOMAIN t
    BY <1>1, HasPc DEF Keeps, IsByte
  <2> QED BY <2>1, OpcodeFields
<1>4. \A u : Keeps(u, t) => Passed(u, s, 1)
  BY <1>1 DEF Keeps, Passed
<1>5. \A u, f : Keeps(u, t) => Keeps([u EXCEPT !.f = f], t)
  BY DEF Keeps
<1>6. Keeps(ShiftCode(t, op), t)
  BY <1>3, <1>5, PutsKeep DEF ShiftCode
<1>7. Keeps(BitCode(t, op), t)
  BY <1>3 DEF BitCode, Keeps
<1>8. Keeps(ResCode(t, op), t) /\ Keeps(SetCode(t, op), t)
  BY <1>3, PutsKeep DEF ResCode, SetCode
<1>9. op < 64 \/ op \in 64..127 \/ op \in 128..191 \/ op > 191
  BY <1>3
<1> QED BY <1>2, <1>4, <1>6, <1>7, <1>8, <1>9

\* Behind ED: 16 bits with carry, pairs in memory, ports.
LEMMA PairsFollow ==
  ASSUME NEW t, "pc" \in DOMAIN t, NEW op \in Int, NEW in
  PROVE  /\ Keeps(SbcPair(t, op), t) /\ Keeps(AdcPair(t, op), t)
         /\ Passed(StorePairAt(t, op), t, 2) /\ Passed(LoadPairFrom(t, op), t, 2)
         /\ Keeps(InC(t, op, in), t)
<1>1. Y(op) \in 0..7 /\ P(op) \in 0..3 /\ 2 \in 0..3
  BY OpcodeFields
<1>2. \A u, f : Keeps(u, t) => Keeps([u EXCEPT !.f = f], t)
  BY DEF Keeps
<1>3. Keeps(SbcPair(t, op), t) /\ Keeps(AdcPair(t, op), t)
  BY <1>1, <1>2, PairsKeep DEF SbcPair, AdcPair
<1>4. Passed(Skip(t, 2), t, 2) /\ "pc" \in DOMAIN Skip(t, 2)
  BY SkipMoves DEF Passed
<1>5. \A u : Keeps(u, Skip(t, 2)) => Passed(u, t, 2)
  BY <1>4 DEF Keeps, Passed
<1>6. Passed(StorePairAt(t, op), t, 2) /\ Passed(LoadPairFrom(t, op), t, 2)
  BY <1>1, <1>4, <1>5, PokesKeep, PairsKeep DEF StorePairAt, LoadPairFrom
<1>7. Keeps(InC(t, op, in), t)
  <2> DEFINE u == [t EXCEPT !.f = InFlags(@, in)]
  <2>1. Keeps(u, t)
    BY DEF Keeps
  <2>2. InC(t, op, in) = IF Y(op) = 6 THEN u ELSE Put8(u, Y(op), in)
    BY DEF InC
  <2> HIDE DEF u
  <2>3. Keeps(Put8(u, Y(op), in), u)
    BY <1>1, <2>1, PutsKeep DEF Keeps
  <2> QED BY <2>1, <2>2, <2>3 DEF Keeps
<1> QED BY <1>3, <1>6, <1>7

\* ... the interrupt registers and RLD, RRD.
LEMMA SpecialsFollow ==
  ASSUME NEW t, "pc" \in DOMAIN t
  PROVE  /\ \A v : Keeps([t EXCEPT !.im = v], t) /\ Keeps([t EXCEPT !.i = v], t)
         /\ Keeps(LoadRA(t), t) /\ Keeps(LoadAI(t), t) /\ Keeps(LoadAR(t), t)
         /\ Keeps(Rrd(t), t) /\ Keeps(Rld(t), t)
<1>1. \A v : Keeps([t EXCEPT !.im = v], t) /\ Keeps([t EXCEPT !.i = v], t)
  BY DEF Keeps
<1>2. Keeps(LoadRA(t), t)
  BY DEF Keeps, LoadRA
<1>3. \A u : Keeps(u, t) => Keeps(LoadAFlags(u), t)
  BY DEF Keeps, LoadAFlags
<1>4. \A v : Keeps([t EXCEPT !.a = v], t)
  BY DEF Keeps
<1>5. Keeps(LoadAI(t), t) /\ Keeps(LoadAR(t), t)
  BY <1>3, <1>4 DEF LoadAI, LoadAR
<1>6. \A a, v : Keeps(RotateDigits(t, a, v), t)
  <2> TAKE a, v
  <2> DEFINE u == [t EXCEPT !.a = a, !.f = (@ \cap {"C"}) \cup LogicFlags(a)]
  <2>1. Keeps(u, t)
    BY DEF Keeps
  <2>2. RotateDigits(t, a, v) = Poke(u, HL(t), v)
    BY DEF RotateDigits
  <2> HIDE DEF u
  <2>3. Keeps(Poke(u, HL(t), v), u)
    BY <2>1, PokesKeep DEF Keeps
  <2> QED BY <2>1, <2>2, <2>3 DEF Keeps
<1>7. Keeps(Rrd(t), t) /\ Keeps(Rld(t), t)
  BY <1>6 DEF Rrd, Rld
<1> QED BY <1>1, <1>2, <1>5, <1>7

\* ... and single passes of the block instructions.
LEMMA BlocksFollow ==
  ASSUME NEW t, "pc" \in DOMAIN t, NEW dir, NEW in
  PROVE  Keeps(Move(t, dir), t) /\ Keeps(Search(t, dir), t) /\ Keeps(In(t, dir, in), t) /\ Keeps(Out(t, dir), t)
<1>1. 0 \in 0..3 /\ 1 \in 0..3 /\ 2 \in 0..3
  OBVIOUS
<1>2. \A u, n, v : Keeps(u, t) /\ n \in 0..3 => Keeps(PutPair(u, n, v), t)
  BY PairsKeep DEF Keeps
<1>3. \A u : Keeps(u, t) => Keeps(Count(u), t)
  BY <1>1, <1>2 DEF Count
<1>4. \A u, f : Keeps(u, t) => Keeps([u EXCEPT !.f = f], t)
  BY DEF Keeps
<1>5. Keeps(t, t)
  BY DEF Keeps
<1>6. Keeps(Moved(t, dir), t)
  <2>1. Keeps(Poke(t, DE(t), Peek(t, HL(t))), t)
    BY PokesKeep
  <2> QED BY <1>1, <1>2, <1>3, <2>1 DEF Moved
<1>7. Keeps(Move(t, dir), t)
  BY <1>4, <1>6 DEF Move
<1>8. Keeps(Searched(t, dir), t)
  BY <1>1, <1>2, <1>3, <1>5 DEF Searched
<1>9. Keeps(Search(t, dir), t)
  BY <1>4, <1>8 DEF Search
<1>10. \A u : Keeps(u, t) => Keeps(Port(u, dir), t)
  <2> SUFFICES ASSUME NEW u, Keeps(u, t) PROVE Keeps(Port(u, dir), t)
    OBVIOUS
  <2> DEFINE w == PutPair(u, 2, HL(u) + dir)
             b == (u.b - 1) % 256
             f(x) == (x \ {"Z"}) \cup On(b = 0, "Z") \cup {"N"}
  <2>1. Keeps(w, t)
    BY <1>1, <1>2
  <2>2. Port(u, dir) = [w EXCEPT !.b = b, !.f = f(w.f)]
    BY DEF Port
  <2> HIDE DEF w, b, f
  <2> QED BY <2>1, <2>2 DEF Keeps
<1>11. Keeps(In(t, dir, in), t) /\ Keeps(Out(t, dir), t)
  BY <1>5, <1>10, PokesKeep DEF In, Out
<1> QED BY <1>7, <1>9, <1>11

\* Every opcode behind ED that neither returns nor repeats.
LEMMA EdFollows ==
  ASSUME NEW s, IsProcessor(s), NEW in, Fetch(s) \notin JumpsED
  PROVE  Passed(EdInstruction(s, in), s, 1 + arglen(minorED(Fetch(s))))
<1> DEFINE op == Fetch(s)
           t == Skip(s, 1)
           dir == Dir(op)
           words == {67, 75, 83, 91, 99, 107, 115, 123}
<1>1. IsByte(op) /\ IsProcessor(t) /\ Passed(t, s, 1) /\ op \notin JumpsED
  <2>1. "pc" \in DOMAIN s
    BY HasPc DEF Keeps
  <2> QED BY <2>1, FetchTyped, SkipTyped, SkipMoves DEF Passed
<1>2. EdInstruction(s, in) =
  CASE op \in {66, 82, 98, 114} -> SbcPair(t, op)
    [] op \in {74, 90, 106, 122} -> AdcPair(t, op)
    [] op \in {67, 83, 99, 115} -> StorePairAt(t, op)
    [] op \in {75, 91, 107, 123} -> LoadPairFrom(t, op)
    [] op \in {64 + 8 * n : n \in 0..7} -> InC(t, op, in)
    [] op \in {68 + 8 * n : n \in 0..7} -> Negate(t)
    [] op = 77 -> Reti(t)
    [] op \in {69 + 8 * n : n \in 0..7 \ {1}} -> Retn(t)
    [] op \in {70, 102} -> [t EXCEPT !.im = 0]
    [] op \in {86, 118} -> [t EXCEPT !.im = 1]
    [] op \in {94, 126} -> [t EXCEPT !.im = 2]
    [] op = 71 -> [t EXCEPT !.i = t.a]
    [] op = 79 -> LoadRA(t)
    [] op = 87 -> LoadAI(t)
    [] op = 95 -> LoadAR(t)
    [] op = 103 -> Rrd(t)
    [] op = 111 -> Rld(t)
    [] op \in {160, 168} -> Move(t, dir)
    [] op \in {176, 184} -> MoveRepeat(t, dir)
    [] op \in {161, 169} -> Search(t, dir)
    [] op \in {177, 185} -> SearchRepeat(t, dir)
    [] op \in {162, 170} -> In(t, dir, in)
    [] op \in {178, 186} -> InRepeat(t, dir, in)
    [] op \in {163, 171} -> Out(t, dir)
    [] op \in {179, 187} -> OutRepeat(t, dir)
    [] OTHER -> t
  BY DEF EdInstruction
<1> HIDE DEF op, t, dir
<1>3. op \in Int /\ "pc" \in DOMAIN t /\ Keeps(t, t)
  BY <1>1, HasPc DEF Keeps, IsByte
<1>4. \A u : Keeps(u, t) => Passed(u, s, 1)
  BY <1>1 DEF Keeps, Passed
<1>5. \A u : Passed(u, t, 2) => Passed(u, s, 3)
  <2>1. s.pc \in Int
    BY DEF IsProcessor, WordRegs, IsWord
  <2>2. s.pc + 1 \in Int /\ 2 \in Int /\ (s.pc + 1) + 2 = s.pc + 3
    BY <2>1
  <2>3. (((s.pc + 1) % Word) + 2) % Word = (s.pc + 3) % Word
    BY <2>2, ModSum
  <2>4. t.pc = (s.pc + 1) % Word
    BY <1>1 DEF Passed
  <2>5. (t.pc + 2) % Word = (s.pc + 3) % Word
    BY <2>3, <2>4
  <2> QED BY <2>5 DEF Passed
<1>6. /\ op \in words => 1 + arglen(minorED(op)) = 3
      /\ op \notin words => 1 + arglen(minorED(op)) = 1
  <2>1. /\ op \in words => minorED(op) = "word"
        /\ op \notin words => minorED(op) = "none"
    BY DEF minorED
  <2> HIDE DEF words
  <2>2. 1 + arglen("word") = 3 /\ 1 + arglen("none") = 1
    BY ArgLengths
  <2> QED BY <2>1, <2>2
<1>7. op \in {66, 82, 98, 114} \cup {74, 90, 106, 122} \cup {64 + 8 * n : n \in 0..7}
               \cup {68 + 8 * n : n \in 0..7} => op \notin words
  OBVIOUS
<1>8. /\ op # 77 /\ op \notin {69 + 8 * n : n \in 0..7 \ {1}}
      /\ op \notin {176, 184} /\ op \notin {177, 185} /\ op \notin {178, 186} /\ op \notin {179, 187}
  BY <1>1 DEF JumpsED, Columns
<1> DEFINE Good(u) == Passed(u, s, 1 + arglen(minorED(op)))
<1>9. /\ \A u : Keeps(u, t) /\ op \notin words => Good(u)
      /\ \A u : Passed(u, t, 2) /\ op \in words => Good(u)
  BY <1>4, <1>5, <1>6
<1> HIDE DEF words, Good
<1>10. /\ op \in {66, 82, 98, 114} => Good(SbcPair(t, op))
       /\ op \in {74, 90, 106, 122} => Good(AdcPair(t, op))
       /\ op \in {64 + 8 * n : n \in 0..7} => Good(InC(t, op, in))
       /\ op \in {68 + 8 * n : n \in 0..7} => Good(Negate(t))
  BY <1>3, <1>7, <1>9, PairsFollow, SwitchesKeep
<1>11. /\ op \in {67, 83, 99, 115} => Good(StorePairAt(t, op))
       /\ op \in {75, 91, 107, 123} => Good(LoadPairFrom(t, op))
  <2>1. op \in {67, 83, 99, 115} \cup {75, 91, 107, 123} => op \in words
    BY DEF words
  <2> QED BY <1>3, <1>9, <2>1, PairsFollow
<1>12. op \in {70, 102, 86, 118, 94, 126, 71, 79, 87, 95, 103, 111, 160, 168, 161, 169, 162, 170, 163, 171}
         => op \notin words
  BY DEF words
<1>13. /\ op \in {70, 102} => Good([t EXCEPT !.im = 0])
       /\ op \in {86, 118} => Good([t EXCEPT !.im = 1])
       /\ op \in {94, 126} => Good([t EXCEPT !.im = 2])
       /\ op = 71 => Good([t EXCEPT !.i = t.a])
       /\ op = 79 => Good(LoadRA(t))
       /\ op = 87 => Good(LoadAI(t))
       /\ op = 95 => Good(LoadAR(t))
       /\ op = 103 => Good(Rrd(t))
       /\ op = 111 => Good(Rld(t))
  <2>1. /\ Keeps([t EXCEPT !.im = 0], t) /\ Keeps([t EXCEPT !.im = 1], t)
        /\ Keeps([t EXCEPT !.im = 2], t) /\ Keeps([t EXCEPT !.i = t.a], t)
    BY <1>3, SpecialsFollow
  <2>2. /\ Keeps(LoadRA(t), t) /\ Keeps(LoadAI(t), t) /\ Keeps(LoadAR(t), t)
        /\ Keeps(Rrd(t), t) /\ Keeps(Rld(t), t)
    BY <1>3, SpecialsFollow
  <2> QED BY <1>9, <1>12, <2>1, <2>2
<1>14. /\ op \in {160, 168} => Good(Move(t, dir))
       /\ op \in {161, 169} => Good(Search(t, dir))
       /\ op \in {162, 170} => Good(In(t, dir, in))
       /\ op \in {163, 171} => Good(Out(t, dir))
  BY <1>3, <1>9, <1>12, BlocksFollow
<1>15. op \notin {67, 83, 99, 115} /\ op \notin {75, 91, 107, 123} => Good(t)
  BY <1>3, <1>9 DEF words
<1>16. Good(EdInstruction(s, in))
  BY <1>2, <1>8, <1>10, <1>11, <1>13, <1>14, <1>15
<1> QED BY <1>16 DEF Good, op

-----------------------------------------------------------------------------
(* Behind DD and FD                                                        *)

\* An opcode is its row and its column.
LEMMA Fields ==
  ASSUME NEW op \in Int, NEW base \in {64, 128}, base <= op, op < base + 64
  PROVE  op = base + 8 * Y(op) + Z(op) /\ Y(op) \in 0..7 /\ Z(op) \in 0..7
<1>1. CASE base = 64
  BY <1>1, Z3 DEF Y, Z
<1>2. CASE base = 128
  BY <1>2, Z3 DEF Y, Z
<1> QED BY <1>1, <1>2

\* The sets of the listing, for an opcode with two operands and for one of an
\* operation on A.
LEMMA LoadClasses ==
  ASSUME NEW op \in Int, 64 <= op, op < 128
  PROVE  /\ op \in IndexMemory <=> op # 118 /\ (Y(op) = 6 \/ Z(op) = 6)
         /\ op \in IndexHalves <=> {Y(op), Z(op)} \cap {4, 5} # {} /\ 6 \notin {Y(op), Z(op)}
         /\ op \notin IndexWords
<1> DEFINE y == Y(op)  z == Z(op)
<1>1. op = 64 + 8 * y + z /\ y \in 0..7 /\ z \in 0..7
  BY Fields
<1>2. op \notin IndexWords
  BY DEF IndexWords
<1>3. op \in IndexHalves <=> {y, z} \cap {4, 5} # {} /\ 6 \notin {y, z}
  BY DEF IndexHalves
<1> HIDE DEF y, z
<1>4. op \in Columns(70) <=> z = 6
  BY <1>1 DEF Columns
<1>5. op \in 112..119 <=> y = 6
  BY <1>1
<1>6. op \notin Columns(134) /\ op \notin {52, 53}
  BY DEF Columns
<1> QED BY <1>2, <1>3, <1>4, <1>5, <1>6 DEF IndexMemory, y, z

\* For an operation on A, only the operand counts.
LEMMA OperationClasses ==
  ASSUME NEW op \in Int, 128 <= op, op < 192
  PROVE  /\ op \in IndexMemory <=> Z(op) = 6
         /\ op \in IndexHalves <=> Z(op) \in {4, 5}
         /\ op \notin IndexWords
<1> DEFINE y == Y(op)  z == Z(op)
<1>1. op = 128 + 8 * y + z /\ y \in 0..7 /\ z \in 0..7
  BY Fields
<1>2. op \notin IndexWords
  BY DEF IndexWords
<1>3. op \in IndexHalves <=> z \in {4, 5}
  BY DEF IndexHalves
<1> HIDE DEF y, z
<1>4. op \in Columns(134) <=> z = 6
  BY <1>1 DEF Columns
<1>6. op \notin Columns(70) /\ op \notin {52, 53} /\ op \notin 112..119
  BY DEF Columns
<1> QED BY <1>2, <1>3, <1>4, <1>6 DEF IndexMemory, z

\* All others are listed one by one.
LEMMA OtherClasses ==
  ASSUME NEW op \in Int, (0 <= op /\ op < 64) \/ (192 <= op /\ op < 256)
  PROVE  /\ op \in IndexMemory <=> op \in {52, 53}
         /\ op \in IndexHalves <=> op \in {36, 37, 44, 45}
         /\ op \in IndexWords <=> op \in {9, 25, 41, 57, 35, 43, 225, 227, 229, 233, 249}
BY DEF IndexMemory, IndexHalves, IndexWords, Columns

\* No opcode is in two of the sets of the listing.
LEMMA ClassesApart ==
  ASSUME NEW op, IsByte(op)
  PROVE  /\ op \in IndexMemory => op \notin IndexHalves /\ op \notin IndexWords
         /\ op \in {33, 34, 42, 38, 46, 54, 203} =>
              op \notin IndexHalves /\ op \notin IndexWords /\ op \notin IndexMemory
<1>1. op \in Int /\ 0 <= op /\ op < 256
  BY DEF IsByte
<1>2. CASE 64 <= op /\ op < 128
  BY <1>1, <1>2, LoadClasses
<1>3. CASE 128 <= op /\ op < 192
  BY <1>1, <1>3, OperationClasses
<1>4. CASE op < 64 \/ 192 <= op
  BY <1>1, <1>4, OtherClasses
<1> QED BY <1>1, <1>2, <1>3, <1>4

\* What the listing does not know about IY.
Unlisted(p, op) == p = 253 /\ op \in IndexHalves \cup {38, 46}

\* What the listing says of an opcode behind DD or FD.
LEMMA IndexLengths ==
  ASSUME NEW p \in {221, 253}, NEW op, IsByte(op), ~Unlisted(p, op)
  PROVE  /\ op \in IndexMemory => minor(p, op) = "byte"
         /\ op \in IndexWords \cup IndexHalves => minor(p, op) = "none"
         /\ op \in {33, 34, 42} => minor(p, op) = "word"
         /\ op \in {38, 46} => minor(p, op) = "byte"
         /\ op = 54 => minor(p, op) = "bytes"
         /\ op = 203 => minor(p, op) = "table"
         /\ op \notin IndexMemory \cup IndexWords \cup IndexHalves \cup {33, 34, 42, 38, 46, 54, 203}
              => minor(p, op) = "noop"
<1>1. op \in Int /\ 0 <= op /\ op < 256
  BY DEF IsByte
<1>2. /\ op \in IndexMemory => op \notin IndexHalves /\ op \notin IndexWords
      /\ op \in {33, 34, 42, 38, 46, 54, 203} =>
              op \notin IndexHalves /\ op \notin IndexWords /\ op \notin IndexMemory
  BY ClassesApart
<1>3. CASE p = 221
  <2>1. minor(p, op) = IF op < 128 THEN minorDDLow(op) ELSE minorDDHigh(op)
    BY <1>3 DEF minor
  <2>2. op < 128 =>
          /\ op \in IndexMemory => minorDDLow(op) = "byte"
          /\ op \in IndexWords \cup IndexHalves => minorDDLow(op) = "none"
          /\ op \in {33, 34, 42} => minorDDLow(op) = "word"
          /\ op \in {38, 46} => minorDDLow(op) = "byte"
          /\ op = 54 => minorDDLow(op) = "bytes"
          /\ op \notin IndexMemory \cup IndexWords \cup IndexHalves \cup {33, 34, 42, 38, 46, 54, 203}
               => minorDDLow(op) = "noop"
    BY <1>1, <1>2 DEF minorDDLow
  <2>3. op >= 128 =>
          /\ op \in IndexMemory => minorDDHigh(op) = "byte"
          /\ op \in IndexWords \cup IndexHalves => minorDDHigh(op) = "none"
          /\ op = 203 => minorDDHigh(op) = "table"
          /\ op \notin IndexMemory \cup IndexWords \cup IndexHalves \cup {33, 34, 42, 38, 46, 54, 203}
               => minorDDHigh(op) = "noop"
    BY <1>1, <1>2 DEF minorDDHigh
  <2> QED BY <1>1, <2>1, <2>2, <2>3
<1>4. CASE p = 253
  <2>1. minor(p, op) = IF op < 128 THEN minorFDLow(op) ELSE minorFDHigh(op)
    BY <1>4 DEF minor
  <2>2. op < 128 =>
          /\ op \in IndexMemory => minorFDLow(op) = "byte"
          /\ op \in IndexWords \cup IndexHalves => minorFDLow(op) = "none"
          /\ op \in {33, 34, 42} => minorFDLow(op) = "word"
          /\ op \in {38, 46} => minorFDLow(op) = "byte"
          /\ op = 54 => minorFDLow(op) = "bytes"
          /\ op \notin IndexMemory \cup IndexWords \cup IndexHalves \cup {33, 34, 42, 38, 46, 54, 203}
               => minorFDLow(op) = "noop"
    BY <1>1, <1>2, <1>4 DEF minorFDLow, Unlisted
  <2>3. op >= 128 =>
          /\ op \in IndexMemory => minorFDHigh(op) = "byte"
          /\ op \in IndexWords \cup IndexHalves => minorFDHigh(op) = "none"
          /\ op = 203 => minorFDHigh(op) = "table"
          /\ op \notin IndexMemory \cup IndexWords \cup IndexHalves \cup {33, 34, 42, 38, 46, 54, 203}
               => minorFDHigh(op) = "noop"
    BY <1>1, <1>2, <1>4 DEF minorFDHigh, Unlisted
  <2> QED BY <1>1, <2>1, <2>2, <2>3
<1> QED BY <1>3, <1>4

\* The index registers by their names in the processor.
IndexRegs == {"ix", "iy"}

\* A byte at the index register has an offset behind the opcode; its halves and
\* the plain registers have none.
LEMMA PutXFollows ==
  ASSUME NEW s, "pc" \in DOMAIN s, NEW x \in IndexRegs, NEW n \in 0..7, NEW v
  PROVE  /\ n = 6 => Passed(PutX(s, x, n, v), s, 1)
         /\ n # 6 => Keeps(PutX(s, x, n, v), s)
<1>1. \A y, w : y # "pc" => Keeps([s EXCEPT ![y] = w], s)
  BY ChangesKeep
<1>2. x # "pc"
  BY DEF IndexRegs
<1>3. CASE n = 6
  <2> DEFINE t == Poke(s, Indexed(s, x), v)
  <2>1. PutX(s, x, n, v) = Skip(t, 1)
    BY <1>3 DEF PutX
  <2>2. Keeps(t, s)
    BY PokesKeep
  <2> HIDE DEF t
  <2> QED BY <1>3, <2>1, <2>2, SkipMoves DEF Passed, Keeps
<1>4. CASE n = 4
  <2>1. PutX(s, x, n, v) = [s EXCEPT ![x] = 256 * v + Low(s[x])]
    BY <1>4 DEF PutX
  <2> QED BY <1>1, <1>2, <1>4, <2>1
<1>5. CASE n = 5
  <2>1. PutX(s, x, n, v) = [s EXCEPT ![x] = 256 * High(s[x]) + v]
    BY <1>5 DEF PutX
  <2> QED BY <1>1, <1>2, <1>5, <2>1
<1>6. CASE n \notin {4, 5, 6}
  <2> DEFINE y == R8[n + 1]
  <2>1. y \in ByteRegs
    BY <1>6, RegisterNames
  <2>2. y # "pc"
    BY <2>1 DEF ByteRegs
  <2>3. PutX(s, x, n, v) = [s EXCEPT ![y] = v]
    BY <1>6 DEF PutX
  <2> HIDE DEF y
  <2>4. Keeps([s EXCEPT ![y] = v], s)
    BY <2>2, ChangesKeep
  <2>5. Keeps(PutX(s, x, n, v), s)
    BY <2>3, <2>4
  <2> QED BY <1>6, <2>5
<1> QED BY <1>3, <1>4, <1>5, <1>6

\* An operation with the index register, its halves or memory at it.
LEMMA OperationsXFollow ==
  ASSUME NEW s, "pc" \in DOMAIN s, NEW x \in IndexRegs, NEW op \in Int
  PROVE  /\ Z(op) = 6 => Passed(ArithmeticX(s, x, op), s, 1)
         /\ Z(op) # 6 => Keeps(ArithmeticX(s, x, op), s)
         /\ Y(op) = 6 => Passed(IncX(s, x, op), s, 1) /\ Passed(DecX(s, x, op), s, 1)
         /\ Y(op) # 6 => Keeps(IncX(s, x, op), s) /\ Keeps(DecX(s, x, op), s)
         /\ Keeps(AddX(s, x, op), s)
<1>1. Y(op) \in 0..7 /\ Z(op) \in 0..7 /\ P(op) \in 0..3
  BY OpcodeFields
<1>2. \A t, u : Keeps(t, u) /\ Passed(u, s, 1) => Passed(t, s, 1)
  BY DEF Keeps, Passed
<1>3. /\ Z(op) = 6 => Passed(ArithmeticX(s, x, op), s, 1)
      /\ Z(op) # 6 => Keeps(ArithmeticX(s, x, op), s)
  <2> DEFINE t == PastX(s, Z(op))
             v == GetX(s, x, Z(op))
  <2>1. ArithmeticX(s, x, op) =
          CASE Y(op) = 0 -> AddByte(t, v) [] Y(op) = 1 -> AdcByte(t, v)
            [] Y(op) = 2 -> SubByte(t, v) [] Y(op) = 3 -> SbcByte(t, v)
            [] Y(op) = 4 -> AndByte(t, v) [] Y(op) = 5 -> XorByte(t, v)
            [] Y(op) = 6 -> OrByte(t, v)  [] Y(op) = 7 -> Cp(t, v)
    BY DEF ArithmeticX
  <2>2. /\ Z(op) = 6 => Passed(t, s, 1)
        /\ Z(op) # 6 => t = s
        /\ "pc" \in DOMAIN t
    BY SkipMoves DEF PastX, Passed
  <2> HIDE DEF t, v
  <2>3. Keeps(ArithmeticX(s, x, op), t)
    <3>1. /\ Keeps(AddByte(t, v), t) /\ Keeps(AdcByte(t, v), t) /\ Keeps(SubByte(t, v), t)
          /\ Keeps(SbcByte(t, v), t) /\ Keeps(AndByte(t, v), t) /\ Keeps(XorByte(t, v), t)
          /\ Keeps(OrByte(t, v), t) /\ Keeps(Cp(t, v), t)
      BY <2>2, AluKeeps
    <3>2. Y(op) = 0 \/ Y(op) = 1 \/ Y(op) = 2 \/ Y(op) = 3 \/ Y(op) = 4 \/ Y(op) = 5 \/ Y(op) = 6 \/ Y(op) = 7
      BY <1>1
    <3> QED BY <2>1, <3>1, <3>2
  <2> QED BY <1>2, <2>2, <2>3
<1>4. \A t, f : Keeps(t, s) => Keeps([t EXCEPT !.f = f], s)
  BY DEF Keeps
<1>5. \A t, f : Passed(t, s, 1) => Passed([t EXCEPT !.f = f], s, 1)
  BY DEF Passed
<1>6. /\ Y(op) = 6 => Passed(IncX(s, x, op), s, 1) /\ Passed(DecX(s, x, op), s, 1)
      /\ Y(op) # 6 => Keeps(IncX(s, x, op), s) /\ Keeps(DecX(s, x, op), s)
  <2> DEFINE up == (GetX(s, x, Y(op)) + 1) % 256
             down == (GetX(s, x, Y(op)) - 1) % 256
             t == PutX(s, x, Y(op), up)
             u == PutX(s, x, Y(op), down)
             f == IncFlags(t.f, up)
             g == DecFlags(u.f, down)
  <2>1. IncX(s, x, op) = [t EXCEPT !.f = f] /\ DecX(s, x, op) = [u EXCEPT !.f = g]
    BY DEF IncX, DecX
  <2> HIDE DEF up, down
  <2>2. /\ Y(op) = 6 => Passed(t, s, 1) /\ Passed(u, s, 1)
        /\ Y(op) # 6 => Keeps(t, s) /\ Keeps(u, s)
    BY <1>1, PutXFollows
  <2> HIDE DEF t, u, f, g
  <2> QED BY <1>4, <1>5, <2>1, <2>2
<1>7. Keeps(AddX(s, x, op), s)
  BY DEF AddX, Keeps, IndexRegs
<1> QED BY <1>3, <1>6, <1>7

\* Loads from and to it, and of a constant: the offset comes first.
LEMMA LoadsXFollow ==
  ASSUME NEW s, "pc" \in DOMAIN s, NEW x \in IndexRegs, NEW op \in Int
  PROVE  /\ Y(op) = 6 \/ Z(op) = 6 => Passed(LoadX(s, x, op), s, 1)
         /\ Y(op) # 6 /\ Z(op) # 6 => Keeps(LoadX(s, x, op), s)
         /\ Y(op) = 6 => Passed(LoadXNext(s, x, op), s, 2)
         /\ Y(op) \in {4, 5} => Passed(LoadXNext(s, x, op), s, 1)
<1>1. Y(op) \in 0..7 /\ Z(op) \in 0..7
  BY OpcodeFields
<1>2. \A n : Passed(Skip(s, n), s, n) /\ "pc" \in DOMAIN Skip(s, n)
  BY SkipMoves DEF Passed
<1>3. \A t, u, n : Keeps(t, u) /\ Passed(u, s, n) => Passed(t, s, n)
  BY DEF Keeps, Passed
<1>4. Y(op) = 6 \/ Z(op) = 6 => Passed(LoadX(s, x, op), s, 1)
  <2> DEFINE t == Put8(Skip(s, 1), Y(op), GetX(s, x, 6))
             u == PutX(s, x, 6, Get8(s, Z(op)))
             w == PutX(s, x, Y(op), GetX(s, x, Z(op)))
  <2>1. LoadX(s, x, op) = CASE Z(op) = 6 -> t [] Y(op) = 6 -> u [] OTHER -> w
    BY DEF LoadX
  <2>2. Keeps(t, Skip(s, 1)) /\ Passed(Skip(s, 1), s, 1)
    BY <1>1, <1>2, PutsKeep
  <2>3. Passed(u, s, 1)
    BY PutXFollows
  <2>4. Passed(t, s, 1)
    BY <2>2 DEF Keeps, Passed
  <2> HIDE DEF t, u, w
  <2> QED BY <2>1, <2>3, <2>4
<1>6. Y(op) # 6 /\ Z(op) # 6 => Keeps(LoadX(s, x, op), s)
  BY <1>1, PutXFollows DEF LoadX
<1>7. Y(op) = 6 => Passed(LoadXNext(s, x, op), s, 2)
  BY <1>2, <1>3, PokesKeep DEF LoadXNext
<1>8. Y(op) \in {4, 5} => Passed(LoadXNext(s, x, op), s, 1)
  BY <1>1, <1>2, <1>3, PutXFollows DEF LoadXNext
<1> QED BY <1>4, <1>6, <1>7, <1>8

\* Loads of the index register itself, and what works on all of it.
LEMMA WordsXFollow ==
  ASSUME NEW s, "pc" \in DOMAIN s, NEW x \in IndexRegs, NEW op
  PROVE  /\ op \in {33, 34, 42} => Passed(WordX(s, x, op), s, 2)
         /\ op \in {35, 43, 225, 227, 229, 249} => Keeps(WordX(s, x, op), s)
<1>1. x # "pc"
  BY DEF IndexRegs
<1>2. Passed(Skip(s, 2), s, 2) /\ "pc" \in DOMAIN Skip(s, 2)
  BY SkipMoves DEF Passed
<1>3. \A t, n, w : Passed(t, s, n) => Passed([t EXCEPT ![x] = w], s, n)
  BY <1>1 DEF Passed
<1>4. \A t, w : Keeps(t, s) => Keeps([t EXCEPT ![x] = w], s)
  BY <1>1 DEF Keeps
<1>5. Keeps(s, s)
  BY DEF Keeps
<1>6. op = 33 => Passed(WordX(s, x, op), s, 2)
  BY <1>2, <1>3 DEF WordX
<1>7. op = 34 => Passed(WordX(s, x, op), s, 2)
  <2>1. op = 34 => WordX(s, x, op) = PokeWord(Skip(s, 2), FetchWord(s), s[x])
    BY DEF WordX
  <2>2. Keeps(PokeWord(Skip(s, 2), FetchWord(s), s[x]), Skip(s, 2))
    BY <1>2, PokesKeep
  <2> QED BY <1>2, <2>1, <2>2 DEF Keeps, Passed
<1>8. op = 42 => Passed(WordX(s, x, op), s, 2)
  BY <1>2, <1>3 DEF WordX
<1>9. op \in {35, 43} => Keeps(WordX(s, x, op), s)
  <2> DEFINE v == (s[x] + 1) % Word  w == (s[x] - 1) % Word
  <2>1. /\ op = 35 => WordX(s, x, op) = [s EXCEPT ![x] = v]
        /\ op = 43 => WordX(s, x, op) = [s EXCEPT ![x] = w]
    BY DEF WordX
  <2> HIDE DEF v, w
  <2> QED BY <1>4, <1>5, <2>1
<1>10. op = 225 => Keeps(WordX(s, x, op), s)
  <2>1. op = 225 => WordX(s, x, op) = [Popped(s) EXCEPT ![x] = PeekWord(s, s.sp)]
    BY DEF WordX
  <2>2. Keeps(Popped(s), s)
    BY StacksKeep
  <2> QED BY <1>4, <2>1, <2>2
<1>11. op = 227 => Keeps(WordX(s, x, op), s)
  <2>1. op = 227 => WordX(s, x, op) = [PokeWord(s, s.sp, s[x]) EXCEPT ![x] = PeekWord(s, s.sp)]
    BY DEF WordX
  <2>2. Keeps(PokeWord(s, s.sp, s[x]), s)
    BY PokesKeep
  <2> QED BY <1>4, <2>1, <2>2
<1>12. op = 229 => Keeps(WordX(s, x, op), s)
  <2>1. op = 229 => WordX(s, x, op) = Push(s, s[x])
    BY DEF WordX
  <2> QED BY <2>1, StacksKeep
<1>13. op = 249 => Keeps(WordX(s, x, op), s)
  <2>1. op = 249 => WordX(s, x, op) = [s EXCEPT !.sp = s[x]]
    BY DEF WordX
  <2> QED BY <2>1 DEF Keeps
<1> QED BY <1>6, <1>7, <1>8, <1>9, <1>10, <1>11, <1>12, <1>13

\* Behind DD CB or FD CB: the offset, then the opcode.
LEMMA CbXFollows ==
  ASSUME NEW s, IsProcessor(s), NEW x \in IndexRegs
  PROVE  Passed(CbX(s, x), s, 2)
<1> DEFINE addr == Indexed(s, x)
           op == Peek(s, (s.pc + 1) % Word)
           v == Peek(s, addr)
           t == Skip(s, 2)
           r == Shifted(Y(op), v, s.f)
           Into(v2) == LET u == Poke(t, addr, v2) IN
                       IF Z(op) = 6 THEN u ELSE [u EXCEPT ![R8[Z(op) + 1]] = v2]
           f == ShiftFlags(r)
           rv == r.v
           down == ResetBit(v, Y(op))
           up == SetBit(v, Y(op))
           b == TestBit(t.f, v, Y(op), Z(op) = 6)
<1>1. "pc" \in DOMAIN s
  BY HasPc DEF Keeps
<1>2. Passed(t, s, 2) /\ "pc" \in DOMAIN t
  BY <1>1, SkipMoves DEF Passed
<1>3. op \in Int /\ Z(op) \in 0..7
  <2>1. IsByte(op)
    BY PeekTyped
  <2>2. op \in Int
    BY <2>1 DEF IsByte
  <2> HIDE DEF op
  <2> QED BY <2>2, OpcodeFields
<1>4. \A v2 : Passed(Into(v2), s, 2)
  <2> SUFFICES ASSUME NEW v2 PROVE Passed(Into(v2), s, 2)
    OBVIOUS
  <2> DEFINE u == Poke(t, addr, v2)
             y == R8[Z(op) + 1]
  <2>1. Into(v2) = IF Z(op) = 6 THEN u ELSE [u EXCEPT ![y] = v2]
    OBVIOUS
  <2> HIDE DEF t, addr, op
  <2>2. Keeps(u, t)
    BY <1>2, PokesKeep
  <2>3. Z(op) # 6 => y # "pc"
    BY <1>3, RegisterNames DEF ByteRegs
  <2> HIDE DEF u, y
  <2>4. Z(op) # 6 => Keeps([u EXCEPT ![y] = v2], u)
    BY <2>2, <2>3, ChangesKeep DEF Keeps
  <2> QED BY <1>2, <2>1, <2>2, <2>4 DEF Passed, Keeps
<1>5. CbX(s, x) = CASE op < 64 -> [Into(rv) EXCEPT !.f = f]
                    [] op \in 64..127 -> [t EXCEPT !.f = b]
                    [] op \in 128..191 -> Into(down)
                    [] op > 191 -> Into(up)
  BY DEF CbX
<1>6. \A u, g : Passed(u, s, 2) => Passed([u EXCEPT !.f = g], s, 2)
  BY DEF Passed
<1> HIDE DEF op, t, f, rv, down, up, b, Into
<1>7. op < 64 \/ op \in 64..127 \/ op \in 128..191 \/ op > 191
  BY <1>3
<1> QED BY <1>2, <1>4, <1>5, <1>6, <1>7

\* Lengths behind a prefix and behind the opcode after it add up.
LEMMA Passages ==
  ASSUME NEW s, IsProcessor(s), NEW t, Passed(t, s, 1)
  PROVE  /\ \A u : Keeps(u, t) => Passed(u, s, 1)
         /\ \A u : Passed(u, t, 1) => Passed(u, s, 2)
         /\ \A u : Passed(u, t, 2) => Passed(u, s, 3)
         /\ \A u : Passed(u, t, -1) => Passed(u, s, 0)
<1>1. s.pc \in Int
  BY DEF IsProcessor, WordRegs, IsWord
<1>2. s.pc + 1 \in Int /\ (s.pc + 1) + 1 = s.pc + 2 /\ (s.pc + 1) + 2 = s.pc + 3 /\ (s.pc + 1) + (-1) = s.pc + 0
  BY <1>1
<1>3. \A n \in Int : (((s.pc + 1) % Word) + n) % Word = ((s.pc + 1) + n) % Word
  BY <1>2, ModSum
<1>4. t.pc = (s.pc + 1) % Word
  BY DEF Passed
<1>5. /\ (t.pc + 1) % Word = (s.pc + 2) % Word
      /\ (t.pc + 2) % Word = (s.pc + 3) % Word
      /\ (t.pc + (-1)) % Word = (s.pc + 0) % Word
  <2>1. 1 \in Int /\ 2 \in Int /\ -1 \in Int
    OBVIOUS
  <2> QED BY <1>2, <1>3, <1>4, <2>1
<1>6. \A u : Keeps(u, t) => Passed(u, s, 1)
  BY DEF Keeps, Passed
<1>7. /\ \A u : Passed(u, t, 1) => Passed(u, s, 2)
      /\ \A u : Passed(u, t, 2) => Passed(u, s, 3)
      /\ \A u : Passed(u, t, -1) => Passed(u, s, 0)
  BY <1>5 DEF Passed
<1> QED BY <1>6, <1>7

\* Which opcodes behind a prefix have memory at the index register, by the
\* groups of the processor.
LEMMA GroupClasses ==
  ASSUME NEW op, IsByte(op)
  PROVE  /\ op \in IndexedArithmetic =>
              /\ Z(op) = 6 => op \in IndexMemory
              /\ Z(op) # 6 => op \in IndexHalves
         /\ op \in IndexedLoads =>
              /\ Y(op) = 6 \/ Z(op) = 6 => op \in IndexMemory
              /\ Y(op) # 6 /\ Z(op) # 6 => op \in IndexHalves
         /\ op \in {36, 44, 37, 45} => Y(op) # 6 /\ op \in IndexHalves
         /\ op \in {52, 53} => Y(op) = 6 /\ op \in IndexMemory
         /\ op \in {38, 46} => Y(op) \in {4, 5}
         /\ op = 54 => Y(op) = 6
         /\ op \in {9, 25, 41, 57, 35, 43, 225, 227, 229, 249} => op \in IndexWords
<1>1. op \in Int /\ 0 <= op /\ op < 256
  BY DEF IsByte
<1>2. op \in IndexedArithmetic =>
              /\ Z(op) = 6 => op \in IndexMemory
              /\ Z(op) # 6 => op \in IndexHalves
  <2> HAVE op \in IndexedArithmetic
  <2>1. 128 <= op /\ op < 192 /\ Z(op) \in {4, 5, 6}
    BY <1>1 DEF IndexedArithmetic, Halves
  <2> QED BY <1>1, <2>1, OperationClasses
<1>3. op \in IndexedLoads =>
              /\ Y(op) = 6 \/ Z(op) = 6 => op \in IndexMemory
              /\ Y(op) # 6 /\ Z(op) # 6 => op \in IndexHalves
  <2> HAVE op \in IndexedLoads
  <2>1. 64 <= op /\ op < 128 /\ op # 118 /\ (Z(op) \in {4, 5, 6} \/ Y(op) \in {4, 5, 6})
    BY <1>1 DEF IndexedLoads, Halves
  <2> QED BY <1>1, <2>1, LoadClasses
<1>4. op \in {36, 44, 37, 45} => Y(op) # 6 /\ op \in IndexHalves
  BY OtherClasses, Z3 DEF Y
<1>5. op \in {52, 53} => Y(op) = 6 /\ op \in IndexMemory
  BY OtherClasses, Z3 DEF Y
<1>6. /\ op \in {38, 46} => Y(op) \in {4, 5}
      /\ op = 54 => Y(op) = 6
  BY Z3 DEF Y
<1>7. op \in {9, 25, 41, 57, 35, 43, 225, 227, 229, 249} => op \in IndexWords
  BY OtherClasses
<1> QED BY <1>2, <1>3, <1>4, <1>5, <1>6, <1>7

\* What the processor does not know behind a prefix, the listing does not either.
LEMMA GroupsCover ==
  ASSUME NEW op, IsByte(op), op \notin IndexedArithmetic, op \notin IndexedLoads,
         op \notin {9, 25, 41, 57}, op \notin {36, 44, 52}, op \notin {37, 45, 53},
         op \notin {33, 34, 35, 42, 43, 225, 227, 229, 233, 249}
  PROVE  op \notin IndexMemory \cup IndexWords \cup IndexHalves
<1>1. op \in Int /\ 0 <= op /\ op < 256
  BY DEF IsByte
<1>2. CASE 64 <= op /\ op < 128
  <2>1. op = 118 \/ (Z(op) \notin {4, 5, 6} /\ Y(op) \notin {4, 5, 6})
    BY <1>1, <1>2 DEF IndexedLoads, Halves
  <2>2. op = 118 => Y(op) = 6
    BY Z3 DEF Y
  <2> QED BY <1>1, <1>2, <2>1, <2>2, LoadClasses
<1>3. CASE 128 <= op /\ op < 192
  <2>1. Z(op) \notin {4, 5, 6}
    BY <1>1, <1>3 DEF IndexedArithmetic, Halves
  <2> QED BY <1>1, <1>3, <2>1, OperationClasses
<1>4. CASE op < 64 \/ 192 <= op
  BY <1>1, <1>4, OtherClasses
<1> QED BY <1>1, <1>2, <1>3, <1>4

\* Every opcode behind DD or FD, but JP (IX) and the halves of IY in the listing;
\* a prefix that counts for nothing is one byte for both.
LEMMA IndexedFollows ==
  ASSUME NEW s, IsProcessor(s), NEW p \in {221, 253}, NEW x \in IndexRegs,
         ~Unlisted(p, Fetch(s)), Fetch(s) # 233
  PROVE  IF minor(p, Fetch(s)) = "table" THEN Passed(IndexedInstruction(s, x), s, 3)
         ELSE Passed(IndexedInstruction(s, x), s, 1 + arglen(minor(p, Fetch(s))))
<1> DEFINE op == Fetch(s)
           t == Skip(s, 1)
           args == minor(p, op)
<1>1. IsByte(op) /\ IsProcessor(t) /\ Passed(t, s, 1) /\ op # 233 /\ ~Unlisted(p, op)
  <2>1. "pc" \in DOMAIN s
    BY HasPc DEF Keeps
  <2> QED BY <2>1, FetchTyped, SkipTyped, SkipMoves DEF Passed
<1>2. IndexedInstruction(s, x) =
  CASE op \in IndexedArithmetic -> ArithmeticX(t, x, op)
    [] op \in {9, 25, 41, 57} -> AddX(t, x, op)
    [] op \in {36, 44, 52} -> IncX(t, x, op)
    [] op \in {37, 45, 53} -> DecX(t, x, op)
    [] op \in IndexedLoads -> LoadX(t, x, op)
    [] op \in {38, 46, 54} -> LoadXNext(t, x, op)
    [] op \in {33, 34, 35, 42, 43, 225, 227, 229, 233, 249} -> WordX(t, x, op)
    [] op = 203 -> CbX(t, x)
    [] OTHER -> IgnorePrefix(t)
  BY DEF IndexedInstruction
<1> HIDE DEF op, t
<1>3. op \in Int /\ "pc" \in DOMAIN t
  BY <1>1, HasPc DEF Keeps, IsByte
<1>4. /\ \A u : Keeps(u, t) => Passed(u, s, 1)
      /\ \A u : Passed(u, t, 1) => Passed(u, s, 2)
      /\ \A u : Passed(u, t, 2) => Passed(u, s, 3)
      /\ \A u : Passed(u, t, -1) => Passed(u, s, 0)
  BY <1>1, Passages
<1>5. /\ op \in IndexMemory => args = "byte"
      /\ op \in IndexWords \cup IndexHalves => args = "none"
      /\ op \in {33, 34, 42} => args = "word"
      /\ op \in {38, 46} => args = "byte"
      /\ op = 54 => args = "bytes"
      /\ op = 203 => args = "table"
      /\ op \notin IndexMemory \cup IndexWords \cup IndexHalves \cup {33, 34, 42, 38, 46, 54, 203}
           => args = "noop"
  BY <1>1, IndexLengths
<1> HIDE DEF args
<1> DEFINE Good(u) == IF args = "table" THEN Passed(u, s, 3) ELSE Passed(u, s, 1 + arglen(args))
<1>6. /\ \A u : Keeps(u, t) /\ args = "none" => Good(u)
      /\ \A u : Passed(u, t, 1) /\ args = "byte" => Good(u)
      /\ \A u : Passed(u, t, 2) /\ args \in {"word", "bytes", "table"} => Good(u)
      /\ \A u : Passed(u, t, -1) /\ args = "noop" => Good(u)
  <2>1. /\ 1 + arglen("none") = 1 /\ 1 + arglen("byte") = 2 /\ 1 + arglen("word") = 3
        /\ 1 + arglen("bytes") = 3 /\ 1 + arglen("noop") = 0
    BY DEF arglen
  <2> QED BY <1>4, <2>1
<1> HIDE DEF Good
<1>7. /\ op \in IndexedArithmetic => Good(ArithmeticX(t, x, op))
      /\ op \in {9, 25, 41, 57} => Good(AddX(t, x, op))
  BY <1>1, <1>3, <1>5, <1>6, GroupClasses, OperationsXFollow
<1>8. /\ op \in {36, 44, 52} => Good(IncX(t, x, op))
      /\ op \in {37, 45, 53} => Good(DecX(t, x, op))
  BY <1>1, <1>3, <1>5, <1>6, GroupClasses, OperationsXFollow
<1>9. op \in IndexedLoads => Good(LoadX(t, x, op))
  BY <1>1, <1>3, <1>5, <1>6, GroupClasses, LoadsXFollow
<1>10. op \in {38, 46, 54} => Good(LoadXNext(t, x, op))
  BY <1>1, <1>3, <1>5, <1>6, GroupClasses, LoadsXFollow
<1>11. op \in {33, 34, 35, 42, 43, 225, 227, 229, 249} => Good(WordX(t, x, op))
  BY <1>1, <1>3, <1>5, <1>6, GroupClasses, WordsXFollow
<1>12. op = 203 => Good(CbX(t, x))
  BY <1>1, <1>5, <1>6, CbXFollows
<1>13. Passed(IgnorePrefix(t), t, -1)
  <2>1. Passed(Skip(t, -1), t, -1) /\ "pc" \in DOMAIN Skip(t, -1)
    BY <1>3, SkipMoves DEF Passed
  <2>2. Keeps(Refreshed(Skip(t, -1), -1), Skip(t, -1))
    BY <2>1, RefreshKeeps
  <2> QED BY <2>1, <2>2 DEF IgnorePrefix, Passed, Keeps
<1>14. \/ op \in IndexedArithmetic \/ op \in {9, 25, 41, 57} \/ op \in {36, 44, 52}
       \/ op \in {37, 45, 53} \/ op \in IndexedLoads \/ op \in {38, 46, 54}
       \/ op \in {33, 34, 35, 42, 43, 225, 227, 229, 233, 249} \/ op = 203
       \/ args = "noop"
  BY <1>1, <1>5, GroupsCover
<1>15. ~(\/ op \in IndexedArithmetic \/ op \in {9, 25, 41, 57} \/ op \in {36, 44, 52}
         \/ op \in {37, 45, 53} \/ op \in IndexedLoads \/ op \in {38, 46, 54}
         \/ op \in {33, 34, 35, 42, 43, 225, 227, 229, 233, 249} \/ op = 203)
         => Good(IgnorePrefix(t))
  BY <1>6, <1>13, <1>14
<1>16. op # 233
  BY <1>1
<1>17. Good(IndexedInstruction(s, x))
  BY <1>2, <1>7, <1>8, <1>9, <1>10, <1>11, <1>12, <1>15, <1>16
<1> QED BY <1>17 DEF Good, op, args

\* The tables give every opcode arguments of a known length.
LEMMA ArgsKnown ==
  /\ \A op : major(op) # "table" => Behind(op) \in {0, 1, 2}
  /\ \A op : IsByte(op) => (major(op) = "table" <=> op \in {203, 221, 237, 253})
  /\ \A op : minor(203, op) = "none" /\ minor(237, op) = minorED(op) /\ minorED(op) \in {"none", "word"}
  /\ \A p \in {221, 253} : \A op : minor(p, op) # "table" => arglen(minor(p, op)) \in Int
<1>1. \A op : major(op) # "table" => Behind(op) \in {0, 1, 2}
  <2> TAKE op
  <2>1. major(op) \in {"none", "byte", "word", "relative", "table"}
    BY DEF major, majorLow, majorHigh
  <2> QED BY <2>1, ArgLengths DEF Behind
<1>2. \A op : IsByte(op) => (major(op) = "table" <=> op \in {203, 221, 237, 253})
  <2> SUFFICES ASSUME NEW op, IsByte(op) PROVE major(op) = "table" <=> op \in {203, 221, 237, 253}
    OBVIOUS
  <2>1. op \in Int /\ 0 <= op /\ op < 256
    BY DEF IsByte
  <2>2. CASE op < 128
    <3>1. major(op) = majorLow(op) /\ majorLow(op) # "table"
      BY <2>2 DEF major, majorLow
    <3> QED BY <2>1, <2>2, <3>1
  <2>3. CASE 128 <= op
    <3>1. major(op) = majorHigh(op)
      BY <2>1, <2>3 DEF major
    <3>2. op \in {203, 221, 237, 253} => majorHigh(op) = "table"
      BY HighLengths, <3>1
    <3>3. op \notin {203, 221, 237, 253} => majorHigh(op) # "table"
      BY DEF majorHigh
    <3> QED BY <3>1, <3>2, <3>3
  <2> QED BY <2>1, <2>2, <2>3
<1>3. \A op : minor(203, op) = "none" /\ minor(237, op) = minorED(op) /\ minorED(op) \in {"none", "word"}
  BY DEF minor, minorCB, minorED
<1>4. \A p \in {221, 253} : \A op : minor(p, op) # "table" => arglen(minor(p, op)) \in Int
  <2>1. \A p \in {221, 253} : \A op : minor(p, op) \in {"none", "word", "byte", "bytes", "noop", "table"}
    BY DEF minor, minorDDLow, minorDDHigh, minorFDLow, minorFDHigh
  <2>2. \A a \in {"none", "word", "byte", "bytes", "noop"} : arglen(a) \in Int
    BY ArgLengths
  <2> QED BY <2>1, <2>2
<1> QED BY <1>1, <1>2, <1>3, <1>4

\* Where t, the processor after an instruction, may be by the listing for s.
Expects(s, t) ==
  LET op == Fetch(s)  op2 == Peek(s, (s.pc + 1) % Word) IN
  \/ t.pc = disassemble(s, s.pc) % Word
  \/ major(op) = "relative" /\ t.pc = JumpTarget(s, s.pc)
  \/ op \in Jumps
  \/ op = 237 /\ op2 \in JumpsED
  \/ op \in {221, 253} /\ op2 = 233

\* The processor when it has fetched an opcode.
Fetched(s) == Refreshed(Skip(s, 1), 1)

\* It stands behind the opcode, before and after a prefix has been counted.
LEMMA FetchedStands ==
  ASSUME NEW s, IsProcessor(s)
  PROVE  /\ IsProcessor(Fetched(s)) /\ Passed(Fetched(s), s, 1)
         /\ Fetch(Fetched(s)) = Peek(s, (s.pc + 1) % Word)
         /\ IsProcessor(Refreshed(Fetched(s), 1)) /\ Passed(Refreshed(Fetched(s), 1), s, 1)
         /\ Fetch(Refreshed(Fetched(s), 1)) = Peek(s, (s.pc + 1) % Word)
<1>1. "pc" \in DOMAIN s
  BY HasPc DEF Keeps
<1>2. \A u : IsProcessor(u) /\ Passed(u, s, 1) /\ u.mem = s.mem =>
               LET w == Refreshed(u, 1) IN
               IsProcessor(w) /\ Passed(w, s, 1) /\ w.mem = s.mem
  <2> SUFFICES ASSUME NEW u, IsProcessor(u), Passed(u, s, 1), u.mem = s.mem
               PROVE  LET w == Refreshed(u, 1) IN
                      IsProcessor(w) /\ Passed(w, s, 1) /\ w.mem = s.mem
    OBVIOUS
  <2>1. Keeps(Refreshed(u, 1), u)
    BY RefreshKeeps DEF Passed
  <2>2. Refreshed(u, 1).mem = u.mem
    BY DEF Refreshed, IsProcessor
  <2> QED BY <2>1, <2>2, RefreshedTyped DEF Keeps, Passed
<1>3. IsProcessor(Skip(s, 1)) /\ Passed(Skip(s, 1), s, 1) /\ Skip(s, 1).mem = s.mem
  <2>1. Skip(s, 1).mem = s.mem
    BY DEF Skip, IsProcessor
  <2> QED BY <1>1, <2>1, SkipTyped, SkipMoves DEF Passed
<1>4. LET w == Fetched(s) IN IsProcessor(w) /\ Passed(w, s, 1) /\ w.mem = s.mem
  BY <1>2, <1>3 DEF Fetched
<1>5. LET w == Refreshed(Fetched(s), 1) IN IsProcessor(w) /\ Passed(w, s, 1) /\ w.mem = s.mem
  BY <1>2, <1>4
<1>6. \A w : Passed(w, s, 1) /\ w.mem = s.mem => Fetch(w) = Peek(s, (s.pc + 1) % Word)
  BY DEF Passed, Fetch, Peek
<1> QED BY <1>4, <1>5, <1>6

\* For an opcode without a prefix, where the processor is by its first byte is
\* where the listing expects it.
LEMMA OneByteExpected ==
  ASSUME NEW s, IsProcessor(s), NEW t, major(Fetch(s)) # "table", Listed(t, Fetched(s), Fetch(s))
  PROVE  Expects(s, t)
<1> DEFINE op == Fetch(s)
           u == Fetched(s)
<1>1. s.pc \in Int /\ Behind(op) \in Int
  BY Registers, WordsAreInts, ArgsKnown
<1>2. u.pc = (s.pc + 1) % Word /\ Fetch(u) = Peek(s, (s.pc + 1) % Word)
  BY FetchedStands DEF Passed
<1>3. op = Peek(s, s.pc)
  BY DEF Fetch
<1>4. Opcode(s, s.pc) = [args |-> major(op), pc |-> s.pc + 1]
  BY <1>3 DEF Opcode
<1>5. disassemble(s, s.pc) = (s.pc + 1) + Behind(op)
  BY <1>4 DEF disassemble, Behind
<1>6. JumpTarget(s, s.pc) = (((s.pc + 1) + 1) + Signed(Fetch(u))) % Word
  BY <1>2, <1>4 DEF JumpTarget
<1>7. Signed(Fetch(u)) \in Int
  BY FetchedStands, FetchTyped, SignedTyped
<1> DEFINE d == Signed(Fetch(u))
           k == Behind(op)
<1>8. Listed(t, u, op)
  OBVIOUS
<1>9. Passed(t, u, k) => t.pc = disassemble(s, s.pc) % Word
  <2> HIDE DEF k, u, op
  <2> HAVE Passed(t, u, k)
  <2>1. t.pc = (((s.pc + 1) % Word) + k) % Word
    BY <1>2 DEF Passed
  <2>2. s.pc + 1 \in Int /\ k \in Int
    BY <1>1 DEF k
  <2>3. t.pc = ((s.pc + 1) + k) % Word
    BY <2>1, <2>2, ModSum
  <2> QED BY <1>5, <2>3 DEF k
<1>10. Jumped(t, u) => t.pc = JumpTarget(s, s.pc)
  <2> HAVE Jumped(t, u)
  <2> HIDE DEF u, op
  <2>1. t.pc = (((s.pc + 1) % Word) + (d + 1)) % Word
    BY <1>2 DEF Jumped
  <2>2. d \in Int
    BY <1>7
  <2> HIDE DEF d
  <2>3. s.pc + 1 \in Int /\ d + 1 \in Int /\ (s.pc + 1) + (d + 1) = ((s.pc + 1) + 1) + d
    BY <1>1, <2>2
  <2>4. t.pc = ((s.pc + 1) + (d + 1)) % Word
    BY <2>1, <2>3, ModSum
  <2> QED BY <1>6, <2>3, <2>4 DEF d
<1> QED BY <1>8, <1>9, <1>10 DEF Listed, Expects

\* The same behind a prefix, where t came from u, which stands at the second byte.
LEMMA PrefixedExpected ==
  ASSUME NEW s, IsProcessor(s), NEW t, NEW u, Passed(u, s, 1),
         major(Fetch(s)) = "table",
         LET args == minor(Fetch(s), Peek(s, (s.pc + 1) % Word)) IN
         IF args = "table" THEN Passed(t, u, 3)
                           ELSE arglen(args) \in Int /\ Passed(t, u, 1 + arglen(args))
  PROVE  Expects(s, t)
<1> DEFINE op == Fetch(s)
           op2 == Peek(s, (s.pc + 1) % Word)
           args == minor(op, op2)
           k == arglen(args)
<1>1. s.pc \in Int
  BY Registers, WordsAreInts
<1>2. u.pc = (s.pc + 1) % Word
  BY DEF Passed
<1>3. op = Peek(s, s.pc)
  BY DEF Fetch
<1>4. \A n \in Int : (((s.pc + 1) % Word) + n) % Word = ((s.pc + 1) + n) % Word
  <2>1. s.pc + 1 \in Int
    BY <1>1
  <2> QED BY <2>1, ModSum
<1>5. CASE args = "table"
  <2>1. disassemble(s, s.pc) = s.pc + 4
    <3> DEFINE code == Opcode(s, s.pc)
    <3>1. code = [args |-> "before", pc |-> s.pc + 4]
      BY <1>3, <1>5, Zenon DEF Opcode, minorDDCB, minorFDCB
    <3>2. disassemble(s, s.pc) = code.pc + arglen(code.args)
      BY DEF disassemble
    <3> HIDE DEF code
    <3> QED BY <1>1, <3>1, <3>2, ArgLengths
  <2>2. t.pc = (((s.pc + 1) % Word) + 3) % Word
    BY <1>2, <1>5 DEF Passed
  <2>3. (s.pc + 1) + 3 = s.pc + 4 /\ 3 \in Int
    BY <1>1
  <2>4. t.pc = (s.pc + 4) % Word
    BY <1>4, <2>2, <2>3
  <2> QED BY <2>1, <2>4 DEF Expects
<1>6. CASE args # "table"
  <2>1. Opcode(s, s.pc) = [args |-> args, pc |-> s.pc + 2]
    BY <1>3, <1>6 DEF Opcode
  <2>2. disassemble(s, s.pc) = (s.pc + 2) + k
    BY <2>1 DEF disassemble
  <2>3. k \in Int /\ Passed(t, u, 1 + k)
    BY <1>6
  <2> HIDE DEF k
  <2>4. t.pc = (((s.pc + 1) % Word) + (1 + k)) % Word
    BY <1>2, <2>3 DEF Passed
  <2>5. 1 + k \in Int /\ (s.pc + 1) + (1 + k) = (s.pc + 2) + k
    BY <1>1, <2>3
  <2>6. t.pc = ((s.pc + 2) + k) % Word
    BY <1>4, <2>4, <2>5
  <2> QED BY <2>2, <2>6 DEF Expects
<1> QED BY <1>5, <1>6

\* All opcodes together.
LEMMA InstructionFollows ==
  ASSUME NEW s, IsProcessor(s), NEW in, Fetch(s) # 118,
         ~(Fetch(s) = 253 /\ Peek(s, (s.pc + 1) % Word) \in IndexHalves \cup {38, 46})
  PROVE  Expects(s, Instruction(Fetched(s), Fetch(s), in))
<1> DEFINE op == Fetch(s)
           op2 == Peek(s, (s.pc + 1) % Word)
           v == Fetched(s)
           u == Refreshed(v, 1)
           t == Instruction(v, op, in)
<1>1. IsByte(op) /\ IsByte(op2) /\ op # 118 /\ ~Unlisted(op, op2)
  BY FetchTyped, PeekTyped DEF Unlisted
<1>2. /\ IsProcessor(v) /\ IsProcessor(u) /\ Passed(u, s, 1) /\ Fetch(u) = op2
  BY FetchedStands
<1>3. t = CASE op < 64 -> LowInstruction(v, op)
            [] op \in 64..127 -> LoadInstruction(v, op)
            [] op \in 128..191 -> ArithmeticInstruction(v, op)
            [] op > 191 -> HighInstruction(v, op, in)
  BY DEF Instruction
<1>4. op \in {203, 221, 237, 253} => t = HighInstruction(v, op, in)
  <2> HIDE DEF op, t
  <2> QED BY <1>3
<1>5. CASE op \notin {203, 221, 237, 253}
  <2>1. Listed(t, v, op)
    <3> HIDE DEF op, v, t
    <3>1. op \in Int /\ 0 <= op /\ op < 256
      BY <1>1 DEF IsByte
    <3>2. op < 64 => Listed(LowInstruction(v, op), v, op)
      BY <1>1, <1>2, LowFollows
    <3>3. op \in 64..127 => Listed(LoadInstruction(v, op), v, op)
      BY <1>2, LoadFollows
    <3>4. op \in 128..191 => Listed(ArithmeticInstruction(v, op), v, op)
      BY <1>1, <1>2, ArithmeticFollows
    <3>5. op > 191 => Listed(HighInstruction(v, op, in), v, op)
      BY <1>1, <1>2, <1>5, HighFollows
    <3> QED BY <1>3, <3>1, <3>2, <3>3, <3>4, <3>5
  <2>2. major(op) # "table"
    BY <1>1, <1>5, ArgsKnown
  <2> HIDE DEF t
  <2>3. Expects(s, t)
    BY <2>1, <2>2, OneByteExpected
  <2> QED BY <2>3 DEF t
<1>6. CASE op = 203
  <2>1. t = CbInstruction(u)
    BY <1>4, <1>6 DEF HighInstruction
  <2>2. major(op) = "table" /\ minor(op, op2) = "none"
    BY <1>1, <1>6, ArgsKnown
  <2>3. arglen("none") \in Int /\ 1 + arglen("none") = 1
    BY ArgLengths
  <2>4. Passed(CbInstruction(u), u, 1)
    BY <1>2, CbFollows
  <2>5. Passed(t, u, 1)
    BY <2>1, <2>4
  <2> HIDE DEF t, u
  <2>6. Expects(s, t)
    BY <1>2, <2>2, <2>3, <2>5, PrefixedExpected
  <2> QED BY <2>6 DEF t
<1>7. CASE op = 237
  <2>1. t = EdInstruction(u, in)
    BY <1>4, <1>7 DEF HighInstruction
  <2>2. major(op) = "table" /\ minor(op, op2) = minorED(op2) /\ minorED(op2) \in {"none", "word"}
    BY <1>1, <1>7, ArgsKnown
  <2>3. arglen(minorED(op2)) \in Int
    BY <2>2, ArgLengths
  <2>4. CASE op2 \in JumpsED
    BY <1>7, <2>4 DEF Expects
  <2>5. CASE op2 \notin JumpsED
    <3>1. Passed(EdInstruction(u, in), u, 1 + arglen(minorED(op2)))
      BY <1>2, <2>5, EdFollows
    <3>2. Passed(t, u, 1 + arglen(minorED(op2)))
      BY <2>1, <3>1
    <3> HIDE DEF t, u
    <3>3. Expects(s, t)
      BY <1>2, <2>2, <2>3, <3>2, PrefixedExpected
    <3> QED BY <3>3 DEF t
  <2> QED BY <2>4, <2>5
<1>8. CASE op \in {221, 253}
  <2> DEFINE x == IF op = 221 THEN "ix" ELSE "iy"
             args == minor(op, op2)
  <2>1. t = IndexedInstruction(u, x) /\ x \in IndexRegs
    <3>1. op = 221 => t = IndexedInstruction(u, "ix")
      BY <1>4 DEF HighInstruction
    <3>2. op = 253 => t = IndexedInstruction(u, "iy")
      BY <1>4 DEF HighInstruction
    <3> HIDE DEF op, t, u
    <3> QED BY <1>8, <3>1, <3>2 DEF IndexRegs
  <2>2. major(op) = "table" /\ (args # "table" => arglen(args) \in Int)
    BY <1>1, <1>8, ArgsKnown
  <2>3. CASE op2 = 233
    BY <1>8, <2>3 DEF Expects
  <2>4. CASE op2 # 233
    <3> HIDE DEF x, u
    <3>1. IF args = "table" THEN Passed(IndexedInstruction(u, x), u, 3)
          ELSE Passed(IndexedInstruction(u, x), u, 1 + arglen(args))
      BY <1>1, <1>2, <1>8, <2>1, <2>4, IndexedFollows
    <3> HIDE DEF t
    <3>2. Expects(s, t)
      BY <1>2, <2>1, <2>2, <3>1, PrefixedExpected
    <3> QED BY <3>2 DEF t
  <2> QED BY <2>3, <2>4
<1> QED BY <1>5, <1>6, <1>7, <1>8

\* A turn that no interrupt may end; HALT is left to what it is configured to do.
LEMMA TurnFollows ==
  ASSUME NEW s, IsProcessor(s), NEW ln, NEW in,
         ~(Fetch(s) = 253 /\ Peek(s, (s.pc + 1) % Word) \in IndexHalves \cup {38, 46})
  PROVE  Expects(s, Turn(s, ln, in, FALSE).cpu)
<1> DEFINE op == Fetch(s)
           t == Instruction(Fetched(s), op, in)
<1>1. CASE op = 118
  BY <1>1 DEF Expects, Jumps
<1>2. CASE op # 118
  <2>1. Turn(s, ln, in, FALSE).cpu = t
    BY <1>2 DEF Turn, Executed, Fetched
  <2>2. Expects(s, t)
    BY <1>2, InstructionFollows
  <2> QED BY <2>1, <2>2
<1> QED BY <1>1, <1>2

-----------------------------------------------------------------------------
(* Stepping                                                                *)

\* The debugger hands the processor on as it found it: whatever its user does,
\* registers stay bytes and words, and the memory a memory (debug.c, z80_run).
THEOREM DebuggerTyped == DebugSpec => []MachineTyped
<1>1. DebugInit => MachineTyped
  BY MachineInit DEF DebugInit
<1>2. MachineTyped /\ [DebugNext]_userVars => MachineTyped'
  <2> SUFFICES ASSUME MachineTyped, [DebugNext]_userVars PROVE MachineTyped'
    OBVIOUS
  <2>1. \/ UNCHANGED <<cpu, line>>
        \/ \E in \in Ins, allowed \in BOOLEAN : TakeTurn(in, allowed)
    <3>1. \A allowed \in BOOLEAN :
            StepCommand(allowed) => \E in \in Ins : TakeTurn(in, allowed)
      BY DEF StepCommand
    <3>2. CASE StepOnce
      BY <3>1, <3>2 DEF StepOnce, Step
    <3>3. CASE Command
      BY <3>1, <3>3 DEF Command, SetTrap, Clear, Delete, DeleteAll, TraceOn, Traps, Cont, Start,
                        Step, StepInt
    <3>4. CASE Over1
      BY <3>1, <3>4 DEF Over1, NextStep, NextInt, NextCommand, Start
    <3>5. CASE Processor
      BY <3>5 DEF Processor, run, FreeTurn
    <3>6. CASE UserBreak
      BY <3>6 DEF UserBreak, trs_debug
    <3>7. CASE UNCHANGED userVars
      BY <3>7 DEF userVars
    <3> QED BY <3>2, <3>3, <3>4, <3>5, <3>6, <3>7 DEF DebugNext
  <2>2. CASE UNCHANGED <<cpu, line>>
    BY <2>2 DEF MachineTyped
  <2>3. ASSUME NEW in \in Ins, NEW allowed \in BOOLEAN, TakeTurn(in, allowed)
        PROVE  MachineTyped'
    BY <2>3, MachineStep DEF TakeTurn
  <2> QED BY <2>1, <2>2, <2>3
<1> QED BY <1>1, <1>2, PTL DEF DebugSpec

\* A step of the user's is one such turn.
LEMMA StepAgrees ==
  ASSUME MachineTyped, StepOnce
  PROVE  \/ Follows
         \/ /\ Fetch(cpu) = 253
            /\ Peek(cpu, (cpu.pc + 1) % Word) \in IndexHalves \cup {38, 46}
<1> SUFFICES ASSUME ~(Fetch(cpu) = 253 /\ Peek(cpu, (cpu.pc + 1) % Word) \in IndexHalves \cup {38, 46})
             PROVE  Follows
  OBVIOUS
<1>1. PICK in \in Ins : cpu' = Turn(cpu, line, in, FALSE).cpu
  BY DEF StepOnce, Step, StepCommand, TakeTurn
<1>2. Expects(cpu, cpu')
  BY <1>1, TurnFollows DEF MachineTyped
<1> QED BY <1>2 DEF Expects, Follows

\* For every memory and every processor: a step ends where the listing says that
\* the next instruction begins, or at the target that it gives for a relative
\* jump, unless the instruction is one that jumps, returns or repeats, or the
\* listing does not know it because it is about a half of IY (dis.c:1235-1521
\* against z80.c).
THEOREM ListingHolds == DebugSpec => ListingAgrees
<1>1. MachineTyped /\ [DebugNext]_userVars =>
        [StepOnce => \/ Follows
                     \/ /\ Fetch(cpu) = 253
                        /\ Peek(cpu, (cpu.pc + 1) % Word) \in IndexHalves \cup {38, 46}]_userVars
  BY StepAgrees
<1> QED BY <1>1, DebuggerTyped, PTL DEF DebugSpec, ListingAgrees
-----------------------------------------------------------------------------
(* Block instructions, turn by turn and at once                            *)

\* u and v differ in flags, the refresh register and the program counter only.
PassRegs == {"f", "r", "pc"}
Like(u, v) == DOMAIN u = DOMAIN v /\ \A y \in DOMAIN v \ PassRegs : u[y] = v[y]

\* Likeness is an equivalence.
LEMMA LikeChain ==
  /\ \A u : Like(u, u)
  /\ \A u, v : Like(u, v) => Like(v, u)
  /\ \A u, v, w : Like(u, v) /\ Like(v, w) => Like(u, w)
BY DEF Like

\* What is alike has the same data.
LEMMA LikeData ==
  ASSUME NEW v, IsProcessor(v), NEW u, Like(u, v)
  PROVE  /\ HL(u) = HL(v) /\ BC(u) = BC(v) /\ DE(u) = DE(v) /\ u.a = v.a /\ u.mem = v.mem
         /\ \A addr : Peek(u, addr) = Peek(v, addr)
<1>1. \A y \in {"a", "b", "c", "d", "e", "h", "l", "mem"} : y \in DOMAIN v \ PassRegs
  BY DEF IsProcessor, ByteRegs, PassRegs
<1>2. /\ u.a = v.a /\ u.b = v.b /\ u.c = v.c /\ u.d = v.d /\ u.e = v.e /\ u.h = v.h /\ u.l = v.l
      /\ u.mem = v.mem
  BY <1>1 DEF Like
<1> QED BY <1>2 DEF HL, BC, DE, Peek

\* The same change of both keeps them alike; flags, refresh and counter may go
\* their own way.
LEMMA LikeChanges ==
  ASSUME NEW u, NEW v, Like(u, v), IsProcessor(v)
  PROVE  /\ \A x, w : Like(Poke(u, x, w), Poke(v, x, w))
         /\ \A n \in 0..2 : \A w : Like(PutPair(u, n, w), PutPair(v, n, w))
         /\ \A f : Like([u EXCEPT !.f = f], v)
         /\ \A n : Like(Skip(u, n), v) /\ Like(Refreshed(u, n), v)
<1>1. u.mem = v.mem
  BY LikeData
<1>2. \A x, w : Like(Poke(u, x, w), Poke(v, x, w))
  <2> TAKE x, w
  <2> DEFINE m == [y \in DOMAIN v.mem \cup {x} |-> IF y = x THEN w ELSE v.mem[y]]
  <2>1. Poke(u, x, w) = [u EXCEPT !.mem = m] /\ Poke(v, x, w) = [v EXCEPT !.mem = m]
    BY <1>1 DEF Poke
  <2> HIDE DEF m
  <2> QED BY <2>1 DEF Like
<1>3. \A n \in 0..2 : \A w : Like(PutPair(u, n, w), PutPair(v, n, w))
  <2> TAKE n \in 0..2
  <2> TAKE w
  <2> DEFINE high == (w % Word) \div 256
             low == (w % Word) % 256
  <2>1. CASE n = 0
    <3>1. PutPair(u, n, w) = [u EXCEPT !.b = high, !.c = low] /\ PutPair(v, n, w) = [v EXCEPT !.b = high, !.c = low]
      BY <2>1 DEF PutPair
    <3> HIDE DEF high, low
    <3> QED BY <3>1 DEF Like
  <2>2. CASE n = 1
    <3>1. PutPair(u, n, w) = [u EXCEPT !.d = high, !.e = low] /\ PutPair(v, n, w) = [v EXCEPT !.d = high, !.e = low]
      BY <2>2 DEF PutPair
    <3> HIDE DEF high, low
    <3> QED BY <3>1 DEF Like
  <2>3. CASE n = 2
    <3>1. PutPair(u, n, w) = [u EXCEPT !.h = high, !.l = low] /\ PutPair(v, n, w) = [v EXCEPT !.h = high, !.l = low]
      BY <2>3 DEF PutPair
    <3> HIDE DEF high, low
    <3> QED BY <3>1 DEF Like
  <2> QED BY <2>1, <2>2, <2>3
<1>4. \A f : Like([u EXCEPT !.f = f], v)
  BY DEF Like, PassRegs
<1>5. \A n : Like(Skip(u, n), v) /\ Like(Refreshed(u, n), v)
  BY DEF Like, PassRegs, Skip, Refreshed
<1> QED BY <1>2, <1>3, <1>4, <1>5

\* What a pass leaves alone.
Leaves(u, v) == DOMAIN u = DOMAIN v /\ u.a = v.a /\ u.f = v.f /\ u.pc = v.pc /\ u.r = v.r

\* Neither a write nor a pair of registers touches these.
LEMMA PutsLeave ==
  ASSUME NEW s, IsProcessor(s)
  PROVE  /\ \A x, w : Leaves(Poke(s, x, w), s)
         /\ \A n \in 0..2 : \A w : Leaves(PutPair(s, n, w), s)
<1>1. \A x, w : Leaves(Poke(s, x, w), s)
  BY DEF Leaves, Poke
<1>2. \A n \in 0..2 : \A w : Leaves(PutPair(s, n, w), s)
  <2> TAKE n \in 0..2
  <2> TAKE w
  <2> DEFINE high == (w % Word) \div 256
             low == (w % Word) % 256
  <2>1. \/ PutPair(s, n, w) = [s EXCEPT !.b = high, !.c = low]
        \/ PutPair(s, n, w) = [s EXCEPT !.d = high, !.e = low]
        \/ PutPair(s, n, w) = [s EXCEPT !.h = high, !.l = low]
    <3>1. /\ n = 0 => PutPair(s, n, w) = [s EXCEPT !.b = high, !.c = low]
          /\ n = 1 => PutPair(s, n, w) = [s EXCEPT !.d = high, !.e = low]
          /\ n = 2 => PutPair(s, n, w) = [s EXCEPT !.h = high, !.l = low]
      BY DEF PutPair
    <3>2. n = 0 \/ n = 1 \/ n = 2
      OBVIOUS
    <3> QED BY <3>1, <3>2
  <2> HIDE DEF high, low
  <2>2. "a" \in DOMAIN s /\ "f" \in DOMAIN s /\ "pc" \in DOMAIN s /\ "r" \in DOMAIN s
    BY DEF IsProcessor, ByteRegs, FlagRegs, WordRegs
  <2>3. /\ Leaves([s EXCEPT !.b = high, !.c = low], s)
        /\ Leaves([s EXCEPT !.d = high, !.e = low], s)
        /\ Leaves([s EXCEPT !.h = high, !.l = low], s)
    BY <2>2 DEF Leaves
  <2> QED BY <2>1, <2>3
<1> QED BY <1>1, <1>2

\* The pairs after one of them was set.
LEMMA PairsPut ==
  ASSUME NEW s, IsProcessor(s), NEW v \in Int
  PROVE  /\ BC(PutPair(s, 0, v)) = v % Word /\ HL(PutPair(s, 0, v)) = HL(s)
         /\ BC(PutPair(s, 2, v)) = BC(s) /\ HL(PutPair(s, 2, v)) = v % Word
         /\ BC(PutPair(s, 1, v)) = BC(s) /\ HL(PutPair(s, 1, v)) = HL(s)
<1> DEFINE w == v % Word
           high == w \div 256
           low == w % 256
<1>1. PutPair(s, 0, v) = [s EXCEPT !.b = high, !.c = low]
      /\ PutPair(s, 1, v) = [s EXCEPT !.d = high, !.e = low]
      /\ PutPair(s, 2, v) = [s EXCEPT !.h = high, !.l = low]
  BY DEF PutPair
<1>2. 256 * high + low = w
  BY ModWord, WordHalves DEF High, Low
<1> HIDE DEF high, low, w
<1>3. /\ BC([s EXCEPT !.b = high, !.c = low]) = 256 * high + low /\ HL([s EXCEPT !.b = high, !.c = low]) = HL(s)
      /\ BC([s EXCEPT !.d = high, !.e = low]) = BC(s) /\ HL([s EXCEPT !.d = high, !.e = low]) = HL(s)
      /\ BC([s EXCEPT !.h = high, !.l = low]) = BC(s) /\ HL([s EXCEPT !.h = high, !.l = low]) = 256 * high + low
  BY DEF IsProcessor, ByteRegs, BC, HL
<1> QED BY <1>1, <1>2, <1>3 DEF w

\* One pass moves everything that it moves alike.
LEMMA MovedLike ==
  ASSUME NEW u, NEW v, Like(u, v), IsProcessor(u), IsProcessor(v), NEW dir \in {1, -1}
  PROVE  Like(Moved(u, dir), Moved(v, dir))
<1> DEFINE ut == Poke(u, DE(u), Peek(u, HL(u)))
           vt == Poke(v, DE(v), Peek(v, HL(v)))
           ud == PutPair(ut, 1, DE(u) + dir)
           vd == PutPair(vt, 1, DE(v) + dir)
           uh == PutPair(ud, 2, HL(u) + dir)
           vh == PutPair(vd, 2, HL(v) + dir)
<1>1. HL(u) = HL(v) /\ DE(u) = DE(v) /\ Peek(u, HL(u)) = Peek(v, HL(v))
  BY LikeData
<1>2. /\ IsByte(Peek(u, HL(u))) /\ IsWord(DE(u)) /\ IsWord(HL(u)) /\ IsWord(DE(v)) /\ IsWord(HL(v))
      /\ IsByte(Peek(v, HL(v)))
      /\ DE(u) + dir \in Int /\ HL(u) + dir \in Int
  BY PairsTyped, PeekTyped, WordsAreInts
<1>3. Like(ut, vt)
  BY <1>1, LikeChanges
<1>4. IsProcessor(vt)
  BY <1>2, PokeTyped
<1> HIDE DEF ut, vt
<1>5. Like(ud, vd)
  BY <1>1, <1>3, <1>4, LikeChanges
<1>6. IsProcessor(vd)
  BY <1>1, <1>2, <1>4, PutPairTyped
<1> HIDE DEF ud, vd
<1>7. Like(uh, vh) /\ IsProcessor(vh)
  BY <1>1, <1>2, <1>5, <1>6, LikeChanges, PutPairTyped
<1>8. Moved(u, dir) = Count(uh) /\ Moved(v, dir) = Count(vh)
  BY DEF Moved, ut, vt, ud, vd
<1> HIDE DEF uh, vh
<1>9. BC(uh) = BC(vh)
  BY <1>7, LikeData
<1> QED BY <1>7, <1>8, <1>9, LikeChanges DEF Count

LEMMA MovedLeaves ==
  ASSUME NEW s, IsProcessor(s), NEW dir \in {1, -1}
  PROVE  Leaves(Moved(s, dir), s) /\ BC(Moved(s, dir)) = (BC(s) - 1) % Word
<1> DEFINE t == Poke(s, DE(s), Peek(s, HL(s)))
           u == PutPair(t, 1, DE(s) + dir)
           w == PutPair(u, 2, HL(s) + dir)
<1>1. /\ IsByte(Peek(s, HL(s))) /\ IsWord(DE(s)) /\ DE(s) + dir \in Int /\ HL(s) + dir \in Int
  BY PairsTyped, PeekTyped, WordsAreInts
<1>2. IsProcessor(t) /\ Leaves(t, s) /\ BC(t) = BC(s)
  <2>1. IsProcessor(t) /\ Leaves(t, s)
    BY <1>1, PokeTyped, PutsLeave
  <2>2. \A x, v : BC(Poke(s, x, v)) = BC(s)
    BY DEF Poke, BC, IsProcessor, ByteRegs
  <2> QED BY <2>1, <2>2
<1> HIDE DEF t
<1>3. IsProcessor(u) /\ Leaves(u, t) /\ BC(u) = BC(t)
  BY <1>1, <1>2, PutPairTyped, PutsLeave, PairsPut
<1> HIDE DEF u
<1>4. IsProcessor(w) /\ Leaves(w, u) /\ BC(w) = BC(u)
  BY <1>1, <1>3, PutPairTyped, PutsLeave, PairsPut
<1>5. Moved(s, dir) = Count(w)
  BY DEF Moved, t, u
<1> HIDE DEF w
<1>6. BC(w) - 1 \in Int
  BY <1>4, PairsTyped, WordsAreInts
<1>7. Leaves(Count(w), w) /\ BC(Count(w)) = (BC(w) - 1) % Word
  BY <1>4, <1>6, PutsLeave, PairsPut DEF Count
<1> QED BY <1>2, <1>3, <1>4, <1>5, <1>7 DEF Leaves

\* An opcode of two bytes, there and back.
LEMMA Steps ==
  ASSUME NEW pc \in Int
  PROVE  /\ (((pc + 1) % Word) + 1) % Word = (pc + 2) % Word
         /\ (((pc + 2) % Word) + (-2)) % Word = pc % Word
BY Z3 DEF Word

\* The processor when it executes a block instruction.
\* A turn in which nothing interrupts.
Alone(s, ln, in) == Turn(s, ln, in, FALSE).cpu
Behind2(s) == Refreshed(Fetched(s), 1)
Second(s) == Peek(s, (s.pc + 1) % Word)

LEMMA BlockReached ==
  ASSUME NEW s, IsProcessor(s), Fetch(s) = 237
  PROVE  /\ IsProcessor(Skip(Behind2(s), 1)) /\ Like(Skip(Behind2(s), 1), s)
         /\ Skip(Behind2(s), 1).f = s.f /\ Skip(Behind2(s), 1).pc = (s.pc + 2) % Word
         /\ \A ln, in : Alone(s, ln, in) = EdInstruction(Behind2(s), in)
         /\ Fetch(Behind2(s)) = Second(s)
<1> DEFINE u == Refreshed(Fetched(s), 1)
           t == Skip(u, 1)
<1>1. IsProcessor(u) /\ Passed(u, s, 1) /\ Fetch(u) = Second(s)
  BY FetchedStands DEF Second
<1>2. IsProcessor(t)
  <2> HIDE DEF u
  <2> QED BY <1>1, SkipTyped
<1>3. t.pc = (s.pc + 2) % Word
  <2> HIDE DEF u
  <2>1. t.pc = (u.pc + 1) % Word /\ u.pc = (s.pc + 1) % Word
    BY <1>1, SkipMoves DEF Passed
  <2>2. s.pc \in Int
    BY Registers, WordsAreInts
  <2>3. s.pc + 1 \in Int /\ 1 \in Int /\ (s.pc + 1) + 1 = s.pc + 2
    BY <2>2
  <2>4. (((s.pc + 1) % Word) + 1) % Word = (s.pc + 2) % Word
    BY <2>2, Steps
  <2> QED BY <2>1, <2>4
<1>4. Like(t, s) /\ t.f = s.f
  <2> DEFINE a == Skip(s, 1)
             b == Refreshed(a, 1)
  <2>1. IsProcessor(a) /\ IsProcessor(b)
    BY SkipTyped, RefreshedTyped
  <2>2. Like(s, s)
    BY LikeChain
  <2>3. Like(a, s) /\ a.f = s.f
    BY <2>2, LikeChanges DEF Skip
  <2> HIDE DEF a
  <2>4. Like(b, s) /\ b.f = a.f
    BY <2>3, LikeChanges DEF Refreshed
  <2>5. u = Refreshed(b, 1)
    BY DEF Fetched, a
  <2> HIDE DEF b
  <2>6. Like(u, s) /\ u.f = b.f
    <3>1. Like(Refreshed(b, 1), s)
      BY <2>4, LikeChanges
    <3>2. Refreshed(b, 1).f = b.f
      BY DEF Refreshed
    <3> QED BY <2>5, <3>1, <3>2
  <2> HIDE DEF u
  <2>7. Like(t, s) /\ t.f = u.f
    BY <2>6, LikeChanges DEF Skip
  <2> QED BY <2>3, <2>4, <2>6, <2>7
<1>5. \A ln, in : Alone(s, ln, in) = EdInstruction(u, in)
  <2> TAKE ln, in
  <2>1. Alone(s, ln, in) = Instruction(Fetched(s), 237, in)
    BY DEF Alone, Turn, Executed, Fetched
  <2> HIDE DEF u
  <2>2. Instruction(Fetched(s), 237, in) = HighInstruction(Fetched(s), 237, in)
    BY DEF Instruction
  <2>3. HighInstruction(Fetched(s), 237, in) = EdInstruction(u, in)
    BY DEF HighInstruction, u
  <2> QED BY <2>1, <2>2, <2>3
<1>6. u = Behind2(s)
  BY DEF Behind2
<1> HIDE DEF u
<1>7. IsProcessor(Skip(Behind2(s), 1)) /\ Like(Skip(Behind2(s), 1), s)
  BY <1>2, <1>4, <1>6
<1>8. Skip(Behind2(s), 1).f = s.f /\ Skip(Behind2(s), 1).pc = (s.pc + 2) % Word
  BY <1>3, <1>4, <1>6
<1>9. \A ln, in : Alone(s, ln, in) = EdInstruction(Behind2(s), in)
  BY <1>5, <1>6
<1>10. Fetch(Behind2(s)) = Second(s)
  BY <1>1, <1>6
<1> QED BY <1>7, <1>8, <1>9, <1>10

\* Its second byte names the operation.
LEMMA BlockDispatch ==
  ASSUME NEW u, NEW in
  PROVE  /\ Fetch(u) \in {176, 184} => EdInstruction(u, in) = MoveRepeat(Skip(u, 1), Dir(Fetch(u)))
         /\ Fetch(u) \in {177, 185} => EdInstruction(u, in) = SearchRepeat(Skip(u, 1), Dir(Fetch(u)))
<1> DEFINE t == Skip(u, 1)
           op == Fetch(u)
<1>1. op = 176 => EdInstruction(u, in) = MoveRepeat(t, Dir(op))
  BY DEF EdInstruction
<1>2. op = 184 => EdInstruction(u, in) = MoveRepeat(t, Dir(op))
  BY DEF EdInstruction
<1>3. op = 177 => EdInstruction(u, in) = SearchRepeat(t, Dir(op))
  BY DEF EdInstruction
<1>4. op = 185 => EdInstruction(u, in) = SearchRepeat(t, Dir(op))
  BY DEF EdInstruction
<1> QED BY <1>1, <1>2, <1>3, <1>4

\* w is s after one pass of the move at which it stands.
PassCounted(f, bc) == IF bc = 0 THEN f \ {"P"} ELSE f \cup {"P"}
MovesOnce(w, s, m) ==
  /\ IsProcessor(w) /\ Like(w, m) /\ w.f = MoveFlags(PassCounted(s.f, BC(m)), s.a, Peek(s, HL(s)))
  /\ w.pc = (IF BC(m) = 0 THEN (s.pc + 2) % Word ELSE s.pc)

LEMMA MoveTurn ==
  ASSUME NEW s, IsProcessor(s), Fetch(s) = 237, NEW ln, NEW in, Second(s) \in {176, 184}
  PROVE  MovesOnce(Alone(s, ln, in), s, Moved(s, Dir(Second(s))))
<1> DEFINE op == Second(s)
           w == Alone(s, ln, in)
           dir == Dir(op)
           m == Moved(s, dir)
           t == Skip(Behind2(s), 1)
<1>1. /\ IsProcessor(t) /\ Like(t, s) /\ t.f = s.f /\ t.pc = (s.pc + 2) % Word
      /\ w = EdInstruction(Behind2(s), in) /\ Fetch(Behind2(s)) = op
  <2>1. IsProcessor(t) /\ Like(t, s)
    BY BlockReached
  <2>2. t.f = s.f /\ t.pc = (s.pc + 2) % Word
    BY BlockReached
  <2>3. w = EdInstruction(Behind2(s), in)
    BY BlockReached
  <2>4. Fetch(Behind2(s)) = op
    BY BlockReached
  <2> QED BY <2>1, <2>2, <2>3, <2>4
<1>2. dir \in {1, -1}
  BY DEF Dir
<1>3. w = MoveRepeat(t, dir)
  <2> DEFINE u == Behind2(s)
  <2>1. EdInstruction(u, in) = MoveRepeat(Skip(u, 1), Dir(Fetch(u)))
    <3> HIDE DEF u
    <3>1. Fetch(u) \in {176, 184}
      BY <1>1 DEF u
    <3> QED BY <3>1, BlockDispatch
  <2> QED BY <1>1, <2>1
<1> HIDE DEF w, dir, t
<1> DEFINE n == Moved(t, dir)
           f == IF BC(n) = 0 THEN t.f \ {"P"} ELSE t.f \cup {"P"}
           g == MoveFlags(f, t.a, Peek(t, HL(t)))
           o == [n EXCEPT !.f = g]
<1>4. Like(n, m) /\ IsProcessor(n) /\ IsProcessor(m) /\ Leaves(n, t)
  <2>1. Like(n, m)
    BY <1>1, <1>2, MovedLike DEF m
  <2>2. IsProcessor(n) /\ Leaves(n, t)
    BY <1>1, <1>2, MovedLeaves, PassTyped
  <2>3. IsProcessor(m)
    BY <1>2, PassTyped
  <2> QED BY <2>1, <2>2, <2>3
<1>5. BC(n) = BC(m) /\ t.a = s.a /\ Peek(t, HL(t)) = Peek(s, HL(s))
  <2>1. BC(n) = BC(m)
    <3> HIDE DEF n, m
    <3> QED BY <1>4, LikeData
  <2> QED BY <1>1, <2>1, LikeData
<1>6. Move(t, dir) = o
  BY DEF Move
<1>7. "P" \in g <=> BC(n) # 0
  <2> HIDE DEF n
  <2>1. "P" \in f <=> BC(n) # 0
    OBVIOUS
  <2> HIDE DEF f
  <2>2. "P" \in g <=> "P" \in f
    BY DEF MoveFlags, On
  <2> QED BY <2>1, <2>2
<1> HIDE DEF n, g, m
<1>8. o.f = g /\ o.pc = t.pc /\ Like(o, m) /\ "pc" \in DOMAIN o
  <2>1. "f" \in DOMAIN n /\ "pc" \in DOMAIN n
    BY <1>4 DEF IsProcessor, FlagRegs, WordRegs
  <2> QED BY <1>4, <2>1, LikeChanges DEF Leaves
<1>9. IsProcessor(o)
  BY <1>1, <1>2, <1>6, MoveTyped
<1> HIDE DEF o
<1>10. w = IF BC(n) = 0 THEN o ELSE Skip(o, -2)
  BY <1>3, <1>6, <1>7, <1>8 DEF MoveRepeat
<1>11. Like(w, m) /\ w.f = g /\ IsProcessor(w)
  <2>1. Like(Skip(o, -2), m) /\ Skip(o, -2).f = o.f
    BY <1>4, <1>8, LikeChanges DEF Skip
  <2>2. IsProcessor(Skip(o, -2))
    BY <1>9, AgainTyped
  <2> QED BY <1>8, <1>9, <1>10, <2>1, <2>2
<1>12. w.pc = IF BC(n) = 0 THEN (s.pc + 2) % Word ELSE s.pc
  <2>1. Skip(o, -2).pc = (((s.pc + 2) % Word) + (-2)) % Word
    BY <1>1, <1>8, SkipMoves
  <2>2. s.pc \in Int /\ 0 <= s.pc /\ s.pc < Word
    BY DEF IsProcessor, WordRegs, IsWord
  <2>3. s.pc + 2 \in Int /\ -2 \in Int /\ (s.pc + 2) + (-2) = s.pc
    BY <2>2
  <2>4. (((s.pc + 2) % Word) + (-2)) % Word = s.pc % Word
    BY <2>2, Steps
  <2>5. s.pc % Word = s.pc
    BY <2>2, Z3 DEF Word
  <2> QED BY <1>1, <1>8, <1>10, <2>1, <2>4, <2>5
<1>13. g = MoveFlags(PassCounted(s.f, BC(m)), s.a, Peek(s, HL(s)))
  BY <1>1, <1>5 DEF g, PassCounted
<1> HIDE DEF op
<1> QED BY <1>5, <1>11, <1>12, <1>13 DEF MovesOnce, w, m, dir, op
\* The flags a pass sets.
PassFlags == {"3", "5", "H", "N", "P"}
SameBut(f, g) == f \ PassFlags = g \ PassFlags

\* u after n turns of the block move that s stands at.
Moving(u, s, n) ==
  /\ IsProcessor(u) /\ u.pc = s.pc /\ u.a = s.a
  /\ BC(u) = (BC(s) - n) % Word
  /\ SameBut(u.f, s.f)

\* p is what k turns make of s, which nothing interrupts.
Turns(p, s, k) ==
  p[1] = s /\ \A n \in 1..k : \E ln, in : p[n + 1] = Alone(p[n], ln, in)

\* None of them finds the instruction overwritten.
Intact(p, s, k) ==
  \A n \in 1..k : Peek(p[n], s.pc) = 237 /\ Peek(p[n], (s.pc + 1) % Word) = Second(s)

\* The flags of a pass keep all others, and depend on nothing they set themselves.
LEMMA MoveFlagsKeep ==
  ASSUME NEW f, NEW a, NEW v, NEW b
  PROVE  MoveFlags(PassCounted(f, b), a, v) \ PassFlags = f \ PassFlags
<1> DEFINE x == On(Bit(a + v, 8) = 1, "3")
           y == On(Bit(a + v, 2) = 1, "5")
           h == PassCounted(f, b)
<1>1. x \subseteq {"3"} /\ y \subseteq {"5"}
  BY DEF On
<1>2. MoveFlags(h, a, v) = (h \ {"3", "5", "H", "N"}) \cup x \cup y
  BY DEF MoveFlags
<1>3. h \ PassFlags = f \ PassFlags
  BY DEF PassFlags, PassCounted
<1> HIDE DEF h, x, y
<1>4. MoveFlags(h, a, v) \ PassFlags = f \ PassFlags
  BY <1>1, <1>2, <1>3 DEF PassFlags
<1> QED BY <1>4 DEF h

\* They do not depend on what an earlier pass left in them.
LEMMA MoveFlagsAgree ==
  ASSUME NEW f, NEW g, SameBut(f, g), NEW a, NEW v
  PROVE  MoveFlags(f \ {"P"}, a, v) = MoveFlags(g \ {"P"}, a, v)
<1>1. (f \ {"P"}) \ {"3", "5", "H", "N"} = f \ PassFlags /\ (g \ {"P"}) \ {"3", "5", "H", "N"} = g \ PassFlags
  BY DEF PassFlags
<1> QED BY <1>1 DEF MoveFlags, SameBut

\* Counting a word down.
LEMMA CountsDown ==
  ASSUME NEW b, IsWord(b), NEW n \in Int
  PROVE  (((b - n) % Word) - 1) % Word = (b - (n + 1)) % Word
BY Z3 DEF IsWord, Word

\* BC reaches 0 after Passes(s) turns and not before.
LEMMA CountsOut ==
  ASSUME NEW s, IsProcessor(s)
  PROVE  /\ IsWord(BC(s)) /\ Passes(s) \in Nat \ {0}
         /\ \A k \in 1..Passes(s) : (BC(s) - k) % Word = 0 <=> k = Passes(s)
<1>1. IsWord(BC(s))
  BY PairsTyped
<1>2. \A b \in Int : 0 <= b /\ b < 65536 => LET m == IF b = 0 THEN 65536 ELSE b IN
        m \in Nat \ {0} /\ \A k \in 1..m : (b - k) % 65536 = 0 <=> k = m
  BY Z3
<1>3. Passes(s) = IF BC(s) = 0 THEN 65536 ELSE BC(s)
  BY DEF Passes, Word
<1> DEFINE b == BC(s)
<1> HIDE DEF b
<1>4. Passes(s) \in Nat \ {0} /\ \A k \in 1..Passes(s) : (b - k) % 65536 = 0 <=> k = Passes(s)
  BY <1>1, <1>2, <1>3 DEF b, IsWord, Word
<1> QED BY <1>1, <1>4 DEF b, Word

\* v is u after turn n + 1 of the move that s stands at.
MoveStep(v, u, s, n) ==
  /\ IsProcessor(v) /\ Like(v, Moved(u, Dir(Second(s))))
  /\ n + 1 # Passes(s) => Moving(v, s, n + 1)
  /\ n + 1 = Passes(s) =>
       /\ v.pc = (s.pc + 2) % Word
       /\ v.f = MoveFlags(s.f \ {"P"}, s.a, Peek(u, HL(u)))

\* A turn of LDIR or LDDR, wherever the move has got to (z80.c:922-938).
LEMMA MovingOn ==
  ASSUME NEW s, IsProcessor(s), Second(s) \in {176, 184},
         NEW n \in Nat, n + 1 \in 1..Passes(s), NEW u, Moving(u, s, n), NEW ln, NEW in,
         Peek(u, s.pc) = 237, Peek(u, (s.pc + 1) % Word) = Second(s)
  PROVE  MoveStep(Alone(u, ln, in), u, s, n)
<1> DEFINE op == Second(s)
           v == Alone(u, ln, in)
           m == Moved(u, Dir(op))
           f == PassCounted(u.f, BC(m))
<1>1. Fetch(u) = 237 /\ Second(u) = op
  BY DEF Moving, Fetch, Second
<1>2. IsProcessor(u) /\ u.pc = s.pc /\ u.a = s.a /\ BC(u) = (BC(s) - n) % Word
      /\ SameBut(u.f, s.f)
  BY DEF Moving
<1>3. MovesOnce(v, u, m)
  <2>1. Fetch(u) = 237 /\ IsProcessor(u) /\ Second(u) \in {176, 184}
    BY <1>1, <1>2
  <2>2. MovesOnce(v, u, Moved(u, Dir(Second(u))))
    BY <2>1, MoveTurn
  <2> QED BY <1>1, <2>2
<1>4. Dir(op) \in {1, -1}
  BY DEF Dir
<1> HIDE DEF v
<1>5. IsProcessor(m) /\ m.a = u.a /\ BC(m) = (BC(u) - 1) % Word
  <2>1. Leaves(m, u) /\ BC(m) = (BC(u) - 1) % Word /\ IsProcessor(m)
    BY <1>2, <1>4, PassTyped, MovedLeaves
  <2> QED BY <2>1 DEF Leaves
<1> HIDE DEF m, op
<1>6. v.a = s.a /\ BC(v) = BC(m)
  BY <1>2, <1>3, <1>5, LikeData DEF MovesOnce
<1>7. IsWord(BC(s)) /\ n \in Int
  BY CountsOut
<1>8. BC(m) = (BC(s) - (n + 1)) % Word
  BY <1>2, <1>5, <1>7, CountsDown
<1>9. BC(m) = 0 <=> n + 1 = Passes(s)
  <2> DEFINE k == n + 1
  <2>1. k \in 1..Passes(s) /\ BC(m) = (BC(s) - k) % Word
    BY <1>8
  <2> HIDE DEF k
  <2>2. BC(m) = 0 <=> k = Passes(s)
    BY <2>1, CountsOut
  <2> QED BY <2>2 DEF k
<1>10. SameBut(v.f, s.f)
  <2>1. MoveFlags(f, u.a, Peek(u, HL(u))) \ PassFlags = u.f \ PassFlags
    BY MoveFlagsKeep
  <2> QED BY <1>2, <1>3, <2>1 DEF MovesOnce, SameBut
<1>11. n + 1 # Passes(s) => Moving(v, s, n + 1)
  <2> HIDE DEF f
  <2> QED BY <1>2, <1>3, <1>6, <1>8, <1>9, <1>10 DEF Moving, MovesOnce
<1>12. n + 1 = Passes(s) => v.pc = (s.pc + 2) % Word /\ v.f = MoveFlags(s.f \ {"P"}, s.a, Peek(u, HL(u)))
  <2> HAVE n + 1 = Passes(s)
  <2>1. f = u.f \ {"P"}
    BY <1>9 DEF PassCounted
  <2> HIDE DEF f
  <2>2. MoveFlags(u.f \ {"P"}, s.a, Peek(u, HL(u))) = MoveFlags(s.f \ {"P"}, s.a, Peek(u, HL(u)))
    BY <1>2, MoveFlagsAgree
  <2> QED BY <1>2, <1>3, <1>9, <2>1, <2>2 DEF MovesOnce, f
<1> QED BY <1>3, <1>11, <1>12 DEF MoveStep, MovesOnce, v, m, op

\* Before each pass.
LEMMA MovingAlways ==
  ASSUME NEW s, IsProcessor(s), Second(s) \in {176, 184},
         NEW p, Turns(p, s, Passes(s)), Intact(p, s, Passes(s))
  PROVE  \A n \in 1..Passes(s) : Moving(p[n], s, n - 1)
<1> DEFINE N == Passes(s)
           Bad == {n \in Nat : n \in 1..N /\ ~Moving(p[n], s, n - 1)}
<1>1. IsWord(BC(s)) /\ N \in Nat
  BY CountsOut
<1> SUFFICES ASSUME Bad # {}
             PROVE  FALSE
  <2> HIDE DEF N
  <2> QED BY <1>1 DEF N
<1>2. Bad \in SUBSET Nat
  OBVIOUS
<1>3. PICK n \in Bad : \A j \in 0..(n - 1) : j \notin Bad
  <2> HIDE DEF Bad
  <2> QED BY <1>2, LeastExists
<1>4. n \in Nat /\ n \in 1..N /\ ~Moving(p[n], s, n - 1)
  BY <1>3
<1>5. CASE n = 1
  <2>1. \A b : IsWord(b) => (b - 0) % Word = b
    BY Z3 DEF IsWord, Word
  <2>2. p[1] = s
    BY DEF Turns
  <2>3. Moving(p[1], s, 0)
    BY <1>1, <2>1, <2>2 DEF Moving, SameBut
  <2> QED BY <1>4, <1>5, <2>3
<1>6. CASE n # 1
  <2> DEFINE k == n - 1
  <2>1. k \in Nat /\ k \in 1..N /\ k + 1 = n /\ k \in 0..(n - 1) /\ k # N
    BY <1>1, <1>4, <1>6
  <2>2. Moving(p[k], s, k - 1)
    BY <1>3, <2>1
  <2>3. /\ \E ln, in : p[k + 1] = Alone(p[k], ln, in)
        /\ Peek(p[k], s.pc) = 237 /\ Peek(p[k], (s.pc + 1) % Word) = Second(s)
    <3> HIDE DEF k
    <3> QED BY <2>1 DEF Turns, Intact
  <2>4. PICK ln, in : p[k + 1] = Alone(p[k], ln, in)
    BY <2>3
  <2> DEFINE i == k - 1
  <2>5. i \in Nat /\ i + 1 = k
    BY <2>1
  <2> HIDE DEF k, i, Bad
  <2>6. i + 1 \in 1..Passes(s) /\ i + 1 # Passes(s) /\ Moving(p[k], s, i)
    BY <2>1, <2>2, <2>5 DEF i
  <2>7. Moving(Alone(p[k], ln, in), s, i + 1)
    <3>1. MoveStep(Alone(p[k], ln, in), p[k], s, i)
      BY <2>3, <2>5, <2>6, MovingOn
    <3> QED BY <2>6, <3>1 DEF MoveStep
  <2>8. Moving(p[n], s, n - 1)
    BY <2>1, <2>4, <2>5, <2>7 DEF k
  <2> QED BY <1>4, <2>8
<1> QED BY <1>5, <1>6

\* u as FAST_MOVE's loop has it: the flags, the program counter and the refresh
\* register stay those of t.
InLoop(u, t) == [u EXCEPT !.f = t.f, !.pc = t.pc, !.r = t.r]

\* It is a processor, and like u.
LEMMA InLoopStands ==
  ASSUME NEW u, IsProcessor(u), NEW t, IsProcessor(t)
  PROVE  /\ IsProcessor(InLoop(u, t)) /\ Like(InLoop(u, t), u)
         /\ InLoop(u, t).f = t.f /\ InLoop(u, t).pc = t.pc /\ InLoop(u, t).r = t.r
         /\ DOMAIN InLoop(u, t) = DOMAIN u
<1> DEFINE w == InLoop(u, t)
<1>1. /\ DOMAIN w = DOMAIN u /\ w.f = t.f /\ w.pc = t.pc /\ w.r = t.r
      /\ \A y \in DOMAIN u \ PassRegs : w[y] = u[y]
  BY DEF InLoop, PassRegs, IsProcessor, FlagRegs, WordRegs, ByteRegs
<1>2. Like(w, u)
  BY <1>1 DEF Like
<1>3. IsProcessor(w)
  <2> DEFINE a == [u EXCEPT !.f = t.f]
             b == [a EXCEPT !.pc = t.pc]
             c == [b EXCEPT !.r = t.r]
  <2>1. w = c
    BY DEF InLoop
  <2>2. t.f \subseteq Flags /\ IsWord(t.pc) /\ IsByte(t.r)
    BY Registers
  <2>3. IsProcessor(a)
    BY <2>2, WithTyped DEF WithF
  <2> HIDE DEF a
  <2>4. IsProcessor(b)
    BY <2>2, <2>3, PutPc
  <2> HIDE DEF b
  <2>5. IsProcessor(c)
    BY <2>2, <2>4, PutByte DEF ByteRegs
  <2> QED BY <2>1, <2>5
<1> QED BY <1>1, <1>2, <1>3

\* A record of a processor, and not only something that answers as one.
IsRecord(u) == u = [y \in DOMAIN u |-> u[y]]

\* What an operation returns is a record.
LEMMA Records ==
  ASSUME NEW u
  PROVE  /\ \A t : IsRecord(InLoop(u, t))
         /\ \A n : IsRecord(Skip(u, n))
         /\ \A n \in 0..2 : \A w : IsRecord(PutPair(u, n, w))
         /\ \A dir : IsRecord(Moved(u, dir))
<1>1. \A t : IsRecord(InLoop(u, t))
  BY DEF InLoop, IsRecord
<1>2. \A n : IsRecord(Skip(u, n))
  BY DEF Skip, IsRecord
<1>3. \A v : \A n \in 0..2 : \A w : IsRecord(PutPair(v, n, w))
  <2> TAKE v
  <2> TAKE n \in 0..2
  <2> TAKE w
  <2> DEFINE high == (w % Word) \div 256
             low == (w % Word) % 256
  <2>1. /\ n = 0 => PutPair(v, n, w) = [v EXCEPT !.b = high, !.c = low]
        /\ n = 1 => PutPair(v, n, w) = [v EXCEPT !.d = high, !.e = low]
        /\ n = 2 => PutPair(v, n, w) = [v EXCEPT !.h = high, !.l = low]
    BY DEF PutPair
  <2>2. n = 0 \/ n = 1 \/ n = 2
    OBVIOUS
  <2> HIDE DEF high, low
  <2>3. /\ IsRecord([v EXCEPT !.b = high, !.c = low]) /\ IsRecord([v EXCEPT !.d = high, !.e = low])
        /\ IsRecord([v EXCEPT !.h = high, !.l = low])
    BY DEF IsRecord
  <2> QED BY <2>1, <2>2, <2>3
<1>4. \A dir : IsRecord(Moved(u, dir))
  <2> TAKE dir
  <2> DEFINE a == Poke(u, DE(u), Peek(u, HL(u)))
             b == PutPair(PutPair(a, 1, DE(u) + dir), 2, HL(u) + dir)
  <2>1. Moved(u, dir) = PutPair(b, 0, BC(b) - 1)
    BY DEF Moved, Count
  <2> HIDE DEF b
  <2>2. 0 \in 0..2
    OBVIOUS
  <2> QED BY <1>3, <2>1, <2>2
<1> QED BY <1>1, <1>2, <1>3, <1>4

\* Records that agree everywhere are equal.
LEMMA SameRecord ==
  ASSUME NEW u, NEW v, IsRecord(u), IsRecord(v), Like(u, v), u.f = v.f, u.pc = v.pc, u.r = v.r
  PROVE  u = v
<1>1. DOMAIN u = DOMAIN v /\ \A y \in DOMAIN u : u[y] = v[y]
  BY DEF Like, PassRegs
<1> QED BY <1>1 DEF IsRecord

\* A pass of the loop makes of the processor before a turn the one after it.
LEMMA LoopFollows ==
  ASSUME NEW u, IsProcessor(u), NEW v, NEW t, IsProcessor(t), IsProcessor(v),
         NEW dir \in {1, -1}, Like(v, Moved(u, dir))
  PROVE  InLoop(v, t) = Moved(InLoop(u, t), dir)
<1> DEFINE a == InLoop(u, t)
           b == InLoop(v, t)
<1>1. /\ IsProcessor(a) /\ Like(a, u) /\ a.f = t.f /\ a.pc = t.pc /\ a.r = t.r
      /\ IsProcessor(b) /\ Like(b, v) /\ b.f = t.f /\ b.pc = t.pc /\ b.r = t.r
  BY InLoopStands
<1>2. IsRecord(b)
  BY Records
<1> HIDE DEF a, b
<1>3. Like(Moved(a, dir), Moved(u, dir))
  BY <1>1, MovedLike
<1>4. Leaves(Moved(a, dir), a) /\ IsRecord(Moved(a, dir))
  BY <1>1, MovedLeaves, Records
<1> DEFINE c == Moved(a, dir)
           d == Moved(u, dir)
<1> HIDE DEF c, d
<1>5. Like(b, c)
  <2>1. Like(v, d) /\ Like(c, d)
    BY <1>3 DEF c, d
  <2>2. Like(d, c)
    BY <2>1, LikeChain
  <2>3. Like(b, d)
    BY <1>1, <2>1, LikeChain
  <2> QED BY <2>2, <2>3, LikeChain
<1>6. b.f = c.f /\ b.pc = c.pc /\ b.r = c.r /\ IsRecord(c)
  BY <1>1, <1>4 DEF Leaves, c
<1>7. b = c
  BY <1>2, <1>5, <1>6, SameRecord
<1> QED BY <1>7 DEF b, c, a

\* What FAST_MOVE's loop returns, from the states before its passes.
LoopEnd(t, dir, last) ==
  [Moved(last, dir) EXCEPT !.f = MoveFlags(@ \ {"P"}, t.a, Peek(last, HL(last)))]

\* g holds the states before the passes of a loop over t.
PassesOf(g, t, dir) ==
  /\ g = [n \in 1..Passes(t) |-> g[n]]
  /\ g[1] = t /\ \A n \in 2..Passes(t) : g[n] = Moved(g[n - 1], dir)

\* FAST_MOVE's loop ends behind the last of any such states: there is only one
\* way to fill them in.
LEMMA LoopReached ==
  ASSUME NEW t, Passes(t) \in Nat \ {0}, NEW dir, NEW g, PassesOf(g, t, dir)
  PROVE  MoveLoop(t, dir) = LoopEnd(t, dir, g[Passes(t)])
<1> DEFINE N == Passes(t)
           pass(b) == [n \in 1..N |-> IF n = 1 THEN t ELSE Moved(b[n - 1], dir)]
           before == CHOOSE b : b = pass(b)
           Bad == {n \in Nat : n \in 1..N /\ before[n] # g[n]}
<1>1. MoveLoop(t, dir) = LoopEnd(t, dir, before[N])
  BY DEF MoveLoop, LoopEnd
<1>2. g = pass(g)
  <2>1. \A n \in 1..N : n = 1 \/ n \in 2..N
    OBVIOUS
  <2>2. \A n \in 1..N : g[n] = IF n = 1 THEN t ELSE Moved(g[n - 1], dir)
    BY <2>1 DEF PassesOf
  <2> QED BY <2>2 DEF PassesOf
<1>3. before = pass(before)
  <2> HIDE DEF pass
  <2> QED BY <1>2
<1> HIDE DEF before
<1> USE DEF PassesOf
<1>4. before[1] = t /\ \A n \in 2..N : before[n] = Moved(before[n - 1], dir)
  <2>1. 1 \in 1..N /\ \A n \in 2..N : n \in 1..N /\ n # 1
    OBVIOUS
  <2>2. \A n \in 1..N : before[n] = IF n = 1 THEN t ELSE Moved(before[n - 1], dir)
    BY <1>3
  <2> QED BY <2>1, <2>2
<1>5. \A n \in 1..N : before[n] = g[n]
  <2> SUFFICES ASSUME Bad # {} PROVE FALSE
    OBVIOUS
  <2>1. Bad \in SUBSET Nat
    OBVIOUS
  <2>2. PICK n \in Bad : \A j \in 0..(n - 1) : j \notin Bad
    <3> HIDE DEF Bad
    <3> QED BY <2>1, LeastExists
  <2>3. n \in Nat /\ n \in 1..N /\ before[n] # g[n]
    BY <2>2
  <2>4. n # 1
    BY <1>4, <2>3
  <2>5. n - 1 \in Nat /\ n - 1 \in 1..N /\ n - 1 \in 0..(n - 1) /\ n \in 2..N
    BY <2>3, <2>4
  <2>6. before[n - 1] = g[n - 1]
    BY <2>2, <2>5
  <2>7. before[n] = Moved(before[n - 1], dir) /\ g[n] = Moved(g[n - 1], dir)
    BY <1>4, <2>5
  <2> QED BY <2>3, <2>6, <2>7
<1>6. N \in 1..N
  OBVIOUS
<1> QED BY <1>1, <1>5, <1>6

\* The refresh register counts turns, and is set aside.
Aside(s) == [s EXCEPT !.r = 0]

\* Processors that are alike, with the same flags and counter, differ in R at most.
LEMMA AsideSame ==
  ASSUME NEW u, NEW v, IsProcessor(u), Like(u, v), u.f = v.f, u.pc = v.pc
  PROVE  Aside(u) = Aside(v)
<1>1. DOMAIN u = DOMAIN v /\ \A y \in DOMAIN u \ {"r"} : u[y] = v[y]
  BY DEF Like, PassRegs
<1> QED BY <1>1 DEF Aside

\* What Fast does for a block instruction.
LEMMA FastBlock ==
  ASSUME NEW s, Fetch(s) = 237
  PROVE  /\ Second(s) \in {176, 184} => Fast(s) = MoveLoop(Skip(s, 2), Dir(Second(s)))
         /\ Second(s) \in {177, 185} => Fast(s) = SearchLoop(Skip(s, 2), Dir(Second(s)))
<1> DEFINE t == Skip(s, 2)
           m == MoveLoop(t, Dir(Second(s)))
           w == SearchLoop(t, Dir(Second(s)))
           x == Instruction(Skip(s, 1), Fetch(s), 0)
<1>1. Second(s) \in {176, 177, 184, 185} => Repeats(s)
  BY DEF Repeats, Second
<1>2. Fast(s) = CASE Repeats(s) /\ Second(s) \in {176, 184} -> m
                  [] Repeats(s) /\ Second(s) \in {177, 185} -> w
                  [] Fetch(s) = 118 -> Skip(s, 1)
                  [] OTHER -> x
  BY DEF Fast, Second
<1> HIDE DEF m, w, x
<1>3. Second(s) \in {176, 184} => Fast(s) = m
  BY <1>1, <1>2
<1>4. Second(s) \in {177, 185} => Fast(s) = w
  BY <1>1, <1>2
<1> QED BY <1>3, <1>4 DEF m, w

\* LDIR and LDDR in the two builds: for every processor, every memory and every
\* count, 0 for 65536 included, the turns of the build that repeats the instruction
\* (z80.c:922-938) leave what the loop of the FAST_MOVE build leaves in one
\* (z80.c:886-920), flags and program counter included and the refresh register
\* aside, whatever ports give meanwhile, unless the move overwrites its own
\* instruction.
THEOREM MovesAtOnce ==
  ASSUME NEW s, IsProcessor(s), Fetch(s) = 237, Second(s) \in {176, 184},
         NEW p, Turns(p, s, Passes(s)), Intact(p, s, Passes(s))
  PROVE  Aside(p[Passes(s) + 1]) = Aside(Fast(s))
<1> DEFINE N == Passes(s)
           t == Skip(s, 2)
           dir == Dir(Second(s))
           g == [n \in 1..N |-> InLoop(p[n], t)]
<1>1. N \in Nat \ {0} /\ N \in 1..N /\ 1 \in 1..N
  BY CountsOut
<1>2. Fast(s) = MoveLoop(t, dir)
  BY FastBlock
<1>3. dir \in {1, -1}
  BY DEF Dir
<1>4. IsProcessor(t) /\ Like(t, s) /\ t.f = s.f /\ t.r = s.r /\ t.pc = (s.pc + 2) % Word /\ IsRecord(t)
  <2>1. IsProcessor(t) /\ Like(t, s) /\ IsRecord(t)
    <3>1. Like(s, s) /\ 2 \in Int
      BY LikeChain
    <3>2. IsProcessor(t)
      BY <3>1, SkipTyped
    <3>3. Like(t, s)
      BY <3>1, LikeChanges
    <3> QED BY <3>2, <3>3, Records
  <2>2. t.f = s.f /\ t.r = s.r /\ t.pc = (s.pc + 2) % Word
    BY DEF Skip, IsProcessor, WordRegs
  <2> QED BY <2>1, <2>2
<1>5. Passes(t) = N /\ t.a = s.a
  <2> HIDE DEF t
  <2> QED BY <1>4, LikeData DEF Passes
<1>6. \A n \in 1..N : Moving(p[n], s, n - 1)
  BY MovingAlways
<1> HIDE DEF N, t, dir
<1>7. ASSUME NEW n \in 1..N
      PROVE  /\ IsProcessor(p[n]) /\ IsProcessor(p[n + 1]) /\ Like(p[n + 1], Moved(p[n], dir))
             /\ n = N => /\ p[n + 1].pc = (s.pc + 2) % Word
                         /\ p[n + 1].f = MoveFlags(s.f \ {"P"}, s.a, Peek(p[n], HL(p[n])))
  <2> DEFINE i == n - 1
             u == p[n]
  <2>1. i \in Nat /\ i + 1 = n
    BY <1>1
  <2>2. Moving(u, s, i)
    BY <1>6
  <2>3. PICK ln, in : p[n + 1] = Alone(p[n], ln, in)
    BY <1>7 DEF Turns, N
  <2>4. Peek(u, s.pc) = 237 /\ Peek(u, (s.pc + 1) % Word) = Second(s)
    BY <1>7 DEF Intact, N
  <2> HIDE DEF i, u
  <2>5. i + 1 \in 1..Passes(s)
    BY <2>1 DEF N
  <2> DEFINE v == Alone(u, ln, in)
  <2>6. MoveStep(v, u, s, i)
    BY <2>1, <2>2, <2>4, <2>5, MovingOn
  <2>7. IsProcessor(u)
    BY <2>2 DEF Moving
  <2>8. p[n + 1] = v
    BY <2>3 DEF u
  <2> HIDE DEF v
  <2> QED BY <2>1, <2>6, <2>7, <2>8 DEF MoveStep, N, u, dir
<1>8. p[1] = s
  BY DEF Turns
<1>9. g[1] = t
  <2>1. g[1] = InLoop(s, t)
    BY <1>1, <1>8
  <2> DEFINE w == InLoop(s, t)
  <2>2. /\ Like(w, s) /\ w.f = t.f /\ w.pc = t.pc /\ w.r = t.r /\ IsRecord(w)
    <3>1. Like(w, s) /\ w.f = t.f /\ w.pc = t.pc /\ w.r = t.r
      BY <1>4, InLoopStands
    <3> QED BY <3>1, Records
  <2> HIDE DEF w
  <2>3. Like(w, t)
    BY <1>4, <2>2, LikeChain
  <2>4. w = t
    BY <1>4, <2>2, <2>3, SameRecord
  <2> QED BY <2>1, <2>4 DEF w
<1>10. \A n \in 2..N : g[n] = Moved(g[n - 1], dir)
  <2> TAKE n \in 2..N
  <2> DEFINE k == n - 1
  <2>1. k \in 1..N /\ k + 1 = n /\ n \in 1..N
    BY <1>1
  <2>2. g[n] = InLoop(p[n], t) /\ g[k] = InLoop(p[k], t)
    BY <2>1
  <2> HIDE DEF k, g
  <2>3. IsProcessor(p[k]) /\ IsProcessor(p[n]) /\ Like(p[n], Moved(p[k], dir))
    BY <1>7, <2>1
  <2>4. InLoop(p[n], t) = Moved(InLoop(p[k], t), dir)
    BY <1>3, <1>4, <2>3, LoopFollows
  <2> QED BY <2>2, <2>4 DEF k
<1> DEFINE last == InLoop(p[N], t)
           e == LoopEnd(t, dir, last)
<1>11. MoveLoop(t, dir) = e
  <2>1. g = [n \in 1..N |-> g[n]] /\ g[N] = last
    BY <1>1
  <2> HIDE DEF g, last
  <2>2. Passes(t) \in Nat \ {0} /\ PassesOf(g, t, dir)
    BY <1>1, <1>5, <1>9, <1>10, <2>1 DEF PassesOf
  <2>3. MoveLoop(t, dir) = LoopEnd(t, dir, g[Passes(t)])
    BY <2>2, LoopReached
  <2> QED BY <1>5, <2>1, <2>3
<1> DEFINE q == p[N + 1]
           u == p[N]
           x == MoveFlags(s.f \ {"P"}, s.a, Peek(u, HL(u)))
           m == Moved(last, dir)
<1>12. /\ IsProcessor(u) /\ IsProcessor(q) /\ Like(q, Moved(u, dir))
       /\ q.pc = (s.pc + 2) % Word /\ q.f = x
  <2>1. /\ IsProcessor(p[N]) /\ IsProcessor(p[N + 1]) /\ Like(p[N + 1], Moved(p[N], dir))
        /\ p[N + 1].pc = (s.pc + 2) % Word
        /\ p[N + 1].f = MoveFlags(s.f \ {"P"}, s.a, Peek(p[N], HL(p[N])))
    <3> HIDE DEF g, last, m, q, u, x
    <3> DEFINE k == N
    <3>1. k \in 1..N /\ k = N
      BY <1>1
    <3> HIDE DEF k
    <3>2. IsProcessor(p[k]) /\ IsProcessor(p[k + 1]) /\ Like(p[k + 1], Moved(p[k], dir))
      BY <1>7, <3>1
    <3>3. /\ p[k + 1].pc = (s.pc + 2) % Word
          /\ p[k + 1].f = MoveFlags(s.f \ {"P"}, s.a, Peek(p[k], HL(p[k])))
      BY <1>7, <3>1
    <3> QED BY <3>1, <3>2, <3>3
  <2> QED BY <2>1
<1>13. /\ IsProcessor(last) /\ Like(last, u) /\ last.f = t.f /\ last.pc = t.pc
  BY <1>4, <1>12, InLoopStands
<1> HIDE DEF q, u, last, g
<1>14. Peek(last, HL(last)) = Peek(u, HL(u))
  BY <1>12, <1>13, LikeData
<1>15. IsProcessor(m) /\ Leaves(m, last) /\ Like(m, Moved(u, dir))
  BY <1>3, <1>12, <1>13, PassTyped, MovedLeaves, MovedLike
<1>16. e = [m EXCEPT !.f = x]
  <2>1. m.f = s.f
    BY <1>4, <1>13, <1>15 DEF Leaves
  <2> HIDE DEF m
  <2>2. e = [m EXCEPT !.f = MoveFlags(m.f \ {"P"}, t.a, Peek(last, HL(last)))]
    BY DEF LoopEnd, m
  <2> QED BY <1>5, <1>14, <2>1, <2>2
<1> DEFINE mu == Moved(u, dir)
<1> HIDE DEF e, m, x, mu
<1>17. Like(q, e) /\ e.f = x /\ e.pc = m.pc
  <2>1. Like(m, m) /\ Like(mu, m) /\ Like(q, mu)
    BY <1>12, <1>15, LikeChain DEF mu
  <2>2. Like(e, m)
    BY <1>15, <1>16, <2>1, LikeChanges
  <2>3. e.f = x /\ e.pc = m.pc
    BY <1>15, <1>16 DEF IsProcessor, FlagRegs, WordRegs
  <2> QED BY <2>1, <2>2, <2>3, LikeChain
<1>18. q.f = e.f /\ q.pc = e.pc
  BY <1>4, <1>12, <1>13, <1>15, <1>17 DEF Leaves
<1>19. Aside(q) = Aside(e)
  BY <1>12, <1>17, <1>18, AsideSame
<1> QED BY <1>2, <1>11, <1>19 DEF q, N

\* A search sets HL and BC, and no more.
Both(s, hl, bc) == PutPair(PutPair(s, 2, hl), 0, bc)

\* What it sets, and what it leaves.
LEMMA BothSet ==
  ASSUME NEW s, IsProcessor(s), NEW hl \in Int, NEW bc \in Int
  PROVE  /\ IsProcessor(Both(s, hl, bc)) /\ IsRecord(Both(s, hl, bc))
         /\ HL(Both(s, hl, bc)) = hl % Word /\ BC(Both(s, hl, bc)) = bc % Word
         /\ Leaves(Both(s, hl, bc), s) /\ Both(s, hl, bc).mem = s.mem
<1> DEFINE u == PutPair(s, 2, hl)
           w == PutPair(u, 0, bc)
<1>1. 2 \in 0..3 /\ 0 \in 0..3 /\ 2 \in 0..2 /\ 0 \in 0..2
  OBVIOUS
<1>2. IsProcessor(u) /\ Leaves(u, s) /\ HL(u) = hl % Word
  BY <1>1, PutPairTyped, PutsLeave, PairsPut
<1>3. \A v, x : IsProcessor(v) => PutPair(v, 2, x).mem = v.mem /\ PutPair(v, 0, x).mem = v.mem
  <2> TAKE v, x
  <2> HAVE IsProcessor(v)
  <2> DEFINE high == (x % Word) \div 256
             low == (x % Word) % 256
  <2>1. PutPair(v, 2, x) = [v EXCEPT !.h = high, !.l = low] /\ PutPair(v, 0, x) = [v EXCEPT !.b = high, !.c = low]
    BY DEF PutPair
  <2>2. "mem" \in DOMAIN v
    BY DEF IsProcessor
  <2> HIDE DEF high, low
  <2> QED BY <2>1, <2>2
<1>4. u.mem = s.mem
  BY <1>3
<1> HIDE DEF u
<1>5. IsProcessor(w) /\ Leaves(w, u) /\ HL(w) = HL(u) /\ BC(w) = bc % Word /\ IsRecord(w)
  BY <1>1, <1>2, PutPairTyped, PutsLeave, PairsPut, Records
<1>6. w.mem = u.mem
  BY <1>2, <1>3
<1>7. w = Both(s, hl, bc)
  BY DEF Both, u
<1> HIDE DEF w
<1>8. Leaves(w, s)
  BY <1>2, <1>5 DEF Leaves
<1> QED BY <1>2, <1>4, <1>5, <1>6, <1>7, <1>8

\* Setting them twice is setting them once, and only words count.
LEMMA BothAgain ==
  ASSUME NEW s, IsProcessor(s)
  PROVE  /\ \A x, y, v, w : Both(Both(s, x, y), v, w) = Both(s, v, w)
         /\ \A x, y, v, w : x % Word = v % Word /\ y % Word = w % Word => Both(s, x, y) = Both(s, v, w)
<1> DEFINE word(x) == x % Word
           upper(z) == z \div 256
           lower(z) == z % 256
           high(x) == upper(word(x))
           low(x) == lower(word(x))
<1>1. \A v, x, y : Both(v, x, y) = [[v EXCEPT !.h = high(x), !.l = low(x)] EXCEPT !.b = high(y), !.c = low(y)]
  BY DEF Both, PutPair
<1> HIDE DEF upper, lower, word
<1>2. \A x, v : word(x) = word(v) => high(x) = high(v) /\ low(x) = low(v)
  OBVIOUS
<1> HIDE DEF high, low
<1>3. \A x, y, v, w : x % Word = v % Word /\ y % Word = w % Word => Both(s, x, y) = Both(s, v, w)
  <2>1. \A x, y, v, w : word(x) = word(v) /\ word(y) = word(w) => Both(s, x, y) = Both(s, v, w)
    <3> SUFFICES ASSUME NEW x, NEW y, NEW v, NEW w, word(x) = word(v), word(y) = word(w)
                 PROVE  Both(s, x, y) = Both(s, v, w)
      OBVIOUS
    <3>1. high(x) = high(v) /\ low(x) = low(v) /\ high(y) = high(w) /\ low(y) = low(w)
      BY <1>2
    <3>2. Both(s, x, y) = [[s EXCEPT !.h = high(x), !.l = low(x)] EXCEPT !.b = high(y), !.c = low(y)]
      BY <1>1
    <3>3. Both(s, v, w) = [[s EXCEPT !.h = high(v), !.l = low(v)] EXCEPT !.b = high(w), !.c = low(w)]
      BY <1>1
    <3> QED BY <3>1, <3>2, <3>3
  <2> QED BY <2>1 DEF word
<1>4. \A x, y, v, w : Both(Both(s, x, y), v, w) = Both(s, v, w)
  <2> TAKE x, y, v, w
  <2> DEFINE a == high(x)
             b == low(x)
             c == high(y)
             d == low(y)
             e == high(v)
             f == low(v)
             g == high(w)
             h == low(w)
  <2>1. Both(s, x, y) = [[s EXCEPT !.h = a, !.l = b] EXCEPT !.b = c, !.c = d]
    BY <1>1
  <2>2. Both(s, v, w) = [[s EXCEPT !.h = e, !.l = f] EXCEPT !.b = g, !.c = h]
    BY <1>1
  <2>3. Both(Both(s, x, y), v, w) =
          [[[[s EXCEPT !.h = a, !.l = b] EXCEPT !.b = c, !.c = d] EXCEPT !.h = e, !.l = f] EXCEPT !.b = g, !.c = h]
    BY <1>1, <2>1
  <2> HIDE DEF a, b, c, d, e, f, g, h
  <2> QED BY <2>2, <2>3
<1> QED BY <1>3, <1>4

\* It keeps processors alike.
LEMMA BothLike ==
  ASSUME NEW u, NEW v, Like(u, v), IsProcessor(u), IsProcessor(v), NEW hl \in Int, NEW bc
  PROVE  Like(Both(u, hl, bc), Both(v, hl, bc))
<1> DEFINE a == PutPair(u, 2, hl)
           b == PutPair(v, 2, hl)
<1>1. 2 \in 0..2 /\ 0 \in 0..2 /\ 2 \in 0..3
  OBVIOUS
<1>2. Like(a, b)
  BY <1>1, LikeChanges
<1>3. IsProcessor(b)
  BY <1>1, PutPairTyped
<1> HIDE DEF a, b
<1>4. Like(PutPair(a, 0, bc), PutPair(b, 0, bc))
  BY <1>1, <1>2, <1>3, LikeChanges
<1> QED BY <1>4 DEF Both, a, b

\* A pass of a search is one.
LEMMA SearchedBoth ==
  ASSUME NEW u, IsProcessor(u), NEW dir \in {1, -1}
  PROVE  Searched(u, dir) = Both(u, HL(u) + dir, BC(u) - 1)
<1> DEFINE a == PutPair(u, 2, HL(u) + dir)
<1>1. HL(u) + dir \in Int
  BY PairsTyped, WordsAreInts
<1>2. BC(a) = BC(u)
  BY <1>1, PairsPut
<1>3. Searched(u, dir) = PutPair(a, 0, BC(a) - 1)
  BY DEF Searched, Count
<1> HIDE DEF a
<1> QED BY <1>2, <1>3 DEF Both, a

\* The byte that pass n of a search compares with A, and whether it ends there.
Compared(s, dir, n) == Peek(s, (HL(s) + dir * (n - 1)) % Word)
Ends(s, dir, k) ==
  /\ k \in 1..Passes(s) /\ (Compared(s, dir, k) = s.a \/ k = Passes(s))
  /\ \A n \in 1..(k - 1) : Compared(s, dir, n) # s.a

\* A search ends in one place.
LEMMA EndsOnce ==
  ASSUME NEW s, IsProcessor(s), NEW dir, NEW k, Ends(s, dir, k), NEW m, Ends(s, dir, m)
  PROVE  k = m
<1>1. k \in Int /\ m \in Int /\ k \in 1..Passes(s) /\ m \in 1..Passes(s) /\ Passes(s) \in Nat
  BY CountsOut DEF Ends
<1>2. ASSUME NEW x \in 1..Passes(s), NEW y \in 1..Passes(s), Ends(s, dir, x), Ends(s, dir, y), x < y
      PROVE  FALSE
  <2>1. x \in 1..(y - 1) /\ x # Passes(s)
    BY <1>1, <1>2
  <2> QED BY <1>2, <2>1 DEF Ends
<1>3. ~(k < m) /\ ~(m < k)
  BY <1>1, <1>2
<1> QED BY <1>1, <1>3

\* A search ends: with the byte it looks for, or with its count.
LEMMA EndsSomewhere ==
  ASSUME NEW s, IsProcessor(s), NEW dir
  PROVE  \E k \in 1..Passes(s) : Ends(s, dir, k)
<1> DEFINE N == Passes(s)
           Good == {n \in Nat : n \in 1..N /\ (Compared(s, dir, n) = s.a \/ n = N)}
<1>1. N \in Nat \ {0}
  BY CountsOut
<1> HIDE DEF N
<1>2. Good \in SUBSET Nat /\ N \in Good
  BY <1>1
<1>3. PICK k \in Good : \A j \in 0..(k - 1) : j \notin Good
  <2> HIDE DEF Good
  <2>1. Good # {}
    BY <1>2
  <2> QED BY <1>2, <2>1, LeastExists
<1>4. k \in Nat /\ k \in 1..N /\ (Compared(s, dir, k) = s.a \/ k = N)
  BY <1>3
<1>5. \A n \in 1..(k - 1) : Compared(s, dir, n) # s.a
  <2> TAKE n \in 1..(k - 1)
  <2>1. n \in Nat /\ n \in 1..N /\ n \in 0..(k - 1)
    BY <1>1, <1>4
  <2> QED BY <1>3, <2>1
<1> QED BY <1>4, <1>5 DEF Ends, N

\* FAST_MOVE's loop over a search counts those passes.
SearchEnd(t, dir, k) ==
  [Both(t, HL(t) + dir * k, BC(t) - k) EXCEPT
     !.f = SearchFlags(t, Compared(t, dir, k), BC(Both(t, HL(t) + dir * k, BC(t) - k)))]

\* FAST_MOVE's loop finds that place.
LEMMA SearchReached ==
  ASSUME NEW t, IsProcessor(t), NEW dir, NEW k, Ends(t, dir, k)
  PROVE  SearchLoop(t, dir) = SearchEnd(t, dir, k)
<1> DEFINE m == CHOOSE n \in 1..Passes(t) : /\ Compared(t, dir, n) = t.a \/ n = Passes(t)
                                            /\ \A j \in 1..(n - 1) : Compared(t, dir, j) # t.a
<1>1. SearchLoop(t, dir) = SearchEnd(t, dir, m)
  BY DEF SearchLoop, SearchEnd, Compared, Both
<1>2. Ends(t, dir, m)
  BY DEF Ends
<1> HIDE DEF m
<1>3. m = k
  BY <1>2, EndsOnce
<1> QED BY <1>1, <1>3

\* The flags of a comparison: C stays, P says that BC has not run out, Z that
\* the byte was found.
LEMMA SearchFlagsSay ==
  ASSUME NEW s, IsProcessor(s), NEW v, IsByte(v), NEW bc
  PROVE  LET f == SearchFlags(s, v, bc) IN
         /\ f \cap {"C"} = s.f \cap {"C"}
         /\ "P" \in f <=> bc # 0
         /\ "Z" \in f <=> v = s.a
<1> DEFINE r == s.a - v
           f == SubFlags(s.a, v, r % 256)
           half == IF "H" \in f THEN 1 ELSE 0
           x == On(Bit(r - half, 2) = 1, "5")
           y == On(r % 16 = 8 /\ "H" \in f, "3")
           p == On(bc # 0, "P")
<1>1. SearchFlags(s, v, bc) = ((f \ {"C", "P", "5"}) \cup (s.f \cap {"C"}) \cup p \cup x) \ y
  BY DEF SearchFlags
<1>2. x \subseteq {"5"} /\ y \subseteq {"3"} /\ p \subseteq {"P"} /\ ("P" \in p <=> bc # 0)
  BY DEF On
<1>3. "Z" \in f <=> r % 256 = 0
  <2> DEFINE z == r % 256
             i == Index(s.a, v, z, 8)
             j == Index(s.a, v, z, 128)
             h == SubHalfCarry[i]
             c == SubSignCarryOverflow[j]
  <2>1. s.a \in Int /\ v \in Int /\ z \in Int /\ z % 256 = z
    <3>1. \A a, b \in Int : (a - b) % 256 \in Int /\ ((a - b) % 256) % 256 = (a - b) % 256
      BY Z3
    <3>2. s.a \in Int /\ v \in Int
      BY Registers DEF IsByte
    <3> QED BY <3>1, <3>2
  <2>2. f = {"N"} \cup h \cup c \cup Undoc(z) \cup On(z % 256 = 0, "Z")
    BY DEF SubFlags
  <2> HIDE DEF z
  <2>3. i \in 1..8 /\ j \in 1..8
    BY <2>1, IndexTyped
  <2> HIDE DEF i, j
  <2>4. \A n \in 1..8 : "Z" \notin SubHalfCarry[n] /\ "Z" \notin SubSignCarryOverflow[n]
    BY DEF SubHalfCarry, SubSignCarryOverflow
  <2>5. "Z" \notin h /\ "Z" \notin c /\ "Z" \notin Undoc(z)
    BY <2>3, <2>4 DEF Undoc, On
  <2> HIDE DEF h, c, f
  <2>6. "Z" \in f <=> "Z" \in On(z % 256 = 0, "Z")
    BY <2>2, <2>5
  <2>7. "Z" \in On(z % 256 = 0, "Z") <=> z = 0
    BY <2>1 DEF On
  <2> QED BY <2>6, <2>7 DEF z
<1>4. IsByte(s.a)
  BY Registers
<1>5. (s.a - v) % 256 = 0 <=> v = s.a
  <2> DEFINE a == s.a
  <2>1. IsByte(a)
    BY <1>4
  <2> HIDE DEF a
  <2>2. (a - v) % 256 = 0 <=> v = a
    BY <2>1, Z3 DEF IsByte
  <2> QED BY <2>2 DEF a
<1> HIDE DEF f, x, y, p
<1>6. "Z" \in f <=> v = s.a
  BY <1>3, <1>5
<1> DEFINE g == SearchFlags(s, v, bc)
<1> HIDE DEF r, half
<1>7. g \cap {"C"} = s.f \cap {"C"} /\ ("P" \in g <=> bc # 0) /\ ("Z" \in g <=> "Z" \in f)
  BY <1>1, <1>2
<1> QED BY <1>6, <1>7

\* Of the flags before it a comparison looks at C only.
LEMMA SearchFlagsAgree ==
  ASSUME NEW s, NEW u, s.a = u.a, s.f \cap {"C"} = u.f \cap {"C"}, NEW v, NEW bc
  PROVE  SearchFlags(s, v, bc) = SearchFlags(u, v, bc)
BY DEF SearchFlags

\* s after n passes of a search, and u after the turns that made them.
Ahead(s, dir, n) == Both(s, HL(s) + dir * n, BC(s) - n)
Searching(u, s, n) ==
  /\ IsProcessor(u) /\ u.pc = s.pc /\ u.f \cap {"C"} = s.f \cap {"C"}
  /\ Like(u, Ahead(s, Dir(Second(s)), n))

\* Words counted up or down n times, and once more.
LEMMA PairWords == \A x, n, d \in Int :
  /\ (x + d * n) \in Int /\ (x - n) \in Int
  /\ (((x + d * n) % Word) + d) % Word = (x + d * (n + 1)) % Word
  /\ (((x - n) % Word) - 1) % Word = (x - (n + 1)) % Word
<1> TAKE x, n, d \in Int
<1>1. (x + d * n) \in Int /\ (x - n) \in Int /\ d * (n + 1) = (d * n) + d
  OBVIOUS
<1>2. \A y \in Int : ((y % Word) + d) % Word = (y + d) % Word /\ ((y % Word) - 1) % Word = (y - 1) % Word
  BY Z3 DEF Word
<1>3. (x + d * n) + d = x + d * (n + 1) /\ (x - n) - 1 = x - (n + 1)
  BY <1>1
<1> QED BY <1>1, <1>2, <1>3

IsAhead(a, s, dir, n) ==
  /\ IsProcessor(a) /\ Leaves(a, s) /\ a.mem = s.mem
  /\ HL(a) = (HL(s) + dir * n) % Word
  /\ BC(a) = (BC(s) - n) % Word
  /\ Searched(a, dir) = Ahead(s, dir, n + 1)

\* One pass more.
LEMMA AheadStands ==
  ASSUME NEW s, IsProcessor(s), NEW dir \in {1, -1}, NEW n \in Nat
  PROVE  IsAhead(Ahead(s, dir, n), s, dir, n)
<1>1. HL(s) \in Int /\ BC(s) \in Int /\ n \in Int /\ dir \in Int
  BY PairsTyped, WordsAreInts
<1> DEFINE x == HL(s) + dir * n
           y == BC(s) - n
           a == Ahead(s, dir, n)
<1>2. x \in Int /\ y \in Int
  BY <1>1, PairWords
<1>3. a = Both(s, x, y)
  BY DEF Ahead
<1> HIDE DEF x, y
<1>4. /\ IsProcessor(a) /\ Leaves(a, s) /\ a.mem = s.mem /\ HL(a) = x % Word /\ BC(a) = y % Word
  BY <1>2, <1>3, BothSet
<1> HIDE DEF a
<1> DEFINE v == HL(a) + dir
           w == BC(a) - 1
           e == HL(s) + dir * (n + 1)
           f == BC(s) - (n + 1)
<1>5. Searched(a, dir) = Both(a, v, w)
  BY <1>4, SearchedBoth
<1>6. v % Word = e % Word /\ w % Word = f % Word
  BY <1>1, <1>4, PairWords DEF x, y
<1>7. Ahead(s, dir, n + 1) = Both(s, e, f)
  BY DEF Ahead
<1> HIDE DEF v, w, e, f
<1>8. Both(a, v, w) = Both(s, v, w)
  BY <1>3, BothAgain
<1>9. Both(s, v, w) = Both(s, e, f)
  BY <1>6, BothAgain
<1> QED BY <1>4, <1>5, <1>7, <1>8, <1>9 DEF IsAhead, a, x, y

\* A turn that compares once.
SearchesOnce(w, u, m) ==
  LET f == SearchFlags(u, Peek(u, HL(u)), BC(m))
  IN  /\ IsProcessor(w) /\ Like(w, m) /\ w.f = f
      /\ w.pc = (IF BC(m) # 0 /\ Peek(u, HL(u)) # u.a THEN u.pc ELSE (u.pc + 2) % Word)

\* A turn of CPIR or CPDR is a pass, and stays where it is unless that ends it.
LEMMA SearchTurn ==
  ASSUME NEW s, IsProcessor(s), Fetch(s) = 237, NEW ln, NEW in, Second(s) \in {177, 185}
  PROVE  SearchesOnce(Alone(s, ln, in), s, Searched(s, Dir(Second(s))))
<1> DEFINE op == Second(s)
           w == Alone(s, ln, in)
           dir == Dir(op)
           m == Searched(s, dir)
           t == Skip(Behind2(s), 1)
<1>1. /\ IsProcessor(t) /\ Like(t, s) /\ t.f = s.f /\ t.pc = (s.pc + 2) % Word
      /\ w = EdInstruction(Behind2(s), in) /\ Fetch(Behind2(s)) = op
  <2>1. IsProcessor(t) /\ Like(t, s)
    BY BlockReached
  <2>2. t.f = s.f /\ t.pc = (s.pc + 2) % Word
    BY BlockReached
  <2>3. w = EdInstruction(Behind2(s), in)
    BY BlockReached
  <2>4. Fetch(Behind2(s)) = op
    BY BlockReached
  <2> QED BY <2>1, <2>2, <2>3, <2>4
<1>2. dir \in {1, -1}
  BY DEF Dir
<1>3. w = SearchRepeat(t, dir)
  <2> DEFINE u == Behind2(s)
  <2>1. EdInstruction(u, in) = SearchRepeat(Skip(u, 1), Dir(Fetch(u)))
    <3> HIDE DEF u
    <3>1. Fetch(u) \in {177, 185}
      BY <1>1 DEF u
    <3> QED BY <3>1, BlockDispatch
  <2> QED BY <1>1, <2>1
<1> HIDE DEF w, dir, t
<1> DEFINE n == Searched(t, dir)
           b == Peek(t, HL(t))
           g == SearchFlags(t, b, BC(n))
           o == [n EXCEPT !.f = g]
<1>4. HL(t) = HL(s) /\ BC(t) = BC(s) /\ t.a = s.a /\ b = Peek(s, HL(s))
  BY <1>1, LikeData
<1>5. IsProcessor(n) /\ IsProcessor(m) /\ Like(n, m) /\ Leaves(n, t)
  <2>1. n = Both(t, HL(t) + dir, BC(t) - 1) /\ m = Both(s, HL(s) + dir, BC(s) - 1)
    BY <1>1, <1>2, SearchedBoth
  <2>2. HL(s) + dir \in Int /\ BC(s) - 1 \in Int
    BY <1>2, PairsTyped, WordsAreInts
  <2> DEFINE x == HL(s) + dir
             y == BC(s) - 1
  <2>3. n = Both(t, x, y) /\ m = Both(s, x, y)
    BY <1>4, <2>1
  <2> HIDE DEF n, m, x, y
  <2>4. x \in Int /\ y \in Int
    BY <2>2 DEF x, y
  <2>5. IsProcessor(n) /\ IsProcessor(m) /\ Leaves(n, t)
    BY <1>1, <2>3, <2>4, BothSet
  <2>6. Like(n, m)
    BY <1>1, <2>3, <2>4, BothLike
  <2> QED BY <2>5, <2>6
<1>6. BC(n) = BC(m)
  <2> HIDE DEF n, m
  <2> QED BY <1>5, LikeData
<1>7. g = SearchFlags(s, Peek(s, HL(s)), BC(m))
  <2>1. t.f \cap {"C"} = s.f \cap {"C"}
    BY <1>1
  <2> QED BY <1>4, <1>6, <2>1, SearchFlagsAgree
<1>8. ("P" \in g <=> BC(m) # 0) /\ ("Z" \in g <=> b = s.a)
  <2>1. IsByte(b)
    BY <1>1, PairsTyped, PeekTyped
  <2> HIDE DEF n, m, b
  <2> QED BY <1>1, <1>4, <1>6, <2>1, SearchFlagsSay
<1>9. Search(t, dir) = o
  BY DEF Search
<1>10. IsProcessor(o)
  BY <1>1, <1>2, <1>9, SearchTyped
<1> HIDE DEF n, m, g, b
<1>11. o.f = g /\ o.pc = t.pc /\ Like(o, m) /\ "pc" \in DOMAIN o
  <2>1. "f" \in DOMAIN n /\ "pc" \in DOMAIN n
    BY <1>5 DEF IsProcessor, FlagRegs, WordRegs
  <2> QED BY <1>5, <2>1, LikeChanges DEF Leaves
<1> HIDE DEF o
<1>12. w = IF BC(m) # 0 /\ b # s.a THEN Skip(o, -2) ELSE o
  BY <1>3, <1>8, <1>9, <1>11 DEF SearchRepeat
<1>13. Like(w, m) /\ w.f = g /\ IsProcessor(w)
  <2>1. Like(Skip(o, -2), m) /\ Skip(o, -2).f = o.f
    BY <1>5, <1>11, LikeChanges DEF Skip
  <2>2. IsProcessor(Skip(o, -2))
    BY <1>10, AgainTyped
  <2> QED BY <1>10, <1>11, <1>12, <2>1, <2>2
<1>14. w.pc = IF BC(m) # 0 /\ b # s.a THEN s.pc ELSE (s.pc + 2) % Word
  <2>1. Skip(o, -2).pc = (((s.pc + 2) % Word) + (-2)) % Word
    BY <1>1, <1>11, SkipMoves
  <2>2. s.pc \in Int /\ 0 <= s.pc /\ s.pc < Word
    BY DEF IsProcessor, WordRegs, IsWord
  <2>3. (((s.pc + 2) % Word) + (-2)) % Word = s.pc % Word
    BY <2>2, Steps
  <2>4. s.pc % Word = s.pc
    BY <2>2, Z3 DEF Word
  <2> QED BY <1>1, <1>11, <1>12, <2>1, <2>3, <2>4
<1>15. b = Peek(s, HL(s))
  BY <1>4
<1> HIDE DEF op
<1> QED BY <1>7, <1>13, <1>14, <1>15 DEF SearchesOnce, w, m, dir, op

\* v is what turn n + 1 of the search at s makes of the state before it.
SearchStep(v, s, n) ==
  LET dir == Dir(Second(s))
      next == Ahead(s, dir, n + 1)
  IN  /\ IsProcessor(v) /\ Like(v, next)
      /\ v.f = SearchFlags(s, Compared(s, dir, n + 1), BC(next))
      /\ v.pc = (IF n + 1 = Passes(s) \/ Compared(s, dir, n + 1) = s.a THEN (s.pc + 2) % Word ELSE s.pc)

\* A turn of CPIR or CPDR, wherever the search has got to (z80.c:544-560).
LEMMA SearchingOn ==
  ASSUME NEW s, IsProcessor(s), Fetch(s) = 237, Second(s) \in {177, 185},
         NEW n \in Nat, n + 1 \in 1..Passes(s), NEW u, Searching(u, s, n), NEW ln, NEW in
  PROVE  SearchStep(Alone(u, ln, in), s, n)
<1> DEFINE dir == Dir(Second(s))
           v == Alone(u, ln, in)
           a == Ahead(s, dir, n)
           next == Ahead(s, dir, n + 1)
           m == Searched(u, dir)
           c == Compared(s, dir, n + 1)
<1>1. dir \in {1, -1}
  BY DEF Dir
<1>2. IsProcessor(u) /\ u.pc = s.pc /\ u.f \cap {"C"} = s.f \cap {"C"} /\ Like(u, a)
  BY DEF Searching
<1> HIDE DEF dir
<1>3. /\ IsProcessor(a) /\ Leaves(a, s) /\ a.mem = s.mem /\ HL(a) = (HL(s) + dir * n) % Word
      /\ Searched(a, dir) = next
  <2>1. IsAhead(a, s, dir, n)
    BY <1>1, AheadStands
  <2> HIDE DEF a, next
  <2>2. Searched(a, dir) = next
    BY <2>1 DEF IsAhead, next
  <2> QED BY <2>1, <2>2 DEF IsAhead
<1>4. IsProcessor(next) /\ BC(next) = (BC(s) - (n + 1)) % Word
  <2> DEFINE i == n + 1
  <2>1. i \in Nat
    OBVIOUS
  <2> HIDE DEF i
  <2>2. IsAhead(Ahead(s, dir, i), s, dir, i)
    BY <1>1, <2>1, AheadStands
  <2>3. IsProcessor(Ahead(s, dir, i)) /\ BC(Ahead(s, dir, i)) = (BC(s) - i) % Word
    BY <2>2 DEF IsAhead
  <2> QED BY <2>3 DEF i
<1> HIDE DEF a, next
<1>5. u.mem = s.mem /\ u.a = s.a /\ HL(u) = HL(a) /\ BC(u) = BC(a)
  <2>1. u.mem = a.mem /\ u.a = a.a /\ HL(u) = HL(a) /\ BC(u) = BC(a)
    BY <1>2, <1>3, LikeData
  <2> QED BY <1>3, <2>1 DEF Leaves
<1>6. Fetch(u) = 237 /\ Second(u) = Second(s)
  BY <1>2, <1>5 DEF Fetch, Second, Peek
<1>7. Peek(u, HL(u)) = c
  <2>1. (n + 1) - 1 = n
    OBVIOUS
  <2>2. c = Peek(s, (HL(s) + dir * n) % Word)
    BY <2>1 DEF Compared
  <2>3. \A x : Peek(u, x) = Peek(s, x)
    BY <1>5 DEF Peek
  <2> QED BY <1>3, <1>5, <2>2, <2>3
<1>8. Like(m, next)
  <2> DEFINE x == HL(u) + dir
             y == BC(u) - 1
  <2>1. x \in Int /\ y \in Int
    BY <1>1, <1>2, PairsTyped, WordsAreInts
  <2>2. m = Both(u, x, y)
    BY <1>1, <1>2, SearchedBoth
  <2>3. next = Both(a, x, y)
    BY <1>1, <1>3, <1>5, SearchedBoth
  <2> HIDE DEF m, x, y
  <2> QED BY <1>2, <1>3, <2>1, <2>2, <2>3, BothLike
<1> HIDE DEF m, c
<1>9. BC(m) = BC(next)
  BY <1>4, <1>8, LikeData
<1>10. BC(next) = 0 <=> n + 1 = Passes(s)
  <2> DEFINE k == n + 1
  <2>1. k \in 1..Passes(s) /\ BC(next) = (BC(s) - k) % Word
    BY <1>4
  <2> HIDE DEF k
  <2>2. BC(next) = 0 <=> k = Passes(s)
    BY <2>1, CountsOut
  <2> QED BY <2>2 DEF k
<1>11. SearchesOnce(v, u, m)
  <2>1. Second(u) \in {177, 185}
    BY <1>6
  <2>2. SearchesOnce(v, u, Searched(u, Dir(Second(u))))
    BY <1>2, <1>6, <2>1, SearchTurn
  <2> QED BY <1>6, <2>2 DEF m, dir
<1> HIDE DEF v
<1>12. IsProcessor(v) /\ Like(v, m) /\ v.f = SearchFlags(u, c, BC(next))
       /\ v.pc = (IF BC(next) # 0 /\ c # s.a THEN s.pc ELSE (s.pc + 2) % Word)
  BY <1>2, <1>5, <1>7, <1>9, <1>11 DEF SearchesOnce
<1>13. v.f = SearchFlags(s, c, BC(next))
  BY <1>2, <1>5, <1>12, SearchFlagsAgree
<1>14. Like(v, next)
  BY <1>8, <1>12, LikeChain
<1>15. v.pc = (IF n + 1 = Passes(s) \/ c = s.a THEN (s.pc + 2) % Word ELSE s.pc)
  BY <1>10, <1>12
<1> QED BY <1>12, <1>13, <1>14, <1>15 DEF SearchStep, v, next, c, dir

\* A turn that does not end the search leaves it searching.
LEMMA SearchingNext ==
  ASSUME NEW s, IsProcessor(s), NEW n \in Nat, n + 1 # Passes(s), NEW v, SearchStep(v, s, n),
         Compared(s, Dir(Second(s)), n + 1) # s.a
  PROVE  Searching(v, s, n + 1)
<1> DEFINE c == Compared(s, Dir(Second(s)), n + 1)
           next == Ahead(s, Dir(Second(s)), n + 1)
           f == SearchFlags(s, c, BC(next))
<1>1. IsProcessor(v) /\ Like(v, next) /\ v.f = f /\ v.pc = s.pc
  BY DEF SearchStep
<1>2. IsByte(c)
  <2>1. Dir(Second(s)) \in {1, -1} /\ HL(s) \in Int
    BY PairsTyped, WordsAreInts DEF Dir
  <2> DEFINE x == HL(s) + Dir(Second(s)) * ((n + 1) - 1)
  <2>2. x \in Int
    BY <2>1
  <2>3. c = Peek(s, x % Word)
    BY DEF Compared
  <2> HIDE DEF x, c
  <2> QED BY <2>2, <2>3, ModWord, PeekTyped
<1> HIDE DEF c, next
<1>3. f \cap {"C"} = s.f \cap {"C"}
  BY <1>2, SearchFlagsSay
<1> HIDE DEF f
<1> QED BY <1>1, <1>3 DEF Searching, next

\* After no pass, HL and BC are what they were.
LEMMA AheadNone ==
  ASSUME NEW s, IsProcessor(s), NEW dir \in {1, -1}
  PROVE  Like(s, Ahead(s, dir, 0))
<1> DEFINE x == HL(s) + dir * 0
           y == BC(s) - 0
           u == [[s EXCEPT !.h = (x % Word) \div 256, !.l = (x % Word) % 256]
                   EXCEPT !.b = (y % Word) \div 256, !.c = (y % Word) % 256]
<1>1. Ahead(s, dir, 0) = u
  BY DEF Ahead, Both, PutPair
<1>2. x = HL(s) /\ y = BC(s)
  BY PairsTyped, WordsAreInts
<1>3. \A h, l : IsByte(h) /\ IsByte(l) =>
        /\ ((256 * h + l) % Word) \div 256 = h /\ ((256 * h + l) % Word) % 256 = l
  BY Z3 DEF IsByte, Word
<1>4. IsByte(s.h) /\ IsByte(s.l) /\ IsByte(s.b) /\ IsByte(s.c)
  BY Registers
<1>5. /\ (x % Word) \div 256 = s.h /\ (x % Word) % 256 = s.l
      /\ (y % Word) \div 256 = s.b /\ (y % Word) % 256 = s.c
  BY <1>2, <1>3, <1>4 DEF HL, BC
<1> DEFINE w == [[s EXCEPT !.h = s.h, !.l = s.l] EXCEPT !.b = s.b, !.c = s.c]
<1>6. u = w
  BY <1>5
<1> HIDE DEF u
<1>7. Like(s, w)
  BY DEF Like
<1> QED BY <1>1, <1>6, <1>7

\* Before each pass, as far as the search goes.
LEMMA SearchingAlways ==
  ASSUME NEW s, IsProcessor(s), Fetch(s) = 237, Second(s) \in {177, 185},
         NEW k, Ends(s, Dir(Second(s)), k), NEW p, Turns(p, s, k)
  PROVE  \A n \in 1..k : Searching(p[n], s, n - 1)
<1> DEFINE dir == Dir(Second(s))
           Bad == {n \in Nat : n \in 1..k /\ ~Searching(p[n], s, n - 1)}
<1>1. k \in Nat /\ Passes(s) \in Nat /\ k \in 1..Passes(s) /\ \A n \in 1..(k - 1) : Compared(s, dir, n) # s.a
  BY CountsOut DEF Ends
<1>2. dir \in {1, -1}
  BY DEF Dir
<1> SUFFICES ASSUME Bad # {}
             PROVE  FALSE
  <2> HIDE DEF dir
  <2> QED BY <1>1
<1>3. Bad \in SUBSET Nat
  OBVIOUS
<1>4. PICK n \in Bad : \A j \in 0..(n - 1) : j \notin Bad
  <2> HIDE DEF Bad
  <2> QED BY <1>3, LeastExists
<1>5. n \in Nat /\ n \in 1..k /\ ~Searching(p[n], s, n - 1)
  BY <1>4
<1>6. CASE n = 1
  <2>1. Searching(s, s, 0)
    <3>1. Like(s, Ahead(s, dir, 0))
      BY <1>2, AheadNone
    <3> QED BY <3>1 DEF Searching
  <2>2. p[1] = s
    BY DEF Turns
  <2> QED BY <1>5, <1>6, <2>1, <2>2
<1>7. CASE n # 1
  <2> DEFINE j == n - 1
             i == j - 1
  <2>1. j \in Nat /\ j \in 1..k /\ j + 1 = n /\ j \in 0..(n - 1) /\ j \in 1..(k - 1) /\ j # Passes(s)
        /\ j \in 1..Passes(s) /\ i \in Nat /\ i + 1 = j
    BY <1>1, <1>5, <1>7
  <2>2. Searching(p[j], s, i)
    BY <1>4, <2>1
  <2>3. Compared(s, dir, j) # s.a
    BY <1>1, <2>1
  <2> HIDE DEF i, j, Bad
  <2>4. PICK ln, in : p[j + 1] = Alone(p[j], ln, in)
    BY <2>1 DEF Turns
  <2>5. i + 1 \in 1..Passes(s) /\ i + 1 # Passes(s) /\ Compared(s, Dir(Second(s)), i + 1) # s.a
    BY <2>1, <2>3
  <2>6. SearchStep(p[n], s, i)
    <3>1. SearchStep(Alone(p[j], ln, in), s, i)
      BY <2>1, <2>2, <2>5, SearchingOn
    <3> QED BY <2>1, <2>4, <3>1
  <2>7. Searching(p[n], s, i + 1)
    BY <2>1, <2>5, <2>6, SearchingNext
  <2> QED BY <1>5, <2>1, <2>7 DEF j
<1> QED BY <1>6, <1>7

\* CPIR and CPDR in the two builds: for every processor, memory and count, the
\* turns of the build that repeats the instruction, up to the byte that equals A
\* or the end of the count, leave what the loop of the FAST_MOVE build leaves in
\* one (z80.c:490-541), flags and program counter included and the refresh register
\* aside.
THEOREM SearchesAtOnce ==
  ASSUME NEW s, IsProcessor(s), Fetch(s) = 237, Second(s) \in {177, 185},
         NEW k, Ends(s, Dir(Second(s)), k), NEW p, Turns(p, s, k)
  PROVE  Aside(p[k + 1]) = Aside(Fast(s))
<1> DEFINE dir == Dir(Second(s))
           t == Skip(s, 2)
           q == p[k + 1]
           next == Ahead(s, dir, k)
           x == HL(s) + dir * k
           y == BC(s) - k
           e == SearchEnd(t, dir, k)
           c == Compared(s, dir, k)
           b == Both(t, x, y)
           f == SearchFlags(s, c, BC(next))
<1>1. dir \in {1, -1}
  BY DEF Dir
<1>2. k \in Nat /\ k \in 1..k /\ k \in 1..Passes(s) /\ (c = s.a \/ k = Passes(s))
  BY CountsOut DEF Ends
<1>3. Searching(p[k], s, k - 1)
  BY <1>2, SearchingAlways
<1>4. SearchStep(q, s, k - 1)
  <2> DEFINE i == k - 1
             u == p[k]
  <2>1. i \in Nat /\ i + 1 = k
    BY <1>2
  <2>2. Searching(u, s, i)
    BY <1>3
  <2>3. PICK ln, in : q = Alone(u, ln, in)
    BY <1>2 DEF Turns
  <2> HIDE DEF i, u
  <2>4. i + 1 \in 1..Passes(s)
    BY <1>2, <2>1
  <2>5. SearchStep(Alone(u, ln, in), s, i)
    BY <2>1, <2>2, <2>4, SearchingOn
  <2>6. SearchStep(q, s, i)
    BY <2>3, <2>5
  <2> QED BY <2>6 DEF i
<1>5. IsProcessor(q) /\ Like(q, next) /\ q.f = f /\ q.pc = (s.pc + 2) % Word
  <2>1. (k - 1) + 1 = k
    BY <1>2
  <2> HIDE DEF q
  <2> QED BY <1>2, <1>4, <2>1 DEF SearchStep
<1> HIDE DEF q
<1>6. IsProcessor(t) /\ Like(t, s) /\ t.f = s.f /\ t.pc = (s.pc + 2) % Word
  <2>1. Like(s, s) /\ 2 \in Int
    BY LikeChain
  <2>2. IsProcessor(t)
    BY <2>1, SkipTyped
  <2>3. Like(t, s)
    BY <2>1, LikeChanges
  <2>4. t.f = s.f /\ t.pc = (s.pc + 2) % Word
    BY DEF Skip, IsProcessor, WordRegs
  <2> QED BY <2>2, <2>3, <2>4
<1> HIDE DEF t, dir
<1>7. HL(t) = HL(s) /\ BC(t) = BC(s) /\ t.a = s.a /\ t.mem = s.mem
  BY <1>6, LikeData
<1>8. Fast(s) = e
  <2>1. Fast(s) = SearchLoop(t, dir)
    BY FastBlock DEF t, dir
  <2>2. \A n : Compared(t, dir, n) = Compared(s, dir, n)
    BY <1>7 DEF Compared, Peek
  <2>3. Passes(t) = Passes(s)
    BY <1>7 DEF Passes
  <2>4. Ends(s, dir, k)
    BY DEF dir
  <2>5. Ends(t, dir, k)
    BY <1>7, <2>2, <2>3, <2>4 DEF Ends
  <2> HIDE DEF e
  <2>6. SearchLoop(t, dir) = SearchEnd(t, dir, k)
    BY <1>6, <2>5, SearchReached
  <2> QED BY <2>1, <2>6 DEF e
<1>9. x \in Int /\ y \in Int
  <2>1. HL(s) \in Int /\ BC(s) \in Int
    BY PairsTyped, WordsAreInts
  <2> QED BY <1>1, <1>2, <2>1
<1>10. next = Both(s, x, y)
  BY DEF Ahead
<1>11. e = [b EXCEPT !.f = SearchFlags(t, Compared(t, dir, k), BC(b))]
  BY <1>7 DEF SearchEnd
<1>12. Compared(t, dir, k) = c
  BY <1>7 DEF Compared, Peek
<1> HIDE DEF x, y, next, e, c
<1>13. IsProcessor(b) /\ IsProcessor(next) /\ Leaves(b, t) /\ Like(b, next)
  BY <1>6, <1>9, <1>10, BothSet, BothLike
<1> HIDE DEF b
<1>14. BC(b) = BC(next)
  BY <1>13, LikeData
<1>15. SearchFlags(t, c, BC(next)) = f
  BY <1>6, <1>7, SearchFlagsAgree
<1> HIDE DEF f
<1>16. e = [b EXCEPT !.f = f]
  BY <1>11, <1>12, <1>14, <1>15
<1>17. Like(e, next) /\ e.f = f /\ e.pc = b.pc
  <2>1. Like([b EXCEPT !.f = f], next)
    BY <1>13, LikeChanges
  <2>2. "f" \in DOMAIN b /\ "pc" \in DOMAIN b
    BY <1>13 DEF IsProcessor, FlagRegs, WordRegs
  <2> QED BY <1>16, <2>1, <2>2
<1>18. Like(q, e)
  BY <1>5, <1>17, LikeChain
<1>19. q.f = e.f /\ q.pc = e.pc
  BY <1>5, <1>6, <1>13, <1>17 DEF Leaves
<1>20. Aside(q) = Aside(e)
  BY <1>5, <1>18, <1>19, AsideSame
<1> QED BY <1>8, <1>20 DEF q
=============================================================================
