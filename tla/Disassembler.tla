---------------------------- MODULE Disassembler ----------------------------
(***************************************************************************)
(* The listing of the debugger (dis.c): tables give every opcode a text,   *)
(* left out here, and the arguments that follow it.  What a reader of the  *)
(* listing relies on is where the next instruction begins and where a      *)
(* relative jump leads.                                                    *)
(***************************************************************************)
EXTENDS Z80Prefixed

\* The kinds of arguments; "noop" also gives back the last byte of the opcode.
arglen(args) ==
  CASE args = "none" -> 0 [] args = "byte" -> 1 [] args = "word" -> 2
    [] args = "noop" -> -1 [] args = "before" -> 0
    [] args = "relative" -> 1 [] args = "bytes" -> 2

Columns(n) == {n + 8 * i : i \in 0..7}
\* The tables, by halves where they say more than one thing.
majorLow(op) ==
  CASE op \in {1, 17, 33, 49} \cup {34, 42, 50, 58} -> "word"
    [] op \in Columns(6) -> "byte"
    [] op \in {16, 24, 32, 40, 48, 56} -> "relative"
    [] OTHER -> "none"
majorHigh(op) ==
  CASE op \in {195, 205} \cup Columns(194) \cup Columns(196) -> "word"
    [] op \in Columns(198) \cup {211, 219} -> "byte"
    [] op \in {203, 221, 237, 253} -> "table"
    [] OTHER -> "none"
major(op) == IF op < 128 THEN majorLow(op) ELSE majorHigh(op)
minorCB(op) == "none"
\* With the index register, with memory at it, and with its halves.
IndexWords == {9, 25, 41, 57} \cup {35, 43} \cup {225, 227, 229, 233, 249}
IndexMemory ==
  {52, 53} \cup (Columns(70) \ {118}) \cup (112..119 \ {118}) \cup Columns(134)
IndexHalves ==
  {36, 37, 44, 45} \cup {op \in 128..191 : Z(op) \in {4, 5}}
    \cup {op \in 64..127 : /\ {Y(op), Z(op)} \cap {4, 5} # {}
                           /\ 6 \notin {Y(op), Z(op)}}
\* Mutant: LD (IX+d),n is listed without its offset.
minorDDLowBadly(op) ==
  CASE op \in IndexWords \cup IndexHalves -> "none"
    [] op \in {33, 34, 42} -> "word"
    [] op \in IndexMemory \cup {38, 46, 54} -> "byte"
    [] OTHER -> "noop"
minorDDLow(op) ==
  CASE op \in IndexWords \cup IndexHalves -> "none"
    [] op \in {33, 34, 42} -> "word"
    [] op \in IndexMemory \cup {38, 46} -> "byte"
    [] op = 54 -> "bytes"
    [] OTHER -> "noop"
minorDDHigh(op) ==
  CASE op \in IndexWords \cup IndexHalves -> "none"
    [] op \in IndexMemory -> "byte"
    [] op = 203 -> "table"
    [] OTHER -> "noop"
minorED(op) ==
  IF op \in {67, 75, 83, 91, 99, 107, 115, 123} THEN "word" ELSE "none"
\* Without the halves of IY.
minorFDLow(op) ==
  CASE op \in IndexWords -> "none"
    [] op \in {33, 34, 42} -> "word"
    [] op \in IndexMemory -> "byte"
    [] op = 54 -> "bytes"
    [] OTHER -> "noop"
minorFDHigh(op) ==
  CASE op \in IndexWords -> "none"
    [] op \in IndexMemory -> "byte"
    [] op = 203 -> "table"
    [] OTHER -> "noop"
minorDDCB(op) == "before"
minorFDCB(op) == "before"

minor(prefix, op) ==
  CASE prefix = 203 -> minorCB(op)
    [] prefix = 221 -> IF op < 128 THEN minorDDLow(op) ELSE minorDDHigh(op)
    [] prefix = 237 -> minorED(op)
    [] prefix = 253 -> IF op < 128 THEN minorFDLow(op) ELSE minorFDHigh(op)
\* The opcode at addr: its arguments, and where they begin.
Opcode(s, addr) ==
  LET op == Peek(s, addr)
      op2 == Peek(s, (addr + 1) % Word)
      op4 == Peek(s, (addr + 3) % Word)
  IN  CASE major(op) # "table" -> [args |-> major(op), pc |-> addr + 1]
        [] major(op) = "table" /\ minor(op, op2) # "table" ->
             [args |-> minor(op, op2), pc |-> addr + 2]
        [] OTHER -> [args |-> IF op = 221 THEN minorDDCB(op4) ELSE minorFDCB(op4),
                     pc |-> addr + 4]
\* Where the next instruction begins, and where a relative jump leads.
disassemble(s, addr) ==
  LET code == Opcode(s, addr) IN code.pc + arglen(code.args)
JumpTarget(s, addr) ==
  LET code == Opcode(s, addr) IN
  (code.pc + 1 + Signed(Peek(s, code.pc % Word))) % Word
=============================================================================
