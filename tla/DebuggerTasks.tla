---------------------------- MODULE DebuggerTasks ---------------------------
(***************************************************************************)
(* The user at the debugger's shell, and what is expected of it.           *)
(***************************************************************************)
EXTENDS Debugger

CONSTANT Commanded    \* the programs that the user does more with than step
VARIABLE over         \* where the last "next" set out, while it is under way

userVars == <<prog, cpu, line, raised, dbg, mode, stop, over>>
None == [pc |-> -1, sp |-> -1, room |-> FALSE]

DebugInit ==
  /\ Init
  /\ dbg = [traps |-> {}, table |-> [i \in Entries |-> NoTrap], num |-> 0,
            watches |-> 0, printing |-> FALSE]
  /\ mode = "shell" /\ stop = FALSE
  /\ over = None

\* Opcodes are looked at one by one.
StepOnce == prog \notin Commanded /\ cpu = Programs[prog] /\ Step /\ over' = None
Command ==
  /\ prog \in Commanded
  /\ SetTrap \/ Clear \/ Delete \/ DeleteAll \/ TraceOn \/ Cont \/ Step \/ StepInt
  /\ over' = None
Over1 ==
  /\ prog \in Commanded /\ (NextStep \/ NextInt)
  /\ over' = [pc |-> cpu.pc, sp |-> cpu.sp, room |-> dbg.num < MaxTraps]
Processor ==
  /\ run \/ FreeTurn
  /\ UNCHANGED over
UserBreak == trs_debug /\ over' = None
DebugNext == StepOnce \/ Command \/ Over1 \/ Processor \/ UserBreak

\* run() goes on by itself; its enabling condition is written out.
RunsOn == <>[](mode # "shell") => []<><<Processor>>_userVars
DebugSpec == DebugInit /\ [][DebugNext]_userVars /\ RunsOn

-----------------------------------------------------------------------------
\* The two copies of the traps agree as far as the code needs it: the counters
\* are those of the table, so set_trap finds an entry whenever it looks for one
\* and watched bytes are compared as long as there is one, and no flag is left
\* at an address that no entry can clear any more (debug.c:181-279).
TableCounts ==
  LET taken == {i \in Entries : valid(dbg, i)} IN
  /\ dbg.num = Cardinality(taken)
  /\ dbg.watches = Cardinality({i \in taken : dbg.table[i].flag = "watch"})
  /\ dbg.traps \subseteq {<<dbg.table[i].address, dbg.table[i].flag>> : i \in taken}

\* Stepping over a call, a restart or a repeated block instruction waits for the
\* place where the listing says that the next instruction begins, and if the
\* processor stops there the stack is as it was (next, debug.c:664-732, against
\* the processor and dis.c).
NextReturns ==
  [][over'.room =>
       LET behind == disassemble(cpu, over'.pc) % Word IN
       /\ mode' = "run" => <<behind, "once">> \in dbg'.traps
       /\ mode' = "shell" /\ cpu'.pc = behind => cpu'.sp = over'.sp]_userVars
\* ... and it does stop, if the table has room for its own trap.
NextStops == over.room /\ mode = "run" ~> mode = "shell"

\* Every opcode, behind every prefix, is as long for the listing as for the
\* processor, and a relative jump leads where the listing says: a step ends at
\* the next instruction of the listing unless the instruction jumps.  The halves
\* of IY, which the listing does not know, are excepted (dis.c:1235-1521).
Jumps == {118, 195, 201, 205, 233} \cup Columns(192) \cup Columns(194)
           \cup Columns(196) \cup Columns(199)
JumpsED == Columns(69) \cup (176..179) \cup (184..187)
Follows ==
  LET op == Fetch(cpu)  op2 == Peek(cpu, (cpu.pc + 1) % Word) IN
  \/ cpu'.pc = disassemble(cpu, cpu.pc) % Word
  \/ major(op) = "relative" /\ cpu'.pc = JumpTarget(cpu, cpu.pc)
  \/ op \in Jumps
  \/ op = 237 /\ op2 \in JumpsED
  \/ op \in {221, 253} /\ op2 = 233
ListingAgrees ==
  [][StepOnce =>
       \/ Follows
       \/ /\ Fetch(cpu) = 253
          /\ Peek(cpu, (cpu.pc + 1) % Word) \in IndexHalves \cup {38, 46}]_userVars

=============================================================================
