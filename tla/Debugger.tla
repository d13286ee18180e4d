------------------------------ MODULE Debugger ------------------------------
(***************************************************************************)
(* The debugger (debug.c): a shell whose commands set and clear traps,     *)
(* step the processor and let it run until a trap, a watched byte that     *)
(* changed, or the user stops it.  A trap is kept twice, as an entry of a  *)
(* table of MaxTraps and as a flag of its address.                         *)
(***************************************************************************)
EXTENDS Z80, Disassembler, FiniteSets

CONSTANTS
  MaxTraps,    \* MAX_TRAPS
  Sites        \* bound: the addresses that the user names

ASSUME MaxTrapsAssumption == MaxTraps \in Nat \ {0}

VARIABLES
  dbg,     \* traps, table, num_traps, num_watchpoints, print_instructions
  mode,    \* "shell", "run" in the loop of run(), "free" in z80_run(1)
  stop     \* stop_signaled
debugVars == <<prog, cpu, line, raised, dbg, mode, stop>>

Entries == 0..(MaxTraps - 1)
NoTrap == [address |-> -1, flag |-> "none", byte |-> 0]
valid(d, i) == d.table[i] # NoTrap
TrapsAt(addr) == {f \in {"break", "once", "trace", "on", "off", "watch"} :
                    <<addr, f>> \in dbg.traps}

-----------------------------------------------------------------------------
set_trap(d, s, addr, flag) ==
  IF d.num = MaxTraps THEN d
  ELSE LET i == CHOOSE i \in Entries : ~valid(d, i) /\ \A j \in 0..(i - 1) : valid(d, j)
       IN  [d EXCEPT !.table[i] = [address |-> addr, flag |-> flag,
                                   byte |-> IF flag = "watch" THEN Peek(s, addr) ELSE 0],
                     !.traps = @ \cup {<<addr, flag>>},
                     !.num = @ + 1,
                     !.watches = IF flag = "watch" THEN @ + 1 ELSE @]
\* Clears the entries in gone; their flags go too.
cleared(d, gone) ==
  [d EXCEPT !.table = [i \in Entries |-> IF i \in gone THEN NoTrap ELSE @[i]],
            !.traps = @ \ {<<d.table[i].address, d.table[i].flag>> : i \in gone},
            !.num = @ - Cardinality(gone),
            !.watches = @ - Cardinality({i \in gone : d.table[i].flag = "watch"})]
\* Mutant: a watchpoint that is cleared is still counted.
clear_trap_badly(d, i) ==
  IF valid(d, i) THEN [cleared(d, {i}) EXCEPT !.watches = d.watches] ELSE d
clear_trap(d, i) == IF valid(d, i) THEN cleared(d, {i}) ELSE d
\* Any flag, or the one given.
clear_trap_address(d, addr, flags) ==
  cleared(d, {i \in Entries : /\ valid(d, i) /\ d.table[i].address = addr
                              /\ d.table[i].flag \in flags})
clear_all_traps(d) ==
  [cleared(d, {i \in Entries : valid(d, i)}) EXCEPT !.num = 0, !.watches = 0]

-----------------------------------------------------------------------------
\* The watched bytes that have changed; they are brought up to date.
Changed(d, s) ==
  IF d.watches = 0 THEN {}
  ELSE {i \in Entries : /\ valid(d, i) /\ d.table[i].flag = "watch"
                        /\ d.table[i].byte # Peek(s, d.table[i].address)}
Updated(d, s) ==
  [d EXCEPT !.table = [i \in Entries |-> IF i \in Changed(d, s)
                                         THEN [@[i] EXCEPT !.byte = Peek(s, d.table[i].address)]
                                         ELSE @[i]]]
StopsProcessor(s) ==
  \/ Fetch(s) = 237 /\ Peek(s, (s.pc + 1) % Word) = 47          \* emt_debug
  \/ Fetch(s) = 118 /\ HaltAction = "debug"

TakeTurn(in, allowed) ==
  LET m == Turn(cpu, line, in, allowed) IN
  cpu' = m.cpu /\ line' = m.line /\ UNCHANGED <<prog, raised>>
\* What run() does when z80_run comes back.
Returned(d, stopped) ==
  LET at == {f \in {"break", "once"} : <<cpu'.pc, f>> \in d.traps}
      d2 == IF "once" \in at THEN clear_trap_address(d, cpu'.pc, {"once"}) ELSE d
  IN  /\ dbg' = Updated(d2, cpu')
      /\ stop' = (stopped \/ at # {} \/ Changed(d2, cpu') # {})
      /\ mode' = IF stop' THEN "shell" ELSE "run"

\* One pass of the loop.  With no trap and no tracing the processor runs free.
run ==
  /\ mode = "run"
  /\ LET t == TrapsAt(cpu.pc)
         d == [dbg EXCEPT !.printing = (@ \/ "on" \in t) /\ "off" \notin t]
     IN  IF ~d.printing /\ d.num = 0
         THEN /\ mode' = "free" /\ dbg' = d
              /\ UNCHANGED <<prog, cpu, line, raised, stop>>
         ELSE \E in \in Ins : /\ TakeTurn(in, TRUE)
                              /\ Returned(d, stop \/ StopsProcessor(cpu))
\* A turn of z80_run(1), which returns when the debugger was called.
FreeTurn ==
  /\ mode = "free"
  /\ \E in \in Ins : TakeTurn(in, TRUE)
  /\ LET stopped == stop \/ StopsProcessor(cpu) IN
     IF stopped THEN Returned(dbg, TRUE) ELSE UNCHANGED <<dbg, mode, stop>>
\* trs_debug: the user calls for the debugger.
trs_debug ==
  /\ mode # "shell" /\ ~stop /\ stop' = TRUE
  /\ UNCHANGED <<prog, cpu, line, raised, dbg, mode>>

-----------------------------------------------------------------------------
(* Commands.                                                               *)

Shell == mode = "shell"
Traps(d) == dbg' = d /\ UNCHANGED <<prog, cpu, line, raised, mode, stop>>
Start(d) ==
  /\ dbg' = d /\ mode' = "run" /\ stop' = FALSE
  /\ UNCHANGED <<prog, cpu, line, raised>>

SetTrap ==
  /\ Shell
  /\ \E addr \in Sites, flag \in {"break", "trace", "on", "off", "watch"} :
       Traps(set_trap(dbg, cpu, addr, flag))
Clear ==
  /\ Shell
  /\ \E addr \in Sites :
       Traps(clear_trap_address(dbg, addr, {"break", "once", "trace", "on", "off",
                                            "watch"}))
Delete == Shell /\ \E i \in Entries : Traps(clear_trap(dbg, i))
DeleteAll == Shell /\ Traps(clear_all_traps(dbg))
TraceOn == Shell /\ \E on \in BOOLEAN : Traps([dbg EXCEPT !.printing = on])
Cont == Shell /\ Start(dbg)
\* A step executes one instruction; interrupts are allowed in some.
StepCommand(allowed) ==
  /\ Shell
  /\ \E in \in Ins : TakeTurn(in, allowed)
  /\ stop' = (stop \/ (Fetch(cpu) = 118 /\ HaltAction = "debug"))
  /\ UNCHANGED <<dbg, mode>>
Step == StepCommand(FALSE)
StepInt == StepCommand(TRUE)

\* Calls that will be made, restarts, and repeated block instructions.
is_call(s) ==
  \/ Fetch(s) = 205
  \/ Fetch(s) \in {196 + 8 * n : n \in 0..7} /\ Holds(s, Y(Fetch(s)))
is_rst(s) == Fetch(s) \in {199 + 8 * n : n \in 0..7}
is_rep(s) ==
  /\ Fetch(s) = 237
  /\ Peek(s, (s.pc + 1) % Word) \in (176..179 \cup 184..187)
\* The length of those, else 0.  Mutant: a restart has an operand.
OverBadly(s) ==
  CASE is_call(s) -> 3 [] is_rst(s) -> 2 [] is_rep(s) -> 2 [] OTHER -> 0
Over(s) ==
  CASE is_call(s) -> 3 [] is_rst(s) -> 1 [] is_rep(s) -> 2 [] OTHER -> 0
NextCommand(allowed) ==
  IF Over(cpu) = 0 THEN StepCommand(allowed)
  ELSE Shell /\ Start(set_trap(dbg, cpu, (cpu.pc + Over(cpu)) % Word, "once"))
NextStep == NextCommand(FALSE)
NextInt == NextCommand(TRUE)
=============================================================================
