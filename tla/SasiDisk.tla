------------------------------ MODULE SasiDisk ------------------------------
(***************************************************************************)
(* What a SASI controller promises the guest about the disks behind it,    *)
(* with no bus bytes, files, positions or geometry: storage on media that  *)
(* are loaded into drives.  A medium is a row of cells; a command moves    *)
(* one or more sectors of span cells each, from the address it named       *)
(* onwards on the medium in the drive it named; a sector is fetched or     *)
(* stored whole; nothing else changes a cell.  A command in whose midst    *)
(* media are exchanged is void: until the controller is released it may do *)
(* anything to the one medium in its drive, and still nothing to others.   *)
(***************************************************************************)
EXTENDS Integers

CONSTANTS Drives, Media, NoMedium, Cells, Cell,
          Unwritten    \* a cell no write has reached promises no contents

VARIABLES stage,    \* "free", "selected", "in", "out", "done" or "void"
          drive, addr, span, left,   \* the command's drive, next sector's
                                     \* first cell and length, sectors to go
          xfer,     \* the sector being moved over the bus
          result,   \* "OK" or "ERROR", meaningful when done
          loaded, shelf

vars == <<stage, drive, addr, span, left, xfer, result, loaded, shelf>>

TypeOK ==
  /\ stage \in {"free", "selected", "in", "out", "done", "void"}
  /\ drive \in Drives /\ addr \in Nat /\ span \in Nat /\ left \in Nat
  /\ xfer \in [1..span -> Cell] /\ result \in {"OK", "ERROR"}
  /\ loaded \in [Drives -> Media \cup {NoMedium}]
  /\ shelf \in [Media -> [Cells -> Cell \cup {Unwritten}]]

Init == stage = "free" /\ left = 0 /\ TypeOK

Sector == addr..(addr + span - 1)
SameCommand == UNCHANGED <<drive, addr, span>>
SameMedia == UNCHANGED <<loaded, shelf>>

\* Medium m changes at most in the cells of cs, and where it promised nothing.
OnlyCells(m, cs) ==
  \A n \in Media : \A c \in Cells :
    shelf'[n][c] # shelf[n][c] => n = m /\ (c \in cs \/ shelf[n][c] = Unwritten)

Select == /\ stage = "free" /\ stage' = "selected"
          /\ UNCHANGED result /\ SameMedia

\* The sector now at the command's address is in the transfer buffer.
Fetched == /\ loaded[drive'] # NoMedium
           /\ \A c \in Sector' \cap Cells :
                shelf[loaded[drive']][c] \in {xfer'[c - addr' + 1], Unwritten}

StartRead == /\ stage = "selected" /\ stage' = "in"
             /\ Fetched /\ left' > 0
             /\ UNCHANGED result /\ SameMedia

StartWrite == /\ stage = "selected" /\ stage' = "out"
              /\ loaded[drive'] # NoMedium /\ left' > 0
              /\ UNCHANGED result /\ SameMedia

\* A transfer of parameters, which concerns no medium.
StartTransfer == /\ stage = "selected" /\ stage' \in {"in", "out"}
                 /\ left' = 0 /\ UNCHANGED result /\ SameMedia

\* A command without a data phase: it may rewrite the sector it names.
Immediate == /\ stage = "selected" /\ stage' = "done"
             /\ UNCHANGED loaded
             /\ IF loaded[drive'] = NoMedium THEN UNCHANGED shelf
                                    ELSE OnlyCells(loaded[drive'], Sector')

\* Bytes arrive at or leave the controller; one that leaves changes nothing.
Move == /\ stage \in {"in", "out"} /\ (stage = "in" => UNCHANGED xfer)
        /\ UNCHANGED <<stage, left, result>> /\ SameCommand /\ SameMedia

Advance == /\ addr' = addr + span /\ left' = left - 1
           /\ UNCHANGED <<stage, drive, span, result>>

FetchNext == stage = "in" /\ left > 1 /\ Advance /\ Fetched /\ SameMedia

Stores == /\ OnlyCells(loaded[drive], Sector)
          /\ \A c \in Sector \cap Cells :
               shelf'[loaded[drive]][c] = xfer'[c - addr + 1]
          /\ UNCHANGED loaded

StoreNext == stage = "out" /\ left > 1 /\ Advance /\ Stores

\* The last sector is stored before the command is reported done.
FinishWrite == /\ stage = "out" /\ left = 1 /\ Stores
               /\ stage' = "done" /\ result' = "OK"

FinishTransfer == /\ stage \in {"in", "out"} /\ (stage = "out" => left = 0)
                  /\ left <= 1 /\ stage' = "done" /\ result' = "OK"
                  /\ SameMedia

\* A failed transfer says so; at worst it spoils the sector it was at.
Fail == /\ stage \in {"in", "out"} /\ stage' = "done" /\ result' = "ERROR"
        /\ UNCHANGED loaded
        /\ IF stage = "in" \/ left = 0
           THEN UNCHANGED shelf
           ELSE OnlyCells(loaded[drive], Sector)

\* The guest takes part of the result.
Report == stage = "done" /\ UNCHANGED <<stage, result>> /\ SameMedia

\* The guest has taken the result, or resets the controller at any time.
Release == stage' = "free" /\ SameMedia

Exchange == stage = "free" /\ UNCHANGED <<stage, shelf>>

HotSwap == stage # "free" /\ stage' = "void" /\ UNCHANGED shelf

Adrift == /\ stage = "void" /\ stage' = "void" /\ UNCHANGED loaded
          /\ \A m \in Media : shelf'[m] # shelf[m] => m = loaded[drive']

\* Power-on: the drives are loaded afresh.
Restart == stage' = "free" /\ UNCHANGED shelf

Next == \/ Select \/ StartRead \/ StartWrite \/ StartTransfer \/ Immediate
        \/ Move \/ FetchNext \/ StoreNext \/ FinishWrite \/ FinishTransfer
        \/ Fail \/ Report \/ Release \/ Exchange
        \/ HotSwap \/ Adrift \/ Restart

Spec == Init /\ [][Next]_vars
=============================================================================
