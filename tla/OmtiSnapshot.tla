---------------------------- MODULE OmtiSnapshot ----------------------------
(***************************************************************************)
(* Saving and loading the emulator's state (trs_state_save.c) as it        *)
(* concerns the OMTI controller: trs_omti_save and trs_omti_load, between  *)
(* any two instructions of the guest.  The snapshot holds the registers    *)
(* and, for each slot, the file name and geometry - not the position of    *)
(* the stream; loading opens the file again.                               *)
(***************************************************************************)
EXTENDS Omti

CONSTANT NoSnapshot

VARIABLES
  saved,      \* the contents of the state file
  careless    \* history: the slots were exchanged, or a snapshot loaded, under
              \* circumstances that can leave a WRITE aimed at the wrong place

svars == <<vars, saved, careless>>

SavedSlot(dr) == [dr EXCEPT !.pos = 0, !.canWrite = FALSE, !.err = FALSE]

Snapshot ==
  [present |-> present, phase |-> phase, status |-> status, cdb |-> cdb,
   cdbIndex |-> cdbIndex, command |-> command, lun |-> lun, buf |-> buf,
   fillbuf |-> fillbuf, bytesdone |-> bytesdone, datalen |-> datalen,
   secsize |-> secsize, finalStatus |-> finalStatus,
   d |-> [l \in Luns |-> SavedSlot(d[l])]]

\* trs_omti_save
Save == saved' = Snapshot /\ UNCHANGED <<vars, careless>>

\* Mutant: the number of bytes already moved is not restored.
TransferForgotten == datalen' = saved.datalen /\ UNCHANGED bytesdone

\* The transfer a snapshot was taken in goes on where it was.
TransferRestored == datalen' = saved.datalen /\ bytesdone' = saved.bytesdone

\* trs_omti_load
Load ==
  /\ saved # NoSnapshot
  /\ present' = saved.present /\ phase' = saved.phase
  /\ status' = saved.status /\ cdb' = saved.cdb
  /\ cdbIndex' = saved.cdbIndex /\ command' = saved.command
  /\ lun' = saved.lun /\ buf' = saved.buf /\ fillbuf' = saved.fillbuf
  /\ TransferRestored
  /\ secsize' = saved.secsize /\ finalStatus' = saved.finalStatus
  /\ d' = [l \in Luns |-> SlotLoaded(saved.d[l], host)]
  /\ careless' = (careless \/ (saved.phase = "DATA_OUT" /\ saved.command = "WRITE"))
  /\ UNCHANGED <<host, saved>>

SnapInit == Init /\ saved = NoSnapshot /\ careless = FALSE
SnapNext ==
  \/ Next /\ careless' = (careless \/ (phase # "IDLE" /\ d' # d /\ Menu)) /\ UNCHANGED saved
  \/ Save \/ Load
SnapSpec == SnapInit /\ [][SnapNext]_svars

-----------------------------------------------------------------------------
\* Whatever is saved and loaded, and whenever, the slots stay consistent, a
\* free bus is clean and a data phase can move.
SnapInvariants == SlotsConsistent /\ IdleIsClean /\ DataPhaseMoves

\* Saving right after a load gives back the snapshot that was loaded, but for
\* what the file system now says of write protection and missing images.
LoadThenSave ==
  [][Load => \A l \in Luns :
       d'[l].open => Snapshot' = [saved EXCEPT !.d = Snapshot'.d]
                     /\ [Snapshot'.d[l] EXCEPT !.wp = saved.d[l].wp] = saved.d[l]]_svars

\* As long as slots change only between commands, the one thing that makes a
\* state load dangerous is a snapshot taken while WRITE's data was arriving:
\* after any other, every WRITE is aimed at its sector and headers survive.
OnlyWritesAreFragile == ~careless => WriteIsAimed /\ HeadersKept
=============================================================================
