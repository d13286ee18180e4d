------------------------------ MODULE OmtiDisk ------------------------------
(***************************************************************************)
(* The OMTI controller implements SasiDisk: the bytes of an image after    *)
(* its header, continued by zeros, are the cells of a medium; a slot with  *)
(* an open stream is a loaded drive; every sector has SecSize cells.       *)
(***************************************************************************)
EXTENDS Omti

CONSTANT Cells        \* cell numbers compared: those a CDB can reach
ASSUME CellsAssumption == Cells \subseteq Nat

StageOf == [p \in Phases |-> CASE p = "IDLE" -> "free"
                               [] p = "CDB" -> "selected"
                               [] p = "DATA_IN" -> "in"
                               [] p = "DATA_OUT" -> "out"
                               [] p = "STATUS" -> "done"]

Transferring == phase \in {"DATA_IN", "DATA_OUT"} /\ command \in {"READ", "WRITE"}

Disk == INSTANCE SasiDisk WITH
  Drives <- Luns, Media <- Images, NoMedium <- None,
  Cell <- Byte, Unwritten <- None,
  stage <- StageOf[phase],
  drive <- cdb.lun,
  addr <- IF d[cdb.lun].open THEN CdbPos(d[cdb.lun]) - HdrLen ELSE 0,
  span <- SecSize,
  left <- IF Transferring THEN 1 ELSE 0,
  xfer <- [k \in 1..SecSize |-> buf[k]],
  result <- finalStatus,
  loaded <- [l \in Luns |-> IF d[l].open THEN d[l].name ELSE None],
  shelf <- [i \in Images |-> [c \in Cells |-> ByteAt(host[i], c + 1)]]

\* As long as slots change only between commands, READ returns and WRITE and
\* FORMAT replace exactly the addressed sector of the image in the addressed
\* slot, a WRITE reported good is in the image, and nothing else changes it.
ImplementsDisk == Disk!Spec
=============================================================================
