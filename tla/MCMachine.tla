------------------------------ MODULE MCMachine ------------------------------
(***************************************************************************)
(* A small instance of Machine: one drive, a JV1 and a DMK image, sectors  *)
(* and IDs of one byte, tracks of two, a serial port that always opens and *)
(* brings two bytes, and a guest that enables the disk's NMI or nothing.   *)
(***************************************************************************)
EXTENDS Machine

McModels == {1, 3}
McPolite == {"polite"}
McImages == {[file |-> TRUE, type |-> t, wp |-> FALSE] : t \in {"JV1", "DMK"}}
\* SEEK and STEP go like RESTORE; READM and WRITEM are refused like a READTRK
\* of a JV1 image.
McOps == Commands \ {"SEEK", "STEP", "READM", "WRITEM"}
McReads == {0, 2}
McIrqMasks == {{}}
McNmiMasks == {{"intrq"}}
=============================================================================
