----------------------------- MODULE MCHardMenu -----------------------------
(***************************************************************************)
(* One file, one slot, and the field values around each limit: 32 and 256  *)
(* sectors, 43 * 6 = 258 and 33 * 8 = 264 sectors per cylinder.            *)
(***************************************************************************)
EXTENDS HardMenu

McSlots == {0}
McByte == {0}
McTypedCyls == {2, 256, 8192}
McTypedHeads == {0, 6, 8, 9}
McTypedSecs == {3, 32, 33, 43}
\* The stock drive, a header that leaves the heads to the reader, one with
\* more heads than sectors and the same without the magic bytes, one with more
\* heads than the controller takes, one whose cylinder bytes are both zero and
\* one whose are both full.
Stock == [id |-> TRUE, wp |-> FALSE, heads |-> 4, sec |-> 68, cylhi |-> 1,
          cyllo |-> 50]
McFound == {Stock, [Stock EXCEPT !.heads = 0, !.sec = 0],
            [Stock EXCEPT !.heads = 6, !.sec = 2],
            [Stock EXCEPT !.heads = 6, !.sec = 2, !.id = FALSE],
            [Stock EXCEPT !.heads = 9, !.sec = 9],
            [Stock EXCEPT !.cylhi = 0, !.cyllo = 0],
            [Stock EXCEPT !.cylhi = 255, !.cyllo = 255]}
=============================================================================
