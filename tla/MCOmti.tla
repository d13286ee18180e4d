------------------------------- MODULE MCOmti -------------------------------
(***************************************************************************)
(* Small instances of Omti: units of 256 bytes, so a header is one unit    *)
(* and a sector two; a two-byte CDB; one or two images.                    *)
(***************************************************************************)
EXTENDS OmtiDisk

\* One head, two sectors per track.
SmallHdr == [id |-> TRUE, wp |-> FALSE, heads |-> 1, sec |-> 2,
             cylhi |-> 0, cyllo |-> 1]
\* Two heads, one sector per track.
TwoHeadHdr == [SmallHdr EXCEPT !.heads = 2]

File(h, bytes, m) == [hdr |-> h, data |-> bytes, mode |-> m]

Blank == <<>>
\* One sector and a half: the file ends inside its second sector.
Short == <<"E5", "E5", "E5">>

McCells == 0..11
McLuns == {0, 1}
McOneLun == {0}

\* Addressing commands at each address, the others once per slot.
CdbsAt(luns, cyls, heads, sectors) ==
  [op : {"READ", "WRITE", "FORMAT", "SEEK"}, lun : luns, cyl : cyls,
   head : heads, sector : sectors]
  \cup [op : Commands \ {"READ", "WRITE", "FORMAT", "SEEK"}, lun : luns,
        cyl : {0}, head : {0}, sector : {0}]

\* Both sectors of one track, a head beyond it, a sector number that carries.
OneSlotCdbs == CdbsAt({0}, {0}, {0}, {0, 1}) \cup
               CdbsAt({0}, {0}, {1}, {0}) \cup CdbsAt({0}, {1}, {0}, {0})
TwoSlotCdbs == CdbsAt({0, 1}, {0}, {0}, {0, 1})
\* The sector the file ends in, in either slot.
EndCdbs == CdbsAt({0, 1}, {0}, {0}, {1})
LiveCdbs == CdbsAt({0}, {0}, {0}, {1})
\* Every command in either slot, and a head only the second geometry has.
DiskCdbs == EndCdbs \cup CdbsAt({0}, {0}, {1}, {0})
\* The commands whose data phase a snapshot can fall into.
SnapCdbs == {c \in LiveCdbs : c.op \in {"READ", "WRITE"}}
McBytes == {"00", "E5", "a", "b"}
McGuest == {"a", "b"}
McOneGuest == {"a"}
McNoFaults == {FALSE}
McFaults == BOOLEAN
McNoModes == {}
McModes == {"rw", "none"}
McGone == {"none"}

McImages == {File(SmallHdr, Short, "rw"), File([SmallHdr EXCEPT !.id = FALSE], Blank, "rw")}
McShortOnly == {File(SmallHdr, Short, "rw")}
McTwoGeometries == {File(SmallHdr, Blank, "rw"), File(TwoHeadHdr, Short, "rw")}
=============================================================================
