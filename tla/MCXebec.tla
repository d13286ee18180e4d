------------------------------ MODULE MCXebec ------------------------------
(***************************************************************************)
(* A small instance of XebecDisk: units of 256 bytes, so a header and a    *)
(* TCS sector are one unit, a CP/M sector two; a two-byte DCB; a zero      *)
(* sector count stands for two.                                            *)
(***************************************************************************)
EXTENDS XebecDisk

\* Two heads, one sector per track.
TwoHeads == [id |-> TRUE, wp |-> FALSE, heads |-> 2, sec |-> 2,
             cylhi |-> 0, cyllo |-> 1]

\* The file ends inside its second CP/M sector.
McImages == {[hdr |-> TwoHeads, data |-> <<"E5", "b", "E5">>, mode |-> "rw"]}

McCells == 0..7
McLuns == {0, 1}
\* A run of two sectors, every other command, and in either slot a single
\* sector on the second track.
McDcbs ==
  [op : Commands, lun : {0}, lba : {0}, count : {0}]
  \cup [op : {"READ"}, lun : McLuns, lba : {1}, count : {1}]
McBytes == {"00", "E5", "a", "b"}
McGuest == {"a"}
McModes == {"none"}
McFaults == BOOLEAN
=============================================================================
