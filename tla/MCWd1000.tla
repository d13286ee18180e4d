------------------------------ MODULE MCWd1000 ------------------------------
(***************************************************************************)
(* A small instance of Wd1000Disk: units of 256 bytes, so that a header is *)
(* one unit; two drives selected with sector sizes of one and two units;   *)
(* an image of one sector a cylinder, known as sector 0 and as sector 1.   *)
(***************************************************************************)
EXTENDS Wd1000Disk

OneSector == [id |-> TRUE, wp |-> FALSE, heads |-> 1, sec |-> 1,
              cylhi |-> 0, cyllo |-> 1]
\* The file ends inside its second sector.
McImages == {[hdr |-> OneSector, data |-> <<"00", "a", "00">>, mode |-> "rw"]}

McBytes == {"00", "a"}
McGuest == {"a"}
McSizes == {1, 2}
McCounts == {1}
McSectors == {1}
McCylLo == {1}
McCylHi == {0}
\* The image's one head in drive 0, one beyond it in drive 1.
McSdh == {[size |-> 2, drive |-> 0, head |-> 0], [size |-> 1, drive |-> 1, head |-> 1]}
McModes == {}
McFaults == {FALSE}
=============================================================================
