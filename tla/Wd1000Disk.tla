----------------------------- MODULE Wd1000Disk -----------------------------
(***************************************************************************)
(* What a guest may expect of the WD1000's transfers.  The task file is    *)
(* live: until the last byte has moved, some register accesses leave a     *)
(* transfer alone and others redirect or end it.  A history records what   *)
(* the last command was asked for, and whether it has been disturbed: by a *)
(* write to SDH, a reading of the write-protect register, a reset, a byte  *)
(* that is no command, a byte pushed into a READ, or the menu changing its *)
(* drive or the status.                                                    *)
(***************************************************************************)
EXTENDS Wd1000

VARIABLES req,    \* drive, sector size and first cell of the last command
          void    \* it has been disturbed since

dvars == <<vars, req, void>>

\* The n-th sector of a drive follows n others of the same size.
FirstCell(dr) ==
  secsize * (((cyl * dr.heads + head) * dr.secs)
             + (IF secnum = dr.secs THEN 0 ELSE secnum))

NoRequest == [drive |-> 0, size |-> 0, cell |-> 0]

DiskInit == Init /\ req = NoRequest /\ void = TRUE

\* Port accesses, host events and menu calls a transfer does not notice.
Harmless ==
  \/ \E v \in GuestCounts : WriteSeccnt(v)
  \/ \E v \in GuestSectors : WriteSecnum(v)
  \/ \E v \in GuestCylLo : WriteCylLo(v)
  \/ \E v \in GuestCylHi : WriteCylHi(v)
  \/ DataIn
  \/ command # "READ" /\ \E v \in GuestByte : DataOut(v)
  \/ \E u \in Units : u # drive /\ Remove(u)
  \/ \E i \in Images, m \in HostModes : HostChmod(i, m)

Disturbing ==
  \/ SoftReset \/ PowerOn \/ ReadWp
  \/ \E s \in GuestSdh : WriteSdh(s)
  \/ command = "READ" /\ \E v \in GuestByte : DataOut(v)
  \/ Remove(drive)
  \/ \E u \in Units : ToggleWriteProtect(u) \/ \E i \in Images : Attach(u, i)

Commanded ==
  /\ \E op \in Commands, multi \in BOOLEAN : Command(op, multi)
  /\ void' = (command' = "OTHER")
  /\ req' = IF void' \/ ~d'[drive].open THEN NoRequest
            ELSE [drive |-> drive, size |-> secsize, cell |-> FirstCell(d'[drive])]

DiskNext ==
  \/ Harmless /\ UNCHANGED <<req, void>>
  \/ Disturbing /\ void' = TRUE /\ req' = NoRequest
  \/ Commanded

DiskSpec == DiskInit /\ [][DiskNext]_dvars

-----------------------------------------------------------------------------
Contents(u) == host[d[u].name].data

\* While a request for data stands, there is a byte to move (unless the size
\* was never set), and a WRITE's stream waits at the sector asked for,
\* whatever has been written to the other registers since.
TransferAimed ==
  ~void /\ status = "DRQ" =>
    /\ command \in {"READ", "WRITE"} /\ d[req.drive].open
    /\ bytesdone < req.size \/ req.size = 0
    /\ command = "WRITE" => d[req.drive].pos = HdrLen + req.cell

\* A READ without error holds the sector asked for, as far as the file goes;
\* a WRITE reported done has put the whole buffer there.
SectorInPlace ==
  ~void /\ <<command, status>> \in {<<"READ", "DRQ">>, <<"READ", "READY">>,
                                   <<"WRITE", "READY">>} =>
    /\ d[req.drive].open
    /\ command = "WRITE" => req.cell + req.size <= Len(Contents(req.drive))
    /\ \A k \in 1..req.size : req.cell + k <= Len(Contents(req.drive)) =>
         buf[k] = Contents(req.drive)[req.cell + k]

\* Nothing ever changes an image but the one in the selected drive, or any
\* header's magic; an undisturbed WRITE changes its sector alone, and FORMAT
\* after an undisturbed SEEK or VERIFY only the sectors from there on.
Touched(i, j) == ByteAt(host'[i], j) # ByteAt(host[i], j)

OnlyAddressedSector ==
  [][\A i \in Images :
       /\ host'[i].hdr.id = host[i].hdr.id
       /\ \A j \in 1..Len(host'[i].data) : Touched(i, j) =>
            /\ i = d[drive].name
            /\ command' = "WRITE" /\ ~void => j - req.cell \in 1..req.size
            /\ command = "SEEK" /\ ~void /\ status = "READY" =>
                 j - req.cell \in 1..(seccnt * req.size)]_dvars
=============================================================================
