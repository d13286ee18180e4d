------------------------------- MODULE Wd1000 -------------------------------
(***************************************************************************)
(* The Western Digital WD1000/1010 controller (trs_hard.c): a task file of *)
(* registers the guest may write at any moment, commands that carry them   *)
(* out at once, and single-sector transfers through one sector buffer.     *)
(* Every action is one port access, menu call or reset.                    *)
(*                                                                         *)
(* Positions, sector sizes and buffers count units of one size.  The       *)
(* control, precompensation and error registers and the ECC bit decide     *)
(* nothing and are left out.                                               *)
(***************************************************************************)
EXTENDS HardImage

CONSTANTS Images,       \* file names of the images on the host
          LastUnit,     \* TRS_HARD_MAXDRIVES - 1
          SectorSizes,  \* what the size bits of SDH stand for
          BufLen,       \* SECTORSIZE
          GuestByte, GuestCounts, GuestSectors, GuestCylLo, GuestCylHi,
          GuestSdh,     \* values the guest writes to the registers
          SecPerTrk, MaxHeads,
          InitialImages,   \* what a host file may hold when the program starts
          HostModes,       \* modes a path may be given behind its back
          FileMax,      \* bound: no write goes beyond this file length
          IoFaults      \* {FALSE}, or BOOLEAN when host I/O may fail

Units == 0..LastUnit
Sdh == [size : SectorSizes, drive : Units, head : Nat]

ASSUME NamesAssumption == None \notin Images /\ LastUnit \in Nat
\* No image stops the emulator when opened (HardMenu models those that do).
ASSUME ImagesAssumption ==
  /\ InitialImages \subseteq Image
  /\ \A f \in InitialImages : ~DividesByZero(f.hdr, SecPerTrk)
  /\ HostModes \subseteq {"rw", "ro", "none"}
ASSUME RegisterAssumption ==
  /\ BufLen \in Nat /\ FileMax \in Nat /\ SectorSizes \subseteq 1..BufLen
  /\ GuestByte \subseteq Byte
  /\ GuestCounts \subseteq 0..255 /\ GuestSectors \subseteq 0..255
  /\ GuestCylLo \subseteq 0..255 /\ GuestCylHi \subseteq 0..255
  /\ GuestSdh \subseteq Sdh
ASSUME GeometryAssumption == SecPerTrk \in Nat \ {0} /\ MaxHeads \in Nat \ {0}
ASSUME FaultsAssumption == IoFaults \subseteq BOOLEAN /\ FALSE \in IoFaults

Commands == {"RESTORE", "READ", "WRITE", "VERIFY", "FORMAT", "INIT", "SEEK",
             "UNKNOWN"}
\* What later port accesses tell apart of the last command byte.
Kind(op) == CASE op \in {"READ", "WRITE"} -> op
              [] op \in {"VERIFY", "SEEK"} -> "SEEK"
              [] OTHER -> "OTHER"

VARIABLES
  host,         \* the images on the host
  present,      \* state.present: the card answers port reads
  seccnt, secnum, cyl,
  secsize, drive, head,      \* what the SDH register decodes to
  status,       \* "DRQ", "READY" without it, or "ERROR"
  command,      \* the kind of the last command
  buf, bytesdone,
  d             \* state.d[]: the drive slots

taskfile == <<seccnt, secnum, cyl, secsize, drive, head>>
vars == <<host, present, taskfile, status, command, buf, bytesdone, d>>

ZeroBuf == [k \in 1..BufLen |-> Zero]

TypeOK ==
  /\ host \in [Images -> Image]
  /\ present \in BOOLEAN
  /\ seccnt \in 0..255 /\ secnum \in 0..255 /\ cyl \in Nat /\ cyl < 65536
  /\ secsize \in {0} \cup SectorSizes /\ drive \in Units /\ head \in Nat
  /\ status \in {"READY", "DRQ", "ERROR"} /\ command \in {Kind(op) : op \in Commands}
  /\ buf \in [1..BufLen -> Byte] /\ bytesdone \in 0..BufLen
  /\ d \in [Units -> DriveOf(Images)]

-----------------------------------------------------------------------------
HardOpen(dr) == HardImageOpen(dr, host, SecPerTrk, MaxHeads)

\* The status hard_open leaves behind, the slot having become dr.
OpenStatus(dr) == IF dr.open THEN "READY" ELSE "ERROR"

\* trs_hard_init(0): status, sector count, byte count and drives survive.
ResetRegisters ==
  /\ secnum' = 0 /\ cyl' = 0
  /\ secsize' = 0 /\ drive' = 0 /\ head' = 0
  /\ command' = "OTHER" /\ buf' = ZeroBuf

\* The reset button, and the software reset bit of the control register.
SoftReset ==
  /\ ResetRegisters
  /\ UNCHANGED <<host, present, seccnt, status, bytesdone, d>>

\* Every slot opened afresh, each setting the status register.
ReopenAll(slots) ==
  /\ d' = [k \in Units |-> HardOpen(slots[k])]
  /\ status' = OpenStatus(d'[LastUnit])

\* trs_hard_init(1): power-on, and the device enable bit.
PowerOn ==
  /\ ResetRegisters /\ seccnt' = 0
  /\ ReopenAll([k \in Units |-> [d[k] EXCEPT !.wp = FALSE, !.heads = 0, !.secs = 0]])
  /\ present' = \E k \in Units : d'[k].open
  /\ UNCHANGED <<host, bytesdone>>

\* Reading the write-protect register reopens every image to see.
ReadWp ==
  /\ present /\ ReopenAll(d)
  /\ UNCHANGED <<host, present, taskfile, command, buf, bytesdone>>

-----------------------------------------------------------------------------
\* The task file, writable at any moment, with or without a card.
SameExceptTaskfile == UNCHANGED <<host, present, command, buf, bytesdone, d>>

WriteSeccnt(v) == /\ seccnt' = v /\ SameExceptTaskfile
                  /\ UNCHANGED <<secnum, cyl, secsize, drive, head, status>>

WriteSecnum(v) == /\ secnum' = v /\ SameExceptTaskfile
                  /\ UNCHANGED <<seccnt, cyl, secsize, drive, head, status>>

WriteCyl(c) == /\ cyl' = c /\ SameExceptTaskfile
               /\ UNCHANGED <<seccnt, secnum, secsize, drive, head, status>>

WriteCylLo(v) == WriteCyl((256 * (cyl \div 256)) + v)
WriteCylHi(v) == WriteCyl((cyl % 256) + (256 * v))

\* Size, drive and head together; the drive is reported ready unseen.
WriteSdh(s) == /\ secsize' = s.size /\ drive' = s.drive /\ head' = s.head
               /\ status' = "READY" /\ SameExceptTaskfile
               /\ UNCHANGED <<seccnt, secnum, cyl>>

-----------------------------------------------------------------------------
\* hard_sector: a closed slot is opened first; the cylinder is not checked,
\* and a sector number may count from 0 or from 1.
Ready == IF d[drive].open THEN d[drive] ELSE HardOpen(d[drive])

Addressable(dr) == dr.open /\ head < dr.heads /\ secnum <= dr.secs

\* Mutant: the last sector's one-based number is not taken for sector 0.
SectorAsSent(dr) == SectorOffset(dr, secsize, cyl, head, secnum)

\* Where the task file's sector lies in slot dr's image.
Addressed(dr) == SectorOffset(dr, secsize, cyl, head, secnum % dr.secs)

Sought == [Ready EXCEPT !.pos = Addressed(Ready)]

\* No image, an address out of bounds, or fseek failing.
SectorRefused ==
  /\ ~Addressable(Ready) \/ TRUE \in IoFaults
  /\ d' = [d EXCEPT ![drive] = Ready]
  /\ status' = "ERROR"
  /\ UNCHANGED <<buf, host>>

Read ==
  /\ Addressable(Ready)
  /\ \E o \in FreadOutcomes(Sought, host[Ready.name], buf, secsize, IoFaults) :
       /\ buf' = o.buf
       /\ d' = [d EXCEPT ![drive] = o.drive]
       /\ status' = IF o.ok THEN "DRQ" ELSE "ERROR"
  /\ UNCHANGED host

\* Write, Verify and Seek only move the stream.
Position(newstatus) ==
  /\ Addressable(Ready)
  /\ d' = [d EXCEPT ![drive] = Sought]
  /\ status' = newstatus
  /\ UNCHANGED <<buf, host>>

\* The bound on file lengths: streams could be driven on for ever, by FORMAT
\* after FORMAT, or by a refused WRITE made good through the SDH register.
Fits(dr, n) == dr.pos + n <= HdrLen + FileMax

\* Format: zeros for as many sectors as the sector count says, from where the
\* stream stands.  An empty drive formats well.
Format ==
  \/ /\ ~d[drive].open
     /\ seccnt' = 0 /\ status' = "READY" /\ UNCHANGED <<buf, host, d>>
  \/ LET n == seccnt * secsize
         zeros == [k \in 1..n |-> Zero]
     IN /\ d[drive].open /\ Fits(d[drive], n)
        /\ buf' = ZeroBuf
        /\ \E o \in FwriteOutcomes(d[drive], host[d[drive].name], zeros, n, IoFaults) :
             /\ host' = [host EXCEPT ![d[drive].name] = o.file]
             /\ d' = [d EXCEPT ![drive] = o.drive]
             /\ \/ o.ok /\ seccnt' = 0 /\ status' = "READY"
                \/ ~o.ok /\ status' = "ERROR" /\ UNCHANGED seccnt

\* Restore, Init and bytes that are no command.
Trivial(op) ==
  /\ \/ op = "RESTORE" /\ cyl' = 0 /\ status' = "READY"
     \/ op = "INIT" /\ status' = "READY" /\ UNCHANGED cyl
     \/ op = "UNKNOWN" /\ UNCHANGED <<cyl, status>>
  /\ UNCHANGED <<seccnt, buf, host, d>>

\* The multiple-sector flag means something to READ and WRITE only, which
\* refuse it.
Execute(op, multi) ==
  \/ op \in {"RESTORE", "INIT", "UNKNOWN"} /\ ~multi /\ Trivial(op)
  \/ op = "FORMAT" /\ ~multi /\ Format /\ UNCHANGED cyl
  \/ /\ op \in {"READ", "WRITE"} /\ multi
     /\ status' = "ERROR" /\ UNCHANGED <<seccnt, cyl, buf, host, d>>
  \/ /\ op \in {"READ", "WRITE", "VERIFY", "SEEK"} /\ ~multi
     /\ \/ op = "READ" /\ Read
        \/ op = "WRITE" /\ Position("DRQ")
        \/ op \in {"VERIFY", "SEEK"} /\ Position("READY")
        \/ SectorRefused
     /\ UNCHANGED <<seccnt, cyl>>

\* Mutant: the byte count of the command before is kept.
CommandContinues(op, multi) ==
  /\ command' = Kind(op) /\ UNCHANGED bytesdone
  /\ Execute(op, multi)
  /\ UNCHANGED <<present, secnum, secsize, drive, head>>

Command(op, multi) ==
  /\ command' = Kind(op) /\ bytesdone' = 0
  /\ Execute(op, multi)
  /\ UNCHANGED <<present, secnum, secsize, drive, head>>

-----------------------------------------------------------------------------

\* Bytes of the sector left to move.
Room == bytesdone < secsize

\* hard_data_in, when it has a byte to give: DRQ drops with the first.
DataIn ==
  /\ present /\ command = "READ" /\ status # "ERROR" /\ Room
  /\ bytesdone' = bytesdone + 1 /\ status' = "READY"
  /\ UNCHANGED <<host, present, taskfile, command, buf, d>>

\* Mutant: the sector is written before its last byte is stored.
SectorOutEarly ==
  \E o \in FwriteOutcomes(d[drive], host[d[drive].name], buf, secsize, IoFaults) :
    /\ host' = [host EXCEPT ![d[drive].name] = o.file]
    /\ d' = [d EXCEPT ![drive] = o.drive]
    /\ status' = IF o.ok THEN "READY" ELSE "ERROR"

SectorOut ==
  \E o \in FwriteOutcomes(d[drive], host[d[drive].name], buf', secsize, IoFaults) :
    /\ host' = [host EXCEPT ![d[drive].name] = o.file]
    /\ d' = [d EXCEPT ![drive] = o.drive]
    /\ status' = IF o.ok THEN "READY" ELSE "ERROR"

\* hard_data_out: any command stores bytes, a full WRITE buffer is written
\* where the stream stands.  With no stream it is dropped and taken for
\* written.
DataOut(v) ==
  /\ Room
  /\ buf' = [buf EXCEPT ![bytesdone + 1] = v]
  /\ bytesdone' = bytesdone + 1
  /\ LET full == bytesdone' = secsize /\ command = "WRITE" /\ status # "ERROR"
     IN \/ full /\ d[drive].open /\ Fits(d[drive], secsize) /\ SectorOut
        \/ full /\ ~d[drive].open /\ status' = "READY" /\ UNCHANGED <<host, d>>
        \/ ~full /\ UNCHANGED <<host, d, status>>
  /\ UNCHANGED <<present, taskfile, command>>

-----------------------------------------------------------------------------
\* trs_hard_attach and trs_hard_remove.  An image is in one slot at a time.
Attach(u, i) ==
  /\ \A k \in Units \ {u} : d[k].name # i
  /\ d' = [d EXCEPT ![u] = SlotWith(i, host, SecPerTrk, MaxHeads)]
  /\ status' = OpenStatus(d'[u])
  /\ UNCHANGED <<host, present, taskfile, command, buf, bytesdone>>

Remove(u) ==
  /\ d' = [d EXCEPT ![u] = EmptyDrive]
  /\ UNCHANGED <<host, present, taskfile, status, command, buf, bytesdone>>

\* trs_write_protect: the slot is emptied, the header's flag and the file's
\* mode are rewritten, and the image is attached again.
ToggleWriteProtect(u) ==
  LET i == d[u].name
  IN /\ i # None /\ host[i].mode # "none"
     /\ host' = [host EXCEPT ![i] = Protected(@, ~d[u].wp)]
     /\ d' = [d EXCEPT ![u] = SlotWith(i, host', SecPerTrk, MaxHeads)]
     /\ status' = OpenStatus(d'[u])
     /\ UNCHANGED <<present, taskfile, command, buf, bytesdone>>

\* Someone changes or withdraws the image's path outside the emulator.
HostChmod(i, m) ==
  /\ host' = [host EXCEPT ![i].mode = m]
  /\ UNCHANGED <<present, taskfile, status, command, buf, bytesdone, d>>

-----------------------------------------------------------------------------
\* Just after power-on with any images configured.
Configured == {c \in [Units -> Images \cup {None}] :
                 \A k, l \in Units : c[k] = c[l] /\ c[k] # None => k = l}

Init ==
  /\ host \in [Images -> InitialImages]
  /\ seccnt = 0 /\ secnum = 0 /\ cyl = 0
  /\ secsize = 0 /\ drive = 0 /\ head = 0
  /\ command = "OTHER" /\ buf = ZeroBuf /\ bytesdone = 0
  /\ \E c \in Configured :
       d = [k \in Units |-> HardOpen([EmptyDrive EXCEPT !.name = c[k]])]
  /\ present = \E k \in Units : d[k].open
  /\ status = OpenStatus(d[LastUnit])

Next ==
  \/ SoftReset \/ PowerOn \/ ReadWp \/ DataIn
  \/ \E v \in GuestCounts : WriteSeccnt(v)
  \/ \E v \in GuestSectors : WriteSecnum(v)
  \/ \E v \in GuestCylLo : WriteCylLo(v)
  \/ \E v \in GuestCylHi : WriteCylHi(v)
  \/ \E s \in GuestSdh : WriteSdh(s)
  \/ \E op \in Commands, multi \in BOOLEAN : Command(op, multi)
  \/ \E v \in GuestByte : DataOut(v)
  \/ \E u \in Units : Remove(u) \/ ToggleWriteProtect(u)
  \/ \E u \in Units, i \in Images : Attach(u, i)
  \/ \E i \in Images, m \in HostModes : HostChmod(i, m)

Spec == Init /\ [][Next]_vars
=============================================================================
