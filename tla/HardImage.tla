----------------------------- MODULE HardImage -----------------------------
(***************************************************************************)
(* The Reed-format hard-disk image shared by the three controllers         *)
(* (trs_hard_image.c) and the stdio stream a controller holds on it.       *)
(*                                                                         *)
(* An image on the host is a record                                        *)
(*   hdr  - the fields of the 256-byte Reed header the emulator decodes,   *)
(*   data - the bytes after the header (the file's length is HdrLen plus   *)
(*          Len(data)),                                                    *)
(*   mode - what fopen may do with the path: "rw", "ro" or "none".         *)
(* A drive slot (struct HardImage) is a record with the file name, whether *)
(* a stream is open, the write-protect flag and decoded geometry, and the  *)
(* stream's state: its position, whether it may write, and the sticky      *)
(* error indicator (ferror) that only a new fopen clears.                  *)
(***************************************************************************)
EXTENDS Integers, Sequences

CONSTANTS HdrLen,   \* sizeof(ReedHardHeader), in the units positions count
          Byte,     \* the values a unit of the file may have
          Zero,     \* the zero byte: sparse file contents, cleared buffers
          None      \* the empty file name

ASSUME HdrLenAssumption == HdrLen \in Nat \ {0}
ASSUME ZeroAssumption == Zero \in Byte

Header == [id : BOOLEAN, wp : BOOLEAN, heads : 0..255, sec : 0..255,
           cylhi : 0..255, cyllo : 0..255]

Image == [hdr : Header, data : Seq(Byte), mode : {"rw", "ro", "none"}]

(***************************************************************************)
(* Geometry decoding                                                       *)
(***************************************************************************)
\* Mutant: a zero byte is taken as it stands.
SectorsAsStored(h) == h.sec

\* Sectors per cylinder: a zero byte stands for 256.
SectorsPerCyl(h) == IF h.sec = 0 THEN 256 ELSE h.sec

Cyls(h) == 256 * h.cylhi + h.cyllo

Heads(h, spt) == IF h.heads = 0 THEN SectorsPerCyl(h) \div spt ELSE h.heads
Secs(h, spt)  == IF h.heads = 0 THEN spt ELSE SectorsPerCyl(h) \div h.heads

\* More heads than sectors per cylinder: d->secs is 0 and the check that
\* follows divides by it.
DividesByZero(h, spt) == Secs(h, spt) = 0

\* Mutant: the number of heads is not limited.
AnyHeads(h, spt, maxheads) ==
  ~DividesByZero(h, spt) /\ SectorsPerCyl(h) % Secs(h, spt) = 0

UsableGeometry(h, spt, maxheads) ==
  /\ ~DividesByZero(h, spt)
  /\ SectorsPerCyl(h) % Secs(h, spt) = 0
  /\ Heads(h, spt) \in 1..maxheads

(***************************************************************************)
(* Drive slots                                                             *)
(***************************************************************************)
\* What a slot may hold, names being the files one may be given.
DriveOf(names) ==
  [name : names \cup {None}, open : BOOLEAN, wp : BOOLEAN, heads : Nat,
   secs : Nat, pos : Nat, canWrite : BOOLEAN, err : BOOLEAN]

\* A slot with no image, and what a slot's fields hold once closed.
EmptyDrive == [name |-> None, open |-> FALSE, wp |-> FALSE, heads |-> 0,
               secs |-> 0, pos |-> 0, canWrite |-> FALSE, err |-> FALSE]

Closed(dr) == [dr EXCEPT !.name = None, !.open = FALSE, !.pos = 0,
                         !.canWrite = FALSE, !.err = FALSE]

\* Mutant: the header's flag is not looked at.
ModeOnly(f) == f.mode = "ro"

\* What d->writeprot becomes: no permission to write, or the header's flag.
WriteProtected(f) == f.mode = "ro" \/ f.hdr.wp

\* hard_image_open on slot dr, f being the host file of its name.  Success
\* leaves the stream just after the header; each way to fail clears the name
\* and keeps what had been decoded so far.
OpenFrom(dr, f, spt, maxheads) ==
  LET ro == f.mode = "ro"
      geom == [dr EXCEPT !.wp = WriteProtected(f),
                         !.heads = Heads(f.hdr, spt), !.secs = Secs(f.hdr, spt)]
  IN CASE f.mode = "none" -> Closed(dr)
       [] f.mode # "none" /\ ~f.hdr.id -> Closed([dr EXCEPT !.wp = ro])
       [] f.mode # "none" /\ f.hdr.id
            /\ ~UsableGeometry(f.hdr, spt, maxheads) -> Closed(geom)
       [] OTHER -> [geom EXCEPT !.open = TRUE, !.pos = HdrLen,
                                !.canWrite = ~ro, !.err = FALSE]

HardImageOpen(dr, host, spt, maxheads) ==
  IF dr.name = None THEN Closed(dr)
                    ELSE OpenFrom(dr, host[dr.name], spt, maxheads)

\* A slot given image i: trs_*_attach, which empties it again when the image
\* cannot be opened.
SlotWith(i, host, spt, maxheads) ==
  LET dr == HardImageOpen([EmptyDrive EXCEPT !.name = i], host, spt, maxheads)
  IN IF dr.open THEN dr ELSE EmptyDrive

\* Mutant: the flag is or-ed into the header and never cleared.
ProtectedForGood(f, on) ==
  [f EXCEPT !.hdr = [@ EXCEPT !.wp = @ \/ on], !.mode = IF on THEN "ro" ELSE "rw"]

\* trs_write_protect on the image's file: the header's flag and the mode.
Protected(f, on) ==
  [f EXCEPT !.hdr = [@ EXCEPT !.wp = on], !.mode = IF on THEN "ro" ELSE "rw"]

\* Mutant: a file that cannot be opened again keeps its slot's name.
SlotLoadedKeepsName(saved, host) ==
  IF saved.open /\ host[saved.name].mode = "none"
  THEN [saved EXCEPT !.open = FALSE, !.wp = FALSE] ELSE saved

\* The slot a state load rebuilds from a saved one: the saved name and
\* geometry, a stream at offset 0, and write protection from the mode alone.
SlotLoaded(saved, host) ==
  IF ~saved.open THEN saved
  ELSE LET m == host[saved.name].mode
       IN IF m = "none" THEN [Closed(saved) EXCEPT !.wp = FALSE]
          ELSE [saved EXCEPT !.wp = (m = "ro"), !.canWrite = (m = "rw"),
                             !.pos = 0, !.err = FALSE]

\* Mutant: the header is not skipped.
OffsetFromStart(dr, secsize, cyl, head, sec) ==
  secsize * ((cyl * dr.heads + head) * dr.secs + sec)

\* File offset of a sector, with the slot's decoded geometry.
SectorOffset(dr, secsize, cyl, head, sec) ==
  HdrLen + secsize * ((cyl * dr.heads + head) * dr.secs + sec)

(***************************************************************************)
(* The stream                                                              *)
(***************************************************************************)
\* Byte j after the header, the file being continued by zeros.
ByteAt(f, j) == IF j <= Len(f.data) THEN f.data[j] ELSE Zero

\* What is left of buffer old when n bytes are read into it at offset pos:
\* bytes past the end of the file keep their old values.
FreadInto(old, f, pos, n) ==
  [k \in DOMAIN old |->
     LET j == pos - HdrLen + k
     IN IF k <= n /\ j \in 1..Len(f.data) THEN f.data[j] ELSE old[k]]

\* The number of bytes fread returns.
FreadCount(f, pos, n) ==
  LET left == HdrLen + Len(f.data) - pos
  IN IF left <= 0 THEN 0 ELSE IF left < n THEN left ELSE n

\* The file after n bytes of buffer b are written at offset pos: a gap is
\* filled with zeros, and bytes that fall on the header destroy it (guest
\* data is never a Reed header).
FwriteFrom(b, f, pos, n) ==
  LET end == pos + n - HdrLen
      len == IF end > Len(f.data) THEN end ELSE Len(f.data)
  IN IF n = 0 THEN f ELSE
     [f EXCEPT !.hdr = IF pos >= HdrLen THEN @ ELSE [@ EXCEPT !.id = FALSE],
               !.data = [j \in 1..len |->
                  LET k == HdrLen + j - pos
                  IN IF k \in 1..n THEN b[k]
                     ELSE ByteAt(f, j)]]

\* fwrite of n bytes of b by slot dr's stream into its file f: a read-only
\* stream refuses them all (EBADF), a failing host takes only some.
FwriteOutcomes(dr, f, b, n, faults) ==
  LET Out(k, ok) == [ok |-> ok, file |-> FwriteFrom(b, f, dr.pos, k),
                     drive |-> [dr EXCEPT !.pos = @ + k, !.err = IF ok THEN @ ELSE TRUE]]
  IN IF ~dr.canWrite /\ n > 0 THEN {Out(0, FALSE)}
     ELSE {Out(n, TRUE)} \cup
          {Out(k, FALSE) : k \in IF TRUE \in faults THEN 0..(n - 1) ELSE {}}

\* fread of n bytes into b.  A short count alone is no error, but with the
\* stream's error indicator left set by an earlier failure it is taken for
\* one.
FreadOutcomes(dr, f, b, n, faults) ==
  LET got == FreadCount(f, dr.pos, n)
      Out(k, ok, err) == [ok |-> ok, buf |-> FreadInto(b, f, dr.pos, k),
                          drive |-> [dr EXCEPT !.pos = @ + k, !.err = err]]
  IN {Out(got, got = n \/ ~dr.err, dr.err)} \cup
     {Out(k, FALSE, TRUE) : k \in IF TRUE \in faults THEN 0..(n - 1) \cap 0..got ELSE {}}

(***************************************************************************)
(* trs_create_blank_hard: the header byte for sectors per cylinder keeps   *)
(* only the low eight bits of the product, the head count only eight.      *)
(***************************************************************************)
\* Mutant: the cylinders are stored like the heads, in one byte.
OneByteCylinders(cyls, heads, secs) ==
  [id |-> TRUE, wp |-> FALSE, heads |-> heads % 256,
   sec |-> (IF heads = 0 THEN secs ELSE heads * secs) % 256,
   cylhi |-> 0, cyllo |-> cyls % 256]

BlankHeader(cyls, heads, secs) ==
  [id |-> TRUE, wp |-> FALSE, heads |-> heads % 256,
   sec |-> (IF heads = 0 THEN secs ELSE heads * secs) % 256,
   cylhi |-> (cyls \div 256) % 256, cyllo |-> cyls % 256]
=============================================================================
