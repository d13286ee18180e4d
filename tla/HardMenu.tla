----------------------------- MODULE HardMenu -----------------------------
(***************************************************************************)
(* The Hard Disk Management menu (gui_hard_menu) with one controller       *)
(* fitted: its geometry fields, the images it creates                      *)
(* (trs_create_blank_hard) and the slots it attaches them to.  Only the    *)
(* header of an image matters here.  One turn of the menu's loop is one    *)
(* action: a slot row it returns on refills the fields from that slot.     *)
(***************************************************************************)
EXTENDS HardImage

CONSTANTS Files, NoFile,
          Slots,           \* 0 .. nslots - 1
          SecPerTrk, MaxHeads,
          TypedCyls, TypedHeads, TypedSecs,   \* numbers typed into a field
          FoundHeaders     \* headers of images made elsewhere

ASSUME MenuAssumption ==
  /\ SecPerTrk \in 1..256 /\ MaxHeads \in 1..255
  /\ FoundHeaders \subseteq Header
  /\ Slots \subseteq Nat /\ 0 \in Slots /\ None \notin Files
  /\ NoFile \notin Header

VARIABLES file,       \* the header of each image on the host, or NoFile
          slot,       \* what each slot has open
          fields,     \* cylinders, heads, sectors
          insert,     \* "Insert Created Hard Disk Image Into Drive": 0 = None
          running     \* FALSE once the process has been killed

vars == <<file, slot, fields, insert, running>>

\* The two bytes a header has for cylinders.
Cylinders == {n \in Nat : n < 65536}
Geometry == [cyls : Cylinders, heads : Nat, secs : Nat]
Slot == [name : Files \cup {None}, cyls : Cylinders, heads : Nat, secs : Nat]
NoSlot == [name |-> None, cyls |-> 0, heads |-> 0, secs |-> 0]
Defaults == [cyls |-> 202, heads |-> 0, secs |-> 256]

TypeOK ==
  /\ file \in [Files -> Header \cup {NoFile}]
  /\ slot \in [Slots -> Slot]
  /\ fields \in Geometry
  /\ insert \in {0} \cup {s + 1 : s \in Slots}
  /\ running \in BOOLEAN

\* hdctl_getgeometry
GeometryOf(s) == [cyls |-> s.cyls, heads |-> s.heads, secs |-> s.secs]
IsOpen(s) == s.name # None

\* What attaching a file with header h leaves in the slot; h.id is FALSE of a
\* file that has other magic bytes or that fopen refuses.  Where
\* hard_image_open divides by zero the processor decides: some raise a
\* signal, others go on with a remainder the geometry check refuses.
Attached(i, h) ==
  IF h # NoFile /\ h.id /\ UsableGeometry(h, SecPerTrk, MaxHeads)
  THEN [name |-> i, cyls |-> Cyls(h), heads |-> Heads(h, SecPerTrk),
        secs |-> Secs(h, SecPerTrk)]
  ELSE NoSlot

Kills(h) == h # NoFile /\ h.id /\ DividesByZero(h, SecPerTrk)

Put(s, i, h) ==
  \/ slot' = [slot EXCEPT ![s] = Attached(i, h)] /\ UNCHANGED running
  \/ Kills(h) /\ slot' = [slot EXCEPT ![s] = NoSlot] /\ running' = FALSE

\* The fields when the loop comes round with slot s highlighted.
Filled(s) == IF IsOpen(slot'[s]) THEN GeometryOf(slot'[s]) ELSE fields

-----------------------------------------------------------------------------
\* The menu is left and entered again: defaults, then the first slot's.
Reenter ==
  /\ running
  /\ fields' = IF IsOpen(slot[0]) THEN GeometryOf(slot[0]) ELSE Defaults
  /\ UNCHANGED <<file, slot, insert, running>>

\* A file picked for a slot, or a slot emptied.
Choose(s, i) ==
  /\ running /\ file[i] # NoFile
  /\ Put(s, i, file[i])
  /\ fields' = Filled(s)
  /\ UNCHANGED <<file, insert>>

Eject(s) ==
  /\ running
  /\ slot' = [slot EXCEPT ![s] = NoSlot]
  /\ UNCHANGED <<file, fields, insert, running>>

\* A number typed into a field is taken when it is within the field's bounds.
TypeCyls(v) == v \in 3..8192 /\ fields' = [fields EXCEPT !.cyls = v]
TypeHeads(v) == v \in 0..8 /\ fields' = [fields EXCEPT !.heads = v]
TypeSecs(v) == v \in 4..256 /\ fields' = [fields EXCEPT !.secs = v]

TypeIn ==
  /\ running
  /\ \/ \E v \in TypedCyls : TypeCyls(v)
     \/ \E v \in TypedHeads : TypeHeads(v)
     \/ \E v \in TypedSecs : TypeSecs(v)
  /\ UNCHANGED <<file, slot, insert, running>>

SelectInsert ==
  /\ running
  /\ insert' \in {0} \cup {s + 1 : s \in Slots}
  /\ UNCHANGED <<file, slot, fields, running>>

\* Create Hard Disk Image with Above Parameters: the file is overwritten even
\* while a slot has it open, and attached where the menu says; then the menu
\* is left.  A file that cannot be created changes nothing.
Blank == BlankHeader(fields.cyls, fields.heads, fields.secs)

Create(i) ==
  /\ running
  /\ file' = [file EXCEPT ![i] = Blank]
  /\ IF insert = 0 THEN UNCHANGED <<slot, running>>
                   ELSE Put(insert - 1, i, Blank)
  /\ UNCHANGED <<fields, insert>>

\* The program is started again, with no images configured.
Restart ==
  /\ ~running /\ running' = TRUE
  /\ slot' = [s \in Slots |-> NoSlot]
  /\ fields' = Defaults /\ insert' = 0
  /\ UNCHANGED file

Init ==
  /\ file \in [Files -> FoundHeaders \cup {NoFile}]
  /\ slot = [s \in Slots |-> NoSlot]
  /\ fields = Defaults /\ insert = 0 /\ running = TRUE

Next ==
  \/ Reenter \/ SelectInsert \/ Restart
  \/ \E s \in Slots : Eject(s) \/ \E i \in Files : Choose(s, i)
  \/ TypeIn
  \/ \E i \in Files : Create(i)

Spec == Init /\ [][Next]_vars

-----------------------------------------------------------------------------
\* A geometry whose sectors per cylinder fit the header's byte.
Fits(g) == g.heads \in 1..MaxHeads /\ g.secs > 0 /\ g.heads * g.secs <= 256

\* Every image a slot has open can be created again from its fields.
OpenSlotsFit == \A s \in Slots : IsOpen(slot[s]) => Fits(GeometryOf(slot[s]))

\* An image created with explicit heads that fit a cylinder of 256 sectors and
\* inserted at once has exactly the geometry the fields asked for: cylinders,
\* heads and sectors, through the header's four bytes and back.  No cylinders, which
\* the fields show of a slot whose header has 0/0, stay none: reed.h:45 means 256
\* by it, and neither hard_image_open nor trs_create_blank_hard does.
CreatedAsAsked ==
  [][\A i \in Files : Create(i) /\ insert # 0 /\ Fits(fields) =>
       slot'[insert - 1].name = i /\ GeometryOf(slot'[insert - 1]) = fields]_vars

\* Creating an image kills the emulator only when its heads do not fit.
OnlyMisfitsKill ==
  [][\A i \in Files : Create(i) /\ ~running' => fields.heads * fields.secs > 256]_vars

=============================================================================
