SPECIFICATION Spec
CONSTANTS
  HdrLen = 1
  Byte <- McByte
  Zero = 0
  None = None
  Files = {i1}
  NoFile = NoFile
  Slots <- McSlots
  SecPerTrk = 32
  MaxHeads = 8
  TypedCyls <- McTypedCyls
  TypedHeads <- McTypedHeads
  TypedSecs <- McTypedSecs
  FoundHeaders <- McFound
INVARIANTS
  OpenSlotsFit
PROPERTIES
  CreatedAsAsked
  OnlyMisfitsKill
