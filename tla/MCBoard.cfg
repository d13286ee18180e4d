SPECIFICATION Spec
CONSTANTS
  Builds <- AllBuilds
  Writes <- McWrites
  Modes <- McModes
  Addresses <- McAddresses
  SaveDepth = 0
INVARIANTS
  OneByteEach
  InsideArrays
  OnlyLastWritesCount
PROPERTIES
  ResetFindsRom
