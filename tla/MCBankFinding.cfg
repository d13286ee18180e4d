SPECIFICATION Spec
CONSTANTS
  Builds <- GenieOnly
  Writes <- McWrites
  Modes <- McModes
  Addresses <- McAddresses
  SaveDepth = 0
INVARIANTS
  BankIsSelected
