SPECIFICATION SnapSpec
CONSTANTS
  HdrLen = 1
  Byte <- McBytes
  Zero = "00"
  None = None
  Images = {i1}
  Cells <- McCells
  Luns <- McOneLun
  GuestCdbs <- SnapCdbs
  GuestByte <- McOneGuest
  Fill = "E5"
  CdbLen = 2
  CharLen = 1
  SecSize = 2
  BufLen = 2
  SecPerTrk = 32
  MaxHeads = 8
  InitialImages <- McShortOnly
  HostModes <- McGone
  IoFaults <- McNoFaults
  NoSnapshot = NoSnapshot
INVARIANTS
  SnapInvariants
  OnlyWritesAreFragile
PROPERTY
  LoadThenSave
