SPECIFICATION PoliteQuietSpec
CONSTANTS
  HdrLen = 1
  Byte <- McBytes
  Zero = "00"
  None = None
  Images = {i1}
  Cells <- McCells
  Luns <- McLuns
  GuestCdbs <- DiskCdbs
  GuestByte <- McOneGuest
  Fill = "E5"
  CdbLen = 2
  CharLen = 1
  SecSize = 2
  BufLen = 2
  SecPerTrk = 32
  MaxHeads = 8
  InitialImages <- McTwoGeometries
  HostModes <- McNoModes
  IoFaults <- McFaults
INVARIANTS
  WriteIsAimed
PROPERTIES
  ImplementsDisk
  CommandsComplete
  OnlyAddressedSector
  ToggleFlips
