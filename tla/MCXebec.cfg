SPECIFICATION PoliteDiskSpec
CONSTANTS
  HdrLen = 1
  Byte <- McBytes
  Zero = "00"
  None = None
  Images = {i1}
  Cells <- McCells
  Luns <- McLuns
  GuestDcbs <- McDcbs
  GuestByte <- McGuest
  Fill = "E5"
  DcbLen = 2
  CharLen = 1
  SenseLen = 1
  BufLen = 2
  CpmSize = 2
  TcsSize = 1
  ZeroCount = 2
  SecPerTrk = 32
  MaxHeads = 8
  InitialImages <- McImages
  HostModes <- McModes
  IoFaults <- McFaults
INVARIANTS
  BusSound
  WriteIsAimed
PROPERTIES
  Confined
  ImplementsDisk
  CommandsComplete
