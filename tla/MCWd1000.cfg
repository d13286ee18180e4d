SPECIFICATION DiskSpec
CONSTANTS
  HdrLen = 1
  Byte <- McBytes
  Zero = "00"
  None = None
  Images = {i1}
  LastUnit = 1
  SectorSizes <- McSizes
  BufLen = 2
  GuestByte <- McGuest
  GuestCounts <- McCounts
  GuestSectors <- McSectors
  GuestCylLo <- McCylLo
  GuestCylHi <- McCylHi
  GuestSdh <- McSdh
  SecPerTrk = 32
  MaxHeads = 8
  InitialImages <- McImages
  HostModes <- McModes
  FileMax = 4
  IoFaults <- McFaults
INVARIANTS
  TransferAimed
  SectorInPlace
PROPERTIES
  OnlyAddressedSector
