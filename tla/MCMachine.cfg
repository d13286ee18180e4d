SPECIFICATION Spec
CONSTANTS
  LastDrive = 0
  SectorLen = 1
  IdLen = 1
  TrackLen = 2
  GuestOps <- McOps
  Reads <- McReads
  Opening = {TRUE}
  Models <- McModels
  Guests <- McPolite
  IrqMasks <- McIrqMasks
  NmiMasks <- McNmiMasks
  Images <- McImages
INVARIANTS
  LinesTrue
  BusyIsTimed
PROPERTIES
  TransfersAccounted
  BytesAnnounced
