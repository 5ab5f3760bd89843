SPECIFICATION Spec
CONSTANTS
  NClusters = 6
  FatEntries = 4
  SectorSlots = 3
  SectorBytes = 2
  Name <- NameDef
  Data <- SeqData
  Sizes <- SeqSizes
  DirectoryLimit = 6
  PathDepth = 2
  Volumes <- SeqVolumes
  MaxPins = 0
  MaxOps = 2
INVARIANTS
  VolumeSound
  AuditStaysTrue
  SuccessIsDurable
  NoLeakWhenClean
PROPERTIES
  Refinement
