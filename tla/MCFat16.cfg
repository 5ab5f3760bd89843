SPECIFICATION Spec
CONSTANTS
  NClusters = 6
  FatEntries = 4
  SectorSlots = 3
  SectorBytes = 2
  Name <- NameDef
  Data <- DataDef
  Sizes <- SizesDef
  DirectoryLimit = 6
  PathDepth = 2
  Volumes <- VolumesDef
  MaxPins = 1
  MaxOps = 1
INVARIANTS
  TypeOK
  CacheCoherent
  VolumeSound
  AuditStaysTrue
  SuccessIsDurable
  NoLeakWhenClean
PROPERTIES
  PinnedKeepsName
  Refinement
