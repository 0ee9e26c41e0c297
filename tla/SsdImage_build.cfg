SPECIFICATION Spec
CONSTANTS
  Names <- MCNames
  SectorSize = 2
  TotalSectors = 7
  MaxFiles = 4
  HostDirs <- MCHostDirs
  Truncate <- MCTruncate
  NameRank <- MCNameRank
  RomFiles <- MCRomFiles
INVARIANTS
  MadeWellFormed
  OwnBodies
  AllIncluded
PROPERTIES
  ReorderSound
  Finishes
CHECK_DEADLOCK FALSE
