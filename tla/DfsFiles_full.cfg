SPECIFICATION Spec
CONSTANTS
  Names = {a, b}
  SectorSize = 1
  TotalSectors = 4
  MaxFiles = 2
  Lengths = {2}
  NumChannels = 2
  PreAlloc = 1
  ExtendStep = 1
SYMMETRY NameSymmetry
VIEW LiveState
CONSTRAINT BoundedExtension
INVARIANTS
  NamesUnique
  OpenFilesStay
PROPERTIES
  LockedFilesStay
  ExtentsKept
