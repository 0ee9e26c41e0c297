SPECIFICATION ExtendSpec
CONSTANTS
  Names = {a, b, c}
  SectorSize = 2
  TotalSectors = 9
  MaxFiles = 2
  Lengths = {3}
  NumChannels = 2
  PreAlloc = 1
  ExtendStep = 2
SYMMETRY NameSymmetry
VIEW LiveState
INVARIANT
  NoOverlap
