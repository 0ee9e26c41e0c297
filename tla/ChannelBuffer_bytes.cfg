SPECIFICATION Spec
CONSTANTS
  Byte = {0, 1}
  Zero = 0
  SectorSize = 2
  MaxSectors = 2
  ExtendStep = 2
  Faults = {}
INVARIANTS
  BufferIsPtrs
  BufferAgrees
  PointersInFile
PROPERTIES
  Implements
