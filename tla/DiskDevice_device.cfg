SPECIFICATION BootSpec
CONSTANTS
  Roots = {r1, r2}
  Folders = {f}
  MaxHistory = 2
  MaxUses = 4
  Drives = {0, 1}
  Indices = {7}
  Targets <- SomeTargets
  BootDir = here
  BootLeaf = boot
  Available <- SomeCopies
  BootData <- OneSector
  CreateSize = 2
  Formats = {3}
  Lbas = {1}
  Data = {w}
  Zero = Zero
  Label = Label
  MaxImages = 4
  None = None
  boot = boot
  new = new
  here = here
  there = there
  sd0 = sd0
CONSTRAINT OneService
INVARIANTS
  HistoryIsRecent
  MappingsFollow
  ListedIsServed
  FoundByName
PROPERTIES
  Implements
CHECK_DEADLOCK FALSE
