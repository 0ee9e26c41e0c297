SPECIFICATION QuietSpec
CONSTANTS
  Drives = {0, 2}
  Images = {boot, ssd, dsd}
  Dsds = {dsd}
  Boot = boot
  MaxCycle = 1
  Faults = {}
  None = None
INVARIANTS
  CopyFresh
  OwnCatalogue
