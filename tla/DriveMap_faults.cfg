SPECIFICATION Spec
CONSTANTS
  Drives = {0, 2}
  Images = {boot, dsd}
  Dsds = {dsd}
  Boot = boot
  MaxCycle = 0
  Faults = {"mount", "mapping", "mapping_read", "unmount", "boot", "form", "read", "session"}
  None = None
INVARIANTS
  SidesPaired
