----------------------------- MODULE MCDriveMap -----------------------------
(***************************************************************************)
(* Instances of DriveMap for TLC.                                          *)
(***************************************************************************)
EXTENDS DriveMap

OneUnit == {0, 2}

TwoUnits == {0, 1, 2, 3}

AllFaults ==
  {"mount", "mapping", "mapping_read", "unmount", "boot", "form", "read",
   "write", "session"}

=============================================================================
