---------------------------- MODULE MCDiskDevice ----------------------------
(***************************************************************************)
(* An instance of DiskDevice for TLC: names relative, in the boot folder,  *)
(* in another one, and with a drive only.                                  *)
(***************************************************************************)
EXTENDS DiskDevice

CONSTANTS boot, new, here, there, sd0

Name(dir, prefix, leaf) == [dir |-> dir, prefix |-> prefix, leaf |-> leaf]

SomeTargets == {Name(None, None, boot), Name(None, None, new),
                Name(here, None, new), Name(there, None, new), Name(None, sd0, new)}

SomeCopies == {Name(there, None, boot)}

OneSector == <<"boot">>

\* The hosts and the disks share no variable: a behaviour has one or the other.
OneService ==
  \/ Len(uses) = 1 /\ history = uses
  \/ record = << >> /\ Len(images) = 2 /\ mapped = {}
=============================================================================
