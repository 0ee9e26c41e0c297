----------------------------- MODULE MCDfsFiles -----------------------------
(***************************************************************************)
(* Instances of DfsFiles for TLC.                                          *)
(***************************************************************************)
EXTENDS DfsFiles, TLC

NameSymmetry == Permutations(Names)

\* While the copy is disowned no operation reads it (Cat), so states that
\* differ in nothing else are one.
LiveState == <<disk, Cat, valid, chan>>

\* An extension may be repeated, each time over more of the disk; two
\* granules, and one sector past the end of the disk, are enough.
BoundedExtension ==
  /\ \A c \in DOMAIN chan : chan[c].alloc <= 2 * ExtendStep
  /\ \A i \in DOMAIN disk : EndOf(disk[i]) <= TotalSectors + 1
=============================================================================
