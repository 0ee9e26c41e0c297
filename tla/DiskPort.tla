------------------------------ MODULE DiskPort ------------------------------
(***************************************************************************)
(* What a disk device is to the ROM: drives that hold media, and media     *)
(* that hold sectors.  Nothing of how a medium is named or found shows.    *)
(***************************************************************************)
EXTENDS Integers, Sequences

CONSTANTS
  Drives,
  Sizes,     \* numbers of sectors a medium can be given
  Values,    \* contents of a sector
  Lbas,      \* sector numbers
  Zero,      \* the contents of one never written
  Formatted, \* a freshly formatted medium of a size
  None

VARIABLES
  media,     \* the sectors of each medium; there are ever more media
  inDrive    \* the medium in a drive

vars == <<media, inDrive>>

Medium(n) == [i \in 1 .. n |-> Zero]

Init ==
  /\ media \in Seq(Seq(Values)) /\ inDrive = [d \in Drives |-> None]

Make == \E n \in Sizes : media' = Append(media, Medium(n)) /\ UNCHANGED inDrive

Insert(d) ==
  /\ \E m \in DOMAIN media : inDrive' = [inDrive EXCEPT ![d] = m]
  /\ UNCHANGED media

Remove(d) == inDrive' = [inDrive EXCEPT ![d] = None] /\ UNCHANGED media

Format(d) ==
  /\ inDrive[d] # None
  /\ \E n \in Sizes : media' = [media EXCEPT ![inDrive[d]] = Formatted[n]]
  /\ UNCHANGED inDrive

\* A sector past the end makes the medium longer.
Write(d) ==
  /\ inDrive[d] # None
  /\ \E lba \in Lbas, v \in Values :
       LET old == media[inDrive[d]]
           n   == IF lba < Len(old) THEN Len(old) ELSE lba + 1
       IN  media' = [media EXCEPT ![inDrive[d]] =
                       [i \in 1 .. n |-> IF i = lba + 1 THEN v
                                         ELSE IF i <= Len(old) THEN old[i] ELSE Zero]]
  /\ UNCHANGED inDrive

Next ==
  \/ Make
  \/ \E d \in Drives : Insert(d) \/ Remove(d) \/ Format(d) \/ Write(d)

Spec == Init /\ [][Next]_vars
=============================================================================
