------------------------------ MODULE ByteFile ------------------------------
(***************************************************************************)
(* What OSFIND, OSBGET, OSBPUT, OSARGS and OSGBPB promise of one disk file *)
(* to a program that has no idea of sectors: a sequence of bytes, a        *)
(* pointer into it and the answer of the last call.                        *)
(***************************************************************************)
EXTENDS Naturals, Sequences

CONSTANTS
  Byte,     \* the values of a byte
  Zero,     \* the byte that fills a file moved past its end
  MaxLen    \* bound of this model on the length of a file

VARIABLES
  text,    \* the bytes of the file
  open,    \* a channel is open on it
  ptr,     \* PTR
  eof,     \* the end has been reported once
  reply    \* what the last call gave back

vars == <<text, open, ptr, eof, reply>>

Answer(what, data) == [what |-> what, data |-> data]

Done == reply' = Answer("done", << >>)

Failed == reply' = Answer("error", << >>)

\* t with the bytes of s from position p on.
Overlay(t, p, s) ==
  LET n == IF p + Len(s) > Len(t) THEN p + Len(s) ELSE Len(t)
  IN  [i \in 1 .. n |-> IF p < i /\ i <= p + Len(s) THEN s[i - p] ELSE t[i]]

\* The first n bytes of t, with zeros after its end.
Stretched(t, n) == [i \in 1 .. n |-> IF i <= Len(t) THEN t[i] ELSE Zero]

Blocks == UNION {[1 .. n -> Byte] : n \in 1 .. MaxLen}

Init ==
  /\ text \in Seq(Byte)
  /\ ~open /\ ptr = 0 /\ ~eof
  /\ reply = Answer("done", << >>)

----------------------------------------------------------------------------
Open(empty) ==
  /\ ~open /\ open'
  /\ text' = IF empty THEN << >> ELSE text
  /\ ptr' = 0 /\ ~eof' /\ Done

\* Closing loses no byte that was put.
Close ==
  /\ open /\ ~open' /\ ptr' = 0 /\ ~eof' /\ Done
  /\ UNCHANGED text

\* The next n bytes.
Get(n) ==
  /\ open /\ n > 0 /\ ptr + n <= Len(text)
  /\ reply' = Answer("data", SubSeq(text, ptr + 1, ptr + n))
  /\ ptr' = ptr + n
  /\ UNCHANGED <<text, open, eof>>

\* At the end the caller is told once, and gets an error from then on.
GetAtEnd ==
  /\ open /\ ptr = Len(text)
  /\ reply' = IF eof THEN Answer("error", << >>) ELSE Answer("end", << >>)
  /\ eof' /\ UNCHANGED <<text, open, ptr>>

Put(s) ==
  /\ open /\ ptr + Len(s) <= MaxLen
  /\ text' = Overlay(text, ptr, s)
  /\ ptr' = ptr + Len(s)
  /\ Done /\ UNCHANGED <<open, eof>>

\* PTR may be put past the end: the file grows up to it.
Seek(p) ==
  /\ open
  /\ text' = IF p > Len(text) THEN Stretched(text, p) ELSE text
  /\ ptr' = p /\ ~eof'
  /\ Done /\ UNCHANGED open

Resize(n) ==
  /\ open
  /\ text' = Stretched(text, n)
  /\ ptr' = IF ptr > n THEN n ELSE ptr
  /\ ~eof' /\ Done /\ UNCHANGED open

\* A file that may not be written has grown by then, and does not shrink.
ResizeRefused(n) ==
  /\ open
  /\ \/ n > Len(text) /\ text' = Stretched(text, n) /\ ~eof'
     \/ n <= Len(text) /\ UNCHANGED <<text, eof>>
  /\ Failed /\ UNCHANGED <<open, ptr>>

\* A byte that may not be put; a seek or resize that would have to put one ends
\* with the pointer at the end.
PutRefused ==
  /\ open /\ Failed
  /\ \/ UNCHANGED <<ptr, eof>>
     \/ ptr' = Len(text) /\ ~eof'
  /\ UNCHANGED <<text, open>>

\* OSARGS &FF and the loss of the workspace change nothing one can see.
Sync ==
  /\ open /\ Done
  /\ UNCHANGED <<text, open, ptr, eof>>

Next ==
  \/ \E empty \in BOOLEAN : Open(empty)
  \/ \E n \in 1 .. MaxLen : Get(n)
  \/ \E s \in Blocks : Put(s)
  \/ \E n \in 0 .. MaxLen : Seek(n) \/ Resize(n) \/ ResizeRefused(n)
  \/ Close \/ GetAtEnd \/ PutRefused \/ Sync

Spec == Init /\ [][Next]_vars
=============================================================================
