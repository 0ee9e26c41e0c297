---------------------------- MODULE MCNetChannel ----------------------------
(***************************************************************************)
(* An instance of NetChannel for TLC: pages of three bytes, so that READ   *)
(* brings two, and streams longer than a page.                             *)
(***************************************************************************)
EXTENDS NetChannel

MCContents == [u \in Urls |-> IF u = Echo THEN << >> ELSE <<11, 12, 13>>]

MCTranslations == {<<21, 22>>}

\* Bound: one stream in trouble, one of the open channels read or written,
\* and MaxPut bytes put.
Few ==
  /\ Cardinality(bad) <= 1
  /\ Cardinality({c \in Channels : chan[c].ptr + chan[c].cnt + chan[c].wpos > 0}) <= 1
  /\ MapThenSumSet(LAMBDA h : Len(put[h]), DOMAIN put) <= MaxPut
=============================================================================
