----------------------------- MODULE MCSsdImage -----------------------------
(***************************************************************************)
(* Instances of SsdImage for TLC: a few host directories in which names    *)
(* meet in every way the scripts tell apart.                               *)
(***************************************************************************)
EXTENDS SsdImage, TLC

\* Two long stems that are the same after seven characters.
MCTruncate(stem, ext) == IF stem \in {"longer1", "longer2"} THEN "BAR" ELSE "FOO"

MCNames == {"$", "A", "R"} \X {"FOO", "BAR"}

\* Python's order: by directory, then by leaf.
MCNameRank ==
  [n \in MCNames |-> (CASE n[1] = "$" -> 0 [] n[1] = "A" -> 2 [] n[1] = "R" -> 4)
                        + IF n[2] = "BAR" THEN 0 ELSE 1]

Spelt(p, s, e) == [prefix |-> p, stem |-> s, ext |-> e]
NoName == [kind |-> "none", name |-> Spelt("", "", ""), locked |-> FALSE]
Bad == [NoName EXCEPT !.kind = "bad"]
Says(p, s) == [kind |-> "name", name |-> Spelt(p, s, ""), locked |-> TRUE]

Plain(p, s, e, size) ==
  [name |-> Spelt(p, s, e), size |-> size, hidden |-> FALSE,
   rem |-> NoName, inf |-> NoName]

Hidden(f) == [f EXCEPT !.hidden = TRUE]
WithInf(f, inf) == [f EXCEPT !.inf = inf]
WithRem(f, rem) == [f EXCEPT !.rem = rem]

\* A root file and an A file with one leaf; an empty file before a longer one;
\* a hidden file.
Mixed(size) ==
  <<Hidden(Plain("", "foo", "", 1)), Plain("A", "foo", "", size),
    Plain("", "foo", "", 0), Plain("", "longer1", "txt", size)>>

\* A program with a REM name, a program and a data file with sidecars.
Programs(size) ==
  <<WithRem(Plain("A", "foo", "bas", size), Says("", "longer2")),
    WithInf(Plain("", "foo", "bas", 1), Says("A", "foo")),
    WithInf(Plain("", "longer1", "", 0), Says("R", "foo"))>>

Broken ==
  {<<WithRem(Plain("", "foo", "bas", 1), Bad)>>,
   <<WithInf(Plain("", "foo", "", 1), Bad)>>,
   <<Hidden(Plain("", "foo", "", 1))>>}

\* Two host names that become one DFS name.
Twins == <<Plain("", "foo", "", 1), Plain("", "foo", "txt", 2)>>

\* A data file A.FOO and a program A.FOO.bas, listed as $.FOO.
Clash == <<Plain("A", "foo", "", 2), Plain("A", "foo", "bas", 1)>>

MCHostDirs ==
  {Mixed(s) : s \in 1 .. 3} \cup {Programs(s) : s \in 0 .. 3} \cup Broken
    \cup {Twins, Clash}

MCRomFiles == {<<<<"$", "BAR">>, 1>>, <<<<"A", "FOO">>, 3>>, <<<<"R", "FOO">>, 0>>}
=============================================================================
