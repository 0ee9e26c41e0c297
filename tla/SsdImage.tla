------------------------------ MODULE SsdImage ------------------------------
(***************************************************************************)
(* Making a disk image from a host directory (src/scripts/create_ssd.py,   *)
(* the path without dfstool), reordering its catalogue                     *)
(* (src/scripts/fix_dfs_catalog.py), and the ROM's first-fit saves and     *)
(* deletions on the result.                                                *)
(*                                                                         *)
(* create_ssd copies or tokenises each host file into a staging directory, *)
(* keeps an entry with the path of the copy, and reads the copies back     *)
(* when it packs the image.  Host names are records, cut and upper-cased   *)
(* by the parameter Truncate; load and execution addresses, the title and  *)
(* what is printed are left out, and sizes are those after tokenising.     *)
(***************************************************************************)
EXTENDS DfsCatalogue, FiniteSets

CONSTANTS
  HostDirs,        \* input directories: sequences of host files, by name
  Truncate(_, _),  \* a stem and an extension, as seven upper-case characters
  NameRank,        \* position of a DFS name in the order of Python's strings
  RomFiles         \* names and lengths in bytes of the files the ROM saves

Root == "$"
NoPrefix == ""
NoExt == ""

\* A name as it is spelt on the host, in a REM line or in a sidecar.
Spelling == [prefix : STRING, stem : STRING, ext : STRING]

\* rem and inf: "none", "bad" (cannot be parsed) or the name they give.
Given == [kind : {"none", "bad", "name"}, name : Spelling, locked : BOOLEAN]

HostFile == [name : Spelling, size : Nat, hidden : BOOLEAN,
             rem : Given, inf : Given]

VARIABLES
  host,      \* the input directory
  pending,   \* indices of the host files still to be staged
  staged,    \* staging name -> index of the host file its bytes come from
  entries,   \* manifest entries, in order
  placed,    \* entries given their sectors, as rows
  bodies,    \* index of the host file whose bytes each placed row received
  sector,    \* first sector not yet given away
  rows,      \* the catalogue of the image
  phase      \* staging, placing, made, fixed or failed

inputs == <<host, pending, staged, entries>>
packing == <<placed, bodies, sector>>
vars == <<inputs, packing, rows, phase>>

----------------------------------------------------------------------------
(* Names.                                                                  *)

\* "A.FOO.TXT" is directory A, leaf FOO.TXT; "FOO.TXT" is directory $, leaf FOO.
parse_dfs_directory_and_leaf(n) ==
  IF n.prefix # NoPrefix THEN <<n.prefix, Truncate(n.stem, n.ext)>>
                         ELSE <<Root, Truncate(n.stem, NoExt)>>

\* The REM line's name, or the host's without ".bas".
extract_filename_from_bas(f) ==
  IF f.rem.kind = "none" THEN [f.name EXCEPT !.ext = NoExt] ELSE f.rem.name

\* A program is listed in the root directory, but staged under the directory
\* of its host name.
BasName(f) ==
  <<Root, parse_dfs_directory_and_leaf(extract_filename_from_bas(f))[2]>>

BasStaged(f) == <<parse_dfs_directory_and_leaf(f.name)[1], BasName(f)[2]>>

\* Faulty variant: the directory left out.
staging_temp_name_leaf(name) == <<"R", name[2]>>

staging_temp_name(name) ==
  <<IF name[1] = Root THEN "R" ELSE name[1], name[2]>>

has_companion_inf(f) == f.inf.kind # "none"

IsBas(f) == f.name.ext = "bas" /\ ~has_companion_inf(f)

\* Faulty variant: dotfiles taken too.
Visible_with_dotfiles(d) == DOMAIN d

\* Sidecars themselves are no entries of a host directory here.
Visible(d) == {i \in DOMAIN d : ~d[i].hidden}

\* Files with a sidecar are staged first, then BASIC programs, then the rest.
Turn(f) == IF has_companion_inf(f) THEN 1 ELSE IF IsBas(f) THEN 2 ELSE 3

Precedes(d, i, j) ==
  Turn(d[i]) < Turn(d[j]) \/ (Turn(d[i]) = Turn(d[j]) /\ i <= j)

\* The names the parameter Truncate gives are DFS names.
ASSUME SsdAssumption ==
  /\ RomFiles \subseteq Names \X Nat
  /\ NameRank \in [Names -> Nat]
  /\ \A d \in HostDirs :
       /\ d \in Seq(HostFile)
       /\ \A i \in DOMAIN d :
            /\ parse_dfs_directory_and_leaf(d[i].name) \in Names
            /\ d[i].inf.kind = "name" =>
                 parse_dfs_directory_and_leaf(d[i].inf.name) \in Names
            /\ IsBas(d[i]) => BasName(d[i]) \in Names /\ BasStaged(d[i]) \in Names

----------------------------------------------------------------------------
(* Staging: one host file a step.  Writing a staging name that exists      *)
(* already replaces its bytes.                                             *)

Init ==
  /\ host \in HostDirs
  /\ pending = Visible(host)
  /\ staged = [p \in {} |-> 0] /\ entries = << >>
  /\ placed = << >> /\ bodies = << >> /\ sector = FirstDataSector
  /\ rows = << >>
  /\ phase = "staging"

\* An entry's field file, the host file it is for, is for the properties only.
Stage(f, name, listed, locked) ==
  LET path == staging_temp_name(name)
  IN  /\ staged' = [p \in DOMAIN staged \cup {path} |->
                      IF p = path THEN f ELSE staged[p]]
      /\ entries' = Append(entries, [file |-> f, name |-> listed,
                                     locked |-> locked, path |-> path])
      /\ pending' = pending \ {f}
      /\ UNCHANGED <<host, packing, rows, phase>>

Entry == [file : Nat, name : Names, locked : BOOLEAN,
          path : {staging_temp_name(n) : n \in Names}]

\* f is the next file.
Staging(f) ==
  /\ phase = "staging" /\ f \in pending
  /\ \A g \in pending : Precedes(host, f, g)

process_inf_paired_file ==
  \E f \in pending :
    /\ Staging(f) /\ has_companion_inf(host[f]) /\ host[f].inf.kind = "name"
    /\ LET name == parse_dfs_directory_and_leaf(host[f].inf.name)
       IN  Stage(f, name, name, host[f].inf.locked)

process_bas_file ==
  \E f \in pending :
    /\ Staging(f) /\ IsBas(host[f]) /\ host[f].rem.kind # "bad"
    /\ Stage(f, BasStaged(host[f]), BasName(host[f]), FALSE)

process_data_file ==
  \E f \in pending :
    /\ Staging(f) /\ ~IsBas(host[f]) /\ ~has_companion_inf(host[f])
    /\ LET name == parse_dfs_directory_and_leaf(host[f].name)
       IN  Stage(f, name, name, FALSE)

\* Faulty variant: a sidecar that does not parse goes unnoticed.
StagingFails_bas_only ==
  /\ \E f \in pending : Staging(f) /\ IsBas(host[f])
  /\ phase' = "failed"
  /\ UNCHANGED <<inputs, packing, rows>>

\* A sidecar that does not parse.
Unparsed(file) == file.inf.kind = "bad"

\* Any program may: the tokeniser is missing or fails, or there is no name in
\* its REM line.
Untokenised(file) == IsBas(file)

\* The script ends where a file cannot be staged.
StagingFails ==
  /\ \E f \in pending : Staging(f) /\ (Unparsed(host[f]) \/ Untokenised(host[f]))
  /\ phase' = "failed"
  /\ UNCHANGED <<inputs, packing, rows>>

----------------------------------------------------------------------------
(* write_ssd: entries are given sectors in order, then listed.             *)

StartWriting ==
  /\ phase = "staging" /\ pending = {}
  /\ phase' = IF entries = << >> \/ Len(entries) > MaxFiles THEN "failed"
                                                           ELSE "placing"
  /\ UNCHANGED <<inputs, packing, rows>>

\* The body is what the staging file holds now.
Place ==
  /\ phase = "placing" /\ Len(placed) < Len(entries)
  /\ LET e == entries[Len(placed) + 1]
         len == host[staged[e.path]].size
     IN  /\ placed' = Append(placed, [name |-> e.name, start |-> sector,
                                      len |-> len, locked |-> e.locked])
         /\ bodies' = Append(bodies, staged[e.path])
         /\ sector' = sector + SectorsOf(len)
  /\ UNCHANGED <<inputs, rows, phase>>

\* The ways to list n rows, and a table listed one way.
Orders(n) == {p \in [1 .. n -> 1 .. n] : \A i, j \in 1 .. n : p[i] = p[j] => i = j}

Listed(s, p) == [i \in 1 .. Len(s) |-> s[p[i]]]

\* Faulty variant: the sort by start sector alone (and Python's is stable).
SsdBefore_start_only(s, i, j) ==
  s[i].start > s[j].start \/ (s[i].start = s[j].start /\ i < j)

\* sorted(placed, key=(-start, -length))
SsdBefore(s, i, j) ==
  \/ s[i].start > s[j].start
  \/ /\ s[i].start = s[j].start
     /\ s[i].len > s[j].len \/ (s[i].len = s[j].len /\ i < j)

write_ssd ==
  /\ phase = "placing" /\ Len(placed) = Len(entries)
  /\ \/ /\ sector > TotalSectors
        /\ phase' = "failed" /\ UNCHANGED rows
     \/ /\ sector <= TotalSectors
        /\ \E p \in Orders(Len(placed)) :
             /\ \A i, j \in 1 .. Len(placed) : i < j => SsdBefore(placed, p[i], p[j])
             /\ rows' = Listed(placed, p)
        /\ phase' = "made"
  /\ UNCHANGED <<inputs, packing>>

----------------------------------------------------------------------------
(* fix_dfs_catalog on a finished image.                                    *)

\* An image of the old dfstool: the same files, by ascending start sector.
OldDfstool ==
  /\ phase = "placing" /\ Len(placed) = Len(entries)
  /\ sector <= TotalSectors
  /\ rows' = placed /\ phase' = "fixed"
  /\ UNCHANGED <<inputs, packing>>

\* Faulty variant: the sort the other way round.
FixBefore_ascending(s, i, j) ==
  \/ s[i].start < s[j].start
  \/ /\ s[i].start = s[j].start
     /\ \/ NameRank[s[i].name] < NameRank[s[j].name]
        \/ s[i].name = s[j].name /\ i < j

\* entry_sort_key: (-start_sector, directory, file_name)
FixBefore(s, i, j) ==
  \/ s[i].start > s[j].start
  \/ /\ s[i].start = s[j].start
     /\ \/ NameRank[s[i].name] < NameRank[s[j].name]
        \/ s[i].name = s[j].name /\ i < j

process_image ==
  /\ phase \in {"made", "fixed"}
  /\ \E p \in Orders(Len(rows)) :
       /\ \A i, j \in 1 .. Len(rows) : i < j => FixBefore(rows, p[i], p[j])
       /\ rows' = Listed(rows, p)
  /\ phase' = "fixed"
  /\ UNCHANGED <<inputs, packing>>

----------------------------------------------------------------------------
(* The ROM with the image in a drive.                                      *)

RomSave ==
  /\ phase \in {"made", "fixed"}
  /\ \E file \in RomFiles :
       LET n == file[1]
           len == file[2]
           left == WithoutRow(rows, n)
       IN
       /\ \A i \in DOMAIN rows : rows[i].name = n => ~rows[i].locked
       /\ ~CatFull(left)
       /\ \E y \in 0 .. Len(left) :
            FirstFit(left, y, len) /\ rows' = Placed(left, y, n, len)
  /\ UNCHANGED <<inputs, packing, phase>>

RomDelete ==
  /\ phase \in {"made", "fixed"}
  /\ \E n \in Names :
       /\ HasName(rows, n) /\ ~rows[RowOf(rows, n)].locked
       /\ rows' = WithoutRow(rows, n)
  /\ UNCHANGED <<inputs, packing, phase>>

Build ==
  \/ process_inf_paired_file \/ process_bas_file \/ process_data_file
  \/ StagingFails \/ StartWriting \/ Place \/ write_ssd

Next == Build \/ OldDfstool \/ process_image \/ RomSave \/ RomDelete

Spec == Init /\ [][Next]_vars /\ WF_vars(Build)

----------------------------------------------------------------------------
(* Properties.                                                             *)

\* The state of both tools has its type.
TypeOK ==
  /\ host \in HostDirs /\ pending \subseteq DOMAIN host
  /\ \A p \in DOMAIN staged : staged[p] \in DOMAIN host
  /\ entries \in Seq(Entry)
  /\ \A i \in DOMAIN entries : entries[i].path \in DOMAIN staged
  /\ placed \in Seq(Row) /\ rows \in Seq(Row)
  /\ sector \in Nat

\* An image write_ssd made, and anything the ROM saves or deletes on it
\* before somebody reorders it, keeps the files apart and in the order the
\* ROM's gap computation relies on (write_ssd's sort).
MadeWellFormed == phase = "made" => WellFormed(rows)

\* No two files of a list of rows share a sector, whatever the order.
Apart(s) ==
  \A i, j \in DOMAIN s : i # j =>
    \/ EndOf(s[i]) <= s[j].start \/ EndOf(s[j]) <= s[i].start

HasEmpty(s) == \E i \in DOMAIN s : s[i].len = 0

\* Reordering a sound disk without empty files gives the ROM a sound
\* catalogue, whatever order it came in.
ReorderSound ==
  [][process_image /\ OnDisk(rows) /\ Apart(rows) /\ ~HasEmpty(rows)
       => WellFormed(rows')]_vars

\* The name a host file is staged under: not always the one it is listed by.
StagedAs(f) ==
  IF has_companion_inf(f) THEN parse_dfs_directory_and_leaf(f.inf.name)
  ELSE IF IsBas(f) THEN BasStaged(f) ELSE parse_dfs_directory_and_leaf(f.name)

\* Without two entries staged under one name, and without directory R next to
\* the root directory among those names, every file of the image has its own
\* host file's bytes.  Names that differ in the image are not enough: a program
\* A.FOO.bas is listed as $.FOO and staged where a data file A.FOO is.
OwnBodies ==
  LET as(i) == StagedAs(host[entries[i].file])
  IN  /\ \A i, j \in DOMAIN entries : as(i) = as(j) => i = j
      /\ ~({Root, "R"} \subseteq {as(i)[1] : i \in DOMAIN entries})
      => \A i \in DOMAIN bodies : bodies[i] = entries[i].file

\* Every host file that is not hidden gets exactly one entry of the image.
AllIncluded ==
  phase \in {"placing", "made"} =>
    \A f \in 1 .. Len(host) :
      Cardinality({i \in DOMAIN entries : entries[i].file = f})
        = IF host[f].hidden THEN 0 ELSE 1

\* The script ends, with an image or an error.
Finishes == <>(phase \in {"made", "fixed", "failed"})
=============================================================================
