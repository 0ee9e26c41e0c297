------------------------- MODULE HostTools_proofs -------------------------
(***************************************************************************)
(* Proofs about the Python programs on the host: the tools that make disk  *)
(* images (SsdImage), and the harness of the end-to-end tests (TestRun),   *)
(* whose host tree is made with these tools.                               *)
(*                                                                         *)
(* What create_ssd and fix_dfs_catalog promise the ROM, for every host     *)
(* directory, naming, disk size and table: the packed entries lie one      *)
(* behind the other (Packed), and listing them by descending start and     *)
(* length gives a catalogue on which first fit is sound.                   *)
(*                                                                         *)
(* What the harness promises who reads its verdicts, for every suite,      *)
(* program, environment and number of tests: the environment is usable,    *)
(* the firmware is gone after its test, the evidence is of what was        *)
(* checked and is kept, and a command is over when the test goes on.       *)
(***************************************************************************)
EXTENDS SsdImage, TestRun, DfsCatalogue_proofs, FiniteSetTheorems, WellFoundedInduction,
        SequenceTheorems

\* Packed entries lie in order between the catalogue and the next free sector.
Packed ==
  /\ sector >= FirstDataSector
  /\ \A i \in DOMAIN placed :
       placed[i].start >= FirstDataSector /\ EndOf(placed[i]) <= sector
  /\ \A i, j \in DOMAIN placed : i < j => EndOf(placed[i]) <= placed[j].start

BuildInv == TypeOK /\ Packed /\ MadeWellFormed

\* A table listed in another order has the same rows.
LEMMA ListedRows ==
  ASSUME NEW s \in Seq(Row), NEW p \in Orders(Len(s))
  PROVE  /\ Listed(s, p) \in Seq(Row)
         /\ DOMAIN Listed(s, p) = 1 .. Len(s) /\ DOMAIN s = 1 .. Len(s)
         /\ \A i \in 1 .. Len(s) :
              p[i] \in 1 .. Len(s) /\ Listed(s, p)[i] = s[p[i]]
         /\ \A i, j \in 1 .. Len(s) : i # j => p[i] # p[j]
<1>1. /\ Len(s) \in Nat /\ DOMAIN s = 1 .. Len(s)
      /\ \A i \in 1 .. Len(s) : s[i] \in Row
  OBVIOUS
<1>2. /\ p \in [1 .. Len(s) -> 1 .. Len(s)]
      /\ \A i, j \in 1 .. Len(s) : p[i] = p[j] => i = j
  BY DEF Orders
<1>3. \A i \in 1 .. Len(s) : p[i] \in 1 .. Len(s)
  BY <1>2
<1>4. Listed(s, p) \in [1 .. Len(s) -> Row]
  BY <1>1, <1>3 DEF Listed
<1>5. Listed(s, p) \in Seq(Row)
  BY <1>1, <1>4
<1>6. QED
  BY <1>1, <1>2, <1>3, <1>4, <1>5 DEF Listed

\* Two packed rows, listed by descending start and, at one start, length.
LEMMA PairInOrder ==
  ASSUME NEW a \in Row, NEW b \in Row,
         EndOf(a) <= b.start \/ EndOf(b) <= a.start,
         a.start >= b.start, a.start = b.start => a.len >= b.len
  PROVE  EndOf(b) <= a.start
<1>1. /\ a.start \in Nat /\ b.start \in Nat /\ a.len \in Nat /\ b.len \in Nat
      /\ EndOf(a) = a.start + SectorsOf(a.len)
      /\ EndOf(b) = b.start + SectorsOf(b.len)
  BY DEF Row, EndOf
<1>2. SectorsOf(a.len) \in Nat /\ SectorsOf(b.len) \in Nat
  BY <1>1, SectorsNat
<1>3. CASE EndOf(a) <= b.start
  <2>1. a.start = b.start /\ SectorsOf(a.len) = 0
    BY <1>1, <1>2, <1>3
  <2>2. b.len <= a.len
    BY <2>1
  <2>3. SectorsOf(b.len) <= SectorsOf(a.len)
    BY <1>1, <2>2, SectorsMonotone
  <2>4. QED
    BY <1>1, <1>2, <2>1, <2>3
<1>4. QED
  BY <1>3

\* Listing packed entries the way write_ssd does gives a sound catalogue.
LEMMA ListingSound ==
  ASSUME TypeOK, Packed, sector <= TotalSectors,
         NEW p \in Orders(Len(placed)),
         \A i, j \in 1 .. Len(placed) : i < j => SsdBefore(placed, p[i], p[j])
  PROVE  WellFormed(Listed(placed, p))
<1> DEFINE made == Listed(placed, p)
<1>1. placed \in Seq(Row) /\ sector \in Nat
  BY DEF TypeOK
<1>2. /\ made \in Seq(Row)
      /\ DOMAIN made = 1 .. Len(placed) /\ DOMAIN placed = 1 .. Len(placed)
      /\ \A i \in 1 .. Len(placed) :
           p[i] \in 1 .. Len(placed) /\ made[i] = placed[p[i]]
      /\ \A i, j \in 1 .. Len(placed) : i # j => p[i] # p[j]
  BY <1>1, ListedRows
<1> HIDE DEF made
<1>3. \A k \in 1 .. Len(placed) :
        /\ placed[k] \in Row /\ placed[k].start \in Nat /\ placed[k].len \in Nat
        /\ EndOf(placed[k]) \in Nat
  BY <1>1, <1>2, RowTypes
<1>4. OnDisk(made)
  <2>1. ASSUME NEW i \in DOMAIN made
        PROVE  made[i].start >= FirstDataSector /\ EndOf(made[i]) <= TotalSectors
    <3>1. /\ p[i] \in DOMAIN placed /\ made[i] = placed[p[i]]
      BY <1>2
    <3>2. placed[p[i]].start >= FirstDataSector /\ EndOf(placed[p[i]]) <= sector
      BY <3>1 DEF Packed
    <3>3. QED
      BY <1>1, <1>2, <1>3, <3>1, <3>2, TotalIs
  <2>2. QED
    BY <2>1 DEF OnDisk
<1>5. SortedAndDisjoint(made)
  <2>1. ASSUME NEW i \in DOMAIN made, NEW j \in DOMAIN made, i < j
        PROVE  EndOf(made[j]) <= made[i].start
    <3>1. /\ p[i] \in DOMAIN placed /\ p[j] \in DOMAIN placed
          /\ made[i] = placed[p[i]] /\ made[j] = placed[p[j]]
          /\ p[i] \in Int /\ p[j] \in Int /\ i \in Int /\ j \in Int
      BY <1>2
    <3>2. p[i] # p[j]
      BY <1>2, <2>1, <3>1
    <3>3. \/ EndOf(placed[p[i]]) <= placed[p[j]].start
          \/ EndOf(placed[p[j]]) <= placed[p[i]].start
      BY <3>1, <3>2 DEF Packed
    <3>4. SsdBefore(placed, p[i], p[j])
      BY <1>2, <2>1
    <3>5. \A k, l \in 1 .. Len(placed) : SsdBefore(placed, k, l) =>
            /\ placed[k].start >= placed[l].start
            /\ placed[k].start = placed[l].start => placed[k].len >= placed[l].len
      BY <1>3 DEF SsdBefore
    <3>6. placed[p[i]] \in Row /\ placed[p[j]] \in Row
      BY <1>2, <1>3, <3>1
    <3>7. /\ placed[p[i]].start >= placed[p[j]].start
          /\ placed[p[i]].start = placed[p[j]].start =>
               placed[p[i]].len >= placed[p[j]].len
      BY <1>2, <3>1, <3>4, <3>5
    <3>8. QED
      BY <3>1, <3>3, <3>6, <3>7, PairInOrder
  <2>2. QED
    BY <2>1 DEF SortedAndDisjoint
<1>6. QED
  BY <1>4, <1>5 DEF made, WellFormed

----------------------------------------------------------------------------
\* The names of the host files are DFS names.
LEMMA HostNames ==
  ASSUME TypeOK, NEW f \in DOMAIN host
  PROVE  /\ host[f] \in HostFile
         /\ parse_dfs_directory_and_leaf(host[f].name) \in Names
         /\ host[f].inf.kind = "name" =>
              parse_dfs_directory_and_leaf(host[f].inf.name) \in Names
         /\ IsBas(host[f]) => BasName(host[f]) \in Names /\ BasStaged(host[f]) \in Names
BY SsdAssumption DEF TypeOK

\* A step that stages a file.
LEMMA StagedStep ==
  ASSUME BuildInv, NEW f \in pending, NEW name \in Names, NEW listed \in Names,
         NEW locked \in BOOLEAN, Stage(f, name, listed, locked)
  PROVE  BuildInv'
<1> DEFINE path == staging_temp_name(name)
           new == [file |-> f, name |-> listed, locked |-> locked, path |-> path]
<1>1. /\ staged' = [p \in DOMAIN staged \cup {path} |->
                      IF p = path THEN f ELSE staged[p]]
      /\ entries' = Append(entries, new) /\ pending' = pending \ {f}
      /\ UNCHANGED <<host, placed, bodies, sector, rows, phase>>
  BY DEF Stage, packing
<1>2. /\ f \in DOMAIN host /\ pending \subseteq DOMAIN host /\ f \in Nat
      /\ \A p \in DOMAIN staged : staged[p] \in DOMAIN host
      /\ entries \in Seq(Entry)
      /\ \A i \in DOMAIN entries : entries[i].path \in DOMAIN staged
  BY SsdAssumption DEF BuildInv, TypeOK
<1>3. new \in Entry /\ new.path = path
  BY <1>2 DEF Entry
<1> HIDE DEF path
<1>4. /\ DOMAIN staged' = DOMAIN staged \cup {path}
      /\ \A p \in DOMAIN staged' : staged'[p] \in DOMAIN host
  BY <1>1, <1>2
<1> HIDE DEF new
<1>5. /\ entries' \in Seq(Entry)
      /\ \A i \in DOMAIN entries' :
           (i \in DOMAIN entries /\ entries'[i] = entries[i]) \/ entries'[i] = new
  BY <1>1, <1>2, <1>3
<1>6. \A i \in DOMAIN entries' : entries'[i].path \in DOMAIN staged'
  BY <1>2, <1>3, <1>4, <1>5
<1>7. TypeOK'
  BY <1>1, <1>2, <1>4, <1>5, <1>6 DEF BuildInv, TypeOK
<1>8. Packed' /\ MadeWellFormed'
  BY <1>1 DEF BuildInv, Packed, MadeWellFormed
<1>9. QED
  BY <1>7, <1>8 DEF BuildInv

\* Staging a file keeps the invariant.
LEMMA StagingKeeps ==
  ASSUME BuildInv,
         process_inf_paired_file \/ process_bas_file \/ process_data_file
  PROVE  BuildInv'
<1>0. TypeOK /\ pending \subseteq DOMAIN host
  BY DEF BuildInv, TypeOK
<1>1. CASE process_inf_paired_file
  <2>1. PICK f \in pending :
          /\ host[f].inf.kind = "name"
          /\ Stage(f, parse_dfs_directory_and_leaf(host[f].inf.name),
                   parse_dfs_directory_and_leaf(host[f].inf.name),
                   host[f].inf.locked)
    BY <1>1 DEF process_inf_paired_file
  <2>2. parse_dfs_directory_and_leaf(host[f].inf.name) \in Names
    BY <1>0, <2>1, HostNames
  <2>3. host[f].inf.locked \in BOOLEAN
    BY <1>0, HostNames DEF HostFile, Given
  <2>4. QED
    BY <2>1, <2>2, <2>3, StagedStep
<1>2. CASE process_bas_file
  <2>1. PICK f \in pending :
          /\ IsBas(host[f])
          /\ Stage(f, BasStaged(host[f]), BasName(host[f]), FALSE)
    BY <1>2 DEF process_bas_file
  <2>2. BasName(host[f]) \in Names /\ BasStaged(host[f]) \in Names
    BY <1>0, <2>1, HostNames
  <2>3. QED
    BY <2>1, <2>2, StagedStep
<1>3. CASE process_data_file
  <2>1. PICK f \in pending :
          Stage(f, parse_dfs_directory_and_leaf(host[f].name),
                parse_dfs_directory_and_leaf(host[f].name), FALSE)
    BY <1>3 DEF process_data_file
  <2>2. parse_dfs_directory_and_leaf(host[f].name) \in Names
    BY <1>0, HostNames
  <2>3. QED
    BY <2>1, <2>2, StagedStep
<1>4. QED
  BY <1>1, <1>2, <1>3

\* Giving the next entry its sectors keeps the entries packed.
LEMMA PlaceKeeps ==
  ASSUME BuildInv, Place
  PROVE  BuildInv'
<1> DEFINE e == entries[Len(placed) + 1]
           len == host[staged[e.path]].size
           new == [name |-> e.name, start |-> sector, len |-> len,
                   locked |-> e.locked]
<1>1. /\ phase = "placing" /\ Len(placed) < Len(entries)
      /\ placed' = Append(placed, new) /\ sector' = sector + SectorsOf(len)
      /\ UNCHANGED <<host, pending, staged, entries, rows, phase>>
  BY DEF Place, inputs
<1>2. /\ TypeOK /\ Packed /\ placed \in Seq(Row) /\ sector \in Nat
      /\ \A p \in DOMAIN staged : staged[p] \in DOMAIN host
      /\ entries \in Seq(Entry)
      /\ \A i \in DOMAIN entries : entries[i].path \in DOMAIN staged
  BY DEF BuildInv, TypeOK
<1>3. Len(placed) + 1 \in DOMAIN entries
  BY <1>1, <1>2
<1>4. e \in Entry /\ e.path \in DOMAIN staged
  BY <1>2, <1>3
<1>5. e.name \in Names /\ e.locked \in BOOLEAN
  BY <1>4 DEF Entry
<1>6. len \in Nat
  BY <1>2, <1>4, HostNames DEF HostFile
<1> HIDE DEF e, len
<1>7. new \in Row /\ new.start = sector /\ EndOf(new) = sector'
  BY <1>1, <1>2, <1>5, <1>6 DEF Row, EndOf
<1>8. SectorsOf(len) \in Nat
  BY <1>6, SectorsNat
<1> HIDE DEF new
<1>9. /\ placed' \in Seq(Row) /\ Len(placed') = Len(placed) + 1
      /\ DOMAIN placed = 1 .. Len(placed) /\ Len(placed) \in Nat
      /\ DOMAIN placed' = 1 .. Len(placed) + 1
      /\ \A i \in 1 .. Len(placed) : placed'[i] = placed[i]
      /\ placed'[Len(placed) + 1] = new
  BY <1>1, <1>2, <1>7
<1>10. sector' \in Nat /\ sector' >= sector
  BY <1>1, <1>2, <1>8
<1>11. \A i \in 1 .. Len(placed) : EndOf(placed[i]) \in Nat
  BY <1>2, <1>9, RowTypes
<1>12. Packed'
  <2>1. \A i \in 1 .. Len(placed) :
          placed[i].start >= FirstDataSector /\ EndOf(placed[i]) <= sector
    BY <1>2, <1>9 DEF Packed
  <2>2. sector >= FirstDataSector
    BY <1>2 DEF Packed
  <2>3. \A i \in DOMAIN placed' :
          placed'[i].start >= FirstDataSector /\ EndOf(placed'[i]) <= sector'
    <3>1. ASSUME NEW i \in DOMAIN placed'
          PROVE  placed'[i].start >= FirstDataSector /\ EndOf(placed'[i]) <= sector'
      <4>1. CASE i \in 1 .. Len(placed)
        BY <1>2, <1>9, <1>10, <1>11, <2>1, <4>1
      <4>2. CASE i = Len(placed) + 1
        BY <1>7, <1>9, <1>10, <2>2, <4>2
      <4>3. QED
        BY <1>9, <4>1, <4>2
    <3>2. QED
      BY <3>1
  <2>4. \A i, j \in DOMAIN placed' : i < j => EndOf(placed'[i]) <= placed'[j].start
    <3>1. ASSUME NEW i \in DOMAIN placed', NEW j \in DOMAIN placed', i < j
          PROVE  EndOf(placed'[i]) <= placed'[j].start
      <4>1. i \in 1 .. Len(placed)
        BY <1>9, <3>1
      <4>2. CASE j \in 1 .. Len(placed)
        BY <1>2, <1>9, <3>1, <4>1, <4>2 DEF Packed
      <4>3. CASE j = Len(placed) + 1
        BY <1>7, <1>9, <2>1, <4>1, <4>3
      <4>4. QED
        BY <1>9, <4>2, <4>3
    <3>2. QED
      BY <3>1
  <2>5. QED
    BY <1>2, <1>10, <2>2, <2>3, <2>4 DEF Packed, FirstDataSector
<1>13. TypeOK'
  BY <1>1, <1>2, <1>9, <1>10 DEF TypeOK
<1>14. MadeWellFormed'
  BY <1>1 DEF MadeWellFormed
<1>15. QED
  BY <1>12, <1>13, <1>14 DEF BuildInv

\* The image's catalogue is the only thing that changes.
LEMMA RowsStep ==
  ASSUME BuildInv, UNCHANGED <<inputs, packing>>, rows' \in Seq(Row),
         phase' = "made" => WellFormed(rows')
  PROVE  BuildInv'
BY DEF BuildInv, TypeOK, Packed, MadeWellFormed, inputs, packing

\* Writing the image keeps the invariant.
LEMMA WriteKeeps ==
  ASSUME BuildInv, write_ssd
  PROVE  BuildInv'
<1>1. TypeOK /\ Packed /\ placed \in Seq(Row) /\ rows \in Seq(Row)
  BY DEF BuildInv, TypeOK
<1>2. CASE phase' = "failed" /\ UNCHANGED rows
  BY <1>1, <1>2, RowsStep DEF write_ssd
<1>3. CASE /\ sector <= TotalSectors
           /\ \E p \in Orders(Len(placed)) :
                /\ \A i, j \in 1 .. Len(placed) :
                     i < j => SsdBefore(placed, p[i], p[j])
                /\ rows' = Listed(placed, p)
  <2>1. rows' \in Seq(Row) /\ WellFormed(rows')
    BY <1>1, <1>3, ListedRows, ListingSound
  <2>2. QED
    BY <2>1, RowsStep DEF write_ssd
<1>4. QED
  BY <1>2, <1>3 DEF write_ssd

\* The ROM's save and deletion keep the invariant.
LEMMA RomKeeps ==
  ASSUME BuildInv, RomSave \/ RomDelete
  PROVE  BuildInv'
<1>1. rows \in Seq(Row) /\ (phase = "made" => WellFormed(rows))
  BY DEF BuildInv, TypeOK, MadeWellFormed
<1>2. CASE RomSave
  <2>0. PICK file \in RomFiles :
          \E y \in 0 .. Len(WithoutRow(rows, file[1])) :
            /\ FirstFit(WithoutRow(rows, file[1]), y, file[2])
            /\ rows' = Placed(WithoutRow(rows, file[1]), y, file[1], file[2])
            /\ UNCHANGED <<inputs, packing, phase>>
    BY <1>2 DEF RomSave
  <2>1. PICK y \in 0 .. Len(WithoutRow(rows, file[1])) :
          /\ FirstFit(WithoutRow(rows, file[1]), y, file[2])
          /\ rows' = Placed(WithoutRow(rows, file[1]), y, file[1], file[2])
          /\ UNCHANGED <<inputs, packing, phase>>
    BY <2>0
  <2> DEFINE left == WithoutRow(rows, file[1])
  <2>2. file[1] \in Names /\ file[2] \in Nat
    BY <2>1, SsdAssumption
  <2>3. left \in Seq(Row) /\ (WellFormed(rows) => WellFormed(left))
    BY <1>1, WithoutRowIs
  <2> HIDE DEF left
  <2>4. y \in 0 .. Len(left) /\ Fits(left, y, file[2])
    BY <2>1 DEF FirstFit, left
  <2>5. rows' = Placed(left, y, file[1], file[2])
    BY <2>1 DEF left
  <2>6. rows' \in Seq(Row)
    BY <2>2, <2>3, <2>4, <2>5, PlacedRows
  <2>7. phase' = "made" => WellFormed(rows')
    BY <1>1, <2>1, <2>2, <2>3, <2>4, <2>5, PlacedWellFormed
  <2>8. QED
    BY <2>1, <2>6, <2>7, RowsStep DEF inputs, packing
<1>3. CASE RomDelete
  <2>1. PICK n \in Names : rows' = WithoutRow(rows, n)
    BY <1>3 DEF RomDelete
  <2>2. rows' \in Seq(Row) /\ (WellFormed(rows) => WellFormed(rows'))
    BY <1>1, <2>1, WithoutRowIs
  <2>3. QED
    BY <1>1, <1>3, <2>2, RowsStep DEF RomDelete
<1>4. QED
  BY <1>2, <1>3

\* Every step keeps the invariant.
LEMMA StepKeeps ==
  ASSUME BuildInv, [Next]_vars
  PROVE  BuildInv'
<1>1. TypeOK /\ placed \in Seq(Row) /\ rows \in Seq(Row)
  BY DEF BuildInv, TypeOK
<1>2. CASE StagingFails
  BY <1>1, <1>2, RowsStep DEF StagingFails
<1>3. CASE StartWriting
  BY <1>1, <1>3, RowsStep DEF StartWriting
<1>4. CASE OldDfstool
  BY <1>1, <1>4, RowsStep DEF OldDfstool
<1>5. CASE process_image
  <2>1. rows' \in Seq(Row)
    BY <1>1, <1>5, ListedRows DEF process_image
  <2>2. QED
    BY <1>5, <2>1, RowsStep DEF process_image
<1>6. CASE UNCHANGED vars
  BY <1>1, <1>6 DEF vars, inputs, packing, BuildInv, TypeOK, Packed, MadeWellFormed
<1>7. QED
  BY <1>2, <1>3, <1>4, <1>5, <1>6, StagingKeeps, PlaceKeeps, WriteKeeps, RomKeeps
     DEF Next, Build

\* The first state.
LEMMA InitKeeps ==
  ASSUME Init
  PROVE  BuildInv
<1>1. placed = << >> /\ rows = << >> /\ entries = << >> /\ DOMAIN staged = {}
  BY DEF Init
<1>2. pending \subseteq DOMAIN host /\ host \in HostDirs
  BY DEF Init, Visible
<1>3. QED
  BY <1>1, <1>2 DEF Init, BuildInv, TypeOK, Packed, MadeWellFormed,
                    FirstDataSector

\* The state of the tools keeps its type (create_ssd, write_ssd).
THEOREM ToolsTypeCorrect == Spec => []TypeOK
<1>1. BuildInv => TypeOK
  BY DEF BuildInv
<1>2. QED
  BY <1>1, InitKeeps, StepKeeps, PTL DEF Spec

\* write_ssd's listing gives the ROM a catalogue on which first fit is sound,
\* and it stays one under the ROM's saves and deletions.
THEOREM MadeImagesSound == Spec => []MadeWellFormed
<1>1. BuildInv => MadeWellFormed
  BY DEF BuildInv
<1>2. QED
  BY <1>1, InitKeeps, StepKeeps, PTL DEF Spec

\* A file that is not empty fills a sector at least.
LEMMA SectorsPositive ==
  ASSUME NEW len \in Nat, len # 0
  PROVE  SectorsOf(len) > 0
<1>1. SectorSize \in Nat /\ SectorSize > 0 /\ len + SectorSize - 1 >= SectorSize
  BY CatalogueAssumption
<1>2. \A a, b \in Nat : b > 0 /\ a >= b => a \div b > 0
  OBVIOUS
<1>3. len + SectorSize - 1 \in Nat
  BY <1>1
<1>4. QED
  BY <1>1, <1>2, <1>3 DEF SectorsOf

\* fix_dfs_catalog's order is sound for disjoint files that are not empty.
LEMMA ReorderStep ==
  ASSUME rows \in Seq(Row), process_image, OnDisk(rows), Apart(rows), ~HasEmpty(rows)
  PROVE  WellFormed(rows')
<1>1. PICK p \in Orders(Len(rows)) :
        /\ \A i, j \in 1 .. Len(rows) : i < j => FixBefore(rows, p[i], p[j])
        /\ rows' = Listed(rows, p)
  BY DEF process_image
<1>2. /\ rows' \in Seq(Row)
      /\ DOMAIN rows' = 1 .. Len(rows) /\ DOMAIN rows = 1 .. Len(rows)
      /\ \A i \in 1 .. Len(rows) : p[i] \in 1 .. Len(rows) /\ rows'[i] = rows[p[i]]
      /\ \A i, j \in 1 .. Len(rows) : i # j => p[i] # p[j]
  BY <1>1, ListedRows
<1>3. OnDisk(rows')
  BY <1>2 DEF OnDisk
<1>4. SortedAndDisjoint(rows')
  <2>1. ASSUME NEW i \in DOMAIN rows', NEW j \in DOMAIN rows', i < j
        PROVE  EndOf(rows'[j]) <= rows'[i].start
    <3>1. /\ p[i] \in DOMAIN rows /\ p[j] \in DOMAIN rows /\ p[i] # p[j]
          /\ rows'[i] = rows[p[i]] /\ rows'[j] = rows[p[j]]
      BY <1>2, <2>1
    <3>2. FixBefore(rows, p[i], p[j])
      BY <1>1, <1>2, <2>1
    <3>3. \A k \in DOMAIN rows :
            /\ rows[k].start \in Nat /\ rows[k].len \in Nat
            /\ rows[k].len # 0 /\ EndOf(rows[k]) > rows[k].start
      <4>1. ASSUME NEW k \in DOMAIN rows
            PROVE  /\ rows[k].start \in Nat /\ rows[k].len \in Nat
                   /\ rows[k].len # 0 /\ EndOf(rows[k]) > rows[k].start
        <5>1. /\ rows[k].start \in Nat /\ rows[k].len \in Nat
          BY RowTypes
        <5>2. rows[k].len # 0
          BY DEF HasEmpty
        <5>3. SectorsOf(rows[k].len) > 0
          BY <5>1, <5>2, SectorsPositive
        <5>4. SectorsOf(rows[k].len) \in Nat
          BY <5>1, SectorsNat
        <5>5. QED
          BY <5>1, <5>2, <5>3, <5>4 DEF EndOf
      <4>2. QED
        BY <4>1
    <3>4. rows[p[i]].start >= rows[p[j]].start
      BY <3>1, <3>2, <3>3 DEF FixBefore
    <3>5. \/ EndOf(rows[p[i]]) <= rows[p[j]].start
          \/ EndOf(rows[p[j]]) <= rows[p[i]].start
      BY <3>1 DEF Apart
    <3>6. EndOf(rows[p[i]]) \in Nat
      BY <3>1, RowTypes
    <3>7. QED
      BY <3>1, <3>3, <3>4, <3>5, <3>6
  <2>2. QED
    BY <2>1 DEF SortedAndDisjoint
<1>5. QED
  BY <1>3, <1>4 DEF WellFormed

\* Rewriting a sound disk's catalogue is safe when no file is empty.
THEOREM ReorderingSound == Spec => ReorderSound
<1>1. BuildInv => rows \in Seq(Row)
  BY DEF BuildInv, TypeOK
<1>2. ASSUME BuildInv, [Next]_vars
      PROVE  [process_image /\ OnDisk(rows) /\ Apart(rows) /\ ~HasEmpty(rows)
                => WellFormed(rows')]_vars
  BY <1>1, <1>2, ReorderStep
<1>3. QED
  BY <1>2, InitKeeps, StepKeeps, PTL DEF Spec, ReorderSound
----------------------------------------------------------------------------
(* Every file once, and with its own bytes.                                *)

\* Every host file that counts is still to be staged or has its one entry.
Staged ==
  /\ \A i, j \in DOMAIN entries : entries[i].file = entries[j].file => i = j
  /\ \A i \in DOMAIN entries :
       entries[i].file \in DOMAIN host /\ entries[i].file \notin pending
  /\ \A f \in DOMAIN host :
       ~host[f].hidden <=> \/ f \in pending
                           \/ \E i \in DOMAIN entries : entries[i].file = f
  /\ phase \in {"placing", "made"} => pending = {}

\* What was staged last under a name is what its staging file holds.
LastStays ==
  \A i \in DOMAIN entries :
    (\A j \in DOMAIN entries : j > i => entries[j].path # entries[i].path)
      => staged[entries[i].path] = entries[i].file

\* Where entries are staged, and what the placed ones received.
EntryBodies ==
  /\ \A i \in DOMAIN entries :
       entries[i].path = staging_temp_name(StagedAs(host[entries[i].file]))
  /\ bodies \in Seq(Nat) /\ Len(bodies) = Len(placed)
  /\ Len(placed) <= Len(entries)
  /\ \A i \in DOMAIN bodies : bodies[i] = staged[entries[i].path]
  /\ phase = "staging" => bodies = << >>

\* What the entries of a step that stages a file are.
LEMMA NextEntry ==
  ASSUME TypeOK, NEW f \in pending, NEW name \in Names, NEW listed \in Names,
         NEW locked \in BOOLEAN, Stage(f, name, listed, locked)
  PROVE  /\ Len(entries) \in Nat /\ f \in DOMAIN host
         /\ DOMAIN entries = 1 .. Len(entries)
         /\ DOMAIN entries' = 1 .. Len(entries) + 1
         /\ Len(entries') = Len(entries) + 1
         /\ \A i \in DOMAIN entries : i \in DOMAIN entries' /\ entries'[i] = entries[i]
         /\ entries'[Len(entries) + 1].file = f
         /\ entries'[Len(entries) + 1].path = staging_temp_name(name)
         /\ \A i \in DOMAIN entries' : i \in DOMAIN entries \/ i = Len(entries) + 1
<1> DEFINE new == [file |-> f, name |-> listed, locked |-> locked,
                   path |-> staging_temp_name(name)]
<1>1. entries' = Append(entries, new)
  BY DEF Stage
<1>2. entries \in Seq(Entry) /\ f \in DOMAIN host /\ f \in Nat
  BY SsdAssumption DEF TypeOK
<1>3. new \in Entry /\ new.file = f /\ new.path = staging_temp_name(name)
  BY <1>2 DEF Entry
<1> HIDE DEF new
<1>4. /\ Len(entries) \in Nat /\ DOMAIN entries = 1 .. Len(entries)
      /\ DOMAIN entries' = 1 .. Len(entries) + 1
      /\ Len(entries') = Len(entries) + 1
      /\ \A i \in 1 .. Len(entries) : entries'[i] = entries[i]
      /\ entries'[Len(entries) + 1] = new
  BY <1>1, <1>2, <1>3
<1>5. QED
  BY <1>2, <1>3, <1>4

\* Staging a file gives it its entry.
LEMMA StageIncludes ==
  ASSUME TypeOK, Staged, phase = "staging", NEW f \in pending, NEW name \in Names,
         NEW listed \in Names, NEW locked \in BOOLEAN, Stage(f, name, listed, locked)
  PROVE  Staged'
<1>1. /\ Len(entries) \in Nat /\ f \in DOMAIN host
      /\ DOMAIN entries = 1 .. Len(entries)
      /\ \A i \in DOMAIN entries : i \in DOMAIN entries' /\ entries'[i] = entries[i]
      /\ entries'[Len(entries) + 1].file = f
      /\ Len(entries) + 1 \in DOMAIN entries'
      /\ \A i \in DOMAIN entries' : i \in DOMAIN entries \/ i = Len(entries) + 1
  BY NextEntry
<1>2. pending' = pending \ {f} /\ host' = host /\ phase' = phase
  BY DEF Stage
<1> DEFINE last == Len(entries) + 1
<1> HIDE DEF last
<1>3. /\ last \in DOMAIN entries' /\ entries'[last].file = f
      /\ \A i \in DOMAIN entries' : i \in DOMAIN entries \/ i = last
  BY <1>1 DEF last
<1>4. \A i \in DOMAIN entries :
        entries[i].file \in DOMAIN host /\ entries[i].file \notin pending
  BY DEF Staged
<1>5. \A i, j \in DOMAIN entries' : entries'[i].file = entries'[j].file => i = j
  <2>1. ASSUME NEW i \in DOMAIN entries', NEW j \in DOMAIN entries',
               entries'[i].file = entries'[j].file
        PROVE  i = j
    <3>1. CASE i \in DOMAIN entries /\ j \in DOMAIN entries
      BY <1>1, <2>1, <3>1 DEF Staged
    <3>2. CASE i = last /\ j \in DOMAIN entries
      BY <1>1, <1>3, <1>4, <2>1, <3>2
    <3>3. CASE j = last /\ i \in DOMAIN entries
      BY <1>1, <1>3, <1>4, <2>1, <3>3
    <3>4. QED
      BY <1>3, <3>1, <3>2, <3>3
  <2>2. QED
    BY <2>1
<1>6. \A i \in DOMAIN entries' :
        entries'[i].file \in DOMAIN host' /\ entries'[i].file \notin pending'
  BY <1>1, <1>2, <1>3, <1>4
<1>7. \A g \in DOMAIN host' :
        ~host'[g].hidden <=> \/ g \in pending'
                             \/ \E i \in DOMAIN entries' : entries'[i].file = g
  <2>1. ASSUME NEW g \in DOMAIN host
        PROVE  ~host[g].hidden <=> \/ g \in pending \ {f}
                                   \/ \E i \in DOMAIN entries' : entries'[i].file = g
    <3>1. ~host[g].hidden <=> \/ g \in pending
                              \/ \E i \in DOMAIN entries : entries[i].file = g
      BY DEF Staged
    <3>2. (\E i \in DOMAIN entries' : entries'[i].file = g)
            <=> g = f \/ \E i \in DOMAIN entries : entries[i].file = g
      BY <1>1, <1>3
    <3>3. QED
      BY <3>1, <3>2
  <2>2. QED
    BY <1>2, <2>1
<1>8. QED
  BY <1>2, <1>5, <1>6, <1>7 DEF Staged

\* Staging a file leaves its bytes under its path, whoever's were there.
LEMMA StageLasts ==
  ASSUME TypeOK, LastStays, EntryBodies, phase = "staging", NEW f \in pending,
         NEW name \in Names, NEW listed \in Names, NEW locked \in BOOLEAN,
         Stage(f, name, listed, locked), name = StagedAs(host[f])
  PROVE  LastStays' /\ EntryBodies'
<1> DEFINE last == Len(entries) + 1
           path == staging_temp_name(name)
<1>1. /\ Len(entries) \in Nat /\ f \in DOMAIN host
      /\ DOMAIN entries = 1 .. Len(entries)
      /\ Len(entries') = last /\ last \in DOMAIN entries'
      /\ \A i \in DOMAIN entries : i \in DOMAIN entries' /\ entries'[i] = entries[i]
      /\ entries'[last].file = f /\ entries'[last].path = path
      /\ \A i \in DOMAIN entries' : i \in DOMAIN entries \/ i = last
  BY NextEntry
<1>2. /\ host' = host /\ phase' = phase /\ placed' = placed /\ bodies' = bodies
      /\ staged' = [p \in DOMAIN staged \cup {path} |->
                      IF p = path THEN f ELSE staged[p]]
  BY DEF Stage, packing
<1>3. \A i \in DOMAIN entries : i < last
  BY <1>1
<1>4. \A i \in DOMAIN entries : entries[i].path \in DOMAIN staged
  BY DEF TypeOK
<1> HIDE DEF last, path
<1>5. LastStays'
  <2>1. ASSUME NEW i \in DOMAIN entries',
               \A j \in DOMAIN entries' : j > i => entries'[j].path # entries'[i].path
        PROVE  staged'[entries'[i].path] = entries'[i].file
    <3>1. CASE i = last
      BY <1>1, <1>2, <3>1
    <3>2. CASE i \in DOMAIN entries
      <4>1. last > i
        BY <1>1, <1>3, <3>2 DEF last
      <4>2. entries[i].path # path
        BY <1>1, <2>1, <3>2, <4>1
      <4>3. \A j \in DOMAIN entries : j > i => entries[j].path # entries[i].path
        BY <1>1, <2>1, <3>2
      <4>4. staged[entries[i].path] = entries[i].file
        BY <3>2, <4>3 DEF LastStays
      <4>5. staged'[entries[i].path] = staged[entries[i].path]
        BY <1>2, <1>4, <3>2, <4>2
      <4>6. QED
        BY <1>1, <3>2, <4>4, <4>5
    <3>3. QED
      BY <1>1, <3>1, <3>2
  <2>2. QED
    BY <2>1 DEF LastStays
<1>6. EntryBodies'
  <2>1. \A i \in DOMAIN entries' :
          entries'[i].path = staging_temp_name(StagedAs(host[entries'[i].file]))
    <3>1. \A i \in DOMAIN entries :
            entries[i].path = staging_temp_name(StagedAs(host[entries[i].file]))
      BY DEF EntryBodies
    <3>2. path = staging_temp_name(StagedAs(host[f]))
      BY DEF path
    <3>3. QED
      BY <1>1, <3>1, <3>2
  <2>2. bodies = << >> /\ Len(placed) = 0 /\ bodies \in Seq(Nat)
    BY DEF EntryBodies
  <2>3. Len(placed) <= Len(entries') /\ DOMAIN bodies = {}
    BY <1>1, <2>2 DEF last
  <2>4. QED
    BY <1>2, <2>1, <2>2, <2>3 DEF EntryBodies
<1>7. QED
  BY <1>5, <1>6

\* The invariant of the whole build.
WholeInv == BuildInv /\ Staged /\ LastStays /\ EntryBodies

\* Each kind of host file is staged under its name.
LEMMA StagingIncludes ==
  ASSUME WholeInv,
         process_inf_paired_file \/ process_bas_file \/ process_data_file
  PROVE  Staged' /\ LastStays' /\ EntryBodies'
<1>0. /\ TypeOK /\ pending \subseteq DOMAIN host
      /\ Staged /\ LastStays /\ EntryBodies
  BY DEF WholeInv, BuildInv, TypeOK
<1>1. CASE process_inf_paired_file
  <2>1. PICK f \in pending :
          /\ phase = "staging" /\ has_companion_inf(host[f])
          /\ host[f].inf.kind = "name"
          /\ Stage(f, parse_dfs_directory_and_leaf(host[f].inf.name),
                   parse_dfs_directory_and_leaf(host[f].inf.name),
                   host[f].inf.locked)
    BY <1>1 DEF process_inf_paired_file, Staging
  <2> DEFINE name == parse_dfs_directory_and_leaf(host[f].inf.name)
  <2>2. name \in Names /\ host[f].inf.locked \in BOOLEAN
    BY <1>0, <2>1, HostNames DEF HostFile, Given
  <2>3. name = StagedAs(host[f])
    BY <2>1 DEF StagedAs
  <2>4. Stage(f, name, name, host[f].inf.locked)
    BY <2>1
  <2> HIDE DEF name
  <2>5. Staged'
    BY <1>0, <2>1, <2>2, <2>4, StageIncludes
  <2>6. LastStays' /\ EntryBodies'
    BY <1>0, <2>1, <2>2, <2>3, <2>4, StageLasts
  <2>7. QED
    BY <2>5, <2>6
<1>2. CASE process_bas_file
  <2>1. PICK f \in pending :
          /\ phase = "staging" /\ IsBas(host[f])
          /\ Stage(f, BasStaged(host[f]), BasName(host[f]), FALSE)
    BY <1>2 DEF process_bas_file, Staging
  <2>2. BasName(host[f]) \in Names /\ BasStaged(host[f]) \in Names
    BY <1>0, <2>1, HostNames
  <2>3. BasStaged(host[f]) = StagedAs(host[f])
    BY <2>1 DEF StagedAs, IsBas
  <2>5. Staged'
    BY <1>0, <2>1, <2>2, StageIncludes
  <2>6. LastStays' /\ EntryBodies'
    BY <1>0, <2>1, <2>2, <2>3, StageLasts
  <2>7. QED
    BY <2>5, <2>6
<1>3. CASE process_data_file
  <2>1. PICK f \in pending :
          /\ phase = "staging"
          /\ ~IsBas(host[f]) /\ ~has_companion_inf(host[f])
          /\ Stage(f, parse_dfs_directory_and_leaf(host[f].name),
                   parse_dfs_directory_and_leaf(host[f].name), FALSE)
    BY <1>3 DEF process_data_file, Staging
  <2> DEFINE name == parse_dfs_directory_and_leaf(host[f].name)
  <2>2. name \in Names
    BY <1>0, <2>1, HostNames
  <2>3. name = StagedAs(host[f])
    BY <2>1 DEF StagedAs
  <2>4. Stage(f, name, name, FALSE)
    BY <2>1
  <2> HIDE DEF name
  <2>5. Staged'
    BY <1>0, <2>1, <2>2, <2>4, StageIncludes
  <2>6. LastStays' /\ EntryBodies'
    BY <1>0, <2>1, <2>2, <2>3, <2>4, StageLasts
  <2>7. QED
    BY <2>5, <2>6
<1>4. QED
  BY <1>1, <1>2, <1>3

\* A placed entry receives what its staging file holds.
LEMMA PlaceBodies ==
  ASSUME WholeInv, Place
  PROVE  Staged' /\ LastStays' /\ EntryBodies'
<1> DEFINE n == Len(placed)
           held == staged[entries[n + 1].path]
<1>1. /\ phase = "placing" /\ n < Len(entries) /\ bodies' = Append(bodies, held)
      /\ UNCHANGED <<host, pending, staged, entries, phase>>
  BY DEF Place, inputs
<1>2. /\ Staged /\ LastStays /\ EntryBodies /\ placed \in Seq(Row)
      /\ bodies \in Seq(Nat) /\ Len(bodies) = n /\ n \in Nat
      /\ entries \in Seq(Entry) /\ host \in HostDirs
      /\ \A i \in DOMAIN entries : entries[i].path \in DOMAIN staged
      /\ \A p \in DOMAIN staged : staged[p] \in DOMAIN host
  BY DEF WholeInv, BuildInv, TypeOK, EntryBodies
<1>3. n + 1 \in DOMAIN entries /\ Len(entries) \in Nat
  BY <1>1, <1>2
<1>4. held \in Nat
  BY <1>2, <1>3, SsdAssumption
<1>5. \E new : placed' = Append(placed, new)
  BY DEF Place
<1>6. Len(placed') = n + 1
  BY <1>2, <1>5
<1> HIDE DEF n
<1>7. DOMAIN bodies = 1 .. n
  BY <1>2
<1> HIDE DEF held
<1>8. /\ bodies' \in Seq(Nat) /\ Len(bodies') = n + 1
      /\ DOMAIN bodies' = 1 .. n + 1
      /\ \A i \in 1 .. n : bodies'[i] = bodies[i]
      /\ bodies'[n + 1] = held
  BY <1>1, <1>2, <1>4
<1>9. Staged' /\ LastStays'
  BY <1>1, <1>2 DEF Staged, LastStays
<1>10. \A i \in DOMAIN bodies' : bodies'[i] = staged[entries[i].path]
  <2>1. ASSUME NEW i \in DOMAIN bodies'
        PROVE  bodies'[i] = staged[entries[i].path]
    <3>1. CASE i \in 1 .. n
      BY <1>2, <1>7, <1>8, <3>1 DEF EntryBodies
    <3>2. CASE i = n + 1
      BY <1>8, <3>2 DEF held
    <3>3. QED
      BY <1>2, <1>8, <3>1, <3>2
  <2>2. QED
    BY <2>1
<1>11. n + 1 <= Len(entries)
  BY <1>1, <1>2, <1>3
<1>12. EntryBodies'
  BY <1>1, <1>2, <1>6, <1>8, <1>10, <1>11 DEF EntryBodies
<1>13. QED
  BY <1>9, <1>12

\* The other steps: packing begins, the image is written, or used.
LEMMA OthersInclude ==
  ASSUME WholeInv, UNCHANGED <<inputs, packing>>,
         phase' = "staging" => phase = "staging",
         phase' \in {"placing", "made"} =>
           phase \in {"placing", "made"} \/ pending = {}
  PROVE  Staged' /\ LastStays' /\ EntryBodies'
BY DEF WholeInv, Staged, LastStays, EntryBodies, inputs, packing

\* Every step keeps the invariant of the whole build.
LEMMA WholeStep ==
  ASSUME WholeInv, [Next]_vars
  PROVE  WholeInv'
<1>0. BuildInv'
  BY StepKeeps DEF WholeInv
<1> SUFFICES Staged' /\ LastStays' /\ EntryBodies'
  BY <1>0 DEF WholeInv
<1>1. CASE StagingFails
  BY <1>1, OthersInclude DEF StagingFails
<1>2. CASE StartWriting
  BY <1>2, OthersInclude DEF StartWriting
<1>3. CASE write_ssd
  BY <1>3, OthersInclude DEF write_ssd
<1>4. CASE OldDfstool
  BY <1>4, OthersInclude DEF OldDfstool
<1>5. CASE process_image
  BY <1>5, OthersInclude DEF process_image
<1>6. CASE RomSave \/ RomDelete
  BY <1>6, OthersInclude DEF RomSave, RomDelete
<1>7. CASE UNCHANGED vars
  BY <1>7, OthersInclude DEF vars
<1>8. CASE Place
  BY <1>8, PlaceBodies
<1>9. CASE process_inf_paired_file \/ process_bas_file \/ process_data_file
  BY <1>9, StagingIncludes
<1>10. QED
  BY <1>1, <1>2, <1>3, <1>4, <1>5, <1>6, <1>7, <1>8, <1>9 DEF Next, Build

\* The invariant of the whole build holds before the first file.
LEMMA WholeInit ==
  ASSUME Init
  PROVE  WholeInv
<1>1. BuildInv
  BY InitKeeps
<1>2. /\ entries = << >> /\ bodies = << >> /\ placed = << >>
      /\ phase = "staging" /\ pending = {i \in DOMAIN host : ~host[i].hidden}
  BY DEF Init, Visible
<1>3. DOMAIN entries = {} /\ Len(placed) = 0 /\ Len(bodies) = 0 /\ Len(entries) = 0
  BY <1>2
<1>4. DOMAIN bodies = {} /\ bodies \in Seq(Nat)
  BY <1>2
<1>5. Staged /\ LastStays
  BY <1>2, <1>3 DEF Staged, LastStays
<1>6. EntryBodies
  BY <1>2, <1>3, <1>4 DEF EntryBodies
<1>7. QED
  BY <1>1, <1>5, <1>6 DEF WholeInv

\* The entries for one host file are one, or none if it is hidden.
LEMMA OneEntryEach ==
  ASSUME TypeOK, Staged
  PROVE  AllIncluded
<1>1. ASSUME phase \in {"placing", "made"}, NEW f \in 1 .. Len(host)
      PROVE  Cardinality({i \in DOMAIN entries : entries[i].file = f})
               = IF host[f].hidden THEN 0 ELSE 1
  <2> DEFINE mine == {i \in DOMAIN entries : entries[i].file = f}
  <2>1. f \in DOMAIN host /\ pending = {}
    BY <1>1, SsdAssumption DEF TypeOK, Staged
  <2>2. ~host[f].hidden <=> \E i \in DOMAIN entries : entries[i].file = f
    BY <2>1 DEF Staged
  <2>3. CASE host[f].hidden
    <3>1. mine = {}
      BY <2>2, <2>3
    <3>2. QED
      BY <2>3, <3>1, FS_EmptySet
  <2>4. CASE ~host[f].hidden
    <3>1. PICK i \in DOMAIN entries : entries[i].file = f
      BY <2>2, <2>4
    <3>2. mine = {i}
      BY <3>1 DEF Staged
    <3>3. QED
      BY <2>4, <3>2, FS_Singleton
  <2>5. QED
    BY <2>3, <2>4
<1>2. QED
  BY <1>1 DEF AllIncluded

\* Staged names are pairs.
LEMMA StagedPairs ==
  ASSUME NEW f
  PROVE  StagedAs(f) = <<StagedAs(f)[1], StagedAs(f)[2]>>
BY DEF StagedAs, BasStaged, parse_dfs_directory_and_leaf

\* Two names have one staging file only if they are one, or R and $ meet.
LEMMA PathsDiffer ==
  ASSUME NEW a, NEW b, a = <<a[1], a[2]>>, b = <<b[1], b[2]>>,
         staging_temp_name(a) = staging_temp_name(b), a # b
  PROVE  {Root, "R"} \subseteq {a[1], b[1]}
BY DEF staging_temp_name, Root

\* With one staging file each, the packed files have their own bytes.
LEMMA EntryBodiesAreOwn ==
  ASSUME TypeOK, LastStays, EntryBodies
  PROVE  OwnBodies
<1> DEFINE as(i) == StagedAs(host[entries[i].file])
<1>1. ASSUME \A i, j \in DOMAIN entries : as(i) = as(j) => i = j,
             ~({Root, "R"} \subseteq {as(i)[1] : i \in DOMAIN entries}),
             NEW k \in DOMAIN bodies
      PROVE  bodies[k] = entries[k].file
  <2>1. k \in DOMAIN entries /\ bodies[k] = staged[entries[k].path]
    <3>1. DOMAIN bodies = 1 .. Len(bodies) /\ DOMAIN entries = 1 .. Len(entries)
      BY DEF EntryBodies, TypeOK
    <3>2. Len(bodies) <= Len(entries) /\ Len(bodies) \in Nat /\ Len(entries) \in Nat
      BY DEF EntryBodies, TypeOK
    <3>3. QED
      BY <1>1, <3>1, <3>2 DEF EntryBodies
  <2>2. \A i \in DOMAIN entries : entries[i].path = staging_temp_name(as(i))
    BY DEF EntryBodies
  <2>3. \A i \in DOMAIN entries : as(i) = <<as(i)[1], as(i)[2]>>
    BY StagedPairs
  <2> HIDE DEF as
  <2>4. ASSUME NEW j \in DOMAIN entries, j > k
        PROVE  entries[j].path # entries[k].path
    <3>1. as(j) # as(k)
      <4>1. j \in Int /\ k \in Int
        BY <2>1 DEF TypeOK
      <4>2. j # k
        BY <2>4, <4>1
      <4>3. \A a, b \in DOMAIN entries : as(a) = as(b) => a = b
        BY <1>1
      <4>4. QED
        BY <2>1, <4>2, <4>3
    <3>2. SUFFICES ASSUME staging_temp_name(as(j)) = staging_temp_name(as(k))
                   PROVE  FALSE
      BY <2>1, <2>2
    <3>3. {Root, "R"} \subseteq {as(j)[1], as(k)[1]}
      BY <2>1, <2>3, <3>1, <3>2, PathsDiffer
    <3>4. QED
      BY <1>1, <2>1, <3>3
  <2>5. QED
    BY <2>1, <2>4 DEF LastStays
<1>2. QED
  BY <1>1 DEF OwnBodies

\* Every host file that is not hidden, and no other, gets exactly one entry
\* (create_ssd's three lists of files do not overlap and leave none out).
THEOREM EveryFileOnce == Spec => []AllIncluded
<1>1. WholeInv => AllIncluded
  BY OneEntryEach DEF WholeInv, BuildInv
<1>2. QED
  BY <1>1, WholeInit, WholeStep, PTL DEF Spec

\* A packed file has its own host file's bytes unless two are staged under one
\* name or directory R meets the root directory (staging_temp_name).
THEOREM BytesAreTheFiles == Spec => []OwnBodies
<1>1. WholeInv => OwnBodies
  BY EntryBodiesAreOwn DEF WholeInv, BuildInv
<1>2. QED
  BY <1>1, WholeInit, WholeStep, PTL DEF Spec

----------------------------------------------------------------------------
(* What Min and SelectInSeq find.                                           *)

\* A set of numbers that is not empty has a least one.
LEMMA MinIs ==
  ASSUME NEW S, S \subseteq Nat, S # {}
  PROVE  Min(S) \in S /\ \A j \in S : Min(S) <= j
PROOF
  <1> DEFINE below == {p \in Nat \X Nat : p[1] < p[2]}
  <1>1. IsWellFoundedOn(below, Nat)
    BY NatLessThanWellFounded DEF OpToRel
  <1>2. \A x, y \in Nat : x < y => <<x, y>> \in below
    OBVIOUS
  <1> HIDE DEF below
  <1>3. PICK x \in S : \A y \in S : ~(<<y, x>> \in below)
    BY <1>1, WFMin
  <1>4. \A y \in S : ~(y < x)
    BY <1>2, <1>3
  <1>5. \A y \in S : x <= y
    BY <1>4
  <1> QED
    BY <1>5 DEF Min

----------------------------------------------------------------------------
(* The environment.                                                        *)

Tree ==
  /\ dirs \cup files \cup execs \subseteq Seq(PathNames)
  /\ \A path \in dirs \cup files : Len(path) > 1 => Front(path) \in dirs

EnvInv ==
  /\ Tree
  /\ pc = "start" => env \in [EnvNames -> Setting]

LEMMA FirstIs ==
  ASSUME NEW a, NEW b, NEW there
  PROVE  First(<<a, b>>, there) \in there \cup {None}
PROOF
  <1> DEFINE I == {i \in 1 .. Len(<<a, b>>) : <<a, b>>[i] \in there}
  <1>1. I # {} => Min(I) \in I
    BY MinIs
  <1>2. I # {} => Min(I) \in 1 .. 2 /\ <<a, b>>[Min(I)] \in there
    BY <1>1
  <1>3. First(<<a, b>>, there) =
          IF I = {} THEN None ELSE <<a, b>>[Min(I)]
    BY <1>2 DEF First, SelectInSeq
  <1> QED
    BY <1>2, <1>3

\* What the tools' root is for a path that is set.
Highest(g) ==
  IF Last(g) = Package THEN Front(g)
  ELSE IF g \o <<Package>> \in dirs THEN g
  ELSE IF g \o <<"__init__.py">> \in files /\ Len(g) > 1 /\ Last(Front(g)) = "py"
       THEN Front(g)
  ELSE If(g, dirs)

LEMMA FrontOf ==
  ASSUME NEW S, NEW g \in Seq(S), g # << >>
  PROVE  /\ Len(g) \in Nat \ {0} /\ Last(g) = g[Len(g)] /\ Last(g) \in S
         /\ Front(g) \in Seq(S) /\ Len(Front(g)) = Len(g) - 1
         /\ \A i \in 1 .. Len(g) - 1 : Front(g)[i] = g[i]
PROOF
  <1>1. Len(g) \in Nat \ {0} /\ g[Len(g)] \in S
    OBVIOUS
  <1>2. /\ SubSeq(g, 1, Len(g) - 1) \in Seq(S)
        /\ Len(SubSeq(g, 1, Len(g) - 1)) = Len(g) - 1
        /\ \A i \in 1 .. Len(g) - 1 : SubSeq(g, 1, Len(g) - 1)[i] = g[i]
    <2> DEFINE n == Len(g) - 1
               f == SubSeq(g, 1, n)
    <2>1. n \in Nat /\ \A i \in 1 .. n : g[i] \in S
      BY <1>1
    <2>2. /\ f \in Seq(S) /\ Len(f) = IF 1 <= n THEN n - 1 + 1 ELSE 0
          /\ \A i \in 1 .. n - 1 + 1 : f[i] = g[1 + i - 1]
      BY <2>1, SubSeqProperties
    <2> HIDE DEF n, f
    <2>3. Len(f) = n
      BY <2>1, <2>2
    <2>4. \A i \in 1 .. n : f[i] = g[i]
      <3>1. \A i \in 1 .. n : i \in 1 .. n - 1 + 1 /\ 1 + i - 1 = i
        BY <2>1
      <3> QED
        BY <2>2, <3>1
    <2> QED
      BY <2>2, <2>3, <2>4 DEF n, f
  <1> QED
    BY <1>1, <1>2 DEF Front, Last

LEMMA FrontIs ==
  ASSUME NEW g \in Seq(PathNames), g # << >>
  PROVE  /\ Len(g) \in Nat \ {0} /\ Last(g) = g[Len(g)] /\ Last(g) \in PathNames
         /\ Front(g) \in Seq(PathNames) /\ Len(Front(g)) = Len(g) - 1
         /\ \A i \in 1 .. Len(g) - 1 : Front(g)[i] = g[i]
PROOF
  BY FrontOf

LEMMA ChildIs ==
  ASSUME NEW g \in Seq(PathNames), NEW n \in PathNames
  PROVE  /\ g \o <<n>> \in Seq(PathNames) /\ Len(g \o <<n>>) = Len(g) + 1
         /\ Last(g \o <<n>>) = n /\ Front(g \o <<n>>) = g
PROOF
  <1> DEFINE c == g \o <<n>>
  <1>1. c \in Seq(PathNames) /\ Len(c) = Len(g) + 1 /\ c[Len(g) + 1] = n
        /\ \A i \in 1 .. Len(g) : c[i] = g[i]
    OBVIOUS
  <1> HIDE DEF c
  <1>2. c # << >>
    BY <1>1
  <1>5. /\ Front(c) \in Seq(PathNames) /\ Len(Front(c)) = Len(g)
        /\ \A i \in 1 .. Len(g) : Front(c)[i] = c[i]
    <2>1. Len(c) - 1 = Len(g)
      BY <1>1
    <2> QED
      BY <1>1, <1>2, <2>1, FrontIs
  <1>3. Front(c) = g
    BY <1>1, <1>5, SeqEqual
  <1>4. Last(c) = n
    BY <1>1 DEF Last
  <1> QED
    BY <1>1, <1>3, <1>4 DEF c

\* The part of a tree above a child of a directory is in the tree.
LEMMA ParentIs ==
  ASSUME Tree, NEW g \in Seq(PathNames), g # << >>, NEW n \in PathNames,
         g \o <<n>> \in dirs \cup files
  PROVE  g \in dirs
PROOF
  <1>1. Len(g \o <<n>>) > 1 /\ Front(g \o <<n>>) = g
    BY ChildIs, FrontIs
  <1> QED
    BY <1>1 DEF Tree

LEMMA RootIs ==
  ASSUME Tree, NEW g \in Seq(PathNames), g # None, Highest(g) # None, Last(g) # Package
  PROVE  /\ Highest(g) \in dirs
         /\ \/ Highest(g) = g
            \/ Highest(g) = Front(g) /\ Len(g) > 1 /\ Last(Front(g)) = "py"
PROOF
  <1>1. Package \in PathNames /\ "__init__.py" \in PathNames
    BY EnvAssumption
  <1>2. CASE g \o <<Package>> \in dirs
    BY <1>1, <1>2, ParentIs DEF Highest, None
  <1>3. CASE /\ g \o <<Package>> \notin dirs /\ g \o <<"__init__.py">> \in files
             /\ Len(g) > 1 /\ Last(Front(g)) = "py"
    <2>1. g \in dirs
      BY <1>1, <1>3, ParentIs DEF None
    <2>2. Front(g) \in dirs
      BY <1>3, <2>1 DEF Tree
    <2> QED
      BY <1>3, <2>2 DEF Highest
  <1>4. CASE /\ g \o <<Package>> \notin dirs
             /\ ~(g \o <<"__init__.py">> \in files /\ Len(g) > 1 /\ Last(Front(g)) = "py")
    BY <1>4 DEF Highest, If
  <1> QED
    BY <1>2, <1>3, <1>4

LEMMA RootStays ==
  ASSUME NEW g \in Seq(PathNames), g # None, g \in dirs, Last(g) # Package,
         Len(g) > 1 => Last(Front(g)) # "py"
  PROVE  Highest(g) = g
PROOF
  BY DEF Highest, If

\* What a text resolves to is a path, unless it says nothing.
LEMMA ResolvedIs ==
  ASSUME NEW t \in Setting
  PROVE  /\ Resolved(t) \in Seq(PathNames)
         /\ Resolved(t) = None <=> t.from \in {"unset", "blank"}
PROOF
  <1>1. /\ t.from \in Origins /\ t.names \in Seq(PathNames)
        /\ t.from = "root" => t.names # << >>
    BY DEF Setting, None
  <1>2. /\ Home \in Seq(PathNames) /\ Home # << >>
        /\ Here \in Seq(PathNames) /\ Here # << >>
    BY EnvAssumption DEF None
  <1>3. /\ Home \o t.names \in Seq(PathNames) /\ Home \o t.names # << >>
        /\ Here \o t.names \in Seq(PathNames) /\ Here \o t.names # << >>
    BY <1>1, <1>2
  <1>4. << >> \in Seq(PathNames)
    OBVIOUS
  <1> QED
    BY <1>1, <1>3, <1>4 DEF Resolved, Origins, None

\* A path that is published reads as it is.
LEMMA StrIs ==
  ASSUME NEW path
  PROVE  /\ Resolved(str(path)) = path /\ AsRead(str(path)) = path
         /\ Expanded(str(path)) = path /\ str(path).from = "root"
PROOF
  BY DEF Resolved, AsRead, Expanded, str

LEMMA ToolsRoot ==
  ASSUME NEW e, EnvPath(e, "FUJINET_TOOLS") # None
  PROVE  resolve_fujinet_tools_root(e) = Highest(EnvPath(e, "FUJINET_TOOLS"))
PROOF
  BY DEF resolve_fujinet_tools_root, Highest, Inside

\* The root found first is a path.
LEMMA FirstRoot ==
  ASSUME Tree, NEW e \in [EnvNames -> Setting], WellSet(e),
         NEW root, root = resolve_fujinet_tools_root(e), root # None
  PROVE  root \in Seq(PathNames)
PROOF
  <1> DEFINE g == EnvPath(e, "FUJINET_TOOLS")
             nio == resolve_fujinet_nio_home(e)
  <1>1. g \in Seq(PathNames)
    BY ResolvedIs DEF EnvPath, EnvNames
  <1>2. CASE g = None
    <2>1. root = nio \o <<"py">>
      BY <1>2 DEF resolve_fujinet_tools_root, Inside, None
    <2>2. nio \in Seq(PathNames)
      BY DEF resolve_fujinet_nio_home, If, Tree, None
    <2> QED
      BY <2>1, <2>2, EnvAssumption, ChildIs
  <1>3. CASE g # None
    <2>1. root = Highest(g)
      BY <1>1, <1>3, ToolsRoot
    <2>2. Front(g) \in Seq(PathNames)
      BY <1>1, <1>3, FrontIs DEF None
    <2> QED
      BY <1>1, <2>1, <2>2 DEF Highest, If
  <1> QED
    BY <1>2, <1>3

\* The root found first is one that is found again, and then stays.
LEMMA RootSettles ==
  ASSUME Tree, NEW e \in [EnvNames -> Setting], WellSet(e),
         NEW r1, r1 = resolve_fujinet_tools_root(e), r1 # None,
         NEW r2, r2 = Highest(r1), r2 # None
  PROVE  r1 \in Seq(PathNames) /\ r2 \in Seq(PathNames) /\ r2 \in dirs /\ Highest(r2) = r2
PROOF
  <1> DEFINE g == EnvPath(e, "FUJINET_TOOLS")
             nio == resolve_fujinet_nio_home(e)
  <1>1. g \in Seq(PathNames)
    BY ResolvedIs DEF EnvPath, EnvNames
  <1>2. CASE g = None
    <2>1. /\ r1 = nio \o <<"py">> /\ r1 \o <<Package>> \in dirs
      BY <1>2 DEF resolve_fujinet_tools_root, Inside, None
    <2>2. nio \in Seq(PathNames)
      BY DEF resolve_fujinet_nio_home, If, Tree, None
    <2>3. /\ "py" \in PathNames /\ Package \in PathNames /\ Package # "py"
      BY EnvAssumption DEF Package
    <2>4. r1 \in Seq(PathNames) /\ Last(r1) = "py"
      BY <2>1, <2>2, <2>3, ChildIs
    <2>5. Highest(r1) = r1
      BY <2>1, <2>3, <2>4 DEF Highest
    <2>6. r1 \in dirs
      BY <2>1, <2>3, <2>4, ParentIs DEF None
    <2> QED
      BY <2>4, <2>5, <2>6
  <1>3. CASE g # None
    <2>1. r1 = Highest(g)
      BY <1>1, <1>3, ToolsRoot
    <2>2. /\ Len(g) \in Nat \ {0} /\ Front(g) \in Seq(PathNames) /\ Len(Front(g)) = Len(g) - 1
          /\ Last(g) = g[Len(g)]
          /\ \A i \in 1 .. Len(g) - 1 : Front(g)[i] = g[i]
      BY <1>1, <1>3, FrontIs DEF None
    <2>3. \A i \in 1 .. (Len(g) - 1) : g[i] = g[i + 1] => g[i] \notin {Package, "py"}
      BY DEF WellSet
    <2> HIDE DEF g
    <2>4. CASE Last(g) = Package
      <3>1. r1 = Front(g) /\ r1 \in Seq(PathNames) /\ r1 # << >>
        BY <2>1, <2>2, <2>4 DEF Highest, None
      <3>2. Len(g) - 1 \in 1 .. (Len(g) - 1) /\ Last(r1) = g[Len(g) - 1]
        BY <2>2, <3>1, FrontIs
      <3>3. Last(r1) # Package
        <4>1. g[Len(g) - 1] = g[Len(g) - 1 + 1] => g[Len(g) - 1] # Package
          BY <2>3, <3>2
        <4> QED
          <5>1. g[Len(g)] = Package /\ Len(g) - 1 + 1 = Len(g)
            BY <2>2, <2>4
          <5> QED
            BY <3>2, <4>1, <5>1
      <3>4. /\ r2 \in dirs
            /\ \/ r2 = r1
               \/ r2 = Front(r1) /\ Len(r1) > 1 /\ Last(Front(r1)) = "py"
        BY <3>1, <3>3, RootIs
      <3>5. CASE r2 = r1
        BY <3>1, <3>4, <3>5
      <3>6. CASE r2 = Front(r1) /\ Len(r1) > 1 /\ Last(Front(r1)) = "py"
        <4>1. /\ r2 \in Seq(PathNames) /\ Len(r2) = Len(g) - 2 /\ r2 # << >>
              /\ \A i \in 1 .. Len(r2) : r2[i] = g[i]
          <5>1. /\ Len(r1) = Len(g) - 1 /\ Len(r1) \in Nat
                /\ \A i \in 1 .. Len(r1) : r1[i] = g[i]
            BY <2>2, <3>1
          <5>2. /\ Front(r1) \in Seq(PathNames) /\ Len(Front(r1)) = Len(r1) - 1
                /\ \A i \in 1 .. Len(r1) - 1 : Front(r1)[i] = r1[i]
            BY <3>1, FrontIs
          <5> QED
            BY <2>2, <3>6, <5>1, <5>2
        <4>2. Last(r2) # Package
          BY <3>6 DEF Package
        <4>3. ASSUME Len(r2) > 1, Last(Front(r2)) = "py"
              PROVE  FALSE
          <5>1. Last(r2) = r2[Len(r2)] /\ Last(Front(r2)) = r2[Len(r2) - 1]
            <6>1. /\ Front(r2) \in Seq(PathNames) /\ Len(Front(r2)) = Len(r2) - 1
                  /\ \A i \in 1 .. Len(r2) - 1 : Front(r2)[i] = r2[i]
              BY <4>1, FrontIs
            <6> QED
              BY <4>1, <4>3, <6>1 DEF Last
          <5>2. /\ Len(r2) - 1 \in 1 .. (Len(g) - 1) /\ g[Len(r2) - 1] = "py"
                /\ g[Len(r2) - 1 + 1] = "py"
            BY <2>2, <3>6, <4>1, <4>3, <5>1
          <5> QED
            BY <2>3, <5>2
        <4> QED
          BY <3>1, <3>4, <4>1, <4>2, <4>3, RootStays DEF None
      <3> QED
        BY <3>4, <3>5, <3>6
    <2>5. CASE Last(g) # Package
      <3>1. /\ r1 \in dirs
            /\ \/ r1 = g
               \/ r1 = Front(g) /\ Len(g) > 1 /\ Last(Front(g)) = "py"
        BY <1>1, <1>3, <2>1, <2>5, RootIs
      <3>2. CASE r1 = g
        BY <1>1, <2>1, <3>1, <3>2
      <3>3. CASE r1 = Front(g) /\ Len(g) > 1 /\ Last(Front(g)) = "py"
        <4>1. r1 # << >> /\ r1 \in Seq(PathNames)
          BY <2>2, <3>3
        <4>2. Last(r1) # Package
          BY <3>3 DEF Package
        <4>3. ASSUME Len(r1) > 1, Last(Front(r1)) = "py"
              PROVE  FALSE
          <5>1. /\ Front(r1) \in Seq(PathNames) /\ Len(Front(r1)) = Len(r1) - 1
                /\ \A i \in 1 .. Len(r1) - 1 : Front(r1)[i] = r1[i]
            BY <4>1, FrontIs
          <5>2. r1[Len(r1)] = "py" /\ r1[Len(r1) - 1] = "py"
            BY <3>3, <4>1, <4>3, <5>1 DEF Last
          <5>3. /\ Len(r1) - 1 \in 1 .. (Len(g) - 1) /\ g[Len(r1) - 1] = "py"
                /\ g[Len(r1) - 1 + 1] = "py"
            BY <2>2, <3>3, <4>1, <4>3, <5>2
          <5> QED
            BY <2>3, <5>3
        <4> QED
          BY <3>1, <4>1, <4>2, <4>3, RootStays DEF None
      <3> QED
        BY <3>1, <3>2, <3>3
    <2> QED
      BY <2>4, <2>5
  <1> QED
    BY <1>2, <1>3

\* The names are seven different ones.
LEMMA EnvFields ==
  ASSUME NEW S, NEW e \in [EnvNames -> S]
  PROVE  /\ e["BEEBIUM_HOME"] \in S /\ e["FUJINET_NIO_HOME"] \in S
         /\ e["BEEBIUM_SERVER"] \in S /\ e["BEEBIUM_MOS"] \in S
         /\ e["BEEBIUM_ROM_DIR"] \in S /\ e["BEEBIUM_BASIC"] \in S
         /\ e["FUJINET_TOOLS"] \in S
PROOF
  BY DEF EnvNames

\* What publishing does to each variable.
LEMMA EnsureIs ==
  ASSUME NEW e, DOMAIN e = EnvNames, NEW home, home = resolve_beebium_home(e),
         NEW basic, basic = resolve_beebium_basic(e, home),
         NEW f, f = ensure_environment(e)
  PROVE  /\ DOMAIN f = EnvNames /\ f = [n \in EnvNames |-> f[n]]
         /\ f["BEEBIUM_HOME"] = e["BEEBIUM_HOME"]
         /\ f["FUJINET_NIO_HOME"] = e["FUJINET_NIO_HOME"]
         /\ f["BEEBIUM_SERVER"] = SetDefault(e["BEEBIUM_SERVER"], resolve_beebium_server(e, home))
         /\ f["BEEBIUM_MOS"] = SetDefault(e["BEEBIUM_MOS"], resolve_beebium_mos(e, home))
         /\ f["BEEBIUM_ROM_DIR"] =
              SetDefault(e["BEEBIUM_ROM_DIR"], resolve_beebium_rom_dir(e, home))
         /\ f["BEEBIUM_BASIC"] =
              IF basic = None THEN e["BEEBIUM_BASIC"] ELSE SetDefault(e["BEEBIUM_BASIC"], basic)
         /\ f["FUJINET_TOOLS"] = str(resolve_fujinet_tools_root(e))
PROOF
  BY DEF ensure_environment, EnvNames

\* A variable that is well set reads as it resolves.
LEMMA WellRead ==
  ASSUME NEW e \in [EnvNames -> Setting], WellSet(e), NEW n \in EnvNames \ {"FUJINET_TOOLS"}
  PROVE  /\ e[n].from = "unset" <=> EnvPath(e, n) = None
         /\ Expanded(e[n]) = EnvPath(e, n)
         /\ n # "BEEBIUM_BASIC" => AsRead(e[n]) = EnvPath(e, n)
PROOF
  <1>1. e[n] \in Setting
    OBVIOUS
  <1>2. ~e[n].padded /\ e[n].from # "blank" /\ (e[n].from = "home" => n = "BEEBIUM_BASIC")
    BY DEF WellSet
  <1> QED
    BY <1>1, <1>2, ResolvedIs DEF EnvPath, Expanded, AsRead

\* A variable that is set to something found, or not set and then found,
\* reads as what was found.
LEMMA Found_is ==
  ASSUME NEW e \in [EnvNames -> Setting], WellSet(e),
         NEW n \in EnvNames \ {"FUJINET_TOOLS", "BEEBIUM_BASIC"},
         NEW there, NEW found, found # None,
         EnvPath(e, n) # None => found = If(EnvPath(e, n), there)
  PROVE  LET s == SetDefault(e[n], found)
         IN  s.from # "unset" /\ Resolved(s) = found /\ AsRead(s) = found
PROOF
  <1> DEFINE s == SetDefault(e[n], found)
  <1>1. CASE e[n].from = "unset"
    <2>1. s = str(found)
      BY <1>1 DEF SetDefault
    <2> QED
      BY <2>1, StrIs
  <1>2. CASE e[n].from # "unset"
    <2>1. s = e[n] /\ EnvPath(e, n) = found
      BY <1>2, WellRead DEF SetDefault, If
    <2> QED
      BY <1>2, <2>1, WellRead DEF EnvPath
  <1> QED
    BY <1>1, <1>2

\* What a session starts with is on the disk, and is found again.
LEMMA EnvSettles ==
  ASSUME Tree, NEW e \in [EnvNames -> Setting], WellSet(e), Resolves(e),
         NEW f, f = ensure_environment(e), resolve_fujinet_tools_root(f) # None,
         NEW g, g = add_fujinet_tools_to_path(f)
  PROVE  /\ AsRead(g["BEEBIUM_HOME"]) \in dirs /\ AsRead(g["BEEBIUM_SERVER"]) \in execs
         /\ AsRead(g["BEEBIUM_MOS"]) \in files /\ AsRead(g["BEEBIUM_ROM_DIR"]) \in dirs
         /\ AsRead(g["FUJINET_TOOLS"]) \in dirs
         /\ ScriptRun(g["FUJINET_NIO_HOME"]) \in files
         /\ EnvPath(e, "BEEBIUM_BASIC") \in files \cup {None} =>
              Expanded(g["BEEBIUM_BASIC"]) \in files \cup {None}
         /\ add_fujinet_tools_to_path(ensure_environment(g)) = g
PROOF
  <1> DEFINE home == resolve_beebium_home(e)
             sv == resolve_beebium_server(e, home)
             mv == resolve_beebium_mos(e, home)
             rv == resolve_beebium_rom_dir(e, home)
             bv == resolve_beebium_basic(e, home)
             r1 == resolve_fujinet_tools_root(e)
             r2 == Highest(r1)
             ss == SetDefault(e["BEEBIUM_SERVER"], sv)
             ms == SetDefault(e["BEEBIUM_MOS"], mv)
             rs == SetDefault(e["BEEBIUM_ROM_DIR"], rv)
             bs == IF bv = None THEN e["BEEBIUM_BASIC"] ELSE SetDefault(e["BEEBIUM_BASIC"], bv)
  <1>1. /\ home # None /\ sv # None /\ mv # None /\ rv # None /\ r1 # None
        /\ resolve_fujinet_nio_home(e) # None /\ Services(e) \in files
    BY DEF Resolves
  <1>3. sv \in execs /\ mv \in files /\ rv \in dirs /\ home \in dirs
    <2>1. sv \in execs
      BY <1>1, FirstIs DEF resolve_beebium_server, If, Servers
    <2>2. mv \in files
      BY <1>1, FirstIs DEF resolve_beebium_mos, If
    <2>3. rv \in dirs /\ home \in dirs
      BY <1>1 DEF resolve_beebium_rom_dir, resolve_beebium_home, If
    <2> QED
      BY <2>1, <2>2, <2>3
  <1>4. /\ ss.from # "unset" /\ Resolved(ss) = sv /\ AsRead(ss) = sv
        /\ ms.from # "unset" /\ Resolved(ms) = mv /\ AsRead(ms) = mv
        /\ rs.from # "unset" /\ Resolved(rs) = rv /\ AsRead(rs) = rv
    <2>1. {"BEEBIUM_SERVER", "BEEBIUM_MOS", "BEEBIUM_ROM_DIR"} \subseteq
            EnvNames \ {"FUJINET_TOOLS", "BEEBIUM_BASIC"}
      BY DEF EnvNames
    <2>2. ss.from # "unset" /\ Resolved(ss) = sv /\ AsRead(ss) = sv
      BY <1>1, <2>1, Found_is DEF resolve_beebium_server
    <2>3. ms.from # "unset" /\ Resolved(ms) = mv /\ AsRead(ms) = mv
      <3>1. mv # None
        BY <1>1
      <3>2. EnvPath(e, "BEEBIUM_MOS") # None => mv = If(EnvPath(e, "BEEBIUM_MOS"), files)
        BY DEF resolve_beebium_mos
      <3>3. "BEEBIUM_MOS" \in EnvNames \ {"FUJINET_TOOLS", "BEEBIUM_BASIC"}
        BY <2>1
      <3>4. \A there, found :
               /\ found # None
               /\ EnvPath(e, "BEEBIUM_MOS") # None =>
                    found = If(EnvPath(e, "BEEBIUM_MOS"), there)
               => /\ SetDefault(e["BEEBIUM_MOS"], found).from # "unset"
                  /\ Resolved(SetDefault(e["BEEBIUM_MOS"], found)) = found
                  /\ AsRead(SetDefault(e["BEEBIUM_MOS"], found)) = found
        BY <3>3, Found_is
      <3> HIDE DEF mv
      <3> QED
        BY <3>1, <3>2, <3>4
    <2>4. rs.from # "unset" /\ Resolved(rs) = rv /\ AsRead(rs) = rv
      <3>1. rv # None
        BY <1>1
      <3>2. EnvPath(e, "BEEBIUM_ROM_DIR") # None => rv = If(EnvPath(e, "BEEBIUM_ROM_DIR"), dirs)
        BY DEF resolve_beebium_rom_dir
      <3>3. "BEEBIUM_ROM_DIR" \in EnvNames \ {"FUJINET_TOOLS", "BEEBIUM_BASIC"}
        BY <2>1
      <3> QED
        BY <3>1, <3>2, <3>3, Found_is
    <2> QED
      BY <2>2, <2>3, <2>4
  <1>5. AsRead(e["BEEBIUM_HOME"]) \in dirs
    <2>1. AsRead(e["BEEBIUM_HOME"]) = EnvPath(e, "BEEBIUM_HOME")
      BY WellRead DEF EnvNames
    <2> QED
      BY <1>1, <2>1 DEF resolve_beebium_home, If
  <1>6. ScriptRun(e["FUJINET_NIO_HOME"]) \in files
    <2>1. /\ AsRead(e["FUJINET_NIO_HOME"]) = EnvPath(e, "FUJINET_NIO_HOME")
          /\ e["FUJINET_NIO_HOME"].from # "here"
      BY WellRead DEF EnvNames, WellSet
    <2>2. resolve_fujinet_nio_home(e) = EnvPath(e, "FUJINET_NIO_HOME")
      BY <1>1 DEF resolve_fujinet_nio_home, If
    <2> QED
      BY <1>1, <2>1, <2>2 DEF ScriptRun, Services
  <1>7. ASSUME EnvPath(e, "BEEBIUM_BASIC") \in files \cup {None}
        PROVE  Expanded(bs) \in files \cup {None}
    <2>1. /\ e["BEEBIUM_BASIC"].from = "unset" <=> EnvPath(e, "BEEBIUM_BASIC") = None
          /\ Expanded(e["BEEBIUM_BASIC"]) = EnvPath(e, "BEEBIUM_BASIC")
      BY WellRead DEF EnvNames
    <2>2. CASE e["BEEBIUM_BASIC"].from = "unset" /\ bv # None
      <3>1. bv \in files
        BY <2>1, <2>2, FirstIs DEF resolve_beebium_basic
      <3>2. bs = str(bv)
        BY <2>2 DEF SetDefault
      <3> QED
        BY <3>1, <3>2, StrIs
    <2>3. CASE ~(e["BEEBIUM_BASIC"].from = "unset" /\ bv # None)
      BY <1>7, <2>1, <2>3 DEF SetDefault
    <2> QED
      BY <2>2, <2>3
  <1>8. /\ DOMAIN f = EnvNames /\ f = [n \in EnvNames |-> f[n]]
        /\ f["BEEBIUM_HOME"] = e["BEEBIUM_HOME"]
        /\ f["FUJINET_NIO_HOME"] = e["FUJINET_NIO_HOME"]
        /\ f["BEEBIUM_SERVER"] = ss /\ f["BEEBIUM_MOS"] = ms /\ f["BEEBIUM_ROM_DIR"] = rs
        /\ f["BEEBIUM_BASIC"] = bs /\ f["FUJINET_TOOLS"] = str(r1)
    BY EnsureIs
  <1>9. /\ bs.from = "unset" => e["BEEBIUM_BASIC"].from = "unset" /\ bv = None
    BY StrIs DEF SetDefault
  <1> HIDE DEF home, sv, mv, rv, bv, r1, r2, ss, ms, rs, bs
  <1>10. r1 \in Seq(PathNames) /\ r1 # None
    BY <1>1, FirstRoot DEF r1
  <1>11. resolve_fujinet_tools_root(f) = r2
    <2>1. EnvPath(f, "FUJINET_TOOLS") = r1
      BY <1>8, StrIs DEF EnvPath
    <2> QED
      BY <1>10, <2>1, ToolsRoot DEF r2
  <1>12. r2 \in Seq(PathNames) /\ r2 # None /\ r2 \in dirs /\ Highest(r2) = r2
    <2>1. r2 # None
      BY <1>11
    <2> QED
      BY <1>1, <2>1, RootSettles DEF r1, r2
  <1>13. /\ DOMAIN g = EnvNames /\ g = [n \in EnvNames |-> g[n]]
         /\ g["BEEBIUM_HOME"] = e["BEEBIUM_HOME"]
         /\ g["FUJINET_NIO_HOME"] = e["FUJINET_NIO_HOME"]
         /\ g["BEEBIUM_SERVER"] = ss /\ g["BEEBIUM_MOS"] = ms /\ g["BEEBIUM_ROM_DIR"] = rs
         /\ g["BEEBIUM_BASIC"] = bs /\ g["FUJINET_TOOLS"] = str(r2)
    BY <1>8, <1>11 DEF add_fujinet_tools_to_path, EnvNames
  <1>14. home = resolve_beebium_home(g)
    BY <1>13 DEF home, resolve_beebium_home, EnvPath
  <1>15. resolve_beebium_rom_dir(g, home) = rv
    <2>1. EnvPath(g, "BEEBIUM_ROM_DIR") = rv
      BY <1>4, <1>13 DEF EnvPath
    <2> QED
      BY <1>1, <1>3, <2>1 DEF resolve_beebium_rom_dir, If
  <1>16. resolve_fujinet_tools_root(g) = r2
    <2>1. EnvPath(g, "FUJINET_TOOLS") = r2
      BY <1>13, StrIs DEF EnvPath
    <2> QED
      BY <1>12, <2>1, ToolsRoot
  <1>17. ensure_environment(g) = g
    <2> DEFINE h == ensure_environment(g)
               bg == resolve_beebium_basic(g, home)
    <2>1. /\ DOMAIN h = EnvNames /\ h = [n \in EnvNames |-> h[n]]
          /\ h["BEEBIUM_HOME"] = g["BEEBIUM_HOME"]
          /\ h["FUJINET_NIO_HOME"] = g["FUJINET_NIO_HOME"]
          /\ h["BEEBIUM_SERVER"] = SetDefault(g["BEEBIUM_SERVER"], resolve_beebium_server(g, home))
          /\ h["BEEBIUM_MOS"] = SetDefault(g["BEEBIUM_MOS"], resolve_beebium_mos(g, home))
          /\ h["BEEBIUM_ROM_DIR"] =
               SetDefault(g["BEEBIUM_ROM_DIR"], resolve_beebium_rom_dir(g, home))
          /\ h["BEEBIUM_BASIC"] =
               IF bg = None THEN g["BEEBIUM_BASIC"] ELSE SetDefault(g["BEEBIUM_BASIC"], bg)
          /\ h["FUJINET_TOOLS"] = str(resolve_fujinet_tools_root(g))
      <3>1. DOMAIN g = EnvNames
        BY <1>13
      <3> HIDE DEF h, bg
      <3>2. h = ensure_environment(g) /\ bg = resolve_beebium_basic(g, home)
        BY DEF h, bg
      <3> QED
        BY <1>14, <3>1, <3>2, EnsureIs
    <2>2. g["BEEBIUM_BASIC"].from = "unset" => bg = None
      <3>1. SUFFICES ASSUME bs.from = "unset"
                     PROVE  bg = None
        BY <1>13
      <3>2. e["BEEBIUM_BASIC"].from = "unset" /\ bv = None /\ g["BEEBIUM_BASIC"] = bs
        BY <1>9, <1>13, <3>1
      <3>3. EnvPath(g, "BEEBIUM_BASIC") = None /\ EnvPath(e, "BEEBIUM_BASIC") = None
        BY <3>1, <3>2 DEF EnvPath, Resolved
      <3> QED
        BY <1>15, <3>2, <3>3 DEF resolve_beebium_basic, bv, rv
    <2> HIDE DEF h, bg
    <2>3. \A n \in EnvNames : h[n] = g[n]
      BY <1>4, <1>13, <1>16, <2>1, <2>2 DEF SetDefault, EnvNames
    <2>4. h = g
      BY <1>13, <2>1, <2>3
    <2> QED
      BY <2>4 DEF h
  <1>18. add_fujinet_tools_to_path(g) = g
    BY <1>13, <1>16 DEF add_fujinet_tools_to_path
  <1>19. AsRead(g["FUJINET_TOOLS"]) \in dirs
    BY <1>12, <1>13, StrIs
  <1>20. EnvPath(e, "BEEBIUM_BASIC") \in files \cup {None} =>
           Expanded(g["BEEBIUM_BASIC"]) \in files \cup {None}
    BY <1>7, <1>13 DEF bs
  <1> QED
    BY <1>3, <1>4, <1>5, <1>6, <1>13, <1>17, <1>18, <1>19, <1>20

----------------------------------------------------------------------------
(* The stages of a test.                                                   *)

FW == {"firmware", "tree"}
SettingUp == {"setup", "script", "service", "prepare", "weather", "iss", "poll", "boot"}
InBody == {"body", "command", "look", "judge", "picture", "log"}
Closing == {"teardown", "final", "unread", "stop", "remove"}
Active == SettingUp \cup InBody \cup Closing

\* The fixtures that are set up, and the one whose turn it is.
Ups == {up[i] : i \in 1 .. Len(up)}
DueNext == plan[Len(up) + 1]
Top == up[Len(up)]

StageInv ==
  /\ test \in 0 .. MaxTests
  /\ pc \in {"start", "idle", "exit"} \cup Active
  /\ pc \in Active => test > 0 /\ plan \in Plans
  /\ pc \notin Active => plan = << >> /\ up = << >>
  /\ up \in Seq(Fixtures) /\ Len(up) <= Len(plan) /\ \A i \in 1 .. Len(up) : up[i] = plan[i]
  /\ pc \in InBody => Len(up) = Len(plan)
  /\ pc \in SettingUp \ {"setup"} => Len(up) < Len(plan)
  /\ pc \in {"script", "service"} => DueNext = "service"
  /\ pc \in {"prepare", "poll"} => DueNext \in FW
  /\ pc \in {"weather", "iss"} => DueNext = "tree"
  /\ pc = "boot" => DueNext = "bbc"
  /\ pc \in {"final", "unread"} => up # << >> /\ Top = "bbc"
  /\ pc \in {"stop", "remove"} => up # << >> /\ Top \in FW

LEMMA PlanIs ==
  ASSUME StageInv
  PROVE  /\ plan \in Seq(Fixtures) /\ Len(plan) \in Nat /\ Len(up) \in Nat
         /\ DOMAIN plan = 1 .. Len(plan)
         /\ \A i, j \in 1 .. Len(plan) :
              plan[i] = plan[j] \/ {plan[i], plan[j]} \subseteq FW => i = j
         /\ \A i \in 1 .. Len(plan) : plan[i] = "bbc" =>
              \E j \in 1 .. Len(plan) : j < i /\ plan[j] = "evidence"
         /\ \A i \in 1 .. Len(plan) : plan[i] = "evidence" =>
              \E j \in 1 .. Len(plan) : i < j /\ plan[j] = "bbc"
PROOF
  <1>1. CASE plan = << >>
    BY <1>1 DEF StageInv
  <1>2. CASE plan \in Plans
    <2>1. plan \in Seq(Fixtures) /\ DOMAIN plan = 1 .. Len(plan) /\ Len(plan) \in Nat
      BY <1>2, PlanAssumption
    <2>2. \A i, j \in DOMAIN plan :
            plan[i] = plan[j] \/ {plan[i], plan[j]} \subseteq FW => i = j
      BY <1>2, PlanAssumption DEF FW
    <2>3. \A i \in DOMAIN plan : plan[i] = "bbc" =>
            \E j \in DOMAIN plan : j < i /\ plan[j] = "evidence"
      BY <1>2, PlanAssumption
    <2>4. \A i \in DOMAIN plan : plan[i] = "evidence" =>
            \E j \in DOMAIN plan : i < j /\ plan[j] = "bbc"
      BY <1>2, PlanAssumption
    <2>5. Len(up) \in Nat
      BY DEF StageInv
    <2> QED
      BY <2>1, <2>2, <2>3, <2>4, <2>5
  <1> QED
    BY <1>1, <1>2 DEF StageInv

\* What is due is not set up yet.
LEMMA Ahead ==
  ASSUME StageInv, Len(up) < Len(plan)
  PROVE  /\ DueNext \in Fixtures /\ DueNext \notin Ups
         /\ DueNext \in FW => Ups \cap FW = {}
         /\ DueNext = "bbc" => "evidence" \in Ups
PROOF
  <1>1. Len(up) + 1 \in 1 .. Len(plan)
    BY PlanIs
  <1>2. \A i \in 1 .. Len(up) : i \in 1 .. Len(plan) /\ up[i] = plan[i] /\ i # Len(up) + 1
    BY <1>1, PlanIs DEF StageInv
  <1>3. DueNext \in Fixtures
    BY <1>1, PlanIs DEF DueNext
  <1>4. DueNext \notin Ups
    BY <1>1, <1>2, PlanIs DEF DueNext, Ups
  <1>5. DueNext \in FW => Ups \cap FW = {}
    BY <1>1, <1>2, PlanIs DEF DueNext, Ups
  <1>6. ASSUME DueNext = "bbc"
        PROVE  "evidence" \in Ups
    <2>1. PICK j \in 1 .. Len(plan) : j < Len(up) + 1 /\ plan[j] = "evidence"
      BY <1>1, <1>6, PlanIs DEF DueNext
    <2>2. j \in 1 .. Len(up)
      BY <2>1, PlanIs
    <2> QED
      BY <1>2, <2>1, <2>2 DEF Ups
  <1> QED
    BY <1>3, <1>4, <1>5, <1>6

\* One more fixture is set up.
LEMMA OneUp ==
  ASSUME StageInv, Len(up) < Len(plan), SetUp
  PROVE  /\ up' \in Seq(Fixtures) /\ Len(up') = Len(up) + 1
         /\ \A i \in 1 .. Len(up') : up'[i] = plan[i]
         /\ Ups' = Ups \cup {DueNext}
PROOF
  <1>1. DueNext \in Fixtures /\ up \in Seq(Fixtures) /\ Len(up) \in Nat
    BY Ahead, PlanIs DEF StageInv
  <1>2. /\ up' = Append(up, DueNext)
    BY DEF SetUp, DueNext
  <1>3. /\ up' \in Seq(Fixtures) /\ Len(up') = Len(up) + 1
        /\ \A i \in 1 .. Len(up) : up'[i] = up[i]
        /\ up'[Len(up) + 1] = DueNext
    BY <1>1, <1>2
  <1>4. \A i \in 1 .. Len(up') : up'[i] = plan[i]
    BY <1>1, <1>3 DEF StageInv, DueNext
  <1>5. Ups' = Ups \cup {DueNext}
    BY <1>1, <1>3 DEF Ups
  <1> QED
    BY <1>3, <1>4, <1>5

\* The last one is torn down.
LEMMA OneDown ==
  ASSUME StageInv, up # << >>, NEW place, TornDown(place)
  PROVE  /\ Len(up) \in Nat \ {0}
         /\ up' \in Seq(Fixtures) /\ Len(up') = Len(up) - 1
         /\ \A i \in 1 .. Len(up') : up'[i] = plan[i]
         /\ Top \in Ups /\ Ups' = Ups \ {Top}
         /\ Top \in FW => Ups' \cap FW = {}
         /\ "bbc" \in Ups => Top # "evidence"
PROOF
  <1>1. up \in Seq(Fixtures) /\ Len(up) \in Nat \ {0} /\ Len(up) <= Len(plan)
        /\ \A i \in 1 .. Len(up) : up[i] = plan[i] /\ i \in 1 .. Len(plan)
    BY PlanIs DEF StageInv
  <1>2. up' = Front(up)
    BY DEF TornDown, Front
  <1>3. /\ up' \in Seq(Fixtures) /\ Len(up') = Len(up) - 1
        /\ \A i \in 1 .. Len(up) - 1 : up'[i] = up[i]
    BY <1>1, <1>2, FrontOf
  <1>4. Top \in Ups
    BY <1>1 DEF Top, Ups
  <1>5. \A i \in 1 .. Len(up) : i # Len(up) => up[i] # Top /\ ~({up[i], Top} \subseteq FW)
    BY <1>1, PlanIs DEF Top
  <1>6. Ups' = Ups \ {Top}
    <2>1. ASSUME NEW x \in Ups, x # Top
          PROVE  x \in Ups'
      <3>1. PICK i \in 1 .. Len(up) : up[i] = x
        BY DEF Ups
      <3>2. i \in 1 .. Len(up')
        BY <1>1, <1>3, <2>1, <3>1 DEF Top
      <3> QED
        BY <1>1, <1>3, <3>1, <3>2 DEF Ups
    <2>2. ASSUME NEW x \in Ups'
          PROVE  x \in Ups /\ x # Top
      <3>1. PICK i \in 1 .. Len(up') : up'[i] = x
        BY DEF Ups
      <3>2. i \in 1 .. Len(up) /\ i # Len(up) /\ up[i] = x
        BY <1>1, <1>3, <3>1
      <3> QED
        BY <1>5, <3>2 DEF Ups
    <2> QED
      BY <2>1, <2>2
  <1>7. ASSUME Top \in FW, NEW x \in Ups', x \in FW
        PROVE  FALSE
    <2>1. PICK i \in 1 .. Len(up) : up[i] = x
      BY <1>6, <1>7 DEF Ups
    <2> QED
      BY <1>5, <1>6, <1>7, <2>1 DEF Top
  <1>8. ASSUME "bbc" \in Ups, Top = "evidence"
        PROVE  FALSE
    <2>1. PICK i \in 1 .. Len(up) : up[i] = "bbc"
      BY <1>8 DEF Ups
    <2>2. PICK j \in 1 .. Len(plan) : j < i /\ plan[j] = "evidence"
      BY <1>1, <2>1, PlanIs
    <2>3. j \in 1 .. Len(up) /\ j # Len(up) /\ up[j] = "evidence"
      BY <1>1, <2>1, <2>2
    <2> QED
      BY <1>5, <1>8, <2>3
  <1> QED
    BY <1>1, <1>3, <1>4, <1>6, <1>7, <1>8

----------------------------------------------------------------------------
(* What a step does to the stage: the harness stays where it is, begins a  *)
(* test, comes to the fixture due, has it, goes on, tears one down, ends.  *)

Stays == UNCHANGED <<pc, test, plan, up>>

Begins ==
  /\ pc = "idle" /\ pc' = "setup" /\ test < MaxTests /\ test' = test + 1
  /\ plan' \in Plans /\ up' = up

Comes ==
  /\ pc \in SettingUp /\ Len(up) < Len(plan) /\ UNCHANGED <<test, plan, up>>
  /\ \/ pc' \in {"script", "service"} /\ DueNext = "service"
     \/ pc' \in {"prepare", "poll"} /\ DueNext \in FW
     \/ pc' \in {"weather", "iss"} /\ DueNext = "tree"
     \/ pc' = "boot" /\ DueNext = "bbc"

Has == pc \in SettingUp /\ Len(up) < Len(plan) /\ SetUp /\ UNCHANGED <<test, plan>>

GoesOn ==
  /\ pc \in SettingUp \cup InBody /\ UNCHANGED <<test, plan, up>>
  /\ pc' = "teardown" \/ (pc' \in InBody /\ (up = plan \/ pc \in InBody))

Stops ==
  /\ pc \in Closing /\ up # << >> /\ UNCHANGED <<test, plan, up>>
  /\ \/ pc' \in {"final", "unread"} /\ Top = "bbc"
     \/ pc' \in {"stop", "remove"} /\ Top \in FW

Lowers ==
  /\ pc \in Closing /\ up # << >> /\ TornDown("teardown") /\ UNCHANGED <<test, plan>>
  /\ pc = "remove" <=> Top \in FW

Ends ==
  /\ pc \in Active /\ pc' = "idle" /\ plan' = << >> /\ up' = << >> /\ test' = test

LEMMA EachStep ==
  ASSUME StageInv, Session
  PROVE  Stays \/ Begins \/ Comes \/ Has \/ GoesOn \/ Stops \/ Lowers \/ Ends
PROOF
  <1>1. CASE Begin
    BY <1>1 DEF Begin, Begins
  <1>2. CASE FindService \/ ServiceScript \/ PollService
    BY <1>2 DEF FindService, ServiceScript, PollService, Due, Due_is, SetUp, NotSetUp, Await,
         Comes, Has, GoesOn, SettingUp, DueNext, StageInv
  <1>3. CASE MakeRunDir \/ Prepare \/ ImageScript \/ PollFirmware
    <2>1. CASE MakeRunDir \/ PollFirmware
      BY <2>1 DEF MakeRunDir, PollFirmware, Due, Due_is, SetUp, NotSetUp, Comes, Has, GoesOn,
           SettingUp, DueNext, FW, StageInv
    <2>2. CASE Prepare \/ ImageScript
      BY <2>2 DEF Prepare, ImageScript, Started, Due_is, NotSetUp, Await, Comes, GoesOn,
           SettingUp, DueNext, FW, StageInv
    <2> QED
      BY <1>3, <2>1, <2>2
  <1>4. CASE OpenEvidence \/ Launch \/ AwaitBoot \/ StartDevice
    BY <1>4 DEF OpenEvidence, Launch, AwaitBoot, StartDevice, Due, Due_is, SetUp, NotSetUp,
         Await, Comes, Has, GoesOn, SettingUp, DueNext, StageInv
  <1>5. CASE Run
    BY <1>5 DEF Run, Ended, GoesOn, SettingUp, InBody
  <1>6. CASE Type \/ Check \/ AskLog \/ Look
    BY <1>6 DEF Type, Check, AskLog, Look, Doing, Await, GoesOn, InBody
  <1>7. CASE Returns \/ NeverReturns \/ wait_for_log \/ Pass
    BY <1>7 DEF Returns, NeverReturns, wait_for_log, Pass, NextItem, Ended, GoesOn, InBody
  <1>8. CASE Judge \/ Record
    BY <1>8 DEF Judge, Record, NextItem, Ended, GoesOn, InBody
  <1>9. CASE NextStep
    BY <1>9 DEF NextStep, Stays
  <1>10. CASE LetGo \/ CloseMachine \/ CloseEvidence
    BY <1>10 DEF LetGo, CloseMachine, CloseEvidence, Topmost, TornDown, Lowers, Closing, Top,
         FW, StageInv
  <1>11. CASE CaptureLast \/ StopFirmware \/ AwaitEnd
    BY <1>11 DEF CaptureLast, StopFirmware, AwaitEnd, Topmost, Stops, Closing, Top, FW, StageInv
  <1>12. CASE RemoveRunDir
    BY <1>12 DEF RemoveRunDir, TornDown, Lowers, Closing, Top, FW, StageInv
  <1>13. CASE End
    BY <1>13 DEF End, Forgotten, Ends, Active, Closing
  <1>14. CASE Deadline \/ Firmware \/ Service \/ Machine
    BY <1>14 DEF Deadline, Firmware, Service, Machine, Stays
  <1>15. CASE Kill
    BY <1>15 DEF Kill, Forgotten, Ends, StageInv
  <1> QED
    BY <1>1, <1>2, <1>3, <1>4, <1>5, <1>6, <1>7, <1>8, <1>9, <1>10, <1>11, <1>12, <1>13,
       <1>14, <1>15 DEF Session, Harness, Scripts

LEMMA StageStep ==
  ASSUME StageInv, Stays \/ Begins \/ Comes \/ Has \/ GoesOn \/ Stops \/ Lowers \/ Ends
  PROVE  StageInv'
PROOF
  <1>0. Len(up) \in Nat /\ Len(plan) \in Nat /\ MaxTests \in Nat
    BY PlanIs, PlanAssumption
  <1>1. CASE Stays
    BY <1>1 DEF Stays, StageInv, DueNext, Top
  <1>2. CASE Begins
    <2>1. up' = << >> /\ Len(plan') \in Nat
      BY <1>2, PlanAssumption DEF Begins, StageInv, Active, SettingUp, InBody, Closing
    <2>2. up' \in Seq(Fixtures) /\ Len(up') = 0 /\ \A i \in 1 .. Len(up') : up'[i] = plan'[i]
      BY <2>1
    <2> QED
      BY <1>0, <1>2, <2>1, <2>2
         DEF Begins, StageInv, Active, SettingUp, InBody, Closing
  <1>3. CASE Comes
    BY <1>3 DEF Comes, StageInv, Active, SettingUp, InBody, Closing, DueNext
  <1>4. CASE Has
    <2>1. /\ up' \in Seq(Fixtures) /\ Len(up') = Len(up) + 1
          /\ \A i \in 1 .. Len(up') : up'[i] = plan[i]
      BY <1>4, OneUp DEF Has
    <2>2. pc' = "setup" /\ test' = test /\ plan' = plan /\ Len(up') <= Len(plan)
      BY <1>0, <1>4, <2>1 DEF Has, SetUp
    <2> QED
      BY <1>4, <2>1, <2>2 DEF Has, StageInv, Active, SettingUp, InBody, Closing
  <1>5. CASE GoesOn
    BY <1>5 DEF GoesOn, StageInv, Active, SettingUp, InBody, Closing
  <1>6. CASE Stops
    BY <1>6 DEF Stops, StageInv, Active, SettingUp, InBody, Closing, Top
  <1>7. CASE Lowers
    <2>1. /\ up' \in Seq(Fixtures) /\ Len(up') = Len(up) - 1
          /\ \A i \in 1 .. Len(up') : up'[i] = plan[i]
      BY <1>7, OneDown DEF Lowers
    <2>2. pc' = "teardown" /\ test' = test /\ plan' = plan
      BY <1>7 DEF Lowers, TornDown
    <2>3. Len(up') <= Len(plan')
      BY <1>0, <2>1, <2>2 DEF StageInv
    <2> QED
      BY <1>7, <2>1, <2>2, <2>3 DEF Lowers, StageInv, Active, SettingUp, InBody, Closing
  <1>8. CASE Ends
    <2>1. up' \in Seq(Fixtures) /\ Len(up') = 0 /\ Len(plan') = 0
          /\ \A i \in 1 .. Len(up') : up'[i] = plan'[i]
      BY <1>8 DEF Ends
    <2> QED
      BY <1>8, <2>1 DEF Ends, StageInv, Active, SettingUp, InBody, Closing
  <1> QED
    BY <1>1, <1>2, <1>3, <1>4, <1>5, <1>6, <1>7, <1>8

LEMMA StageFirst ==
  ASSUME TestInit
  PROVE  StageInv
PROOF
  <1>1. /\ pc = "start" /\ test = 0 /\ plan = << >> /\ up = << >> /\ kills = 0
        /\ MaxTests \in Nat
    BY PlanAssumption DEF TestInit
  <1>2. up \in Seq(Fixtures) /\ Len(up) = 0 /\ Len(plan) = 0
    BY <1>1
  <1> QED
    BY <1>1, <1>2 DEF StageInv, Active, SettingUp, InBody, Closing

LEMMA StageNext ==
  ASSUME StageInv, [TestNext]_testVars
  PROVE  StageInv'
PROOF
  <1>1. CASE Configure
    BY <1>1 DEF Configure, StageInv, Active, SettingUp, InBody, Closing
  <1>2. CASE Session
    BY <1>2, EachStep, StageStep
  <1>3. CASE UNCHANGED testVars
    BY <1>3 DEF testVars, StageInv, DueNext, Top
  <1> QED
    BY <1>1, <1>2, <1>3 DEF TestNext

\* A test is always at one of the stages of its life, with fixtures set up that
\* are a beginning of those it asked for (conftest.py).
THEOREM TestStages == TestSpec => []StageInv
PROOF
  <1>1. TestInit => StageInv
    BY StageFirst
  <1>2. StageInv /\ [TestNext]_testVars => StageInv'
    BY StageNext
  <1> QED
    BY <1>1, <1>2, PTL DEF TestSpec

LEMMA EnvFirst ==
  ASSUME TestInit
  PROVE  EnvInv
PROOF
  BY EnvAssumption DEF TestInit, EnvInv, Tree

\* Only conftest.py's loading leaves the start.
LEMMA Started_once ==
  ASSUME StageInv, Session
  PROVE  (pc = "start" => pc' = "start") /\ (pc' = "start" => pc = "start")
PROOF
  BY EachStep DEF Stays, Begins, Comes, Has, GoesOn, Stops, Lowers, Ends, SetUp, TornDown,
     SettingUp, InBody, Closing, Active

LEMMA EnvNext ==
  ASSUME StageInv, EnvInv, [TestNext]_testVars
  PROVE  EnvInv'
PROOF
  <1>1. CASE Configure
    BY <1>1 DEF Configure, hostdisk, EnvInv, Tree
  <1>2. CASE Session /\ UNCHANGED <<env, hostdisk>>
    BY <1>2, Started_once DEF hostdisk, EnvInv, Tree
  <1>3. CASE UNCHANGED testVars
    BY <1>3 DEF testVars, hostdisk, EnvInv, Tree
  <1> QED
    BY <1>1, <1>2, <1>3 DEF TestNext

\* What conftest.py reads back from the environment is there, and is found
\* again, whichever variables were set, as long as they are well set
\* (beebium_test_env.py).
THEOREM EnvironmentIsUsable == TestSpec => EnvironmentUsable
PROOF
  <1> DEFINE Usable ==
        pc = "start" /\ pc' = "idle" /\ WellSet(env) =>
          /\ AsRead(env["BEEBIUM_HOME"])' \in dirs /\ AsRead(env["BEEBIUM_SERVER"])' \in execs
          /\ AsRead(env["BEEBIUM_MOS"])' \in files /\ AsRead(env["BEEBIUM_ROM_DIR"])' \in dirs
          /\ AsRead(env["FUJINET_TOOLS"])' \in dirs
          /\ ScriptRun(env["FUJINET_NIO_HOME"])' \in files
          /\ EnvPath(env, "BEEBIUM_BASIC") \in files \cup {None} =>
               Expanded(env["BEEBIUM_BASIC"])' \in files \cup {None}
          /\ add_fujinet_tools_to_path(ensure_environment(env))' = env'
  <1>1. TestInit => EnvInv
    BY EnvFirst
  <1>2. StageInv /\ EnvInv /\ [TestNext]_testVars => EnvInv'
    BY EnvNext
  <1>3. StageInv /\ EnvInv /\ [TestNext]_testVars => [Usable]_pc
    <2> SUFFICES ASSUME StageInv, EnvInv, [TestNext]_testVars,
                        pc' # pc, pc = "start", pc' = "idle", WellSet(env)
                 PROVE  Usable
      OBVIOUS
    <2>1. Configure
      BY Started_once DEF TestNext, testVars
    <2> DEFINE first == ensure_environment(env)
               new == add_fujinet_tools_to_path(first)
    <2>2. /\ Resolves(env) /\ resolve_fujinet_tools_root(first) # None /\ env' = new
          /\ UNCHANGED hostdisk
      BY <2>1 DEF Configure
    <2>3. /\ AsRead(new["BEEBIUM_HOME"]) \in dirs /\ AsRead(new["BEEBIUM_SERVER"]) \in execs
          /\ AsRead(new["BEEBIUM_MOS"]) \in files /\ AsRead(new["BEEBIUM_ROM_DIR"]) \in dirs
          /\ AsRead(new["FUJINET_TOOLS"]) \in dirs
          /\ ScriptRun(new["FUJINET_NIO_HOME"]) \in files
          /\ EnvPath(env, "BEEBIUM_BASIC") \in files \cup {None} =>
               Expanded(new["BEEBIUM_BASIC"]) \in files \cup {None}
          /\ add_fujinet_tools_to_path(ensure_environment(new)) = new
      BY <2>2, EnvSettles DEF EnvInv
    <2>4. add_fujinet_tools_to_path(ensure_environment(env))' = new
      <3>1. new = env' /\ dirs' = dirs /\ files' = files /\ execs' = execs
        BY <2>2 DEF hostdisk
      <3> HIDE DEF new
      <3>2. add_fujinet_tools_to_path(ensure_environment(env))' =
              add_fujinet_tools_to_path(ensure_environment(env'))
        <4>1. resolve_beebium_home(env)' = resolve_beebium_home(env')
          BY <3>1 DEF resolve_beebium_home
        <4>2. resolve_beebium_rom_dir(env, resolve_beebium_home(env))' =
                resolve_beebium_rom_dir(env', resolve_beebium_home(env'))
          BY <3>1, <4>1 DEF resolve_beebium_rom_dir
        <4>3. /\ resolve_beebium_server(env, resolve_beebium_home(env))' =
                   resolve_beebium_server(env', resolve_beebium_home(env'))
              /\ resolve_beebium_mos(env, resolve_beebium_home(env))' =
                   resolve_beebium_mos(env', resolve_beebium_home(env'))
              /\ resolve_beebium_basic(env, resolve_beebium_home(env))' =
                   resolve_beebium_basic(env', resolve_beebium_home(env'))
          BY <3>1, <4>1, <4>2
             DEF resolve_beebium_server, resolve_beebium_mos, resolve_beebium_basic
        <4>4. resolve_fujinet_nio_home(env)' = resolve_fujinet_nio_home(env')
          BY <3>1 DEF resolve_fujinet_nio_home
        <4>5. resolve_fujinet_tools_root(env)' = resolve_fujinet_tools_root(env')
          BY <3>1, <4>4 DEF resolve_fujinet_tools_root
        <4>6. ensure_environment(env)' = ensure_environment(env')
          BY <4>1, <4>2, <4>3, <4>5 DEF ensure_environment
        <4>7. resolve_fujinet_nio_home(ensure_environment(env))' =
                resolve_fujinet_nio_home(ensure_environment(env'))
          BY <3>1, <4>6 DEF resolve_fujinet_nio_home
        <4>8. resolve_fujinet_tools_root(ensure_environment(env))' =
                resolve_fujinet_tools_root(ensure_environment(env'))
          BY <3>1, <4>6, <4>7 DEF resolve_fujinet_tools_root
        <4> QED
          BY <4>6, <4>8 DEF add_fujinet_tools_to_path
      <3> QED
        BY <2>3, <3>1, <3>2
    <2> QED
      BY <2>2, <2>3, <2>4
  <1> HIDE DEF Usable
  <1>4. TestSpec => [][Usable]_pc
    BY <1>1, <1>2, <1>3, TestStages, PTL DEF TestSpec
  <1> QED
    BY <1>4 DEF EnvironmentUsable, Usable

----------------------------------------------------------------------------
(* The firmware of a test.                                                 *)

Process ==
  [proc : {"none", "running", "asked", "gone"}, pty : BOOLEAN, dir : BOOLEAN, started : BOOLEAN]

Over(f) == f.proc \in {"none", "gone"} /\ ~f.dir

\* A firmware a test got hold of is in the hands of a fixture of that test
\* that is set up, or it is over.
Holding == Ups \cap FW # {}

\* That of test t, in state f, while test now is at stage at.
Held(t, f, now, at, holding) ==
  /\ t <= now
  /\ (t = now /\ holding) \/ Over(f)
  /\ f.proc = "asked" => at = "stop"
  /\ t = now /\ at \in SettingUp => holding
  /\ t = now /\ at = "remove" => f.proc \in {"none", "gone"}

\* None is asked to end while its test sets its fixtures up.
Asked(t, f, now, at) == f.proc = "asked" => t < now \/ (t = now /\ at \notin SettingUp)

Keeps(t, f, now, at, holding) ==
  Asked(t, f, now, at) /\ (f.started => Held(t, f, now, at, holding))

FirmInv ==
  /\ firmware \in [1 .. MaxTests -> Process]
  /\ \A t \in 1 .. MaxTests : Keeps(t, firmware[t], test, pc, Holding)

\* A step that has nothing to do with the firmware.
Elsewhere ==
  /\ UNCHANGED firmware
  /\ Stays \/ Begins \/ Comes \/ Has \/ GoesOn \/ Stops \/ Lowers \/ Ends
  /\ Lowers \/ Stops => pc \notin {"stop", "remove"} /\ pc' \notin {"stop", "remove"}
  /\ Ends => up = << >>

LEMMA FirmElsewhere ==
  ASSUME StageInv, FirmInv, Elsewhere
  PROVE  FirmInv'
PROOF
  <1>0. test \in Nat /\ MaxTests \in Nat
    BY PlanAssumption DEF StageInv
  <1>1. CASE Stays
    BY <1>1 DEF Stays, Elsewhere, FirmInv, Keeps, Held, Asked, Holding, Ups
  <1>2. CASE Begins
    <2>1. Ups = {}
      BY <1>2 DEF Begins, StageInv, Active, SettingUp, InBody, Closing, Ups, Holding
    <2> QED
      BY <1>0, <1>2, <2>1 DEF Begins, Elsewhere, FirmInv, Keeps, Held, Asked, Holding
  <1>3. CASE Comes
    BY <1>3 DEF Comes, Elsewhere, FirmInv, Keeps, Held, Asked, Holding, SettingUp, Ups
  <1>4. CASE Has
    <2>1. Ups \subseteq Ups'
      BY <1>4, OneUp DEF Has
    <2>2. pc' = "setup" /\ test' = test /\ pc \in SettingUp
      BY <1>4 DEF Has, SetUp
    <2> QED
      BY <2>1, <2>2 DEF Elsewhere, FirmInv, Keeps, Held, Asked, Holding, SettingUp
  <1>5. CASE GoesOn
    BY <1>5 DEF GoesOn, Elsewhere, FirmInv, Keeps, Held, Asked, Holding, SettingUp, InBody, Ups
  <1>6. CASE Lowers
    <2>1. Ups' = Ups \ {Top} /\ Top \notin FW
      BY <1>6, OneDown DEF Lowers, Elsewhere
    <2>2. /\ pc' = "teardown" /\ test' = test /\ pc \in Closing
          /\ pc \notin {"stop", "remove"}
      BY <1>6 DEF Lowers, TornDown, Elsewhere
    <2> QED
      BY <2>1, <2>2 DEF Elsewhere, FirmInv, Keeps, Held, Asked, Holding, SettingUp, Closing
  <1>7. CASE Ends
    <2>1. Ups = {}
      BY <1>7 DEF Elsewhere, Ups, Holding
    <2> QED
      BY <1>7, <2>1 DEF Ends, Elsewhere, FirmInv, Keeps, Held, Asked, Holding, SettingUp, Over
  <1>8. CASE Stops
    BY <1>8 DEF Stops, Elsewhere, FirmInv, Keeps, Held, Asked, Holding, SettingUp, Closing, Ups
  <1> QED
    BY <1>1, <1>2, <1>3, <1>4, <1>5, <1>6, <1>7, <1>8 DEF Elsewhere

\* One firmware changes.
LEMMA FirmSet ==
  ASSUME FirmInv, NEW u \in 1 .. MaxTests, NEW f \in Process,
         Keeps(u, f, test', pc', Holding'),
         firmware' = [firmware EXCEPT ![u] = f],
         \A t \in 1 .. MaxTests \ {u} : Keeps(t, firmware[t], test', pc', Holding')
  PROVE  FirmInv'
PROOF
  <1>1. /\ firmware' \in [1 .. MaxTests -> Process] /\ firmware'[u] = f
        /\ \A t \in 1 .. MaxTests : t # u => firmware'[t] = firmware[t]
    BY DEF FirmInv
  <1>2. ASSUME NEW t \in 1 .. MaxTests
        PROVE  Keeps(t, firmware'[t], test', pc', Holding')
    BY <1>1, <1>2 DEF Keeps, Held, Asked, Holding, Over
  <1> QED
    BY <1>1, <1>2 DEF FirmInv

LEMMA FirmFirst ==
  ASSUME TestInit
  PROVE  FirmInv
PROOF
  BY DEF TestInit, NoFirmware, FirmInv, Keeps, Held, Asked, Holding, Process

LEMMA FirmNext ==
  ASSUME StageInv, FirmInv, [TestNext]_testVars
  PROVE  FirmInv'
PROOF
  <1>0. test \in Nat /\ MaxTests \in Nat /\ test <= MaxTests
    BY PlanAssumption DEF StageInv
  <1>00. pc \in Active => test \in 1 .. MaxTests
    BY <1>0 DEF StageInv
  <1>1. CASE Configure
    BY <1>1 DEF Configure, FirmInv, Keeps, Held, Asked, Holding, SettingUp, StageInv, Ups
  <1>2. CASE Session
    <2>0. Stays \/ Begins \/ Comes \/ Has \/ GoesOn \/ Stops \/ Lowers \/ Ends
      BY <1>2, EachStep
    <2>1. CASE Begin \/ FindService \/ ServiceScript \/ PollService \/ OpenEvidence \/ Launch
               \/ AwaitBoot \/ StartDevice
      <3>1. /\ pc \in {"idle", "setup", "script", "service", "boot"} /\ UNCHANGED firmware
            /\ pc' # "idle" /\ pc' \notin {"stop", "remove"}
        BY <2>1 DEF Begin, FindService, ServiceScript, PollService, OpenEvidence, Launch,
             AwaitBoot, StartDevice, Due, SetUp, NotSetUp, Await
      <3> QED
        BY <2>0, <3>1, FirmElsewhere DEF Elsewhere, Stops, Lowers, Ends, Closing
    <2>2. CASE Run \/ Type \/ Returns \/ NeverReturns \/ Check \/ Look \/ Judge \/ Record
               \/ AskLog \/ wait_for_log \/ NextStep \/ Pass
      <3>1. UNCHANGED firmware /\ pc \notin Closing /\ pc' # "idle"
        <4>1. CASE Run \/ Type \/ Check \/ Look \/ AskLog \/ NextStep \/ Pass
          BY <4>1 DEF Run, Type, Check, Look, AskLog, NextStep, Pass, Doing, Await, Ended, Closing
        <4>2. CASE Returns \/ NeverReturns \/ wait_for_log
          BY <4>2 DEF Returns, NeverReturns, wait_for_log, NextItem, Ended, Closing
        <4>3. CASE Judge \/ Record
          BY <4>3 DEF Judge, Record, NextItem, Ended, Closing
        <4> QED
          BY <2>2, <4>1, <4>2, <4>3
      <3> QED
        BY <2>0, <3>1, FirmElsewhere DEF Elsewhere, Stops, Lowers, Ends
    <2>3. CASE LetGo \/ CaptureLast \/ CloseMachine \/ CloseEvidence
      <3>1. /\ UNCHANGED firmware /\ pc \notin {"stop", "remove"}
            /\ pc' \notin {"stop", "remove", "idle"}
        BY <2>3 DEF LetGo, CaptureLast, CloseMachine, CloseEvidence, Topmost, TornDown
      <3> QED
        BY <2>0, <3>1, FirmElsewhere DEF Elsewhere, Ends
    <2>4. CASE End
      <3>1. UNCHANGED firmware /\ up = << >> /\ pc = "teardown" /\ pc' = "idle"
        BY <2>4 DEF End, Forgotten
      <3> QED
        BY <2>0, <3>1, FirmElsewhere DEF Elsewhere, Stops, Lowers, TornDown
    <2>5. CASE Deadline \/ Service \/ Machine
      <3>1. UNCHANGED firmware /\ Stays
        BY <2>5 DEF Deadline, Service, Machine, Stays
      <3> QED
        BY <3>1 DEF Stays, FirmInv, Keeps, Held, Asked, Holding, Ups
    <2>6. CASE MakeRunDir
      <3>1. pc = "setup" /\ Len(up) < Len(plan) /\ DueNext \in FW
        BY <2>6 DEF MakeRunDir, Due, Due_is, DueNext, FW
      <3>2. Ups \cap FW = {} /\ ~firmware[test].started
        BY <1>00, <3>1, Ahead DEF FirmInv, Keeps, Held, Asked, Holding, SettingUp, Active
      <3>3. /\ UNCHANGED <<test, up>> /\ pc' \in {"teardown", "prepare"}
            /\ firmware' = firmware \/ firmware' = [firmware EXCEPT ![test].dir = TRUE]
        BY <2>6 DEF MakeRunDir, NotSetUp
      <3> DEFINE f == [firmware[test] EXCEPT !.dir = TRUE]
      <3>4. /\ test \in 1 .. MaxTests /\ f \in Process /\ ~f.started
            /\ f.proc # "asked"
        <4>1. /\ test \in 1 .. MaxTests /\ f \in Process /\ ~f.started
              /\ f.proc = firmware[test].proc
          BY <1>00, <3>1, <3>2 DEF Active, SettingUp, FirmInv, Process
        <4>2. firmware[test].proc # "asked"
          BY <1>00, <3>1, <4>1 DEF SettingUp, FirmInv, Keeps, Asked
        <4> QED
          BY <4>1, <4>2
      <3>5. CASE firmware' = firmware
        BY <3>1, <3>2, <3>3, <3>5 DEF FirmInv, Keeps, Held, Asked, Holding, SettingUp, Ups
      <3>6. CASE firmware' = [firmware EXCEPT ![test] = f]
        <4> HIDE DEF f
        <4>1. \A t \in 1 .. MaxTests \ {test} : Keeps(t, firmware[t], test', pc', Holding')
          BY <3>1, <3>3 DEF FirmInv, Keeps, Held, Asked, Holding, Over
        <4> QED
          BY <3>4, <3>6, <4>1, FirmSet DEF Keeps, Asked
      <3> QED
        BY <3>3, <3>5, <3>6
    <2>7. CASE Prepare \/ ImageScript
      <3>1. pc \in SettingUp /\ Len(up) < Len(plan) /\ DueNext \in FW
        BY <2>7 DEF Prepare, ImageScript, StageInv, SettingUp, FW
      <3>2. Ups \cap FW = {} /\ ~firmware[test].started
        BY <1>00, <3>1, Ahead DEF FirmInv, Keeps, Held, Asked, Holding, SettingUp, Active
      <3>3. /\ UNCHANGED <<test, up>> /\ pc' \in {"teardown", "weather", "iss", "poll"}
            /\ firmware' = firmware \/ firmware' = [firmware EXCEPT ![test].proc = "running"]
        BY <2>7 DEF Prepare, ImageScript, NotSetUp, Await, Started
      <3> DEFINE f == [firmware[test] EXCEPT !.proc = "running"]
      <3>4. /\ test \in 1 .. MaxTests /\ f \in Process /\ ~f.started
            /\ f.proc # "asked"
        BY <1>00, <3>1, <3>2 DEF Active, SettingUp, FirmInv, Process, Keeps, Asked
      <3>5. CASE firmware' = firmware
        BY <3>1, <3>2, <3>3, <3>5 DEF FirmInv, Keeps, Held, Asked, Holding, SettingUp, Ups
      <3>6. CASE firmware' = [firmware EXCEPT ![test] = f]
        <4> HIDE DEF f
        <4>1. \A t \in 1 .. MaxTests \ {test} : Keeps(t, firmware[t], test', pc', Holding')
          BY <3>1, <3>3 DEF FirmInv, Keeps, Held, Asked, Holding, Over
        <4> QED
          BY <3>4, <3>6, <4>1, FirmSet DEF Keeps, Asked
      <3> QED
        BY <3>3, <3>5, <3>6
    <2>8. CASE PollFirmware
      <3>1. pc = "poll" /\ Len(up) < Len(plan) /\ DueNext \in FW
        BY <2>8 DEF PollFirmware, StageInv, SettingUp
      <3>2. Ups \cap FW = {} /\ ~firmware[test].started
        BY <1>00, <3>1, Ahead DEF FirmInv, Keeps, Held, Asked, Holding, SettingUp, Active
      <3>3. CASE NotSetUp /\ UNCHANGED <<firmware, test>>
        BY <1>00, <3>1, <3>2, <3>3
           DEF NotSetUp, FirmInv, Keeps, Held, Asked, Holding, SettingUp, Active, Ups, Over
      <3>4. CASE SetUp /\ firmware' = [firmware EXCEPT ![test].started = TRUE] /\ test' = test
        <4>1. Ups' \cap FW # {} /\ pc' = "setup"
          BY <3>1, <3>4, OneUp DEF SetUp
        <4> DEFINE f == [firmware[test] EXCEPT !.started = TRUE]
        <4>2. test \in 1 .. MaxTests /\ f \in Process /\ f.proc = firmware[test].proc
          BY <1>00, <3>1 DEF Active, SettingUp, FirmInv, Process
        <4>3. firmware' = [firmware EXCEPT ![test] = f] /\ test' = test
          BY <3>4
        <4>4. f.proc # "asked"
          BY <1>00, <3>1, <4>2 DEF Active, SettingUp, FirmInv, Keeps, Asked
        <4> HIDE DEF f
        <4>5. \A t \in 1 .. MaxTests \ {test} : Keeps(t, firmware[t], test', pc', Holding')
          BY <3>1, <4>1, <4>3 DEF FirmInv, Keeps, Held, Asked, Holding, Over
        <4>6. Keeps(test, f, test', pc', Holding')
          BY <4>1, <4>2, <4>3, <4>4 DEF Keeps, Held, Asked, Holding, SettingUp
        <4> QED
          BY <4>2, <4>3, <4>5, <4>6, FirmSet
      <3> QED
        BY <2>8, <3>3, <3>4 DEF PollFirmware
    <2>9. CASE StopFirmware
      <3>1. /\ pc = "teardown" /\ UNCHANGED <<test, up>>
            /\ \/ /\ pc' = "stop" /\ firmware' = [firmware EXCEPT ![test].proc = "asked"]
                  /\ firmware[test].proc = "running"
               \/ pc' = "remove" /\ firmware' = firmware /\ firmware[test].proc # "running"
        BY <2>9 DEF StopFirmware, Topmost
      <3> DEFINE f == [firmware[test] EXCEPT !.proc = "asked"]
      <3>2. /\ test \in 1 .. MaxTests /\ f \in Process
            /\ f.proc = "asked" /\ f.started = firmware[test].started
        BY <1>00, <3>1 DEF Active, Closing, FirmInv, Process
      <3>3. CASE pc' = "remove" /\ firmware' = firmware /\ firmware[test].proc # "running"
        BY <3>1, <3>2, <3>3 DEF FirmInv, Process, Keeps, Held, Asked, SettingUp, Ups, Holding
      <3>4. CASE /\ pc' = "stop" /\ firmware' = [firmware EXCEPT ![test] = f]
                 /\ firmware[test].proc = "running"
        <4> HIDE DEF f
        <4>1. \A t \in 1 .. MaxTests \ {test} : Keeps(t, firmware[t], test', pc', Holding')
          BY <3>1, <3>4 DEF FirmInv, Keeps, Held, Asked, Holding, Over
        <4>2. Keeps(test, f, test', pc', Holding')
          BY <3>1, <3>2, <3>4 DEF FirmInv, Keeps, Held, Asked, Holding, SettingUp, Over, Ups
        <4> QED
          BY <3>2, <3>4, <4>1, <4>2, FirmSet
      <3> QED
        BY <3>1, <3>3, <3>4
    <2>10. CASE AwaitEnd
      <3>1. /\ pc = "stop" /\ pc' = "remove" /\ UNCHANGED <<test, up>>
            /\ \/ firmware' = firmware /\ firmware[test].proc = "gone"
               \/ firmware' = [firmware EXCEPT ![test].proc = "gone"]
        BY <2>10 DEF AwaitEnd, Killed
      <3>2. Ups \cap FW # {}
        BY <3>1, OneDown, PlanIs DEF StageInv, Top, Ups, Holding
      <3> DEFINE f == [firmware[test] EXCEPT !.proc = "gone"]
      <3>3. test \in 1 .. MaxTests /\ f \in Process /\ f.proc = "gone"
        BY <1>00, <3>1 DEF Active, Closing, FirmInv, Process
      <3>4. \A t \in 1 .. MaxTests \ {test} : Keeps(t, firmware[t], test', pc', Holding')
        BY <3>1 DEF FirmInv, Keeps, Held, Asked, Holding, Over
      <3>5. Ups' \cap FW # {} /\ test' = test /\ test \in Nat
        BY <1>0, <3>1, <3>2 DEF Ups
      <3>6. CASE firmware' = firmware /\ firmware[test].proc = "gone"
        <4>1. Keeps(test, firmware[test], test', pc', Holding')
          BY <3>1, <3>5, <3>6 DEF Keeps, Held, Asked, Holding, SettingUp
        <4> QED
          BY <3>1, <3>4, <3>6, <4>1 DEF FirmInv, Keeps, Held, Asked, Holding, Over
      <3>7. CASE firmware' = [firmware EXCEPT ![test] = f]
        <4> HIDE DEF f
        <4>1. Keeps(test, f, test', pc', Holding')
          BY <3>1, <3>3, <3>5 DEF Keeps, Held, Asked, Holding, SettingUp
        <4> QED
          BY <3>3, <3>4, <3>7, <4>1, FirmSet
      <3> QED
        BY <3>1, <3>6, <3>7
    <2>11. CASE RemoveRunDir
      <3>1. /\ pc = "remove" /\ pc' = "teardown" /\ test' = test /\ up # << >> /\ Top \in FW
            /\ TornDown("teardown") /\ firmware' = [firmware EXCEPT ![test].dir = FALSE]
        BY <2>11 DEF RemoveRunDir, TornDown, StageInv
      <3> DEFINE f == [firmware[test] EXCEPT !.dir = FALSE]
      <3>2. /\ test \in 1 .. MaxTests /\ f \in Process /\ ~f.dir
            /\ f.proc = firmware[test].proc /\ f.started = firmware[test].started
        BY <1>00, <3>1 DEF Active, Closing, FirmInv, Process
      <3>3. firmware' = [firmware EXCEPT ![test] = f]
        BY <3>1
      <3> HIDE DEF f
      <3>4. \A t \in 1 .. MaxTests \ {test} : Keeps(t, firmware[t], test', pc', Holding')
        BY <3>1 DEF FirmInv, Keeps, Held, Asked, Holding, Over
      <3>5. Keeps(test, f, test', pc', Holding')
        BY <1>0, <3>1, <3>2 DEF FirmInv, Keeps, Held, Asked, Holding, Over, SettingUp
      <3> QED
        BY <3>2, <3>3, <3>4, <3>5, FirmSet
    <2>12. CASE Firmware
      <3>1. PICK t \in 1 .. test :
              \/ firmware[t].proc = "running" /\ firmware' = [firmware EXCEPT ![t].pty = TRUE]
              \/ /\ firmware[t].proc \in {"running", "asked"}
                 /\ firmware' = [firmware EXCEPT ![t].proc = "gone"]
        BY <2>12 DEF Firmware
      <3>2. UNCHANGED <<pc, test, up>> /\ t \in 1 .. MaxTests
        BY <1>0, <2>12 DEF Firmware
      <3> DEFINE f == [firmware[t] EXCEPT !.pty = TRUE]
                 g == [firmware[t] EXCEPT !.proc = "gone"]
      <3>3. /\ f \in Process /\ f.proc = firmware[t].proc /\ f.dir = firmware[t].dir
            /\ f.started = firmware[t].started
        BY <3>2 DEF FirmInv, Process
      <3>4. g \in Process /\ g.proc = "gone" /\ g.started = firmware[t].started
        BY <3>2 DEF FirmInv, Process
      <3>5. \A u \in 1 .. MaxTests \ {t} : Keeps(u, firmware[u], test', pc', Holding')
        BY <3>2 DEF FirmInv, Keeps, Held, Asked, Holding, Over, Ups
      <3>6. CASE firmware[t].proc = "running" /\ firmware' = [firmware EXCEPT ![t] = f]
        <4> HIDE DEF f
        <4>1. Keeps(t, f, test', pc', Holding')
          BY <3>2, <3>3, <3>6 DEF FirmInv, Keeps, Held, Asked, Holding, Over, Ups
        <4> QED
          BY <3>2, <3>3, <3>5, <3>6, <4>1, FirmSet
      <3>7. CASE firmware[t].proc \in {"running", "asked"} /\ firmware' = [firmware EXCEPT ![t] = g]
        <4> HIDE DEF g
        <4>1. Keeps(t, g, test', pc', Holding')
          BY <3>2, <3>4, <3>7 DEF FirmInv, Keeps, Held, Asked, Holding, Over, Ups
        <4> QED
          BY <3>2, <3>4, <3>5, <3>7, <4>1, FirmSet
      <3> QED
        BY <3>1, <3>6, <3>7
    <2>13. CASE Kill
      <3>1. /\ pc \in Active /\ pc' = "idle" /\ up' = << >> /\ test' = test
            /\ firmware' = [firmware EXCEPT ![test].started = FALSE]
        BY <2>13 DEF Kill, Forgotten, StageInv
      <3> QED
        BY <1>00, <3>1 DEF FirmInv, Keeps, Held, Asked, Holding, Process, SettingUp, Over
    <2> QED
      BY <1>2, <2>1, <2>2, <2>3, <2>4, <2>5, <2>6, <2>7, <2>8, <2>9, <2>10, <2>11, <2>12,
         <2>13 DEF Session, Harness, Scripts
  <1>3. CASE UNCHANGED testVars
    BY <1>3 DEF testVars, FirmInv, Keeps, Held, Asked, Holding, Ups
  <1> QED
    BY <1>1, <1>2, <1>3 DEF TestNext

\* When a test is over, the firmware it got hold of has ended and its directory
\* is gone, whatever failed and whether or not the process obeys
\* (fujinet_runner.py, conftest.py).
THEOREM FirmwareIsGone == TestSpec => []FirmwareGone
PROOF
  <1>1. TestInit => FirmInv
    BY FirmFirst
  <1>2. StageInv /\ FirmInv /\ [TestNext]_testVars => FirmInv'
    BY FirmNext
  <1>3. StageInv /\ FirmInv => FirmwareGone
    <2> SUFFICES ASSUME StageInv, FirmInv, pc = "idle", NEW t \in 1 .. test,
                        firmware[t].started
                 PROVE  Over(firmware[t])
      BY DEF FirmwareGone, Over
    <2>1. t \in 1 .. MaxTests /\ Ups = {}
      BY PlanAssumption DEF StageInv, Active, SettingUp, InBody, Closing, Ups
    <2> QED
      BY <2>1 DEF FirmInv, Keeps, Held, Asked, Holding
  <1> QED
    BY <1>1, <1>2, <1>3, TestStages, PTL DEF TestSpec

----------------------------------------------------------------------------
(* Lists of anything.                                                      *)

IsList(s) == \E S : s \in Seq(S)

LEMMA ListAppend ==
  ASSUME NEW s, IsList(s), NEW x
  PROVE  /\ IsList(Append(s, x)) /\ Len(s) \in Nat /\ Len(Append(s, x)) = Len(s) + 1
         /\ \A i \in 1 .. Len(s) : Append(s, x)[i] = s[i]
         /\ Append(s, x)[Len(s) + 1] = x
PROOF
  <1>1. PICK S : s \in Seq(S)
    BY DEF IsList
  <1> DEFINE T == S \cup {x}
  <1>2. s \in Seq(T) /\ x \in T
    BY <1>1
  <1> HIDE DEF T
  <1>3. Append(s, x) \in Seq(T)
    BY <1>2
  <1> QED
    BY <1>2, <1>3 DEF IsList

LEMMA ListTail ==
  ASSUME NEW s, IsList(s), s # << >>
  PROVE  /\ IsList(Tail(s)) /\ Len(s) \in Nat \ {0} /\ Len(Tail(s)) = Len(s) - 1
         /\ Head(s) = s[1] /\ \A i \in 1 .. Len(s) - 1 : Tail(s)[i] = s[i + 1]
PROOF
  <1>1. PICK S : s \in Seq(S)
    BY DEF IsList
  <1>2. Tail(s) \in Seq(S)
    BY <1>1
  <1>3. Len(s) \in Nat \ {0} /\ Len(Tail(s)) = Len(s) - 1 /\ Head(s) = s[1]
    BY <1>1
  <1>4. \A i \in 1 .. Len(s) - 1 : Tail(s)[i] = s[i + 1]
    BY <1>1
  <1> QED
    BY <1>2, <1>3, <1>4 DEF IsList

LEMMA ListEqual ==
  ASSUME NEW s, NEW t, IsList(s), IsList(t), Len(s) = Len(t),
         \A i \in 1 .. Len(s) : s[i] = t[i]
  PROVE  s = t
PROOF
  <1>1. PICK S, T : s \in Seq(S) /\ t \in Seq(T)
    BY DEF IsList
  <1>2. s \in Seq(S \cup T) /\ t \in Seq(S \cup T)
    BY <1>1
  <1> QED
    BY <1>2, SeqEqual

\* A function on 1 .. n is a list.
LEMMA ListOf ==
  ASSUME NEW n \in Nat, NEW f, f = [i \in 1 .. n |-> f[i]]
  PROVE  IsList(f) /\ Len(f) = n
PROOF
  <1> DEFINE S == {f[i] : i \in 1 .. n}
  <1>1. f \in [1 .. n -> S]
    OBVIOUS
  <1> HIDE DEF S
  <1>2. f \in Seq(S) /\ Len(f) = n
    BY <1>1
  <1> QED
    BY <1>2 DEF IsList

----------------------------------------------------------------------------
(* The evidence, as it is stored.                                          *)

Honest(c) == c.of.op = "check" => (c.met <=> Missing(c.screen, c.of.want) = {})

InFile(files_, i, c) == i \in DOMAIN files_ /\ files_[i] = c

\* Each capture of the list is in the file of its number, unless there is none.
Filed(files_, list) ==
  \A i \in 1 .. Len(list) : list[i].of.op # "unread" => InFile(files_, i, list[i])

IsDir(r) == r = [files |-> r.files, list |-> r.list]

\* What a test that passed has captured.
WholeStory(list) ==
  /\ [i \in 1 .. (Len(list) - 1) |-> list[i].of] \in AsWritten
  /\ Last(list).of.op \in {"final", "unread"}
  /\ \A i \in 1 .. Len(list) : list[i].met

Proves(d) ==
  /\ d.count > 0 =>
       /\ d.count = Len(d.list) /\ IsList(d.list) /\ Filed(d.files, d.list)
       /\ \A i \in 1 .. Len(d.list) : Honest(d.list[i]) /\ d.list[i].by = d.by
  /\ d.status = "passed" => d.count > 0 /\ WholeStory(d.list)

\* What the file of the next number holds while the list is still to be written.
Ahead_of(files_, next) ==
  /\ pc = "picture" => InFile(files_, next, Checkpoint)
  /\ pc = "final" => InFile(files_, next, LastCapture("final"))

\* While its test goes on a copy has a number below that of the test.
StoreInv ==
  /\ IsList(captures)
  /\ \A i \in 1 .. Len(captures) : Honest(captures[i]) /\ captures[i].by = test
  /\ running # << >> => IsDir(running[1])
  /\ "evidence" \in Ups =>
       /\ running # << >> /\ (captures # << >> => running[1].list = captures)
       /\ Filed(running[1].files, captures)
       /\ Ahead_of(running[1].files, Len(captures) + 1)
  /\ pc \notin InBody \cup Closing => captures = << >>
  /\ report # "none" => pc \in Closing
  /\ \A d \in kept :
       /\ Proves(d) /\ d.copy \in 1 .. test
       /\ pc \in SettingUp \cup InBody \/ "evidence" \in Ups => d.copy < test

LEMMA StoreFirst ==
  ASSUME TestInit
  PROVE  StoreInv
PROOF
  <1>1. /\ captures = << >> /\ running = << >> /\ kept = {} /\ report = "none" /\ up = << >>
        /\ Ups = {}
    BY DEF TestInit, Ups
  <1>2. IsList(captures) /\ Len(captures) = 0
    <2>1. captures \in Seq({})
      BY <1>1
    <2> QED
      BY <1>1, <2>1 DEF IsList
  <1> QED
    BY <1>1, <1>2 DEF StoreInv

\* A step that leaves the evidence alone.
LEMMA StoreStill ==
  ASSUME StageInv, StoreInv, UNCHANGED store, report' = report \/ pc' \in Closing,
         "evidence" \in Ups' => "evidence" \in Ups,
         pc' \in {"picture", "final"} => UNCHANGED <<pc, todo, seen>>,
         Stays \/ Begins \/ Comes \/ Has \/ GoesOn \/ Stops \/ Lowers
  PROVE  StoreInv'
PROOF
  <1>0. test \in Nat
    BY PlanAssumption DEF StageInv
  <1>1. /\ captures' = captures /\ running' = running /\ kept' = kept
    BY DEF store
  <1>2. CASE Begins
    <2>1. ASSUME NEW d \in kept
          PROVE  Proves(d) /\ d.copy \in 1 .. test' /\ d.copy < test'
      BY <1>0, <1>2 DEF Begins, StoreInv
    <2>2. "evidence" \notin Ups' /\ pc = "idle" /\ pc' = "setup"
      BY <1>2 DEF Begins, StageInv, Active, SettingUp, InBody, Closing, Ups
    <2>3. captures = << >> /\ captures' = << >>
      BY <1>1, <2>2 DEF StoreInv, InBody, Closing
    <2> QED
      BY <1>1, <2>1, <2>2, <2>3 DEF StoreInv, InBody, Closing
  <1>3. CASE Stays \/ Comes \/ Has \/ GoesOn \/ Stops \/ Lowers
    <2>1. /\ test' = test
          /\ pc' \in SettingUp \cup InBody => pc \in SettingUp \cup InBody
          /\ pc' \notin InBody \cup Closing => pc \notin InBody \cup Closing
          /\ pc \in Closing => pc' \in Closing
      BY <1>3 DEF Stays, Comes, Has, GoesOn, Stops, Lowers, SetUp, TornDown, SettingUp,
           InBody, Closing
    <2>2. ASSUME NEW d \in kept
          PROVE  /\ Proves(d) /\ d.copy \in 1 .. test
                 /\ pc' \in SettingUp \cup InBody \/ "evidence" \in Ups' => d.copy < test
      BY <2>1 DEF StoreInv
    <2>3. "evidence" \in Ups' =>
            /\ running # << >> /\ (captures # << >> => running[1].list = captures)
            /\ Filed(running[1].files, captures)
            /\ Ahead_of(running[1].files, Len(captures) + 1)'
      <3>1. pc' \in {"picture", "final"} =>
              pc' = pc /\ Checkpoint' = Checkpoint /\ LastCapture("final")' = LastCapture("final")
        BY <2>1 DEF Checkpoint, LastCapture, Item
      <3> QED
        BY <1>1, <3>1 DEF StoreInv, Ahead_of
    <2> QED
      BY <1>1, <2>1, <2>2, <2>3 DEF StoreInv
  <1> QED
    BY <1>2, <1>3

\* A file is written, the list is not yet.
LEMMA SavedKeeps ==
  ASSUME StoreInv, "evidence" \in Ups, NEW c, Saved(c)
  PROVE  /\ captures' = captures /\ kept' = kept
         /\ running' # << >> /\ IsDir(running'[1]) /\ running'[1].list = running[1].list
         /\ Filed(running'[1].files, captures)
         /\ InFile(running'[1].files, Len(captures) + 1, c)
PROOF
  <1> DEFINE n == Len(captures)
             old == running[1].files
             new == Written(old, n + 1, c)
             r == [running[1] EXCEPT !.files = new]
  <1>1. n \in Nat /\ IsDir(running[1]) /\ Filed(old, captures)
    BY ListAppend DEF StoreInv
  <1>2. r = [files |-> new, list |-> running[1].list]
    BY <1>1 DEF IsDir
  <1>3. running' = <<r>> /\ captures' = captures /\ kept' = kept
    BY DEF Saved
  <1>4. new = [i \in DOMAIN old \cup {n + 1} |-> IF i = n + 1 THEN c ELSE old[i]]
    BY DEF Written
  <1> HIDE DEF n, old, new, r
  <1>5. /\ DOMAIN new = DOMAIN old \cup {n + 1} /\ new[n + 1] = c
        /\ \A i \in DOMAIN old : i # n + 1 => new[i] = old[i]
    BY <1>4
  <1>6. r.files = new /\ r.list = running[1].list /\ IsDir(r)
    BY <1>2 DEF IsDir
  <1>7. running'[1] = r /\ running' # << >>
    BY <1>3
  <1>8. Filed(new, captures)
    <2>1. \A i \in 1 .. n : i # n + 1
      BY <1>1
    <2> QED
      BY <1>1, <1>5, <2>1 DEF Filed, InFile, n
  <1>9. InFile(new, n + 1, c)
    BY <1>5 DEF InFile
  <1> QED
    BY <1>3, <1>6, <1>7, <1>8, <1>9 DEF n

\* The list is written, the file has been.
LEMMA NotedKeeps ==
  ASSUME StoreInv, "evidence" \in Ups, NEW c, Honest(c), c.by = test, Noted(c),
         c.of.op # "unread" => InFile(running[1].files, Len(captures) + 1, c)
  PROVE  /\ captures' = Append(captures, c) /\ IsList(captures) /\ IsList(captures')
         /\ captures' # << >> /\ kept' = kept
         /\ \A i \in 1 .. Len(captures') : Honest(captures'[i]) /\ captures'[i].by = test
         /\ running' # << >> /\ IsDir(running'[1]) /\ running'[1].list = captures'
         /\ Filed(running'[1].files, captures')
PROOF
  <1> DEFINE n == Len(captures)
             r == [running[1] EXCEPT !.list = captures']
  <1>1. IsDir(running[1]) /\ Filed(running[1].files, captures) /\ IsList(captures)
    BY DEF StoreInv
  <1>2. captures' = Append(captures, c) /\ running' = <<r>> /\ kept' = kept
    BY DEF Noted
  <1>3. r = [files |-> running[1].files, list |-> captures']
    BY <1>1 DEF IsDir
  <1>4. /\ IsList(captures') /\ n \in Nat /\ Len(captures') = n + 1
        /\ \A i \in 1 .. n : captures'[i] = captures[i]
        /\ captures'[n + 1] = c
    BY <1>1, <1>2, ListAppend
  <1>5. \A i \in 1 .. n : Honest(captures[i]) /\ captures[i].by = test
    BY DEF StoreInv
  <1>6. c.of.op # "unread" => InFile(running[1].files, n + 1, c)
    OBVIOUS
  <1>7. \A i \in 1 .. n : captures[i].of.op # "unread" => InFile(running[1].files, i, captures[i])
    BY <1>1 DEF Filed
  <1> HIDE DEF n, r
  <1>8. r.files = running[1].files /\ r.list = captures' /\ IsDir(r)
    BY <1>3 DEF IsDir
  <1>9. running'[1] = r /\ running' # << >>
    BY <1>2
  <1>10. \A i \in 1 .. n + 1 : i \in 1 .. n \/ i = n + 1
    BY <1>4
  <1>11. \A i \in 1 .. n + 1 : Honest(captures'[i]) /\ captures'[i].by = test
    BY <1>4, <1>5, <1>10
  <1>12. Filed(r.files, captures')
    BY <1>4, <1>6, <1>7, <1>8, <1>10 DEF Filed
  <1>13. captures' # << >>
    BY <1>4
  <1> QED
    BY <1>1, <1>2, <1>4, <1>8, <1>9, <1>11, <1>12, <1>13

\* A screen that was judged is filed under what was asked of it.
LEMMA JudgedHonest == Honest(Checkpoint) /\ Checkpoint.by = test /\ Checkpoint.of = Item
PROOF
  BY DEF Honest, Checkpoint

LEMMA LastHonest ==
  ASSUME NEW op \in {"final", "unread"}, NEW c, c = LastCapture(op)
  PROVE  Honest(c) /\ c.by = test /\ c.of.op = op /\ c.met
PROOF
  BY DEF Honest, LastCapture

\* The number of a copy is free, and not above that of the test.
LEMMA CopyIs ==
  ASSUME StageInv, StoreInv, test > 0, "evidence" \in Ups, NEW status
  PROVE  /\ Copy(status) \in 1 .. test
         /\ ~\E d \in kept : d.status = status /\ d.copy = Copy(status)
PROOF
  <1> DEFINE free == {n \in 1 .. (MaxTests + 1) : ~\E d \in kept : d.status = status /\ d.copy = n}
  <1>1. test \in 1 .. (MaxTests + 1)
    BY PlanAssumption DEF StageInv
  <1>2. test \in free
    BY <1>1 DEF StoreInv
  <1>3. free \subseteq Nat /\ free # {}
    BY <1>2
  <1>4. Min(free) \in free /\ \A j \in free : Min(free) <= j
    BY <1>3, MinIs
  <1>5. Copy(status) \in free /\ Copy(status) <= test
    BY <1>2, <1>4 DEF Copy
  <1> QED
    BY <1>1, <1>5

\* What a finished test leaves is added to what there was.
LEMMA FinishAdds ==
  ASSUME StageInv, StoreInv, test > 0, "evidence" \in Ups, NEW status, Finish(status)
  PROVE  \E new :
           /\ kept' = kept \cup {new} /\ new.status = status /\ new.copy \in 1 .. test
           /\ new.files = running[1].files /\ new.list = running[1].list
           /\ new.count = Len(captures) /\ new.by = test
PROOF
  <1> DEFINE new == [status |-> status, copy |-> Copy(status), files |-> running[1].files,
                     list |-> running[1].list, count |-> Metadata, by |-> test]
  <1>1. kept' = {d \in kept : <<d.status, d.copy>> # <<status, Copy(status)>>} \cup {new}
    BY DEF Finish
  <1>2. \A d \in kept : <<d.status, d.copy>> # <<status, Copy(status)>>
    BY CopyIs
  <1>3. kept' = kept \cup {new}
    BY <1>1, <1>2
  <1>4. /\ new.status = status /\ new.copy \in 1 .. test
        /\ new.files = running[1].files /\ new.list = running[1].list
        /\ new.count = Len(captures) /\ new.by = test
    BY CopyIs DEF Metadata
  <1> HIDE DEF new
  <1> QED
    BY <1>3, <1>4

----------------------------------------------------------------------------
(* FlattenSeq.                                                             *)

\* f[n] are the first n lists of w, put together.
Joins(f, w) == f = [i \in 1 .. Len(w) |-> IF i = 1 THEN w[i] ELSE f[i - 1] \o w[i]]

LEMMA JoinsExist ==
  ASSUME NEW w
  PROVE  \A n \in Nat : \E f : f = [i \in 1 .. n |-> IF i = 1 THEN w[i] ELSE f[i - 1] \o w[i]]
PROOF
  <1> DEFINE E(g, i) == IF i = 1 THEN w[i] ELSE g[i - 1] \o w[i]
             P(n) == \E f : f = [i \in 1 .. n |-> E(f, i)]
             S == {n \in Nat : ~P(n)}
  <1>1. S = {}
    <2> SUFFICES ASSUME S # {}
                 PROVE  FALSE
      OBVIOUS
    <2> DEFINE m == Min(S)
    <2>1. m \in Nat /\ ~P(m) /\ \A n \in Nat : ~P(n) => m <= n
      <3>1. S \subseteq Nat
        OBVIOUS
      <3>2. m \in S /\ \A j \in S : m <= j
        BY <3>1, MinIs
      <3> QED
        BY <3>2
    <2> HIDE DEF m
    <2>2. P(0)
      <3> DEFINE f == [i \in 1 .. 0 |-> IF TRUE THEN w[i] ELSE w[i]]
      <3>1. f = [i \in 1 .. 0 |-> IF i = 1 THEN w[i] ELSE f[i - 1] \o w[i]]
        OBVIOUS
      <3> HIDE DEF f
      <3> QED
        BY <3>1
    <2>3. m - 1 \in Nat
      <3> HIDE DEF P
      <3>1. m # 0
        BY <2>1, <2>2
      <3> QED
        BY <2>1, <3>1
    <2>4. P(m - 1)
      <3> HIDE DEF P
      <3>1. ~(m <= m - 1)
        BY <2>1
      <3> QED
        BY <2>1, <2>3, <3>1
    <2>5. PICK g : g = [i \in 1 .. m - 1 |-> E(g, i)]
      BY <2>4
    <2>0. m - 1 \in Nat /\ 1 .. (m - 1) \subseteq 1 .. m
      BY <2>1, <2>3
    <2> DEFINE f == [i \in 1 .. m |-> E(g, i)]
    <2>6. \A i \in 1 .. m - 1 : f[i] = g[i]
      <3> HIDE DEF E
      <3>1. \A i \in 1 .. m - 1 : g[i] = E(g, i)
        BY <2>5
      <3>2. \A i \in 1 .. m - 1 : f[i] = E(g, i)
        BY <2>0
      <3> QED
        BY <3>1, <3>2
    <2>7. f = [i \in 1 .. m |-> E(f, i)]
      <3>1. \A i \in 1 .. m : i # 1 => i - 1 \in 1 .. m - 1
        BY <2>1
      <3>2. \A i \in 1 .. m : i # 1 => f[i - 1] = g[i - 1]
        BY <2>6, <3>1
      <3> QED
        BY <3>2
    <2> HIDE DEF f
    <2>8. P(m)
      BY <2>7
    <2> QED
      BY <2>1, <2>8
  <1> QED
    BY <1>1

LEMMA JoinsFor ==
  ASSUME NEW w, Len(w) \in Nat
  PROVE  \E f : Joins(f, w)
PROOF
  BY JoinsExist DEF Joins

LEMMA FlattenIs ==
  ASSUME NEW w, Len(w) \in Nat \ {0}
  PROVE  \E f : Joins(f, w) /\ FlattenSeq(w) = f[Len(w)]
PROOF
  <1>1. \E f : Joins(f, w)
    BY JoinsFor
  <1> QED
    BY <1>1 DEF Joins, FlattenSeq

LEMMA ListConcat ==
  ASSUME NEW s, NEW t, IsList(s), IsList(t)
  PROVE  /\ IsList(s \o t) /\ Len(s) \in Nat /\ Len(t) \in Nat
         /\ Len(s \o t) = Len(s) + Len(t)
         /\ \A i \in 1 .. Len(s) : (s \o t)[i] = s[i]
         /\ \A i \in 1 .. Len(t) : (s \o t)[Len(s) + i] = t[i]
PROOF
  <1>1. PICK S, T : s \in Seq(S) /\ t \in Seq(T)
    BY DEF IsList
  <1> DEFINE U == S \cup T
  <1>2. s \in Seq(U) /\ t \in Seq(U)
    BY <1>1
  <1> HIDE DEF U
  <1>3. s \o t \in Seq(U)
    BY <1>2
  <1>4. \A i \in 1 .. Len(s) : (s \o t)[i] = s[i]
    BY <1>2
  <1>5. ASSUME NEW i \in 1 .. Len(t)
        PROVE  (s \o t)[Len(s) + i] = t[i]
    BY <1>2
  <1> QED
    BY <1>2, <1>3, <1>4, <1>5 DEF IsList

\* The first of what follows may be taken over by what precedes.
LEMMA ListShift ==
  ASSUME NEW s, NEW t, IsList(s), IsList(t), t # << >>
  PROVE  Append(s, Head(t)) \o Tail(t) = s \o t
PROOF
  <1> DEFINE a == Append(s, Head(t))
             l == a \o Tail(t)
             r == s \o t
  <1>1. /\ IsList(a) /\ Len(s) \in Nat /\ Len(a) = Len(s) + 1
        /\ \A i \in 1 .. Len(s) : a[i] = s[i]
        /\ a[Len(s) + 1] = Head(t)
    BY ListAppend
  <1>2. /\ IsList(Tail(t)) /\ Len(t) \in Nat \ {0} /\ Len(Tail(t)) = Len(t) - 1
        /\ Head(t) = t[1] /\ \A i \in 1 .. Len(t) - 1 : Tail(t)[i] = t[i + 1]
    BY ListTail
  <1>3. /\ IsList(l) /\ Len(l) = Len(s) + Len(t)
        /\ \A i \in 1 .. Len(s) + 1 : l[i] = a[i]
        /\ \A i \in 1 .. Len(t) - 1 : l[Len(s) + 1 + i] = Tail(t)[i]
    <2> HIDE DEF a
    <2> DEFINE u == Tail(t)
    <2>1. IsList(a) /\ IsList(u) /\ Len(a) = Len(s) + 1 /\ Len(u) = Len(t) - 1
      BY <1>1, <1>2
    <2> HIDE DEF u
    <2>2. /\ IsList(a \o u) /\ Len(a \o u) = Len(a) + Len(u)
          /\ \A i \in 1 .. Len(a) : (a \o u)[i] = a[i]
          /\ \A i \in 1 .. Len(u) : (a \o u)[Len(a) + i] = u[i]
      BY <2>1, ListConcat
    <2> QED
      BY <1>1, <1>2, <2>1, <2>2 DEF u
  <1>4. /\ IsList(r) /\ Len(r) = Len(s) + Len(t)
        /\ \A i \in 1 .. Len(s) : r[i] = s[i]
        /\ \A i \in 1 .. Len(t) : r[Len(s) + i] = t[i]
    BY ListConcat
  <1> HIDE DEF a, l, r
  <1>5. ASSUME NEW i \in 1 .. Len(s) + Len(t)
        PROVE  l[i] = r[i]
    <2>1. CASE i <= Len(s)
      BY <1>1, <1>3, <1>4, <2>1
    <2>2. CASE i = Len(s) + 1
      BY <1>1, <1>2, <1>3, <1>4, <2>2
    <2>3. CASE i > Len(s) + 1
      <3>1. PICK j \in 1 .. Len(t) - 1 : i = Len(s) + 1 + j
        <4>1. i - Len(s) - 1 \in 1 .. Len(t) - 1 /\ i = Len(s) + 1 + (i - Len(s) - 1)
          BY <1>1, <1>2, <1>5, <2>3
        <4> QED
          BY <4>1
      <3>2. l[i] = t[j + 1]
        BY <1>2, <1>3, <3>1
      <3>3. j + 1 \in 1 .. Len(t) /\ i = Len(s) + (j + 1)
        BY <1>1, <1>2, <3>1
      <3>4. r[i] = t[j + 1]
        BY <1>4, <3>3
      <3> QED
        BY <3>2, <3>4
    <2> QED
      BY <1>1, <1>2, <2>1, <2>2, <2>3
  <1>6. l = r
    BY <1>3, <1>4, <1>5, ListEqual
  <1> QED
    BY <1>6 DEF a, l, r

----------------------------------------------------------------------------
(* The body of a test: how far it has come.                                *)

\* Lines to type, and then the checks.
Splits(cur, checks) ==
  /\ IsList(cur) /\ IsList(checks) /\ Len(checks) <= Len(cur)
  /\ \A i \in 1 .. Len(cur) - Len(checks) : cur[i].op = "type" /\ cur[i].text \in Texts
  /\ \A i \in 1 .. Len(checks) :
       checks[i].op = "check" /\ cur[Len(cur) - Len(checks) + i] = checks[i]

Upto(f, k) == IF k = 0 THEN << >> ELSE f[k]

\* What was captured so far was captured for.
Done == [i \in 1 .. Len(captures) |-> captures[i].of]

\* The checks of the steps are w; k of the steps are begun, and what is
\* captured, with what is left of step k, is what these ask for.
Course(w, f, k) ==
  /\ Len(w) \in Nat /\ k \in 0 .. Len(w) /\ Joins(f, w) /\ Upto(f, Len(w)) \in AsWritten
  /\ IsList(todo)
  /\ todo = << >> => k = Len(w) /\ Done = Upto(f, k)
  /\ todo # << >> =>
       /\ Len(todo) = Len(w) - k + 1
       /\ \E y : Splits(Head(todo), y) /\ Done \o y = Upto(f, k)
       /\ \A j \in 1 .. Len(w) - k : Splits(todo[j + 1], w[k + j])

LEMMA SplitType ==
  ASSUME NEW cur, NEW y, Splits(cur, y), cur # << >>, Head(cur).op = "type"
  PROVE  Splits(Tail(cur), y) /\ Head(cur).text \in Texts
PROOF
  <1>1. /\ IsList(Tail(cur)) /\ Len(cur) \in Nat \ {0} /\ Len(Tail(cur)) = Len(cur) - 1
        /\ Head(cur) = cur[1] /\ \A i \in 1 .. Len(cur) - 1 : Tail(cur)[i] = cur[i + 1]
    BY ListTail DEF Splits
  <1>2. IsList(y) /\ Len(y) \in Nat /\ Len(y) <= Len(cur)
    BY ListAppend DEF Splits
  <1>3. Len(y) # Len(cur)
    <2> SUFFICES ASSUME Len(y) = Len(cur)
                 PROVE  FALSE
      OBVIOUS
    <2>1. 1 \in 1 .. Len(y) /\ Len(cur) - Len(y) + 1 = 1
      BY <1>1
    <2>2. \A i \in 1 .. Len(y) : y[i].op = "check" /\ cur[Len(cur) - Len(y) + i] = y[i]
      BY DEF Splits
    <2>3. y[1].op = "check" /\ cur[1] = y[1]
      BY <2>1, <2>2
    <2> QED
      BY <1>1, <2>3
  <1>4. ASSUME NEW i \in 1 .. Len(Tail(cur)) - Len(y)
        PROVE  Tail(cur)[i].op = "type" /\ Tail(cur)[i].text \in Texts
    <2>1. i \in 1 .. Len(cur) - 1 /\ i + 1 \in 1 .. Len(cur) - Len(y)
      BY <1>1, <1>2, <1>4
    <2> QED
      BY <1>1, <2>1 DEF Splits
  <1>5. ASSUME NEW i \in 1 .. Len(y)
        PROVE  y[i].op = "check" /\ Tail(cur)[Len(Tail(cur)) - Len(y) + i] = y[i]
    <2> DEFINE j == Len(Tail(cur)) - Len(y) + i
    <2>1. j \in 1 .. Len(cur) - 1 /\ j + 1 = Len(cur) - Len(y) + i
      BY <1>1, <1>2, <1>3, <1>5
    <2> HIDE DEF j
    <2>2. Tail(cur)[j] = cur[j + 1]
      BY <1>1, <2>1
    <2>3. y[i].op = "check" /\ cur[Len(cur) - Len(y) + i] = y[i]
      BY DEF Splits
    <2> QED
      BY <2>1, <2>2, <2>3 DEF j
  <1>6. 1 \in 1 .. Len(cur) - Len(y)
    BY <1>1, <1>2, <1>3
  <1>7. Head(cur).text \in Texts
    BY <1>1, <1>6 DEF Splits
  <1>8. Len(y) <= Len(Tail(cur))
    BY <1>1, <1>2, <1>3
  <1> QED
    BY <1>1, <1>2, <1>4, <1>5, <1>7, <1>8 DEF Splits

LEMMA SplitCheck ==
  ASSUME NEW cur, NEW y, Splits(cur, y), cur # << >>, Head(cur).op = "check"
  PROVE  IsList(y) /\ y # << >> /\ Head(y) = Head(cur) /\ Splits(Tail(cur), Tail(y))
PROOF
  <1>1. /\ IsList(Tail(cur)) /\ Len(cur) \in Nat \ {0} /\ Len(Tail(cur)) = Len(cur) - 1
        /\ Head(cur) = cur[1] /\ \A i \in 1 .. Len(cur) - 1 : Tail(cur)[i] = cur[i + 1]
    BY ListTail DEF Splits
  <1>2. IsList(y) /\ Len(y) \in Nat /\ Len(y) <= Len(cur)
    BY ListAppend DEF Splits
  <1>3. Len(y) = Len(cur)
    <2> SUFFICES ASSUME Len(y) # Len(cur)
                 PROVE  FALSE
      OBVIOUS
    <2>1. 1 \in 1 .. Len(cur) - Len(y)
      BY <1>1, <1>2
    <2> QED
      BY <1>1, <2>1 DEF Splits
  <1>4. \A i \in 1 .. Len(cur) : y[i].op = "check" /\ cur[i] = y[i]
    <2>1. \A i \in 1 .. Len(y) : Len(cur) - Len(y) + i = i
      BY <1>1, <1>3
    <2>2. \A i \in 1 .. Len(y) : y[i].op = "check" /\ cur[Len(cur) - Len(y) + i] = y[i]
      BY DEF Splits
    <2> QED
      BY <1>3, <2>1, <2>2
  <1>5. y # << >>
    BY <1>1, <1>3
  <1>6. /\ IsList(Tail(y)) /\ Len(Tail(y)) = Len(y) - 1
        /\ Head(y) = y[1] /\ \A i \in 1 .. Len(y) - 1 : Tail(y)[i] = y[i + 1]
    BY <1>2, <1>5, ListTail
  <1>7. Head(y) = Head(cur)
    BY <1>1, <1>4, <1>6
  <1>8. ASSUME NEW i \in 1 .. Len(Tail(y))
        PROVE  /\ Tail(y)[i].op = "check"
               /\ Tail(cur)[Len(Tail(cur)) - Len(Tail(y)) + i] = Tail(y)[i]
    <2>1. i \in 1 .. Len(cur) - 1 /\ i + 1 \in 1 .. Len(cur)
      BY <1>1, <1>3, <1>6, <1>8
    <2>2. Len(Tail(cur)) - Len(Tail(y)) + i = i
      BY <1>1, <1>3, <1>6, <1>8
    <2> QED
      BY <1>1, <1>3, <1>4, <1>6, <2>1, <2>2
  <1>9. Len(Tail(y)) <= Len(Tail(cur)) /\ 1 .. Len(Tail(cur)) - Len(Tail(y)) = {}
    <2> DEFINE n == Len(Tail(cur))
               m == Len(Tail(y))
    <2>1. n = m /\ n \in Nat
      BY <1>1, <1>3, <1>6
    <2> HIDE DEF n, m
    <2>2. m <= n /\ 1 .. n - m = {}
      BY <2>1
    <2> QED
      BY <2>2 DEF n, m
  <1> QED
    BY <1>1, <1>2, <1>5, <1>6, <1>7, <1>8, <1>9 DEF Splits

LEMMA SplitEnd ==
  ASSUME NEW y, Splits(<< >>, y)
  PROVE  y = << >>
PROOF
  <1>1. IsList(y) /\ Len(y) \in Nat /\ Len(y) <= 0
    BY ListAppend DEF Splits
  <1>2. PICK S : y \in Seq(S)
    BY <1>1 DEF IsList
  <1> QED
    BY <1>1, <1>2

\* What is typed, with the checks behind it, splits into the two.
LEMMA SplitOf ==
  ASSUME NEW lines \in Seq(Texts), NEW y, IsList(y), \A i \in 1 .. Len(y) : y[i].op = "check"
  PROVE  Splits(Typing(lines) \o y, y)
PROOF
  <1> DEFINE x == Typing(lines)
             cur == x \o y
  <1>1. /\ IsList(x) /\ Len(x) = Len(lines) /\ Len(lines) \in Nat
        /\ \A i \in 1 .. Len(x) : x[i].op = "type" /\ x[i].text \in Texts
    <2>1. DOMAIN lines = 1 .. Len(lines) /\ Len(lines) \in Nat
      OBVIOUS
    <2>2. x = [i \in 1 .. Len(lines) |-> [op |-> "type", text |-> lines[i]]]
      BY <2>1 DEF Typing
    <2> HIDE DEF x
    <2>3. x = [i \in 1 .. Len(lines) |-> x[i]]
      BY <2>2
    <2>4. IsList(x) /\ Len(x) = Len(lines)
      BY <2>1, <2>3, ListOf
    <2> QED
      BY <2>1, <2>2, <2>4
  <1> HIDE DEF x
  <1>2. /\ IsList(cur) /\ Len(y) \in Nat /\ Len(cur) = Len(x) + Len(y)
        /\ \A i \in 1 .. Len(x) : cur[i] = x[i]
        /\ \A i \in 1 .. Len(y) : cur[Len(x) + i] = y[i]
    <2>1. IsList(x) /\ IsList(y)
      BY <1>1
    <2> HIDE DEF cur
    <2>2. /\ IsList(x \o y) /\ Len(y) \in Nat /\ Len(x \o y) = Len(x) + Len(y)
          /\ \A i \in 1 .. Len(x) : (x \o y)[i] = x[i]
          /\ \A i \in 1 .. Len(y) : (x \o y)[Len(x) + i] = y[i]
      BY <2>1, ListConcat
    <2> QED
      BY <2>2 DEF cur
  <1> HIDE DEF cur
  <1>3. Len(cur) - Len(y) = Len(x) /\ Len(y) <= Len(cur)
    BY <1>1, <1>2
  <1>4. Splits(cur, y)
    BY <1>1, <1>2, <1>3 DEF Splits
  <1> QED
    BY <1>4 DEF cur, x

\* A body starts with nothing captured.
LEMMA CourseStart ==
  ASSUME todo' \in ScreenBodies, captures' = << >>
  PROVE  \E w, f : Course(w, f, 0)'
PROOF
  <1>1. ASSUME NEW lines \in Seq(Texts), NEW n \in Nat, NEW rest, NEW w, NEW f,
               IsList(rest), Len(rest) = n, Len(w) = n, Joins(f, w), Upto(f, n) \in AsWritten,
               \A j \in 1 .. n : Splits(rest[j], w[j]),
               todo' = <<Typing(lines)>> \o rest
        PROVE  Course(w, f, 0)'
    <2> DEFINE head == Typing(lines)
               new == <<head>> \o rest
    <2>1. Splits(head, << >>)
      <3>1. IsList(<< >>) /\ Len(<< >>) = 0
        <4>1. << >> \in Seq({})
          OBVIOUS
        <4> QED
          BY <4>1 DEF IsList
      <3>2. Splits(head \o << >>, << >>)
        <4> DEFINE e == << >>
        <4>1. IsList(e) /\ \A i \in 1 .. Len(e) : e[i].op = "check"
          BY <3>1
        <4> HIDE DEF e
        <4>2. Splits(Typing(lines) \o e, e)
          BY <4>1, SplitOf
        <4> QED
          BY <4>2 DEF e
      <3>3. head \in Seq({head[i] : i \in DOMAIN lines})
        BY DEF Typing
      <3>4. head \o << >> = head
        BY <3>3
      <3> QED
        BY <3>2, <3>4
    <2> HIDE DEF head
    <2>2. /\ IsList(new) /\ Len(new) = n + 1 /\ new[1] = head
          /\ \A j \in 1 .. n : new[1 + j] = rest[j]
      <3> DEFINE h == <<head>>
      <3>1. IsList(h) /\ Len(h) = 1 /\ h[1] = head
        <4>1. h \in Seq({head})
          OBVIOUS
        <4> QED
          BY <4>1 DEF IsList
      <3> HIDE DEF h
      <3>2. /\ IsList(h \o rest) /\ Len(h \o rest) = 1 + n
            /\ \A i \in 1 .. Len(h) : (h \o rest)[i] = h[i]
            /\ \A i \in 1 .. Len(rest) : (h \o rest)[Len(h) + i] = rest[i]
        <4>1. IsList(h) /\ IsList(rest)
          BY <1>1, <3>1
        <4>2. /\ IsList(h \o rest) /\ Len(h \o rest) = Len(h) + Len(rest)
              /\ \A i \in 1 .. Len(h) : (h \o rest)[i] = h[i]
              /\ \A i \in 1 .. Len(rest) : (h \o rest)[Len(h) + i] = rest[i]
          BY <4>1, ListConcat
        <4> QED
          BY <1>1, <3>1, <4>2
      <3>3. new = h \o rest
        BY DEF h
      <3> HIDE DEF new
      <3>4. (h \o rest)[1] = h[1]
        BY <3>1, <3>2
      <3>5. \A i \in 1 .. n : (h \o rest)[1 + i] = rest[i]
        BY <1>1, <3>1, <3>2
      <3> QED
        BY <3>1, <3>2, <3>3, <3>4, <3>5
    <2>3. todo' = new
      BY <1>1 DEF head
    <2> HIDE DEF new
    <2>4. todo' # << >> /\ Head(todo') = head
      BY <2>2, <2>3, ListTail
    <2>5. Done' = << >> /\ Done' \o << >> = << >>
      BY DEF Done
    <2>6. \A j \in 1 .. n : Splits(todo'[j + 1], w[0 + j])
      BY <1>1, <2>2, <2>3
    <2> QED
      <3>1. /\ Len(w) = n /\ 0 \in 0 .. Len(w) /\ Len(w) - 0 + 1 = n + 1 /\ Len(w) - 0 = n
        BY <1>1
      <3>2. Upto(f, 0) = << >>
        BY DEF Upto
      <3>3. \E y : Splits(Head(todo'), y) /\ Done' \o y = Upto(f, 0)
        BY <2>1, <2>4, <2>5, <3>2
      <3>4. IsList(todo') /\ Len(todo') = Len(w) - 0 + 1
        BY <2>2, <2>3, <3>1
      <3>5. \A j \in 1 .. Len(w) - 0 : Splits(todo'[j + 1], w[0 + j])
        BY <2>6, <3>1
      <3>6. Len(w) \in Nat /\ 0 \in 0 .. Len(w) /\ Joins(f, w) /\ Upto(f, Len(w)) \in AsWritten
        BY <1>1, <3>1
      <3> QED
        BY <2>4, <3>3, <3>4, <3>5, <3>6 DEF Course
  <1>2. CASE \E s \in Suites : Loads(s) /\ todo' = SuiteBody(load_suite(s))
    <2>1. PICK s \in Suites : Loads(s) /\ todo' = SuiteBody(load_suite(s))
      BY <1>2
    <2> DEFINE list == s.steps.list
               n == Len(list)
               lines == <<FHOST, FIN[s.disk], FMOUNT>> \o string_list(s.paste)
               checks(i) == [c \in DOMAIN list[i].checks |->
                               Waiting_for(list[i].name, list[i].checks[c].expect)]
               w == [i \in 1 .. n |-> checks(i)]
               rest == [i \in 1 .. n |-> Typing(string_list(list[i].paste)) \o checks(i)]
    <2>2. /\ list \in Seq(Range(list)) /\ DOMAIN list = 1 .. n /\ n \in Nat
          /\ string_list(s.paste) \in Seq(Texts) /\ s.disk \in DOMAIN FIN
          /\ \A i \in 1 .. n : /\ string_list(list[i].paste) \in Seq(Texts)
                               /\ list[i].checks \in Seq(Range(list[i].checks))
      <3>1. list \in Seq(Range(list))
        BY <2>1, SuiteAssumption
      <3>2. DOMAIN list = 1 .. n /\ n \in Nat
        BY <3>1
      <3> QED
        BY <2>1, <3>1, <3>2, SuiteAssumption DEF Loads
    <2>3. lines \in Seq(Texts)
      <3>1. <<FHOST, FIN[s.disk], FMOUNT>> \in Seq(Texts)
        BY <2>2, SuiteAssumption
      <3> QED
        BY <2>2, <3>1
    <2>4. ASSUME NEW i \in 1 .. n
          PROVE  Splits(rest[i], w[i])
      <3> DEFINE m == Len(list[i].checks)
      <3>1. DOMAIN list[i].checks = 1 .. m /\ m \in Nat
        BY <2>2
      <3> DEFINE y == checks(i)
      <3>2. /\ y = [c \in 1 .. m |-> y[c]]
            /\ \A c \in 1 .. m : y[c].op = "check"
        BY <3>1 DEF Waiting_for
      <3> HIDE DEF y, m
      <3>3. IsList(y) /\ Len(y) = m
        BY <3>1, <3>2, ListOf
      <3>4. Splits(Typing(string_list(list[i].paste)) \o y, y)
        BY <2>2, <3>2, <3>3, SplitOf
      <3>5. rest[i] = Typing(string_list(list[i].paste)) \o y /\ w[i] = y
        BY DEF y
      <3> QED
        BY <3>4, <3>5
    <2>5. todo' = <<Typing(lines)>> \o rest
      <3>1. load_suite(s).steps = [i \in 1 .. n |-> parse_step(list[i])]
        BY <2>2 DEF load_suite
      <3>2. \A i \in 1 .. n : StepItems(parse_step(list[i])) = rest[i]
        BY DEF StepItems, parse_step, parse_check
      <3>3. load_suite(s).setup = string_list(s.paste) /\ load_suite(s).disk = s.disk
        BY DEF load_suite
      <3>4. [i \in DOMAIN load_suite(s).steps |-> StepItems(load_suite(s).steps[i])] = rest
        BY <3>1, <3>2
      <3> QED
        BY <2>1, <3>3, <3>4 DEF SuiteBody
    <2>6. FlattenSeq(w) \in AsWritten
      BY <2>1, <2>2 DEF AsWritten
    <2>7. IsList(w) /\ Len(w) = n /\ IsList(rest) /\ Len(rest) = n
      BY <2>2, ListOf
    <2> HIDE DEF w, rest, lines, n
    <2>8. PICK f : Joins(f, w) /\ Upto(f, n) \in AsWritten
      <3>1. CASE n = 0
        <4>1. w = << >>
          BY <2>7, <3>1 DEF IsList
        <4>2. FlattenSeq(w) = << >>
          BY <4>1 DEF FlattenSeq
        <4>3. PICK f : Joins(f, w)
          BY <2>2, <2>7, JoinsFor
        <4> QED
          BY <2>6, <3>1, <4>2, <4>3 DEF Upto
      <3>2. CASE n # 0
        BY <2>2, <2>6, <2>7, <3>2, FlattenIs DEF Upto
      <3> QED
        BY <3>1, <3>2
    <2>9. Course(w, f, 0)'
      BY <1>1, <2>2, <2>3, <2>4, <2>5, <2>7, <2>8
    <2> QED
      BY <2>9
  <1>3. CASE \E p \in Programs : todo' = ProgramBody(p.lines, p.prints)
    <2>1. PICK p \in Programs : todo' = ProgramBody(p.lines, p.prints)
      BY <1>3
    <2> DEFINE lines == <<"NEW">> \o p.lines \o <<"RUN">>
               check == Waiting_for("RUN", p.prints)
               w == <<<<check>>>>
    <2>2. lines \in Seq(Texts)
      BY SuiteAssumption
    <2>3. IsList(w) /\ Len(w) = 1 /\ w[1] = <<check>>
      <3>1. w \in Seq({<<check>>})
        OBVIOUS
      <3> QED
        BY <3>1 DEF IsList
    <2>4. Splits(w[1], w[1])
      <3>1. <<check>> \in Seq({check}) /\ check.op = "check"
        BY DEF Waiting_for
      <3> HIDE DEF check
      <3>2. IsList(<<check>>) /\ Len(<<check>>) = 1 /\ <<check>>[1] = check
        BY <3>1 DEF IsList
      <3> QED
        BY <2>3, <3>1, <3>2 DEF Splits
    <2>5. todo' = <<Typing(lines)>> \o w
      BY <2>1 DEF ProgramBody
    <2>6. PICK f : Joins(f, w)
      BY <2>3, JoinsFor
    <2>7. Upto(f, 1) = <<check>>
      BY <2>3, <2>6 DEF Joins, Upto
    <2>8. <<check>> \in AsWritten
      BY DEF AsWritten
    <2> HIDE DEF w, lines, check
    <2>9. Course(w, f, 0)'
      <3>1. \A j \in 1 .. 1 : Splits(w[j], w[j])
        BY <2>4
      <3> QED
        BY <1>1, <2>2, <2>3, <2>5, <2>6, <2>7, <2>8, <3>1
    <2> QED
      BY <2>9
  <1> QED
    BY <1>2, <1>3 DEF ScreenBodies

LEMMA OneIs ==
  ASSUME NEW x
  PROVE  IsList(<<x>>) /\ Len(<<x>>) = 1 /\ <<x>>[1] = x
PROOF
  <1>1. <<x>> \in Seq({x})
    OBVIOUS
  <1> QED
    BY <1>1 DEF IsList

\* The first of a list is replaced.
LEMMA ListFirst ==
  ASSUME NEW s, IsList(s), s # << >>, NEW x
  PROVE  /\ IsList(<<x>> \o Tail(s)) /\ Len(<<x>> \o Tail(s)) = Len(s)
         /\ <<x>> \o Tail(s) # << >> /\ Head(<<x>> \o Tail(s)) = x
         /\ \A j \in 1 .. Len(s) - 1 : (<<x>> \o Tail(s))[j + 1] = s[j + 1]
PROOF
  <1> DEFINE h == <<x>>
             t == Tail(s)
             new == h \o t
  <1>1. /\ IsList(t) /\ Len(s) \in Nat \ {0} /\ Len(t) = Len(s) - 1
        /\ \A i \in 1 .. Len(s) - 1 : t[i] = s[i + 1]
    BY ListTail
  <1>2. IsList(h) /\ Len(h) = 1 /\ h[1] = x
    BY OneIs
  <1> HIDE DEF h, t
  <1>3. /\ IsList(new) /\ Len(new) = Len(h) + Len(t)
        /\ \A i \in 1 .. Len(h) : new[i] = h[i]
        /\ \A i \in 1 .. Len(t) : new[Len(h) + i] = t[i]
    <2>1. IsList(h) /\ IsList(t)
      BY <1>1, <1>2
    <2> QED
      BY <2>1, ListConcat
  <1> HIDE DEF new
  <1>4. IsList(new) /\ Len(new) = Len(s) /\ new[1] = x
    BY <1>1, <1>2, <1>3
  <1>5. new # << >> /\ Head(new) = new[1]
    <2>1. Len(new) # 0
      BY <1>1, <1>4
    <2>2. new # << >>
      BY <2>1
    <2> QED
      BY <1>4, <2>2, ListTail
  <1>6. ASSUME NEW j \in 1 .. Len(s) - 1
        PROVE  new[j + 1] = s[j + 1]
    <2>1. j \in 1 .. Len(t) /\ 1 + j = j + 1
      BY <1>1, <1>6
    <2>2. new[1 + j] = t[j]
      BY <1>2, <1>3, <2>1
    <2> QED
      BY <1>1, <1>6, <2>1, <2>2
  <1> QED
    BY <1>4, <1>5, <1>6 DEF new, h, t

LEMMA DoneIs ==
  ASSUME IsList(captures)
  PROVE  IsList(Done) /\ Len(Done) = Len(captures) /\ Len(captures) \in Nat
PROOF
  <1> DEFINE n == Len(captures)
             g == Done
  <1>1. g = [i \in 1 .. n |-> g[i]] /\ n \in Nat
    BY ListAppend DEF Done
  <1> HIDE DEF g, n
  <1>2. IsList(g) /\ Len(g) = n
    BY <1>1, ListOf
  <1> QED
    BY <1>1, <1>2 DEF g, n

\* A line was typed: it is no longer to do.
LEMMA CourseTyped ==
  ASSUME NEW w, NEW f, NEW k, Course(w, f, k), todo # << >>, Head(todo) # << >>,
         Item.op = "type", todo' = <<Tail(Head(todo))>> \o Tail(todo), captures' = captures
  PROVE  Course(w, f, k)' /\ Item.text \in Texts
PROOF
  <1> DEFINE cur == Head(todo)
             h == <<Tail(cur)>>
             new == h \o Tail(todo)
  <1>1. PICK y : Splits(cur, y) /\ Done \o y = Upto(f, k)
    BY DEF Course
  <1>2. Splits(Tail(cur), y) /\ Item.text \in Texts
    BY <1>1, SplitType DEF Item
  <1>3. /\ IsList(new) /\ Len(new) = Len(todo) /\ new # << >> /\ Head(new) = Tail(cur)
        /\ \A j \in 1 .. Len(todo) - 1 : new[j + 1] = todo[j + 1]
    <2>1. IsList(todo)
      BY DEF Course
    <2> HIDE DEF cur
    <2> QED
      BY <2>1, ListFirst
  <1>4. todo' = new /\ Done' = Done
    BY DEF Done
  <1> HIDE DEF new, cur
  <1>5. Len(todo) = Len(w) - k + 1 /\ Len(w) - k = Len(todo) - 1
    BY DEF Course
  <1>6. \A j \in 1 .. Len(w) - k : Splits(todo'[j + 1], w[k + j])
    BY <1>3, <1>4, <1>5 DEF Course
  <1>7. \E z : Splits(Head(todo'), z) /\ Done' \o z = Upto(f, k)
    BY <1>1, <1>2, <1>3, <1>4
  <1>8. todo' # << >> /\ IsList(todo') /\ Len(todo') = Len(w) - k + 1
    BY <1>3, <1>4, <1>5
  <1>9. Len(w) \in Nat /\ k \in 0 .. Len(w) /\ Joins(f, w) /\ Upto(f, Len(w)) \in AsWritten
    BY DEF Course
  <1>10. Course(w, f, k)'
    BY <1>6, <1>7, <1>8, <1>9 DEF Course
  <1> QED
    BY <1>2, <1>10

\* A check was captured: it is no longer to do.
LEMMA CourseChecked ==
  ASSUME NEW w, NEW f, NEW k, Course(w, f, k), todo # << >>, Head(todo) # << >>,
         Item.op = "check", todo' = <<Tail(Head(todo))>> \o Tail(todo),
         IsList(captures), NEW c, c.of = Item, captures' = Append(captures, c)
  PROVE  Course(w, f, k)'
PROOF
  <1> DEFINE cur == Head(todo)
             h == <<Tail(cur)>>
             new == h \o Tail(todo)
  <1>1. PICK y : Splits(cur, y) /\ Done \o y = Upto(f, k)
    BY DEF Course
  <1>2. IsList(y) /\ y # << >> /\ Head(y) = Item /\ Splits(Tail(cur), Tail(y))
    BY <1>1, SplitCheck DEF Item
  <1>3. /\ IsList(new) /\ Len(new) = Len(todo) /\ new # << >> /\ Head(new) = Tail(cur)
        /\ \A j \in 1 .. Len(todo) - 1 : new[j + 1] = todo[j + 1]
    <2>1. IsList(todo)
      BY DEF Course
    <2> HIDE DEF cur
    <2> QED
      BY <2>1, ListFirst
  <1>4. todo' = new
    OBVIOUS
  <1> HIDE DEF new, cur
  <1>5. Len(todo) = Len(w) - k + 1 /\ Len(w) - k = Len(todo) - 1
    BY DEF Course
  <1>6. \A j \in 1 .. Len(w) - k : Splits(todo'[j + 1], w[k + j])
    BY <1>3, <1>4, <1>5 DEF Course
  <1>7. Done' = Append(Done, Item) /\ IsList(Done)
    <2>1. /\ Len(captures) \in Nat /\ Len(captures') = Len(captures) + 1
          /\ \A i \in 1 .. Len(captures) : captures'[i] = captures[i]
          /\ captures'[Len(captures) + 1] = c
      BY ListAppend
    <2> DEFINE n == Len(captures)
               a == Append(Done, Item)
    <2>2. IsList(Done) /\ Len(Done) = n
      BY DoneIs
    <2>3. /\ IsList(a) /\ Len(a) = n + 1 /\ \A i \in 1 .. n : a[i] = Done[i]
          /\ a[n + 1] = Item
      <3> HIDE DEF n
      <3>1. /\ IsList(a) /\ Len(a) = Len(Done) + 1 /\ \A i \in 1 .. Len(Done) : a[i] = Done[i]
            /\ a[Len(Done) + 1] = Item
        BY <2>2, ListAppend
      <3> QED
        BY <2>2, <3>1
    <2>4. Done' = [i \in 1 .. n + 1 |-> captures'[i].of]
      BY <2>1 DEF Done
    <2>5. IsList(Done') /\ Len(Done') = n + 1
      <3> DEFINE g == Done'
      <3>1. g = [i \in 1 .. n + 1 |-> g[i]] /\ n + 1 \in Nat
        BY <2>1, <2>4
      <3> HIDE DEF g, n
      <3>2. IsList(g) /\ Len(g) = n + 1
        BY <3>1, ListOf
      <3> QED
        BY <3>2 DEF g
    <2> HIDE DEF a
    <2>6. \A i \in 1 .. n + 1 : Done'[i] = a[i]
      <3>1. \A i \in 1 .. n : Done'[i] = captures[i].of /\ Done[i] = captures[i].of
        BY <2>1, <2>4 DEF Done
      <3>2. Done'[n + 1] = Item
        BY <2>1, <2>4
      <3>3. \A i \in 1 .. n + 1 : i \in 1 .. n \/ i = n + 1
        BY <2>1
      <3> QED
        BY <2>3, <3>1, <3>2, <3>3
    <2>7. Done' = a
      BY <2>3, <2>5, <2>6, ListEqual
    <2> QED
      BY <2>2, <2>7 DEF a
  <1>8. Done' \o Tail(y) = Upto(f, k)
    BY <1>1, <1>2, <1>7, ListShift
  <1>9. \E z : Splits(Head(todo'), z) /\ Done' \o z = Upto(f, k)
    BY <1>2, <1>3, <1>4, <1>8
  <1>10. todo' # << >> /\ IsList(todo') /\ Len(todo') = Len(w) - k + 1
    BY <1>3, <1>4, <1>5
  <1>11. Len(w) \in Nat /\ k \in 0 .. Len(w) /\ Joins(f, w) /\ Upto(f, Len(w)) \in AsWritten
    BY DEF Course
  <1> QED
    BY <1>6, <1>9, <1>10, <1>11 DEF Course

\* A step has nothing left: the next one begins.
LEMMA CourseStep ==
  ASSUME NEW w, NEW f, NEW k, Course(w, f, k), todo # << >>, Head(todo) = << >>,
         todo' = Tail(todo), IsList(captures), captures' = captures
  PROVE  \E j : Course(w, f, j)'
PROOF
  <1> DEFINE t == Tail(todo)
  <1>0. Len(w) \in Nat /\ k \in 0 .. Len(w) /\ Joins(f, w) /\ Upto(f, Len(w)) \in AsWritten
    BY DEF Course
  <1>1. PICK y : Splits(<< >>, y) /\ Done \o y = Upto(f, k)
    BY DEF Course
  <1>2. y = << >>
    BY <1>1, SplitEnd
  <1>3. Done = Upto(f, k) /\ Done' = Done
    <2>1. PICK S : Done \in Seq(S)
      BY DoneIs DEF IsList
    <2>2. Done \o << >> = Done
      BY <2>1
    <2> QED
      BY <1>1, <1>2, <2>2 DEF Done
  <1>4. /\ IsList(t) /\ Len(t) = Len(todo) - 1 /\ Len(todo) = Len(w) - k + 1
        /\ \A i \in 1 .. Len(todo) - 1 : t[i] = todo[i + 1]
    BY ListTail DEF Course
  <1>5. todo' = t
    OBVIOUS
  <1> HIDE DEF t
  <1>6. CASE k = Len(w)
    <2>1. t = << >>
      <3>1. Len(t) = 0
        BY <1>0, <1>4, <1>6
      <3> QED
        BY <1>4, <3>1 DEF IsList
    <2>2. Course(w, f, k)'
      BY <1>0, <1>3, <1>4, <1>5, <1>6, <2>1 DEF Course
    <2> QED
      BY <2>2
  <1>7. CASE k # Len(w)
    <2> DEFINE m == k + 1
    <2>1. m \in 1 .. Len(w) /\ Len(t) = Len(w) - m + 1 /\ Len(w) - m = Len(t) - 1
          /\ Len(t) \in Nat \ {0} /\ m # 0 /\ m - 1 = k /\ Len(t) = Len(w) - k
      BY <1>0, <1>4, <1>7
    <2> HIDE DEF m
    <2>2. \A j \in 1 .. Len(w) - k : Splits(t[j], w[k + j])
      BY <1>4, <2>1 DEF Course
    <2>3. Splits(t[1], w[m])
      <3>1. 1 \in 1 .. Len(w) - k /\ k + 1 = m
        BY <2>1 DEF m
      <3> QED
        BY <2>2, <3>1
    <2>4. t # << >> /\ Head(t) = t[1]
      <3>1. t # << >>
        BY <2>1
      <3> QED
        BY <1>4, <3>1, ListTail
    <2>5. Done' \o w[m] = Upto(f, m)
      <3>1. f[m] = IF m = 1 THEN w[m] ELSE f[m - 1] \o w[m]
        BY <1>0, <2>1 DEF Joins
      <3>2. CASE k = 0
        <4>1. PICK S : w[m] \in Seq(S)
          BY <2>3 DEF Splits, IsList
        <4>2. << >> \o w[m] = w[m]
          BY <4>1
        <4> QED
          BY <1>3, <2>1, <3>1, <3>2, <4>2 DEF Upto
      <3>3. CASE k # 0
        <4>1. m # 1
          BY <2>1, <3>3
        <4> QED
          BY <1>3, <2>1, <3>1, <3>3, <4>1 DEF Upto
      <3> QED
        BY <3>2, <3>3
    <2>6. \A j \in 1 .. Len(w) - m : Splits(t[j + 1], w[m + j])
      <3>1. \A j \in 1 .. Len(w) - m : j + 1 \in 1 .. Len(w) - k /\ k + (j + 1) = m + j
        BY <1>0, <2>1
      <3> QED
        BY <2>2, <3>1
    <2>7. m \in 0 .. Len(w)
      BY <2>1
    <2>8. \E z : Splits(Head(t), z) /\ Done' \o z = Upto(f, m)
      BY <2>3, <2>4, <2>5
    <2>9. Course(w, f, m)'
      BY <1>0, <1>4, <1>5, <2>1, <2>4, <2>6, <2>7, <2>8 DEF Course
    <2> QED
      BY <2>9
  <1> QED
    BY <1>6, <1>7

----------------------------------------------------------------------------
(* A test that passed has captured what was asked for.                     *)

At(op) == todo # << >> /\ Head(todo) # << >> /\ Item.op = op

LogOnly == todo = << >> \/ todo = <<<< >>>> \/ todo = <<<<[op |-> "log"]>>>>

BodyInv ==
  /\ pc \in InBody =>
       /\ \A i \in 1 .. Len(captures) : captures[i].met
       /\ "bbc" \in Ups => \E w, f, k : Course(w, f, k)
       /\ "bbc" \notin Ups => captures = << >> /\ LogOnly
  /\ pc = "command" => At("type")
  /\ pc \in {"look", "judge", "picture"} => At("check")
  /\ pc = "log" => At("log")
  /\ report = "passed" =>
       /\ "bbc" \in Ups =>
            Done \in AsWritten /\ \A i \in 1 .. Len(captures) : captures[i].met
       /\ "bbc" \notin Ups /\ "evidence" \in Ups => captures # << >> /\ WholeStory(captures)

\* The machine is up only with the evidence.
LEMMA BbcEvidence ==
  ASSUME StageInv, "bbc" \in Ups
  PROVE  "evidence" \in Ups
PROOF
  <1>1. PICK i \in 1 .. Len(up) : up[i] = "bbc"
    BY DEF Ups
  <1>2. Len(up) \in Nat /\ Len(plan) \in Nat /\ Len(up) <= Len(plan)
        /\ \A n \in 1 .. Len(up) : up[n] = plan[n]
    BY PlanIs DEF StageInv
  <1>3. PICK j \in 1 .. Len(plan) : j < i /\ plan[j] = "evidence"
    BY <1>1, <1>2, PlanIs
  <1>4. j \in 1 .. Len(up) /\ up[j] = "evidence"
    BY <1>1, <1>2, <1>3
  <1> QED
    BY <1>4 DEF Ups

\* In the body every fixture asked for is set up.
LEMMA UsesIs ==
  ASSUME StageInv, Len(up) = Len(plan)
  PROVE  (Uses("bbc") <=> "bbc" \in Ups) /\ ("evidence" \in Ups => "bbc" \in Ups)
PROOF
  <1>1. DOMAIN plan = 1 .. Len(up) /\ \A i \in 1 .. Len(up) : up[i] = plan[i]
    BY PlanIs DEF StageInv
  <1>2. Uses("bbc") <=> "bbc" \in Ups
    BY <1>1 DEF Uses, Ups
  <1>3. ASSUME "evidence" \in Ups
        PROVE  "bbc" \in Ups
    <2>1. PICK i \in 1 .. Len(up) : plan[i] = "evidence"
      BY <1>1, <1>3 DEF Ups
    <2>2. PICK j \in 1 .. Len(up) : plan[j] = "bbc"
      BY <2>1, PlanIs
    <2> QED
      BY <1>1, <2>2 DEF Ups
  <1> QED
    BY <1>2, <1>3

LEMMA CourseOps ==
  ASSUME NEW w, NEW f, NEW k, Course(w, f, k), NEW op, At(op)
  PROVE  op \in {"type", "check"}
PROOF
  <1> DEFINE cur == Head(todo)
  <1>1. PICK y : Splits(cur, y)
    BY DEF Course, At
  <1> HIDE DEF cur
  <1>2. IsList(cur) /\ IsList(y) /\ Len(y) <= Len(cur) /\ cur # << >> /\ Item = Head(cur)
    BY <1>1 DEF Splits, At, cur, Item
  <1>3. Len(cur) \in Nat \ {0} /\ Head(cur) = cur[1] /\ Len(y) \in Nat
    BY <1>2, ListTail, ListAppend
  <1>4. CASE Len(y) = Len(cur)
    <2>1. 1 \in 1 .. Len(y) /\ Len(cur) - Len(y) + 1 = 1
      BY <1>3, <1>4
    <2>2. y[1].op = "check" /\ cur[1] = y[1]
      <3>1. \A i \in 1 .. Len(y) : y[i].op = "check" /\ cur[Len(cur) - Len(y) + i] = y[i]
        BY <1>1 DEF Splits
      <3> QED
        BY <2>1, <3>1
    <2> QED
      BY <1>2, <1>3, <2>2 DEF At
  <1>5. CASE Len(y) # Len(cur)
    <2>1. 1 \in 1 .. Len(cur) - Len(y)
      BY <1>2, <1>3, <1>5
    <2>2. cur[1].op = "type"
      BY <1>1, <2>1 DEF Splits
    <2> QED
      BY <1>2, <1>3, <2>2 DEF At
  <1> QED
    BY <1>4, <1>5

LEMMA LogOps ==
  ASSUME LogOnly, NEW op, At(op)
  PROVE  op = "log"
PROOF
  <1>1. todo = <<<<[op |-> "log"]>>>>
    BY DEF LogOnly, At
  <1>2. Item = [op |-> "log"]
    BY <1>1 DEF Item
  <1> QED
    BY <1>2 DEF At

\* The last screen completes the story of a test that passed.
LEMMA StoryEnds ==
  ASSUME IsList(captures), Done \in AsWritten, \A i \in 1 .. Len(captures) : captures[i].met,
         NEW c, c.of.op \in {"final", "unread"}, c.met, captures' = Append(captures, c)
  PROVE  captures' # << >> /\ WholeStory(captures')
PROOF
  <1> DEFINE n == Len(captures)
  <1>1. /\ n \in Nat /\ IsList(captures') /\ Len(captures') = n + 1
        /\ \A i \in 1 .. n : captures'[i] = captures[i]
        /\ captures'[n + 1] = c
    BY ListAppend
  <1> HIDE DEF n
  <1>2. captures' # << >>
    BY <1>1
  <1>3. Len(captures') - 1 = n
    BY <1>1
  <1>4. [i \in 1 .. (Len(captures') - 1) |-> captures'[i].of] = Done
    BY <1>1, <1>3 DEF Done, n
  <1>5. Last(captures') = c
    BY <1>1 DEF Last
  <1>6. \A i \in 1 .. Len(captures') : captures'[i].met
    <2>1. \A i \in 1 .. n + 1 : i \in 1 .. n \/ i = n + 1
      BY <1>1
    <2> QED
      BY <1>1, <2>1 DEF n
  <1> QED
    BY <1>2, <1>4, <1>5, <1>6 DEF WholeStory

LEMMA BodyFirst ==
  ASSUME TestInit
  PROVE  BodyInv
PROOF
  BY DEF TestInit, BodyInv, InBody

\* Outside the body, when no test has passed.
LEMMA BodyNone ==
  ASSUME pc' \notin InBody, report' # "passed"
  PROVE  BodyInv'
PROOF
  BY DEF BodyInv, InBody

\* Nothing of the body changes, nor of the machine and the evidence.
LEMMA BodySame ==
  ASSUME BodyInv, UNCHANGED <<pc, todo, report, captures>>,
         \A x \in {"bbc", "evidence"} : x \in Ups' <=> x \in Ups
  PROVE  BodyInv'
PROOF
  <1>1. Done' = Done
    BY DEF Done
  <1>2. \A w, f, k : Course(w, f, k)' <=> Course(w, f, k)
    BY <1>1 DEF Course
  <1>3. At("type")' = At("type") /\ At("check")' = At("check") /\ At("log")' = At("log")
    BY DEF At, Item
  <1>4. LogOnly' = LogOnly
    BY DEF LogOnly
  <1> QED
    BY <1>1, <1>2, <1>3, <1>4 DEF BodyInv

\* Closing, with neither the machine nor the evidence involved.
LEMMA BodyClosing ==
  ASSUME BodyInv, pc' \in Closing, UNCHANGED <<report, captures>>,
         \A x \in {"bbc", "evidence"} : x \in Ups' <=> x \in Ups
  PROVE  BodyInv'
PROOF
  <1>1. Done' = Done /\ pc' \notin InBody
    BY DEF Done, Closing, InBody
  <1>2. pc' \notin {"command", "look", "judge", "picture", "log"}
    BY DEF Closing
  <1> QED
    BY <1>1, <1>2 DEF BodyInv

LEMMA BodyRun ==
  ASSUME StageInv, StoreInv, Run
  PROVE  BodyInv'
PROOF
  <1>1. pc = "setup" /\ up = plan /\ captures = << >> /\ report = "none"
    BY DEF Run, StoreInv, SettingUp, InBody, Closing
  <1>2. UNCHANGED <<captures, up, plan>>
    BY DEF Run, store
  <1>3. CASE pc' = "body" /\ todo' \in Bodies /\ report' = report
    <2>1. Ups' = Ups /\ (Uses("bbc") <=> "bbc" \in Ups)
      BY <1>1, <1>2, UsesIs DEF Ups
    <2>2. \A i \in 1 .. Len(captures') : captures'[i].met
      BY <1>1, <1>2
    <2>3. CASE "bbc" \in Ups
      <3>1. PICK w, f : Course(w, f, 0)'
        BY <1>1, <1>2, <1>3, <2>1, <2>3, CourseStart DEF Bodies
      <3> QED
        BY <1>1, <1>3, <2>1, <2>2, <2>3, <3>1 DEF BodyInv
    <2>4. CASE "bbc" \notin Ups
      <3>1. LogOnly'
        BY <1>3, <2>1, <2>4 DEF Bodies, LogOnly
      <3> QED
        BY <1>1, <1>2, <1>3, <2>1, <2>2, <2>4, <3>1 DEF BodyInv
    <2> QED
      BY <2>3, <2>4
  <1>4. CASE Ended("skipped") \/ Ended("failed")
    BY <1>4, BodyNone DEF Ended, InBody
  <1> QED
    BY <1>3, <1>4 DEF Run

\* A line is waited for, a screen looked at, a log read.
LEMMA BodyWaits ==
  ASSUME BodyInv, pc \in InBody, UNCHANGED <<todo, report, captures, up>>, report # "passed",
         \/ pc' = "command" /\ At("type")
         \/ pc' \in {"look", "judge", "picture"} /\ At("check")
         \/ pc' = "log" /\ At("log")
  PROVE  BodyInv'
PROOF
  <1>1. Done' = Done /\ Ups' = Ups
    BY DEF Done, Ups
  <1>2. \A w, f, k : Course(w, f, k)' <=> Course(w, f, k)
    BY <1>1 DEF Course
  <1>3. At("type")' = At("type") /\ At("check")' = At("check") /\ At("log")' = At("log")
    BY DEF At, Item
  <1>4. LogOnly' = LogOnly
    BY DEF LogOnly
  <1> QED
    BY <1>1, <1>2, <1>3, <1>4 DEF BodyInv

\* The next item, after a line or a log that was found.
LEMMA BodyNextItem ==
  ASSUME BodyInv, pc \in {"command", "log"}, NextItem, UNCHANGED <<captures, up>>,
         report # "passed"
  PROVE  BodyInv'
PROOF
  <1>1. /\ pc' = "body" /\ todo' = <<Tail(Head(todo))>> \o Tail(todo) /\ report' = report
        /\ Ups' = Ups /\ captures' = captures
    BY DEF NextItem, Ups
  <1>2. (pc = "command" => At("type")) /\ (pc = "log" => At("log"))
    BY DEF BodyInv
  <1>3. \A i \in 1 .. Len(captures') : captures'[i].met
    BY <1>1 DEF BodyInv, InBody
  <1>4. CASE "bbc" \in Ups
    <2>1. PICK w, f, k : Course(w, f, k)
      BY <1>4 DEF BodyInv, InBody
    <2>2. At("type")
      BY <1>2, <2>1, CourseOps
    <2>3. Course(w, f, k)'
      BY <1>1, <2>1, <2>2, CourseTyped DEF At
    <2> QED
      BY <1>1, <1>3, <1>4, <2>3 DEF BodyInv
  <1>5. CASE "bbc" \notin Ups
    <2>1. LogOnly /\ captures = << >>
      BY <1>5 DEF BodyInv, InBody
    <2>2. At("log")
      BY <1>2, <2>1, LogOps
    <2>3. todo = <<<<[op |-> "log"]>>>>
      BY <2>1, <2>2 DEF LogOnly, At
    <2>4. todo' = <<<< >>>>
      BY <1>1, <2>3
    <2>5. LogOnly'
      BY <2>4 DEF LogOnly
    <2> QED
      BY <1>1, <1>3, <1>5, <2>1, <2>5 DEF BodyInv
  <1> QED
    BY <1>4, <1>5

LEMMA BodyNextStep ==
  ASSUME StoreInv, BodyInv, NextStep
  PROVE  BodyInv'
PROOF
  <1>1. /\ pc = "body" /\ pc' = "body" /\ todo # << >> /\ Head(todo) = << >> /\ todo' = Tail(todo)
        /\ report' = report /\ Ups' = Ups /\ captures' = captures /\ report # "passed"
    BY DEF NextStep, Ups, store, StoreInv, Closing
  <1>2. \A i \in 1 .. Len(captures') : captures'[i].met
    BY <1>1 DEF BodyInv, InBody
  <1>3. CASE "bbc" \in Ups
    <2>1. PICK w, f, k : Course(w, f, k)
      BY <1>1, <1>3 DEF BodyInv, InBody
    <2>2. PICK j : Course(w, f, j)'
      BY <1>1, <2>1, CourseStep DEF StoreInv
    <2> QED
      BY <1>1, <1>2, <1>3, <2>2 DEF BodyInv
  <1>4. CASE "bbc" \notin Ups
    <2>1. LogOnly /\ captures = << >>
      BY <1>1, <1>4 DEF BodyInv, InBody
    <2>2. todo = <<<< >>>>
      BY <1>1, <2>1 DEF LogOnly
    <2>3. LogOnly'
      BY <1>1, <2>2 DEF LogOnly
    <2> QED
      BY <1>1, <1>2, <1>4, <2>1, <2>3 DEF BodyInv
  <1> QED
    BY <1>3, <1>4

LEMMA BodyPass ==
  ASSUME StageInv, StoreInv, BodyInv, Pass
  PROVE  BodyInv'
PROOF
  <1>1. /\ pc = "body" /\ todo = << >> /\ pc' = "teardown" /\ Ups' = Ups /\ captures' = captures
    BY DEF Pass, Ended, Ups, store
  <1>2. Len(up) = Len(plan)
    BY <1>1 DEF StageInv, InBody
  <1>3. \A i \in 1 .. Len(captures) : captures[i].met
    BY <1>1 DEF BodyInv, InBody
  <1>4. "bbc" \in Ups => Done \in AsWritten
    BY <1>1 DEF BodyInv, InBody, Course
  <1>5. "evidence" \in Ups => "bbc" \in Ups
    BY <1>2, UsesIs
  <1>6. Done' = Done
    BY <1>1 DEF Done
  <1> QED
    BY <1>1, <1>3, <1>4, <1>5, <1>6 DEF BodyInv, InBody

\* A check belongs to a test that has the machine, and with it the evidence.
LEMMA CheckHas ==
  ASSUME StageInv, BodyInv, pc \in InBody, At("check")
  PROVE  "bbc" \in Ups /\ "evidence" \in Ups
PROOF
  <1>1. "bbc" \in Ups
    BY LogOps DEF BodyInv
  <1> QED
    BY <1>1, BbcEvidence

LEMMA BodyJudge ==
  ASSUME StoreInv, BodyInv, Judge
  PROVE  BodyInv'
PROOF
  <1>1. /\ pc \in InBody /\ At("check") /\ report # "passed"
        /\ UNCHANGED <<todo, report, captures, up>> /\ pc' \in {"picture", "look"}
    BY DEF Judge, Saved, BodyInv, StoreInv, store, InBody, Closing
  <1> QED
    BY <1>1, BodyWaits

LEMMA BodyRecord ==
  ASSUME StageInv, StoreInv, BodyInv, Record
  PROVE  BodyInv'
PROOF
  <1>1. /\ pc = "picture" /\ At("check") /\ report = "none" /\ UNCHANGED up
        /\ captures' = Append(captures, Checkpoint)
    BY DEF Record, Noted, BodyInv, StoreInv, Closing
  <1>2. "bbc" \in Ups
    BY <1>1, CheckHas DEF InBody
  <1>3. CASE Checkpoint.met /\ NextItem
    <2>1. PICK w, f, k : Course(w, f, k)
      BY <1>1, <1>2 DEF BodyInv, InBody
    <2> DEFINE c == Checkpoint
    <2>2. c.of = Item /\ c.met /\ captures' = Append(captures, c) /\ IsList(captures)
      BY <1>1, <1>3, JudgedHonest DEF StoreInv
    <2> HIDE DEF c
    <2>3. pc' = "body" /\ todo' = <<Tail(Head(todo))>> \o Tail(todo) /\ report' = report
      BY <1>3 DEF NextItem
    <2>4. Course(w, f, k)'
      BY <1>1, <2>1, <2>2, <2>3, CourseChecked DEF At
    <2>5. \A i \in 1 .. Len(captures') : captures'[i].met
      <3>1. \A i \in 1 .. Len(captures) : captures[i].met
        BY <1>1 DEF BodyInv, InBody
      <3>2. /\ Len(captures) \in Nat /\ Len(captures') = Len(captures) + 1
            /\ \A i \in 1 .. Len(captures) : captures'[i] = captures[i]
            /\ captures'[Len(captures) + 1] = c
        BY <2>2, ListAppend
      <3>3. \A i \in 1 .. Len(captures') : i \in 1 .. Len(captures) \/ i = Len(captures) + 1
        BY <3>2
      <3> QED
        BY <2>2, <3>1, <3>2, <3>3
    <2>6. Ups' = Ups
      BY <1>1 DEF Ups
    <2> QED
      BY <1>1, <1>2, <2>3, <2>4, <2>5, <2>6 DEF BodyInv
  <1>4. CASE Ended("failed")
    BY <1>4, BodyNone DEF Ended, InBody
  <1> QED
    BY <1>3, <1>4 DEF Record

\* Something other than the machine and the evidence is torn down.
LEMMA LowersOther ==
  ASSUME StageInv, up # << >>, TornDown("teardown"), Top \notin {"bbc", "evidence"}
  PROVE  \A x \in {"bbc", "evidence"} : x \in Ups' <=> x \in Ups
PROOF
  <1>1. Ups' = Ups \ {Top}
    BY OneDown
  <1> QED
    BY <1>1

LEMMA BodyNext ==
  ASSUME StageInv, StoreInv, BodyInv, [TestNext]_testVars
  PROVE  BodyInv'
PROOF
  <1>0. \A x \in {"bbc", "evidence"} : up' = up => (x \in Ups' <=> x \in Ups)
    BY DEF Ups
  <1>1. CASE Configure \/ Begin
    <2>1. report' = report /\ pc \notin Closing /\ pc' \notin InBody
      BY <1>1 DEF Configure, Begin, body, InBody, Closing
    <2> QED
      BY <2>1, BodyNone DEF StoreInv
  <1>2. CASE \/ FindService \/ ServiceScript \/ PollService \/ MakeRunDir \/ Prepare
             \/ ImageScript \/ PollFirmware \/ OpenEvidence \/ Launch \/ AwaitBoot
             \/ StartDevice
    <2>1. report' = report /\ pc \notin Closing /\ pc' \notin InBody
      BY <1>2 DEF FindService, ServiceScript, PollService, MakeRunDir, Prepare, Started,
         ImageScript, PollFirmware, OpenEvidence, Launch, AwaitBoot, StartDevice, Due, SetUp,
         NotSetUp, Await, body, InBody, Closing
    <2> QED
      BY <2>1, BodyNone DEF StoreInv
  <1>3. CASE Run
    BY <1>3, BodyRun
  <1>4. CASE Type \/ Check \/ AskLog \/ Look
    <2>1. /\ pc \in InBody /\ UNCHANGED <<todo, report, captures, up>> /\ report # "passed"
      BY <1>4 DEF Type, Check, AskLog, Look, Doing, Await, body, store, InBody, StoreInv, Closing
    <2>2. \/ pc' = "command" /\ At("type")
          \/ pc' \in {"look", "judge"} /\ At("check")
          \/ pc' = "log" /\ At("log")
      BY <1>4 DEF Type, Check, AskLog, Look, Doing, Await, At, BodyInv
    <2> QED
      BY <2>1, <2>2, BodyWaits
  <1>5. CASE Returns \/ NeverReturns \/ wait_for_log
    <2>1. /\ pc \in {"command", "log"} /\ UNCHANGED <<captures, up>> /\ report # "passed"
      BY <1>5 DEF Returns, NeverReturns, wait_for_log, store, StoreInv, Closing
    <2>2. NextItem \/ Ended("failed")
      BY <1>5 DEF Returns, NeverReturns, wait_for_log
    <2>3. CASE NextItem
      BY <2>1, <2>3, BodyNextItem
    <2>4. CASE Ended("failed")
      BY <2>4, BodyNone DEF Ended, InBody
    <2> QED
      BY <2>2, <2>3, <2>4
  <1>6. CASE Judge \/ Record
    BY <1>6, BodyJudge, BodyRecord
  <1>7. CASE NextStep
    BY <1>7, BodyNextStep
  <1>8. CASE Pass
    BY <1>8, BodyPass
  <1>9. CASE LetGo
    <2>1. up # << >> /\ TornDown("teardown") /\ Top \notin {"bbc", "evidence"}
      BY <1>9 DEF LetGo, Topmost, Top
    <2>2. pc' \in Closing /\ UNCHANGED <<report, captures>>
      BY <1>9 DEF LetGo, TornDown, Closing, body, store
    <2> QED
      BY <2>1, <2>2, LowersOther, BodyClosing
  <1>10. CASE CloseMachine
    <2> DEFINE c == LastCapture(pc)
    <2>1. up # << >> /\ TornDown("teardown") /\ Top = "bbc" /\ report' = report
          /\ captures' = Append(captures, c) /\ IsList(captures) /\ pc' = "teardown"
      BY <1>10 DEF CloseMachine, body, Noted, TornDown, StageInv, StoreInv
    <2>2. "bbc" \in Ups /\ "bbc" \notin Ups'
      BY <2>1, OneDown
    <2>3. c.of.op \in {"final", "unread"} /\ c.met
      BY <1>10, LastHonest DEF CloseMachine
    <2> HIDE DEF c
    <2>4. report = "passed" => captures' # << >> /\ WholeStory(captures')
      <3>1. report = "passed" =>
              Done \in AsWritten /\ \A i \in 1 .. Len(captures) : captures[i].met
        BY <2>2 DEF BodyInv
      <3> QED
        BY <2>1, <2>3, <3>1, StoryEnds
    <2>5. pc' \notin InBody
      BY <2>1 DEF InBody
    <2> QED
      BY <2>1, <2>2, <2>4, <2>5 DEF BodyInv, InBody
  <1>11. CASE CloseEvidence
    <2>1. up # << >> /\ TornDown("teardown") /\ Top = "evidence" /\ pc' = "teardown"
      BY <1>11 DEF CloseEvidence, Topmost, Top, TornDown
    <2>2. "bbc" \notin Ups' /\ "evidence" \notin Ups'
      BY <2>1, OneDown
    <2> QED
      BY <2>1, <2>2 DEF BodyInv, InBody
  <1>12. CASE CaptureLast \/ StopFirmware \/ AwaitEnd
    <2>1. pc' \in Closing /\ UNCHANGED <<report, captures, up>>
      BY <1>12 DEF CaptureLast, Saved, StopFirmware, AwaitEnd, Closing, body, store
    <2> QED
      BY <1>0, <2>1, BodyClosing
  <1>13. CASE RemoveRunDir
    <2>1. up # << >> /\ TornDown("teardown") /\ Top \notin {"bbc", "evidence"}
      BY <1>13 DEF RemoveRunDir, StageInv, FW
    <2>2. pc' \in Closing /\ UNCHANGED <<report, captures>>
      BY <1>13 DEF RemoveRunDir, TornDown, Closing, body, store
    <2> QED
      BY <2>1, <2>2, LowersOther, BodyClosing
  <1>14. CASE End \/ Kill
    BY <1>14, BodyNone DEF End, Kill, Forgotten, InBody
  <1>15. CASE Deadline \/ Firmware \/ Service \/ Machine \/ UNCHANGED testVars
    <2>1. UNCHANGED <<pc, todo, report, captures, up>>
      BY <1>15 DEF Deadline, Firmware, Service, Machine, testVars, body, store
    <2> QED
      BY <1>0, <2>1, BodySame
  <1> QED
    BY <1>1, <1>2, <1>3, <1>4, <1>5, <1>6, <1>7, <1>8, <1>9, <1>10, <1>11, <1>12, <1>13,
       <1>14, <1>15 DEF TestNext, Session, Harness, Scripts

\* The recorder is set up.
LEMMA StoreOpens ==
  ASSUME StageInv, StoreInv, OpenEvidence
  PROVE  StoreInv'
PROOF
  <1>1. /\ pc = "setup" /\ pc' = "setup" /\ test' = test /\ kept' = kept /\ captures' = << >>
        /\ report' = report /\ test \in Nat
    BY PlanAssumption DEF OpenEvidence, Due, SetUp, body, StageInv
  <1>2. running' # << >> /\ IsDir(running'[1])
    <2>1. CASE running = << >>
      <3> DEFINE new == [files |-> << >>, list |-> << >>]
      <3>1. running' = <<new>> /\ IsDir(new)
        BY <2>1 DEF OpenEvidence, IsDir
      <3> HIDE DEF new
      <3> QED
        BY <3>1
    <2>2. CASE running # << >>
      BY <2>2 DEF OpenEvidence, StoreInv
    <2> QED
      BY <2>1, <2>2
  <1>3. IsList(captures') /\ Len(captures') = 0
    <2>1. captures' \in Seq({})
      BY <1>1
    <2> QED
      BY <1>1, <2>1 DEF IsList
  <1>4. report = "none"
    BY <1>1 DEF StoreInv, Closing
  <1>5. \A d \in kept : Proves(d) /\ d.copy \in 1 .. test /\ d.copy < test
    BY <1>1 DEF StoreInv, SettingUp
  <1>6. Filed(running'[1].files, captures') /\ Ahead_of(running[1].files, Len(captures) + 1)'
    BY <1>1, <1>3 DEF Filed, Ahead_of
  <1> QED
    BY <1>1, <1>2, <1>3, <1>4, <1>5, <1>6 DEF StoreInv

\* The file of a capture is written, in the body or before the machine is closed.
LEMMA StoreSaves ==
  ASSUME StageInv, StoreInv, "evidence" \in Ups, NEW c, Saved(c),
         UNCHANGED <<test, up, todo, seen>>,
         \/ pc \in InBody /\ pc' = "picture" /\ c = Checkpoint /\ report' = "none"
         \/ pc \in Closing /\ pc' = "final" /\ c = LastCapture("final")
  PROVE  StoreInv'
PROOF
  <1>1. /\ captures' = captures /\ kept' = kept
        /\ running' # << >> /\ IsDir(running'[1]) /\ running'[1].list = running[1].list
        /\ Filed(running'[1].files, captures)
        /\ InFile(running'[1].files, Len(captures) + 1, c)
    BY SavedKeeps
  <1>2. \A d \in kept : Proves(d) /\ d.copy \in 1 .. test /\ d.copy < test
    BY DEF StoreInv
  <1>3. Checkpoint' = Checkpoint /\ LastCapture("final")' = LastCapture("final")
    BY DEF Checkpoint, LastCapture, Item
  <1>4. Ahead_of(running[1].files, Len(captures) + 1)'
    BY <1>1, <1>3 DEF Ahead_of
  <1>5. pc' \in InBody \cup Closing /\ (report' # "none" => pc' \in Closing)
    BY DEF InBody, Closing
  <1> QED
    BY <1>1, <1>2, <1>4, <1>5 DEF StoreInv

\* It is added to the list, in the body or when the machine is closed.
LEMMA StoreLists ==
  ASSUME StageInv, StoreInv, "evidence" \in Ups, NEW c, Honest(c), c.by = test, Noted(c),
         c.of.op # "unread" => InFile(running[1].files, Len(captures) + 1, c), test' = test,
         pc' \in {"body", "teardown"}, report' # "none" => pc' \in Closing
  PROVE  StoreInv'
PROOF
  <1>1. /\ IsList(captures') /\ captures' # << >> /\ kept' = kept
        /\ \A i \in 1 .. Len(captures') : Honest(captures'[i]) /\ captures'[i].by = test
        /\ running' # << >> /\ IsDir(running'[1]) /\ running'[1].list = captures'
        /\ Filed(running'[1].files, captures')
    BY NotedKeeps
  <1>2. \A d \in kept : Proves(d) /\ d.copy \in 1 .. test /\ d.copy < test
    BY DEF StoreInv
  <1>3. Ahead_of(running[1].files, Len(captures) + 1)' /\ pc' \in InBody \cup Closing
    BY DEF Ahead_of, InBody, Closing
  <1> QED
    BY <1>1, <1>2, <1>3 DEF StoreInv

\* The test leaves its directory.
LEMMA StoreFinishes ==
  ASSUME StageInv, StoreInv, BodyInv, CloseEvidence
  PROVE  StoreInv'
PROOF
  <1> DEFINE status == IF report = "none" THEN "unknown" ELSE report
  <1>1. /\ pc = "teardown" /\ pc' = "teardown" /\ up # << >> /\ TornDown("teardown")
        /\ Top = "evidence" /\ test' = test /\ report' = report /\ Finish(status)
        /\ running' = << >> /\ captures' = captures
    BY DEF CloseEvidence, Topmost, Top, TornDown, body, Finish
  <1>2. test \in Nat /\ test > 0
    BY <1>1, PlanAssumption DEF StageInv, Active, Closing
  <1>3. "evidence" \in Ups /\ "bbc" \notin Ups /\ "evidence" \notin Ups'
    BY <1>1, OneDown
  <1> HIDE DEF status
  <1>4. PICK new :
          /\ kept' = kept \cup {new} /\ new.status = status /\ new.copy \in 1 .. test
          /\ new.files = running[1].files /\ new.list = running[1].list
          /\ new.count = Len(captures) /\ new.by = test
    BY <1>1, <1>2, <1>3, FinishAdds
  <1>5. /\ IsList(captures) /\ (captures # << >> => running[1].list = captures)
        /\ Filed(running[1].files, captures)
        /\ \A i \in 1 .. Len(captures) : Honest(captures[i]) /\ captures[i].by = test
    BY <1>3 DEF StoreInv
  <1>6. (new.count > 0 <=> captures # << >>) /\ (captures # << >> => new.list = captures)
    <2>1. Len(captures) \in Nat /\ (captures = << >> <=> Len(captures) = 0)
      BY <1>5 DEF IsList
    <2> QED
      BY <1>4, <1>5, <2>1
  <1>7. new.count > 0 =>
          /\ new.count = Len(new.list) /\ IsList(new.list) /\ Filed(new.files, new.list)
          /\ \A i \in 1 .. Len(new.list) : Honest(new.list[i]) /\ new.list[i].by = new.by
    BY <1>4, <1>5, <1>6
  <1>8. new.status = "passed" => new.count > 0 /\ WholeStory(new.list)
    <2>1. new.status = "passed" => report = "passed"
      BY <1>4 DEF status
    <2> QED
      BY <1>3, <1>6, <2>1 DEF BodyInv
  <1>9. Proves(new)
    BY <1>7, <1>8 DEF Proves
  <1>10. \A d \in kept' : Proves(d) /\ d.copy \in 1 .. test
    BY <1>4, <1>9 DEF StoreInv
  <1>11. pc' \in Closing /\ pc' \notin SettingUp \cup InBody
    BY <1>1 DEF Closing, SettingUp, InBody
  <1> QED
    BY <1>1, <1>3, <1>10, <1>11 DEF StoreInv

\* The test is over, or its harness was killed.
LEMMA StoreForgets ==
  ASSUME StoreInv, UNCHANGED <<test, running, kept>>, pc' = "idle", up' = << >>,
         captures' = << >>, report' = "none"
  PROVE  StoreInv'
PROOF
  <1>1. IsList(captures') /\ Len(captures') = 0
    <2>1. captures' \in Seq({})
      OBVIOUS
    <2> QED
      BY <2>1 DEF IsList
  <1>2. Ups' = {}
    BY DEF Ups
  <1>3. pc' \notin SettingUp \cup InBody
    BY DEF SettingUp, InBody
  <1> QED
    BY <1>1, <1>2, <1>3 DEF StoreInv

LEMMA StoreNext ==
  ASSUME StageInv, StoreInv, BodyInv, [TestNext]_testVars
  PROVE  StoreInv'
PROOF
  <1>0. up' = up => Ups' = Ups
    BY DEF Ups
  <1>1. CASE UNCHANGED testVars
    <2>1. Stays /\ UNCHANGED <<store, todo, seen, report>> /\ up' = up /\ pc' = pc
      BY <1>1 DEF testVars, body, Stays
    <2> QED
      BY <1>0, <2>1, StoreStill
  <1>3. CASE Configure
    <2>1. /\ captures' = captures /\ running' = running /\ kept' = kept
          /\ test' = test /\ report' = report /\ up' = up
      BY <1>3 DEF Configure, body, store
    <2>2. /\ pc \notin SettingUp \cup InBody \cup Closing
          /\ pc' \notin SettingUp \cup InBody \cup Closing
      BY <1>3 DEF Configure, SettingUp, InBody, Closing
    <2>3. Ups' = {}
      BY <2>1, <2>2 DEF StageInv, Active, Ups
    <2>4. ASSUME NEW d \in kept
          PROVE  Proves(d) /\ d.copy \in 1 .. test
      BY DEF StoreInv
    <2>5. /\ IsList(captures) /\ captures = << >> /\ report = "none"
          /\ \A i \in 1 .. Len(captures) : Honest(captures[i]) /\ captures[i].by = test
          /\ running # << >> => IsDir(running[1])
      BY <2>2 DEF StoreInv
    <2> QED
      BY <2>1, <2>2, <2>3, <2>4, <2>5 DEF StoreInv
  <1>2. CASE Session
    <2>1. Stays \/ Begins \/ Comes \/ Has \/ GoesOn \/ Stops \/ Lowers \/ Ends
      BY <1>2, EachStep
    <2>2. CASE OpenEvidence
      BY <2>2, StoreOpens
    <2>3. CASE Judge \/ Record
      <3>1. pc \in {"judge", "picture"} /\ At("check") /\ pc \in InBody /\ report = "none"
        BY <2>3 DEF Judge, Record, BodyInv, StoreInv, InBody, Closing
      <3>2. "evidence" \in Ups
        BY <3>1, CheckHas
      <3>3. CASE Judge /\ Saved(Checkpoint) /\ pc' = "picture" /\ UNCHANGED seen
        BY <3>1, <3>2, <3>3, StoreSaves DEF Judge
      <3>4. CASE Judge /\ UNCHANGED store /\ pc' = "look"
        <4>1. GoesOn /\ report' = report /\ up' = up
          BY <3>1, <3>4 DEF Judge, GoesOn, InBody
        <4> QED
          BY <1>0, <3>4, <4>1, StoreStill
      <3>5. CASE Record
        <4>1. /\ Noted(Checkpoint) /\ test' = test /\ pc = "picture"
              /\ (pc' = "body" /\ report' = report) \/ pc' = "teardown"
          BY <3>5 DEF Record, NextItem, Ended
        <4>2. InFile(running[1].files, Len(captures) + 1, Checkpoint)
          BY <3>2, <4>1 DEF StoreInv, Ahead_of
        <4>3. report' # "none" => pc' \in Closing
          BY <3>1, <4>1 DEF Closing
        <4> QED
          BY <3>2, <4>1, <4>2, <4>3, JudgedHonest, StoreLists
      <3> QED
        BY <2>3, <3>3, <3>4, <3>5 DEF Judge
    <2>4. CASE CaptureLast \/ CloseMachine
      <3>1. /\ pc \in Closing /\ up # << >> /\ Top = "bbc" /\ test' = test /\ report' = report
            /\ todo' = todo /\ seen' = seen
        BY <2>4 DEF CaptureLast, CloseMachine, Topmost, Top, body, StageInv, Closing
      <3>2. "evidence" \in Ups
        <4>1. "bbc" \in Ups
          BY <3>1, PlanIs DEF Top, Ups, StageInv
        <4> QED
          BY <4>1, BbcEvidence
      <3>3. CASE CaptureLast /\ pc' = "final" /\ Saved(LastCapture("final"))
        BY <3>1, <3>2, <3>3, StoreSaves DEF CaptureLast
      <3>4. CASE CaptureLast /\ pc' = "unread" /\ UNCHANGED store
        <4>1. Stops /\ up' = up
          BY <3>1, <3>4 DEF CaptureLast, Stops
        <4> QED
          BY <1>0, <3>1, <3>4, <4>1, StoreStill
      <3>5. CASE CloseMachine
        <4> DEFINE c == LastCapture(pc)
        <4>1. pc \in {"final", "unread"} /\ pc' = "teardown" /\ Noted(c)
          BY <3>5 DEF CloseMachine, TornDown
        <4>2. Honest(c) /\ c.by = test /\ c.of.op = pc
          BY <4>1, LastHonest
        <4>3. c.of.op # "unread" => InFile(running[1].files, Len(captures) + 1, c)
          BY <3>2, <4>1, <4>2 DEF StoreInv, Ahead_of
        <4> HIDE DEF c
        <4>4. report' # "none" => pc' \in Closing
          BY <4>1 DEF Closing
        <4> QED
          BY <3>1, <3>2, <4>1, <4>2, <4>3, <4>4, StoreLists
      <3> QED
        BY <2>4, <3>3, <3>4, <3>5 DEF CaptureLast
    <2>5. CASE CloseEvidence
      BY <2>5, StoreFinishes
    <2>6. CASE End \/ Kill
      BY <2>6, StoreForgets DEF End, Kill, Forgotten
    <2>7. CASE \/ FindService \/ ServiceScript \/ PollService \/ MakeRunDir \/ Prepare
               \/ ImageScript \/ PollFirmware \/ Launch \/ AwaitBoot \/ StartDevice
      <3>1. UNCHANGED <<store, report>> /\ pc' \notin {"idle", "picture", "final"}
        BY <2>7 DEF FindService, ServiceScript, PollService, MakeRunDir, Prepare, Started,
           ImageScript, PollFirmware, Launch, AwaitBoot, StartDevice, Due, SetUp, NotSetUp,
           Await, body
      <3>2. "evidence" \in Ups' => "evidence" \in Ups
        <4>1. CASE up' = up
          BY <1>0, <4>1
        <4>2. CASE Len(up) < Len(plan) /\ SetUp /\ DueNext # "evidence"
          BY <4>2, OneUp
        <4>3. up' = up \/ (Len(up) < Len(plan) /\ SetUp /\ DueNext # "evidence")
          <5>1. CASE FindService \/ Launch \/ StartDevice
            BY <5>1 DEF FindService, Launch, StartDevice, Due, Due_is, NotSetUp, Await, DueNext
          <5>2. CASE \/ ServiceScript \/ MakeRunDir \/ Prepare \/ ImageScript
            BY <5>2 DEF ServiceScript, MakeRunDir, Prepare, ImageScript, Started, NotSetUp, Await
          <5>3. CASE PollService \/ PollFirmware \/ AwaitBoot
            <6>1. Len(up) < Len(plan) /\ DueNext # "evidence"
              BY <5>3 DEF PollService, PollFirmware, AwaitBoot, StageInv, SettingUp, FW
            <6> QED
              BY <5>3, <6>1 DEF PollService, PollFirmware, AwaitBoot, NotSetUp
          <5> QED
            BY <2>7, <5>1, <5>2, <5>3
        <4> QED
          BY <4>1, <4>2, <4>3
      <3>3. ~Ends
        BY <3>1 DEF Ends
      <3> QED
        BY <2>1, <3>1, <3>2, <3>3, StoreStill
    <2>8. CASE \/ Begin \/ Run \/ Type \/ Check \/ AskLog \/ Look \/ Returns \/ NeverReturns
               \/ wait_for_log \/ NextStep \/ Pass \/ StopFirmware \/ AwaitEnd
               \/ Deadline \/ Firmware \/ Service \/ Machine
      <3>1. UNCHANGED <<store, up>> /\ (report' = report \/ pc' = "teardown")
        BY <2>8 DEF Begin, Run, Type, Check, AskLog, Look, Returns, NeverReturns, wait_for_log,
           NextStep, Pass, StopFirmware, AwaitEnd, Deadline, Firmware, Service, Machine, body,
           NextItem, Ended, Await
      <3>2. ~Ends \/ Stays
        BY <2>8 DEF Begin, Run, Type, Check, AskLog, Look, Returns, NeverReturns, wait_for_log,
           NextStep, Pass, StopFirmware, AwaitEnd, Deadline, Firmware, Service, Machine,
           NextItem, Ended, Await, Ends, Stays
      <3>3. "teardown" \in Closing
        BY DEF Closing
      <3>4. pc' \in {"picture", "final"} => UNCHANGED <<pc, todo, seen>>
        BY <2>8 DEF Begin, Run, Type, Check, AskLog, Look, Returns, NeverReturns, wait_for_log,
           NextStep, Pass, StopFirmware, AwaitEnd, Deadline, Firmware, Service, Machine,
           NextItem, Ended, Await, body
      <3> QED
        BY <1>0, <2>1, <3>1, <3>2, <3>3, <3>4, StoreStill
    <2>9. CASE LetGo \/ RemoveRunDir
      <3>1. UNCHANGED <<store, report>> /\ up # << >> /\ TornDown("teardown") /\ pc' = "teardown"
        BY <2>9 DEF LetGo, RemoveRunDir, Topmost, TornDown, body, StageInv
      <3>2. "evidence" \in Ups' => "evidence" \in Ups
        BY <3>1, OneDown
      <3>3. ~Ends
        BY <3>1 DEF Ends
      <3> QED
        BY <2>1, <3>1, <3>2, <3>3, StoreStill
    <2> QED
      BY <1>2, <2>2, <2>3, <2>4, <2>5, <2>6, <2>7, <2>8, <2>9 DEF Session, Harness, Scripts
  <1> QED
    BY <1>1, <1>2, <1>3 DEF TestNext

LEMMA EvidenceHolds == TestSpec => [](StageInv /\ StoreInv /\ BodyInv)
PROOF
  <1>1. TestInit => StoreInv /\ BodyInv
    BY StoreFirst, BodyFirst
  <1>2. StageInv /\ StoreInv /\ BodyInv /\ [TestNext]_testVars => StoreInv' /\ BodyInv'
    BY StoreNext, BodyNext
  <1> QED
    BY <1>1, <1>2, TestStages, PTL DEF TestSpec

\* The evidence of a finished test is what it says it is, whatever the suite,
\* the programs and the machine, and wherever runs before it were killed: what
\* it counts is its own, a check is filed with the screen it judged, and a test
\* that passed has all of them (evidence.py, yaml_runner.py).
THEOREM EvidenceIsProof == TestSpec => []EvidenceProves
PROOF
  <1>1. StoreInv => EvidenceProves
    <2> SUFFICES ASSUME StoreInv, NEW d \in kept
                 PROVE  /\ d.count > 0 =>
                             /\ d.count = Len(d.list)
                             /\ \A i \in DOMAIN d.list :
                                  /\ d.list[i].by = d.by
                                  /\ d.list[i].of.op # "unread" =>
                                       i \in DOMAIN d.files /\ d.files[i] = d.list[i]
                                  /\ d.list[i].of.op = "check" =>
                                       (d.list[i].met <=>
                                          Missing(d.list[i].screen, d.list[i].of.want) = {})
                        /\ d.status = "passed" =>
                             /\ d.count > 0
                             /\ [i \in 1..(Len(d.list) - 1) |-> d.list[i].of] \in AsWritten
                             /\ Last(d.list).of.op \in {"final", "unread"}
                             /\ \A i \in DOMAIN d.list : d.list[i].met
      BY DEF EvidenceProves
    <2>1. Proves(d)
      BY DEF StoreInv
    <2>2. d.count > 0 => DOMAIN d.list = 1 .. Len(d.list)
      BY <2>1 DEF Proves, IsList
    <2>3. ASSUME d.count > 0, NEW i \in DOMAIN d.list
          PROVE  /\ d.list[i].by = d.by
                 /\ d.list[i].of.op # "unread" =>
                      i \in DOMAIN d.files /\ d.files[i] = d.list[i]
                 /\ d.list[i].of.op = "check" =>
                      (d.list[i].met <=> Missing(d.list[i].screen, d.list[i].of.want) = {})
      BY <2>1, <2>2, <2>3 DEF Proves, Filed, InFile, Honest
    <2>4. d.status = "passed" => d.count > 0 /\ WholeStory(d.list)
      BY <2>1 DEF Proves
    <2> QED
      BY <2>1, <2>2, <2>3, <2>4 DEF Proves, WholeStory
  <1> QED
    BY <1>1, EvidenceHolds, PTL

\* No directory of a finished test is changed or lost, whatever is killed in
\* between (evidence.py, _unique_path).
THEOREM EvidenceIsKept == TestSpec => EvidenceKept
PROOF
  <1>1. StageInv /\ StoreInv /\ BodyInv /\ [TestNext]_testVars => [kept \subseteq kept']_kept
    <2> SUFFICES ASSUME StageInv, StoreInv, [TestNext]_testVars, kept' # kept
                 PROVE  kept \subseteq kept'
      OBVIOUS
    <2>1. CloseEvidence
      <3>1. ~UNCHANGED testVars
        BY DEF testVars, store
      <3>2. ~Configure /\ ~Begin
        BY DEF Configure, Begin, store
      <3>3. ~(FindService \/ ServiceScript \/ PollService \/ MakeRunDir \/ Prepare
             \/ ImageScript \/ PollFirmware \/ OpenEvidence \/ Launch \/ AwaitBoot
             \/ StartDevice)
        BY DEF FindService, ServiceScript, PollService, MakeRunDir, Prepare, ImageScript,
           PollFirmware, OpenEvidence, Launch, AwaitBoot, StartDevice, store
      <3>4. ~(Run \/ Type \/ Returns \/ NeverReturns \/ Check \/ Look \/ Judge \/ Record \/ AskLog
               \/ wait_for_log \/ NextStep \/ Pass)
        BY DEF Run, Type, Returns, NeverReturns, Check, Look, Judge, Record, AskLog,
           wait_for_log, NextStep, Pass, store, Saved, Noted
      <3>5. ~(LetGo \/ CaptureLast \/ CloseMachine \/ StopFirmware \/ AwaitEnd \/ RemoveRunDir
             \/ End)
        BY DEF LetGo, CaptureLast, CloseMachine, StopFirmware, AwaitEnd, RemoveRunDir, End,
           store, Saved, Noted
      <3>6. ~(Deadline \/ Firmware \/ Service \/ Machine \/ Kill)
        BY DEF Deadline, Firmware, Service, Machine, Kill, store
      <3> QED
        BY <3>1, <3>2, <3>3, <3>4, <3>5, <3>6 DEF TestNext, Session, Harness, Scripts
    <2>2. /\ pc = "teardown" /\ up # << >> /\ TornDown("teardown") /\ Top = "evidence"
      BY <2>1 DEF CloseEvidence, Topmost, Top
    <2>3. test > 0 /\ "evidence" \in Ups
      BY <2>2, OneDown, PlanAssumption DEF StageInv, Active, Closing
    <2>4. \E status : Finish(status)
      BY <2>1 DEF CloseEvidence
    <2> QED
      BY <2>3, <2>4, FinishAdds
  <1> QED
    BY <1>1, EvidenceHolds, PTL DEF EvidenceKept, TestSpec

----------------------------------------------------------------------------
(* A command that was waited for.                                          *)

Cells == [prompt : BOOLEAN, text : {""} \cup Texts \cup STRING]

Typed == screen \in Seq(Cells) /\ keys \in Seq(Texts)

\* No prompt follows the echo of the line t, and nothing is asked.
Quiet(t) ==
  /\ ~AwaitsConfirmation
  /\ \A i, j \in 1 .. Len(screen) : i \in EchoRows(t) /\ i < j => ~screen[j].prompt

\* The machine has the line t still to read, runs it or has run it; or it is
\* done with it.
Runs(t) ==
  \/ mach = "idle" /\ keys = <<t>> /\ EchoRows(t) = {} /\ ~AwaitsConfirmation
  \/ mach \in {t, "ends"} /\ keys = << >> /\ Quiet(t)

IsDone == mach \in {"asks", "idle"} /\ keys = << >>

SureInv ==
  sure => /\ pc = "command" /\ Item.text \in Texts \ Clears
          /\ Runs(Item.text) \/ IsDone

\* What is left of the rows on the screen are the last of them.
LEMMA ScrolledIs ==
  ASSUME NEW shown \in Seq(Cells)
  PROVE  /\ ScrolledTo(shown) \in Seq(Cells)
         /\ \E d \in Nat : \A i \in 1 .. Len(ScrolledTo(shown)) :
              i + d \in 1 .. Len(shown) /\ ScrolledTo(shown)[i] = shown[i + d]
PROOF
  <1> DEFINE n == Len(shown)
             first == {1, n - Rows + 1}
             m == Max(first)
             s == SubSeq(shown, m, n)
  <1>1. n \in Nat /\ Rows \in Nat \ {0}
    BY ScreenAssumption
  <1>2. m \in 1 .. n + 1
    <2>1. \E x \in first : \A y \in first : x >= y
      BY <1>1
    <2>2. m \in first /\ \A y \in first : m >= y
      BY <2>1 DEF Max
    <2> QED
      BY <1>1, <2>2
  <1> HIDE DEF m, n
  <1>3. /\ s \in Seq(Cells) /\ Len(s) \in Nat /\ Len(s) = n - m + 1
        /\ \A i \in 1 .. Len(s) : s[i] = shown[m + i - 1]
    <2>1. \A i \in m .. n : shown[i] \in Cells
      BY <1>1, <1>2 DEF n
    <2> QED
      BY <1>1, <1>2, <2>1, SubSeqProperties DEF n
  <1>4. \A i \in 1 .. Len(s) : i + (m - 1) \in 1 .. n /\ m + i - 1 = i + (m - 1)
    BY <1>1, <1>2, <1>3
  <1>5. m - 1 \in Nat
    BY <1>1, <1>2
  <1>6. ScrolledTo(shown) = s
    BY DEF ScrolledTo, m, n
  <1> HIDE DEF s
  <1>7. \A i \in 1 .. Len(s) : i + (m - 1) \in 1 .. n /\ s[i] = shown[i + (m - 1)]
    BY <1>3, <1>4
  <1> QED
    BY <1>3, <1>5, <1>6, <1>7 DEF n

\* A line to type is one that the machine is told of.
LEMMA TypesText ==
  ASSUME BodyInv, Doing("type")
  PROVE  Item.text \in Texts
PROOF
  <1>1. At("type") /\ pc \in InBody
    BY DEF Doing, At, InBody
  <1>2. "bbc" \in Ups
    BY <1>1, LogOps DEF BodyInv
  <1>3. PICK w, f, k : Course(w, f, k)
    BY <1>1, <1>2 DEF BodyInv
  <1>4. PICK y : Splits(Head(todo), y)
    BY <1>1, <1>3 DEF Course, At
  <1> QED
    BY <1>1, <1>4, SplitType DEF At, Item

LEMMA OutputsAre ==
  ASSUME NEW reply \in Seq(STRING), NEW out, out = [i \in DOMAIN reply |-> Output(reply[i])]
  PROVE  /\ out \in Seq(Cells) /\ Len(out) = Len(reply) /\ Len(reply) \in Nat
         /\ DOMAIN reply = 1 .. Len(reply)
         /\ \A i \in 1 .. Len(reply) : ~out[i].prompt /\ out[i].text = reply[i]
PROOF
  <1>1. DOMAIN reply = 1 .. Len(reply) /\ Len(reply) \in Nat
        /\ \A i \in 1 .. Len(reply) : reply[i] \in STRING
    OBVIOUS
  <1>2. ASSUME NEW o \in STRING
        PROVE  Output(o) \in Cells /\ ~Output(o).prompt /\ Output(o).text = o
    <2>1. o \in {""} \cup Texts \cup STRING
      OBVIOUS
    <2> DEFINE T == {""} \cup Texts \cup STRING
    <2>2. Cells = [prompt : BOOLEAN, text : T] /\ o \in T
      BY <2>1 DEF Cells
    <2> HIDE DEF T
    <2> QED
      BY <2>2 DEF Output
  <1>3. \A i \in 1 .. Len(reply) : out[i] \in Cells /\ ~out[i].prompt /\ out[i].text = reply[i]
    BY <1>1, <1>2
  <1>4. out = [i \in 1 .. Len(reply) |-> out[i]]
    BY <1>1
  <1>5. out \in [1 .. Len(reply) -> Cells]
    BY <1>3, <1>4
  <1>6. out \in Seq(Cells) /\ Len(out) = Len(reply)
    BY <1>1, <1>5
  <1> QED
    BY <1>1, <1>3, <1>6

\* What the machine does leaves rows on the screen and lines to read.
LEMMA TypedMachine ==
  ASSUME Typed, MachineNext
  PROVE  Typed'
PROOF
  <1>1. CASE Boots
    <2>1. Prompt \in Cells
      BY DEF Prompt, Cells
    <2> QED
      BY <1>1, <2>1 DEF Boots, Typed
  <1>2. CASE ReadsLine
    <2>1. Head(keys) \in Texts /\ Tail(keys) \in Seq(Texts)
      BY <1>2 DEF ReadsLine, Typed
    <2>2. screen' \in Seq(Cells)
      <3> DEFINE n == Len(screen)
                 x == [screen[n] EXCEPT !.text = Head(keys)]
      <3>0. n \in Nat /\ DOMAIN screen = 1 .. n
        BY DEF Typed
      <3>1. screen' = [screen EXCEPT ![n] = x]
        BY <1>2 DEF ReadsLine
      <3>2. n \in 1 .. n => x \in Cells
        <4> SUFFICES ASSUME n \in 1 .. n
                     PROVE  x \in Cells
          OBVIOUS
        <4>1. screen[n] \in Cells
          BY DEF Typed
        <4> QED
          BY <2>1, <4>1 DEF Cells
      <3> HIDE DEF x
      <3>3. ASSUME NEW i \in 1 .. n
            PROVE  screen'[i] \in Cells
        <4>1. screen[i] \in Cells
          BY DEF Typed
        <4>2. screen'[i] = IF i = n THEN x ELSE screen[i]
          BY <3>0, <3>1
        <4> QED
          BY <3>2, <4>1, <4>2
      <3>4. screen' = [i \in 1 .. n |-> screen'[i]]
        BY <3>0, <3>1
      <3> HIDE DEF n
      <3>5. screen' \in [1 .. n -> Cells]
        BY <3>3, <3>4
      <3> QED
        BY <3>0, <3>5
    <2> QED
      BY <1>2, <2>1, <2>2 DEF ReadsLine, Typed
  <1>3. CASE Prints
    <2>1. PICK reply \in Replies[mach] :
            screen' = ScrolledTo((IF mach \in Clears THEN << >> ELSE screen)
                                   \o [i \in DOMAIN reply |-> Output(reply[i])])
      BY <1>3 DEF Prints
    <2> DEFINE above == IF mach \in Clears THEN << >> ELSE screen
               out == [i \in DOMAIN reply |-> Output(reply[i])]
    <2>2. out \in Seq(Cells)
      <3>1. reply \in Seq(STRING)
        BY <1>3, <2>1, ScreenAssumption DEF Prints
      <3> QED
        BY <3>1, OutputsAre
    <2>3. above \in Seq(Cells)
      BY DEF Typed
    <2> HIDE DEF above, out
    <2>4. above \o out \in Seq(Cells)
      BY <2>2, <2>3
    <2>5. screen' = ScrolledTo(above \o out)
      BY <2>1 DEF above, out
    <2>6. screen' \in Seq(Cells)
      BY <2>4, <2>5, ScrolledIs
    <2> QED
      BY <1>3, <2>6 DEF Prints, Typed
  <1>4. CASE TakesAnswer
    BY <1>4 DEF TakesAnswer, Typed
  <1>5. CASE Prompts
    <2>1. Prompt \in Cells
      BY DEF Prompt, Cells
    <2>2. Append(screen, Prompt) \in Seq(Cells)
      BY <2>1 DEF Typed
    <2>3. screen' \in Seq(Cells)
      BY <1>5, <2>2, ScrolledIs DEF Prompts
    <2> QED
      BY <1>5, <2>3 DEF Prompts, Typed
  <1> QED
    BY <1>1, <1>2, <1>3, <1>4, <1>5 DEF MachineNext

\* A line that could not be mistaken is read, runs and ends, and nothing on
\* the screen says so before it has.
LEMMA RunsOn ==
  ASSUME Typed, NEW t \in Texts \ Clears, Runs(t) \/ IsDone, MachineNext
  PROVE  (Runs(t) \/ IsDone)'
PROOF
  <1>0. Texts \cap {Question, "off", "boot", "idle", "asks", "ends"} = {}
    BY ScreenAssumption
  <1>1. CASE IsDone
    BY <1>0, <1>1 DEF IsDone, MachineNext, Boots, ReadsLine, Prints, TakesAnswer, Prompts
  <1>2. CASE mach = "idle" /\ keys = <<t>> /\ EchoRows(t) = {} /\ ~AwaitsConfirmation
    <2>1. ReadsLine
      BY <1>0, <1>2 DEF MachineNext, Boots, Prints, TakesAnswer, Prompts
    <2> DEFINE n == Len(screen)
    <2>2. mach' = t /\ keys' = << >> /\ screen' = [screen EXCEPT ![n].text = t]
      BY <1>2, <2>1 DEF ReadsLine
    <2>3. n \in Nat /\ DOMAIN screen = 1 .. n /\ DOMAIN screen' = 1 .. n
          /\ Len(screen') = n
      BY <2>2 DEF Typed
    <2>4. \A i \in 1 .. n : i # n => screen'[i] = screen[i]
      BY <2>2, <2>3
    <2>5. n \in 1 .. n => screen'[n].text = t
      <3> SUFFICES ASSUME n \in 1 .. n
                   PROVE  screen'[n].text = t
        OBVIOUS
      <3>1. screen[n] \in Cells
        BY DEF Typed
      <3> QED
        BY <2>2, <2>3, <3>1 DEF Cells
    <2>6. ~AwaitsConfirmation'
      BY <1>0, <1>2, <2>3, <2>4, <2>5 DEF AwaitsConfirmation, Found
    <2>7. ASSUME NEW i \in 1 .. n, i # n
          PROVE  i \notin EchoRows(t)'
      BY <1>2, <2>3, <2>4, <2>7 DEF EchoRows
    <2> HIDE DEF n
    <2>8. ASSUME NEW i \in 1 .. n, NEW j \in 1 .. n, i \in EchoRows(t)', i < j
          PROVE  FALSE
      BY <2>3, <2>7, <2>8
    <2>9. Quiet(t)'
      BY <2>3, <2>6, <2>8 DEF Quiet
    <2> QED
      BY <2>2, <2>9 DEF Runs
  <1>3. CASE mach \in {t, "ends"} /\ keys = << >> /\ Quiet(t)
    <2>1. CASE Prints
      <3>1. mach = t
        BY <1>0, <1>3, <2>1 DEF Prints
      <3>2. PICK reply \in Replies[t] :
              /\ screen' = ScrolledTo(screen \o [i \in DOMAIN reply |-> Output(reply[i])])
              /\ mach' = IF \E i \in DOMAIN reply : reply[i] = Question THEN "asks" ELSE "ends"
        BY <2>1, <3>1 DEF Prints
      <3> DEFINE out == [i \in DOMAIN reply |-> Output(reply[i])]
                 shown == screen \o out
      <3>3. keys' = << >>
        BY <1>3, <2>1 DEF Prints
      <3>4. CASE \E i \in DOMAIN reply : reply[i] = Question
        BY <3>2, <3>3, <3>4 DEF IsDone
      <3>5. CASE ~\E i \in DOMAIN reply : reply[i] = Question
        <4>1. reply \in Seq(STRING)
          BY ScreenAssumption
        <4>2. /\ out \in Seq(Cells) /\ Len(out) = Len(reply) /\ Len(reply) \in Nat
              /\ DOMAIN reply = 1 .. Len(reply)
              /\ \A i \in 1 .. Len(reply) : ~out[i].prompt /\ out[i].text = reply[i]
          BY <4>1, OutputsAre
        <4>3. \A i \in 1 .. Len(out) : ~out[i].prompt /\ out[i].text # Question
          BY <3>5, <4>2
        <4> HIDE DEF out
        <4>4. /\ shown \in Seq(Cells) /\ Len(screen) \in Nat /\ Len(out) \in Nat
              /\ Len(shown) = Len(screen) + Len(out)
              /\ \A i \in 1 .. Len(shown) :
                   shown[i] = IF i <= Len(screen) THEN screen[i] ELSE out[i - Len(screen)]
          <5>1. screen \in Seq(Cells) /\ out \in Seq(Cells)
            BY <4>2 DEF Typed
          <5>2. shown \in Seq(Cells) /\ Len(shown) = Len(screen) + Len(out)
            BY <5>1, ConcatProperties
          <5>3. \A i \in 1 .. Len(screen) + Len(out) :
                  shown[i] = IF i <= Len(screen) THEN screen[i] ELSE out[i - Len(screen)]
            BY <5>1, ConcatProperties
          <5> HIDE DEF shown
          <5> QED
            BY <5>1, <5>2, <5>3
        <4>5. \A i \in 1 .. Len(shown) : shown[i].text # Question
          BY <1>3, <4>3, <4>4 DEF Quiet, AwaitsConfirmation, Found, Typed
        <4>6. \A i, j \in 1 .. Len(shown) :
                shown[i].prompt /\ shown[i].text \in Shows[t] /\ i < j => ~shown[j].prompt
          <5>1. \A i \in 1 .. Len(shown) :
                  shown[i].prompt => i \in 1 .. Len(screen) /\ shown[i] = screen[i]
            BY <4>3, <4>4
          <5>2. \A i \in 1 .. Len(screen) : screen[i].prompt /\ screen[i].text \in Shows[t] =>
                  i \in EchoRows(t)
            BY DEF EchoRows, Typed
          <5> QED
            BY <1>3, <5>1, <5>2 DEF Quiet
        <4> HIDE DEF shown
        <4>7. screen' = ScrolledTo(shown)
          BY <3>2 DEF shown, out
        <4>8. /\ screen' \in Seq(Cells)
              /\ \E d \in Nat : \A i \in 1 .. Len(screen') :
                   i + d \in 1 .. Len(shown) /\ screen'[i] = shown[i + d]
          BY <4>4, <4>7, ScrolledIs
        <4>9. PICK d \in Nat : \A i \in 1 .. Len(screen') :
                i + d \in 1 .. Len(shown) /\ screen'[i] = shown[i + d]
          BY <4>8
        <4>10. ~AwaitsConfirmation'
          BY <4>5, <4>8, <4>9 DEF AwaitsConfirmation, Found
        <4>11. ASSUME NEW i \in 1 .. Len(screen'), NEW j \in 1 .. Len(screen'),
                      i \in EchoRows(t)', i < j
               PROVE  ~screen'[j].prompt
          <5>1. screen'[i].prompt /\ screen'[i].text \in Shows[t]
            BY <4>11 DEF EchoRows
          <5>2. i + d \in 1 .. Len(shown) /\ j + d \in 1 .. Len(shown) /\ i + d < j + d
            BY <4>9, <4>11
          <5> QED
            BY <4>6, <4>9, <5>1, <5>2
        <4>12. Quiet(t)'
          BY <4>10, <4>11 DEF Quiet
        <4> QED
          BY <3>2, <3>3, <3>5, <4>12 DEF Runs
      <3> QED
        BY <3>4, <3>5
    <2>2. CASE Prompts
      BY <1>3, <2>2 DEF Prompts, IsDone
    <2>3. ~Boots /\ ~ReadsLine /\ ~TakesAnswer
      BY <1>0, <1>3 DEF Boots, ReadsLine, TakesAnswer
    <2> QED
      BY <2>1, <2>2, <2>3 DEF MachineNext
  <1> QED
    BY <1>1, <1>2, <1>3 DEF Runs

\* Until the machine is done the test does not take the command for over.
LEMMA NotOver ==
  ASSUME Typed, NEW t \in Texts \ Clears, Runs(t)
  PROVE  ~Ready(t) /\ ~AwaitsConfirmation
PROOF
  <1>1. ~ClearsOrReplacesEcho(t)
    BY DEF ClearsOrReplacesEcho
  <1>2. CASE EchoRows(t) = {} /\ ~AwaitsConfirmation
    BY <1>1, <1>2 DEF Ready, HasPromptAfterEcho
  <1>3. CASE Quiet(t)
    <2> SUFFICES ASSUME HasPromptAfterEcho(t)
                 PROVE  FALSE
      BY <1>1, <1>3 DEF Ready, Quiet
    <2> DEFINE echo == EchoRows(t)
    <2>1. DOMAIN screen = 1 .. Len(screen) /\ Len(screen) \in Nat
      BY DEF Typed
    <2>2. echo \subseteq 1 .. Len(screen) /\ echo # {}
      BY <2>1 DEF EchoRows, HasPromptAfterEcho
    <2>3. PICK j \in 1 .. Len(screen) : j > Min(echo) /\ screen[j].prompt
      BY <2>1 DEF HasPromptAfterEcho
    <2>4. echo \subseteq Nat
      BY <2>2
    <2> HIDE DEF echo
    <2>5. Min(echo) \in echo
      BY <2>2, <2>4, MinIs
    <2>6. Min(echo) \in 1 .. Len(screen) /\ Min(echo) < j
      BY <2>1, <2>2, <2>3, <2>5
    <2> QED
      BY <1>3, <2>3, <2>5, <2>6 DEF Quiet, echo
  <1> QED
    BY <1>2, <1>3 DEF Runs

LEMMA SureFirst ==
  ASSUME TestInit
  PROVE  Typed /\ SureInv
PROOF
  BY DEF TestInit, Typed, SureInv

LEMMA TypedNext ==
  ASSUME Typed, BodyInv, [TestNext]_testVars
  PROVE  Typed'
PROOF
  <1>1. CASE UNCHANGED <<screen, keys>>
    BY <1>1 DEF Typed
  <1>2. CASE screen' = << >> /\ keys' = << >>
    BY <1>2 DEF Typed
  <1>3. CASE Type
    <2>1. Item.text \in Texts
      BY <1>3, TypesText DEF Type
    <2>2. keys' = Append(keys, Item.text) /\ screen' = screen
      BY <1>3 DEF Type
    <2> QED
      BY <2>1, <2>2 DEF Typed
  <1>4. CASE Machine
    BY <1>4, TypedMachine DEF Machine
  <1>5. CASE Launch \/ AwaitBoot \/ CloseMachine \/ End \/ Kill
    BY <1>1, <1>2, <1>5 DEF Launch, AwaitBoot, CloseMachine, End, Kill, Forgotten, machine
  <1>6. CASE \/ Configure \/ UNCHANGED testVars \/ Begin \/ FindService \/ ServiceScript
             \/ PollService \/ MakeRunDir \/ Prepare \/ ImageScript \/ PollFirmware
             \/ OpenEvidence \/ StartDevice
    <2>1. UNCHANGED machine
      BY <1>6 DEF Configure, testVars, Begin, FindService, ServiceScript, PollService,
         MakeRunDir, Prepare, ImageScript, PollFirmware, OpenEvidence, StartDevice
    <2> QED
      BY <1>1, <2>1 DEF machine
  <1>7. CASE \/ Run \/ Returns \/ NeverReturns \/ Check \/ Look \/ Judge \/ Record \/ AskLog
             \/ wait_for_log \/ NextStep \/ Pass
    <2>1. UNCHANGED machine
      BY <1>7 DEF Run, Returns, NeverReturns, Check, Look, Judge, Record, AskLog, wait_for_log,
         NextStep, Pass
    <2> QED
      BY <1>1, <2>1 DEF machine
  <1>8. CASE \/ LetGo \/ CaptureLast \/ CloseEvidence \/ StopFirmware \/ AwaitEnd
             \/ RemoveRunDir \/ Deadline \/ Firmware \/ Service
    <2>1. UNCHANGED machine
      BY <1>8 DEF LetGo, CaptureLast, CloseEvidence, StopFirmware, AwaitEnd, RemoveRunDir,
         Deadline, Firmware, Service
    <2> QED
      BY <1>1, <2>1 DEF machine
  <1> QED
    BY <1>3, <1>4, <1>5, <1>6, <1>7, <1>8 DEF TestNext, Session, Harness, Scripts

LEMMA SureNext ==
  ASSUME Typed, BodyInv, SureInv, [TestNext]_testVars
  PROVE  SureInv'
PROOF
  <1>1. CASE ~sure'
    BY <1>1 DEF SureInv
  <1>2. CASE UNCHANGED <<pc, todo, machine, sure>>
    BY <1>2 DEF SureInv, Runs, IsDone, Quiet, AwaitsConfirmation, Found, EchoRows, Item, machine
  <1>3. CASE Type
    <2> SUFFICES ASSUME sure'
                 PROVE  SureInv'
      BY <1>1
    <2>1. PICK t : t = Item.text
      OBVIOUS
    <2>2. t \in Texts /\ Unmistakable(t)
      BY <1>3, <2>1, TypesText DEF Type
    <2>3. /\ t \notin Clears /\ EchoRows(t) = {} /\ ~AwaitsConfirmation /\ mach = "idle"
          /\ keys = << >>
      BY <2>2 DEF Unmistakable, ClearsOrReplacesEcho
    <2>4. /\ pc' = "command" /\ keys' = Append(keys, t) /\ UNCHANGED <<screen, mach, todo>>
      BY <1>3, <2>1 DEF Type, Await
    <2>5. keys' = <<t>> /\ Item' = Item
      BY <2>3, <2>4 DEF Item
    <2>6. EchoRows(t)' = {} /\ ~AwaitsConfirmation'
      BY <2>3, <2>4 DEF EchoRows, AwaitsConfirmation, Found
    <2>7. Runs(t)'
      BY <2>3, <2>4, <2>5, <2>6 DEF Runs
    <2>8. (Item.text)' = t
      BY <2>1, <2>5
    <2> QED
      BY <2>2, <2>3, <2>4, <2>7, <2>8 DEF SureInv, Runs, Quiet, EchoRows
  <1>4. CASE Machine
    <2> SUFFICES ASSUME sure'
                 PROVE  SureInv'
      BY <1>1
    <2>1. sure /\ pc' = pc /\ todo' = todo /\ MachineNext
      BY <1>4 DEF Machine, body
    <2>2. PICK t : t = Item.text
      OBVIOUS
    <2>3. pc = "command" /\ t \in Texts \ Clears /\ (Runs(t) \/ IsDone)
      BY <2>1, <2>2 DEF SureInv
    <2>4. (Runs(t) \/ IsDone)'
      BY <2>1, <2>3, RunsOn
    <2>5. (Item.text)' = t
      BY <2>1, <2>2 DEF Item
    <2> QED
      BY <2>1, <2>3, <2>4, <2>5 DEF SureInv, Runs, Quiet, EchoRows
  <1>5. CASE Configure \/ Begin \/ Deadline \/ Firmware \/ Service \/ UNCHANGED testVars
    <2>1. UNCHANGED <<todo, machine, sure>> /\ (pc' = pc \/ pc \in {"start", "idle"})
      BY <1>5 DEF Configure, Begin, Deadline, Firmware, Service, testVars, body
    <2> QED
      BY <1>1, <1>2, <2>1 DEF SureInv
  <1>6. CASE Returns \/ NeverReturns \/ End \/ Kill
    BY <1>1, <1>6 DEF Returns, NeverReturns, End, Kill, Forgotten
  <1>7. CASE \/ FindService \/ ServiceScript \/ PollService \/ MakeRunDir \/ Prepare
             \/ ImageScript \/ PollFirmware \/ OpenEvidence \/ Launch \/ AwaitBoot
             \/ StartDevice
    <2>1. pc # "command" /\ sure' = sure
      BY <1>7 DEF FindService, ServiceScript, PollService, MakeRunDir, Prepare, ImageScript,
         PollFirmware, OpenEvidence, Launch, AwaitBoot, StartDevice, Due, body
    <2> QED
      BY <1>1, <2>1 DEF SureInv
  <1>8. CASE Run \/ Check \/ Look \/ Judge \/ Record \/ AskLog \/ wait_for_log \/ NextStep \/ Pass
    <2>1. pc # "command" /\ sure' = sure
      BY <1>8 DEF Run, Check, Look, Judge, Record, AskLog, wait_for_log, NextStep, Pass, Doing,
         body
    <2> QED
      BY <1>1, <2>1 DEF SureInv
  <1>9. CASE \/ LetGo \/ CaptureLast \/ CloseMachine \/ CloseEvidence \/ StopFirmware
             \/ AwaitEnd \/ RemoveRunDir
    <2>1. pc # "command" /\ sure' = sure
      BY <1>9 DEF LetGo, CaptureLast, CloseMachine, CloseEvidence, StopFirmware, AwaitEnd,
         RemoveRunDir, Topmost, body
    <2> QED
      BY <1>1, <2>1 DEF SureInv
  <1> QED
    BY <1>3, <1>4, <1>5, <1>6, <1>7, <1>8, <1>9 DEF TestNext, Session, Harness, Scripts

\* A command that could not be mistaken when it was typed is over when the
\* test goes on, whatever the machine prints and however its screen scrolls
\* (helpers.py).
THEOREM CommandsAreDone == TestSpec => CommandsDone
PROOF
  <1> DEFINE Waited ==
        pc = "command" /\ pc' = "body" /\ sure => keys = << >> /\ mach \in {"idle", "asks"}
  <1>1. TestInit => Typed /\ SureInv
    BY SureFirst
  <1>2. BodyInv /\ Typed /\ SureInv /\ [TestNext]_testVars => Typed' /\ SureInv'
    BY TypedNext, SureNext
  <1>3. BodyInv /\ Typed /\ SureInv /\ [TestNext]_testVars => [Waited]_pc
    <2> SUFFICES ASSUME BodyInv, Typed, SureInv, [TestNext]_testVars,
                        pc = "command", pc' = "body", sure
                 PROVE  keys = << >> /\ mach \in {"idle", "asks"}
      OBVIOUS
    <2>1. Returns
      <3>1. ~(Configure \/ Begin \/ UNCHANGED testVars)
        BY DEF Configure, Begin, testVars
      <3>2. ~(FindService \/ ServiceScript \/ PollService \/ MakeRunDir \/ Prepare
             \/ ImageScript \/ PollFirmware \/ OpenEvidence \/ Launch \/ AwaitBoot
             \/ StartDevice)
        BY DEF FindService, ServiceScript, PollService, MakeRunDir, Prepare, ImageScript,
           PollFirmware, OpenEvidence, Launch, AwaitBoot, StartDevice, Due
      <3>3. ~(Run \/ Type \/ NeverReturns \/ Check \/ Look \/ Judge \/ Record \/ AskLog
               \/ wait_for_log \/ NextStep \/ Pass)
        BY DEF Run, Type, NeverReturns, Check, Look, Judge, Record, AskLog, wait_for_log,
           NextStep, Pass, Doing, Ended
      <3>4. ~(LetGo \/ CaptureLast \/ CloseMachine \/ CloseEvidence \/ StopFirmware \/ AwaitEnd
             \/ RemoveRunDir \/ End)
        BY DEF LetGo, CaptureLast, CloseMachine, CloseEvidence, StopFirmware, AwaitEnd,
           RemoveRunDir, End, Topmost
      <3>5. ~(Deadline \/ Firmware \/ Service \/ Machine \/ Kill)
        BY DEF Deadline, Firmware, Service, Machine, Kill, Forgotten
      <3> QED
        BY <3>1, <3>2, <3>3, <3>4, <3>5 DEF TestNext, Session, Harness, Scripts
    <2>2. Ready(Item.text) \/ AwaitsConfirmation
      BY <2>1 DEF Returns
    <2>3. PICK t : t = Item.text
      OBVIOUS
    <2>4. t \in Texts \ Clears /\ (Runs(t) \/ IsDone)
      BY <2>3 DEF SureInv
    <2>5. ~Runs(t)
      BY <2>2, <2>3, <2>4, NotOver
    <2> QED
      BY <2>4, <2>5 DEF IsDone
  <1> HIDE DEF Waited
  <1>4. TestSpec => [][Waited]_pc
    BY <1>1, <1>2, <1>3, EvidenceHolds, PTL DEF TestSpec
  <1> QED
    BY <1>4 DEF CommandsDone, Waited
=============================================================================
