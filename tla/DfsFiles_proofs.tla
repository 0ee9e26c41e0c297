--------------------------- MODULE DfsFiles_proofs ---------------------------
(***************************************************************************)
(* The inductive invariants of DfsFiles, action by action, and the theorems *)
(* that follow from them.  IInv is an invariant of CoreSpec only: the two   *)
(* operations left out of it, OSARGS &FF and the extension of a full file,  *)
(* break ChannelsReserved and NoOverlap.  NInv is what they keep as well:   *)
(* names, and what an operation may do to another's file.                   *)
(***************************************************************************)
EXTENDS DfsFiles, DfsCatalogue_proofs

\* Whether the copy may be used or not, an operation starts from the image's rows.
LEMMA CatIsDisk ==
  ASSUME IInv
  PROVE  Cat = disk
BY DEF IInv, CacheFresh, Cat

\* A step that leaves the image and the channels alone.
LEMMA QuietStep ==
  ASSUME IInv, UNCHANGED <<disk, chan>>, ram' \in Seq(Row), valid' \in BOOLEAN,
         valid' => ram' = disk'
  PROVE  IInv'
BY DEF IInv, CacheFresh, RowsSound, ChannelsSound

\* An error disowns the copy and leaves all else alone.
LEMMA FailStep ==
  ASSUME IInv, NEW rows \in Seq(Row), Fail(rows)
  PROVE  IInv'
BY QuietStep DEF Fail

\* An operation that only looked at the catalogue.
LEMMA LoadedStep ==
  ASSUME IInv, Loaded, UNCHANGED chan
  PROVE  IInv'
<1>1. ram' = disk /\ disk' = disk /\ valid' = TRUE
  BY CatIsDisk DEF Loaded
<1>2. disk \in Seq(Row)
  BY DEF IInv, RowsSound
<1>3. QED
  BY <1>1, <1>2, QuietStep

\* A step that writes the catalogue and leaves the channels alone.
LEMMA CommitStep ==
  ASSUME IInv, NEW rows, Commit(rows), UNCHANGED chan, RowsSound(rows, chan)
  PROVE  IInv'
<1>1. rows \in Seq(Row)
  BY DEF RowsSound
<1>2. RowsSound(disk', chan')
  BY DEF Commit
<1>3. ChannelsSound(chan')
  BY DEF IInv
<1>4. QED
  BY <1>1, <1>2, <1>3 DEF IInv, CacheFresh, Commit

\* An open file is in the catalogue.
LEMMA OpenHasName ==
  ASSUME IInv, NEW c \in DOMAIN chan
  PROVE  HasName(disk, chan[c].name) /\ IsOpen(chan[c].name)
BY DEF IInv, RowsSound, HoldsExtent, HasName, IsOpen

----------------------------------------------------------------------------
\* A file that is not open may go.
LEMMA WithoutSound ==
  ASSUME IInv, NEW n, ~Protected(disk, n)
  PROVE  RowsSound(WithoutRow(disk, n), chan)
<1>1. disk \in Seq(Row) /\ UniqueNames(disk) /\ WellFormed(disk)
  BY DEF IInv, RowsSound
<1>2. ASSUME NEW c \in DOMAIN chan
      PROVE  HoldsExtent(WithoutRow(disk, n), chan[c].name, chan[c].start, chan[c].alloc)
  <2>1. chan[c].name # n
    BY OpenHasName DEF Protected
  <2>2. HoldsExtent(disk, chan[c].name, chan[c].start, chan[c].alloc)
    BY DEF IInv, RowsSound
  <2>3. QED
    BY <1>1, <2>1, <2>2, WithoutRowIs
<1>3. QED
  BY <1>1, <1>2, WithoutRowIs DEF RowsSound

\* A name that is not there may be placed.
LEMMA PlacedSound ==
  ASSUME NEW rows, NEW ch, RowsSound(rows, ch), NEW n \in Names, NEW len \in Nat,
         ~HasName(rows, n), NEW y \in 0 .. Len(rows), FirstFit(rows, y, len)
  PROVE  RowsSound(Placed(rows, y, n, len), ch)
<1>1. rows \in Seq(Row) /\ UniqueNames(rows) /\ WellFormed(rows) /\ Fits(rows, y, len)
  BY DEF RowsSound, FirstFit
<1>2. Placed(rows, y, n, len) \in Seq(Row)
  BY <1>1, PlacedRows
<1>3. UniqueNames(Placed(rows, y, n, len)) /\ WellFormed(Placed(rows, y, n, len))
  BY <1>1, PlacedUnique, PlacedWellFormed
<1>4. \A c \in DOMAIN ch : HoldsExtent(Placed(rows, y, n, len),
                                       ch[c].name, ch[c].start, ch[c].alloc)
  BY <1>1, PlacedHolds DEF RowsSound
<1>5. QED
  BY <1>2, <1>3, <1>4 DEF RowsSound

\* OSFILE 0.
LEMMA SaveStep ==
  ASSUME IInv, NEW n \in Names, NEW len \in Lengths, Save(n, len)
  PROVE  IInv'
<1>1. Cat = disk /\ disk \in Seq(Row) /\ len \in Nat
  BY CatIsDisk, FilesAssumption DEF IInv, RowsSound
<1>2. CASE SaveRefused(n)
  BY <1>1, <1>2, FailStep DEF SaveRefused
<1>3. CASE SaveNoRoom(n, len)
  <2>1. WithoutRow(disk, n) \in Seq(Row) /\ Fail(WithoutRow(disk, n))
    BY <1>1, <1>3, WithoutRowIs DEF SaveNoRoom
  <2>2. QED
    BY <2>1, FailStep
<1>4. CASE SaveDone(n, len)
  <2> DEFINE rest == WithoutRow(disk, n)
  <2>1. ~Protected(disk, n) /\ UNCHANGED chan
    BY <1>1, <1>4 DEF SaveDone
  <2>2. PICK y \in 0 .. Len(rest) : FirstFit(rest, y, len) /\ Commit(Placed(rest, y, n, len))
    BY <1>1, <1>4 DEF SaveDone
  <2>3. RowsSound(rest, chan)
    BY <2>1, WithoutSound
  <2>4. ~HasName(rest, n)
    BY <1>1, WithoutRowIs DEF IInv, RowsSound
  <2> HIDE DEF rest
  <2>5. RowsSound(Placed(rest, y, n, len), chan)
    BY <1>1, <2>2, <2>3, <2>4, PlacedSound
  <2>6. QED
    BY <2>1, <2>2, <2>5, CommitStep
<1>5. QED
  BY <1>2, <1>3, <1>4 DEF Save

----------------------------------------------------------------------------
(* OSFIND.                                                                 *)

\* The channel block of a row has its type, and its EXT fits its sectors.
LEMMA NewBlockIs ==
  ASSUME NEW row \in Row, NEW op
  PROVE  /\ NewBlock(row, op) \in Block
         /\ NewBlock(row, op).name = row.name
         /\ NewBlock(row, op).start = row.start
         /\ NewBlock(row, op).alloc = SectorsOf(row.len)
         /\ SectorsOf(NewBlock(row, op).ext) <= SectorsOf(row.len)
         /\ NewBlock(row, op).ro <=> op = "in"
         /\ op = "in" => SectorsOf(NewBlock(row, op).ext) = SectorsOf(row.len)
<1>1. /\ row.name \in Names /\ row.start \in Nat /\ row.len \in Nat
      /\ row.locked \in BOOLEAN
  BY DEF Row
<1>2. SectorsOf(row.len) \in Nat /\ SectorsOf(0) \in Nat /\ SectorsOf(0) <= SectorsOf(row.len)
  BY <1>1, SectorsNat, SectorsMonotone
<1>3. NewBlock(row, op) \in Block
  BY <1>1, <1>2 DEF NewBlock, Block
<1>4. NewBlock(row, op).ext = IF op = "out" THEN 0 ELSE row.len
  BY DEF NewBlock
<1>5. /\ NewBlock(row, op).name = row.name
      /\ NewBlock(row, op).start = row.start
      /\ NewBlock(row, op).alloc = SectorsOf(row.len)
      /\ NewBlock(row, op).ro <=> op = "in"
  BY DEF NewBlock
<1>6. QED
  BY <1>2, <1>3, <1>4, <1>5

\* Opening a channel on a row of a catalogue that is sound for the others.
LEMMA OpenStep ==
  ASSUME IInv, NEW rows, RowsSound(rows, chan), NEW n \in Names, HasName(rows, n),
         NEW op, ~OpenClash(n, op), Open(rows, n, op),
         disk' = rows, ram' = rows, valid' = TRUE
  PROVE  IInv'
<1> DEFINE row == rows[RowOf(rows, n)]
           b == NewBlock(row, op)
<1>1. RowOf(rows, n) \in DOMAIN rows /\ row.name = n
  BY RowOfIs
<1>2. row \in Row /\ rows \in Seq(Row)
  BY <1>1 DEF RowsSound
<1>3. PICK c \in Channels : LowestFree(c) /\ chan' = Opened(c, b)
  BY DEF Open
<1>4. /\ b \in Block /\ b.name = n /\ b.start = row.start
      /\ b.alloc = SectorsOf(row.len)
      /\ SectorsOf(b.ext) <= b.alloc
      /\ b.ro <=> op = "in"
      /\ b.ro => SectorsOf(b.ext) = b.alloc
  BY <1>1, <1>2, NewBlockIs
<1>5. HoldsExtent(rows, b.name, b.start, b.alloc)
  BY <1>1, <1>4 DEF HoldsExtent
<1> HIDE DEF b, row
<1>6. /\ DOMAIN chan' = DOMAIN chan \cup {c} /\ c \notin DOMAIN chan
      /\ chan'[c] = b /\ \A d \in DOMAIN chan : chan'[d] = chan[d]
  BY <1>3 DEF Opened, LowestFree
<1>7. RowsSound(disk', chan')
  BY <1>5, <1>6 DEF RowsSound
<1>8. \A d \in DOMAIN chan : chan[d].name = n => chan[d].ro /\ op = "in"
  BY DEF OpenClash
<1>9. ChannelsSound(chan')
  <2>1. DOMAIN chan' \subseteq Channels
    BY <1>6 DEF IInv, ChannelsSound
  <2>2. ASSUME NEW d \in DOMAIN chan'
        PROVE  /\ chan'[d] \in Block
               /\ SectorsOf(chan'[d].ext) <= chan'[d].alloc
               /\ chan'[d].ro => SectorsOf(chan'[d].ext) = chan'[d].alloc
    BY <1>4, <1>6 DEF IInv, ChannelsSound
  <2>3. ASSUME NEW d \in DOMAIN chan', NEW e \in DOMAIN chan', d # e,
               chan'[d].name = chan'[e].name
        PROVE  chan'[d].ro /\ chan'[e].ro
    BY <1>4, <1>6, <1>8, <2>3 DEF IInv, ChannelsSound
  <2>4. QED
    BY <2>1, <2>2, <2>3 DEF ChannelsSound
<1>10. QED
  BY <1>2, <1>7, <1>9 DEF IInv, CacheFresh

\* OPENIN and OPENUP.
LEMMA OpenOldStep ==
  ASSUME IInv, NEW n \in Names, NEW op, OpenOld(n, op)
  PROVE  IInv'
<1>1. Cat = disk /\ disk \in Seq(Row) /\ RowsSound(disk, chan)
  BY CatIsDisk DEF IInv, RowsSound
<1>2. CASE Loaded /\ UNCHANGED chan
  BY <1>2, LoadedStep
<1>3. CASE Fail(Cat)
  BY <1>1, <1>3, FailStep
<1>4. CASE HasName(Cat, n) /\ ~OpenClash(n, op) /\ Open(Cat, n, op) /\ Loaded
  <2>1. disk' = disk /\ ram' = disk /\ valid' = TRUE
    BY <1>1, <1>4 DEF Loaded
  <2>2. QED
    BY <1>1, <1>4, <2>1, OpenStep
<1>5. QED
  BY <1>2, <1>3, <1>4 DEF OpenOld

\* OPENOUT, of a file that exists and of one that does not.
LEMMA OpenOutStep ==
  ASSUME IInv, NEW n \in Names, OpenOut(n)
  PROVE  IInv'
<1>1. Cat = disk /\ disk \in Seq(Row) /\ RowsSound(disk, chan)
  BY CatIsDisk DEF IInv, RowsSound
<1>2. CASE Fail(Cat)
  BY <1>1, <1>2, FailStep
<1>3. CASE HasName(Cat, n) /\ ~OpenClash(n, "out") /\ Open(Cat, n, "out") /\ Loaded
  <2>1. disk' = disk /\ ram' = disk /\ valid' = TRUE
    BY <1>1, <1>3 DEF Loaded
  <2>2. QED
    BY <1>1, <1>3, <2>1, OpenStep
<1>4. ASSUME ~HasName(Cat, n), NEW y \in 0 .. Len(Cat),
             FirstFit(Cat, y, PreAlloc * SectorSize),
             \/ /\ Open(Placed(Cat, y, n, PreAlloc * SectorSize), n, "out")
                /\ Commit(Placed(Cat, y, n, PreAlloc * SectorSize))
             \/ /\ disk' = Placed(Cat, y, n, PreAlloc * SectorSize)
                /\ ram' = Placed(Cat, y, n, PreAlloc * SectorSize)
                /\ valid' = FALSE /\ UNCHANGED chan
      PROVE  IInv'
  <2> DEFINE len == PreAlloc * SectorSize
             rows == Placed(disk, y, n, len)
  <2>1. len \in Nat
    BY FilesAssumption, CatalogueAssumption
  <2> HIDE DEF len
  <2>2. RowsSound(rows, chan)
    BY <1>1, <1>4, <2>1, PlacedSound DEF len
  <2>3. HasName(rows, n)
    <3>1. y + 1 \in DOMAIN rows /\ rows[y + 1] = NewRow(disk, y, n, len)
      BY <1>1, <1>4, <2>1, PlacedHolds
    <3>2. NewRow(disk, y, n, len).name = n
      BY DEF NewRow
    <3>3. QED
      BY <3>1, <3>2 DEF HasName
  <2>4. ~OpenClash(n, "out")
    BY <1>1, <1>4, OpenHasName DEF OpenClash
  <2>5. \/ Open(rows, n, "out") /\ Commit(rows)
        \/ disk' = rows /\ ram' = rows /\ valid' = FALSE /\ UNCHANGED chan
    BY <1>1, <1>4 DEF len
  <2> HIDE DEF rows
  <2>6. CASE Open(rows, n, "out") /\ Commit(rows)
    BY <2>2, <2>3, <2>4, <2>6, OpenStep DEF Commit
  <2>7. CASE disk' = rows /\ ram' = rows /\ valid' = FALSE /\ UNCHANGED chan
    <3>1. RowsSound(disk', chan') /\ ram' \in Seq(Row)
      BY <2>2, <2>7 DEF RowsSound
    <3>2. QED
      BY <2>7, <3>1 DEF IInv, CacheFresh, ChannelsSound
  <2>8. QED
    BY <2>5, <2>6, <2>7
<1>5. QED
  BY <1>2, <1>3, <1>4 DEF OpenOut, OpenOutOld, OpenOutNew

\* The channels that are left.
LEMMA ClosedIs ==
  ASSUME ChannelsSound(chan), NEW c \in DOMAIN chan
  PROVE  /\ DOMAIN Closed(c) = DOMAIN chan \ {c}
         /\ \A d \in DOMAIN Closed(c) : Closed(c)[d] = chan[d]
         /\ ChannelsSound(Closed(c))
<1>1. /\ DOMAIN Closed(c) = DOMAIN chan \ {c}
      /\ \A d \in DOMAIN Closed(c) : Closed(c)[d] = chan[d]
  BY DEF Closed
<1>2. QED
  BY <1>1 DEF ChannelsSound

\* Writing EXT as the length of the row: the row shrinks, and the readers
\* that may still be open on the file keep their sectors.
LEMMA ResizedSound ==
  ASSUME IInv, NEW c \in DOMAIN chan
  PROVE  RowsSound(Resized(disk, chan[c].name, chan[c].ext), Closed(c))
<1> DEFINE b == chan[c]
           now == Resized(disk, b.name, b.ext)
           k == RowOf(disk, b.name)
<1>1. disk \in Seq(Row) /\ UniqueNames(disk) /\ WellFormed(disk)
  BY DEF IInv, RowsSound
<1>2. HasName(disk, b.name) /\ b.ext \in Nat /\ SectorsOf(b.ext) <= b.alloc
  BY OpenHasName DEF IInv, ChannelsSound, Block
<1>3. k \in DOMAIN disk /\ disk[k].name = b.name
  BY <1>2, RowOfIs
<1>4. SectorsOf(disk[k].len) = b.alloc
  BY <1>1, <1>3 DEF IInv, RowsSound, HoldsExtent, UniqueNames
<1>5. /\ now \in Seq(Row) /\ Len(now) = Len(disk)
      /\ \A i \in DOMAIN disk : /\ now[i].name = disk[i].name
                                /\ now[i].start = disk[i].start
                                /\ now[i].len = IF i = k THEN b.ext ELSE disk[i].len
  BY <1>1, <1>2, ResizedIs
<1> HIDE DEF b, now, k
<1>6. \A i \in DOMAIN disk : SectorsOf(now[i].len) <= SectorsOf(disk[i].len)
  <2>1. ASSUME NEW i \in DOMAIN disk, i # k
        PROVE  SectorsOf(now[i].len) <= SectorsOf(disk[i].len)
    BY <1>1, <1>5, <2>1, RowTypes
  <2>2. SectorsOf(now[k].len) <= SectorsOf(disk[k].len)
    BY <1>2, <1>3, <1>4, <1>5
  <2>3. QED
    BY <2>1, <2>2
<1>7. WellFormed(now)
  BY <1>1, <1>5, <1>6, InPlace
<1>8. DOMAIN now = DOMAIN disk
  BY <1>1, <1>5
<1>9. UniqueNames(now)
  BY <1>1, <1>5, <1>8 DEF UniqueNames
<1>10. ASSUME NEW d \in DOMAIN Closed(c)
       PROVE  HoldsExtent(now, Closed(c)[d].name, Closed(c)[d].start, Closed(c)[d].alloc)
  <2>1. d \in DOMAIN chan /\ d # c /\ Closed(c)[d] = chan[d]
    BY DEF Closed
  <2>2. PICK i \in DOMAIN disk : /\ disk[i].name = chan[d].name
                                /\ disk[i].start = chan[d].start
                                /\ SectorsOf(disk[i].len) = chan[d].alloc
    BY <2>1 DEF IInv, RowsSound, HoldsExtent
  <2>3. CASE i # k
    BY <1>5, <1>8, <2>1, <2>2, <2>3 DEF HoldsExtent
  <2>4. CASE i = k
    <3>1. b.ro
      BY <1>3, <2>1, <2>2, <2>4 DEF IInv, ChannelsSound, b
    <3>2. SectorsOf(b.ext) = b.alloc
      BY <3>1 DEF IInv, ChannelsSound, b
    <3>3. SectorsOf(now[i].len) = chan[d].alloc
      BY <1>4, <1>5, <2>2, <2>4, <3>2
    <3>4. QED
      BY <1>5, <1>8, <2>1, <2>2, <3>3 DEF HoldsExtent
  <2>5. QED
    BY <2>3, <2>4
<1>11. QED
  BY <1>5, <1>7, <1>9, <1>10 DEF RowsSound, now, b

\* OSFIND 0.
LEMMA CloseStep ==
  ASSUME IInv, NEW c \in DOMAIN chan, Close(c)
  PROVE  IInv'
<1> DEFINE b == chan[c]
<1>1. /\ Cat = disk /\ disk \in Seq(Row) /\ RowsSound(disk, chan)
      /\ ram \in Seq(Row) /\ valid \in BOOLEAN /\ (valid => ram = disk)
  BY CatIsDisk DEF IInv, RowsSound, CacheFresh
<1>2. /\ chan' = Closed(c) /\ ChannelsSound(chan')
      /\ DOMAIN chan' = DOMAIN chan \ {c}
      /\ \A d \in DOMAIN chan' : chan'[d] = chan[d]
  BY ClosedIs DEF IInv, Close
<1>3. RowsSound(disk, chan')
  BY <1>1, <1>2 DEF RowsSound
<1>4. PICK dirty \in BOOLEAN : CloseCatalogue(b, dirty) \/ CloseLost(b, dirty)
  BY DEF Close
<1>5. CASE UNCHANGED <<disk, ram, valid>>
  BY <1>1, <1>2, <1>3, <1>5 DEF IInv, CacheFresh
<1>6. CASE Loaded
  BY <1>1, <1>2, <1>3, <1>6 DEF IInv, CacheFresh, Loaded
<1>7. CASE Commit(Resized(Cat, b.name, b.ext))
  <2>1. RowsSound(Resized(disk, b.name, b.ext), chan')
    BY <1>2, ResizedSound
  <2>2. QED
    BY <1>1, <1>2, <1>7, <2>1 DEF IInv, CacheFresh, Commit, RowsSound
<1>8. CASE CloseLost(b, dirty)
  BY <1>1, <1>8, OpenHasName DEF CloseLost
<1>9. QED
  BY <1>4, <1>5, <1>6, <1>7, <1>8 DEF CloseCatalogue

----------------------------------------------------------------------------
(* Writing through a channel.                                              *)

\* A channel block changed within the sectors its row already has.
LEMMA BlockStep ==
  ASSUME IInv, NEW c \in DOMAIN chan, NEW b \in Block,
         b.name = chan[c].name, b.start = chan[c].start,
         b.alloc = chan[c].alloc, b.ro = chan[c].ro,
         SectorsOf(b.ext) <= b.alloc, b.ro => SectorsOf(b.ext) = b.alloc,
         chan' = [chan EXCEPT ![c] = b], UNCHANGED <<disk, ram, valid>>
  PROVE  IInv'
<1>1. /\ DOMAIN chan' = DOMAIN chan /\ chan'[c] = b
      /\ \A d \in DOMAIN chan : d # c => chan'[d] = chan[d]
  OBVIOUS
<1>2. RowsSound(disk', chan')
  BY <1>1 DEF IInv, RowsSound
<1>3. ChannelsSound(chan')
  BY <1>1 DEF IInv, ChannelsSound
<1>4. QED
  BY <1>2, <1>3 DEF IInv, CacheFresh

\* OSBPUT within the sectors the file has.
LEMMA BputStep ==
  ASSUME IInv, NEW c \in DOMAIN chan, Bput(c)
  PROVE  IInv'
<1>0. CASE BputRefused
  <2>1. ram \in Seq(Row)
    BY DEF IInv
  <2>2. QED
    BY <1>0, <2>1, FailStep DEF BputRefused
<1> SUFFICES ASSUME ~BputRefused PROVE IInv'
  BY <1>0
<1>1. PICK p \in 0 .. chan[c].ext :
        p < chan[c].alloc * SectorSize /\ chan' = [chan EXCEPT ![c] = PutAt(chan[c], p)]
  BY DEF Bput
<1>2. /\ chan[c] \in Block /\ SectorsOf(chan[c].ext) <= chan[c].alloc
      /\ chan[c].ro => SectorsOf(chan[c].ext) = chan[c].alloc
  BY DEF IInv, ChannelsSound
<1> DEFINE b == PutAt(chan[c], p)
<1>3. chan[c].ext \in Nat /\ chan[c].alloc \in Nat /\ p \in Nat
  BY <1>2 DEF Block
<1>4. b.ext = IF p + 1 >= chan[c].ext THEN p + 1 ELSE chan[c].ext
  BY <1>2 DEF PutAt, Block
<1>5. /\ b \in Block /\ b.name = chan[c].name /\ b.start = chan[c].start
      /\ b.alloc = chan[c].alloc /\ b.ro = chan[c].ro
  <2> DEFINE e == IF p + 1 >= chan[c].ext THEN p + 1 ELSE chan[c].ext
             u == chan[c].upd \/ p + 1 >= chan[c].ext
  <2>1. e \in Nat
    BY <1>3
  <2>2. u \in BOOLEAN
    BY Zenon
  <2>3. b = [chan[c] EXCEPT !.ext = e, !.upd = u]
    BY DEF PutAt
  <2> HIDE DEF e, u, b
  <2>4. QED
    BY <1>2, <2>1, <2>2, <2>3 DEF Block
<1> HIDE DEF b
<1>6. SectorsOf(p + 1) <= chan[c].alloc
  <2>1. chan[c].alloc * SectorSize >= p + 1
    BY <1>1, <1>3, CatalogueAssumption
  <2>2. QED
    BY <1>3, <2>1, SectorsCover
<1>7. SectorsOf(b.ext) <= b.alloc
  BY <1>2, <1>4, <1>5, <1>6
<1>8. SectorsOf(chan[c].ext) <= SectorsOf(b.ext) /\ SectorsOf(b.ext) \in Nat
  BY <1>3, <1>4, SectorsMonotone, SectorsNat
<1>9. b.ro => SectorsOf(b.ext) = b.alloc
  BY <1>2, <1>3, <1>5, <1>7, <1>8
<1>10. chan' = [chan EXCEPT ![c] = b] /\ UNCHANGED <<disk, ram, valid>>
  BY <1>1 DEF Bput, b
<1>11. QED
  BY <1>5, <1>7, <1>9, <1>10, BlockStep

\* OSARGS 3.
LEMMA SetExtStep ==
  ASSUME IInv, NEW c \in DOMAIN chan, NEW ext \in 0 .. chan[c].ext, SetExt(c, ext)
  PROVE  IInv'
<1>1. CASE Fail(ram)
  BY <1>1, FailStep DEF IInv
<1>2. CASE /\ ~chan[c].ro
           /\ chan' = [chan EXCEPT ![c].ext = ext, ![c].upd = TRUE]
           /\ UNCHANGED <<disk, ram, valid>>
  <2> DEFINE b == [chan[c] EXCEPT !.ext = ext, !.upd = TRUE]
  <2>1. /\ chan[c] \in Block /\ SectorsOf(chan[c].ext) <= chan[c].alloc
        /\ chan[c].ext \in Nat /\ chan[c].alloc \in Nat /\ ext \in Nat /\ ext <= chan[c].ext
    BY DEF IInv, ChannelsSound, Block
  <2>2. /\ b \in Block /\ b.name = chan[c].name /\ b.start = chan[c].start
        /\ b.alloc = chan[c].alloc /\ b.ro = chan[c].ro /\ b.ext = ext
    BY <2>1 DEF Block
  <2>3. chan' = [chan EXCEPT ![c] = b]
    BY <1>2
  <2> HIDE DEF b
  <2>4. SectorsOf(b.ext) <= b.alloc
    BY <2>1, <2>2, SectorsMonotone, SectorsNat
  <2>5. QED
    BY <1>2, <2>2, <2>3, <2>4, BlockStep
<1>3. QED
  BY <1>1, <1>2 DEF SetExt

----------------------------------------------------------------------------
(* Operations on rows.                                                     *)

\* OSFILE 6 and *DELETE.
LEMMA DeleteStep ==
  ASSUME IInv, NEW n \in Names, Delete(n)
  PROVE  IInv'
<1>1. Cat = disk /\ disk \in Seq(Row)
  BY CatIsDisk DEF IInv, RowsSound
<1>2. CASE Loaded /\ UNCHANGED chan
  BY <1>2, LoadedStep
<1>3. CASE Fail(Cat)
  BY <1>1, <1>3, FailStep
<1>4. CASE ~Protected(Cat, n) /\ Commit(WithoutRow(Cat, n)) /\ UNCHANGED chan
  BY <1>1, <1>4, WithoutSound, CommitStep
<1>5. QED
  BY <1>2, <1>3, <1>4 DEF Delete

\* *WIPE.
LEMMA WipeStep ==
  ASSUME IInv, NEW n \in Names, Wipe(n)
  PROVE  IInv'
<1>1. Cat = disk /\ disk \in Seq(Row)
  BY CatIsDisk DEF IInv, RowsSound
<1>2. CASE Loaded /\ UNCHANGED chan
  BY <1>2, LoadedStep
<1>3. CASE Fail(disk)
  BY <1>1, <1>3, FailStep
<1>4. CASE /\ ~Locked(Cat, n) /\ ~IsOpen(n)
           /\ Commit(WithoutRow(disk, n)) /\ UNCHANGED chan
  <2>1. ~Protected(disk, n)
    BY <1>1, <1>4 DEF Protected
  <2>2. QED
    BY <1>4, <2>1, WithoutSound, CommitStep
<1>5. QED
  BY <1>2, <1>3, <1>4 DEF Wipe

\* A file that is not open may take a name that is not there.
LEMMA RenamedSound ==
  ASSUME IInv, NEW n \in Names, NEW m \in Names, HasName(disk, n), ~Protected(disk, n),
         m = n \/ ~HasName(disk, m)
  PROVE  RowsSound(Renamed(disk, n, m), chan)
<1> DEFINE now == Renamed(disk, n, m)
           k == RowOf(disk, n)
<1>1. disk \in Seq(Row) /\ UniqueNames(disk) /\ WellFormed(disk)
  BY DEF IInv, RowsSound
<1>2. k \in DOMAIN disk /\ disk[k].name = n
  BY RowOfIs
<1>3. /\ now \in Seq(Row) /\ Len(now) = Len(disk)
      /\ \A i \in DOMAIN disk : /\ now[i].name = IF i = k THEN m ELSE disk[i].name
                                /\ now[i].start = disk[i].start
                                /\ now[i].len = disk[i].len
  BY <1>1, RenamedIs
<1> HIDE DEF now, k
<1>4. DOMAIN now = DOMAIN disk
  BY <1>1, <1>3
<1>5. WellFormed(now)
  <2>1. \A i \in DOMAIN disk : SectorsOf(now[i].len) <= SectorsOf(disk[i].len)
    BY <1>1, <1>3, RowTypes
  <2>2. QED
    BY <1>1, <1>3, <2>1, InPlace
<1>6. UniqueNames(now)
  <2>1. \A i \in DOMAIN disk : i # k => disk[i].name # m
    BY <1>1, <1>2 DEF UniqueNames, HasName
  <2>2. QED
    BY <1>1, <1>3, <1>4, <2>1 DEF UniqueNames
<1>7. ASSUME NEW c \in DOMAIN chan
      PROVE  HoldsExtent(now, chan[c].name, chan[c].start, chan[c].alloc)
  <2>1. chan[c].name # n
    BY OpenHasName DEF Protected
  <2>2. PICK i \in DOMAIN disk : /\ disk[i].name = chan[c].name
                                /\ disk[i].start = chan[c].start
                                /\ SectorsOf(disk[i].len) = chan[c].alloc
    BY DEF IInv, RowsSound, HoldsExtent
  <2>3. QED
    BY <1>2, <1>3, <1>4, <2>1, <2>2 DEF HoldsExtent
<1>8. QED
  BY <1>3, <1>5, <1>6, <1>7 DEF RowsSound, now

\* *RENAME.
LEMMA RenameStep ==
  ASSUME IInv, NEW n \in Names, NEW m \in Names, Rename(n, m)
  PROVE  IInv'
<1>1. Cat = disk /\ disk \in Seq(Row)
  BY CatIsDisk DEF IInv, RowsSound
<1>2. CASE Loaded /\ UNCHANGED chan
  BY <1>2, LoadedStep
<1>3. CASE Fail(Cat)
  BY <1>1, <1>3, FailStep
<1>4. CASE /\ HasName(Cat, n) /\ ~Protected(Cat, n) /\ (m = n \/ ~HasName(Cat, m))
           /\ Commit(Renamed(Cat, n, m)) /\ UNCHANGED chan
  BY <1>1, <1>4, RenamedSound, CommitStep
<1>5. QED
  BY <1>2, <1>3, <1>4 DEF Rename

\* Rows changed in nothing but their lock bits.
LEMMA RelockedSound ==
  ASSUME IInv, NEW now \in Seq(Row), Len(now) = Len(disk),
         \A i \in DOMAIN disk :
           /\ now[i].name = disk[i].name /\ now[i].start = disk[i].start
           /\ now[i].len = disk[i].len
  PROVE  RowsSound(now, chan)
<1>1. disk \in Seq(Row)
  BY DEF IInv, RowsSound
<1>2. QED
  BY <1>1, SameExtents DEF IInv, RowsSound

\* *ACCESS changes nothing but lock bits.
LEMMA LockedUpToIs ==
  ASSUME NEW rows \in Seq(Row), NEW ns, NEW lock \in BOOLEAN, NEW last
  PROVE  /\ LockedUpTo(rows, ns, lock, last) \in Seq(Row)
         /\ Len(LockedUpTo(rows, ns, lock, last)) = Len(rows)
         /\ \A i \in DOMAIN rows :
              /\ LockedUpTo(rows, ns, lock, last)[i].name = rows[i].name
              /\ LockedUpTo(rows, ns, lock, last)[i].start = rows[i].start
              /\ LockedUpTo(rows, ns, lock, last)[i].len = rows[i].len
<1> DEFINE row(i) == IF i <= last /\ rows[i].name \in ns
                     THEN [rows[i] EXCEPT !.locked = lock] ELSE rows[i]
<1>1. ASSUME NEW i \in DOMAIN rows
      PROVE  /\ row(i) \in Row /\ row(i).name = rows[i].name
             /\ row(i).start = rows[i].start /\ row(i).len = rows[i].len
  <2>1. rows[i] \in Row
    OBVIOUS
  <2>2. QED
    BY <2>1 DEF Row
<1>2. LockedUpTo(rows, ns, lock, last) = [i \in 1 .. Len(rows) |-> row(i)]
  BY DEF LockedUpTo
<1> HIDE DEF row
<1>3. QED
  BY <1>1, <1>2

\* *ACCESS and OSFILE 4.
LEMMA AccessStep ==
  ASSUME IInv, NEW ns, NEW lock \in BOOLEAN, Access(ns, lock)
  PROVE  IInv'
<1>1. Cat = disk /\ disk \in Seq(Row)
  BY CatIsDisk DEF IInv, RowsSound
<1>2. CASE Loaded /\ UNCHANGED chan
  BY <1>2, LoadedStep
<1>3. ASSUME NEW i \in DOMAIN disk, Fail(LockedUpTo(disk, ns, lock, i - 1))
      PROVE  IInv'
  BY <1>1, <1>3, LockedUpToIs, FailStep
<1>4. CASE Commit(LockedUpTo(disk, ns, lock, Len(disk))) /\ UNCHANGED chan
  <2> DEFINE now == LockedUpTo(disk, ns, lock, Len(disk))
  <2>1. /\ now \in Seq(Row) /\ Len(now) = Len(disk)
        /\ \A i \in DOMAIN disk : /\ now[i].name = disk[i].name
                                  /\ now[i].start = disk[i].start
                                  /\ now[i].len = disk[i].len
    BY <1>1, LockedUpToIs
  <2>2. RowsSound(now, chan)
    BY <2>1, RelockedSound
  <2>3. QED
    BY <1>4, <2>2, CommitStep
<1>5. QED
  BY <1>1, <1>2, <1>3, <1>4 DEF Access

\* OSFILE 1.
LEMMA UpdateCatStep ==
  ASSUME IInv, NEW n \in Names, NEW lock \in BOOLEAN, UpdateCat(n, lock)
  PROVE  IInv'
<1>1. Cat = disk /\ disk \in Seq(Row)
  BY CatIsDisk DEF IInv, RowsSound
<1>2. CASE Loaded /\ UNCHANGED chan
  BY <1>2, LoadedStep
<1>3. CASE HasName(disk, n) /\ Commit(WithLock(disk, n, lock)) /\ UNCHANGED chan
  <2> DEFINE now == WithLock(disk, n, lock)
  <2>1. /\ now \in Seq(Row) /\ Len(now) = Len(disk)
        /\ \A i \in DOMAIN disk : /\ now[i].name = disk[i].name
                                  /\ now[i].start = disk[i].start
                                  /\ now[i].len = disk[i].len
    BY <1>1, <1>3, WithLockIs
  <2>2. RowsSound(now, chan)
    BY <2>1, RelockedSound
  <2>3. QED
    BY <1>3, <2>2, CommitStep
<1>4. QED
  BY <1>1, <1>2, <1>3 DEF UpdateCat

\* *DESTROY: the survivors are rows of the old table in their order.
LEMMA DestroyStep ==
  ASSUME IInv, NEW ns, Destroy(ns)
  PROVE  IInv'
<1>1. Cat = disk /\ disk \in Seq(Row) /\ UniqueNames(disk) /\ WellFormed(disk)
  BY CatIsDisk DEF IInv, RowsSound
<1>2. CASE Loaded /\ UNCHANGED chan
  BY <1>2, LoadedStep
<1>3. CASE Fail(disk)
  BY <1>1, <1>3, FailStep
<1>4. ASSUME NEW last \in 0 .. Len(disk), NEW k \in 0 .. Len(disk),
             NEW f \in [1 .. k -> DOMAIN disk], NEW gone,
             Survivors(k, f, gone),
             \A i \in gone : ~IsOpen(disk[i].name),
             \/ Fail([i \in 1 .. k |-> disk[f[i]]])
             \/ Commit([i \in 1 .. k |-> disk[f[i]]]) /\ UNCHANGED chan
      PROVE  IInv'
  <2> DEFINE rows == [i \in 1 .. k |-> disk[f[i]]]
  <2>1. /\ rows \in Seq(Row) /\ DOMAIN rows = 1 .. k
        /\ \A i \in 1 .. k : f[i] \in DOMAIN disk /\ rows[i] = disk[f[i]]
    BY <1>1
  <2>2. Fail(rows) \/ (Commit(rows) /\ UNCHANGED chan)
    BY <1>4
  <2> HIDE DEF rows
  <2>3. UniqueNames(rows) /\ WellFormed(rows)
    BY <1>1, <1>4, <2>1, SubTable DEF Survivors
  <2>4. ASSUME NEW c \in DOMAIN chan
        PROVE  HoldsExtent(rows, chan[c].name, chan[c].start, chan[c].alloc)
    <3>1. PICK j \in DOMAIN disk : /\ disk[j].name = chan[c].name
                                  /\ disk[j].start = chan[c].start
                                  /\ SectorsOf(disk[j].len) = chan[c].alloc
      BY DEF IInv, RowsSound, HoldsExtent
    <3>2. j \notin gone
      BY <1>4, <3>1, OpenHasName
    <3>3. PICK i \in 1 .. k : f[i] = j
      BY <1>4, <3>1, <3>2 DEF Survivors
    <3>4. QED
      BY <2>1, <3>1, <3>3 DEF HoldsExtent
  <2>5. RowsSound(rows, chan)
    BY <2>1, <2>3, <2>4 DEF RowsSound
  <2>6. QED
    BY <2>1, <2>2, <2>5, FailStep, CommitStep
<1>5. QED
  BY <1>2, <1>3, <1>4, Zenon DEF Destroy

\* *CAT.
LEMMA StarCatStep ==
  ASSUME IInv, Star_CAT
  PROVE  IInv'
<1>1. ram' \in Seq(Row) /\ valid' = FALSE /\ UNCHANGED <<disk, chan>>
  BY DEF Star_CAT
<1>2. QED
  BY <1>1, QuietStep

----------------------------------------------------------------------------
(* The theorems.                                                           *)

\* The empty catalogue is sound.
LEMMA InitSound ==
  ASSUME Init
  PROVE  IInv
<1>1. << >> \in Seq(Row) /\ DOMAIN << >> = {} /\ Len(<< >>) = 0
  OBVIOUS
<1>2. QED
  BY <1>1 DEF Init, IInv, CacheFresh, RowsSound, ChannelsSound, UniqueNames,
              WellFormed, OnDisk, SortedAndDisjoint

\* Every operation of CoreSpec keeps the invariant.
LEMMA StepSound ==
  ASSUME IInv, [CoreNext]_vars
  PROVE  IInv'
<1>1. ASSUME NEW n \in Names, NEW len \in Lengths, Save(n, len)
      PROVE  IInv'
  BY <1>1, SaveStep
<1>2. ASSUME NEW n \in Names, OpenIn(n) \/ OpenUp(n) \/ OpenOut(n)
      PROVE  IInv'
  BY <1>2, OpenOldStep, OpenOutStep DEF OpenIn, OpenUp
<1>3. ASSUME NEW n \in Names, Delete(n) \/ Wipe(n)
      PROVE  IInv'
  BY <1>3, DeleteStep, WipeStep
<1>4. ASSUME NEW n \in Names, NEW m \in Names, Rename(n, m)
      PROVE  IInv'
  BY <1>4, RenameStep
<1>5. ASSUME NEW ns, NEW lock \in BOOLEAN, Access(ns, lock)
      PROVE  IInv'
  BY <1>5, AccessStep
<1>6. ASSUME NEW ns, Destroy(ns)
      PROVE  IInv'
  BY <1>6, DestroyStep
<1>7. ASSUME NEW n \in Names, NEW lock \in BOOLEAN, UpdateCat(n, lock)
      PROVE  IInv'
  BY <1>7, UpdateCatStep
<1>8. ASSUME NEW c \in DOMAIN chan, Close(c) \/ Bput(c)
      PROVE  IInv'
  BY <1>8, CloseStep, BputStep
<1>9. ASSUME NEW c \in DOMAIN chan, NEW ext \in 0 .. chan[c].ext, SetExt(c, ext)
      PROVE  IInv'
  BY <1>9, SetExtStep
<1>10. CASE Star_CAT
  BY <1>10, StarCatStep
<1>11. CASE UNCHANGED vars
  BY <1>11 DEF vars, IInv, CacheFresh, RowsSound, ChannelsSound
<1>12. QED
  BY <1>1, <1>2, <1>3, <1>4, <1>5, <1>6, <1>7, <1>8, <1>9, <1>10, <1>11 DEF CoreNext

\* IInv is an invariant of CoreSpec.
LEMMA Invariant == CoreSpec => []IInv
<1>1. QED
  BY InitSound, StepSound, PTL DEF CoreSpec

\* The state always has its type, for any names, disk size and channel count.
THEOREM TypeCorrect == CoreSpec => []TypeOK
<1>1. IInv => TypeOK
  BY DEF IInv, RowsSound, ChannelsSound, TypeOK
<1>2. QED
  BY <1>1, Invariant, PTL

\* No two files of the image share a sector, and none leaves the disk, as long
\* as no file is flushed while open or extended past its last sector.
THEOREM FilesNeverOverlap == CoreSpec => []NoOverlap
<1>1. IInv => NoOverlap
  BY DEF IInv, RowsSound, NoOverlap
<1>2. QED
  BY <1>1, Invariant, PTL

\* The sectors a channel may write are those of its own file's row.
THEOREM ChannelsKeepReservation == CoreSpec => []ChannelsReserved
<1>1. IInv => ChannelsReserved
  BY DEF IInv, RowsSound, ChannelsSound, ChannelsReserved
<1>2. QED
  BY <1>1, Invariant, PTL

\* A file is open for writing on one channel at most, and then on no other.
THEOREM SingleWriter == CoreSpec => []OneWriter
<1>1. IInv => OneWriter
  BY DEF IInv, ChannelsSound, OneWriter
<1>2. QED
  BY <1>1, Invariant, PTL

----------------------------------------------------------------------------
(* All of Spec: what even OSARGS &FF and the extension of a full file keep. *)

\* The channels' files are there, at the sectors they were opened at.
Present(rows, ch) ==
  \A c \in DOMAIN ch :
    \E i \in DOMAIN rows : rows[i].name = ch[c].name /\ rows[i].start = ch[c].start

\* The inductive invariant of Spec.
NInv ==
  /\ disk \in Seq(Row) /\ ram \in Seq(Row) /\ valid \in BOOLEAN
  /\ CacheFresh
  /\ UniqueNames(disk)
  /\ DOMAIN chan \subseteq Channels /\ \A c \in DOMAIN chan : chan[c] \in Block
  /\ Present(disk, chan)

\* A row that differs in its lock bit at most.
Same(row, old) ==
  row.name = old.name /\ row.start = old.start /\ row.len = old.len

\* The rows that are still there, and those that were there before, by the
\* names an operation may have touched.
Keeps(rows, now, lost) ==
  \A i \in DOMAIN rows : rows[i].name \notin lost =>
    \E j \in DOMAIN now : Same(now[j], rows[i])

From(rows, now, new) ==
  \A j \in DOMAIN now : now[j].name \notin new =>
    \E i \in DOMAIN rows : Same(now[j], rows[i])

\* The bodies of LockedFilesStay and ExtentsKept.
LockedKept ==
  \A i \in DOMAIN disk :
    disk[i].locked /\ ~IsOpen(disk[i].name) =>
      \E j \in DOMAIN disk' :
        disk'[j] = [disk[i] EXCEPT !.locked = disk'[j].locked]

ByOwner(n) ==
  \/ \E len \in Lengths : Save(n, len)
  \/ \E c \in DOMAIN chan :
       chan[c].name = n /\ (Close(c) \/ Flush(c) \/ BputExtend(c))

ExtentKept ==
  \A i \in DOMAIN disk, j \in DOMAIN disk' :
    /\ disk[i].name = disk'[j].name
    /\ disk[i].start # disk'[j].start \/ disk[i].len # disk'[j].len
    => ByOwner(disk[i].name)

Kept == LockedKept /\ ExtentKept

\* An operation that loses only files that are neither locked nor open, or open
\* ones of its own, and makes only new files or its own.
LEMMA KeptBy ==
  ASSUME NInv, disk' \in Seq(Row), NEW lost, NEW new,
         Keeps(disk, disk', lost), From(disk, disk', new),
         \A n \in lost : ~Locked(disk, n) \/ IsOpen(n),
         \A n \in new : HasName(disk, n) => ByOwner(n)
  PROVE  Kept
PROOF
  <1>1. ASSUME NEW i \in DOMAIN disk, disk[i].locked, ~IsOpen(disk[i].name)
        PROVE  \E j \in DOMAIN disk' :
                 disk'[j] = [disk[i] EXCEPT !.locked = disk'[j].locked]
    <2>1. HasName(disk, disk[i].name)
      BY DEF HasName
    <2>2. RowOf(disk, disk[i].name) = i
      BY <2>1, RowOfIs DEF NInv, UniqueNames
    <2>3. disk[i].name \notin lost
      BY <1>1, <2>1, <2>2 DEF Locked
    <2>4. PICK j \in DOMAIN disk' : Same(disk'[j], disk[i])
      BY <2>3 DEF Keeps
    <2>5. disk[i] \in Row /\ disk'[j] \in Row
      BY DEF NInv
    <2>6. disk'[j] = [disk[i] EXCEPT !.locked = disk'[j].locked]
      BY <2>4, <2>5 DEF Same, Row
    <2> QED
      BY <2>6
  <1>2. ASSUME NEW i \in DOMAIN disk, NEW j \in DOMAIN disk',
               disk[i].name = disk'[j].name,
               disk[i].start # disk'[j].start \/ disk[i].len # disk'[j].len
        PROVE  ByOwner(disk[i].name)
    <2>1. HasName(disk, disk[i].name)
      BY DEF HasName
    <2>2. CASE disk'[j].name \in new
      BY <1>2, <2>1, <2>2
    <2>3. CASE disk'[j].name \notin new
      <3>1. PICK k \in DOMAIN disk : Same(disk'[j], disk[k])
        BY <2>3 DEF From
      <3>2. k = i
        BY <1>2, <3>1 DEF Same, NInv, UniqueNames
      <3> QED
        BY <1>2, <3>1, <3>2 DEF Same
    <2> QED
      BY <2>2, <2>3
  <1> QED
    BY <1>1, <1>2 DEF Kept, LockedKept, ExtentKept

\* A catalogue is its own.
LEMMA KeepsItself ==
  ASSUME NEW rows
  PROVE  Keeps(rows, rows, {}) /\ From(rows, rows, {})
BY DEF Keeps, From, Same

\* A step that leaves the image and the channels alone.
LEMMA NQuiet ==
  ASSUME NInv, UNCHANGED <<disk, chan>>, ram' \in Seq(Row), valid' \in BOOLEAN,
         valid' => ram' = disk'
  PROVE  NInv' /\ Kept
PROOF
  <1>1. NInv'
    BY DEF NInv, CacheFresh, Present
  <1>2. disk' \in Seq(Row) /\ Keeps(disk, disk', {}) /\ From(disk, disk', {})
    BY KeepsItself DEF NInv
  <1> QED
    BY <1>1, <1>2, KeptBy

LEMMA NFail ==
  ASSUME NInv, NEW rows \in Seq(Row), Fail(rows)
  PROVE  NInv' /\ Kept
BY NQuiet DEF Fail

LEMMA NCat ==
  ASSUME NInv
  PROVE  Cat = disk /\ disk \in Seq(Row) /\ UniqueNames(disk)
BY DEF NInv, CacheFresh, Cat

LEMMA NLoaded ==
  ASSUME NInv, Loaded, UNCHANGED chan
  PROVE  NInv' /\ Kept
PROOF
  <1>1. ram' = disk /\ disk' = disk /\ valid' = TRUE /\ disk \in Seq(Row)
    BY NCat DEF Loaded
  <1> QED
    BY <1>1, NQuiet

\* The rows of files that are not open may go; the channels are as they were.
LEMMA StillPresent ==
  ASSUME NInv, NEW now, NEW lost, Keeps(disk, now, lost),
         \A n \in lost : ~IsOpen(n)
  PROVE  Present(now, chan)
PROOF
  <1> SUFFICES ASSUME NEW c \in DOMAIN chan
               PROVE  \E i \in DOMAIN now : now[i].name = chan[c].name
                                         /\ now[i].start = chan[c].start
    BY DEF Present
  <1>1. PICK i \in DOMAIN disk : disk[i].name = chan[c].name /\ disk[i].start = chan[c].start
    BY DEF NInv, Present
  <1>2. disk[i].name \notin lost
    BY <1>1 DEF IsOpen
  <1>3. PICK j \in DOMAIN now : Same(now[j], disk[i])
    BY <1>2 DEF Keeps
  <1> QED
    BY <1>1, <1>3 DEF Same

\* A step that writes a new catalogue and leaves the channels alone.
LEMMA NWritten ==
  ASSUME NInv, NEW now \in Seq(Row), UniqueNames(now), NEW lost, NEW new,
         Keeps(disk, now, lost), From(disk, now, new),
         \A n \in lost : ~Locked(disk, n) /\ ~IsOpen(n),
         \A n \in new : HasName(disk, n) => ByOwner(n),
         disk' = now, ram' = now, valid' \in BOOLEAN, UNCHANGED chan
  PROVE  NInv' /\ Kept
PROOF
  <1>1. Present(now, chan)
    BY StillPresent
  <1>2. NInv'
    BY <1>1 DEF NInv, CacheFresh, Present
  <1>3. Kept
    BY KeptBy
  <1> QED
    BY <1>2, <1>3

\* The rows of the table after the changes that DfsCatalogue has.
LEMMA WithoutKeeps ==
  ASSUME NEW rows \in Seq(Row), NEW n, UniqueNames(rows)
  PROVE  Keeps(rows, WithoutRow(rows, n), {n}) /\ From(rows, WithoutRow(rows, n), {})
PROOF
  <1> DEFINE less == WithoutRow(rows, n)
             k == RowOf(rows, n)
  <1>1. CASE ~HasName(rows, n)
    BY <1>1, KeepsItself DEF WithoutRow, Keeps
  <1>2. CASE HasName(rows, n)
    <2>1. k \in 1 .. Len(rows) /\ rows[k].name = n
      BY <1>2, RowOfIs
    <2>2. /\ less \in Seq(Row) /\ Len(less) = Len(rows) - 1
          /\ \A i \in 1 .. Len(rows) - 1 : less[i] = IF i < k THEN rows[i] ELSE rows[i + 1]
      BY <1>2, <2>1, RemoveAtIs DEF WithoutRow
    <2> HIDE DEF less, k
    <2>3. ASSUME NEW i \in DOMAIN rows, rows[i].name # n
          PROVE  \E j \in DOMAIN less : less[j] = rows[i]
      <3>1. i # k
        BY <2>1, <2>3
      <3>2. CASE i < k
        <4>1. i \in 1 .. Len(rows) - 1 /\ i \in DOMAIN less /\ less[i] = rows[i]
          BY <2>1, <2>2, <3>2
        <4> QED
          BY <4>1
      <3>3. CASE i > k
        <4>1. /\ i - 1 \in 1 .. Len(rows) - 1 /\ i - 1 \in DOMAIN less
              /\ less[i - 1] = rows[i]
          BY <2>1, <2>2, <3>3
        <4> QED
          BY <4>1
      <3> QED
        BY <2>1, <3>1, <3>2, <3>3
    <2>4. ASSUME NEW j \in DOMAIN less
          PROVE  \E i \in DOMAIN rows : less[j] = rows[i]
      <3>1. /\ j \in 1 .. Len(rows) - 1 /\ j \in DOMAIN rows /\ j + 1 \in DOMAIN rows
            /\ less[j] = rows[j] \/ less[j] = rows[j + 1]
        BY <2>1, <2>2
      <3> QED
        BY <3>1
    <2>5. Keeps(rows, less, {n}) /\ From(rows, less, {})
      BY <2>3, <2>4 DEF Keeps, From, Same
    <2> QED
      BY <2>5 DEF less
  <1> QED
    BY <1>1, <1>2

LEMMA PlacedKeeps ==
  ASSUME NEW rows \in Seq(Row), NEW y \in 0 .. Len(rows), NEW n \in Names, NEW len \in Nat
  PROVE  Keeps(rows, Placed(rows, y, n, len), {}) /\ From(rows, Placed(rows, y, n, len), {n})
PROOF
  <1> DEFINE more == Placed(rows, y, n, len)
             new == NewRow(rows, y, n, len)
  <1>1. /\ more \in Seq(Row) /\ Len(more) = Len(rows) + 1
        /\ \A i \in 1 .. Len(rows) + 1 :
             more[i] = IF i <= y THEN rows[i] ELSE IF i = y + 1 THEN new ELSE rows[i - 1]
    BY PlacedRows
  <1>2. new.name = n
    BY DEF NewRow
  <1> HIDE DEF more, new
  <1>3. ASSUME NEW i \in DOMAIN rows
        PROVE  \E j \in DOMAIN more : more[j] = rows[i]
    <2>1. CASE i <= y
      <3>1. i \in DOMAIN more /\ more[i] = rows[i]
        BY <1>1, <2>1
      <3> QED
        BY <3>1
    <2>2. CASE i > y
      <3>1. i + 1 \in DOMAIN more /\ more[i + 1] = rows[i]
        BY <1>1, <2>2
      <3> QED
        BY <3>1
    <2> QED
      BY <2>1, <2>2
  <1>4. ASSUME NEW j \in DOMAIN more, more[j].name # n
        PROVE  \E i \in DOMAIN rows : more[j] = rows[i]
    <2>1. CASE j <= y
      <3>1. j \in DOMAIN rows /\ more[j] = rows[j]
        BY <1>1, <2>1
      <3> QED
        BY <3>1
    <2>2. CASE j > y
      <3>1. j # y + 1
        BY <1>1, <1>2, <1>4
      <3>2. j - 1 \in DOMAIN rows /\ more[j] = rows[j - 1]
        BY <1>1, <2>2, <3>1
      <3> QED
        BY <3>2
    <2> QED
      BY <1>1, <2>1, <2>2
  <1>5. Keeps(rows, more, {}) /\ From(rows, more, {n})
    BY <1>3, <1>4 DEF Keeps, From, Same
  <1> QED
    BY <1>5 DEF more

\* Rows that stay where they are, but for those of some names.
LEMMA InPlaceKeeps ==
  ASSUME NEW rows \in Seq(Row), NEW now \in Seq(Row), Len(now) = Len(rows), NEW names,
         \A i \in DOMAIN rows :
           \/ Same(now[i], rows[i])
           \/ rows[i].name \in names /\ now[i].name \in names
  PROVE  Keeps(rows, now, names) /\ From(rows, now, names)
PROOF
  <1>1. DOMAIN now = DOMAIN rows
    OBVIOUS
  <1> QED
    BY <1>1 DEF Keeps, From

\* One change after another.
LEMMA KeepsOn ==
  ASSUME NEW old, NEW mid, NEW now, NEW lost, NEW new,
         Keeps(old, mid, lost), Keeps(mid, now, {}),
         From(old, mid, {}), From(mid, now, new)
  PROVE  Keeps(old, now, lost) /\ From(old, now, new)
PROOF
  <1>1. ASSUME NEW i \in DOMAIN old, old[i].name \notin lost
        PROVE  \E j \in DOMAIN now : Same(now[j], old[i])
    <2>1. PICK k \in DOMAIN mid : Same(mid[k], old[i])
      BY <1>1 DEF Keeps
    <2>2. PICK j \in DOMAIN now : Same(now[j], mid[k])
      BY DEF Keeps
    <2> QED
      BY <2>1, <2>2 DEF Same
  <1>2. ASSUME NEW j \in DOMAIN now, now[j].name \notin new
        PROVE  \E i \in DOMAIN old : Same(now[j], old[i])
    <2>1. PICK k \in DOMAIN mid : Same(now[j], mid[k])
      BY <1>2 DEF From
    <2>2. PICK i \in DOMAIN old : Same(mid[k], old[i])
      BY DEF From
    <2> QED
      BY <2>1, <2>2 DEF Same
  <1> QED
    BY <1>1, <1>2 DEF Keeps, From

\* A name that may be deleted belongs to no open file.
LEMMA FreeName ==
  ASSUME NInv, NEW n, ~Protected(disk, n)
  PROVE  ~Locked(disk, n) /\ ~IsOpen(n)
BY DEF Protected, IsOpen, NInv, Present, HasName

LEMMA NSave ==
  ASSUME NInv, NEW n \in Names, NEW len \in Lengths, Save(n, len)
  PROVE  NInv' /\ Kept
PROOF
  <1>1. Cat = disk /\ disk \in Seq(Row) /\ UniqueNames(disk) /\ len \in Nat
    BY NCat, FilesAssumption
  <1>2. CASE SaveRefused(n)
    BY <1>1, <1>2, NFail DEF SaveRefused
  <1>3. CASE SaveNoRoom(n, len)
    <2>1. WithoutRow(disk, n) \in Seq(Row) /\ Fail(WithoutRow(disk, n))
      BY <1>1, <1>3, WithoutRowIs DEF SaveNoRoom
    <2> QED
      BY <2>1, NFail
  <1>4. CASE SaveDone(n, len)
    <2> DEFINE rest == WithoutRow(disk, n)
    <2>1. ~Protected(disk, n) /\ UNCHANGED chan
      BY <1>1, <1>4 DEF SaveDone
    <2>2. PICK y \in 0 .. Len(rest) : Commit(Placed(rest, y, n, len))
      BY <1>1, <1>4 DEF SaveDone
    <2>3. rest \in Seq(Row) /\ UniqueNames(rest) /\ ~HasName(rest, n)
      BY <1>1, WithoutRowIs
    <2>4. Keeps(disk, rest, {n}) /\ From(disk, rest, {})
      BY <1>1, WithoutKeeps
    <2> HIDE DEF rest
    <2> DEFINE now == Placed(rest, y, n, len)
    <2>5. now \in Seq(Row) /\ UniqueNames(now)
      BY <1>1, <2>3, PlacedRows, PlacedUnique
    <2>6. Keeps(rest, now, {}) /\ From(rest, now, {n})
      BY <1>1, <2>3, PlacedKeeps
    <2>7. disk' = now /\ ram' = now /\ valid' = TRUE
      BY <2>2 DEF Commit
    <2> HIDE DEF now
    <2>8. Keeps(disk, now, {n}) /\ From(disk, now, {n})
      BY <2>4, <2>6, KeepsOn
    <2>9. ~Locked(disk, n) /\ ~IsOpen(n)
      BY <2>1, FreeName
    <2>10. ByOwner(n)
      BY DEF ByOwner
    <2>11. /\ \A m \in {n} : ~Locked(disk, m) /\ ~IsOpen(m)
           /\ \A m \in {n} : HasName(disk, m) => ByOwner(m)
      BY <2>9, <2>10
    <2> QED
      BY <2>1, <2>5, <2>7, <2>8, <2>11, NWritten
  <1> QED
    BY <1>2, <1>3, <1>4 DEF Save

\* A channel is opened on a row of a catalogue that keeps the old rows.
LEMMA NOpen ==
  ASSUME NInv, NEW rows \in Seq(Row), UniqueNames(rows), NEW new,
         Keeps(disk, rows, {}), From(disk, rows, new),
         \A m \in new : ~HasName(disk, m),
         NEW n, HasName(rows, n), NEW op, Open(rows, n, op),
         disk' = rows, ram' = rows, valid' = TRUE
  PROVE  NInv' /\ Kept
PROOF
  <1> DEFINE row == rows[RowOf(rows, n)]
             b == NewBlock(row, op)
  <1>1. RowOf(rows, n) \in DOMAIN rows /\ row \in Row
    BY RowOfIs
  <1>2. b \in Block /\ b.name = row.name /\ b.start = row.start
    BY <1>1, NewBlockIs
  <1>3. PICK c \in Channels : LowestFree(c) /\ chan' = Opened(c, b)
    BY DEF Open
  <1> HIDE DEF b
  <1>4. /\ DOMAIN chan' = DOMAIN chan \cup {c} /\ c \notin DOMAIN chan
        /\ chan'[c] = b /\ \A d \in DOMAIN chan : chan'[d] = chan[d]
    BY <1>3 DEF Opened, LowestFree
  <1>5. Present(rows, chan)
    BY StillPresent
  <1>6. Present(rows, chan')
    <2>1. ASSUME NEW d \in DOMAIN chan'
          PROVE  \E i \in DOMAIN rows : rows[i].name = chan'[d].name /\ rows[i].start = chan'[d].start
      <3>1. CASE d = c
        BY <1>1, <1>2, <1>4, <3>1
      <3>2. CASE d # c
        BY <1>4, <1>5, <3>2 DEF Present
      <3> QED
        BY <3>1, <3>2
    <2> QED
      BY <2>1 DEF Present
  <1> HIDE DEF row
  <1>7. DOMAIN chan' \subseteq Channels /\ \A d \in DOMAIN chan' : chan'[d] \in Block
    BY <1>2, <1>4 DEF NInv
  <1>8. NInv'
    BY <1>6, <1>7 DEF NInv, CacheFresh, Present
  <1>9. Kept
    BY KeptBy
  <1> QED
    BY <1>8, <1>9

LEMMA NOpenOld ==
  ASSUME NInv, NEW n \in Names, NEW op, OpenOld(n, op)
  PROVE  NInv' /\ Kept
PROOF
  <1>1. Cat = disk /\ disk \in Seq(Row) /\ UniqueNames(disk)
    BY NCat
  <1>2. CASE Loaded /\ UNCHANGED chan
    BY <1>2, NLoaded
  <1>3. CASE Fail(Cat)
    BY <1>1, <1>3, NFail
  <1>4. CASE HasName(Cat, n) /\ Open(Cat, n, op) /\ Loaded
    <2>1. disk' = disk /\ ram' = disk /\ valid' = TRUE
      BY <1>1, <1>4 DEF Loaded
    <2>2. HasName(disk, n) /\ Open(disk, n, op)
      BY <1>1, <1>4
    <2>3. Keeps(disk, disk, {}) /\ From(disk, disk, {})
      BY KeepsItself
    <2> QED
      BY <1>1, <2>1, <2>2, <2>3, NOpen
  <1> QED
    BY <1>2, <1>3, <1>4 DEF OpenOld

LEMMA NOpenOut ==
  ASSUME NInv, NEW n \in Names, OpenOut(n)
  PROVE  NInv' /\ Kept
PROOF
  <1>1. Cat = disk /\ disk \in Seq(Row) /\ UniqueNames(disk)
    BY NCat
  <1>2. CASE Fail(Cat)
    BY <1>1, <1>2, NFail
  <1>3. CASE HasName(Cat, n) /\ Open(Cat, n, "out") /\ Loaded
    <2>1. disk' = disk /\ ram' = disk /\ valid' = TRUE
      BY <1>1, <1>3 DEF Loaded
    <2>2. HasName(disk, n) /\ Open(disk, n, "out")
      BY <1>1, <1>3
    <2>3. Keeps(disk, disk, {}) /\ From(disk, disk, {})
      BY KeepsItself
    <2> QED
      BY <1>1, <2>1, <2>2, <2>3, NOpen
  <1>4. ASSUME ~HasName(Cat, n), NEW y \in 0 .. Len(Cat),
               \/ /\ Open(Placed(Cat, y, n, PreAlloc * SectorSize), n, "out")
                  /\ Commit(Placed(Cat, y, n, PreAlloc * SectorSize))
               \/ /\ disk' = Placed(Cat, y, n, PreAlloc * SectorSize)
                  /\ ram' = Placed(Cat, y, n, PreAlloc * SectorSize)
                  /\ valid' = FALSE /\ UNCHANGED chan
        PROVE  NInv' /\ Kept
    <2> DEFINE len == PreAlloc * SectorSize
               rows == Placed(disk, y, n, len)
    <2>1. len \in Nat
      BY FilesAssumption, CatalogueAssumption
    <2> HIDE DEF len
    <2>2. /\ rows \in Seq(Row) /\ y + 1 \in DOMAIN rows
          /\ rows[y + 1] = NewRow(disk, y, n, len)
      BY <1>1, <1>4, <2>1, PlacedRows, PlacedHolds
    <2>3. UniqueNames(rows)
      BY <1>1, <1>4, <2>1, PlacedUnique
    <2>4. HasName(rows, n)
      <3>1. NewRow(disk, y, n, len).name = n
        BY DEF NewRow
      <3> QED
        BY <2>2, <3>1 DEF HasName
    <2>5. Keeps(disk, rows, {}) /\ From(disk, rows, {n})
      BY <1>1, <1>4, <2>1, PlacedKeeps
    <2>6. \A m \in {n} : ~HasName(disk, m)
      BY <1>1, <1>4
    <2>7. \/ Open(rows, n, "out") /\ Commit(rows)
          \/ disk' = rows /\ ram' = rows /\ valid' = FALSE /\ UNCHANGED chan
      BY <1>1, <1>4 DEF len
    <2> HIDE DEF rows
    <2>8. CASE Open(rows, n, "out") /\ Commit(rows)
      BY <2>2, <2>3, <2>4, <2>5, <2>6, <2>8, NOpen DEF Commit
    <2>9. CASE disk' = rows /\ ram' = rows /\ valid' = FALSE /\ UNCHANGED chan
      <3>1. /\ valid' \in BOOLEAN /\ disk' = rows /\ ram' = rows /\ UNCHANGED chan
            /\ \A m \in {n} : HasName(disk, m) => ByOwner(m)
            /\ \A m \in {} : ~Locked(disk, m) /\ ~IsOpen(m)
        BY <2>6, <2>9
      <3> QED
        BY <2>2, <2>3, <2>5, <3>1, NWritten
    <2> QED
      BY <2>7, <2>8, <2>9
  <1> QED
    BY <1>2, <1>3, <1>4 DEF OpenOut, OpenOutOld, OpenOutNew

\* A channel block changes, or channels close, and the image stays.
LEMMA NChannels ==
  ASSUME NInv, UNCHANGED disk, ram' \in Seq(Row), valid' \in BOOLEAN,
         valid' => ram' = disk',
         DOMAIN chan' \subseteq DOMAIN chan,
         \A d \in DOMAIN chan' :
           /\ chan'[d] \in Block
           /\ chan'[d].name = chan[d].name /\ chan'[d].start = chan[d].start
  PROVE  NInv' /\ Kept
PROOF
  <1>1. Present(disk', chan')
    BY DEF NInv, Present
  <1>2. NInv'
    BY <1>1 DEF NInv, CacheFresh, Present
  <1>3. Keeps(disk, disk', {}) /\ From(disk, disk', {}) /\ disk' \in Seq(Row)
    BY KeepsItself DEF NInv
  <1> QED
    BY <1>2, <1>3, KeptBy

\* EXT, or the length of an extension, is written as the length of the row.
LEMMA NResized ==
  ASSUME NInv, NEW c \in DOMAIN chan, NEW len \in Nat,
         Commit(Resized(disk, chan[c].name, len)),
         Close(c) \/ Flush(c) \/ BputExtend(c),
         DOMAIN chan' \subseteq DOMAIN chan,
         \A d \in DOMAIN chan' :
           /\ chan'[d] \in Block
           /\ chan'[d].name = chan[d].name /\ chan'[d].start = chan[d].start
  PROVE  NInv' /\ Kept
PROOF
  <1> DEFINE n == chan[c].name
             now == Resized(disk, n, len)
             k == RowOf(disk, n)
  <1>1. disk \in Seq(Row) /\ UniqueNames(disk) /\ HasName(disk, n) /\ IsOpen(n)
    BY DEF NInv, Present, HasName, IsOpen
  <1>2. k \in DOMAIN disk /\ disk[k].name = n
    BY <1>1, RowOfIs
  <1>3. /\ now \in Seq(Row) /\ Len(now) = Len(disk)
        /\ \A i \in DOMAIN disk : /\ now[i].name = disk[i].name
                                  /\ now[i].start = disk[i].start
                                  /\ now[i].len = IF i = k THEN len ELSE disk[i].len
    BY <1>1, ResizedIs
  <1>4. ByOwner(n)
    BY DEF ByOwner
  <1>5. disk' = now /\ ram' = now /\ valid' = TRUE
    BY DEF Commit
  <1> HIDE DEF now, k, n
  <1>6. DOMAIN now = DOMAIN disk
    BY <1>1, <1>3
  <1>7. UniqueNames(now)
    BY <1>1, <1>3, <1>6 DEF UniqueNames
  <1>8. Present(now, chan')
    BY <1>3, <1>6 DEF NInv, Present
  <1>9. Keeps(disk, now, {n}) /\ From(disk, now, {n})
    <2>1. \A i \in DOMAIN disk :
            \/ Same(now[i], disk[i])
            \/ disk[i].name \in {n} /\ now[i].name \in {n}
      BY <1>2, <1>3 DEF Same
    <2> QED
      BY <1>1, <1>3, <2>1, InPlaceKeeps
  <1>10. NInv'
    BY <1>3, <1>5, <1>7, <1>8 DEF NInv, CacheFresh, Present
  <1>11. /\ \A m \in {n} : ~Locked(disk, m) \/ IsOpen(m)
         /\ \A m \in {n} : HasName(disk, m) => ByOwner(m)
    BY <1>1, <1>4
  <1>12. Kept
    BY <1>3, <1>5, <1>9, <1>11, KeptBy
  <1> QED
    BY <1>10, <1>12

\* OSFIND 0 and OSARGS &FF.
LEMMA NClose ==
  ASSUME NInv, NEW c \in DOMAIN chan, Close(c) \/ Flush(c)
  PROVE  NInv' /\ Kept
PROOF
  <1> DEFINE b == chan[c]
  <1>1. /\ Cat = disk /\ disk \in Seq(Row)
        /\ ram \in Seq(Row) /\ valid \in BOOLEAN /\ (valid => ram = disk)
    BY NCat DEF NInv, CacheFresh
  <1>2. b.ext \in Nat /\ HasName(disk, b.name)
    BY DEF NInv, Block, Present, HasName
  <1>3. /\ DOMAIN Closed(c) \subseteq DOMAIN chan
        /\ \A d \in DOMAIN Closed(c) : Closed(c)[d] = chan[d]
    BY DEF Closed
  <1>4. PICK dirty \in BOOLEAN :
          \/ CloseCatalogue(b, dirty) /\ (chan' = chan \/ chan' = Closed(c))
          \/ CloseLost(b, dirty)
    BY DEF Close, Flush
  <1>5. ~CloseLost(b, dirty)
    BY <1>1, <1>2 DEF CloseLost
  <1>6. /\ DOMAIN chan' \subseteq DOMAIN chan
        /\ \A d \in DOMAIN chan' :
             /\ chan'[d] \in Block
             /\ chan'[d].name = chan[d].name /\ chan'[d].start = chan[d].start
    BY <1>3, <1>4, <1>5 DEF NInv
  <1>7. CASE UNCHANGED <<disk, ram, valid>>
    BY <1>1, <1>6, <1>7, NChannels
  <1>8. CASE Loaded
    BY <1>1, <1>6, <1>8, NChannels DEF Loaded
  <1>9. CASE Commit(Resized(Cat, b.name, b.ext))
    BY <1>1, <1>2, <1>6, <1>9, NResized
  <1> QED
    BY <1>4, <1>5, <1>7, <1>8, <1>9 DEF CloseCatalogue

\* OSBPUT, the extension of a full file, and OSARGS 3.
LEMMA NBlock ==
  ASSUME NInv, NEW c \in DOMAIN chan, NEW b \in Block, chan' = [chan EXCEPT ![c] = b],
         b.name = chan[c].name, b.start = chan[c].start
  PROVE  /\ DOMAIN chan' \subseteq DOMAIN chan
         /\ \A d \in DOMAIN chan' :
              /\ chan'[d] \in Block
              /\ chan'[d].name = chan[d].name /\ chan'[d].start = chan[d].start
BY DEF NInv

LEMMA PutAtIs ==
  ASSUME NEW b \in Block, NEW p \in Nat
  PROVE  PutAt(b, p) \in Block /\ PutAt(b, p).name = b.name /\ PutAt(b, p).start = b.start
PROOF
  <1> DEFINE e == IF p + 1 >= b.ext THEN p + 1 ELSE b.ext
             u == b.upd \/ p + 1 >= b.ext
  <1>1. e \in Nat
    BY DEF Block
  <1>2. u \in BOOLEAN
    BY Zenon
  <1>3. PutAt(b, p) = [b EXCEPT !.ext = e, !.upd = u]
    BY DEF PutAt
  <1> HIDE DEF e, u
  <1> QED
    BY <1>1, <1>2, <1>3 DEF Block

LEMMA NBput ==
  ASSUME NInv, NEW c \in DOMAIN chan, Bput(c)
  PROVE  NInv' /\ Kept
PROOF
  <1>0. CASE BputRefused
    <2>1. ram \in Seq(Row)
      BY DEF NInv
    <2> QED
      BY <1>0, <2>1, NFail DEF BputRefused
  <1>1. CASE ~BputRefused
    <2>1. PICK p \in 0 .. chan[c].ext : chan' = [chan EXCEPT ![c] = PutAt(chan[c], p)]
      BY <1>1 DEF Bput
    <2>2. chan[c] \in Block /\ p \in Nat
      BY DEF NInv, Block
    <2>3. UNCHANGED <<disk, ram, valid>>
      BY <1>1 DEF Bput
    <2>4. /\ UNCHANGED disk /\ ram' \in Seq(Row) /\ valid' \in BOOLEAN
          /\ valid' => ram' = disk'
      BY <2>3 DEF NInv, CacheFresh
    <2>5. /\ DOMAIN chan' \subseteq DOMAIN chan
          /\ \A d \in DOMAIN chan' :
               /\ chan'[d] \in Block
               /\ chan'[d].name = chan[d].name /\ chan'[d].start = chan[d].start
      BY <2>1, <2>2, PutAtIs, NBlock
    <2> QED
      BY <2>4, <2>5, NChannels
  <1> QED
    BY <1>0, <1>1

LEMMA NExtend ==
  ASSUME NInv, NEW c \in DOMAIN chan, BputExtend(c)
  PROVE  NInv' /\ Kept
PROOF
  <1> DEFINE b == chan[c]
             alloc == Extended(b.alloc) % (256 * ExtendStep)
             len == (alloc * SectorSize) % (4 * ExtendStep * SectorSize)
             full == [b EXCEPT !.alloc = alloc]
  <1>1. Cat = disk /\ disk \in Seq(Row)
    BY NCat
  <1>2. HasName(disk, b.name)
    BY DEF NInv, Present, HasName
  <1>3. b \in Block /\ b.ext \in Nat /\ b.alloc \in Nat
    BY DEF NInv, Block
  <1>4. alloc \in Nat
    <2>1. PICK step \in Nat \ {0} : step = ExtendStep
      BY FilesAssumption
    <2>2. PICK old \in Nat : old = b.alloc
      BY <1>3
    <2>3. ((old \div step + 1) * step) \in Nat
      BY <2>1, <2>2
    <2>4. 256 * step \in Nat \ {0}
      BY <2>1
    <2>5. ((old \div step + 1) * step) % (256 * step) \in Nat
      BY <2>3, <2>4
    <2> QED
      BY <2>1, <2>2, <2>5 DEF Extended
  <1> HIDE DEF alloc
  <1>5. len \in Nat
    <2>1. PICK step \in Nat \ {0} : step = ExtendStep
      BY FilesAssumption
    <2>2. PICK size \in Nat \ {0} : size = SectorSize
      BY CatalogueAssumption
    <2>3. alloc * size \in Nat
      BY <1>4
    <2>4. 4 * step * size \in Nat \ {0}
      BY <2>1, <2>2
    <2>5. (alloc * size) % (4 * step * size) \in Nat
      BY <2>3, <2>4
    <2> QED
      BY <2>1, <2>2, <2>5
  <1>6. full \in Block /\ full.name = b.name /\ full.start = b.start
    BY <1>3, <1>4 DEF Block
  <1>7. /\ Commit(Resized(disk, b.name, len))
        /\ chan' = [chan EXCEPT ![c] = PutAt(full, b.ext)]
    BY <1>1, <1>2 DEF BputExtend, alloc
  <1> HIDE DEF full, len
  <1>8. /\ PutAt(full, b.ext) \in Block
        /\ PutAt(full, b.ext).name = b.name /\ PutAt(full, b.ext).start = b.start
    BY <1>3, <1>6, PutAtIs
  <1>9. /\ DOMAIN chan' \subseteq DOMAIN chan
        /\ \A d \in DOMAIN chan' :
             /\ chan'[d] \in Block
             /\ chan'[d].name = chan[d].name /\ chan'[d].start = chan[d].start
    BY <1>7, <1>8, NBlock
  <1> QED
    BY <1>5, <1>7, <1>9, NResized

LEMMA NSetExt ==
  ASSUME NInv, NEW c \in DOMAIN chan, NEW ext \in 0 .. chan[c].ext, SetExt(c, ext)
  PROVE  NInv' /\ Kept
PROOF
  <1>1. CASE Fail(ram)
    BY <1>1, NFail DEF NInv
  <1>2. CASE /\ chan' = [chan EXCEPT ![c].ext = ext, ![c].upd = TRUE]
             /\ UNCHANGED <<disk, ram, valid>>
    <2> DEFINE b == [chan[c] EXCEPT !.ext = ext, !.upd = TRUE]
    <2>1. chan[c] \in Block /\ ext \in Nat
      BY DEF NInv, Block
    <2>2. b \in Block /\ b.name = chan[c].name /\ b.start = chan[c].start
      BY <2>1 DEF Block
    <2>3. chan' = [chan EXCEPT ![c] = b]
      BY <1>2
    <2> HIDE DEF b
    <2>4. /\ UNCHANGED disk /\ ram' \in Seq(Row) /\ valid' \in BOOLEAN
          /\ valid' => ram' = disk'
      BY <1>2 DEF NInv, CacheFresh
    <2>5. /\ DOMAIN chan' \subseteq DOMAIN chan
          /\ \A d \in DOMAIN chan' :
               /\ chan'[d] \in Block
               /\ chan'[d].name = chan[d].name /\ chan'[d].start = chan[d].start
      BY <2>2, <2>3, NBlock
    <2> QED
      BY <2>4, <2>5, NChannels
  <1> QED
    BY <1>1, <1>2 DEF SetExt

\* OSFILE 6, *DELETE and *WIPE of one file.
LEMMA NDeleted ==
  ASSUME NInv, NEW n, ~Protected(disk, n), Commit(WithoutRow(disk, n)), UNCHANGED chan
  PROVE  NInv' /\ Kept
PROOF
  <1>1. disk \in Seq(Row) /\ UniqueNames(disk)
    BY NCat
  <1> DEFINE now == WithoutRow(disk, n)
  <1>2. now \in Seq(Row) /\ UniqueNames(now)
    BY <1>1, WithoutRowIs
  <1>3. Keeps(disk, now, {n}) /\ From(disk, now, {})
    BY <1>1, WithoutKeeps
  <1>4. disk' = now /\ ram' = now /\ valid' = TRUE
    BY DEF Commit
  <1>5. ~Locked(disk, n) /\ ~IsOpen(n)
    BY FreeName
  <1> HIDE DEF now
  <1> QED
    BY <1>2, <1>3, <1>4, <1>5, NWritten

LEMMA NDelete ==
  ASSUME NInv, NEW n \in Names, Delete(n)
  PROVE  NInv' /\ Kept
PROOF
  <1>1. Cat = disk /\ disk \in Seq(Row)
    BY NCat
  <1>2. CASE Loaded /\ UNCHANGED chan
    BY <1>2, NLoaded
  <1>3. CASE Fail(Cat)
    BY <1>1, <1>3, NFail
  <1>4. CASE ~Protected(Cat, n) /\ Commit(WithoutRow(Cat, n)) /\ UNCHANGED chan
    BY <1>1, <1>4, NDeleted
  <1> QED
    BY <1>2, <1>3, <1>4 DEF Delete

LEMMA NWipe ==
  ASSUME NInv, NEW n \in Names, Wipe(n)
  PROVE  NInv' /\ Kept
PROOF
  <1>1. Cat = disk /\ disk \in Seq(Row)
    BY NCat
  <1>2. CASE Loaded /\ UNCHANGED chan
    BY <1>2, NLoaded
  <1>3. CASE Fail(disk)
    BY <1>1, <1>3, NFail
  <1>4. CASE /\ ~Locked(Cat, n) /\ ~IsOpen(n)
             /\ Commit(WithoutRow(disk, n)) /\ UNCHANGED chan
    <2>1. ~Protected(disk, n)
      BY <1>1, <1>4 DEF Protected
    <2> QED
      BY <1>4, <2>1, NDeleted
  <1> QED
    BY <1>2, <1>3, <1>4 DEF Wipe

LEMMA NRename ==
  ASSUME NInv, NEW n \in Names, NEW m \in Names, Rename(n, m)
  PROVE  NInv' /\ Kept
PROOF
  <1>1. Cat = disk /\ disk \in Seq(Row) /\ UniqueNames(disk)
    BY NCat
  <1>2. CASE Loaded /\ UNCHANGED chan
    BY <1>2, NLoaded
  <1>3. CASE Fail(Cat)
    BY <1>1, <1>3, NFail
  <1>4. CASE /\ HasName(disk, n) /\ ~Protected(disk, n) /\ (m = n \/ ~HasName(disk, m))
             /\ Commit(Renamed(disk, n, m)) /\ UNCHANGED chan
    <2> DEFINE now == Renamed(disk, n, m)
               k == RowOf(disk, n)
               new == IF m = n THEN {} ELSE {m}
    <2>1. k \in DOMAIN disk /\ disk[k].name = n
      BY <1>4, RowOfIs
    <2>2. /\ now \in Seq(Row) /\ Len(now) = Len(disk)
          /\ \A i \in DOMAIN disk : /\ now[i].name = IF i = k THEN m ELSE disk[i].name
                                    /\ now[i].start = disk[i].start
                                    /\ now[i].len = disk[i].len
      BY <1>1, <1>4, RenamedIs
    <2>3. disk' = now /\ ram' = now /\ valid' = TRUE /\ UNCHANGED chan
      BY <1>4 DEF Commit
    <2> HIDE DEF now, k
    <2>4. DOMAIN now = DOMAIN disk
      BY <1>1, <2>2
    <2>5. UniqueNames(now)
      <3>1. \A i \in DOMAIN disk : i # k => disk[i].name # m
        BY <1>1, <1>4, <2>1 DEF UniqueNames, HasName
      <3> QED
        BY <1>1, <2>2, <2>4, <3>1 DEF UniqueNames
    <2>6. Keeps(disk, now, {n})
      <3>1. \A i \in DOMAIN disk : disk[i].name # n => Same(now[i], disk[i])
        BY <2>1, <2>2 DEF Same
      <3> QED
        BY <2>4, <3>1 DEF Keeps
    <2>7. From(disk, now, new)
      <3>1. \A i \in DOMAIN disk : now[i].name \notin new => Same(now[i], disk[i])
        BY <2>1, <2>2 DEF Same
      <3> QED
        BY <2>4, <3>1 DEF From
    <2>8. /\ \A x \in {n} : ~Locked(disk, x) /\ ~IsOpen(x)
          /\ \A x \in new : HasName(disk, x) => ByOwner(x)
      BY <1>4, FreeName
    <2> HIDE DEF new
    <2> QED
      BY <2>2, <2>3, <2>5, <2>6, <2>7, <2>8, NWritten
  <1> QED
    BY <1>1, <1>2, <1>3, <1>4 DEF Rename

\* OSFILE 1 and 4, and *ACCESS.
LEMMA NRelocked ==
  ASSUME NInv, NEW now \in Seq(Row), Len(now) = Len(disk),
         \A i \in DOMAIN disk :
           /\ now[i].name = disk[i].name /\ now[i].start = disk[i].start
           /\ now[i].len = disk[i].len,
         Commit(now), UNCHANGED chan
  PROVE  NInv' /\ Kept
PROOF
  <1>1. disk \in Seq(Row) /\ UniqueNames(disk)
    BY NCat
  <1>2. UniqueNames(now)
    BY <1>1, SameExtents
  <1>3. Keeps(disk, now, {}) /\ From(disk, now, {})
    <2>1. \A i \in DOMAIN disk : Same(now[i], disk[i])
      BY DEF Same
    <2> QED
      BY <1>1, <2>1, InPlaceKeeps
  <1>4. disk' = now /\ ram' = now /\ valid' = TRUE
    BY DEF Commit
  <1> QED
    BY <1>2, <1>3, <1>4, NWritten

LEMMA NAccess ==
  ASSUME NInv, NEW ns, NEW lock \in BOOLEAN, Access(ns, lock)
  PROVE  NInv' /\ Kept
PROOF
  <1>1. Cat = disk /\ disk \in Seq(Row)
    BY NCat
  <1>2. CASE Loaded /\ UNCHANGED chan
    BY <1>2, NLoaded
  <1>3. ASSUME NEW i \in DOMAIN disk, Fail(LockedUpTo(disk, ns, lock, i - 1))
        PROVE  NInv' /\ Kept
    BY <1>1, <1>3, LockedUpToIs, NFail
  <1>4. CASE Commit(LockedUpTo(disk, ns, lock, Len(disk))) /\ UNCHANGED chan
    <2> DEFINE now == LockedUpTo(disk, ns, lock, Len(disk))
    <2>1. /\ now \in Seq(Row) /\ Len(now) = Len(disk)
          /\ \A i \in DOMAIN disk : /\ now[i].name = disk[i].name
                                    /\ now[i].start = disk[i].start
                                    /\ now[i].len = disk[i].len
      BY <1>1, LockedUpToIs
    <2> QED
      BY <1>4, <2>1, NRelocked
  <1> QED
    BY <1>1, <1>2, <1>3, <1>4 DEF Access

LEMMA NUpdateCat ==
  ASSUME NInv, NEW n \in Names, NEW lock \in BOOLEAN, UpdateCat(n, lock)
  PROVE  NInv' /\ Kept
PROOF
  <1>1. Cat = disk /\ disk \in Seq(Row)
    BY NCat
  <1>2. CASE Loaded /\ UNCHANGED chan
    BY <1>2, NLoaded
  <1>3. CASE HasName(disk, n) /\ Commit(WithLock(disk, n, lock)) /\ UNCHANGED chan
    BY <1>1, <1>3, WithLockIs, NRelocked
  <1> QED
    BY <1>1, <1>2, <1>3 DEF UpdateCat

\* *DESTROY.
LEMMA NDestroy ==
  ASSUME NInv, NEW ns, Destroy(ns)
  PROVE  NInv' /\ Kept
PROOF
  <1>1. Cat = disk /\ disk \in Seq(Row) /\ UniqueNames(disk)
    BY NCat
  <1>2. CASE Loaded /\ UNCHANGED chan
    BY <1>2, NLoaded
  <1>3. CASE Fail(disk)
    BY <1>1, <1>3, NFail
  <1>4. ASSUME NEW last \in 0 .. Len(disk), NEW k \in 0 .. Len(disk),
               NEW f \in [1 .. k -> DOMAIN disk], NEW gone,
               gone \subseteq Destroyed(ns), Survivors(k, f, gone),
               \A i \in gone : ~IsOpen(disk[i].name),
               \/ Fail([i \in 1 .. k |-> disk[f[i]]])
               \/ Commit([i \in 1 .. k |-> disk[f[i]]]) /\ UNCHANGED chan
        PROVE  NInv' /\ Kept
    <2> DEFINE rows == [i \in 1 .. k |-> disk[f[i]]]
               lost == {disk[i].name : i \in gone}
    <2>1. /\ rows \in Seq(Row) /\ DOMAIN rows = 1 .. k
          /\ \A i \in 1 .. k : f[i] \in DOMAIN disk /\ rows[i] = disk[f[i]]
      BY <1>1
    <2>2. Fail(rows) \/ (Commit(rows) /\ UNCHANGED chan)
      BY <1>4
    <2> HIDE DEF rows
    <2>3. UniqueNames(rows)
      BY <1>1, <1>4, <2>1, SubTable DEF Survivors
    <2>4. Keeps(disk, rows, lost)
      <3>1. ASSUME NEW j \in DOMAIN disk, disk[j].name \notin lost
            PROVE  \E i \in DOMAIN rows : Same(rows[i], disk[j])
        <4>1. j \notin gone
          BY <3>1
        <4>2. PICK i \in 1 .. k : f[i] = j
          BY <1>4, <4>1 DEF Survivors
        <4> QED
          BY <2>1, <4>2 DEF Same
      <3> QED
        BY <3>1 DEF Keeps
    <2>5. From(disk, rows, {})
      BY <2>1 DEF From, Same
    <2>6. \A n \in lost : ~Locked(disk, n) /\ ~IsOpen(n)
      <3>1. ASSUME NEW i \in gone
            PROVE  ~Locked(disk, disk[i].name)
        <4>1. i \in DOMAIN disk /\ ~disk[i].locked
          BY <1>4 DEF Destroyed
        <4>2. HasName(disk, disk[i].name) /\ RowOf(disk, disk[i].name) = i
          BY <1>1, <4>1, RowOfIs DEF HasName, UniqueNames
        <4> QED
          BY <4>1, <4>2 DEF Locked
      <3> QED
        BY <1>4, <3>1
    <2> HIDE DEF lost
    <2> QED
      <3>1. CASE Fail(rows)
        BY <2>1, <3>1, NFail
      <3>2. CASE Commit(rows) /\ UNCHANGED chan
        <4>1. disk' = rows /\ ram' = rows /\ valid' = TRUE /\ UNCHANGED chan
          BY <3>2 DEF Commit
        <4> QED
          BY <2>1, <2>3, <2>4, <2>5, <2>6, <4>1, NWritten
      <3> QED
        BY <2>2, <3>1, <3>2
  <1>5. Destroyed(ns) \subseteq DOMAIN disk
    BY DEF Destroyed
  <1>6. \A last : {i \in Destroyed(ns) : i <= last} \subseteq Destroyed(ns)
    OBVIOUS
  <1> QED
    BY <1>2, <1>3, <1>4, <1>6, Zenon DEF Destroy

\* Every step of Spec.
LEMMA NStep ==
  ASSUME NInv, [Next]_vars
  PROVE  NInv' /\ Kept
PROOF
  <1>1. ASSUME NEW n \in Names, NEW len \in Lengths, Save(n, len)
        PROVE  NInv' /\ Kept
    BY <1>1, NSave
  <1>2. ASSUME NEW n \in Names, OpenIn(n) \/ OpenUp(n) \/ OpenOut(n)
        PROVE  NInv' /\ Kept
    BY <1>2, NOpenOld, NOpenOut DEF OpenIn, OpenUp
  <1>3. ASSUME NEW n \in Names, Delete(n) \/ Wipe(n)
        PROVE  NInv' /\ Kept
    BY <1>3, NDelete, NWipe
  <1>4. ASSUME NEW n \in Names, NEW m \in Names, Rename(n, m)
        PROVE  NInv' /\ Kept
    BY <1>4, NRename
  <1>5. ASSUME NEW ns, NEW lock \in BOOLEAN, Access(ns, lock)
        PROVE  NInv' /\ Kept
    BY <1>5, NAccess
  <1>6. ASSUME NEW ns, Destroy(ns)
        PROVE  NInv' /\ Kept
    BY <1>6, NDestroy
  <1>7. ASSUME NEW n \in Names, NEW lock \in BOOLEAN, UpdateCat(n, lock)
        PROVE  NInv' /\ Kept
    BY <1>7, NUpdateCat
  <1>8. ASSUME NEW c \in DOMAIN chan, Close(c) \/ Bput(c) \/ Flush(c) \/ BputExtend(c)
        PROVE  NInv' /\ Kept
    BY <1>8, NClose, NBput, NExtend
  <1>9. ASSUME NEW c \in DOMAIN chan, NEW ext \in 0 .. chan[c].ext, SetExt(c, ext)
        PROVE  NInv' /\ Kept
    BY <1>9, NSetExt
  <1>10. CASE Star_CAT
    <2>1. /\ ram' \in Seq(Row) /\ valid' = FALSE /\ UNCHANGED <<disk, chan>>
      BY <1>10 DEF Star_CAT
    <2> QED
      BY <2>1, NQuiet
  <1>11. CASE UNCHANGED vars
    BY <1>11, NQuiet DEF vars, NInv, CacheFresh
  <1> QED
    BY <1>1, <1>2, <1>3, <1>4, <1>5, <1>6, <1>7, <1>8, <1>9, <1>10, <1>11
       DEF Next, CoreNext

LEMMA NInvariant == Spec => []NInv
PROOF
  <1>1. Init => NInv
    <2>1. << >> \in Seq(Row) /\ DOMAIN << >> = {}
      OBVIOUS
    <2> QED
      BY <2>1 DEF Init, NInv, CacheFresh, UniqueNames, Present
  <1>2. NInv /\ [Next]_vars => NInv'
    BY NStep
  <1> QED
    BY <1>1, <1>2, PTL DEF Spec

\* The copy of the catalogue that the ROM is willing to use is the image's, in
\* every behaviour of the full specification (and so of CoreSpec): every
\* operation that fails with the copy changed disowns it.
THEOREM CopyNeverStale == Spec => []CacheFresh
PROOF
  <1>1. NInv => CacheFresh
    BY DEF NInv
  <1> QED
    BY <1>1, NInvariant, PTL

\* A name is in the catalogue once, whatever was saved, opened, renamed, flushed
\* or extended.
THEOREM NamesStayUnique == Spec => []NamesUnique
PROOF
  <1>1. NInv => NamesUnique
    BY DEF NInv, NamesUnique
  <1> QED
    BY <1>1, NInvariant, PTL

\* The file of an open channel is not deleted, renamed, moved or replaced, not
\* even where its sectors are no longer its own.
THEOREM OpenFilesRemain == Spec => []OpenFilesStay
PROOF
  <1>1. NInv => OpenFilesStay
    BY DEF NInv, Present, OpenFilesStay
  <1> QED
    BY <1>1, NInvariant, PTL

\* No operation deletes, renames, moves or resizes a locked file that is closed.
THEOREM LockedFilesRemain == Spec => LockedFilesStay
PROOF
  <1>1. NInv /\ [Next]_vars => [LockedKept]_vars
    BY NStep DEF Kept
  <1> QED
    BY <1>1, NInvariant, PTL DEF Spec, LockedFilesStay, LockedKept

\* A file moves or is resized only by a save under its name or through a
\* channel open on it.
THEOREM ExtentsChangeByOwner == Spec => ExtentsKept
PROOF
  <1>1. NInv /\ [Next]_vars => [ExtentKept]_vars
    BY NStep DEF Kept
  <1> QED
    BY <1>1, NInvariant, PTL DEF Spec, ExtentsKept, ExtentKept, ByOwner
=============================================================================
