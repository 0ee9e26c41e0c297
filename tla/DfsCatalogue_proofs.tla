------------------------ MODULE DfsCatalogue_proofs ------------------------
(***************************************************************************)
(* Facts about the operators of DfsCatalogue, for every disk size and every *)
(* table: what the first-fit search may rely on, and that inserting,       *)
(* removing and changing rows keep a sound catalogue sound.                *)
(***************************************************************************)
EXTENDS DfsCatalogue, SequenceTheorems, TLAPS

\* The header's sector count, as inequalities.
LEMMA TotalIs ==
  TotalSectors \in Nat /\ 2 <= TotalSectors /\ TotalSectors <= 1023
BY CatalogueAssumption

\* A length fills a whole number of sectors.
LEMMA SectorsNat ==
  ASSUME NEW len \in Nat
  PROVE  SectorsOf(len) \in Nat
BY CatalogueAssumption DEF SectorsOf

\* Room for the bytes is room for the sectors.
LEMMA SectorsCover ==
  ASSUME NEW len \in Nat, NEW gap \in Nat, gap * SectorSize >= len
  PROVE  SectorsOf(len) <= gap
BY CatalogueAssumption DEF SectorsOf

\* A longer file fills no fewer sectors.
LEMMA SectorsMonotone ==
  ASSUME NEW l \in Nat, NEW m \in Nat, l <= m
  PROVE  SectorsOf(l) <= SectorsOf(m)
BY CatalogueAssumption DEF SectorsOf

\* What the library's InsertAt returns: the rows from y + 1 on move up by one.
LEMMA InsertAtIs ==
  ASSUME NEW S, NEW s \in Seq(S), NEW e \in S, NEW y \in 0 .. Len(s)
  PROVE  /\ InsertAt(s, y + 1, e) \in Seq(S)
         /\ Len(InsertAt(s, y + 1, e)) = Len(s) + 1
         /\ \A i \in 1 .. Len(s) + 1 :
              InsertAt(s, y + 1, e)[i] =
                IF i <= y THEN s[i] ELSE IF i = y + 1 THEN e ELSE s[i - 1]
<1> DEFINE p == SubSeq(s, 1, y)
           q == SubSeq(s, y + 1, Len(s))
<1>1. /\ p \in Seq(S) /\ Len(p) = y
      /\ \A i \in 1 .. y : p[i] = s[i]
  OBVIOUS
<1>2. /\ q \in Seq(S) /\ Len(q) = Len(s) - y
      /\ \A i \in 1 .. Len(s) - y : q[i] = s[y + i]
  OBVIOUS
<1>3. <<e>> \in Seq(S) /\ Len(<<e>>) = 1 /\ <<e>>[1] = e
  OBVIOUS
<1>4. InsertAt(s, y + 1, e) = (p \o <<e>>) \o q
  <2>1. (y + 1) - 1 = y
    OBVIOUS
  <2>2. QED
    BY <2>1, Zenon DEF InsertAt
<1> HIDE DEF p, q
<1> DEFINE r == p \o <<e>>
<1>5. /\ r \in Seq(S) /\ Len(r) = y + 1
      /\ \A i \in 1 .. y : r[i] = s[i]
      /\ r[y + 1] = e
  BY <1>1, <1>3
<1> HIDE DEF r
<1>6. /\ r \o q \in Seq(S) /\ Len(r \o q) = Len(s) + 1
      /\ \A i \in 1 .. y + 1 : (r \o q)[i] = r[i]
      /\ \A i \in y + 2 .. Len(s) + 1 : (r \o q)[i] = q[i - (y + 1)]
  BY <1>2, <1>5
<1>7. ASSUME NEW i \in y + 2 .. Len(s) + 1
      PROVE  (r \o q)[i] = s[i - 1]
  <2>1. i - (y + 1) \in 1 .. Len(s) - y /\ y + (i - (y + 1)) = i - 1
    OBVIOUS
  <2>2. (r \o q)[i] = q[i - (y + 1)]
    BY <1>6
  <2>3. QED
    BY <1>2, <2>1, <2>2
<1>8. InsertAt(s, y + 1, e) = r \o q
  BY <1>4 DEF r
<1>9. ASSUME NEW i \in 1 .. Len(s) + 1
      PROVE  (r \o q)[i] = IF i <= y THEN s[i] ELSE IF i = y + 1 THEN e ELSE s[i - 1]
  <2>1. CASE i <= y
    <3>1. i \in 1 .. y /\ i \in 1 .. y + 1
      BY <2>1
    <3>2. (r \o q)[i] = s[i]
      BY <1>5, <1>6, <3>1
    <3>3. QED
      BY <2>1, <3>2
  <2>2. CASE i = y + 1
    <3>1. y + 1 \in 1 .. y + 1 /\ ~ (y + 1 <= y)
      OBVIOUS
    <3>2. (r \o q)[y + 1] = e
      BY <1>5, <1>6, <3>1
    <3>3. QED
      BY <2>2, <3>1, <3>2
  <2>3. CASE ~ (i <= y) /\ i # y + 1
    <3>1. i \in y + 2 .. Len(s) + 1
      BY <2>3
    <3>2. (r \o q)[i] = s[i - 1]
      BY <1>7, <3>1
    <3>3. QED
      BY <2>3, <3>2
  <2>4. QED
    BY <2>1, <2>2, <2>3
<1>10. r \o q \in Seq(S) /\ Len(r \o q) = Len(s) + 1
  BY <1>6
<1>11. /\ InsertAt(s, y + 1, e) \in Seq(S)
       /\ Len(InsertAt(s, y + 1, e)) = Len(s) + 1
  BY <1>8, <1>10
<1>12. ASSUME NEW i \in 1 .. Len(s) + 1
       PROVE  InsertAt(s, y + 1, e)[i] =
                IF i <= y THEN s[i] ELSE IF i = y + 1 THEN e ELSE s[i - 1]
  BY <1>8, <1>9
<1>13. QED
  BY <1>11, <1>12

\* What the library's RemoveAt returns: the rows above i move down by one.
LEMMA RemoveAtIs ==
  ASSUME NEW S, NEW s \in Seq(S), NEW k \in 1 .. Len(s)
  PROVE  /\ RemoveAt(s, k) \in Seq(S)
         /\ Len(RemoveAt(s, k)) = Len(s) - 1
         /\ \A i \in 1 .. Len(s) - 1 :
              RemoveAt(s, k)[i] = IF i < k THEN s[i] ELSE s[i + 1]
<1> DEFINE p == SubSeq(s, 1, k - 1)
           q == SubSeq(s, k + 1, Len(s))
<1>1. /\ p \in Seq(S) /\ Len(p) = k - 1
      /\ \A i \in 1 .. k - 1 : p[i] = s[i]
  OBVIOUS
<1>2. /\ q \in Seq(S) /\ Len(q) = Len(s) - k
      /\ \A i \in 1 .. Len(s) - k : q[i] = s[k + i]
  OBVIOUS
<1>3. RemoveAt(s, k) = p \o q
  BY DEF RemoveAt
<1> HIDE DEF p, q
<1>4. /\ p \o q \in Seq(S) /\ Len(p \o q) = Len(s) - 1
      /\ \A i \in 1 .. k - 1 : (p \o q)[i] = p[i]
      /\ \A i \in k .. Len(s) - 1 : (p \o q)[i] = q[i - (k - 1)]
  <2>1. /\ p \o q \in Seq(S)
        /\ Len(p \o q) = Len(p) + Len(q)
        /\ \A i \in 1 .. Len(p) + Len(q) : (p \o q)[i] =
              IF i <= Len(p) THEN p[i] ELSE q[i - Len(p)]
    BY <1>1, <1>2, ConcatProperties
  <2>2. Len(p) + Len(q) = Len(s) - 1
    BY <1>1, <1>2
  <2>3. k - 1 \in 0 .. Len(s) - 1 /\ Len(p) = k - 1
    BY <1>1
  <2> HIDE DEF p, q
  <2>4. \A i \in 1 .. Len(s) - 1 : (p \o q)[i] =
              IF i <= k - 1 THEN p[i] ELSE q[i - (k - 1)]
    BY <2>1, <2>2, <2>3
  <2>5. QED
    BY <2>1, <2>2, <2>3, <2>4
<1>5. ASSUME NEW i \in 1 .. Len(s) - 1
      PROVE  (p \o q)[i] = IF i < k THEN s[i] ELSE s[i + 1]
  <2>1. CASE i < k
    BY <1>1, <1>4, <2>1
  <2>2. CASE ~(i < k)
    <3>1. i - (k - 1) \in 1 .. Len(s) - k /\ k + (i - (k - 1)) = i + 1
      BY <2>2
    <3>2. i \in k .. Len(s) - 1
      BY <2>2
    <3>3. QED
      BY <1>2, <1>4, <2>2, <3>1, <3>2
  <2>3. QED
    BY <2>1, <2>2
<1>6. QED
  BY <1>3, <1>4, <1>5

----------------------------------------------------------------------------
(* Looking a name up.                                                      *)

\* A name that is there is found at a row that has it.
LEMMA RowOfIs ==
  ASSUME NEW rows, NEW n, HasName(rows, n)
  PROVE  RowOf(rows, n) \in DOMAIN rows /\ rows[RowOf(rows, n)].name = n
BY DEF HasName, RowOf

\* The fields of a row have their types.
LEMMA RowTypes ==
  ASSUME NEW rows \in Seq(Row), NEW i \in DOMAIN rows
  PROVE  /\ rows[i] \in Row /\ rows[i].name \in Names /\ rows[i].start \in Nat
         /\ rows[i].len \in Nat
         /\ SectorsOf(rows[i].len) \in Nat
         /\ EndOf(rows[i]) \in Nat /\ rows[i].start <= EndOf(rows[i])
<1>1. rows[i] \in Row
  OBVIOUS
<1>2. rows[i].name \in Names /\ rows[i].start \in Nat /\ rows[i].len \in Nat
  BY <1>1 DEF Row
<1>3. SectorsOf(rows[i].len) \in Nat
  BY <1>2, SectorsNat
<1>4. QED
  BY <1>1, <1>2, <1>3 DEF EndOf

----------------------------------------------------------------------------
(* Placing a new row in the gap below row y.                               *)

\* A gap begins at a sector number.
LEMMA FreeFromNat ==
  ASSUME NEW rows \in Seq(Row), NEW y \in 0 .. Len(rows)
  PROVE  FreeFrom(rows, y) \in Nat
<1>1. CASE y = Len(rows)
  BY <1>1 DEF FreeFrom, FirstDataSector
<1>2. CASE y # Len(rows)
  <2>1. y + 1 \in DOMAIN rows
    BY <1>2
  <2>2. QED
    BY <1>2, <2>1, RowTypes DEF FreeFrom
<1>3. QED
  BY <1>1, <1>2

\* A number of sixteen bits survives the subtraction modulo 2^16.
LEMMA SixteenBits ==
  ASSUME NEW f \in Nat, NEW t \in Nat, f <= t, t <= 1023
  PROVE  (t - f) % 65536 = t - f
OBVIOUS

\* On a sound catalogue a gap is never negative, so the sixteen-bit
\* subtraction is the true size.
LEMMA GapIsReal ==
  ASSUME NEW rows \in Seq(Row), WellFormed(rows), NEW y \in 0 .. Len(rows)
  PROVE  /\ FreeFrom(rows, y) \in Nat /\ FreeFrom(rows, y) >= FirstDataSector
         /\ GapTop(rows, y) \in 0 .. TotalSectors
         /\ FreeFrom(rows, y) <= GapTop(rows, y)
         /\ Gap(rows, y) = GapTop(rows, y) - FreeFrom(rows, y)
<1>1. FreeFrom(rows, y) \in Nat /\ FreeFrom(rows, y) >= FirstDataSector
  <2>1. CASE y = Len(rows)
    BY <2>1 DEF FreeFrom, FirstDataSector
  <2>2. CASE y # Len(rows)
    <3>1. y + 1 \in DOMAIN rows
      BY <2>2
    <3>2. QED
      BY <2>2, <3>1, RowTypes DEF FreeFrom, WellFormed, OnDisk, FirstDataSector
  <2>3. QED
    BY <2>1, <2>2
<1>2. GapTop(rows, y) \in 0 .. TotalSectors
  <2>1. CASE y = 0
    BY <2>1, TotalIs DEF GapTop
  <2>2. CASE y # 0
    <3>1. y \in DOMAIN rows
      BY <2>2
    <3>2. QED
      BY <2>2, <3>1, RowTypes, TotalIs DEF GapTop, WellFormed, OnDisk
  <2>3. QED
    BY <2>1, <2>2
<1>3. FreeFrom(rows, y) <= GapTop(rows, y)
  <2>1. CASE y = 0 /\ y = Len(rows)
    BY <2>1, TotalIs DEF FreeFrom, GapTop, FirstDataSector
  <2>2. CASE y = 0 /\ y # Len(rows)
    <3>1. y + 1 \in DOMAIN rows
      BY <2>2
    <3>2. QED
      BY <2>2, <3>1 DEF FreeFrom, GapTop, WellFormed, OnDisk
  <2>3. CASE y # 0 /\ y = Len(rows)
    <3>1. y \in DOMAIN rows
      BY <2>3
    <3>2. QED
      BY <2>3, <3>1 DEF FreeFrom, GapTop, WellFormed, OnDisk
  <2>4. CASE y # 0 /\ y # Len(rows)
    <3>1. y \in DOMAIN rows /\ y + 1 \in DOMAIN rows /\ y < y + 1
      BY <2>4
    <3>2. QED
      BY <2>4, <3>1 DEF FreeFrom, GapTop, WellFormed, SortedAndDisjoint
  <2>5. QED
    BY <2>1, <2>2, <2>3, <2>4
<1>4. GapTop(rows, y) \in Nat /\ GapTop(rows, y) <= 1023
  BY <1>2, TotalIs
<1>5. Gap(rows, y) = GapTop(rows, y) - FreeFrom(rows, y)
  BY <1>1, <1>3, <1>4, SixteenBits DEF Gap
<1>6. QED
  BY <1>1, <1>2, <1>3, <1>5

\* The table after create_file_2 has inserted its row.
LEMMA PlacedRows ==
  ASSUME NEW rows \in Seq(Row), NEW y \in 0 .. Len(rows),
         NEW n \in Names, NEW len \in Nat
  PROVE  /\ NewRow(rows, y, n, len) \in Row
         /\ Placed(rows, y, n, len) \in Seq(Row)
         /\ Len(Placed(rows, y, n, len)) = Len(rows) + 1
         /\ \A i \in 1 .. Len(rows) + 1 :
              Placed(rows, y, n, len)[i] =
                IF i <= y THEN rows[i]
                ELSE IF i = y + 1 THEN NewRow(rows, y, n, len) ELSE rows[i - 1]
<1>1. NewRow(rows, y, n, len) \in Row
  BY FreeFromNat DEF NewRow, Row
<1>2. Placed(rows, y, n, len) = InsertAt(rows, y + 1, NewRow(rows, y, n, len))
  BY DEF Placed
<1> DEFINE new == NewRow(rows, y, n, len)
           more == InsertAt(rows, y + 1, new)
<1>3. /\ more \in Seq(Row) /\ Len(more) = Len(rows) + 1
      /\ \A i \in 1 .. Len(rows) + 1 :
           more[i] = IF i <= y THEN rows[i] ELSE IF i = y + 1 THEN new ELSE rows[i - 1]
  BY <1>1, InsertAtIs
<1> HIDE DEF new, more
<1>4. Placed(rows, y, n, len) = more
  BY <1>2 DEF more, new
<1>5. new = NewRow(rows, y, n, len)
  BY DEF new
<1>6. QED
  BY <1>1, <1>3, <1>4, <1>5

\* First fit keeps the catalogue sound: this is what the search is for.
LEMMA PlacedWellFormed ==
  ASSUME NEW rows \in Seq(Row), WellFormed(rows), NEW y \in 0 .. Len(rows),
         NEW n \in Names, NEW len \in Nat, Fits(rows, y, len)
  PROVE  WellFormed(Placed(rows, y, n, len))
<1> DEFINE new == NewRow(rows, y, n, len)
           more == Placed(rows, y, n, len)
<1>1. /\ new \in Row /\ more \in Seq(Row) /\ Len(more) = Len(rows) + 1
      /\ \A i \in 1 .. Len(rows) + 1 :
           more[i] = IF i <= y THEN rows[i]
                     ELSE IF i = y + 1 THEN new ELSE rows[i - 1]
  BY PlacedRows
<1>2. /\ new.start = FreeFrom(rows, y) /\ SectorsOf(len) \in Nat
      /\ EndOf(new) = new.start + SectorsOf(len)
  BY SectorsNat DEF NewRow, EndOf
<1>3. EndOf(new) <= GapTop(rows, y) /\ new.start >= FirstDataSector /\ new.start \in Nat
  <2>1. Gap(rows, y) \in Nat /\ Gap(rows, y) * SectorSize >= len
    BY GapIsReal, CatalogueAssumption DEF Fits
  <2>2. SectorsOf(len) <= Gap(rows, y)
    BY <2>1, SectorsCover
  <2>3. QED
    BY <1>2, <2>2, GapIsReal
<1> HIDE DEF new, more
<1>4. ASSUME NEW i \in 1 .. y
      PROVE  EndOf(new) <= rows[i].start
  <2>1. y \in DOMAIN rows /\ i \in DOMAIN rows /\ GapTop(rows, y) = rows[y].start
    BY DEF GapTop
  <2>2. rows[y].start <= rows[i].start
    <3>1. CASE i = y
      BY <3>1, <2>1, RowTypes
    <3>2. CASE i < y
      <4>1. EndOf(rows[y]) <= rows[i].start
        BY <2>1, <3>2 DEF WellFormed, SortedAndDisjoint
      <4>2. QED
        BY <4>1, <2>1, RowTypes
    <3>3. QED
      BY <3>1, <3>2
  <2>3. QED
    BY <1>2, <1>3, <2>1, <2>2, RowTypes
<1>5. ASSUME NEW j \in y + 1 .. Len(rows)
      PROVE  EndOf(rows[j]) <= new.start
  <2>1. /\ y + 1 \in DOMAIN rows /\ j \in DOMAIN rows
        /\ new.start = EndOf(rows[y + 1])
    BY <1>2 DEF FreeFrom
  <2>2. CASE j = y + 1
    BY <2>1, <2>2, RowTypes
  <2>3. CASE j # y + 1
    <3>1. EndOf(rows[j]) <= rows[y + 1].start
      BY <2>1, <2>3 DEF WellFormed, SortedAndDisjoint
    <3>2. QED
      BY <2>1, <3>1, RowTypes
  <2>4. QED
    BY <2>2, <2>3
<1>6. OnDisk(more)
  <2> SUFFICES ASSUME NEW i \in 1 .. Len(rows) + 1
               PROVE  more[i].start >= FirstDataSector /\ EndOf(more[i]) <= TotalSectors
    BY <1>1 DEF OnDisk
  <2>1. CASE i <= y
    BY <1>1, <2>1 DEF WellFormed, OnDisk
  <2>2. CASE i = y + 1
    <3>1. more[i] = new
      BY <1>1, <2>2
    <3>2. EndOf(new) <= TotalSectors
      BY <1>2, <1>3, GapIsReal, TotalIs
    <3>3. QED
      BY <1>3, <3>1, <3>2
  <2>3. CASE i > y + 1
    <3>1. i - 1 \in DOMAIN rows /\ more[i] = rows[i - 1]
      BY <1>1, <2>3
    <3>2. QED
      BY <3>1 DEF WellFormed, OnDisk
  <2>4. QED
    BY <2>1, <2>2, <2>3
<1>7. SortedAndDisjoint(more)
  <2> SUFFICES ASSUME NEW i \in 1 .. Len(rows) + 1, NEW j \in 1 .. Len(rows) + 1, i < j
               PROVE  EndOf(more[j]) <= more[i].start
    BY <1>1 DEF SortedAndDisjoint
  <2>1. CASE j <= y
    BY <1>1, <2>1 DEF WellFormed, SortedAndDisjoint
  <2>2. CASE j = y + 1
    BY <1>1, <1>4, <2>2
  <2>3. CASE j > y + 1 /\ i <= y
    <3>1. /\ j - 1 \in DOMAIN rows /\ more[j] = rows[j - 1]
          /\ i \in DOMAIN rows /\ more[i] = rows[i] /\ i < j - 1
      BY <1>1, <2>3
    <3>2. QED
      BY <3>1 DEF WellFormed, SortedAndDisjoint
  <2>4. CASE j > y + 1 /\ i = y + 1
    <3>1. j - 1 \in y + 1 .. Len(rows) /\ more[j] = rows[j - 1] /\ more[i] = new
      BY <1>1, <2>4
    <3>2. QED
      BY <1>5, <3>1
  <2>5. CASE j > y + 1 /\ i > y + 1
    <3>1. /\ j - 1 \in DOMAIN rows /\ more[j] = rows[j - 1]
          /\ i - 1 \in DOMAIN rows /\ more[i] = rows[i - 1] /\ i - 1 < j - 1
      BY <1>1, <2>5
    <3>2. QED
      BY <3>1 DEF WellFormed, SortedAndDisjoint
  <2>6. QED
    BY <2>1, <2>2, <2>3, <2>4, <2>5
<1>8. QED
  BY <1>6, <1>7 DEF WellFormed, more

\* The rows that were there, and the new one, hold their extents.
LEMMA PlacedHolds ==
  ASSUME NEW rows \in Seq(Row), NEW y \in 0 .. Len(rows),
         NEW n \in Names, NEW len \in Nat
  PROVE  /\ \A m, start, count : HoldsExtent(rows, m, start, count) =>
              HoldsExtent(Placed(rows, y, n, len), m, start, count)
         /\ y + 1 \in DOMAIN Placed(rows, y, n, len)
         /\ Placed(rows, y, n, len)[y + 1] = NewRow(rows, y, n, len)
<1> DEFINE more == Placed(rows, y, n, len)
<1>1. /\ more \in Seq(Row) /\ Len(more) = Len(rows) + 1
      /\ \A i \in 1 .. Len(rows) + 1 :
           more[i] = IF i <= y THEN rows[i]
                     ELSE IF i = y + 1 THEN NewRow(rows, y, n, len) ELSE rows[i - 1]
  BY PlacedRows
<1> HIDE DEF more
<1>2. ASSUME NEW i \in DOMAIN rows
      PROVE  \E j \in DOMAIN more : more[j] = rows[i]
  <2>1. CASE i <= y
    BY <1>1, <2>1
  <2>2. CASE i > y
    <3>1. i + 1 \in DOMAIN more /\ more[i + 1] = rows[i]
      BY <1>1, <2>2
    <3>2. QED
      BY <3>1
  <2>3. QED
    BY <2>1, <2>2
<1>3. y + 1 \in DOMAIN more /\ more[y + 1] = NewRow(rows, y, n, len)
  BY <1>1
<1>4. ASSUME NEW m, NEW start, NEW count, HoldsExtent(rows, m, start, count)
      PROVE  HoldsExtent(more, m, start, count)
  <2>1. PICK i \in DOMAIN rows : rows[i].name = m /\ rows[i].start = start
                                  /\ SectorsOf(rows[i].len) = count
    BY <1>4 DEF HoldsExtent
  <2>2. PICK j \in DOMAIN more : more[j] = rows[i]
    BY <1>2
  <2>3. QED
    BY <2>1, <2>2 DEF HoldsExtent
<1>5. QED
  BY <1>3, <1>4 DEF more

\* Placing a name that was not there keeps names unique.
LEMMA PlacedUnique ==
  ASSUME NEW rows \in Seq(Row), NEW y \in 0 .. Len(rows),
         NEW n \in Names, NEW len \in Nat, UniqueNames(rows), ~HasName(rows, n)
  PROVE  UniqueNames(Placed(rows, y, n, len))
<1> DEFINE more == Placed(rows, y, n, len)
           old(i) == IF i <= y THEN i ELSE i - 1
<1>1. more \in Seq(Row) /\ Len(more) = Len(rows) + 1
  BY PlacedRows
<1>2. more[y + 1].name = n
  <2>1. more[y + 1] = NewRow(rows, y, n, len)
    BY PlacedHolds
  <2>2. NewRow(rows, y, n, len).name = n
    BY DEF NewRow
  <2>3. QED
    BY <2>1, <2>2
<1>3. ASSUME NEW i \in 1 .. Len(rows) + 1, i # y + 1
      PROVE  old(i) \in DOMAIN rows /\ more[i] = rows[old(i)] /\ more[i].name # n
  <2>1. old(i) \in 1 .. Len(rows) /\ (i <= y => old(i) = i) /\ (~(i <= y) => old(i) = i - 1)
    BY <1>3
  <2>2. more[i] = IF i <= y THEN rows[i]
                  ELSE IF i = y + 1 THEN NewRow(rows, y, n, len) ELSE rows[i - 1]
    BY PlacedRows
  <2>3. old(i) \in DOMAIN rows /\ more[i] = rows[old(i)]
    BY <1>3, <2>1, <2>2
  <2>4. QED
    BY <2>3 DEF HasName
<1> HIDE DEF more
<1>4. SUFFICES ASSUME NEW i \in 1 .. Len(rows) + 1, NEW j \in 1 .. Len(rows) + 1,
                      more[i].name = more[j].name
               PROVE  i = j
  BY <1>1 DEF UniqueNames, more
<1>5. CASE i = y + 1 \/ j = y + 1
  <2>1. more[i].name = n /\ more[j].name = n
    BY <1>2, <1>4, <1>5
  <2>2. i = y + 1 /\ j = y + 1
    BY <1>3, <2>1
  <2>3. QED
    BY <2>2
<1>6. CASE i # y + 1 /\ j # y + 1
  <2>1. old(i) = old(j)
    BY <1>3, <1>4, <1>6 DEF UniqueNames
  <2>2. QED
    BY <1>6, <2>1
<1>7. QED
  BY <1>5, <1>6

----------------------------------------------------------------------------
(* Deleting rows and changing them in place.                               *)

\* Rows taken from a sound catalogue in their order are a sound catalogue.
LEMMA SubTable ==
  ASSUME NEW rows \in Seq(Row), NEW less \in Seq(Row),
         NEW f, \A i \in DOMAIN less : f[i] \in DOMAIN rows /\ less[i] = rows[f[i]],
         \A i, j \in DOMAIN less : i < j => f[i] < f[j]
  PROVE  /\ WellFormed(rows) => WellFormed(less)
         /\ UniqueNames(rows) => UniqueNames(less)
<1>1. WellFormed(rows) => WellFormed(less)
  BY DEF WellFormed, OnDisk, SortedAndDisjoint
<1>2. ASSUME UniqueNames(rows), NEW i \in DOMAIN less, NEW j \in DOMAIN less,
             less[i].name = less[j].name
      PROVE  i = j
  <2>1. f[i] = f[j]
    BY <1>2 DEF UniqueNames
  <2>2. i \in Nat /\ j \in Nat /\ f[i] \in Nat
    OBVIOUS
  <2>3. QED
    BY <2>1, <2>2
<1>3. QED
  BY <1>1, <1>2 DEF UniqueNames

\* A row that keeps its first sector and grows no larger disturbs nobody.
LEMMA InPlace ==
  ASSUME NEW rows \in Seq(Row), NEW now \in Seq(Row), Len(now) = Len(rows),
         \A i \in DOMAIN rows : /\ now[i].start = rows[i].start
                                /\ SectorsOf(now[i].len) <= SectorsOf(rows[i].len),
         WellFormed(rows)
  PROVE  WellFormed(now)
<1>1. DOMAIN now = DOMAIN rows
  OBVIOUS
<1>2. ASSUME NEW i \in DOMAIN rows
      PROVE  /\ now[i].start = rows[i].start /\ EndOf(now[i]) <= EndOf(rows[i])
             /\ EndOf(now[i]) \in Nat /\ EndOf(rows[i]) \in Nat /\ rows[i].start \in Nat
  BY <1>1, RowTypes DEF EndOf
<1>3. OnDisk(now)
  BY <1>1, <1>2, TotalIs DEF WellFormed, OnDisk
<1>4. SortedAndDisjoint(now)
  BY <1>1, <1>2 DEF WellFormed, SortedAndDisjoint
<1>5. QED
  BY <1>3, <1>4 DEF WellFormed

\* Deleting a row: the others stay, and the catalogue stays sound.
LEMMA WithoutRowIs ==
  ASSUME NEW rows \in Seq(Row), NEW n
  PROVE  /\ WithoutRow(rows, n) \in Seq(Row)
         /\ WellFormed(rows) => WellFormed(WithoutRow(rows, n))
         /\ UniqueNames(rows) => /\ UniqueNames(WithoutRow(rows, n))
                                /\ ~HasName(WithoutRow(rows, n), n)
         /\ \A m, start, count : m # n /\ HoldsExtent(rows, m, start, count) =>
              HoldsExtent(WithoutRow(rows, n), m, start, count)
<1> DEFINE less == WithoutRow(rows, n)
           k == RowOf(rows, n)
<1>1. CASE ~HasName(rows, n)
  BY <1>1 DEF WithoutRow
<1>2. CASE HasName(rows, n)
  <2>1. k \in 1 .. Len(rows) /\ rows[k].name = n
    BY <1>2, RowOfIs
  <2>2. less = RemoveAt(rows, k)
    BY <1>2 DEF WithoutRow
  <2> HIDE DEF k, less
  <2>3. /\ RemoveAt(rows, k) \in Seq(Row) /\ Len(RemoveAt(rows, k)) = Len(rows) - 1
        /\ \A i \in 1 .. Len(rows) - 1 :
             RemoveAt(rows, k)[i] = IF i < k THEN rows[i] ELSE rows[i + 1]
    BY <2>1, RemoveAtIs
  <2>4. /\ less \in Seq(Row) /\ Len(less) = Len(rows) - 1
        /\ \A i \in 1 .. Len(rows) - 1 :
             less[i] = IF i < k THEN rows[i] ELSE rows[i + 1]
    BY <2>2, <2>3
  <2> DEFINE f == [i \in DOMAIN less |-> IF i < k THEN i ELSE i + 1]
  <2>5. \A i \in DOMAIN less : /\ f[i] \in DOMAIN rows /\ f[i] # k
                              /\ less[i] = rows[f[i]]
    BY <2>1, <2>4
  <2>6. \A i, j \in DOMAIN less : i < j => f[i] < f[j]
    BY <2>1, <2>4
  <2>7. ASSUME NEW j \in DOMAIN rows, j # k
        PROVE  \E i \in DOMAIN less : less[i] = rows[j]
    <3>1. CASE j < k
      <4>1. j \in DOMAIN less /\ less[j] = rows[j]
        BY <2>1, <2>4, <3>1
      <4>2. QED
        BY <4>1
    <3>2. CASE ~(j < k)
      <4>1. j - 1 \in DOMAIN less /\ less[j - 1] = rows[j]
        BY <2>1, <2>4, <2>7, <3>2
      <4>2. QED
        BY <4>1
    <3>3. QED
      BY <3>1, <3>2
  <2> HIDE DEF f
  <2>8. /\ WellFormed(rows) => WellFormed(less)
        /\ UniqueNames(rows) => UniqueNames(less)
    BY <2>4, <2>5, <2>6, SubTable
  <2>9. ASSUME UniqueNames(rows), HasName(less, n)
        PROVE  FALSE
    <3>1. PICK i \in DOMAIN less : less[i].name = n
      BY <2>9 DEF HasName
    <3>2. QED
      BY <2>1, <2>5, <2>9, <3>1 DEF UniqueNames
  <2>10. ASSUME NEW m, NEW start, NEW count, m # n, HoldsExtent(rows, m, start, count)
         PROVE  HoldsExtent(less, m, start, count)
    <3>1. PICK j \in DOMAIN rows : rows[j].name = m /\ rows[j].start = start
                                    /\ SectorsOf(rows[j].len) = count
      BY <2>10 DEF HoldsExtent
    <3>2. PICK i \in DOMAIN less : less[i] = rows[j]
      BY <2>1, <2>7, <2>10, <3>1
    <3>3. QED
      BY <3>1, <3>2 DEF HoldsExtent
  <2>11. QED
    BY <2>4, <2>8, <2>9, <2>10 DEF less
<1>3. QED
  BY <1>1, <1>2

\* A new length in one row leaves the other rows as they were.
LEMMA ResizedIs ==
  ASSUME NEW rows \in Seq(Row), NEW n, HasName(rows, n), NEW len \in Nat
  PROVE  /\ Resized(rows, n, len) \in Seq(Row)
         /\ Len(Resized(rows, n, len)) = Len(rows)
         /\ \A i \in DOMAIN rows :
              /\ Resized(rows, n, len)[i].name = rows[i].name
              /\ Resized(rows, n, len)[i].start = rows[i].start
              /\ Resized(rows, n, len)[i].len =
                   IF i = RowOf(rows, n) THEN len ELSE rows[i].len
<1> DEFINE k == RowOf(rows, n)
           row == [rows[k] EXCEPT !.len = len]
<1>1. k \in DOMAIN rows
  BY RowOfIs
<1>2. Resized(rows, n, len) = [rows EXCEPT ![k] = row]
  BY DEF Resized
<1>3. rows[k] \in Row
  BY <1>1
<1>4. row \in Row /\ row.name = rows[k].name /\ row.start = rows[k].start /\ row.len = len
  BY <1>3 DEF Row
<1> HIDE DEF k, row
<1>5. [rows EXCEPT ![k] = row] \in Seq(Row) /\ Len([rows EXCEPT ![k] = row]) = Len(rows)
  BY <1>1, <1>4
<1>6. \A i \in DOMAIN rows : [rows EXCEPT ![k] = row][i] = IF i = k THEN row ELSE rows[i]
  BY <1>1
<1>7. QED
  BY <1>2, <1>4, <1>5, <1>6 DEF k

\* A new name in one row leaves the other rows as they were.
LEMMA RenamedIs ==
  ASSUME NEW rows \in Seq(Row), NEW n, HasName(rows, n), NEW m \in Names
  PROVE  /\ Renamed(rows, n, m) \in Seq(Row)
         /\ Len(Renamed(rows, n, m)) = Len(rows)
         /\ \A i \in DOMAIN rows :
              /\ Renamed(rows, n, m)[i].name =
                   IF i = RowOf(rows, n) THEN m ELSE rows[i].name
              /\ Renamed(rows, n, m)[i].start = rows[i].start
              /\ Renamed(rows, n, m)[i].len = rows[i].len
<1> DEFINE k == RowOf(rows, n)
           row == [rows[k] EXCEPT !.name = m]
<1>1. k \in DOMAIN rows
  BY RowOfIs
<1>2. Renamed(rows, n, m) = [rows EXCEPT ![k] = row]
  BY DEF Renamed
<1>3. rows[k] \in Row
  BY <1>1
<1>4. row \in Row /\ row.name = m /\ row.start = rows[k].start /\ row.len = rows[k].len
  BY <1>3 DEF Row
<1> HIDE DEF k, row
<1>5. [rows EXCEPT ![k] = row] \in Seq(Row) /\ Len([rows EXCEPT ![k] = row]) = Len(rows)
  BY <1>1, <1>4
<1>6. \A i \in DOMAIN rows : [rows EXCEPT ![k] = row][i] = IF i = k THEN row ELSE rows[i]
  BY <1>1
<1>7. QED
  BY <1>2, <1>4, <1>5, <1>6 DEF k

\* A new lock bit in one row leaves the other rows as they were.
LEMMA WithLockIs ==
  ASSUME NEW rows \in Seq(Row), NEW n, HasName(rows, n), NEW lock \in BOOLEAN
  PROVE  /\ WithLock(rows, n, lock) \in Seq(Row)
         /\ Len(WithLock(rows, n, lock)) = Len(rows)
         /\ \A i \in DOMAIN rows :
              /\ WithLock(rows, n, lock)[i].name = rows[i].name
              /\ WithLock(rows, n, lock)[i].start = rows[i].start
              /\ WithLock(rows, n, lock)[i].len = rows[i].len
<1> DEFINE k == RowOf(rows, n)
           row == [rows[k] EXCEPT !.locked = lock]
<1>1. k \in DOMAIN rows
  BY RowOfIs
<1>2. WithLock(rows, n, lock) = [rows EXCEPT ![k] = row]
  BY DEF WithLock
<1>3. rows[k] \in Row
  BY <1>1
<1>4. /\ row \in Row /\ row.name = rows[k].name
      /\ row.start = rows[k].start /\ row.len = rows[k].len
  BY <1>3 DEF Row
<1> HIDE DEF k, row
<1>5. [rows EXCEPT ![k] = row] \in Seq(Row) /\ Len([rows EXCEPT ![k] = row]) = Len(rows)
  BY <1>1, <1>4
<1>6. \A i \in DOMAIN rows : [rows EXCEPT ![k] = row][i] = IF i = k THEN row ELSE rows[i]
  BY <1>1
<1>7. QED
  BY <1>2, <1>4, <1>5, <1>6 DEF k

\* Rows that keep name, first sector and size hold what they held.
LEMMA SameExtents ==
  ASSUME NEW rows \in Seq(Row), NEW now \in Seq(Row), Len(now) = Len(rows),
         \A i \in DOMAIN rows :
           /\ now[i].name = rows[i].name /\ now[i].start = rows[i].start
           /\ now[i].len = rows[i].len
  PROVE  /\ WellFormed(rows) => WellFormed(now)
         /\ UniqueNames(rows) => UniqueNames(now)
         /\ \A m, start, count : HoldsExtent(rows, m, start, count) =>
              HoldsExtent(now, m, start, count)
<1>1. DOMAIN now = DOMAIN rows
  OBVIOUS
<1>2. \A i \in DOMAIN rows : SectorsOf(now[i].len) <= SectorsOf(rows[i].len)
  BY RowTypes
<1>3. WellFormed(rows) => WellFormed(now)
  BY <1>2, InPlace
<1>4. UniqueNames(rows) => UniqueNames(now)
  BY <1>1 DEF UniqueNames
<1>5. QED
  BY <1>1, <1>3, <1>4 DEF HoldsExtent
=============================================================================
