---------------------------- MODULE DfsCatalogue ----------------------------
(***************************************************************************)
(* The Acorn DFS catalogue of one disk image, as the ROM keeps it in       *)
(* memory at &0E00-&0FFF: a table of rows in DESCENDING order of their     *)
(* first sector, and the first-fit search that finds room for a new file   *)
(* (src/src/disk/vectors/filev/osfile_helpers.s).                          *)
(*                                                                         *)
(* A row keeps what allocation and protection depend on: the name (the     *)
(* seven characters and the directory letter), the first sector, the       *)
(* length in bytes and the lock bit.  Load and execution addresses, the    *)
(* title and the boot option are left out.                                 *)
(***************************************************************************)
EXTENDS Integers, Sequences, SequencesExt

CONSTANTS
  Names,          \* file names: directory letter and leaf name together
  SectorSize,     \* bytes in a sector: 256 in the code
  TotalSectors,   \* the catalogue header's ten-bit sector count
  MaxFiles        \* rows the table holds: 31 in the code

ASSUME CatalogueAssumption ==
  /\ SectorSize \in Nat \ {0}
  /\ TotalSectors \in 2 .. 1023
  /\ MaxFiles \in Nat \ {0}

Row == [name : Names, start : Nat, len : Nat, locked : BOOLEAN]

----------------------------------------------------------------------------
(* Extents.  Sectors 0 and 1 hold the catalogue itself.                    *)

FirstDataSector == 2

SectorsOf(len) == (len + SectorSize - 1) \div SectorSize

EndOf(row) == row.start + SectorsOf(row.len)

----------------------------------------------------------------------------
(* Looking a name up.                                                      *)

HasName(rows, n) == \E i \in DOMAIN rows : rows[i].name = n

RowOf(rows, n) == CHOOSE i \in DOMAIN rows : rows[i].name = n

\* A file of that name, at that first sector, that fills count sectors.
HoldsExtent(rows, n, start, count) ==
  \E i \in DOMAIN rows :
    rows[i].name = n /\ rows[i].start = start /\ SectorsOf(rows[i].len) = count

NamesIn(rows) == {rows[i].name : i \in DOMAIN rows}

----------------------------------------------------------------------------
(* Creating a row.  Position y stands for the gap below row y: from the    *)
(* end of row y+1 (or the first data sector, after the last row) up to the *)
(* start of row y (or the end of the disk, for y = 0).  The size of the    *)
(* gap is a sixteen-bit subtraction, so a negative gap comes out huge.     *)

\* Faulty variant: the carry from the low byte of the length lost.
FreeFrom_no_carry(rows, y) ==
  IF y = Len(rows) THEN FirstDataSector
                   ELSE rows[y + 1].start + rows[y + 1].len \div SectorSize

FreeFrom(rows, y) ==
  IF y = Len(rows) THEN FirstDataSector ELSE EndOf(rows[y + 1])

GapTop(rows, y) == IF y = 0 THEN TotalSectors ELSE rows[y].start

Gap(rows, y) == (GapTop(rows, y) - FreeFrom(rows, y)) % 65536

Fits(rows, y, len) == Gap(rows, y) * SectorSize >= len

\* The search walks from the last row of the table to the first.
FirstFit(rows, y, len) ==
  /\ y \in 0 .. Len(rows)
  /\ Fits(rows, y, len)
  /\ \A z \in (y + 1) .. Len(rows) : ~Fits(rows, z, len)

DiskFull(rows, len) == \A y \in 0 .. Len(rows) : ~Fits(rows, y, len)

CatFull(rows) == Len(rows) >= MaxFiles

NewRow(rows, y, n, len) ==
  [name |-> n, start |-> FreeFrom(rows, y), len |-> len, locked |-> FALSE]

Placed(rows, y, n, len) == InsertAt(rows, y + 1, NewRow(rows, y, n, len))

----------------------------------------------------------------------------
(* Changing and deleting rows.                                             *)

\* Faulty variant: a save that forgets the old row.
WithoutRow_kept(rows, n) == rows

WithoutRow(rows, n) ==
  IF HasName(rows, n) THEN RemoveAt(rows, RowOf(rows, n)) ELSE rows

\* Faulty variant: the catalogue offset of the first row used.
Resized_first_row(rows, n, len) == [rows EXCEPT ![1].len = len]

Resized(rows, n, len) == [rows EXCEPT ![RowOf(rows, n)].len = len]

Renamed(rows, n, m) == [rows EXCEPT ![RowOf(rows, n)].name = m]

WithLock(rows, n, lock) == [rows EXCEPT ![RowOf(rows, n)].locked = lock]

----------------------------------------------------------------------------
(* What a sound catalogue is.                                              *)

UniqueNames(rows) ==
  \A i, j \in DOMAIN rows : rows[i].name = rows[j].name => i = j

\* Every extent lies on the disk, above the catalogue.
OnDisk(rows) ==
  \A i \in DOMAIN rows :
    rows[i].start >= FirstDataSector /\ EndOf(rows[i]) <= TotalSectors

\* A later row lies wholly below an earlier one: the table is sorted and no
\* two files share a sector.
SortedAndDisjoint(rows) ==
  \A i, j \in DOMAIN rows : i < j => EndOf(rows[j]) <= rows[i].start

WellFormed(rows) == OnDisk(rows) /\ SortedAndDisjoint(rows)

=============================================================================
