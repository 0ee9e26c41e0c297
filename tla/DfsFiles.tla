------------------------------ MODULE DfsFiles ------------------------------
(***************************************************************************)
(* The disk filing system over one mounted image: the catalogue on the     *)
(* image, the ROM's copy of it in memory, and the channel blocks of the    *)
(* open files.  One action per operation of OSFILE, OSFIND, OSARGS, OSBPUT *)
(* and of the star commands that change the catalogue.                     *)
(*                                                                         *)
(* The machine runs one filing-system call at a time, so every action is a *)
(* whole call.  What a byte is, and the sector buffer of a channel, are    *)
(* left to the sector level; here a write moves EXT and may need more room.*)
(* PTR is not a variable: OSARGS 1 puts it anywhere in 0..EXT.             *)
(***************************************************************************)
EXTENDS DfsCatalogue

CONSTANTS
  Lengths,        \* the lengths OSFILE 0 is asked to save
  NumChannels,    \* channel blocks: 5 in the code
  PreAlloc,       \* sectors OPENOUT gives a new file: 64 in the code
  ExtendStep      \* granule of an extension in sectors: 256 in the code

ASSUME FilesAssumption ==
  /\ Lengths \subseteq Nat
  /\ NumChannels \in Nat
  /\ PreAlloc \in Nat
  /\ ExtendStep \in Nat \ {0}

VARIABLES
  disk,    \* the rows of the catalogue on the image
  ram,     \* the rows of the ROM's copy
  valid,   \* current_cat = current_drv: the copy may be used
  chan     \* channel -> channel block, for the bits set in fuji_open_channels

vars == <<disk, ram, valid, chan>>

Channels == 1 .. NumChannels

\* A channel block: the bytes of the row copied at open, and EXT, the sector
\* count (&1119/&111A), and flag bit 5.  ro is bit 7 of name byte 7.
Block == [name : Names, ro : BOOLEAN, locked : BOOLEAN, start : Nat,
          ext : Nat, alloc : Nat, upd : BOOLEAN]

TypeOK ==
  /\ disk \in Seq(Row)
  /\ ram \in Seq(Row)
  /\ valid \in BOOLEAN
  /\ DOMAIN chan \subseteq Channels
  /\ \A c \in DOMAIN chan : chan[c] \in Block

\* A freshly formatted image: an empty catalogue.
Init ==
  /\ disk = << >>
  /\ ram = << >>
  /\ valid = FALSE
  /\ chan = << >>

----------------------------------------------------------------------------
(* Steps that every operation is built from.                               *)

\* check_cur_drv_cat: the copy if it may be used, or the image's catalogue.
Cat == IF valid THEN ram ELSE disk

\* The operation only looked at the catalogue.
Loaded ==
  ram' = Cat /\ valid' = TRUE /\ UNCHANGED disk

\* save_cat_to_disk.
Commit(rows) ==
  disk' = rows /\ ram' = rows /\ valid' = TRUE

\* Faulty variant: report_error in the place of report_error_cb.
Fail_keeping_copy(rows) ==
  ram' = rows /\ valid' = TRUE /\ UNCHANGED <<disk, chan>>

\* report_error_cb: the error forgets the copy, whatever was done to it.
Fail(rows) ==
  ram' = rows /\ valid' = FALSE /\ UNCHANGED <<disk, chan>>

IsOpen(n) == \E c \in DOMAIN chan : chan[c].name = n

Locked(rows, n) == HasName(rows, n) /\ rows[RowOf(rows, n)].locked

\* is_file_open_yoffset leaves the lowest free channel, if there is one.
LowestFree(c) ==
  /\ c \in Channels \ DOMAIN chan
  /\ \A d \in Channels : d < c => d \in DOMAIN chan

NoFreeChannel == Channels \subseteq DOMAIN chan

Opened(c, b) == [d \in DOMAIN chan \cup {c} |-> IF d = c THEN b ELSE chan[d]]

Closed(c) == [d \in DOMAIN chan \ {c} |-> chan[d]]

\* setup_channel_info_block: op is "in", "up" or "out".
NewBlock(row, op) ==
  [name |-> row.name, ro |-> op = "in", locked |-> row.locked,
   start |-> row.start, alloc |-> SectorsOf(row.len),
   ext |-> IF op = "out" THEN 0 ELSE row.len, upd |-> op = "out"]

Open(rows, n, op) ==
  \E c \in Channels :
    LowestFree(c) /\ chan' = Opened(c, NewBlock(rows[RowOf(rows, n)], op))

----------------------------------------------------------------------------
(* OSFILE 0: create_file_fsp deletes the old row in memory, looks for room, *)
(* and writes the catalogue once.                                          *)

\* Faulty variants: one of the two checks left out.
Protected_unless_open(rows, n) == Locked(rows, n)

Protected_unless_locked(rows, n) == HasName(rows, n) /\ IsOpen(n)

Protected(rows, n) == Locked(rows, n) \/ (HasName(rows, n) /\ IsOpen(n))

SaveRefused(n) ==
  Protected(Cat, n) /\ Fail(Cat)

SaveNoRoom(n, len) ==
  /\ ~Protected(Cat, n)
  /\ LET rest == WithoutRow(Cat, n)
     IN  (CatFull(rest) \/ DiskFull(rest, len)) /\ Fail(rest)

SaveDone(n, len) ==
  /\ ~Protected(Cat, n)
  /\ LET rest == WithoutRow(Cat, n)
     IN  /\ ~CatFull(rest)
         /\ \E y \in 0 .. Len(rest) :
              FirstFit(rest, y, len) /\ Commit(Placed(rest, y, n, len))
  /\ UNCHANGED chan

Save(n, len) == SaveRefused(n) \/ SaveNoRoom(n, len) \/ SaveDone(n, len)

----------------------------------------------------------------------------
(* OSFIND.                                                                 *)

\* Faulty variant: only a writer already there keeps others out.
OpenClash_late_writer(n, op) ==
  \E c \in DOMAIN chan : chan[c].name = n /\ ~chan[c].ro

\* A file may be open several times for input, or once for anything else.
OpenClash(n, op) ==
  \E c \in DOMAIN chan : chan[c].name = n /\ (~chan[c].ro \/ op # "in")

\* OPENIN and OPENUP: handle 0 if the file is not there.
OpenOld(n, op) ==
  \/ ~HasName(Cat, n) /\ Loaded /\ UNCHANGED chan
  \/ HasName(Cat, n) /\ (OpenClash(n, op) \/ NoFreeChannel) /\ Fail(Cat)
  \/ HasName(Cat, n) /\ ~OpenClash(n, op) /\ Open(Cat, n, op) /\ Loaded

OpenIn(n) == OpenOld(n, "in")

OpenUp(n) == OpenOld(n, "up")

\* OPENOUT of a file that exists keeps its room and empties it.
OpenOutOld(n) ==
  /\ HasName(Cat, n)
  /\ \/ (Locked(Cat, n) \/ OpenClash(n, "out") \/ NoFreeChannel) /\ Fail(Cat)
     \/ ~Locked(Cat, n) /\ ~OpenClash(n, "out") /\ Open(Cat, n, "out") /\ Loaded

\* OPENOUT of a new name creates the file, and then looks for a channel.
OpenOutNew(n) ==
  /\ ~HasName(Cat, n)
  /\ \/ (CatFull(Cat) \/ DiskFull(Cat, PreAlloc * SectorSize)) /\ Fail(Cat)
     \/ /\ ~CatFull(Cat)
        /\ \E y \in 0 .. Len(Cat) :
             /\ FirstFit(Cat, y, PreAlloc * SectorSize)
             /\ LET rows == Placed(Cat, y, n, PreAlloc * SectorSize)
                IN  \/ Open(rows, n, "out") /\ Commit(rows)
                    \/ /\ NoFreeChannel
                       /\ disk' = rows /\ ram' = rows /\ valid' = FALSE
                       /\ UNCHANGED chan

OpenOut(n) == OpenOutOld(n) \/ OpenOutNew(n)

\* The catalogue's part of closing: flag bit 5 writes EXT as the length; bit
\* 6 alone (a dirty buffer, not modelled) only looks the row up.
CloseCatalogue(b, dirty) ==
  \/ ~b.upd /\ ~dirty /\ UNCHANGED <<disk, ram, valid>>
  \/ ~b.upd /\ dirty /\ HasName(Cat, b.name) /\ Loaded
  \/ b.upd /\ HasName(Cat, b.name) /\ Commit(Resized(Cat, b.name, b.ext))

\* "Disc changed": the open bit has been cleared already.
CloseLost(b, dirty) ==
  /\ b.upd \/ dirty
  /\ ~HasName(Cat, b.name)
  /\ ram' = Cat /\ valid' = FALSE /\ UNCHANGED disk

\* OSFIND 0, for one channel; closing all of them is a sequence of these.
Close(c) ==
  /\ \E dirty \in BOOLEAN :
       CloseCatalogue(chan[c], dirty) \/ CloseLost(chan[c], dirty)
  /\ chan' = Closed(c)

\* OSARGS &FF: close the file and set its open bit again.
Flush(c) ==
  /\ \E dirty \in BOOLEAN :
       \/ CloseCatalogue(chan[c], dirty) /\ UNCHANGED chan
       \/ CloseLost(chan[c], dirty) /\ chan' = Closed(c)

----------------------------------------------------------------------------
(* OSBPUT and OSARGS 3.                                                    *)

\* A byte at PTR = p.  Neither the read-only bit nor the lock bit is tested:
\* bp_entry looks for them in bit 7 of the first character of the name, which
\* is clear, and of the low byte of the load address, which is any byte.
PutAt(b, p) ==
  [b EXCEPT !.ext = IF p + 1 >= b.ext THEN p + 1 ELSE b.ext,
            !.upd = b.upd \/ p + 1 >= b.ext]

BputRefused == Fail(ram)

Bput(c) ==
  \/ BputRefused
  \/ /\ \E p \in 0 .. chan[c].ext :
          p < chan[c].alloc * SectorSize /\ chan' = [chan EXCEPT ![c] = PutAt(@, p)]
     /\ UNCHANGED <<disk, ram, valid>>

\* A byte at the end of the last sector the file has.  The gap above it is
\* never compared with anything that could stop the extension; the length
\* field of the row has eighteen bits, the sector count sixteen.
Extended(alloc) == (alloc \div ExtendStep + 1) * ExtendStep

BputExtend(c) ==
  /\ LET b == chan[c]
         alloc == Extended(b.alloc) % (256 * ExtendStep)
         len == (alloc * SectorSize) % (4 * ExtendStep * SectorSize)
     IN  /\ b.ext = b.alloc * SectorSize
         /\ \/ /\ HasName(Cat, b.name)
               /\ Commit(Resized(Cat, b.name, len))
               /\ chan' = [chan EXCEPT ![c] =
                             PutAt([b EXCEPT !.alloc = alloc], b.ext)]
            \/ ~HasName(Cat, b.name) /\ Fail(Cat)

\* OSARGS 3 down to at most EXT; above EXT it is a run of OSBPUTs first.
SetExt(c, ext) ==
  /\ \/ (chan[c].ro \/ chan[c].locked) /\ Fail(ram)
     \/ /\ ~chan[c].ro /\ ~chan[c].locked
        /\ chan' = [chan EXCEPT ![c].ext = ext, ![c].upd = TRUE]
        /\ UNCHANGED <<disk, ram, valid>>

----------------------------------------------------------------------------
(* OSFILE 6 and *DELETE, OSFILE 1-4 and *ACCESS, *RENAME, *WIPE, *DESTROY.  *)

Delete(n) ==
  \/ ~HasName(Cat, n) /\ Loaded /\ UNCHANGED chan
  \/ Protected(Cat, n) /\ Fail(Cat)
  \/ /\ HasName(Cat, n) /\ ~Protected(Cat, n)
     /\ Commit(WithoutRow(Cat, n)) /\ UNCHANGED chan

Rename(n, m) ==
  \/ ~HasName(Cat, n) /\ Loaded /\ UNCHANGED chan
  \/ Protected(Cat, n) /\ Fail(Cat)
  \/ HasName(Cat, n) /\ ~Protected(Cat, n) /\ m # n /\ HasName(Cat, m) /\ Fail(Cat)
  \/ /\ HasName(Cat, n) /\ ~Protected(Cat, n) /\ (m = n \/ ~HasName(Cat, m))
     /\ Commit(Renamed(Cat, n, m)) /\ UNCHANGED chan

\* *ACCESS changes the rows that match one by one, in memory, and stops at
\* the first open file; the rows before it have been changed by then.
LockedUpTo(rows, ns, lock, last) ==
  [i \in DOMAIN rows |->
     IF i <= last /\ rows[i].name \in ns THEN [rows[i] EXCEPT !.locked = lock]
                                         ELSE rows[i]]

FirstOpenMatch(rows, ns, i) ==
  /\ i \in DOMAIN rows /\ rows[i].name \in ns /\ IsOpen(rows[i].name)
  /\ \A j \in 1 .. (i - 1) : ~(rows[j].name \in ns /\ IsOpen(rows[j].name))

\* *ACCESS, and OSFILE 4 when one name matches.
Access(ns, lock) ==
  \/ /\ NamesIn(Cat) \cap ns = {} /\ Loaded /\ UNCHANGED chan
  \/ \E i \in DOMAIN Cat :
       FirstOpenMatch(Cat, ns, i) /\ Fail(LockedUpTo(Cat, ns, lock, i - 1))
  \/ /\ NamesIn(Cat) \cap ns # {}
     /\ \A n \in NamesIn(Cat) \cap ns : ~IsOpen(n)
     /\ Commit(LockedUpTo(Cat, ns, lock, Len(Cat))) /\ UNCHANGED chan

\* OSFILE 1 sets the lock bit of a file whether it is open or not.
UpdateCat(n, lock) ==
  \/ ~HasName(Cat, n) /\ Loaded /\ UNCHANGED chan
  \/ HasName(Cat, n) /\ Commit(WithLock(Cat, n, lock)) /\ UNCHANGED chan

\* *WIPE for one file of its list, that the user may keep.
\* check_for_disk_change compares the catalogue's cycle number with the drive
\* number, so it may say "Disc changed" of a disk nobody touched: the outcome
\* is left open.
Wipe(n) ==
  \/ Loaded /\ UNCHANGED chan
  \/ HasName(Cat, n) /\ ~Locked(Cat, n) /\ Fail(disk)
  \/ /\ HasName(Cat, n) /\ ~Locked(Cat, n) /\ ~IsOpen(n)
     /\ Commit(WithoutRow(disk, n)) /\ UNCHANGED chan

\* *DESTROY asks once, deletes its rows in memory, stopping at an open file,
\* and writes the catalogue once.  f lists the rows that stay, in their order.
Destroyed(ns) == {i \in DOMAIN disk : disk[i].name \in ns /\ ~disk[i].locked}

Survivors(k, f, gone) ==
  /\ f \in [1 .. k -> DOMAIN disk]
  /\ \A i, j \in 1 .. k : i < j => f[i] < f[j]
  /\ {f[i] : i \in 1 .. k} = DOMAIN disk \ gone

Destroy(ns) ==
  \/ Loaded /\ UNCHANGED chan
  \/ NamesIn(Cat) \cap ns # {} /\ Fail(disk)
  \/ /\ NamesIn(Cat) \cap ns # {}
     /\ \E last \in 0 .. Len(disk), k \in 0 .. Len(disk) :
        \E f \in [1 .. k -> DOMAIN disk] :
          LET gone == {i \in Destroyed(ns) : i <= last}
              rows == [i \in 1 .. k |-> disk[f[i]]]
          IN  /\ Survivors(k, f, gone)
              /\ \A i \in gone : ~IsOpen(disk[i].name)
              /\ \/ /\ last + 1 \in Destroyed(ns)
                    /\ IsOpen(disk[last + 1].name)
                    /\ Fail(rows)
                 \/ last = Len(disk) /\ Commit(rows) /\ UNCHANGED chan

\* *CAT uses the copy's memory for its own sorting.
Star_CAT ==
  ram' = << >> /\ valid' = FALSE /\ UNCHANGED <<disk, chan>>

----------------------------------------------------------------------------
CoreNext ==
  \/ \E n \in Names, len \in Lengths : Save(n, len)
  \/ \E n \in Names : OpenIn(n) \/ OpenUp(n) \/ OpenOut(n)
  \/ \E n \in Names : Delete(n) \/ Wipe(n)
  \/ \E n, m \in Names : Rename(n, m)
  \/ \E ns \in SUBSET NamesIn(Cat), lock \in BOOLEAN : Access(ns, lock)
  \/ \E ns \in SUBSET NamesIn(Cat) : Destroy(ns)
  \/ \E n \in Names, lock \in BOOLEAN : UpdateCat(n, lock)
  \/ \E c \in DOMAIN chan : Close(c) \/ Bput(c)
  \/ \E c \in DOMAIN chan : \E ext \in 0 .. chan[c].ext : SetExt(c, ext)
  \/ Star_CAT

\* The two operations that give up the reservation of an open file.
Next ==
  \/ CoreNext
  \/ \E c \in DOMAIN chan : Flush(c) \/ BputExtend(c)

ExtendNext == CoreNext \/ \E c \in DOMAIN chan : BputExtend(c)

CoreSpec == Init /\ [][CoreNext]_vars

ExtendSpec == Init /\ [][ExtendNext]_vars

Spec == Init /\ [][Next]_vars

----------------------------------------------------------------------------
(* Properties.                                                             *)

\* A copy of the catalogue the ROM is willing to use is the one on the image:
\* an operation that fails after changing the copy must have disowned it.
CacheFresh == valid => ram = disk

\* A name is in the catalogue once, so an open file, a deletion or a rename
\* means one file.
NamesUnique == UniqueNames(disk)

\* The files of the image lie on the disk and no two share a sector.
NoOverlap == WellFormed(disk)

\* The sectors a channel may write into without asking for more are those of
\* its own file's row: nothing else can be put there while it is open.
ChannelsReserved ==
  \A c \in DOMAIN chan :
    /\ HoldsExtent(disk, chan[c].name, chan[c].start, chan[c].alloc)
    /\ SectorsOf(chan[c].ext) <= chan[c].alloc

\* Two channels on one file are both open for input.
OneWriter ==
  \A c, d \in DOMAIN chan :
    c # d /\ chan[c].name = chan[d].name => chan[c].ro /\ chan[d].ro

\* A channel reads and writes through the first sector it saw at open: the
\* file is still there, under its name, for as long as the channel is open.
OpenFilesStay ==
  \A c \in DOMAIN chan :
    \E i \in DOMAIN disk :
      disk[i].name = chan[c].name /\ disk[i].start = chan[c].start

\* A locked file that is not open stays as it is, apart from its lock bit.
LockedFilesStay ==
  [][\A i \in DOMAIN disk :
       disk[i].locked /\ ~IsOpen(disk[i].name) =>
         \E j \in DOMAIN disk' :
           disk'[j] = [disk[i] EXCEPT !.locked = disk'[j].locked]]_vars

\* The extent of a file changes only by a save under its name or through a
\* channel open on it, whatever happens to the rows around it.
ExtentsKept ==
  [][\A i \in DOMAIN disk, j \in DOMAIN disk' :
       /\ disk[i].name = disk'[j].name
       /\ disk[i].start # disk'[j].start \/ disk[i].len # disk'[j].len
       => \/ \E len \in Lengths : Save(disk[i].name, len)
          \/ \E c \in DOMAIN chan :
               chan[c].name = disk[i].name /\ (Close(c) \/ Flush(c) \/ BputExtend(c))]_vars

\* The inductive invariant behind NoOverlap and ChannelsReserved.  What it adds
\* is that an input channel's EXT always fills the sectors of its row, so that
\* closing one of several readers resizes nothing under the others.
RowsSound(rows, ch) ==
  /\ rows \in Seq(Row) /\ UniqueNames(rows) /\ WellFormed(rows)
  /\ \A c \in DOMAIN ch : HoldsExtent(rows, ch[c].name, ch[c].start, ch[c].alloc)

ChannelsSound(ch) ==
  /\ DOMAIN ch \subseteq Channels
  /\ \A c \in DOMAIN ch :
       /\ ch[c] \in Block
       /\ SectorsOf(ch[c].ext) <= ch[c].alloc
       /\ ch[c].ro => SectorsOf(ch[c].ext) = ch[c].alloc
  /\ \A c, d \in DOMAIN ch :
       c # d /\ ch[c].name = ch[d].name => ch[c].ro /\ ch[d].ro

IInv ==
  /\ RowsSound(disk, chan)
  /\ ChannelsSound(chan)
  /\ ram \in Seq(Row) /\ valid \in BOOLEAN
  /\ CacheFresh
=============================================================================
