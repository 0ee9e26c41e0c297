---------------------------- MODULE ChannelBuffer ----------------------------
(***************************************************************************)
(* One disk file open on one channel, byte by byte: PTR, EXT, the sector   *)
(* buffer of the channel and the flag bits that say what the buffer holds. *)
(*                                                                         *)
(* Sectors are counted from the start of the file.  The row of the file    *)
(* stays on the disk while it is open (DfsFiles says when), so "Disc       *)
(* changed" is left out here, and so is a change of drive.                 *)
(***************************************************************************)
EXTENDS Naturals, Sequences

CONSTANTS
  Byte,         \* the values of a byte
  Zero,         \* the byte 0
  SectorSize,   \* 256 in the code
  MaxSectors,   \* bound of this model on the sectors of the file
  ExtendStep,   \* granule of an extension in sectors: 256 in the code
  Faults        \* subset of {"load", "save"}: buffer transfers that may fail

ASSUME BufferAssumption ==
  /\ Zero \in Byte
  /\ SectorSize \in Nat \ {0} /\ MaxSectors \in Nat /\ ExtendStep \in Nat \ {0}

VARIABLES
  disk,    \* the sectors the file has, or may get
  len,     \* the length in the file's row of the catalogue
  ch,      \* the channel block, with the flag bits as fields, and its buffer
  goal,    \* the rest of an OSARGS call that is filling the file with zeros
  reply    \* what the last call gave back

vars == <<disk, len, ch, goal, reply>>

Sectors == 0 .. (MaxSectors - 1)

SectorBytes == [0 .. (SectorSize - 1) -> Byte]

\* A buffer sector number that PTR never has: 0 after OSFIND, &3Fxx after a
\* block transfer, the block's offset after the workspace came back.  The bytes
\* of the buffer are not followed then: NoBytes stands for whatever is there.
NoSector == MaxSectors + 1

NoBytes == [o \in 0 .. (SectorSize - 1) |-> Zero]

SectorOf(p) == p \div SectorSize

Offset(p) == p % SectorSize

SectorsFor(l) == (l + SectorSize - 1) \div SectorSize

\* prot stands for bit 7 of name byte 7 or of the directory byte, shut for bit 7
\* of the bytes that bp_entry tests in their place (name byte 1, load address
\* byte 1).  ok, dirty, upd and eof are bits 7, 6, 5 and 4 of fuji_ch_flg.
Block == [open : BOOLEAN, prot : BOOLEAN, shut : BOOLEAN,
          ptr : Nat, ext : Nat, room : Nat,
          sect : Sectors \cup {NoSector}, buf : SectorBytes, ok : BOOLEAN,
          dirty : BOOLEAN, upd : BOOLEAN, eof : BOOLEAN]

NoGoal == [to |-> 0, call |-> "none", was |-> 0, ptr |-> 0, eof |-> FALSE]

Goal == [to : Nat, call : {"none", "ptr", "ext"}, was : Nat, ptr : Nat,
         eof : BOOLEAN]

TypeOK ==
  /\ disk \in [Sectors -> SectorBytes]
  /\ len \in Nat
  /\ ch \in Block
  /\ goal \in Goal

Answer(what, data) == [what |-> what, data |-> data]

Done == reply' = Answer("done", << >>)

Failed == reply' = Answer("error", << >>)

\* A block nobody reads: OSFIND fills it before the channel is used again.
Closed ==
  [open |-> FALSE, prot |-> FALSE, shut |-> FALSE, ptr |-> 0, ext |-> 0, room |-> 0,
   sect |-> NoSector, buf |-> NoBytes, ok |-> FALSE, dirty |-> FALSE,
   upd |-> FALSE, eof |-> FALSE]

Init ==
  /\ disk \in [Sectors -> SectorBytes]
  /\ len \in 0 .. MaxSectors * SectorSize
  /\ ch = Closed
  /\ goal = NoGoal
  /\ reply = Answer("done", << >>)

----------------------------------------------------------------------------
\* Faulty variants of the operators below, for the mutation checks.

\* The increment of PTR leaves bit 7 alone when it carries.
Stepped_keeps_bit7(c) == [c EXCEPT !.ptr = @ + 1]

\* A block transfer clears bit 7 but leaves the buffer its sector number.
Disowned_keeps_sector(c) == [c EXCEPT !.dirty = FALSE, !.ok = FALSE]

\* Writing PTR does not forget the end (mask &7F for &6F).
PtrSet_keeps_eof(c, p) == [c EXCEPT !.ptr = p, !.ok = c.sect = SectorOf(p)]

\* The low byte of EXT alone decides that there is nothing to load.
NewSector_low_byte(c) == Offset(c.ext) = 0

----------------------------------------------------------------------------
(* Steps that the calls are built from.                                    *)

\* channel_buffer_to_disk: what the disk may be after it.  The result of the
\* transfer is not looked at, so bit 6 is cleared either way.
AfterSave(d, c) ==
  IF c.dirty THEN {[d EXCEPT ![c.sect] = c.buf]}
                    \cup (IF "save" \in Faults THEN {d} ELSE {})
             ELSE {d}

Saved(c) == [c EXCEPT !.dirty = FALSE]

\* The buffer, written out, is no sector's any more.
Disowned(c) ==
  [Saved(c) EXCEPT !.ok = FALSE, !.sect = NoSector, !.buf = NoBytes]

\* calc_buffer_sector_for_ptr: the buffer is to hold PTR's sector from now on.
ForPtr(c) == [c EXCEPT !.sect = SectorOf(c.ptr), !.ok = TRUE]

\* channel_buffer_rw with C = 1.  The sector number and bit 7 are set before
\* the transfer, whose result is not looked at.
AfterLoad(d, c) ==
  {[ForPtr(c) EXCEPT !.buf = b] :
     b \in IF "load" \in Faults THEN SectorBytes ELSE {d[SectorOf(c.ptr)]}}

\* is_seq_pointer_in_buffer, after PTR was set to p: clears bits 7 and 4 and
\* sets bit 7 again if the buffer has PTR's sector.
PtrSet(c, p) ==
  [c EXCEPT !.ptr = p, !.eof = FALSE, !.ok = c.sect = SectorOf(p)]

\* load_then_inc_seq_ptr: bit 7 is cleared when PTR leaves the sector.
Stepped(c) ==
  [c EXCEPT !.ptr = @ + 1, !.ok = @ /\ Offset(c.ptr + 1) # 0]

\* The file has as many sectors as PTR has reached: bputv makes the row and
\* the sector count larger, up to the next whole granule.
Full(c) == c.ptr = c.room * SectorSize

Roomier(c) ==
  IF Full(c) THEN [c EXCEPT !.room = (c.room \div ExtendStep + 1) * ExtendStep]
             ELSE c

\* The buffer made ready for a byte at PTR.  At the end of a file of whole
\* sectors there is nothing to load, and the buffer keeps its bytes.
NewSector(c) == Offset(c.ext) = 0 /\ c.ptr = c.ext

AsIs(c) ==
  {[ForPtr(c) EXCEPT !.buf = b] :
     b \in IF c.sect = NoSector THEN SectorBytes ELSE {c.buf}}

Ready(d, c) ==
  IF c.ok THEN {c}
  ELSE IF NewSector(c) THEN AsIs(Saved(c)) ELSE AfterLoad(d, Saved(c))

\* EXT follows PTR, and the row is to follow EXT (updext).
WithByte(c, b) ==
  LET s == [Stepped(c) EXCEPT !.buf[Offset(c.ptr)] = b, !.dirty = TRUE]
  IN  IF s.ptr >= s.ext THEN [s EXCEPT !.ext = s.ptr, !.upd = TRUE] ELSE s

\* bp_entry, for a byte b and the channel block c.  A file that has no room to
\* be extended into is not put to here: DfsFiles says what becomes of it.
PutByte(c, b) ==
  /\ ~c.shut
  /\ Roomier(c).room <= MaxSectors
  /\ len' = IF Full(c) THEN Roomier(c).room * SectorSize ELSE len
  /\ \E d \in (IF c.ok THEN {disk} ELSE AfterSave(disk, c)) :
       /\ disk' = d
       /\ \E r \in Ready(d, Roomier(c)) : ch' = WithByte(r, b)

----------------------------------------------------------------------------
(* OSFIND.                                                                 *)

\* OPENOUT of a new name is OPENOUT of the file it has just created.
Open(op, locked, shut) ==
  /\ ~ch.open /\ (op = "out" => ~locked)
  /\ ch' = [Closed EXCEPT
              !.open = TRUE, !.prot = op = "in" \/ locked, !.shut = shut,
              !.ext = IF op = "out" THEN 0 ELSE len,
              !.room = SectorsFor(len), !.upd = op = "out"]
  /\ Done /\ UNCHANGED <<disk, len, goal>>

\* close_file_yintch: the length of the row if bit 5 is set, then the buffer
\* if bit 6 is.
Written ==
  /\ disk' \in AfterSave(disk, ch)
  /\ len' = IF ch.upd THEN ch.ext ELSE len

Close ==
  /\ ch.open /\ Written /\ ch' = Closed
  /\ Done /\ UNCHANGED goal

\* OSARGS &FF: the open bit is put back afterwards.
Flush ==
  /\ ch.open /\ Written /\ ch' = Saved(ch)
  /\ Done /\ UNCHANGED goal

\* Another ROM takes the workspace and gives it back: service call &0A writes
\* everything out, fuji_init disowns the buffer.
Reclaim ==
  /\ ch.open /\ Written
  /\ ch' = Disowned(ch)
  /\ Done /\ UNCHANGED goal

----------------------------------------------------------------------------
(* OSBGET and OSBPUT.                                                      *)

BgetAtEnd ==
  /\ ch.open /\ ch.ptr = ch.ext
  /\ \/ ch.eof /\ Failed /\ UNCHANGED ch
     \/ /\ ~ch.eof /\ ch' = [ch EXCEPT !.eof = TRUE]
        /\ reply' = Answer("end", << >>)
  /\ UNCHANGED <<disk, len, goal>>

Given(c) ==
  /\ reply' = Answer("data", <<c.buf[Offset(c.ptr)]>>)
  /\ ch' = Stepped(c)

Bget ==
  /\ ch.open /\ ch.ptr # ch.ext
  /\ \/ ch.ok /\ Given(ch) /\ UNCHANGED disk
     \/ /\ ~ch.ok
        /\ disk' \in AfterSave(disk, ch)
        /\ \E c \in AfterLoad(disk', Saved(ch)) : Given(c)
  /\ UNCHANGED <<len, goal>>

Bput(b) ==
  ch.open /\ PutByte(ch, b) /\ Done /\ UNCHANGED goal

BputRefused ==
  /\ ch.open /\ ch.shut
  /\ Failed /\ UNCHANGED <<disk, len, ch, goal>>

----------------------------------------------------------------------------
(* OSARGS.                                                                 *)

\* argsv_write_seq_pointer up to EXT.
SetPtr(p) ==
  /\ ch.open /\ p <= ch.ext
  /\ ch' = PtrSet(ch, p)
  /\ Done /\ UNCHANGED <<disk, len, goal>>

\* argsv3 from @truncate on, for the channel block c.
Resized(c, n) ==
  LET r == [c EXCEPT !.ext = n, !.upd = TRUE]
  IN  [(IF c.ptr >= n THEN PtrSet(r, n) ELSE r) EXCEPT !.eof = FALSE]

TruncateOrRefuse(c, n) ==
  \/ c.prot /\ ch' = c /\ Failed
  \/ ~c.prot /\ ch' = Resized(c, n) /\ Done

SetExt(n) ==
  /\ ch.open /\ n <= ch.ext
  /\ TruncateOrRefuse(ch, n)
  /\ UNCHANGED <<disk, len, goal>>

\* Either call with a position past EXT starts to put zeros at the end.
Grow(call, n) ==
  /\ ch.open /\ ch.ext < n
  /\ goal' = [to |-> n, call |-> call, was |-> ch.ext, ptr |-> ch.ptr, eof |-> ch.eof]
  /\ UNCHANGED <<disk, len, ch, reply>>

\* One pass of wsp_loop: an OSBPUT at EXT.
GrowByte ==
  /\ ch.ext < goal.to
  /\ PutByte(PtrSet(ch, ch.ext), Zero)
  /\ UNCHANGED <<goal, reply>>

\* The OSBPUT is refused: PTR has been moved to EXT and stays there.
GrowRefused ==
  /\ ch.shut /\ ch.ext < goal.to
  /\ ch' = PtrSet(ch, ch.ext) /\ goal' = NoGoal
  /\ Failed /\ UNCHANGED <<disk, len>>

\* The loop ends: PTR# sets PTR, EXT# puts it back and goes on as above.
GrowDone ==
  /\ goal.call # "none" /\ ch.ext >= goal.to
  /\ \/ goal.call = "ptr" /\ ch' = PtrSet(ch, goal.to) /\ Done
     \/ goal.call = "ext" /\ TruncateOrRefuse(PtrSet(ch, goal.ptr), goal.to)
  /\ goal' = NoGoal
  /\ UNCHANGED <<disk, len>>

----------------------------------------------------------------------------
(* OSGBPB between two sector boundaries: fastgb moves whole sectors and    *)
(* leaves the rest of a call to OSBGET and OSBPUT.  Nothing else uses the  *)
(* channel in the middle of a call, so a call is a run of these steps.     *)

Moved(c, k) ==
  LET m == [c EXCEPT !.ptr = @ + k * SectorSize]
  IN  IF m.ptr > m.ext THEN [m EXCEPT !.ext = m.ptr, !.upd = TRUE] ELSE m

Aligned(k) == ch.open /\ k > 0 /\ Offset(ch.ptr) = 0

\* Reading goes no further than the last whole sector below EXT.
FastGet(k) ==
  /\ Aligned(k) /\ SectorOf(ch.ptr) + k <= SectorOf(ch.ext)
  /\ disk' \in AfterSave(disk, ch)
  /\ reply' = Answer("data",
       [i \in 1 .. k * SectorSize |->
          disk'[SectorOf(ch.ptr) + SectorOf(i - 1)][Offset(i - 1)]])
  /\ ch' = Moved(Disowned(ch), k)
  /\ UNCHANGED <<len, goal>>

\* Writing goes as far as the file has sectors.
FastPut(k, data) ==
  /\ Aligned(k) /\ SectorOf(ch.ptr) + k <= ch.room
  /\ \E d \in AfterSave(disk, ch) :
       disk' = [s \in Sectors |->
                  LET j == s - SectorOf(ch.ptr)
                  IN  IF s >= SectorOf(ch.ptr) /\ j < k THEN data[j] ELSE d[s]]
  /\ ch' = Moved(Disowned(ch), k)
  /\ Done /\ UNCHANGED <<len, goal>>

----------------------------------------------------------------------------
Positions == 0 .. MaxSectors * SectorSize

Call ==
  \/ \E op \in {"in", "up", "out"}, locked, shut \in BOOLEAN : Open(op, locked, shut)
  \/ Close \/ Flush \/ Reclaim
  \/ BgetAtEnd \/ Bget \/ BputRefused
  \/ \E b \in Byte : Bput(b)
  \/ \E p \in Positions : SetPtr(p) \/ SetExt(p)
  \/ \E call \in {"ptr", "ext"}, p \in Positions : Grow(call, p)
  \/ \E k \in 1 .. MaxSectors : FastGet(k)
  \/ \E k \in 1 .. MaxSectors : \E data \in [0 .. (k - 1) -> SectorBytes] : FastPut(k, data)

Next ==
  \/ goal = NoGoal /\ Call
  \/ GrowByte \/ GrowRefused \/ GrowDone

Spec == Init /\ [][Next]_vars

----------------------------------------------------------------------------
(* Properties.                                                             *)

\* "If buffer ok" (fuji_ch_flg bit 7): the buffer is PTR's sector, so OSBGET
\* and OSBPUT may use it as it is.  PTR moves in six places and each has to
\* keep or clear the bit.
BufferIsPtrs ==
  ch.ok => ch.sect = SectorOf(ch.ptr) /\ ch.sect # NoSector

\* A buffer that bit 6 does not say is to be written holds what its sector on
\* the disk holds: PTR may come back to it later without a load.
BufferAgrees ==
  ~ch.dirty /\ ch.sect # NoSector => ch.buf = disk[ch.sect]

\* PTR and EXT stay in the file, the dirty sector is one of the file's, and
\* the end is only remembered while PTR is at it.
PointersInFile ==
  /\ ch.ptr <= ch.ext /\ ch.ext <= ch.room * SectorSize
  /\ ch.dirty => ch.sect < ch.room
  /\ ch.eof => ch.ptr = ch.ext

\* "if not set then there is no change in file size to write" (bit 5): the
\* length of the row is then EXT, so a close without it loses nothing.
LengthKnown ==
  ch.open /\ ~ch.upd => len = ch.ext

\* The file as a program sees it: the bytes on the disk, but those of a dirty
\* buffer in the place of its sector.  While a call fills the file with zeros
\* the program still sees the old one.
Held(p) ==
  IF ch.dirty /\ ch.sect = SectorOf(p) THEN ch.buf[Offset(p)]
                                      ELSE disk[SectorOf(p)][Offset(p)]

Size == IF goal # NoGoal THEN goal.was ELSE IF ch.open THEN ch.ext ELSE len

File == INSTANCE ByteFile WITH
  text <- [i \in 1 .. Size |-> Held(i - 1)],
  open <- ch.open,
  ptr <- IF goal # NoGoal THEN goal.ptr ELSE ch.ptr,
  eof <- IF goal # NoGoal THEN goal.eof ELSE ch.eof,
  MaxLen <- MaxSectors * SectorSize

\* The channel is a file of bytes: whatever calls come in whatever order, what
\* was put at a position is got back from it, across sectors, through closing
\* and opening again, growing, cutting and block transfers.
Implements == File!Spec
=============================================================================
