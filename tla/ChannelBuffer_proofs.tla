------------------------ MODULE ChannelBuffer_proofs ------------------------
(***************************************************************************)
(* What holds of a channel and its buffer for every sector size, number of *)
(* sectors and granule, and for every step of every call.                  *)
(*                                                                         *)
(* Sound is what a channel block has to be, alone; Agrees relates it to    *)
(* the disk, and Lasting to the row and to the call in progress.  The      *)
(* lemmas take the operators that calls are built from one by one; the     *)
(* theorems go through the actions.                                        *)
(*                                                                         *)
(* The second half shows that the channel implements ByteFile: Shown is    *)
(* the byte a program sees at a position, the ...Seen lemmas say what has  *)
(* to be seen for a step to be one of ByteFile, the ...Implements lemmas   *)
(* that each call is one, and GrowUnseen and GrowByteUnseen that a pass of *)
(* the loop that fills a file with zeros shows nothing yet.                *)
(***************************************************************************)
EXTENDS ChannelBuffer, TLAPS

Sound(c) ==
  /\ c \in Block
  /\ c.ptr <= c.ext /\ c.ext <= c.room * SectorSize
  /\ c.room <= MaxSectors
  /\ c.ok => c.sect = SectorOf(c.ptr) /\ c.sect \in Sectors
  /\ c.dirty => c.sect < c.room
  /\ c.eof => c.ptr = c.ext

Agrees(d, c) == ~c.dirty /\ c.sect # NoSector => c.buf = d[c.sect]

Lasting ==
  /\ disk \in [Sectors -> SectorBytes]
  /\ len \in Nat /\ len <= MaxSectors * SectorSize
  /\ LengthKnown
  /\ goal \in Goal
  /\ goal.call = "none" => goal = NoGoal
  /\ goal.call # "none" => ch.open /\ goal.ptr <= ch.ext

IInv == Sound(ch) /\ Lasting

----------------------------------------------------------------------------
(* Positions and sectors.                                                  *)

LEMMA SizesAre ==
  /\ SectorSize \in Nat \ {0} /\ MaxSectors \in Nat /\ ExtendStep \in Nat \ {0}
  /\ NoSector \in Nat /\ NoSector > MaxSectors
  /\ NoBytes \in SectorBytes
  BY BufferAssumption DEF NoSector, NoBytes, SectorBytes

LEMMA SectorIs ==
  ASSUME NEW p \in Nat
  PROVE  /\ SectorOf(p) \in Nat /\ Offset(p) \in 0 .. (SectorSize - 1)
         /\ p = SectorSize * SectorOf(p) + Offset(p)
<1>1. SectorSize \in Nat \ {0}
  BY SizesAre
<1> QED
  BY <1>1 DEF SectorOf, Offset

\* A position below s whole sectors is in one of them.
LEMMA SectorBelow ==
  ASSUME NEW p \in Nat, NEW s \in Nat
  PROVE  /\ p < s * SectorSize => SectorOf(p) < s
         /\ p <= s * SectorSize => SectorOf(p) <= s
<1>1. /\ SectorOf(p) \in Nat /\ Offset(p) \in 0 .. (SectorSize - 1)
      /\ p = SectorSize * SectorOf(p) + Offset(p)
  BY SectorIs
<1>2. SectorSize \in Nat \ {0}
  BY SizesAre
<1>3. ASSUME SectorOf(p) >= s  PROVE p >= s * SectorSize
  BY <1>1, <1>2, <1>3
<1>4. ASSUME SectorOf(p) >= s + 1  PROVE p > s * SectorSize
  <2>1. SectorSize * SectorOf(p) >= SectorSize * (s + 1)
    BY <1>1, <1>2, <1>4
  <2>2. SectorSize * (s + 1) = s * SectorSize + SectorSize
    BY <1>2
  <2> QED
    BY <1>1, <1>2, <2>1, <2>2
<1> QED
  BY <1>1, <1>2, <1>3, <1>4

\* The next position is in the same sector unless it begins one.
LEMMA NextPosition ==
  ASSUME NEW p \in Nat, Offset(p + 1) # 0
  PROVE  SectorOf(p + 1) = SectorOf(p)
  BY SizesAre DEF SectorOf, Offset

\* k sectors on from the beginning of a sector.
LEMMA SectorsOn ==
  ASSUME NEW p \in Nat, NEW k \in Nat, NEW s \in Nat, Offset(p) = 0,
         SectorOf(p) + k <= s
  PROVE  p + k * SectorSize <= s * SectorSize
<1>1. SectorOf(p) \in Nat /\ p = SectorSize * SectorOf(p)
  BY SectorIs, SizesAre
<1>2. (SectorOf(p) + k) * SectorSize <= s * SectorSize
  BY <1>1, SizesAre
<1>3. \A q, z \in Nat : (q + k) * z = z * q + k * z
  OBVIOUS
<1>4. (SectorOf(p) + k) * SectorSize = SectorSize * SectorOf(p) + k * SectorSize
  BY <1>1, <1>3, SizesAre
<1> QED
  BY <1>1, <1>2, <1>4

LEMMA WholeSectors ==
  ASSUME NEW l \in Nat
  PROVE  /\ SectorsFor(l) \in Nat /\ l <= SectorsFor(l) * SectorSize
         /\ \A m \in Nat : l <= m * SectorSize => SectorsFor(l) <= m
<1> DEFINE e == l + SectorSize - 1
<1>1. SectorSize \in Nat \ {0} /\ e \in Nat
  BY SizesAre
<1>2. SectorsFor(l) = SectorOf(e)
  BY DEF SectorsFor, SectorOf
<1>3. /\ SectorOf(e) \in Nat /\ Offset(e) \in 0 .. (SectorSize - 1)
      /\ e = SectorSize * SectorOf(e) + Offset(e)
  BY <1>1, SectorIs
<1>4. l <= SectorOf(e) * SectorSize
  BY <1>1, <1>3
<1>5. ASSUME NEW m \in Nat, l <= m * SectorSize  PROVE SectorOf(e) <= m
  <2>1. m + 1 \in Nat /\ (m + 1) * SectorSize = m * SectorSize + SectorSize
    BY <1>1
  <2>2. m * SectorSize \in Nat
    BY <1>1
  <2>3. e < (m + 1) * SectorSize
    BY <1>1, <1>5, <2>1, <2>2
  <2>4. SectorOf(e) < m + 1
    BY ONLY <1>1, <2>1, <2>3, SectorBelow
  <2> QED
    BY <1>3, <2>4
<1> QED
  BY <1>2, <1>3, <1>4, <1>5

LEMMA RoundedUp ==
  ASSUME NEW r \in Nat
  PROVE  /\ (r \div ExtendStep + 1) * ExtendStep \in Nat
         /\ r < (r \div ExtendStep + 1) * ExtendStep
<1> DEFINE q == r \div ExtendStep
           o == r % ExtendStep
<1>1. ExtendStep \in Nat \ {0}
  BY SizesAre
<1>2. q \in Nat /\ o \in 0 .. (ExtendStep - 1) /\ r = ExtendStep * q + o
  BY <1>1
<1> HIDE DEF q, o
<1>3. (q + 1) * ExtendStep = ExtendStep * q + ExtendStep
  BY <1>1, <1>2
<1>4. ExtendStep * q \in Nat
  BY <1>1, <1>2
<1> QED
  BY <1>1, <1>2, <1>3, <1>4 DEF q

----------------------------------------------------------------------------
(* The operators on channel blocks.                                        *)

LEMMA BlockFields ==
  ASSUME NEW c \in Block
  PROVE  /\ c.open \in BOOLEAN /\ c.prot \in BOOLEAN /\ c.shut \in BOOLEAN
         /\ c.ptr \in Nat /\ c.ext \in Nat /\ c.room \in Nat
         /\ c.sect \in Sectors \cup {NoSector} /\ c.buf \in SectorBytes
         /\ c.ok \in BOOLEAN /\ c.dirty \in BOOLEAN
         /\ c.upd \in BOOLEAN /\ c.eof \in BOOLEAN
  BY DEF Block

LEMMA ClosedSound ==
  /\ Sound(Closed)
  /\ Closed.open = FALSE /\ Closed.sect = NoSector
<1>1. Closed \in Block
  BY SizesAre DEF Closed, Block
<1> QED
  BY <1>1, SizesAre DEF Sound, Closed

LEMMA SavedSound ==
  ASSUME NEW c, Sound(c)
  PROVE  /\ Sound(Saved(c)) /\ Saved(c).dirty = FALSE
         /\ Saved(c).open = c.open /\ Saved(c).upd = c.upd
         /\ Saved(c).ptr = c.ptr /\ Saved(c).ext = c.ext
         /\ Saved(c).room = c.room /\ Saved(c).sect = c.sect
         /\ Saved(c).buf = c.buf /\ Saved(c).shut = c.shut /\ Saved(c).ok = c.ok
<1>1. Saved(c) \in Block
  BY DEF Sound, Saved, Block
<1>2. c \in Block
  BY DEF Sound
<1> QED
  BY <1>1, <1>2 DEF Sound, Saved, Block

LEMMA DisownedSound ==
  ASSUME NEW c, Sound(c)
  PROVE  /\ Sound(Disowned(c)) /\ Disowned(c).sect = NoSector
         /\ Disowned(c).open = c.open /\ Disowned(c).upd = c.upd
         /\ Disowned(c).ptr = c.ptr /\ Disowned(c).ext = c.ext
         /\ Disowned(c).room = c.room /\ Disowned(c).ok = FALSE
         /\ Disowned(c).dirty = FALSE
<1>1. Disowned(c) \in Block
  BY SizesAre DEF Sound, Disowned, Saved, Block
<1>2. c \in Block
  BY DEF Sound
<1> QED
  BY <1>1, <1>2 DEF Sound, Disowned, Saved, Block

LEMMA PtrsSector ==
  ASSUME NEW c, Sound(c), c.ptr < c.room * SectorSize
  PROVE  SectorOf(c.ptr) \in Sectors /\ SectorOf(c.ptr) < c.room
<1>1. c.ptr \in Nat /\ c.room \in Nat /\ c.room <= MaxSectors
  BY BlockFields DEF Sound
<1>2. SectorOf(c.ptr) \in Nat /\ SectorOf(c.ptr) < c.room
  BY <1>1, SectorIs, SectorBelow
<1> QED
  BY <1>1, <1>2, SizesAre DEF Sectors

\* The buffer becomes PTR's, with any bytes in it.
LEMMA ForPtrSound ==
  ASSUME NEW c, Sound(c), NEW b \in SectorBytes, c.dirty = FALSE,
         c.ptr < c.room * SectorSize
  PROVE  LET n == [ForPtr(c) EXCEPT !.buf = b]
         IN  /\ Sound(n) /\ n.ok = TRUE /\ n.dirty = FALSE /\ n.buf = b
             /\ n.sect = SectorOf(c.ptr)
             /\ n.open = c.open /\ n.upd = c.upd
             /\ n.ptr = c.ptr /\ n.ext = c.ext /\ n.room = c.room
<1>1. c \in Block
  BY DEF Sound
<1>3. SectorOf(c.ptr) \in Sectors
  BY PtrsSector
<1> DEFINE n == [ForPtr(c) EXCEPT !.buf = b]
<1>4. n \in Block
  BY <1>1, <1>3 DEF ForPtr, Block
<1>5. /\ n.ok = TRUE /\ n.dirty = c.dirty /\ n.buf = b
      /\ n.sect = SectorOf(c.ptr)
      /\ n.open = c.open /\ n.upd = c.upd /\ n.eof = c.eof
      /\ n.ptr = c.ptr /\ n.ext = c.ext /\ n.room = c.room
  BY <1>1 DEF ForPtr, Block
<1> HIDE DEF n
<1>6. Sound(n)
  BY <1>3, <1>4, <1>5 DEF Sound
<1> QED
  BY <1>5, <1>6 DEF n

LEMMA LoadSound ==
  ASSUME NEW c, Sound(c), c.dirty = FALSE, c.ptr < c.room * SectorSize,
         NEW d \in [Sectors -> SectorBytes], NEW n \in AfterLoad(d, c)
  PROVE  /\ Sound(n) /\ n.ok = TRUE /\ n.dirty = FALSE
         /\ n.open = c.open /\ n.upd = c.upd
         /\ n.ptr = c.ptr /\ n.ext = c.ext /\ n.room = c.room
         /\ "load" \notin Faults => Agrees(d, n)
<1>2. SectorOf(c.ptr) \in Sectors
  BY PtrsSector
<1>3. PICK b \in (IF "load" \in Faults THEN SectorBytes ELSE {d[SectorOf(c.ptr)]}) :
        n = [ForPtr(c) EXCEPT !.buf = b]
  BY DEF AfterLoad
<1>4. b \in SectorBytes
  BY <1>2, <1>3
<1>5. /\ Sound(n) /\ n.ok = TRUE /\ n.dirty = FALSE /\ n.buf = b
      /\ n.sect = SectorOf(c.ptr)
      /\ n.open = c.open /\ n.upd = c.upd
      /\ n.ptr = c.ptr /\ n.ext = c.ext /\ n.room = c.room
  BY <1>3, <1>4, ForPtrSound
<1> QED
  BY <1>3, <1>5 DEF Agrees

\* PTR set to any place up to EXT: bit 7 is right again.
LEMMA PtrSetSound ==
  ASSUME NEW c, Sound(c), NEW p \in Nat, p <= c.ext
  PROVE  LET n == PtrSet(c, p)
         IN  /\ Sound(n) /\ n.ptr = p
             /\ n.open = c.open /\ n.upd = c.upd /\ n.ext = c.ext
             /\ n.room = c.room /\ n.sect = c.sect /\ n.buf = c.buf
             /\ n.dirty = c.dirty /\ n.shut = c.shut
<1>1. /\ c \in Block /\ c.room <= MaxSectors /\ c.ext <= c.room * SectorSize
      /\ c.dirty => c.sect < c.room
  BY DEF Sound
<1>2. /\ c.ext \in Nat /\ c.room \in Nat /\ c.sect \in Sectors \cup {NoSector}
  BY <1>1, BlockFields
<1>3. c.room * SectorSize \in Nat
  BY <1>2, SizesAre
<1>4. SectorOf(p) \in Nat /\ SectorOf(p) <= c.room
  BY <1>1, <1>2, <1>3, SectorIs, SectorBelow
<1>5. c.sect = SectorOf(p) => c.sect \in Sectors
  BY <1>1, <1>2, <1>4, SizesAre
<1> DEFINE n == PtrSet(c, p)
<1>6. n \in Block
  BY <1>1 DEF PtrSet, Block
<1>7. /\ n.ptr = p /\ n.eof = FALSE /\ n.ok = (c.sect = SectorOf(p))
      /\ n.open = c.open /\ n.upd = c.upd /\ n.ext = c.ext
      /\ n.room = c.room /\ n.sect = c.sect /\ n.buf = c.buf
      /\ n.dirty = c.dirty /\ n.shut = c.shut
  BY <1>1 DEF PtrSet, Block
<1> HIDE DEF n
<1>8. Sound(n)
  BY <1>1, <1>5, <1>6, <1>7 DEF Sound
<1> QED
  BY <1>7, <1>8 DEF n

\* PTR moved by one: bit 7 survives only within the sector.
LEMMA SteppedIs ==
  ASSUME NEW c \in Block
  PROVE  LET n == Stepped(c)
         IN  /\ n \in Block /\ n.ptr = c.ptr + 1
             /\ n.ok => c.ok /\ SectorOf(n.ptr) = SectorOf(c.ptr)
             /\ n.open = c.open /\ n.upd = c.upd /\ n.ext = c.ext
             /\ n.room = c.room /\ n.sect = c.sect /\ n.buf = c.buf
             /\ n.dirty = c.dirty /\ n.eof = c.eof /\ n.shut = c.shut
<1> DEFINE n == Stepped(c)
<1>1. c.ptr \in Nat /\ c.ok \in BOOLEAN
  BY BlockFields
<1>2. n \in Block
  <2>1. \A p \in Nat, o \in BOOLEAN : [c EXCEPT !.ptr = p, !.ok = o] \in Block
    BY DEF Block
  <2>2. c.ptr + 1 \in Nat /\ (c.ok /\ Offset(c.ptr + 1) # 0) \in BOOLEAN
    BY <1>1
  <2> QED
    BY <2>1, <2>2 DEF Stepped
<1>3. /\ n.ptr = c.ptr + 1 /\ n.ok = (c.ok /\ Offset(c.ptr + 1) # 0)
      /\ n.open = c.open /\ n.upd = c.upd /\ n.ext = c.ext
      /\ n.room = c.room /\ n.sect = c.sect /\ n.buf = c.buf
      /\ n.dirty = c.dirty /\ n.eof = c.eof /\ n.shut = c.shut
  BY DEF Stepped, Block
<1>4. Offset(c.ptr + 1) # 0 => SectorOf(c.ptr + 1) = SectorOf(c.ptr)
  BY <1>1, NextPosition
<1> HIDE DEF n
<1> QED
  BY <1>2, <1>3, <1>4 DEF n

LEMMA SteppedSound ==
  ASSUME NEW c, Sound(c), c.ptr # c.ext
  PROVE  Sound(Stepped(c))
<1> DEFINE n == Stepped(c)
<1>1. /\ c \in Block /\ c.ptr \in Nat /\ c.ext \in Nat
  BY BlockFields DEF Sound
<1>2. /\ n \in Block /\ n.ptr = c.ptr + 1
      /\ n.ok => c.ok /\ SectorOf(n.ptr) = SectorOf(c.ptr)
      /\ n.ext = c.ext /\ n.room = c.room /\ n.sect = c.sect
      /\ n.dirty = c.dirty /\ n.eof = c.eof
  BY <1>1, SteppedIs
<1> HIDE DEF n
<1>3. Sound(n)
  BY <1>1, <1>2 DEF Sound
<1> QED
  BY <1>3 DEF n

\* A file extended when PTR is at the end of its last sector.
LEMMA RoomierSound ==
  ASSUME NEW c, Sound(c), Roomier(c).room <= MaxSectors
  PROVE  LET n == Roomier(c)
         IN  /\ Sound(n) /\ n.ptr < n.room * SectorSize
             /\ n.open = c.open /\ n.upd = c.upd /\ n.ptr = c.ptr
             /\ n.ext = c.ext /\ n.sect = c.sect /\ n.buf = c.buf
             /\ n.dirty = c.dirty /\ n.ok = c.ok
             /\ Full(c) => c.ptr = c.ext
<1> DEFINE n == Roomier(c)
           m == (c.room \div ExtendStep + 1) * ExtendStep
<1>1. /\ c \in Block /\ c.ptr \in Nat /\ c.ext \in Nat /\ c.room \in Nat
      /\ c.sect \in Sectors \cup {NoSector}
      /\ c.ptr <= c.ext /\ c.ext <= c.room * SectorSize
  BY BlockFields DEF Sound
<1>2. c.room * SectorSize \in Nat
  BY <1>1, SizesAre
<1>3. Full(c) => c.ptr = c.ext
  BY <1>1, <1>2 DEF Full
<1>4. CASE ~Full(c)
  <2>1. n = c
    BY <1>4 DEF Roomier
  <2>2. c.ptr < c.room * SectorSize
    BY <1>1, <1>2, <1>4 DEF Full
  <2> QED
    BY <1>3, <2>1, <2>2
<1>5. CASE Full(c)
  <2>1. m \in Nat /\ c.room < m
    BY <1>1, RoundedUp
  <2> HIDE DEF m
  <2>2. m * SectorSize \in Nat /\ c.room * SectorSize < m * SectorSize
    <3>1. \A a, b \in Nat, z \in Nat \ {0} : a < b => a * z < b * z
      OBVIOUS
    <3>2. \A a, z \in Nat : a * z \in Nat
      OBVIOUS
    <3> QED
      BY <1>1, <2>1, <3>1, <3>2, SizesAre
  <2>3. n = [c EXCEPT !.room = m]
    BY <1>5 DEF Roomier, m
  <2>4. n \in Block
    BY <1>1, <2>1, <2>3 DEF Block
  <2>5. /\ n.room = m
        /\ n.open = c.open /\ n.upd = c.upd /\ n.ptr = c.ptr
        /\ n.ext = c.ext /\ n.sect = c.sect /\ n.buf = c.buf
        /\ n.dirty = c.dirty /\ n.ok = c.ok /\ n.eof = c.eof
    BY <1>1, <2>3 DEF Block
  <2>6. m <= MaxSectors
    BY <2>5
  <2> HIDE DEF n
  <2>7. n.ptr <= n.ext /\ n.ext <= n.room * SectorSize /\ n.ptr < n.room * SectorSize
    BY <1>1, <1>2, <2>2, <2>5
  <2>8. c.dirty => c.sect < m
    <3>1. ASSUME c.dirty  PROVE c.sect \in Nat /\ c.sect < c.room
      BY <1>1, <3>1, SizesAre DEF Sound, Sectors
    <3> QED
      BY <1>1, <2>1, <3>1
  <2>9. Sound(n)
    BY <2>4, <2>5, <2>6, <2>7, <2>8 DEF Sound
  <2> QED
    BY <1>3, <2>5, <2>7, <2>9 DEF n
<1> QED
  BY <1>4, <1>5

LEMMA ReadySound ==
  ASSUME NEW c, Sound(c), c.ptr < c.room * SectorSize,
         NEW d \in [Sectors -> SectorBytes], NEW n \in Ready(d, c)
  PROVE  /\ Sound(n) /\ n.ok = TRUE
         /\ n.open = c.open /\ n.upd = c.upd
         /\ n.ptr = c.ptr /\ n.ext = c.ext /\ n.room = c.room
<1> DEFINE s == Saved(c)
<1>1. /\ Sound(s) /\ s.dirty = FALSE /\ s.open = c.open /\ s.upd = c.upd
      /\ s.ptr = c.ptr /\ s.ext = c.ext /\ s.room = c.room
      /\ s.buf \in SectorBytes
  BY SavedSound, BlockFields DEF Sound
<1> HIDE DEF s
<1>2. CASE c.ok
  <2>1. n = c
    BY <1>2 DEF Ready
  <2> QED
    BY <1>2, <2>1, BlockFields DEF Sound
<1>3. CASE ~c.ok /\ NewSector(c)
  <2>1. n \in AsIs(s)
    BY <1>3 DEF Ready, s
  <2>2. PICK b \in (IF s.sect = NoSector THEN SectorBytes ELSE {s.buf}) :
          n = [ForPtr(s) EXCEPT !.buf = b]
    BY <2>1 DEF AsIs
  <2>3. b \in SectorBytes
    BY <1>1
  <2>4. s.ptr < s.room * SectorSize
    BY <1>1
  <2>5. /\ Sound(n) /\ n.ok = TRUE /\ n.dirty = FALSE
        /\ n.open = s.open /\ n.upd = s.upd
        /\ n.ptr = s.ptr /\ n.ext = s.ext /\ n.room = s.room
    BY <1>1, <2>2, <2>3, <2>4, ForPtrSound
  <2> QED
    BY <1>1, <2>5
<1>4. CASE ~c.ok /\ ~NewSector(c)
  <2>1. n \in AfterLoad(d, s)
    BY <1>4 DEF Ready, s
  <2> QED
    BY <1>1, <2>1, LoadSound
<1> QED
  BY <1>2, <1>3, <1>4

\* The byte goes into PTR's sector, EXT follows, and bit 5 is set if it does.
LEMMA WithByteSound ==
  ASSUME NEW c, Sound(c), c.ok = TRUE, c.ptr < c.room * SectorSize,
         NEW b \in Byte
  PROVE  LET n == WithByte(c, b)
         IN  /\ Sound(n) /\ n.dirty = TRUE /\ n.open = c.open
             /\ n.upd = TRUE \/ (c.ptr # c.ext /\ n.upd = c.upd /\ n.ext = c.ext)
             /\ c.ext <= n.ext
<1> DEFINE t == Stepped(c)
           s == [t EXCEPT !.buf[Offset(c.ptr)] = b, !.dirty = TRUE]
           n == WithByte(c, b)
<1>1. /\ c \in Block /\ c.ptr \in Nat /\ c.ext \in Nat /\ c.room \in Nat
      /\ c.upd \in BOOLEAN /\ c.eof \in BOOLEAN
      /\ c.sect = SectorOf(c.ptr) /\ c.sect \in Sectors
      /\ c.ptr <= c.ext /\ c.ext <= c.room * SectorSize /\ c.room <= MaxSectors
      /\ c.eof => c.ptr = c.ext
  BY BlockFields DEF Sound
<1>2. c.sect < c.room
  BY <1>1, PtrsSector
<1>3. /\ t \in Block /\ t.ptr = c.ptr + 1
      /\ t.ok => c.ok /\ SectorOf(t.ptr) = SectorOf(c.ptr)
      /\ t.open = c.open /\ t.upd = c.upd /\ t.ext = c.ext
      /\ t.room = c.room /\ t.sect = c.sect /\ t.eof = c.eof
  BY <1>1, SteppedIs
<1> HIDE DEF t
<1>4. s \in Block /\ s.dirty = TRUE
  <2>1. t.buf \in SectorBytes
    BY <1>3, BlockFields
  <2>2. [t.buf EXCEPT ![Offset(c.ptr)] = b] \in SectorBytes
    BY <2>1 DEF SectorBytes
  <2>3. s = [t EXCEPT !.buf = [t.buf EXCEPT ![Offset(c.ptr)] = b], !.dirty = TRUE]
    BY <1>3 DEF Block
  <2> QED
    BY <1>3, <2>2, <2>3 DEF Block
<1>5. /\ s.ptr = t.ptr /\ s.ok = t.ok /\ s.open = t.open /\ s.upd = t.upd
      /\ s.ext = t.ext /\ s.room = t.room /\ s.sect = t.sect /\ s.eof = t.eof
  BY <1>3 DEF Block
<1>6. n = IF s.ptr >= s.ext THEN [s EXCEPT !.ext = s.ptr, !.upd = TRUE] ELSE s
  BY DEF WithByte, s, t
<1> HIDE DEF s, n
<1>7. c.room * SectorSize \in Nat /\ c.ptr + 1 <= c.room * SectorSize
  BY <1>1, SizesAre
<1>8. CASE s.ptr >= s.ext
  <2>1. n = [s EXCEPT !.ext = s.ptr, !.upd = TRUE]
    BY <1>6, <1>8
  <2>2. s.ptr \in Nat
    BY <1>1, <1>3, <1>5
  <2>3. n \in Block
    BY <1>4, <2>1, <2>2 DEF Block
  <2>4. /\ n.ext = s.ptr /\ n.upd = TRUE /\ n.ptr = s.ptr /\ n.ok = s.ok
        /\ n.open = s.open /\ n.room = s.room /\ n.sect = s.sect
        /\ n.eof = s.eof /\ n.dirty = TRUE
    BY <1>4, <2>1 DEF Block
  <2>5. n.ptr <= n.ext /\ n.ext <= n.room * SectorSize /\ c.ext <= n.ext
    BY <1>1, <1>3, <1>5, <1>7, <1>8, <2>4
  <2>6. n.ok => n.sect = SectorOf(n.ptr) /\ n.sect \in Sectors
    BY <1>1, <1>3, <1>5, <2>4
  <2>7. Sound(n)
    BY <1>1, <1>2, <1>3, <1>5, <2>3, <2>4, <2>5, <2>6 DEF Sound
  <2> QED
    BY <1>3, <1>5, <2>4, <2>5, <2>7 DEF n
<1>9. CASE ~(s.ptr >= s.ext)
  <2>1. n = s
    BY <1>6, <1>9
  <2>2. c.ptr + 1 < c.ext
    BY <1>1, <1>3, <1>5, <1>9
  <2>3. n.eof = FALSE
    BY <1>1, <1>3, <1>5, <2>1, <2>2
  <2>4. Sound(n)
    <3>1. n.ptr <= n.ext /\ n.ext <= n.room * SectorSize
      BY <1>1, <1>3, <1>5, <2>1, <2>2
    <3>2. n.ok => n.sect = SectorOf(n.ptr) /\ n.sect \in Sectors
      BY <1>1, <1>3, <1>5, <2>1
    <3> QED
      BY <1>1, <1>2, <1>3, <1>4, <1>5, <2>1, <2>3, <3>1, <3>2 DEF Sound
  <2> QED
    BY <1>1, <1>3, <1>4, <1>5, <2>1, <2>2, <2>4 DEF n
<1> QED
  BY <1>8, <1>9

\* A block transfer moves PTR k sectors on within the file, and EXT if need be.
LEMMA MovedSound ==
  ASSUME NEW c, Sound(c), c.ok = FALSE, c.dirty = FALSE,
         NEW k \in Nat \ {0}, Offset(c.ptr) = 0, SectorOf(c.ptr) + k <= c.room
  PROVE  LET n == Moved(c, k)
         IN  /\ Sound(n) /\ n.open = c.open /\ n.sect = c.sect
             /\ n.upd = TRUE \/ (n.upd = c.upd /\ n.ext = c.ext)
<1> DEFINE p == c.ptr + k * SectorSize
           m == [c EXCEPT !.ptr = c.ptr + k * SectorSize]
           n == Moved(c, k)
<1>1. /\ c \in Block /\ c.ptr \in Nat /\ c.ext \in Nat /\ c.room \in Nat
      /\ c.eof \in BOOLEAN /\ c.ptr <= c.ext /\ c.ext <= c.room * SectorSize
      /\ c.room <= MaxSectors
      /\ c.eof => c.ptr = c.ext
  BY BlockFields DEF Sound
<1>2. p \in Nat /\ p > c.ptr
  <2>1. k * SectorSize \in Nat \ {0}
    BY SizesAre
  <2> QED
    BY <1>1, <2>1
<1>3. p <= c.room * SectorSize
  BY <1>1, SectorsOn
<1>4. m = [c EXCEPT !.ptr = p]
  OBVIOUS
<1>5. n = IF m.ptr > m.ext THEN [m EXCEPT !.ext = m.ptr, !.upd = TRUE] ELSE m
  BY DEF Moved
<1> HIDE DEF p, m, n
<1>6. m \in Block
  BY <1>1, <1>2, <1>4 DEF Block
<1>7. /\ m.ptr = p /\ m.ext = c.ext /\ m.room = c.room /\ m.ok = FALSE
      /\ m.dirty = FALSE /\ m.eof = c.eof /\ m.open = c.open
      /\ m.sect = c.sect /\ m.upd = c.upd
  BY <1>1, <1>4 DEF Block
<1>8. CASE p > c.ext
  <2>1. n = [m EXCEPT !.ext = p, !.upd = TRUE]
    BY <1>5, <1>7, <1>8
  <2>2. n \in Block
    BY <1>2, <1>6, <2>1 DEF Block
  <2>3. /\ n.ptr = p /\ n.ext = p /\ n.room = c.room /\ n.ok = FALSE
        /\ n.dirty = FALSE /\ n.open = c.open /\ n.sect = c.sect /\ n.upd = TRUE
    BY <1>6, <1>7, <2>1 DEF Block
  <2>4. Sound(n)
    BY <1>1, <1>2, <1>3, <2>2, <2>3 DEF Sound
  <2>5. Sound(n) /\ n.open = c.open /\ n.sect = c.sect /\ n.upd = TRUE
    BY <2>3, <2>4
  <2> QED
    BY <2>5 DEF n
<1>9. CASE ~(p > c.ext)
  <2>1. n = m
    BY <1>5, <1>7, <1>9
  <2>2. c.eof = FALSE
    BY <1>1, <1>2, <1>9
  <2>3. Sound(n)
    BY <1>1, <1>2, <1>6, <1>7, <1>9, <2>1, <2>2 DEF Sound
  <2> QED
    BY <1>7, <2>1, <2>3 DEF n
<1> QED
  BY <1>8, <1>9

\* EXT cut to n pulls PTR down and keeps the buffer if PTR is still in it.
LEMMA ResizedSound ==
  ASSUME NEW c, Sound(c), NEW n \in Nat, n <= c.ext
  PROVE  LET z == Resized(c, n)
         IN  /\ Sound(z) /\ z.open = c.open /\ z.upd = TRUE
             /\ z.sect = c.sect /\ z.buf = c.buf /\ z.dirty = c.dirty
<1> DEFINE r == [c EXCEPT !.ext = n, !.upd = TRUE]
           q == IF c.ptr >= n THEN PtrSet(r, n) ELSE r
           z == Resized(c, n)
<1>1. /\ c \in Block /\ c.ptr \in Nat /\ c.ext \in Nat /\ c.room \in Nat
      /\ c.ptr <= c.ext /\ c.ext <= c.room * SectorSize
      /\ c.room <= MaxSectors
  BY BlockFields DEF Sound
<1>2. c.room * SectorSize \in Nat
  BY <1>1, SizesAre
<1>3. n <= c.room * SectorSize
  BY <1>1, <1>2
<1>4. z = [q EXCEPT !.eof = FALSE]
  BY DEF Resized
<1>5. /\ r \in Block /\ r.ptr = c.ptr /\ r.ext = n /\ r.upd = TRUE
      /\ r.open = c.open /\ r.room = c.room /\ r.sect = c.sect
      /\ r.buf = c.buf /\ r.ok = c.ok /\ r.dirty = c.dirty
  BY <1>1 DEF Block
<1> HIDE DEF r, z
<1>6. CASE c.ptr >= n
  <2>1. q = PtrSet(r, n)
    BY <1>6
  <2>2. /\ q \in Block /\ q.ptr = n /\ q.ok = (c.sect = SectorOf(n))
        /\ q.ext = n /\ q.upd = TRUE /\ q.open = c.open
        /\ q.room = c.room /\ q.sect = c.sect /\ q.buf = c.buf /\ q.dirty = c.dirty
    <3>1. q = [r EXCEPT !.ptr = n, !.eof = FALSE, !.ok = r.sect = SectorOf(n)]
      BY <2>1 DEF PtrSet
    <3> HIDE DEF q
    <3> QED
      BY <1>5, <3>1 DEF Block
  <2> HIDE DEF q
  <2>3. /\ z \in Block /\ z.ptr = n /\ z.ok = (c.sect = SectorOf(n))
        /\ z.ext = n /\ z.upd = TRUE /\ z.open = c.open /\ z.eof = FALSE
        /\ z.room = c.room /\ z.sect = c.sect /\ z.buf = c.buf /\ z.dirty = c.dirty
    BY <1>4, <2>2 DEF Block
  <2>4. z.ok => z.sect = SectorOf(z.ptr) /\ z.sect \in Sectors
    <3>1. SectorOf(n) \in Nat /\ SectorOf(n) <= c.room
      BY <1>1, <1>3, SectorIs, SectorBelow
    <3>2. c.sect \in Sectors \cup {NoSector}
      BY <1>1, BlockFields
    <3>3. ASSUME c.sect = SectorOf(n)  PROVE c.sect \in Sectors
      BY <1>1, <3>1, <3>2, <3>3, SizesAre
    <3> QED
      BY <2>3, <3>3
  <2>5. Sound(z)
    BY <1>3, <2>3, <2>4 DEF Sound
  <2> QED
    BY <2>3, <2>5 DEF z
<1>7. CASE ~(c.ptr >= n)
  <2>1. q = r
    BY <1>7
  <2> HIDE DEF q
  <2>2. /\ z \in Block /\ z.ptr = c.ptr /\ z.ok = c.ok
        /\ z.ext = n /\ z.upd = TRUE /\ z.open = c.open /\ z.eof = FALSE
        /\ z.room = c.room /\ z.sect = c.sect /\ z.buf = c.buf /\ z.dirty = c.dirty
    BY <1>4, <1>5, <2>1 DEF Block
  <2>3. z.ptr <= z.ext /\ z.ext <= z.room * SectorSize
    BY <1>1, <1>3, <1>7, <2>2
  <2>4. Sound(z)
    BY <2>2, <2>3 DEF Sound
  <2> QED
    BY <2>2, <2>4 DEF z
<1> QED
  BY <1>6, <1>7

\* A dirty buffer goes to a sector of the file.
LEMMA SavedDisk ==
  ASSUME NEW c, Sound(c), NEW d \in [Sectors -> SectorBytes],
         NEW e \in AfterSave(d, c)
  PROVE  /\ e \in [Sectors -> SectorBytes]
         /\ "save" \notin Faults /\ Agrees(d, c) => Agrees(e, Saved(c))
<1>1. /\ c.sect \in Sectors \cup {NoSector} /\ c.buf \in SectorBytes
      /\ c.room \in Nat /\ c.room <= MaxSectors
      /\ c.dirty \in BOOLEAN
  BY BlockFields DEF Sound
<1>2. /\ Saved(c).sect = c.sect /\ Saved(c).buf = c.buf
  BY SavedSound
<1>3. CASE c.dirty
  <2>1. c.sect \in Sectors
    <3>1. c.sect < c.room
      BY <1>3 DEF Sound
    <3> QED
      BY <1>1, <3>1, SizesAre
  <2>2. e = [d EXCEPT ![c.sect] = c.buf] \/ ("save" \in Faults /\ e = d)
    BY <1>3 DEF AfterSave
  <2> QED
    BY <1>1, <1>2, <2>1, <2>2 DEF Agrees
<1>4. CASE ~c.dirty
  <2>1. e = d
    BY <1>4 DEF AfterSave
  <2> QED
    BY <1>2, <1>4, <2>1 DEF Agrees
<1> QED
  BY <1>3, <1>4

----------------------------------------------------------------------------
(* The steps that several actions have in common.                          *)

\* What an action gives for the buffer's contents when transfers succeed.
Kept == Faults = {} /\ Agrees(disk, ch) => Agrees(disk', ch')

\* One OSBPUT, of a caller or of the loop that fills a file with zeros.
LEMMA PutByteKeeps ==
  ASSUME IInv, ch.open, NEW c, Sound(c),
         c.open = ch.open, c.upd = ch.upd, c.ext = ch.ext,
         NEW b \in Byte, PutByte(c, b)
  PROVE  /\ Sound(ch') /\ ch'.open /\ ch.ext <= ch'.ext
         /\ disk' \in [Sectors -> SectorBytes]
         /\ len' \in Nat /\ len' <= MaxSectors * SectorSize
         /\ LengthKnown' /\ Kept
<1> DEFINE w == Roomier(c)
<1>1. /\ disk \in [Sectors -> SectorBytes]
      /\ len \in Nat /\ len <= MaxSectors * SectorSize
      /\ ~ch.upd => len = ch.ext
  BY DEF IInv, Lasting, LengthKnown
<1>2. /\ w.room <= MaxSectors
      /\ len' = IF Full(c) THEN w.room * SectorSize ELSE len
  BY DEF PutByte
<1>3. PICK d \in (IF c.ok THEN {disk} ELSE AfterSave(disk, c)) :
        /\ disk' = d
        /\ \E r \in Ready(d, w) : ch' = WithByte(r, b)
  BY DEF PutByte
<1>4. d \in [Sectors -> SectorBytes]
  BY <1>1, <1>3, SavedDisk
<1>5. PICK r \in Ready(d, w) : ch' = WithByte(r, b)
  BY <1>3
<1>6. /\ Sound(w) /\ w.ptr < w.room * SectorSize
      /\ w.open = c.open /\ w.upd = c.upd /\ w.ptr = c.ptr /\ w.ext = c.ext
      /\ Full(c) => c.ptr = c.ext
  BY <1>2, RoomierSound
<1> HIDE DEF w
<1>7. /\ Sound(r) /\ r.ok = TRUE /\ r.open = w.open /\ r.upd = w.upd
      /\ r.ptr = w.ptr /\ r.ext = w.ext /\ r.room = w.room
  BY <1>4, <1>6, ReadySound
<1>8. r.ptr < r.room * SectorSize
  BY <1>6, <1>7
<1>9. /\ Sound(ch') /\ ch'.dirty = TRUE /\ ch'.open = r.open
      /\ ch'.upd = TRUE \/ (r.ptr # r.ext /\ ch'.upd = r.upd /\ ch'.ext = r.ext)
      /\ r.ext <= ch'.ext
  BY <1>5, <1>7, <1>8, WithByteSound
<1>10. len' \in Nat /\ len' <= MaxSectors * SectorSize
  <2>1. w.room \in Nat
    BY <1>6, BlockFields DEF Sound
  <2>2. \A a, m \in Nat, z \in Nat : a <= m => a * z \in Nat /\ a * z <= m * z
    OBVIOUS
  <2>3. w.room * SectorSize \in Nat /\ w.room * SectorSize <= MaxSectors * SectorSize
    BY <1>2, <2>1, <2>2, SizesAre
  <2> QED
    BY <1>1, <1>2, <2>3
<1>11. LengthKnown'
  <2>1. ASSUME ~ch'.upd  PROVE len' = ch'.ext
    <3>1. r.ptr # r.ext /\ ch'.upd = r.upd /\ ch'.ext = r.ext
      BY <1>9, <2>1
    <3>2. len' = len /\ len = ch.ext
      BY <1>1, <1>2, <1>6, <1>7, <2>1, <3>1
    <3> QED
      BY <1>6, <1>7, <3>1, <3>2
  <2> QED
    BY <2>1 DEF LengthKnown
<1>12. Kept
  BY <1>9 DEF Kept, Agrees
<1> QED
  BY <1>3, <1>4, <1>6, <1>7, <1>9, <1>10, <1>11, <1>12

\* Only the block and the reply change, and EXT only together with bit 5.
LEMMA BlockOnlyKeeps ==
  ASSUME IInv, Sound(ch'), ch'.open = ch.open,
         ch'.upd = TRUE \/ (ch'.upd = ch.upd /\ ch'.ext = ch.ext),
         UNCHANGED <<disk, len>>, goal' = NoGoal
  PROVE  IInv'
<1>1. NoGoal \in Goal /\ NoGoal.call = "none"
  BY DEF NoGoal, Goal
<1>2. LengthKnown'
  BY DEF IInv, Lasting, LengthKnown
<1> QED
  BY <1>1, <1>2 DEF IInv, Lasting

LEMMA TruncateSound ==
  ASSUME NEW c, Sound(c), NEW n \in Nat, n <= c.ext, TruncateOrRefuse(c, n)
  PROVE  /\ Sound(ch') /\ ch'.open = c.open
         /\ ch'.upd = TRUE \/ (ch'.upd = c.upd /\ ch'.ext = c.ext)
         /\ ch'.sect = c.sect /\ ch'.buf = c.buf /\ ch'.dirty = c.dirty
<1>1. CASE ch' = c
  BY <1>1
<1>2. CASE ch' = Resized(c, n)
  BY <1>2, ResizedSound
<1> QED
  BY <1>1, <1>2 DEF TruncateOrRefuse

\* Nothing but the flags, PTR and EXT of the block changes.
LEMMA SameBuffer ==
  ASSUME ch'.sect = ch.sect, ch'.buf = ch.buf, ch'.dirty = ch.dirty, disk' = disk
  PROVE  Kept
  BY DEF Kept, Agrees

LEMMA NoBuffer ==
  ASSUME ch'.sect = NoSector
  PROVE  Kept
  BY DEF Kept, Agrees

\* The row is given the channel's length if bit 5 says so.
LEMMA WrittenKeeps ==
  ASSUME IInv, ch.open, Written
  PROVE  /\ disk' \in [Sectors -> SectorBytes]
         /\ len' = ch.ext /\ len' \in Nat /\ len' <= MaxSectors * SectorSize
<1>1. /\ ch.ext \in Nat /\ ch.room \in Nat /\ ch.room <= MaxSectors
      /\ ch.ext <= ch.room * SectorSize
  BY BlockFields DEF IInv, Sound
<1>2. ch.ext <= MaxSectors * SectorSize
  <2>1. \A a, m \in Nat, z \in Nat : a <= m => a * z \in Nat /\ m * z \in Nat /\ a * z <= m * z
    OBVIOUS
  <2>2. /\ ch.room * SectorSize \in Nat /\ MaxSectors * SectorSize \in Nat
        /\ ch.room * SectorSize <= MaxSectors * SectorSize
    BY <1>1, <2>1, SizesAre
  <2> QED
    BY <1>1, <2>2
<1>3. len' = ch.ext
  BY DEF IInv, Lasting, LengthKnown, Written
<1>4. disk' \in [Sectors -> SectorBytes]
  BY SavedDisk DEF IInv, Lasting, Written
<1> QED
  BY <1>1, <1>2, <1>3, <1>4

----------------------------------------------------------------------------
(* The actions.                                                            *)

LEMMA PositionsAre == Positions \subseteq Nat
  BY SizesAre DEF Positions

LEMMA InitSound == Init => IInv /\ Agrees(disk, ch)
<1> SUFFICES ASSUME Init  PROVE IInv /\ Agrees(disk, ch)
  OBVIOUS
<1>1. NoGoal \in Goal /\ NoGoal.call = "none"
  BY DEF NoGoal, Goal
<1>2. len \in Nat /\ len <= MaxSectors * SectorSize
  BY SizesAre DEF Init
<1> QED
  BY <1>1, <1>2, ClosedSound DEF Init, IInv, Lasting, LengthKnown, Agrees

LEMMA OpenKeeps ==
  ASSUME IInv, goal = NoGoal, NEW op \in {"in", "up", "out"},
         NEW locked \in BOOLEAN, NEW shut \in BOOLEAN, Open(op, locked, shut)
  PROVE  IInv' /\ Kept
<1>1. /\ len \in Nat /\ len <= MaxSectors * SectorSize
      /\ disk \in [Sectors -> SectorBytes]
  BY DEF IInv, Lasting
<1>2. /\ SectorsFor(len) \in Nat /\ len <= SectorsFor(len) * SectorSize
      /\ SectorsFor(len) <= MaxSectors
  BY <1>1, WholeSectors, SizesAre
<1> DEFINE e == IF op = "out" THEN 0 ELSE len
<1>3. e \in Nat /\ e <= SectorsFor(len) * SectorSize
  BY <1>1, <1>2, SizesAre
<1>4. ch' = [Closed EXCEPT
               !.open = TRUE, !.prot = op = "in" \/ locked, !.shut = shut,
               !.ext = e, !.room = SectorsFor(len), !.upd = op = "out"]
  BY DEF Open
<1>5. /\ Closed \in Block /\ Closed.ptr = 0 /\ Closed.sect = NoSector
      /\ Closed.ok = FALSE /\ Closed.dirty = FALSE /\ Closed.eof = FALSE
  BY ClosedSound DEF Sound, Closed
<1>6. (op = "in" \/ locked) \in BOOLEAN /\ (op = "out") \in BOOLEAN
  OBVIOUS
<1>7. /\ ch'.open = TRUE /\ ch'.ext = e /\ ch'.room = SectorsFor(len)
      /\ ch'.upd = (op = "out") /\ ch'.ptr = 0 /\ ch'.sect = NoSector
      /\ ch'.ok = FALSE /\ ch'.dirty = FALSE /\ ch'.eof = FALSE
  BY <1>4, <1>5 DEF Block
<1>8. ch' \in Block
  <2>1. ASSUME NEW b1 \in BOOLEAN, NEW b2 \in BOOLEAN, NEW b3 \in BOOLEAN,
               NEW x \in Nat, NEW r \in Nat
        PROVE  [Closed EXCEPT !.open = TRUE, !.prot = b1, !.shut = b2,
                              !.ext = x, !.room = r, !.upd = b3] \in Block
    BY <1>5 DEF Block
  <2> HIDE DEF e
  <2> QED
    BY <1>2, <1>3, <1>4, <1>6, <2>1
<1>9. Sound(ch')
  BY <1>2, <1>3, <1>7, <1>8 DEF Sound
<1>10. ~ch'.upd => len' = ch'.ext
  BY <1>7 DEF Open
<1>11. NoGoal \in Goal /\ NoGoal.call = "none"
  BY DEF NoGoal, Goal
<1> QED
  BY <1>1, <1>7, <1>9, <1>10, <1>11, NoBuffer
     DEF Open, IInv, Lasting, LengthKnown

LEMMA CloseKeeps ==
  ASSUME IInv, goal = NoGoal, Close
  PROVE  IInv' /\ Kept
<1>1. NoGoal \in Goal /\ NoGoal.call = "none"
  BY DEF NoGoal, Goal
<1> QED
  BY <1>1, ClosedSound, WrittenKeeps, NoBuffer
     DEF Close, IInv, Lasting, LengthKnown

LEMMA FlushKeeps ==
  ASSUME IInv, goal = NoGoal, Flush
  PROVE  IInv' /\ Kept
<1>1. NoGoal \in Goal /\ NoGoal.call = "none"
  BY DEF NoGoal, Goal
<1>2. /\ Sound(ch') /\ ch'.open = ch.open /\ ch'.ext = ch.ext
  BY SavedSound DEF Flush, IInv
<1>3. Kept
  BY SavedDisk DEF Flush, Written, Kept, IInv, Lasting
<1> QED
  BY <1>1, <1>2, <1>3, WrittenKeeps DEF Flush, IInv, Lasting, LengthKnown

LEMMA ReclaimKeeps ==
  ASSUME IInv, goal = NoGoal, Reclaim
  PROVE  IInv' /\ Kept
<1>1. NoGoal \in Goal /\ NoGoal.call = "none"
  BY DEF NoGoal, Goal
<1>2. /\ Sound(ch') /\ ch'.open = ch.open /\ ch'.ext = ch.ext
      /\ ch'.sect = NoSector
  BY DisownedSound DEF Reclaim, IInv
<1> QED
  BY <1>1, <1>2, WrittenKeeps, NoBuffer DEF Reclaim, IInv, Lasting, LengthKnown

LEMMA BgetAtEndKeeps ==
  ASSUME IInv, goal = NoGoal, BgetAtEnd
  PROVE  IInv' /\ Kept
<1>1. CASE ch' = ch
  BY <1>1, BlockOnlyKeeps, SameBuffer DEF BgetAtEnd, IInv
<1>2. CASE ch' = [ch EXCEPT !.eof = TRUE]
  <2>1. ch \in Block
    BY DEF IInv, Sound
  <2>2. ch' \in Block
    BY <1>2, <2>1 DEF Block
  <2>3. /\ ch'.eof = TRUE /\ ch'.open = ch.open /\ ch'.upd = ch.upd
        /\ ch'.ptr = ch.ptr /\ ch'.ext = ch.ext /\ ch'.room = ch.room
        /\ ch'.sect = ch.sect /\ ch'.buf = ch.buf /\ ch'.ok = ch.ok
        /\ ch'.dirty = ch.dirty
    BY <1>2, <2>1 DEF Block
  <2>4. ch.ptr = ch.ext /\ Sound(ch)
    BY DEF BgetAtEnd, IInv
  <2>5. Sound(ch')
    BY <2>2, <2>3, <2>4 DEF Sound
  <2> QED
    BY <2>3, <2>5, BlockOnlyKeeps, SameBuffer DEF BgetAtEnd
<1> QED
  BY <1>1, <1>2 DEF BgetAtEnd

LEMMA BgetKeeps ==
  ASSUME IInv, goal = NoGoal, Bget
  PROVE  IInv' /\ Kept
<1> USE DEF IInv
<1>1. /\ ch \in Block /\ ch.ptr \in Nat /\ ch.ext \in Nat /\ ch.room \in Nat
      /\ ch.ptr <= ch.ext /\ ch.ext <= ch.room * SectorSize
      /\ disk \in [Sectors -> SectorBytes] /\ len' = len /\ goal' = NoGoal
      /\ ch.ptr # ch.ext
  BY BlockFields DEF Sound, Lasting, Bget
<1>2. ch.room * SectorSize \in Nat
  BY <1>1, SizesAre
<1>3. ch.ptr < ch.room * SectorSize
  BY <1>1, <1>2
<1>4. CASE ch.ok /\ Given(ch) /\ UNCHANGED disk
  <2>1. /\ Sound(ch') /\ ch'.open = ch.open /\ ch'.upd = ch.upd
        /\ ch'.ext = ch.ext /\ ch'.sect = ch.sect /\ ch'.buf = ch.buf
        /\ ch'.dirty = ch.dirty
    BY <1>1, <1>4, SteppedSound, SteppedIs DEF Given
  <2> QED
    BY <1>1, <1>4, <2>1, BlockOnlyKeeps, SameBuffer
<1>5. ASSUME NEW c \in AfterLoad(disk', Saved(ch)),
             disk' \in AfterSave(disk, ch), Given(c)
      PROVE  IInv' /\ Kept
  <2>1. disk' \in [Sectors -> SectorBytes]
    BY <1>1, <1>5, SavedDisk
  <2>2. /\ Sound(Saved(ch)) /\ Saved(ch).dirty = FALSE
        /\ Saved(ch).open = ch.open /\ Saved(ch).upd = ch.upd
        /\ Saved(ch).ptr = ch.ptr /\ Saved(ch).ext = ch.ext
        /\ Saved(ch).room = ch.room
    BY SavedSound
  <2>3. Saved(ch).ptr < Saved(ch).room * SectorSize
    BY <1>3, <2>2
  <2>4. /\ Sound(c) /\ c.dirty = FALSE /\ c.open = ch.open /\ c.upd = ch.upd
        /\ c.ptr = ch.ptr /\ c.ext = ch.ext
        /\ "load" \notin Faults => Agrees(disk', c)
    BY <1>5, <2>1, <2>2, <2>3, LoadSound
  <2>5. /\ Sound(ch') /\ ch'.open = c.open /\ ch'.upd = c.upd
        /\ ch'.ext = c.ext /\ ch'.sect = c.sect /\ ch'.buf = c.buf
        /\ ch'.dirty = c.dirty
    <3>1. ch' = Stepped(c) /\ c \in Block /\ c.ptr # c.ext
      BY <1>1, <1>5, <2>4 DEF Given, Sound
    <3> QED
      BY <2>4, <3>1, SteppedSound, SteppedIs
  <2>6. Kept
    BY <2>4, <2>5 DEF Kept, Agrees
  <2>7. NoGoal \in Goal /\ NoGoal.call = "none"
    BY DEF NoGoal, Goal
  <2> QED
    BY <1>1, <2>1, <2>4, <2>5, <2>6, <2>7 DEF Lasting, LengthKnown
<1> QED
  BY <1>4, <1>5 DEF Bget

LEMMA BputKeeps ==
  ASSUME IInv, goal = NoGoal, NEW b \in Byte, Bput(b)
  PROVE  IInv' /\ Kept
<1>1. NoGoal \in Goal /\ NoGoal.call = "none"
  BY DEF NoGoal, Goal
<1>2. /\ Sound(ch) /\ ch.open /\ PutByte(ch, b) /\ goal' = NoGoal
  BY DEF IInv, Bput
<1>3. /\ Sound(ch') /\ disk' \in [Sectors -> SectorBytes]
      /\ len' \in Nat /\ len' <= MaxSectors * SectorSize
      /\ LengthKnown' /\ Kept
  BY <1>2, PutByteKeeps
<1> QED
  BY <1>1, <1>2, <1>3 DEF IInv, Lasting

LEMMA SetPtrKeeps ==
  ASSUME IInv, goal = NoGoal, NEW p \in Positions, SetPtr(p)
  PROVE  IInv' /\ Kept
<1>1. p \in Nat /\ p <= ch.ext /\ Sound(ch) /\ ch' = PtrSet(ch, p)
  BY PositionsAre DEF SetPtr, IInv
<1>2. /\ Sound(ch') /\ ch'.open = ch.open /\ ch'.upd = ch.upd
      /\ ch'.ext = ch.ext /\ ch'.sect = ch.sect /\ ch'.buf = ch.buf
      /\ ch'.dirty = ch.dirty
  BY <1>1, PtrSetSound
<1> QED
  BY <1>2, BlockOnlyKeeps, SameBuffer DEF SetPtr

LEMMA SetExtKeeps ==
  ASSUME IInv, goal = NoGoal, NEW p \in Positions, SetExt(p)
  PROVE  IInv' /\ Kept
<1>1. p \in Nat /\ p <= ch.ext /\ Sound(ch) /\ TruncateOrRefuse(ch, p)
  BY PositionsAre DEF SetExt, IInv
<1>2. /\ Sound(ch') /\ ch'.open = ch.open
      /\ ch'.upd = TRUE \/ (ch'.upd = ch.upd /\ ch'.ext = ch.ext)
      /\ ch'.sect = ch.sect /\ ch'.buf = ch.buf /\ ch'.dirty = ch.dirty
  BY <1>1, TruncateSound
<1> QED
  BY <1>2, BlockOnlyKeeps, SameBuffer DEF SetExt

LEMMA GrowKeeps ==
  ASSUME IInv, NEW call \in {"ptr", "ext"}, NEW p \in Positions, Grow(call, p)
  PROVE  IInv' /\ Kept
<1>1. /\ ch.ptr \in Nat /\ ch.ext \in Nat /\ ch.eof \in BOOLEAN
      /\ ch.ptr <= ch.ext
  BY BlockFields DEF IInv, Sound
<1>2. goal' = [to |-> p, call |-> call, was |-> ch.ext, ptr |-> ch.ptr, eof |-> ch.eof]
  BY DEF Grow
<1>3. goal' \in Goal /\ goal'.call = call /\ goal'.ptr = ch.ptr
  BY <1>1, <1>2, PositionsAre DEF Goal
<1>4. Kept
  BY SameBuffer DEF Grow
<1>5. /\ ch.open /\ UNCHANGED <<disk, len, ch>> /\ call # "none"
  BY DEF Grow
<1> QED
  BY <1>1, <1>3, <1>4, <1>5 DEF IInv, Lasting, LengthKnown

LEMMA GrowByteKeeps ==
  ASSUME IInv, GrowByte
  PROVE  IInv' /\ Kept
<1>1. /\ goal \in Goal /\ ch.ext < goal.to /\ UNCHANGED goal
      /\ Sound(ch) /\ ch.ext \in Nat
  BY BlockFields DEF IInv, Lasting, GrowByte, Sound
<1>2. goal.call # "none"
  BY <1>1 DEF IInv, Lasting, NoGoal
<1>3. ch.open /\ goal.ptr <= ch.ext /\ goal.ptr \in Nat
  BY <1>1, <1>2 DEF IInv, Lasting, Goal
<1> DEFINE c == PtrSet(ch, ch.ext)
<1>4. /\ Sound(c) /\ c.open = ch.open /\ c.upd = ch.upd /\ c.ext = ch.ext
  BY <1>1, PtrSetSound
<1>5. PutByte(c, Zero) /\ Zero \in Byte
  BY BufferAssumption DEF GrowByte
<1> HIDE DEF c
<1>6. /\ Sound(ch') /\ ch'.open /\ ch.ext <= ch'.ext
      /\ disk' \in [Sectors -> SectorBytes]
      /\ len' \in Nat /\ len' <= MaxSectors * SectorSize
      /\ LengthKnown' /\ Kept
  BY <1>3, <1>4, <1>5, PutByteKeeps
<1>7. goal.ptr <= ch'.ext
  BY <1>1, <1>3, <1>6, BlockFields DEF Sound
<1> QED
  BY <1>1, <1>2, <1>6, <1>7 DEF IInv, Lasting

LEMMA GrowRefusedKeeps ==
  ASSUME IInv, GrowRefused
  PROVE  IInv' /\ Kept
<1>1. /\ ch' = PtrSet(ch, ch.ext) /\ Sound(ch) /\ ch.ext \in Nat
  BY BlockFields DEF GrowRefused, IInv, Sound
<1>2. /\ Sound(ch') /\ ch'.open = ch.open /\ ch'.upd = ch.upd
      /\ ch'.ext = ch.ext /\ ch'.sect = ch.sect /\ ch'.buf = ch.buf
      /\ ch'.dirty = ch.dirty
  BY <1>1, PtrSetSound
<1> QED
  BY <1>2, BlockOnlyKeeps, SameBuffer DEF GrowRefused

LEMMA GrowDoneKeeps ==
  ASSUME IInv, GrowDone
  PROVE  IInv' /\ Kept
<1>1. /\ goal.to \in Nat /\ goal.ptr \in Nat /\ ch.ext \in Nat
      /\ goal.to <= ch.ext /\ goal.ptr <= ch.ext /\ Sound(ch)
  BY BlockFields DEF IInv, Lasting, Goal, GrowDone, Sound
<1>2. CASE ch' = PtrSet(ch, goal.to)
  <2>1. /\ Sound(ch') /\ ch'.open = ch.open /\ ch'.upd = ch.upd
        /\ ch'.ext = ch.ext /\ ch'.sect = ch.sect /\ ch'.buf = ch.buf
        /\ ch'.dirty = ch.dirty
    BY <1>1, <1>2, PtrSetSound
  <2> QED
    BY <2>1, BlockOnlyKeeps, SameBuffer DEF GrowDone
<1>3. CASE TruncateOrRefuse(PtrSet(ch, goal.ptr), goal.to)
  <2> DEFINE c == PtrSet(ch, goal.ptr)
  <2>1. /\ Sound(c) /\ c.open = ch.open /\ c.upd = ch.upd
        /\ c.ext = ch.ext /\ c.sect = ch.sect /\ c.buf = ch.buf
        /\ c.dirty = ch.dirty
    BY <1>1, PtrSetSound
  <2>2. TruncateOrRefuse(c, goal.to)
    BY <1>3
  <2> HIDE DEF c
  <2>3. /\ Sound(ch') /\ ch'.open = c.open
        /\ ch'.upd = TRUE \/ (ch'.upd = c.upd /\ ch'.ext = c.ext)
        /\ ch'.sect = c.sect /\ ch'.buf = c.buf /\ ch'.dirty = c.dirty
    BY <1>1, <2>1, <2>2, TruncateSound
  <2> QED
    BY <2>1, <2>3, BlockOnlyKeeps, SameBuffer DEF GrowDone
<1> QED
  BY <1>2, <1>3 DEF GrowDone

\* Sectors are moved on the disk and the buffer is disowned.
LEMMA FastKeeps ==
  ASSUME IInv, goal = NoGoal, NEW k \in Nat \ {0}, Aligned(k),
         SectorOf(ch.ptr) + k <= ch.room, ch' = Moved(Disowned(ch), k),
         disk' \in [Sectors -> SectorBytes], UNCHANGED <<len, goal>>
  PROVE  IInv' /\ Kept
<1> DEFINE c == Disowned(ch)
<1>1. /\ Sound(c) /\ c.sect = NoSector /\ c.open = ch.open /\ c.upd = ch.upd
      /\ c.ptr = ch.ptr /\ c.ext = ch.ext /\ c.room = ch.room
      /\ c.ok = FALSE /\ c.dirty = FALSE
  BY DisownedSound DEF IInv
<1>2. Offset(c.ptr) = 0 /\ SectorOf(c.ptr) + k <= c.room
  BY <1>1 DEF Aligned
<1>3. ch' = Moved(c, k)
  OBVIOUS
<1> HIDE DEF c
<1>4. /\ Sound(ch') /\ ch'.open = c.open /\ ch'.sect = c.sect
      /\ ch'.upd = TRUE \/ (ch'.upd = c.upd /\ ch'.ext = c.ext)
  <2> DEFINE n == Moved(c, k)
  <2>1. /\ Sound(n) /\ n.open = c.open /\ n.sect = c.sect
        /\ n.upd = TRUE \/ (n.upd = c.upd /\ n.ext = c.ext)
    BY ONLY <1>1, <1>2, k \in Nat \ {0}, MovedSound
  <2> HIDE DEF n
  <2>2. ch' = n
    BY <1>3 DEF n
  <2> QED
    BY ONLY <2>1, <2>2
<1>5. NoGoal \in Goal /\ NoGoal.call = "none"
  BY DEF NoGoal, Goal
<1>6. LengthKnown'
  BY <1>1, <1>4 DEF IInv, Lasting, LengthKnown
<1>7. Kept
  BY <1>1, <1>4, NoBuffer
<1> QED
  BY <1>4, <1>5, <1>6, <1>7 DEF IInv, Lasting

LEMMA FastGetKeeps ==
  ASSUME IInv, goal = NoGoal, NEW k \in 1 .. MaxSectors, FastGet(k)
  PROVE  IInv' /\ Kept
<1>1. k \in Nat \ {0}
  BY SizesAre
<1>2. /\ ch.ptr \in Nat /\ ch.ext \in Nat /\ ch.room \in Nat
      /\ ch.ext <= ch.room * SectorSize
  BY BlockFields DEF IInv, Sound
<1>3. SectorOf(ch.ptr) \in Nat /\ SectorOf(ch.ext) \in Nat
  BY <1>2, SectorIs
<1>4. SectorOf(ch.ext) <= ch.room
  BY <1>2, SectorBelow
<1>5. SectorOf(ch.ptr) + k <= ch.room
  BY <1>1, <1>2, <1>3, <1>4 DEF FastGet
<1>6. disk' \in [Sectors -> SectorBytes]
  BY SavedDisk DEF FastGet, IInv, Lasting
<1> QED
  BY <1>1, <1>5, <1>6, FastKeeps DEF FastGet

LEMMA FastPutKeeps ==
  ASSUME IInv, goal = NoGoal, NEW k \in 1 .. MaxSectors,
         NEW data \in [0 .. (k - 1) -> SectorBytes], FastPut(k, data)
  PROVE  IInv' /\ Kept
<1>1. k \in Nat \ {0}
  BY SizesAre
<1>2. PICK d \in AfterSave(disk, ch) :
        disk' = [s \in Sectors |->
                   LET j == s - SectorOf(ch.ptr)
                   IN  IF s >= SectorOf(ch.ptr) /\ j < k THEN data[j] ELSE d[s]]
  BY DEF FastPut
<1>3. d \in [Sectors -> SectorBytes]
  BY <1>2, SavedDisk DEF IInv, Lasting
<1>4. SectorOf(ch.ptr) \in Nat
  BY BlockFields, SectorIs DEF IInv, Sound
<1>5. ASSUME NEW s \in Sectors, s >= SectorOf(ch.ptr), s - SectorOf(ch.ptr) < k
      PROVE  data[s - SectorOf(ch.ptr)] \in SectorBytes
  <2>1. s - SectorOf(ch.ptr) \in 0 .. (k - 1)
    BY <1>1, <1>4, <1>5, SizesAre DEF Sectors
  <2> QED
    BY <2>1
<1>6. disk' \in [Sectors -> SectorBytes]
  BY <1>2, <1>3, <1>5
<1> QED
  BY <1>1, <1>6, FastKeeps DEF FastPut

LEMMA CallKeeps ==
  ASSUME IInv, goal = NoGoal, Call
  PROVE  IInv' /\ Kept
<1>1. CASE \E op \in {"in", "up", "out"}, locked, shut \in BOOLEAN : Open(op, locked, shut)
  BY <1>1, OpenKeeps
<1>2. CASE Close \/ Flush \/ Reclaim
  BY <1>2, CloseKeeps, FlushKeeps, ReclaimKeeps
<1>3. CASE BgetAtEnd \/ Bget
  BY <1>3, BgetAtEndKeeps, BgetKeeps
<1>4. CASE BputRefused
  BY <1>4, BlockOnlyKeeps, SameBuffer DEF BputRefused, IInv
<1>5. CASE \E b \in Byte : Bput(b)
  BY <1>5, BputKeeps
<1>6. CASE \E p \in Positions : SetPtr(p) \/ SetExt(p)
  BY <1>6, SetPtrKeeps, SetExtKeeps
<1>7. CASE \E call \in {"ptr", "ext"}, p \in Positions : Grow(call, p)
  BY <1>7, GrowKeeps
<1>8. CASE \E k \in 1 .. MaxSectors : FastGet(k)
  BY <1>8, FastGetKeeps
<1>9. CASE \E k \in 1 .. MaxSectors :
             \E data \in [0 .. (k - 1) -> SectorBytes] : FastPut(k, data)
  BY <1>9, FastPutKeeps
<1> QED
  BY <1>1, <1>2, <1>3, <1>4, <1>5, <1>6, <1>7, <1>8, <1>9 DEF Call

LEMMA NextKeeps ==
  ASSUME IInv, [Next]_vars
  PROVE  IInv' /\ Kept
<1>1. CASE goal = NoGoal /\ Call
  BY <1>1, CallKeeps
<1>2. CASE GrowByte \/ GrowRefused \/ GrowDone
  BY <1>2, GrowByteKeeps, GrowRefusedKeeps, GrowDoneKeeps
<1>3. CASE UNCHANGED vars
  BY <1>3 DEF vars, IInv, Lasting, LengthKnown, Kept
<1> QED
  BY <1>1, <1>2, <1>3 DEF Next

----------------------------------------------------------------------------
(* The theorems.                                                           *)

\* The inductive invariant, for any transfers that fail.
THEOREM BufferSound == Spec => []IInv
<1>1. Init => IInv
  BY InitSound
<1>2. IInv /\ [Next]_vars => IInv'
  BY NextKeeps
<1> QED
  BY <1>1, <1>2, PTL DEF Spec

\* The channel block, the disk and the call in progress keep their types.
THEOREM BufferTypeCorrect == Spec => []TypeOK
<1>1. IInv => TypeOK
  BY DEF IInv, Sound, Lasting, TypeOK
<1> QED
  BY <1>1, BufferSound, PTL

\* Bit 7 is only ever set while the buffer's sector is the one PTR is in, for
\* every sector size and whatever transfers fail: OSBGET and OSBPUT never use
\* the buffer for a byte of another sector.
THEOREM BufferBelongsToPtr == Spec => []BufferIsPtrs
<1>1. IInv => BufferIsPtrs
  BY SizesAre DEF IInv, Sound, BufferIsPtrs, Sectors
<1> QED
  BY <1>1, BufferSound, PTL

\* PTR stays within EXT, EXT within the sectors of the file, a sector to be
\* written is one of them, and the end is remembered only at the end.
THEOREM PointersStayInFile == Spec => []PointersInFile
<1>1. IInv => PointersInFile
  BY DEF IInv, Sound, PointersInFile
<1> QED
  BY <1>1, BufferSound, PTL

\* Without bit 5 the row already has the length, whatever moved EXT.
THEOREM LengthIsKnown == Spec => []LengthKnown
<1>1. IInv => LengthKnown
  BY DEF IInv, Lasting
<1> QED
  BY <1>1, BufferSound, PTL

\* When no transfer fails, a buffer that is not to be written is the sector it
\* is said to be: nothing stale is ever given or written back.
THEOREM BufferMatchesDisk ==
  ASSUME Faults = {}
  PROVE  Spec => []BufferAgrees
<1> DEFINE AInv == IInv /\ Agrees(disk, ch)
<1>1. Init => AInv
  BY InitSound
<1>2. AInv /\ [Next]_vars => AInv'
  BY NextKeeps DEF Kept
<1>3. AInv => BufferAgrees
  BY DEF Agrees, BufferAgrees
<1> QED
  BY <1>1, <1>2, <1>3, PTL DEF Spec

----------------------------------------------------------------------------
(* The channel as a file of bytes.                                         *)

\* The byte at position p: the buffer's, if it is still to be written.
Shown(d, c, p) ==
  IF c.dirty /\ c.sect = SectorOf(p) THEN c.buf[Offset(p)]
                                    ELSE d[SectorOf(p)][Offset(p)]

\* A call that fills the file has got from its old end to EXT, with zeros.
Filling ==
  goal.call # "none" =>
    /\ goal.was <= ch.ext /\ ch.ext <= goal.to /\ goal.was < goal.to
    /\ goal.to <= MaxSectors * SectorSize
    /\ goal.ptr <= goal.was
    /\ ch.shut => ch.ext = goal.was
    /\ \A p \in Nat : goal.was <= p /\ p < ch.ext => Shown(disk, ch, p) = Zero

FileInv ==
  /\ IInv /\ Agrees(disk, ch) /\ Filling
  /\ ~ch.open => ch = Closed

\* The first n bytes.
Bytes(d, c, n) == [i \in 1 .. n |-> Shown(d, c, i - 1)]

\* The k bytes from position p on.
Part(d, c, p, k) == [i \in 1 .. k |-> Shown(d, c, p + i - 1)]

Limit == MaxSectors * SectorSize

\* The fields that only OSFIND sets.
SameKind(c, n) == n.open = c.open /\ n.prot = c.prot /\ n.shut = c.shut

SameBytes(c, n) == n.dirty = c.dirty /\ n.sect = c.sect /\ n.buf = c.buf

----------------------------------------------------------------------------
(* What each operator does to the fields a program can see.                *)

LEMMA LimitIs ==
  /\ Limit \in Nat
  /\ \A r \in Nat : r <= MaxSectors => r * SectorSize <= Limit
<1>1. \A a, m, z \in Nat : a <= m => a * z <= m * z
  OBVIOUS
<1>2. \A m, z \in Nat : m * z \in Nat
  OBVIOUS
<1> QED
  BY <1>1, <1>2, SizesAre DEF Limit

\* Two positions are one if sector and offset are.
LEMMA OnePosition ==
  ASSUME NEW p \in Nat, NEW q \in Nat, SectorOf(p) = SectorOf(q),
         Offset(p) = Offset(q)
  PROVE  p = q
<1>1. /\ p = SectorSize * SectorOf(p) + Offset(p)
      /\ q = SectorSize * SectorOf(q) + Offset(q)
  BY SectorIs
<1> QED
  BY <1>1

LEMMA InAFile ==
  ASSUME NEW p \in Nat, p < Limit
  PROVE  SectorOf(p) \in Sectors
<1>1. SectorOf(p) \in Nat /\ SectorOf(p) < MaxSectors
  BY SizesAre, SectorIs, SectorBelow DEF Limit
<1> QED
  BY <1>1, SizesAre DEF Sectors

LEMMA ShownByte ==
  ASSUME NEW c \in Block, NEW d \in [Sectors -> SectorBytes],
         NEW p \in Nat, p < Limit
  PROVE  Shown(d, c, p) \in Byte
<1>1. SectorOf(p) \in Sectors /\ Offset(p) \in 0 .. (SectorSize - 1)
  BY InAFile, SectorIs
<1>2. c.buf \in SectorBytes /\ d[SectorOf(p)] \in SectorBytes
  BY <1>1, BlockFields
<1> QED
  BY <1>1, <1>2 DEF Shown, SectorBytes

\* Equal buffers show equal bytes.
LEMMA SameShown ==
  ASSUME NEW c, NEW n, SameBytes(c, n), NEW d, NEW p
  PROVE  Shown(d, n, p) = Shown(d, c, p)
  BY DEF SameBytes, Shown

\* A buffer written out shows what it showed before, and what is in it then no
\* longer matters.
LEMMA SavedShown ==
  ASSUME Faults = {}, NEW c, Sound(c), NEW d \in [Sectors -> SectorBytes],
         NEW e \in AfterSave(d, c), NEW p \in Nat, p < Limit
  PROVE  /\ e[SectorOf(p)][Offset(p)] = Shown(d, c, p)
         /\ \A n : ~n.dirty => Shown(e, n, p) = Shown(d, c, p)
<1>1. SectorOf(p) \in Sectors
  BY InAFile
<1>2. e = IF c.dirty THEN [d EXCEPT ![c.sect] = c.buf] ELSE d
  BY DEF AfterSave
<1>3. e[SectorOf(p)][Offset(p)] = Shown(d, c, p)
  BY <1>1, <1>2 DEF Shown
<1> QED
  BY <1>3 DEF Shown

LEMMA SavedIs ==
  ASSUME NEW c \in Block
  PROVE  /\ SameKind(c, Saved(c)) /\ Saved(c).eof = c.eof
         /\ Saved(c).ptr = c.ptr /\ Saved(c).ext = c.ext
         /\ Saved(c).dirty = FALSE
  BY DEF Saved, Block, SameKind

LEMMA DisownedIs ==
  ASSUME NEW c \in Block
  PROVE  /\ SameKind(c, Disowned(c)) /\ Disowned(c).eof = c.eof
         /\ Disowned(c).ptr = c.ptr /\ Disowned(c).ext = c.ext
         /\ Disowned(c).dirty = FALSE
  BY DEF Disowned, Saved, Block, SameKind

LEMMA PtrSetIs ==
  ASSUME NEW c \in Block, NEW p
  PROVE  LET n == PtrSet(c, p)
         IN  /\ SameKind(c, n) /\ n.eof = FALSE /\ n.ptr = p /\ n.ext = c.ext
             /\ SameBytes(c, n)
  BY DEF PtrSet, Block, SameKind, SameBytes

LEMMA SteppedRest ==
  ASSUME NEW c \in Block
  PROVE  LET n == Stepped(c)
         IN  /\ SameKind(c, n) /\ n.eof = c.eof /\ n.ptr = c.ptr + 1
             /\ n.ext = c.ext /\ SameBytes(c, n)
  BY DEF Stepped, Block, SameKind, SameBytes

LEMMA RoomierIs ==
  ASSUME NEW c \in Block
  PROVE  LET n == Roomier(c)
         IN  /\ SameKind(c, n) /\ n.eof = c.eof /\ n.ptr = c.ptr
             /\ n.ext = c.ext /\ n.ok = c.ok /\ SameBytes(c, n)
  BY DEF Roomier, Block, SameKind, SameBytes

LEMMA LoadedIs ==
  ASSUME NEW c \in Block, NEW b
  PROVE  LET n == [ForPtr(c) EXCEPT !.buf = b]
         IN  /\ SameKind(c, n) /\ n.eof = c.eof /\ n.ptr = c.ptr
             /\ n.ext = c.ext /\ n.sect = SectorOf(c.ptr) /\ n.buf = b
             /\ n.dirty = c.dirty
  BY DEF ForPtr, Block, SameKind

LEMMA WithByteIs ==
  ASSUME NEW c \in Block, NEW b
  PROVE  LET n == WithByte(c, b)
         IN  /\ SameKind(c, n) /\ n.eof = c.eof /\ n.ptr = c.ptr + 1
             /\ n.ext = IF c.ptr + 1 >= c.ext THEN c.ptr + 1 ELSE c.ext
             /\ n.sect = c.sect /\ n.dirty = TRUE
             /\ n.buf = [c.buf EXCEPT ![Offset(c.ptr)] = b]
<1> DEFINE t == Stepped(c)
           s == [t EXCEPT !.buf[Offset(c.ptr)] = b, !.dirty = TRUE]
           n == WithByte(c, b)
<1>1. /\ t \in Block /\ SameKind(c, t) /\ t.eof = c.eof /\ t.ptr = c.ptr + 1
      /\ t.ext = c.ext /\ t.sect = c.sect /\ t.buf = c.buf
  BY SteppedIs, SteppedRest DEF SameBytes
<1> HIDE DEF t
<1>2. /\ SameKind(t, s) /\ s.eof = t.eof /\ s.ptr = t.ptr /\ s.ext = t.ext
      /\ s.sect = t.sect /\ s.dirty = TRUE
      /\ s.buf = [t.buf EXCEPT ![Offset(c.ptr)] = b]
      /\ DOMAIN s = DOMAIN t
  BY <1>1 DEF Block, SameKind
<1>3. n = IF s.ptr >= s.ext THEN [s EXCEPT !.ext = s.ptr, !.upd = TRUE] ELSE s
  BY DEF WithByte, s, t
<1>4. DOMAIN t = DOMAIN c /\ DOMAIN c = {"open", "prot", "shut", "ptr", "ext",
        "room", "sect", "buf", "ok", "dirty", "upd", "eof"}
  BY <1>1 DEF Block
<1> HIDE DEF s, n
<1>5. CASE s.ptr >= s.ext
  <2>1. n = [s EXCEPT !.ext = s.ptr, !.upd = TRUE]
    BY <1>3, <1>5
  <2>2. /\ SameKind(s, n) /\ n.eof = s.eof /\ n.ptr = s.ptr /\ n.ext = s.ptr
        /\ n.sect = s.sect /\ n.dirty = s.dirty /\ n.buf = s.buf
    BY <1>2, <1>4, <2>1 DEF SameKind
  <2> QED
    BY <1>1, <1>2, <1>5, <2>2 DEF n, SameKind
<1>6. CASE ~(s.ptr >= s.ext)
  <2>1. n = s
    BY <1>3, <1>6
  <2> QED
    BY <1>1, <1>2, <1>6, <2>1 DEF n, SameKind
<1> QED
  BY <1>5, <1>6

LEMMA MovedIs ==
  ASSUME NEW c \in Block, NEW k \in Nat
  PROVE  LET n == Moved(c, k)
             p == c.ptr + k * SectorSize
         IN  /\ SameKind(c, n) /\ n.eof = c.eof /\ n.ptr = p
             /\ n.ext = IF p > c.ext THEN p ELSE c.ext
             /\ SameBytes(c, n)
<1> DEFINE p == c.ptr + k * SectorSize
<1>1. Moved(c, k) = LET m == [c EXCEPT !.ptr = p]
                    IN  IF m.ptr > m.ext THEN [m EXCEPT !.ext = m.ptr, !.upd = TRUE] ELSE m
  BY DEF Moved
<1> HIDE DEF p
<1>2. QED
  BY <1>1 DEF Block, SameKind, SameBytes, p

LEMMA ResizedIs ==
  ASSUME NEW c \in Block, NEW e
  PROVE  LET n == Resized(c, e)
         IN  /\ SameKind(c, n) /\ n.eof = FALSE /\ n.ext = e
             /\ n.ptr = IF c.ptr >= e THEN e ELSE c.ptr
             /\ SameBytes(c, n)
  BY DEF Resized, PtrSet, Block, SameKind, SameBytes

----------------------------------------------------------------------------
(* A byte put, and the sequences of ByteFile.                              *)

\* The buffer made ready shows, in PTR's sector, what was shown before.
LEMMA ReadyShown ==
  ASSUME Faults = {}, NEW c0, Sound(c0), NEW d0 \in [Sectors -> SectorBytes],
         Agrees(d0, c0), NEW c, Sound(c), SameBytes(c0, c), c.ok = c0.ok,
         c.ptr = c0.ptr, c.ext = c0.ext, c.ptr < c.room * SectorSize,
         NEW d \in (IF c0.ok THEN {d0} ELSE AfterSave(d0, c0)),
         NEW n \in Ready(d, c)
  PROVE  /\ SameKind(c, n) /\ n.eof = c.eof /\ n.ptr = c.ptr /\ n.ext = c.ext
         /\ n.sect = SectorOf(c.ptr)
         /\ \A p \in Nat : p < c.ext =>
              Shown(d0, c0, p) = IF SectorOf(p) = n.sect THEN n.buf[Offset(p)]
                                                        ELSE d[SectorOf(p)][Offset(p)]
<1>1. /\ c \in Block /\ c0 \in Block /\ c.ptr \in Nat /\ c.ext \in Nat
      /\ c.room \in Nat /\ c.room <= MaxSectors /\ c.ptr <= c.ext
      /\ c.ext <= c.room * SectorSize
  BY BlockFields DEF Sound
<1>2. c.room * SectorSize <= Limit /\ Limit \in Nat /\ c.room * SectorSize \in Nat
  BY <1>1, LimitIs, SizesAre
<1>3. c.ext <= Limit
  BY <1>1, <1>2
<1>4. CASE c.ok
  <2>1. n = c /\ d = d0
    BY <1>4 DEF Ready
  <2>2. c.sect = SectorOf(c.ptr) /\ c.sect \in Sectors
    BY <1>4 DEF Sound
  <2>3. c0.sect # NoSector
    BY <2>2, SizesAre DEF SameBytes, Sectors
  <2>4. ~c0.dirty => c0.buf = d0[c0.sect]
    BY <2>3 DEF Agrees
  <2>5. /\ SameKind(c, c) /\ c0.sect = c.sect /\ c0.buf = c.buf
    BY DEF SameKind, SameBytes
  <2> QED
    BY <2>1, <2>2, <2>4, <2>5 DEF Shown
<1>5. CASE ~c.ok
  <2> DEFINE s == Saved(c)
  <2>1. /\ s \in Block /\ SameKind(c, s) /\ s.eof = c.eof /\ s.ptr = c.ptr
        /\ s.ext = c.ext /\ s.buf = c.buf /\ s.sect = c.sect
    BY <1>1, SavedIs, SavedSound DEF Sound
  <2> HIDE DEF s
  <2>2. d \in AfterSave(d0, c0)
    BY <1>5
  <2>3. ASSUME NEW p \in Nat, p < c.ext
        PROVE  d[SectorOf(p)][Offset(p)] = Shown(d0, c0, p)
    <3>1. p < Limit
      BY <1>1, <1>2, <1>3, <2>3
    <3> QED
      BY <2>2, <3>1, SavedShown
  <2>4. CASE NewSector(c)
    <3>1. n \in AsIs(s)
      BY <1>5, <2>4 DEF Ready, s
    <3>2. PICK b \in (IF s.sect = NoSector THEN SectorBytes ELSE {s.buf}) :
            n = [ForPtr(s) EXCEPT !.buf = b]
      BY <3>1 DEF AsIs
    <3>3. /\ SameKind(s, n) /\ n.eof = s.eof /\ n.ptr = s.ptr /\ n.ext = s.ext
          /\ n.sect = SectorOf(s.ptr)
      BY <2>1, <3>2, LoadedIs
    <3>4. ASSUME NEW p \in Nat, p < c.ext
          PROVE  SectorOf(p) # SectorOf(c.ptr)
      <4>1. Offset(c.ext) = 0 /\ c.ptr = c.ext
        BY <2>4 DEF NewSector
      <4>2. SectorOf(c.ext) \in Nat /\ c.ext = SectorSize * SectorOf(c.ext)
        <5>1. /\ SectorOf(c.ext) \in Nat
              /\ c.ext = SectorSize * SectorOf(c.ext) + Offset(c.ext)
          BY <1>1, SectorIs
        <5>2. SectorSize * SectorOf(c.ext) \in Nat
          BY <5>1, SizesAre
        <5> QED
          BY <4>1, <5>1, <5>2
      <4>3. p < SectorOf(c.ext) * SectorSize
        BY <3>4, <4>2, SizesAre
      <4>4. SectorOf(p) < SectorOf(c.ext)
        BY <4>2, <4>3, SectorBelow
      <4> QED
        BY <4>1, <4>2, <4>4, SectorIs
    <3> QED
      BY <2>1, <2>3, <3>3, <3>4 DEF SameKind
  <2>5. CASE ~NewSector(c)
    <3>1. n \in AfterLoad(d, s)
      BY <1>5, <2>5 DEF Ready, s
    <3>2. n = [ForPtr(s) EXCEPT !.buf = d[SectorOf(s.ptr)]]
      BY <3>1 DEF AfterLoad
    <3>3. /\ SameKind(s, n) /\ n.eof = s.eof /\ n.ptr = s.ptr /\ n.ext = s.ext
          /\ n.sect = SectorOf(s.ptr) /\ n.buf = d[SectorOf(s.ptr)]
      BY <2>1, <3>2, LoadedIs
    <3> QED
      BY <2>1, <2>3, <3>3 DEF SameKind
  <2> QED
    BY <2>4, <2>5
<1> QED
  BY <1>4, <1>5

\* One OSBPUT changes the byte at PTR, moves PTR on and EXT with it.
LEMMA PutByteShown ==
  ASSUME Faults = {}, disk \in [Sectors -> SectorBytes], NEW c, Sound(c),
         Agrees(disk, c), NEW b \in Byte, PutByte(c, b)
  PROVE  /\ SameKind(c, ch') /\ ch'.eof = c.eof /\ ch'.ptr = c.ptr + 1
         /\ ch'.ext = IF c.ptr + 1 >= c.ext THEN c.ptr + 1 ELSE c.ext
         /\ c.ptr + 1 <= Limit /\ ~c.shut
         /\ Shown(disk', ch', c.ptr) = b
         /\ \A p \in Nat : p < c.ext /\ p # c.ptr =>
              Shown(disk', ch', p) = Shown(disk, c, p)
<1> DEFINE w == Roomier(c)
<1>1. w.room <= MaxSectors /\ ~c.shut
  BY DEF PutByte
<1>2. PICK d \in (IF c.ok THEN {disk} ELSE AfterSave(disk, c)) :
        /\ disk' = d
        /\ \E r \in Ready(d, w) : ch' = WithByte(r, b)
  BY DEF PutByte
<1>3. PICK r \in Ready(d, w) : ch' = WithByte(r, b)
  BY <1>2
<1>4. d \in [Sectors -> SectorBytes]
  BY <1>2, SavedDisk
<1>5. c \in Block /\ c.ptr \in Nat /\ c.ext \in Nat
  BY BlockFields DEF Sound
<1>6. /\ Sound(w) /\ w.ptr < w.room * SectorSize
      /\ SameKind(c, w) /\ w.eof = c.eof /\ w.ptr = c.ptr
      /\ w.ext = c.ext /\ w.ok = c.ok /\ SameBytes(c, w)
  BY <1>1, <1>5, RoomierSound, RoomierIs
<1> HIDE DEF w
<1>7. Sound(r)
  BY <1>4, <1>6, ReadySound
<1>8. /\ SameKind(w, r) /\ r.eof = w.eof /\ r.ptr = w.ptr /\ r.ext = w.ext
      /\ r.sect = SectorOf(w.ptr)
      /\ \A p \in Nat : p < w.ext =>
           Shown(disk, c, p) = IF SectorOf(p) = r.sect THEN r.buf[Offset(p)]
                                                    ELSE d[SectorOf(p)][Offset(p)]
  BY <1>2, <1>3, <1>6, ReadyShown
<1>9. r \in Block /\ r.buf \in SectorBytes
  BY <1>7, BlockFields DEF Sound
<1>10. /\ SameKind(r, ch') /\ ch'.eof = r.eof /\ ch'.ptr = r.ptr + 1
       /\ ch'.ext = IF r.ptr + 1 >= r.ext THEN r.ptr + 1 ELSE r.ext
       /\ ch'.sect = r.sect /\ ch'.dirty = TRUE
       /\ ch'.buf = [r.buf EXCEPT ![Offset(r.ptr)] = b]
  BY <1>3, <1>9, WithByteIs
<1>11. Offset(c.ptr) \in 0 .. (SectorSize - 1)
  BY <1>5, SectorIs
<1>12. Shown(disk', ch', c.ptr) = b
  BY <1>6, <1>8, <1>9, <1>10, <1>11 DEF Shown, SectorBytes
<1>13. ASSUME NEW p \in Nat, p < c.ext, p # c.ptr
       PROVE  Shown(disk', ch', p) = Shown(disk, c, p)
  <2>1. Shown(disk, c, p) = IF SectorOf(p) = r.sect THEN r.buf[Offset(p)]
                                                 ELSE d[SectorOf(p)][Offset(p)]
    BY <1>6, <1>8, <1>13
  <2>2. CASE SectorOf(p) = r.sect
    <3>1. Offset(p) # Offset(c.ptr)
      BY <1>5, <1>6, <1>8, <1>13, <2>2, OnePosition
    <3>2. ch'.buf[Offset(p)] = r.buf[Offset(p)]
      <4>1. Offset(p) \in DOMAIN r.buf
        BY <1>9, <1>13, SectorIs DEF SectorBytes
      <4>2. ch'.buf = [r.buf EXCEPT ![Offset(c.ptr)] = b]
        BY <1>6, <1>8, <1>10
      <4> QED
        BY <3>1, <4>1, <4>2
    <3> QED
      BY <1>10, <2>1, <2>2, <3>2 DEF Shown
  <2>3. CASE SectorOf(p) # r.sect
    BY <1>2, <1>10, <2>1, <2>3 DEF Shown
  <2> QED
    BY <2>2, <2>3
<1>14. c.ptr + 1 <= Limit
  <2>1. w.room \in Nat /\ w.room * SectorSize \in Nat
    BY <1>6, BlockFields, SizesAre DEF Sound
  <2>2. w.room * SectorSize <= Limit
    BY <1>1, <2>1, LimitIs
  <2> QED
    BY <1>5, <1>6, <2>1, <2>2, LimitIs
<1>15. SameKind(c, ch') /\ ch'.eof = c.eof /\ ch'.ptr = c.ptr + 1
       /\ ch'.ext = IF c.ptr + 1 >= c.ext THEN c.ptr + 1 ELSE c.ext
  BY <1>6, <1>8, <1>10 DEF SameKind
<1> QED
  BY <1>1, <1>12, <1>13, <1>14, <1>15

\* The bytes of a file are a sequence of its length.
LEMMA BytesAre ==
  ASSUME NEW d, NEW c, NEW n \in Nat
  PROVE  /\ DOMAIN Bytes(d, c, n) = 1 .. n /\ Len(Bytes(d, c, n)) = n
         /\ \A i \in 1 .. n : Bytes(d, c, n)[i] = Shown(d, c, i - 1)
<1>1. /\ DOMAIN Bytes(d, c, n) = 1 .. n
      /\ \A i \in 1 .. n : Bytes(d, c, n)[i] = Shown(d, c, i - 1)
  BY DEF Bytes
<1>2. Len(Bytes(d, c, n)) = n
  BY DEF Bytes
<1> QED
  BY <1>1, <1>2

LEMMA SameText ==
  ASSUME NEW d, NEW c, NEW e, NEW z, NEW n \in Nat,
         \A p \in Nat : p < n => Shown(e, z, p) = Shown(d, c, p)
  PROVE  Bytes(e, z, n) = Bytes(d, c, n)
<1>1. \A i \in 1 .. n : Shown(e, z, i - 1) = Shown(d, c, i - 1)
  <2>1. \A i \in 1 .. n : i - 1 \in Nat /\ i - 1 < n
    OBVIOUS
  <2> QED
    BY <2>1
<1> QED
  BY <1>1 DEF Bytes

\* What File!Overlay gives.
LEMMA Overlaid ==
  ASSUME NEW d, NEW c, NEW e, NEW z, NEW n \in Nat, NEW m \in Nat, NEW p \in Nat,
         NEW s, NEW k \in Nat, Len(s) = k, p <= n,
         m = IF p + k > n THEN p + k ELSE n,
         \A q \in Nat : q < n /\ (q < p \/ p + k <= q) => Shown(e, z, q) = Shown(d, c, q),
         \A i \in 1 .. k : Shown(e, z, p + i - 1) = s[i]
  PROVE  Bytes(e, z, m) = File!Overlay(Bytes(d, c, n), p, s)
<1> DEFINE t == Bytes(d, c, n)
<1>1. Len(t) = n /\ \A i \in 1 .. n : t[i] = Shown(d, c, i - 1)
  BY BytesAre
<1> HIDE DEF t
<1>2. File!Overlay(t, p, s) =
        [i \in 1 .. m |-> IF p < i /\ i <= p + k THEN s[i - p] ELSE t[i]]
  BY <1>1 DEF File!Overlay
<1>3. ASSUME NEW i \in 1 .. m
      PROVE  Shown(e, z, i - 1) = IF p < i /\ i <= p + k THEN s[i - p] ELSE t[i]
  <2>1. CASE p < i /\ i <= p + k
    <3>1. i - p \in 1 .. k /\ p + (i - p) - 1 = i - 1
      BY <2>1
    <3> DEFINE j == i - p
    <3>2. j \in 1 .. k /\ p + j - 1 = i - 1
      BY <3>1
    <3> HIDE DEF j
    <3>3. Shown(e, z, p + j - 1) = s[j]
      BY <3>2
    <3>4. Shown(e, z, i - 1) = s[j]
      BY <3>2, <3>3
    <3> QED
      BY <2>1, <3>4 DEF j
  <2>2. CASE ~(p < i /\ i <= p + k)
    <3>1. i \in 1 .. n /\ i - 1 \in Nat /\ i - 1 < n /\ (i - 1 < p \/ p + k <= i - 1)
      BY <2>2
    <3> DEFINE q == i - 1
    <3>2. q \in Nat /\ q < n /\ (q < p \/ p + k <= q)
      BY <3>1
    <3> HIDE DEF q
    <3>3. Shown(e, z, q) = Shown(d, c, q)
      BY <3>2
    <3>4. t[i] = Shown(d, c, q)
      BY <1>1, <3>1 DEF q
    <3> QED
      BY <2>2, <3>3, <3>4 DEF q
  <2> QED
    BY <2>1, <2>2
<1> DEFINE u(i) == IF p < i /\ i <= p + k THEN s[i - p] ELSE t[i]
<1>4. /\ File!Overlay(t, p, s) = [i \in 1 .. m |-> u(i)]
      /\ \A i \in 1 .. m : Shown(e, z, i - 1) = u(i)
  BY <1>2, <1>3
<1> HIDE DEF u
<1>5. Bytes(e, z, m) = File!Overlay(t, p, s)
  BY <1>4 DEF Bytes
<1> QED
  BY <1>5 DEF t

\* What File!Stretched gives.
LEMMA StretchedIs ==
  ASSUME NEW d, NEW c, NEW e, NEW z, NEW n \in Nat, NEW m \in Nat,
         \A q \in Nat : q < m =>
           Shown(e, z, q) = IF q < n THEN Shown(d, c, q) ELSE Zero
  PROVE  Bytes(e, z, m) = File!Stretched(Bytes(d, c, n), m)
<1> DEFINE t == Bytes(d, c, n)
<1>1. Len(t) = n /\ \A i \in 1 .. n : t[i] = Shown(d, c, i - 1)
  BY BytesAre
<1> HIDE DEF t
<1>2. ASSUME NEW i \in 1 .. m
      PROVE  Shown(e, z, i - 1) = IF i <= Len(t) THEN t[i] ELSE Zero
  <2> DEFINE q == i - 1
  <2>1. q \in Nat /\ q < m /\ (i <= n <=> q < n) /\ (i <= n => i \in 1 .. n)
    OBVIOUS
  <2>2. i <= n => t[i] = Shown(d, c, q)
    BY <1>1, <2>1
  <2> HIDE DEF q
  <2>3. Shown(e, z, q) = IF q < n THEN Shown(d, c, q) ELSE Zero
    BY <2>1
  <2> QED
    BY <1>1, <2>1, <2>2, <2>3 DEF q
<1> QED
  BY <1>2 DEF Bytes, File!Stretched, t

----------------------------------------------------------------------------
(* The refinement mapping.                                                 *)

\* What the program sees of the channel.
Text == [i \in 1 .. Size |-> Held(i - 1)]

Ptr == IF goal # NoGoal THEN goal.ptr ELSE ch.ptr

Eof == IF goal # NoGoal THEN goal.eof ELSE ch.eof

Seen == <<Text, ch.open, Ptr, Eof, reply>>

\* The text is what the disk and the buffer show, before and after a step.
LEMMA TextIs ==
  /\ Text = Bytes(disk, ch, Size)
  /\ Text' = Bytes(disk', ch', Size')
  BY DEF Text, Bytes, Held, Shown

\* A step one cannot see.
LEMMA Unseen ==
  ASSUME UNCHANGED Seen
  PROVE  UNCHANGED File!vars
  BY DEF Seen, Text, Ptr, Eof, File!vars

\* The steps of ByteFile, as what is seen before and after.
LEMMA PutSeen ==
  ASSUME NEW s \in File!Blocks, ch.open, ch'.open = ch.open, Ptr + Len(s) <= Limit,
         Text' = File!Overlay(Text, Ptr, s), Ptr' = Ptr + Len(s), Eof' = Eof, Done
  PROVE  File!Next
<1>1. File!Put(s)
  BY DEF File!Put, Text, Ptr, Eof, Limit, Done, Answer, File!Done, File!Answer
<1> QED
  BY <1>1 DEF File!Next

LEMMA OpenSeen ==
  ASSUME NEW empty \in BOOLEAN, ~ch.open, ch'.open = TRUE,
         Text' = IF empty THEN << >> ELSE Text, Ptr' = 0, Eof' = FALSE, Done
  PROVE  File!Next
<1>1. File!Open(empty)
  BY DEF File!Open, Text, Ptr, Eof, Done, Answer, File!Done, File!Answer
<1> QED
  BY <1>1 DEF File!Next

LEMMA CloseSeen ==
  ASSUME ch.open, ch'.open = FALSE, Text' = Text, Ptr' = 0, Eof' = FALSE, Done
  PROVE  File!Next
<1>1. File!Close
  BY DEF File!Close, Text, Ptr, Eof, Done, Answer, File!Done, File!Answer
<1> QED
  BY <1>1 DEF File!Next

LEMMA SyncSeen ==
  ASSUME ch.open, ch'.open = ch.open, Text' = Text, Ptr' = Ptr, Eof' = Eof, Done
  PROVE  File!Next
<1>1. File!Sync
  BY DEF File!Sync, Text, Ptr, Eof, Done, Answer, File!Done, File!Answer
<1> QED
  BY <1>1 DEF File!Next

LEMMA GetSeen ==
  ASSUME NEW n \in 1 .. Limit, ch.open, ch'.open = ch.open, Ptr + n <= Len(Text),
         reply' = Answer("data", SubSeq(Text, Ptr + 1, Ptr + n)),
         Text' = Text, Ptr' = Ptr + n, Eof' = Eof
  PROVE  File!Next
<1>1. n > 0 /\ n \in 1 .. (MaxSectors * SectorSize)
  BY DEF Limit
<1>2. File!Get(n)
  BY <1>1 DEF File!Get, Text, Ptr, Eof, Answer, File!Answer
<1> QED
  BY <1>1, <1>2 DEF File!Next

LEMMA GetAtEndSeen ==
  ASSUME ch.open, ch'.open = ch.open, Ptr = Len(Text),
         reply' = IF Eof THEN Answer("error", << >>) ELSE Answer("end", << >>),
         Text' = Text, Ptr' = Ptr, Eof' = TRUE
  PROVE  File!Next
<1>1. File!GetAtEnd
  BY DEF File!GetAtEnd, Text, Ptr, Eof, Answer, File!Answer
<1> QED
  BY <1>1 DEF File!Next

LEMMA SeekSeen ==
  ASSUME NEW p \in 0 .. Limit, ch.open, ch'.open = ch.open,
         Text' = IF p > Len(Text) THEN File!Stretched(Text, p) ELSE Text,
         Ptr' = p, Eof' = FALSE, Done
  PROVE  File!Next
<1>1. p \in 0 .. (MaxSectors * SectorSize)
  BY DEF Limit
<1>2. File!Seek(p)
  BY DEF File!Seek, Text, Ptr, Eof, Done, Answer, File!Done, File!Answer
<1> QED
  BY <1>1, <1>2 DEF File!Next

LEMMA ResizeSeen ==
  ASSUME NEW n \in 0 .. Limit, ch.open, ch'.open = ch.open,
         Text' = File!Stretched(Text, n),
         Ptr' = IF Ptr > n THEN n ELSE Ptr, Eof' = FALSE, Done
  PROVE  File!Next
<1>1. n \in 0 .. (MaxSectors * SectorSize)
  BY DEF Limit
<1>2. File!Resize(n)
  BY DEF File!Resize, Text, Ptr, Eof, Done, Answer, File!Done, File!Answer
<1> QED
  BY <1>1, <1>2 DEF File!Next

LEMMA ResizeRefusedSeen ==
  ASSUME NEW n \in 0 .. Limit, ch.open, ch'.open = ch.open,
         \/ n > Len(Text) /\ Text' = File!Stretched(Text, n) /\ Eof' = FALSE
         \/ n <= Len(Text) /\ Text' = Text /\ Eof' = Eof,
         Ptr' = Ptr, Failed
  PROVE  File!Next
<1>1. n \in 0 .. (MaxSectors * SectorSize)
  BY DEF Limit
<1>2. File!ResizeRefused(n)
  BY DEF File!ResizeRefused, Text, Ptr, Eof, Failed, Answer, File!Failed, File!Answer
<1> QED
  BY <1>1, <1>2 DEF File!Next

LEMMA PutRefusedSeen ==
  ASSUME ch.open, ch'.open = ch.open, Text' = Text, Failed,
         \/ Ptr' = Ptr /\ Eof' = Eof
         \/ Ptr' = Len(Text) /\ Eof' = FALSE
  PROVE  File!Next
<1>1. File!PutRefused
  BY DEF File!PutRefused, Text, Ptr, Eof, Failed, Answer, File!Failed, File!Answer
<1> QED
  BY <1>1 DEF File!Next

----------------------------------------------------------------------------
(* Every call is a step of ByteFile.                                       *)

\* What the invariant says of the numbers.
LEMMA FileFacts ==
  ASSUME FileInv
  PROVE  /\ Sound(ch) /\ ch \in Block /\ disk \in [Sectors -> SectorBytes]
         /\ ch.ptr \in Nat /\ ch.ext \in Nat /\ ch.ptr <= ch.ext
         /\ ch.ext <= Limit /\ len \in Nat /\ len <= Limit
         /\ goal \in Goal /\ (goal.call = "none" => goal = NoGoal)
         /\ Limit \in Nat /\ ch.eof \in BOOLEAN
<1>1. /\ Sound(ch) /\ ch \in Block /\ disk \in [Sectors -> SectorBytes]
      /\ len \in Nat /\ len <= Limit
      /\ goal \in Goal /\ (goal.call = "none" => goal = NoGoal)
  BY DEF FileInv, IInv, Lasting, Sound, Limit
<1>2. /\ ch.ptr \in Nat /\ ch.ext \in Nat /\ ch.ptr <= ch.ext /\ ch.room \in Nat
      /\ ch.room <= MaxSectors /\ ch.ext <= ch.room * SectorSize
      /\ ch.eof \in BOOLEAN
  BY <1>1, BlockFields DEF Sound
<1>3. ch.room * SectorSize <= Limit /\ ch.room * SectorSize \in Nat /\ Limit \in Nat
  BY <1>2, LimitIs, SizesAre
<1>4. ch.ext <= Limit
  BY <1>2, <1>3
<1> QED
  BY <1>1, <1>2, <1>3, <1>4

\* Between calls the channel's own fields are what is seen.
LEMMA Idle ==
  /\ goal = NoGoal => /\ Size = IF ch.open THEN ch.ext ELSE len
                      /\ Ptr = ch.ptr /\ Eof = ch.eof
  /\ goal' = NoGoal => /\ Size' = IF ch'.open THEN ch'.ext ELSE len'
                       /\ Ptr' = ch'.ptr /\ Eof' = ch'.eof
                       /\ Filling'
<1>1. NoGoal.call = "none"
  BY DEF NoGoal
<1> QED
  BY <1>1 DEF Size, Ptr, Eof, Filling

\* A part of a text.
LEMMA SubText ==
  ASSUME NEW d, NEW c, NEW n \in Nat, NEW p \in Nat, NEW k \in Nat, p + k <= n
  PROVE  SubSeq(Bytes(d, c, n), p + 1, p + k) = Part(d, c, p, k)
<1> DEFINE t == Bytes(d, c, n)
<1>1. Len(t) = n /\ \A i \in 1 .. n : t[i] = Shown(d, c, i - 1)
  BY BytesAre
<1> HIDE DEF t
<1>2. SubSeq(t, p + 1, p + k) = [i \in 1 .. k |-> t[i + (p + 1) - 1]]
  OBVIOUS
<1>3. ASSUME NEW i \in 1 .. k
      PROVE  t[i + (p + 1) - 1] = Shown(d, c, p + i - 1)
  <2>1. i + (p + 1) - 1 \in 1 .. n /\ i + (p + 1) - 1 - 1 = p + i - 1
    OBVIOUS
  <2> DEFINE j == i + (p + 1) - 1
  <2>2. j \in 1 .. n /\ j - 1 = p + i - 1
    BY <2>1
  <2> HIDE DEF j
  <2>3. t[j] = Shown(d, c, j - 1)
    BY <1>1, <2>2
  <2> QED
    BY <2>2, <2>3 DEF j
<1> QED
  BY <1>2, <1>3 DEF t, Part

\* OSFIND: a channel that was closed has no buffer to write.
LEMMA OpenImplements ==
  ASSUME FileInv, goal = NoGoal, NEW op \in {"in", "up", "out"},
         NEW locked \in BOOLEAN, NEW shut \in BOOLEAN, Open(op, locked, shut)
  PROVE  File!Next /\ ch'.open /\ goal' = NoGoal
<1> DEFINE e == IF op = "out" THEN 0 ELSE len
<1>1. /\ ~ch.open /\ disk' = disk /\ len' = len /\ goal' = NoGoal /\ Done
      /\ ch' = [Closed EXCEPT
               !.open = TRUE, !.prot = op = "in" \/ locked, !.shut = shut,
               !.ext = e, !.room = SectorsFor(len), !.upd = op = "out"]
  BY DEF Open
<1>2. Closed \in Block /\ Closed.ptr = 0 /\ Closed.dirty = FALSE /\ Closed.eof = FALSE
  BY ClosedSound DEF Sound, Closed
<1>3. ch'.open = TRUE /\ ch'.ext = e /\ ch'.ptr = 0 /\ ch'.dirty = FALSE /\ ch'.eof = FALSE
  BY <1>1, <1>2 DEF Block
<1>4. ch = Closed /\ len \in Nat
  BY <1>1, FileFacts DEF FileInv
<1>5. \A p \in Nat : Shown(disk', ch', p) = Shown(disk, ch, p)
  BY <1>1, <1>2, <1>3, <1>4 DEF Shown
<1>6. /\ Size = len /\ Size' = e /\ Ptr' = 0 /\ Eof' = FALSE
  BY <1>1, <1>3, Idle
<1>7. Text' = IF op = "out" THEN << >> ELSE Text
  <2>1. CASE op = "out"
    <3>1. Bytes(disk', ch', 0) = << >>
      BY DEF Bytes
    <3> QED
      BY <1>6, <2>1, <3>1, TextIs
  <2>2. CASE op # "out"
    <3>1. Bytes(disk', ch', len) = Bytes(disk, ch, len)
      BY <1>4, <1>5, SameText
    <3> QED
      BY <1>6, <2>2, <3>1, TextIs
  <2> QED
    BY <2>1, <2>2
<1> DEFINE empty == op = "out"
<1>8. empty \in BOOLEAN /\ Text' = IF empty THEN << >> ELSE Text
  BY <1>7
<1> HIDE DEF empty
<1>9. File!Next
  BY <1>1, <1>3, <1>6, <1>8, OpenSeen
<1> QED
  BY <1>1, <1>3, <1>9

\* Writing out shows no other byte, whatever becomes of the block.
LEMMA WrittenShows ==
  ASSUME Faults = {}, FileInv, disk' \in AfterSave(disk, ch), ~ch'.dirty
  PROVE  Bytes(disk', ch', ch.ext) = Bytes(disk, ch, ch.ext)
<1>1. /\ Sound(ch) /\ disk \in [Sectors -> SectorBytes] /\ ch.ext \in Nat
      /\ ch.ext <= Limit /\ Limit \in Nat
  BY FileFacts
<1>2. \A p \in Nat : p < ch.ext => Shown(disk', ch', p) = Shown(disk, ch, p)
  BY <1>1, SavedShown
<1> QED
  BY <1>1, <1>2, SameText

LEMMA CloseImplements ==
  ASSUME Faults = {}, FileInv, goal = NoGoal, Close
  PROVE  File!Next /\ ch' = Closed /\ goal' = NoGoal
<1>1. /\ ch.open /\ Written /\ ch' = Closed /\ Done /\ goal' = NoGoal
  BY DEF Close
<1>2. ch'.ptr = 0 /\ ch'.dirty = FALSE /\ ch'.eof = FALSE /\ ch'.open = FALSE
  BY <1>1 DEF Closed
<1>3. len' = ch.ext
  BY <1>1, WrittenKeeps DEF FileInv
<1>4. Size = ch.ext /\ Size' = ch.ext /\ Ptr' = 0 /\ Eof' = FALSE
  BY <1>1, <1>2, <1>3, Idle
<1>5. Text' = Text
  BY <1>1, <1>2, <1>4, WrittenShows, TextIs DEF Written
<1> QED
  BY <1>1, <1>2, <1>4, <1>5, CloseSeen

\* OSARGS &FF and the loss of the workspace.
LEMMA SyncImplements ==
  ASSUME Faults = {}, FileInv, goal = NoGoal, Flush \/ Reclaim
  PROVE  File!Next /\ ch'.open /\ goal' = NoGoal
<1>1. /\ ch.open /\ Written /\ Done /\ goal' = NoGoal
      /\ ch' = Saved(ch) \/ ch' = Disowned(ch)
  BY DEF Flush, Reclaim
<1>2. /\ SameKind(ch, ch') /\ ch'.eof = ch.eof /\ ch'.ptr = ch.ptr
      /\ ch'.ext = ch.ext /\ ch'.dirty = FALSE
  BY <1>1, FileFacts, SavedIs, DisownedIs
<1>3. /\ Size = ch.ext /\ Size' = ch.ext /\ Ptr' = Ptr /\ Eof' = Eof
      /\ ch'.open = ch.open
  BY <1>1, <1>2, Idle DEF SameKind
<1>4. Text' = Text
  BY <1>1, <1>2, <1>3, WrittenShows, TextIs DEF Written
<1> QED
  BY <1>1, <1>3, <1>4, SyncSeen

\* The block and the disk show the same file: only PTR or a flag differs.
LEMMA SameFile ==
  ASSUME FileInv, goal = NoGoal, goal' = NoGoal, ch.open, disk' = disk,
         SameKind(ch, ch'), SameBytes(ch, ch'), ch'.ext = ch.ext
  PROVE  /\ ch'.open = ch.open /\ Text' = Text /\ Len(Text) = ch.ext
         /\ Ptr = ch.ptr /\ Eof = ch.eof /\ Ptr' = ch'.ptr /\ Eof' = ch'.eof
<1>1. /\ ch'.open = ch.open /\ Size = ch.ext /\ Size' = ch.ext /\ ch.ext \in Nat
      /\ Ptr = ch.ptr /\ Eof = ch.eof /\ Ptr' = ch'.ptr /\ Eof' = ch'.eof
  BY Idle, FileFacts DEF SameKind
<1>2. \A p \in Nat : Shown(disk', ch', p) = Shown(disk, ch, p)
  BY SameShown
<1>3. Bytes(disk', ch', ch.ext) = Bytes(disk, ch, ch.ext)
  BY <1>1, <1>2, SameText
<1>4. Len(Bytes(disk, ch, ch.ext)) = ch.ext
  BY <1>1, BytesAre
<1> QED
  BY <1>1, <1>3, <1>4, TextIs

LEMMA BgetAtEndImplements ==
  ASSUME FileInv, goal = NoGoal, BgetAtEnd
  PROVE  File!Next /\ ch'.open /\ goal' = NoGoal
<1>1. /\ ch.open /\ ch.ptr = ch.ext /\ disk' = disk /\ goal' = NoGoal
      /\ \/ ch.eof /\ Failed /\ ch' = ch
         \/ /\ ~ch.eof /\ ch' = [ch EXCEPT !.eof = TRUE]
            /\ reply' = Answer("end", << >>)
  BY DEF BgetAtEnd
<1>2. ch \in Block /\ ch.eof \in BOOLEAN
  BY FileFacts
<1>3. /\ SameKind(ch, ch') /\ SameBytes(ch, ch') /\ ch'.ext = ch.ext
      /\ ch'.ptr = ch.ptr /\ ch'.eof = TRUE
      /\ reply' = IF ch.eof THEN Answer("error", << >>) ELSE Answer("end", << >>)
  BY <1>1, <1>2 DEF Block, SameKind, SameBytes, Failed
<1>4. /\ ch'.open = ch.open /\ Text' = Text /\ Len(Text) = ch.ext
      /\ Ptr = ch.ptr /\ Eof = ch.eof /\ Ptr' = ch'.ptr /\ Eof' = ch'.eof
  BY <1>1, <1>3, SameFile
<1>5. File!Next
  BY <1>1, <1>3, <1>4, GetAtEndSeen
<1> QED
  BY <1>1, <1>4, <1>5

\* A byte is got from the sector PTR is in, loaded first if need be.
LEMMA BgetImplements ==
  ASSUME Faults = {}, FileInv, goal = NoGoal, Bget
  PROVE  File!Next /\ ch'.open /\ goal' = NoGoal
<1>1. /\ ch.open /\ ch.ptr # ch.ext /\ goal' = NoGoal
      /\ \/ ch.ok /\ Given(ch) /\ disk' = disk
         \/ /\ ~ch.ok /\ disk' \in AfterSave(disk, ch)
            /\ \E c \in AfterLoad(disk', Saved(ch)) : Given(c)
  BY DEF Bget
<1>2. /\ Sound(ch) /\ ch \in Block /\ disk \in [Sectors -> SectorBytes]
      /\ ch.ptr \in Nat /\ ch.ext \in Nat /\ ch.ptr < ch.ext
      /\ ch.ext <= Limit /\ Limit \in Nat /\ Agrees(disk, ch)
  BY <1>1, FileFacts DEF FileInv
<1>3. /\ reply' = Answer("data", <<Shown(disk, ch, ch.ptr)>>)
      /\ SameKind(ch, ch') /\ ch'.eof = ch.eof /\ ch'.ptr = ch.ptr + 1
      /\ ch'.ext = ch.ext
      /\ \A p \in Nat : p < ch.ext => Shown(disk', ch', p) = Shown(disk, ch, p)
  <2>1. CASE ch.ok /\ Given(ch) /\ disk' = disk
    <3>1. ch' = Stepped(ch) /\ reply' = Answer("data", <<ch.buf[Offset(ch.ptr)]>>)
      BY <2>1 DEF Given
    <3>2. /\ SameKind(ch, ch') /\ ch'.eof = ch.eof /\ ch'.ptr = ch.ptr + 1
          /\ ch'.ext = ch.ext /\ SameBytes(ch, ch')
      BY <1>2, <3>1, SteppedRest
    <3>3. ch.sect = SectorOf(ch.ptr) /\ ch.sect \in Sectors /\ ch.sect # NoSector
      BY <1>2, <2>1, SizesAre DEF Sound, Sectors
    <3>4. ch.buf[Offset(ch.ptr)] = Shown(disk, ch, ch.ptr)
      BY <1>2, <3>3 DEF Agrees, Shown
    <3>5. \A p \in Nat : Shown(disk', ch', p) = Shown(disk, ch, p)
      BY <2>1, <3>2, SameShown
    <3> QED
      BY <3>1, <3>2, <3>4, <3>5
  <2>2. CASE /\ ~ch.ok /\ disk' \in AfterSave(disk, ch)
             /\ \E c \in AfterLoad(disk', Saved(ch)) : Given(c)
    <3> DEFINE s == Saved(ch)
    <3>1. /\ s \in Block /\ SameKind(ch, s) /\ s.eof = ch.eof /\ s.ptr = ch.ptr
          /\ s.ext = ch.ext /\ s.dirty = FALSE
      BY <1>2, SavedIs, SavedSound DEF Sound
    <3>2. PICK c \in AfterLoad(disk', s) : Given(c)
      BY <2>2
    <3> HIDE DEF s
    <3>3. c = [ForPtr(s) EXCEPT !.buf = disk'[SectorOf(s.ptr)]]
      BY <3>2 DEF AfterLoad
    <3> DEFINE held == disk'[SectorOf(s.ptr)]
    <3>4. /\ SameKind(s, c) /\ c.eof = s.eof /\ c.ptr = s.ptr /\ c.ext = s.ext
          /\ c.sect = SectorOf(s.ptr) /\ c.buf = disk'[SectorOf(s.ptr)]
          /\ c.dirty = s.dirty
      <4>1. c = [ForPtr(s) EXCEPT !.buf = held]
        BY <3>3
      <4>2. \A b : LET n == [ForPtr(s) EXCEPT !.buf = b]
                   IN  /\ SameKind(s, n) /\ n.eof = s.eof /\ n.ptr = s.ptr
                       /\ n.ext = s.ext /\ n.sect = SectorOf(s.ptr) /\ n.buf = b
                       /\ n.dirty = s.dirty
        BY <3>1, LoadedIs
      <4> QED
        BY <4>1, <4>2
    <3>5. c \in Block
      <4>1. disk' \in [Sectors -> SectorBytes]
        BY <1>2, <2>2, SavedDisk
      <4>2. SectorOf(ch.ptr) \in Sectors
        BY <1>2, InAFile
      <4> QED
        BY <3>1, <3>3, <4>1, <4>2 DEF ForPtr, Block
    <3>6. ch' = Stepped(c) /\ reply' = Answer("data", <<c.buf[Offset(c.ptr)]>>)
      BY <3>2 DEF Given
    <3>7. /\ SameKind(c, ch') /\ ch'.eof = c.eof /\ ch'.ptr = c.ptr + 1
          /\ ch'.ext = c.ext /\ SameBytes(c, ch')
      BY <3>5, <3>6, SteppedRest
    <3>8. ~ch'.dirty
      BY <3>1, <3>4, <3>7 DEF SameBytes
    <3>9. ASSUME NEW p \in Nat, p < ch.ext
          PROVE  /\ disk'[SectorOf(p)][Offset(p)] = Shown(disk, ch, p)
                 /\ Shown(disk', ch', p) = Shown(disk, ch, p)
      <4>1. p < Limit
        BY <1>2, <3>9
      <4> QED
        BY <1>2, <2>2, <3>8, <4>1, SavedShown
    <3>10. c.buf[Offset(c.ptr)] = Shown(disk, ch, ch.ptr)
      BY <1>2, <3>1, <3>4, <3>9
    <3> QED
      BY <3>1, <3>4, <3>6, <3>7, <3>9, <3>10 DEF SameKind
  <2> QED
    BY <1>1, <2>1, <2>2
<1>4. /\ Size = ch.ext /\ Size' = ch.ext /\ Ptr = ch.ptr /\ Ptr' = ch.ptr + 1
      /\ Eof' = Eof /\ ch'.open = ch.open
  BY <1>1, <1>3, Idle DEF SameKind
<1>5. Text' = Text
  BY <1>2, <1>3, <1>4, SameText, TextIs
<1>6. Len(Text) = ch.ext
  BY <1>2, <1>4, BytesAre, TextIs
<1>7. SubSeq(Text, Ptr + 1, Ptr + 1) = <<Shown(disk, ch, ch.ptr)>>
  <2> DEFINE p == ch.ptr
             n == ch.ext
  <2>1. p \in Nat /\ n \in Nat /\ p + 1 <= n
    BY <1>2
  <2> HIDE DEF p, n
  <2>2. SubSeq(Bytes(disk, ch, n), p + 1, p + 1) =
          [i \in 1 .. 1 |-> Shown(disk, ch, p + i - 1)]
    <3> DEFINE k == 1
    <3>1. k \in Nat /\ p + k <= n
      BY <2>1
    <3> HIDE DEF k
    <3>2. SubSeq(Bytes(disk, ch, n), p + 1, p + k) = Part(disk, ch, p, k)
      BY <2>1, <3>1, SubText, Zenon
    <3> QED
      BY <3>2 DEF k, Part
  <2>3. [i \in 1 .. 1 |-> Shown(disk, ch, p + i - 1)] = <<Shown(disk, ch, p)>>
    <3>1. \A i \in 1 .. 1 : p + i - 1 = p
      BY <2>1
    <3>2. [i \in 1 .. 1 |-> Shown(disk, ch, p + i - 1)] = [i \in 1 .. 1 |-> Shown(disk, ch, p)]
      BY <3>1
    <3> QED
      BY <3>2
  <2> QED
    BY <1>4, <2>2, <2>3, TextIs DEF p, n
<1>8. Ptr + 1 <= Len(Text) /\ 1 \in 1 .. Limit
  BY <1>2, <1>4, <1>6
<1>9. File!Next
  BY <1>1, <1>3, <1>4, <1>5, <1>7, <1>8, GetSeen
<1> QED
  BY <1>1, <1>4, <1>9

LEMMA BputImplements ==
  ASSUME Faults = {}, FileInv, goal = NoGoal, NEW b \in Byte, Bput(b)
  PROVE  File!Next /\ ch'.open /\ goal' = NoGoal
<1>1. ch.open /\ PutByte(ch, b) /\ Done /\ goal' = NoGoal
  BY DEF Bput
<1>2. /\ Sound(ch) /\ disk \in [Sectors -> SectorBytes] /\ Agrees(disk, ch)
      /\ ch.ptr \in Nat /\ ch.ext \in Nat /\ ch.ptr <= ch.ext
      /\ Limit \in Nat /\ ch.ext <= Limit
  BY FileFacts DEF FileInv
<1>3. /\ SameKind(ch, ch') /\ ch'.eof = ch.eof /\ ch'.ptr = ch.ptr + 1
      /\ ch'.ext = IF ch.ptr + 1 >= ch.ext THEN ch.ptr + 1 ELSE ch.ext
      /\ ch.ptr + 1 <= Limit
      /\ Shown(disk', ch', ch.ptr) = b
      /\ \A p \in Nat : p < ch.ext /\ p # ch.ptr =>
           Shown(disk', ch', p) = Shown(disk, ch, p)
  BY <1>1, <1>2, PutByteShown
<1>4. /\ Size = ch.ext /\ Size' = ch'.ext /\ Ptr = ch.ptr /\ Ptr' = ch.ptr + 1
      /\ Eof' = Eof /\ ch'.open = ch.open
  BY <1>1, <1>3, Idle DEF SameKind
<1> DEFINE p == ch.ptr
           n == ch.ext
           m == ch'.ext
           s == <<b>>
<1>5. /\ s \in [1 .. 1 -> Byte] /\ Len(s) = 1 /\ s[1] = b
  OBVIOUS
<1>6. s \in File!Blocks
  <2>1. 1 \in 1 .. (MaxSectors * SectorSize)
    BY <1>2, <1>3 DEF Limit
  <2> QED
    BY <1>5, <2>1 DEF File!Blocks
<1>7. p \in Nat /\ n \in Nat /\ m \in Nat /\ p <= n
      /\ m = IF p + 1 > n THEN p + 1 ELSE n
  BY <1>2, <1>3
<1>8. \A q \in Nat : q < n /\ (q < p \/ p + 1 <= q) =>
        Shown(disk', ch', q) = Shown(disk, ch, q)
  BY <1>2, <1>3
<1> HIDE DEF s
<1>9. \A i \in 1 .. 1 : Shown(disk', ch', p + i - 1) = s[i]
  <2>1. \A i \in 1 .. 1 : p + i - 1 = p /\ i = 1
    BY <1>7
  <2> QED
    BY <1>3, <1>5, <2>1
<1> HIDE DEF p, n, m
<1>10. Bytes(disk', ch', m) = File!Overlay(Bytes(disk, ch, n), p, s)
  <2> DEFINE k == 1
  <2>1. k \in Nat /\ Len(s) = k /\ m = IF p + k > n THEN p + k ELSE n
    BY <1>5, <1>7
  <2>2. \A q \in Nat : q < n /\ (q < p \/ p + k <= q) =>
          Shown(disk', ch', q) = Shown(disk, ch, q)
    BY <1>8
  <2>3. \A i \in 1 .. k : Shown(disk', ch', p + i - 1) = s[i]
    BY <1>9
  <2> HIDE DEF k
  <2> QED
    BY <1>7, <2>1, <2>2, <2>3, Overlaid
<1>11. Text' = File!Overlay(Text, Ptr, s)
  BY <1>4, <1>10, TextIs DEF p, n, m
<1>12. Ptr + Len(s) <= Limit /\ Ptr' = Ptr + Len(s)
  BY <1>3, <1>4, <1>5
<1>13. File!Next
  BY <1>1, <1>4, <1>6, <1>11, <1>12, PutSeen
<1> QED
  BY <1>1, <1>4, <1>13

LEMMA BputRefusedImplements ==
  ASSUME FileInv, goal = NoGoal, BputRefused
  PROVE  File!Next /\ ch'.open /\ goal' = NoGoal
<1>1. /\ ch.open /\ Failed /\ ch' = ch /\ disk' = disk /\ goal' = NoGoal
  BY DEF BputRefused
<1>2. /\ ch'.open = ch.open /\ Text' = Text
      /\ Ptr = ch.ptr /\ Eof = ch.eof /\ Ptr' = ch'.ptr /\ Eof' = ch'.eof
  BY <1>1, SameFile DEF SameKind, SameBytes
<1>3. File!Next
  BY <1>1, <1>2, PutRefusedSeen
<1> QED
  BY <1>1, <1>3

LEMMA LimitPositions == Positions = 0 .. Limit
  BY DEF Positions, Limit

LEMMA SetPtrImplements ==
  ASSUME FileInv, goal = NoGoal, NEW p \in Positions, SetPtr(p)
  PROVE  File!Next /\ ch'.open /\ goal' = NoGoal
<1>1. /\ ch.open /\ p <= ch.ext /\ ch' = PtrSet(ch, p) /\ Done
      /\ disk' = disk /\ goal' = NoGoal
  BY DEF SetPtr
<1>2. ch \in Block /\ ch.ext \in Nat /\ p \in 0 .. Limit /\ p \in Nat
  BY FileFacts, LimitPositions
<1>3. /\ SameKind(ch, ch') /\ ch'.eof = FALSE /\ ch'.ptr = p /\ ch'.ext = ch.ext
      /\ SameBytes(ch, ch')
  BY <1>1, <1>2, PtrSetIs
<1>4. /\ ch'.open = ch.open /\ Text' = Text /\ Len(Text) = ch.ext
      /\ Ptr' = ch'.ptr /\ Eof' = ch'.eof
  BY <1>1, <1>3, SameFile
<1>5. Text' = IF p > Len(Text) THEN File!Stretched(Text, p) ELSE Text
  BY <1>1, <1>2, <1>4
<1>6. File!Next
  BY <1>1, <1>2, <1>3, <1>4, <1>5, SeekSeen
<1> QED
  BY <1>1, <1>4, <1>6

LEMMA SetExtImplements ==
  ASSUME FileInv, goal = NoGoal, NEW p \in Positions, SetExt(p)
  PROVE  File!Next /\ ch'.open /\ goal' = NoGoal
<1>1. /\ ch.open /\ p <= ch.ext /\ TruncateOrRefuse(ch, p)
      /\ disk' = disk /\ goal' = NoGoal
  BY DEF SetExt
<1>2. /\ ch \in Block /\ ch.ext \in Nat /\ ch.ptr \in Nat /\ p \in 0 .. Limit
      /\ p \in Nat
  BY FileFacts, LimitPositions
<1>3. CASE ch' = ch /\ Failed
  <2>1. /\ ch'.open = ch.open /\ Text' = Text /\ Len(Text) = ch.ext
        /\ Ptr = ch.ptr /\ Eof = ch.eof /\ Ptr' = ch'.ptr /\ Eof' = ch'.eof
    BY <1>1, <1>3, SameFile DEF SameKind, SameBytes
  <2>2. p <= Len(Text) /\ Ptr' = Ptr /\ Eof' = Eof
    BY <1>1, <1>3, <2>1
  <2>3. File!Next
    BY <1>1, <1>2, <1>3, <2>1, <2>2, ResizeRefusedSeen
  <2> QED
    BY <1>1, <2>1, <2>3
<1>4. CASE ch' = Resized(ch, p) /\ Done
  <2>1. /\ SameKind(ch, ch') /\ ch'.eof = FALSE /\ ch'.ext = p
        /\ ch'.ptr = IF ch.ptr >= p THEN p ELSE ch.ptr
        /\ SameBytes(ch, ch')
    BY <1>2, <1>4, ResizedIs
  <2>2. /\ Size = ch.ext /\ Size' = p /\ Ptr = ch.ptr /\ Ptr' = ch'.ptr
        /\ Eof' = FALSE /\ ch'.open = ch.open
    BY <1>1, <2>1, Idle DEF SameKind
  <2>3. \A q \in Nat : q < p =>
          Shown(disk', ch', q) = IF q < ch.ext THEN Shown(disk, ch, q) ELSE Zero
    <3>1. \A q \in Nat : Shown(disk', ch', q) = Shown(disk, ch, q)
      BY <1>1, <2>1, SameShown
    <3>2. \A q \in Nat : q < p => q < ch.ext
      BY <1>1, <1>2
    <3> QED
      BY <3>1, <3>2
  <2>4. Bytes(disk', ch', p) = File!Stretched(Bytes(disk, ch, ch.ext), p)
    BY <1>2, <2>3, StretchedIs
  <2>5. Text' = File!Stretched(Text, p)
    BY <2>2, <2>4, TextIs
  <2>6. Ptr' = IF Ptr > p THEN p ELSE Ptr
    BY <1>2, <2>1, <2>2
  <2>7. File!Next
    BY <1>1, <1>2, <1>4, <2>2, <2>5, <2>6, ResizeSeen
  <2> QED
    BY <1>1, <2>2, <2>7
<1> QED
  BY <1>1, <1>3, <1>4 DEF TruncateOrRefuse

----------------------------------------------------------------------------
(* A call that fills the file with zeros: nothing is seen of it until its  *)
(* last step, which shows all of it.                                       *)

\* While a call fills the file, what the program saw when it began.
LEMMA Busy ==
  ASSUME FileInv, goal # NoGoal
  PROVE  /\ Size = goal.was /\ Ptr = goal.ptr /\ Eof = goal.eof
         /\ goal.call # "none" /\ ch.open
         /\ goal.was \in Nat /\ goal.to \in Nat /\ goal.ptr \in Nat
         /\ goal.was <= ch.ext /\ ch.ext <= goal.to /\ goal.was < goal.to
         /\ goal.to <= Limit /\ goal.ptr <= goal.was
         /\ ch.shut => ch.ext = goal.was
         /\ \A p \in Nat : goal.was <= p /\ p < ch.ext => Shown(disk, ch, p) = Zero
         /\ Len(Text) = goal.was
<1>1. goal \in Goal /\ goal.call # "none"
  BY FileFacts
<1>2. /\ Size = goal.was /\ Ptr = goal.ptr /\ Eof = goal.eof
  BY DEF Size, Ptr, Eof
<1>3. goal.was \in Nat /\ goal.to \in Nat /\ goal.ptr \in Nat
  BY <1>1 DEF Goal
<1>4. Filling /\ ch.open
  BY <1>1 DEF FileInv, IInv, Lasting
<1>5. Len(Text) = goal.was
  BY <1>2, <1>3, BytesAre, TextIs
<1> QED
  BY <1>1, <1>2, <1>3, <1>4, <1>5 DEF Filling, Limit

LEMMA GrowUnseen ==
  ASSUME FileInv, goal = NoGoal, NEW call \in {"ptr", "ext"}, NEW n \in Positions,
         Grow(call, n)
  PROVE  UNCHANGED Seen /\ Filling' /\ ch'.open
<1>1. /\ ch.open /\ ch.ext < n /\ disk' = disk /\ ch' = ch /\ reply' = reply
      /\ goal' = [to |-> n, call |-> call, was |-> ch.ext, ptr |-> ch.ptr,
                  eof |-> ch.eof]
  BY DEF Grow
<1>2. /\ goal'.to = n /\ goal'.call = call /\ goal'.was = ch.ext
      /\ goal'.ptr = ch.ptr /\ goal'.eof = ch.eof
  BY <1>1
<1>3. goal' # NoGoal
  BY <1>2 DEF NoGoal
<1>4. Size' = ch.ext /\ Ptr' = ch.ptr /\ Eof' = ch.eof
  BY <1>2, <1>3 DEF Size, Ptr, Eof
<1>5. Size = ch.ext /\ Ptr = ch.ptr /\ Eof = ch.eof
  BY <1>1, Idle
<1>6. Text' = Text
  BY <1>1, <1>4, <1>5, TextIs
<1>7. /\ ch.ptr \in Nat /\ ch.ext \in Nat /\ ch.ptr <= ch.ext
      /\ n \in Nat /\ n <= MaxSectors * SectorSize
  BY FileFacts, LimitPositions DEF Limit
<1>8. Filling'
  BY <1>1, <1>2, <1>7 DEF Filling
<1> QED
  BY <1>1, <1>4, <1>5, <1>6, <1>8 DEF Seen

LEMMA GrowByteUnseen ==
  ASSUME Faults = {}, FileInv, GrowByte
  PROVE  UNCHANGED Seen /\ Filling' /\ ch'.open
<1>1. /\ ch.ext < goal.to /\ PutByte(PtrSet(ch, ch.ext), Zero)
      /\ goal' = goal /\ reply' = reply
  BY DEF GrowByte
<1>2. /\ Sound(ch) /\ ch \in Block /\ disk \in [Sectors -> SectorBytes]
      /\ Agrees(disk, ch) /\ ch.ext \in Nat /\ ch.ext <= Limit /\ Limit \in Nat
  BY FileFacts DEF FileInv
<1>3. goal # NoGoal
  BY <1>1, <1>2 DEF NoGoal
<1>4. /\ Size = goal.was /\ Ptr = goal.ptr /\ Eof = goal.eof
      /\ goal.call # "none" /\ ch.open
      /\ goal.was \in Nat /\ goal.to \in Nat /\ goal.ptr \in Nat
      /\ goal.was <= ch.ext /\ ch.ext <= goal.to /\ goal.was < goal.to
      /\ goal.to <= Limit /\ goal.ptr <= goal.was
      /\ \A p \in Nat : goal.was <= p /\ p < ch.ext => Shown(disk, ch, p) = Zero
  BY <1>3, Busy
<1> DEFINE c == PtrSet(ch, ch.ext)
<1>5. /\ Sound(c) /\ SameKind(ch, c) /\ c.ptr = ch.ext /\ c.ext = ch.ext
      /\ SameBytes(ch, c)
  <2>1. Sound(c)
    BY <1>2, PtrSetSound
  <2> DEFINE e == ch.ext
  <2>2. c = PtrSet(ch, e)
    OBVIOUS
  <2> HIDE DEF c, e
  <2>3. SameKind(ch, c) /\ c.ptr = e /\ c.ext = ch.ext /\ SameBytes(ch, c)
    BY <1>2, <2>2, PtrSetIs
  <2> QED
    BY <2>1, <2>3 DEF e
<1>6. PutByte(c, Zero) /\ Zero \in Byte
  BY <1>1, BufferAssumption
<1> HIDE DEF c
<1>7. Agrees(disk, c)
  BY <1>2, <1>5 DEF Agrees, SameBytes
<1>8. /\ SameKind(c, ch') /\ ch'.ext = IF c.ptr + 1 >= c.ext THEN c.ptr + 1 ELSE c.ext
      /\ ~c.shut /\ Shown(disk', ch', c.ptr) = Zero
      /\ \A p \in Nat : p < c.ext /\ p # c.ptr =>
           Shown(disk', ch', p) = Shown(disk, c, p)
  BY <1>2, <1>5, <1>6, <1>7, PutByteShown
<1>9. /\ ch'.ext = ch.ext + 1 /\ ~ch'.shut /\ ch'.open = ch.open
      /\ Shown(disk', ch', ch.ext) = Zero
      /\ \A p \in Nat : p < ch.ext => Shown(disk', ch', p) = Shown(disk, ch, p)
  <2>1. \A p \in Nat : Shown(disk, c, p) = Shown(disk, ch, p)
    BY <1>5, SameShown
  <2> QED
    BY <1>2, <1>5, <1>8, <2>1 DEF SameKind
<1>10. Size' = Size /\ Ptr' = Ptr /\ Eof' = Eof
  BY <1>1, <1>3 DEF Size, Ptr, Eof
<1>11. Text' = Text
  <2>1. \A p \in Nat : p < goal.was => Shown(disk', ch', p) = Shown(disk, ch, p)
    BY <1>2, <1>4, <1>9
  <2>2. Bytes(disk', ch', goal.was) = Bytes(disk, ch, goal.was)
    BY <1>4, <2>1, SameText
  <2> QED
    BY <1>4, <1>10, <2>2, TextIs
<1>12. Filling'
  <2>1. ASSUME NEW p \in Nat, goal.was <= p, p < ch'.ext
        PROVE  Shown(disk', ch', p) = Zero
    <3>1. p < ch.ext \/ p = ch.ext
      BY <1>2, <1>9, <2>1
    <3> QED
      BY <1>4, <1>9, <2>1, <3>1
  <2>2. /\ goal.was <= ch'.ext /\ ch'.ext <= goal.to
        /\ goal.to <= MaxSectors * SectorSize
    BY <1>1, <1>2, <1>4, <1>9 DEF Limit
  <2> QED
    BY <1>1, <1>4, <1>9, <2>1, <2>2 DEF Filling
<1> QED
  BY <1>1, <1>4, <1>9, <1>10, <1>11, <1>12 DEF Seen

LEMMA GrowRefusedImplements ==
  ASSUME FileInv, GrowRefused
  PROVE  File!Next /\ ch'.open /\ goal' = NoGoal
<1>1. /\ ch.shut /\ ch.ext < goal.to /\ ch' = PtrSet(ch, ch.ext)
      /\ goal' = NoGoal /\ Failed /\ disk' = disk
  BY DEF GrowRefused
<1>2. ch \in Block /\ ch.ext \in Nat
  BY FileFacts
<1>3. goal # NoGoal
  BY <1>1, <1>2 DEF NoGoal
<1>4. Size = goal.was /\ ch.open /\ ch.ext = goal.was /\ Len(Text) = goal.was
  BY <1>1, <1>3, Busy
<1>5. /\ SameKind(ch, ch') /\ ch'.eof = FALSE /\ ch'.ptr = ch.ext
      /\ ch'.ext = ch.ext /\ SameBytes(ch, ch')
  BY <1>1, <1>2, PtrSetIs
<1>6. Size' = ch.ext /\ Ptr' = ch.ext /\ Eof' = FALSE /\ ch'.open = ch.open
  BY <1>1, <1>4, <1>5, Idle DEF SameKind
<1>7. \A p \in Nat : Shown(disk', ch', p) = Shown(disk, ch, p)
  BY <1>1, <1>5, SameShown
<1>8. Bytes(disk', ch', ch.ext) = Bytes(disk, ch, ch.ext)
  BY <1>2, <1>7, SameText
<1>9. Text' = Text
  BY <1>4, <1>6, <1>8, TextIs
<1>10. File!Next
  BY <1>1, <1>4, <1>6, <1>9, PutRefusedSeen
<1> QED
  BY <1>1, <1>4, <1>6, <1>10

LEMMA GrowDoneImplements ==
  ASSUME FileInv, GrowDone
  PROVE  File!Next /\ ch'.open /\ goal' = NoGoal
<1>1. /\ goal.call # "none" /\ ch.ext >= goal.to /\ goal' = NoGoal /\ disk' = disk
      /\ \/ goal.call = "ptr" /\ ch' = PtrSet(ch, goal.to) /\ Done
         \/ goal.call = "ext" /\ TruncateOrRefuse(PtrSet(ch, goal.ptr), goal.to)
  BY DEF GrowDone
<1>2. /\ Sound(ch) /\ ch \in Block /\ ch.ext \in Nat /\ Limit \in Nat
  BY FileFacts
<1>3. goal # NoGoal
  BY <1>1 DEF NoGoal
<1>4. /\ Size = goal.was /\ Ptr = goal.ptr /\ Eof = goal.eof /\ ch.open
      /\ goal.was \in Nat /\ goal.to \in Nat /\ goal.ptr \in Nat
      /\ goal.was <= ch.ext /\ ch.ext <= goal.to /\ goal.was < goal.to
      /\ goal.to <= Limit /\ goal.ptr <= goal.was
      /\ \A p \in Nat : goal.was <= p /\ p < ch.ext => Shown(disk, ch, p) = Zero
      /\ Len(Text) = goal.was
  BY <1>3, Busy
<1>5. ch.ext = goal.to /\ goal.to \in 0 .. Limit /\ goal.ptr < goal.to
  BY <1>1, <1>2, <1>4
<1>6. ASSUME SameBytes(ch, ch'), ch'.ext = goal.to, SameKind(ch, ch')
      PROVE  /\ Text' = File!Stretched(Text, goal.to) /\ ch'.open = ch.open
             /\ Ptr' = ch'.ptr /\ Eof' = ch'.eof
  <2>1. /\ Size' = goal.to /\ Ptr' = ch'.ptr /\ Eof' = ch'.eof /\ ch'.open = ch.open
    BY <1>1, <1>4, <1>6, Idle DEF SameKind
  <2>2. ASSUME NEW q \in Nat, q < goal.to
        PROVE  Shown(disk', ch', q) = IF q < goal.was THEN Shown(disk, ch, q) ELSE Zero
    <3>1. Shown(disk', ch', q) = Shown(disk, ch, q)
      BY <1>1, <1>6, SameShown
    <3>2. q < goal.was \/ goal.was <= q
      BY <1>4
    <3> QED
      BY <1>4, <1>5, <2>2, <3>1, <3>2
  <2> DEFINE n == goal.was
             m == goal.to
  <2>3. n \in Nat /\ m \in Nat
    BY <1>4
  <2>4. \A q \in Nat : q < m =>
          Shown(disk', ch', q) = IF q < n THEN Shown(disk, ch, q) ELSE Zero
    BY <2>2
  <2> HIDE DEF n, m
  <2>5. Bytes(disk', ch', m) = File!Stretched(Bytes(disk, ch, n), m)
    BY <2>3, <2>4, StretchedIs
  <2>6. Text' = File!Stretched(Text, goal.to)
    BY <1>4, <2>1, <2>5, TextIs DEF n, m
  <2> QED
    BY <2>1, <2>6
<1>7. CASE ch' = PtrSet(ch, goal.to) /\ Done
  <2>1. /\ SameKind(ch, ch') /\ ch'.eof = FALSE /\ ch'.ptr = goal.to
        /\ ch'.ext = goal.to /\ SameBytes(ch, ch')
    BY <1>2, <1>5, <1>7, PtrSetIs
  <2>2. /\ Text' = File!Stretched(Text, goal.to) /\ ch'.open = ch.open
        /\ Ptr' = ch'.ptr /\ Eof' = ch'.eof
    BY <1>6, <2>1
  <2>3. Text' = IF goal.to > Len(Text) THEN File!Stretched(Text, goal.to) ELSE Text
    BY <1>4, <2>2
  <2>4. File!Next
    BY <1>4, <1>5, <1>7, <2>1, <2>2, <2>3, SeekSeen
  <2> QED
    BY <1>1, <1>4, <2>2, <2>4
<1>8. CASE TruncateOrRefuse(PtrSet(ch, goal.ptr), goal.to)
  <2> DEFINE c == PtrSet(ch, goal.ptr)
  <2>1. /\ SameKind(ch, c) /\ c.eof = FALSE /\ c.ptr = goal.ptr
        /\ c.ext = goal.to /\ SameBytes(ch, c)
    BY <1>2, <1>5, PtrSetIs
  <2>2. c \in Block
    <3>1. goal.ptr <= ch.ext
      BY <1>2, <1>4
    <3> QED
      BY <1>2, <1>4, <3>1, PtrSetSound DEF Sound
  <2>3. TruncateOrRefuse(c, goal.to)
    BY <1>8
  <2> HIDE DEF c
  <2>4. CASE ch' = c /\ Failed
    <3>1. /\ Text' = File!Stretched(Text, goal.to) /\ ch'.open = ch.open
          /\ Ptr' = ch'.ptr /\ Eof' = ch'.eof
      BY <1>6, <2>1, <2>4
    <3>2. goal.to > Len(Text)
      BY <1>4
    <3>3. Ptr' = Ptr /\ Eof' = FALSE
      BY <1>4, <2>1, <2>4, <3>1
    <3>4. File!Next
      BY <1>4, <1>5, <2>4, <3>1, <3>2, <3>3, ResizeRefusedSeen
    <3> QED
      BY <1>1, <1>4, <3>1, <3>4
  <2>5. CASE ch' = Resized(c, goal.to) /\ Done
    <3>1. /\ SameKind(c, ch') /\ ch'.eof = FALSE /\ ch'.ext = goal.to
          /\ ch'.ptr = IF c.ptr >= goal.to THEN goal.to ELSE c.ptr
          /\ SameBytes(c, ch')
      BY <2>2, <2>5, ResizedIs
    <3>2. SameKind(ch, ch') /\ SameBytes(ch, ch')
      BY <2>1, <3>1 DEF SameKind, SameBytes
    <3>3. /\ Text' = File!Stretched(Text, goal.to) /\ ch'.open = ch.open
          /\ Ptr' = ch'.ptr /\ Eof' = ch'.eof
      BY <1>6, <3>1, <3>2
    <3>4. Ptr' = IF Ptr > goal.to THEN goal.to ELSE Ptr
      BY <1>4, <1>5, <2>1, <3>1, <3>3
    <3>5. File!Next
      BY <1>4, <1>5, <2>5, <3>1, <3>3, <3>4, ResizeSeen
    <3> QED
      BY <1>1, <1>4, <3>3, <3>5
  <2> QED
    BY <2>3, <2>4, <2>5 DEF TruncateOrRefuse
<1> QED
  BY <1>1, <1>7, <1>8

----------------------------------------------------------------------------
(* Block transfers.                                                        *)

\* The byte j of a transfer that begins where a sector does.
LEMMA InTransfer ==
  ASSUME NEW p \in Nat, Offset(p) = 0, NEW k \in Nat, NEW j \in Nat,
         j < k * SectorSize
  PROVE  /\ SectorOf(p + j) = SectorOf(p) + SectorOf(j)
         /\ Offset(p + j) = Offset(j)
         /\ SectorOf(j) < k
<1>1. /\ SectorSize \in Nat \ {0}
      /\ SectorOf(p) \in Nat /\ SectorOf(j) \in Nat
      /\ Offset(j) \in 0 .. (SectorSize - 1)
      /\ p = SectorSize * SectorOf(p) + Offset(p)
      /\ j = SectorSize * SectorOf(j) + Offset(j)
  BY SizesAre, SectorIs
<1>2. \A z \in Nat \ {0}, a, b \in Nat : \A o \in 0 .. (z - 1) :
        (z * a + z * b + o) \div z = a + b /\ (z * a + z * b + o) % z = o
  <2>1. ASSUME NEW z \in Nat \ {0}, NEW a \in Nat, NEW b \in Nat,
               NEW o \in 0 .. (z - 1)
        PROVE  (z * a + z * b + o) \div z = a + b /\ (z * a + z * b + o) % z = o
    <3>1. z * a + z * b = z * (a + b)
      OBVIOUS
    <3> DEFINE s == a + b
    <3>2. s \in Nat /\ z * s \in Nat
      OBVIOUS
    <3> HIDE DEF s
    <3>3. (z * s + o) \div z = s /\ (z * s + o) % z = o
      BY <3>2
    <3> QED
      BY <3>1, <3>3 DEF s
  <2> QED
    BY <2>1
<1>3. SectorSize * SectorOf(p) \in Nat /\ SectorSize * SectorOf(j) \in Nat
  BY <1>1
<1>4. p + j = SectorSize * SectorOf(p) + SectorSize * SectorOf(j) + Offset(j)
  BY <1>1, <1>3
<1>5. SectorOf(p + j) = SectorOf(p) + SectorOf(j) /\ Offset(p + j) = Offset(j)
  BY <1>1, <1>2, <1>4 DEF SectorOf, Offset
<1>6. SectorOf(j) < k
  BY SectorBelow
<1> QED
  BY <1>5, <1>6

\* A block transfer moves at least one byte and stays in the file.
LEMMA TransferIs ==
  ASSUME FileInv, NEW k \in 1 .. MaxSectors, Aligned(k), NEW r \in Nat,
         SectorOf(ch.ptr) + k <= r, r <= MaxSectors
  PROVE  /\ k \in Nat /\ k * SectorSize \in 1 .. Limit
         /\ ch.ptr + k * SectorSize <= r * SectorSize
         /\ ch.ptr + k * SectorSize <= Limit
         /\ Offset(ch.ptr) = 0 /\ ch.open
<1>1. /\ k \in Nat \ {0} /\ SectorSize \in Nat \ {0} /\ ch.ptr \in Nat
      /\ Offset(ch.ptr) = 0 /\ ch.open /\ Limit \in Nat
  BY SizesAre, FileFacts, LimitIs DEF Aligned
<1>2. ch.ptr + k * SectorSize <= r * SectorSize
  <2> DEFINE p == ch.ptr
  <2>1. p \in Nat /\ Offset(p) = 0 /\ SectorOf(p) + k <= r /\ k \in Nat
    BY <1>1
  <2> HIDE DEF p
  <2>2. p + k * SectorSize <= r * SectorSize
    BY <2>1, SectorsOn
  <2> QED
    BY <2>2 DEF p
<1>3. r * SectorSize <= Limit /\ r * SectorSize \in Nat
  BY <1>1, LimitIs
<1>4. k * SectorSize \in Nat \ {0}
  BY <1>1
<1>5. ch.ptr + k * SectorSize <= Limit
  BY <1>1, <1>2, <1>3, <1>4
<1>6. k * SectorSize \in 1 .. Limit
  BY <1>1, <1>4, <1>5
<1> QED
  BY <1>1, <1>2, <1>5, <1>6

\* Reading whole sectors below EXT gives the bytes the program would have got
\* one by one.
LEMMA FastGetImplements ==
  ASSUME Faults = {}, FileInv, goal = NoGoal, NEW k \in 1 .. MaxSectors, FastGet(k)
  PROVE  File!Next /\ ch'.open /\ goal' = NoGoal
<1> DEFINE n == k * SectorSize
           p == ch.ptr
           e == ch.ext
<1>1. /\ Aligned(k) /\ SectorOf(ch.ptr) + k <= SectorOf(ch.ext)
      /\ disk' \in AfterSave(disk, ch) /\ goal' = NoGoal
      /\ reply' = Answer("data",
           [i \in 1 .. n |-> disk'[SectorOf(p) + SectorOf(i - 1)][Offset(i - 1)]])
      /\ ch' = Moved(Disowned(ch), k)
  BY DEF FastGet
<1>2. /\ Sound(ch) /\ ch \in Block /\ disk \in [Sectors -> SectorBytes]
      /\ p \in Nat /\ e \in Nat /\ e <= Limit /\ Limit \in Nat
  BY FileFacts
<1>3. SectorOf(e) \in Nat /\ SectorOf(e) <= MaxSectors /\ SectorOf(e) * SectorSize <= e
  <2> HIDE DEF e
  <2>1. SectorOf(e) \in Nat /\ Offset(e) \in Nat
        /\ e = SectorSize * SectorOf(e) + Offset(e)
    <3>1. /\ SectorOf(e) \in Nat /\ Offset(e) \in 0 .. (SectorSize - 1)
          /\ e = SectorSize * SectorOf(e) + Offset(e)
      BY <1>2, SectorIs
    <3> QED
      BY <3>1, SizesAre
  <2>2. SectorSize * SectorOf(e) \in Nat
    BY <2>1, SizesAre
  <2>3. SectorSize * SectorOf(e) = SectorOf(e) * SectorSize
    BY <2>1, SizesAre
  <2>4. SectorOf(e) <= MaxSectors
    BY <1>2, SectorBelow, SizesAre DEF Limit
  <2> QED
    BY <2>1, <2>2, <2>3, <2>4
<1>4. /\ k \in Nat /\ n \in 1 .. Limit /\ p + n <= SectorOf(e) * SectorSize
      /\ Offset(p) = 0 /\ ch.open
  BY <1>1, <1>3, TransferIs
<1>5. p + n <= e
  BY <1>2, <1>3, <1>4, SizesAre
<1> DEFINE c == Disowned(ch)
<1>6. /\ c \in Block /\ SameKind(ch, c) /\ c.eof = ch.eof /\ c.ptr = p
      /\ c.ext = e /\ c.dirty = FALSE
  BY <1>2, DisownedIs, DisownedSound DEF Sound
<1>7. ch' = Moved(c, k)
  BY <1>1
<1> HIDE DEF c, p, e
<1>8. /\ SameKind(c, ch') /\ ch'.eof = c.eof /\ ch'.ptr = p + n
      /\ ch'.ext = IF p + n > c.ext THEN p + n ELSE c.ext
      /\ SameBytes(c, ch')
  BY <1>4, <1>6, <1>7, MovedIs
<1> HIDE DEF n
<1>9. /\ ch'.ext = e /\ ~ch'.dirty /\ ch'.eof = ch.eof /\ ch'.open = ch.open
  BY <1>2, <1>4, <1>5, <1>6, <1>8 DEF SameKind, SameBytes
<1>10. /\ Size = e /\ Size' = e /\ Ptr = p /\ Ptr' = p + n /\ Eof' = Eof
  BY <1>1, <1>4, <1>8, <1>9, Idle DEF p, e
<1>11. Text' = Text
  BY <1>1, <1>9, <1>10, WrittenShows, TextIs DEF e
<1>12. Text = Bytes(disk, ch, e) /\ Len(Text) = e
  BY <1>2, <1>10, BytesAre, TextIs
<1>13. ASSUME NEW i \in 1 .. n
       PROVE  disk'[SectorOf(p) + SectorOf(i - 1)][Offset(i - 1)]
                = Shown(disk, ch, p + i - 1)
  <2> DEFINE j == i - 1
  <2>1. j \in Nat /\ j < n /\ p + i - 1 = p + j
    BY <1>2, <1>4
  <2> HIDE DEF j
  <2>2. j < k * SectorSize
    BY <2>1 DEF n
  <2>3. SectorOf(p + j) = SectorOf(p) + SectorOf(j) /\ Offset(p + j) = Offset(j)
    BY <1>2, <1>4, <2>1, <2>2, InTransfer
  <2> DEFINE q == p + j
  <2>4. q \in Nat /\ q < Limit
    BY <1>2, <1>4, <1>5, <2>1
  <2>5. SectorOf(q) = SectorOf(p) + SectorOf(j) /\ Offset(q) = Offset(j)
    BY <2>3
  <2> HIDE DEF q
  <2>6. disk'[SectorOf(q)][Offset(q)] = Shown(disk, ch, q)
    BY <1>1, <1>2, <2>4, SavedShown
  <2>7. disk'[SectorOf(p) + SectorOf(j)][Offset(j)] = Shown(disk, ch, q)
    BY <2>5, <2>6
  <2>8. q = p + i - 1
    BY <2>1 DEF q
  <2> QED
    BY <2>7, <2>8 DEF j
<1>14. SubSeq(Text, p + 1, p + n) = [i \in 1 .. n |-> Shown(disk, ch, p + i - 1)]
  <2>1. n \in Nat /\ p + n <= e
    BY <1>2, <1>4, <1>5
  <2>2. SubSeq(Bytes(disk, ch, e), p + 1, p + n) = Part(disk, ch, p, n)
    BY <1>2, <2>1, SubText, Zenon
  <2> QED
    BY <1>12, <2>2 DEF Part
<1>15. reply' = Answer("data", SubSeq(Text, Ptr + 1, Ptr + n))
  <2>1. [i \in 1 .. n |-> disk'[SectorOf(p) + SectorOf(i - 1)][Offset(i - 1)]]
          = [i \in 1 .. n |-> Shown(disk, ch, p + i - 1)]
    BY <1>13
  <2>2. SubSeq(Text, Ptr + 1, Ptr + n) = SubSeq(Text, p + 1, p + n)
    BY <1>10
  <2> QED
    BY <1>1, <1>14, <2>1, <2>2
<1>16. Ptr + n <= Len(Text) /\ Ptr' = Ptr + n
  BY <1>5, <1>10, <1>12
<1>17. File!Next
  BY <1>4, <1>9, <1>10, <1>11, <1>15, <1>16, GetSeen
<1> QED
  BY <1>1, <1>4, <1>9, <1>17

\* A position outside the transfer is in a sector outside it.
LEMMA OutOfTransfer ==
  ASSUME NEW p \in Nat, Offset(p) = 0, NEW k \in Nat, NEW q \in Nat,
         q < p \/ p + k * SectorSize <= q
  PROVE  ~(SectorOf(q) >= SectorOf(p) /\ SectorOf(q) - SectorOf(p) < k)
<1> DEFINE a == SectorOf(p)
           b == SectorOf(q)
           o == Offset(q)
           z == SectorSize
<1>1. /\ z \in Nat \ {0} /\ a \in Nat /\ b \in Nat /\ o \in 0 .. (z - 1)
      /\ p = z * a /\ q = z * b + o
  <2>1. z \in Nat \ {0}
    BY SizesAre
  <2>2. /\ a \in Nat /\ b \in Nat /\ o \in 0 .. (z - 1)
        /\ p = z * a + Offset(p) /\ q = z * b + o
    BY SectorIs
  <2> HIDE DEF a, b, o, z
  <2> QED
    BY <2>1, <2>2
<1>2. q < p \/ p + k * z <= q
  OBVIOUS
<1> HIDE DEF a, b, o, z
<1>3. CASE q < p
  <2>1. z * b < z * a
    <3>1. z * b \in Nat /\ z * a \in Nat
      BY <1>1
    <3> QED
      BY <1>1, <1>3, <3>1
  <2>2. \A i, j \in Nat : i >= j => z * i >= z * j
    BY <1>1
  <2>3. ~(b >= a)
    BY <1>1, <2>1, <2>2
  <2> QED
    BY <2>3 DEF a, b
<1>4. CASE p + k * z <= q
  <2>1. ASSUME b >= a, b - a < k
        PROVE  FALSE
    <3>1. b + 1 <= a + k
      BY <1>1, <2>1
    <3>2. \A i, j \in Nat : i <= j => z * i <= z * j
      BY <1>1
    <3> DEFINE u == b + 1
               v == a + k
    <3>3. u \in Nat /\ v \in Nat /\ u <= v
      BY <1>1, <3>1
    <3> HIDE DEF u, v
    <3>4. z * u <= z * v
      BY <3>2, <3>3
    <3>5. z * (b + 1) = z * b + z /\ z * (a + k) = z * a + k * z
      BY <1>1
    <3>6. z * b + z <= z * a + k * z
      BY <3>4, <3>5 DEF u, v
    <3>7. z * b \in Nat /\ z * a \in Nat /\ k * z \in Nat
      BY <1>1
    <3> QED
      BY <1>1, <1>4, <3>6, <3>7
  <2> QED
    BY <2>1 DEF a, b
<1> QED
  BY <1>2, <1>3, <1>4

\* The bytes of a transfer, in order.
Laid(data, n) == [i \in 1 .. n |-> data[SectorOf(i - 1)][Offset(i - 1)]]

LEMMA LaidIs ==
  ASSUME NEW k \in Nat, NEW data \in [0 .. (k - 1) -> SectorBytes],
         NEW n \in Nat, n = k * SectorSize
  PROVE  /\ Laid(data, n) \in [1 .. n -> Byte] /\ Len(Laid(data, n)) = n
         /\ \A i \in 1 .. n : Laid(data, n)[i] = data[SectorOf(i - 1)][Offset(i - 1)]
<1>1. ASSUME NEW i \in 1 .. n
      PROVE  data[SectorOf(i - 1)][Offset(i - 1)] \in Byte
  <2> DEFINE j == i - 1
  <2>1. j \in Nat /\ j < k * SectorSize
    OBVIOUS
  <2> HIDE DEF j
  <2>2. SectorOf(j) \in 0 .. (k - 1) /\ Offset(j) \in 0 .. (SectorSize - 1)
    BY <2>1, SectorBelow, SectorIs
  <2>3. data[SectorOf(j)] \in SectorBytes
    BY <2>2
  <2>4. data[SectorOf(j)][Offset(j)] \in Byte
    BY <2>2, <2>3 DEF SectorBytes
  <2> QED
    BY <2>4 DEF j
<1>2. Laid(data, n) \in [1 .. n -> Byte]
  BY <1>1 DEF Laid
<1>3. Len(Laid(data, n)) = n
  BY DEF Laid
<1> QED
  BY <1>2, <1>3 DEF Laid

\* Writing whole sectors puts their bytes.
LEMMA FastPutImplements ==
  ASSUME Faults = {}, FileInv, goal = NoGoal, NEW k \in 1 .. MaxSectors,
         NEW data \in [0 .. (k - 1) -> SectorBytes], FastPut(k, data)
  PROVE  File!Next /\ ch'.open /\ goal' = NoGoal
<1> DEFINE n == k * SectorSize
           p == ch.ptr
           e == ch.ext
           m == ch'.ext
           s == Laid(data, n)
<1>1. /\ Aligned(k) /\ SectorOf(ch.ptr) + k <= ch.room
      /\ ch' = Moved(Disowned(ch), k) /\ Done /\ goal' = NoGoal
  BY DEF FastPut
<1>2. PICK d \in AfterSave(disk, ch) :
        disk' = [t \in Sectors |->
                   LET j == t - SectorOf(ch.ptr)
                   IN  IF t >= SectorOf(ch.ptr) /\ j < k THEN data[j] ELSE d[t]]
  BY DEF FastPut
<1>3. /\ Sound(ch) /\ ch \in Block /\ disk \in [Sectors -> SectorBytes]
      /\ p \in Nat /\ e \in Nat /\ e <= Limit /\ Limit \in Nat /\ p <= e
  BY FileFacts
<1>4. ch.room \in Nat /\ ch.room <= MaxSectors
  BY <1>3, BlockFields DEF Sound
<1>5. /\ k \in Nat /\ n \in 1 .. Limit /\ p + n <= Limit
      /\ Offset(p) = 0 /\ ch.open
  BY <1>1, <1>4, TransferIs
<1> DEFINE c == Disowned(ch)
<1>6. /\ c \in Block /\ SameKind(ch, c) /\ c.eof = ch.eof /\ c.ptr = p
      /\ c.ext = e /\ c.dirty = FALSE
  BY <1>3, DisownedIs, DisownedSound DEF Sound
<1>7. ch' = Moved(c, k)
  BY <1>1
<1> HIDE DEF c, p, e
<1>8. /\ SameKind(c, ch') /\ ch'.eof = c.eof /\ ch'.ptr = p + n
      /\ m = IF p + n > e THEN p + n ELSE e
      /\ SameBytes(c, ch')
  BY <1>5, <1>6, <1>7, MovedIs
<1>9. /\ ch'.dirty = FALSE /\ ch'.eof = ch.eof /\ ch'.open = ch.open
  BY <1>6, <1>8 DEF SameKind, SameBytes
<1>10. n \in Nat /\ n = k * SectorSize
  BY <1>5
<1>11. /\ s \in [1 .. n -> Byte] /\ Len(s) = n
       /\ \A i \in 1 .. n : s[i] = data[SectorOf(i - 1)][Offset(i - 1)]
  BY <1>5, <1>10, LaidIs
<1> HIDE DEF s, n, m
<1>12. /\ Size = e /\ Size' = m /\ Ptr = p /\ Ptr' = p + n /\ Eof' = Eof
  BY <1>1, <1>5, <1>8, <1>9, Idle DEF p, e, m
<1>13. \A t \in Sectors :
         disk'[t] = IF t >= SectorOf(p) /\ t - SectorOf(p) < k
                    THEN data[t - SectorOf(p)] ELSE d[t]
  BY <1>2 DEF p
<1>14. \A i \in 1 .. n : Shown(disk', ch', p + i - 1) = s[i]
  <2>1. ASSUME NEW i \in 1 .. n
        PROVE  Shown(disk', ch', p + i - 1) = s[i]
    <3> DEFINE j == i - 1
               q == p + j
    <3>1. j \in Nat /\ j < n /\ q = p + i - 1 /\ q \in Nat /\ q < Limit
      BY <1>3, <1>5, <1>10
    <3>2. q = p + j
      OBVIOUS
    <3>3. s[i] = data[SectorOf(j)][Offset(j)]
      BY <1>11
    <3> HIDE DEF j, q
    <3>4. j < k * SectorSize
      BY <1>10, <3>1
    <3>5. /\ SectorOf(q) = SectorOf(p) + SectorOf(j) /\ Offset(q) = Offset(j)
          /\ SectorOf(j) < k
      BY <1>3, <1>5, <3>1, <3>2, <3>4, InTransfer
    <3>6. SectorOf(q) \in Sectors /\ SectorOf(p) \in Nat /\ SectorOf(j) \in Nat
      BY <1>3, <3>1, InAFile, SectorIs
    <3>7. SectorOf(q) >= SectorOf(p) /\ SectorOf(q) - SectorOf(p) = SectorOf(j)
      BY <3>5, <3>6
    <3>8. disk'[SectorOf(q)] = data[SectorOf(j)]
      BY <1>13, <3>5, <3>6, <3>7
    <3>9. Shown(disk', ch', q) = disk'[SectorOf(q)][Offset(q)]
      BY <1>9 DEF Shown
    <3> QED
      BY <3>1, <3>3, <3>5, <3>8, <3>9
  <2> QED
    BY <2>1
<1>15. \A q \in Nat : q < e /\ (q < p \/ p + n <= q) =>
         Shown(disk', ch', q) = Shown(disk, ch, q)
  <2>1. ASSUME NEW q \in Nat, q < e, q < p \/ p + n <= q
        PROVE  Shown(disk', ch', q) = Shown(disk, ch, q)
    <3>1. q < Limit
      BY <1>3, <2>1
    <3>2. SectorOf(q) \in Sectors
      BY <3>1, InAFile
    <3>3. q < p \/ p + k * SectorSize <= q
      BY <1>10, <2>1
    <3>4. ~(SectorOf(q) >= SectorOf(p) /\ SectorOf(q) - SectorOf(p) < k)
      BY <1>3, <1>5, <3>3, OutOfTransfer
    <3>5. disk'[SectorOf(q)] = d[SectorOf(q)]
      BY <1>13, <3>2, <3>4
    <3>6. d[SectorOf(q)][Offset(q)] = Shown(disk, ch, q)
      BY <1>3, <3>1, SavedShown
    <3> QED
      BY <1>9, <3>5, <3>6 DEF Shown
  <2> QED
    BY <2>1
<1>16. m \in Nat /\ p <= e /\ m = IF p + n > e THEN p + n ELSE e
  BY <1>3, <1>8, <1>10 DEF p, e
<1>17. Bytes(disk', ch', m) = File!Overlay(Bytes(disk, ch, e), p, s)
  <2>1. e \in Nat /\ p \in Nat /\ n \in Nat /\ Len(s) = n
    BY <1>3, <1>10, <1>11
  <2> QED
    BY <1>14, <1>15, <1>16, <2>1, Overlaid
<1>18. Text' = File!Overlay(Text, Ptr, s)
  BY <1>12, <1>17, TextIs
<1>19. s \in File!Blocks
  <2>1. n \in 1 .. (MaxSectors * SectorSize)
    BY <1>5 DEF Limit
  <2> QED
    BY <1>11, <2>1 DEF File!Blocks
<1>20. Ptr + Len(s) <= Limit /\ Ptr' = Ptr + Len(s)
  BY <1>5, <1>11, <1>12
<1>21. File!Next
  BY <1>1, <1>5, <1>9, <1>12, <1>18, <1>19, <1>20, PutSeen
<1> QED
  BY <1>1, <1>5, <1>9, <1>21

----------------------------------------------------------------------------
(* Every step of the channel.                                              *)

\* A call of a program: a step of ByteFile, or the beginning of a fill.
LEMMA CallImplements ==
  ASSUME Faults = {}, FileInv, goal = NoGoal, Call
  PROVE  /\ File!Next \/ UNCHANGED Seen
         /\ Filling' /\ (~ch'.open => ch' = Closed)
<1>1. CASE \E op \in {"in", "up", "out"}, locked, shut \in BOOLEAN : Open(op, locked, shut)
  BY <1>1, OpenImplements, Idle
<1>2. CASE Close
  BY <1>2, CloseImplements, Idle
<1>3. CASE Flush \/ Reclaim
  BY <1>3, SyncImplements, Idle
<1>4. CASE BgetAtEnd \/ Bget
  BY <1>4, BgetAtEndImplements, BgetImplements, Idle
<1>5. CASE BputRefused
  BY <1>5, BputRefusedImplements, Idle
<1>6. CASE \E b \in Byte : Bput(b)
  BY <1>6, BputImplements, Idle
<1>7. CASE \E p \in Positions : SetPtr(p) \/ SetExt(p)
  BY <1>7, SetPtrImplements, SetExtImplements, Idle
<1>8. CASE \E call \in {"ptr", "ext"}, p \in Positions : Grow(call, p)
  BY <1>8, GrowUnseen
<1>9. CASE \E k \in 1 .. MaxSectors : FastGet(k)
  BY <1>9, FastGetImplements, Idle
<1>10. CASE \E k \in 1 .. MaxSectors :
              \E data \in [0 .. (k - 1) -> SectorBytes] : FastPut(k, data)
  BY <1>10, FastPutImplements, Idle
<1> QED
  BY <1>1, <1>2, <1>3, <1>4, <1>5, <1>6, <1>7, <1>8, <1>9, <1>10 DEF Call

LEMMA NextImplements ==
  ASSUME Faults = {}, FileInv, Next
  PROVE  /\ File!Next \/ UNCHANGED Seen
         /\ Filling' /\ (~ch'.open => ch' = Closed)
<1>1. CASE goal = NoGoal /\ Call
  BY <1>1, CallImplements
<1>2. CASE GrowByte
  BY <1>2, GrowByteUnseen
<1>3. CASE GrowRefused
  BY <1>3, GrowRefusedImplements, Idle
<1>4. CASE GrowDone
  BY <1>4, GrowDoneImplements, Idle
<1> QED
  BY <1>1, <1>2, <1>3, <1>4 DEF Next

LEMMA FileStep ==
  ASSUME Faults = {}, FileInv, [Next]_vars
  PROVE  FileInv' /\ [File!Next]_(File!vars)
<1>1. IInv' /\ Agrees(disk, ch)'
  BY NextKeeps DEF FileInv, Kept
<1>2. CASE Next
  BY <1>1, <1>2, NextImplements, Unseen DEF FileInv
<1>3. CASE UNCHANGED vars
  <2>1. Filling' /\ (~ch'.open => ch' = Closed)
    BY <1>3 DEF FileInv, Filling, Shown, vars
  <2>2. UNCHANGED Seen
    BY <1>3 DEF vars, Seen, Text, Size, Held, Ptr, Eof
  <2> QED
    BY <1>1, <2>1, <2>2, Unseen DEF FileInv
<1> QED
  BY <1>2, <1>3

LEMMA FileFirst ==
  ASSUME Init
  PROVE  FileInv /\ File!Init
<1>1. /\ disk \in [Sectors -> SectorBytes] /\ len \in 0 .. MaxSectors * SectorSize
      /\ ch = Closed /\ goal = NoGoal /\ reply = Answer("done", << >>)
  BY DEF Init
<1>2. IInv /\ Agrees(disk, ch)
  BY InitSound
<1>3. FileInv
  BY <1>1, <1>2 DEF FileInv, Filling, NoGoal
<1>4. ch.open = FALSE /\ ch.ptr = 0 /\ ch.eof = FALSE
  BY <1>1 DEF Closed
<1>5. Size = len /\ Ptr = 0 /\ Eof = FALSE
  BY <1>1, <1>4, Idle
<1>6. len \in Nat /\ len <= Limit /\ Limit \in Nat /\ ch \in Block
  BY <1>3, FileFacts
<1>7. Text \in Seq(Byte)
  <2>1. ASSUME NEW i \in 1 .. len
        PROVE  Shown(disk, ch, i - 1) \in Byte
    <3> DEFINE p == i - 1
    <3>1. p \in Nat /\ p < Limit
      BY <1>6
    <3> HIDE DEF p
    <3>2. Shown(disk, ch, p) \in Byte
      BY <1>1, <1>6, <3>1, ShownByte
    <3> QED
      BY <3>2 DEF p
  <2>2. Bytes(disk, ch, len) \in [1 .. len -> Byte]
    BY <2>1 DEF Bytes
  <2>3. Bytes(disk, ch, len) \in Seq(Byte)
    BY <1>6, <2>2, BytesAre
  <2> QED
    BY <1>5, <2>3, TextIs
<1>8. File!Init
  BY <1>1, <1>4, <1>5, <1>7 DEF File!Init, Text, Ptr, Eof, Answer, File!Answer
<1> QED
  BY <1>3, <1>8

\* When no transfer fails the channel is a file of bytes, for every sector
\* size, number of sectors and granule: what was put at a position is got back
\* from it, across sectors, through closing and opening again, growing, cutting
\* and block transfers.
THEOREM ChannelIsAFile ==
  ASSUME Faults = {}
  PROVE  Spec => Implements
<1>1. Init => FileInv /\ File!Init
  BY FileFirst
<1>2. FileInv /\ [Next]_vars => FileInv' /\ [File!Next]_(File!vars)
  BY FileStep
<1> QED
  BY <1>1, <1>2, PTL DEF Spec, Implements, File!Spec
=============================================================================
