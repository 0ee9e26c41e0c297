-------------------------- MODULE NetChannel_proofs --------------------------
(***************************************************************************)
(* Theorems about the network channels, for every number of channels, page *)
(* size and stream: the streams of the device are the open channels', what *)
(* was put arrives, and what is got is the stream's.  The last two hold of *)
(* programs that allow for the shared page (CarefulSpec).                  *)
(***************************************************************************)
EXTENDS NetChannel, SequenceTheorems, TLAPS

Streams ==
  [url : Urls, open : BOOLEAN, written : Seq(Nat),
   translated : [set : BOOLEAN, data : Seq(Nat)]]

\* The stream that a channel reads.
SourceOf(s) ==
  IF s.translated.set THEN s.translated.data
  ELSE IF s.url = Echo THEN s.written ELSE Contents[s.url]

\* The bytes that wait in a page.
Waiting(b) == [i \in 1 .. b.wcount |-> b.page[i - 1]]

\* The window of a page has the stream's bytes.
Fresh(b, s) ==
  \A i \in 0 .. b.cnt - 1 :
    b.start + i < Len(SourceOf(s)) /\ b.page[i] = SourceOf(s)[b.start + i + 1]

Grows(s) == s.url = Echo /\ ~s.translated.set

\* The window of a page that was written to is behind PTR.  EXT is never short
\* of a stream that stands still; in one that grows, EXT is unknown or the end
\* of the window, and PTR is not before the window once something was written.
Window(b, s) ==
  /\ Fresh(b, s) \/ (b.wpos # 0 /\ b.start + b.cnt <= b.ptr)
  /\ b.cnt # 0 => b.start + b.cnt <= b.ext
  /\ Grows(s) => /\ b.start + b.cnt <= b.ext
                 /\ b.ext # Unknown => b.ext = b.start + b.cnt
                 /\ b.ptr < b.start => b.wpos = 0
  /\ ~Grows(s) => Len(SourceOf(s)) <= b.ext

\* A channel, its stream and what was put into it.
Good(b, s, p) ==
  /\ b.wpos = Len(p) /\ Len(p) <= MaxPut
  /\ s.written \o Waiting(b) = p
  /\ Window(b, s)

\* The inductive invariants: of any program, and of one that allows for the
\* shared page.
OwnInv ==
  /\ TypeOK /\ StreamsOwned
  /\ \A c \in Channels : Network(c) => chan[c].handle \in DOMAIN handles

GoodInv ==
  /\ \A c \in Channels : Network(c) /\ chan[c].handle \notin bad =>
       Good(chan[c], handles[chan[c].handle], put[chan[c].handle])
  /\ \A h \in DOMAIN handles \ bad :
       (\A c \in Channels : ~(Network(c) /\ chan[c].handle = h)) => handles[h].written = put[h]

----------------------------------------------------------------------------
(* Blocks and streams.                                                     *)

Fields(b, open, handle, ptr, ext, start, cnt, wcount, wpos, page) ==
  /\ b.open = open /\ b.handle = handle /\ b.ptr = ptr /\ b.ext = ext
  /\ b.start = start /\ b.cnt = cnt /\ b.wcount = wcount /\ b.wpos = wpos
  /\ b.page = page

LEMMA BlockIs ==
  ASSUME NEW b \in Block
  PROVE  /\ b.open \in BOOLEAN /\ b.handle \in Nat /\ b.ptr \in Nat /\ b.ext \in Nat
         /\ b.start \in Nat /\ b.cnt \in 0 .. Page - 1 /\ b.wcount \in 0 .. Page - 1
         /\ b.wpos \in Nat /\ b.page \in [0 .. Page - 1 -> Nat]
BY DEF Block

LEMMA PageIs == Page \in Nat /\ Page >= 2
BY NetAssumption

LEMMA IdleIs ==
  /\ Idle \in Block
  /\ Fields(Idle, FALSE, 0, 0, 0, 0, 0, 0, 0, [i \in 0 .. Page - 1 |-> 0])
BY PageIs DEF Idle, Block, Fields

LEMMA OpenedIs ==
  ASSUME NEW h \in Nat
  PROVE  /\ Opened(h) \in Block
         /\ Fields(Opened(h), TRUE, h, 0, Unknown, 0, 0, 0, 0, [i \in 0 .. Page - 1 |-> 0])
PROOF
  <1>1. Unknown \in Nat
    BY NetAssumption
  <1>2. Opened(h) = [Idle EXCEPT !.open = TRUE, !.handle = h, !.ext = Unknown]
    BY DEF Opened
  <1>3. Opened(h) \in Block
    BY <1>1, <1>2, IdleIs DEF Block
  <1>4. Fields(Opened(h), TRUE, h, Idle.ptr, Unknown, Idle.start, Idle.cnt, Idle.wcount,
               Idle.wpos, Idle.page)
    BY <1>2, IdleIs DEF Block, Fields
  <1> QED
    BY <1>3, <1>4, IdleIs DEF Fields

\* PTR moved.
LEMMA PtrIs ==
  ASSUME NEW b \in Block, NEW p \in Nat
  PROVE  LET n == [b EXCEPT !.ptr = p]
         IN  /\ n \in Block
             /\ Fields(n, b.open, b.handle, p, b.ext, b.start, b.cnt, b.wcount, b.wpos, b.page)
BY DEF Block, Fields

\* Nothing pending any more.
LEMMA CountIs ==
  ASSUME NEW b \in Block
  PROVE  LET n == [b EXCEPT !.wcount = 0]
         IN  /\ n \in Block
             /\ Fields(n, b.open, b.handle, b.ptr, b.ext, b.start, b.cnt, 0, b.wpos, b.page)
PROOF
  <1>1. 0 \in 0 .. Page - 1
    BY PageIs
  <1> QED
    BY <1>1 DEF Block, Fields

\* The channels' blocks, the streams and what was put have their types.
LEMMA Typed ==
  ASSUME TypeOK
  PROVE  /\ \A c \in Channels : chan[c] \in Block
         /\ chan \in [Channels -> Block] /\ handles \in Seq(Streams) /\ put \in Seq(Seq(Nat))
         /\ Len(put) = Len(handles) /\ DOMAIN put = DOMAIN handles
         /\ bad \subseteq DOMAIN handles /\ DOMAIN handles \subseteq Nat \ {0}
         /\ \A h \in DOMAIN handles : handles[h] \in Streams /\ put[h] \in Seq(Nat)
PROOF
  <1>1. /\ chan \in [Channels -> Block] /\ handles \in Seq(Streams) /\ put \in Seq(Seq(Nat))
        /\ Len(put) = Len(handles) /\ bad \subseteq DOMAIN handles
    BY DEF TypeOK, Streams
  <1> QED
    BY <1>1

LEMMA TypedBack ==
  ASSUME chan \in [Channels -> Block], handles \in Seq(Streams), put \in Seq(Seq(Nat)),
         Len(put) = Len(handles), bad \subseteq DOMAIN handles, immediate \in BOOLEAN
  PROVE  TypeOK
BY DEF TypeOK, Streams

\* The page filled from its start.
LEMMA FilledIs ==
  ASSUME NEW page \in [0 .. Page - 1 -> Nat], NEW chunk \in Seq(Nat)
  PROVE  /\ Filled(page, chunk) \in [0 .. Page - 1 -> Nat]
         /\ \A i \in 0 .. Page - 1 : i < Len(chunk) => Filled(page, chunk)[i] = chunk[i + 1]
PROOF
  <1>1. \A i \in 0 .. Page - 1 : i < Len(chunk) => i + 1 \in DOMAIN chunk
    OBVIOUS
  <1> QED
    BY <1>1 DEF Filled

\* A READ of a stream the device has: the bytes from the offset on, as many as
\* there are and as fit.
LEMMA SourceIs ==
  ASSUME NEW s \in Streams
  PROVE  /\ SourceOf(s) \in Seq(Nat) /\ s.written \in Seq(Nat) /\ s.url \in Urls
         /\ s.open \in BOOLEAN /\ s.translated.data \in Seq(Nat)
         /\ s.translated.set \in BOOLEAN
PROOF
  <1>1. s.url \in Urls /\ s.open \in BOOLEAN /\ s.written \in Seq(Nat)
        /\ s.translated \in [set : BOOLEAN, data : Seq(Nat)]
    BY DEF Streams
  <1>2. s.translated.data \in Seq(Nat) /\ s.translated.set \in BOOLEAN
    BY <1>1
  <1>3. Contents[s.url] \in Seq(Nat)
    BY <1>1, NetAssumption
  <1> QED
    BY <1>1, <1>2, <1>3 DEF SourceOf

LEMMA PartIs ==
  ASSUME NEW s \in Seq(Nat), NEW offset \in Nat, NEW max \in Nat
  PROVE  LET chunk == SubSeq(s, offset + 1, Min({offset + max, Len(s)}))
         IN  /\ chunk \in Seq(Nat) /\ Len(chunk) <= max
             /\ \A i \in 1 .. Len(chunk) : offset + i <= Len(s) /\ chunk[i] = s[offset + i]
             /\ Len(chunk) < max => offset + Len(chunk) >= Len(s)
PROOF
  <1> DEFINE end == IF offset + max <= Len(s) THEN offset + max ELSE Len(s)
             chunk == SubSeq(s, offset + 1, end)
  <1>1. Min({offset + max, Len(s)}) = end
    BY DEF Min
  <1>2. /\ end \in Int /\ offset + 1 \in Int /\ end <= Len(s) /\ end <= offset + max
        /\ end = offset + max \/ end = Len(s)
    OBVIOUS
  <1> HIDE DEF end
  <1>3. \A i \in offset + 1 .. end : s[i] \in Nat
    BY <1>2
  <1>4. /\ chunk \in Seq(Nat)
        /\ Len(chunk) = IF offset + 1 <= end THEN end - (offset + 1) + 1 ELSE 0
        /\ \A i \in 1 .. end - (offset + 1) + 1 : chunk[i] = s[(offset + 1) + i - 1]
    BY <1>2, <1>3, SubSeqProperties
  <1> HIDE DEF chunk
  <1>5. /\ Len(chunk) = IF offset < end THEN end - offset ELSE 0
        /\ \A i \in 1 .. end - offset : chunk[i] = s[offset + i]
    <2>1. end - (offset + 1) + 1 = end - offset /\ (offset + 1 <= end <=> offset < end)
      BY <1>2
    <2>2. ASSUME NEW i \in 1 .. end - offset
          PROVE  chunk[i] = s[offset + i]
      <3>1. (offset + 1) + i - 1 = offset + i
        BY <1>2
      <3> QED
        BY <1>4, <2>1, <3>1
    <2>3. Len(chunk) = IF offset < end THEN end - offset ELSE 0
      BY <1>4, <2>1
    <2> QED
      BY <2>2, <2>3
  <1>6. Len(chunk) <= max
    BY <1>2, <1>5
  <1>7. ASSUME NEW i \in 1 .. Len(chunk)
        PROVE  offset + i <= Len(s) /\ chunk[i] = s[offset + i]
    <2>1. Len(chunk) = end - offset
      BY <1>2, <1>5
    <2> QED
      BY <1>2, <1>5, <2>1
  <1>8. Len(chunk) < max => offset + Len(chunk) >= Len(s)
    BY <1>2, <1>5
  <1> QED
    BY <1>1, <1>4, <1>6, <1>7, <1>8 DEF chunk

LEMMA ChunkIs ==
  ASSUME TypeOK, NEW h \in DOMAIN handles, NEW offset \in Nat, NEW max \in Nat, handles[h].open
  PROVE  LET chunk == Chunk(h, offset, max)
             source == SourceOf(handles[h])
         IN  /\ chunk \in Seq(Nat) /\ Len(chunk) <= max
             /\ \A i \in 1 .. Len(chunk) : offset + i <= Len(source) /\ chunk[i] = source[offset + i]
             /\ max # 0 => (Len(chunk) = 0 => Len(source) <= offset)
             /\ Ended(h, offset, max) <=> offset + Len(chunk) >= Len(source)
PROOF
  <1> DEFINE source == SourceOf(handles[h])
             chunk == SubSeq(source, offset + 1, Min({offset + max, Len(source)}))
  <1>1. source \in Seq(Nat)
    BY Typed, SourceIs
  <1>2. Source(h) = source /\ Known(h)
    BY DEF Source, SourceOf, Known
  <1> HIDE DEF source
  <1>3. Chunk(h, offset, max) = chunk
    BY <1>2 DEF Chunk
  <1>4. /\ chunk \in Seq(Nat) /\ Len(chunk) <= max
        /\ \A i \in 1 .. Len(chunk) : offset + i <= Len(source) /\ chunk[i] = source[offset + i]
        /\ Len(chunk) < max => offset + Len(chunk) >= Len(source)
    BY <1>1, PartIs
  <1> HIDE DEF chunk
  <1>5. Ended(h, offset, max) <=> offset + Len(chunk) >= Len(source)
    BY <1>2, <1>3 DEF Ended
  <1>6. max # 0 => (Len(chunk) = 0 => Len(source) <= offset)
    BY <1>1, <1>4
  <1> QED
    BY <1>3, <1>4, <1>5, <1>6 DEF source

\* A READ of any handle brings bytes that fit.
LEMMA ChunkFits ==
  ASSUME TypeOK, NEW h, NEW offset \in Nat
  PROVE  /\ Chunk(h, offset, Page - 1) \in Seq(Nat)
         /\ Len(Chunk(h, offset, Page - 1)) \in 0 .. Page - 1
PROOF
  <1>1. Page - 1 \in Nat
    BY PageIs
  <1>2. CASE Known(h)
    <2>1. h \in DOMAIN handles /\ handles[h].open
      BY <1>2 DEF Known
    <2>2. /\ Chunk(h, offset, Page - 1) \in Seq(Nat)
          /\ Len(Chunk(h, offset, Page - 1)) <= Page - 1
      BY <1>1, <2>1, ChunkIs
    <2>3. Len(Chunk(h, offset, Page - 1)) \in Nat
      BY <2>2
    <2> QED
      BY <1>1, <2>2, <2>3
  <1>3. CASE ~Known(h)
    <2>1. Chunk(h, offset, Page - 1) = << >>
      BY <1>3 DEF Chunk
    <2>2. << >> \in Seq(Nat) /\ Len(<< >>) = 0 /\ 0 \in 0 .. Page - 1
      BY <1>1
    <2> QED
      BY <2>1, <2>2
  <1> QED
    BY <1>2, <1>3

\* A channel after a READ.
LEMMA RefilledIs ==
  ASSUME TypeOK, NEW c \in Channels
  PROVE  LET b == chan[c]
             n == Refilled(c)
             chunk == Chunk(b.handle, b.ptr, Page - 1)
         IN  /\ n \in Block
             /\ Fields(n, b.open, b.handle, b.ptr,
                       NewExt(c, chunk, Ended(b.handle, b.ptr, Page - 1)), b.ptr, Len(chunk),
                       b.wcount, b.wpos, Filled(b.page, chunk))
PROOF
  <1> DEFINE b == chan[c]
             chunk == Chunk(b.handle, b.ptr, Page - 1)
             ext == NewExt(c, chunk, Ended(b.handle, b.ptr, Page - 1))
             page == Filled(b.page, chunk)
  <1>1. b \in Block
    BY Typed
  <1>2. b.ptr \in Nat /\ b.ext \in Nat /\ b.page \in [0 .. Page - 1 -> Nat]
    BY <1>1, BlockIs
  <1>3. chunk \in Seq(Nat) /\ Len(chunk) \in 0 .. Page - 1
    BY <1>2, ChunkFits
  <1>4. Refilled(c) = [b EXCEPT !.page = page, !.start = b.ptr, !.cnt = Len(chunk), !.ext = ext]
    BY DEF Refilled
  <1> HIDE DEF chunk
  <1>5. page \in [0 .. Page - 1 -> Nat]
    BY <1>2, <1>3, FilledIs
  <1>6. ext \in Nat
    BY <1>2, <1>3 DEF NewExt
  <1> HIDE DEF ext, page, b
  <1>7. [b EXCEPT !.page = page, !.start = b.ptr, !.cnt = Len(chunk), !.ext = ext] \in Block
    BY <1>1, <1>2, <1>3, <1>5, <1>6 DEF Block
  <1>8. Fields([b EXCEPT !.page = page, !.start = b.ptr, !.cnt = Len(chunk), !.ext = ext],
               b.open, b.handle, b.ptr, ext, b.ptr, Len(chunk), b.wcount, b.wpos, page)
    BY <1>1 DEF Block, Fields
  <1> QED
    BY <1>4, <1>7, <1>8 DEF ext, page, b, chunk

\* The page with one more byte pending, and the count that comes round.
LEMMA PendingIs ==
  ASSUME TypeOK, NEW c \in Channels, NEW v \in Nat
  PROVE  LET b == chan[c]
             n == Pending(c, v)
         IN  /\ n \in Block
             /\ Fields(n, b.open, b.handle, b.ptr, b.ext, b.start, b.cnt,
                       (b.wcount + 1) % Page, b.wpos + 1, [b.page EXCEPT ![b.wcount] = v])
PROOF
  <1> DEFINE b == chan[c]
             page == [b.page EXCEPT ![b.wcount] = v]
             count == (b.wcount + 1) % Page
             pos == b.wpos + 1
             n == [b EXCEPT !.page = page, !.wcount = count, !.wpos = pos]
  <1>1. b \in Block
    BY Typed
  <1>2. b.wcount \in 0 .. Page - 1 /\ b.wpos \in Nat /\ b.page \in [0 .. Page - 1 -> Nat]
    BY <1>1, BlockIs
  <1>3. Pending(c, v) = n
    BY DEF Pending
  <1>4. page \in [0 .. Page - 1 -> Nat]
    BY <1>2
  <1>5. count \in 0 .. Page - 1
    BY <1>2, PageIs
  <1>8. pos \in Nat
    BY <1>2
  <1> HIDE DEF b, page, count, pos
  <1>6. n \in Block
    BY <1>1, <1>4, <1>5, <1>8 DEF Block
  <1>7. Fields(n, b.open, b.handle, b.ptr, b.ext, b.start, b.cnt, count, pos, page)
    BY <1>1 DEF Block, Fields
  <1> QED
    BY <1>3, <1>6, <1>7 DEF b, page, count, pos

LEMMA WaitingIs ==
  ASSUME NEW b \in Block
  PROVE  /\ Waiting(b) \in Seq(Nat) /\ Len(Waiting(b)) = b.wcount
         /\ \A i \in 1 .. b.wcount : Waiting(b)[i] = b.page[i - 1]
         /\ b.wcount = 0 => Waiting(b) = << >>
PROOF
  <1>1. b.wcount \in Nat /\ b.wcount <= Page - 1 /\ b.page \in [0 .. Page - 1 -> Nat]
    BY BlockIs, PageIs
  <1>2. Waiting(b) \in [1 .. b.wcount -> Nat]
    <2>1. \A i \in 1 .. b.wcount : i - 1 \in 0 .. Page - 1
      BY <1>1, PageIs
    <2> QED
      BY <1>1, <2>1 DEF Waiting
  <1>3. Waiting(b) \in Seq(Nat) /\ Len(Waiting(b)) = b.wcount
    BY <1>1, <1>2, IsASeq, LenProperties
  <1>4. \A i \in 1 .. b.wcount : Waiting(b)[i] = b.page[i - 1]
    BY DEF Waiting
  <1>5. b.wcount = 0 => Waiting(b) = << >>
    BY <1>3
  <1> QED
    BY <1>3, <1>4, <1>5

\* Bytes written into a stream: numbers again, and behind its end they follow it.
LEMMA SplicedIs ==
  ASSUME NEW old \in Seq(Nat), NEW bytes \in Seq(Nat), NEW offset \in Int,
         offset + Len(bytes) \in Nat
  PROVE  /\ Spliced(old, offset, bytes) \in Seq(Nat)
         /\ offset = Len(old) => Spliced(old, offset, bytes) = old \o bytes
PROOF
  <1> DEFINE end == offset + Len(bytes)
             n == IF end > Len(old) THEN end ELSE Len(old)
             now == Spliced(old, offset, bytes)
  <1>1. n \in Nat /\ end \in Nat
    OBVIOUS
  <1>2. now = [i \in 1 .. n |-> IF offset < i /\ i <= end THEN bytes[i - offset]
                                ELSE IF i <= Len(old) THEN old[i] ELSE 0]
    BY DEF Spliced
  <1>3. ASSUME NEW i \in 1 .. n
        PROVE  (IF offset < i /\ i <= end THEN bytes[i - offset]
                ELSE IF i <= Len(old) THEN old[i] ELSE 0) \in Nat
    <2>1. CASE offset < i /\ i <= end
      <3>1. i - offset \in 1 .. Len(bytes)
        BY <2>1
      <3> QED
        BY <2>1, <3>1
    <2>2. CASE ~(offset < i /\ i <= end)
      BY <2>2
    <2> QED
      BY <2>1, <2>2
  <1>4. now \in [1 .. n -> Nat]
    BY <1>2, <1>3
  <1>5. now \in Seq(Nat) /\ Len(now) = n
    <2> HIDE DEF n, now
    <2> QED
      BY <1>1, <1>4, IsASeq, LenProperties
  <1>6. ASSUME offset = Len(old)
        PROVE  now = old \o bytes
    <2>1. n = Len(old) + Len(bytes)
      BY <1>6
    <2>2. /\ old \o bytes \in Seq(Nat) /\ Len(old \o bytes) = Len(old) + Len(bytes)
          /\ \A i \in 1 .. Len(old) + Len(bytes) :
               (old \o bytes)[i] = IF i <= Len(old) THEN old[i] ELSE bytes[i - Len(old)]
      BY ConcatProperties
    <2>3. ASSUME NEW i \in 1 .. Len(now)
          PROVE  now[i] = (old \o bytes)[i]
      <3>1. now[i] = IF offset < i /\ i <= end THEN bytes[i - offset]
                     ELSE IF i <= Len(old) THEN old[i] ELSE 0
        BY <1>2, <1>5
      <3>2. i \in 1 .. Len(old) + Len(bytes) /\ end = Len(old) + Len(bytes)
        BY <1>5, <1>6, <2>1
      <3> QED
        BY <1>6, <2>2, <3>1, <3>2
    <2> HIDE DEF now, n, end
    <2>4. Len(now) = Len(old \o bytes)
      BY <1>5, <2>1, <2>2
    <2> QED
      BY <1>5, <2>2, <2>3, <2>4, SeqEqual
  <1> QED
    BY <1>5, <1>6

\* A stream that was written to, closed, translated or opened.
LEMMA WrittenIs ==
  ASSUME NEW s \in Streams, NEW w \in Seq(Nat)
  PROVE  LET n == [s EXCEPT !.written = w]
         IN  /\ n \in Streams /\ n.written = w /\ n.url = s.url /\ n.open = s.open
             /\ n.translated = s.translated
BY DEF Streams

LEMMA PoppedIs ==
  ASSUME NEW s \in Streams
  PROVE  Popped(s) \in Streams /\ Popped(s).written = s.written /\ Popped(s).open = FALSE
PROOF
  <1>1. NoTranslation \in [set : BOOLEAN, data : Seq(Nat)]
    <2>1. << >> \in Seq(Nat)
      OBVIOUS
    <2> QED
      BY <2>1 DEF NoTranslation
  <1>2. << >> \in Seq(Nat)
    OBVIOUS
  <1>3. Stream(s.url) \in Streams
    BY <1>1, <1>2, SourceIs DEF Stream, Streams
  <1>4. s.written \in Seq(Nat)
    BY SourceIs
  <1>5. Popped(s) = [Stream(s.url) EXCEPT !.open = FALSE, !.written = s.written]
    BY DEF Popped
  <1> QED
    BY <1>3, <1>4, <1>5 DEF Streams

LEMMA TranslatedIs ==
  ASSUME NEW s \in Streams, NEW data \in Seq(Nat)
  PROVE  LET n == [s EXCEPT !.translated = [set |-> TRUE, data |-> data]]
         IN  /\ n \in Streams /\ n.written = s.written /\ n.open = s.open
             /\ n.translated.set /\ n.translated.data = data
PROOF
  <1> DEFINE tr == [set |-> TRUE, data |-> data]
             n == [s EXCEPT !.translated = tr]
  <1>1. tr \in [set : BOOLEAN, data : Seq(Nat)] /\ tr.set /\ tr.data = data
    OBVIOUS
  <1> HIDE DEF tr
  <1>2. n \in Streams /\ n.written = s.written /\ n.open = s.open /\ n.translated = tr
    BY <1>1 DEF Streams
  <1> QED
    BY <1>1, <1>2 DEF tr

LEMMA StreamIs ==
  ASSUME NEW url \in Urls
  PROVE  /\ Stream(url) \in Streams /\ Stream(url).written = << >> /\ Stream(url).open = TRUE
         /\ Stream(url).url = url /\ Stream(url).translated.set = FALSE
PROOF
  <1>1. << >> \in Seq(Nat)
    OBVIOUS
  <1>2. NoTranslation \in [set : BOOLEAN, data : Seq(Nat)] /\ NoTranslation.set = FALSE
    BY <1>1 DEF NoTranslation
  <1> QED
    BY <1>1, <1>2 DEF Stream, Streams

----------------------------------------------------------------------------
(* A step of one channel.                                                  *)

\* The channel's block, its stream and what was put to it are b, s and p, and
\* nothing else changes.
Becomes(c, b, s, p) ==
  /\ chan' = [chan EXCEPT ![c] = b]
  /\ handles' = [handles EXCEPT ![chan[c].handle] = s]
  /\ put' = [put EXCEPT ![chan[c].handle] = p]
  /\ bad' = bad \/ bad' = bad \cup {chan[c].handle}
  /\ immediate' = immediate

\* A channel keeps its handle, or gives it up with the stream closed.
LEMMA OwnStep ==
  ASSUME OwnInv, NEW c \in Channels, Network(c),
         NEW b \in Block, NEW s \in Streams, NEW p \in Seq(Nat), Becomes(c, b, s, p),
         \/ /\ b.open /\ b.handle = chan[c].handle
            /\ s.open = handles[chan[c].handle].open \/ chan[c].handle \in bad'
         \/ ~(b.open /\ b.handle # 0) /\ (s.open = FALSE \/ chan[c].handle \in bad')
  PROVE  OwnInv'
PROOF
  <1> DEFINE h == chan[c].handle
  <1>1. TypeOK /\ h \in DOMAIN handles /\ h # 0
    BY DEF OwnInv, Network
  <1>2. /\ chan \in [Channels -> Block] /\ handles \in Seq(Streams) /\ put \in Seq(Seq(Nat))
        /\ Len(put) = Len(handles) /\ DOMAIN put = DOMAIN handles
        /\ bad \subseteq DOMAIN handles /\ immediate \in BOOLEAN
    BY <1>1, Typed DEF TypeOK
  <1> HIDE DEF h
  <1>3. /\ chan' \in [Channels -> Block] /\ chan'[c] = b
        /\ \A d \in Channels : d # c => chan'[d] = chan[d]
    BY <1>2 DEF Becomes
  <1>4. /\ handles' \in Seq(Streams) /\ Len(handles') = Len(handles)
        /\ DOMAIN handles' = DOMAIN handles /\ handles'[h] = s
        /\ \A g \in DOMAIN handles : g # h => handles'[g] = handles[g]
    BY <1>1, <1>2 DEF Becomes, h
  <1>5. put' \in Seq(Seq(Nat)) /\ Len(put') = Len(put)
    BY <1>1, <1>2 DEF Becomes, h
  <1>6. /\ bad \subseteq bad' /\ bad' \subseteq bad \cup {h}
        /\ bad' \subseteq DOMAIN handles'
    BY <1>1, <1>2, <1>4 DEF Becomes, h
  <1>7. TypeOK'
    BY <1>2, <1>3, <1>4, <1>5, <1>6 DEF TypeOK, Streams, Becomes
  <1>8. ASSUME NEW d \in Channels
        PROVE  /\ d # c => (Network(d)' <=> Network(d))
               /\ Network(d)' => Network(d) /\ chan'[d].handle = chan[d].handle
    BY <1>3 DEF Network
  <1>9. ASSUME NEW d \in Channels, NEW e \in Channels,
               Network(d)', Network(e)', chan'[d].handle = chan'[e].handle
        PROVE  d = e
    BY <1>8, <1>9 DEF OwnInv, StreamsOwned
  <1>10. ASSUME NEW g \in DOMAIN handles' \ bad'
         PROVE  handles'[g].open = \E d \in Channels : Network(d)' /\ chan'[d].handle = g
    <2>1. g \in DOMAIN handles \ bad
      BY <1>4, <1>6
    <2>2. handles[g].open = \E d \in Channels : Network(d) /\ chan[d].handle = g
      BY <2>1 DEF OwnInv, StreamsOwned
    <2>3. CASE g # h
      <3>1. \A d \in Channels : (Network(d)' /\ chan'[d].handle = g)
                                  <=> (Network(d) /\ chan[d].handle = g)
        BY <1>3, <1>8, <2>3 DEF h, Network
      <3> QED
        BY <1>4, <2>1, <2>2, <2>3, <3>1
    <2>4. CASE g = h
      <3>1. handles'[g] = s /\ g \notin bad'
        BY <1>4, <1>10, <2>4
      <3>2. handles[g].open = TRUE
        BY <2>2, <2>4 DEF h
      <3>3. CASE b.open /\ b.handle = h
        <4>1. s.open = TRUE
          BY <3>1, <3>2, <3>3, <2>4, <1>1 DEF h
        <4>2. Network(c)' /\ chan'[c].handle = g
          BY <1>1, <1>3, <2>4, <3>3 DEF Network, h
        <4> QED
          BY <3>1, <4>1, <4>2
      <3>4. CASE ~(b.open /\ b.handle = h)
        <4>1. ~(b.open /\ b.handle # 0) /\ s.open = FALSE
          BY <2>4, <3>1, <3>4 DEF h
        <4>2. \A d \in Channels : ~(Network(d)' /\ chan'[d].handle = g)
          <5>1. ~Network(c)'
            BY <1>3, <4>1 DEF Network
          <5>2. ASSUME NEW d \in Channels, Network(d)', chan'[d].handle = g
                PROVE  FALSE
            <6>1. Network(d) /\ chan[d].handle = chan[c].handle
              BY <1>8, <2>4, <5>2 DEF h
            <6>2. d = c
              BY <6>1 DEF OwnInv, StreamsOwned
            <6> QED
              BY <5>1, <5>2, <6>2
          <5> QED
            BY <5>2
        <4> QED
          BY <3>1, <4>1, <4>2
      <3> QED
        BY <3>3, <3>4
    <2> QED
      BY <2>3, <2>4
  <1>11. StreamsOwned'
    BY <1>9, <1>10 DEF StreamsOwned
  <1>12. \A d \in Channels : Network(d)' => chan'[d].handle \in DOMAIN handles'
    BY <1>4, <1>8 DEF OwnInv
  <1> QED
    BY <1>7, <1>11, <1>12 DEF OwnInv

\* A channel without trouble has a stream the device knows.
LEMMA OwnGood ==
  ASSUME OwnInv, NEW c \in Channels, Network(c), chan[c].handle \notin bad
  PROVE  /\ Known(chan[c].handle) /\ handles[chan[c].handle].open
         /\ GoodInv => Good(chan[c], handles[chan[c].handle], put[chan[c].handle])
PROOF
  <1>1. chan[c].handle \in DOMAIN handles \ bad
    BY DEF OwnInv
  <1>2. handles[chan[c].handle].open
    BY <1>1 DEF OwnInv, StreamsOwned
  <1> QED
    BY <1>1, <1>2 DEF Known, GoodInv

\* What the step must see to for GoodInv.
LEMMA GoodStep ==
  ASSUME OwnInv, GoodInv, NEW c \in Channels, Network(c),
         NEW b \in Block, NEW s \in Streams, NEW p \in Seq(Nat), Becomes(c, b, s, p),
         \/ chan[c].handle \in bad' /\ (b.handle = chan[c].handle \/ ~(b.open /\ b.handle # 0))
         \/ b.open /\ b.handle = chan[c].handle /\ Good(b, s, p)
         \/ ~(b.open /\ b.handle # 0) /\ s.written = p
  PROVE  GoodInv'
PROOF
  <1> DEFINE h == chan[c].handle
  <1>1. TypeOK /\ h \in DOMAIN handles /\ h # 0
    BY DEF OwnInv, Network
  <1>2. /\ chan \in [Channels -> Block] /\ handles \in Seq(Streams) /\ put \in Seq(Seq(Nat))
        /\ DOMAIN put = DOMAIN handles
    BY <1>1, Typed
  <1> HIDE DEF h
  <1>3. /\ chan'[c] = b
        /\ \A d \in Channels : d # c => chan'[d] = chan[d]
    BY <1>2 DEF Becomes
  <1>4. /\ DOMAIN handles' = DOMAIN handles /\ handles'[h] = s /\ put'[h] = p
        /\ \A g \in DOMAIN handles : g # h => handles'[g] = handles[g] /\ put'[g] = put[g]
    BY <1>1, <1>2 DEF Becomes, h
  <1>5. bad \subseteq bad'
    BY DEF Becomes
  <1>6. \A d \in Channels : Network(d) /\ chan[d].handle = h => d = c
    BY DEF OwnInv, StreamsOwned, h
  <1>7. ASSUME NEW d \in Channels, Network(d)', chan'[d].handle \notin bad'
        PROVE  Good(chan'[d], handles'[chan'[d].handle], put'[chan'[d].handle])
    <2>1. CASE d = c
      <3>1. b.open /\ b.handle # 0 /\ b.handle \notin bad'
        BY <1>3, <1>7, <2>1 DEF Network
      <3>2. b.handle = h /\ Good(b, s, p)
        BY <3>1 DEF h
      <3> QED
        BY <1>3, <1>4, <2>1, <3>2
    <2>2. CASE d # c
      <3>1. Network(d) /\ chan'[d] = chan[d] /\ chan[d].handle \notin bad
        BY <1>3, <1>5, <1>7, <2>2 DEF Network
      <3>2. chan[d].handle # h /\ chan[d].handle \in DOMAIN handles
        BY <1>6, <2>2, <3>1 DEF OwnInv
      <3> QED
        BY <1>4, <3>1, <3>2 DEF GoodInv
    <2> QED
      BY <2>1, <2>2
  <1>8. ASSUME NEW g \in DOMAIN handles' \ bad',
               \A d \in Channels : ~(Network(d)' /\ chan'[d].handle = g)
        PROVE  handles'[g].written = put'[g]
    <2>1. g \in DOMAIN handles \ bad
      BY <1>4, <1>5
    <2>2. CASE g = h
      <3>1. h \notin bad' /\ ~(Network(c)' /\ chan'[c].handle = h)
        BY <1>8, <2>2
      <3>2. ~(b.open /\ b.handle = h)
        BY <1>1, <1>3, <3>1 DEF Network
      <3> QED
        BY <1>4, <2>2, <3>1, <3>2 DEF h
    <2>3. CASE g # h
      <3>1. \A d \in Channels : ~(Network(d) /\ chan[d].handle = g)
        <4>1. ASSUME NEW d \in Channels, Network(d), chan[d].handle = g
              PROVE  FALSE
          <5>1. d # c
            BY <2>3, <4>1 DEF h
          <5> QED
            BY <1>3, <1>8, <4>1, <5>1 DEF Network
        <4> QED
          BY <4>1
      <3> QED
        BY <1>4, <2>1, <2>3, <3>1 DEF GoodInv
    <2> QED
      BY <2>2, <2>3
  <1> QED
    BY <1>7, <1>8 DEF GoodInv

----------------------------------------------------------------------------
(* BGET# and PTR#.                                                         *)

\* A block alone changes.
LEMMA BlockAlone ==
  ASSUME OwnInv, NEW c \in Channels, Network(c), NEW b \in Block,
         chan' = [chan EXCEPT ![c] = b], handles' = handles, put' = put,
         bad' = bad \/ bad' = bad \cup {chan[c].handle}, immediate' = immediate
  PROVE  /\ Becomes(c, b, handles[chan[c].handle], put[chan[c].handle])
         /\ handles[chan[c].handle] \in Streams /\ put[chan[c].handle] \in Seq(Nat)
PROOF
  <1>1. TypeOK /\ chan[c].handle \in DOMAIN handles
    BY DEF OwnInv
  <1>2. /\ handles \in Seq(Streams) /\ put \in Seq(Seq(Nat)) /\ DOMAIN put = DOMAIN handles
    BY <1>1, Typed
  <1> QED
    BY <1>1, <1>2 DEF Becomes

\* PTR moved where the window and what was written allow it.
LEMMA MovedGood ==
  ASSUME NEW b \in Block, NEW n \in Block, NEW s \in Streams, NEW p \in Seq(Nat), NEW q \in Nat,
         Good(b, s, p),
         Fields(n, b.open, b.handle, q, b.ext, b.start, b.cnt, b.wcount, b.wpos, b.page),
         Fresh(b, s) \/ b.start + b.cnt <= q,
         Grows(s) /\ q < b.start => b.wpos = 0
  PROVE  Good(n, s, p)
PROOF
  <1>1. Waiting(n) = Waiting(b)
    BY DEF Waiting, Fields
  <1>2. Fresh(n, s) <=> Fresh(b, s)
    BY DEF Fresh, Fields
  <1>3. Window(n, s)
    BY <1>2 DEF Good, Window, Fields
  <1> QED
    BY <1>1, <1>3 DEF Good, Fields

\* An empty window shows nothing.
LEMMA EmptyFresh ==
  ASSUME NEW b \in Block, NEW s, b.cnt = 0
  PROVE  Fresh(b, s)
BY DEF Fresh

\* Reading the bytes of a page.
LEMMA BgetBufferedKeeps ==
  ASSUME OwnInv, NEW c \in Channels, BgetBuffered(c)
  PROVE  OwnInv' /\ (GoodInv => GoodInv')
PROOF
  <1> DEFINE b == chan[c]
             h == chan[c].handle
             n == [b EXCEPT !.ptr = b.ptr + 1]
             s == handles[h]
             p == put[h]
  <1>1. b \in Block /\ Network(c) /\ InWindow(c)
    BY Typed DEF BgetBuffered, OwnInv
  <1>2. b.ptr \in Nat /\ b.ptr + 1 \in Nat /\ b.start \in Nat /\ b.cnt \in Nat
    BY <1>1, BlockIs
  <1>3. /\ n \in Block
        /\ Fields(n, b.open, b.handle, b.ptr + 1, b.ext, b.start, b.cnt, b.wcount, b.wpos, b.page)
    BY <1>1, <1>2, PtrIs
  <1>4. chan' = [chan EXCEPT ![c] = n]
    BY DEF BgetBuffered
  <1> HIDE DEF n
  <1>5. Becomes(c, n, s, p) /\ s \in Streams /\ p \in Seq(Nat)
    BY <1>1, <1>3, <1>4, BlockAlone DEF BgetBuffered
  <1>6. n.open /\ n.handle = h
    BY <1>1, <1>3 DEF Fields, Network
  <1>7. OwnInv'
    BY <1>1, <1>3, <1>5, <1>6, OwnStep
  <1>8. ASSUME GoodInv, h \notin bad'
        PROVE  Good(n, s, p)
    <2>1. Good(b, s, p)
      BY <1>1, <1>8, OwnGood DEF BgetBuffered
    <2>2. b.start <= b.ptr /\ ~(b.start + b.cnt <= b.ptr)
      BY <1>1, <1>2 DEF InWindow
    <2>3. Fresh(b, s)
      BY <2>1, <2>2 DEF Good, Window
    <2>4. ~(b.ptr + 1 < b.start)
      BY <1>2, <2>2
    <2> HIDE DEF b, s, p
    <2> QED
      BY <1>1, <1>2, <1>3, <1>5, <2>1, <2>3, <2>4, MovedGood DEF b
  <1>9. GoodInv => GoodInv'
    BY <1>1, <1>3, <1>5, <1>6, <1>8, GoodStep
  <1> QED
    BY <1>7, <1>9

\* BGET# at the end of the file.
LEMMA BgetAtExtKeeps ==
  ASSUME OwnInv, NEW c \in Channels, BgetAtExt(c)
  PROVE  OwnInv' /\ (GoodInv => GoodInv')
PROOF
  <1> DEFINE b == chan[c]
             h == chan[c].handle
             n == [b EXCEPT !.ptr = b.ext]
             s == handles[h]
             p == put[h]
  <1>1. b \in Block /\ Network(c) /\ b.ptr >= b.ext
    BY Typed DEF BgetAtExt, OwnInv
  <1>2. b.ptr \in Nat /\ b.ext \in Nat /\ b.start \in Nat /\ b.cnt \in Nat
    BY <1>1, BlockIs
  <1>3. /\ n \in Block
        /\ Fields(n, b.open, b.handle, b.ext, b.ext, b.start, b.cnt, b.wcount, b.wpos, b.page)
    BY <1>1, <1>2, PtrIs
  <1>4. chan' = [chan EXCEPT ![c] = n]
    BY DEF BgetAtExt
  <1> HIDE DEF n
  <1>5. Becomes(c, n, s, p) /\ s \in Streams /\ p \in Seq(Nat)
    BY <1>1, <1>3, <1>4, BlockAlone DEF BgetAtExt
  <1>6. n.open /\ n.handle = h
    BY <1>1, <1>3 DEF Fields, Network
  <1>7. OwnInv'
    BY <1>1, <1>3, <1>5, <1>6, OwnStep
  <1>8. ASSUME GoodInv, h \notin bad'
        PROVE  Good(n, s, p)
    <2>1. Good(b, s, p)
      BY <1>1, <1>8, OwnGood DEF BgetAtExt
    <2>2. Fresh(b, s) \/ b.start + b.cnt <= b.ext
      <3>1. CASE b.cnt = 0
        BY <1>1, <3>1, EmptyFresh
      <3>2. CASE b.cnt # 0
        BY <2>1, <3>2 DEF Good, Window
      <3> QED
        BY <3>1, <3>2
    <2>3. Grows(s) => b.start + b.cnt <= b.ext
      BY <2>1 DEF Good, Window
    <2>4. ~(Grows(s) /\ b.ext < b.start)
      BY <1>2, <2>3
    <2> HIDE DEF b, s, p
    <2> QED
      BY <1>1, <1>2, <1>3, <1>5, <2>1, <2>2, <2>4, MovedGood DEF b
  <1>9. GoodInv => GoodInv'
    BY <1>1, <1>3, <1>5, <1>6, <1>8, GoodStep
  <1> QED
    BY <1>7, <1>9

\* A READ that fails.
LEMMA BgetFailsKeeps ==
  ASSUME OwnInv, NEW c \in Channels, BgetFails(c)
  PROVE  OwnInv' /\ (GoodInv => GoodInv')
PROOF
  <1> DEFINE b == chan[c]
             h == chan[c].handle
             n == [b EXCEPT !.ptr = b.ext]
             s == handles[h]
             p == put[h]
  <1>1. b \in Block /\ Network(c)
    BY Typed DEF BgetFails, Reads, OwnInv
  <1>2. b.ext \in Nat
    BY <1>1, BlockIs
  <1>3. /\ n \in Block
        /\ Fields(n, b.open, b.handle, b.ext, b.ext, b.start, b.cnt, b.wcount, b.wpos, b.page)
    BY <1>1, <1>2, PtrIs
  <1>4. chan' = [chan EXCEPT ![c] = n] /\ h \in bad'
    BY DEF BgetFails
  <1> HIDE DEF n
  <1>5. Becomes(c, n, s, p) /\ s \in Streams /\ p \in Seq(Nat)
    BY <1>1, <1>3, <1>4, BlockAlone DEF BgetFails
  <1>6. n.open /\ n.handle = h
    BY <1>1, <1>3 DEF Fields, Network
  <1>7. OwnInv'
    BY <1>1, <1>3, <1>5, <1>6, OwnStep
  <1>8. GoodInv => GoodInv'
    BY <1>1, <1>3, <1>4, <1>5, <1>6, GoodStep
  <1> QED
    BY <1>7, <1>8

LEMMA SetPtrKeeps ==
  ASSUME OwnInv, NEW c \in Channels, NEW q \in Positions, SetPtr(c, q)
  PROVE  OwnInv' /\ (GoodInv /\ MaySeek(c) => GoodInv')
PROOF
  <1> DEFINE b == chan[c]
             h == chan[c].handle
             n == [b EXCEPT !.ptr = q]
             s == handles[h]
             p == put[h]
  <1>1. b \in Block /\ Network(c)
    BY Typed DEF SetPtr, OwnInv
  <1>2. q \in Nat
    BY NetAssumption
  <1>3. /\ n \in Block
        /\ Fields(n, b.open, b.handle, q, b.ext, b.start, b.cnt, b.wcount, b.wpos, b.page)
    BY <1>1, <1>2, PtrIs
  <1>4. chan' = [chan EXCEPT ![c] = n]
    BY DEF SetPtr
  <1> HIDE DEF n
  <1>5. Becomes(c, n, s, p) /\ s \in Streams /\ p \in Seq(Nat)
    BY <1>1, <1>3, <1>4, BlockAlone DEF SetPtr
  <1>6. n.open /\ n.handle = h
    BY <1>1, <1>3 DEF Fields, Network
  <1>7. OwnInv'
    BY <1>1, <1>3, <1>5, <1>6, OwnStep
  <1>8. ASSUME GoodInv, MaySeek(c), h \notin bad'
        PROVE  Good(n, s, p)
    <2>1. Good(b, s, p)
      BY <1>1, <1>8, OwnGood DEF SetPtr
    <2>2. b.wpos = 0
      BY <1>8 DEF MaySeek
    <2>3. Fresh(b, s)
      BY <2>1, <2>2 DEF Good, Window
    <2> HIDE DEF b, s, p
    <2> QED
      BY <1>1, <1>2, <1>3, <1>5, <2>1, <2>2, <2>3, MovedGood DEF b
  <1>9. GoodInv /\ MaySeek(c) => GoodInv'
    BY <1>1, <1>3, <1>5, <1>6, <1>8, GoodStep
  <1> QED
    BY <1>7, <1>9

\* The stream of a channel that was put less than a whole lot: shorter than
\* what stands for an unknown length, as long as it grows.
LEMMA GrowingFits ==
  ASSUME NEW b \in Block, NEW s \in Streams, NEW p \in Seq(Nat), Good(b, s, p), Grows(s),
         b.wcount = 0
  PROVE  SourceOf(s) = p /\ Len(p) < Unknown
PROOF
  <1>1. SourceOf(s) = s.written
    BY DEF SourceOf, Grows
  <1>2. s.written \o << >> = p
    BY WaitingIs DEF Good
  <1>3. s.written \o << >> = s.written
    BY SourceIs
  <1>4. Len(p) <= MaxPut /\ MaxPut \in Nat /\ MaxPut < Unknown /\ Unknown \in Nat
    BY NetAssumption DEF Good
  <1>5. Len(p) \in Nat
    OBVIOUS
  <1> QED
    BY <1>1, <1>2, <1>3, <1>4, <1>5

\* What a READ brings: the stream's bytes from PTR on.
LEMMA ReadBrings ==
  ASSUME OwnInv, NEW c \in Channels, Network(c), chan[c].handle \notin bad
  PROVE  LET b == chan[c]
             r == Refilled(c)
             s == handles[b.handle]
         IN  /\ Fresh(r, s) /\ r.start = b.ptr /\ r.cnt \in Nat
             /\ r.cnt = 0 => Len(SourceOf(s)) <= b.ptr
             /\ r.ext = IF b.ptr + r.cnt >= Len(SourceOf(s)) THEN b.ptr + r.cnt ELSE b.ext
PROOF
  <1> DEFINE b == chan[c]
             h == b.handle
             r == Refilled(c)
             s == handles[h]
             source == SourceOf(s)
             chunk == Chunk(h, b.ptr, Page - 1)
             ended == Ended(h, b.ptr, Page - 1)
  <1>1. TypeOK /\ b \in Block /\ h \in DOMAIN handles
    BY Typed DEF OwnInv
  <1>2. s \in Streams
    BY <1>1, Typed
  <1>3. s.open
    BY OwnGood
  <1>4. b.ptr \in Nat /\ b.page \in [0 .. Page - 1 -> Nat]
    BY <1>1, BlockIs
  <1>5. Page - 1 \in Nat /\ Page - 1 # 0
    BY PageIs
  <1>6. /\ chunk \in Seq(Nat) /\ Len(chunk) <= Page - 1
        /\ \A i \in 1 .. Len(chunk) : b.ptr + i <= Len(source) /\ chunk[i] = source[b.ptr + i]
        /\ Len(chunk) = 0 => Len(source) <= b.ptr
        /\ ended <=> b.ptr + Len(chunk) >= Len(source)
    <2> DEFINE at == b.ptr
               max == Page - 1
    <2>1. at \in Nat /\ max \in Nat /\ max # 0 /\ h \in DOMAIN handles /\ handles[h].open
      BY <1>1, <1>3, <1>4, <1>5
    <2> HIDE DEF at, max, b, s
    <2>2. LET part == Chunk(h, at, max)
              all == SourceOf(handles[h])
          IN  /\ part \in Seq(Nat) /\ Len(part) <= max
              /\ \A i \in 1 .. Len(part) : at + i <= Len(all) /\ part[i] = all[at + i]
              /\ max # 0 => (Len(part) = 0 => Len(all) <= at)
              /\ Ended(h, at, max) <=> at + Len(part) >= Len(all)
      BY <1>1, <2>1, ChunkIs
    <2> QED
      BY <2>1, <2>2 DEF at, max, s
  <1>7. /\ r.start = b.ptr /\ r.cnt = Len(chunk) /\ r.ext = NewExt(c, chunk, ended)
        /\ r.page = Filled(b.page, chunk)
    BY <1>1, RefilledIs DEF Fields
  <1>8. Len(source) \in Nat /\ Len(chunk) \in Nat
    BY <1>2, <1>6, SourceIs
  <1>9. r.ext = IF ended THEN b.ptr + Len(chunk) ELSE b.ext
    BY <1>7 DEF NewExt
  <1> HIDE DEF r, source, chunk, ended, b, s
  <1>12. \A i \in 0 .. Page - 1 : i < Len(chunk) => r.page[i] = chunk[i + 1]
    <2> DEFINE page == b.page
    <2>1. page \in [0 .. Page - 1 -> Nat] /\ chunk \in Seq(Nat)
      BY <1>4, <1>6
    <2> HIDE DEF page
    <2>2. \A i \in 0 .. Page - 1 : i < Len(chunk) => Filled(page, chunk)[i] = chunk[i + 1]
      BY <2>1, FilledIs
    <2> QED
      BY <1>7, <2>2 DEF page
  <1>13. Fresh(r, s)
    <2>1. ASSUME NEW i \in 0 .. r.cnt - 1
          PROVE  r.start + i < Len(source) /\ r.page[i] = source[r.start + i + 1]
      <3>1. i \in 0 .. Page - 1 /\ i < Len(chunk) /\ i + 1 \in 1 .. Len(chunk)
        BY <1>5, <1>6, <1>7, <1>8
      <3>2. r.page[i] = chunk[i + 1]
        BY <1>12, <3>1
      <3>3. b.ptr + (i + 1) <= Len(source) /\ chunk[i + 1] = source[b.ptr + (i + 1)]
        BY <1>6, <3>1
      <3>4. b.ptr + (i + 1) = r.start + i + 1
        BY <1>4, <1>7, <3>1
      <3> QED
        BY <1>4, <1>7, <1>8, <3>1, <3>2, <3>3, <3>4
    <2> QED
      BY <2>1 DEF Fresh, source
  <1>14. r.cnt = 0 => Len(source) <= b.ptr
    BY <1>6, <1>7
  <1>15. r.ext = IF b.ptr + r.cnt >= Len(source) THEN b.ptr + r.cnt ELSE b.ext
    BY <1>6, <1>7, <1>9
  <1> QED
    BY <1>7, <1>8, <1>13, <1>14, <1>15 DEF r, source, b, s

\* EXT after a READ while nothing waits in the page.
LEMMA ReadIs ==
  ASSUME OwnInv, GoodInv, NEW c \in Channels, Reads(c), chan[c].handle \notin bad,
         chan[c].wcount = 0
  PROVE  LET b == chan[c]
             r == Refilled(c)
             s == handles[b.handle]
         IN  /\ r.start + r.cnt <= r.ext
             /\ Grows(s) /\ r.ext # Unknown => r.ext = r.start + r.cnt
             /\ ~Grows(s) => Len(SourceOf(s)) <= r.ext
PROOF
  <1> DEFINE b == chan[c]
             h == b.handle
             r == Refilled(c)
             s == handles[h]
             p == put[h]
             source == SourceOf(s)
             ended == b.ptr + r.cnt >= Len(source)
  <1>1. /\ TypeOK /\ b \in Block /\ Network(c) /\ ~InWindow(c) /\ b.ptr < b.ext
        /\ h \in DOMAIN handles
    BY Typed DEF OwnInv, Reads
  <1>2. s \in Streams /\ p \in Seq(Nat)
    BY <1>1, Typed
  <1>3. Good(b, s, p)
    BY <1>1, OwnGood
  <1>4. b.ptr \in Nat /\ b.ext \in Nat /\ b.start \in Nat /\ b.cnt \in Nat /\ b.wcount = 0
    BY <1>1, BlockIs
  <1>5. Unknown \in Nat
    BY NetAssumption
  <1>6. r.start = b.ptr /\ r.cnt \in Nat /\ r.ext = IF ended THEN b.ptr + r.cnt ELSE b.ext
    BY <1>1, ReadBrings
  <1>7. Grows(s) => source = p /\ Len(p) < Unknown
    BY <1>1, <1>2, <1>3, <1>4, GrowingFits
  <1>8. Window(b, s) /\ b.wpos = Len(p)
    BY <1>3 DEF Good
  <1>9. Len(source) \in Nat
    BY <1>2, SourceIs
  <1> HIDE DEF r, source, b, s, p
  <1>10. ~ended /\ Grows(s) => b.ext = Unknown
    <2>1. SUFFICES ASSUME ~ended, Grows(s), b.ext # Unknown
                   PROVE  FALSE
      OBVIOUS
    <2>2. b.ext = b.start + b.cnt /\ (b.ptr < b.start => b.wpos = 0)
      BY <1>8, <2>1 DEF Window
    <2>3. b.ptr < b.start
      BY <1>1, <1>4, <2>2 DEF InWindow, b
    <2>4. Len(source) = 0
      BY <1>7, <1>8, <2>1, <2>2, <2>3
    <2> QED
      BY <1>4, <1>6, <2>1, <2>4
  <1>11. ~Grows(s) => Len(source) <= b.ext
    BY <1>8 DEF Window, source
  <1>12. r.start + r.cnt <= r.ext
    BY <1>4, <1>5, <1>6, <1>7, <1>9, <1>10, <1>11
  <1>13. Grows(s) /\ r.ext # Unknown => r.ext = r.start + r.cnt
    BY <1>6, <1>10
  <1>14. ~Grows(s) => Len(source) <= r.ext
    BY <1>4, <1>6, <1>9, <1>11
  <1> QED
    BY <1>12, <1>13, <1>14 DEF r, source, b, s

\* The channel after a READ, with PTR not before where it was.
LEMMA ReadGood ==
  ASSUME OwnInv, GoodInv, NEW c \in Channels, Reads(c), chan[c].handle \notin bad,
         chan[c].wcount = 0, NEW n \in Block, NEW q \in Nat, q >= chan[c].ptr,
         n = [Refilled(c) EXCEPT !.ptr = q]
  PROVE  Good(n, handles[chan[c].handle], put[chan[c].handle])
PROOF
  <1> DEFINE b == chan[c]
             h == b.handle
             r == Refilled(c)
             s == handles[h]
             p == put[h]
             chunk == Chunk(h, b.ptr, Page - 1)
  <1>1. TypeOK /\ b \in Block /\ Network(c) /\ h \in DOMAIN handles
    BY Typed DEF OwnInv, Reads
  <1>2. s \in Streams /\ p \in Seq(Nat)
    BY <1>1, Typed
  <1>3. Good(b, s, p)
    BY <1>1, OwnGood
  <1>4. /\ r \in Block /\ r.open = b.open /\ r.handle = h /\ r.start = b.ptr
        /\ r.wcount = b.wcount /\ r.wpos = b.wpos
    BY <1>1, RefilledIs DEF Fields
  <1>5. /\ Fresh(r, s)
        /\ r.start + r.cnt <= r.ext
        /\ Grows(s) /\ r.ext # Unknown => r.ext = r.start + r.cnt
        /\ ~Grows(s) => Len(SourceOf(s)) <= r.ext
    BY <1>1, ReadIs, ReadBrings
  <1> HIDE DEF r
  <1>6. Fields(n, r.open, r.handle, q, r.ext, r.start, r.cnt, r.wcount, r.wpos, r.page)
    BY <1>4, PtrIs DEF r
  <1>7. n.wcount = 0 /\ b.wcount = 0
    BY <1>4, <1>6 DEF Fields
  <1>8. Waiting(n) = << >> /\ Waiting(b) = << >>
    BY <1>1, <1>7, WaitingIs
  <1>9. Fresh(n, s)
    BY <1>5, <1>6 DEF Fresh, Fields
  <1>10. b.ptr \in Nat
    BY <1>1, BlockIs
  <1> HIDE DEF s, p
  <1>11. Window(n, s)
    BY <1>4, <1>5, <1>6, <1>9, <1>10 DEF Window, Fields
  <1> QED
    BY <1>3, <1>4, <1>6, <1>8, <1>11 DEF Good, Fields, s, p

\* A READ that brings bytes.
LEMMA BgetRefillKeeps ==
  ASSUME OwnInv, NEW c \in Channels, BgetRefill(c)
  PROVE  OwnInv' /\ (GoodInv /\ MayRead(c) => GoodInv')
PROOF
  <1> DEFINE b == chan[c]
             h == b.handle
             r == Refilled(c)
             n == [r EXCEPT !.ptr = r.ptr + 1]
             s == handles[h]
             p == put[h]
  <1>1. TypeOK /\ b \in Block /\ Network(c) /\ Reads(c)
    BY Typed DEF BgetRefill, Reads, OwnInv
  <1>2. r \in Block /\ r.open = b.open /\ r.handle = h /\ r.ptr = b.ptr
    BY <1>1, RefilledIs DEF Fields
  <1>3. b.ptr \in Nat /\ b.ptr + 1 \in Nat
    BY <1>1, BlockIs
  <1>4. chan' = [chan EXCEPT ![c] = n]
    BY DEF BgetRefill
  <1> HIDE DEF r
  <1>5. /\ n \in Block
        /\ Fields(n, r.open, r.handle, b.ptr + 1, r.ext, r.start, r.cnt, r.wcount, r.wpos, r.page)
    BY <1>2, <1>3, PtrIs
  <1>6. n.open /\ n.handle = h
    BY <1>1, <1>2, <1>5 DEF Fields, Network
  <1>7. n = [Refilled(c) EXCEPT !.ptr = b.ptr + 1]
    BY <1>2 DEF r
  <1> HIDE DEF n
  <1>8. Becomes(c, n, s, p) /\ s \in Streams /\ p \in Seq(Nat)
    BY <1>1, <1>5, <1>4, BlockAlone DEF BgetRefill
  <1>9. OwnInv'
    BY <1>1, <1>5, <1>8, <1>6, OwnStep
  <1>10. ASSUME GoodInv, MayRead(c), h \notin bad'
         PROVE  Good(n, s, p)
    <2>1. h \notin bad /\ b.wcount = 0 /\ b.ptr + 1 >= b.ptr
      BY <1>3, <1>10 DEF MayRead, BgetRefill
    <2> QED
      BY <1>1, <1>3, <1>5, <1>7, <1>10, <2>1, ReadGood
  <1>11. GoodInv /\ MayRead(c) => GoodInv'
    BY <1>1, <1>5, <1>8, <1>6, <1>10, GoodStep
  <1> QED
    BY <1>9, <1>11

\* A READ that brings none.
LEMMA BgetEmptyKeeps ==
  ASSUME OwnInv, NEW c \in Channels, BgetEmpty(c)
  PROVE  OwnInv' /\ (GoodInv /\ MayRead(c) => GoodInv')
PROOF
  <1> DEFINE b == chan[c]
             h == b.handle
             r == Refilled(c)
             n == [r EXCEPT !.ptr = r.ext]
             s == handles[h]
             p == put[h]
  <1>1. TypeOK /\ b \in Block /\ Network(c) /\ Reads(c) /\ r.cnt = 0
    BY Typed DEF BgetEmpty, Reads, OwnInv
  <1>2. r \in Block /\ r.open = b.open /\ r.handle = h /\ r.ptr = b.ptr /\ r.start = b.ptr
    BY <1>1, RefilledIs DEF Fields
  <1>3. b.ptr \in Nat /\ r.ext \in Nat /\ r.start \in Nat
    BY <1>1, <1>2, BlockIs
  <1>4. chan' = [chan EXCEPT ![c] = n]
    BY DEF BgetEmpty
  <1>7. n = [Refilled(c) EXCEPT !.ptr = r.ext]
    OBVIOUS
  <1> HIDE DEF r
  <1>5. /\ n \in Block
        /\ Fields(n, r.open, r.handle, r.ext, r.ext, r.start, r.cnt, r.wcount, r.wpos, r.page)
    BY <1>2, <1>3, PtrIs
  <1>6. n.open /\ n.handle = h
    BY <1>1, <1>2, <1>5 DEF Fields, Network
  <1> HIDE DEF n
  <1>8. Becomes(c, n, s, p) /\ s \in Streams /\ p \in Seq(Nat)
    BY <1>1, <1>5, <1>4, BlockAlone DEF BgetEmpty
  <1>9. OwnInv'
    BY <1>1, <1>5, <1>8, <1>6, OwnStep
  <1>10. ASSUME GoodInv, MayRead(c), h \notin bad'
         PROVE  Good(n, s, p)
    <2>1. h \notin bad /\ b.wcount = 0
      BY <1>10 DEF MayRead, BgetEmpty
    <2>2. r.start + r.cnt <= r.ext
      BY <1>1, <1>10, <2>1, ReadIs DEF r
    <2>3. r.ext >= b.ptr
      BY <1>1, <1>2, <1>3, <2>2
    <2> QED
      BY <1>1, <1>3, <1>5, <1>7, <1>10, <2>1, <2>3, ReadGood
  <1>11. GoodInv /\ MayRead(c) => GoodInv'
    BY <1>1, <1>5, <1>8, <1>6, <1>10, GoodStep
  <1> QED
    BY <1>9, <1>11

----------------------------------------------------------------------------
(* BPUT#.                                                                  *)

\* What appending a byte does to a sequence of bytes.
LEMMA OneMoreByte ==
  ASSUME NEW s \in Seq(Nat), NEW v \in Nat
  PROVE  /\ Append(s, v) \in Seq(Nat) /\ Len(Append(s, v)) = Len(s) + 1
         /\ \A i \in 1 .. Len(s) : Append(s, v)[i] = s[i]
         /\ Append(s, v)[Len(s) + 1] = v
PROOF
  BY AppendProperties

\* One more byte behind what waits.
LEMMA LastIs ==
  ASSUME NEW w \in Seq(Nat), NEW t \in Seq(Nat), NEW u \in Seq(Nat), NEW v \in Nat,
         Len(u) = Len(t) + 1, u[Len(t) + 1] = v, \A i \in 1 .. Len(t) : u[i] = t[i]
  PROVE  w \o u = Append(w \o t, v)
PROOF
  <1> DEFINE new == w \o u
             old == w \o t
             full == Append(old, v)
  <1>1. /\ new \in Seq(Nat) /\ Len(new) = Len(w) + Len(u)
        /\ \A i \in 1 .. Len(w) + Len(u) :
             new[i] = IF i <= Len(w) THEN w[i] ELSE u[i - Len(w)]
    BY ConcatProperties
  <1>2. /\ old \in Seq(Nat) /\ Len(old) = Len(w) + Len(t)
        /\ \A i \in 1 .. Len(w) + Len(t) :
             old[i] = IF i <= Len(w) THEN w[i] ELSE t[i - Len(w)]
    BY ConcatProperties
  <1> HIDE DEF new, old
  <1>3. /\ full \in Seq(Nat) /\ Len(full) = Len(old) + 1
        /\ \A i \in 1 .. Len(old) : full[i] = old[i]
        /\ full[Len(old) + 1] = v
    BY <1>2, OneMoreByte
  <1> HIDE DEF full
  <1>4. Len(new) = Len(full)
    BY <1>1, <1>2, <1>3
  <1>5. ASSUME NEW i \in 1 .. Len(new)
        PROVE  new[i] = full[i]
    <2>1. CASE i = Len(w) + Len(u)
      BY <1>1, <1>2, <1>3, <2>1
    <2>2. CASE i # Len(w) + Len(u)
      <3>1. i \in 1 .. Len(w) + Len(t) /\ i \in 1 .. Len(w) + Len(u)
        BY <1>1, <2>2
      <3>2. full[i] = old[i]
        BY <1>2, <1>3, <3>1
      <3>3. i <= Len(w) \/ i - Len(w) \in 1 .. Len(t)
        BY <3>1
      <3> QED
        BY <1>1, <1>2, <3>1, <3>2, <3>3
    <2> QED
      BY <2>1, <2>2
  <1>6. new = full
    BY <1>1, <1>3, <1>4, <1>5, SeqEqual
  <1> QED
    BY <1>6 DEF new, old, full

\* A number below the modulus is its own remainder.
LEMMA SmallMod ==
  ASSUME NEW x \in Nat, NEW m \in Nat \ {0}, x < m
  PROVE  x % m = x
PROOF
  <1> DEFINE q == x \div m
             r == x % m
  <1>1. q \in Nat /\ r \in 0 .. m - 1 /\ x = m * q + r
    OBVIOUS
  <1> HIDE DEF q, r
  <1>2. q = 0
    <2>1. SUFFICES ASSUME q # 0
                   PROVE  FALSE
      OBVIOUS
    <2>2. PICK k \in Nat : q = k + 1
      <3>1. q - 1 \in Nat /\ q = (q - 1) + 1
        BY <1>1, <2>1
      <3> QED
        BY <3>1
    <2>3. m * q = m * k + m /\ m * k >= 0
      BY <2>2
    <2> QED
      BY <1>1, <2>3
  <1>3. x = r
    BY <1>1, <1>2
  <1> QED
    BY <1>3 DEF r

\* What waits with one byte more, as long as the count does not come round.
LEMMA PendingWaits ==
  ASSUME TypeOK, NEW c \in Channels, NEW v \in Nat, chan[c].wcount + 1 < Page
  PROVE  /\ Pending(c, v).wcount = chan[c].wcount + 1
         /\ \A w \in Seq(Nat) :
              w \o Waiting(Pending(c, v)) = Append(w \o Waiting(chan[c]), v)
PROOF
  <1> DEFINE b == chan[c]
             n == Pending(c, v)
             t == Waiting(b)
             u == Waiting(n)
  <1>1. b \in Block
    BY Typed
  <1>2. b.wcount \in Nat /\ b.wcount + 1 < Page /\ b.page \in [0 .. Page - 1 -> Nat]
    BY <1>1, BlockIs, PageIs
  <1>3. /\ n \in Block /\ n.wcount = (b.wcount + 1) % Page
        /\ n.page = [b.page EXCEPT ![b.wcount] = v]
    BY PendingIs DEF Fields
  <1>4. n.wcount = b.wcount + 1
    <2>1. (b.wcount + 1) % Page = b.wcount + 1
      BY <1>2, PageIs, SmallMod
    <2> QED
      BY <1>3, <2>1
  <1> HIDE DEF b, n
  <1>5. /\ t \in Seq(Nat) /\ Len(t) = b.wcount
        /\ \A i \in 1 .. b.wcount : t[i] = b.page[i - 1]
    BY <1>1, WaitingIs
  <1>6. /\ u \in Seq(Nat) /\ Len(u) = n.wcount
        /\ \A i \in 1 .. n.wcount : u[i] = n.page[i - 1]
    BY <1>3, WaitingIs
  <1> HIDE DEF t, u
  <1>7. u[Len(t) + 1] = v
    <2>1. Len(t) + 1 \in 1 .. n.wcount /\ (Len(t) + 1) - 1 = b.wcount
      BY <1>2, <1>4, <1>5
    <2>2. u[Len(t) + 1] = n.page[b.wcount]
      BY <1>6, <2>1
    <2>3. b.wcount \in 0 .. Page - 1
      BY <1>2, PageIs
    <2> QED
      BY <1>2, <1>3, <2>2, <2>3
  <1>8. ASSUME NEW i \in 1 .. Len(t)
        PROVE  u[i] = t[i]
    <2>1. i \in 1 .. n.wcount /\ i \in 1 .. b.wcount /\ i - 1 \in 0 .. Page - 1 /\ i - 1 # b.wcount
      BY <1>2, <1>4, <1>5, PageIs
    <2>2. u[i] = n.page[i - 1] /\ t[i] = b.page[i - 1]
      BY <1>5, <1>6, <2>1
    <2> QED
      BY <1>2, <1>3, <2>1, <2>2
  <1>9. Len(u) = Len(t) + 1
    BY <1>4, <1>5, <1>6
  <1>10. ASSUME NEW w \in Seq(Nat)
         PROVE  w \o u = Append(w \o t, v)
    BY <1>5, <1>6, <1>7, <1>8, <1>9, LastIs
  <1> QED
    BY <1>4, <1>10 DEF b, n, t, u

\* The window after a byte was put behind it.
LEMMA PutWindow ==
  ASSUME NEW b \in Block, NEW n \in Block, NEW s \in Streams, NEW z \in Streams,
         Window(b, s), z.url = s.url, z.translated = s.translated,
         n.start = b.start, n.cnt = b.cnt, n.ptr = b.ptr, n.ext = b.ext, n.wpos # 0,
         b.start + b.cnt <= b.ptr
  PROVE  Window(n, z)
PROOF
  <1>1. b.start \in Nat /\ b.cnt \in Nat /\ b.ptr \in Nat
    BY BlockIs
  <1>2. Grows(z) <=> Grows(s)
    BY DEF Grows
  <1>3. ~Grows(s) => SourceOf(z) = SourceOf(s)
    BY DEF Grows, SourceOf
  <1> QED
    BY <1>1, <1>2, <1>3 DEF Window

\* A byte kept in the page.
LEMMA BputBufferedKeeps ==
  ASSUME OwnInv, NEW c \in Channels, NEW v \in Bytes, BputBuffered(c, v)
  PROVE  OwnInv' /\ (GoodInv /\ MayWrite(c) => GoodInv')
PROOF
  <1> DEFINE b == chan[c]
             h == b.handle
             n == Pending(c, v)
             s == handles[h]
             p == put[h]
             q == Append(p, v)
  <1>1. /\ TypeOK /\ b \in Block /\ Network(c) /\ h \in DOMAIN handles /\ v \in Nat
        /\ Len(p) < MaxPut
    BY Typed, NetAssumption DEF BputBuffered, OwnInv
  <1>2. /\ handles \in Seq(Streams) /\ put \in Seq(Seq(Nat)) /\ DOMAIN put = DOMAIN handles
        /\ s \in Streams /\ p \in Seq(Nat)
    BY <1>1, Typed
  <1>3. /\ n \in Block
        /\ Fields(n, b.open, h, b.ptr, b.ext, b.start, b.cnt,
                  (b.wcount + 1) % Page, b.wpos + 1, [b.page EXCEPT ![b.wcount] = v])
    BY <1>1, PendingIs
  <1>4. q \in Seq(Nat) /\ Len(q) = Len(p) + 1
    BY <1>1, <1>2, OneMoreByte
  <1>5. /\ chan' = [chan EXCEPT ![c] = n] /\ put' = [put EXCEPT ![h] = q]
        /\ handles' = handles /\ bad' = bad /\ immediate' = immediate
    BY DEF BputBuffered
  <1> HIDE DEF n, q
  <1>6. Becomes(c, n, s, q)
    <2>1. handles = [handles EXCEPT ![h] = s]
      BY <1>1, <1>2
    <2> QED
      BY <1>5, <2>1 DEF Becomes
  <1>7. n.open /\ n.handle = h
    BY <1>1, <1>3 DEF Fields, Network
  <1>8. OwnInv'
    BY <1>1, <1>2, <1>3, <1>4, <1>6, <1>7, OwnStep
  <1>9. ASSUME GoodInv, MayWrite(c), h \notin bad'
        PROVE  Good(n, s, q)
    <2>1. Good(b, s, p)
      BY <1>1, <1>5, <1>9, OwnGood
    <2>2. b.wcount + 1 < Page /\ b.start + b.cnt <= b.ptr
      <3>1. b.start \in Nat /\ b.cnt \in Nat /\ b.ptr \in Nat
        BY <1>1, BlockIs
      <3> QED
        BY <1>9, <3>1 DEF MayWrite, HasUnread
    <2>3. s.written \o Waiting(n) = q
      <3>1. s.written \in Seq(Nat)
        BY <1>2, SourceIs
      <3>2. s.written \o Waiting(n) = Append(s.written \o Waiting(b), v)
        BY <1>1, <2>2, <3>1, PendingWaits DEF n
      <3> QED
        BY <2>1, <3>2 DEF Good, q
    <2>4. n.wpos = Len(q) /\ Len(q) <= MaxPut
      <3>1. Len(p) \in Nat /\ MaxPut \in Nat
        BY <1>2, NetAssumption
      <3> QED
        BY <1>1, <1>3, <1>4, <2>1, <3>1 DEF Good, Fields
    <2>5. n.wpos # 0
      BY <1>2, <1>4, <2>4
    <2>6. n.start = b.start /\ n.cnt = b.cnt /\ n.ptr = b.ptr /\ n.ext = b.ext
      BY <1>3 DEF Fields
    <2>7. Window(b, s)
      BY <2>1 DEF Good
    <2> HIDE DEF b, s
    <2>8. Window(n, s)
      BY <1>1, <1>2, <1>3, <2>2, <2>5, <2>6, <2>7, PutWindow DEF b
    <2> QED
      BY <2>3, <2>4, <2>8 DEF Good, s
  <1>10. GoodInv /\ MayWrite(c) => GoodInv'
    BY <1>1, <1>2, <1>3, <1>4, <1>6, <1>7, <1>9, GoodStep
  <1> QED
    BY <1>8, <1>10

\* What is pending carried to the stream: behind its end, if that is where it
\* belongs.
LEMMA CarriedIs ==
  ASSUME NEW b \in Block, NEW s \in Streams
  PROVE  LET w == Spliced(s.written, b.wpos - b.wcount, Waiting(b))
             z == [s EXCEPT !.written = w]
         IN  /\ z \in Streams /\ z.written = w /\ z.url = s.url /\ z.open = s.open
             /\ z.translated = s.translated
             /\ Len(s.written) = b.wpos - b.wcount => w = s.written \o Waiting(b)
PROOF
  <1> DEFINE old == s.written
             bytes == Waiting(b)
             offset == b.wpos - b.wcount
             w == Spliced(old, offset, bytes)
  <1>1. b.wpos \in Nat /\ b.wcount \in Nat
    BY BlockIs, PageIs
  <1>2. old \in Seq(Nat)
    BY SourceIs
  <1>3. bytes \in Seq(Nat) /\ Len(bytes) = b.wcount
    BY WaitingIs
  <1>4. offset \in Int /\ offset + Len(bytes) \in Nat
    BY <1>1, <1>3
  <1> HIDE DEF old, bytes, offset
  <1>5. w \in Seq(Nat) /\ (offset = Len(old) => w = old \o bytes)
    BY <1>2, <1>3, <1>4, SplicedIs
  <1> HIDE DEF w
  <1>6. LET z == [s EXCEPT !.written = w]
        IN  /\ z \in Streams /\ z.written = w /\ z.url = s.url /\ z.open = s.open
            /\ z.translated = s.translated
    BY <1>5, WrittenIs
  <1> QED
    BY <1>5, <1>6 DEF w, old, bytes, offset

\* A byte written at once.
LEMMA BputImmediateKeeps ==
  ASSUME OwnInv, NEW c \in Channels, NEW v \in Bytes, NEW outcome \in Outcomes,
         BputImmediate(c, v, outcome)
  PROVE  OwnInv' /\ (GoodInv /\ MayWrite(c) => GoodInv')
PROOF
  <1> DEFINE b == chan[c]
             h == b.handle
             m == Pending(c, v)
             n == [m EXCEPT !.wcount = 0]
             s == handles[h]
             p == put[h]
             q == Append(p, v)
             w == Spliced(s.written, m.wpos - m.wcount, Waiting(m))
             z == IF Reaches(h, outcome) THEN [s EXCEPT !.written = w] ELSE s
  <1>1. /\ TypeOK /\ b \in Block /\ Network(c) /\ h \in DOMAIN handles /\ v \in Nat
        /\ Len(p) < MaxPut
    BY Typed, NetAssumption DEF BputImmediate, OwnInv
  <1>2. /\ handles \in Seq(Streams) /\ put \in Seq(Seq(Nat)) /\ DOMAIN put = DOMAIN handles
        /\ s \in Streams /\ p \in Seq(Nat)
    BY <1>1, Typed
  <1>3. /\ m \in Block
        /\ Fields(m, b.open, h, b.ptr, b.ext, b.start, b.cnt,
                  (b.wcount + 1) % Page, b.wpos + 1, [b.page EXCEPT ![b.wcount] = v])
    BY <1>1, PendingIs
  <1>4. q \in Seq(Nat) /\ Len(q) = Len(p) + 1
    BY <1>1, <1>2, OneMoreByte
  <1>5. /\ chan' = [chan EXCEPT ![c] = n] /\ put' = [put EXCEPT ![h] = q]
        /\ bad' = Marked(h, outcome) /\ immediate' = immediate
    BY DEF BputImmediate
  <1>6. handles' = [handles EXCEPT ![h] = z]
    <2>1. handles' = IF Reaches(h, outcome)
                     THEN [handles EXCEPT ![h].written =
                             Spliced(@, m.wpos - m.wcount, Waiting(m))]
                     ELSE handles
      BY DEF BputImmediate, Waiting
    <2> HIDE DEF m
    <2>2. CASE Reaches(h, outcome)
      BY <2>1, <2>2
    <2>3. CASE ~Reaches(h, outcome)
      BY <1>1, <1>2, <2>1, <2>3
    <2> QED
      BY <2>2, <2>3
  <1>7. /\ n \in Block
        /\ Fields(n, m.open, m.handle, m.ptr, m.ext, m.start, m.cnt, 0, m.wpos, m.page)
    BY <1>3, CountIs
  <1> HIDE DEF m, n, q
  <1>8. /\ z \in Streams /\ z.url = s.url /\ z.open = s.open /\ z.translated = s.translated
        /\ Reaches(h, outcome) => z.written = w
        /\ Len(s.written) = m.wpos - m.wcount => w = s.written \o Waiting(m)
    BY <1>2, <1>3, CarriedIs
  <1> HIDE DEF z, w
  <1>9. Becomes(c, n, z, q)
    BY <1>5, <1>6 DEF Becomes, Marked
  <1>10. n.open /\ n.handle = h
    BY <1>1, <1>3, <1>7 DEF Fields, Network
  <1>11. OwnInv'
    BY <1>1, <1>2, <1>4, <1>7, <1>8, <1>9, <1>10, OwnStep
  <1>12. ASSUME GoodInv, MayWrite(c), h \notin bad'
         PROVE  Good(n, z, q)
    <2>1. h \notin bad /\ Known(h) /\ outcome = "done"
      BY <1>5, <1>12 DEF Marked, Reported
    <2>2. Good(b, s, p) /\ Reaches(h, outcome)
      BY <1>1, <1>12, <2>1, OwnGood DEF Reaches
    <2>3. b.wcount + 1 < Page /\ b.start + b.cnt <= b.ptr
      <3>1. b.start \in Nat /\ b.cnt \in Nat /\ b.ptr \in Nat
        BY <1>1, BlockIs
      <3> QED
        BY <1>12, <3>1 DEF MayWrite, HasUnread
    <2>4. s.written \in Seq(Nat)
      BY <1>2, SourceIs
    <2>5. m.wcount = b.wcount + 1 /\ s.written \o Waiting(m) = Append(s.written \o Waiting(b), v)
      BY <1>1, <2>3, <2>4, PendingWaits DEF m
    <2>6. Len(s.written) = m.wpos - m.wcount
      <3>1. Waiting(b) \in Seq(Nat) /\ Len(Waiting(b)) = b.wcount
        BY <1>1, WaitingIs
      <3>2. Len(s.written) + Len(Waiting(b)) = Len(p)
        <4> DEFINE old == s.written
                   bytes == Waiting(b)
        <4>1. old \in Seq(Nat) /\ bytes \in Seq(Nat) /\ old \o bytes = p
          BY <2>2, <2>4, <3>1 DEF Good
        <4> HIDE DEF old, bytes
        <4>2. Len(old \o bytes) = Len(old) + Len(bytes)
          BY <4>1, ConcatProperties
        <4> QED
          BY <4>1, <4>2 DEF old, bytes
      <3>3. m.wpos = b.wpos + 1 /\ b.wpos = Len(p)
        BY <1>3, <2>2 DEF Fields, Good
      <3>4. Len(s.written) \in Nat /\ b.wcount \in Nat /\ b.wpos \in Nat
        BY <1>1, <2>4, BlockIs, PageIs
      <3>5. m.wpos - m.wcount = b.wpos - b.wcount
        BY <2>5, <3>3, <3>4
      <3>6. b.wpos - b.wcount = Len(s.written)
        BY <3>1, <3>2, <3>3, <3>4
      <3> QED
        BY <3>5, <3>6
    <2>7. z.written = q
      BY <1>8, <2>2, <2>5, <2>6 DEF Good, q
    <2>8. z.written \o Waiting(n) = q
      <3>1. n.wcount = 0
        BY <1>7 DEF Fields
      <3>2. Waiting(n) = << >>
        BY <1>7, <3>1, WaitingIs
      <3>3. q \o << >> = q
        BY <1>4
      <3> QED
        BY <2>7, <3>2, <3>3
    <2>9. n.wpos = Len(q) /\ Len(q) <= MaxPut
      <3>1. Len(p) \in Nat /\ MaxPut \in Nat
        BY <1>2, NetAssumption
      <3> QED
        BY <1>1, <1>3, <1>4, <1>7, <2>2, <3>1 DEF Good, Fields
    <2>10. n.wpos # 0
      BY <1>2, <1>4, <2>9
    <2>11. n.start = b.start /\ n.cnt = b.cnt /\ n.ptr = b.ptr /\ n.ext = b.ext
      BY <1>3, <1>7 DEF Fields
    <2>12. Window(b, s)
      BY <2>2 DEF Good
    <2> HIDE DEF b, s
    <2>13. Window(n, z)
      BY <1>1, <1>2, <1>7, <1>8, <2>3, <2>10, <2>11, <2>12, PutWindow DEF b
    <2> QED
      BY <2>8, <2>9, <2>13 DEF Good
  <1>13. GoodInv /\ MayWrite(c) => GoodInv'
    BY <1>1, <1>4, <1>7, <1>8, <1>9, <1>10, <1>12, GoodStep
  <1> QED
    BY <1>11, <1>13

----------------------------------------------------------------------------
(* Closing and translating.                                                *)

\* Closing with any block left that is not a network channel's.
LEMMA CloseAsKeeps ==
  ASSUME OwnInv, NEW c \in Channels, NEW flush \in Outcomes, NEW close \in Outcomes,
         NEW e \in Block, ~(e.open /\ e.handle # 0),
         CloseAs(c, flush, close, [chan EXCEPT ![c] = e])
  PROVE  OwnInv' /\ (GoodInv => GoodInv')
PROOF
  <1> DEFINE b == chan[c]
             h == b.handle
             s == handles[h]
             p == put[h]
             w == Spliced(s.written, b.wpos - b.wcount, Waiting(b))
             f == IF Reaches(h, flush) /\ b.wcount > 0 THEN [s EXCEPT !.written = w] ELSE s
             z == IF Reaches(h, close) THEN Popped(f) ELSE f
             m == [b EXCEPT !.wcount = 0]
             n == IF close = "done" THEN e ELSE m
  <1>1. /\ TypeOK /\ b \in Block /\ Network(c) /\ h \in DOMAIN handles /\ h # 0
    BY Typed DEF CloseAs, OwnInv, Network
  <1>2. /\ handles \in Seq(Streams) /\ put \in Seq(Seq(Nat)) /\ DOMAIN put = DOMAIN handles
        /\ s \in Streams /\ p \in Seq(Nat)
    BY <1>1, Typed
  <1>3. /\ m \in Block
        /\ Fields(m, b.open, h, b.ptr, b.ext, b.start, b.cnt, 0, b.wpos, b.page)
    BY <1>1, CountIs
  <1>4. chan' = [chan EXCEPT ![c] = n]
    BY DEF CloseAs
  <1>5. handles' = [handles EXCEPT ![h] = z]
    <2>1. AfterFlush(c, flush) = [handles EXCEPT ![h] = f]
      <3>1. AfterFlush(c, flush) =
              IF Reaches(h, flush) /\ b.wcount > 0
              THEN [handles EXCEPT ![h].written = Spliced(@, b.wpos - b.wcount, Waiting(b))]
              ELSE handles
        BY DEF AfterFlush, Flushed, Waiting
      <3> HIDE DEF b
      <3>2. CASE Reaches(h, flush) /\ b.wcount > 0
        BY <3>1, <3>2
      <3>3. CASE ~(Reaches(h, flush) /\ b.wcount > 0)
        BY <1>1, <1>2, <3>1, <3>3
      <3> QED
        BY <3>2, <3>3
    <2> DEFINE streams == [handles EXCEPT ![h] = f]
    <2>2. handles' = IF Reaches(h, close) THEN [streams EXCEPT ![h] = Popped(@)] ELSE streams
      BY <2>1 DEF CloseAs
    <2> HIDE DEF f
    <2>3. streams[h] = f
      BY <1>1
    <2>4. [streams EXCEPT ![h] = Popped(@)] = [handles EXCEPT ![h] = Popped(f)]
      BY <1>1, <1>2, <2>3
    <2> QED
      BY <2>2, <2>4
  <1>6. /\ bad' = bad \/ bad' = bad \cup {h}
        /\ flush # "done" \/ close # "done" => h \in bad'
        /\ b.wcount > 0 /\ ~Known(h) => h \in bad'
        /\ put' = put /\ immediate' = immediate
    BY DEF CloseAs, Marked, Reported
  <1> HIDE DEF m
  <1>7. n \in Block /\ n = IF close = "done" THEN e ELSE m
    BY <1>3
  <1>8. /\ f \in Streams /\ f.open = s.open
        /\ Reaches(h, flush) /\ b.wcount > 0 => f.written = w
        /\ ~(b.wcount > 0) => f.written = s.written
        /\ Len(s.written) = b.wpos - b.wcount => w = s.written \o Waiting(b)
    BY <1>1, <1>2, CarriedIs
  <1> HIDE DEF w, f, n
  <1>9. /\ z \in Streams /\ z.written = f.written
        /\ Reaches(h, close) => z.open = FALSE
        /\ ~Reaches(h, close) => z.open = s.open
    BY <1>8, PoppedIs
  <1> HIDE DEF z
  <1>10. Becomes(c, n, z, p)
    <2>1. put = [put EXCEPT ![h] = p]
      BY <1>1, <1>2
    <2> QED
      BY <1>4, <1>5, <1>6, <2>1 DEF Becomes
  <1>11. close = "done" => ~(n.open /\ n.handle # 0) /\ z.open = FALSE
    <2>1. ASSUME close = "done"
          PROVE  z.open = FALSE
      <3>1. CASE Known(h)
        BY <1>9, <2>1, <3>1 DEF Reaches
      <3>2. CASE ~Known(h)
        <4>1. s.open = FALSE /\ ~Reaches(h, close)
          BY <1>1, <1>2, <3>2, SourceIs DEF Known, Reaches
        <4> QED
          BY <1>9, <4>1
      <3> QED
        BY <3>1, <3>2
    <2> QED
      BY <1>7, <2>1
  <1>12. close # "done" => n.open /\ n.handle = h /\ h \in bad'
    BY <1>1, <1>3, <1>6, <1>7 DEF Fields, Network
  <1>13. OwnInv'
    BY <1>1, <1>2, <1>7, <1>9, <1>10, <1>11, <1>12, OwnStep
  <1>14. ASSUME GoodInv, h \notin bad'
         PROVE  close = "done" /\ z.written = p
    <2>1. h \notin bad /\ flush = "done" /\ close = "done"
      BY <1>6, <1>14
    <2>2. Good(b, s, p) /\ Known(h)
      BY <1>1, <1>14, <2>1, OwnGood
    <2>3. Waiting(b) \in Seq(Nat) /\ Len(Waiting(b)) = b.wcount /\ b.wcount \in Nat
      BY <1>1, WaitingIs, BlockIs, PageIs
    <2>4. s.written \in Seq(Nat) /\ s.written \o Waiting(b) = p /\ b.wpos = Len(p)
      BY <1>2, <2>2, SourceIs DEF Good
    <2>5. CASE b.wcount > 0
      <3>1. Reaches(h, flush)
        BY <2>1, <2>2 DEF Reaches
      <3>2. Len(s.written) + Len(Waiting(b)) = Len(p)
        <4> DEFINE old == s.written
                   bytes == Waiting(b)
        <4>1. old \in Seq(Nat) /\ bytes \in Seq(Nat) /\ old \o bytes = p
          BY <2>3, <2>4
        <4> HIDE DEF old, bytes
        <4>2. Len(old \o bytes) = Len(old) + Len(bytes)
          BY <4>1, ConcatProperties
        <4> QED
          BY <4>1, <4>2 DEF old, bytes
      <3>3. Len(s.written) \in Nat /\ Len(p) \in Nat
        BY <1>2, <2>4
      <3>4. Len(s.written) = b.wpos - b.wcount
        BY <2>3, <2>4, <3>2, <3>3
      <3> QED
        BY <1>8, <1>9, <2>1, <2>4, <2>5, <3>1, <3>4
    <2>6. CASE ~(b.wcount > 0)
      <3>1. b.wcount = 0
        BY <2>3, <2>6
      <3>2. Waiting(b) = << >>
        BY <1>1, <3>1, WaitingIs
      <3>3. s.written \o << >> = s.written
        BY <2>4
      <3> QED
        BY <1>8, <1>9, <2>1, <2>4, <2>6, <3>2, <3>3
    <2> QED
      BY <2>5, <2>6
  <1>15. GoodInv => GoodInv'
    BY <1>1, <1>2, <1>7, <1>9, <1>10, <1>11, <1>12, <1>14, GoodStep
  <1> QED
    BY <1>13, <1>15

LEMMA CloseKeeps ==
  ASSUME OwnInv, NEW c \in Channels, NEW flush \in Outcomes, NEW close \in Outcomes,
         Close(c, flush, close)
  PROVE  OwnInv' /\ (GoodInv => GoodInv')
PROOF
  <1>1. Idle \in Block /\ ~(Idle.open /\ Idle.handle # 0)
    BY IdleIs DEF Fields
  <1>2. CloseAs(c, flush, close, [chan EXCEPT ![c] = Idle])
    BY DEF Close
  <1> QED
    BY <1>1, <1>2, CloseAsKeeps

LEMMA UpdateKeeps ==
  ASSUME OwnInv, NEW c \in Channels, NEW flush \in Outcomes, NEW close \in Outcomes,
         Update(c, flush, close)
  PROVE  OwnInv' /\ (GoodInv => GoodInv')
PROOF
  <1> DEFINE e == [Idle EXCEPT !.open = TRUE]
  <1>1. e \in Block /\ ~(e.open /\ e.handle # 0)
    BY IdleIs DEF Fields, Block
  <1>2. CloseAs(c, flush, close, [chan EXCEPT ![c] = e])
    BY DEF Update
  <1> HIDE DEF e
  <1> QED
    BY <1>1, <1>2, CloseAsKeeps

\* A channel set back to the start of what its stream was translated into.
LEMMA RewoundIs ==
  ASSUME TypeOK, NEW c \in Channels, NEW size \in Nat
  PROVE  /\ Rewound(c, size) \in Block
         /\ Fields(Rewound(c, size), chan[c].open, chan[c].handle, 0, size, chan[c].start, 0,
                   chan[c].wcount, chan[c].wpos, chan[c].page)
PROOF
  <1> DEFINE b == chan[c]
             n == [b EXCEPT !.ext = size, !.ptr = 0, !.cnt = 0]
  <1>1. b \in Block /\ 0 \in 0 .. Page - 1
    BY Typed, PageIs
  <1>2. Rewound(c, size) = n
    BY DEF Rewound
  <1> HIDE DEF b
  <1>3. n \in Block
    BY <1>1 DEF Block
  <1>4. Fields(n, b.open, b.handle, 0, size, b.start, 0, b.wcount, b.wpos, b.page)
    BY <1>1 DEF Block, Fields
  <1> QED
    BY <1>2, <1>3, <1>4 DEF b

\* *FJSON and its selectors.
LEMMA TranslateKeeps ==
  ASSUME OwnInv, NEW c \in Channels, NEW data \in Translations, NEW outcome \in Outcomes,
         Translate(c, data, outcome)
  PROVE  OwnInv' /\ (GoodInv => GoodInv')
PROOF
  <1> DEFINE b == chan[c]
             h == b.handle
             s == handles[h]
             p == put[h]
             y == [s EXCEPT !.translated = [set |-> TRUE, data |-> data]]
             z == IF Reaches(h, outcome) THEN y ELSE s
             m == Rewound(c, Len(data))
             n == IF Reported(h, outcome) THEN b ELSE m
  <1>1. /\ TypeOK /\ b \in Block /\ Network(c) /\ h \in DOMAIN handles
        /\ data \in Seq(Nat) /\ Len(data) \in Nat
    BY Typed, NetAssumption DEF Translate, OwnInv
  <1>2. /\ handles \in Seq(Streams) /\ put \in Seq(Seq(Nat)) /\ DOMAIN put = DOMAIN handles
        /\ s \in Streams /\ p \in Seq(Nat) /\ chan \in [Channels -> Block]
    BY <1>1, Typed
  <1>3. /\ m \in Block
        /\ Fields(m, b.open, h, 0, Len(data), b.start, 0, b.wcount, b.wpos, b.page)
    BY <1>1, RewoundIs
  <1>4. chan' = [chan EXCEPT ![c] = n]
    BY <1>2 DEF Translate
  <1>5. handles' = [handles EXCEPT ![h] = z]
    <2>1. CASE Reaches(h, outcome)
      BY <2>1 DEF Translate
    <2>2. CASE ~Reaches(h, outcome)
      BY <1>1, <1>2, <2>2 DEF Translate
    <2> QED
      BY <2>1, <2>2
  <1>6. /\ y \in Streams /\ y.written = s.written /\ y.open = s.open
        /\ y.translated.set /\ y.translated.data = data
    BY <1>1, <1>2, TranslatedIs
  <1>7. bad' = Marked(h, outcome) /\ put' = put /\ immediate' = immediate
    BY DEF Translate
  <1> HIDE DEF y, m
  <1>8. z \in Streams /\ z.open = s.open
    BY <1>2, <1>6
  <1>9. n \in Block /\ n.open /\ n.handle = h
    BY <1>1, <1>3 DEF Fields, Network
  <1> HIDE DEF z, n
  <1>10. Becomes(c, n, z, p)
    <2>1. put = [put EXCEPT ![h] = p]
      BY <1>1, <1>2
    <2> QED
      BY <1>4, <1>5, <1>7, <2>1 DEF Becomes, Marked
  <1>11. OwnInv'
    BY <1>1, <1>2, <1>8, <1>9, <1>10, OwnStep
  <1>12. ASSUME GoodInv, h \notin bad'
         PROVE  Good(n, z, p)
    <2>1. h \notin bad /\ ~Reported(h, outcome)
      BY <1>7, <1>12 DEF Marked
    <2>2. n = m /\ z = y
      BY <2>1 DEF n, z, Reported, Reaches
    <2>3. Good(b, s, p)
      BY <1>1, <1>12, <2>1, OwnGood
    <2>4. Waiting(n) = Waiting(b)
      BY <1>3, <2>2 DEF Waiting, Fields
    <2>5. n.cnt = 0 /\ n.ext = Len(data) /\ n.wpos = b.wpos
      BY <1>3, <2>2 DEF Fields
    <2>6. ~Grows(z) /\ SourceOf(z) = data /\ z.written = s.written
      BY <1>6, <2>2 DEF Grows, SourceOf
    <2>7. Fresh(n, z)
      BY <1>9, <2>5, EmptyFresh
    <2>8. Window(n, z)
      BY <1>1, <2>5, <2>6, <2>7 DEF Window
    <2> QED
      BY <2>3, <2>4, <2>5, <2>6, <2>8 DEF Good
  <1>13. GoodInv => GoodInv'
    BY <1>1, <1>2, <1>8, <1>9, <1>10, <1>12, GoodStep
  <1> QED
    BY <1>11, <1>13

----------------------------------------------------------------------------
(* Opening, *OPT 6, and steps that change nothing.                         *)

LEMMA StillKeeps ==
  ASSUME OwnInv, handles' = handles, chan' = chan, put' = put, bad' = bad,
         immediate' \in BOOLEAN
  PROVE  OwnInv' /\ (GoodInv => GoodInv')
PROOF
  <1>1. TypeOK'
    BY DEF OwnInv, TypeOK
  <1>2. \A c \in Channels : Network(c)' <=> Network(c)
    BY DEF Network
  <1>3. StreamsOwned'
    BY <1>2 DEF OwnInv, StreamsOwned
  <1>4. \A c \in Channels : Network(c)' => chan'[c].handle \in DOMAIN handles'
    BY <1>2 DEF OwnInv
  <1>5. GoodInv => GoodInv'
    BY <1>2 DEF GoodInv
  <1> QED
    BY <1>1, <1>3, <1>4, <1>5 DEF OwnInv

\* The channels while the device has a stream more.
LEMMA OpenKeeps ==
  ASSUME OwnInv, NEW c \in Channels, NEW url \in Urls, NEW outcome \in Outcomes,
         Open(c, url, outcome)
  PROVE  OwnInv' /\ (GoodInv => GoodInv')
PROOF
  <1> DEFINE h == Len(handles) + 1
             s == Stream(url)
             n == Opened(h)
  <1>1. /\ TypeOK /\ chan \in [Channels -> Block] /\ handles \in Seq(Streams)
        /\ put \in Seq(Seq(Nat)) /\ Len(put) = Len(handles) /\ bad \subseteq DOMAIN handles
        /\ DOMAIN put = DOMAIN handles /\ immediate \in BOOLEAN
    BY Typed DEF OwnInv, TypeOK
  <1>2. h \in Nat /\ h # 0 /\ h \notin DOMAIN handles /\ DOMAIN handles = 1 .. Len(handles)
    BY <1>1
  <1>3. CASE outcome = "refused"
    <2>1. handles' = handles /\ chan' = chan /\ put' = put /\ bad' = bad /\ immediate' \in BOOLEAN
      BY <1>1, <1>3 DEF Open
    <2> QED
      BY <2>1, StillKeeps
  <1>4. CASE outcome # "refused"
    <2>1. /\ s \in Streams /\ s.open = TRUE /\ s.written = << >> /\ s.url = url
          /\ s.translated.set = FALSE
      BY StreamIs
    <2>2. << >> \in Seq(Nat)
      OBVIOUS
    <2>3. /\ handles' = Append(handles, s) /\ put' = Append(put, << >>) /\ immediate' = immediate
          /\ bad' = IF outcome = "lost" THEN bad \cup {h} ELSE bad
          /\ chan' = IF outcome = "done" THEN [chan EXCEPT ![c] = n] ELSE chan
          /\ ~chan[c].open
      BY <1>4 DEF Open, Allocates, IsFree
    <2>4. /\ n \in Block
          /\ Fields(n, TRUE, h, 0, Unknown, 0, 0, 0, 0, [i \in 0 .. Page - 1 |-> 0])
      BY <1>2, OpenedIs
    <2> HIDE DEF s, n
    <2>5. /\ handles' \in Seq(Streams) /\ Len(handles') = h
          /\ DOMAIN handles' = DOMAIN handles \cup {h} /\ handles'[h] = s
          /\ \A g \in DOMAIN handles : handles'[g] = handles[g]
      BY <1>1, <1>2, <2>1, <2>3
    <2>6. /\ put' \in Seq(Seq(Nat)) /\ Len(put') = h /\ put'[h] = << >>
          /\ \A g \in DOMAIN handles : put'[g] = put[g]
      BY <1>1, <1>2, <2>2, <2>3
    <2> HIDE DEF h
    <2>7. /\ bad \subseteq bad' /\ bad' \subseteq bad \cup {h} /\ bad' \subseteq DOMAIN handles'
          /\ outcome = "lost" => h \in bad'
      BY <1>1, <2>3, <2>5
    <2>8. /\ chan' \in [Channels -> Block]
          /\ \A d \in Channels : d # c => chan'[d] = chan[d]
          /\ outcome = "done" => chan'[c] = n
          /\ outcome # "done" => chan'[c] = chan[c]
      BY <1>1, <2>3, <2>4
    <2>9. TypeOK'
      BY <1>1, <2>3, <2>5, <2>6, <2>7, <2>8 DEF TypeOK, Streams
    <2>10. ASSUME NEW d \in Channels, Network(d)'
           PROVE  \/ d # c /\ Network(d) /\ chan'[d] = chan[d] /\ chan[d].handle \in DOMAIN handles
                  \/ d = c /\ outcome = "done" /\ chan'[d] = n /\ chan'[d].handle = h
      BY <2>3, <2>4, <2>8, <2>10 DEF Network, OwnInv, Fields
    <2>11. ASSUME NEW d \in Channels, Network(d)
           PROVE  d # c /\ Network(d)' /\ chan'[d] = chan[d]
      BY <2>3, <2>8, <2>11 DEF Network
    <2>12. outcome = "done" => Network(c)' /\ chan'[c] = n /\ chan'[c].handle = h
      BY <1>2, <2>4, <2>8 DEF Network, Fields
    <2>13. ASSUME NEW d \in Channels, NEW e \in Channels, Network(d)', Network(e)',
                  chan'[d].handle = chan'[e].handle
           PROVE  d = e
      BY <1>2, <2>10, <2>13 DEF OwnInv, StreamsOwned
    <2>14. ASSUME NEW g \in DOMAIN handles' \ bad'
           PROVE  handles'[g].open = \E d \in Channels : Network(d)' /\ chan'[d].handle = g
      <3>1. CASE g = h
        <4>1. outcome = "done"
          BY <1>4, <2>7, <2>14, <3>1 DEF Outcomes
        <4>2. Network(c)' /\ chan'[c].handle = g
          BY <2>12, <3>1, <4>1
        <4> QED
          BY <2>1, <2>5, <3>1, <4>2
      <3>2. CASE g # h
        <4>1. g \in DOMAIN handles \ bad
          BY <2>5, <2>7, <2>14, <3>2
        <4>2. handles[g].open = \E d \in Channels : Network(d) /\ chan[d].handle = g
          BY <4>1 DEF OwnInv, StreamsOwned
        <4>3. \A d \in Channels : (Network(d)' /\ chan'[d].handle = g)
                                    <=> (Network(d) /\ chan[d].handle = g)
          BY <2>10, <2>11, <3>2
        <4> QED
          BY <2>5, <4>1, <4>2, <4>3
      <3> QED
        BY <3>1, <3>2
    <2>15. OwnInv'
      <3>1. StreamsOwned'
        BY <2>13, <2>14 DEF StreamsOwned
      <3>2. \A d \in Channels : Network(d)' => chan'[d].handle \in DOMAIN handles'
        BY <2>5, <2>10
      <3> QED
        BY <2>9, <3>1, <3>2 DEF OwnInv
    <2>16. Good(n, s, << >>)
      <3>1. Waiting(n) = << >> /\ s.written \o << >> = << >>
        <4>1. n.wcount = 0
          BY <2>4 DEF Fields
        <4>2. Waiting(n) = << >>
          BY <2>4, <4>1, WaitingIs
        <4> QED
          BY <2>1, <4>2
      <3>2. Fresh(n, s)
        BY <2>4, EmptyFresh DEF Fields
      <3>3. ~Grows(s) => Len(SourceOf(s)) <= Unknown
        <4>1. ASSUME ~Grows(s)
              PROVE  SourceOf(s) = Contents[url]
          BY <2>1, <4>1 DEF Grows, SourceOf
        <4>2. Len(Contents[url]) < Unknown /\ Contents[url] \in Seq(Nat) /\ Unknown \in Nat
          BY NetAssumption
        <4> QED
          BY <4>1, <4>2
      <3>4. Unknown \in Nat /\ MaxPut \in Nat
        BY NetAssumption
      <3>5. Window(n, s)
        BY <2>4, <3>2, <3>3, <3>4 DEF Window, Fields
      <3>6. Len(<< >>) = 0 /\ n.wpos = 0
        BY <2>4 DEF Fields
      <3> QED
        BY <3>1, <3>4, <3>5, <3>6 DEF Good
    <2>17. ASSUME GoodInv
           PROVE  GoodInv'
      <3>1. ASSUME NEW d \in Channels, Network(d)', chan'[d].handle \notin bad'
            PROVE  Good(chan'[d], handles'[chan'[d].handle], put'[chan'[d].handle])
        <4>1. CASE d # c /\ Network(d) /\ chan'[d] = chan[d] /\ chan[d].handle \in DOMAIN handles
          <5>1. Good(chan[d], handles[chan[d].handle], put[chan[d].handle])
            BY <2>7, <2>17, <3>1, <4>1 DEF GoodInv
          <5> QED
            BY <2>5, <2>6, <4>1, <5>1
        <4>2. CASE d = c /\ outcome = "done" /\ chan'[d] = n /\ chan'[d].handle = h
          BY <2>5, <2>6, <2>16, <4>2
        <4> QED
          BY <2>10, <3>1, <4>1, <4>2
      <3>2. ASSUME NEW g \in DOMAIN handles' \ bad',
                   \A d \in Channels : ~(Network(d)' /\ chan'[d].handle = g)
            PROVE  handles'[g].written = put'[g]
        <4>1. CASE g = h
          BY <2>1, <2>5, <2>6, <4>1
        <4>2. CASE g # h
          <5>1. g \in DOMAIN handles \ bad
            BY <2>5, <2>7, <3>2, <4>2
          <5>2. \A d \in Channels : ~(Network(d) /\ chan[d].handle = g)
            BY <2>11, <3>2
          <5> QED
            BY <2>5, <2>6, <2>17, <5>1, <5>2 DEF GoodInv
        <4> QED
          BY <4>1, <4>2
      <3> QED
        BY <3>1, <3>2 DEF GoodInv
    <2> QED
      BY <2>15, <2>17
  <1> QED
    BY <1>3, <1>4

----------------------------------------------------------------------------
(* The invariants and the theorems.                                        *)

LEMMA InitHolds == Init => OwnInv /\ GoodInv
PROOF
  <1> SUFFICES ASSUME Init
               PROVE  OwnInv /\ GoodInv
    OBVIOUS
  <1>1. /\ handles = << >> /\ put = << >> /\ bad = {} /\ immediate = FALSE
        /\ chan = [c \in Channels |-> Idle]
    BY DEF Init
  <1>2. /\ handles \in Seq(Streams) /\ put \in Seq(Seq(Nat)) /\ Len(put) = Len(handles)
        /\ DOMAIN handles = {}
    BY <1>1
  <1>3. \A c \in Channels : ~Network(c)
    BY <1>1, IdleIs DEF Network, Fields
  <1>4. chan \in [Channels -> Block]
    BY <1>1, IdleIs
  <1>5. TypeOK
    BY <1>1, <1>2, <1>4, TypedBack
  <1>6. StreamsOwned
    BY <1>2, <1>3 DEF StreamsOwned
  <1> QED
    BY <1>2, <1>3, <1>5, <1>6 DEF OwnInv, GoodInv

\* A READ, and with it any BGET#.
LEMMA BgetKeeps ==
  ASSUME OwnInv, NEW c \in Channels, Bget(c)
  PROVE  OwnInv' /\ (GoodInv /\ MayRead(c) => GoodInv')
BY BgetBufferedKeeps, BgetAtExtKeeps, BgetRefillKeeps, BgetEmptyKeeps, BgetFailsKeeps DEF Bget

LEMMA BputKeeps ==
  ASSUME OwnInv, NEW c \in Channels, Bput(c)
  PROVE  OwnInv' /\ (GoodInv /\ MayWrite(c) => GoodInv')
BY BputBufferedKeeps, BputImmediateKeeps DEF Bput

LEMMA RestKeeps ==
  ASSUME OwnInv, NEW c \in Channels, Rest(c)
  PROVE  OwnInv' /\ (GoodInv => GoodInv')
BY OpenKeeps, CloseKeeps, TranslateKeeps DEF Rest

LEMMA SetImmediateKeeps ==
  ASSUME OwnInv, NEW on \in BOOLEAN, SetImmediate(on)
  PROVE  OwnInv' /\ (GoodInv => GoodInv')
BY StillKeeps DEF SetImmediate

LEMMA StutterKeeps ==
  ASSUME OwnInv, UNCHANGED vars
  PROVE  OwnInv' /\ (GoodInv => GoodInv')
PROOF
  <1>1. immediate' \in BOOLEAN
    BY DEF OwnInv, TypeOK, vars
  <1> QED
    BY <1>1, StillKeeps DEF vars

LEMMA AnyStep == OwnInv /\ [Next]_vars => OwnInv'
PROOF
  <1> SUFFICES ASSUME OwnInv, [Next]_vars
               PROVE  OwnInv'
    OBVIOUS
  <1>1. ASSUME NEW c \in Channels, Bget(c)
        PROVE  OwnInv'
    BY <1>1, BgetKeeps
  <1>2. ASSUME NEW c \in Channels, Bput(c)
        PROVE  OwnInv'
    BY <1>2, BputKeeps
  <1>3. ASSUME NEW c \in Channels, Rest(c)
        PROVE  OwnInv'
    BY <1>3, RestKeeps
  <1>4. ASSUME NEW c \in Channels, NEW p \in Positions, SetPtr(c, p)
        PROVE  OwnInv'
    BY <1>4, SetPtrKeeps
  <1>5. ASSUME NEW c \in Channels, NEW flush \in Outcomes, NEW close \in Outcomes,
               Update(c, flush, close)
        PROVE  OwnInv'
    BY <1>5, UpdateKeeps
  <1>6. ASSUME NEW on \in BOOLEAN, SetImmediate(on)
        PROVE  OwnInv'
    BY <1>6, SetImmediateKeeps
  <1>7. ASSUME UNCHANGED vars
        PROVE  OwnInv'
    BY <1>7, StutterKeeps
  <1> QED
    BY <1>1, <1>2, <1>3, <1>4, <1>5, <1>6, <1>7 DEF Next

\* A careful step is a step.
LEMMA CarefulIsNext == [CarefulNext]_vars => [Next]_vars
BY DEF CarefulNext, Next

LEMMA CarefulStep == OwnInv /\ GoodInv /\ [CarefulNext]_vars => GoodInv'
PROOF
  <1> SUFFICES ASSUME OwnInv, GoodInv, [CarefulNext]_vars
               PROVE  GoodInv'
    OBVIOUS
  <1>1. ASSUME NEW c \in Channels, Bget(c), MayRead(c)
        PROVE  GoodInv'
    BY <1>1, BgetKeeps
  <1>2. ASSUME NEW c \in Channels, Bput(c), MayWrite(c)
        PROVE  GoodInv'
    BY <1>2, BputKeeps
  <1>3. ASSUME NEW c \in Channels, Rest(c)
        PROVE  GoodInv'
    BY <1>3, RestKeeps
  <1>4. ASSUME NEW c \in Channels, NEW p \in Positions, SetPtr(c, p), MaySeek(c)
        PROVE  GoodInv'
    BY <1>4, SetPtrKeeps
  <1>5. ASSUME NEW on \in BOOLEAN, SetImmediate(on)
        PROVE  GoodInv'
    BY <1>5, SetImmediateKeeps
  <1>6. ASSUME UNCHANGED vars
        PROVE  GoodInv'
    BY <1>6, StutterKeeps
  <1> QED
    BY <1>1, <1>2, <1>3, <1>4, <1>5, <1>6 DEF CarefulNext

\* Blocks, streams and the record of what was put keep their types, under any
\* program.
THEOREM NetTypeCorrect == Spec => []TypeOK
PROOF
  <1>1. Init => OwnInv
    BY InitHolds
  <1>2. OwnInv => TypeOK
    BY DEF OwnInv
  <1> QED
    BY <1>1, <1>2, AnyStep, PTL DEF Spec

\* The streams open on the device are the open network channels', one each,
\* but for those that lost a request or an answer, whatever the program does.
THEOREM StreamsAreOwned == Spec => []StreamsOwned
PROOF
  <1>1. Init => OwnInv
    BY InitHolds
  <1>2. OwnInv => StreamsOwned
    BY DEF OwnInv
  <1> QED
    BY <1>1, <1>2, AnyStep, PTL DEF Spec

\* The invariants of a program that allows for the shared page.
LEMMA CarefulInvariant == CarefulSpec => [](OwnInv /\ GoodInv)
PROOF
  <1>1. OwnInv /\ GoodInv /\ [CarefulNext]_vars => OwnInv' /\ GoodInv'
    BY AnyStep, CarefulStep, CarefulIsNext
  <1> QED
    BY <1>1, InitHolds, PTL DEF CarefulSpec

LEMMA CarefulIsSpec == CarefulSpec => Spec
BY CarefulIsNext, PTL DEF CarefulSpec, Spec

\* A program that allows for the shared page: what it put is on the device, but
\* for what waits in the page, and after a close nothing waits.
THEOREM AllPutArrives == CarefulSpec => []WritesArrive
PROOF
  <1>1. ASSUME OwnInv, GoodInv
        PROVE  WritesArrive
    <2>1. ASSUME NEW h \in DOMAIN handles \ bad, NEW c \in Channels, Network(c),
                 chan[c].handle = h
          PROVE  handles[h].written
                   \o [i \in 1 .. chan[c].wcount |-> chan[c].page[i - 1]] = put[h]
      BY <1>1, <2>1 DEF GoodInv, Good, Waiting
    <2>2. ASSUME NEW h \in DOMAIN handles \ bad,
                 {c \in Channels : Network(c) /\ chan[c].handle = h} = {}
          PROVE  handles[h].written = put[h]
      BY <1>1, <2>2 DEF GoodInv
    <2> QED
      BY <2>1, <2>2 DEF WritesArrive
  <1> QED
    BY <1>1, CarefulInvariant, PTL

\* The byte of a channel's window at PTR.
LEMMA WindowByte ==
  ASSUME NEW b \in Block, NEW s \in Streams, Fresh(b, s), NEW at \in Nat,
         b.start <= at, at < b.start + b.cnt
  PROVE  at < Len(SourceOf(s)) /\ ByteIn(b, at) = SourceOf(s)[at + 1]
PROOF
  <1> DEFINE i == at - b.start
  <1>1. b.start \in Nat /\ b.cnt \in Nat /\ b.cnt <= Page - 1 /\ Page \in Nat \ {0}
    BY BlockIs, PageIs
  <1>2. i \in 0 .. b.cnt - 1 /\ i \in Nat /\ i < Page /\ b.start + i = at
    BY <1>1
  <1> HIDE DEF i
  <1>3. b.start + i < Len(SourceOf(s)) /\ b.page[i] = SourceOf(s)[b.start + i + 1]
    BY <1>2 DEF Fresh
  <1>4. i % Page = i
    BY <1>1, <1>2, SmallMod
  <1>5. ByteIn(b, at) = b.page[i]
    BY <1>4 DEF ByteIn, i
  <1> QED
    BY <1>2, <1>3, <1>5

\* ReadsTheStream's action.
StreamRead ==
  \A c \in Channels :
    LET h == chan[c].handle
        at == chan[c].ptr
        True(block) == at < Len(Source(h)) /\ ByteIn(block, at) = Source(h)[at + 1]
    IN  Network(c) /\ h \notin bad /\ chan[c] # chan'[c] =>
          /\ BgetBuffered(c) => True(chan[c])
          /\ BgetRefill(c) => True(chan'[c])
          /\ (BgetAtExt(c) \/ BgetEmpty(c)) /\ handles[h].url # Echo
               => at >= Len(Source(h))

\* Every byte that a program gets which allows for the shared page is the
\* stream's at PTR, and the end is reported only where the stream has no more.
THEOREM ByteAtPtr == CarefulSpec => ReadsTheStream
PROOF
  <1> DEFINE True(c, b) ==
               /\ chan[c].ptr < Len(Source(chan[c].handle))
               /\ ByteIn(b, chan[c].ptr) = Source(chan[c].handle)[chan[c].ptr + 1]
             Step(c) ==
               /\ BgetBuffered(c) => True(c, chan[c])
               /\ BgetRefill(c) => True(c, chan'[c])
               /\ (BgetAtExt(c) \/ BgetEmpty(c)) /\ handles[chan[c].handle].url # Echo
                    => chan[c].ptr >= Len(Source(chan[c].handle))
  <1>1. ASSUME OwnInv, GoodInv, NEW c \in Channels, Network(c), chan[c].handle \notin bad
        PROVE  Step(c)
    <2> DEFINE b == chan[c]
               h == b.handle
               s == handles[h]
               r == Refilled(c)
    <2>1. TypeOK /\ h \in DOMAIN handles
      BY <1>1 DEF OwnInv
    <2>2. b \in Block /\ chan \in [Channels -> Block] /\ s \in Streams /\ put[h] \in Seq(Nat)
      BY <2>1, Typed
    <2>3. Source(h) = SourceOf(s)
      BY DEF Source, SourceOf
    <2>4. Window(b, s)
      BY <1>1, OwnGood DEF Good
    <2>5. b.ptr \in Nat /\ b.start \in Nat /\ b.cnt \in Nat /\ b.ext \in Nat
      BY <2>2, BlockIs
    <2>6. /\ Fresh(r, s) /\ r.start = b.ptr /\ r.cnt \in Nat
          /\ r.cnt = 0 => Len(SourceOf(s)) <= b.ptr
      BY <1>1, ReadBrings
    <2>7. Len(SourceOf(s)) \in Nat
      BY <2>2, SourceIs
    <2>8. ASSUME BgetBuffered(c)
          PROVE  True(c, b)
      <3>1. b.start <= b.ptr /\ b.ptr < b.start + b.cnt
        BY <2>5, <2>8 DEF BgetBuffered, InWindow
      <3>2. Fresh(b, s)
        BY <2>4, <2>5, <3>1 DEF Window
      <3> QED
        BY <2>2, <2>3, <2>5, <3>1, <3>2, WindowByte
    <2>9. ASSUME BgetRefill(c)
          PROVE  True(c, chan'[c])
      <3>1. chan'[c] = [r EXCEPT !.ptr = r.ptr + 1] /\ r.cnt > 0
        BY <2>2, <2>9 DEF BgetRefill
      <3>2. r \in Block
        BY <2>1, RefilledIs
      <3> HIDE DEF r
      <3>3. chan'[c].page = r.page /\ chan'[c].start = r.start
        BY <3>1, <3>2 DEF Block
      <3>4. ByteIn(chan'[c], b.ptr) = ByteIn(r, b.ptr)
        BY <3>3 DEF ByteIn
      <3>5. r.start <= b.ptr /\ b.ptr < r.start + r.cnt
        BY <2>5, <2>6, <3>1
      <3>6. b.ptr < Len(SourceOf(s)) /\ ByteIn(r, b.ptr) = SourceOf(s)[b.ptr + 1]
        BY <2>2, <2>5, <2>6, <3>2, <3>5, WindowByte
      <3> QED
        BY <2>3, <3>4, <3>6
    <2>10. ASSUME BgetAtExt(c), s.url # Echo
           PROVE  b.ptr >= Len(Source(h))
      <3>1. b.ptr >= b.ext /\ Len(SourceOf(s)) <= b.ext
        BY <2>4, <2>10 DEF BgetAtExt, Window, Grows
      <3> QED
        BY <2>3, <2>5, <2>7, <3>1
    <2>11. ASSUME BgetEmpty(c)
           PROVE  b.ptr >= Len(Source(h))
      <3>1. r.cnt = 0
        BY <2>11 DEF BgetEmpty
      <3> QED
        BY <2>3, <2>5, <2>6, <2>7, <3>1
    <2> QED
      BY <2>8, <2>9, <2>10, <2>11
  <1>2. OwnInv /\ GoodInv => [StreamRead]_vars
    BY <1>1 DEF StreamRead
  <1> QED
    BY <1>2, CarefulInvariant, PTL DEF ReadsTheStream, StreamRead
=============================================================================
