----------------------------- MODULE NetChannel -----------------------------
(***************************************************************************)
(* Files whose name is a URL: the network half of OSFIND, OSBGET, OSBPUT   *)
(* and OSARGS (src/src/kernel/vectors/*.s, src/src/net/fujibus_network.s)  *)
(* with the network device that the tests put at the other end             *)
(* (legacy_openbas_network_responder, fuji_device.py).                     *)
(*                                                                         *)
(* A byte is a number; a stream's contents are a constant of its URL.  Of  *)
(* the methods only the URL matters here: OPENIN's read-only mark is set   *)
(* and never looked at by network_bput.  Not modelled: streaming channels  *)
(* of FNSTREAM, request bodies, and PTR# beyond EXT, which runs the disk's *)
(* BPUT on a network channel's block.                                      *)
(***************************************************************************)
EXTENDS Integers, Sequences, FiniteSetsExt

CONSTANTS
  Channels,     \* 1..n: n = 5 in the code; the highest free one is taken
  Urls, Contents, \* what a READ of each URL finds
  Echo,         \* the URL that reads back what was written
  Translations, \* what the selectors of *FJSON may make of a stream
  Bytes,        \* the bytes written
  Positions,    \* where PTR# goes
  Page,         \* bytes of a channel's page: 256
  Unknown,      \* EXT of a stream of unknown length: &FFFFFF
  MaxHandles, MaxPut  \* bounds: opens, and bytes put, in a behaviour

ASSUME NetAssumption ==
  /\ Page \in Nat \ {0, 1} /\ Unknown \in Nat /\ Channels \subseteq Nat \ {0}
  /\ Bytes \subseteq Nat /\ Positions \subseteq Nat /\ Contents \in [Urls -> Seq(Nat)]
  /\ Translations \subseteq Seq(Nat)
  /\ \A u \in Urls : Len(Contents[u]) < Unknown
  /\ \A t \in Translations : Len(t) < Unknown
  /\ MaxHandles \in Nat /\ MaxPut \in Nat /\ MaxPut < Unknown

VARIABLES
  handles,    \* the device's streams, in the order of their handles
  chan,       \* the channel blocks and their pages
  immediate,  \* fuji_network_flush_mode
  put,        \* what the user wrote to each handle
  bad         \* handles for which a request or its answer was lost

vars == <<handles, chan, immediate, put, bad>>

NoTranslation == [set |-> FALSE, data |-> << >>]

Stream(url) == [url |-> url, open |-> TRUE, written |-> << >>,
                translated |-> NoTranslation]

\* A block that is not in use, and a page of zeros.
Idle == [open |-> FALSE, handle |-> 0, ptr |-> 0, ext |-> 0, start |-> 0,
         cnt |-> 0, wcount |-> 0, wpos |-> 0, page |-> [i \in 0 .. Page - 1 |-> 0]]

Init ==
  /\ handles = << >> /\ put = << >> /\ bad = {}
  /\ chan = [c \in Channels |-> Idle] /\ immediate = FALSE

----------------------------------------------------------------------------
(* The device.                                                             *)

Known(h) == h \in DOMAIN handles /\ handles[h].open

\* _read_data's source.
Source(h) ==
  IF handles[h].translated.set THEN handles[h].translated.data
  ELSE IF handles[h].url = Echo THEN handles[h].written
  ELSE Contents[handles[h].url]

\* READ: an unknown handle reads as empty and ended.
Chunk(h, offset, max) ==
  IF Known(h)
  THEN SubSeq(Source(h), offset + 1, Min({offset + max, Len(Source(h))}))
  ELSE << >>

Ended(h, offset, max) ==
  Known(h) => offset + Len(Chunk(h, offset, max)) >= Len(Source(h))

\* WRITE: a gap is filled with zeros.
Spliced(old, offset, bytes) ==
  LET end == offset + Len(bytes) IN
  [i \in 1 .. (IF end > Len(old) THEN end ELSE Len(old)) |->
     IF offset < i /\ i <= end THEN bytes[i - offset]
     ELSE IF i <= Len(old) THEN old[i] ELSE 0]

\* The ways a request may go: carried out, not carried out, or carried out and
\* its answer lost.  A handle the device does not know is a failure too.
Outcomes == {"done", "refused", "lost"}

Reported(h, outcome) == outcome # "done" \/ ~Known(h)

Marked(h, outcome) == IF Reported(h, outcome) THEN bad \cup {h} ELSE bad

----------------------------------------------------------------------------
(* Opening and closing.                                                    *)

IsFree(c) == ~chan[c].open

\* Faulty variant: whether the channel is free not asked.
Allocates_in_use(c) == \A d \in Channels : d > c => ~IsFree(d)

\* network_allocate_channel looks from the highest channel down.
Allocates(c) == IsFree(c) /\ \A d \in Channels : d > c => ~IsFree(d)

Opened(h) == [Idle EXCEPT !.open = TRUE, !.handle = h, !.ext = Unknown]

\* The page keeps what it had; it holds nothing that counts.
Open(c, url, outcome) ==
  LET h == Len(handles) + 1 IN
  /\ h <= MaxHandles /\ Allocates(c)
  /\ handles' = IF outcome = "refused" THEN handles ELSE Append(handles, Stream(url))
  /\ put' = IF outcome = "refused" THEN put ELSE Append(put, << >>)
  /\ bad' = IF outcome = "lost" THEN bad \cup {h} ELSE bad
  /\ chan' = IF outcome = "done" THEN [chan EXCEPT ![c] = Opened(h)] ELSE chan
  /\ UNCHANGED immediate

\* Faulty variant: the write position of the first byte taken for the last.
Flushed_at_end(c) ==
  LET h == chan[c].handle
      bytes == [i \in 1 .. chan[c].wcount |-> chan[c].page[i - 1]]
  IN  [handles EXCEPT ![h].written = Spliced(@, chan[c].wpos, bytes)]

\* network_flush_write: the page's first wcount bytes, which end at wpos.
Flushed(c) ==
  LET h == chan[c].handle
      bytes == [i \in 1 .. chan[c].wcount |-> chan[c].page[i - 1]]
  IN  [handles EXCEPT ![h].written = Spliced(@, chan[c].wpos - chan[c].wcount, bytes)]

Reaches(h, outcome) == Known(h) /\ outcome # "refused"

\* What a flush leaves on the device; with nothing pending nothing is sent.
AfterFlush(c, outcome) ==
  IF Reaches(chan[c].handle, outcome) /\ chan[c].wcount > 0
  THEN Flushed(c) ELSE handles

\* What was written stays on record for the properties.
Popped(stream) ==
  [Stream(stream.url) EXCEPT !.open = FALSE, !.written = stream.written]

\* Closing goes on when the flush has failed.  When the close fails the
\* channel stays open.
CloseAs(c, flush, close, after) ==
  LET h == chan[c].handle
      streams == AfterFlush(c, flush)
  IN
  /\ chan[c].open /\ h # 0
  /\ chan[c].wcount = 0 => flush = "done"
  /\ handles' = IF Reaches(h, close) THEN [streams EXCEPT ![h] = Popped(@)]
                ELSE streams
  /\ bad' = IF flush # "done" \/ close # "done" THEN bad \cup {h}
            ELSE IF chan[c].wcount > 0 THEN Marked(h, flush) ELSE bad
  /\ chan' = IF close = "done" THEN after
             ELSE [chan EXCEPT ![c].wcount = 0]
  /\ UNCHANGED <<immediate, put>>

\* The block's other fields stay, and the next open clears them.
Close(c, flush, close) ==
  CloseAs(c, flush, close, [chan EXCEPT ![c] = Idle])

\* OSARGS &FF, "file to media": channel_buffer_to_disk_yhandle closes the
\* channel and then sets its open bit again.
Update(c, flush, close) ==
  CloseAs(c, flush, close, [chan EXCEPT ![c] = [Idle EXCEPT !.open = TRUE]])

----------------------------------------------------------------------------
(* BGET#, BPUT#, PTR#, *FJSON and *OPT 6.                                  *)

Network(c) == chan[c].open /\ chan[c].handle # 0

\* Faulty variant: only the low byte of the distance looked at.
InWindow_low_byte(c) == (chan[c].ptr - chan[c].start) % Page < chan[c].cnt

\* All 24 bits of PTR - start count.
InWindow(c) ==
  chan[c].start <= chan[c].ptr /\ chan[c].ptr - chan[c].start < chan[c].cnt

BgetBuffered(c) ==
  /\ Network(c) /\ InWindow(c)
  /\ chan' = [chan EXCEPT ![c].ptr = @ + 1]
  /\ UNCHANGED <<handles, immediate, put, bad>>

BgetAtExt(c) ==
  /\ Network(c) /\ ~InWindow(c) /\ chan[c].ptr >= chan[c].ext
  /\ chan' = [chan EXCEPT ![c].ptr = chan[c].ext]
  /\ UNCHANGED <<handles, immediate, put, bad>>

Reads(c) == Network(c) /\ ~InWindow(c) /\ chan[c].ptr < chan[c].ext

\* The page is filled from its start; a page is asked for less one byte, since
\* the count is a byte.
Filled(page, chunk) ==
  [i \in DOMAIN page |-> IF i < Len(chunk) THEN chunk[i + 1] ELSE page[i]]

NewExt(c, chunk, ended) ==
  IF ended THEN chan[c].ptr + Len(chunk) ELSE chan[c].ext

\* The channel after a READ, before the byte is taken.
Refilled(c) ==
  LET h == chan[c].handle
      chunk == Chunk(h, chan[c].ptr, Page - 1)
  IN  [chan[c] EXCEPT !.page = Filled(@, chunk), !.start = chan[c].ptr,
                      !.cnt = Len(chunk),
                      !.ext = NewExt(c, chunk, Ended(h, chan[c].ptr, Page - 1))]

BgetRefill(c) ==
  /\ Reads(c) /\ Refilled(c).cnt > 0
  /\ chan' = [chan EXCEPT ![c] = [Refilled(c) EXCEPT !.ptr = @ + 1]]
  /\ UNCHANGED <<handles, immediate, put, bad>>

\* No bytes is the end of the file.
BgetEmpty(c) ==
  /\ Reads(c) /\ Refilled(c).cnt = 0
  /\ chan' = [chan EXCEPT ![c] = [Refilled(c) EXCEPT !.ptr = Refilled(c).ext]]
  /\ UNCHANGED <<handles, immediate, put, bad>>

\* So is a READ that fails, and one that is not ready time after time.
BgetFails(c) ==
  /\ Reads(c)
  /\ chan' = [chan EXCEPT ![c].ptr = chan[c].ext]
  /\ bad' = bad \cup {chan[c].handle}
  /\ UNCHANGED <<handles, immediate, put>>

\* The byte goes into the page that BGET# reads from; the count is a byte.
Pending(c, b) ==
  [chan[c] EXCEPT !.page[chan[c].wcount] = b,
                  !.wcount = (@ + 1) % Page, !.wpos = @ + 1]

\* Kept in the page.  A count that has come round to 0 asks for a flush, which
\* finds nothing to write.
BputBuffered(c, b) ==
  /\ Network(c) /\ Len(put[chan[c].handle]) < MaxPut
  /\ ~immediate \/ Pending(c, b).wcount = 0
  /\ chan' = [chan EXCEPT ![c] = Pending(c, b)]
  /\ put' = [put EXCEPT ![chan[c].handle] = Append(@, b)]
  /\ UNCHANGED <<handles, immediate, bad>>

\* Written at once, with whatever was pending; the count is reset either way.
BputImmediate(c, b, outcome) ==
  LET h == chan[c].handle
      now == Pending(c, b)
      bytes == [i \in 1 .. now.wcount |-> now.page[i - 1]]
  IN
  /\ Network(c) /\ Len(put[h]) < MaxPut
  /\ immediate /\ now.wcount # 0
  /\ handles' = IF Reaches(h, outcome)
                THEN [handles EXCEPT ![h].written =
                        Spliced(@, now.wpos - now.wcount, bytes)]
                ELSE handles
  /\ chan' = [chan EXCEPT ![c] = [now EXCEPT !.wcount = 0]]
  /\ put' = [put EXCEPT ![h] = Append(@, b)]
  /\ bad' = Marked(h, outcome) /\ UNCHANGED immediate

SetPtr(c, p) ==
  /\ Network(c) /\ p <= chan[c].ext
  /\ chan' = [chan EXCEPT ![c].ptr = p]
  /\ UNCHANGED <<handles, immediate, put, bad>>

\* The size becomes EXT and reading starts again.
Rewound(c, size) == [chan[c] EXCEPT !.ext = size, !.ptr = 0, !.cnt = 0]

Translate(c, data, outcome) ==
  LET h == chan[c].handle IN
  /\ Network(c)
  /\ handles' = IF Reaches(h, outcome)
                THEN [handles EXCEPT ![h].translated = [set |-> TRUE, data |-> data]]
                ELSE handles
  /\ chan' = IF Reported(h, outcome) THEN chan
             ELSE [chan EXCEPT ![c] = Rewound(c, Len(data))]
  /\ bad' = Marked(h, outcome) /\ UNCHANGED <<immediate, put>>

SetImmediate(on) ==
  immediate' = on /\ UNCHANGED <<handles, chan, put, bad>>

----------------------------------------------------------------------------
Bget(c) == BgetBuffered(c) \/ BgetAtExt(c) \/ BgetRefill(c) \/ BgetEmpty(c)
             \/ BgetFails(c)

Bput(c) == \E b \in Bytes :
  BputBuffered(c, b) \/ \E outcome \in Outcomes : BputImmediate(c, b, outcome)

Rest(c) ==
  \/ \E url \in Urls, outcome \in Outcomes : Open(c, url, outcome)
  \/ \E flush, close \in Outcomes : Close(c, flush, close)
  \/ \E data \in Translations, outcome \in Outcomes : Translate(c, data, outcome)

Next ==
  \/ \E c \in Channels :
       \/ Bget(c) \/ Bput(c) \/ Rest(c)
       \/ \E p \in Positions : SetPtr(c, p)
       \/ \E flush, close \in Outcomes : Update(c, flush, close)
  \/ \E on \in BOOLEAN : SetImmediate(on)

Spec == Init /\ [][Next]_vars

\* What the shared page allows: no read from the device while bytes are
\* pending, no write while the window has bytes still to be read or reread,
\* and no 256 bytes without a flush.
HasUnread(c) == chan[c].ptr < chan[c].start + chan[c].cnt

MayRead(c) == chan[c].wcount = 0
MayWrite(c) == ~HasUnread(c) /\ chan[c].wcount + 1 < Page
MaySeek(c) == chan[c].wpos = 0

CarefulNext ==
  \/ \E c \in Channels :
       \/ Bget(c) /\ MayRead(c)
       \/ Bput(c) /\ MayWrite(c)
       \/ Rest(c)
       \/ \E p \in Positions : SetPtr(c, p) /\ MaySeek(c)
  \/ \E on \in BOOLEAN : SetImmediate(on)

CarefulSpec == Init /\ [][CarefulNext]_vars

----------------------------------------------------------------------------
(* Properties.                                                             *)

Block ==
  [open : BOOLEAN, handle : Nat, ptr : Nat, ext : Nat, start : Nat,
   cnt : 0 .. Page - 1, wcount : 0 .. Page - 1, wpos : Nat,
   page : [0 .. Page - 1 -> Nat]]

TypeOK ==
  /\ handles \in Seq([url : Urls, open : BOOLEAN, written : Seq(Nat),
                      translated : [set : BOOLEAN, data : Seq(Nat)]])
  /\ chan \in [Channels -> Block] /\ immediate \in BOOLEAN
  /\ put \in Seq(Seq(Nat)) /\ Len(put) = Len(handles)
  /\ bad \subseteq DOMAIN handles

\* The device's streams are the open channels', one each: a stream nobody can
\* close is one that lost an answer.
StreamsOwned ==
  /\ \A c, d \in Channels :
       Network(c) /\ Network(d) /\ chan[c].handle = chan[d].handle => c = d
  /\ \A h \in DOMAIN handles \ bad :
       handles[h].open = \E c \in Channels : Network(c) /\ chan[c].handle = h

\* What was put is on the device, but for what waits in the page; after a
\* close nothing waits.
WritesArrive ==
  \A h \in DOMAIN handles \ bad :
    LET waiting == {c \in Channels : Network(c) /\ chan[c].handle = h} IN
    IF waiting = {} THEN handles[h].written = put[h]
    ELSE \A c \in waiting :
           handles[h].written
             \o [i \in 1 .. chan[c].wcount |-> chan[c].page[i - 1]] = put[h]

\* The byte at p in a channel's page.
ByteIn(block, p) == block.page[(p - block.start) % Page]

\* Every byte BGET# returns is the stream's at PTR, however PTR# has moved and
\* whatever the stream was translated into, and the end comes only where the
\* stream has no more.  An echo may grow after its end was reported.
ReadsTheStream ==
  [][\A c \in Channels :
       LET h == chan[c].handle
           at == chan[c].ptr
           True(block) == at < Len(Source(h)) /\ ByteIn(block, at) = Source(h)[at + 1]
       IN  Network(c) /\ h \notin bad /\ chan[c] # chan'[c] =>
             /\ BgetBuffered(c) => True(chan[c])
             /\ BgetRefill(c) => True(chan'[c])
             /\ (BgetAtExt(c) \/ BgetEmpty(c)) /\ handles[h].url # Echo
                  => at >= Len(Source(h))]_vars
=============================================================================
