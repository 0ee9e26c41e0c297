------------------------ MODULE SlotListing_proofs ------------------------
(***************************************************************************)
(* *FSLOTS over the serial link, for every slot catalogue, page size and   *)
(* record size: what it prints is complete and free of repetitions unless  *)
(* the link failed it.                                                     *)
(***************************************************************************)
EXTENDS SlotListing, WellFoundedInduction, TLAPS

\* The longest record fits into a page behind the bits of any range: 128
\* characters of URI and 9 of <invalid> into 220 bytes in the code.
RecordsFit ==
  \A req \in Request :
    PresenceLen(req) + Overhead + (IF MaxUri > 9 THEN MaxUri ELSE 9) <= MaxPayload

\* The pages a device can make: the records of the request's range from the
\* cursor on, up to the index at which the next page starts.  The size of a
\* page decides where that is and does not matter otherwise, but that the next
\* page lies behind this one only where a record fits.
Pages ==
  {ans \in [req : Request, more : BOOLEAN, next : Index, entries : SUBSET Index] :
     /\ ans.entries = {i \in Candidates(ans.req) : ans.more => i < ans.next}
     /\ RecordsFit /\ ans.more => ans.next > ans.req.cursor}

Chunk == [part : {"head", "tail"}, ans : Pages]

\* Every answer on the link is such a page.
Answers ==
  /\ toDevice \in Seq(Request)
  /\ toRom \in Seq(Chunk)
  /\ reply \in Seq(Chunk)
  /\ rom = "frame" => head \in Pages

\* While nothing went wrong, a command in progress has printed the slots below
\* its cursor, and one that ended has printed them all; none fails.
Progress ==
  /\ client = "listing" /\ ~trouble => printed = {i \in InRange(request) : i < request.cursor}
  /\ client = "done" /\ ~trouble => printed = InRange(request)
  /\ RecordsFit /\ client = "failed" => trouble

ListInv ==
  /\ request \in Request
  /\ \E populated \in SUBSET Index : slots \in [populated -> Slot]
  /\ Answers
  /\ Progress

----------------------------------------------------------------------------
(* The device's page.                                                      *)

\* A set of numbers that is not empty has a least one.
LEMMA LeastIs ==
  ASSUME NEW S, S \subseteq Nat, S # {}
  PROVE  Least(S) \in S /\ \A j \in S : Least(S) <= j
<1> DEFINE below == {p \in Nat \X Nat : p[1] < p[2]}
<1>1. IsWellFoundedOn(below, Nat)
  BY NatLessThanWellFounded DEF OpToRel
<1>2. \A x, y \in Nat : x < y => <<x, y>> \in below
  OBVIOUS
<1> HIDE DEF below
<1>3. PICK x \in S : \A y \in S : ~(<<y, x>> \in below)
  BY <1>1, WFMin
<1>4. \A y \in S : ~(y < x)
  BY <1>2, <1>3
<1>5. \A y \in S : x <= y
  BY <1>4
<1>6. QED
  BY <1>5 DEF Least

\* Slots in a request's range are slots, and their indices are numbers.
LEMMA RangeNat ==
  ASSUME DOMAIN slots \subseteq Index, NEW req
  PROVE  InRange(req) \subseteq Index /\ Candidates(req) \subseteq InRange(req) /\ Index \subseteq Nat
BY SlotAssumption DEF InRange, Candidates, Index

\* The sum over one index.
LEMMA SingleSum ==
  ASSUME NEW i
  PROVE  MapThenSumSet(RecordLen, {i}) = RecordLen(i) + 0
<1> DEFINE Body(g) == [s \in SUBSET {i} |->
                         IF s = {} THEN 0
                         ELSE LET x == CHOOSE x \in s : TRUE
                              IN  RecordLen(x) + g[s \ {x}]]
           iter == CHOOSE g : g = Body(g)
           sum == [s \in SUBSET {i} |-> IF s = {} THEN 0 ELSE RecordLen(i) + 0]
<1>1. MapThenSumSet(RecordLen, {i}) = iter[{i}]
  BY DEF MapThenSumSet, MapThenFoldSet
<1>2. sum = Body(sum)
  <2>1. ASSUME NEW s \in SUBSET {i}, s # {}
        PROVE  s = {i} /\ (CHOOSE x \in s : TRUE) = i /\ s \ {i} = {}
    BY <2>1
  <2>2. \A s \in SUBSET {i} : s # {} => sum[s \ {i}] = 0
    BY <2>1
  <2>3. QED
    BY <2>1, <2>2
<1>3. iter = Body(iter)
  BY <1>2
<1>4. iter[{}] = 0
  BY <1>3
<1>5. (CHOOSE x \in {i} : TRUE) = i /\ {i} \ {i} = {}
  OBVIOUS
<1>6. iter[{i}] = RecordLen(i) + iter[{}]
  BY <1>3, <1>5
<1>7. QED
  BY <1>1, <1>4, <1>6

\* Where a record fits, the slot at the cursor is never left out.
LEMMA FirstFits ==
  ASSUME \E populated \in SUBSET Index : slots \in [populated -> Slot],
         RecordsFit, NEW req \in Request, NEW i \in Overflow(req)
  PROVE  i > req.cursor
<1>1. DOMAIN slots \subseteq Index /\ \A j \in DOMAIN slots : slots[j] \in Slot
  OBVIOUS
<1>2. /\ i \in Candidates(req) /\ i \in DOMAIN slots /\ i \in Nat /\ req.cursor \in Nat
      /\ req.cursor <= i /\ Candidates(req) \subseteq Nat
  BY <1>1, RangeNat DEF Overflow, Candidates, InRange, Request, Index
<1>3. SUFFICES ASSUME i = req.cursor
               PROVE  FALSE
  BY <1>2
<1>4. {j \in Candidates(req) : j <= i} = {i}
  BY <1>2, <1>3 DEF Candidates
<1>5. PresenceLen(req) + (RecordLen(i) + 0) > MaxPayload
  BY <1>4, SingleSum DEF Overflow, Overflows
<1>6. /\ RecordLen(i) \in Nat
      /\ RecordLen(i) <= Overhead + (IF MaxUri > 9 THEN MaxUri ELSE 9)
  <2>1. slots[i].valid = FALSE \/ (slots[i].valid = TRUE /\ slots[i].len \in Nat)
    BY <1>1, <1>2, SlotAssumption DEF Slot
  <2>2. MaxUri \in Nat /\ Overhead \in Nat
    BY SlotAssumption
  <2>3. QED
    BY <2>1, <2>2 DEF RecordLen
<1>7. PresenceLen(req) \in Int
  BY SlotAssumption DEF PresenceLen, Request, Index
<1>8. PresenceLen(req) + Overhead + (IF MaxUri > 9 THEN MaxUri ELSE 9) <= MaxPayload
  BY DEF RecordsFit
<1>9. MaxUri \in Nat /\ Overhead \in Nat /\ MaxPayload \in Nat
  BY SlotAssumption
<1>10. QED
  BY <1>5, <1>6, <1>7, <1>8, <1>9

\* build_slot_catalog_response makes a page.
LEMMA AnswerIsPage ==
  ASSUME \E populated \in SUBSET Index : slots \in [populated -> Slot], NEW req \in Request
  PROVE  RangeAnswer(req) \in Pages
<1> DEFINE over == Overflow(req)
           next == IF over # {} THEN Least(over) ELSE 0
           entries == {i \in Candidates(req) : over # {} => i < Least(over)}
<1>0. DOMAIN slots \subseteq Index
  OBVIOUS
<1>1. over \subseteq Index /\ Index \subseteq Nat /\ 0 \in Index
  BY <1>0, RangeNat, SlotAssumption DEF Overflow, Index
<1>2. over # {} => Least(over) \in Index
  BY <1>1, LeastIs
<1>3. next \in Index /\ (over # {}) \in BOOLEAN
  BY <1>1, <1>2
<1>4. entries \in SUBSET Index
  BY <1>0, RangeNat
<1>11. RecordsFit /\ over # {} => next > req.cursor
  BY <1>1, LeastIs, FirstFits
<1>5. entries = {i \in Candidates(req) : over # {} => i < next}
  OBVIOUS
<1>6. RangeAnswer(req) = [req |-> req, more |-> over # {}, next |-> next, entries |-> entries]
  BY DEF RangeAnswer
<1> DEFINE more == over # {}
<1>7. more \in BOOLEAN /\ entries = {i \in Candidates(req) : more => i < next}
  BY <1>3, <1>5
<1>8. RangeAnswer(req) = [req |-> req, more |-> more, next |-> next, entries |-> entries]
  BY <1>6
<1> HIDE DEF over, next, entries, more
<1>9. RangeAnswer(req) \in [req : Request, more : BOOLEAN, next : Index, entries : SUBSET Index]
  BY <1>3, <1>4, <1>7, <1>8
<1>10. /\ RangeAnswer(req).req = req /\ RangeAnswer(req).more = more
       /\ RangeAnswer(req).next = next /\ RangeAnswer(req).entries = entries
  BY <1>8
<1>12. RecordsFit /\ more => next > req.cursor
  BY <1>11 DEF more
<1>13. QED
  BY <1>7, <1>9, <1>10, <1>12 DEF Pages

----------------------------------------------------------------------------
(* The steps of the link.  Pages depends on the slots only.                *)

LEMMA SameSlots ==
  ASSUME UNCHANGED slots
  PROVE  Pages' = Pages /\ Chunk' = Chunk
BY DEF Pages, Chunk, Candidates, InRange

\* A step that leaves the command alone keeps what was printed.
LEMMA CommandStays ==
  ASSUME ListInv, UNCHANGED ask, Answers'
  PROVE  ListInv'
BY DEF ListInv, Progress, ask, InRange

LEMMA ServeKeeps ==
  ASSUME ListInv, Serve(RangeAnswer(Head(toDevice))), UNCHANGED ask
  PROVE  ListInv'
<1> DEFINE page == RangeAnswer(Head(toDevice))
<1>1. /\ toDevice # << >> /\ toDevice' = Tail(toDevice)
      /\ reply' = << >> \/ reply' = Chunks(page)
      /\ UNCHANGED <<toRom, rom, head, slots>>
  BY DEF Serve, ask, romSide
<1>2. Head(toDevice) \in Request /\ toDevice' \in Seq(Request)
  BY <1>1 DEF ListInv, Answers
<1>3. page \in Pages
  BY <1>2, AnswerIsPage DEF ListInv
<1> HIDE DEF page
<1>4. reply' \in Seq(Chunk)
  <2>1. [part |-> "head", ans |-> page] \in Chunk /\ [part |-> "tail", ans |-> page] \in Chunk
    BY <1>3 DEF Chunk
  <2>2. Chunks(page) \in Seq(Chunk)
    BY <2>1 DEF Chunks
  <2>3. << >> \in Seq(Chunk)
    OBVIOUS
  <2> HIDE DEF page
  <2>4. QED
    BY <1>1, <2>2, <2>3
<1>5. Answers'
  BY <1>1, <1>2, <1>4, SameSlots DEF ListInv, Answers
<1>6. QED
  BY <1>5, CommandStays

LEMMA WriteKeeps ==
  ASSUME ListInv, WriteChunk, UNCHANGED ask
  PROVE  ListInv'
<1>1. /\ reply # << >> /\ reply' = Tail(reply)
      /\ toRom' \in {toRom, Append(toRom, Head(reply))}
      /\ UNCHANGED <<toDevice, rom, head, slots>>
  BY DEF WriteChunk, ask
<1>2. Head(reply) \in Chunk /\ reply' \in Seq(Chunk)
  BY <1>1 DEF ListInv, Answers
<1>3. toRom' \in Seq(Chunk)
  <2>1. toRom \in Seq(Chunk)
    BY DEF ListInv, Answers
  <2>2. Append(toRom, Head(reply)) \in Seq(Chunk)
    BY <1>2, <2>1
  <2>3. QED
    BY <1>1, <2>1, <2>2
<1>4. Answers'
  BY <1>1, <1>2, <1>3, SameSlots DEF ListInv, Answers
<1>5. QED
  BY <1>4, CommandStays

LEMMA CloseKeeps ==
  ASSUME ListInv, Close, UNCHANGED ask
  PROVE  ListInv'
<1>1. reply' = << >> /\ UNCHANGED <<toDevice, toRom, rom, head, slots>>
  BY DEF Close, romSide, ask
<1>2. Answers'
  BY <1>1, SameSlots DEF ListInv, Answers
<1>3. QED
  BY <1>2, CommandStays

LEMMA ReadHeadKeeps ==
  ASSUME ListInv, ReadHead, UNCHANGED ask
  PROVE  ListInv'
<1>1. /\ toRom # << >> /\ toRom' = Tail(toRom)
      /\ \/ head' = Head(toRom).ans
         \/ rom = "start" /\ rom' = rom
      /\ UNCHANGED <<toDevice, reply, slots>>
  BY DEF ReadHead, deviceSide, ask
<1>2. Head(toRom) \in Chunk /\ toRom' \in Seq(Chunk)
  BY <1>1 DEF ListInv, Answers
<1>3. rom' = "frame" => head' \in Pages
  BY <1>1, <1>2 DEF Chunk
<1>4. Answers'
  BY <1>1, <1>2, <1>3, SameSlots DEF ListInv, Answers
<1>5. QED
  BY <1>4, CommandStays

----------------------------------------------------------------------------
(* The steps of the command.                                               *)

LEMMA StartKeeps ==
  ASSUME ListInv, Start
  PROVE  ListInv'
<1>1. PICK lower \in Index : \E upper \in lower .. MaxIndex :
        request' = [lower |-> lower, upper |-> upper, cursor |-> lower, id |-> request.id + 1]
  BY DEF Start
<1>2. PICK upper \in lower .. MaxIndex :
        request' = [lower |-> lower, upper |-> upper, cursor |-> lower, id |-> request.id + 1]
  BY <1>1
<1>3. upper \in Index /\ request.id + 1 \in Nat
  BY SlotAssumption DEF Index, ListInv, Request
<1>4. request' \in Request /\ request'.cursor = request'.lower
  BY <1>2, <1>3 DEF Request
<1>5. /\ toDevice' = Append(toDevice, request') /\ rom' = "start"
      /\ client' = "listing" /\ printed' = {}
      /\ UNCHANGED <<toRom, reply, slots>>
  BY DEF Start, Send
<1>6. Answers'
  BY <1>4, <1>5, SameSlots DEF ListInv, Answers
<1>7. \A i \in InRange(request') : ~(i < request'.cursor)
  BY <1>4, RangeNat, SlotAssumption DEF ListInv, InRange, Index, Request
<1>8. printed' = {i \in InRange(request)' : i < request'.cursor}
  BY <1>5, <1>7 DEF InRange
<1>9. QED
  BY <1>4, <1>5, <1>6, <1>8 DEF ListInv, Progress

\* A page of the command's own, read while nothing is wrong, has none of the
\* slots printed before it, and with it printed is what lies below its end.
LEMMA OwnPage ==
  ASSUME ListInv, client = "listing", ~trouble, head \in Pages, head.req = request
  PROVE  /\ head.entries \cap printed = {}
         /\ ~head.more => printed \cup head.entries = InRange(request)
         /\ head.more /\ Advances(head) =>
              printed \cup head.entries = {i \in InRange(request) : i < head.next}
<1>1. printed = {i \in InRange(request) : i < request.cursor}
  BY DEF ListInv, Progress
<1>2. head.entries = {i \in InRange(request) :
                        request.cursor <= i /\ (head.more => i < head.next)}
  BY DEF Pages, Candidates
<1>3. InRange(request) \subseteq Nat /\ request.cursor \in Nat /\ head.next \in Nat
  BY RangeNat DEF ListInv, Request, Pages
<1>4. head.entries \cap printed = {}
  BY <1>1, <1>2, <1>3
<1>5. ASSUME ~head.more PROVE printed \cup head.entries = InRange(request)
  BY <1>1, <1>2, <1>3, <1>5
<1>6. ASSUME head.more, Advances(head)
      PROVE  printed \cup head.entries = {i \in InRange(request) : i < head.next}
  BY <1>1, <1>2, <1>3, <1>6 DEF Advances
<1>7. QED
  BY <1>4, <1>5, <1>6

LEMMA PageKeeps ==
  ASSUME ListInv, Page
  PROVE  ListInv'
<1>1. /\ client = "listing" /\ rom = "frame" /\ Completes
      /\ printed' = printed \cup head.entries
      /\ trouble' = (trouble \/ head.req # request)
      /\ UNCHANGED slots
  BY DEF Page
<1>2. head \in Pages
  BY <1>1 DEF ListInv, Answers
<1>3. toRom # << >> /\ Tail(toRom) \in Seq(Chunk)
  BY <1>1 DEF Completes, ListInv, Answers
<1>4. ~trouble' => ~trouble /\ head.req = request
  BY <1>1
<1>5. CASE ~head.more /\ ReadAnswer /\ client' = "done" /\ UNCHANGED request
  <2>1. toRom' = Tail(toRom) /\ rom' = "idle" /\ UNCHANGED <<toDevice, reply>>
    BY <1>5 DEF ReadAnswer, deviceSide
  <2>2. Answers'
    BY <1>1, <1>3, <2>1, SameSlots DEF ListInv, Answers
  <2>3. ~trouble' => printed' = InRange(request)
    BY <1>1, <1>2, <1>4, <1>5, OwnPage
  <2>4. InRange(request)' = InRange(request)
    BY <1>1, <1>5 DEF InRange
  <2>5. Progress'
    BY <1>5, <2>3, <2>4 DEF Progress
  <2>6. QED
    BY <1>1, <1>5, <2>2, <2>5 DEF ListInv
<1>6. CASE head.more /\ ~Advances(head) /\ ReadAnswer /\ client' = "failed" /\ UNCHANGED request
  <2>1. toRom' = Tail(toRom) /\ rom' = "idle" /\ UNCHANGED <<toDevice, reply>>
    BY <1>6 DEF ReadAnswer, deviceSide
  <2>2. Answers'
    BY <1>1, <1>3, <2>1, SameSlots DEF ListInv, Answers
  <2>3. RecordsFit /\ head.req = request => Advances(head)
    BY <1>2, <1>6 DEF Pages, Advances
  <2>5. trouble' \/ ~RecordsFit
    BY <1>1, <1>6, <2>3
  <2>6. Progress'
    BY <1>6, <2>5 DEF Progress
  <2>7. QED
    BY <1>1, <1>6, <2>2, <2>6 DEF ListInv
<1>7. CASE /\ head.more /\ Advances(head)
           /\ request' = [request EXCEPT !.cursor = head.next, !.id = @ + 1]
           /\ toRom' = Tail(toRom) /\ rom' = "start" /\ head' = << >>
           /\ toDevice' = Append(toDevice, request')
           /\ UNCHANGED <<reply, device, requests, client>>
  <2>1. /\ request' \in Request /\ request'.lower = request.lower
        /\ request'.upper = request.upper /\ request'.cursor = head.next
    <3>1. request \in Request /\ head.next \in Index
      BY <1>2 DEF ListInv, Pages
    <3>2. request.id + 1 \in Nat
      BY <3>1 DEF Request
    <3>3. request' = [request EXCEPT !.cursor = head.next, !.id = request.id + 1]
      BY <1>7
    <3>4. QED
      BY <3>1, <3>2, <3>3 DEF Request
  <2>2. Answers'
    BY <1>1, <1>3, <1>7, <2>1, SameSlots DEF ListInv, Answers
  <2>3. InRange(request)' = InRange(request)
    BY <1>1, <2>1 DEF InRange
  <2>4. ~trouble' => printed' = {i \in InRange(request) : i < head.next}
    BY <1>1, <1>2, <1>4, <1>7, OwnPage
  <2>5. Progress'
    BY <1>1, <1>7, <2>1, <2>3, <2>4 DEF Progress
  <2>6. QED
    BY <1>1, <2>1, <2>2, <2>5 DEF ListInv
<1>8. QED
  BY <1>5, <1>6, <1>7 DEF Page

LEMMA ErrorKeeps ==
  ASSUME ListInv, Error
  PROVE  ListInv'
<1>1. /\ toRom' = toRom \/ (toRom # << >> /\ toRom' = Tail(toRom))
      /\ rom' = "idle" /\ client' = "failed" /\ trouble' = TRUE
      /\ UNCHANGED <<toDevice, reply, slots, request>>
  BY DEF Error, ReadFails, Spliced, Outwaited, deviceSide
<1>2. toRom' \in Seq(Chunk)
  <2>1. toRom \in Seq(Chunk)
    BY DEF ListInv, Answers
  <2>2. toRom # << >> => Tail(toRom) \in Seq(Chunk)
    BY <2>1
  <2>3. QED
    BY <1>1, <2>1, <2>2
<1>3. Answers'
  BY <1>1, <1>2, SameSlots DEF ListInv, Answers
<1>4. QED
  BY <1>1, <1>3 DEF ListInv, Progress

LEMMA ForgetKeeps ==
  ASSUME ListInv, Forget
  PROVE  ListInv'
<1>1. UNCHANGED <<toDevice, toRom, rom, head, reply, slots, client, request, printed, trouble>>
  BY DEF Forget, ClearRequests, romSide
<1>2. Answers'
  BY <1>1, SameSlots DEF ListInv, Answers
<1>3. QED
  BY <1>1, <1>2 DEF ListInv, Progress, InRange

----------------------------------------------------------------------------

LEMMA ListInit == Init => ListInv
<1> SUFFICES ASSUME Init PROVE ListInv
  OBVIOUS
<1>1. 0 \in Index
  BY SlotAssumption DEF Index
<1>2. request \in Request
  BY <1>1 DEF Init, Request
<1>3. \E populated \in SUBSET Index : slots \in [populated -> Slot]
  BY DEF Init
<1>4. Answers
  BY DEF Init, LinkInit, Answers
<1>5. Progress
  BY DEF Init, Progress
<1>6. QED
  BY <1>2, <1>3, <1>4, <1>5 DEF ListInv

LEMMA ListStep == ListInv /\ [SlotNext]_vars => ListInv'
<1> SUFFICES ASSUME ListInv, [SlotNext]_vars PROVE ListInv'
  OBVIOUS
<1>1. CASE Start
  BY <1>1, StartKeeps
<1>2. CASE Rom
  BY <1>2, PageKeeps, ErrorKeeps, ReadHeadKeeps DEF Rom
<1>3. CASE Device
  BY <1>3, ServeKeeps, WriteKeeps, CloseKeeps DEF Device
<1>4. CASE Forget
  BY <1>4, ForgetKeeps
<1>5. CASE UNCHANGED vars
  <2>1. UNCHANGED ask /\ UNCHANGED <<toDevice, toRom, rom, head, reply, slots>>
    BY <1>5 DEF vars, link, ask
  <2>2. Answers'
    BY <2>1, SameSlots DEF ListInv, Answers
  <2>3. QED
    BY <2>1, <2>2, CommandStays
<1>6. QED
  BY <1>1, <1>2, <1>3, <1>4, <1>5 DEF SlotNext

\* A listing that ended well printed every slot of its range, for every slot
\* catalogue and whatever fits into a page.
THEOREM ListingIsComplete == Spec => []ListingComplete
<1>1. ListInv => ListingComplete
  BY DEF ListInv, Progress, ListingComplete
<1>2. QED
  BY <1>1, ListInit, ListStep, PTL DEF Spec

\* No slot is printed twice by a listing that met no trouble.
THEOREM NothingPrintedTwice == Spec => NonePrintedTwice
<1>1. ListInv /\ [SlotNext]_vars => [Page /\ ~trouble' => head.entries \cap printed = {}]_vars
  <2> SUFFICES ASSUME ListInv, Page, ~trouble'
              PROVE  head.entries \cap printed = {}
    OBVIOUS
  <2>1. client = "listing" /\ rom = "frame" /\ ~trouble /\ head.req = request
    BY DEF Page
  <2>2. head \in Pages
    BY <2>1 DEF ListInv, Answers
  <2>3. QED
    BY <2>1, <2>2, OwnPage
<1>2. QED
  BY <1>1, ListInit, ListStep, PTL DEF Spec, NonePrintedTwice

\* "FSLOTS err" is the link's: where a record fits into a page, the check that
\* the next page lies behind this one stops no listing.
THEOREM OnlyTheLinkFails ==
  ASSUME RecordsFit
  PROVE  Spec => []ErrorsAreTheLinks
<1>1. ListInv => ErrorsAreTheLinks
  BY DEF ListInv, Progress, ErrorsAreTheLinks
<1>2. QED
  BY <1>1, ListInit, ListStep, PTL DEF Spec

----------------------------------------------------------------------------
(* The requests that the device records.                                   *)

\* The request last served: requests are numbered in the order they are sent.
Served == cleared.last - cleared.underway + Len(requests)

\* Requests on record and requests under way follow each other without a gap,
\* no answer on the link is for one not served yet, and a command that ended
\* well has none under way.
Recording ==
  /\ cleared \in [last : Nat, underway : Nat] /\ cleared.underway <= cleared.last
  /\ requests \in Seq(Request)
  /\ request.id = Served + Len(toDevice)
  /\ \A i \in DOMAIN requests : requests[i].id = cleared.last - cleared.underway + i
  /\ \A i \in DOMAIN toDevice : toDevice[i].id = Served + i
  /\ \A i \in DOMAIN toRom : toRom[i].ans.req.id <= Served
  /\ \A i \in DOMAIN reply : reply[i].ans.req.id <= Served
  /\ rom = "frame" => head.req.id <= Served
  /\ client = "done" /\ ~trouble => toDevice = << >>

RecordInv == ListInv /\ Recording

\* The numbers in it are numbers.
LEMMA RecordNumbers ==
  ASSUME RecordInv
  PROVE  /\ cleared.last \in Nat /\ cleared.underway \in Nat /\ Len(requests) \in Nat
         /\ Len(toDevice) \in Nat /\ Served \in Nat /\ request.id \in Nat
         /\ toDevice \in Seq(Request) /\ requests \in Seq(Request)
         /\ toRom \in Seq(Chunk) /\ reply \in Seq(Chunk)
BY DEF RecordInv, ListInv, Answers, Recording, Served, Request

LEMMA RecordInit == Init => RecordInv
<1> SUFFICES ASSUME Init PROVE RecordInv
  OBVIOUS
<1>1. /\ cleared = [last |-> 0, underway |-> 0] /\ requests = << >> /\ toDevice = << >>
      /\ toRom = << >> /\ reply = << >> /\ rom = "idle" /\ request.id = 0
  BY DEF Init, LinkInit
<1>2. Served = 0 /\ Len(toDevice) = 0
  BY <1>1 DEF Served
<1>3. Recording
  BY <1>1, <1>2 DEF Recording
<1>4. QED
  BY <1>3, ListInit DEF RecordInv

\* A request sent behind those under way.
LEMMA SentRecorded ==
  ASSUME RecordInv, toDevice' = Append(toDevice, request'), request' \in Request,
         request'.id = request.id + 1, rom' = "start", client' = "listing",
         toRom' = toRom \/ (toRom # << >> /\ toRom' = Tail(toRom)),
         UNCHANGED <<reply, requests, cleared>>
  PROVE  Recording'
<1>1. Served' = Served
  BY DEF Served
<1>2. \A i \in DOMAIN toDevice' : toDevice'[i].id = Served + i
  <2>1. ASSUME NEW i \in DOMAIN toDevice'
        PROVE  toDevice'[i].id = Served + i
    <3>1. CASE i = Len(toDevice) + 1
      <4>1. toDevice'[Len(toDevice) + 1] = request'
        BY RecordNumbers
      <4>2. request.id = Served + Len(toDevice)
        BY DEF RecordInv, Recording
      <4>3. request.id + 1 = Served + (Len(toDevice) + 1)
        BY <4>2, RecordNumbers
      <4>4. QED
        BY <3>1, <4>1, <4>3
    <3>2. CASE i # Len(toDevice) + 1
      <4>1. i \in DOMAIN toDevice /\ toDevice'[i] = toDevice[i]
        BY <3>2, RecordNumbers
      <4>2. QED
        BY <4>1 DEF RecordInv, Recording
    <3>3. QED
      BY <3>1, <3>2
  <2>2. QED
    BY <2>1
<1>3. request'.id = Served + Len(toDevice')
  BY RecordNumbers DEF RecordInv, Recording
<1>4. \A i \in DOMAIN toRom' : toRom'[i].ans.req.id <= Served
  <2>1. CASE toRom' = toRom
    BY <2>1 DEF RecordInv, Recording
  <2>2. CASE toRom # << >> /\ toRom' = Tail(toRom)
    <3>1. \A i \in DOMAIN toRom' : i + 1 \in DOMAIN toRom /\ toRom'[i] = toRom[i + 1]
      BY <2>2, RecordNumbers
    <3>2. QED
      BY <3>1 DEF RecordInv, Recording
  <2>3. QED
    BY <2>1, <2>2
<1>5. QED
  BY <1>1, <1>2, <1>3, <1>4 DEF RecordInv, Recording

\* A step that sends nothing and serves nothing, and reads at most a chunk.
LEMMA ReadRecorded ==
  ASSUME RecordInv, UNCHANGED <<toDevice, reply, requests, cleared, request>>,
         toRom' = toRom \/ (toRom # << >> /\ toRom' = Tail(toRom)),
         rom' = "frame" => head'.req.id <= Served,
         client' = "done" /\ ~trouble' => toDevice = << >>
  PROVE  Recording'
<1>1. Served' = Served
  BY DEF Served
<1>2. \A i \in DOMAIN toRom' : toRom'[i].ans.req.id <= Served
  <2>1. CASE toRom' = toRom
    BY <2>1 DEF RecordInv, Recording
  <2>2. CASE toRom # << >> /\ toRom' = Tail(toRom)
    <3>1. \A i \in DOMAIN toRom' : i + 1 \in DOMAIN toRom /\ toRom'[i] = toRom[i + 1]
      BY <2>2, RecordNumbers
    <3>2. QED
      BY <3>1 DEF RecordInv, Recording
  <2>3. QED
    BY <2>1, <2>2
<1>3. QED
  BY <1>1, <1>2 DEF RecordInv, Recording

LEMMA ServeRecorded ==
  ASSUME RecordInv, Serve(RangeAnswer(Head(toDevice))), UNCHANGED ask
  PROVE  Recording'
<1> DEFINE req == Head(toDevice)
           page == RangeAnswer(req)
<1>1. /\ toDevice # << >> /\ toDevice' = Tail(toDevice)
      /\ requests' = Append(requests, req)
      /\ reply' = << >> \/ reply' = Chunks(page)
      /\ UNCHANGED <<toRom, rom, head, slots, client, request, trouble, cleared>>
  BY DEF Serve, Recorded, ask, romSide
<1>2. req \in Request /\ req.id = Served + 1 /\ req = toDevice[1]
  BY <1>1, RecordNumbers DEF RecordInv, Recording
<1>3. page.req = req
  BY DEF RangeAnswer
<1> HIDE DEF page, req
<1>4. Served' = Served + 1
  BY <1>1, <1>2, RecordNumbers DEF Served
<1>5. requests' \in Seq(Request) /\ Len(requests') = Len(requests) + 1
  BY <1>1, <1>2, RecordNumbers
<1>6. \A i \in DOMAIN requests' : requests'[i].id = cleared.last - cleared.underway + i
  <2>1. ASSUME NEW i \in DOMAIN requests'
        PROVE  requests'[i].id = cleared.last - cleared.underway + i
    <3>1. CASE i = Len(requests) + 1
      <4>1. requests'[i] = req
        BY <1>1, <1>2, <3>1, RecordNumbers
      <4>2. Served + 1 = cleared.last - cleared.underway + (Len(requests) + 1)
        BY RecordNumbers DEF Served
      <4>3. QED
        BY <1>2, <3>1, <4>1, <4>2
    <3>2. CASE i # Len(requests) + 1
      <4>1. i \in DOMAIN requests /\ requests'[i] = requests[i]
        BY <1>1, <1>2, <3>2, RecordNumbers
      <4>2. QED
        BY <4>1 DEF RecordInv, Recording
    <3>3. QED
      BY <3>1, <3>2
  <2>2. QED
    BY <2>1
<1>7. \A i \in DOMAIN toDevice' : toDevice'[i].id = Served' + i
  <2>1. \A i \in DOMAIN toDevice' : i \in Nat /\ i + 1 \in DOMAIN toDevice
                                    /\ toDevice'[i] = toDevice[i + 1]
    BY <1>1, RecordNumbers
  <2>2. \A i \in DOMAIN toDevice : toDevice[i].id = Served + i
    BY DEF RecordInv, Recording
  <2>3. QED
    BY <1>4, <2>1, <2>2, RecordNumbers
<1>8. request'.id = Served' + Len(toDevice')
  <2>1. Len(toDevice') = Len(toDevice) - 1
    BY <1>1, RecordNumbers
  <2>2. QED
    BY <1>1, <1>4, <2>1, RecordNumbers DEF RecordInv, Recording
<1>9. \A i \in DOMAIN toRom : toRom[i].ans.req.id <= Served'
  <2>1. \A i \in DOMAIN toRom : toRom[i].ans.req.id \in Nat
    <3>1. \A ch \in Chunk : ch.ans.req \in Request
      BY DEF Chunk, Pages
    <3>2. \A r \in Request : r.id \in Nat
      BY DEF Request
    <3>3. \A i \in DOMAIN toRom : toRom[i] \in Chunk
      BY RecordNumbers
    <3>4. QED
      BY <3>1, <3>2, <3>3
  <2>2. QED
    BY <1>4, <2>1, RecordNumbers DEF RecordInv, Recording
<1>10. \A i \in DOMAIN reply' : reply'[i].ans.req.id <= Served'
  <2>1. CASE reply' = << >>
    BY <2>1
  <2>2. CASE reply' = Chunks(page)
    <3>1. \A i \in DOMAIN reply' : reply'[i].ans = page
      BY <2>2 DEF Chunks
    <3>2. QED
      BY <1>2, <1>3, <1>4, <3>1, RecordNumbers
  <2>3. QED
    BY <1>1, <2>1, <2>2
<1>11. rom = "frame" => head.req.id <= Served'
  <2>1. rom = "frame" => head.req.id \in Nat
    BY DEF RecordInv, ListInv, Answers, Pages, Request
  <2>2. QED
    BY <1>4, <2>1, RecordNumbers DEF RecordInv, Recording
<1>12. ~(client = "done" /\ ~trouble)
  BY <1>1 DEF RecordInv, Recording
<1>13. QED
  BY <1>1, <1>5, <1>6, <1>7, <1>8, <1>9, <1>10, <1>11, <1>12 DEF RecordInv, Recording

LEMMA WriteRecorded ==
  ASSUME RecordInv, WriteChunk, UNCHANGED ask
  PROVE  Recording'
<1>1. /\ reply # << >> /\ reply' = Tail(reply)
      /\ toRom' \in {toRom, Append(toRom, Head(reply))}
      /\ UNCHANGED <<toDevice, rom, head, requests, client, request, trouble, cleared>>
  BY DEF WriteChunk, ask
<1>2. Served' = Served
  BY <1>1 DEF Served
<1>3. \A i \in DOMAIN reply : reply[i].ans.req.id <= Served
  BY DEF RecordInv, Recording
<1>4. \A i \in DOMAIN reply' : reply'[i].ans.req.id <= Served
  <2>1. \A i \in DOMAIN reply' : i + 1 \in DOMAIN reply /\ reply'[i] = reply[i + 1]
    BY <1>1, RecordNumbers
  <2>2. QED
    BY <1>3, <2>1
<1>5. Head(reply) \in Chunk /\ Head(reply).ans.req.id <= Served
  <2>1. Head(reply) = reply[1] /\ 1 \in DOMAIN reply
    BY <1>1, RecordNumbers
  <2>2. QED
    BY <1>3, <2>1, RecordNumbers
<1>6. \A i \in DOMAIN toRom' : toRom'[i].ans.req.id <= Served
  <2>1. \A i \in DOMAIN toRom : toRom[i].ans.req.id <= Served
    BY DEF RecordInv, Recording
  <2>2. CASE toRom' = toRom
    BY <2>1, <2>2
  <2>3. CASE toRom' = Append(toRom, Head(reply))
    <3>1. \A i \in DOMAIN toRom' : \/ i \in DOMAIN toRom /\ toRom'[i] = toRom[i]
                                   \/ toRom'[i] = Head(reply)
      BY <1>5, <2>3, RecordNumbers
    <3>2. QED
      BY <1>5, <2>1, <3>1
  <2>4. QED
    BY <1>1, <2>2, <2>3
<1>7. QED
  BY <1>1, <1>2, <1>4, <1>6 DEF RecordInv, Recording

LEMMA CloseRecorded ==
  ASSUME RecordInv, Close, UNCHANGED ask
  PROVE  Recording'
<1>1. /\ reply' = << >>
      /\ UNCHANGED <<toDevice, toRom, rom, head, requests, client, request, trouble, cleared>>
  BY DEF Close, romSide, ask
<1>2. Served' = Served
  BY <1>1 DEF Served
<1>3. QED
  BY <1>1, <1>2 DEF RecordInv, Recording

LEMMA ReadHeadRecorded ==
  ASSUME RecordInv, ReadHead, UNCHANGED ask
  PROVE  Recording'
<1>1. /\ toRom # << >> /\ toRom' = Tail(toRom)
      /\ \/ head' = Head(toRom).ans
         \/ rom = "start" /\ rom' = rom
      /\ UNCHANGED <<toDevice, reply, requests, client, request, trouble, cleared>>
  BY DEF ReadHead, deviceSide, ask
<1>2. rom' = "frame" => head'.req.id <= Served
  <2>1. Head(toRom) = toRom[1] /\ 1 \in DOMAIN toRom
    BY <1>1, RecordNumbers
  <2>2. QED
    BY <1>1, <2>1 DEF RecordInv, Recording
<1>3. client' = "done" /\ ~trouble' => toDevice = << >>
  BY <1>1 DEF RecordInv, Recording
<1>4. QED
  BY <1>1, <1>2, <1>3, ReadRecorded

LEMMA StartRecorded ==
  ASSUME RecordInv, Start
  PROVE  Recording'
<1>1. PICK lower \in Index : \E upper \in lower .. MaxIndex :
        request' = [lower |-> lower, upper |-> upper, cursor |-> lower, id |-> request.id + 1]
  BY DEF Start
<1>2. request'.id = request.id + 1 /\ request' \in Request
  <2>1. ListInv'
    BY StartKeeps DEF RecordInv
  <2>2. QED
    BY <1>1, <2>1 DEF ListInv
<1>3. /\ toDevice' = Append(toDevice, request') /\ rom' = "start" /\ client' = "listing"
      /\ UNCHANGED <<toRom, reply, requests, cleared>>
  BY DEF Start, Send
<1>4. QED
  BY <1>2, <1>3, SentRecorded

\* The answer to the request last sent was served last: none is under way.
LEMMA PageRecorded ==
  ASSUME RecordInv, Page
  PROVE  Recording'
<1>1. /\ rom = "frame" /\ Completes /\ toRom # << >>
      /\ trouble' = (trouble \/ head.req # request) /\ cleared' = cleared
  BY DEF Page, Completes
<1>2. head.req = request => toDevice = << >>
  <2>1. head.req.id <= Served
    BY <1>1 DEF RecordInv, Recording
  <2>2. ASSUME head.req = request
        PROVE  Len(toDevice) = 0
    BY <2>1, <2>2, RecordNumbers DEF RecordInv, Recording
  <2>3. QED
    BY <2>2, RecordNumbers
<1>3. CASE ReadAnswer /\ UNCHANGED request
  <2>1. /\ toRom' = Tail(toRom) /\ rom' = "idle"
        /\ UNCHANGED <<toDevice, reply, requests, cleared, request>>
    BY <1>1, <1>3 DEF ReadAnswer, deviceSide
  <2>2. ~trouble' => toDevice = << >>
    BY <1>1, <1>2
  <2>3. QED
    BY <1>1, <2>1, <2>2, ReadRecorded
<1>4. CASE /\ head.more /\ Advances(head)
           /\ request' = [request EXCEPT !.cursor = head.next, !.id = @ + 1]
           /\ toRom' = Tail(toRom) /\ rom' = "start" /\ head' = << >>
           /\ toDevice' = Append(toDevice, request')
           /\ UNCHANGED <<reply, device, requests, client>>
  <2>1. request' \in Request
    <3>1. ListInv'
      BY PageKeeps DEF RecordInv
    <3>2. QED
      BY <3>1 DEF ListInv
  <2>2. request'.id = request.id + 1
    BY <1>4 DEF RecordInv, ListInv, Request
  <2>3. client' = "listing"
    BY <1>4 DEF Page
  <2>4. QED
    BY <1>1, <1>4, <2>1, <2>2, <2>3, SentRecorded
<1>5. QED
  BY <1>3, <1>4 DEF Page

LEMMA ErrorRecorded ==
  ASSUME RecordInv, Error
  PROVE  Recording'
<1>1. /\ toRom' = toRom \/ (toRom # << >> /\ toRom' = Tail(toRom))
      /\ rom' = "idle" /\ client' = "failed"
      /\ UNCHANGED <<toDevice, reply, requests, cleared, request>>
  BY DEF Error, ReadFails, Spliced, Outwaited, deviceSide
<1>2. QED
  BY <1>1, ReadRecorded

LEMMA ForgetRecorded ==
  ASSUME RecordInv, Forget
  PROVE  Recording'
<1>1. /\ requests' = << >> /\ cleared' = [last |-> request.id, underway |-> Len(toDevice)]
      /\ UNCHANGED <<toDevice, toRom, rom, head, reply, client, request, trouble>>
  BY DEF Forget, ClearRequests, romSide
<1>2. cleared'.last = request.id /\ cleared'.underway = Len(toDevice) /\ Len(requests') = 0
  BY <1>1
<1>3. request.id = Served + Len(toDevice)
  BY DEF RecordInv, Recording
<1>4. Served' = Served
  BY <1>2, <1>3, RecordNumbers DEF Served
<1>5. cleared' \in [last : Nat, underway : Nat] /\ cleared'.underway <= cleared'.last
  BY <1>1, <1>2, <1>3, RecordNumbers
<1>6. requests' \in Seq(Request) /\ DOMAIN requests' = {}
  BY <1>1
<1>7. QED
  BY <1>1, <1>4, <1>5, <1>6 DEF RecordInv, Recording

LEMMA RecordStep == RecordInv /\ [SlotNext]_vars => RecordInv'
<1> SUFFICES ASSUME RecordInv, [SlotNext]_vars PROVE Recording'
  BY ListStep DEF RecordInv
<1>1. CASE Start
  BY <1>1, StartRecorded
<1>2. CASE Rom
  BY <1>2, PageRecorded, ErrorRecorded, ReadHeadRecorded DEF Rom
<1>3. CASE Device
  BY <1>3, ServeRecorded, WriteRecorded, CloseRecorded DEF Device
<1>4. CASE Forget
  BY <1>4, ForgetRecorded
<1>5. CASE UNCHANGED vars
  <2>1. UNCHANGED <<toDevice, toRom, rom, head, reply, requests, client, request, trouble, cleared>>
    BY <1>5 DEF vars, link, ask
  <2>2. Served' = Served
    BY <2>1 DEF Served
  <2>3. QED
    BY <2>1, <2>2 DEF RecordInv, Recording
<1>6. QED
  BY <1>1, <1>2, <1>3, <1>4, <1>5 DEF SlotNext

\* The test that looks at a command that ended well finds every request of its
\* since the record was last cleared, in order, and first the command's first.
THEOREM RecordIsWhatWasSent == Spec => []RecordIsTheCommands
<1>1. ASSUME RecordInv
      PROVE  RecordIsTheCommands
  <2> SUFFICES ASSUME client = "done", ~trouble, request.id > cleared.last
               PROVE  /\ [i \in DOMAIN requests |-> requests[i].id]
                           = [i \in 1 .. (request.id - cleared.last + cleared.underway) |->
                                cleared.last - cleared.underway + i]
                      /\ cleared.underway = 0 => FirstRequest.id = cleared.last + 1
    BY DEF RecordIsTheCommands
  <2>1. toDevice = << >> /\ Len(toDevice) = 0
    BY <1>1 DEF RecordInv, Recording
  <2>2. request.id = Served
    BY <1>1, <2>1, RecordNumbers DEF RecordInv, Recording
  <2>3. Len(requests) = request.id - cleared.last + cleared.underway
    BY <1>1, <2>2, RecordNumbers DEF Served
  <2>4. DOMAIN requests = 1 .. (request.id - cleared.last + cleared.underway)
    BY <1>1, <2>3, RecordNumbers
  <2>5. \A i \in DOMAIN requests : requests[i].id = cleared.last - cleared.underway + i
    BY <1>1 DEF RecordInv, Recording
  <2>6. ASSUME cleared.underway = 0
        PROVE  FirstRequest.id = cleared.last + 1
    <3>1. requests # << >> /\ 1 \in DOMAIN requests /\ Head(requests) = requests[1]
      BY <1>1, <2>3, <2>6, RecordNumbers
    <3>2. QED
      BY <1>1, <2>5, <2>6, <3>1, RecordNumbers DEF FirstRequest
  <2>7. QED
    BY <2>4, <2>5, <2>6
<1>2. QED
  BY <1>1, RecordInit, RecordStep, PTL DEF Spec
=============================================================================
