----------------------------- MODULE SlotListing -----------------------------
(***************************************************************************)
(* *FSLOTS, page by page, over FujiLink: the ROM asks for the populated    *)
(* slots of a range from a cursor on (src/src/utils/cmd_fslots.s); the     *)
(* device fills a page of limited size and says where the next one starts  *)
(* (build_slot_catalog_response).                                          *)
(*                                                                         *)
(* A slot keeps its URI's length and whether it is valid; the text of a    *)
(* record is its length.  Slots do not change during a run.                *)
(***************************************************************************)
EXTENDS FujiLink, FiniteSets, FiniteSetsExt

CONSTANTS
  MaxIndex,      \* highest slot number: 255 in the code
  UriLengths,    \* lengths of URIs
  MaxUri,        \* characters of a URI the ROM asks for: 128
  MaxPayload,    \* bytes of a page: 220
  Overhead,      \* bytes of a record around the URI: number, colon, newline
  MaxCommands    \* bound: commands in a behaviour

ASSUME SlotAssumption ==
  /\ MaxIndex \in Nat /\ UriLengths \subseteq Nat /\ MaxUri \in Nat
  /\ MaxPayload \in Nat /\ Overhead \in Nat /\ MaxCommands \in Nat

VARIABLES
  slots,      \* index -> slot, for the populated ones
  client,     \* ready, listing, done or failed
  request,    \* the request last sent
  printed,    \* indices printed by this command
  commands,   \* commands started
  trouble,    \* an answer of this command was lost, late or somebody else's
  cleared     \* when the test last cleared the requests: the last one sent,
              \* and how many were still on their way to the device

ask == <<slots, client, request, printed, commands, trouble, cleared>>
vars == <<link, ask>>

Index == 0 .. MaxIndex
\* An invalid slot is listed as <invalid> whatever its URI.
Slot == [valid : {TRUE}, len : UriLengths] \cup [valid : {FALSE}, len : {0}]

----------------------------------------------------------------------------
(* The device's answer.                                                    *)

PresenceLen(req) == (req.upper - req.lower + 8) \div 8

RecordLen(i) ==
  Overhead + IF ~slots[i].valid THEN 9
             ELSE IF slots[i].len > MaxUri THEN MaxUri ELSE slots[i].len

InRange(req) == {i \in DOMAIN slots : req.lower <= i /\ i <= req.upper}

\* Faulty variant: slots before the cursor sent again.
Candidates_from_lower(req) == InRange(req)

Candidates(req) == {i \in InRange(req) : req.cursor <= i}

\* Records up to i no longer fit into the page.
Overflows(req, i) ==
  PresenceLen(req)
    + MapThenSumSet(RecordLen, {j \in Candidates(req) : j <= i}) > MaxPayload

Overflow(req) == {i \in Candidates(req) : Overflows(req, i)}

Least(S) == CHOOSE i \in S : \A j \in S : i <= j

\* Faulty variant: the page after a full one starts behind the slot left out.
RangeAnswer_skipping(req) ==
  LET over == Overflow(req)
      next == Least(over)
  IN  [req |-> req, more |-> over # {},
       next |-> IF over # {} THEN next + 1 ELSE 0,
       entries |-> {i \in Candidates(req) : over # {} => i < next}]

RangeAnswer(req) ==
  LET over == Overflow(req)
      next == Least(over)
  IN  [req |-> req, more |-> over # {},
       next |-> IF over # {} THEN next ELSE 0,
       entries |-> {i \in Candidates(req) : over # {} => i < next}]

----------------------------------------------------------------------------
(* The command.                                                            *)

Request == [lower : Index, upper : Index, cursor : Index, id : Nat]

Init ==
  /\ LinkInit
  /\ \E populated \in SUBSET Index : slots \in [populated -> Slot]
  /\ client = "ready" /\ printed = {} /\ commands = 0 /\ trouble = FALSE
  /\ cleared = [last |-> 0, underway |-> 0]
  /\ request = [lower |-> 0, upper |-> 0, cursor |-> 0, id |-> 0]

\* A range needs lower <= upper.
Start ==
  /\ client # "listing" /\ commands < MaxCommands
  /\ \E lower \in Index : \E upper \in lower .. MaxIndex :
       request' = [lower |-> lower, upper |-> upper, cursor |-> lower,
                   id |-> request.id + 1]
  /\ Send(request')
  /\ client' = "listing" /\ printed' = {} /\ trouble' = FALSE
  /\ commands' = commands + 1 /\ UNCHANGED <<slots, cleared>>

Advances(ans) == ans.next > request.cursor

\* The page is printed before the flag is looked at.
Page ==
  /\ client = "listing"
  /\ rom = "frame" /\ Completes
  /\ printed' = printed \cup head.entries
  /\ trouble' = (trouble \/ head.req # request)
  /\ \/ /\ ~head.more
        /\ ReadAnswer /\ client' = "done" /\ UNCHANGED request
     \/ /\ head.more /\ ~Advances(head)
        /\ ReadAnswer /\ client' = "failed" /\ UNCHANGED request
     \/ /\ head.more /\ Advances(head)
        /\ request' = [request EXCEPT !.cursor = head.next, !.id = @ + 1]
        /\ toRom' = Tail(toRom) /\ rom' = "start" /\ head' = << >>
        /\ toDevice' = Append(toDevice, request')
        /\ UNCHANGED <<reply, device, requests, client>>
  /\ UNCHANGED <<slots, commands, cleared>>

Error ==
  /\ client = "listing" /\ ReadFails
  /\ client' = "failed" /\ trouble' = TRUE
  /\ UNCHANGED <<slots, request, printed, commands, cleared>>

Rom == Page \/ Error \/ (ReadHead /\ UNCHANGED ask)

Device ==
  /\ Serve(RangeAnswer(Head(toDevice))) \/ WriteChunk \/ Close
  /\ UNCHANGED ask

\* Between two commands a test forgets the requests so far, if there are any.
Forget ==
  /\ client \in {"done", "failed"} /\ commands < MaxCommands
  /\ requests # << >> /\ ClearRequests
  /\ cleared' = [last |-> request.id, underway |-> Len(toDevice)]
  /\ UNCHANGED <<slots, client, request, printed, commands, trouble>>

SlotNext == Start \/ Rom \/ Device \/ Forget

Spec == Init /\ [][SlotNext]_vars /\ WF_vars(Rom)

----------------------------------------------------------------------------
(* Properties.                                                             *)

IsAnswer(ans) == ans = RangeAnswer(ans.req) /\ ans.req \in Request

TypeOK ==
  /\ \E populated \in SUBSET Index : slots \in [populated -> Slot]
  /\ client \in {"ready", "listing", "done", "failed"}
  /\ request \in Request /\ printed \subseteq Index
  /\ trouble \in BOOLEAN /\ commands \in 0 .. MaxCommands
  /\ rom \in {"idle", "start", "frame"} /\ device \in {"open", "closed"}
  /\ (client = "listing") = (rom # "idle")
  /\ \A i \in DOMAIN toDevice : toDevice[i] \in Request
  /\ \A i \in DOMAIN toRom : IsAnswer(toRom[i].ans)
  /\ \A i \in DOMAIN reply : IsAnswer(reply[i].ans)
  /\ rom = "frame" => IsAnswer(head)
  /\ \A i \in DOMAIN requests : requests[i] \in Request

\* What *FSLOTS printed when it ended well: every populated slot of the range,
\* whatever the size of the pages (the device's next index, the ROM's cursor).
ListingComplete ==
  client = "done" /\ ~trouble => printed = InRange(request)

\* No slot is printed twice: a page of the command's own has none of the
\* slots printed before it.
NonePrintedTwice ==
  [][Page /\ ~trouble' => head.entries \cap printed = {}]_vars

\* "FSLOTS err" means that the link failed: while a record fits into a page,
\* the check that the next page lies behind this one never stops a listing.
ErrorsAreTheLinks == client = "failed" => trouble

\* When a command ended well, a test finds every request it sent since it last
\* cleared them, in the order they were sent, and none sent before, unless one
\* was still on its way: the first one wait_for_command finds is the first of
\* the command (FujiDevice._loop, clear, wait_for).
RecordIsTheCommands ==
  client = "done" /\ ~trouble /\ request.id > cleared.last =>
    /\ [i \in DOMAIN requests |-> requests[i].id]
         = [i \in 1 .. (request.id - cleared.last + cleared.underway) |->
              cleared.last - cleared.underway + i]
    /\ cleared.underway = 0 => FirstRequest.id = cleared.last + 1

\* Every command comes back to the user, whatever the device does; the ROM
\* polls a bounded number of times for each byte.
CommandEnds == client = "listing" ~> client \in {"done", "failed"}
=============================================================================
