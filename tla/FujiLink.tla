------------------------------ MODULE FujiLink ------------------------------
(***************************************************************************)
(* The serial link between the ROM and a device: the ROM sends one request *)
(* and waits for one answer (src/src/kernel/fujibus.s, fuji_link_slip.s);  *)
(* the device end is the reader thread of class FujiDevice                 *)
(* (src/integration-tests/beebium/fuji_device.py).                         *)
(*                                                                         *)
(* A SLIP frame crosses the link in two chunks, the head with the END that *)
(* opens it and the tail with the END that closes it, so that the ROM can  *)
(* give up in between.  An answer's field req names the request it is for: *)
(* the packets carry no such thing and no action of the ROM looks at it.   *)
(* Requests are taken as sent whole.                                       *)
(***************************************************************************)
EXTENDS Integers, Sequences

VARIABLES
  toDevice,   \* requests under way
  toRom,      \* chunks in the ROM's serial input buffer
  rom,        \* idle, start (waits for a frame) or frame (inside one)
  head,       \* the answer whose head has been read
  reply,      \* chunks the reader thread has still to write
  device,     \* open or closed
  requests    \* recorded for the test, since it last cleared them

link == <<toDevice, toRom, rom, head, reply, device, requests>>
romSide == <<toRom, rom, head>>
deviceSide == <<toDevice, reply, device, requests>>

LinkInit ==
  /\ toDevice = << >> /\ toRom = << >> /\ rom = "idle" /\ head = << >>
  /\ reply = << >> /\ device = "open" /\ requests = << >>

----------------------------------------------------------------------------
(* The device.                                                             *)

Chunks(ans) == <<[part |-> "head", ans |-> ans], [part |-> "tail", ans |-> ans]>>

\* Faulty variant: only the last request is kept.
Recorded_last(req) == <<req>>

Recorded(req) == Append(requests, req)

\* A request is recorded before it is answered; a responder that raises or
\* returns nothing leaves it unanswered.
Serve(answer) ==
  /\ device = "open" /\ reply = << >> /\ toDevice # << >>
  /\ toDevice' = Tail(toDevice)
  /\ requests' = Recorded(Head(toDevice))
  /\ \/ reply' = << >>
     \/ reply' = Chunks(answer)
  /\ UNCHANGED <<romSide, device>>

\* The next piece of the answer; a full input buffer loses it.
WriteChunk ==
  /\ reply # << >>
  /\ toRom' \in {toRom, Append(toRom, Head(reply))}
  /\ reply' = Tail(reply)
  /\ UNCHANGED <<toDevice, rom, head, device, requests>>

\* close: the thread stops between two chunks.
Close ==
  /\ device = "open" /\ device' = "closed" /\ reply' = << >>
  /\ UNCHANGED <<romSide, toDevice, requests>>

\* clear, called by the test
ClearRequests ==
  /\ requests' = << >>
  /\ UNCHANGED <<romSide, toDevice, reply, device>>

\* wait_for_command: the first request recorded since then
FirstRequest == Head(requests)

----------------------------------------------------------------------------
(* The ROM.                                                                *)

\* fujibus_send_packet; what is in the input buffer stays there.
Send(req) ==
  /\ rom = "idle"
  /\ toDevice' = Append(toDevice, req) /\ rom' = "start"
  /\ UNCHANGED <<toRom, head, reply, device, requests>>

\* slip_wait_start passes over bytes until an END, and an END that closes
\* a frame whose head is gone is an empty frame.
ReadHead ==
  /\ rom = "start" /\ toRom # << >>
  /\ toRom' = Tail(toRom)
  /\ \/ /\ Head(toRom).part = "head"
        /\ rom' = "frame" /\ head' = Head(toRom).ans
     \/ /\ Head(toRom).part = "tail"
        /\ UNCHANGED <<rom, head>>
  /\ UNCHANGED deviceSide

Completes == toRom # << >> /\ Head(toRom) = [part |-> "tail", ans |-> head]

\* A frame with its own tail is the answer.
ReadAnswer ==
  /\ rom = "frame" /\ Completes
  /\ toRom' = Tail(toRom) /\ rom' = "idle" /\ head' = << >>
  /\ UNCHANGED deviceSide

\* Faulty variant: no limit on the polls between two bytes.
Outwaited_start_only == rom = "start" /\ toRom = << >>

\* The poll counters run out before the next byte has come.
Outwaited == rom \in {"start", "frame"} /\ toRom = << >>

\* Anything else: an END inside the frame or a wrong checksum.
Spliced == rom = "frame" /\ toRom # << >> /\ ~Completes

ReadFails ==
  /\ Outwaited \/ Spliced
  /\ toRom' = IF Spliced THEN Tail(toRom) ELSE toRom
  /\ rom' = "idle" /\ head' = << >>
  /\ UNCHANGED deviceSide
=============================================================================
