---------------------------- MODULE HostService ----------------------------
(***************************************************************************)
(* The current host and the history of hosts: host_service_responder of    *)
(* src/integration-tests/beebium/fuji_device.py, which *FHOST and *FCD     *)
(* drive (src/src/kernel/commands/cmd_fhost.s).                            *)
(*                                                                         *)
(* A host is the sequence of the parts of its URI; one whose first part is *)
(* a root is absolute.                                                     *)
(***************************************************************************)
EXTENDS Integers, SequencesExt

CONSTANTS
  Roots,        \* what an absolute URI begins with: a scheme or a drive
  Folders,      \* the parts a relative one may have
  MaxHistory,   \* 32 in the code
  MaxUses       \* bound: the hosts set or selected in a behaviour

ASSUME HostAssumption ==
  /\ Roots # {} /\ Roots \cap Folders = {}
  /\ MaxHistory \in Nat \ {0} /\ MaxUses \in Nat

VARIABLES
  current,   \* << >> when there is none
  history,   \* most recent first
  uses       \* every host set or selected, most recent first

host == <<current, history, uses>>

Specs == {<<part>> : part \in Roots \cup Folders}

\* Faulty variant: a host that is in the history already is put there again.
promote_again(uri) ==
  /\ current' = uri
  /\ history' = SubSeq(<<uri>> \o history, 1,
                       IF Len(history) < MaxHistory THEN Len(history) + 1 ELSE MaxHistory)
  /\ uses' = <<uri>> \o uses

promote(uri) ==
  LET moved == <<uri>> \o RemoveFirst(history, uri)
  IN  /\ current' = uri
      /\ history' = SubSeq(moved, 1, IF Len(moved) < MaxHistory THEN Len(moved) ELSE MaxHistory)
      /\ uses' = <<uri>> \o uses

resolve(spec) == IF Head(spec) \in Roots THEN spec ELSE current \o spec

HostInit(first) == current = first /\ history = <<first>> /\ uses = <<first>>

SetCurrent(spec) == Len(uses) < MaxUses /\ promote(resolve(spec))

\* The index is the one that LIST showed; one too large is refused.
SelectHistory(i) ==
  Len(uses) < MaxUses /\ i \in DOMAIN history /\ promote(history[i])

\* The current host stays current when it is taken out of the history.
DeleteHistory(i) ==
  /\ i \in DOMAIN history
  /\ history' = RemoveAt(history, i)
  /\ UNCHANGED <<current, uses>>

HostNext ==
  \/ \E spec \in Specs : SetCurrent(spec)
  \/ \E i \in 1 .. MaxHistory : SelectHistory(i) \/ DeleteHistory(i)

----------------------------------------------------------------------------
(* Properties.                                                             *)

LastUse(uri) == CHOOSE i \in DOMAIN uses :
  uses[i] = uri /\ \A j \in DOMAIN uses : uses[j] = uri => i <= j

\* The history lists hosts by their last use and none of them twice, so that
\* the number *FHOST shows beside a host selects it, and what falls off the
\* end is the host used longest ago (promote).
HistoryIsRecent ==
  /\ \A i \in DOMAIN history : \E j \in DOMAIN uses : uses[j] = history[i]
  /\ \A i, j \in DOMAIN history : i < j => LastUse(history[i]) < LastUse(history[j])
  /\ uses[1] = current
=============================================================================
