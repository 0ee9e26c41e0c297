------------------------------ MODULE YamlSuite ------------------------------
(***************************************************************************)
(* What a test does to the machine, as a list of steps, each a list of     *)
(* items: a line to type or a screen to wait for.  A YAML suite is read    *)
(* and checked (load_suite of                                              *)
(* src/integration-tests/beebium/yaml_runner.py) and then run from top to  *)
(* bottom (run_suite); a BASIC program is typed in and run (helpers.py).   *)
(*                                                                         *)
(* A value of a YAML file has a kind: none, text, list, map, screen (a     *)
(* check that has the one key screen with an expect) or another one.  A    *)
(* regular expression is the text it matches; variables are taken as       *)
(* expanded and delays as the deadlines of TestRun.                        *)
(***************************************************************************)
EXTENDS SequencesExt

CONSTANTS
  FHOST, FMOUNT,   \* the lines that set the host and mount the slot
  FIN              \* disk -> the line that puts it into the slot

\* _string_list: anything else raises.
IsStringList(v) == v.kind \in {"none", "text", "list"}

string_list(v) ==
  CASE v.kind = "none" -> << >>
    [] v.kind = "text" -> <<v.text>>
    [] v.kind = "list" -> v.list

IsCheck(v) == v.kind = "screen"

parse_check(v) == v.expect

IsStep(v) ==
  /\ v.kind = "map" /\ v.name # ""
  /\ IsStringList(v.paste)
  /\ \A i \in DOMAIN v.checks : IsCheck(v.checks[i])

parse_step(v) ==
  [name |-> v.name, paste |-> string_list(v.paste),
   checks |-> [i \in DOMAIN v.checks |-> parse_check(v.checks[i])]]

\* load_suite does not raise.
Loads(v) ==
  /\ v.kind = "map" /\ v.disk \in DOMAIN FIN
  /\ IsStringList(v.paste)
  /\ v.steps.kind = "list"
  /\ \A i \in DOMAIN v.steps.list : IsStep(v.steps.list[i])

load_suite(v) ==
  [disk |-> v.disk, setup |-> string_list(v.paste),
   steps |-> [i \in DOMAIN v.steps.list |-> parse_step(v.steps.list[i])]]

----------------------------------------------------------------------------
(* The items.                                                              *)

Typing(lines) == [i \in DOMAIN lines |-> [op |-> "type", text |-> lines[i]]]

Waiting_for(step, want) == [op |-> "check", step |-> step, want |-> want]

StepItems(step) ==
  Typing(step.paste) \o
    [i \in DOMAIN step.checks |-> Waiting_for(step.name, step.checks[i])]

\* run_suite: the lines before the first step, then step by step.
SuiteBody(suite) ==
  <<Typing(<<FHOST, FIN[suite.disk], FMOUNT>> \o suite.setup)>>
    \o [i \in DOMAIN suite.steps |-> StepItems(suite.steps[i])]

\* run_basic_program; a test waits for what the program prints.
ProgramBody(lines, want) ==
  <<Typing(<<"NEW">> \o lines \o <<"RUN">>), <<Waiting_for("RUN", want)>>>>
=============================================================================
