------------------------------- MODULE TestRun -------------------------------
(***************************************************************************)
(* One end-to-end test after another, once the environment is known        *)
(* (TestEnv): the fixtures of src/integration-tests/beebium/conftest.py    *)
(* are set up, the body runs a suite or a program (YamlSuite), the         *)
(* fixtures are torn down in the opposite order.  Around it, processes     *)
(* that go at their own pace: the emulated machine (BbcScreen), the        *)
(* firmware a test starts (fujinet_runner.py) and a service on a port.     *)
(* What a test saw is kept in directories (evidence.py).  The harness      *)
(* itself may be killed at any point.                                      *)
(*                                                                         *)
(* A wait has a deadline, and late says that it has passed, but for the    *)
(* scripts that conftest.py runs and waits for.  The emulator is taken to  *)
(* answer the calls of its client.  All tests have one node id, under one  *)
(* evidence root and lane, the case in which their directories meet;       *)
(* evidence is on.  Each test is a session of its own, so a fixture of     *)
(* session scope is set up for each.                                       *)
(***************************************************************************)
EXTENDS BbcScreen, YamlSuite, TestEnv

CONSTANTS
  Plans,        \* the lists of fixtures a test may ask for
  Suites,       \* the YAML files
  Programs,     \* the BASIC programs: their lines and what they print
  Environments, \* what the variables are set to when the tests are started
  Hosts,        \* the host's directories and files
  MaxTests,     \* bound: tests run one after another
  MaxKills      \* bound: times the harness is killed

Fixtures == {"service", "firmware", "tree", "evidence", "bbc", "device"}

\* pytest sets a fixture up once per test, those it asks for before it: the
\* fixtures of the machine, and only they, ask for the evidence.  A test has
\* one firmware, with the host tree or without.
ASSUME PlanAssumption ==
  /\ MaxTests \in Nat /\ MaxKills \in Nat
  /\ \A p \in Plans :
       /\ p \in Seq(Fixtures)
       /\ \A i, j \in DOMAIN p :
            (p[i] = p[j] \/ {p[i], p[j]} \subseteq {"firmware", "tree"}) => i = j
       /\ \A i \in DOMAIN p : p[i] = "bbc" => \E j \in DOMAIN p : j < i /\ p[j] = "evidence"
       /\ \A i \in DOMAIN p : p[i] = "evidence" => \E j \in DOMAIN p : i < j /\ p[j] = "bbc"

\* The lines of suites and programs are among those the machine is told of.
ASSUME SuiteAssumption ==
  /\ {FHOST, FMOUNT, "NEW", "RUN"} \subseteq Texts /\ \A d \in DOMAIN FIN : FIN[d] \in Texts
  /\ \A p \in Programs : p.lines \in Seq(Texts)
  /\ \A s \in Suites : Loads(s) =>
       /\ string_list(s.paste) \in Seq(Texts) /\ s.steps.list \in Seq(Range(s.steps.list))
       /\ \A i \in DOMAIN s.steps.list :
            /\ string_list(s.steps.list[i].paste) \in Seq(Texts)
            /\ s.steps.list[i].checks \in Seq(Range(s.steps.list[i].checks))

\* A host's disk is a tree, and no name is blank.
ASSUME EnvAssumption ==
  /\ {"py", Package, "__init__.py"} \subseteq PathNames
  /\ Home \in Seq(PathNames) \ {None} /\ Here \in Seq(PathNames) \ {None}
  /\ Environments \subseteq [EnvNames -> Setting]
  /\ \A h \in Hosts :
       /\ h.dirs \cup h.files \cup h.execs \subseteq Seq(PathNames)
       /\ \A path \in h.dirs \cup h.files : Len(path) > 1 => Front(path) \in h.dirs

VARIABLES
  pc,           \* where the harness is
  test,         \* number of the current test
  plan, up,     \* fixtures asked for, fixtures set up
  todo,         \* items of the body still to do
  report,       \* outcome of the body, "none" before it ended
  late,         \* the deadline of the current wait has passed
  sure,         \* the command waited for could not be mistaken when typed
  seen,         \* the screen as the check read it
  firmware,     \* per test: its process, its pty and its directory
  port,         \* the service: closed, starting or open
  captures,     \* what the recorder of this test has captured
  running,      \* the directory of the running test, << >> or one
  kept,         \* the directories of finished tests
  kills

body == <<todo, report, sure, seen>>
store == <<captures, running, kept>>
testVars == <<machine, pc, test, plan, up, late, body, firmware, port, store, kills,
          env, hostdisk>>

NoFirmware == [proc |-> "none", pty |-> FALSE, dir |-> FALSE, started |-> FALSE]

TestInit ==
  /\ screen = << >> /\ keys = << >> /\ mach = "off"
  /\ env \in Environments
  /\ \E h \in Hosts : dirs = h.dirs /\ files = h.files /\ execs = h.execs
  /\ pc = "start" /\ test = 0 /\ plan = << >> /\ up = << >> /\ late = FALSE
  /\ todo = << >> /\ report = "none" /\ sure = FALSE /\ seen = << >>
  /\ firmware = [t \in 1..MaxTests |-> NoFirmware] /\ port = "closed"
  /\ captures = << >> /\ running = << >> /\ kept = {} /\ kills = 0

\* conftest.py is loaded.
Configure ==
  /\ pc = "start"
  /\ UNCHANGED hostdisk
  /\ LET first == ensure_environment(env)
         found == resolve_fujinet_tools_root(first) # None
     IN \/ Resolves(env) /\ found /\ pc' = "idle"
           /\ env' = add_fujinet_tools_to_path(first)
        \/ ~(Resolves(env) /\ found) /\ pc' = "exit" /\ UNCHANGED env
  /\ UNCHANGED <<machine, test, plan, up, late, body, firmware, port, store, kills>>

Begin ==
  /\ pc = "idle" /\ test < MaxTests
  /\ test' = test + 1 /\ pc' = "setup"
  /\ plan' \in Plans
  /\ UNCHANGED <<machine, up, late, body, firmware, port, store, kills>>

----------------------------------------------------------------------------
(* Fixtures.  A step in which a script ends that conftest.py waits for is  *)
(* the script's: nothing in the harness makes it happen.                   *)

Due_is(f) == Len(up) < Len(plan) /\ plan[Len(up) + 1] = f

Due(f) == pc = "setup" /\ Due_is(f)

\* The fixture due is set up.
SetUp == pc' = "setup" /\ up' = Append(up, plan[Len(up) + 1]) /\ late' = FALSE

\* It raised or skipped: it is not torn down itself, those before it are.
NotSetUp == pc' = "teardown" /\ late' = FALSE /\ UNCHANGED up

Await(place) == pc' = place /\ late' = FALSE /\ UNCHANGED up

\* http_fs_service, httpbin_service: start_test_services.sh is run, unless it
\* cannot be.
FindService ==
  /\ Due("service")
  /\ \/ port = "open" /\ SetUp /\ UNCHANGED port
     \/ port # "open" /\ port' = "starting" /\ Await("script")
     \/ port # "open" /\ NotSetUp /\ UNCHANGED port
  /\ UNCHANGED <<machine, test, plan, body, firmware, store, kills>>

\* It ends, and says whether it failed.
ServiceScript ==
  /\ pc = "script"
  /\ Await("service") \/ NotSetUp
  /\ UNCHANGED <<machine, test, plan, body, firmware, port, store, kills>>

PollService ==
  /\ pc = "service"
  /\ \/ ~late /\ port = "open" /\ SetUp
     \/ late /\ NotSetUp
  /\ UNCHANGED <<machine, test, plan, body, firmware, port, store, kills>>

\* IsolatedFujinet(): without a binary the test is skipped before it.
MakeRunDir ==
  /\ Due("firmware") \/ Due("tree")
  /\ \/ NotSetUp /\ UNCHANGED firmware
     \/ /\ pc' = "prepare" /\ firmware' = [firmware EXCEPT ![test].dir = TRUE]
        /\ UNCHANGED <<up, late>>
  /\ UNCHANGED <<machine, test, plan, body, port, store, kills>>

\* start, up to its loop: the configuration, the log and the process, which
\* may not be there.
Started ==
  \/ Await("poll") /\ firmware' = [firmware EXCEPT ![test].proc = "running"]
  \/ NotSetUp /\ UNCHANGED firmware

\* The host tree may lack a tool; its images are built before the start.
Prepare ==
  /\ pc = "prepare"
  /\ \/ Due_is("firmware") /\ Started
     \/ Due_is("tree") /\ (Await("weather") \/ NotSetUp) /\ UNCHANGED firmware
  /\ UNCHANGED <<machine, test, plan, body, port, store, kills>>

\* create_ssd.py ends, for weather.ssd and then for iss.ssd.
ImageScript ==
  /\ \/ pc = "weather" /\ (Await("iss") \/ NotSetUp) /\ UNCHANGED firmware
     \/ pc = "iss" /\ Started
  /\ UNCHANGED <<machine, test, plan, body, port, store, kills>>

\* The loop of start: the pty is looked for first, then the process.
PollFirmware ==
  /\ pc = "poll"
  /\ \/ /\ ~late /\ firmware[test].pty /\ SetUp
        /\ firmware' = [firmware EXCEPT ![test].started = TRUE]
     \/ /\ late \/ (~firmware[test].pty /\ firmware[test].proc = "gone")
        /\ NotSetUp /\ UNCHANGED firmware
  /\ UNCHANGED <<machine, test, plan, body, port, store, kills>>

\* ScreenEvidenceRecorder(): a directory left by a killed run is used again.
OpenEvidence ==
  /\ Due("evidence") /\ SetUp
  /\ captures' = << >>
  /\ running' = IF running = << >> THEN <<[files |-> << >>, list |-> << >>]>> ELSE running
  /\ UNCHANGED <<machine, test, plan, body, firmware, port, kept, kills>>

Launch ==
  /\ Due("bbc")
  /\ \/ /\ Await("boot")
        /\ mach' = "boot" /\ screen' = << >> /\ keys' = << >>
     \/ NotSetUp /\ UNCHANGED machine
  /\ UNCHANGED <<test, plan, body, firmware, port, store, kills>>

\* READY precedes the prompt: the first key waits for the prompt.
AwaitBoot ==
  /\ pc = "boot"
  /\ \/ ~late /\ HasPrompt /\ SetUp /\ UNCHANGED mach
     \/ late /\ NotSetUp /\ mach' = "off"
  /\ UNCHANGED <<screen, keys, test, plan, body, firmware, port, store, kills>>

\* FujiDevice.start with rpc-serial starts a thread and cannot fail.
StartDevice ==
  /\ Due("device") /\ SetUp
  /\ UNCHANGED <<machine, test, plan, body, firmware, port, store, kills>>

----------------------------------------------------------------------------
(* The evidence of the running test.                                       *)

\* The files have numbers, those of an earlier run among them.
Written(old, i, c) == [n \in DOMAIN old \cup {i} |-> IF n = i THEN c ELSE old[n]]

\* capture, first half: the file of the next number.
Saved(c) ==
  /\ running' = <<[running[1] EXCEPT !.files = Written(@, Len(captures) + 1, c)]>>
  /\ UNCHANGED <<captures, kept>>

\* capture, second half, after the picture: the list, which _write_captures
\* writes anew.
Noted(c) ==
  /\ captures' = Append(captures, c)
  /\ running' = <<[running[1] EXCEPT !.list = Append(captures, c)]>>
  /\ UNCHANGED kept

\* Faulty variant: the first name is taken although it exists.
Copy_first(status) == 1

\* _unique_path
Copy(status) ==
  Min({n \in 1..(MaxTests + 1) : ~\E d \in kept : d.status = status /\ d.copy = n})

\* _write_metadata
Metadata == Len(captures)

\* finish: the metadata are written, anew after a kill, and the directory moves
\* to the status its test ended with.
Finish(status) ==
  /\ kept' = {d \in kept : <<d.status, d.copy>> # <<status, Copy(status)>>}
               \cup {[status |-> status, copy |-> Copy(status),
                      files |-> running[1].files, list |-> running[1].list,
                      count |-> Metadata, by |-> test]}
  /\ running' = << >> /\ UNCHANGED captures

----------------------------------------------------------------------------
(* The body: run_suite, with command and _wait_for_screen.                 *)

Uses(f) == \E i \in DOMAIN plan : plan[i] = f

ScreenBodies ==
  {SuiteBody(load_suite(s)) : s \in {t \in Suites : Loads(t)}}
    \cup {ProgramBody(p.lines, p.prints) : p \in Programs}

\* The bodies of the tests that have the fixtures asked for.
Bodies == IF Uses("bbc") THEN ScreenBodies ELSE {<<<<[op |-> "log"]>>>>}

Ended(outcome) == report' = outcome /\ pc' = "teardown" /\ todo' = << >>

\* The item of the body the test has come to.
Item == Head(Head(todo))

NextItem ==
  pc' = "body" /\ todo' = <<Tail(Head(todo))>> \o Tail(todo) /\ UNCHANGED report

\* The body starts, or skips itself, or its suite is not one.
Run ==
  /\ pc = "setup" /\ up = plan
  /\ \/ pc' = "body" /\ todo' \in Bodies /\ UNCHANGED report
     \/ Ended("skipped")
     \/ Uses("bbc") /\ (\E s \in Suites : ~Loads(s)) /\ Ended("failed")
  /\ UNCHANGED <<machine, test, plan, up, late, sure, seen, firmware, port, store, kills>>

Doing(op) == pc = "body" /\ todo # << >> /\ Head(todo) # << >> /\ Item.op = op

Type ==
  /\ Doing("type")
  /\ keys' = Append(keys, Item.text)
  /\ sure' = Unmistakable(Item.text)
  /\ Await("command")
  /\ UNCHANGED <<screen, mach, test, plan, todo, report, seen, firmware, port, store, kills>>

\* The command returns: the prompt is back, or a question is on the screen,
\* which is read anew for each.
Returns ==
  /\ pc = "command" /\ ~late
  /\ \/ Ready(Item.text) /\ Found(Bad, screen) /\ Ended("failed")
     \/ Ready(Item.text) /\ ~Found(Bad, screen) /\ NextItem
     \/ AwaitsConfirmation /\ NextItem
  /\ sure' = FALSE
  /\ UNCHANGED <<machine, test, plan, up, late, seen, firmware, port, store, kills>>

NeverReturns ==
  /\ pc = "command" /\ late /\ Ended("failed")
  /\ late' = FALSE /\ sure' = FALSE
  /\ UNCHANGED <<machine, test, plan, up, seen, firmware, port, store, kills>>

Check ==
  /\ Doing("check") /\ Await("look")
  /\ UNCHANGED <<machine, test, plan, body, firmware, port, store, kills>>

Look ==
  /\ pc = "look" /\ pc' = "judge" /\ seen' = screen
  /\ UNCHANGED <<machine, test, plan, up, late, todo, report, sure, firmware, port, store, kills>>

\* _screen_failures
Missing(scr, want) == {w \in want : ~Found(w, scr)}

\* Faulty variant: the recorder reads the screen again.
Checkpoint_read_again ==
  [of |-> Item, met |-> Missing(seen, Item.want) = {}, screen |-> screen, by |-> test]

\* The capture a check takes, of the screen it judged; captured_at, like
\* finished_at in the metadata, tells the runs apart.
Checkpoint ==
  [of |-> Item, met |-> Missing(seen, Item.want) = {}, screen |-> seen, by |-> test]

Judge ==
  /\ pc = "judge"
  /\ LET missing == Missing(seen, Item.want)
     IN \/ /\ missing = {} \/ late
           /\ Saved(Checkpoint) /\ pc' = "picture" /\ UNCHANGED seen
        \/ missing # {} /\ ~late /\ pc' = "look" /\ seen' = << >> /\ UNCHANGED store
  /\ UNCHANGED <<machine, test, plan, up, late, todo, report, sure, firmware, port, kills>>

\* The picture of the screen, taken meanwhile, is left out.
Record ==
  /\ pc = "picture"
  /\ Noted(Checkpoint)
  /\ IF Checkpoint.met THEN NextItem ELSE Ended("failed")
  /\ late' = FALSE /\ seen' = << >>
  /\ UNCHANGED <<machine, test, plan, up, sure, firmware, port, kills>>

\* A test looks for a line in the log of the firmware.
AskLog ==
  /\ Doing("log") /\ Await("log")
  /\ UNCHANGED <<machine, test, plan, body, firmware, port, store, kills>>

\* wait_for_log, and the assertion that it found the line; what the firmware
\* logs and when is left open.
wait_for_log ==
  /\ pc = "log"
  /\ \/ ~late /\ NextItem
     \/ late /\ Ended("failed")
  /\ late' = FALSE
  /\ UNCHANGED <<machine, test, plan, up, sure, seen, firmware, port, store, kills>>

NextStep ==
  /\ pc = "body" /\ todo # << >> /\ Head(todo) = << >>
  /\ todo' = Tail(todo)
  /\ UNCHANGED <<machine, pc, test, plan, up, late, report, sure, seen, firmware, port,
                 store, kills>>

Pass ==
  /\ pc = "body" /\ todo = << >> /\ Ended("passed")
  /\ UNCHANGED <<machine, test, plan, up, late, sure, seen, firmware, port, store, kills>>

----------------------------------------------------------------------------
(* Tear down, from the last fixture to the first.                          *)

Topmost(f) == pc = "teardown" /\ up # << >> /\ up[Len(up)] = f

TornDown(place) == pc' = place /\ up' = SubSeq(up, 1, Len(up) - 1)

\* The reader thread ends; a service outlives the test.
LetGo ==
  /\ Topmost("device") \/ Topmost("service")
  /\ TornDown("teardown")
  /\ UNCHANGED <<machine, test, plan, late, body, firmware, port, store, kills>>

\* The last capture, of whatever is on the screen, is kept without it.
LastCapture(op) == [of |-> [op |-> op], met |-> TRUE, screen |-> << >>, by |-> test]

\* Where the screen cannot be read, the list says so and no file is written.
CaptureLast ==
  /\ Topmost("bbc")
  /\ \/ pc' = "final" /\ Saved(LastCapture("final"))
     \/ pc' = "unread" /\ UNCHANGED store
  /\ UNCHANGED <<machine, test, plan, up, late, body, firmware, port, kills>>

CloseMachine ==
  /\ pc \in {"final", "unread"} /\ TornDown("teardown")
  /\ Noted(LastCapture(pc))
  /\ mach' = "off" /\ screen' = << >> /\ keys' = << >>
  /\ UNCHANGED <<test, plan, late, body, firmware, port, kills>>

CloseEvidence ==
  /\ Topmost("evidence") /\ TornDown("teardown")
  /\ Finish(IF report = "none" THEN "unknown" ELSE report)
  /\ UNCHANGED <<machine, test, plan, late, body, firmware, port, kills>>

\* stop: a process that runs is asked to end.
StopFirmware ==
  /\ Topmost("firmware") \/ Topmost("tree")
  /\ LET runs == firmware[test].proc = "running"
     IN /\ pc' = IF runs THEN "stop" ELSE "remove"
        /\ firmware' = IF runs THEN [firmware EXCEPT ![test].proc = "asked"] ELSE firmware
  /\ late' = FALSE
  /\ UNCHANGED <<machine, test, plan, up, body, port, store, kills>>

\* Faulty variant: the wait for the process has no deadline.
OutOfPatience_never == FALSE

\* Faulty variant: the process is left to itself after the deadline.
Killed_left == firmware

\* wait(timeout=5) raised.
OutOfPatience == late

Killed == [firmware EXCEPT ![test].proc = "gone"]

AwaitEnd ==
  /\ pc = "stop" /\ pc' = "remove"
  /\ \/ firmware[test].proc = "gone" /\ UNCHANGED firmware
     \/ firmware[test].proc = "asked" /\ OutOfPatience /\ firmware' = Killed
  /\ UNCHANGED <<machine, test, plan, up, late, body, port, store, kills>>

\* cleanup: the directory goes whatever became of the process.
RemoveRunDir ==
  /\ pc = "remove" /\ TornDown("teardown")
  /\ firmware' = [firmware EXCEPT ![test].dir = FALSE]
  /\ UNCHANGED <<machine, test, plan, late, body, port, store, kills>>

\* Nothing of the test is left in the harness.
Forgotten ==
  /\ pc' = "idle" /\ plan' = << >> /\ up' = << >> /\ late' = FALSE
  /\ todo' = << >> /\ report' = "none" /\ sure' = FALSE /\ seen' = << >>
  /\ screen' = << >> /\ keys' = << >> /\ mach' = "off" /\ captures' = << >>

End ==
  /\ pc = "teardown" /\ up = << >> /\ Forgotten
  /\ UNCHANGED <<test, firmware, port, running, kept, kills>>

----------------------------------------------------------------------------
(* The world around the harness.                                           *)

Waiting ==
  pc \in {"service", "poll", "boot", "command", "look", "judge", "log", "stop"}

\* Time passes.
Deadline ==
  /\ Waiting /\ ~late /\ late' = TRUE
  /\ UNCHANGED <<machine, pc, test, plan, up, body, firmware, port, store, kills>>

\* The firmware makes its pty, or ends: of itself or because it was asked to.
Firmware ==
  /\ \E t \in 1..test :
       \/ /\ firmware[t].proc = "running" /\ ~firmware[t].pty
          /\ firmware' = [firmware EXCEPT ![t].pty = TRUE]
       \/ /\ firmware[t].proc \in {"running", "asked"}
          /\ firmware' = [firmware EXCEPT ![t].proc = "gone"]
  /\ UNCHANGED <<machine, pc, test, plan, up, late, body, port, store, kills>>

Service ==
  /\ port = "starting" /\ port' = "open"
  /\ UNCHANGED <<machine, pc, test, plan, up, late, body, firmware, store, kills>>

Machine ==
  /\ MachineNext
  /\ UNCHANGED <<pc, test, plan, up, late, body, firmware, port, store, kills>>

\* The harness is killed, between any two steps: nothing is torn down.
Kill ==
  /\ pc \notin {"start", "exit", "idle"} /\ kills < MaxKills
  /\ kills' = kills + 1 /\ Forgotten
  /\ firmware' = [firmware EXCEPT ![test].started = FALSE]
  /\ UNCHANGED <<test, port, running, kept>>

Harness ==
  \/ FindService \/ PollService \/ MakeRunDir \/ Prepare \/ PollFirmware
  \/ OpenEvidence \/ Launch \/ AwaitBoot \/ StartDevice
  \/ Run \/ Type \/ Returns \/ NeverReturns \/ Check \/ Look \/ Judge \/ Record
  \/ AskLog \/ wait_for_log \/ NextStep \/ Pass
  \/ LetGo \/ CaptureLast \/ CloseMachine \/ CloseEvidence
  \/ StopFirmware \/ AwaitEnd \/ RemoveRunDir \/ End

Scripts == ServiceScript \/ ImageScript

Session ==
  Begin \/ Harness \/ Scripts \/ Deadline \/ Firmware \/ Service \/ Machine \/ Kill

TestNext == Configure \/ (Session /\ UNCHANGED <<env, hostdisk>>)

\* The harness runs and time passes; nothing else is bound to happen.
TestSpec ==
  /\ TestInit /\ [][TestNext]_testVars
  /\ WF_testVars(Harness /\ UNCHANGED <<env, hostdisk>>)
  /\ WF_testVars(Deadline /\ UNCHANGED <<env, hostdisk>>)

----------------------------------------------------------------------------
(* Properties.                                                             *)

\* A firmware that a test got hold of has ended, and its directory is gone,
\* when the test is over: whatever failed in the body or in another fixture,
\* and whether or not the process obeys (fujinet_runner.py:9-12, conftest.py).
\* One whose start failed is not covered: no fixture tears it down.
FirmwareGone ==
  pc = "idle" =>
    \A t \in 1..test : firmware[t].started =>
      firmware[t].proc \in {"none", "gone"} /\ ~firmware[t].dir

\* The evidence of a finished test is what it says it is, also in a directory
\* that killed runs have left behind with files and a list of theirs: where the
\* metadata count a capture, the list has that many, all of the run that wrote
\* the metadata, each in the file of its number unless the list says that there
\* is none, and each shows what its label claims.  A test that passed has
\* captures, one for each check of its suite or program, in order, and then the
\* last screen.
AsWritten ==
  {FlattenSeq([i \in DOMAIN s.steps.list |->
     [c \in DOMAIN s.steps.list[i].checks |->
        Waiting_for(s.steps.list[i].name, s.steps.list[i].checks[c].expect)]]) :
     s \in {t \in Suites : Loads(t)}}
  \cup {<<Waiting_for("RUN", p.prints)>> : p \in Programs}

EvidenceProves ==
  \A d \in kept :
    /\ d.count > 0 =>
         /\ d.count = Len(d.list)
         /\ \A i \in DOMAIN d.list :
              /\ d.list[i].by = d.by
              /\ d.list[i].of.op # "unread" =>
                   i \in DOMAIN d.files /\ d.files[i] = d.list[i]
              /\ d.list[i].of.op = "check" =>
                   d.list[i].met <=> Missing(d.list[i].screen, d.list[i].of.want) = {}
    /\ d.status = "passed" =>
         /\ d.count > 0
         /\ [i \in 1..(Len(d.list) - 1) |-> d.list[i].of] \in AsWritten
         /\ Last(d.list).of.op \in {"final", "unread"}
         /\ \A i \in DOMAIN d.list : d.list[i].met

\* Evidence of a finished test is never changed, replaced or lost by a later
\* one, under the same root after a kill as well (evidence.py, _unique_path).
EvidenceKept == [][kept \subseteq kept']_kept

\* When command returns for a line nothing on the screen could be mistaken
\* for, the machine has run it, and every line before it, to the end or to a
\* question: the next line is not typed into a running program (helpers.py).
CommandsDone ==
  [][ pc = "command" /\ pc' = "body" /\ sure => keys = << >> /\ mach \in {"idle", "asks"} ]_pc

\* Every test comes to an end, whatever the machine, the firmware and the
\* service do, as long as the scripts that conftest.py runs end: those it waits
\* for without a deadline (conftest.py:290, :296, :337, :366).
TestsEnd ==
  []<>(pc \notin {"script", "weather", "iss"}) => (test > 0 ~> pc = "idle")

\* Set so that it reads as it resolves: without spaces around it, and with a ~
\* only where it is expanded again; FUJINET_NIO_HOME not relative, because the
\* script in it is run from there; and FUJINET_TOOLS, which is always put back
\* resolved, does not nest the names resolve_fujinet_tools_root takes a step
\* up for.
WellSet(e) ==
  /\ \A name \in EnvNames \ {"FUJINET_TOOLS"} :
       /\ ~e[name].padded /\ e[name].from # "blank"
       /\ e[name].from = "home" => name = "BEEBIUM_BASIC"
       /\ e[name].from = "here" => name # "FUJINET_NIO_HOME"
  /\ LET path == EnvPath(e, "FUJINET_TOOLS")
     IN  \A i \in 1..(Len(path) - 1) : path[i] = path[i + 1] => path[i] \notin {Package, "py"}

\* What conftest.py reads back from the environment is there when a session
\* starts, whichever variables were set, relative ones included, and looking
\* again gives the same: as long as they are well set, and BEEBIUM_BASIC not to
\* a file that is missing.
EnvironmentUsable ==
  [][ pc = "start" /\ pc' = "idle" /\ WellSet(env) =>
        /\ AsRead(env["BEEBIUM_HOME"])' \in dirs /\ AsRead(env["BEEBIUM_SERVER"])' \in execs
        /\ AsRead(env["BEEBIUM_MOS"])' \in files /\ AsRead(env["BEEBIUM_ROM_DIR"])' \in dirs
        /\ AsRead(env["FUJINET_TOOLS"])' \in dirs
        /\ ScriptRun(env["FUJINET_NIO_HOME"])' \in files
        /\ EnvPath(env, "BEEBIUM_BASIC") \in files \cup {None} =>
             Expanded(env["BEEBIUM_BASIC"])' \in files \cup {None}
        /\ add_fujinet_tools_to_path(ensure_environment(env))' = env' ]_pc
=============================================================================
