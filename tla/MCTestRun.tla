------------------------------ MODULE MCTestRun ------------------------------
(* Instances of TestRun for TLC: the fixture lists of the tests, suites     *)
(* with a line typed twice, a line that clears and a question, and the      *)
(* variables set, missing, blank or wrong on a host with and without tools. *)
EXTENDS TestRun

MCTexts == {"fhost", "fin", "fmount", "cat", "chain", "wipe", "NEW", "line", "RUN"}
MCShows == [t \in MCTexts |-> {t}]
MCReplies ==
  [t \in MCTexts |->
     CASE t = "cat" -> {<<"list">>, <<"bad">>}
       [] t \in {"chain", "RUN"} -> {<<"list">>}
       [] t = "wipe" -> {<<"ask">>}
       [] OTHER -> {<< >>}]
MCFIN == [disk \in {"tests"} |-> "fin"]

MCPlans ==
  {<<"evidence", "bbc", "device">>, <<"service", "tree", "evidence", "bbc">>,
   <<"firmware">>}

Nothing == [kind |-> "none"]
Text(t) == [kind |-> "text", text |-> t]
List(l) == [kind |-> "list", list |-> l]
Step(name, paste, checks) ==
  [kind |-> "map", name |-> name, paste |-> paste, checks |-> checks]
Suite(paste, steps) == [kind |-> "map", disk |-> "tests", paste |-> paste, steps |-> steps]
Screen(want) == [kind |-> "screen", expect |-> want]

MCSuites ==
  {Suite(Text("chain"), List(<<Step("s1", Nothing, <<Screen({"list"}), Screen({""})>>),
                               Step("s2", List(<<"cat">>), << >>)>>)),
   Suite(Nothing, List(<<Step("s1", List(<<"wipe", "wipe">>), <<Screen({"ask"})>>)>>)),
   Suite(Nothing, Nothing),
   Suite(Nothing, List(<<Step("s1", Nothing, <<Text("shown")>>)>>))}

MCPrograms == {[lines |-> <<"line">>, prints |-> {"list"}]}

Spelled(from, names) == [from |-> from, padded |-> FALSE, names |-> names]
Padded(text) == [text EXCEPT !.padded = TRUE]
BlankText == Spelled("blank", << >>)

MCHome == <<"other">>
MCHere == <<"nio">>

Usual ==
  [name \in EnvNames |-> CASE name = "BEEBIUM_HOME" -> str(<<"beebium">>)
                            [] name = "FUJINET_NIO_HOME" -> str(<<"nio">>)
                            [] OTHER -> Unset]

\* Missing, blank, padded, relative, below the home directory, or gone.
Settings(name) ==
  CASE name \in {"BEEBIUM_HOME", "FUJINET_NIO_HOME"} ->
         {Usual[name], BlankText, Padded(Usual[name]), str(<<"gone">>),
          Spelled("home", << >>), Spelled("here", << >>)}
    [] name = "BEEBIUM_ROM_DIR" ->
         {Unset, str(<<"other">>), Spelled("here", <<"py">>), str(<<"gone">>)}
    [] name = "FUJINET_TOOLS" ->
         {Unset, Spelled("here", <<"py">>), str(<<"nio", "py", "fujinet_tools">>),
          Padded(Spelled("home", <<"fujinet_tools">>)), str(<<"gone", "fujinet_tools">>),
          str(<<"gone", "fujinet_tools", "fujinet_tools">>)}
    [] OTHER ->
         {Unset, BlankText, str(<<"other", "file">>), Padded(str(<<"other", "file">>)),
          Spelled("home", <<"file">>), Spelled("here", <<"scripts", "start_test_services.sh">>),
          str(<<"gone">>)}

\* Up to two variables are set to something else.
MCEnvironments ==
  UNION {{[[Usual EXCEPT ![p[1]] = x] EXCEPT ![p[2]] = y] :
            x \in Settings(p[1]), y \in Settings(p[2])} : p \in EnvNames \X EnvNames}

MCPathNames ==
  {"beebium", "build", "build-release", "roms", "OS12", "bbc-basic", "nio", "py",
   "fujinet_tools", "__init__.py", "scripts", "start_test_services.sh", "other", "file", "gone"}

Whole ==
  [dirs |-> {<<"beebium">>, <<"beebium", "build">>, <<"beebium", "build-release">>,
             <<"beebium", "roms">>, <<"other">>, <<"nio">>, <<"nio", "py">>,
             <<"nio", "py", "fujinet_tools">>, <<"nio", "scripts">>},
   files |-> {<<"beebium", "build", "beebium">>, <<"beebium", "build-release", "beebium">>,
              <<"beebium", "roms", "OS12">>, <<"beebium", "roms", "bbc-basic">>,
              <<"other", "file">>, <<"nio", "scripts", "start_test_services.sh">>},
   execs |-> {<<"beebium", "build", "beebium">>}]

\* The emulator not built, the tools not there.
MCHosts ==
  {Whole, [Whole EXCEPT !.execs = {}],
   [Whole EXCEPT !.dirs = @ \ {<<"nio", "py", "fujinet_tools">>}]}

Found_by_default ==
  [Usual EXCEPT !["BEEBIUM_SERVER"] = str(<<"beebium", "build", "beebium">>),
                !["BEEBIUM_MOS"] = str(<<"beebium", "roms", "OS12">>),
                !["BEEBIUM_ROM_DIR"] = str(<<"beebium", "roms">>),
                !["BEEBIUM_BASIC"] = str(<<"beebium", "roms", "bbc-basic">>),
                !["FUJINET_TOOLS"] = str(<<"nio", "py">>)]

\* Bound: tests are run in one environment on one host; no step of a test
\* depends on either.
InOneEnvironment == test > 0 => env = Found_by_default /\ dirs = Whole.dirs

\* The checks a test has still to make, and those the directories have files of.
Checks ==
  {item \in Range(FlattenSeq(todo))
              \cup UNION {{f[n].of : n \in DOMAIN f} :
                            f \in {d.files : d \in kept \cup Range(running)}} :
     item.op = "check"}

\* Bounds: the tests of a session in which some are killed are those of the
\* program and of the firmware, and a third test comes only after two kills and
\* where there was no firmware.
AfterKills ==
  /\ kills > 0 =>
       /\ plan \in {<< >>, <<"firmware">>, <<"evidence", "bbc", "device">>}
       /\ \A item \in Checks : item.step = "RUN"
  /\ test > 2 => kills = 2 /\ \A t \in 1..MaxTests : firmware[t] = NoFirmware

Bounded == InOneEnvironment /\ AfterKills
=============================================================================
