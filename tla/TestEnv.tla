------------------------------- MODULE TestEnv -------------------------------
(***************************************************************************)
(* Where the end-to-end tests find what they need                          *)
(* (src/integration-tests/beebium/beebium_test_env.py): two variables are  *)
(* required, the others are derived from them or override what would be    *)
(* derived, and what was found is put back into the environment, where     *)
(* conftest.py reads it.                                                   *)
(*                                                                         *)
(* A path is a sequence of names below the root directory.  The text a     *)
(* variable is set to is a path, or one below the home directory (spelled  *)
(* with a ~) or below the working directory (relative), and it may have    *)
(* spaces around it.  Links and .. are left out.                           *)
(***************************************************************************)
EXTENDS SequencesExt

CONSTANTS
  PathNames, \* the names of files and directories
  Home,      \* the home directory
  Here       \* the directory the tests run in

\* No path.
None == << >>

Origins == {"unset", "blank", "root", "home", "here"}

\* Nobody sets one to the root directory itself.
Setting ==
  {text \in [from : Origins, padded : BOOLEAN, names : Seq(PathNames)] :
     text.from = "root" => text.names # None}

Unset == [from |-> "unset", padded |-> FALSE, names |-> None]

\* str(path): resolved paths begin at the root.
str(path) == [from |-> "root", padded |-> FALSE, names |-> path]

VARIABLES
  env,      \* the environment: variable -> what it is set to
  dirs,     \* directories of the host
  files,    \* files of the host
  execs     \* those that are executable

hostdisk == <<dirs, files, execs>>

----------------------------------------------------------------------------
(* Each resolve_ function reads the environment e and gives None where the *)
(* code ends the session.                                                  *)

EnvNames ==
  {"BEEBIUM_HOME", "FUJINET_NIO_HOME", "BEEBIUM_SERVER", "BEEBIUM_MOS",
   "BEEBIUM_ROM_DIR", "BEEBIUM_BASIC", "FUJINET_TOOLS"}

\* strip, expanduser, resolve
Resolved(text) ==
  CASE text.from \in {"unset", "blank"} -> None
    [] text.from = "home" -> Home \o text.names
    [] text.from = "here" -> Here \o text.names
    [] OTHER -> text.names

\* _env_path
EnvPath(e, name) == Resolved(e[name])

\* Path(os.environ[name]), as the operating system takes it: with spaces
\* around it, or with a ~, it is the path of nothing.
AsRead(text) == IF text.padded \/ text.from = "home" THEN None ELSE Resolved(text)

\* Path(os.environ[name]).expanduser()
Expanded(text) == IF text.padded THEN None ELSE Resolved(text)

Inside(path, names) == path \o names

If(path, there) == IF path \in there THEN path ELSE None

\* _first_file, _first_executable
First(paths, there) ==
  LET i == SelectInSeq(paths, LAMBDA p : p \in there)
  IN  IF i = 0 THEN None ELSE paths[i]

resolve_beebium_home(e) == If(EnvPath(e, "BEEBIUM_HOME"), dirs)

resolve_beebium_rom_dir(e, home) ==
  IF EnvPath(e, "BEEBIUM_ROM_DIR") # None
  THEN If(EnvPath(e, "BEEBIUM_ROM_DIR"), dirs)
  ELSE If(Inside(home, <<"roms">>), dirs)

Servers(home) ==
  <<Inside(home, <<"build-release", "beebium">>), Inside(home, <<"build", "beebium">>)>>

\* Faulty variant: the server need not be executable.
resolve_beebium_server_any(e, home) ==
  IF EnvPath(e, "BEEBIUM_SERVER") # None
  THEN EnvPath(e, "BEEBIUM_SERVER")
  ELSE First(Servers(home), execs)

resolve_beebium_server(e, home) ==
  IF EnvPath(e, "BEEBIUM_SERVER") # None
  THEN If(EnvPath(e, "BEEBIUM_SERVER"), execs)
  ELSE First(Servers(home), execs)

resolve_beebium_mos(e, home) ==
  IF EnvPath(e, "BEEBIUM_MOS") # None
  THEN If(EnvPath(e, "BEEBIUM_MOS"), files)
  ELSE LET roms == resolve_beebium_rom_dir(e, home)
       IN  IF roms = None THEN None
           ELSE First(<<Inside(roms, <<"acorn-mos">>), Inside(roms, <<"OS12">>)>>, files)

\* No BASIC is no reason to end the session.
resolve_beebium_basic(e, home) ==
  IF EnvPath(e, "BEEBIUM_BASIC") # None
  THEN If(EnvPath(e, "BEEBIUM_BASIC"), files)
  ELSE LET roms == resolve_beebium_rom_dir(e, home)
       IN  First(<<Inside(roms, <<"bbc-basic">>), Inside(roms, <<"BASIC2">>)>>, files)

resolve_fujinet_nio_home(e) == If(EnvPath(e, "FUJINET_NIO_HOME"), dirs)

Package == "fujinet_tools"

\* The package itself, its parent, or any other directory.
resolve_fujinet_tools_root(e) ==
  LET given == EnvPath(e, "FUJINET_TOOLS")
      root == Inside(resolve_fujinet_nio_home(e), <<"py">>)
  IN  IF given = None
      THEN IF Inside(root, <<Package>>) \in dirs THEN root ELSE None
      ELSE IF Last(given) = Package THEN Front(given)
      ELSE IF Inside(given, <<Package>>) \in dirs THEN given
      ELSE IF /\ Inside(given, <<"__init__.py">>) \in files
              /\ Len(given) > 1 /\ Last(Front(given)) = "py"
           THEN Front(given)
      ELSE If(given, dirs)

Script == <<"scripts", "start_test_services.sh">>

Services(e) == Inside(resolve_fujinet_nio_home(e), Script)

\* What http_fs_service and httpbin_service run: the script's path is looked
\* up from the working directory of the new process, FUJINET_NIO_HOME itself.
ScriptRun(text) ==
  IF text.from = "here" THEN Inside(AsRead(text), text.names \o Script)
                        ELSE Inside(AsRead(text), Script)

\* What ensure_environment must find before it publishes anything.
Resolves(e) ==
  LET home == resolve_beebium_home(e)
  IN  /\ home # None /\ resolve_fujinet_nio_home(e) # None
      /\ resolve_beebium_server(e, home) # None /\ resolve_beebium_mos(e, home) # None
      /\ resolve_beebium_rom_dir(e, home) # None
      /\ resolve_fujinet_tools_root(e) # None /\ Services(e) \in files

\* os.environ.setdefault: a variable that is set stays as it is spelled.
SetDefault(old, path) == IF old.from = "unset" THEN str(path) ELSE old

\* The environment that is published; where that fails nothing that matters
\* was published, because the session ends.
ensure_environment(e) ==
  LET home == resolve_beebium_home(e)
      basic == resolve_beebium_basic(e, home)
  IN  [e EXCEPT
        !["BEEBIUM_SERVER"] = SetDefault(@, resolve_beebium_server(e, home)),
        !["BEEBIUM_MOS"] = SetDefault(@, resolve_beebium_mos(e, home)),
        !["BEEBIUM_ROM_DIR"] = SetDefault(@, resolve_beebium_rom_dir(e, home)),
        !["BEEBIUM_BASIC"] = IF basic = None THEN @ ELSE SetDefault(@, basic),
        !["FUJINET_TOOLS"] = str(resolve_fujinet_tools_root(e))]

\* Run next, it resolves the root once more, from the one published.
add_fujinet_tools_to_path(e) ==
  [e EXCEPT !["FUJINET_TOOLS"] = str(resolve_fujinet_tools_root(e))]
=============================================================================
