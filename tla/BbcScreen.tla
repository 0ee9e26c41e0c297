------------------------------ MODULE BbcScreen ------------------------------
(***************************************************************************)
(* The screen of the emulated machine as a test sees it, and the ways a    *)
(* test decides that a typed command is over                               *)
(* (src/integration-tests/beebium/helpers.py).  The machine itself is      *)
(* external: it takes the lines typed at it in order, shows each after its *)
(* prompt, prints what the command prints, and prompts again.  Nothing     *)
(* makes it do so in time, or at all.                                      *)
(*                                                                         *)
(* A row is [prompt, text]: an echo or a bare prompt starts with ">", a    *)
(* row of output does not.  A row shows one text, so a text is found on    *)
(* the screen when a row has it.                                           *)
(***************************************************************************)
EXTENDS Integers, Sequences, FiniteSetsExt

CONSTANTS
  Texts,      \* the lines a test types
  Shows,      \* Shows[t]: the lines whose echo has t's marker in it
  Clears,     \* the lines that clear the screen or replace their own echo
  Replies,    \* Replies[t]: what the command t may print
  Question,   \* the row that asks for a confirmation, "(Y/N)"
  Bad,        \* the row "Bad program"
  Rows        \* rows of the screen

\* No line asks for a confirmation, or is taken for a state of the machine.
ASSUME ScreenAssumption ==
  /\ Clears \subseteq Texts
  /\ \A t \in Texts :
       t \in Shows[t] /\ Shows[t] \subseteq Texts /\ Replies[t] \subseteq Seq(STRING)
  /\ Texts \cap {Question, "off", "boot", "idle", "asks", "ends"} = {}
  /\ Rows \in Nat \ {0}

VARIABLES
  screen,     \* rows, oldest first
  keys,       \* lines typed and not yet read by the machine
  mach        \* off, boot, idle, asks, ends, or the line it is running

machine == <<screen, keys, mach>>

Prompt == [prompt |-> TRUE, text |-> ""]
Output(o) == [prompt |-> FALSE, text |-> o]

ScrolledTo(rows) == SubSeq(rows, Max({1, Len(rows) - Rows + 1}), Len(rows))

----------------------------------------------------------------------------
(* What a test asks of the screen.                                         *)

Found(text, scr) == \E i \in DOMAIN scr : scr[i].text = text

EchoRows(t) == {i \in DOMAIN screen : screen[i].prompt /\ screen[i].text \in Shows[t]}

\* _has_prompt
HasPrompt == \E i \in DOMAIN screen : screen[i].prompt

\* Faulty variant: the row of the echo itself is looked at.
HasPromptAfterEcho_from_echo(t) ==
  /\ EchoRows(t) # {}
  /\ \E i \in DOMAIN screen : i >= Min(EchoRows(t)) /\ screen[i].prompt

\* _has_prompt_after_echo: the first row with the marker counts, and any row
\* below it that starts with ">".
HasPromptAfterEcho(t) ==
  /\ EchoRows(t) # {}
  /\ \E i \in DOMAIN screen : i > Min(EchoRows(t)) /\ screen[i].prompt

\* CLS, MODE, CHAIN and *RUN lines are not waited for by their echo.
ClearsOrReplacesEcho(t) == t \in Clears

\* The test command makes, by the kind of line that was typed.
Ready(t) == IF ClearsOrReplacesEcho(t) THEN HasPrompt ELSE HasPromptAfterEcho(t)

AwaitsConfirmation == Found(Question, screen)

\* Nothing on the screen can be mistaken for the end of t.
Unmistakable(t) ==
  /\ ~ClearsOrReplacesEcho(t) /\ EchoRows(t) = {} /\ ~AwaitsConfirmation
  /\ mach = "idle" /\ keys = << >>

----------------------------------------------------------------------------
(* The machine.                                                            *)

Boots ==
  /\ mach = "boot" /\ mach' = "idle"
  /\ screen' = <<Prompt>> /\ UNCHANGED keys

ReadsLine ==
  /\ mach = "idle" /\ keys # << >>
  /\ mach' = Head(keys) /\ keys' = Tail(keys)
  /\ screen' = [screen EXCEPT ![Len(screen)].text = Head(keys)]

Prints ==
  /\ mach \in Texts
  /\ \E reply \in Replies[mach] :
       /\ screen' = ScrolledTo((IF mach \in Clears THEN << >> ELSE screen)
                                 \o [i \in DOMAIN reply |-> Output(reply[i])])
       /\ mach' = IF \E i \in DOMAIN reply : reply[i] = Question
                  THEN "asks" ELSE "ends"
  /\ UNCHANGED keys

\* A line typed at a question is its answer.
TakesAnswer ==
  /\ mach = "asks" /\ keys # << >>
  /\ mach' = "ends" /\ keys' = Tail(keys) /\ UNCHANGED screen

Prompts ==
  /\ mach = "ends" /\ mach' = "idle"
  /\ screen' = ScrolledTo(Append(screen, Prompt)) /\ UNCHANGED keys

MachineNext == Boots \/ ReadsLine \/ Prints \/ TakesAnswer \/ Prompts
=============================================================================
