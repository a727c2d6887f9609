------------------------------- MODULE Shell --------------------------------
(***************************************************************************)
(* The bash tool (tools/bash.go): a command in a process group of its own, *)
(* its deadline, the cancellation of the turn, and the end of its output,  *)
(* which every process it leaves behind may hold open.  os/exec is         *)
(* external and modelled as bash.go uses it: when the context is done      *)
(* before bash has exited, Cancel runs; WaitDelay after that or after the  *)
(* exit of bash the pipe is closed whoever holds it.                       *)
(***************************************************************************)
EXTENDS Integers, FiniteSets

CONSTANTS
  Commands  \* bound: commands run

ASSUME ShellAssumption == Commands \in Nat

VARIABLES
  cmd,      \* where the call is
  cancel,   \* what ended the context: "no", "deadline" or "turn"
  alive,    \* processes that run: bash, a child, and a child in a group of its own
  reply,    \* what the last call answered
  early,    \* had bash exited when the context ended?
  commands

shellVars == <<cmd, cancel, alive, reply, early, commands>>

Group == {"bash", "child"}

ShellInit ==
  /\ cmd = "none" /\ cancel = "no" /\ alive = {} /\ reply = "none" /\ early = FALSE
  /\ commands = 0

\* The command starts; what earlier ones left behind is not followed.
RunCommand ==
  /\ cmd = "none" /\ commands < Commands
  /\ cmd' = "running" /\ cancel' = "no" /\ alive' = {"bash"} /\ reply' = "none"
  /\ early' = FALSE /\ commands' = commands + 1

\* bash starts a process in the background, in its group or (setsid) out of it.
Spawn(p) ==
  /\ cmd = "running" /\ "bash" \in alive
  /\ alive' = alive \cup {p}
  /\ UNCHANGED <<cmd, cancel, reply, early, commands>>

\* A process ends by itself.
Exit(p) ==
  /\ p \in alive
  /\ alive' = alive \ {p}
  /\ UNCHANGED <<cmd, cancel, reply, early, commands>>

\* cmd.Cancel: SIGKILL to the whole group.
Kill == alive \ Group

\* The context ends: its deadline passes or the turn is cancelled.  Cancel runs only
\* as long as bash has not been seen to exit.
ContextDone(why) ==
  /\ cmd \in {"running", "draining"} /\ cancel = "no"
  /\ cancel' = why /\ early' = (cmd = "draining")
  /\ alive' = IF cmd = "running" THEN Kill ELSE alive
  /\ UNCHANGED <<cmd, reply, commands>>

\* Wait sees the end of bash and waits for the end of the output.
BashExited ==
  /\ cmd = "running" /\ "bash" \notin alive
  /\ cmd' = "draining"
  /\ UNCHANGED <<cancel, alive, reply, early, commands>>

\* Mutant of Reply: without WaitDelay the output ends when nobody holds the pipe.
ReplyAtEOF(delayed) ==
  /\ cmd = "draining" /\ ~delayed /\ alive = {}
  /\ reply' = (IF cancel = "no" THEN "done" ELSE "error")
  /\ cmd' = "none"
  /\ UNCHANGED <<cancel, alive, early, commands>>

\* The output ends when nobody holds the pipe, or WaitDelay has passed.
Reply(delayed) ==
  /\ cmd = "draining" /\ (delayed = (alive # {}))
  /\ reply' = CASE cancel = "deadline" -> "timed out"
                [] cancel = "turn" \/ delayed -> "error"
                [] OTHER -> "done"
  /\ cmd' = "none"
  /\ UNCHANGED <<cancel, alive, early, commands>>

ShellStep == BashExited \/ \E delayed \in BOOLEAN : Reply(delayed)

Deadline == ContextDone("deadline")

ShellNext ==
  \/ RunCommand \/ ShellStep \/ Deadline \/ ContextDone("turn")
  \/ \E p \in {"child", "stray"} : Spawn(p)
  \/ \E p \in Group \cup {"stray"} : Exit(p)

ShellSpec == ShellInit /\ [][ShellNext]_shellVars

\* Time passes for the tool; no process need ever end.
ShellFairSpec == ShellSpec /\ WF_shellVars(ShellStep) /\ WF_shellVars(Deadline)

----------------------------------------------------------------------------
\* "Own process group so a timeout kills the whole tree": when a call has answered that
\* the command was killed or cancelled, or still cleans up after it, only processes
\* that left the group run on; unless bash had ended before, for then nothing is
\* killed, although a deadline in the two seconds of WaitDelay is reported as a kill.
TimeoutKillsTree == cancel # "no" /\ ~early => alive \cap Group = {}

\* "So a hang can never block the kernel forever": every call answers, whatever the
\* command and the processes it leaves behind do.
CommandsReturn == cmd = "running" ~> cmd = "none"
=============================================================================
