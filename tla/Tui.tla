-------------------------------- MODULE Tui --------------------------------
(***************************************************************************)
(* The terminal interface (examples/cli/tui.go): its event loop, the turn  *)
(* or delegation it runs in a goroutine, and the bounded channel between   *)
(* the kernel's hooks and the loop.  Exactly one command waits on the      *)
(* channel; what it receives goes to Update, which has to start the next   *)
(* one.  The end of a turn is the return value of another command and      *)
(* reaches Update by itself.  Rendering is left out.                       *)
(*                                                                         *)
(* The goroutine of a turn stands for the step loop of KernelRun and       *)
(* StepLoop: it writes chunks, runs tools, drains the message queue at     *)
(* turn boundaries, and with messages queued after the last one it goes    *)
(* into tryResume and does not come back.  Background agents are left out. *)
(***************************************************************************)
EXTENDS Integers, Sequences, FiniteSets, SequencesExt

CONSTANTS
  Cap,        \* capacity of the events channel; 256 in the code
  Prompts,    \* bound: turns and delegations the user starts
  Emissions,  \* bound: chunks, tool calls and boundaries of one of them
  Entries     \* bound: messages the user enters while it is busy

ASSUME TuiAssumption ==
  Cap \in Nat \ {0} /\ Prompts \in Nat /\ Emissions \in Nat /\ Entries \in Nat

VARIABLES
  busy,          \* tuiModel.busy
  cancelTurn,    \* the turn cancelTurn would cancel, 0 for nil
  userSeq,       \* tuiModel.userSeq
  runningTools,  \* tuiModel.runningTools
  shown,         \* the chunks in the transcript, in order
  open,          \* is the program running?
  waiters,       \* commands that wait for an event
  channel,       \* the events channel
  inbox,         \* messages on their way to Update
  job,           \* the goroutine of the last submit or delegate
  out,           \* the event it is sending; the send blocks while the channel is full
  queued,        \* messages in the kernel's queue
  written,       \* the chunks Stream has written, in order
  prompts, lines,
  interrupted    \* has a queued message been injected at a boundary?

uiVars  == <<busy, cancelTurn, userSeq, runningTools, shown, open>>
tuiVars == <<uiVars, waiters, channel, inbox, job, out, queued, written, prompts,
             lines, interrupted>>

Nothing == [kind |-> "none", n |-> 0, i |-> 0]
Msg(kind, i) == [kind |-> kind, n |-> job.n, i |-> i]

\* Mutants of Rearms: a handler forgets to; the end of a turn does it as well.
RearmsForgets(m) == m.kind \in {"stream", "tool"}

RearmsTwice(m) == m.kind \in {"stream", "tool", "toolDone", "done"}

\* Update's handlers that answer with another waitTUIEvent: all messages of
\* the channel but tuiQueueDrainedMsg.
Rearms(m) == m.kind \in {"stream", "tool", "toolDone"}

NoTurn == [pc |-> "idle", how |-> "stream", n |-> 0, left |-> 0, tools |-> {},
           cancelled |-> FALSE]

TuiInit ==
  /\ busy = FALSE /\ cancelTurn = 0 /\ userSeq = 0 /\ runningTools = {}
  /\ shown = <<>> /\ open = TRUE
  /\ waiters = 1 /\ channel = <<>> /\ inbox = {}
  /\ job = NoTurn /\ out = Nothing /\ queued = 0 /\ written = <<>>
  /\ prompts = 0 /\ lines = 0 /\ interrupted = FALSE

----------------------------------------------------------------------------
(* Keys.                                                                    *)

Start(how) ==
  job' = [NoTurn EXCEPT !.pc = "run", !.how = how, !.n = prompts + 1, !.left = Emissions]

\* Enter with a prompt: the turn starts in a goroutine.
Submit ==
  /\ open /\ ~busy /\ prompts < Prompts
  /\ busy' = TRUE /\ userSeq' = userSeq + 1 /\ cancelTurn' = prompts + 1
  /\ Start("stream") /\ prompts' = prompts + 1
  /\ UNCHANGED <<runningTools, shown, open, waiters, channel, inbox, out, queued,
                 written, lines, interrupted>>

\* Enter with /delegate <task>; Esc does not reach the agent it runs.
Delegate ==
  /\ open /\ ~busy /\ prompts < Prompts
  /\ busy' = TRUE /\ userSeq' = userSeq + 1
  /\ Start("delegate") /\ prompts' = prompts + 1
  /\ UNCHANGED <<cancelTurn, runningTools, shown, open, waiters, channel, inbox, out,
                 queued, written, lines, interrupted>>

\* Enter while a turn is running: the message waits for a turn boundary.
EnqueueLine ==
  /\ open /\ busy /\ lines < Entries
  /\ userSeq' = userSeq + 1 /\ queued' = queued + 1 /\ lines' = lines + 1
  /\ UNCHANGED <<busy, cancelTurn, runningTools, shown, open, waiters, channel, inbox,
                 job, out, written, prompts, interrupted>>

Esc ==
  /\ open /\ busy /\ cancelTurn # 0
  /\ job' = IF job.n = cancelTurn THEN [job EXCEPT !.cancelled = TRUE] ELSE job
  /\ UNCHANGED <<uiVars, waiters, channel, inbox, out, queued, written, prompts, lines,
                 interrupted>>

\* /new: another kernel with an empty queue; events of the old one still arrive.
NewSession ==
  /\ open /\ ~busy
  /\ userSeq' = 0 /\ runningTools' = {} /\ queued' = 0
  /\ UNCHANGED <<busy, cancelTurn, shown, open, waiters, channel, inbox, job, out,
                 written, prompts, lines, interrupted>>

\* Ctrl+C, Ctrl+D on an idle and empty line, or /exit: the process ends.
Quit ==
  /\ open /\ open' = FALSE
  /\ UNCHANGED <<busy, cancelTurn, userSeq, runningTools, shown, waiters, channel, inbox,
                 job, out, queued, written, prompts, lines, interrupted>>

----------------------------------------------------------------------------
(* The event loop.                                                          *)

\* waitTUIEvent receives an event and hands it to the loop.
Take ==
  /\ open /\ waiters > 0 /\ channel # <<>>
  /\ inbox' = inbox \cup {Head(channel)} /\ channel' = Tail(channel)
  /\ waiters' = waiters - 1
  /\ UNCHANGED <<uiVars, job, out, queued, written, prompts, lines, interrupted>>

\* Update for one message.
Handle(m) ==
  /\ open
  /\ inbox' = inbox \ {m}
  /\ waiters' = waiters + IF Rearms(m) THEN 1 ELSE 0
  /\ shown' = IF m.kind = "stream" THEN Append(shown, m) ELSE shown
  /\ runningTools' = CASE m.kind = "tool" -> runningTools \cup {m.i}
                       [] m.kind = "toolDone" -> runningTools \ {m.i}
                       [] OTHER -> runningTools
  /\ busy' = (busy /\ m.kind \notin {"done", "delegated"})
  /\ cancelTurn' = IF m.kind = "done" THEN 0 ELSE cancelTurn
  /\ UNCHANGED <<userSeq, open, channel, job, out, queued, written, prompts, lines,
                 interrupted>>

----------------------------------------------------------------------------
(* The goroutine of a turn or a delegation, and the hooks it fires.         *)

Active == open /\ job.pc = "run" /\ out = Nothing

\* The writer Stream was given.
WriteChunk ==
  /\ Active /\ job.how = "stream" /\ job.left > 0
  /\ out' = Msg("stream", job.left) /\ written' = Append(written, out')
  /\ job' = [job EXCEPT !.left = @ - 1]
  /\ UNCHANGED <<uiVars, waiters, channel, inbox, queued, prompts, lines, interrupted>>

PreToolUse ==
  /\ Active /\ job.left > 0
  /\ out' = Msg("tool", job.left)
  /\ job' = [job EXCEPT !.left = @ - 1, !.tools = @ \cup {job.left}]
  /\ UNCHANGED <<uiVars, waiters, channel, inbox, queued, written, prompts, lines,
                 interrupted>>

PostToolUse(i) ==
  /\ Active
  /\ out' = Msg("toolDone", i) /\ job' = [job EXCEPT !.tools = @ \ {i}]
  /\ UNCHANGED <<uiVars, waiters, channel, inbox, queued, written, prompts, lines,
                 interrupted>>

\* A turn boundary with messages in the queue.
Interrupt ==
  /\ Active /\ job.how = "stream" /\ job.tools = {} /\ queued > 0 /\ ~job.cancelled
  /\ queued' = 0 /\ interrupted' = TRUE
  /\ out' = Msg("drained", 0)
  /\ UNCHANGED <<uiVars, waiters, channel, inbox, job, written, prompts, lines>>

\* The loop ends at a boundary that finds the queue empty, or fails.
LoopEnds(failed) ==
  /\ Active /\ job.tools = {}
  /\ failed \/ job.cancelled \/ job.how = "delegate" \/ queued = 0
  /\ job' = [job EXCEPT !.pc = "ending", !.cancelled = @ \/ failed]
  /\ UNCHANGED <<uiVars, waiters, channel, inbox, out, queued, written, prompts, lines,
                 interrupted>>

\* Stream returns, unless it ended well and tryResume finds a message: the loop
\* it starts ends in tryResume again, whose lock is taken.
Returns ==
  /\ open /\ job.pc = "ending"
  /\ IF job.how = "delegate" \/ job.cancelled \/ queued = 0
       THEN /\ inbox' = inbox \cup
                 {Msg(IF job.how = "delegate" THEN "delegated" ELSE "done", 0)}
            /\ job' = NoTurn /\ UNCHANGED queued
       ELSE job' = [job EXCEPT !.pc = "stuck"] /\ queued' = 0 /\ UNCHANGED inbox
  /\ UNCHANGED <<uiVars, waiters, channel, out, written, prompts, lines, interrupted>>

SendEvent ==
  /\ open /\ out # Nothing /\ Len(channel) < Cap
  /\ channel' = Append(channel, out) /\ out' = Nothing
  /\ UNCHANGED <<uiVars, waiters, inbox, job, queued, written, prompts, lines,
                 interrupted>>

----------------------------------------------------------------------------
Keys == Submit \/ Delegate \/ EnqueueLine \/ Esc \/ NewSession \/ Quit

Update == \E m \in inbox : Handle(m)

TurnStep == \/ WriteChunk \/ PreToolUse \/ Interrupt \/ Returns \/ SendEvent
            \/ \E i \in job.tools : PostToolUse(i)
            \/ \E failed \in BOOLEAN : LoopEnds(failed)

TuiNext == Keys \/ Take \/ Update \/ TurnStep

TuiSpec == TuiInit /\ [][TuiNext]_tuiVars

\* The runtime runs the loop's goroutines and the turn's; the user need not act.
TuiFairSpec == TuiSpec /\ WF_tuiVars(Take) /\ WF_tuiVars(Update) /\ WF_tuiVars(TurnStep)

----------------------------------------------------------------------------
Messages == [kind : {"stream", "tool", "toolDone", "drained", "done", "delegated"},
             n : 0..Prompts, i : 0..Emissions]

\* What Stream writes appears in the transcript in the order it was written, nothing
\* twice and nothing left out in between, although every event passes through a
\* goroutine of its own on its way from the channel to Update.
ShownInOrder == IsPrefix(shown, written)

\* As long as no queued message interrupts a turn and none is left at its end, every
\* turn and delegation ends for the user too, however small the channel is: the
\* goroutine never waits for good for room in it.
TurnReturns ==
  [](~interrupted /\ job.pc # "stuck") => (busy ~> (~busy \/ ~open))

\* "The transcript is updated token-by-turn instead of only after the whole agent loop
\* finishes" (tui.go on tuiStreamMsg): a chunk that Stream writes is shown.  After a
\* queued message was injected nobody waits on the channel any more.
ChunksShown ==
  \A n \in 1..(Prompts * Emissions) :
    Len(written) >= n ~> (Len(shown) >= n \/ ~open)
=============================================================================
