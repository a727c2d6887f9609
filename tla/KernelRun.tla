----------------------------- MODULE KernelRun -----------------------------
(***************************************************************************)
(* The run-state of a Kernel (kernel.go): who may run the agent loop, how  *)
(* queued messages reach the conversation, and how a finished background   *)
(* agent wakes an idle kernel.                                             *)
(*                                                                         *)
(* Processes are the goroutines that touch the kernel: Callers are calls   *)
(* of Stream, Tasks are the goroutines SpawnBackground starts.  A process  *)
(* is also the message it contributes: the prompt of a call, the           *)
(* "[background task ...]" text of a task.  HostMsgs are messages a host   *)
(* passes to Enqueue from any other goroutine.                             *)
(*                                                                         *)
(* runMu and wakeMu are Go mutexes: not re-entrant, so a process that      *)
(* locks one it already holds waits for itself.  History is a plain slice: *)
(* `k.History = append(k.History, m)` reads the slice in one step and      *)
(* writes it back in another, so two unserialised appends may lose one.    *)
(* Assistant text, tool calls and their results of one turn are the single *)
(* entry Turn; the (question, summary) pair Compact leaves is Summary.     *)
(***************************************************************************)
EXTENDS Naturals, Sequences, FiniteSets

CONSTANTS
  Callers,     \* calls of Stream, one prompt each
  Tasks,       \* background agents
  HostMsgs,    \* messages the host enqueues by hand
  MaxStreams,  \* how many Stream calls the host keeps open at a time
  MaxIter,     \* Config.MaxIter: turns of one run of the loop
  HostSpawns,  \* may the host call SpawnBackground outside a loop?
  StepsFail,   \* may an llm-step return an error?
  NoProc,      \* "no holder" of a mutex
  Turn, Summary

Proc == Callers \cup Tasks
Msg  == Proc \cup HostMsgs

ASSUME ProcAssumption ==
  /\ Callers \cap Tasks = {}
  /\ Proc \cap HostMsgs = {}
  /\ NoProc \notin Proc
  /\ Turn \notin Msg /\ Summary \notin Msg /\ Turn # Summary
  /\ MaxIter \in Nat \ {0} /\ MaxStreams \in Nat \ {0}
  /\ HostSpawns \in BOOLEAN /\ StepsFail \in BOOLEAN

VARIABLES
  runMu,    \* holder of Kernel.runMu
  wakeMu,   \* holder of Kernel.wakeMu
  running,  \* Kernel.running
  queue,    \* Kernel.messageQueue
  posted,   \* the host messages enqueued so far
  history,  \* Kernel.History
  covered,  \* the messages that live on inside a summary
  pc,       \* where each goroutine is
  batch,    \* what a goroutine drained from the queue and has not appended yet
  snap,     \* the History a goroutine read and has not written back yet
  turns,    \* turns of the goroutine's current run of the loop
  failed,   \* a loop has ended in an error since the queue was last drained
  idle      \* MasterIdle has fired since a loop last started

vars == <<runMu, wakeMu, running, queue, posted, history, covered,
          pc, batch, snap, turns, failed, idle>>

InLoop      == {"turn", "turnWrite", "boundary", "boundaryWrite",
                "loopCompact", "stop"}
HoldsRun    == InLoop \cup {"store"}
Resuming    == {"resumeCheck", "resumeDrain", "injectWrite"}
Mutating    == {"preCompact", "promptWrite", "turnWrite", "boundaryWrite",
                "loopCompact", "injectWrite"}
Preparing   == {"enter", "preCompact", "prompt", "promptWrite", "validate"}
Stopped     == {"done", "failed", "panicked"}
PC          == {"idle", "unspawned", "child", "runLock", "resumeLock"}
                 \cup HoldsRun \cup Resuming \cup Preparing \cup Stopped

Init ==
  /\ runMu = NoProc /\ wakeMu = NoProc /\ running = FALSE
  /\ queue = <<>> /\ posted = {} /\ history = <<>> /\ covered = {}
  /\ pc = [p \in Proc |-> IF p \in Callers THEN "idle" ELSE "unspawned"]
  /\ batch = [p \in Proc |-> <<>>]
  /\ snap = [p \in Proc |-> <<>>]
  /\ turns = [p \in Proc |-> 0]
  /\ failed = FALSE /\ idle = FALSE

-----------------------------------------------------------------------------
Goto(p, from, to) == pc[p] = from /\ pc' = [pc EXCEPT ![p] = to]

ReadHistory(p) == snap' = [snap EXCEPT ![p] = history]

\* The write half of an append: whatever was appended to History since
\* ReadHistory(p) is overwritten.
AppendHistory(p, entries) ==
  /\ history' = snap[p] \o entries
  /\ snap' = [snap EXCEPT ![p] = <<>>]

\* Mutants of DrainQueue: the queue is not reset; the newest message is taken
\* but also left behind.
DrainKeepsQueue(p) ==
  /\ batch' = [batch EXCEPT ![p] = queue]
  /\ failed' = FALSE
  /\ UNCHANGED queue

DrainLeavesLast(p) ==
  /\ batch' = [batch EXCEPT ![p] = queue]
  /\ queue' = IF queue = <<>> THEN <<>> ELSE <<queue[Len(queue)]>>
  /\ failed' = FALSE

\* drainQueue, under queueMu: the caller takes every queued message.
DrainQueue(p) ==
  /\ batch' = [batch EXCEPT ![p] = queue]
  /\ queue' = <<>>
  /\ failed' = FALSE

\* Compact's reset after a successful summarize step.
ResetHistory(p) ==
  /\ covered' = covered \cup {m \in Msg : \E i \in DOMAIN snap[p] : snap[p][i] = m}
  /\ history' = <<Summary>>
  /\ snap' = [snap EXCEPT ![p] = <<>>]

-----------------------------------------------------------------------------
(* Stream up to the agent loop: it runs without runMu.                      *)

StreamEnter(c) ==
  /\ Goto(c, "idle", "enter")
  /\ Cardinality({d \in Callers : pc[d] \notin {"idle"} \cup Stopped}) < MaxStreams
  /\ UNCHANGED <<runMu, wakeMu, running, queue, posted, history, covered,
                 batch, snap, turns, failed, idle>>

\* Over the context threshold the call compacts first; whether it is over
\* depends on token counts the model leaves open.
StreamCompact(c) ==
  /\ history # <<>>
  /\ Goto(c, "enter", "preCompact")
  /\ ReadHistory(c)
  /\ UNCHANGED <<runMu, wakeMu, running, queue, posted, history, covered,
                 batch, turns, failed, idle>>

StreamNoCompact(c) ==
  /\ Goto(c, "enter", "prompt")
  /\ UNCHANGED <<runMu, wakeMu, running, queue, posted, history, covered,
                 batch, snap, turns, failed, idle>>

StreamCompacted(c) ==
  /\ Goto(c, "preCompact", "prompt")
  /\ ResetHistory(c)
  /\ UNCHANGED <<runMu, wakeMu, running, queue, posted, batch, turns, failed, idle>>

StreamCompactFails(c) ==
  /\ StepsFail
  /\ Goto(c, "preCompact", "failed")
  /\ snap' = [snap EXCEPT ![c] = <<>>]
  /\ UNCHANGED <<runMu, wakeMu, running, queue, posted, history, covered,
                 batch, turns, failed, idle>>

PromptRead(c) ==
  /\ Goto(c, "prompt", "promptWrite")
  /\ ReadHistory(c)
  /\ UNCHANGED <<runMu, wakeMu, running, queue, posted, history, covered,
                 batch, turns, failed, idle>>

PromptWrite(c) ==
  /\ Goto(c, "promptWrite", "validate")
  /\ AppendHistory(c, <<c>>)
  /\ UNCHANGED <<runMu, wakeMu, running, queue, posted, covered, batch, turns,
                 failed, idle>>

\* "Last item is not a user message."
LastIsUser == history # <<>> /\ history[Len(history)] \in Msg

Validate(c) ==
  /\ Goto(c, "validate", IF LastIsUser THEN "runLock" ELSE "panicked")
  /\ UNCHANGED <<runMu, wakeMu, running, queue, posted, history, covered,
                 batch, snap, turns, failed, idle>>

-----------------------------------------------------------------------------
(* streamCurrent and the loop it runs.                                      *)

LockRun(p) ==
  /\ runMu = NoProc
  /\ Goto(p, "runLock", "store")
  /\ runMu' = p
  /\ UNCHANGED <<wakeMu, running, queue, posted, history, covered, batch, snap,
                 turns, failed, idle>>

SetRunning(p) ==
  /\ Goto(p, "store", "turn")
  /\ running' = TRUE
  /\ turns' = [turns EXCEPT ![p] = 0]
  /\ idle' = FALSE
  /\ UNCHANGED <<runMu, wakeMu, queue, posted, history, covered, batch, snap, failed>>

\* The spend limit is reached before the llm-step: no turn.
LimitStops(p) ==
  /\ Goto(p, "turn", "stop")
  /\ UNCHANGED <<runMu, wakeMu, running, queue, posted, history, covered,
                 batch, snap, turns, failed, idle>>

\* The llm-step has answered and the turn's tools run.
TurnRead(p) ==
  /\ Goto(p, "turn", "turnWrite")
  /\ ReadHistory(p)
  /\ turns' = [turns EXCEPT ![p] = @ + 1]
  /\ UNCHANGED <<runMu, wakeMu, running, queue, posted, history, covered,
                 batch, failed, idle>>

\* A final answer, the spend limit, the loop guard and MaxIter end the loop
\* without looking at the queue; the completion guard, after a turn that edited,
\* goes on to the next turn without looking at it, or at MaxIter (once in a loop;
\* the model lets it do so at every turn but the first); any other turn reaches
\* the turn boundary.
TurnWrite(p) ==
  /\ \/ Goto(p, "turnWrite", "stop")
     \/ turns[p] \in 2..MaxIter /\ Goto(p, "turnWrite", "turn")
     \/ turns[p] < MaxIter /\ Goto(p, "turnWrite", "boundary")
  /\ AppendHistory(p, <<Turn>>)
  /\ UNCHANGED <<runMu, wakeMu, running, queue, posted, covered, batch, turns,
                 failed, idle>>

\* The queue interrupt.
Boundary(p) ==
  /\ queue # <<>>
  /\ Goto(p, "boundary", "boundaryWrite")
  /\ DrainQueue(p)
  /\ ReadHistory(p)
  /\ UNCHANGED <<runMu, wakeMu, running, posted, history, covered, turns, idle>>

BoundaryWrite(p) ==
  /\ Goto(p, "boundaryWrite", "turn")
  /\ AppendHistory(p, batch[p])
  /\ batch' = [batch EXCEPT ![p] = <<>>]
  /\ UNCHANGED <<runMu, wakeMu, running, queue, posted, covered, turns, failed, idle>>

BoundaryNoQueue(p) ==
  /\ queue = <<>>
  /\ Goto(p, "boundary", "turn")
  /\ UNCHANGED <<runMu, wakeMu, running, queue, posted, history, covered,
                 batch, snap, turns, failed, idle>>

LoopCompact(p) ==
  /\ queue = <<>>
  /\ Goto(p, "boundary", "loopCompact")
  /\ ReadHistory(p)
  /\ UNCHANGED <<runMu, wakeMu, running, queue, posted, history, covered,
                 batch, turns, failed, idle>>

LoopCompacted(p) ==
  /\ Goto(p, "loopCompact", "turn")
  /\ ResetHistory(p)
  /\ UNCHANGED <<runMu, wakeMu, running, queue, posted, batch, turns, failed, idle>>

\* streamViaStep returns an error, of the llm-step, of the compaction or of the
\* writer of the final answer: no Stop event and no tryResume.  A wake returns
\* through tryResume, whose deferred unlock releases wakeMu.
LoopFails(p) ==
  /\ StepsFail
  /\ \E at \in {"turn", "loopCompact", "stop"} : Goto(p, at, "failed")
  /\ running' = FALSE
  /\ runMu' = NoProc
  /\ wakeMu' = IF wakeMu = p THEN NoProc ELSE wakeMu
  /\ snap' = [snap EXCEPT ![p] = <<>>]
  /\ failed' = TRUE
  /\ UNCHANGED <<queue, posted, history, covered, batch, turns, idle>>

\* Mutants of Stop: running is left set, tryResume is not called, or runMu is
\* held across tryResume.
StopStillRunning(p) ==
  /\ Goto(p, "stop", "resumeLock")
  /\ runMu' = NoProc
  /\ UNCHANGED <<wakeMu, running, queue, posted, history, covered, batch, snap,
                 turns, failed, idle>>

StopWithoutResume(p) ==
  /\ Goto(p, "stop", "done")
  /\ running' = FALSE
  /\ runMu' = NoProc
  /\ UNCHANGED <<wakeMu, queue, posted, history, covered, batch, snap, turns,
                 failed, idle>>

StopHoldingRunMu(p) ==
  /\ Goto(p, "stop", "resumeLock")
  /\ running' = FALSE
  /\ UNCHANGED <<runMu, wakeMu, queue, posted, history, covered, batch, snap,
                 turns, failed, idle>>

\* Store(false) and Unlock are one step: between them a goroutine can do
\* nothing that it cannot do right after them.
Stop(p) ==
  /\ Goto(p, "stop", "resumeLock")
  /\ running' = FALSE
  /\ runMu' = NoProc
  /\ UNCHANGED <<wakeMu, queue, posted, history, covered, batch, snap, turns,
                 failed, idle>>

-----------------------------------------------------------------------------
(* tryResume.                                                               *)

ResumeLock(p) ==
  /\ wakeMu = NoProc
  /\ Goto(p, "resumeLock", "resumeCheck")
  /\ wakeMu' = p
  /\ UNCHANGED <<runMu, running, queue, posted, history, covered, batch, snap,
                 turns, failed, idle>>

ResumeNoop(p) ==
  /\ running
  /\ Goto(p, "resumeCheck", "done")
  /\ wakeMu' = NoProc
  /\ UNCHANGED <<runMu, running, queue, posted, history, covered, batch, snap,
                 turns, failed, idle>>

ResumeCheck(p) ==
  /\ ~running
  /\ Goto(p, "resumeCheck", "resumeDrain")
  /\ UNCHANGED <<runMu, wakeMu, running, queue, posted, history, covered,
                 batch, snap, turns, failed, idle>>

MasterIdle(p) ==
  /\ queue = <<>>
  /\ Goto(p, "resumeDrain", "done")
  /\ wakeMu' = NoProc
  /\ idle' = TRUE
  /\ UNCHANGED <<runMu, running, queue, posted, history, covered, batch, snap,
                 turns, failed>>

ResumeDrain(p) ==
  /\ queue # <<>>
  /\ Goto(p, "resumeDrain", "injectWrite")
  /\ DrainQueue(p)
  /\ ReadHistory(p)
  /\ UNCHANGED <<runMu, wakeMu, running, posted, history, covered, turns, idle>>

\* Mutant of Inject: wakeMu is given back before the loop.
InjectUnlocked(p) ==
  /\ Goto(p, "injectWrite", "runLock")
  /\ AppendHistory(p, batch[p])
  /\ batch' = [batch EXCEPT ![p] = <<>>]
  /\ wakeMu' = NoProc
  /\ UNCHANGED <<runMu, running, queue, posted, covered, turns, failed, idle>>

\* The drained messages become user messages and streamCurrent is entered
\* with wakeMu held.
Inject(p) ==
  /\ Goto(p, "injectWrite", "runLock")
  /\ AppendHistory(p, batch[p])
  /\ batch' = [batch EXCEPT ![p] = <<>>]
  /\ UNCHANGED <<runMu, wakeMu, running, queue, posted, covered, turns, failed, idle>>

-----------------------------------------------------------------------------
(* Background agents and the host.                                          *)

\* SpawnBackground, from the subagent_async tool of a running turn or from
\* the host.
Spawn(t) ==
  /\ HostSpawns \/ \E p \in Proc : pc[p] = "turnWrite"
  /\ Goto(t, "unspawned", "child")
  /\ UNCHANGED <<runMu, wakeMu, running, queue, posted, history, covered,
                 batch, snap, turns, failed, idle>>

\* The child has ended, well or badly: Enqueue its result, then tryResume.
Finish(t) ==
  /\ Goto(t, "child", "resumeLock")
  /\ queue' = Append(queue, t)
  /\ UNCHANGED <<runMu, wakeMu, running, posted, history, covered, batch, snap,
                 turns, failed, idle>>

HostEnqueue(h) ==
  /\ h \notin posted
  /\ posted' = posted \cup {h}
  /\ queue' = Append(queue, h)
  /\ UNCHANGED <<runMu, wakeMu, running, history, covered, pc, batch, snap,
                 turns, failed, idle>>

-----------------------------------------------------------------------------
StreamStep(c) ==
  \/ StreamCompact(c) \/ StreamNoCompact(c) \/ StreamCompacted(c)
  \/ StreamCompactFails(c) \/ PromptRead(c) \/ PromptWrite(c) \/ Validate(c)

LoopStep(p) ==
  \/ SetRunning(p) \/ LimitStops(p) \/ TurnRead(p) \/ TurnWrite(p)
  \/ Boundary(p) \/ BoundaryWrite(p) \/ BoundaryNoQueue(p)
  \/ LoopCompact(p) \/ LoopCompacted(p) \/ LoopFails(p) \/ Stop(p)

ResumeStep(p) ==
  \/ ResumeNoop(p) \/ ResumeCheck(p) \/ MasterIdle(p) \/ ResumeDrain(p) \/ Inject(p)

Next ==
  \/ \E c \in Callers : StreamEnter(c) \/ StreamStep(c)
  \/ \E p \in Proc : LockRun(p) \/ LoopStep(p) \/ ResumeLock(p) \/ ResumeStep(p)
  \/ \E t \in Tasks : Spawn(t) \/ Finish(t)
  \/ \E h \in HostMsgs : HostEnqueue(h)

Spec == Init /\ [][Next]_vars

(***************************************************************************)
(* A goroutine that can move does move (it is at one place, so one of these *)
(* actions at most is its next), an llm-step answers or fails, a           *)
(* child ends, and a Go mutex in starvation mode is handed to its waiters  *)
(* in turn.  Nothing makes the host call Stream, SpawnBackground or        *)
(* Enqueue, nor the model start a task.                                    *)
(***************************************************************************)
Advance(p) ==
  \/ p \in Callers /\ StreamStep(p)
  \/ LoopStep(p) \/ ResumeStep(p)
  \/ p \in Tasks /\ Finish(p)

Fairness ==
  \A p \in Proc : WF_vars(Advance(p)) /\ SF_vars(LockRun(p) \/ ResumeLock(p))

FairSpec == Spec /\ Fairness

-----------------------------------------------------------------------------
(* Properties.                                                              *)

TypeOK ==
  /\ runMu \in Proc \cup {NoProc}
  /\ wakeMu \in Proc \cup {NoProc}
  /\ running \in BOOLEAN
  /\ queue \in Seq(Msg)
  /\ posted \in SUBSET HostMsgs
  /\ history \in Seq(Msg \cup {Turn, Summary})
  /\ covered \in SUBSET Msg
  /\ pc \in [Proc -> PC]
  /\ batch \in [Proc -> Seq(Msg)]
  /\ snap \in [Proc -> Seq(Msg \cup {Turn, Summary})]
  /\ turns \in [Proc -> Nat]
  /\ failed \in BOOLEAN
  /\ idle \in BOOLEAN

\* Kernel.running means what tryResume takes it to mean: it is set exactly
\* while one goroutine, the holder of runMu, is inside the loop, and no other
\* goroutine is there with it.
LoopSerialized ==
  /\ \A p \in Proc : pc[p] \in HoldsRun <=> runMu = p
  /\ running <=> \E p \in Proc : pc[p] \in InLoop

\* A goroutine that is bound to look at the queue after it is done: it runs
\* the loop, or is inside tryResume and not waiting for itself.
WillDrain(p) ==
  \/ pc[p] \in HoldsRun \cup {"resumeCheck", "resumeDrain"}
  \/ pc[p] = "resumeLock" /\ wakeMu # p

\* A background result in the queue whose goroutine is gone.
Orphaned(t) == pc[t] = "done" /\ \E i \in 1..Len(queue) : queue[i] = t

\* The single decision point of tryResume leaves no gap: unless a loop failed
\* after the queue was last drained, a background result whose goroutine went
\* away believing "a live loop will drain the queue itself" is still going to
\* be looked at by a goroutine that does not wait for itself.
NoWakeGap ==
  ~failed => \A t \in Tasks : Orphaned(t) => \E p \in Proc : WillDrain(p)

Copies(m, s) == Cardinality({i \in 1..Len(s) : s[i] = m})

\* However Stream calls, wakes and interrupts interleave, one message is in one
\* place only: the queue, the hands of one goroutine, or one entry of History.
DeliveredOnce ==
  \A m \in Msg :
    /\ Copies(m, queue) + Copies(m, history) <= 1
    /\ \A p, q \in Proc :
         /\ Copies(m, batch[p]) + Copies(m, queue) + Copies(m, history) <= 1
         /\ p # q => Copies(m, batch[p]) + Copies(m, batch[q]) <= 1

\* MasterIdle stands for an idle kernel, but tryResume fires it without runMu: a
\* call of Stream may enter its loop after the look at `running`, have an
\* interrupt take the queue, and be running when the event comes.  So a host that
\* has a call open may be told too early; but never of a loop that a background
\* result has woken, which it knows nothing of: until the next loop starts, what
\* runs after MasterIdle is a call of its own, in that call's first loop.
IdleMeansIdle == idle /\ running => runMu \in Callers /\ wakeMu # runMu

\* Two goroutines between reading History and writing it back lose one of the
\* two appends.  runMu is there so that this never happens.
HistoryOneWriter ==
  \A p, q \in Proc : pc[p] \in Mutating /\ pc[q] \in Mutating => p = q

\* A Stream call or a wake that waits for the loop gets it, whatever the other
\* calls and wakes do: every holder of runMu gives it back.
LoopTakesTurns == \A p \in Proc : pc[p] = "runLock" ~> runMu = p

\* "MasterIdle fires after the woken turn finishes processing the result": the
\* loop of a task is a woken one.
WokenTurnGoesIdle == \A t \in Tasks : pc[t] = "stop" ~> idle

\* The messages among the entries of a History.
Messages(entries) ==
  LET Kept[n \in 0..Len(entries)] ==
        IF n = 0 THEN <<>>
        ELSE IF entries[n] \in Msg THEN Append(Kept[n - 1], entries[n])
        ELSE Kept[n - 1]
  IN Kept[Len(entries)]

Taken == {batch[p] : p \in Proc} \ {<<>>}

\* The kernel implements the mailbox: what a goroutine has drained and not
\* appended yet is still pending.
MB == INSTANCE Mailbox WITH
        Prompts <- Callers,
        Posts <- Tasks \cup HostMsgs,
        pending <- (IF Taken = {} THEN <<>> ELSE CHOOSE b \in Taken : TRUE) \o queue,
        live <- Messages(history),
        summarised <- covered

\* Posted messages enter the conversation in posting order, once each, and
\* nothing that entered it is lost but to a summary that covers it.
ImplementsMailbox == MB!Spec
=============================================================================
