------------------------------- MODULE Spend -------------------------------
(***************************************************************************)
(* Money: who may still take an llm-step, what a kernel believes it has    *)
(* spent, and the cost rows of the store (spendBudget, recordUsage,        *)
(* UpdateUse, tryResume and runSubagent in kernel.go; AppendCost in        *)
(* store.go).                                                              *)
(*                                                                         *)
(* Root is a kernel whose host keeps one Stream call open at a time; a     *)
(* Child is the kernel of one subagent, in the tool turn that waits for it *)
(* or in the background.  A child has no subagents of its own.  A loop is  *)
(* named after its kernel, but for Wake, the loop that tryResume starts on *)
(* Root with a budget of its own: runMu keeps Root and Wake apart, wakeMu  *)
(* keeps Wake unique (KernelRun).  Costs are whole units.                  *)
(***************************************************************************)
EXTENDS Integers, FiniteSets, FiniteSetsExt

CONSTANTS
  Root, Wake,
  Children,       \* subagents
  Chats,          \* bound: how many Stream calls the host makes
  Steps,          \* bound: llm-steps of one kernel's loops
  Prices,         \* what one response may cost
  TranscriptMax,  \* Config.MaxTranscriptSpendUSD of Root; 0 disables
  TurnMax,        \* values the host passes to WithMaxTurnSpendUSD
  Parallel,       \* how many synchronous subagents run at a time
  Background,     \* may subagent_async be called?
  MayFail         \* may an llm-step return an error?

Kernels == Children \cup {Root}
Loops   == Kernels \cup {Wake}

ASSUME SpendAssumption ==
  /\ Root \notin Children /\ Wake \notin Kernels /\ IsFiniteSet(Children)
  /\ Chats \in Nat /\ Steps \in Nat /\ Parallel \in Nat /\ TranscriptMax \in Nat
  /\ Prices \subseteq Nat /\ TurnMax \subseteq Nat
  /\ \E p \in Prices : \A q \in Prices : q <= p
  /\ Background \in BOOLEAN /\ MayFail \in BOOLEAN

VARIABLES
  pc,              \* where each loop is
  running,         \* Kernel.runningCostUSD
  limit,           \* Cfg.MaxTranscriptSpendUSD of each kernel
  start, turnMax,  \* the spendBudget of each loop
  row,             \* the cost row a goroutine is about to insert
  rows,            \* the costs table: of each span the sum of turn_usd and the
                   \* total_usd of the latest row
  steps,           \* llm-steps of each kernel's loops
  paid,            \* what the provider has charged, all kernels together
  async,           \* the children started by subagent_async
  queue,           \* background results waiting in messageQueue
  caller,          \* whose goroutine runs Wake
  chats,           \* Stream calls made
  lost,            \* what children spent that failed before they could report it
  beside           \* have two synchronous subagents run side by side?

truth == <<lost, beside>>
vars == <<pc, running, limit, start, turnMax, row, rows, steps, paid, async,
          queue, caller, chats, truth>>

KernelOf(l) == IF l = Wake THEN Root ELSE l

NoRow == [kernel |-> Root, turn |-> 0, total |-> 0]

\* An llm-step in flight, and where its goroutine is once the cost is added.
Billed == [step |-> "stepRow", compact |-> "compactRow",
           preCompact |-> "preCompactRow", schema |-> "schemaRow"]

InFlight  == DOMAIN Billed
InsertsAt == {Billed[s] : s \in InFlight} \cup {"rollupRow"}
InLoop    == {"check", "step", "stepRow", "tools", "compact", "compactRow"}

Init ==
  /\ pc = [l \in Loops |-> "idle"]
  /\ running = [k \in Kernels |-> 0]
  /\ limit = [k \in Kernels |-> IF k = Root THEN TranscriptMax ELSE 0]
  /\ start = [l \in Loops |-> 0] /\ turnMax = [l \in Loops |-> 0]
  /\ row = [l \in Loops |-> NoRow]
  /\ rows = [k \in Kernels |-> [sum |-> 0, last |-> 0]]
  /\ steps = [k \in Kernels |-> 0]
  /\ paid = 0 /\ async = {} /\ queue = 0 /\ caller = Root /\ chats = 0
  /\ lost = 0 /\ beside = FALSE

-----------------------------------------------------------------------------
Goto(l, from, to) == pc[l] = from /\ pc' = [pc EXCEPT ![l] = to]

\* spendBudget.reached: a running total never falls, so `hit` adds nothing.
Reached(l) ==
  \/ turnMax[l] > 0 /\ running[KernelOf(l)] - start[l] >= turnMax[l]
  \/ limit[KernelOf(l)] > 0 /\ running[KernelOf(l)] >= limit[KernelOf(l)]

NewBudget(l, max) ==
  /\ start' = [start EXCEPT ![l] = running[KernelOf(l)]]
  /\ turnMax' = [turnMax EXCEPT ![l] = max]

\* tryResume's part in money: everything queued is taken into a loop whose
\* budget starts now and has no limit of its own.
StartWake(goroutine) ==
  /\ queue > 0
  /\ queue' = 0
  /\ caller' = goroutine
  /\ NewBudget(Wake, 0)

Nobody(locations) == \A l \in {Root, Wake} : pc[l] \notin locations

-----------------------------------------------------------------------------
(* Root's Stream call: it compacts first if it may spend and is too full.   *)

Chat(max) ==
  /\ chats < Chats
  /\ \/ Goto(Root, "idle", "lock")
     \/ /\ running[Root] > 0
        /\ ~(limit[Root] > 0 /\ running[Root] >= limit[Root])
        /\ Goto(Root, "idle", "preCompact")
  /\ chats' = chats + 1
  /\ NewBudget(Root, max)
  /\ UNCHANGED <<running, limit, row, rows, steps, paid, async, queue, caller,
                 truth>>

\* runMu, and the loop begins.
LockRun(l) ==
  /\ Nobody(InLoop)
  /\ Goto(l, "lock", "check")
  /\ UNCHANGED <<running, limit, start, turnMax, row, rows, steps, paid, async,
                 queue, caller, chats, truth>>

\* Root's own loop has ended: tryResume, behind wakeMu.  A Wake that has ended
\* waits for the wakeMu its own goroutine holds.
CallResumes ==
  /\ pc[Wake] = "idle"
  /\ pc[Root] = "stopped"
  /\ StartWake(Root)
  /\ pc' = [pc EXCEPT ![Root] = "waking", ![Wake] = "lock"]
  /\ UNCHANGED <<running, limit, row, rows, steps, paid, async, chats, truth>>

CallIdle ==
  /\ pc[Wake] = "idle" /\ queue = 0
  /\ Goto(Root, "stopped", "finish")
  /\ UNCHANGED <<running, limit, start, turnMax, row, rows, steps, paid, async,
                 queue, caller, chats, truth>>

\* The structured-output pass, if the call asked for one and may still spend.
StartSchema ==
  /\ ~Reached(Root)
  /\ Goto(Root, "finish", "schema")
  /\ UNCHANGED <<running, limit, start, turnMax, row, rows, steps, paid, async,
                 queue, caller, chats, truth>>

EndCall ==
  /\ Goto(Root, "finish", "idle")
  /\ UNCHANGED <<running, limit, start, turnMax, row, rows, steps, paid, async,
                 queue, caller, chats, truth>>

-----------------------------------------------------------------------------
(* Any loop.                                                                *)

LimitReached(l) ==
  /\ Reached(l)
  /\ Goto(l, "check", "stopped")
  /\ UNCHANGED <<running, limit, start, turnMax, row, rows, steps, paid, async,
                 queue, caller, chats, truth>>

\* Mutant of StartStep: the budget is only looked at after billing.
StartStepUnchecked(l) ==
  /\ steps[KernelOf(l)] < Steps
  /\ Goto(l, "check", "step")
  /\ steps' = [steps EXCEPT ![KernelOf(l)] = @ + 1]
  /\ UNCHANGED <<running, limit, start, turnMax, row, rows, paid, async, queue,
                 caller, chats, truth>>

StartStep(l) ==
  /\ ~Reached(l) /\ steps[KernelOf(l)] < Steps
  /\ Goto(l, "check", "step")
  /\ steps' = [steps EXCEPT ![KernelOf(l)] = @ + 1]
  /\ UNCHANGED <<running, limit, start, turnMax, row, rows, paid, async, queue,
                 caller, chats, truth>>

\* recordUsage: UpdateUse under usageMu, then, outside it, AppendCost.
UpdateUse(l, cost) ==
  /\ pc[l] \in InFlight
  /\ pc' = [pc EXCEPT ![l] = Billed[pc[l]]]
  /\ paid' = paid + cost
  /\ running' = [running EXCEPT ![KernelOf(l)] = @ + cost]
  /\ row' = [row EXCEPT ![l] = [kernel |-> KernelOf(l), turn |-> cost,
                                total |-> running'[KernelOf(l)]]]
  /\ UNCHANGED <<limit, start, turnMax, rows, steps, async, queue, caller,
                 chats, truth>>

\* Where a goroutine is after its row: the crossing response ends a loop.
AfterRow(l) ==
  \/ Goto(l, "stepRow", "stopped")
  \/ ~Reached(l) /\ Goto(l, "stepRow", "tools")
  \/ Goto(l, "compactRow", "check")
  \/ Goto(l, "preCompactRow", "lock")
  \/ Goto(l, "schemaRow", "idle")
  \/ Goto(l, "rollupRow", "result")

AppendCost(l) ==
  /\ AfterRow(l)
  /\ rows' = [rows EXCEPT ![row[l].kernel] =
                [sum |-> @.sum + row[l].turn, last |-> row[l].total]]
  /\ row' = [row EXCEPT ![l] = NoRow]
  /\ UNCHANGED <<running, limit, start, turnMax, steps, paid, async, queue,
                 caller, chats, truth>>

\* Every synchronous subagent of the turn has returned; MaxIter or the loop
\* guard, a queue interrupt, a compaction, or straight on.
LeaveTools(l) ==
  /\ l \notin Children => \A c \in Children \ async : pc[c] \in {"idle", "gone"}
  /\ \/ Goto(l, "tools", "stopped") /\ UNCHANGED queue
     \/ Goto(l, "tools", "check")
          /\ queue' = IF l \in Children THEN queue ELSE 0
     \/ /\ l \in Children \/ queue = 0
        /\ Goto(l, "tools", "compact") /\ UNCHANGED queue
  /\ UNCHANGED <<running, limit, start, turnMax, row, rows, steps, paid, async,
                 caller, chats, truth>>

\* An error ends the loop without a Stop event: a child has no usage to report,
\* a woken loop takes the call that runs it along.
StepFails(l) ==
  /\ MayFail /\ pc[l] \in InFlight
  /\ lost' = IF l \in Children THEN lost + running[l] ELSE lost
  /\ pc' = [m \in Loops |->
              IF m = l THEN (IF l \in Children THEN "result" ELSE "idle")
              ELSE IF l = Wake /\ m = Root /\ caller = Root /\ pc[Root] = "waking"
                THEN "idle" ELSE pc[m]]
  /\ UNCHANGED <<running, limit, start, turnMax, row, rows, steps, paid, async,
                 queue, caller, chats, beside>>

-----------------------------------------------------------------------------
(* Subagents.                                                               *)

\* Mutant of ChildBudget: a child inherits the limit itself.
WholeBudget == limit[Root]

\* What is left of the parent's transcript limit.
ChildBudget == limit[Root] - running[Root]

\* runSubagent up to the child's Run: with nothing left it returns at once.
RunSubagent(c) ==
  IF limit[Root] > 0 /\ running[Root] >= limit[Root]
    THEN Goto(c, "idle", "result") /\ UNCHANGED limit
    ELSE /\ Goto(c, "idle", "check")
         /\ limit' = [limit EXCEPT ![c] = IF limit[Root] > 0 THEN ChildBudget ELSE 0]

AtWork == {d \in Children \ async : pc[d] \notin {"idle", "gone"}}

Subagent(c) ==
  /\ ~Nobody({"tools"})
  /\ Cardinality(AtWork) < Parallel
  /\ RunSubagent(c)
  /\ beside' = (beside \/ AtWork # {})
  /\ UNCHANGED <<running, start, turnMax, row, rows, steps, paid, async, queue,
                 caller, chats, lost>>

SubagentAsync(c) ==
  /\ Background /\ ~Nobody({"tools"})
  /\ RunSubagent(c)
  /\ async' = async \cup {c}
  /\ UNCHANGED <<running, start, turnMax, row, rows, steps, paid, queue,
                 caller, chats, truth>>

\* The child's Stop event has given Run its usage; the child's own queue is
\* empty.
ChildStops(c) ==
  /\ Goto(c, "stopped", "rollup")
  /\ UNCHANGED <<running, limit, start, turnMax, row, rows, steps, paid, async,
                 queue, caller, chats, truth>>

\* Mutants of RollUp: the total is not raised; no row is written.
RollUpSessionsOnly(c) ==
  /\ Goto(c, "rollup", "rollupRow")
  /\ row' = [row EXCEPT ![c] = [kernel |-> Root, turn |-> 0, total |-> running[Root]]]
  /\ UNCHANGED <<running, limit, start, turnMax, rows, steps, paid, async,
                 queue, caller, chats, truth>>

RollUpWithoutRow(c) ==
  /\ Goto(c, "rollup", "result")
  /\ running' = [running EXCEPT ![Root] = @ + running[c]]
  /\ UNCHANGED <<limit, start, turnMax, row, rows, steps, paid, async, queue,
                 caller, chats, truth>>

RollUp(c) ==
  /\ Goto(c, "rollup", "rollupRow")
  /\ running' = [running EXCEPT ![Root] = @ + running[c]]
  /\ row' = [row EXCEPT ![c] = [kernel |-> Root, turn |-> running[c],
                                total |-> running'[Root]]]
  /\ UNCHANGED <<limit, start, turnMax, rows, steps, paid, async, queue,
                 caller, chats, truth>>

\* The tool call returns, or the background goroutine enqueues the result.
Result(c) ==
  /\ IF c \in async THEN Goto(c, "result", "resume") /\ queue' = queue + 1
                    ELSE Goto(c, "result", "gone") /\ UNCHANGED queue
  /\ UNCHANGED <<running, limit, start, turnMax, row, rows, steps, paid, async,
                 caller, chats, truth>>

\* tryResume of a background goroutine.
ResumeNoop(c) ==
  /\ pc[Wake] = "idle"
  /\ ~Nobody(InLoop) \/ queue = 0
  /\ Goto(c, "resume", "gone")
  /\ UNCHANGED <<running, limit, start, turnMax, row, rows, steps, paid, async,
                 queue, caller, chats, truth>>

ResumeWakes(c) ==
  /\ pc[Wake] = "idle" /\ Nobody(InLoop)
  /\ pc[c] = "resume"
  /\ StartWake(c)
  /\ pc' = [pc EXCEPT ![c] = "gone", ![Wake] = "lock"]
  /\ UNCHANGED <<running, limit, row, rows, steps, paid, async, chats, truth>>

-----------------------------------------------------------------------------
CallStep == CallResumes \/ CallIdle \/ StartSchema \/ EndCall

LoopStep(l) ==
  \/ LimitReached(l) \/ StartStep(l) \/ AppendCost(l) \/ LeaveTools(l)
  \/ StepFails(l) \/ \E cost \in Prices : UpdateUse(l, cost)

ChildStep(c) ==
  \/ Subagent(c) \/ SubagentAsync(c) \/ ChildStops(c) \/ RollUp(c)
  \/ Result(c) \/ ResumeNoop(c) \/ ResumeWakes(c)

Next ==
  \/ \E max \in TurnMax : Chat(max)
  \/ CallStep
  \/ \E l \in {Root, Wake} : LockRun(l)
  \/ \E l \in Loops : LoopStep(l)
  \/ \E c \in Children : ChildStep(c)

Spec == Init /\ [][Next]_vars

-----------------------------------------------------------------------------
(* Properties.                                                              *)

MaxPrice == CHOOSE p \in Prices : \A q \in Prices : q <= p

\* Children whose cost is still to be rolled up.
Unrolled == {c \in Children : pc[c] \notin {"rollupRow", "result", "resume", "gone"}}

\* "Roll child spend into the parent total so RunningCostUSD is honest": the
\* parent's total and the children still at work account for every dollar the
\* provider has charged, but for what a child spent before it failed.
HonestTotal ==
  running[Root] + MapThenSumSet(LAMBDA c : running[c], Unrolled) + lost = paid

\* Every addition to a running total gets its row, of its own amount and on its
\* own span, though UpdateUse and AppendCost are two steps and several
\* goroutines write rows of Root.
LedgerComplete ==
  \A k \in Kernels :
    rows[k].sum + MapThenSumSet(LAMBDA l : row[l].turn,
                                {l \in Loops : row[l].kernel = k}) = running[k]

Starts(l) == pc'[l] # pc[l] /\ pc'[l] \in {"step", "schema", "preCompact"}

\* Once Root's accounting has reached the transcript limit no chat, woken loop
\* or structured pass takes another llm-step, and no subagent is created; once
\* a call has reached its own limit that call takes none, whatever subagents in
\* the background add to the total meanwhile.
LimitsFinal ==
  [][ /\ TranscriptMax > 0 /\ running[Root] >= TranscriptMax =>
           /\ ~Starts(Root) /\ ~Starts(Wake)
           /\ \A c \in Children : pc[c] = "idle" => pc'[c] # "check"
      /\ pc[Root] # "idle" /\ Reached(Root) => ~Starts(Root) ]_vars

\* While subagents work one at a time and none in the background, the
\* transcript oversteps its limit by the response that crosses it and one
\* summary, no more (of what the accounting hears of).
OverrunBounded ==
  TranscriptMax > 0 /\ ~beside /\ async = {}
    => paid - lost < TranscriptMax + 2 * MaxPrice

=============================================================================
