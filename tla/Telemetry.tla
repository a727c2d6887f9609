----------------------------- MODULE Telemetry -----------------------------
(***************************************************************************)
(* What a saved trace says about the work of its kernels: the events and   *)
(* cost rows that a root kernel and its subagents write while they work    *)
(* (kernel.go, steploop.go), and what is made of them at any moment: the   *)
(* tree of OpenTelemetry spans (OTELSpans in store.go), the observations   *)
(* sent to Langfuse (buildLangfuseRequest in otlp.go) and the session's    *)
(* totals (ListSessions, LoadTraceTotal).                                  *)
(*                                                                         *)
(* A kernel is its span, and one process writes it (Replay is about more). *)
(* An event carries, beside what the code gives it, the turn and the place *)
(* in the message of a tool call: no projection reads these two, they are  *)
(* the truth.  A projected span knows its events by their place in the     *)
(* log.  A total and its row are written in one step (Spend takes them     *)
(* apart).  SessionStart, Reasoning, Stop and MasterIdle are left out: the *)
(* projections treat them as events of the root, or not at all.            *)
(***************************************************************************)
EXTENDS Integers, FiniteSets, FiniteSetsExt, Sequences, SequencesExt

CONSTANTS
  Root,
  Agents,    \* subagents
  NoId,      \* the call id of a provider that gives none
  Messages,  \* what the messages to each kernel may ask for: sequences of call ids
  Prices,    \* what an llm-step may cost
  Chats,     \* bound: Stream calls of the host
  Turns,     \* bound: turns of each kernel; no loop begins without one left
  Happens    \* which of these happen to each kernel: "fails", "guard", "compact"

Spans == Agents \cup {Root}

ASSUME TelemetryAssumption ==
  /\ Root \notin Agents /\ IsFiniteSet(Agents)
  /\ Prices \subseteq Nat /\ Chats \in Nat /\ Turns \in [Spans -> Nat]
  /\ \A k \in Spans : \A m \in Messages[k] : m \in Seq(Range(m))
  /\ Happens \in [Spans -> SUBSET {"fails", "guard", "compact"}]

VARIABLES
  pc,       \* where each kernel's loop is
  turn,     \* turns begun
  calls,    \* ids of the calls of the current message
  done,     \* how many of them are announced, or collected
  bill,     \* cost of the current turn's step
  ask,      \* Stream calls still to be made, one at a time
  async,    \* agents started in the background
  queued,   \* their results, in Root's message queue
  log,      \* the events table: of each span the events by Seq
  total,    \* runningCostUSD, and total_usd of the latest row
  turnSum,  \* sum of turn_usd of the span's rows
  own,      \* what the provider has charged each kernel
  offTurn,  \* the part of it that no TurnCompleted carries
  rolledUp  \* what has been added to Root's total from its agents

loop == <<pc, turn, calls, done, bill>>
calling == <<ask, async, queued>>
money == <<total, turnSum, own, offTurn, rolledUp>>
vars == <<loop, calling, log, money>>

Init ==
  /\ pc = [k \in Spans |-> IF k = Root THEN "idle" ELSE "none"]
  /\ turn = [k \in Spans |-> 0]
  /\ calls = [k \in Spans |-> <<>>] /\ done = [k \in Spans |-> 0]
  /\ bill = [k \in Spans |-> 0]
  /\ ask = [k \in Spans |-> IF k = Root THEN Chats ELSE 0]
  /\ async = {} /\ queued = 0
  /\ log = [k \in Spans |-> <<>>]
  /\ total = [k \in Spans |-> 0] /\ turnSum = [k \in Spans |-> 0]
  /\ own = [k \in Spans |-> 0] /\ offTurn = [k \in Spans |-> 0]
  /\ rolledUp = 0

-----------------------------------------------------------------------------
(* What the kernels write.                                                  *)

Goto(k, from, to) == pc[k] = from /\ pc' = [pc EXCEPT ![k] = to]

\* From the boundary of a turn, whether it nudged the model or not.
Leave(k, to) == Goto(k, "boundary", to) \/ Goto(k, "nudged", to)

\* Kernel.fireEvent.
Fire(k, kind, call, cost) ==
  log' = [log EXCEPT ![k] = Append(@,
            [kind |-> kind, id |-> IF call = 0 THEN NoId ELSE calls[k][call],
             cost |-> cost, turn |-> turn'[k], call |-> call])]

\* recordUsage.
Record(k, cost) ==
  /\ total' = [total EXCEPT ![k] = @ + cost]
  /\ turnSum' = [turnSum EXCEPT ![k] = @ + cost]
  /\ own' = [own EXCEPT ![k] = @ + cost]
  /\ offTurn' = [offTurn EXCEPT ![k] = @ + cost]
  /\ UNCHANGED rolledUp

\* Stream, up to its loop, unless it compacts first.
Prompt(k) ==
  /\ ask[k] > 0 /\ turn[k] < Turns[k]
  /\ Goto(k, "idle", "loop") \/ Goto(k, "compacted", "loop")
  /\ ask' = [ask EXCEPT ![k] = @ - 1]
  /\ UNCHANGED <<turn, calls, done, bill, async, queued, money>>
  /\ Fire(k, "UserPromptSubmit", 0, 0)

\* tryResume.  That the loop it wakes waits for itself at its end (KernelRun) is
\* left out: it ends like any other.
Wake ==
  /\ turn[Root] < Turns[Root]
  /\ Goto(Root, "idle", "loop")
  /\ queued > 0 /\ queued' = 0
  /\ UNCHANGED <<turn, calls, done, bill, ask, async, log, money>>

TurnStarted(k) ==
  /\ turn[k] < Turns[k]
  /\ Goto(k, "loop", "step")
  /\ turn' = [turn EXCEPT ![k] = @ + 1]
  /\ UNCHANGED <<calls, done, bill, calling, money>>
  /\ Fire(k, "TurnStarted", 0, 0)

\* Where a loop ends.  One that fails fires no Stop event; a subagent's Run has no
\* usage then.
Ended(k) == IF k = Root THEN "idle" ELSE "stopped"

Failed(k) == IF k = Root THEN "idle" ELSE "failed"

\* The step fails, or the final text cannot be written.
TurnFailed(k) ==
  /\ "fails" \in Happens[k]
  /\ Goto(k, "step", Failed(k)) \/ Goto(k, "final", Failed(k))
  /\ UNCHANGED <<turn, calls, done, bill, calling, money>>
  /\ Fire(k, "TurnFailed", 0, 0)

\* An answer.  A final text closes the turn, and so does a response that crosses
\* a limit, whatever it asks for.
Answer(k, message, cost) ==
  /\ \/ /\ message # <<>>
        /\ Goto(k, "step", "announce")
        /\ calls' = [calls EXCEPT ![k] = message]
     \/ Goto(k, "step", "final") /\ UNCHANGED calls
  /\ bill' = [bill EXCEPT ![k] = cost]
  /\ Record(k, cost)
  /\ UNCHANGED <<turn, done, calling, log>>

\* The loops over the calls of the message.
Count(k, from, to) ==
  /\ done' = [done EXCEPT ![k] = IF @ + 1 = Len(calls[k]) THEN 0 ELSE @ + 1]
  /\ Goto(k, from, IF done'[k] = 0 THEN to ELSE from)

PreToolUse(k) ==
  /\ Count(k, "announce", "tools")
  /\ UNCHANGED <<turn, calls, bill, calling, money>>
  /\ Fire(k, "PreToolUse", done[k] + 1, 0)

ToolsReturn(k) ==
  /\ Goto(k, "tools", "collect")
  /\ k = Root => \A a \in Agents \ async : pc[a] \in {"none", "gone"}
  /\ UNCHANGED <<turn, calls, done, bill, calling, log, money>>

\* PostToolUse or PostToolUseFailure.
PostToolUse(k) ==
  /\ Count(k, "collect", "ran")
  /\ UNCHANGED <<turn, calls, bill, calling, money>>
  /\ Fire(k, "PostToolUse", done[k] + 1, 0)

TurnCompleted(k) ==
  /\ \/ Goto(k, "final", Ended(k)) \/ Goto(k, "ran", "boundary")
     \/ "guard" \in Happens[k] /\ Goto(k, "final", "guard")
  /\ offTurn' = [offTurn EXCEPT ![k] = @ - bill[k]]
  /\ calls' = [calls EXCEPT ![k] = <<>>] /\ bill' = [bill EXCEPT ![k] = 0]
  /\ UNCHANGED <<turn, done, calling, total, turnSum, own, rolledUp>>
  /\ Fire(k, "TurnCompleted", 0, bill[k])

\* The completion guard and the nudges go on, the repeat guard and MaxIter do not.
GuardTriggered(k) ==
  /\ "guard" \in Happens[k]
  /\ Goto(k, "guard", "loop") \/ Goto(k, "boundary", "nudged") \/ Leave(k, Ended(k))
  /\ UNCHANGED <<turn, calls, done, bill, calling, money>>
  /\ Fire(k, "GuardTriggered", 0, 0)

QueueInterrupt ==
  /\ Leave(Root, "loop")
  /\ queued > 0 /\ queued' = 0
  /\ UNCHANGED <<turn, calls, done, bill, ask, async, money>>
  /\ Fire(Root, "QueueInterrupt", 0, 0)

\* Compact, at the boundary of a turn or before a prompt.
PreCompact(k) ==
  /\ "compact" \in Happens[k]
  /\ \/ Leave(k, "compact")
     \/ /\ ask[k] > 0 /\ total[k] > 0 /\ turn[k] < Turns[k]
        /\ Goto(k, "idle", "preCompact")
  /\ UNCHANGED <<turn, calls, done, bill, calling, money>>
  /\ Fire(k, "PreCompact", 0, 0)

PostCompact(k, cost) ==
  /\ Goto(k, "compact", "loop") \/ Goto(k, "preCompact", "compacted")
  /\ UNCHANGED <<turn, calls, done, bill, calling>>
  /\ Fire(k, "PostCompact", 0, 0)
  /\ Record(k, cost)

CompactFails(k) ==
  /\ Goto(k, "compact", Failed(k)) \/ Goto(k, "preCompact", Failed(k))
  /\ ask' = IF pc[k] = "preCompact" THEN [ask EXCEPT ![k] = @ - 1] ELSE ask
  /\ UNCHANGED <<turn, calls, done, bill, async, queued, log, money>>

\* What fires no event: the next turn, a limit, a cancelled context.
Silently(k) ==
  /\ \/ Leave(k, "loop") \/ Goto(k, "loop", Ended(k))
     \/ "fails" \in Happens[k] /\ Goto(k, "loop", Failed(k))
  /\ UNCHANGED <<turn, calls, done, bill, calling, log, money>>

-----------------------------------------------------------------------------
(* runSubagent: its events and its bill are Root's.                         *)

\* Called for by a tool of Root.  In the background it may start when no tool runs any
\* more, which the model leaves out: its event is Root's own whenever it comes, and the
\* readers attach it to Root's first span whatever is open.
SubagentStart(a) ==
  /\ pc[Root] = "tools"
  /\ Goto(a, "none", "idle")
  /\ ask' = [ask EXCEPT ![a] = 1]
  /\ \/ UNCHANGED async \/ async' = async \cup {a}
  /\ UNCHANGED <<turn, calls, done, bill, queued, money>>
  /\ Fire(Root, "SubagentStart", 0, 0)

SubagentStop(a) ==
  /\ Goto(a, "stopped", "rollup") \/ Goto(a, "failed", "result")
  /\ UNCHANGED <<turn, calls, done, bill, calling, money>>
  /\ Fire(Root, "SubagentStop", 0, 0)

RollUp(a) ==
  /\ Goto(a, "rollup", "result")
  /\ total' = [total EXCEPT ![Root] = @ + total[a]]
  /\ turnSum' = [turnSum EXCEPT ![Root] = @ + total[a]]
  /\ rolledUp' = rolledUp + total[a]
  /\ UNCHANGED <<turn, calls, done, bill, calling, log, own, offTurn>>

Result(a) ==
  /\ Goto(a, "result", "gone")
  /\ queued' = IF a \in async THEN queued + 1 ELSE queued
  /\ UNCHANGED <<turn, calls, done, bill, ask, async, log, money>>

-----------------------------------------------------------------------------
KernelStep(k) ==
  \/ Prompt(k) \/ TurnStarted(k) \/ TurnFailed(k) \/ PreToolUse(k)
  \/ ToolsReturn(k) \/ PostToolUse(k) \/ TurnCompleted(k) \/ GuardTriggered(k)
  \/ PreCompact(k) \/ CompactFails(k) \/ Silently(k)
  \/ \E cost \in Prices : \/ PostCompact(k, cost)
                          \/ \E message \in Messages[k] : Answer(k, message, cost)

AgentStep(a) == SubagentStart(a) \/ SubagentStop(a) \/ RollUp(a) \/ Result(a)

Next ==
  \/ Wake \/ QueueInterrupt
  \/ \E k \in Spans : KernelStep(k)
  \/ \E a \in Agents : AgentStep(a)

Spec == Init /\ [][Next]_vars

-----------------------------------------------------------------------------
(* OTELSpans: spanTreeEvents goes over the events of a kernel's span; the   *)
(* first span of the tree is that of the kernel itself.                     *)

Observable(kind) == kind # "QueueInterrupt"

NewSpan(name, parent, n, events) ==
  [name |-> name, parent |-> parent, start |-> n, end |-> 0, cost |-> 0,
   events |-> events]

\* `turn` is the open turn's span, the kernel's if none is; `tools` the open
\* tool spans by call id.  The first span's own cost, the last total of the
\* kernel, is left at zero: the properties add up the turns below it.
EmptyTree ==
  [spans |-> <<NewSpan("kernel.run", 0, 0, <<>>)>>, turn |-> 1,
   tools |-> [id \in {} |-> 0]]

\* The open tools, and the span i for the call with this id.
WithTool(tools, id, i) ==
  [x \in DOMAIN tools \cup {id} |-> IF x = id THEN i ELSE tools[x]]

Attach(t, i, n) == [t EXCEPT !.spans[i].events = Append(@, n)]

OpenTurn(t, n) ==
  [t EXCEPT !.spans = Append(@, NewSpan("llm.step", 1, n, <<n>>)),
            !.turn = Len(t.spans) + 1]

CloseTurn(t, n, e) ==
  IF t.turn = 1 THEN Attach(t, 1, n)
  ELSE [Attach(t, t.turn, n) EXCEPT !.spans[t.turn].end = n,
                                    !.spans[t.turn].cost = e.cost, !.turn = 1]

\* Mutant of OpenTool: the tool is hung under the kernel.
OpenToolAtRoot(t, n, e) ==
  [t EXCEPT !.spans = Append(@, NewSpan("tool", 1, n, <<n>>)),
            !.tools = WithTool(@, e.id, Len(t.spans) + 1)]

OpenTool(t, n, e) ==
  [t EXCEPT !.spans = Append(@, NewSpan("tool", t.turn, n, <<n>>)),
            !.tools = WithTool(@, e.id, Len(t.spans) + 1)]

\* Mutant of CloseTool: the result is not attached.
CloseToolQuietly(t, n, e) ==
  [t EXCEPT !.spans[t.tools[e.id]].end = n,
            !.tools = Restrict(@, DOMAIN @ \ {e.id})]

CloseTool(t, n, e) ==
  [Attach(t, t.tools[e.id], n) EXCEPT !.spans[t.tools[e.id]].end = n,
                                      !.tools = Restrict(@, DOMAIN @ \ {e.id})]

TreeStep(t, n, e) ==
  CASE ~Observable(e.kind) -> t
    [] e.kind = "TurnStarted" -> OpenTurn(t, n)
    [] e.kind \in {"TurnCompleted", "TurnFailed"} -> CloseTurn(t, n, e)
    [] e.kind = "PreToolUse" /\ e.id # NoId -> OpenTool(t, n, e)
    [] e.kind = "PostToolUse" /\ e.id \in DOMAIN t.tools -> CloseTool(t, n, e)
    [] \/ e.kind = "PreToolUse" /\ e.id = NoId
       \/ e.kind = "PostToolUse" /\ e.id \notin DOMAIN t.tools -> Attach(t, t.turn, n)
    [] OTHER -> Attach(t, 1, n)

TreeOf(events) ==
  LET tree[n \in 0..Len(events)] ==
        IF n = 0 THEN EmptyTree ELSE TreeStep(tree[n - 1], n, events[n])
  IN tree[Len(events)]

SpanTree(k) == TreeOf(log[k]).spans

-----------------------------------------------------------------------------
(* buildLangfuseRequest: one observation per completed turn, tool call,     *)
(* compaction or other event, all of them children of the kernel's.         *)

Observe(x, name, n, cost) ==
  [x EXCEPT !.spans = Append(@, [name |-> name, start |-> n, end |-> n, cost |-> cost])]

ObserveStep(x, n, e) ==
  CASE e.kind = "UserPromptSubmit" -> x
    [] e.kind = "TurnCompleted" -> Observe(x, "llm.generation", n, e.cost)
    [] e.kind = "PreToolUse" ->
         [Observe(x, "tool", n, 0) EXCEPT
            !.tools = IF e.id = NoId THEN @ ELSE WithTool(@, e.id, Len(x.spans) + 1)]
    [] e.kind = "PostToolUse" ->
         IF e.id \notin DOMAIN x.tools THEN x
         ELSE [x EXCEPT !.spans[x.tools[e.id]].end = n,
                        !.tools = Restrict(@, DOMAIN @ \ {e.id})]
    [] e.kind = "PostCompact" -> Observe(x, "compaction", n, 0)
    [] OTHER -> IF Observable(e.kind) THEN Observe(x, e.kind, n, 0) ELSE x

NothingSeen == [spans |-> <<>>, tools |-> [id \in {} |-> 0]]

SeenOf(events) ==
  LET seen[n \in 0..Len(events)] ==
        IF n = 0 THEN NothingSeen ELSE ObserveStep(seen[n - 1], n, events[n])
  IN seen[Len(events)]

Observations(k) == SeenOf(log[k]).spans

\* Sums, of a table and of what spans cost (of observations, only generations do).
SumOver(f) == MapThenSumSet(LAMBDA x : f[x], DOMAIN f)

SumCosts(spans) == SumOver([i \in DOMAIN spans |-> spans[i].cost])

Generations(spans) == {i \in DOMAIN spans : spans[i].name = "llm.generation"}

\* Mutant of ExportedCost: the kernel's own observation always shows its cost.
ExportedCostTwice(k) == SumCosts(Observations(k)) + total[k]

\* The kernel's own observation shows its cost if no turn of it was completed.
ExportedCost(k) ==
  LET observations == Observations(k) IN
    IF Generations(observations) = {} THEN total[k] ELSE SumCosts(observations)

-----------------------------------------------------------------------------
(* The totals of a session.                                                 *)

\* ListSessions and LoadTraceTotal.
ListedUSD == SumOver(turnSum)
LoadTraceTotal == SumOver(total)

-----------------------------------------------------------------------------
(* Properties.                                                              *)

\* "OTELSpans projects them losslessly": whenever a trace is read, each observable
\* event of a kernel is in exactly one span of its tree, no other event is in any,
\* and a span has its events in the order they were fired.
NothingLost ==
  \A k \in Spans :
    LET spans == SpanTree(k)
        places == UNION {{i} \X DOMAIN spans[i].events : i \in DOMAIN spans}
        placed == [p \in places |-> spans[p[1]].events[p[2]]]
    IN
    /\ IsInjective(placed)
    /\ Range(placed) = {n \in DOMAIN log[k] : Observable(log[k][n].kind)}
    /\ \A i \in DOMAIN spans : \A n \in 2..Len(spans[i].events) :
         spans[i].events[n - 1] < spans[i].events[n]

\* The event that ends what event n began: of its turn, or of its call.
Ending(k, n, kinds) ==
  LET later == {m \in n + 1..Len(log[k]) :
                  /\ log[k][m].kind \in kinds
                  /\ log[k][m].turn = log[k][n].turn /\ log[k][m].call = log[k][n].call}
  IN IF later = {} THEN 0 ELSE CHOOSE m \in later : TRUE

\* A provider that numbers the calls of a message does not number two alike.
Distinct(k, n) ==
  /\ log[k][n].id # NoId
  /\ \A m \in DOMAIN log[k] :
       /\ log[k][m].kind = "PreToolUse" /\ log[k][m].turn = log[k][n].turn
       /\ log[k][m].id = log[k][n].id
       => m = n

\* Each turn is one span with its own end and cost; each call with an id of its own
\* is one span under the turn that made it, with its own result and within the
\* turn; and both projections give the call the same result.
TreeIsTrue ==
  \A k \in Spans : LET spans == SpanTree(k) observations == Observations(k) IN
    /\ \A i \in DOMAIN spans : spans[i].name = "llm.step" =>
         LET n == spans[i].start  end == spans[i].end IN
           /\ log[k][n].kind = "TurnStarted" /\ spans[i].parent = 1
           /\ end = Ending(k, n, {"TurnCompleted", "TurnFailed"})
           /\ spans[i].cost = IF end = 0 THEN 0 ELSE log[k][end].cost
    /\ \A n \in DOMAIN log[k] : log[k][n].kind = "PreToolUse" /\ Distinct(k, n) =>
         LET result == Ending(k, n, {"PostToolUse"}) IN
           /\ \E i \in DOMAIN spans :
                LET parent == spans[spans[i].parent] IN
                /\ spans[i].name = "tool" /\ spans[i].start = n /\ spans[i].end = result
                /\ parent.name = "llm.step"
                /\ log[k][parent.start].turn = log[k][n].turn
                /\ parent.end # 0 => result \in n..parent.end
           /\ \E i \in DOMAIN observations :
                /\ observations[i].start = n
                /\ observations[i].end = IF result = 0 THEN n ELSE result

\* What was charged, and what the three readings of a trace make of it.  The
\* turns of the tree and the generations of the export carry the cost of completed
\* turns: all but summaries and turns that were not completed.  Both session
\* totals count an agent twice, in its own span and in Root's.  The export counts
\* nothing twice ("so the trace total is never double-counted") once Root has
\* completed a turn; before, Root's observation shows a total that may hold an
\* agent's cost.
TotalsAddUp ==
  LET completed(k) == \E n \in DOMAIN log[k] : log[k][n].kind = "TurnCompleted"
      exported == [k \in Spans |-> ExportedCost(k)]
  IN /\ \A k \in Spans :
          /\ SumCosts(SpanTree(k)) = own[k] - offTurn[k]
          /\ completed(k) => exported[k] = own[k] - offTurn[k]
     /\ ListedUSD = SumOver(own) + rolledUp
     /\ LoadTraceTotal = ListedUSD
     /\ completed(Root) \/ rolledUp = 0 => SumOver(exported) <= SumOver(own)
=============================================================================
