------------------------------ MODULE Sessions ------------------------------
(***************************************************************************)
(* One trace in the store while it is written and read: the kernel of the  *)
(* root span and of one subagent (kernel.go) write rows with one statement *)
(* each, the host renames and deletes the session (store.go), and the      *)
(* dashboard (examples/cli/watch.go) reads the page of the trace in        *)
(* another process with one query after the other and no transaction.  The *)
(* kernels' process may die; a process that opens the root span again is   *)
(* in Replay.                                                              *)
(*                                                                         *)
(* Rows appear as they are queried: `costs` and `events` of a span in      *)
(* order, 0 for a time that is not set.  Events no reader below looks at   *)
(* are left out.  Every request costs the same, whatever it is for; a turn *)
(* makes at most one call, and the subagent is called once.                *)
(***************************************************************************)
EXTENDS Integers, Sequences, FiniteSets, SequencesExt, FiniteSetsExt

CONSTANTS
  TurnPrice,  \* what a request costs
  RootTurns,  \* bound: turns of the root span
  Unnamed,    \* the turns whose call has no id
  Chores,     \* bound: calls of the host but DeleteSession, compactions and
              \* structured answers
  Visits      \* bound: pages read and calls of DeleteSession

ASSUME SessionsAssumption ==
  /\ TurnPrice \in Nat \ {0} /\ RootTurns \in Nat /\ Chores \in Nat
  /\ Visits \in Nat /\ Unnamed \subseteq Nat

Span == {"root", "child"}

VARIABLES
  trace,      \* the row of traces
  spans,      \* the rows of spans
  costs,      \* the rows of costs
  events,     \* the rows of events
  memories,   \* the spans with a row in memories
  kernel,     \* the kernel of each span
  page,       \* the page being read
  clock, chores, pages,
  \* What really happened:
  paidFor,    \* the cost of all requests
  objects,    \* structured answers of the root span
  astray,     \* has cost got lost with a subagent that failed or died?
  deletions,  \* calls of DeleteSession
  haunted     \* since the last one: who may have written rows again

rows     == <<trace, spans, costs, events, memories>>
truth    == <<paidFor, objects, astray, deletions, haunted>>
counters == <<clock, chores, pages>>
sessVars == <<rows, kernel, page, counters, truth>>

NoTrace == [here |-> FALSE, titled |-> FALSE, started |-> 0, ended |-> 0]
NoSpan  == [here |-> FALSE, parent |-> "", started |-> 0, ended |-> 0]
Down    == [pc |-> "down", total |-> 0, seq |-> 0, turns |-> 0]
NoPage  == [pc |-> "none", found |-> FALSE, spans |-> {}, costs |-> [s \in Span |-> <<>>],
            events |-> [s \in Span |-> <<>>], quiet |-> FALSE, paidFor |-> 0]

SessInit ==
  /\ trace = NoTrace /\ spans = [s \in Span |-> NoSpan]
  /\ costs = [s \in Span |-> <<>>] /\ events = [s \in Span |-> <<>>] /\ memories = {}
  /\ kernel = [s \in Span |-> Down] /\ page = NoPage
  /\ clock = 0 /\ chores = 0 /\ pages = 0
  /\ paidFor = 0 /\ objects = 0 /\ astray = FALSE /\ deletions = 0 /\ haunted = {}

----------------------------------------------------------------------------
(* The statements of the store.                                             *)

OrOld(new, old) == IF new > 0 THEN new ELSE old

\* Upserts: a value that is not set leaves the old one, but SaveTraceMeta always
\* writes the title, and no kernel has one to write.
SaveTraceMeta(started, ended) ==
  trace' = [here |-> TRUE, titled |-> FALSE, started |-> OrOld(started, trace.started),
            ended |-> OrOld(ended, trace.ended)]

SaveSpanMeta(s, parent, started, ended) ==
  spans' = [spans EXCEPT ![s] =
    [here |-> TRUE, parent |-> IF parent # "" THEN parent ELSE @.parent,
     started |-> OrOld(started, @.started), ended |-> OrOld(ended, @.ended)]]

AppendCost(s, turn, total) ==
  costs' = [costs EXCEPT ![s] = Append(@, [turn |-> turn, total |-> total])]

\* The id of the call of kernel k's last turn, 0 if the provider gave none.
CallId(k) == IF k.turns \in Unnamed THEN 0 ELSE k.turns

\* fireEvent of the kernel of s: a number that is taken drops the event.
FireEvent(s, kind) ==
  LET n == kernel[s].seq + 1
      below == {i \in DOMAIN events[s] : events[s][i].seq < n}
  IN  events' = IF \E i \in DOMAIN events[s] : events[s][i].seq = n THEN events
                ELSE [events EXCEPT ![s] =
                        InsertAt(@, Cardinality(below) + 1,
                                 [seq |-> n, kind |-> kind, call |-> CallId(kernel[s])])]

Goes(s, pc) == kernel' = [kernel EXCEPT ![s].pc = pc]

\* The kernel of s fires an event and goes on.
FiresTo(s, kind, pc) ==
  /\ FireEvent(s, kind)
  /\ kernel' = [kernel EXCEPT ![s].pc = pc, ![s].seq = @ + 1]

----------------------------------------------------------------------------
(* The kernels.                                                             *)

\* NewKernel of the root: the span's row, then the trace's.
OpenRoot ==
  /\ kernel["root"].pc = "down"
  /\ SaveSpanMeta("root", "", clock + 1, 0)
  /\ kernel' = [kernel EXCEPT !["root"] = [Down EXCEPT !.pc = "opening"]]
  /\ clock' = clock + 1
  /\ UNCHANGED <<trace, costs, events, memories, page, chores, pages, truth>>

OpenTrace ==
  /\ kernel["root"].pc = "opening"
  /\ SaveTraceMeta(clock + 1, 0) /\ clock' = clock + 1
  /\ Goes("root", "idle")
  /\ UNCHANGED <<spans, costs, events, memories, page, chores, pages, truth>>

\* The bound on requests that are no turns.
Extra == chores < Chores /\ chores' = chores + 1

MoreTurns(s) == kernel[s].turns < IF s = "root" THEN RootTurns ELSE 1

\* A Run or Stream begins, with the compaction if it has one.
StartRun(s) ==
  /\ kernel[s].pc \in {"idle", "compacted"} /\ MoreTurns(s)
  /\ FiresTo(s, "UserPromptSubmit", "run")
  /\ UNCHANGED <<trace, spans, costs, memories, page, counters, truth>>

\* recordUsage after an answer: the total and its row.
Request(s, to, turns) ==
  /\ AppendCost(s, TurnPrice, kernel[s].total + TurnPrice)
  /\ kernel' = [kernel EXCEPT ![s].pc = to, ![s].turns = @ + turns,
                              ![s].total = @ + TurnPrice]
  /\ paidFor' = paidFor + TurnPrice
  /\ UNCHANGED <<trace, spans, events, memories, page, clock, pages, astray, deletions,
                 haunted>>

\* The answer of a turn.
Bill(s) ==
  /\ kernel[s].pc \in {"run", "boundary"} /\ MoreTurns(s)
  /\ Request(s, "billed", 1)
  /\ UNCHANGED <<chores, objects>>

\* The loop ends at its top, with no event: at a spend limit it ends well, cancelled
\* or after a compaction that failed it does not.
LeaveLoop(s, to) ==
  /\ kernel[s].pc \in {"run", "boundary"} /\ MoreTurns(s)
  /\ to \in {"answered", IF s = "root" THEN "idle" ELSE "failed"}
  /\ kernel' = [kernel EXCEPT ![s].pc = to, ![s].turns = @ + 1]
  /\ UNCHANGED <<rows, page, counters, truth>>

\* Compact of a history, before a prompt or at a turn boundary: the summary's row,
\* then PostCompact.
Summarise ==
  /\ kernel["root"].pc \in {"idle", "boundary"} /\ kernel["root"].turns > 0
  /\ Extra
  /\ Request("root", IF kernel["root"].pc = "idle" THEN "summed first" ELSE "summed", 0)
  /\ UNCHANGED objects

SummaryTold ==
  /\ kernel["root"].pc \in {"summed first", "summed"}
  /\ FiresTo("root", "PostCompact",
             IF kernel["root"].pc = "summed" THEN "run" ELSE "compacted")
  /\ UNCHANGED <<trace, spans, costs, memories, page, counters, truth>>

\* The structured-output pass of a Stream with a schema: a row and no event.
StructuredPass ==
  /\ kernel["root"].pc = "object"
  /\ Extra /\ Request("root", "idle", 0)
  /\ objects' = objects + 1

\* It fails, or a spend limit is reached before it.
NoPass ==
  /\ kernel["root"].pc = "object"
  /\ Goes("root", "idle")
  /\ UNCHANGED <<rows, page, counters, truth>>

\* The answer calls the subagent tool.
CallTool ==
  /\ kernel["root"].pc = "billed" /\ kernel["child"].pc = "down"
  /\ FiresTo("root", "PreToolUse", "calling")
  /\ UNCHANGED <<trace, spans, costs, memories, page, counters, truth>>

\* runSubagent: NewKernel of the child, then SubagentStart.
OpenChild ==
  /\ kernel["root"].pc = "calling" /\ kernel["child"].pc = "down"
  /\ SaveSpanMeta("child", "root", clock + 1, 0) /\ clock' = clock + 1
  /\ kernel' = [kernel EXCEPT !["child"].pc = "idle", !["root"].pc = "waiting"]
  /\ UNCHANGED <<trace, costs, events, memories, page, chores, pages, truth>>

\* TurnCompleted: of a turn with a call after its result; of one whose cost reaches
\* a spend limit at once, the call not run.
CompleteTurn(s, kind) ==
  /\ kernel[s].pc \in {"billed", "called"}
  /\ kind \in IF kernel[s].pc = "called" THEN {"ToolTurn"} ELSE {"AnswerTurn", "CutTurn"}
  /\ FiresTo(s, kind, IF kernel[s].pc = "called" THEN "boundary" ELSE "answered")
  /\ UNCHANGED <<trace, spans, costs, memories, page, counters, truth>>

\* The end of streamCurrent; the root goes on to its trace.
EndSpan(s) ==
  /\ kernel[s].pc = "answered"
  /\ SaveSpanMeta(s, "", 0, clock + 1) /\ clock' = clock + 1
  /\ Goes(s, IF s = "root" THEN "ending" ELSE "ended")
  /\ UNCHANGED <<trace, costs, events, memories, page, chores, pages, truth>>

EndTrace(to) ==
  /\ kernel["root"].pc = "ending" /\ to \in {"idle", "object"}
  /\ SaveTraceMeta(0, clock + 1) /\ clock' = clock + 1
  /\ Goes("root", to)
  /\ UNCHANGED <<spans, costs, events, memories, page, chores, pages, truth>>

\* The step fails, or the root's writer does after the bill: Run returns and no row
\* says that it has ended.
FailTurn(s) ==
  /\ kernel[s].pc \in {"run", "boundary"} \/ (s = "root" /\ kernel[s].pc = "billed")
  /\ FireEvent(s, "TurnFailed")
  /\ kernel' = [kernel EXCEPT ![s].pc = IF s = "root" THEN "idle" ELSE "failed",
                              ![s].seq = @ + 1, ![s].turns = @ + 1]
  /\ UNCHANGED <<trace, spans, costs, memories, page, counters, truth>>

\* runSubagent after the child's Run: SubagentStop, then the child's cost, which a
\* failed Run does not report.
StopChild ==
  /\ kernel["root"].pc = "waiting" /\ kernel["child"].pc \in {"ended", "failed"}
  /\ FireEvent("root", "SubagentStop")
  /\ kernel' = [kernel EXCEPT !["root"].seq = @ + 1,
       !["root"].pc = IF kernel["child"].pc = "ended" THEN "stopped" ELSE "returned",
       !["child"].pc = "gone"]
  /\ astray' = (astray \/ kernel["child"].pc = "failed")
  /\ UNCHANGED <<trace, spans, costs, memories, page, counters, paidFor, objects,
                 deletions, haunted>>

\* A child that made no request has no entry in the usage that it returns.
RollUp ==
  /\ kernel["root"].pc = "stopped"
  /\ LET cost == kernel["child"].total  total == kernel["root"].total + cost IN
     /\ IF cost = 0 THEN UNCHANGED costs ELSE AppendCost("root", cost, total)
     /\ kernel' = [kernel EXCEPT !["root"].pc = "returned", !["root"].total = total]
  /\ UNCHANGED <<trace, spans, events, memories, page, counters, truth>>

FinishTool ==
  /\ kernel["root"].pc = "returned"
  /\ FiresTo("root", "PostToolUse", "called")
  /\ UNCHANGED <<trace, spans, costs, memories, page, counters, truth>>

\* The process dies.
KernelDies ==
  /\ kernel["root"].pc \notin {"down", "gone"}
  /\ kernel' = [s \in Span |-> [Down EXCEPT !.pc = "gone"]]
  /\ astray' = TRUE
  /\ UNCHANGED <<rows, page, counters, paidFor, objects, deletions, haunted>>

----------------------------------------------------------------------------
(* The host.                                                                *)

\* The host knows the id once the session has begun.
Begun == kernel["root"].pc # "down"

Works == Begun /\ chores < Chores /\ chores' = chores + 1

UpdateTraceTitle ==
  /\ Works
  /\ trace' = [trace EXCEPT !.here = TRUE, !.titled = TRUE]
  /\ haunted' = haunted \cup {"host"}
  /\ UNCHANGED <<spans, costs, events, memories, kernel, page, clock, pages, paidFor,
                 objects, astray, deletions>>

SaveMemories(s) ==
  /\ Works
  /\ memories' = memories \cup {s} /\ haunted' = haunted \cup {"notes"}
  /\ UNCHANGED <<trace, spans, costs, events, kernel, page, clock, pages, paidFor,
                 objects, astray, deletions>>

\* The kernels that will write again without being opened.
Alive == {s \in Span : kernel[s].pc \notin {"down", "gone"}}

Haunts == Alive \cup IF kernel["root"].pc = "opening" THEN {"new"} ELSE {}

\* Mutant of DeleteSession: the rows of costs stay.
DeleteButCosts ==
  /\ Begun /\ pages + deletions < Visits
  /\ trace' = NoTrace /\ spans' = [s \in Span |-> NoSpan]
  /\ events' = [s \in Span |-> <<>>] /\ memories' = memories \ {"root"}
  /\ deletions' = deletions + 1 /\ haunted' = Haunts
  /\ UNCHANGED <<costs, kernel, page, counters, paidFor, objects, astray>>

\* One transaction; the rows of memories are found by the id of the trace, which is
\* the root's.
DeleteSession ==
  /\ Begun /\ pages + deletions < Visits
  /\ trace' = NoTrace /\ spans' = [s \in Span |-> NoSpan]
  /\ costs' = [s \in Span |-> <<>>] /\ events' = [s \in Span |-> <<>>]
  /\ memories' = memories \ {"root"}
  /\ deletions' = deletions + 1 /\ haunted' = Haunts
  /\ UNCHANGED <<kernel, page, counters, paidFor, objects, astray>>

----------------------------------------------------------------------------
(* The page of a trace: LoadTraceData and what is made of it.               *)

ReadTrace ==
  /\ page.pc = "none" /\ deletions = 0 /\ pages < Visits /\ pages' = pages + 1
  /\ page' = [NoPage EXCEPT
       !.pc = "trace", !.found = trace.here, !.paidFor = paidFor,
       !.quiet = \A s \in Span : kernel[s].pc \in {"down", "idle", "gone"}]
  /\ UNCHANGED <<rows, kernel, clock, chores, truth>>

ReadSpans ==
  /\ page.pc = "trace"
  /\ page' = [page EXCEPT !.spans = {s \in Span : spans[s].here},
       !.pc = IF spans["root"].here THEN "root" ELSE IF spans["child"].here THEN "child"
                ELSE "done"]
  /\ UNCHANGED <<rows, kernel, counters, truth>>

\* The query that follows on that of a span's costs.
EventsQuery(s) == IF s = "root" THEN "root events" ELSE "child events"

\* Mutant of ReadCosts: the query forgets the span.
ReadAllCosts(s) ==
  /\ page.pc = s
  /\ page' = [page EXCEPT !.pc = EventsQuery(s),
                          !.costs[s] = costs["root"] \o costs["child"]]
  /\ UNCHANGED <<rows, kernel, counters, truth>>

\* loadSpanCosts and loadSpanEvents.
ReadCosts(s) ==
  /\ page.pc = s
  /\ page' = [page EXCEPT !.pc = EventsQuery(s), !.costs[s] = costs[s]]
  /\ UNCHANGED <<rows, kernel, counters, truth>>

ReadEvents(s) ==
  /\ page.pc = EventsQuery(s)
  /\ page' = [page EXCEPT !.events[s] = events[s],
       !.pc = IF s = "root" /\ "child" \in page.spans THEN "child" ELSE "done"]
  /\ UNCHANGED <<rows, kernel, counters, truth>>

\* The page is sent; without a trace it is "not found".
SendPage(found) ==
  /\ page.pc = "done" /\ found = page.found
  /\ page' = NoPage
  /\ UNCHANGED <<rows, kernel, counters, truth>>

----------------------------------------------------------------------------
KernelStep ==
  \/ OpenRoot \/ OpenTrace \/ CallTool \/ OpenChild \/ StopChild \/ RollUp \/ FinishTool
  \/ Summarise \/ SummaryTold \/ StructuredPass \/ NoPass
  \/ \E to \in {"idle", "object"} : EndTrace(to)
  \/ \E s \in Span :
       \/ StartRun(s) \/ Bill(s) \/ EndSpan(s) \/ FailTurn(s)
       \/ \E to \in {"answered", "idle", "failed"} : LeaveLoop(s, to)
       \/ \E kind \in {"ToolTurn", "AnswerTurn", "CutTurn"} : CompleteTurn(s, kind)

Chore == UpdateTraceTitle \/ DeleteSession \/ \E s \in Span : SaveMemories(s)

Dashboard == \/ ReadTrace \/ ReadSpans
             \/ \E s \in Span : ReadCosts(s) \/ ReadEvents(s)
             \/ \E found \in BOOLEAN : SendPage(found)

SessNext == KernelStep \/ KernelDies \/ Chore \/ Dashboard

SessSpec == SessInit /\ [][SessNext]_sessVars

----------------------------------------------------------------------------
(* What the page shows.                                                     *)

\* The highest total of any row.
PageCost == Max({0} \cup {r.total : r \in UNION {ToSet(page.costs[s]) : s \in Span}})

\* The timeline of a span: a call has a time if it has an id, by which its result is
\* found after it.
TimelineOf(evs) ==
  LET timed(id) == /\ id # 0
                   /\ \E a, b \in DOMAIN evs :
                        /\ evs[a].kind = "PreToolUse" /\ evs[a].call = id
                        /\ evs[b].kind = "PostToolUse" /\ evs[b].call = id /\ a < b
      row(label, e) == [label |-> label, of |-> e, timed |-> timed(e.call)]
      shown(e) == CASE e.kind = "UserPromptSubmit" -> <<row("user", e)>>
                    [] e.kind = "AnswerTurn" -> <<row("assistant", e)>>
                    [] e.kind = "ToolTurn" -> <<row("tool", e), row("tool-result", e)>>
                    [] e.kind = "CutTurn" -> <<row("tool", e)>>
                    [] OTHER -> <<>>
  IN  FlattenSeq([i \in DOMAIN evs |-> shown(evs[i])])

----------------------------------------------------------------------------
\* The page of a session that was not deleted is never further from the truth than
\* the step a kernel is about to take, although each of its queries sees another
\* moment.  A span has no more rows of costs than events that account for them (turns,
\* subagents, compactions) and one, but for the structured answers, which no event
\* tells of; no subagent is without its parent, no turn outside a prompt, and no call
\* without its time that was run and has an id.  The cost on the page is never above
\* what the session has cost, and it is that cost if no kernel was in a run and no
\* subagent failed or died, the subagents' share, which is on their own rows and in
\* the root's total, counted once.
PageTells ==
  page.pc = "done" /\ deletions = 0 =>
    /\ "child" \in page.spans => "root" \in page.spans
    /\ \A s \in Span :
         LET evs == page.events[s]
             billed == {i \in DOMAIN evs : evs[i].kind \in
                          {"AnswerTurn", "ToolTurn", "CutTurn", "TurnFailed",
                           "SubagentStop", "PostCompact"}}
             silent == IF s = "root" THEN objects ELSE 0
             shown == TimelineOf(evs)
         IN  /\ Len(page.costs[s]) <= Cardinality(billed) + silent + 1
             /\ shown # <<>> => Head(shown).label = "user"
             /\ \A i \in DOMAIN shown :
                  shown[i].label = "tool" /\ ~shown[i].timed =>
                    shown[i].of.kind = "CutTurn" \/ shown[i].of.call = 0
    /\ PageCost <= paidFor
    /\ page.quiet /\ page.paidFor = paidFor /\ ~astray => PageCost = paidFor

\* "Removes all data associated with a trace ID" (store.go on DeleteSession): what is
\* in the tables afterwards comes from a kernel that was live at that moment or from
\* the host, but for the memories of a subagent; and a trace that comes back has no
\* start, unless its kernel was just being opened.
GhostsHaveAuthors ==
  deletions > 0 =>
    /\ trace.here => haunted \cap {"root", "host"} # {}
    /\ \A s \in Span : spans[s].here \/ events[s] # <<>> \/ costs[s] # <<>> =>
         haunted \cap {"root", s} # {}
    /\ trace.here /\ "new" \notin haunted => trace.started = 0
    /\ "notes" \notin haunted => memories \subseteq {"child"}

=============================================================================
