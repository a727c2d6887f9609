-------------------------- MODULE TelemetryProofs --------------------------
(***************************************************************************)
(* Proofs about Telemetry: for any number of subagents, turns and calls,   *)
(* whatever the messages ask for and whichever of them fail, the tree of   *)
(* spans loses no event and tells of each turn and call what was, the      *)
(* observations sent to Langfuse tell the same, and the three totals of a  *)
(* session come to what was paid.                                          *)
(*                                                                         *)
(* A projection is a fold over the events of a kernel.  Each lemma says    *)
(* what one event more does to it (OpenTool, CloseTool, ...), for any      *)
(* events before it; Truth, of a log and of the place its kernel is at, is *)
(* what every step keeps.                                                  *)
(***************************************************************************)
EXTENDS Telemetry, DataLemmas

-----------------------------------------------------------------------------
(* What a kernel has fired.                                                 *)

\* Events that a projection treats like those of the kernel.
Others == {"UserPromptSubmit", "GuardTriggered", "QueueInterrupt", "PreCompact",
           "PostCompact", "SubagentStart", "SubagentStop"}

Ends == {"TurnCompleted", "TurnFailed"}

EventKinds == Others \cup Ends \cup {"TurnStarted", "PreToolUse", "PostToolUse"}

Ids == {NoId} \cup UNION {UNION {Range(m) : m \in Messages[k]} : k \in Spans}

EventType == [kind : EventKinds, id : Ids, cost : Nat, turn : Nat, call : Nat]

PCs == {"none", "idle", "loop", "step", "announce", "tools", "collect", "ran", "final",
        "boundary", "nudged", "guard", "compact", "preCompact", "compacted", "stopped",
        "failed", "rollup", "result", "gone"}

\* A message has calls.
Calls(k) == pc[k] \in {"announce", "tools", "collect", "ran"}

\* A turn is open.
Busy(k) == Calls(k) \/ pc[k] \in {"step", "final"}

\* How many calls of the message are announced, and collected.
Announced(k) ==
  IF pc[k] = "announce" THEN done[k]
  ELSE IF pc[k] \in {"tools", "collect", "ran"} THEN Len(calls[k]) ELSE 0

Collected(k) ==
  IF pc[k] = "collect" THEN done[k] ELSE IF pc[k] = "ran" THEN Len(calls[k]) ELSE 0

\* The loops over the calls.
LoopTyped ==
  /\ pc \in [Spans -> PCs] /\ turn \in [Spans -> Nat] /\ calls \in [Spans -> Seq(Ids)]
  /\ done \in [Spans -> Nat] /\ bill \in [Spans -> Nat]
  /\ log \in [Spans -> Seq(EventType)]

Counted ==
  \A k \in Spans :
    /\ Calls(k) <=> calls[k] # <<>>
    /\ pc[k] \in {"announce", "collect"} => done[k] < Len(calls[k])
    /\ pc[k] \notin {"announce", "collect"} => done[k] = 0

\* The events evs of a kernel in turn T, which is open or not, with a calls of the
\* message C announced and c of them collected.
Counts(evs, T, open, C, a, c) ==
  /\ T \in Nat /\ open \in BOOLEAN /\ C \in Seq(Ids)
  /\ a \in 0..Len(C) /\ c \in 0..a /\ (c = 0 \/ a = Len(C))
  /\ ~open => a = 0
  /\ evs \in Seq(EventType)

Is(evs, n, kinds) == evs[n].kind \in kinds

\* Of one turn, and of one call.
Turned(evs, m, n) == evs[m].turn = evs[n].turn

Paired(evs, m, n) == Turned(evs, m, n) /\ evs[m].call = evs[n].call

LogTrue(evs, T, open, C, a, c) ==
  /\ \A n \in DOMAIN evs : /\ evs[n].turn <= T
                           /\ Is(evs, n, Ends \cup {"TurnStarted"}) => evs[n].call = 0
  /\ \A m, n \in DOMAIN evs :
       /\ Is(evs, m, Ends) /\ Is(evs, n, Ends) /\ Turned(evs, m, n) => m = n
       /\ Is(evs, m, {"PreToolUse"}) /\ Is(evs, n, {"PreToolUse"}) /\ Paired(evs, m, n)
            => m = n
       /\ Is(evs, m, {"PostToolUse"}) /\ Is(evs, n, {"PostToolUse"}) /\ Paired(evs, m, n)
            => m = n
  /\ open =>
       /\ \A n \in DOMAIN evs : evs[n].turn = T =>
            /\ ~Is(evs, n, Ends)
            /\ Is(evs, n, {"PreToolUse"}) =>
                 evs[n].call \in 1..a /\ evs[n].id = C[evs[n].call]
            /\ Is(evs, n, {"PostToolUse"}) => evs[n].call \in 1..c
       /\ \A j \in 1..a : \E n \in DOMAIN evs :
            /\ Is(evs, n, {"PreToolUse"}) /\ evs[n].turn = T
            /\ evs[n].call = j /\ evs[n].id = C[j]

\* No other call of the turn has the id of n.
Alone(evs, n) ==
  /\ Is(evs, n, {"PreToolUse"}) /\ evs[n].id # NoId
  /\ \A m \in DOMAIN evs :
       Is(evs, m, {"PreToolUse"}) /\ Turned(evs, m, n) /\ evs[m].id = evs[n].id => m = n

\* m is the result of n.
Answers(evs, n, m) ==
  m \in n + 1..Len(evs) /\ Is(evs, m, {"PostToolUse"}) /\ Paired(evs, m, n)

\* The ids of the calls that wait for their result.
Hanging(C, a, c) == {C[j] : j \in 1..a} \ ({NoId} \cup {C[j] : j \in 1..c})

\* The spans ss of a projection, and the open ones by call id, tell of each call with
\* an id of its own whether it waits, or what its result was.
CallsTrue(ss, to, evs, T, open, C, a, c) ==
  /\ DOMAIN to = Hanging(C, a, c)
  /\ \A id \in DOMAIN to :
       /\ to[id] \in DOMAIN ss /\ ss[to[id]].name = "tool"
       /\ ss[to[id]].start \in DOMAIN evs /\ ss[to[id]].end <= ss[to[id]].start
       /\ evs[ss[to[id]].start].id = id
  /\ \A n \in DOMAIN evs : Alone(evs, n) =>
       \E i \in DOMAIN ss :
         /\ ss[i].name = "tool" /\ ss[i].start = n
         /\ \/ /\ open /\ evs[n].turn = T /\ evs[n].call > c
               /\ evs[n].id \in DOMAIN to /\ to[evs[n].id] = i
            \/ Answers(evs, n, ss[i].end)

-----------------------------------------------------------------------------
(* The tree.                                                                *)

SpanType ==
  [name : {"kernel.run", "llm.step", "tool"}, parent : Nat, start : Nat, end : Nat,
   cost : Nat, events : Seq(Nat)]

TreeShape(t) ==
  /\ t = [spans |-> t.spans, turn |-> t.turn, tools |-> t.tools]
  /\ t.spans \in Seq(SpanType) /\ t.turn \in 1..Len(t.spans)
  /\ t.tools \in [DOMAIN t.tools -> 1..Len(t.spans)]
  /\ t.spans[1].name = "kernel.run"

\* Where events are.
Placed(t, evs) ==
  /\ \A i \in DOMAIN t.spans : \A j \in DOMAIN t.spans[i].events :
       /\ t.spans[i].events[j] \in DOMAIN evs
       /\ Observable(evs[t.spans[i].events[j]].kind)
  /\ \A n \in DOMAIN evs : Observable(evs[n].kind) =>
       \E i \in DOMAIN t.spans : \E j \in DOMAIN t.spans[i].events :
         t.spans[i].events[j] = n
  /\ \A i, g \in DOMAIN t.spans :
       \A j \in DOMAIN t.spans[i].events : \A h \in DOMAIN t.spans[g].events :
         /\ t.spans[i].events[j] = t.spans[g].events[h] => i = g /\ j = h
         /\ i = g /\ j < h => t.spans[i].events[j] < t.spans[g].events[h]

\* The span of a turn.
IsTurn(t, i) == i \in DOMAIN t.spans /\ t.spans[i].name = "llm.step"

TurnsTrue(t, evs, T, open) ==
  /\ t.turn # 1 <=> open
  /\ open => /\ IsTurn(t, t.turn) /\ t.spans[t.turn].end = 0 /\ t.spans[t.turn].cost = 0
             /\ evs[t.spans[t.turn].start].turn = T
  /\ \A i \in DOMAIN t.spans : IsTurn(t, i) =>
       LET s == t.spans[i] IN
       /\ s.start \in DOMAIN evs /\ Is(evs, s.start, {"TurnStarted"}) /\ s.parent = 1
       /\ i # t.turn => /\ s.end \in s.start + 1..Len(evs) /\ Is(evs, s.end, Ends)
                        /\ Paired(evs, s.end, s.start) /\ s.cost = evs[s.end].cost

\* The calls in the tree hang under the turn that made them, and do not outlast it.
ToolsTrue(t, evs) ==
  /\ \A i \in DOMAIN t.spans : t.spans[i].name = "tool" =>
       LET s == t.spans[i]  parent == t.spans[s.parent] IN
       /\ IsTurn(t, s.parent) /\ s.start \in DOMAIN evs /\ s.end \in 0..Len(evs)
       /\ Turned(evs, parent.start, s.start)
       /\ parent.end # 0 => s.end <= parent.end
  /\ \A id \in DOMAIN t.tools :
       LET s == t.spans[t.tools[id]] IN s.name = "tool" /\ s.end = 0 /\ s.parent = t.turn

TreeTrue(t, evs, T, open, C, a, c) ==
  /\ TreeShape(t) /\ TurnsTrue(t, evs, T, open) /\ ToolsTrue(t, evs)
  /\ CallsTrue(t.spans, t.tools, evs, T, open, C, a, c)

-----------------------------------------------------------------------------
(* The observations.                                                        *)

SeenType ==
  [name : EventKinds \cup {"llm.generation", "tool", "compaction"}, start : Nat, end : Nat, cost : Nat]

SeenShape(x) ==
  /\ x = [spans |-> x.spans, tools |-> x.tools]
  /\ x.spans \in Seq(SeenType) /\ x.tools \in [DOMAIN x.tools -> 1..Len(x.spans)]

\* A call that waits ends where it starts.
Pending(x) ==
  \A id \in DOMAIN x.tools : x.spans[x.tools[id]].end = x.spans[x.tools[id]].start

SeenTrue(x, evs, T, open, C, a, c) ==
  SeenShape(x) /\ CallsTrue(x.spans, x.tools, evs, T, open, C, a, c) /\ Pending(x)

\* All of it.
Truth(evs, T, open, C, a, c) ==
  /\ LogTrue(evs, T, open, C, a, c) /\ TreeTrue(TreeOf(evs), evs, T, open, C, a, c)
  /\ SeenTrue(SeenOf(evs), evs, T, open, C, a, c)

True(k) == Truth(log[k], turn[k], Busy(k), calls[k], Announced(k), Collected(k))

\* What the turns of the tree and the generations of the export cost.
Sums(evs, paid) ==
  /\ SumCosts(TreeOf(evs).spans) = paid /\ SumCosts(SeenOf(evs).spans) = paid
  /\ (\E n \in DOMAIN evs : Is(evs, n, {"TurnCompleted"})) <=>
       Generations(SeenOf(evs).spans) # {}

Paid(k) ==
  /\ own[k] \in Nat /\ offTurn[k] \in Nat /\ bill[k] <= offTurn[k]
  /\ Sums(log[k], own[k] - offTurn[k])

\* What the kernels and their rows carry.
Ledger ==
  /\ own \in [Spans -> Nat] /\ offTurn \in [Spans -> Nat] /\ rolledUp \in Nat
  /\ total = turnSum /\ total = [own EXCEPT ![Root] = @ + rolledUp]

AllTrue == \A k \in Spans : True(k)

Totals == Ledger /\ \A k \in Spans : Paid(k)
-----------------------------------------------------------------------------
(* What a projection makes of one event more.                               *)

\* The recursion of TreeOf up to n, and of SeenOf.
Grows(g, n, evs) ==
  g = [m \in 0..n |-> IF m = 0 THEN EmptyTree ELSE TreeStep(g[m - 1], m, evs[m])]

Sees(g, n, evs) ==
  g = [m \in 0..n |-> IF m = 0 THEN NothingSeen ELSE ObserveStep(g[m - 1], m, evs[m])]

Growth(evs) == CHOOSE g : Grows(g, Len(evs), evs)

Sight(evs) == CHOOSE g : Sees(g, Len(evs), evs)

\* Both are the end of that recursion.
LEMMA TreeIs == \A evs : TreeOf(evs) = Growth(evs)[Len(evs)]
  BY DEF TreeOf, Growth, Grows

\* The same of what is seen.
LEMMA SeenIs == \A evs : SeenOf(evs) = Sight(evs)[Len(evs)]
  BY DEF SeenOf, Sight, Sees

\* There is a tree for each number of events.
LEMMA GrowthExists ==
  ASSUME NEW evs, NEW k \in Nat
  PROVE  \E g : Grows(g, k, evs)
<1> DEFINE W == {n \in Nat : ~\E g : Grows(g, n, evs)}
<1> SUFFICES ASSUME W # {} PROVE FALSE
  OBVIOUS
<1>1. PICK n \in W : \A m \in W : n <= m
  <2>1. W \subseteq Nat
    OBVIOUS
  <2> HIDE DEF W
  <2>2. QED
    BY <2>1, LeastNumber
<1>2. n \in Nat /\ ~\E g : Grows(g, n, evs)
  BY <1>1
<1>3. n # 0
  <2>1. SUFFICES ASSUME n = 0 PROVE FALSE
    OBVIOUS
  <2>2. PICK g : g = [m \in 0..0 |-> EmptyTree]
    OBVIOUS
  <2>3. Grows(g, 0, evs)
    BY <2>2 DEF Grows
  <2>4. QED
    BY <1>2, <2>1, <2>3
<1>4. n - 1 \in Nat /\ n - 1 \notin W
  BY <1>1, <1>2, <1>3
<1>5. PICK g : Grows(g, n - 1, evs)
  BY <1>4
<1>6. PICK h : h = [m \in 0..n |-> IF m = n THEN TreeStep(g[n - 1], n, evs[n]) ELSE g[m]]
  OBVIOUS
<1>7. ASSUME NEW m \in 0..n
      PROVE  h[m] = IF m = 0 THEN EmptyTree ELSE TreeStep(h[m - 1], m, evs[m])
  <2>1. CASE m = n
    <3>1. h[m] = TreeStep(g[n - 1], n, evs[n]) /\ h[n - 1] = g[n - 1]
      BY <1>2, <1>3, <1>6, <2>1
    <3>2. QED
      BY <1>3, <2>1, <3>1
  <2>2. CASE m # n
    <3>1. m \in 0..n - 1
      BY <1>2, <2>2
    <3>2. g[m] = IF m = 0 THEN EmptyTree ELSE TreeStep(g[m - 1], m, evs[m])
      BY <1>5, <3>1 DEF Grows
    <3>3. h[m] = g[m] /\ (m # 0 => h[m - 1] = g[m - 1])
      BY <1>2, <1>6, <2>2
    <3>4. QED
      BY <3>2, <3>3
  <2>3. QED
    BY <2>1, <2>2
<1>8. Grows(h, n, evs)
  BY <1>6, <1>7 DEF Grows
<1>9. QED
  BY <1>2, <1>8

\* Trees agree as far as the events do.
LEMMA GrowthAgrees ==
  ASSUME NEW evs, NEW more, NEW n \in Nat, NEW k \in Nat, n <= k, NEW g, NEW h,
         Grows(g, n, evs), Grows(h, k, more), \A i \in 1..n : more[i] = evs[i]
  PROVE  h[n] = g[n]
<1> DEFINE W == {m \in 0..n : h[m] # g[m]}
<1> SUFFICES ASSUME W # {} PROVE FALSE
  OBVIOUS
<1>1. PICK m \in W : \A i \in W : m <= i
  <2>1. W \subseteq Nat
    OBVIOUS
  <2> HIDE DEF W
  <2>2. QED
    BY <2>1, LeastNumber
<1>2. m \in 0..n /\ h[m] # g[m] /\ m \in 0..k
  BY <1>1
<1>3. /\ g[m] = IF m = 0 THEN EmptyTree ELSE TreeStep(g[m - 1], m, evs[m])
      /\ h[m] = IF m = 0 THEN EmptyTree ELSE TreeStep(h[m - 1], m, more[m])
  BY <1>2 DEF Grows
<1>4. m # 0
  BY <1>2, <1>3
<1>5. m - 1 \in 0..n /\ m - 1 \notin W /\ more[m] = evs[m]
  BY <1>1, <1>2, <1>4
<1>6. h[m - 1] = g[m - 1]
  BY <1>5
<1>7. QED
  BY <1>2, <1>3, <1>5, <1>6

\* The tree of no events.
LEMMA TreeOfNone == TreeOf(<<>>) = EmptyTree
<1>1. Grows(Growth(<<>>), 0, <<>>)
  <2>1. Len(<<>>) = 0
    OBVIOUS
  <2>2. \E g : Grows(g, 0, <<>>)
    BY GrowthExists
  <2>3. QED
    BY <2>1, <2>2 DEF Growth
<1>2. Growth(<<>>)[0] = EmptyTree
  BY <1>1 DEF Grows
<1>3. QED
  BY <1>2, TreeIs

\* The tree of one event more.
LEMMA TreeGrows ==
  ASSUME NEW S, NEW evs \in Seq(S), NEW e \in S
  PROVE  TreeOf(Append(evs, e)) = TreeStep(TreeOf(evs), Len(evs) + 1, e)
<1>1. PICK more : more = Append(evs, e)
  OBVIOUS
<1>2. PICK n : n = Len(evs)
  OBVIOUS
<1>3. /\ n \in Nat /\ Len(more) = n + 1 /\ more[n + 1] = e
      /\ \A i \in 1..n : more[i] = evs[i]
  BY <1>1, <1>2
<1>4. PICK g : g = Growth(evs) /\ Grows(g, n, evs)
  BY <1>2, <1>3, GrowthExists DEF Growth
<1>5. PICK h : h = Growth(more) /\ Grows(h, n + 1, more)
  <2>1. \E h : Grows(h, n + 1, more)
    BY <1>3, GrowthExists, SMTT(30)
  <2>2. QED
    BY <1>3, <2>1 DEF Growth
<1>6. h[n] = g[n]
  BY <1>3, <1>4, <1>5, GrowthAgrees
<1>7. h[n + 1] = TreeStep(h[n], n + 1, e)
  BY <1>3, <1>5 DEF Grows
<1>8. QED
  BY <1>1, <1>2, <1>3, <1>4, <1>5, <1>6, <1>7, TreeIs

\* There are observations for each number of events.
LEMMA SightExists ==
  ASSUME NEW evs, NEW k \in Nat
  PROVE  \E g : Sees(g, k, evs)
<1> DEFINE W == {n \in Nat : ~\E g : Sees(g, n, evs)}
<1> SUFFICES ASSUME W # {} PROVE FALSE
  OBVIOUS
<1>1. PICK n \in W : \A m \in W : n <= m
  <2>1. W \subseteq Nat
    OBVIOUS
  <2> HIDE DEF W
  <2>2. QED
    BY <2>1, LeastNumber
<1>2. n \in Nat /\ ~\E g : Sees(g, n, evs)
  BY <1>1
<1>3. n # 0
  <2>1. SUFFICES ASSUME n = 0 PROVE FALSE
    OBVIOUS
  <2>2. PICK g : g = [m \in 0..0 |-> NothingSeen]
    OBVIOUS
  <2>3. Sees(g, 0, evs)
    BY <2>2 DEF Sees
  <2>4. QED
    BY <1>2, <2>1, <2>3
<1>4. n - 1 \in Nat /\ n - 1 \notin W
  BY <1>1, <1>2, <1>3
<1>5. PICK g : Sees(g, n - 1, evs)
  BY <1>4
<1>6. PICK h : h = [m \in 0..n |-> IF m = n THEN ObserveStep(g[n - 1], n, evs[n]) ELSE g[m]]
  OBVIOUS
<1>7. ASSUME NEW m \in 0..n
      PROVE  h[m] = IF m = 0 THEN NothingSeen ELSE ObserveStep(h[m - 1], m, evs[m])
  <2>1. CASE m = n
    <3>1. h[m] = ObserveStep(g[n - 1], n, evs[n]) /\ h[n - 1] = g[n - 1]
      BY <1>2, <1>3, <1>6, <2>1
    <3>2. QED
      BY <1>3, <2>1, <3>1
  <2>2. CASE m # n
    <3>1. m \in 0..n - 1
      BY <1>2, <2>2
    <3>2. g[m] = IF m = 0 THEN NothingSeen ELSE ObserveStep(g[m - 1], m, evs[m])
      BY <1>5, <3>1 DEF Sees
    <3>3. h[m] = g[m] /\ (m # 0 => h[m - 1] = g[m - 1])
      BY <1>2, <1>6, <2>2
    <3>4. QED
      BY <3>2, <3>3
  <2>3. QED
    BY <2>1, <2>2
<1>8. Sees(h, n, evs)
  BY <1>6, <1>7 DEF Sees
<1>9. QED
  BY <1>2, <1>8

\* Observations agree as far as the events do.
LEMMA SightAgrees ==
  ASSUME NEW evs, NEW more, NEW n \in Nat, NEW k \in Nat, n <= k, NEW g, NEW h,
         Sees(g, n, evs), Sees(h, k, more), \A i \in 1..n : more[i] = evs[i]
  PROVE  h[n] = g[n]
<1> DEFINE W == {m \in 0..n : h[m] # g[m]}
<1> SUFFICES ASSUME W # {} PROVE FALSE
  OBVIOUS
<1>1. PICK m \in W : \A i \in W : m <= i
  <2>1. W \subseteq Nat
    OBVIOUS
  <2> HIDE DEF W
  <2>2. QED
    BY <2>1, LeastNumber
<1>2. m \in 0..n /\ h[m] # g[m] /\ m \in 0..k
  BY <1>1
<1>3. /\ g[m] = IF m = 0 THEN NothingSeen ELSE ObserveStep(g[m - 1], m, evs[m])
      /\ h[m] = IF m = 0 THEN NothingSeen ELSE ObserveStep(h[m - 1], m, more[m])
  BY <1>2 DEF Sees
<1>4. m # 0
  BY <1>2, <1>3
<1>5. m - 1 \in 0..n /\ m - 1 \notin W /\ more[m] = evs[m]
  BY <1>1, <1>2, <1>4
<1>6. h[m - 1] = g[m - 1]
  BY <1>5
<1>7. QED
  BY <1>2, <1>3, <1>5, <1>6

\* The observations of no events.
LEMMA SeenOfNone == SeenOf(<<>>) = NothingSeen
<1>1. Sees(Sight(<<>>), 0, <<>>)
  <2>1. Len(<<>>) = 0
    OBVIOUS
  <2>2. \E g : Sees(g, 0, <<>>)
    BY SightExists
  <2>3. QED
    BY <2>1, <2>2 DEF Sight
<1>2. Sight(<<>>)[0] = NothingSeen
  BY <1>1 DEF Sees
<1>3. QED
  BY <1>2, SeenIs

\* The observations of one event more.
LEMMA SeenGrows ==
  ASSUME NEW S, NEW evs \in Seq(S), NEW e \in S
  PROVE  SeenOf(Append(evs, e)) = ObserveStep(SeenOf(evs), Len(evs) + 1, e)
<1>1. PICK more : more = Append(evs, e)
  OBVIOUS
<1>2. PICK n : n = Len(evs)
  OBVIOUS
<1>3. /\ n \in Nat /\ Len(more) = n + 1 /\ more[n + 1] = e
      /\ \A i \in 1..n : more[i] = evs[i]
  BY <1>1, <1>2
<1>4. PICK g : g = Sight(evs) /\ Sees(g, n, evs)
  BY <1>2, <1>3, SightExists DEF Sight
<1>5. PICK h : h = Sight(more) /\ Sees(h, n + 1, more)
  <2>1. \E h : Sees(h, n + 1, more)
    BY <1>3, SightExists, SMTT(30)
  <2>2. QED
    BY <1>3, <2>1 DEF Sight
<1>6. h[n] = g[n]
  BY <1>3, <1>4, <1>5, SightAgrees
<1>7. h[n + 1] = ObserveStep(h[n], n + 1, e)
  BY <1>3, <1>5 DEF Sees
<1>8. QED
  BY <1>1, <1>2, <1>3, <1>4, <1>5, <1>6, <1>7, SeenIs

\* In u the span i of t has event n as well.
More(t, u, i, n) ==
  /\ i \in 1..Len(t.spans) /\ Len(u.spans) = Len(t.spans)
  /\ \A g \in 1..Len(t.spans) : g # i => u.spans[g] = t.spans[g]
  /\ u.spans[i].name = t.spans[i].name /\ u.spans[i].parent = t.spans[i].parent
  /\ u.spans[i].start = t.spans[i].start
  /\ u.spans[i].events = Append(t.spans[i].events, n)

\* In u there is the span s after those of t.
Born(t, u, s) ==
  /\ Len(u.spans) = Len(t.spans) + 1 /\ u.spans[Len(t.spans) + 1] = s
  /\ \A g \in 1..Len(t.spans) : u.spans[g] = t.spans[g]

\* The open calls without one.
Without(tools, id) == [x \in DOMAIN tools \ {id} |-> tools[x]]

\* What attaching an event changes.
LEMMA AttachIs ==
  ASSUME NEW t, TreeShape(t), NEW i \in 1..Len(t.spans), NEW n \in Nat
  PROVE  LET u == Attach(t, i, n) IN
         /\ TreeShape(u) /\ More(t, u, i, n) /\ u.turn = t.turn /\ u.tools = t.tools
         /\ u.spans[i].end = t.spans[i].end /\ u.spans[i].cost = t.spans[i].cost
         /\ u = [spans |-> u.spans, turn |-> t.turn, tools |-> t.tools]
<1>1. PICK ss, tt, to : ss = t.spans /\ tt = t.turn /\ to = t.tools
  OBVIOUS
<1>2. /\ t = [spans |-> ss, turn |-> tt, tools |-> to] /\ ss \in Seq(SpanType)
      /\ tt \in 1..Len(ss) /\ to \in [DOMAIN to -> 1..Len(ss)] /\ i \in 1..Len(ss)
      /\ ss[1].name = "kernel.run"
  BY <1>1 DEF TreeShape
<1>3. PICK s : s = ss[i]
  OBVIOUS
<1>4. s \in SpanType
  BY <1>2, <1>3
<1>4a. s.events \in Seq(Nat) /\ Append(s.events, n) \in Seq(Nat)
  BY <1>4 DEF SpanType
<1>5. PICK r : r = [s EXCEPT !.events = Append(@, n)]
  OBVIOUS
<1>6. /\ r.name = s.name /\ r.parent = s.parent /\ r.start = s.start /\ r.end = s.end
      /\ r.cost = s.cost /\ r.events = Append(s.events, n) /\ r \in SpanType
  <2>1. PICK es : es = Append(s.events, n)
    OBVIOUS
  <2>2. r = [s EXCEPT !.events = es] /\ es \in Seq(Nat)
    BY <1>4a, <1>5, <2>1
  <2>3. QED
    BY <1>4, <2>1, <2>2 DEF SpanType
<1>7. PICK rr : rr = [ss EXCEPT ![i] = r]
  OBVIOUS
<1>8. PICK u : u = Attach(t, i, n)
  OBVIOUS
<1>9. u = [spans |-> rr, turn |-> tt, tools |-> to]
  <2>1. [ss EXCEPT ![i].events = Append(@, n)] = rr
    BY <1>2, <1>3, <1>5, <1>7
  <2>2. u = [spans |-> [ss EXCEPT ![i].events = Append(@, n)], turn |-> tt, tools |-> to]
    BY <1>2, <1>8 DEF Attach
  <2>3. QED
    BY <2>1, <2>2
<1>10. /\ rr \in Seq(SpanType) /\ Len(rr) = Len(ss) /\ rr[i] = r
       /\ \A g \in 1..Len(ss) : g # i => rr[g] = ss[g]
  BY <1>2, <1>6, <1>7
<1>11. u.spans = rr /\ u.turn = tt /\ u.tools = to
  BY <1>9
<1>12. rr[1].name = "kernel.run" /\ to \in [DOMAIN to -> 1..Len(rr)] /\ tt \in 1..Len(rr)
  BY <1>2, <1>3, <1>6, <1>10, SMTT(30)
<1>13. TreeShape(u)
  BY <1>9, <1>10, <1>11, <1>12 DEF TreeShape
<1>14. More(t, u, i, n)
  BY <1>1, <1>2, <1>3, <1>6, <1>10, <1>11 DEF More
<1>15. u.spans[i].end = t.spans[i].end /\ u.spans[i].cost = t.spans[i].cost
  BY <1>1, <1>3, <1>6, <1>10, <1>11
<1>16. QED
  BY <1>1, <1>8, <1>9, <1>11, <1>13, <1>14, <1>15

\* What closing the open turn changes.
LEMMA CloseTurnIs ==
  ASSUME NEW t, TreeShape(t), NEW n \in Nat, NEW e \in EventType, t.turn # 1
  PROVE  LET u == CloseTurn(t, n, e) IN
         /\ TreeShape(u) /\ More(t, u, t.turn, n) /\ u.turn = 1 /\ u.tools = t.tools
         /\ u.spans[t.turn].end = n /\ u.spans[t.turn].cost = e.cost
<1>1. PICK i : i = t.turn
  OBVIOUS
<1>2. i \in 1..Len(t.spans) /\ e.cost \in Nat
  BY <1>1 DEF TreeShape, EventType
<1>3. PICK a : a = Attach(t, i, n)
  OBVIOUS
<1>4. /\ TreeShape(a) /\ More(t, a, i, n) /\ a.turn = i /\ a.tools = t.tools
  BY <1>1, <1>2, <1>3, AttachIs
<1>5. PICK ss, to : ss = a.spans /\ to = a.tools
  OBVIOUS
<1>6. /\ a = [spans |-> ss, turn |-> i, tools |-> to] /\ ss \in Seq(SpanType)
      /\ to \in [DOMAIN to -> 1..Len(ss)] /\ i \in 1..Len(ss)
      /\ ss[1].name = "kernel.run" /\ Len(ss) = Len(t.spans)
  BY <1>4, <1>5, <1>2 DEF TreeShape, More
<1>7. PICK s : s = ss[i]
  OBVIOUS
<1>8. s \in SpanType
  BY <1>6, <1>7
<1>9. PICK r : r = [[s EXCEPT !.end = n] EXCEPT !.cost = e.cost]
  OBVIOUS
<1>10. /\ r.name = s.name /\ r.parent = s.parent /\ r.start = s.start /\ r.end = n
       /\ r.cost = e.cost /\ r.events = s.events /\ r \in SpanType
  BY <1>2, <1>8, <1>9 DEF SpanType
<1>11. PICK rr : rr = [ss EXCEPT ![i] = r]
  OBVIOUS
<1>12. PICK u : u = CloseTurn(t, n, e)
  OBVIOUS
<1>13. u = [spans |-> rr, turn |-> 1, tools |-> to]
  <2>1. [[ss EXCEPT ![i].end = n] EXCEPT ![i].cost = e.cost] = rr
    BY <1>6, <1>7, <1>9, <1>11
  <2>2. u = [a EXCEPT !.spans[i].end = n, !.spans[i].cost = e.cost, !.turn = 1]
    BY <1>1, <1>3, <1>12 DEF CloseTurn
  <2>3. u = [spans |-> [[ss EXCEPT ![i].end = n] EXCEPT ![i].cost = e.cost], turn |-> 1,
             tools |-> to]
    BY <2>2, <1>6
  <2>4. QED
    BY <2>1, <2>3
<1>14. /\ rr \in Seq(SpanType) /\ Len(rr) = Len(ss) /\ rr[i] = r
       /\ \A g \in 1..Len(ss) : g # i => rr[g] = ss[g]
  BY <1>6, <1>10, <1>11
<1>15. u.spans = rr /\ u.turn = 1 /\ u.tools = to
  BY <1>13
<1>16. rr[1].name = "kernel.run" /\ to \in [DOMAIN to -> 1..Len(rr)] /\ 1 \in 1..Len(rr)
  BY <1>6, <1>7, <1>10, <1>14
<1>17. TreeShape(u)
  BY <1>13, <1>14, <1>15, <1>16 DEF TreeShape
<1>18. More(t, u, i, n)
  BY <1>4, <1>5, <1>6, <1>7, <1>10, <1>14, <1>15 DEF More
<1>19. QED
  BY <1>1, <1>4, <1>5, <1>10, <1>12, <1>14, <1>15, <1>17, <1>18

\* What is so of u, in which the open call id of t is closed.
ClosedCall(t, u, n, i, id) ==
  /\ TreeShape(u) /\ More(t, u, i, n) /\ u.turn = t.turn
  /\ u.spans[i].end = n /\ u.spans[i].cost = t.spans[i].cost
  /\ u.tools = Without(t.tools, id)

\* What closing an open call changes.
LEMMA CloseToolIs ==
  ASSUME NEW t, TreeShape(t), NEW n, n \in Nat, NEW e \in EventType, e.id \in DOMAIN t.tools,
         NEW u, u = CloseTool(t, n, e), NEW i, i = t.tools[e.id]
  PROVE  ClosedCall(t, u, n, i, e.id)
<1>2. i \in 1..Len(t.spans)
  BY DEF TreeShape
<1>3. PICK a : a = Attach(t, i, n)
  OBVIOUS
<1>4. /\ TreeShape(a) /\ More(t, a, i, n) /\ a.turn = t.turn /\ a.tools = t.tools
      /\ a.spans[i].cost = t.spans[i].cost
  BY <1>2, <1>3, AttachIs
<1>5. PICK ss, to, tt : ss = a.spans /\ to = a.tools /\ tt = a.turn
  OBVIOUS
<1>6. /\ a = [spans |-> ss, turn |-> tt, tools |-> to] /\ ss \in Seq(SpanType)
      /\ to \in [DOMAIN to -> 1..Len(ss)] /\ i \in 1..Len(ss) /\ tt \in 1..Len(ss)
      /\ ss[1].name = "kernel.run" /\ Len(ss) = Len(t.spans)
  BY <1>4, <1>5, <1>2 DEF TreeShape, More
<1>7. PICK s : s = ss[i]
  OBVIOUS
<1>8. s \in SpanType
  BY <1>6, <1>7
<1>9. PICK r : r = [s EXCEPT !.end = n]
  OBVIOUS
<1>10. /\ r.name = s.name /\ r.parent = s.parent /\ r.start = s.start /\ r.end = n
       /\ r.cost = s.cost /\ r.events = s.events /\ r \in SpanType
  BY <1>8, <1>9 DEF SpanType
<1>11. PICK rr : rr = [ss EXCEPT ![i] = r]
  OBVIOUS
<1>12. PICK rt : rt = Without(to, e.id) /\ rt = [id \in DOMAIN to \ {e.id} |-> to[id]]
  BY DEF Without
<1>14. u = [spans |-> rr, turn |-> tt, tools |-> rt]
  <2>1. [ss EXCEPT ![i].end = n] = rr
    BY <1>6, <1>7, <1>9, <1>11
  <2>2. u = [a EXCEPT !.spans[i].end = n, !.tools = Restrict(@, DOMAIN @ \ {e.id})]
    BY <1>3 DEF CloseTool
  <2>3. u = [spans |-> [ss EXCEPT ![i].end = n], turn |-> tt,
             tools |-> Restrict(to, DOMAIN to \ {e.id})]
    BY <2>2, <1>6
  <2>4. Restrict(to, DOMAIN to \ {e.id}) = rt
    BY <1>12 DEF Restrict
  <2>5. QED
    BY <2>1, <2>3, <2>4
<1>15. /\ rr \in Seq(SpanType) /\ Len(rr) = Len(ss) /\ rr[i] = r
       /\ \A g \in 1..Len(ss) : g # i => rr[g] = ss[g]
  BY <1>6, <1>10, <1>11
<1>16. u.spans = rr /\ u.turn = tt /\ u.tools = rt
  BY <1>14
<1>17. rr[1].name = "kernel.run" /\ rt \in [DOMAIN rt -> 1..Len(rr)] /\ tt \in 1..Len(rr)
  <2>1. rr[1].name = "kernel.run" /\ tt \in 1..Len(rr)
    BY <1>6, <1>7, <1>10, <1>15
  <2>2. rt \in [DOMAIN rt -> 1..Len(rr)]
    BY <1>6, <1>12, <1>15
  <2>3. QED
    BY <2>1, <2>2
<1>18. TreeShape(u)
  BY <1>14, <1>15, <1>16, <1>17 DEF TreeShape
<1>19. More(t, u, i, n)
  BY <1>4, <1>5, <1>6, <1>7, <1>10, <1>15, <1>16, ZenonT(60) DEF More
<1>20. u.spans[i].end = n /\ u.spans[i].cost = t.spans[i].cost
  BY <1>4, <1>5, <1>7, <1>10, <1>15, <1>16
<1>21. u.turn = t.turn /\ u.tools = Without(t.tools, e.id)
  BY <1>4, <1>5, <1>12, <1>16
<1>22. QED
  BY <1>18, <1>19, <1>20, <1>21 DEF ClosedCall

\* What a span more changes.
LEMMA BornIs ==
  ASSUME NEW t, TreeShape(t), NEW s \in SpanType, NEW i \in 1..Len(t.spans) + 1, NEW to,
         to \in [DOMAIN to -> 1..Len(t.spans) + 1]
  PROVE  LET u == [spans |-> Append(t.spans, s), turn |-> i, tools |-> to] IN
         TreeShape(u) /\ Born(t, u, s)
<1>1. PICK ss : ss = t.spans
  OBVIOUS
<1>2. ss \in Seq(SpanType) /\ ss[1].name = "kernel.run" /\ Len(ss) >= 1
  BY <1>1 DEF TreeShape
<1>3. PICK rr : rr = Append(ss, s)
  OBVIOUS
<1>4. /\ rr \in Seq(SpanType) /\ Len(rr) = Len(ss) + 1 /\ rr[Len(ss) + 1] = s
      /\ \A g \in 1..Len(ss) : rr[g] = ss[g]
  BY <1>2, <1>3
<1>5. PICK u : u = [spans |-> rr, turn |-> i, tools |-> to]
  OBVIOUS
<1>6. u.spans = rr /\ u.turn = i /\ u.tools = to
  BY <1>5
<1>7. rr[1].name = "kernel.run" /\ i \in 1..Len(rr) /\ to \in [DOMAIN to -> 1..Len(rr)]
  BY <1>1, <1>2, <1>4
<1>8. TreeShape(u)
  BY <1>4, <1>5, <1>6, <1>7 DEF TreeShape
<1>9. Born(t, u, s)
  BY <1>1, <1>4, <1>6 DEF Born
<1>10. QED
  BY <1>1, <1>3, <1>5, <1>8, <1>9

\* What opening a turn changes.
LEMMA OpenTurnIs ==
  ASSUME NEW t, TreeShape(t), NEW n \in Nat
  PROVE  LET u == OpenTurn(t, n) IN
         /\ TreeShape(u) /\ Born(t, u, NewSpan("llm.step", 1, n, <<n>>))
         /\ u.turn = Len(t.spans) + 1 /\ u.tools = t.tools
<1>1. PICK s : s = NewSpan("llm.step", 1, n, <<n>>)
  OBVIOUS
<1>2. s \in SpanType
  BY <1>1 DEF NewSpan, SpanType
<1>3. Len(t.spans) + 1 \in 1..Len(t.spans) + 1 /\ t.tools \in [DOMAIN t.tools -> 1..Len(t.spans) + 1]
  BY DEF TreeShape
<1>4. PICK u : u = OpenTurn(t, n)
  OBVIOUS
<1>5. u = [spans |-> Append(t.spans, s), turn |-> Len(t.spans) + 1, tools |-> t.tools]
  <2>1. PICK ss, tt, to : ss = t.spans /\ tt = t.turn /\ to = t.tools
    OBVIOUS
  <2>2. t = [spans |-> ss, turn |-> tt, tools |-> to]
    BY <2>1 DEF TreeShape
  <2>3. u = [t EXCEPT !.spans = Append(@, s), !.turn = Len(ss) + 1]
    BY <1>1, <1>4, <2>1 DEF OpenTurn
  <2>4. u = [spans |-> Append(ss, s), turn |-> Len(ss) + 1, tools |-> to]
    BY <2>2, <2>3
  <2>5. QED
    BY <2>1, <2>4
<1>6. TreeShape(u) /\ Born(t, u, s)
  BY <1>2, <1>3, <1>5, BornIs
<1>7. QED
  BY <1>1, <1>4, <1>5, <1>6

\* What opening a call changes.
LEMMA OpenToolIs ==
  ASSUME NEW t, TreeShape(t), NEW n \in Nat, NEW e \in EventType
  PROVE  LET u == OpenTool(t, n, e) IN
         /\ TreeShape(u) /\ Born(t, u, NewSpan("tool", t.turn, n, <<n>>))
         /\ u.turn = t.turn /\ u.tools = WithTool(t.tools, e.id, Len(t.spans) + 1)
<1>1. PICK s : s = NewSpan("tool", t.turn, n, <<n>>)
  OBVIOUS
<1>2. s \in SpanType
  BY <1>1 DEF NewSpan, SpanType, TreeShape
<1>3. PICK rt : /\ rt = WithTool(t.tools, e.id, Len(t.spans) + 1)
                /\ rt = [id \in DOMAIN t.tools \cup {e.id} |->
                           IF id = e.id THEN Len(t.spans) + 1 ELSE t.tools[id]]
  BY DEF WithTool
<1>4. rt \in [DOMAIN rt -> 1..Len(t.spans) + 1] /\ t.turn \in 1..Len(t.spans) + 1
  BY <1>3 DEF TreeShape
<1>5. PICK u : u = OpenTool(t, n, e)
  OBVIOUS
<1>6. u = [spans |-> Append(t.spans, s), turn |-> t.turn, tools |-> rt]
  <2>1. PICK ss, tt, to : ss = t.spans /\ tt = t.turn /\ to = t.tools
    OBVIOUS
  <2>2. t = [spans |-> ss, turn |-> tt, tools |-> to]
    BY <2>1 DEF TreeShape
  <2>3. u = [t EXCEPT !.spans = Append(@, s), !.tools = WithTool(@, e.id, Len(ss) + 1)]
    BY <1>1, <1>5, <2>1 DEF OpenTool
  <2>4. u = [spans |-> Append(ss, s), turn |-> tt, tools |-> WithTool(to, e.id, Len(ss) + 1)]
    BY <2>2, <2>3
  <2>5. WithTool(to, e.id, Len(ss) + 1) = rt
    BY <1>3, <2>1
  <2>6. QED
    BY <2>1, <2>4, <2>5
<1>7. TreeShape(u) /\ Born(t, u, s)
  BY <1>2, <1>4, <1>6, BornIs
<1>8. QED
  BY <1>1, <1>3, <1>5, <1>6, <1>7

-----------------------------------------------------------------------------
(* Each event is in one place.                                              *)

\* An event that no projection observes changes no place.
LEMMA PlacedSame ==
  ASSUME NEW t, TreeShape(t), NEW evs \in Seq(EventType), NEW e \in EventType,
         Placed(t, evs), ~Observable(e.kind)
  PROVE  Placed(t, Append(evs, e))
<1>1. PICK more, n : more = Append(evs, e) /\ n = Len(evs)
  OBVIOUS
<1>2. /\ n \in Nat /\ DOMAIN evs = 1..n /\ DOMAIN more = 1..(n + 1) /\ more[n + 1] = e
      /\ \A m \in 1..n : more[m] = evs[m]
  BY <1>1
<1>3. \A i \in DOMAIN t.spans : \A j \in DOMAIN t.spans[i].events :
        /\ t.spans[i].events[j] \in DOMAIN more
        /\ Observable(more[t.spans[i].events[j]].kind)
  BY <1>2 DEF Placed
<1>4. \A m \in DOMAIN more : Observable(more[m].kind) =>
        \E i \in DOMAIN t.spans : \E j \in DOMAIN t.spans[i].events :
          t.spans[i].events[j] = m
  BY <1>2 DEF Placed
<1>5. QED
  BY <1>1, <1>3, <1>4 DEF Placed

\* An event that is attached to a span has its place there, after all others.
LEMMA PlacedMore ==
  ASSUME NEW t, TreeShape(t), NEW u, TreeShape(u), NEW evs \in Seq(EventType),
         NEW e \in EventType, Placed(t, evs), Observable(e.kind), NEW i,
         More(t, u, i, Len(evs) + 1)
  PROVE  Placed(u, Append(evs, e))
<1>1. PICK more, n, L : more = Append(evs, e) /\ n = Len(evs) + 1 /\ L = Len(t.spans)
  OBVIOUS
<1>2. /\ n \in Nat /\ n >= 1 /\ DOMAIN evs = 1..(n - 1) /\ DOMAIN more = 1..n
      /\ more[n] = e /\ \A m \in 1..(n - 1) : more[m] = evs[m]
  BY <1>1
<1>3. PICK w : w = t.spans[i].events
  OBVIOUS
<1>4. /\ DOMAIN t.spans = 1..L /\ DOMAIN u.spans = 1..L /\ i \in 1..L
      /\ w \in Seq(Nat)
  <2>1. t.spans \in Seq(SpanType) /\ u.spans \in Seq(SpanType) /\ i \in 1..L /\ Len(u.spans) = L
    BY <1>1 DEF TreeShape, More
  <2>2. t.spans[i] \in SpanType
    BY <1>1, <2>1
  <2>3. w \in Seq(Nat)
    BY <1>3, <2>2 DEF SpanType
  <2>4. QED
    BY <1>1, <2>1, <2>3
<1>5. PICK l : l = Len(w)
  OBVIOUS
<1>6. /\ l \in Nat /\ DOMAIN w = 1..l /\ DOMAIN u.spans[i].events = 1..(l + 1)
      /\ u.spans[i].events[l + 1] = n
      /\ \A j \in 1..l : u.spans[i].events[j] = w[j]
  BY <1>1, <1>3, <1>4, <1>5 DEF More
<1>7. \A g \in 1..L : g # i => u.spans[g] = t.spans[g]
  BY <1>1 DEF More
<1>8. \A g \in 1..L : \A j \in DOMAIN t.spans[g].events :
        /\ j \in DOMAIN u.spans[g].events /\ u.spans[g].events[j] = t.spans[g].events[j]
        /\ t.spans[g].events[j] \in 1..(n - 1)
        /\ Observable(evs[t.spans[g].events[j]].kind)
  <2>1. TAKE g \in 1..L
  <2>2. TAKE j \in DOMAIN t.spans[g].events
  <2>3. t.spans[g].events[j] \in 1..(n - 1) /\ Observable(evs[t.spans[g].events[j]].kind)
    BY <1>2, <1>4 DEF Placed
  <2>4. j \in DOMAIN u.spans[g].events /\ u.spans[g].events[j] = t.spans[g].events[j]
    <3>1. CASE g = i
      BY <1>3, <1>6, <3>1
    <3>2. CASE g # i
      BY <1>7, <3>2
    <3>3. QED
      BY <3>1, <3>2
  <2>5. QED
    BY <2>3, <2>4
<1>9. \A g \in 1..L : \A j \in DOMAIN u.spans[g].events :
        \/ g = i /\ j = l + 1 /\ u.spans[g].events[j] = n
        \/ /\ j \in DOMAIN t.spans[g].events /\ u.spans[g].events[j] = t.spans[g].events[j]
           /\ (g = i => j \in 1..l)
  BY <1>3, <1>6, <1>7
<1>10. \A g \in 1..L : \A j \in DOMAIN u.spans[g].events :
         /\ u.spans[g].events[j] \in DOMAIN more
         /\ Observable(more[u.spans[g].events[j]].kind)
  <2>1. TAKE g \in 1..L
  <2>2. TAKE j \in DOMAIN u.spans[g].events
  <2>3. n \in DOMAIN more /\ more[n] = e
    BY <1>2
  <2>4. QED
    BY <1>2, <1>8, <1>9, <2>3
<1>11. ASSUME NEW m \in DOMAIN more, Observable(more[m].kind)
       PROVE  \E g \in 1..L : \E j \in DOMAIN u.spans[g].events : u.spans[g].events[j] = m
  <2>1. CASE m = n
    BY <1>4, <1>6, <2>1
  <2>2. CASE m # n
    <3>1. m \in DOMAIN evs /\ Observable(evs[m].kind)
      BY <1>2, <1>11, <2>2
    <3>2. PICK g \in 1..L : \E j \in DOMAIN t.spans[g].events : t.spans[g].events[j] = m
      BY <1>4, <3>1 DEF Placed
    <3>3. QED
      BY <1>8, <3>2
  <2>3. QED
    BY <2>1, <2>2
<1>12. ASSUME NEW g \in 1..L, NEW f \in 1..L,
              NEW j \in DOMAIN u.spans[g].events, NEW h \in DOMAIN u.spans[f].events
       PROVE  /\ u.spans[g].events[j] = u.spans[f].events[h] => g = f /\ j = h
              /\ g = f /\ j < h => u.spans[g].events[j] < u.spans[f].events[h]
  <2>1. CASE g = i /\ j = l + 1
    <3>1. CASE f = i /\ h = l + 1
      BY <1>6, <2>1, <3>1
    <3>2. CASE ~(f = i /\ h = l + 1)
      <4>1. u.spans[f].events[h] \in 1..(n - 1) /\ u.spans[g].events[j] = n
        BY <1>6, <1>8, <1>9, <2>1, <3>2
      <4>2. g = f => h \in 1..l
        BY <1>9, <2>1, <3>2
      <4>3. QED
        BY <1>2, <1>6, <2>1, <4>1, <4>2
    <3>3. QED
      BY <3>1, <3>2
  <2>2. CASE ~(g = i /\ j = l + 1)
    <3>1. /\ j \in DOMAIN t.spans[g].events /\ u.spans[g].events[j] = t.spans[g].events[j]
          /\ u.spans[g].events[j] \in 1..(n - 1)
      BY <1>8, <1>9, <2>2
    <3>2. CASE f = i /\ h = l + 1
      <4>1. u.spans[f].events[h] = n
        BY <1>6, <3>2
      <4>2. QED
        BY <1>2, <3>1, <4>1
    <3>3. CASE ~(f = i /\ h = l + 1)
      <4>1. h \in DOMAIN t.spans[f].events /\ u.spans[f].events[h] = t.spans[f].events[h]
        BY <1>9, <3>3
      <4>2. QED
        BY <1>4, <3>1, <4>1, SMTT(30) DEF Placed
    <3>4. QED
      BY <3>2, <3>3
  <2>3. QED
    BY <2>1, <2>2
<1>13. QED
  BY <1>1, <1>4, <1>10, <1>11, <1>12 DEF Placed

\* An event that has a span of its own.
LEMMA PlacedBorn ==
  ASSUME NEW t, TreeShape(t), NEW u, TreeShape(u), NEW evs \in Seq(EventType),
         NEW e \in EventType, Placed(t, evs), Observable(e.kind), NEW s,
         s.events = <<Len(evs) + 1>>, Born(t, u, s)
  PROVE  Placed(u, Append(evs, e))
<1>1. PICK more, n, L : more = Append(evs, e) /\ n = Len(evs) + 1 /\ L = Len(t.spans)
  OBVIOUS
<1>2. /\ n \in Nat /\ n >= 1 /\ DOMAIN evs = 1..(n - 1) /\ DOMAIN more = 1..n
      /\ more[n] = e /\ \A m \in 1..(n - 1) : more[m] = evs[m]
  BY <1>1
<1>3. /\ L \in Nat /\ DOMAIN t.spans = 1..L /\ DOMAIN u.spans = 1..(L + 1)
  <2>1. t.spans \in Seq(SpanType) /\ u.spans \in Seq(SpanType) /\ Len(u.spans) = L + 1
    BY <1>1 DEF TreeShape, Born
  <2>2. QED
    BY <1>1, <2>1
<1>4. /\ \A g \in 1..L : u.spans[g] = t.spans[g]
      /\ DOMAIN u.spans[L + 1].events = 1..1 /\ u.spans[L + 1].events[1] = n
  BY <1>1 DEF Born
<1>5. \A g \in 1..L : \A j \in DOMAIN t.spans[g].events :
        /\ t.spans[g].events[j] \in 1..(n - 1)
        /\ Observable(evs[t.spans[g].events[j]].kind)
  BY <1>2, <1>3 DEF Placed
<1>6. \A g \in 1..(L + 1) : g = L + 1 \/ g \in 1..L
  BY <1>3
<1>7. \A g \in 1..(L + 1) : \A j \in DOMAIN u.spans[g].events :
        /\ u.spans[g].events[j] \in DOMAIN more
        /\ Observable(more[u.spans[g].events[j]].kind)
  <2>1. TAKE g \in 1..(L + 1)
  <2>2. TAKE j \in DOMAIN u.spans[g].events
  <2>3. CASE g = L + 1
    <3>1. j = 1 /\ n \in DOMAIN more
      BY <1>2, <1>4, <2>3
    <3>2. QED
      BY <1>2, <1>4, <2>3, <3>1
  <2>4. CASE g \in 1..L
    BY <1>2, <1>4, <1>5, <2>4
  <2>5. QED
    BY <1>6, <2>3, <2>4
<1>8. ASSUME NEW m \in DOMAIN more, Observable(more[m].kind)
      PROVE  \E g \in 1..(L + 1) : \E j \in DOMAIN u.spans[g].events : u.spans[g].events[j] = m
  <2>1. CASE m = n
    <3>1. L + 1 \in 1..(L + 1) /\ 1 \in DOMAIN u.spans[L + 1].events
      BY <1>3, <1>4
    <3>2. QED
      BY <1>4, <2>1, <3>1
  <2>2. CASE m # n
    <3>1. m \in DOMAIN evs /\ Observable(evs[m].kind)
      BY <1>2, <1>8, <2>2
    <3>2. PICK g \in 1..L : \E j \in DOMAIN t.spans[g].events : t.spans[g].events[j] = m
      BY <1>3, <3>1 DEF Placed
    <3>3. g \in 1..(L + 1)
      BY <1>3
    <3>4. QED
      BY <1>4, <3>2, <3>3
  <2>3. QED
    BY <2>1, <2>2
<1>9. ASSUME NEW g \in 1..(L + 1), NEW f \in 1..(L + 1),
             NEW j \in DOMAIN u.spans[g].events, NEW h \in DOMAIN u.spans[f].events
      PROVE  /\ u.spans[g].events[j] = u.spans[f].events[h] => g = f /\ j = h
             /\ g = f /\ j < h => u.spans[g].events[j] < u.spans[f].events[h]
  <2>1. CASE g = L + 1 /\ f = L + 1
    BY <1>4, <2>1
  <2>2. CASE g = L + 1 /\ f \in 1..L
    <3>1. u.spans[g].events[j] = n /\ u.spans[f].events[h] \in 1..(n - 1)
      BY <1>4, <1>5, <2>2
    <3>2. QED
      BY <1>2, <1>3, <2>2, <3>1
  <2>3. CASE g \in 1..L /\ f = L + 1
    <3>1. u.spans[f].events[h] = n /\ u.spans[g].events[j] \in 1..(n - 1)
      BY <1>4, <1>5, <2>3
    <3>2. QED
      BY <1>2, <1>3, <2>3, <3>1
  <2>4. CASE g \in 1..L /\ f \in 1..L
    <3>1. u.spans[g] = t.spans[g] /\ u.spans[f] = t.spans[f]
      BY <1>4, <2>4
    <3>2. QED
      BY <1>3, <2>4, <3>1, SMTT(30) DEF Placed
  <2>5. QED
    BY <1>6, <2>1, <2>2, <2>3, <2>4
<1>10. QED
  BY <1>1, <1>3, <1>7, <1>8, <1>9 DEF Placed

\* One event more, whatever it is, has its place.
LEMMA StepPlaces ==
  ASSUME NEW t, TreeShape(t), NEW evs \in Seq(EventType), NEW e \in EventType,
         Placed(t, evs)
  PROVE  LET u == TreeStep(t, Len(evs) + 1, e) IN
         TreeShape(u) /\ Placed(u, Append(evs, e))
<1>1. PICK u, n : n = Len(evs) + 1 /\ u = TreeStep(t, n, e)
  OBVIOUS
<1>2. n \in Nat /\ t.turn \in 1..Len(t.spans) /\ 1 \in 1..Len(t.spans)
  BY <1>1 DEF TreeShape
<1>3. CASE ~Observable(e.kind)
  <2>1. u = t
    BY <1>1, <1>3 DEF TreeStep, Observable
  <2>2. QED
    BY <1>1, <1>3, <2>1, PlacedSame
<1>4. CASE Observable(e.kind) /\ e.kind = "TurnStarted"
  <2>1. u = OpenTurn(t, n)
    BY <1>1, <1>4 DEF TreeStep, Observable
  <2>2. TreeShape(u) /\ Born(t, u, NewSpan("llm.step", 1, n, <<n>>))
    BY <1>2, <2>1, OpenTurnIs
  <2>3. NewSpan("llm.step", 1, n, <<n>>).events = <<n>>
    BY DEF NewSpan
  <2>4. QED
    BY <1>1, <1>4, <2>2, <2>3, PlacedBorn
<1>5. ASSUME Observable(e.kind), NEW i \in 1..Len(t.spans), u = Attach(t, i, n)
      PROVE  TreeShape(u) /\ Placed(u, Append(evs, e))
  <2>1. TreeShape(u) /\ More(t, u, i, n)
    BY <1>2, <1>5, AttachIs
  <2>2. QED
    BY <1>1, <1>5, <2>1, PlacedMore
<1>6. CASE Observable(e.kind) /\ e.kind \in {"TurnCompleted", "TurnFailed"}
  <2>1. u = CloseTurn(t, n, e)
    BY <1>1, <1>6 DEF TreeStep, Observable
  <2>2. CASE t.turn = 1
    <3>1. u = Attach(t, 1, n)
      BY <2>1, <2>2 DEF CloseTurn
    <3>2. QED
      BY <1>1, <1>2, <1>5, <1>6, <3>1
  <2>3. CASE t.turn # 1
    <3>1. TreeShape(u) /\ More(t, u, t.turn, n)
      BY <1>2, <2>1, <2>3, CloseTurnIs
    <3>2. QED
      BY <1>1, <1>6, <3>1, PlacedMore
  <2>4. QED
    BY <2>2, <2>3
<1>7. CASE Observable(e.kind) /\ e.kind = "PreToolUse" /\ e.id # NoId
  <2>1. u = OpenTool(t, n, e)
    BY <1>1, <1>7 DEF TreeStep, Observable
  <2>2. TreeShape(u) /\ Born(t, u, NewSpan("tool", t.turn, n, <<n>>))
    BY <1>2, <2>1, OpenToolIs
  <2>3. NewSpan("tool", t.turn, n, <<n>>).events = <<n>>
    BY DEF NewSpan
  <2>4. QED
    BY <1>1, <1>7, <2>2, <2>3, PlacedBorn
<1>8. CASE Observable(e.kind) /\ e.kind = "PostToolUse" /\ e.id \in DOMAIN t.tools
  <2>1. u = CloseTool(t, n, e)
    BY <1>1, <1>8 DEF TreeStep, Observable
  <2>2. TreeShape(u) /\ More(t, u, t.tools[e.id], n)
    <3>1. PICK i : i = t.tools[e.id]
      OBVIOUS
    <3>2. ClosedCall(t, u, n, i, e.id)
      BY <1>2, <1>8, <2>1, <3>1, CloseToolIs
    <3>3. QED
      BY <3>1, <3>2 DEF ClosedCall
  <2>3. QED
    BY <1>1, <1>8, <2>2, PlacedMore
<1>9. CASE /\ Observable(e.kind)
           /\ \/ e.kind = "PreToolUse" /\ e.id = NoId
              \/ e.kind = "PostToolUse" /\ e.id \notin DOMAIN t.tools
  <2>1. u = Attach(t, t.turn, n)
    BY <1>1, <1>9 DEF TreeStep, Observable
  <2>2. QED
    BY <1>1, <1>2, <1>5, <1>9, <2>1
<1>10. CASE /\ Observable(e.kind)
            /\ e.kind \notin {"TurnStarted", "TurnCompleted", "TurnFailed", "PreToolUse", "PostToolUse"}
  <2>1. u = Attach(t, 1, n)
    BY <1>1, <1>10 DEF TreeStep
  <2>2. QED
    BY <1>1, <1>2, <1>5, <1>10, <2>1
<1>11. QED
  BY <1>1, <1>3, <1>4, <1>6, <1>7, <1>8, <1>9, <1>10

-----------------------------------------------------------------------------
(* What a step is to each kernel.                                           *)

Idle == PCs \ {"step", "announce", "tools", "collect", "ran", "final"}

\* The turn of k, and what is announced and collected of it, are the same.
Holds(k) ==
  /\ turn'[k] = turn[k] /\ (Busy(k)' <=> Busy(k))
  /\ Announced(k)' = Announced(k) /\ Collected(k)' = Collected(k)
  /\ calls'[k] = calls[k] \/ Announced(k) = 0

Event(k, kind, call, cost) ==
  [kind |-> kind, id |-> IF call = 0 THEN NoId ELSE calls[k][call],
   cost |-> cost, turn |-> turn'[k], call |-> call]

\* One event more of k.
Wrote(k, kind, call, cost) == log'[k] = Append(log[k], Event(k, kind, call, cost))

Rests(k) == Holds(k) /\ log'[k] = log[k]

Mentions(k) == Holds(k) /\ \E kind \in Others : Wrote(k, kind, 0, 0)

Begins(k) ==
  /\ ~Busy(k) /\ Busy(k)' /\ turn'[k] = turn[k] + 1 /\ calls'[k] = calls[k]
  /\ Announced(k) = 0 /\ Announced(k)' = 0 /\ Collected(k) = 0 /\ Collected(k)' = 0
  /\ Wrote(k, "TurnStarted", 0, 0)

Finishes(k) ==
  /\ Busy(k) /\ ~Busy(k)' /\ turn'[k] = turn[k]
  /\ Announced(k) = Len(calls[k]) /\ Collected(k) = Len(calls[k])
  /\ Announced(k)' = 0 /\ Collected(k)' = 0
  /\ \E kind \in Ends, cost \in Nat : Wrote(k, kind, 0, cost)

Announces(k) ==
  /\ Busy(k) /\ Busy(k)' /\ turn'[k] = turn[k] /\ calls'[k] = calls[k]
  /\ Announced(k) < Len(calls[k]) /\ Announced(k)' = Announced(k) + 1
  /\ Collected(k) = 0 /\ Collected(k)' = 0
  /\ Wrote(k, "PreToolUse", Announced(k) + 1, 0)

Collects(k) ==
  /\ Busy(k) /\ Busy(k)' /\ turn'[k] = turn[k] /\ calls'[k] = calls[k]
  /\ Announced(k) = Len(calls[k]) /\ Announced(k)' = Len(calls[k])
  /\ Collected(k) < Len(calls[k]) /\ Collected(k)' = Collected(k) + 1
  /\ Wrote(k, "PostToolUse", Collected(k) + 1, 0)

Moves(k) ==
  Rests(k) \/ Mentions(k) \/ Begins(k) \/ Finishes(k) \/ Announces(k) \/ Collects(k)

\* What is fired is an event of that kernel, and of no other.
LEMMA FireWrites ==
  ASSUME LoopTyped, NEW k \in Spans, NEW kind \in EventKinds, NEW call \in Nat,
         NEW cost \in Nat, turn'[k] \in Nat, call = 0 \/ call \in 1..Len(calls[k]),
         Fire(k, kind, call, cost)
  PROVE  /\ log' \in [Spans -> Seq(EventType)] /\ Wrote(k, kind, call, cost)
         /\ Event(k, kind, call, cost) \in EventType
         /\ \A h \in Spans : h # k => log'[h] = log[h]
<1>1. PICK e : e = Event(k, kind, call, cost)
  OBVIOUS
<1>2. e \in EventType
  <2>1. NoId \in Ids
    BY DEF Ids
  <2>2. call # 0 => calls[k][call] \in Ids
    <3>1. calls[k] \in Seq(Ids)
      BY DEF LoopTyped
    <3>2. QED
      BY <3>1
  <2>3. QED
    BY <1>1, <2>1, <2>2 DEF Event, EventType
<1>3. log \in [Spans -> Seq(EventType)]
  BY DEF LoopTyped
<1>4. log' = [log EXCEPT ![k] = Append(log[k], e)]
  BY <1>1 DEF Fire, Event
<1>5. log[k] \in Seq(EventType) /\ Append(log[k], e) \in Seq(EventType)
  BY <1>2, <1>3
<1>6. QED
  BY <1>1, <1>2, <1>3, <1>4, <1>5 DEF Wrote

\* Outside of its turns a kernel moves between states that are alike.
LEMMA Aside ==
  ASSUME LoopTyped, Counted, NEW k \in Spans, NEW to \in Idle, pc[k] \in Idle,
         pc' = [pc EXCEPT ![k] = to], turn' = turn, calls' = calls, done' = done
  PROVE  pc' \in [Spans -> PCs] /\ Counted' /\ \A h \in Spans : Holds(h)
<1>1. pc' \in [Spans -> PCs] /\ pc'[k] = to /\ to \in PCs /\ \A h \in Spans : h # k => pc'[h] = pc[h]
  BY DEF LoopTyped, Idle
<1>2. ASSUME NEW h \in Spans
      PROVE  /\ Calls(h)' <=> calls'[h] # <<>>
             /\ pc'[h] \in {"announce", "collect"} => done'[h] < Len(calls'[h])
             /\ pc'[h] \notin {"announce", "collect"} => done'[h] = 0
  <2>1. CASE h = k
    BY <1>1, <2>1 DEF Counted, Calls, Idle
  <2>2. CASE h # k
    BY <1>1, <2>2 DEF Counted, Calls
  <2>3. QED
    BY <2>1, <2>2
<1>3. \A h \in Spans : Holds(h)
  <2>1. TAKE h \in Spans
  <2>2. CASE h = k
    BY <1>1, <2>2 DEF Holds, Busy, Calls, Announced, Collected, Idle
  <2>3. CASE h # k
    BY <1>1, <2>3 DEF Holds, Busy, Calls, Announced, Collected
  <2>4. QED
    BY <2>2, <2>3
<1>4. Counted'
  BY <1>2 DEF Counted
<1>5. QED
  BY <1>1, <1>3, <1>4

\* What the loops keep.
Fits == LoopTyped /\ Counted

\* A step outside of the turns that fires nothing.
LEMMA AsideQuietly ==
  ASSUME Fits, NEW k \in Spans, NEW to \in Idle, pc[k] \in Idle,
         pc' = [pc EXCEPT ![k] = to], UNCHANGED <<turn, calls, done, bill, log>>
  PROVE  Fits' /\ \A h \in Spans : Moves(h)
<1>1. pc' \in [Spans -> PCs] /\ Counted' /\ \A h \in Spans : Holds(h)
  BY Aside DEF Fits
<1>2. QED
  BY <1>1 DEF Fits, LoopTyped, Moves, Rests

\* A step outside of the turns that fires an event of kernel g.
LEMMA AsideFires ==
  ASSUME Fits, NEW k \in Spans, NEW to \in Idle, pc[k] \in Idle, NEW g \in Spans,
         pc' = [pc EXCEPT ![k] = to], UNCHANGED <<turn, calls, done, bill>>,
         NEW kind \in Others, Fire(g, kind, 0, 0)
  PROVE  Fits' /\ \A h \in Spans : Moves(h)
<1>1. pc' \in [Spans -> PCs] /\ Counted' /\ \A h \in Spans : Holds(h)
  BY Aside DEF Fits
<1>2. /\ log' \in [Spans -> Seq(EventType)] /\ Wrote(g, kind, 0, 0)
      /\ \A h \in Spans : h # g => log'[h] = log[h]
  <2>1. kind \in EventKinds /\ turn'[g] \in Nat
    BY DEF EventKinds, Fits, LoopTyped
  <2>2. QED
    BY <2>1, FireWrites DEF Fits
<1>3. LoopTyped'
  BY <1>1, <1>2 DEF Fits, LoopTyped
<1>4. \A h \in Spans : Moves(h)
  BY <1>1, <1>2 DEF Moves, Rests, Mentions
<1>5. QED
  BY <1>1, <1>3, <1>4 DEF Fits

\* A step of a turn is no step of the others.
LEMMA OthersRest ==
  ASSUME Fits, NEW k \in Spans, NEW h \in Spans, h # k, pc'[h] = pc[h],
         turn'[h] = turn[h], calls'[h] = calls[h], done'[h] = done[h], log'[h] = log[h]
  PROVE  /\ Moves(h) /\ (Calls(h)' <=> calls'[h] # <<>>)
         /\ pc'[h] \in {"announce", "collect"} => done'[h] < Len(calls'[h])
         /\ pc'[h] \notin {"announce", "collect"} => done'[h] = 0
<1>1. Moves(h)
  BY DEF Moves, Rests, Holds, Busy, Calls, Announced, Collected
<1>2. QED
  BY <1>1 DEF Fits, Counted, Calls

\* A step of a turn: what is to be shown of its kernel.
LEMMA TurnOfOne ==
  ASSUME Fits, NEW k \in Spans, LoopTyped',
         \A h \in Spans : h # k =>
           /\ pc'[h] = pc[h] /\ turn'[h] = turn[h] /\ calls'[h] = calls[h]
           /\ done'[h] = done[h] /\ log'[h] = log[h],
         Moves(k), Calls(k)' <=> calls'[k] # <<>>,
         pc'[k] \in {"announce", "collect"} => done'[k] < Len(calls'[k]),
         pc'[k] \notin {"announce", "collect"} => done'[k] = 0
  PROVE  Fits' /\ \A h \in Spans : Moves(h)
<1>1. ASSUME NEW h \in Spans
      PROVE  /\ Moves(h) /\ (Calls(h)' <=> calls'[h] # <<>>)
             /\ pc'[h] \in {"announce", "collect"} => done'[h] < Len(calls'[h])
             /\ pc'[h] \notin {"announce", "collect"} => done'[h] = 0
  <2>1. CASE h = k
    BY <2>1
  <2>2. CASE h # k
    BY <2>2, OthersRest
  <2>3. QED
    BY <2>1, <2>2
<1>2. Counted'
  BY <1>1 DEF Counted
<1>3. QED
  BY <1>1, <1>2 DEF Fits

\* A kernel's place in its loop and its calls, before a step.
LEMMA Place ==
  ASSUME Fits, NEW k \in Spans
  PROVE  /\ pc[k] \in PCs /\ turn[k] \in Nat /\ calls[k] \in Seq(Ids) /\ done[k] \in Nat
         /\ bill[k] \in Nat /\ log[k] \in Seq(EventType) /\ Len(calls[k]) \in Nat
         /\ Calls(k) <=> calls[k] # <<>>
         /\ calls[k] = <<>> => Len(calls[k]) = 0
         /\ calls[k] # <<>> => Len(calls[k]) > 0
         /\ pc[k] \in {"announce", "collect"} => done[k] < Len(calls[k])
         /\ pc[k] \notin {"announce", "collect"} => done[k] = 0
<1>1. /\ pc[k] \in PCs /\ turn[k] \in Nat /\ calls[k] \in Seq(Ids) /\ done[k] \in Nat
      /\ bill[k] \in Nat /\ log[k] \in Seq(EventType)
  BY DEF Fits, LoopTyped
<1>2. /\ Len(calls[k]) \in Nat
      /\ calls[k] = <<>> => Len(calls[k]) = 0
      /\ calls[k] # <<>> => Len(calls[k]) > 0
  BY <1>1, EmptySeq
<1>3. QED
  BY <1>1, <1>2 DEF Fits, Counted

\* A turn begins.
LEMMA StartedMoves ==
  ASSUME Fits, NEW k \in Spans, TurnStarted(k)
  PROVE  Fits' /\ \A h \in Spans : Moves(h)
<1>1. /\ pc[k] = "loop" /\ pc' = [pc EXCEPT ![k] = "step"]
      /\ turn' = [turn EXCEPT ![k] = @ + 1] /\ Fire(k, "TurnStarted", 0, 0)
      /\ calls' = calls /\ done' = done /\ bill' = bill
  BY DEF TurnStarted, Goto
<1>2. /\ pc' \in [Spans -> PCs] /\ pc'[k] = "step" /\ turn' \in [Spans -> Nat]
      /\ turn'[k] = turn[k] + 1
      /\ \A h \in Spans : h # k => pc'[h] = pc[h] /\ turn'[h] = turn[h]
  BY <1>1 DEF Fits, LoopTyped, PCs
<1>3. /\ log' \in [Spans -> Seq(EventType)] /\ Wrote(k, "TurnStarted", 0, 0)
      /\ \A h \in Spans : h # k => log'[h] = log[h]
  <2>1. "TurnStarted" \in EventKinds /\ turn'[k] \in Nat
    BY <1>2 DEF EventKinds
  <2>2. QED
    BY <1>1, <2>1, FireWrites DEF Fits
<1>4. LoopTyped'
  BY <1>1, <1>2, <1>3 DEF Fits, LoopTyped
<1>5. calls[k] = <<>> /\ done[k] = 0
  BY <1>1, Place DEF Calls
<1>6. Moves(k)
  BY <1>1, <1>2, <1>3 DEF Moves, Begins, Busy, Calls, Announced, Collected
<1>7. QED
  BY <1>1, <1>2, <1>3, <1>4, <1>5, <1>6, TurnOfOne DEF Calls

\* A step fails, or the final text is lost.
LEMMA FailedMoves ==
  ASSUME Fits, NEW k \in Spans, TurnFailed(k)
  PROVE  Fits' /\ \A h \in Spans : Moves(h)
<1>1. /\ pc[k] \in {"step", "final"} /\ pc' = [pc EXCEPT ![k] = Failed(k)]
      /\ Fire(k, "TurnFailed", 0, 0)
      /\ turn' = turn /\ calls' = calls /\ done' = done /\ bill' = bill
  BY DEF TurnFailed, Goto
<1>2. /\ pc' \in [Spans -> PCs] /\ pc'[k] \in {"idle", "failed"}
      /\ \A h \in Spans : h # k => pc'[h] = pc[h]
  BY <1>1 DEF Fits, LoopTyped, PCs, Failed
<1>3. /\ log' \in [Spans -> Seq(EventType)] /\ Wrote(k, "TurnFailed", 0, 0)
      /\ \A h \in Spans : h # k => log'[h] = log[h]
  <2>1. "TurnFailed" \in EventKinds /\ turn'[k] \in Nat
    BY <1>1 DEF EventKinds, Ends, Fits, LoopTyped
  <2>2. QED
    BY <1>1, <2>1, FireWrites DEF Fits
<1>4. LoopTyped'
  BY <1>1, <1>2, <1>3 DEF Fits, LoopTyped
<1>5. calls[k] = <<>> /\ done[k] = 0 /\ Len(calls[k]) = 0
  BY <1>1, Place DEF Calls
<1>6. Moves(k)
  <2>1. "TurnFailed" \in Ends /\ 0 \in Nat
    BY DEF Ends
  <2>2. QED
    BY <1>1, <1>2, <1>3, <1>5, <2>1 DEF Moves, Finishes, Busy, Calls, Announced, Collected
<1>7. QED
  BY <1>1, <1>2, <1>3, <1>4, <1>5, <1>6, TurnOfOne DEF Calls

\* The model answers.
LEMMA AnswerMoves ==
  ASSUME Fits, NEW k \in Spans, NEW message \in Messages[k], NEW cost \in Prices,
         Answer(k, message, cost)
  PROVE  Fits' /\ \A h \in Spans : Moves(h)
<1>1. /\ bill' = [bill EXCEPT ![k] = cost] /\ cost \in Nat
      /\ turn' = turn /\ done' = done /\ log' = log /\ pc[k] = "step"
      /\ \/ /\ message # <<>> /\ pc' = [pc EXCEPT ![k] = "announce"]
            /\ calls' = [calls EXCEPT ![k] = message]
         \/ pc' = [pc EXCEPT ![k] = "final"] /\ calls' = calls
  BY TelemetryAssumption DEF Answer, Goto
<1>2. message \in Seq(Ids)
  <2>1. message \in Seq(Range(message))
    BY TelemetryAssumption
  <2>2. Range(message) \subseteq Ids
    BY DEF Ids
  <2>3. QED
    BY <2>1, <2>2
<1>3. /\ pc' \in [Spans -> PCs] /\ calls' \in [Spans -> Seq(Ids)]
      /\ \A h \in Spans : h # k => pc'[h] = pc[h] /\ calls'[h] = calls[h]
      /\ \/ pc'[k] = "announce" /\ calls'[k] = message /\ message # <<>>
         \/ pc'[k] = "final" /\ calls'[k] = calls[k]
  BY <1>1, <1>2 DEF Fits, LoopTyped, PCs
<1>4. LoopTyped'
  BY <1>1, <1>3 DEF Fits, LoopTyped
<1>5. calls[k] = <<>> /\ done[k] = 0
  BY <1>1, Place DEF Calls
<1>6. Moves(k)
  BY <1>1, <1>3, <1>5 DEF Moves, Rests, Holds, Busy, Calls, Announced, Collected
<1>7. message # <<>> => 0 < Len(message)
  BY <1>2, EmptySeq
<1>8. QED
  BY <1>1, <1>3, <1>4, <1>5, <1>6, <1>7, TurnOfOne DEF Calls

\* A call is announced.
LEMMA PreMoves ==
  ASSUME Fits, NEW k \in Spans, PreToolUse(k)
  PROVE  Fits' /\ \A h \in Spans : Moves(h)
<1>1. /\ done' = [done EXCEPT ![k] = IF done[k] + 1 = Len(calls[k]) THEN 0 ELSE done[k] + 1]
      /\ pc[k] = "announce"
      /\ pc' = [pc EXCEPT ![k] = IF done'[k] = 0 THEN "tools" ELSE "announce"]
      /\ turn' = turn /\ calls' = calls /\ bill' = bill
      /\ Fire(k, "PreToolUse", done[k] + 1, 0)
  BY DEF PreToolUse, Count, Goto
<1>2. /\ done[k] \in Nat /\ Len(calls[k]) \in Nat /\ done[k] < Len(calls[k])
      /\ calls[k] # <<>> /\ turn[k] \in Nat
  BY <1>1, Place DEF Calls
<1>3. /\ done' \in [Spans -> Nat]
      /\ done'[k] = IF done[k] + 1 = Len(calls[k]) THEN 0 ELSE done[k] + 1
      /\ \A h \in Spans : h # k => done'[h] = done[h]
  BY <1>1, <1>2 DEF Fits, LoopTyped
<1>4. /\ pc' \in [Spans -> PCs]
      /\ pc'[k] = IF done[k] + 1 = Len(calls[k]) THEN "tools" ELSE "announce"
      /\ \A h \in Spans : h # k => pc'[h] = pc[h]
  BY <1>1, <1>2, <1>3 DEF Fits, LoopTyped, PCs
<1>5. /\ log' \in [Spans -> Seq(EventType)] /\ Wrote(k, "PreToolUse", done[k] + 1, 0)
      /\ \A h \in Spans : h # k => log'[h] = log[h]
  <2>1. "PreToolUse" \in EventKinds /\ turn'[k] \in Nat /\ done[k] + 1 \in Nat
        /\ done[k] + 1 \in 1..Len(calls[k])
    BY <1>1, <1>2 DEF EventKinds
  <2>2. QED
    BY <1>1, <2>1, FireWrites DEF Fits
<1>6. LoopTyped'
  BY <1>1, <1>3, <1>4, <1>5 DEF Fits, LoopTyped
<1>7. Moves(k)
  <2>1. Announced(k) = done[k] /\ Collected(k) = 0 /\ Busy(k)
    BY <1>1 DEF Announced, Collected, Busy, Calls
  <2>2. Announced(k)' = done[k] + 1 /\ Collected(k)' = 0 /\ Busy(k)'
    BY <1>1, <1>2, <1>3, <1>4 DEF Announced, Collected, Busy, Calls
  <2>3. QED
    BY <1>1, <1>2, <1>5, <2>1, <2>2 DEF Moves, Announces
<1>8. /\ Calls(k)' <=> calls'[k] # <<>>
      /\ pc'[k] \in {"announce", "collect"} => done'[k] < Len(calls'[k])
      /\ pc'[k] \notin {"announce", "collect"} => done'[k] = 0
  BY <1>1, <1>2, <1>3, <1>4 DEF Calls
<1>9. QED
  BY <1>1, <1>3, <1>4, <1>5, <1>6, <1>7, <1>8, TurnOfOne

\* A call is collected.
LEMMA PostMoves ==
  ASSUME Fits, NEW k \in Spans, PostToolUse(k)
  PROVE  Fits' /\ \A h \in Spans : Moves(h)
<1>1. /\ done' = [done EXCEPT ![k] = IF done[k] + 1 = Len(calls[k]) THEN 0 ELSE done[k] + 1]
      /\ pc[k] = "collect"
      /\ pc' = [pc EXCEPT ![k] = IF done'[k] = 0 THEN "ran" ELSE "collect"]
      /\ turn' = turn /\ calls' = calls /\ bill' = bill
      /\ Fire(k, "PostToolUse", done[k] + 1, 0)
  BY DEF PostToolUse, Count, Goto
<1>2. /\ done[k] \in Nat /\ Len(calls[k]) \in Nat /\ done[k] < Len(calls[k])
      /\ calls[k] # <<>> /\ turn[k] \in Nat
  BY <1>1, Place DEF Calls
<1>3. /\ done' \in [Spans -> Nat]
      /\ done'[k] = IF done[k] + 1 = Len(calls[k]) THEN 0 ELSE done[k] + 1
      /\ \A h \in Spans : h # k => done'[h] = done[h]
  BY <1>1, <1>2 DEF Fits, LoopTyped
<1>4. /\ pc' \in [Spans -> PCs]
      /\ pc'[k] = IF done[k] + 1 = Len(calls[k]) THEN "ran" ELSE "collect"
      /\ \A h \in Spans : h # k => pc'[h] = pc[h]
  BY <1>1, <1>2, <1>3 DEF Fits, LoopTyped, PCs
<1>5. /\ log' \in [Spans -> Seq(EventType)] /\ Wrote(k, "PostToolUse", done[k] + 1, 0)
      /\ \A h \in Spans : h # k => log'[h] = log[h]
  <2>1. "PostToolUse" \in EventKinds /\ turn'[k] \in Nat /\ done[k] + 1 \in Nat
        /\ done[k] + 1 \in 1..Len(calls[k])
    BY <1>1, <1>2 DEF EventKinds
  <2>2. QED
    BY <1>1, <2>1, FireWrites DEF Fits
<1>6. LoopTyped'
  BY <1>1, <1>3, <1>4, <1>5 DEF Fits, LoopTyped
<1>7. Moves(k)
  <2>1. Announced(k) = Len(calls[k]) /\ Collected(k) = done[k] /\ Busy(k)
    BY <1>1 DEF Announced, Collected, Busy, Calls
  <2>2. Announced(k)' = Len(calls[k]) /\ Collected(k)' = done[k] + 1 /\ Busy(k)'
    BY <1>1, <1>2, <1>3, <1>4 DEF Announced, Collected, Busy, Calls
  <2>3. QED
    BY <1>1, <1>2, <1>5, <2>1, <2>2 DEF Moves, Collects
<1>8. /\ Calls(k)' <=> calls'[k] # <<>>
      /\ pc'[k] \in {"announce", "collect"} => done'[k] < Len(calls'[k])
      /\ pc'[k] \notin {"announce", "collect"} => done'[k] = 0
  BY <1>1, <1>2, <1>3, <1>4 DEF Calls
<1>9. QED
  BY <1>1, <1>3, <1>4, <1>5, <1>6, <1>7, <1>8, TurnOfOne

\* The calls of a message have run.
LEMMA ReturnMoves ==
  ASSUME Fits, NEW k \in Spans, ToolsReturn(k)
  PROVE  Fits' /\ \A h \in Spans : Moves(h)
<1>1. /\ pc[k] = "tools" /\ pc' = [pc EXCEPT ![k] = "collect"]
      /\ turn' = turn /\ calls' = calls /\ done' = done /\ bill' = bill /\ log' = log
  BY DEF ToolsReturn, Goto
<1>2. /\ pc' \in [Spans -> PCs] /\ pc'[k] = "collect"
      /\ \A h \in Spans : h # k => pc'[h] = pc[h]
  BY <1>1 DEF Fits, LoopTyped, PCs
<1>3. LoopTyped'
  BY <1>1, <1>2 DEF Fits, LoopTyped
<1>4. calls[k] # <<>> /\ done[k] = 0 /\ 0 < Len(calls[k])
  BY <1>1, Place DEF Calls
<1>5. Moves(k)
  BY <1>1, <1>2, <1>4 DEF Moves, Rests, Holds, Busy, Calls, Announced, Collected
<1>6. QED
  BY <1>1, <1>2, <1>3, <1>4, <1>5, TurnOfOne DEF Calls

\* A turn is completed.
LEMMA CompletedMoves ==
  ASSUME Fits, NEW k \in Spans, TurnCompleted(k)
  PROVE  /\ Fits' /\ \A h \in Spans : Moves(h)
         /\ Wrote(k, "TurnCompleted", 0, bill[k])
<1>1. PICK to \in {Ended(k), "boundary", "guard"} :
        /\ pc[k] \in {"final", "ran"} /\ pc' = [pc EXCEPT ![k] = to]
        /\ turn' = turn /\ calls' = [calls EXCEPT ![k] = <<>>] /\ done' = done
        /\ bill' = [bill EXCEPT ![k] = 0] /\ Fire(k, "TurnCompleted", 0, bill[k])
  BY DEF TurnCompleted, Goto
<1>2. to \in Idle
  BY DEF Ended, Idle, PCs
<1>3. /\ pc' \in [Spans -> PCs] /\ pc'[k] = to
      /\ \A h \in Spans : h # k => pc'[h] = pc[h]
  BY <1>1, <1>2 DEF Fits, LoopTyped, Idle
<1>4. /\ calls' \in [Spans -> Seq(Ids)] /\ calls'[k] = <<>> /\ bill' \in [Spans -> Nat]
      /\ \A h \in Spans : h # k => calls'[h] = calls[h]
  <2>1. <<>> \in Seq(Ids)
    OBVIOUS
  <2>2. QED
    BY <1>1, <2>1 DEF Fits, LoopTyped
<1>5. bill[k] \in Nat /\ done[k] = 0 /\ (pc[k] = "final" => Len(calls[k]) = 0)
  BY <1>1, Place DEF Calls
<1>6. /\ log' \in [Spans -> Seq(EventType)] /\ Wrote(k, "TurnCompleted", 0, bill[k])
      /\ \A h \in Spans : h # k => log'[h] = log[h]
  <2>1. "TurnCompleted" \in EventKinds /\ turn'[k] \in Nat
    BY <1>1 DEF EventKinds, Ends, Fits, LoopTyped
  <2>2. QED
    BY <1>1, <1>5, <2>1, FireWrites DEF Fits
<1>7. LoopTyped'
  BY <1>1, <1>3, <1>4, <1>6 DEF Fits, LoopTyped
<1>8. Moves(k)
  <2>1. "TurnCompleted" \in Ends
    BY DEF Ends
  <2>2. /\ Busy(k) /\ ~Busy(k)' /\ Announced(k) = Len(calls[k]) /\ Collected(k) = Len(calls[k])
        /\ Announced(k)' = 0 /\ Collected(k)' = 0
    BY <1>1, <1>2, <1>3, <1>5 DEF Busy, Calls, Announced, Collected, Idle
  <2>3. QED
    BY <1>1, <1>5, <1>6, <2>1, <2>2 DEF Moves, Finishes
<1>9. /\ Calls(k)' <=> calls'[k] # <<>>
      /\ pc'[k] \in {"announce", "collect"} => done'[k] < Len(calls'[k])
      /\ pc'[k] \notin {"announce", "collect"} => done'[k] = 0
  BY <1>1, <1>2, <1>3, <1>4, <1>5 DEF Calls, Idle
<1>10. Fits' /\ \A h \in Spans : Moves(h)
  BY <1>1, <1>3, <1>4, <1>6, <1>7, <1>8, <1>9, TurnOfOne
<1>11. QED
  BY <1>6, <1>10

\* Every other step of a kernel is outside of its turns.
LEMMA AsideMoves ==
  ASSUME Fits, NEW k \in Spans,
         \/ Prompt(k) \/ GuardTriggered(k) \/ PreCompact(k) \/ CompactFails(k) \/ Silently(k)
         \/ \E cost \in Prices : PostCompact(k, cost)
  PROVE  Fits' /\ \A h \in Spans : Moves(h)
<1>1. \A to \in {"loop", "idle", "failed", "stopped", "nudged", "compact", "preCompact", "compacted"} :
        to \in Idle
  BY DEF Idle, PCs
<1>2. Ended(k) \in Idle /\ Failed(k) \in Idle
  BY <1>1 DEF Ended, Failed
<1>3. {"UserPromptSubmit", "GuardTriggered", "PreCompact", "PostCompact"} \subseteq Others
  BY DEF Others
<1>4. CASE Prompt(k)
  <2>1. /\ pc[k] \in {"idle", "compacted"} /\ pc' = [pc EXCEPT ![k] = "loop"]
        /\ UNCHANGED <<turn, calls, done, bill>> /\ Fire(k, "UserPromptSubmit", 0, 0)
    BY <1>4 DEF Prompt, Goto
  <2>2. QED
    BY <1>1, <1>3, <2>1, AsideFires
<1>5. CASE GuardTriggered(k)
  <2>1. PICK to \in {"loop", "nudged", Ended(k)} :
          /\ pc[k] \in {"guard", "boundary", "nudged"} /\ pc' = [pc EXCEPT ![k] = to]
          /\ UNCHANGED <<turn, calls, done, bill>> /\ Fire(k, "GuardTriggered", 0, 0)
    BY <1>5 DEF GuardTriggered, Goto, Leave
  <2>2. pc[k] \in Idle /\ to \in Idle
    BY <1>1, <1>2, <2>1 DEF Idle, PCs
  <2>3. QED
    BY <1>3, <2>1, <2>2, AsideFires
<1>6. CASE PreCompact(k)
  <2>1. PICK to \in {"compact", "preCompact"} :
          /\ pc[k] \in {"idle", "boundary", "nudged"} /\ pc' = [pc EXCEPT ![k] = to]
          /\ UNCHANGED <<turn, calls, done, bill>> /\ Fire(k, "PreCompact", 0, 0)
    BY <1>6 DEF PreCompact, Goto, Leave
  <2>2. pc[k] \in Idle /\ to \in Idle
    BY <1>1, <2>1 DEF Idle, PCs
  <2>3. QED
    BY <1>3, <2>1, <2>2, AsideFires
<1>7. CASE CompactFails(k)
  <2>1. /\ pc[k] \in {"compact", "preCompact"} /\ pc' = [pc EXCEPT ![k] = Failed(k)]
        /\ UNCHANGED <<turn, calls, done, bill, log>>
    BY <1>7 DEF CompactFails, Goto
  <2>2. QED
    BY <1>1, <1>2, <2>1, AsideQuietly
<1>8. CASE Silently(k)
  <2>1. PICK to \in {"loop", Ended(k), Failed(k)} :
          /\ pc[k] \in {"loop", "boundary", "nudged"} /\ pc' = [pc EXCEPT ![k] = to]
          /\ UNCHANGED <<turn, calls, done, bill, log>>
    BY <1>8 DEF Silently, Goto, Leave
  <2>2. pc[k] \in Idle /\ to \in Idle
    BY <1>1, <1>2, <2>1 DEF Idle, PCs
  <2>3. QED
    BY <2>1, <2>2, AsideQuietly
<1>9. CASE \E cost \in Prices : PostCompact(k, cost)
  <2>1. PICK to \in {"loop", "compacted"} :
          /\ pc[k] \in {"compact", "preCompact"} /\ pc' = [pc EXCEPT ![k] = to]
          /\ UNCHANGED <<turn, calls, done, bill>> /\ Fire(k, "PostCompact", 0, 0)
    BY <1>9 DEF PostCompact, Goto
  <2>2. pc[k] \in Idle /\ to \in Idle
    BY <1>1, <2>1
  <2>3. QED
    BY <1>3, <2>1, <2>2, AsideFires
<1>10. QED
  BY <1>4, <1>5, <1>6, <1>7, <1>8, <1>9

\* What Root's loop and its agents do.
LEMMA RootMoves ==
  ASSUME Fits, Wake \/ QueueInterrupt \/ \E a \in Agents : AgentStep(a)
  PROVE  Fits' /\ \A h \in Spans : Moves(h)
<1>1. \A to \in {"loop", "idle", "rollup", "result", "gone", "boundary", "nudged", "none",
                 "stopped", "failed"} : to \in Idle
  BY DEF Idle, PCs
<1>2. {"QueueInterrupt", "SubagentStart", "SubagentStop"} \subseteq Others
  BY DEF Others
<1>3. Root \in Spans /\ Agents \subseteq Spans
  BY DEF Spans
<1>4. CASE Wake
  <2>1. /\ pc[Root] = "idle" /\ pc' = [pc EXCEPT ![Root] = "loop"]
        /\ UNCHANGED <<turn, calls, done, bill, log>>
    BY <1>4 DEF Wake, Goto
  <2>2. QED
    BY <1>1, <1>3, <2>1, AsideQuietly
<1>5. CASE QueueInterrupt
  <2>1. /\ pc[Root] \in {"boundary", "nudged"} /\ pc' = [pc EXCEPT ![Root] = "loop"]
        /\ UNCHANGED <<turn, calls, done, bill>> /\ Fire(Root, "QueueInterrupt", 0, 0)
    BY <1>5 DEF QueueInterrupt, Leave, Goto
  <2>2. QED
    BY <1>1, <1>2, <1>3, <2>1, AsideFires
<1>6. ASSUME NEW a \in Agents, AgentStep(a)
      PROVE  Fits' /\ \A h \in Spans : Moves(h)
  <2>1. CASE SubagentStart(a)
    <3>1. /\ pc[a] = "none" /\ pc' = [pc EXCEPT ![a] = "idle"]
          /\ UNCHANGED <<turn, calls, done, bill>> /\ Fire(Root, "SubagentStart", 0, 0)
      BY <2>1 DEF SubagentStart, Goto
    <3>2. QED
      BY <1>1, <1>2, <1>3, <3>1, AsideFires
  <2>2. CASE SubagentStop(a)
    <3>1. PICK to \in {"rollup", "result"} :
            /\ pc[a] \in {"stopped", "failed"} /\ pc' = [pc EXCEPT ![a] = to]
            /\ UNCHANGED <<turn, calls, done, bill>> /\ Fire(Root, "SubagentStop", 0, 0)
      BY <2>2 DEF SubagentStop, Goto
    <3>2. QED
      BY <1>1, <1>2, <1>3, <3>1, AsideFires
  <2>3. CASE RollUp(a)
    <3>1. /\ pc[a] = "rollup" /\ pc' = [pc EXCEPT ![a] = "result"]
          /\ UNCHANGED <<turn, calls, done, bill, log>>
      BY <2>3 DEF RollUp, Goto
    <3>2. QED
      BY <1>1, <1>3, <3>1, AsideQuietly
  <2>4. CASE Result(a)
    <3>1. /\ pc[a] = "result" /\ pc' = [pc EXCEPT ![a] = "gone"]
          /\ UNCHANGED <<turn, calls, done, bill, log>>
      BY <2>4 DEF Result, Goto
    <3>2. QED
      BY <1>1, <1>3, <3>1, AsideQuietly
  <2>5. QED
    BY <1>6, <2>1, <2>2, <2>3, <2>4 DEF AgentStep
<1>7. QED
  BY <1>4, <1>5, <1>6

\* Every step is one of the moves for every kernel.
LEMMA NextMoves ==
  ASSUME Fits, [Next]_vars
  PROVE  Fits' /\ \A h \in Spans : Moves(h)
<1>1. ASSUME NEW k \in Spans, KernelStep(k)
      PROVE  Fits' /\ \A h \in Spans : Moves(h)
  <2>1. \/ Prompt(k) \/ TurnStarted(k) \/ TurnFailed(k) \/ PreToolUse(k)
        \/ ToolsReturn(k) \/ PostToolUse(k) \/ TurnCompleted(k) \/ GuardTriggered(k)
        \/ PreCompact(k) \/ CompactFails(k) \/ Silently(k)
        \/ (\E cost \in Prices : PostCompact(k, cost))
        \/ (\E cost \in Prices : \E message \in Messages[k] : Answer(k, message, cost))
    BY <1>1 DEF KernelStep
  <2>2. QED
    BY <2>1, StartedMoves, FailedMoves, AnswerMoves, PreMoves, ReturnMoves, PostMoves,
       CompletedMoves, AsideMoves
<1>2. CASE UNCHANGED vars
  <2>1. UNCHANGED <<pc, turn, calls, done, bill, log>>
    BY <1>2 DEF vars, loop
  <2>2. Fits'
    BY <2>1 DEF Fits, LoopTyped, Counted, Calls
  <2>3. \A h \in Spans : Moves(h)
    BY <2>1 DEF Moves, Rests, Holds, Busy, Calls, Announced, Collected
  <2>4. QED
    BY <2>2, <2>3
<1>3. QED
  BY <1>1, <1>2, RootMoves DEF Next

\* No kernel has done anything yet.
LEMMA InitFits == Init => Fits /\ \A k \in Spans : log[k] = <<>>
<1>1. SUFFICES ASSUME Init PROVE Fits /\ \A k \in Spans : log[k] = <<>>
  OBVIOUS
<1>2. LoopTyped
  <2>1. "idle" \in PCs /\ "none" \in PCs /\ <<>> \in Seq(Ids) /\ <<>> \in Seq(EventType)
    BY DEF PCs
  <2>2. QED
    BY <1>1, <2>1 DEF Init, LoopTyped
<1>3. Counted
  BY <1>1 DEF Init, Counted, Calls
<1>4. QED
  BY <1>1, <1>2, <1>3 DEF Init, Fits

-----------------------------------------------------------------------------
(* Nothing is lost.                                                         *)

AllPlaced ==
  \A k \in Spans : TreeShape(TreeOf(log[k])) /\ Placed(TreeOf(log[k]), log[k])

\* The tree of no events.
LEMMA EmptyPlaced == TreeShape(EmptyTree) /\ Placed(EmptyTree, <<>>)
<1>1. PICK s : s = NewSpan("kernel.run", 0, 0, <<>>)
  OBVIOUS
<1>2. s \in SpanType /\ s.name = "kernel.run" /\ s.events = <<>>
  BY <1>1 DEF NewSpan, SpanType
<1>3. PICK to : to = [id \in {} |-> 0]
  OBVIOUS
<1>4. EmptyTree = [spans |-> <<s>>, turn |-> 1, tools |-> to]
  BY <1>1, <1>3 DEF EmptyTree
<1>5. EmptyTree.spans = <<s>> /\ EmptyTree.turn = 1 /\ EmptyTree.tools = to
  BY <1>4
<1>6. /\ <<s>> \in Seq(SpanType) /\ Len(<<s>>) = 1 /\ <<s>>[1] = s /\ DOMAIN <<s>> = 1..1
      /\ to \in [DOMAIN to -> 1..1]
  BY <1>2, <1>3
<1>7. TreeShape(EmptyTree)
  BY <1>2, <1>4, <1>5, <1>6 DEF TreeShape
<1>8. \A i \in DOMAIN EmptyTree.spans : DOMAIN EmptyTree.spans[i].events = {}
  BY <1>2, <1>5, <1>6
<1>9. Placed(EmptyTree, <<>>)
  BY <1>8 DEF Placed
<1>10. QED
  BY <1>7, <1>9

\* Whatever a kernel fires, its tree has the place for it.
LEMMA MovesPlace ==
  ASSUME Fits, Fits', NEW k \in Spans, Moves(k), TreeShape(TreeOf(log[k])),
         Placed(TreeOf(log[k]), log[k])
  PROVE  (TreeShape(TreeOf(log[k])) /\ Placed(TreeOf(log[k]), log[k]))'
<1>1. log[k] \in Seq(EventType) /\ log'[k] \in Seq(EventType)
  BY DEF Fits, LoopTyped
<1>2. CASE log'[k] = log[k]
  BY <1>2
<1>3. ASSUME NEW e, log'[k] = Append(log[k], e)
      PROVE  (TreeShape(TreeOf(log[k])) /\ Placed(TreeOf(log[k]), log[k]))'
  <2>1. e \in EventType
    <3>1. PICK n, more : n = Len(log[k]) /\ more = log'[k]
      OBVIOUS
    <3>2. n \in Nat /\ Len(more) = n + 1 /\ more[n + 1] = e /\ more \in Seq(EventType)
      BY <1>1, <1>3, <3>1
    <3>3. QED
      BY <3>2
  <2>2. TreeOf(log'[k]) = TreeStep(TreeOf(log[k]), Len(log[k]) + 1, e)
    BY <1>1, <1>3, <2>1, TreeGrows
  <2>3. TreeShape(TreeOf(log'[k])) /\ Placed(TreeOf(log'[k]), log'[k])
    BY <1>1, <1>3, <2>1, <2>2, StepPlaces
  <2>4. QED
    BY <2>3
<1>4. QED
  BY <1>2, <1>3 DEF Moves, Rests, Mentions, Begins, Finishes, Announces, Collects, Wrote

\* In an indexed family of sequences, a place is a span and a position in it.
LEMMA PlacesLose ==
  ASSUME NEW evs \in Seq(EventType), NEW t, TreeShape(t), Placed(t, evs)
  PROVE  LET spans == t.spans
             places == UNION {{i} \X DOMAIN spans[i].events : i \in DOMAIN spans}
             placed == [p \in places |-> spans[p[1]].events[p[2]]]
         IN
         /\ IsInjective(placed)
         /\ Range(placed) = {n \in DOMAIN evs : Observable(evs[n].kind)}
         /\ \A i \in DOMAIN spans : \A n \in 2..Len(spans[i].events) :
              spans[i].events[n - 1] < spans[i].events[n]
<1>1. PICK ss : ss = t.spans
  OBVIOUS
<1>2. PICK ps : ps = UNION {{i} \X DOMAIN ss[i].events : i \in DOMAIN ss}
  OBVIOUS
<1>3. PICK pd : pd = [p \in ps |-> ss[p[1]].events[p[2]]]
  OBVIOUS
<1>4. \A p \in ps : p = <<p[1], p[2]>> /\ p[1] \in DOMAIN ss /\ p[2] \in DOMAIN ss[p[1]].events
  BY <1>2
<1>5. \A i \in DOMAIN ss : \A j \in DOMAIN ss[i].events :
        <<i, j>> \in ps /\ <<i, j>>[1] = i /\ <<i, j>>[2] = j
  BY <1>2
<1>6. IsInjective(pd)
  <2>1. ASSUME NEW p \in ps, NEW q \in ps, pd[p] = pd[q] PROVE p = q
    <3>1. ss[p[1]].events[p[2]] = ss[q[1]].events[q[2]]
      BY <1>3, <2>1
    <3>2. p[1] = q[1] /\ p[2] = q[2]
      BY <1>1, <1>4, <3>1 DEF Placed
    <3>3. QED
      BY <1>4, <3>2
  <2>2. DOMAIN pd = ps
    BY <1>3
  <2>3. QED
    BY <2>1, <2>2 DEF IsInjective
<1>7. Range(pd) = {n \in DOMAIN evs : Observable(evs[n].kind)}
  <2>1. ASSUME NEW n \in Range(pd) PROVE n \in DOMAIN evs /\ Observable(evs[n].kind)
    <3>1. PICK p \in ps : n = pd[p]
      BY <1>3, <2>1 DEF Range
    <3>2. n = ss[p[1]].events[p[2]]
      BY <1>3, <3>1
    <3>3. QED
      BY <1>1, <1>4, <3>2 DEF Placed
  <2>2. ASSUME NEW n \in DOMAIN evs, Observable(evs[n].kind) PROVE n \in Range(pd)
    <3>1. PICK i \in DOMAIN ss : \E j \in DOMAIN ss[i].events : ss[i].events[j] = n
      BY <1>1, <2>2 DEF Placed
    <3>2. PICK j \in DOMAIN ss[i].events : ss[i].events[j] = n
      BY <3>1
    <3>3. <<i, j>> \in ps /\ pd[<<i, j>>] = n
      BY <1>3, <1>5, <3>2
    <3>4. DOMAIN pd = ps
      BY <1>3
    <3>5. QED
      BY <3>3, <3>4 DEF Range
  <2>3. QED
    BY <2>1, <2>2
<1>8. ASSUME NEW i \in DOMAIN ss, NEW n \in 2..Len(ss[i].events)
      PROVE  ss[i].events[n - 1] < ss[i].events[n]
  <2>1. ss[i] \in SpanType
    BY <1>1 DEF TreeShape
  <2>2. ss[i].events \in Seq(Nat)
    BY <2>1 DEF SpanType
  <2>3. n - 1 \in DOMAIN ss[i].events /\ n \in DOMAIN ss[i].events /\ n - 1 < n
    BY <2>2
  <2>4. QED
    BY <1>1, <2>3 DEF Placed
<1>9. QED
  BY <1>1, <1>2, <1>3, <1>6, <1>7, <1>8

\* OTELSpans projects a trace without loss, whenever it is read: each event that a
\* projection observes is in one span of the tree, once, and in the order fired.
THEOREM ProjectionIsLossless == Spec => []NothingLost
<1>1. Init => Fits /\ AllPlaced
  <2>1. ASSUME NEW k \in Spans, log[k] = <<>>
        PROVE  TreeShape(TreeOf(log[k])) /\ Placed(TreeOf(log[k]), log[k])
    BY <2>1, EmptyPlaced, TreeOfNone
  <2>2. QED
    BY <2>1, InitFits DEF AllPlaced
<1>2. Fits /\ AllPlaced /\ [Next]_vars => (Fits /\ AllPlaced)'
  <2>1. SUFFICES ASSUME Fits, AllPlaced, [Next]_vars PROVE Fits' /\ AllPlaced'
    OBVIOUS
  <2>2. Fits' /\ \A h \in Spans : Moves(h)
    BY <2>1, NextMoves
  <2>3. ASSUME NEW k \in Spans
        PROVE  (TreeShape(TreeOf(log[k])) /\ Placed(TreeOf(log[k]), log[k]))'
    BY <2>1, <2>2, MovesPlace DEF AllPlaced
  <2>4. QED
    BY <2>2, <2>3 DEF AllPlaced
<1>3. Fits /\ AllPlaced => NothingLost
  <2>1. ASSUME Fits, AllPlaced, NEW k \in Spans
        PROVE  LET spans == SpanTree(k)
                   places == UNION {{i} \X DOMAIN spans[i].events : i \in DOMAIN spans}
                   placed == [p \in places |-> spans[p[1]].events[p[2]]]
               IN
               /\ IsInjective(placed)
               /\ Range(placed) = {n \in DOMAIN log[k] : Observable(log[k][n].kind)}
               /\ \A i \in DOMAIN spans : \A n \in 2..Len(spans[i].events) :
                    spans[i].events[n - 1] < spans[i].events[n]
    <3>1. log[k] \in Seq(EventType)
      BY <2>1 DEF Fits, LoopTyped
    <3>2. TreeShape(TreeOf(log[k])) /\ Placed(TreeOf(log[k]), log[k])
      BY <2>1 DEF AllPlaced
    <3>3. QED
      BY <3>1, <3>2, PlacesLose DEF SpanTree
  <2>2. QED
    BY <2>1 DEF NothingLost
<1>4. QED
  BY <1>1, <1>2, <1>3, PTL DEF Spec

-----------------------------------------------------------------------------
(* The log knows its turns and its calls.                                   *)

\* What is known of one event more.
LEMMA LogMore ==
  ASSUME NEW evs \in Seq(EventType), NEW e \in EventType
  PROVE  LET more == Append(evs, e)
             N == Len(evs) + 1
         IN
         /\ N \in Nat /\ N >= 1 /\ DOMAIN evs = 1..(N - 1) /\ DOMAIN more = 1..N /\ more[N] = e
         /\ more \in Seq(EventType) /\ Len(evs) = N - 1 /\ Len(more) = N
         /\ \A n \in 1..N : n = N \/ n \in 1..(N - 1)
         /\ \A n \in 1..(N - 1) : more[n] = evs[n] /\ n \in 1..N
         /\ \A n \in 1..(N - 1) : evs[n] \in EventType
  OBVIOUS

\* What the kinds are not.
LEMMA Kinds ==
  /\ \A kind \in Others : kind \notin Ends \cup {"TurnStarted", "PreToolUse", "PostToolUse"}
  /\ \A kind \in Ends : kind \notin {"TurnStarted", "PreToolUse", "PostToolUse"}
  BY DEF Others, Ends

\* An event beside the turns.
LEMMA LogMentions ==
  ASSUME NEW evs \in Seq(EventType), NEW e \in EventType, NEW T \in Nat, NEW open \in BOOLEAN,
         NEW C \in Seq(Ids), NEW a \in Nat, NEW c \in Nat, a <= Len(C), c <= a,
         LogTrue(evs, T, open, C, a, c),
         e.kind \in Others, e.turn = T
  PROVE  LogTrue(Append(evs, e), T, open, C, a, c)
<1>1. PICK more, N : more = Append(evs, e) /\ N = Len(evs) + 1
  OBVIOUS
<1>2. /\ N \in Nat /\ N >= 1 /\ DOMAIN evs = 1..(N - 1) /\ DOMAIN more = 1..N /\ more[N] = e
      /\ \A n \in 1..N : n = N \/ n \in 1..(N - 1)
      /\ \A n \in 1..(N - 1) : more[n] = evs[n] /\ n \in 1..N
      /\ \A n \in 1..(N - 1) : evs[n] \in EventType
  BY <1>1, LogMore
<1>3. \A n \in 1..(N - 1) : /\ evs[n].turn <= T /\ evs[n].turn \in Nat
                            /\ Is(evs, n, Ends \cup {"TurnStarted"}) => evs[n].call = 0
  BY <1>2 DEF LogTrue, EventType
<1>4. \A n \in 1..N : /\ more[n].turn <= T
                      /\ Is(more, n, Ends \cup {"TurnStarted"}) => more[n].call = 0
  BY <1>2, <1>3, Kinds DEF Is
<1>5. ASSUME NEW m \in 1..N, NEW n \in 1..N
      PROVE  /\ Is(more, m, Ends) /\ Is(more, n, Ends) /\ Turned(more, m, n) => m = n
             /\ Is(more, m, {"PreToolUse"}) /\ Is(more, n, {"PreToolUse"}) /\ Paired(more, m, n)
                  => m = n
             /\ Is(more, m, {"PostToolUse"}) /\ Is(more, n, {"PostToolUse"}) /\ Paired(more, m, n)
                  => m = n
  <2>1. CASE m = N /\ n = N
    BY <2>1
  <2>2. CASE m \in 1..(N - 1) /\ n \in 1..(N - 1)
    <3>1. /\ Is(evs, m, Ends) /\ Is(evs, n, Ends) /\ Turned(evs, m, n) => m = n
          /\ Is(evs, m, {"PreToolUse"}) /\ Is(evs, n, {"PreToolUse"}) /\ Paired(evs, m, n)
               => m = n
          /\ Is(evs, m, {"PostToolUse"}) /\ Is(evs, n, {"PostToolUse"}) /\ Paired(evs, m, n)
               => m = n
      BY <1>2, <2>2 DEF LogTrue
    <3>2. more[m] = evs[m] /\ more[n] = evs[n]
      BY <1>2, <2>2
    <3>3. QED
      BY <3>1, <3>2 DEF Is, Turned, Paired
  <2>3. ASSUME NEW i \in 1..(N - 1)
        PROVE  /\ ~(Is(more, i, Ends) /\ Is(more, N, Ends) /\ more[i].turn = more[N].turn)
               /\ \A kind \in {"PreToolUse", "PostToolUse"} :
                    ~(/\ Is(more, i, {kind}) /\ Is(more, N, {kind})
                      /\ more[i].turn = more[N].turn /\ more[i].call = more[N].call)
    <3>1. ~(Is(evs, i, Ends) /\ e.kind \in Ends /\ evs[i].turn = e.turn)
      BY Kinds
    <3>2. \A kind \in {"PreToolUse", "PostToolUse"} :
            ~(/\ Is(evs, i, {kind}) /\ e.kind = kind
              /\ evs[i].turn = e.turn /\ evs[i].call = e.call)
      BY Kinds
    <3>3. more[i] = evs[i]
      BY <1>2
    <3>4. QED
      BY <1>2, <3>1, <3>2, <3>3 DEF Is
  <2>4. QED
    BY <1>2, <2>1, <2>2, <2>3 DEF Turned, Paired
<1>6. ASSUME open, NEW n \in 1..N, more[n].turn = T
      PROVE  /\ ~Is(more, n, Ends)
             /\ Is(more, n, {"PreToolUse"}) => more[n].call \in 1..a /\ more[n].id = C[more[n].call]
             /\ Is(more, n, {"PostToolUse"}) => more[n].call \in 1..c
  <2>1. CASE n = N
    BY <1>2, <2>1, Kinds DEF Is
  <2>2. CASE n \in 1..(N - 1)
    <3>1. /\ ~Is(evs, n, Ends)
          /\ Is(evs, n, {"PreToolUse"}) => evs[n].call \in 1..a /\ evs[n].id = C[evs[n].call]
          /\ Is(evs, n, {"PostToolUse"}) => evs[n].call \in 1..c
      BY <1>2, <1>6, <2>2 DEF LogTrue
    <3>2. QED
      BY <1>2, <2>2, <3>1 DEF Is
  <2>3. QED
    BY <1>2, <2>1, <2>2
<1>7. ASSUME open, NEW j \in 1..a
      PROVE  \E n \in 1..N : /\ Is(more, n, {"PreToolUse"}) /\ more[n].turn = T
                             /\ more[n].call = j /\ more[n].id = C[j]
  <2>1. PICK n \in 1..(N - 1) : /\ Is(evs, n, {"PreToolUse"}) /\ evs[n].turn = T
                               /\ evs[n].call = j /\ evs[n].id = C[j]
    BY <1>2, <1>7 DEF LogTrue
  <2>2. QED
    BY <1>2, <2>1 DEF Is
<1>8. QED
  BY <1>1, <1>2, <1>4, <1>5, <1>6, <1>7, ZenonT(60) DEF LogTrue

\* A turn begins: all that was fired is of earlier ones.
LEMMA LogBegins ==
  ASSUME NEW evs \in Seq(EventType), NEW e \in EventType, NEW T \in Nat, NEW open \in BOOLEAN,
         NEW C \in Seq(Ids), NEW a \in Nat, NEW c \in Nat, a <= Len(C), c <= a,
         LogTrue(evs, T, open, C, a, c),
         ~open, e.kind = "TurnStarted", e.turn = T + 1, e.call = 0
  PROVE  LogTrue(Append(evs, e), T + 1, TRUE, C, 0, 0)
<1>1. PICK more, N : more = Append(evs, e) /\ N = Len(evs) + 1
  OBVIOUS
<1>2. /\ N \in Nat /\ N >= 1 /\ DOMAIN evs = 1..(N - 1) /\ DOMAIN more = 1..N /\ more[N] = e
      /\ \A n \in 1..N : n = N \/ n \in 1..(N - 1)
      /\ \A n \in 1..(N - 1) : more[n] = evs[n] /\ n \in 1..N
      /\ \A n \in 1..(N - 1) : evs[n] \in EventType
  BY <1>1, LogMore
<1>3. \A n \in 1..(N - 1) : /\ evs[n].turn <= T /\ evs[n].turn \in Nat
                            /\ Is(evs, n, Ends \cup {"TurnStarted"}) => evs[n].call = 0
  BY <1>2 DEF LogTrue, EventType
<1>4. \A n \in 1..N : /\ more[n].turn <= T + 1
                      /\ Is(more, n, Ends \cup {"TurnStarted"}) => more[n].call = 0
  BY <1>2, <1>3, Kinds DEF Is
<1>5. ASSUME NEW m \in 1..N, NEW n \in 1..N
      PROVE  /\ Is(more, m, Ends) /\ Is(more, n, Ends) /\ Turned(more, m, n) => m = n
             /\ Is(more, m, {"PreToolUse"}) /\ Is(more, n, {"PreToolUse"}) /\ Paired(more, m, n)
                  => m = n
             /\ Is(more, m, {"PostToolUse"}) /\ Is(more, n, {"PostToolUse"}) /\ Paired(more, m, n)
                  => m = n
  <2>1. CASE m = N /\ n = N
    BY <2>1
  <2>2. CASE m \in 1..(N - 1) /\ n \in 1..(N - 1)
    <3>1. /\ Is(evs, m, Ends) /\ Is(evs, n, Ends) /\ Turned(evs, m, n) => m = n
          /\ Is(evs, m, {"PreToolUse"}) /\ Is(evs, n, {"PreToolUse"}) /\ Paired(evs, m, n)
               => m = n
          /\ Is(evs, m, {"PostToolUse"}) /\ Is(evs, n, {"PostToolUse"}) /\ Paired(evs, m, n)
               => m = n
      BY <1>2, <2>2 DEF LogTrue
    <3>2. more[m] = evs[m] /\ more[n] = evs[n]
      BY <1>2, <2>2
    <3>3. QED
      BY <3>1, <3>2 DEF Is, Turned, Paired
  <2>3. ASSUME NEW i \in 1..(N - 1)
        PROVE  /\ ~(Is(more, i, Ends) /\ Is(more, N, Ends) /\ more[i].turn = more[N].turn)
               /\ \A kind \in {"PreToolUse", "PostToolUse"} :
                    ~(/\ Is(more, i, {kind}) /\ Is(more, N, {kind})
                      /\ more[i].turn = more[N].turn /\ more[i].call = more[N].call)
    <3>1. ~(Is(evs, i, Ends) /\ e.kind \in Ends /\ evs[i].turn = e.turn)
      BY <1>3
    <3>2. \A kind \in {"PreToolUse", "PostToolUse"} :
            ~(/\ Is(evs, i, {kind}) /\ e.kind = kind
              /\ evs[i].turn = e.turn /\ evs[i].call = e.call)
      BY <1>3
    <3>3. more[i] = evs[i]
      BY <1>2
    <3>4. QED
      BY <1>2, <3>1, <3>2, <3>3 DEF Is
  <2>4. QED
    BY <1>2, <2>1, <2>2, <2>3 DEF Turned, Paired
<1>6. ASSUME NEW n \in 1..N, more[n].turn = T + 1
      PROVE  ~Is(more, n, Ends \cup {"PreToolUse", "PostToolUse"})
  <2>1. n = N
    BY <1>2, <1>3, <1>6
  <2>2. QED
    BY <1>2, <2>1, Kinds DEF Is
<1>7. QED
  BY <1>1, <1>2, <1>4, <1>5, <1>6 DEF LogTrue, Is

\* A turn ends: it has not ended before.
LEMMA LogFinishes ==
  ASSUME NEW evs \in Seq(EventType), NEW e \in EventType, NEW T \in Nat, NEW open \in BOOLEAN,
         NEW C \in Seq(Ids), NEW a \in Nat, NEW c \in Nat, a <= Len(C), c <= a,
         LogTrue(evs, T, open, C, a, c),
         open, e.kind \in Ends, e.turn = T, e.call = 0
  PROVE  LogTrue(Append(evs, e), T, FALSE, <<>>, 0, 0)
<1>1. PICK more, N : more = Append(evs, e) /\ N = Len(evs) + 1
  OBVIOUS
<1>2. /\ N \in Nat /\ N >= 1 /\ DOMAIN evs = 1..(N - 1) /\ DOMAIN more = 1..N /\ more[N] = e
      /\ \A n \in 1..N : n = N \/ n \in 1..(N - 1)
      /\ \A n \in 1..(N - 1) : more[n] = evs[n] /\ n \in 1..N
      /\ \A n \in 1..(N - 1) : evs[n] \in EventType
  BY <1>1, LogMore
<1>3. \A n \in 1..(N - 1) : /\ evs[n].turn <= T /\ evs[n].turn \in Nat
                            /\ Is(evs, n, Ends \cup {"TurnStarted"}) => evs[n].call = 0
  BY <1>2 DEF LogTrue, EventType
<1>4. \A n \in 1..N : /\ more[n].turn <= T
                      /\ Is(more, n, Ends \cup {"TurnStarted"}) => more[n].call = 0
  BY <1>2, <1>3, Kinds DEF Is
<1>5. ASSUME NEW m \in 1..N, NEW n \in 1..N
      PROVE  /\ Is(more, m, Ends) /\ Is(more, n, Ends) /\ Turned(more, m, n) => m = n
             /\ Is(more, m, {"PreToolUse"}) /\ Is(more, n, {"PreToolUse"}) /\ Paired(more, m, n)
                  => m = n
             /\ Is(more, m, {"PostToolUse"}) /\ Is(more, n, {"PostToolUse"}) /\ Paired(more, m, n)
                  => m = n
  <2>1. CASE m = N /\ n = N
    BY <2>1
  <2>2. CASE m \in 1..(N - 1) /\ n \in 1..(N - 1)
    <3>1. /\ Is(evs, m, Ends) /\ Is(evs, n, Ends) /\ Turned(evs, m, n) => m = n
          /\ Is(evs, m, {"PreToolUse"}) /\ Is(evs, n, {"PreToolUse"}) /\ Paired(evs, m, n)
               => m = n
          /\ Is(evs, m, {"PostToolUse"}) /\ Is(evs, n, {"PostToolUse"}) /\ Paired(evs, m, n)
               => m = n
      BY <1>2, <2>2 DEF LogTrue
    <3>2. more[m] = evs[m] /\ more[n] = evs[n]
      BY <1>2, <2>2
    <3>3. QED
      BY <3>1, <3>2 DEF Is, Turned, Paired
  <2>3. ASSUME NEW i \in 1..(N - 1)
        PROVE  /\ ~(Is(more, i, Ends) /\ Is(more, N, Ends) /\ more[i].turn = more[N].turn)
               /\ \A kind \in {"PreToolUse", "PostToolUse"} :
                    ~(/\ Is(more, i, {kind}) /\ Is(more, N, {kind})
                      /\ more[i].turn = more[N].turn /\ more[i].call = more[N].call)
    <3>1. ~(Is(evs, i, Ends) /\ e.kind \in Ends /\ evs[i].turn = e.turn)
      BY <1>2, Kinds DEF LogTrue, Is
    <3>2. \A kind \in {"PreToolUse", "PostToolUse"} :
            ~(/\ Is(evs, i, {kind}) /\ e.kind = kind
              /\ evs[i].turn = e.turn /\ evs[i].call = e.call)
      BY Kinds
    <3>3. more[i] = evs[i]
      BY <1>2
    <3>4. QED
      BY <1>2, <3>1, <3>2, <3>3 DEF Is
  <2>4. QED
    BY <1>2, <2>1, <2>2, <2>3 DEF Turned, Paired
<1>6. QED
  BY <1>1, <1>2, <1>4, <1>5 DEF LogTrue

\* A call is announced that was not.
LEMMA LogAnnounces ==
  ASSUME NEW evs \in Seq(EventType), NEW e \in EventType, NEW T \in Nat, NEW open \in BOOLEAN,
         NEW C \in Seq(Ids), NEW a \in Nat, NEW c \in Nat, a <= Len(C), c <= a,
         LogTrue(evs, T, open, C, a, c),
         open, e.kind = "PreToolUse", e.turn = T, e.call = a + 1, e.id = C[a + 1]
  PROVE  LogTrue(Append(evs, e), T, open, C, a + 1, c)
<1>1. PICK more, N : more = Append(evs, e) /\ N = Len(evs) + 1
  OBVIOUS
<1>2. /\ N \in Nat /\ N >= 1 /\ DOMAIN evs = 1..(N - 1) /\ DOMAIN more = 1..N /\ more[N] = e
      /\ \A n \in 1..N : n = N \/ n \in 1..(N - 1)
      /\ \A n \in 1..(N - 1) : more[n] = evs[n] /\ n \in 1..N
      /\ \A n \in 1..(N - 1) : evs[n] \in EventType
  BY <1>1, LogMore
<1>3. \A n \in 1..(N - 1) : /\ evs[n].turn <= T /\ evs[n].turn \in Nat
                            /\ Is(evs, n, Ends \cup {"TurnStarted"}) => evs[n].call = 0
  BY <1>2 DEF LogTrue, EventType
<1>4. \A n \in 1..N : /\ more[n].turn <= T
                      /\ Is(more, n, Ends \cup {"TurnStarted"}) => more[n].call = 0
  BY <1>2, <1>3, Kinds DEF Is
<1>5. ASSUME NEW m \in 1..N, NEW n \in 1..N
      PROVE  /\ Is(more, m, Ends) /\ Is(more, n, Ends) /\ Turned(more, m, n) => m = n
             /\ Is(more, m, {"PreToolUse"}) /\ Is(more, n, {"PreToolUse"}) /\ Paired(more, m, n)
                  => m = n
             /\ Is(more, m, {"PostToolUse"}) /\ Is(more, n, {"PostToolUse"}) /\ Paired(more, m, n)
                  => m = n
  <2>1. CASE m = N /\ n = N
    BY <2>1
  <2>2. CASE m \in 1..(N - 1) /\ n \in 1..(N - 1)
    <3>1. /\ Is(evs, m, Ends) /\ Is(evs, n, Ends) /\ Turned(evs, m, n) => m = n
          /\ Is(evs, m, {"PreToolUse"}) /\ Is(evs, n, {"PreToolUse"}) /\ Paired(evs, m, n)
               => m = n
          /\ Is(evs, m, {"PostToolUse"}) /\ Is(evs, n, {"PostToolUse"}) /\ Paired(evs, m, n)
               => m = n
      BY <1>2, <2>2 DEF LogTrue
    <3>2. more[m] = evs[m] /\ more[n] = evs[n]
      BY <1>2, <2>2
    <3>3. QED
      BY <3>1, <3>2 DEF Is, Turned, Paired
  <2>3. ASSUME NEW i \in 1..(N - 1)
        PROVE  /\ ~(Is(more, i, Ends) /\ Is(more, N, Ends) /\ more[i].turn = more[N].turn)
               /\ \A kind \in {"PreToolUse", "PostToolUse"} :
                    ~(/\ Is(more, i, {kind}) /\ Is(more, N, {kind})
                      /\ more[i].turn = more[N].turn /\ more[i].call = more[N].call)
    <3>1. ~(Is(evs, i, Ends) /\ e.kind \in Ends /\ evs[i].turn = e.turn)
      BY Kinds
    <3>2. \A kind \in {"PreToolUse", "PostToolUse"} :
            ~(/\ Is(evs, i, {kind}) /\ e.kind = kind
              /\ evs[i].turn = e.turn /\ evs[i].call = e.call)
      <4>1. Is(evs, i, {"PreToolUse"}) /\ evs[i].turn = T => evs[i].call \in 1..a
        BY <1>2 DEF LogTrue
      <4>2. QED
        BY <1>2, <4>1 DEF Is
    <3>3. more[i] = evs[i]
      BY <1>2
    <3>4. QED
      BY <1>2, <3>1, <3>2, <3>3 DEF Is
  <2>4. QED
    BY <1>2, <2>1, <2>2, <2>3 DEF Turned, Paired
<1>6. ASSUME open, NEW n \in 1..N, more[n].turn = T
      PROVE  /\ ~Is(more, n, Ends)
             /\ Is(more, n, {"PreToolUse"}) => more[n].call \in 1..(a + 1) /\ more[n].id = C[more[n].call]
             /\ Is(more, n, {"PostToolUse"}) => more[n].call \in 1..c
  <2>1. CASE n = N
    BY <1>2, <2>1, Kinds DEF Is
  <2>2. CASE n \in 1..(N - 1)
    <3>1. /\ ~Is(evs, n, Ends)
          /\ Is(evs, n, {"PreToolUse"}) => evs[n].call \in 1..a /\ evs[n].id = C[evs[n].call]
          /\ Is(evs, n, {"PostToolUse"}) => evs[n].call \in 1..c
      BY <1>2, <1>6, <2>2 DEF LogTrue
    <3>2. QED
      BY <1>2, <2>2, <3>1 DEF Is
  <2>3. QED
    BY <1>2, <2>1, <2>2
<1>7. ASSUME open, NEW j \in 1..(a + 1)
      PROVE  \E n \in 1..N : /\ Is(more, n, {"PreToolUse"}) /\ more[n].turn = T
                             /\ more[n].call = j /\ more[n].id = C[j]
  <2>1. CASE j = a + 1
    <3>1. N \in 1..N
      BY <1>2
    <3>2. QED
      BY <1>2, <2>1, <3>1 DEF Is
  <2>2. CASE j \in 1..a
    <3>1. PICK n \in 1..(N - 1) : /\ Is(evs, n, {"PreToolUse"}) /\ evs[n].turn = T
                                 /\ evs[n].call = j /\ evs[n].id = C[j]
      BY <1>2, <1>7, <2>2 DEF LogTrue
    <3>2. QED
      BY <1>2, <3>1 DEF Is
  <2>3. QED
    BY <2>1, <2>2
<1>8. QED
  BY <1>1, <1>2, <1>4, <1>5, <1>6, <1>7, ZenonT(60) DEF LogTrue

\* A call is collected that was not.
LEMMA LogCollects ==
  ASSUME NEW evs \in Seq(EventType), NEW e \in EventType, NEW T \in Nat, NEW open \in BOOLEAN,
         NEW C \in Seq(Ids), NEW a \in Nat, NEW c \in Nat, a <= Len(C), c <= a,
         LogTrue(evs, T, open, C, a, c),
         open, e.kind = "PostToolUse", e.turn = T, e.call = c + 1
  PROVE  LogTrue(Append(evs, e), T, open, C, a, c + 1)
<1>1. PICK more, N : more = Append(evs, e) /\ N = Len(evs) + 1
  OBVIOUS
<1>2. /\ N \in Nat /\ N >= 1 /\ DOMAIN evs = 1..(N - 1) /\ DOMAIN more = 1..N /\ more[N] = e
      /\ \A n \in 1..N : n = N \/ n \in 1..(N - 1)
      /\ \A n \in 1..(N - 1) : more[n] = evs[n] /\ n \in 1..N
      /\ \A n \in 1..(N - 1) : evs[n] \in EventType
  BY <1>1, LogMore
<1>3. \A n \in 1..(N - 1) : /\ evs[n].turn <= T /\ evs[n].turn \in Nat
                            /\ Is(evs, n, Ends \cup {"TurnStarted"}) => evs[n].call = 0
  BY <1>2 DEF LogTrue, EventType
<1>4. \A n \in 1..N : /\ more[n].turn <= T
                      /\ Is(more, n, Ends \cup {"TurnStarted"}) => more[n].call = 0
  BY <1>2, <1>3, Kinds DEF Is
<1>5. ASSUME NEW m \in 1..N, NEW n \in 1..N
      PROVE  /\ Is(more, m, Ends) /\ Is(more, n, Ends) /\ Turned(more, m, n) => m = n
             /\ Is(more, m, {"PreToolUse"}) /\ Is(more, n, {"PreToolUse"}) /\ Paired(more, m, n)
                  => m = n
             /\ Is(more, m, {"PostToolUse"}) /\ Is(more, n, {"PostToolUse"}) /\ Paired(more, m, n)
                  => m = n
  <2>1. CASE m = N /\ n = N
    BY <2>1
  <2>2. CASE m \in 1..(N - 1) /\ n \in 1..(N - 1)
    <3>1. /\ Is(evs, m, Ends) /\ Is(evs, n, Ends) /\ Turned(evs, m, n) => m = n
          /\ Is(evs, m, {"PreToolUse"}) /\ Is(evs, n, {"PreToolUse"}) /\ Paired(evs, m, n)
               => m = n
          /\ Is(evs, m, {"PostToolUse"}) /\ Is(evs, n, {"PostToolUse"}) /\ Paired(evs, m, n)
               => m = n
      BY <1>2, <2>2 DEF LogTrue
    <3>2. more[m] = evs[m] /\ more[n] = evs[n]
      BY <1>2, <2>2
    <3>3. QED
      BY <3>1, <3>2 DEF Is, Turned, Paired
  <2>3. ASSUME NEW i \in 1..(N - 1)
        PROVE  /\ ~(Is(more, i, Ends) /\ Is(more, N, Ends) /\ more[i].turn = more[N].turn)
               /\ \A kind \in {"PreToolUse", "PostToolUse"} :
                    ~(/\ Is(more, i, {kind}) /\ Is(more, N, {kind})
                      /\ more[i].turn = more[N].turn /\ more[i].call = more[N].call)
    <3>1. ~(Is(evs, i, Ends) /\ e.kind \in Ends /\ evs[i].turn = e.turn)
      BY Kinds
    <3>2. \A kind \in {"PreToolUse", "PostToolUse"} :
            ~(/\ Is(evs, i, {kind}) /\ e.kind = kind
              /\ evs[i].turn = e.turn /\ evs[i].call = e.call)
      BY <1>2, Kinds, SMTT(30) DEF LogTrue, Is
    <3>3. more[i] = evs[i]
      BY <1>2
    <3>4. QED
      BY <1>2, <3>1, <3>2, <3>3 DEF Is
  <2>4. QED
    BY <1>2, <2>1, <2>2, <2>3 DEF Turned, Paired
<1>6. ASSUME open, NEW n \in 1..N, more[n].turn = T
      PROVE  /\ ~Is(more, n, Ends)
             /\ Is(more, n, {"PreToolUse"}) => more[n].call \in 1..a /\ more[n].id = C[more[n].call]
             /\ Is(more, n, {"PostToolUse"}) => more[n].call \in 1..(c + 1)
  <2>1. CASE n = N
    BY <1>2, <2>1, Kinds DEF Is
  <2>2. CASE n \in 1..(N - 1)
    <3>1. /\ ~Is(evs, n, Ends)
          /\ Is(evs, n, {"PreToolUse"}) => evs[n].call \in 1..a /\ evs[n].id = C[evs[n].call]
          /\ Is(evs, n, {"PostToolUse"}) => evs[n].call \in 1..c
      BY <1>2, <1>6, <2>2 DEF LogTrue
    <3>2. QED
      BY <1>2, <2>2, <3>1 DEF Is
  <2>3. QED
    BY <1>2, <2>1, <2>2
<1>7. ASSUME open, NEW j \in 1..a
      PROVE  \E n \in 1..N : /\ Is(more, n, {"PreToolUse"}) /\ more[n].turn = T
                             /\ more[n].call = j /\ more[n].id = C[j]
  <2>1. PICK n \in 1..(N - 1) : /\ Is(evs, n, {"PreToolUse"}) /\ evs[n].turn = T
                               /\ evs[n].call = j /\ evs[n].id = C[j]
    BY <1>2, <1>7 DEF LogTrue
  <2>2. QED
    BY <1>2, <2>1 DEF Is
<1>8. QED
  BY <1>1, <1>2, <1>4, <1>5, <1>6, <1>7, ZenonT(60) DEF LogTrue

\* Before the first call it does not matter what the message is.
LEMMA LogNoCalls ==
  ASSUME NEW evs, NEW T, NEW open, NEW C, NEW D, LogTrue(evs, T, open, C, 0, 0)
  PROVE  LogTrue(evs, T, open, D, 0, 0)
  BY DEF LogTrue

-----------------------------------------------------------------------------
(* The calls in a projection.                                               *)

\* Nothing waits when all that is announced is collected.
LEMMA HangingNone == ASSUME NEW C, NEW a \in Nat PROVE Hanging(C, a, a) = {}
  BY DEF Hanging

\* A call that is announced waits, if it has an id.
LEMMA HangingMore ==
  ASSUME NEW C, NEW a \in Nat
  PROVE  Hanging(C, a + 1, 0) = Hanging(C, a, 0) \cup ({C[a + 1]} \ {NoId})
<1>1. \A j \in 1..(a + 1) : j = a + 1 \/ j \in 1..a
  OBVIOUS
<1>2. \A j \in 1..a : j \in 1..(a + 1)
  OBVIOUS
<1>3. a + 1 \in 1..(a + 1) /\ \A j \in 1..0 : FALSE
  OBVIOUS
<1>4. QED
  BY <1>1, <1>2, <1>3 DEF Hanging

\* A call that is collected does not wait any more.
LEMMA HangingLess ==
  ASSUME NEW C, NEW a \in Nat, NEW c \in Nat, c < a
  PROVE  /\ Hanging(C, a, c + 1) = Hanging(C, a, c) \ {C[c + 1]}
         /\ C[c + 1] \notin Hanging(C, a, c) => Hanging(C, a, c + 1) = Hanging(C, a, c)
<1>1. \A j \in 1..(c + 1) : j = c + 1 \/ j \in 1..c
  OBVIOUS
<1>2. \A j \in 1..c : j \in 1..(c + 1)
  OBVIOUS
<1>3. c + 1 \in 1..(c + 1) /\ c + 1 \in 1..a
  OBVIOUS
<1>4. Hanging(C, a, c + 1) = Hanging(C, a, c) \ {C[c + 1]}
  BY <1>1, <1>2, <1>3 DEF Hanging
<1>5. QED
  BY <1>4

\* Each call in ss, but that in span j, is the same in zz.
Kept(ss, zz, j) ==
  /\ DOMAIN ss \subseteq DOMAIN zz
  /\ \A i \in DOMAIN ss : ss[i].name = "tool" /\ i # j =>
       zz[i].name = "tool" /\ zz[i].start = ss[i].start /\ zz[i].end = ss[i].end

Timed(ss) == \A i \in DOMAIN ss : ss[i].start \in Nat /\ ss[i].end \in Nat

\* What an event more says of the calls before it.
LEMMA CallsBefore ==
  ASSUME NEW evs \in Seq(EventType), NEW e \in EventType, NEW n \in 1..Len(evs)
  PROVE  LET more == Append(evs, e) IN
         /\ Alone(more, n) => Alone(evs, n)
         /\ Alone(more, n) /\ e.kind = "PreToolUse" /\ e.turn = evs[n].turn => e.id # evs[n].id
         /\ \A m : Answers(evs, n, m) => Answers(more, n, m)
         /\ more[n] = evs[n]
<1>1. PICK more, N : more = Append(evs, e) /\ N = Len(evs) + 1
  OBVIOUS
<1>2. /\ N \in Nat /\ N >= 1 /\ DOMAIN evs = 1..(N - 1) /\ DOMAIN more = 1..N /\ more[N] = e
      /\ Len(evs) = N - 1 /\ Len(more) = N
      /\ \A m \in 1..(N - 1) : more[m] = evs[m] /\ m \in 1..N
  BY <1>1, LogMore
<1>3. n \in 1..(N - 1) /\ n \in Nat
  BY <1>2
<1>4. Alone(more, n) => Alone(evs, n)
  BY <1>2, <1>3 DEF Alone, Is, Turned
<1>5. Alone(more, n) /\ e.kind = "PreToolUse" /\ e.turn = evs[n].turn => e.id # evs[n].id
  <2>1. N \in 1..N /\ N # n
    BY <1>2, <1>3
  <2>2. QED
    BY <1>2, <1>3, <2>1 DEF Alone, Is, Turned
<1>6. ASSUME NEW m, Answers(evs, n, m) PROVE Answers(more, n, m)
  <2>1. m \in n + 1..(N - 1) /\ Is(evs, m, {"PostToolUse"}) /\ Paired(evs, m, n)
    BY <1>2, <1>6 DEF Answers
  <2>2. m \in 1..(N - 1) /\ m \in n + 1..N
    BY <1>2, <1>3, <2>1
  <2>3. QED
    BY <1>2, <1>3, <2>1, <2>2 DEF Answers, Is, Paired, Turned
<1>7. QED
  BY <1>1, <1>2, <1>3, <1>4, <1>5, <1>6

\* Before the first call it does not matter what the message is.
LEMMA CallsNoCalls ==
  ASSUME NEW ss, NEW to, NEW evs, NEW T, NEW open, NEW C, NEW D,
         CallsTrue(ss, to, evs, T, open, C, 0, 0)
  PROVE  CallsTrue(ss, to, evs, T, open, D, 0, 0)
<1>1. Hanging(C, 0, 0) = Hanging(D, 0, 0)
  BY HangingNone
<1>2. QED
  BY <1>1 DEF CallsTrue

\* An event that is no call.
LEMMA CallsAside ==
  ASSUME NEW evs \in Seq(EventType), NEW e \in EventType, NEW T \in Nat, NEW open \in BOOLEAN,
         NEW C \in Seq(Ids), NEW a \in Nat, NEW c \in Nat, NEW ss, NEW zz, NEW to,
         CallsTrue(ss, to, evs, T, open, C, a, c), Kept(ss, zz, 0), 0 \notin DOMAIN ss,
         e.kind # "PreToolUse"
  PROVE  CallsTrue(zz, to, Append(evs, e), T, open, C, a, c)
<1>1. PICK more, N : more = Append(evs, e) /\ N = Len(evs) + 1
  OBVIOUS
<1>2. /\ N \in Nat /\ N >= 1 /\ DOMAIN evs = 1..(N - 1) /\ DOMAIN more = 1..N /\ more[N] = e
      /\ Len(evs) = N - 1 /\ \A m \in 1..N : m = N \/ m \in 1..(N - 1)
  BY <1>1, LogMore
<1>3. \A id \in DOMAIN to :
        /\ to[id] \in DOMAIN zz /\ zz[to[id]].name = "tool"
        /\ zz[to[id]].start \in DOMAIN more /\ zz[to[id]].end <= zz[to[id]].start
        /\ more[zz[to[id]].start].id = id
  <2>1. TAKE id \in DOMAIN to
  <2>2. /\ to[id] \in DOMAIN ss /\ ss[to[id]].name = "tool" /\ ss[to[id]].start \in DOMAIN evs
        /\ ss[to[id]].end <= ss[to[id]].start /\ evs[ss[to[id]].start].id = id
    BY DEF CallsTrue
  <2>3. PICK i \in DOMAIN ss : i = to[id] /\ i # 0
    BY <2>2
  <2>4. i \in DOMAIN zz /\ zz[i].name = "tool" /\ zz[i].start = ss[i].start /\ zz[i].end = ss[i].end
    BY <2>2, <2>3 DEF Kept
  <2>5. ss[i].start \in DOMAIN more /\ more[ss[i].start] = evs[ss[i].start]
    BY <1>1, <2>2, <2>3, LogMore
  <2>6. QED
    BY <2>2, <2>3, <2>4, <2>5
<1>4. ASSUME NEW n \in DOMAIN more, Alone(more, n)
      PROVE  \E i \in DOMAIN zz :
               /\ zz[i].name = "tool" /\ zz[i].start = n
               /\ \/ /\ open /\ more[n].turn = T /\ more[n].call > c
                     /\ more[n].id \in DOMAIN to /\ to[more[n].id] = i
                  \/ Answers(more, n, zz[i].end)
  <2>1. n \in 1..(N - 1)
    BY <1>2, <1>4 DEF Alone, Is
  <2>2. /\ Alone(evs, n) /\ more[n] = evs[n]
        /\ \A m : Answers(evs, n, m) => Answers(more, n, m)
    BY <1>1, <1>2, <1>4, <2>1, CallsBefore
  <2>3. PICK i \in DOMAIN ss :
          /\ ss[i].name = "tool" /\ ss[i].start = n
          /\ \/ /\ open /\ evs[n].turn = T /\ evs[n].call > c
                /\ evs[n].id \in DOMAIN to /\ to[evs[n].id] = i
             \/ Answers(evs, n, ss[i].end)
    BY <1>2, <2>1, <2>2 DEF CallsTrue
  <2>4. i \in DOMAIN zz /\ zz[i].name = "tool" /\ zz[i].start = n /\ zz[i].end = ss[i].end
    BY <2>3 DEF Kept
  <2>5. QED
    BY <2>2, <2>3, <2>4
<1>5. DOMAIN to = Hanging(C, a, c)
  BY DEF CallsTrue
<1>6. QED
  BY <1>1, <1>3, <1>4, <1>5 DEF CallsTrue

\* A turn begins or ends: no call waits.
LEMMA CallsTurn ==
  ASSUME NEW evs \in Seq(EventType), NEW e \in EventType, NEW T \in Nat, NEW open \in BOOLEAN,
         NEW C \in Seq(Ids), NEW a \in Nat, NEW ss, NEW zz, NEW to,
         CallsTrue(ss, to, evs, T, open, C, a, a), Kept(ss, zz, 0), 0 \notin DOMAIN ss,
         e.kind # "PreToolUse", NEW U, NEW begun, NEW D
  PROVE  CallsTrue(zz, to, Append(evs, e), U, begun, D, 0, 0)
<1>1. CallsTrue(zz, to, Append(evs, e), T, open, C, a, a)
  BY CallsAside
<1>2. Hanging(C, a, a) = {} /\ Hanging(D, 0, 0) = {}
  BY HangingNone
<1>3. QED
  BY <1>1, <1>2 DEF CallsTrue

\* A call without an id is announced, or one is collected that does not wait.
LEMMA CallsUnseen ==
  ASSUME NEW evs \in Seq(EventType), NEW e \in EventType, NEW T \in Nat, NEW open \in BOOLEAN,
         NEW C \in Seq(Ids), NEW a \in Nat, NEW c \in Nat, NEW ss, NEW zz, NEW to,
         CallsTrue(ss, to, evs, T, open, C, a, c), Kept(ss, zz, 0), 0 \notin DOMAIN ss,
         LogTrue(evs, T, open, C, a, c), open, NEW b \in Nat, NEW d \in Nat,
         \/ e.kind = "PreToolUse" /\ e.id = NoId /\ c = 0 /\ d = 0 /\ b = a + 1
            /\ e.id = C[a + 1]
         \/ e.kind = "PostToolUse" /\ e.id \notin DOMAIN to /\ c < a /\ d = c + 1 /\ b = a
            /\ e.id = C[c + 1]
  PROVE  CallsTrue(zz, to, Append(evs, e), T, open, C, b, d)
<1>1. PICK more, N : more = Append(evs, e) /\ N = Len(evs) + 1
  OBVIOUS
<1>2. /\ N \in Nat /\ N >= 1 /\ DOMAIN evs = 1..(N - 1) /\ DOMAIN more = 1..N /\ more[N] = e
      /\ Len(evs) = N - 1 /\ \A m \in 1..N : m = N \/ m \in 1..(N - 1)
      /\ \A m \in 1..(N - 1) : evs[m] \in EventType
  BY <1>1, LogMore
<1>3. \A id \in DOMAIN to :
        /\ to[id] \in DOMAIN zz /\ zz[to[id]].name = "tool"
        /\ zz[to[id]].start \in DOMAIN more /\ zz[to[id]].end <= zz[to[id]].start
        /\ more[zz[to[id]].start].id = id
  <2>1. TAKE id \in DOMAIN to
  <2>2. /\ to[id] \in DOMAIN ss /\ ss[to[id]].name = "tool" /\ ss[to[id]].start \in DOMAIN evs
        /\ ss[to[id]].end <= ss[to[id]].start /\ evs[ss[to[id]].start].id = id
    BY DEF CallsTrue
  <2>3. PICK i \in DOMAIN ss : i = to[id] /\ i # 0
    BY <2>2
  <2>4. i \in DOMAIN zz /\ zz[i].name = "tool" /\ zz[i].start = ss[i].start /\ zz[i].end = ss[i].end
    BY <2>2, <2>3 DEF Kept
  <2>5. ss[i].start \in DOMAIN more /\ more[ss[i].start] = evs[ss[i].start]
    BY <1>1, <2>2, <2>3, LogMore
  <2>6. QED
    BY <2>2, <2>3, <2>4, <2>5
<1>4. DOMAIN to = Hanging(C, a, c) /\ Hanging(C, a, c) = Hanging(C, b, d)
  <2>1. DOMAIN to = Hanging(C, a, c)
    BY DEF CallsTrue
  <2>2. CASE e.kind = "PreToolUse"
    <3>1. c = 0 /\ d = 0 /\ b = a + 1 /\ C[a + 1] = NoId
      BY <2>2
    <3>2. Hanging(C, a + 1, 0) = Hanging(C, a, 0) \cup ({C[a + 1]} \ {NoId})
      BY HangingMore
    <3>3. {C[a + 1]} \ {NoId} = {}
      BY <3>1
    <3>4. Hanging(C, a + 1, 0) = Hanging(C, a, 0)
      BY <3>2, <3>3
    <3>5. QED
      BY <2>1, <3>1, <3>4
  <2>3. CASE e.kind # "PreToolUse"
    <3>1. c < a /\ d = c + 1 /\ b = a /\ C[c + 1] \notin Hanging(C, a, c)
      BY <2>1, <2>3
    <3>2. QED
      BY <2>1, <3>1, HangingLess
  <2>4. QED
    BY <2>2, <2>3
<1>5. ASSUME NEW n \in DOMAIN more, Alone(more, n)
      PROVE  \E i \in DOMAIN zz :
               /\ zz[i].name = "tool" /\ zz[i].start = n
               /\ \/ /\ open /\ more[n].turn = T /\ more[n].call > d
                     /\ more[n].id \in DOMAIN to /\ to[more[n].id] = i
                  \/ Answers(more, n, zz[i].end)
  <2>1. n \in 1..(N - 1)
    BY <1>2, <1>5 DEF Alone, Is
  <2>2. /\ Alone(evs, n) /\ more[n] = evs[n]
        /\ \A m : Answers(evs, n, m) => Answers(more, n, m)
    BY <1>1, <1>2, <1>5, <2>1, CallsBefore
  <2>3. PICK i \in DOMAIN ss :
          /\ ss[i].name = "tool" /\ ss[i].start = n
          /\ \/ /\ open /\ evs[n].turn = T /\ evs[n].call > c
                /\ evs[n].id \in DOMAIN to /\ to[evs[n].id] = i
             \/ Answers(evs, n, ss[i].end)
    BY <1>2, <2>1, <2>2 DEF CallsTrue
  <2>4. i \in DOMAIN zz /\ zz[i].name = "tool" /\ zz[i].start = n /\ zz[i].end = ss[i].end
    BY <2>3 DEF Kept
  <2>5. CASE Answers(evs, n, ss[i].end)
    BY <2>2, <2>4, <2>5
  <2>6. CASE /\ evs[n].turn = T /\ evs[n].call > c
             /\ evs[n].id \in DOMAIN to /\ to[evs[n].id] = i
    <3>1. evs[n].call \in 1..a /\ evs[n].id = C[evs[n].call]
      BY <1>2, <2>1, <2>2, <2>6 DEF LogTrue, Alone
    <3>2. evs[n].call > d
      BY <2>6, <3>1
    <3>3. QED
      BY <2>2, <2>4, <2>6, <3>2
  <2>7. QED
    BY <2>3, <2>5, <2>6
<1>6. QED
  BY <1>1, <1>3, <1>4, <1>5 DEF CallsTrue

\* A call with an id is announced: L is its span.
LEMMA CallsOpen ==
  ASSUME NEW evs \in Seq(EventType), NEW e \in EventType, NEW T \in Nat, NEW open \in BOOLEAN,
         NEW C \in Seq(Ids), NEW a \in Nat, NEW ss, NEW zz, NEW to, NEW tu,
         CallsTrue(ss, to, evs, T, open, C, a, 0), Kept(ss, zz, 0), 0 \notin DOMAIN ss,
         open, e.kind = "PreToolUse", e.id # NoId, e.id = C[a + 1], e.call = a + 1,
         e.turn = T, NEW L \in DOMAIN zz, zz[L].name = "tool", zz[L].start = Len(evs) + 1,
         zz[L].end <= zz[L].start,
         tu = WithTool(to, e.id, L)
  PROVE  CallsTrue(zz, tu, Append(evs, e), T, open, C, a + 1, 0)
<1>1. PICK more, N : more = Append(evs, e) /\ N = Len(evs) + 1
  OBVIOUS
<1>2. /\ N \in Nat /\ N >= 1 /\ DOMAIN evs = 1..(N - 1) /\ DOMAIN more = 1..N /\ more[N] = e
      /\ Len(evs) = N - 1 /\ \A m \in 1..N : m = N \/ m \in 1..(N - 1)
      /\ N \in 1..N
  BY <1>1, LogMore
<1>3. /\ DOMAIN tu = DOMAIN to \cup {e.id} /\ tu[e.id] = L
      /\ \A id \in DOMAIN to : id # e.id => tu[id] = to[id]
  BY DEF WithTool
<1>4. ASSUME NEW id \in DOMAIN tu
      PROVE  /\ tu[id] \in DOMAIN zz /\ zz[tu[id]].name = "tool"
             /\ zz[tu[id]].start \in DOMAIN more /\ zz[tu[id]].end <= zz[tu[id]].start
             /\ more[zz[tu[id]].start].id = id
  <2>1. CASE id = e.id
    BY <1>1, <1>2, <1>3, <2>1
  <2>2. CASE id # e.id
    <3>1. id \in DOMAIN to /\ tu[id] = to[id]
      BY <1>3, <1>4, <2>2
    <3>2. /\ to[id] \in DOMAIN ss /\ ss[to[id]].name = "tool" /\ ss[to[id]].start \in DOMAIN evs
          /\ ss[to[id]].end <= ss[to[id]].start /\ evs[ss[to[id]].start].id = id
      BY <3>1 DEF CallsTrue
    <3>3. PICK i \in DOMAIN ss : i = to[id] /\ i # 0
      BY <3>2
    <3>4. i \in DOMAIN zz /\ zz[i].name = "tool" /\ zz[i].start = ss[i].start /\ zz[i].end = ss[i].end
      BY <3>2, <3>3 DEF Kept
    <3>5. ss[i].start \in DOMAIN more /\ more[ss[i].start] = evs[ss[i].start]
      BY <1>1, <3>2, <3>3, LogMore
    <3>6. QED
      BY <3>1, <3>2, <3>3, <3>4, <3>5
  <2>3. QED
    BY <2>1, <2>2
<1>5. DOMAIN tu = Hanging(C, a + 1, 0)
  <2>1. DOMAIN to = Hanging(C, a, 0)
    BY DEF CallsTrue
  <2>2. Hanging(C, a + 1, 0) = Hanging(C, a, 0) \cup ({C[a + 1]} \ {NoId})
    BY HangingMore
  <2>3. {C[a + 1]} \ {NoId} = {e.id}
    OBVIOUS
  <2>4. QED
    BY <1>3, <2>1, <2>2, <2>3
<1>6. ASSUME NEW n \in DOMAIN more, Alone(more, n)
      PROVE  \E i \in DOMAIN zz :
               /\ zz[i].name = "tool" /\ zz[i].start = n
               /\ \/ /\ open /\ more[n].turn = T /\ more[n].call > 0
                     /\ more[n].id \in DOMAIN tu /\ tu[more[n].id] = i
                  \/ Answers(more, n, zz[i].end)
  <2>1. CASE n = N
    BY <1>1, <1>2, <1>3, <2>1
  <2>2. CASE n \in 1..(N - 1)
    <3>1. /\ Alone(evs, n) /\ more[n] = evs[n] /\ (e.turn = evs[n].turn => e.id # evs[n].id)
          /\ \A m : Answers(evs, n, m) => Answers(more, n, m)
      BY <1>1, <1>2, <1>6, <2>2, CallsBefore
    <3>2. PICK i \in DOMAIN ss :
            /\ ss[i].name = "tool" /\ ss[i].start = n
            /\ \/ /\ open /\ evs[n].turn = T /\ evs[n].call > 0
                  /\ evs[n].id \in DOMAIN to /\ to[evs[n].id] = i
               \/ Answers(evs, n, ss[i].end)
      BY <1>2, <2>2, <3>1 DEF CallsTrue
    <3>3. i \in DOMAIN zz /\ zz[i].name = "tool" /\ zz[i].start = n /\ zz[i].end = ss[i].end
      BY <3>2 DEF Kept
    <3>4. evs[n].turn = T /\ evs[n].id \in DOMAIN to =>
            evs[n].id \in DOMAIN tu /\ tu[evs[n].id] = to[evs[n].id]
      BY <1>3, <3>1
    <3>5. QED
      BY <3>1, <3>2, <3>3, <3>4
  <2>3. QED
    BY <1>2, <2>1, <2>2
<1>7. CallsTrue(zz, tu, more, T, open, C, a + 1, 0)
  BY <1>4, <1>5, <1>6, Zenon DEF CallsTrue
<1>8. QED
  BY <1>1, <1>7

\* A call that waits is collected: the result is that of its span.
LEMMA CallsClose ==
  ASSUME NEW evs \in Seq(EventType), NEW e \in EventType, NEW T \in Nat, NEW open \in BOOLEAN,
         NEW C \in Seq(Ids), NEW a \in Nat, NEW c \in Nat, NEW ss, NEW zz, NEW to, NEW tu,
         CallsTrue(ss, to, evs, T, open, C, a, c), LogTrue(evs, T, open, C, a, c), open,
         e.kind = "PostToolUse", e.id \in DOMAIN to, e.id = C[c + 1], e.call = c + 1,
         e.turn = T, c < a, Kept(ss, zz, to[e.id]), \A i \in DOMAIN ss : ss[i].end \in Nat,
         zz[to[e.id]].name = "tool", zz[to[e.id]].start = ss[to[e.id]].start,
         zz[to[e.id]].end = Len(evs) + 1,
         tu = Without(to, e.id)
  PROVE  CallsTrue(zz, tu, Append(evs, e), T, open, C, a, c + 1)
<1>1. PICK more, N : more = Append(evs, e) /\ N = Len(evs) + 1
  OBVIOUS
<1>2. /\ N \in Nat /\ N >= 1 /\ DOMAIN evs = 1..(N - 1) /\ DOMAIN more = 1..N /\ more[N] = e
      /\ Len(evs) = N - 1 /\ \A m \in 1..N : m = N \/ m \in 1..(N - 1)
      /\ N \in 1..N /\ Len(more) = N
      /\ \A m \in 1..(N - 1) : evs[m] \in EventType
  BY <1>1, LogMore
<1>3. /\ DOMAIN tu = DOMAIN to \ {e.id} /\ \A id \in DOMAIN tu : tu[id] = to[id]
  BY DEF Without
<1>4. \A id \in DOMAIN to :
        /\ to[id] \in DOMAIN ss /\ ss[to[id]].name = "tool" /\ ss[to[id]].start \in DOMAIN evs
        /\ ss[to[id]].end <= ss[to[id]].start /\ evs[ss[to[id]].start].id = id
  BY DEF CallsTrue
<1>5. PICK w \in DOMAIN ss : w = to[e.id]
  BY <1>4
<1>6. /\ ss[w].name = "tool" /\ ss[w].start \in 1..(N - 1) /\ ss[w].end <= ss[w].start
      /\ evs[ss[w].start].id = e.id /\ zz[w].name = "tool" /\ zz[w].start = ss[w].start
      /\ zz[w].end = N /\ w \in DOMAIN zz /\ Kept(ss, zz, w)
  BY <1>1, <1>2, <1>4, <1>5 DEF Kept
<1>7. ASSUME NEW id \in DOMAIN tu
      PROVE  /\ tu[id] \in DOMAIN zz /\ zz[tu[id]].name = "tool"
             /\ zz[tu[id]].start \in DOMAIN more /\ zz[tu[id]].end <= zz[tu[id]].start
             /\ more[zz[tu[id]].start].id = id
  <2>1. id \in DOMAIN to /\ id # e.id /\ tu[id] = to[id]
    BY <1>3, <1>7
  <2>2. PICK i \in DOMAIN ss : i = to[id]
    BY <1>4, <2>1
  <2>3. /\ ss[i].name = "tool" /\ ss[i].start \in DOMAIN evs
        /\ ss[i].end <= ss[i].start /\ evs[ss[i].start].id = id
    BY <1>4, <2>1, <2>2
  <2>4. i # w
    BY <1>6, <2>1, <2>3
  <2>5. i \in DOMAIN zz /\ zz[i].name = "tool" /\ zz[i].start = ss[i].start /\ zz[i].end = ss[i].end
    BY <1>6, <2>3, <2>4 DEF Kept
  <2>6. ss[i].start \in DOMAIN more /\ more[ss[i].start] = evs[ss[i].start]
    BY <1>1, <2>3, LogMore
  <2>7. QED
    BY <2>1, <2>2, <2>3, <2>5, <2>6
<1>8. DOMAIN tu = Hanging(C, a, c + 1)
  <2>1. DOMAIN to = Hanging(C, a, c)
    BY DEF CallsTrue
  <2>2. Hanging(C, a, c + 1) = Hanging(C, a, c) \ {C[c + 1]}
    BY HangingLess
  <2>3. QED
    BY <1>3, <2>1, <2>2
<1>9. ASSUME NEW n \in DOMAIN more, Alone(more, n)
      PROVE  \E i \in DOMAIN zz :
               /\ zz[i].name = "tool" /\ zz[i].start = n
               /\ \/ /\ open /\ more[n].turn = T /\ more[n].call > c + 1
                     /\ more[n].id \in DOMAIN tu /\ tu[more[n].id] = i
                  \/ Answers(more, n, zz[i].end)
  <2>1. n \in 1..(N - 1)
    BY <1>2, <1>9 DEF Alone, Is
  <2>2. /\ Alone(evs, n) /\ more[n] = evs[n]
        /\ \A m : Answers(evs, n, m) => Answers(more, n, m)
    BY <1>1, <1>2, <1>9, <2>1, CallsBefore
  <2>3. PICK i \in DOMAIN ss :
          /\ ss[i].name = "tool" /\ ss[i].start = n
          /\ \/ /\ open /\ evs[n].turn = T /\ evs[n].call > c
                /\ evs[n].id \in DOMAIN to /\ to[evs[n].id] = i
             \/ Answers(evs, n, ss[i].end)
    BY <1>2, <2>1, <2>2 DEF CallsTrue
  <2>4. CASE Answers(evs, n, ss[i].end)
    <3>1. ss[i].end > ss[i].start
      BY <2>1, <2>3, <2>4 DEF Answers
    <3>2. i # w
      BY <1>2, <1>6, <2>1, <2>3, <3>1
    <3>3. i \in DOMAIN zz /\ zz[i].name = "tool" /\ zz[i].start = n /\ zz[i].end = ss[i].end
      BY <1>6, <2>3, <3>2 DEF Kept
    <3>4. QED
      BY <2>2, <2>4, <3>3
  <2>5. CASE /\ evs[n].turn = T /\ evs[n].call > c
             /\ evs[n].id \in DOMAIN to /\ to[evs[n].id] = i
    <3>1. evs[n].call \in 1..a /\ evs[n].id = C[evs[n].call]
      BY <1>2, <2>1, <2>2, <2>5 DEF LogTrue, Alone
    <3>2. CASE evs[n].id = e.id
      <4>1. i = w
        BY <1>5, <2>5, <3>2
      <4>2. evs[n].call = c + 1
        <5>1. PICK m \in DOMAIN evs : /\ Is(evs, m, {"PreToolUse"}) /\ evs[m].turn = T
                                      /\ evs[m].call = c + 1 /\ evs[m].id = C[c + 1]
          <6>1. c + 1 \in 1..a
            OBVIOUS
          <6>2. QED
            BY <6>1 DEF LogTrue
        <5>2. m = n
          BY <2>2, <2>5, <3>2, <5>1 DEF Alone, Turned
        <5>3. QED
          BY <5>1, <5>2
      <4>3. Answers(more, n, N)
        <5>1. N \in n + 1..N
          BY <1>2, <2>1
        <5>2. QED
          BY <1>2, <2>2, <2>5, <4>2, <5>1 DEF Answers, Is, Paired, Turned
      <4>4. QED
        BY <1>6, <2>3, <4>1, <4>3
    <3>3. CASE evs[n].id # e.id
      <4>1. evs[n].call > c + 1
        BY <2>5, <3>1, <3>3
      <4>2. evs[n].id \in DOMAIN tu /\ tu[evs[n].id] = i
        BY <1>3, <2>5, <3>3
      <4>3. i # w
        <5>1. evs[ss[i].start].id = evs[n].id
          BY <2>3
        <5>2. QED
          BY <1>6, <3>3, <5>1
      <4>4. i \in DOMAIN zz /\ zz[i].name = "tool" /\ zz[i].start = n /\ zz[i].end = ss[i].end
        BY <1>6, <2>3, <4>3 DEF Kept
      <4>5. QED
        BY <2>2, <2>5, <4>1, <4>2, <4>4
    <3>4. QED
      BY <3>2, <3>3
  <2>6. QED
    BY <2>3, <2>4, <2>5
<1>10. CallsTrue(zz, tu, more, T, open, C, a, c + 1)
  BY <1>7, <1>8, <1>9, Zenon DEF CallsTrue
<1>11. QED
  BY <1>1, <1>10

-----------------------------------------------------------------------------
(* The turns and the calls of the tree.                                     *)

\* The spans of a tree.
LEMMA SpansOf ==
  ASSUME NEW t, TreeShape(t)
  PROVE  /\ Len(t.spans) \in Nat /\ Len(t.spans) >= 1 /\ DOMAIN t.spans = 1..Len(t.spans)
         /\ t.turn \in DOMAIN t.spans /\ 0 \notin DOMAIN t.spans /\ t.spans[1].name = "kernel.run"
         /\ \A id \in DOMAIN t.tools : t.tools[id] \in DOMAIN t.spans
         /\ \A i \in DOMAIN t.spans :
              /\ t.spans[i].parent \in Nat /\ t.spans[i].start \in Nat /\ t.spans[i].end \in Nat
              /\ t.spans[i].cost \in Nat
<1>1. /\ Len(t.spans) \in Nat /\ DOMAIN t.spans = 1..Len(t.spans) /\ t.turn \in 1..Len(t.spans)
      /\ \A i \in DOMAIN t.spans : t.spans[i] \in SpanType
  BY DEF TreeShape
<1>2. Len(t.spans) >= 1 /\ 0 \notin DOMAIN t.spans /\ t.turn \in DOMAIN t.spans
  BY <1>1
<1>3. \A i \in DOMAIN t.spans :
              /\ t.spans[i].parent \in Nat /\ t.spans[i].start \in Nat /\ t.spans[i].end \in Nat
              /\ t.spans[i].cost \in Nat
  BY <1>1 DEF SpanType
<1>4. \A id \in DOMAIN t.tools : t.tools[id] \in DOMAIN t.spans
  BY <1>1 DEF TreeShape
<1>5. QED
  BY <1>1, <1>2, <1>3, <1>4 DEF TreeShape

\* The same spans, but for the events in them.
Still(t, u) ==
  /\ Len(u.spans) = Len(t.spans) /\ u.turn = t.turn /\ u.tools = t.tools
  /\ \A i \in 1..Len(t.spans) :
       /\ u.spans[i].name = t.spans[i].name /\ u.spans[i].parent = t.spans[i].parent
       /\ u.spans[i].start = t.spans[i].start /\ u.spans[i].end = t.spans[i].end
       /\ u.spans[i].cost = t.spans[i].cost

\* Attaching an event is no more than that.
LEMMA AttachStill ==
  ASSUME NEW t, TreeShape(t), NEW i \in 1..Len(t.spans), NEW n \in Nat
  PROVE  TreeShape(Attach(t, i, n)) /\ Still(t, Attach(t, i, n))
<1>1. PICK u : u = Attach(t, i, n)
  OBVIOUS
<1>2. /\ TreeShape(u) /\ More(t, u, i, n) /\ u.turn = t.turn /\ u.tools = t.tools
      /\ u.spans[i].end = t.spans[i].end /\ u.spans[i].cost = t.spans[i].cost
  BY <1>1, AttachIs
<1>3. ASSUME NEW g \in 1..Len(t.spans)
      PROVE  /\ u.spans[g].name = t.spans[g].name /\ u.spans[g].parent = t.spans[g].parent
             /\ u.spans[g].start = t.spans[g].start /\ u.spans[g].end = t.spans[g].end
             /\ u.spans[g].cost = t.spans[g].cost
  BY <1>2 DEF More
<1>4. QED
  BY <1>1, <1>2, <1>3 DEF Still, More

\* What an event more says of the events in the tree.
LEMMA EventsKept ==
  ASSUME NEW evs \in Seq(EventType), NEW e \in EventType, NEW n \in DOMAIN evs
  PROVE  LET more == Append(evs, e) IN
         /\ n \in DOMAIN more /\ more[n] = evs[n] /\ n \in Nat /\ n >= 1 /\ n <= Len(evs)
         /\ Len(more) = Len(evs) + 1 /\ Len(evs) \in Nat
         /\ \A kinds : Is(more, n, kinds) <=> Is(evs, n, kinds)
         /\ \A m \in DOMAIN evs : /\ Paired(more, m, n) <=> Paired(evs, m, n)
                                  /\ Turned(more, m, n) <=> Turned(evs, m, n)
         /\ \A m : m \in n + 1..Len(evs) => m \in n + 1..Len(more) /\ m \in DOMAIN evs
  BY DEF Is, Paired, Turned

\* A turn's span that is closed.
Closed(t, evs, i) ==
  LET s == t.spans[i] IN
  /\ s.end \in s.start + 1..Len(evs) /\ Is(evs, s.end, Ends)
  /\ Paired(evs, s.end, s.start) /\ s.cost = evs[s.end].cost

\* It stays closed.
LEMMA StaysClosed ==
  ASSUME NEW evs \in Seq(EventType), NEW e \in EventType, NEW t, NEW u, NEW i,
         t.spans[i].start \in DOMAIN evs, Closed(t, evs, i),
         u.spans[i].start = t.spans[i].start, u.spans[i].end = t.spans[i].end,
         u.spans[i].cost = t.spans[i].cost
  PROVE  Closed(u, Append(evs, e), i)
<1>1. PICK s, x, more : s = t.spans[i].start /\ x = t.spans[i].end /\ more = Append(evs, e)
  OBVIOUS
<1>2. /\ x \in s + 1..Len(evs) /\ Is(evs, x, Ends) /\ Paired(evs, x, s)
      /\ t.spans[i].cost = evs[x].cost
  BY <1>1 DEF Closed
<1>3. x \in DOMAIN evs /\ s \in DOMAIN evs /\ x \in s + 1..Len(more)
  BY <1>1, <1>2, EventsKept
<1>4. more[x] = evs[x] /\ Is(more, x, Ends) /\ Paired(more, x, s)
  BY <1>1, <1>2, <1>3, EventsKept
<1>5. QED
  BY <1>1, <1>2, <1>3, <1>4 DEF Closed

\* Events in spans that were there change nothing of what the tree tells.
LEMMA StillTrue ==
  ASSUME NEW t, TreeShape(t), NEW u, TreeShape(u), NEW evs \in Seq(EventType),
         NEW e \in EventType, NEW T, NEW open \in BOOLEAN, Still(t, u),
         TurnsTrue(t, evs, T, open), ToolsTrue(t, evs)
  PROVE  TurnsTrue(u, Append(evs, e), T, open) /\ ToolsTrue(u, Append(evs, e))
<1>1. PICK more, L : more = Append(evs, e) /\ L = Len(t.spans)
  OBVIOUS
<1>2. /\ DOMAIN t.spans = 1..L /\ DOMAIN u.spans = 1..L /\ t.turn \in 1..L /\ u.turn = t.turn
      /\ u.tools = t.tools /\ \A id \in DOMAIN t.tools : t.tools[id] \in 1..L
  BY <1>1, SpansOf DEF Still
<1>3. \A i \in 1..L : /\ u.spans[i].name = t.spans[i].name /\ u.spans[i].parent = t.spans[i].parent
                      /\ u.spans[i].start = t.spans[i].start /\ u.spans[i].end = t.spans[i].end
                      /\ u.spans[i].cost = t.spans[i].cost
  BY <1>1 DEF Still
<1>4. \A i : IsTurn(u, i) <=> IsTurn(t, i)
  BY <1>2, <1>3 DEF IsTurn
<1>5. ASSUME NEW i \in 1..L, IsTurn(t, i)
      PROVE  /\ u.spans[i].start \in DOMAIN more /\ Is(more, u.spans[i].start, {"TurnStarted"})
             /\ u.spans[i].parent = 1 /\ (i # u.turn => Closed(u, more, i))
             /\ more[u.spans[i].start] = evs[t.spans[i].start]
  <2>1. /\ t.spans[i].start \in DOMAIN evs /\ Is(evs, t.spans[i].start, {"TurnStarted"})
        /\ t.spans[i].parent = 1 /\ (i # t.turn => Closed(t, evs, i))
    BY <1>2, <1>5 DEF TurnsTrue, Closed
  <2>2. /\ t.spans[i].start \in DOMAIN more /\ Is(more, t.spans[i].start, {"TurnStarted"})
        /\ more[t.spans[i].start] = evs[t.spans[i].start]
    BY <1>1, <2>1, EventsKept
  <2>3. i # t.turn => Closed(u, more, i)
    BY <1>1, <1>3, <2>1, StaysClosed
  <2>4. QED
    BY <1>2, <1>3, <2>1, <2>2, <2>3
<1>6. TurnsTrue(u, more, T, open)
  <2>1. u.turn # 1 <=> open
    BY <1>2 DEF TurnsTrue
  <2>2. open => /\ IsTurn(u, u.turn) /\ u.spans[u.turn].end = 0 /\ u.spans[u.turn].cost = 0
                /\ more[u.spans[u.turn].start].turn = T
    BY <1>2, <1>3, <1>4, <1>5 DEF TurnsTrue
  <2>3. QED
    BY <1>2, <1>4, <1>5, <2>1, <2>2 DEF TurnsTrue, Closed
<1>7. ASSUME NEW i \in 1..L, u.spans[i].name = "tool"
      PROVE  LET s == u.spans[i]  parent == u.spans[s.parent] IN
             /\ IsTurn(u, s.parent) /\ s.start \in DOMAIN more /\ s.end \in 0..Len(more)
             /\ Turned(more, parent.start, s.start)
             /\ parent.end # 0 => s.end <= parent.end
  <2>1. PICK p : p = t.spans[i].parent
    OBVIOUS
  <2>2. /\ IsTurn(t, p) /\ t.spans[i].start \in DOMAIN evs /\ t.spans[i].end \in 0..Len(evs)
        /\ Turned(evs, t.spans[p].start, t.spans[i].start)
        /\ t.spans[p].end # 0 => t.spans[i].end <= t.spans[p].end
    BY <1>2, <1>3, <1>7, <2>1 DEF ToolsTrue
  <2>3. p \in 1..L /\ t.spans[p].start \in DOMAIN evs
    BY <1>2, <2>2 DEF TurnsTrue, IsTurn
  <2>4. /\ t.spans[i].start \in DOMAIN more /\ t.spans[i].end \in 0..Len(more)
        /\ Turned(more, t.spans[p].start, t.spans[i].start)
    BY <1>1, <2>2, <2>3, EventsKept
  <2>5. QED
    BY <1>3, <1>4, <2>1, <2>2, <2>3, <2>4
<1>8. ToolsTrue(u, more)
  <2>1. ASSUME NEW id \in DOMAIN u.tools
        PROVE  LET s == u.spans[u.tools[id]] IN s.name = "tool" /\ s.end = 0 /\ s.parent = u.turn
    BY <1>2, <1>3, <2>1 DEF ToolsTrue
  <2>2. QED
    BY <1>2, <1>7, <2>1 DEF ToolsTrue
<1>9. QED
  BY <1>1, <1>6, <1>8

\* A turn ends.
LEMMA TurnCloses ==
  ASSUME NEW t, TreeShape(t), NEW u, TreeShape(u), NEW evs \in Seq(EventType),
         NEW e \in EventType, NEW T, TurnsTrue(t, evs, T, TRUE), ToolsTrue(t, evs),
         More(t, u, t.turn, Len(evs) + 1), u.turn = 1, u.tools = t.tools,
         u.spans[t.turn].end = Len(evs) + 1, u.spans[t.turn].cost = e.cost,
         DOMAIN t.tools = {}, e.kind \in Ends, e.turn = T, e.call = 0,
         \A n \in DOMAIN evs : Is(evs, n, {"TurnStarted"}) => evs[n].call = 0
  PROVE  TurnsTrue(u, Append(evs, e), T, FALSE) /\ ToolsTrue(u, Append(evs, e))
<1>1. PICK more, L, N, o : more = Append(evs, e) /\ L = Len(t.spans) /\ N = Len(evs) + 1 /\ o = t.turn
  OBVIOUS
<1>2. /\ DOMAIN t.spans = 1..L /\ DOMAIN u.spans = 1..L /\ o \in 1..L
      /\ u.turn = 1 /\ DOMAIN u.tools = {}
      /\ \A i \in 1..L : t.spans[i].end \in Nat /\ t.spans[i].start \in Nat
  BY <1>1, SpansOf DEF More
<1>3. /\ \A i \in 1..L : i # o => u.spans[i] = t.spans[i]
      /\ \A i \in 1..L : /\ u.spans[i].name = t.spans[i].name
                         /\ u.spans[i].parent = t.spans[i].parent
                         /\ u.spans[i].start = t.spans[i].start
      /\ u.spans[o].end = N /\ u.spans[o].cost = e.cost
  BY <1>1 DEF More
<1>4. \A i : IsTurn(u, i) <=> IsTurn(t, i)
  BY <1>2, <1>3 DEF IsTurn
<1>5. IsTurn(t, o) /\ t.spans[o].end = 0 /\ evs[t.spans[o].start].turn = T
  BY <1>1 DEF TurnsTrue
<1>6. N \in Nat /\ N >= 1 /\ Len(more) = N /\ Len(evs) = N - 1 /\ more[N] = e /\ DOMAIN evs = 1..(N - 1)
  BY <1>1, LogMore
<1>7. ASSUME NEW i \in 1..L, IsTurn(t, i)
      PROVE  /\ u.spans[i].start \in DOMAIN more /\ Is(more, u.spans[i].start, {"TurnStarted"})
             /\ u.spans[i].parent = 1 /\ Closed(u, more, i)
  <2>1. /\ t.spans[i].start \in DOMAIN evs /\ Is(evs, t.spans[i].start, {"TurnStarted"})
        /\ t.spans[i].parent = 1 /\ (i # o => Closed(t, evs, i))
    BY <1>1, <1>2, <1>7 DEF TurnsTrue, Closed
  <2>2. /\ t.spans[i].start \in DOMAIN more /\ Is(more, t.spans[i].start, {"TurnStarted"})
        /\ more[t.spans[i].start] = evs[t.spans[i].start]
    BY <1>1, <2>1, EventsKept
  <2>3. CASE i # o
    <3>1. Closed(u, more, i)
      BY <1>1, <1>3, <2>1, <2>3, StaysClosed
    <3>2. QED
      BY <1>3, <2>1, <2>2, <3>1
  <2>4. CASE i = o
    <3>1. PICK s : s = t.spans[o].start
      OBVIOUS
    <3>2. s \in 1..(N - 1) /\ more[s].turn = T /\ more[s].call = 0
      BY <1>5, <1>6, <2>1, <2>2, <2>4, <3>1
    <3>3. N \in s + 1..Len(more)
      BY <1>6, <3>2
    <3>4. Is(more, N, Ends) /\ Paired(more, N, s)
      BY <1>6, <3>2 DEF Is, Paired, Turned
    <3>5. Closed(u, more, i)
      BY <1>3, <1>6, <2>4, <3>1, <3>3, <3>4 DEF Closed
    <3>6. QED
      BY <1>3, <2>1, <2>2, <3>5
  <2>5. QED
    BY <2>3, <2>4
<1>8. TurnsTrue(u, more, T, FALSE)
  BY <1>2, <1>4, <1>7 DEF TurnsTrue, Closed
<1>9. ASSUME NEW i \in 1..L, u.spans[i].name = "tool"
      PROVE  LET s == u.spans[i]  parent == u.spans[s.parent] IN
             /\ IsTurn(u, s.parent) /\ s.start \in DOMAIN more /\ s.end \in 0..Len(more)
             /\ Turned(more, parent.start, s.start)
             /\ parent.end # 0 => s.end <= parent.end
  <2>1. PICK p : p = t.spans[i].parent
    OBVIOUS
  <2>2. /\ IsTurn(t, p) /\ t.spans[i].start \in DOMAIN evs /\ t.spans[i].end \in 0..Len(evs)
        /\ Turned(evs, t.spans[p].start, t.spans[i].start)
        /\ t.spans[p].end # 0 => t.spans[i].end <= t.spans[p].end
    BY <1>2, <1>3, <1>9, <2>1 DEF ToolsTrue
  <2>3. p \in 1..L /\ t.spans[p].start \in DOMAIN evs
    BY <1>2, <2>2 DEF TurnsTrue, IsTurn
  <2>4. /\ t.spans[i].start \in DOMAIN more /\ t.spans[i].end \in 0..Len(more)
        /\ Turned(more, t.spans[p].start, t.spans[i].start)
    BY <1>1, <2>2, <2>3, EventsKept
  <2>5. i # o /\ u.spans[i] = t.spans[i]
    BY <1>3, <1>5, <1>9 DEF IsTurn
  <2>6. u.spans[p].end # 0 => t.spans[i].end <= u.spans[p].end
    <3>1. CASE p = o
      BY <1>3, <1>6, <2>2, <3>1
    <3>2. CASE p # o
      BY <1>3, <2>2, <2>3, <3>2
    <3>3. QED
      BY <3>1, <3>2
  <2>7. QED
    BY <1>3, <1>4, <2>1, <2>2, <2>3, <2>4, <2>5, <2>6
<1>10. ToolsTrue(u, more)
  BY <1>2, <1>9 DEF ToolsTrue
<1>11. QED
  BY <1>1, <1>8, <1>10

\* u has the span s after those of t, and the log the event of more after those of evs:
\* what t told of turns and calls u still tells.
Tells(t, u, evs, more, s) ==
  LET L == Len(t.spans) IN
  /\ \A i \in 1..L : /\ u.spans[i] = t.spans[i] /\ (IsTurn(u, i) <=> IsTurn(t, i))
                     /\ IsTurn(t, i) =>
                          /\ u.spans[i].start \in DOMAIN more
                          /\ Is(more, u.spans[i].start, {"TurnStarted"})
                          /\ u.spans[i].parent = 1 /\ (i # t.turn => Closed(u, more, i))
                          /\ more[u.spans[i].start] = evs[t.spans[i].start]
  /\ \A i \in 1..L : u.spans[i].name = "tool" =>
       LET parent == u.spans[u.spans[i].parent] IN
       /\ IsTurn(u, u.spans[i].parent) /\ u.spans[i].start \in DOMAIN more
       /\ u.spans[i].end \in 0..Len(more)
       /\ Turned(more, parent.start, u.spans[i].start)
       /\ parent.end # 0 => u.spans[i].end <= parent.end
  /\ DOMAIN u.spans = 1..(L + 1) /\ u.spans[L + 1] = s /\ L \in Nat /\ L >= 1
  /\ \A i \in 1..(L + 1) : i = L + 1 \/ i \in 1..L

\* A span more, of a turn or of a call: what the tree told it still tells.
LEMMA BornKeeps ==
  ASSUME NEW t, TreeShape(t), NEW u, TreeShape(u), NEW evs \in Seq(EventType),
         NEW e \in EventType, NEW T, NEW open \in BOOLEAN, NEW s, Born(t, u, s),
         TurnsTrue(t, evs, T, open), ToolsTrue(t, evs)
  PROVE  Tells(t, u, evs, Append(evs, e), s)
<1>1. PICK more, L : more = Append(evs, e) /\ L = Len(t.spans)
  OBVIOUS
<1>2. /\ DOMAIN t.spans = 1..L /\ DOMAIN u.spans = 1..(L + 1) /\ t.turn \in 1..L /\ L \in Nat
      /\ L >= 1 /\ \A i \in 1..(L + 1) : i = L + 1 \/ i \in 1..L
      /\ \A i \in 1..L : i \in 1..(L + 1)
  BY <1>1, SpansOf DEF Born
<1>3. u.spans[L + 1] = s /\ \A i \in 1..L : u.spans[i] = t.spans[i]
  BY <1>1 DEF Born
<1>4. \A i \in 1..L : IsTurn(u, i) <=> IsTurn(t, i)
  BY <1>2, <1>3 DEF IsTurn
<1>5. ASSUME NEW i \in 1..L, IsTurn(t, i)
      PROVE  /\ u.spans[i].start \in DOMAIN more
             /\ Is(more, u.spans[i].start, {"TurnStarted"})
             /\ u.spans[i].parent = 1 /\ (i # t.turn => Closed(u, more, i))
             /\ more[u.spans[i].start] = evs[t.spans[i].start]
  <2>1. /\ t.spans[i].start \in DOMAIN evs /\ Is(evs, t.spans[i].start, {"TurnStarted"})
        /\ t.spans[i].parent = 1 /\ (i # t.turn => Closed(t, evs, i))
    BY <1>2, <1>5 DEF TurnsTrue, Closed
  <2>2. /\ t.spans[i].start \in DOMAIN more /\ Is(more, t.spans[i].start, {"TurnStarted"})
        /\ more[t.spans[i].start] = evs[t.spans[i].start]
    BY <1>1, <2>1, EventsKept
  <2>3. i # t.turn => Closed(u, more, i)
    BY <1>1, <1>3, <2>1, StaysClosed
  <2>4. QED
    BY <1>3, <2>1, <2>2, <2>3
<1>6. ASSUME NEW i \in 1..L, u.spans[i].name = "tool"
      PROVE  LET parent == u.spans[u.spans[i].parent] IN
             /\ IsTurn(u, u.spans[i].parent) /\ u.spans[i].start \in DOMAIN more
             /\ u.spans[i].end \in 0..Len(more)
             /\ Turned(more, parent.start, u.spans[i].start)
             /\ parent.end # 0 => u.spans[i].end <= parent.end
  <2>1. PICK p : p = t.spans[i].parent
    OBVIOUS
  <2>2. /\ IsTurn(t, p) /\ t.spans[i].start \in DOMAIN evs /\ t.spans[i].end \in 0..Len(evs)
        /\ Turned(evs, t.spans[p].start, t.spans[i].start)
        /\ t.spans[p].end # 0 => t.spans[i].end <= t.spans[p].end
    BY <1>2, <1>3, <1>6, <2>1 DEF ToolsTrue
  <2>3. p \in 1..L /\ t.spans[p].start \in DOMAIN evs
    BY <1>2, <2>2 DEF TurnsTrue, IsTurn
  <2>4. /\ t.spans[i].start \in DOMAIN more /\ t.spans[i].end \in 0..Len(more)
        /\ Turned(more, t.spans[p].start, t.spans[i].start)
    BY <1>1, <2>2, <2>3, EventsKept
  <2>5. QED
    BY <1>3, <1>4, <2>1, <2>2, <2>3, <2>4
<1>7. QED
  BY <1>1, <1>2, <1>3, <1>4, <1>5, <1>6 DEF Tells

\* A turn begins.
LEMMA TurnOpens ==
  ASSUME NEW t, TreeShape(t), NEW u, TreeShape(u), NEW evs \in Seq(EventType),
         NEW e \in EventType, NEW T, TurnsTrue(t, evs, T, FALSE), ToolsTrue(t, evs),
         Born(t, u, NewSpan("llm.step", 1, Len(evs) + 1, <<Len(evs) + 1>>)),
         u.turn = Len(t.spans) + 1, u.tools = t.tools, DOMAIN t.tools = {},
         e.kind = "TurnStarted", NEW U, e.turn = U
  PROVE  TurnsTrue(u, Append(evs, e), U, TRUE) /\ ToolsTrue(u, Append(evs, e))
<1>1. PICK more, L, N, s : /\ more = Append(evs, e) /\ L = Len(t.spans) /\ N = Len(evs) + 1
                           /\ s = NewSpan("llm.step", 1, N, <<N>>)
  OBVIOUS
<1>2. /\ \A i \in 1..L : /\ u.spans[i] = t.spans[i] /\ (IsTurn(u, i) <=> IsTurn(t, i))
                         /\ IsTurn(t, i) =>
                              /\ u.spans[i].start \in DOMAIN more
                              /\ Is(more, u.spans[i].start, {"TurnStarted"})
                              /\ u.spans[i].parent = 1 /\ (i # t.turn => Closed(u, more, i))
                              /\ more[u.spans[i].start] = evs[t.spans[i].start]
      /\ \A i \in 1..L : u.spans[i].name = "tool" =>
           LET parent == u.spans[u.spans[i].parent] IN
           /\ IsTurn(u, u.spans[i].parent) /\ u.spans[i].start \in DOMAIN more
           /\ u.spans[i].end \in 0..Len(more)
           /\ Turned(more, parent.start, u.spans[i].start)
           /\ parent.end # 0 => u.spans[i].end <= parent.end
      /\ DOMAIN u.spans = 1..(L + 1) /\ u.spans[L + 1] = s /\ L \in Nat /\ L >= 1
      /\ \A i \in 1..(L + 1) : i = L + 1 \/ i \in 1..L
  <2>1. Born(t, u, s)
    BY <1>1
  <2>2. Tells(t, u, evs, Append(evs, e), s)
    BY <2>1, BornKeeps
  <2>3. Tells(t, u, evs, more, s)
    BY <1>1, <2>2
  <2>4. QED
    BY <1>1, <2>3 DEF Tells
<1>3. /\ s.name = "llm.step" /\ s.parent = 1 /\ s.start = N /\ s.end = 0 /\ s.cost = 0
  BY <1>1 DEF NewSpan
<1>4. N \in DOMAIN more /\ more[N] = e
  BY <1>1, LogMore
<1>5. t.turn = 1 /\ ~IsTurn(t, 1)
  BY SpansOf DEF TurnsTrue, IsTurn
<1>6. ASSUME NEW i \in 1..(L + 1), IsTurn(u, i)
      PROVE  /\ u.spans[i].start \in DOMAIN more /\ Is(more, u.spans[i].start, {"TurnStarted"})
             /\ u.spans[i].parent = 1 /\ (i # u.turn => Closed(u, more, i))
  <2>1. CASE i = L + 1
    BY <1>1, <1>2, <1>3, <1>4, <2>1 DEF Is
  <2>2. CASE i \in 1..L
    <3>1. IsTurn(t, i) /\ i # t.turn
      BY <1>2, <1>5, <1>6, <2>2
    <3>2. QED
      BY <1>2, <2>2, <3>1
  <2>3. QED
    BY <1>2, <2>1, <2>2
<1>7. TurnsTrue(u, more, U, TRUE)
  <2>1. u.turn # 1 /\ u.turn = L + 1 /\ L + 1 \in DOMAIN u.spans
    BY <1>1, <1>2
  <2>2. /\ IsTurn(u, u.turn) /\ u.spans[u.turn].end = 0 /\ u.spans[u.turn].cost = 0
        /\ more[u.spans[u.turn].start].turn = U
    BY <1>2, <1>3, <1>4, <2>1 DEF IsTurn
  <2>3. QED
    BY <1>2, <1>6, <2>1, <2>2 DEF TurnsTrue, Closed
<1>8. ToolsTrue(u, more)
  <2>1. \A i \in 1..(L + 1) : u.spans[i].name = "tool" => i \in 1..L
    BY <1>2, <1>3
  <2>2. QED
    BY <1>2, <2>1 DEF ToolsTrue
<1>9. QED
  BY <1>1, <1>7, <1>8

\* A call is announced: its span is under that of the open turn.
LEMMA CallOpens ==
  ASSUME NEW t, TreeShape(t), NEW u, TreeShape(u), NEW evs \in Seq(EventType),
         NEW e \in EventType, NEW T, TurnsTrue(t, evs, T, TRUE), ToolsTrue(t, evs),
         Born(t, u, NewSpan("tool", t.turn, Len(evs) + 1, <<Len(evs) + 1>>)),
         u.turn = t.turn, u.tools = WithTool(t.tools, e.id, Len(t.spans) + 1), e.turn = T
  PROVE  TurnsTrue(u, Append(evs, e), T, TRUE) /\ ToolsTrue(u, Append(evs, e))
<1>1. PICK more, L, N, s, o : /\ more = Append(evs, e) /\ L = Len(t.spans) /\ N = Len(evs) + 1
                              /\ o = t.turn /\ s = NewSpan("tool", o, N, <<N>>)
  OBVIOUS
<1>2. /\ \A i \in 1..L : /\ u.spans[i] = t.spans[i] /\ (IsTurn(u, i) <=> IsTurn(t, i))
                         /\ IsTurn(t, i) =>
                              /\ u.spans[i].start \in DOMAIN more
                              /\ Is(more, u.spans[i].start, {"TurnStarted"})
                              /\ u.spans[i].parent = 1 /\ (i # t.turn => Closed(u, more, i))
                              /\ more[u.spans[i].start] = evs[t.spans[i].start]
      /\ \A i \in 1..L : u.spans[i].name = "tool" =>
           LET parent == u.spans[u.spans[i].parent] IN
           /\ IsTurn(u, u.spans[i].parent) /\ u.spans[i].start \in DOMAIN more
           /\ u.spans[i].end \in 0..Len(more)
           /\ Turned(more, parent.start, u.spans[i].start)
           /\ parent.end # 0 => u.spans[i].end <= parent.end
      /\ DOMAIN u.spans = 1..(L + 1) /\ u.spans[L + 1] = s /\ L \in Nat /\ L >= 1
      /\ \A i \in 1..(L + 1) : i = L + 1 \/ i \in 1..L
  <2>1. Born(t, u, s)
    BY <1>1
  <2>2. Tells(t, u, evs, Append(evs, e), s)
    BY <2>1, BornKeeps
  <2>3. Tells(t, u, evs, more, s)
    BY <1>1, <2>2
  <2>4. QED
    BY <1>1, <2>3 DEF Tells
<1>3. /\ s.name = "tool" /\ s.parent = o /\ s.start = N /\ s.end = 0
  BY <1>1 DEF NewSpan
<1>4. N \in DOMAIN more /\ more[N] = e /\ Len(more) \in Nat
  BY <1>1, LogMore
<1>5. /\ o # 1 /\ IsTurn(t, o) /\ t.spans[o].end = 0 /\ t.spans[o].cost = 0
      /\ evs[t.spans[o].start].turn = T /\ o \in 1..L
      /\ \A id \in DOMAIN t.tools : t.tools[id] \in 1..L
  BY <1>1, SpansOf DEF TurnsTrue
<1>5a. /\ DOMAIN u.tools = DOMAIN t.tools \cup {e.id} /\ u.tools[e.id] = L + 1
       /\ \A id \in DOMAIN t.tools : id # e.id => u.tools[id] = t.tools[id]
  BY <1>1 DEF WithTool
<1>6. \A i \in 1..(L + 1) : IsTurn(u, i) => i \in 1..L
  BY <1>2, <1>3 DEF IsTurn
<1>7. TurnsTrue(u, more, T, TRUE)
  <2>1. /\ IsTurn(u, u.turn) /\ u.spans[u.turn].end = 0 /\ u.spans[u.turn].cost = 0
        /\ more[u.spans[u.turn].start].turn = T /\ u.turn # 1
    BY <1>1, <1>2, <1>5
  <2>2. ASSUME NEW i \in 1..(L + 1), IsTurn(u, i)
        PROVE  /\ u.spans[i].start \in DOMAIN more /\ Is(more, u.spans[i].start, {"TurnStarted"})
               /\ u.spans[i].parent = 1 /\ (i # u.turn => Closed(u, more, i))
    BY <1>2, <1>6, <2>2
  <2>3. QED
    BY <1>2, <2>1, <2>2 DEF TurnsTrue, Closed
<1>8. ToolsTrue(u, more)
  <2>1. ASSUME NEW i \in 1..(L + 1), u.spans[i].name = "tool"
        PROVE  LET parent == u.spans[u.spans[i].parent] IN
               /\ IsTurn(u, u.spans[i].parent) /\ u.spans[i].start \in DOMAIN more
               /\ u.spans[i].end \in 0..Len(more)
               /\ Turned(more, parent.start, u.spans[i].start)
               /\ parent.end # 0 => u.spans[i].end <= parent.end
    <3>1. CASE i = L + 1
      <4>1. u.spans[i] = s /\ IsTurn(u, o) /\ u.spans[o].end = 0
        BY <1>2, <1>5, <3>1
      <4>2. Turned(more, u.spans[o].start, N)
        BY <1>2, <1>4, <1>5 DEF Turned
      <4>3. QED
        BY <1>3, <1>4, <4>1, <4>2
    <3>2. CASE i \in 1..L
      BY <1>2, <2>1, <3>2
    <3>3. QED
      BY <1>2, <3>1, <3>2
  <2>2. ASSUME NEW id \in DOMAIN u.tools
        PROVE  LET x == u.spans[u.tools[id]] IN x.name = "tool" /\ x.end = 0 /\ x.parent = u.turn
    <3>1. CASE id = e.id
      <4>1. u.tools[id] = L + 1
        BY <1>5a, <2>2, <3>1
      <4>2. QED
        BY <1>1, <1>2, <1>3, <4>1
    <3>2. CASE id # e.id
      <4>1. id \in DOMAIN t.tools /\ u.tools[id] = t.tools[id] /\ t.tools[id] \in 1..L
        BY <1>5, <1>5a, <2>2, <3>2
      <4>2. u.spans[u.tools[id]] = t.spans[t.tools[id]]
        BY <1>2, <4>1
      <4>3. QED
        BY <4>1, <4>2 DEF ToolsTrue
    <3>3. QED
      BY <3>1, <3>2
  <2>3. QED
    BY <1>2, <2>1, <2>2 DEF ToolsTrue
<1>9. QED
  BY <1>1, <1>7, <1>8

\* A call that waits is collected, while its turn is open.
LEMMA CallCloses ==
  ASSUME NEW t, TreeShape(t), NEW u, TreeShape(u), NEW evs \in Seq(EventType),
         NEW e \in EventType, NEW T, NEW open \in BOOLEAN, TurnsTrue(t, evs, T, open),
         ToolsTrue(t, evs), e.id \in DOMAIN t.tools, open,
         More(t, u, t.tools[e.id], Len(evs) + 1), u.turn = t.turn,
         u.spans[t.tools[e.id]].end = Len(evs) + 1,
         u.spans[t.tools[e.id]].cost = t.spans[t.tools[e.id]].cost,
         u.tools = Without(t.tools, e.id),
         \A id \in DOMAIN t.tools \ {e.id} : t.tools[id] # t.tools[e.id]
  PROVE  TurnsTrue(u, Append(evs, e), T, open) /\ ToolsTrue(u, Append(evs, e))
<1>1. PICK more, L, N, w : /\ more = Append(evs, e) /\ L = Len(t.spans) /\ N = Len(evs) + 1
                           /\ w = t.tools[e.id]
  OBVIOUS
<1>2. /\ DOMAIN t.spans = 1..L /\ DOMAIN u.spans = 1..L /\ t.turn \in 1..L /\ w \in 1..L
      /\ \A id \in DOMAIN t.tools : t.tools[id] \in 1..L
  BY <1>1, SpansOf DEF More
<1>3. /\ \A i \in 1..L : i # w => u.spans[i] = t.spans[i]
      /\ \A i \in 1..L : /\ u.spans[i].name = t.spans[i].name
                         /\ u.spans[i].parent = t.spans[i].parent
                         /\ u.spans[i].start = t.spans[i].start
      /\ u.spans[w].end = N
  BY <1>1 DEF More
<1>4. \A i : IsTurn(u, i) <=> IsTurn(t, i)
  BY <1>2, <1>3 DEF IsTurn
<1>5. t.spans[w].name = "tool" /\ t.spans[w].parent = t.turn /\ ~IsTurn(t, w)
  BY <1>1 DEF ToolsTrue, IsTurn
<1>6. N \in Nat /\ N >= 1 /\ Len(more) = N /\ Len(evs) = N - 1
  BY <1>1, LogMore
<1>7. ASSUME NEW i \in 1..L, IsTurn(t, i)
      PROVE  /\ u.spans[i].start \in DOMAIN more /\ Is(more, u.spans[i].start, {"TurnStarted"})
             /\ u.spans[i].parent = 1 /\ (i # t.turn => Closed(u, more, i))
             /\ more[u.spans[i].start] = evs[t.spans[i].start] /\ u.spans[i] = t.spans[i]
  <2>1. /\ t.spans[i].start \in DOMAIN evs /\ Is(evs, t.spans[i].start, {"TurnStarted"})
        /\ t.spans[i].parent = 1 /\ (i # t.turn => Closed(t, evs, i))
    BY <1>2, <1>7 DEF TurnsTrue, Closed
  <2>2. /\ t.spans[i].start \in DOMAIN more /\ Is(more, t.spans[i].start, {"TurnStarted"})
        /\ more[t.spans[i].start] = evs[t.spans[i].start]
    BY <1>1, <2>1, EventsKept
  <2>3. u.spans[i] = t.spans[i]
    BY <1>3, <1>5, <1>7
  <2>4. i # t.turn => Closed(u, more, i)
    BY <1>1, <2>1, <2>3, StaysClosed
  <2>5. QED
    BY <2>1, <2>2, <2>3, <2>4
<1>8. /\ t.turn # 1 /\ IsTurn(t, t.turn) /\ t.spans[t.turn].end = 0
      /\ t.spans[t.turn].cost = 0 /\ evs[t.spans[t.turn].start].turn = T
  BY DEF TurnsTrue
<1>9. TurnsTrue(u, more, T, open)
  <2>1. /\ IsTurn(u, u.turn) /\ u.spans[u.turn].end = 0 /\ u.spans[u.turn].cost = 0
        /\ more[u.spans[u.turn].start].turn = T /\ u.turn # 1
    BY <1>2, <1>4, <1>7, <1>8, SMTT(30)
  <2>2. QED
    BY <1>2, <1>4, <1>7, <2>1 DEF TurnsTrue, Closed
<1>10. ASSUME NEW i \in 1..L, u.spans[i].name = "tool"
       PROVE  LET parent == u.spans[u.spans[i].parent] IN
              /\ IsTurn(u, u.spans[i].parent) /\ u.spans[i].start \in DOMAIN more
              /\ u.spans[i].end \in 0..Len(more)
              /\ Turned(more, parent.start, u.spans[i].start)
              /\ parent.end # 0 => u.spans[i].end <= parent.end
  <2>1. PICK p : p = t.spans[i].parent
    OBVIOUS
  <2>2. /\ IsTurn(t, p) /\ t.spans[i].start \in DOMAIN evs /\ t.spans[i].end \in 0..Len(evs)
        /\ Turned(evs, t.spans[p].start, t.spans[i].start)
        /\ t.spans[p].end # 0 => t.spans[i].end <= t.spans[p].end
    BY <1>2, <1>3, <1>10, <2>1 DEF ToolsTrue
  <2>3. p \in 1..L /\ t.spans[p].start \in DOMAIN evs
    BY <1>2, <2>2 DEF TurnsTrue, IsTurn
  <2>4. /\ t.spans[i].start \in DOMAIN more /\ t.spans[i].end \in 0..Len(more)
        /\ Turned(more, t.spans[p].start, t.spans[i].start)
    BY <1>1, <2>2, <2>3, EventsKept
  <2>5. u.spans[p] = t.spans[p]
    BY <1>7, <2>2, <2>3
  <2>6. CASE i = w
    <3>1. u.spans[p].end = 0
      BY <1>5, <1>8, <2>1, <2>5, <2>6
    <3>2. u.spans[i].end \in 0..Len(more)
      BY <1>3, <1>6, <2>6
    <3>3. QED
      BY <1>3, <1>4, <2>1, <2>2, <2>4, <2>5, <3>1, <3>2
  <2>7. CASE i # w
    BY <1>3, <1>4, <2>1, <2>2, <2>4, <2>5, <2>7
  <2>8. QED
    BY <2>6, <2>7
<1>11. ToolsTrue(u, more)
  <2>1. ASSUME NEW id \in DOMAIN u.tools
        PROVE  LET s == u.spans[u.tools[id]] IN s.name = "tool" /\ s.end = 0 /\ s.parent = u.turn
    <3>1. id \in DOMAIN t.tools /\ u.tools[id] = t.tools[id] /\ t.tools[id] \in 1..L /\ t.tools[id] # w
      BY <1>1, <1>2, <2>1 DEF Without
    <3>2. u.spans[u.tools[id]] = t.spans[t.tools[id]]
      BY <1>3, <3>1
    <3>3. QED
      BY <3>1, <3>2 DEF ToolsTrue
  <2>2. QED
    BY <1>2, <1>10, <2>1 DEF ToolsTrue
<1>12. QED
  BY <1>1, <1>9, <1>11

\* Calls are kept by whatever keeps the spans.
LEMMA TreeKept ==
  ASSUME NEW t, TreeShape(t), NEW u, TreeShape(u)
  PROVE  /\ Still(t, u) => Kept(t.spans, u.spans, 0)
         /\ \A s : Born(t, u, s) => Kept(t.spans, u.spans, 0)
         /\ \A i, n : More(t, u, i, n) => Kept(t.spans, u.spans, i)
         /\ \A n : More(t, u, t.turn, n) /\ IsTurn(t, t.turn) => Kept(t.spans, u.spans, 0)
<1>1. PICK L, M : L = Len(t.spans) /\ M = Len(u.spans)
  OBVIOUS
<1>2. DOMAIN t.spans = 1..L /\ DOMAIN u.spans = 1..M /\ L \in Nat /\ M \in Nat
  BY <1>1, SpansOf
<1>3. Still(t, u) => Kept(t.spans, u.spans, 0)
  BY <1>1, <1>2 DEF Still, Kept
<1>4. ASSUME NEW s, Born(t, u, s) PROVE Kept(t.spans, u.spans, 0)
  <2>1. M = L + 1 /\ \A i \in 1..L : i \in 1..M /\ u.spans[i] = t.spans[i]
    BY <1>1, <1>2, <1>4 DEF Born
  <2>2. QED
    BY <1>2, <2>1 DEF Kept
<1>5. ASSUME NEW i, NEW n, More(t, u, i, n)
      PROVE  Kept(t.spans, u.spans, i) /\ (t.spans[i].name # "tool" => Kept(t.spans, u.spans, 0))
  BY <1>1, <1>2, <1>5 DEF More, Kept
<1>6. QED
  BY <1>3, <1>4, <1>5 DEF IsTurn

\* An event beside the turns goes to the kernel's span, or nowhere.
LEMMA TreeMentions ==
  ASSUME NEW t, NEW evs \in Seq(EventType), NEW e \in EventType, NEW T \in Nat,
         NEW open \in BOOLEAN, NEW C \in Seq(Ids), NEW a \in Nat, NEW c \in Nat,
         TreeTrue(t, evs, T, open, C, a, c), e.kind \in Others
  PROVE  TreeTrue(TreeStep(t, Len(evs) + 1, e), Append(evs, e), T, open, C, a, c)
<1>1. PICK u, N, more : N = Len(evs) + 1 /\ more = Append(evs, e) /\ u = TreeStep(t, N, e)
  OBVIOUS
<1>2. /\ TreeShape(t) /\ TurnsTrue(t, evs, T, open) /\ ToolsTrue(t, evs)
      /\ CallsTrue(t.spans, t.tools, evs, T, open, C, a, c)
  BY DEF TreeTrue
<1>3. N \in Nat /\ 1 \in 1..Len(t.spans) /\ 0 \notin DOMAIN t.spans
  BY <1>1, <1>2, SpansOf
<1>4. e.kind \notin {"TurnStarted", "TurnCompleted", "TurnFailed", "PreToolUse", "PostToolUse"}
  BY Kinds DEF Ends
<1>5. TreeShape(u) /\ Still(t, u)
  <2>1. CASE e.kind = "QueueInterrupt"
    <3>1. u = t
      BY <1>1, <2>1 DEF TreeStep, Observable
    <3>2. Still(t, t)
      BY DEF Still
    <3>3. QED
      BY <1>2, <3>1, <3>2
  <2>2. CASE e.kind # "QueueInterrupt"
    <3>1. u = Attach(t, 1, N)
      BY <1>1, <1>4, <2>2 DEF TreeStep, Observable
    <3>2. QED
      BY <1>2, <1>3, <3>1, AttachStill
  <2>3. QED
    BY <2>1, <2>2
<1>6. TurnsTrue(u, more, T, open) /\ ToolsTrue(u, more)
  BY <1>1, <1>2, <1>5, StillTrue
<1>7. CallsTrue(u.spans, u.tools, more, T, open, C, a, c)
  <2>1. Kept(t.spans, u.spans, 0) /\ u.tools = t.tools
    BY <1>2, <1>5, TreeKept DEF Still
  <2>2. CallsTrue(u.spans, t.tools, more, T, open, C, a, c)
    BY <1>1, <1>2, <1>3, <1>4, <2>1, CallsAside
  <2>3. QED
    BY <2>1, <2>2
<1>8. QED
  BY <1>1, <1>5, <1>6, <1>7 DEF TreeTrue

\* A turn begins.
LEMMA TreeBegins ==
  ASSUME NEW t, NEW evs \in Seq(EventType), NEW e \in EventType, NEW T \in Nat,
         NEW C \in Seq(Ids), TreeTrue(t, evs, T, FALSE, C, 0, 0), e.kind = "TurnStarted",
         e.turn = T + 1
  PROVE  TreeTrue(TreeStep(t, Len(evs) + 1, e), Append(evs, e), T + 1, TRUE, C, 0, 0)
<1>1. PICK u, N, more : N = Len(evs) + 1 /\ more = Append(evs, e) /\ u = TreeStep(t, N, e)
  OBVIOUS
<1>2. /\ TreeShape(t) /\ TurnsTrue(t, evs, T, FALSE) /\ ToolsTrue(t, evs)
      /\ CallsTrue(t.spans, t.tools, evs, T, FALSE, C, 0, 0)
  BY DEF TreeTrue
<1>3. N \in Nat /\ 0 \notin DOMAIN t.spans
  BY <1>1, <1>2, SpansOf
<1>4. u = OpenTurn(t, N)
  BY <1>1 DEF TreeStep, Observable
<1>5. /\ TreeShape(u) /\ Born(t, u, NewSpan("llm.step", 1, N, <<N>>))
      /\ u.turn = Len(t.spans) + 1 /\ u.tools = t.tools
  BY <1>2, <1>3, <1>4, OpenTurnIs
<1>6. DOMAIN t.tools = {}
  BY <1>2, HangingNone DEF CallsTrue
<1>7. TurnsTrue(u, more, T + 1, TRUE) /\ ToolsTrue(u, more)
  BY <1>1, <1>2, <1>5, <1>6, TurnOpens
<1>8. CallsTrue(u.spans, u.tools, more, T + 1, TRUE, C, 0, 0)
  <2>1. Kept(t.spans, u.spans, 0)
    BY <1>2, <1>5, TreeKept
  <2>2. CallsTrue(u.spans, t.tools, more, T + 1, TRUE, C, 0, 0)
    BY <1>1, <1>2, <1>3, <2>1, CallsTurn
  <2>3. QED
    BY <1>5, <2>2
<1>9. QED
  BY <1>1, <1>5, <1>7, <1>8 DEF TreeTrue

\* A turn ends.
LEMMA TreeFinishes ==
  ASSUME NEW t, NEW evs \in Seq(EventType), NEW e \in EventType, NEW T \in Nat,
         NEW C \in Seq(Ids), NEW a \in Nat, TreeTrue(t, evs, T, TRUE, C, a, a),
         LogTrue(evs, T, TRUE, C, a, a), e.kind \in Ends, e.turn = T, e.call = 0, NEW D
  PROVE  TreeTrue(TreeStep(t, Len(evs) + 1, e), Append(evs, e), T, FALSE, D, 0, 0)
<1>1. PICK u, N, more : N = Len(evs) + 1 /\ more = Append(evs, e) /\ u = TreeStep(t, N, e)
  OBVIOUS
<1>2. /\ TreeShape(t) /\ TurnsTrue(t, evs, T, TRUE) /\ ToolsTrue(t, evs)
      /\ CallsTrue(t.spans, t.tools, evs, T, TRUE, C, a, a)
  BY DEF TreeTrue
<1>3. N \in Nat /\ 0 \notin DOMAIN t.spans
  BY <1>1, <1>2, SpansOf
<1>4. t.turn # 1 /\ IsTurn(t, t.turn)
  BY <1>2 DEF TurnsTrue
<1>5. u = CloseTurn(t, N, e)
  BY <1>1 DEF TreeStep, Observable, Ends
<1>6. /\ TreeShape(u) /\ More(t, u, t.turn, N) /\ u.turn = 1 /\ u.tools = t.tools
      /\ u.spans[t.turn].end = N /\ u.spans[t.turn].cost = e.cost
  BY <1>2, <1>3, <1>4, <1>5, CloseTurnIs
<1>7. DOMAIN t.tools = {}
  BY <1>2, HangingNone DEF CallsTrue
<1>8. \A n \in DOMAIN evs : Is(evs, n, {"TurnStarted"}) => evs[n].call = 0
  BY DEF LogTrue, Is
<1>9. TurnsTrue(u, more, T, FALSE) /\ ToolsTrue(u, more)
  BY <1>1, <1>2, <1>6, <1>7, <1>8, TurnCloses
<1>10. CallsTrue(u.spans, u.tools, more, T, FALSE, D, 0, 0)
  <2>1. Kept(t.spans, u.spans, 0)
    BY <1>2, <1>4, <1>6, TreeKept
  <2>2. e.kind # "PreToolUse"
    BY Kinds
  <2>3. CallsTrue(u.spans, t.tools, more, T, FALSE, D, 0, 0)
    BY <1>1, <1>2, <1>3, <2>1, <2>2, CallsTurn
  <2>4. QED
    BY <1>6, <2>3
<1>11. QED
  BY <1>1, <1>6, <1>9, <1>10 DEF TreeTrue

\* A call is announced.
LEMMA TreeAnnounces ==
  ASSUME NEW t, NEW evs \in Seq(EventType), NEW e \in EventType, NEW T \in Nat,
         NEW C \in Seq(Ids), NEW a \in Nat, TreeTrue(t, evs, T, TRUE, C, a, 0),
         LogTrue(evs, T, TRUE, C, a, 0), e.kind = "PreToolUse", e.turn = T, e.call = a + 1,
         e.id = C[a + 1]
  PROVE  TreeTrue(TreeStep(t, Len(evs) + 1, e), Append(evs, e), T, TRUE, C, a + 1, 0)
<1>1. PICK u, N, more : N = Len(evs) + 1 /\ more = Append(evs, e) /\ u = TreeStep(t, N, e)
  OBVIOUS
<1>2. /\ TreeShape(t) /\ TurnsTrue(t, evs, T, TRUE) /\ ToolsTrue(t, evs)
      /\ CallsTrue(t.spans, t.tools, evs, T, TRUE, C, a, 0)
  BY DEF TreeTrue
<1>3. N \in Nat /\ 0 \notin DOMAIN t.spans /\ t.turn \in 1..Len(t.spans) /\ a + 1 \in Nat
  BY <1>1, <1>2, SpansOf
<1>4. CASE e.id = NoId
  <2>1. u = Attach(t, t.turn, N)
    BY <1>1, <1>4 DEF TreeStep, Observable
  <2>2. TreeShape(u) /\ Still(t, u)
    BY <1>2, <1>3, <2>1, AttachStill
  <2>3. TurnsTrue(u, more, T, TRUE) /\ ToolsTrue(u, more)
    BY <1>1, <1>2, <2>2, StillTrue
  <2>4. Kept(t.spans, u.spans, 0) /\ u.tools = t.tools
    BY <1>2, <2>2, TreeKept DEF Still
  <2>5. CallsTrue(u.spans, t.tools, more, T, TRUE, C, a + 1, 0)
    BY <1>1, <1>2, <1>3, <1>4, <2>4, CallsUnseen
  <2>6. QED
    BY <1>1, <2>2, <2>3, <2>4, <2>5 DEF TreeTrue
<1>5. CASE e.id # NoId
  <2>1. u = OpenTool(t, N, e)
    BY <1>1, <1>5 DEF TreeStep, Observable
  <2>2. PICK s : s = NewSpan("tool", t.turn, N, <<N>>)
    OBVIOUS
  <2>3. /\ TreeShape(u) /\ Born(t, u, s) /\ u.turn = t.turn
        /\ u.tools = WithTool(t.tools, e.id, Len(t.spans) + 1)
    BY <1>2, <1>3, <2>1, <2>2, OpenToolIs
  <2>4. TurnsTrue(u, more, T, TRUE) /\ ToolsTrue(u, more)
    BY <1>1, <1>2, <2>2, <2>3, CallOpens
  <2>5. PICK L : L = Len(t.spans) + 1
    OBVIOUS
  <2>6. /\ L \in DOMAIN u.spans /\ u.spans[L].name = "tool" /\ u.spans[L].start = N
        /\ u.spans[L].end <= u.spans[L].start
    <3>1. L \in DOMAIN u.spans /\ u.spans[L] = s
      BY <1>2, <2>3, <2>5, SpansOf DEF Born
    <3>2. s.name = "tool" /\ s.start = N /\ s.end = 0
      BY <2>2 DEF NewSpan
    <3>3. QED
      BY <1>3, <3>1, <3>2
  <2>7. Kept(t.spans, u.spans, 0)
    BY <1>2, <2>3, TreeKept
  <2>8. u.tools = WithTool(t.tools, e.id, L)
    BY <2>3, <2>5
  <2>9. CallsTrue(u.spans, u.tools, more, T, TRUE, C, a + 1, 0)
    <3>1. PICK ss, zz, to, tu : ss = t.spans /\ zz = u.spans /\ to = t.tools /\ tu = u.tools
      OBVIOUS
    <3>2. /\ CallsTrue(ss, to, evs, T, TRUE, C, a, 0) /\ Kept(ss, zz, 0) /\ 0 \notin DOMAIN ss
          /\ L \in DOMAIN zz /\ zz[L].name = "tool" /\ zz[L].start = Len(evs) + 1
          /\ zz[L].end <= zz[L].start
          /\ tu = WithTool(to, e.id, L)
      BY <1>1, <1>2, <1>3, <2>6, <2>7, <2>8, <3>1
    <3>3. CallsTrue(zz, tu, Append(evs, e), T, TRUE, C, a + 1, 0)
      BY <1>5, <3>2, CallsOpen
    <3>4. QED
      BY <1>1, <3>1, <3>3
  <2>10. QED
    BY <1>1, <2>3, <2>4, <2>9 DEF TreeTrue
<1>6. QED
  BY <1>4, <1>5

\* A call is collected.
LEMMA TreeCollects ==
  ASSUME NEW t, NEW evs \in Seq(EventType), NEW e \in EventType, NEW T \in Nat,
         NEW C \in Seq(Ids), NEW a \in Nat, NEW c \in Nat, TreeTrue(t, evs, T, TRUE, C, a, c),
         LogTrue(evs, T, TRUE, C, a, c), e.kind = "PostToolUse", e.turn = T, e.call = c + 1,
         e.id = C[c + 1], c < a
  PROVE  TreeTrue(TreeStep(t, Len(evs) + 1, e), Append(evs, e), T, TRUE, C, a, c + 1)
<1>1. PICK u, N, more : N = Len(evs) + 1 /\ more = Append(evs, e) /\ u = TreeStep(t, N, e)
  OBVIOUS
<1>2. /\ TreeShape(t) /\ TurnsTrue(t, evs, T, TRUE) /\ ToolsTrue(t, evs)
      /\ CallsTrue(t.spans, t.tools, evs, T, TRUE, C, a, c)
  BY DEF TreeTrue
<1>3. N \in Nat /\ 0 \notin DOMAIN t.spans /\ t.turn \in 1..Len(t.spans) /\ c + 1 \in Nat
  BY <1>1, <1>2, SpansOf
<1>4. CASE e.id \notin DOMAIN t.tools
  <2>1. u = Attach(t, t.turn, N)
    BY <1>1, <1>4 DEF TreeStep, Observable
  <2>2. TreeShape(u) /\ Still(t, u)
    BY <1>2, <1>3, <2>1, AttachStill
  <2>3. TurnsTrue(u, more, T, TRUE) /\ ToolsTrue(u, more)
    BY <1>1, <1>2, <2>2, StillTrue
  <2>4. Kept(t.spans, u.spans, 0) /\ u.tools = t.tools
    BY <1>2, <2>2, TreeKept DEF Still
  <2>5. CallsTrue(u.spans, t.tools, more, T, TRUE, C, a, c + 1)
    BY <1>1, <1>2, <1>3, <1>4, <2>4, CallsUnseen
  <2>6. QED
    BY <1>1, <2>2, <2>3, <2>4, <2>5 DEF TreeTrue
<1>5. CASE e.id \in DOMAIN t.tools
  <2>1. u = CloseTool(t, N, e)
    BY <1>1, <1>5 DEF TreeStep, Observable
  <2>2. PICK w : w = t.tools[e.id]
    OBVIOUS
  <2>3. /\ TreeShape(u) /\ More(t, u, w, N) /\ u.turn = t.turn
        /\ u.spans[w].end = N /\ u.spans[w].cost = t.spans[w].cost
        /\ u.tools = Without(t.tools, e.id)
    <3>1. ClosedCall(t, u, N, w, e.id)
      BY <1>2, <1>3, <1>5, <2>1, <2>2, CloseToolIs
    <3>2. QED
      BY <3>1 DEF ClosedCall
  <2>4. \A id \in DOMAIN t.tools \ {e.id} : t.tools[id] # w
    BY <1>2, <1>5, <2>2 DEF CallsTrue
  <2>5. TurnsTrue(u, more, T, TRUE) /\ ToolsTrue(u, more)
    BY <1>1, <1>2, <1>5, <2>2, <2>3, <2>4, CallCloses
  <2>6. /\ Kept(t.spans, u.spans, w) /\ u.spans[w].name = "tool"
        /\ u.spans[w].start = t.spans[w].start /\ \A i \in DOMAIN t.spans : t.spans[i].end \in Nat
    <3>1. t.spans[w].name = "tool"
      BY <1>2, <1>5, <2>2 DEF CallsTrue
    <3>2. Kept(t.spans, u.spans, w)
      BY <1>2, <2>3, TreeKept
    <3>3. u.spans[w].name = "tool" /\ u.spans[w].start = t.spans[w].start
      BY <2>3, <3>1 DEF More
    <3>4. QED
      BY <1>2, <3>2, <3>3, SpansOf
  <2>7. CallsTrue(u.spans, u.tools, more, T, TRUE, C, a, c + 1)
    BY <1>1, <1>2, <1>5, <2>2, <2>3, <2>6, CallsClose
  <2>8. QED
    BY <1>1, <2>3, <2>5, <2>7 DEF TreeTrue
<1>6. QED
  BY <1>4, <1>5

-----------------------------------------------------------------------------
(* The observations.                                                        *)

Names == EventKinds \cup {"llm.generation", "tool", "compaction"}

\* The observations that there are.
LEMMA SeenSpans ==
  ASSUME NEW x, SeenShape(x)
  PROVE  /\ Len(x.spans) \in Nat /\ DOMAIN x.spans = 1..Len(x.spans) /\ 0 \notin DOMAIN x.spans
         /\ \A id \in DOMAIN x.tools : x.tools[id] \in DOMAIN x.spans
         /\ \A i \in DOMAIN x.spans :
              /\ x.spans[i].start \in Nat /\ x.spans[i].end \in Nat /\ x.spans[i].cost \in Nat
<1>1. /\ Len(x.spans) \in Nat /\ DOMAIN x.spans = 1..Len(x.spans)
      /\ \A i \in DOMAIN x.spans : x.spans[i] \in SeenType
  BY DEF SeenShape
<1>2. \A i \in DOMAIN x.spans :
              /\ x.spans[i].start \in Nat /\ x.spans[i].end \in Nat /\ x.spans[i].cost \in Nat
  BY <1>1 DEF SeenType
<1>3. 0 \notin DOMAIN x.spans
  BY <1>1
<1>4. QED
  BY <1>1, <1>2, <1>3 DEF SeenShape

\* What is so of y, which has an observation more than x.
Observed(x, y, name, n, cost) ==
  /\ SeenShape(y) /\ y.tools = x.tools /\ Kept(x.spans, y.spans, 0)
  /\ Len(y.spans) = Len(x.spans) + 1
  /\ \A i \in 1..Len(x.spans) : y.spans[i] = x.spans[i]
  /\ y.spans[Len(x.spans) + 1] = [name |-> name, start |-> n, end |-> n, cost |-> cost]

\* An observation more.
LEMMA ObserveIs ==
  ASSUME NEW x, SeenShape(x), NEW name, name \in Names, NEW n, n \in Nat, NEW cost, cost \in Nat,
         NEW y, y = Observe(x, name, n, cost)
  PROVE  Observed(x, y, name, n, cost)
<1>1. PICK ss, to, s : /\ ss = x.spans /\ to = x.tools
                       /\ s = [name |-> name, start |-> n, end |-> n, cost |-> cost]
  OBVIOUS
<1>2. /\ x = [spans |-> ss, tools |-> to] /\ ss \in Seq(SeenType)
      /\ to \in [DOMAIN to -> 1..Len(ss)]
  BY <1>1 DEF SeenShape
<1>3. s \in SeenType
  BY <1>1 DEF SeenType, Names
<1>4. PICK zz : zz = Append(ss, s)
  OBVIOUS
<1>5. y = [spans |-> zz, tools |-> to]
  <2>1. y = [x EXCEPT !.spans = Append(@, s)]
    BY <1>1 DEF Observe
  <2>2. QED
    BY <1>2, <1>4, <2>1
<1>6. y.spans = zz /\ y.tools = to
  BY <1>5
<1>7. /\ zz \in Seq(SeenType) /\ Len(zz) = Len(ss) + 1 /\ zz[Len(ss) + 1] = s
      /\ \A i \in 1..Len(ss) : zz[i] = ss[i] /\ i \in 1..Len(zz)
      /\ DOMAIN ss = 1..Len(ss) /\ DOMAIN zz = 1..Len(zz)
  BY <1>2, <1>3, <1>4
<1>8. to \in [DOMAIN to -> 1..Len(zz)]
  BY <1>2, <1>7
<1>9. SeenShape(y)
  BY <1>5, <1>6, <1>7, <1>8 DEF SeenShape
<1>10. Kept(ss, zz, 0)
  BY <1>7 DEF Kept
<1>11. QED
  BY <1>1, <1>6, <1>7, <1>9, <1>10 DEF Observed

\* Calls that wait still do.
LEMMA StillPending ==
  ASSUME NEW x, SeenShape(x), Pending(x), NEW evs, NEW T, NEW open, NEW C, NEW a, NEW c,
         CallsTrue(x.spans, x.tools, evs, T, open, C, a, c), NEW ss, Kept(x.spans, ss, 0)
  PROVE  \A id \in DOMAIN x.tools : ss[x.tools[id]].end = ss[x.tools[id]].start
<1>1. TAKE id \in DOMAIN x.tools
<1>2. PICK i : i = x.tools[id]
  OBVIOUS
<1>3. i \in DOMAIN x.spans /\ x.spans[i].name = "tool" /\ i # 0
  BY <1>2, SeenSpans DEF CallsTrue
<1>4. x.spans[i].end = x.spans[i].start
  BY <1>2 DEF Pending
<1>5. QED
  BY <1>2, <1>3, <1>4 DEF Kept

\* An event beside the turns.
LEMMA SeenMentions ==
  ASSUME NEW x, NEW evs \in Seq(EventType), NEW e \in EventType, NEW T \in Nat,
         NEW open \in BOOLEAN, NEW C \in Seq(Ids), NEW a \in Nat, NEW c \in Nat,
         SeenTrue(x, evs, T, open, C, a, c), e.kind \in Others
  PROVE  SeenTrue(ObserveStep(x, Len(evs) + 1, e), Append(evs, e), T, open, C, a, c)
<1>1. PICK y, N, more : N = Len(evs) + 1 /\ more = Append(evs, e) /\ y = ObserveStep(x, N, e)
  OBVIOUS
<1>2. SeenShape(x) /\ CallsTrue(x.spans, x.tools, evs, T, open, C, a, c)
  BY DEF SeenTrue
<1>3. N \in Nat /\ 0 \in Nat /\ e.kind \in Names /\ "compaction" \in Names
  BY <1>1 DEF Names, EventType
<1>4. e.kind \notin {"TurnCompleted", "PreToolUse", "PostToolUse"}
  BY Kinds DEF Ends
<1>5. SeenShape(y) /\ Kept(x.spans, y.spans, 0) /\ y.tools = x.tools
  <2>1. Kept(x.spans, x.spans, 0)
    BY DEF Kept
  <2>2. CASE e.kind = "UserPromptSubmit"
    <3>1. y = x
      BY <1>1, <2>2 DEF ObserveStep
    <3>2. QED
      BY <1>2, <2>1, <3>1
  <2>3. CASE e.kind = "PostCompact"
    <3>1. y = Observe(x, "compaction", N, 0)
      BY <1>1, <2>3 DEF ObserveStep
    <3>2. QED
      <4>1. Observed(x, y, "compaction", N, 0)
        BY <1>2, <1>3, <3>1, ObserveIs
      <4>2. QED
        BY <4>1 DEF Observed
  <2>4. CASE e.kind \notin {"UserPromptSubmit", "PostCompact"}
    <3>1. y = IF Observable(e.kind) THEN Observe(x, e.kind, N, 0) ELSE x
      BY <1>1, <1>4, <2>4 DEF ObserveStep
    <3>2. CASE Observable(e.kind)
      <4>1. y = Observe(x, e.kind, N, 0)
        BY <3>1, <3>2
      <4>2. QED
        <5>1. Observed(x, y, e.kind, N, 0)
          BY <1>2, <1>3, <4>1, ObserveIs
        <5>2. QED
          BY <5>1 DEF Observed
    <3>3. CASE ~Observable(e.kind)
      BY <1>2, <2>1, <3>1, <3>3
    <3>4. QED
      BY <3>2, <3>3
  <2>5. QED
    BY <2>2, <2>3, <2>4
<1>6. CallsTrue(y.spans, y.tools, more, T, open, C, a, c)
  <2>1. 0 \notin DOMAIN x.spans
    BY <1>2, SeenSpans
  <2>2. CallsTrue(y.spans, x.tools, more, T, open, C, a, c)
    BY <1>1, <1>2, <1>4, <1>5, <2>1, CallsAside
  <2>3. QED
    BY <1>5, <2>2
<1>7. Pending(y)
  <2>1. Pending(x)
    BY DEF SeenTrue
  <2>2. \A id \in DOMAIN x.tools : y.spans[x.tools[id]].end = y.spans[x.tools[id]].start
    BY <1>2, <1>5, <2>1, StillPending, Zenon
  <2>3. QED
    BY <1>5, <2>2 DEF Pending
<1>8. QED
  BY <1>1, <1>5, <1>6, <1>7 DEF SeenTrue

\* A turn begins or ends.
LEMMA SeenTurns ==
  ASSUME NEW x, NEW evs \in Seq(EventType), NEW e \in EventType, NEW T \in Nat,
         NEW open \in BOOLEAN, NEW C \in Seq(Ids), NEW a \in Nat,
         SeenTrue(x, evs, T, open, C, a, a), e.kind \in Ends \cup {"TurnStarted"},
         NEW U, NEW begun, NEW D
  PROVE  SeenTrue(ObserveStep(x, Len(evs) + 1, e), Append(evs, e), U, begun, D, 0, 0)
<1>1. PICK y, N, more : N = Len(evs) + 1 /\ more = Append(evs, e) /\ y = ObserveStep(x, N, e)
  OBVIOUS
<1>2. SeenShape(x) /\ CallsTrue(x.spans, x.tools, evs, T, open, C, a, a)
  BY DEF SeenTrue
<1>3. /\ N \in Nat /\ 0 \in Nat /\ e.kind \in Names /\ "llm.generation" \in Names
      /\ e.cost \in Nat
  BY <1>1 DEF Names, EventType
<1>4. SeenShape(y) /\ Kept(x.spans, y.spans, 0) /\ y.tools = x.tools
  <2>1. CASE e.kind = "TurnCompleted"
    <3>1. y = Observe(x, "llm.generation", N, e.cost)
      BY <1>1, <2>1 DEF ObserveStep
    <3>2. QED
      <4>1. Observed(x, y, "llm.generation", N, e.cost)
        BY <1>2, <1>3, <3>1, ObserveIs
      <4>2. QED
        BY <4>1 DEF Observed
  <2>2. CASE e.kind # "TurnCompleted"
    <3>1. y = Observe(x, e.kind, N, 0)
      BY <1>1, <2>2 DEF ObserveStep, Ends, Observable
    <3>2. QED
      <4>1. Observed(x, y, e.kind, N, 0)
        BY <1>2, <1>3, <3>1, ObserveIs
      <4>2. QED
        BY <4>1 DEF Observed
  <2>3. QED
    BY <2>1, <2>2
<1>5. CallsTrue(y.spans, y.tools, more, U, begun, D, 0, 0)
  <2>1. 0 \notin DOMAIN x.spans /\ e.kind # "PreToolUse"
    BY <1>2, SeenSpans, Kinds
  <2>2. CallsTrue(y.spans, x.tools, more, U, begun, D, 0, 0)
    BY <1>1, <1>2, <1>4, <2>1, CallsTurn
  <2>3. QED
    BY <1>4, <2>2
<1>6. Pending(y)
  <2>1. Pending(x)
    BY DEF SeenTrue
  <2>2. \A id \in DOMAIN x.tools : y.spans[x.tools[id]].end = y.spans[x.tools[id]].start
    BY <1>2, <1>4, <2>1, StillPending, Zenon
  <2>3. QED
    BY <1>4, <2>2 DEF Pending
<1>7. QED
  BY <1>1, <1>4, <1>5, <1>6 DEF SeenTrue

\* The observations, with other open calls.
LEMMA SeenTools ==
  ASSUME NEW x, SeenShape(x), NEW to, to \in [DOMAIN to -> 1..Len(x.spans)],
         NEW y, y = [spans |-> x.spans, tools |-> to]
  PROVE  SeenShape(y) /\ y.spans = x.spans /\ y.tools = to
<1>1. y.spans = x.spans /\ y.tools = to
  OBVIOUS
<1>2. QED
  BY <1>1 DEF SeenShape

\* A call is announced.
LEMMA SeenAnnounces ==
  ASSUME NEW x, NEW evs \in Seq(EventType), NEW e \in EventType, NEW T \in Nat,
         NEW C \in Seq(Ids), NEW a \in Nat, SeenTrue(x, evs, T, TRUE, C, a, 0),
         LogTrue(evs, T, TRUE, C, a, 0), e.kind = "PreToolUse", e.turn = T, e.call = a + 1,
         e.id = C[a + 1]
  PROVE  SeenTrue(ObserveStep(x, Len(evs) + 1, e), Append(evs, e), T, TRUE, C, a + 1, 0)
<1>1. PICK y, N, more : N = Len(evs) + 1 /\ more = Append(evs, e) /\ y = ObserveStep(x, N, e)
  OBVIOUS
<1>2. SeenShape(x) /\ CallsTrue(x.spans, x.tools, evs, T, TRUE, C, a, 0)
  BY DEF SeenTrue
<1>3. N \in Nat /\ 0 \in Nat /\ "tool" \in Names /\ 0 \notin DOMAIN x.spans /\ a + 1 \in Nat
  BY <1>1, <1>2, SeenSpans DEF Names
<1>4. PICK z : z = Observe(x, "tool", N, 0)
  OBVIOUS
<1>5. PICK L : L = Len(x.spans) + 1
  OBVIOUS
<1>6. /\ SeenShape(z) /\ z.tools = x.tools /\ Kept(x.spans, z.spans, 0)
      /\ z = [spans |-> z.spans, tools |-> z.tools]
      /\ L \in 1..Len(z.spans) /\ L \in DOMAIN z.spans
      /\ z.spans[L].name = "tool" /\ z.spans[L].start = N /\ z.spans[L].end <= z.spans[L].start
      /\ z.spans[L].end = N
  <2>1. /\ SeenShape(z) /\ z.tools = x.tools /\ Kept(x.spans, z.spans, 0)
        /\ Len(z.spans) = L /\ z.spans[L] = [name |-> "tool", start |-> N, end |-> N, cost |-> 0]
    <3>1. Observed(x, z, "tool", N, 0)
      BY <1>2, <1>3, <1>4, ObserveIs
    <3>2. QED
      BY <1>5, <3>1 DEF Observed
  <2>2. L \in 1..Len(z.spans) /\ L \in DOMAIN z.spans
    BY <1>2, <1>5, <2>1, SeenSpans
  <2>3. z = [spans |-> z.spans, tools |-> z.tools]
    BY <2>1 DEF SeenShape
  <2>4. QED
    BY <1>3, <2>1, <2>2, <2>3
<1>7. \A id \in DOMAIN x.tools : z.spans[x.tools[id]].end = z.spans[x.tools[id]].start
  <2>1. Pending(x) /\ Kept(x.spans, z.spans, 0)
    BY <1>6 DEF SeenTrue
  <2>2. QED
    BY <1>2, <2>1, StillPending, Zenon
<1>8. CASE e.id = NoId
  <2>1. y = z
    <3>1. y = [z EXCEPT !.tools = z.tools]
      BY <1>1, <1>4, <1>8 DEF ObserveStep
    <3>2. PICK ss, to : ss = z.spans /\ to = z.tools
      OBVIOUS
    <3>3. z = [spans |-> ss, tools |-> to] /\ y = [z EXCEPT !.tools = to]
      BY <1>6, <3>1, <3>2
    <3>4. QED
      BY <3>3
  <2>2. CallsTrue(z.spans, x.tools, more, T, TRUE, C, a + 1, 0)
    BY <1>1, <1>2, <1>3, <1>6, <1>8, CallsUnseen
  <2>3. Pending(z)
    BY <1>6, <1>7 DEF Pending
  <2>4. QED
    BY <1>1, <1>6, <2>1, <2>2, <2>3 DEF SeenTrue
<1>9. CASE e.id # NoId
  <2>1. PICK tu : tu = WithTool(x.tools, e.id, L)
    OBVIOUS
  <2>2. y = [spans |-> z.spans, tools |-> tu]
    <3>1. y = [z EXCEPT !.tools = WithTool(@, e.id, L)]
      BY <1>1, <1>4, <1>5, <1>9 DEF ObserveStep
    <3>2. PICK ss, to : ss = z.spans /\ to = z.tools
      OBVIOUS
    <3>3. z = [spans |-> ss, tools |-> to] /\ y = [z EXCEPT !.tools = WithTool(to, e.id, L)]
      BY <1>6, <3>1, <3>2
    <3>4. y = [spans |-> ss, tools |-> WithTool(to, e.id, L)]
      BY <3>3
    <3>5. QED
      BY <1>6, <2>1, <3>2, <3>4
  <2>3. tu \in [DOMAIN tu -> 1..Len(z.spans)]
    <3>1. \A id \in DOMAIN x.tools : x.tools[id] \in 1..Len(z.spans)
      BY <1>6 DEF SeenShape
    <3>2. QED
      BY <1>6, <2>1, <3>1 DEF WithTool
  <2>4. SeenShape(y) /\ y.spans = z.spans /\ y.tools = tu
    BY <1>6, <2>2, <2>3, SeenTools
  <2>5. CallsTrue(y.spans, y.tools, more, T, TRUE, C, a + 1, 0)
    <3>1. PICK ss, zz, to : ss = x.spans /\ zz = z.spans /\ to = x.tools
      OBVIOUS
    <3>2. /\ CallsTrue(ss, to, evs, T, TRUE, C, a, 0) /\ Kept(ss, zz, 0) /\ 0 \notin DOMAIN ss
          /\ L \in DOMAIN zz /\ zz[L].name = "tool" /\ zz[L].start = Len(evs) + 1
          /\ zz[L].end <= zz[L].start /\ tu = WithTool(to, e.id, L)
      BY <1>1, <1>2, <1>3, <1>6, <2>1, <3>1
    <3>3. CallsTrue(zz, tu, Append(evs, e), T, TRUE, C, a + 1, 0)
      BY <1>9, <3>2, CallsOpen
    <3>4. QED
      BY <1>1, <2>4, <3>1, <3>3
  <2>6. Pending(y)
    <3>1. ASSUME NEW id \in DOMAIN tu PROVE z.spans[tu[id]].end = z.spans[tu[id]].start
      <4>1. tu[id] = (IF id = e.id THEN L ELSE x.tools[id]) /\ (id # e.id => id \in DOMAIN x.tools)
        BY <2>1 DEF WithTool
      <4>2. QED
        BY <1>6, <1>7, <4>1
    <3>2. QED
      BY <2>4, <3>1 DEF Pending
  <2>7. QED
    BY <1>1, <2>4, <2>5, <2>6 DEF SeenTrue
<1>10. QED
  BY <1>8, <1>9

\* A call is collected.
LEMMA SeenCollects ==
  ASSUME NEW x, NEW evs \in Seq(EventType), NEW e \in EventType, NEW T \in Nat,
         NEW C \in Seq(Ids), NEW a \in Nat, NEW c \in Nat, SeenTrue(x, evs, T, TRUE, C, a, c),
         LogTrue(evs, T, TRUE, C, a, c), e.kind = "PostToolUse", e.turn = T, e.call = c + 1,
         e.id = C[c + 1], c < a
  PROVE  SeenTrue(ObserveStep(x, Len(evs) + 1, e), Append(evs, e), T, TRUE, C, a, c + 1)
<1>1. PICK y, N, more : N = Len(evs) + 1 /\ more = Append(evs, e) /\ y = ObserveStep(x, N, e)
  OBVIOUS
<1>2. SeenShape(x) /\ CallsTrue(x.spans, x.tools, evs, T, TRUE, C, a, c)
  BY DEF SeenTrue
<1>3. N \in Nat /\ 0 \notin DOMAIN x.spans /\ c + 1 \in Nat
  BY <1>1, <1>2, SeenSpans
<1>4. CASE e.id \notin DOMAIN x.tools
  <2>1. y = x /\ Kept(x.spans, x.spans, 0)
    BY <1>1, <1>4 DEF ObserveStep, Kept
  <2>2. CallsTrue(x.spans, x.tools, more, T, TRUE, C, a, c + 1)
    BY <1>1, <1>2, <1>3, <1>4, <2>1, CallsUnseen
  <2>3. Pending(x)
    BY DEF SeenTrue
  <2>4. QED
    BY <1>1, <1>2, <2>1, <2>2, <2>3 DEF SeenTrue
<1>5. CASE e.id \in DOMAIN x.tools
  <2>1. PICK ss, to, w : ss = x.spans /\ to = x.tools /\ w = x.tools[e.id]
    OBVIOUS
  <2>2. /\ x = [spans |-> ss, tools |-> to] /\ ss \in Seq(SeenType)
        /\ to \in [DOMAIN to -> 1..Len(ss)] /\ w \in 1..Len(ss) /\ w = to[e.id]
    BY <1>2, <1>5, <2>1 DEF SeenShape
  <2>3. PICK s, r : s = ss[w] /\ r = [s EXCEPT !.end = N]
    OBVIOUS
  <2>4. s \in SeenType
    BY <2>2, <2>3
  <2>5. r.name = s.name /\ r.start = s.start /\ r.end = N /\ r.cost = s.cost /\ r \in SeenType
    BY <1>3, <2>3, <2>4 DEF SeenType
  <2>6. PICK zz, tu : zz = [ss EXCEPT ![w] = r] /\ tu = Without(to, e.id)
    OBVIOUS
  <2>7. y = [spans |-> zz, tools |-> tu]
    <3>1. y = [x EXCEPT !.spans[w].end = N, !.tools = Restrict(@, DOMAIN @ \ {e.id})]
      BY <1>1, <1>5, <2>1 DEF ObserveStep
    <3>2. y = [spans |-> [ss EXCEPT ![w].end = N], tools |-> Restrict(to, DOMAIN to \ {e.id})]
      BY <2>2, <3>1
    <3>3. [ss EXCEPT ![w].end = N] = zz
      BY <2>2, <2>3, <2>6
    <3>4. Restrict(to, DOMAIN to \ {e.id}) = tu
      BY <2>6 DEF Restrict, Without
    <3>5. QED
      BY <3>2, <3>3, <3>4
  <2>8. /\ zz \in Seq(SeenType) /\ Len(zz) = Len(ss) /\ zz[w] = r
        /\ \A i \in 1..Len(ss) : i # w => zz[i] = ss[i]
        /\ DOMAIN ss = 1..Len(ss) /\ DOMAIN zz = 1..Len(ss)
    BY <2>2, <2>5, <2>6
  <2>9. y.spans = zz /\ y.tools = tu /\ SeenShape(y)
    <3>1. y.spans = zz /\ y.tools = tu
      BY <2>7
    <3>2. tu \in [DOMAIN tu -> 1..Len(zz)]
      BY <2>2, <2>6, <2>8 DEF Without
    <3>3. QED
      BY <2>7, <2>8, <3>1, <3>2 DEF SeenShape
  <2>10. Kept(ss, zz, w)
    BY <2>8 DEF Kept
  <2>11. CallsTrue(ss, to, evs, T, TRUE, C, a, c) /\ \A i \in DOMAIN ss : ss[i].end \in Nat
    BY <1>2, <2>1, SeenSpans
  <2>12. /\ zz[w].name = "tool" /\ zz[w].start = ss[w].start /\ zz[w].end = Len(evs) + 1
         /\ e.id \in DOMAIN to
    <3>1. ss[w].name = "tool" /\ e.id \in DOMAIN to
      BY <1>5, <2>1, <2>2, <2>11 DEF CallsTrue
    <3>2. QED
      BY <1>1, <2>3, <2>5, <2>8, <3>1
  <2>13. CallsTrue(zz, tu, Append(evs, e), T, TRUE, C, a, c + 1)
    <3>1. /\ Kept(ss, zz, to[e.id]) /\ zz[to[e.id]].name = "tool"
          /\ zz[to[e.id]].start = ss[to[e.id]].start /\ zz[to[e.id]].end = Len(evs) + 1
      BY <2>2, <2>10, <2>12
    <3>2. QED
      BY <2>6, <2>11, <2>12, <3>1, CallsClose
  <2>14. Pending(y)
    <3>1. ASSUME NEW id \in DOMAIN tu PROVE zz[tu[id]].end = zz[tu[id]].start
      <4>1. id \in DOMAIN to /\ id # e.id /\ tu[id] = to[id]
        BY <2>6 DEF Without
      <4>2. /\ to[id] \in DOMAIN ss /\ evs[ss[to[id]].start].id = id
            /\ evs[ss[w].start].id = e.id
        BY <2>2, <2>11, <2>12, <4>1 DEF CallsTrue
      <4>3. to[id] # w
        BY <4>1, <4>2
      <4>4. ss[to[id]].end = ss[to[id]].start
        BY <2>1, <4>1 DEF SeenTrue, Pending
      <4>5. QED
        BY <2>8, <4>1, <4>2, <4>3, <4>4
    <3>2. QED
      BY <2>9, <3>1 DEF Pending
  <2>15. QED
    BY <1>1, <2>9, <2>13, <2>14 DEF SeenTrue
<1>6. QED
  BY <1>4, <1>5

-----------------------------------------------------------------------------
(* What is true of a kernel's log and its projections stays true.           *)

\* The bounds of the loops.
LEMMA FitsCounts ==
  ASSUME Fits, NEW k \in Spans
  PROVE  Counts(log[k], turn[k], Busy(k), calls[k], Announced(k), Collected(k))
<1>1. PICK n : n = Len(calls[k])
  OBVIOUS
<1>2. /\ turn[k] \in Nat /\ calls[k] \in Seq(Ids) /\ log[k] \in Seq(EventType)
      /\ n \in Nat /\ done[k] \in Nat
      /\ pc[k] \in {"announce", "collect"} => done[k] < n
  BY <1>1, Place
<1>3. Busy(k) \in BOOLEAN
  BY DEF Busy, Calls
<1>4. /\ Announced(k) \in 0..n /\ Collected(k) \in 0..Announced(k)
      /\ Collected(k) = 0 \/ Announced(k) = n
  BY <1>1, <1>2 DEF Announced, Collected
<1>5. ~Busy(k) => Announced(k) = 0
  BY DEF Busy, Calls, Announced
<1>6. QED
  BY <1>1, <1>2, <1>3, <1>4, <1>5 DEF Counts

\* With no call announced the message does not matter.
LEMMA TruthNoCalls ==
  ASSUME NEW evs, NEW T, NEW open, NEW C, NEW D, Truth(evs, T, open, C, 0, 0)
  PROVE  Truth(evs, T, open, D, 0, 0)
<1>1. PICK t, x : t = TreeOf(evs) /\ x = SeenOf(evs)
  OBVIOUS
<1>2. /\ LogTrue(evs, T, open, C, 0, 0) /\ TreeTrue(t, evs, T, open, C, 0, 0)
      /\ SeenTrue(x, evs, T, open, C, 0, 0)
  BY <1>1 DEF Truth
<1>3. LogTrue(evs, T, open, D, 0, 0)
  BY <1>2, LogNoCalls
<1>4. TreeTrue(t, evs, T, open, D, 0, 0)
  BY <1>2, CallsNoCalls DEF TreeTrue
<1>5. SeenTrue(x, evs, T, open, D, 0, 0)
  BY <1>2, CallsNoCalls DEF SeenTrue
<1>6. QED
  BY <1>1, <1>3, <1>4, <1>5 DEF Truth

\* An event beside the turns.
LEMMA TruthMentions ==
  ASSUME NEW evs \in Seq(EventType), NEW e \in EventType, NEW T \in Nat, NEW open \in BOOLEAN,
         NEW C \in Seq(Ids), NEW a \in Nat, NEW c \in Nat, a <= Len(C), c <= a,
         Truth(evs, T, open, C, a, c), e.kind \in Others, e.turn = T
  PROVE  Truth(Append(evs, e), T, open, C, a, c)
<1>1. /\ LogTrue(evs, T, open, C, a, c) /\ TreeTrue(TreeOf(evs), evs, T, open, C, a, c)
      /\ SeenTrue(SeenOf(evs), evs, T, open, C, a, c)
  BY DEF Truth
<1>2. LogTrue(Append(evs, e), T, open, C, a, c)
  BY <1>1, LogMentions
<1>3. TreeTrue(TreeStep(TreeOf(evs), Len(evs) + 1, e), Append(evs, e), T, open, C, a, c)
  BY <1>1, TreeMentions
<1>4. SeenTrue(ObserveStep(SeenOf(evs), Len(evs) + 1, e), Append(evs, e), T, open, C, a, c)
  BY <1>1, SeenMentions
<1>5. QED
  BY <1>2, <1>3, <1>4, TreeGrows, SeenGrows DEF Truth

\* A turn begins.
LEMMA TruthBegins ==
  ASSUME NEW evs \in Seq(EventType), NEW e \in EventType, NEW T \in Nat, NEW C \in Seq(Ids),
         Truth(evs, T, FALSE, C, 0, 0), e.kind = "TurnStarted", e.turn = T + 1, e.call = 0
  PROVE  Truth(Append(evs, e), T + 1, TRUE, C, 0, 0)
<1>1. /\ LogTrue(evs, T, FALSE, C, 0, 0) /\ TreeTrue(TreeOf(evs), evs, T, FALSE, C, 0, 0)
      /\ SeenTrue(SeenOf(evs), evs, T, FALSE, C, 0, 0)
  BY DEF Truth
<1>2. 0 \in Nat /\ 0 <= Len(C) /\ 0 <= 0 /\ FALSE \in BOOLEAN
  OBVIOUS
<1>3. LogTrue(Append(evs, e), T + 1, TRUE, C, 0, 0)
  BY <1>1, <1>2, LogBegins
<1>4. TreeTrue(TreeStep(TreeOf(evs), Len(evs) + 1, e), Append(evs, e), T + 1, TRUE, C, 0, 0)
  BY <1>1, TreeBegins
<1>5. SeenTrue(ObserveStep(SeenOf(evs), Len(evs) + 1, e), Append(evs, e), T + 1, TRUE, C, 0, 0)
  BY <1>1, <1>2, SeenTurns
<1>6. QED
  BY <1>3, <1>4, <1>5, TreeGrows, SeenGrows DEF Truth

\* A turn ends.
LEMMA TruthFinishes ==
  ASSUME NEW evs \in Seq(EventType), NEW e \in EventType, NEW T \in Nat, NEW C \in Seq(Ids),
         NEW a \in Nat, a <= Len(C), Truth(evs, T, TRUE, C, a, a), e.kind \in Ends, e.turn = T,
         e.call = 0, NEW D
  PROVE  Truth(Append(evs, e), T, FALSE, D, 0, 0)
<1>1. /\ LogTrue(evs, T, TRUE, C, a, a) /\ TreeTrue(TreeOf(evs), evs, T, TRUE, C, a, a)
      /\ SeenTrue(SeenOf(evs), evs, T, TRUE, C, a, a)
  BY DEF Truth
<1>2. a <= a /\ TRUE \in BOOLEAN /\ e.kind \in Ends \cup {"TurnStarted"}
  OBVIOUS
<1>3. LogTrue(Append(evs, e), T, FALSE, D, 0, 0)
  BY <1>1, <1>2, LogFinishes, LogNoCalls
<1>4. TreeTrue(TreeStep(TreeOf(evs), Len(evs) + 1, e), Append(evs, e), T, FALSE, D, 0, 0)
  BY <1>1, TreeFinishes
<1>5. SeenTrue(ObserveStep(SeenOf(evs), Len(evs) + 1, e), Append(evs, e), T, FALSE, D, 0, 0)
  BY <1>1, <1>2, SeenTurns
<1>6. QED
  BY <1>3, <1>4, <1>5, TreeGrows, SeenGrows DEF Truth

\* A call is announced.
LEMMA TruthAnnounces ==
  ASSUME NEW evs \in Seq(EventType), NEW e \in EventType, NEW T \in Nat, NEW C \in Seq(Ids),
         NEW a \in Nat, a < Len(C), Truth(evs, T, TRUE, C, a, 0), e.kind = "PreToolUse",
         e.turn = T, e.call = a + 1, e.id = C[a + 1]
  PROVE  Truth(Append(evs, e), T, TRUE, C, a + 1, 0)
<1>1. /\ LogTrue(evs, T, TRUE, C, a, 0) /\ TreeTrue(TreeOf(evs), evs, T, TRUE, C, a, 0)
      /\ SeenTrue(SeenOf(evs), evs, T, TRUE, C, a, 0)
  BY DEF Truth
<1>2. 0 \in Nat /\ a <= Len(C) /\ 0 <= a /\ TRUE \in BOOLEAN
  OBVIOUS
<1>3. LogTrue(Append(evs, e), T, TRUE, C, a + 1, 0)
  BY <1>1, <1>2, LogAnnounces
<1>4. TreeTrue(TreeStep(TreeOf(evs), Len(evs) + 1, e), Append(evs, e), T, TRUE, C, a + 1, 0)
  BY <1>1, TreeAnnounces
<1>5. SeenTrue(ObserveStep(SeenOf(evs), Len(evs) + 1, e), Append(evs, e), T, TRUE, C, a + 1, 0)
  BY <1>1, SeenAnnounces
<1>6. QED
  BY <1>3, <1>4, <1>5, TreeGrows, SeenGrows DEF Truth

\* A call is collected.
LEMMA TruthCollects ==
  ASSUME NEW evs \in Seq(EventType), NEW e \in EventType, NEW T \in Nat, NEW C \in Seq(Ids),
         NEW a \in Nat, NEW c \in Nat, a <= Len(C), c < a, Truth(evs, T, TRUE, C, a, c),
         e.kind = "PostToolUse", e.turn = T, e.call = c + 1, e.id = C[c + 1]
  PROVE  Truth(Append(evs, e), T, TRUE, C, a, c + 1)
<1>1. /\ LogTrue(evs, T, TRUE, C, a, c) /\ TreeTrue(TreeOf(evs), evs, T, TRUE, C, a, c)
      /\ SeenTrue(SeenOf(evs), evs, T, TRUE, C, a, c)
  BY DEF Truth
<1>2. c <= a /\ TRUE \in BOOLEAN
  OBVIOUS
<1>3. LogTrue(Append(evs, e), T, TRUE, C, a, c + 1)
  BY <1>1, <1>2, LogCollects
<1>4. TreeTrue(TreeStep(TreeOf(evs), Len(evs) + 1, e), Append(evs, e), T, TRUE, C, a, c + 1)
  BY <1>1, TreeCollects
<1>5. SeenTrue(ObserveStep(SeenOf(evs), Len(evs) + 1, e), Append(evs, e), T, TRUE, C, a, c + 1)
  BY <1>1, SeenCollects
<1>6. QED
  BY <1>3, <1>4, <1>5, TreeGrows, SeenGrows DEF Truth

\* What is so of the event that a kernel writes.
Writes(k, kind, call, e) ==
  /\ e \in EventType /\ e.kind = kind /\ e.turn = turn'[k] /\ e.call = call
  /\ call # 0 => e.id = calls[k][call]
  /\ log'[k] = Append(log[k], e)

\* The event that a kernel writes.
LEMMA Written ==
  ASSUME Fits, Fits', NEW k \in Spans, NEW kind, NEW call, NEW cost, Wrote(k, kind, call, cost),
         NEW e, e = Event(k, kind, call, cost)
  PROVE  Writes(k, kind, call, e)
<1>1. log'[k] = Append(log[k], e)
  BY DEF Wrote
<1>2. e \in EventType
  <2>1. PICK n, more, evs : n = Len(log[k]) /\ more = log'[k] /\ evs = log[k]
    OBVIOUS
  <2>2. more \in Seq(EventType) /\ evs \in Seq(EventType)
    BY <2>1 DEF Fits, LoopTyped
  <2>3. n \in Nat /\ Len(more) = n + 1 /\ more[n + 1] = e
    BY <1>1, <2>1, <2>2
  <2>4. QED
    BY <2>2, <2>3
<1>3. QED
  BY <1>1, <1>2 DEF Event, Writes

\* Whatever a kernel does, its log and its projections are true.
LEMMA MovesTrue ==
  ASSUME Fits, Fits', NEW k \in Spans, Moves(k), True(k)
  PROVE  True(k)'
<1>1. PICK evs, T, open, C, a, c :
        /\ evs = log[k] /\ T = turn[k] /\ open = Busy(k) /\ C = calls[k]
        /\ a = Announced(k) /\ c = Collected(k)
  OBVIOUS
<1>2. PICK evs1, T1, open1, C1, a1, c1 :
        /\ evs1 = log'[k] /\ T1 = turn'[k] /\ open1 = Busy(k)' /\ C1 = calls'[k]
        /\ a1 = Announced(k)' /\ c1 = Collected(k)'
  OBVIOUS
<1>3. /\ evs \in Seq(EventType) /\ T \in Nat /\ open \in BOOLEAN /\ C \in Seq(Ids)
      /\ Len(C) \in Nat /\ a \in Nat /\ c \in Nat /\ a <= Len(C) /\ c <= a
      /\ (~open => a = 0)
  <2>1. Counts(evs, T, open, C, a, c)
    BY <1>1, FitsCounts
  <2>2. QED
    BY <2>1 DEF Counts
<1>4. open1 \in BOOLEAN
  BY <1>2 DEF Busy, Calls
<1>5. Truth(evs, T, open, C, a, c)
  BY <1>1 DEF True
<1>6. Truth(evs1, T1, open1, C1, a1, c1) => True(k)'
  BY <1>2 DEF True
<1>7. ASSUME NEW s, Truth(s, T, open, C, a, c), C1 = C \/ a = 0
      PROVE  Truth(s, T, open, C1, a, c)
  <2>1. CASE C1 = C
    BY <1>7, <2>1
  <2>2. CASE a = 0
    <3>1. a = 0 /\ c = 0
      BY <1>3, <2>2
    <3>2. QED
      BY <1>7, <3>1, TruthNoCalls
  <2>3. QED
    BY <1>7, <2>1, <2>2
<1>8. ASSUME Holds(k) PROVE T1 = T /\ open1 = open /\ a1 = a /\ c1 = c /\ (C1 = C \/ a = 0)
  BY <1>1, <1>2, <1>3, <1>4, <1>8 DEF Holds
<1>9. CASE Rests(k)
  <2>1. evs1 = evs /\ Holds(k)
    BY <1>1, <1>2, <1>9 DEF Rests
  <2>2. QED
    BY <1>5, <1>6, <1>7, <1>8, <2>1
<1>10. CASE Mentions(k)
  <2>1. PICK kind \in Others : Holds(k) /\ Wrote(k, kind, 0, 0)
    BY <1>10 DEF Mentions
  <2>2. PICK e : e = Event(k, kind, 0, 0)
    OBVIOUS
  <2>3. e \in EventType /\ e.kind \in Others /\ e.turn = T /\ evs1 = Append(evs, e)
    <3>1. Writes(k, kind, 0, e)
      BY <2>1, <2>2, Written
    <3>2. QED
      BY <1>1, <1>2, <1>8, <2>1, <3>1 DEF Writes
  <2>4. Truth(evs1, T, open, C, a, c)
    BY <1>3, <1>5, <2>3, TruthMentions
  <2>5. QED
    BY <1>6, <1>7, <1>8, <2>1, <2>4
<1>11. CASE Begins(k)
  <2>1. /\ open = FALSE /\ open1 = TRUE /\ T1 = T + 1 /\ C1 = C /\ a = 0 /\ c = 0
        /\ a1 = 0 /\ c1 = 0 /\ Wrote(k, "TurnStarted", 0, 0)
    BY <1>1, <1>2, <1>3, <1>4, <1>11 DEF Begins
  <2>2. PICK e : e = Event(k, "TurnStarted", 0, 0)
    OBVIOUS
  <2>3. /\ e \in EventType /\ e.kind = "TurnStarted" /\ e.turn = T + 1 /\ e.call = 0
        /\ evs1 = Append(evs, e)
    <3>1. Writes(k, "TurnStarted", 0, e)
      BY <2>1, <2>2, Written
    <3>2. QED
      BY <1>1, <1>2, <2>1, <3>1 DEF Writes
  <2>4. Truth(evs, T, FALSE, C, 0, 0)
    BY <1>5, <2>1
  <2>5. Truth(Append(evs, e), T + 1, TRUE, C, 0, 0)
    BY <1>3, <2>3, <2>4, TruthBegins
  <2>6. QED
    BY <1>6, <2>1, <2>3, <2>5
<1>12. CASE Finishes(k)
  <2>1. PICK kind \in Ends, cost \in Nat : Wrote(k, kind, 0, cost)
    BY <1>12 DEF Finishes
  <2>2. /\ open = TRUE /\ open1 = FALSE /\ T1 = T /\ c = a /\ a1 = 0 /\ c1 = 0
    BY <1>1, <1>2, <1>3, <1>4, <1>12 DEF Finishes
  <2>3. PICK e : e = Event(k, kind, 0, cost)
    OBVIOUS
  <2>4. /\ e \in EventType /\ e.kind \in Ends /\ e.turn = T /\ e.call = 0
        /\ evs1 = Append(evs, e)
    <3>1. Writes(k, kind, 0, e)
      BY <2>1, <2>3, Written
    <3>2. QED
      BY <1>1, <1>2, <2>1, <2>2, <3>1 DEF Writes
  <2>5. Truth(evs, T, TRUE, C, a, a)
    BY <1>5, <2>2
  <2>6. Truth(Append(evs, e), T, FALSE, C1, 0, 0)
    BY <1>3, <2>4, <2>5, TruthFinishes
  <2>7. QED
    BY <1>6, <2>2, <2>4, <2>6
<1>13. CASE Announces(k)
  <2>1. /\ open = TRUE /\ open1 = TRUE /\ T1 = T /\ C1 = C /\ a < Len(C) /\ c = 0
        /\ a1 = a + 1 /\ c1 = 0 /\ Wrote(k, "PreToolUse", a + 1, 0)
    BY <1>1, <1>2, <1>3, <1>4, <1>13 DEF Announces
  <2>2. PICK e : e = Event(k, "PreToolUse", a + 1, 0)
    OBVIOUS
  <2>3. /\ e \in EventType /\ e.kind = "PreToolUse" /\ e.turn = T /\ e.call = a + 1
        /\ e.id = C[a + 1] /\ evs1 = Append(evs, e)
    <3>1. a + 1 # 0
      BY <1>3
    <3>2. Writes(k, "PreToolUse", a + 1, e)
      BY <2>1, <2>2, Written
    <3>3. QED
      BY <1>1, <1>2, <2>1, <3>1, <3>2 DEF Writes
  <2>4. Truth(evs, T, TRUE, C, a, 0)
    BY <1>5, <2>1
  <2>5. Truth(Append(evs, e), T, TRUE, C, a + 1, 0)
    BY <1>3, <2>1, <2>3, <2>4, TruthAnnounces
  <2>6. QED
    BY <1>6, <2>1, <2>3, <2>5
<1>14. CASE Collects(k)
  <2>1. /\ open = TRUE /\ open1 = TRUE /\ T1 = T /\ C1 = C /\ a = Len(C) /\ c < a
        /\ a1 = a /\ c1 = c + 1 /\ Wrote(k, "PostToolUse", c + 1, 0)
    BY <1>1, <1>2, <1>3, <1>4, <1>14 DEF Collects
  <2>2. PICK e : e = Event(k, "PostToolUse", c + 1, 0)
    OBVIOUS
  <2>3. /\ e \in EventType /\ e.kind = "PostToolUse" /\ e.turn = T /\ e.call = c + 1
        /\ e.id = C[c + 1] /\ evs1 = Append(evs, e)
    <3>1. c + 1 # 0
      BY <1>3
    <3>2. Writes(k, "PostToolUse", c + 1, e)
      BY <2>1, <2>2, Written
    <3>3. QED
      BY <1>1, <1>2, <2>1, <3>1, <3>2 DEF Writes
  <2>4. Truth(evs, T, TRUE, C, a, c)
    BY <1>5, <2>1
  <2>5. Truth(Append(evs, e), T, TRUE, C, a, c + 1)
    BY <1>3, <2>1, <2>3, <2>4, TruthCollects
  <2>6. QED
    BY <1>6, <2>1, <2>3, <2>5
<1>15. QED
  BY <1>9, <1>10, <1>11, <1>12, <1>13, <1>14 DEF Moves

\* It is true when nothing has happened.
LEMMA NothingTrue ==
  ASSUME Init, NEW k \in Spans
  PROVE  True(k)
<1>1. /\ log[k] = <<>> /\ turn[k] = 0 /\ Busy(k) = FALSE /\ calls[k] = <<>>
      /\ Announced(k) = 0 /\ Collected(k) = 0
  BY DEF Init, Busy, Calls, Announced, Collected
<1>2. DOMAIN <<>> = {} /\ 1..0 = {} /\ Len(<<>>) = 0
  OBVIOUS
<1>3. PICK none, open : none = <<>> /\ open = FALSE
  OBVIOUS
<1>4. DOMAIN none = {} /\ Hanging(none, 0, 0) = {}
  BY <1>2, <1>3, HangingNone
<1>5. LogTrue(none, 0, open, none, 0, 0)
  BY <1>3, <1>4 DEF LogTrue
<1>6. TreeTrue(EmptyTree, none, 0, open, none, 0, 0)
  <2>1. PICK s, to : s = NewSpan("kernel.run", 0, 0, <<>>) /\ to = [id \in {} |-> 0]
    OBVIOUS
  <2>2. s.name = "kernel.run" /\ DOMAIN to = {}
    BY <2>1 DEF NewSpan
  <2>3. EmptyTree = [spans |-> <<s>>, turn |-> 1, tools |-> to]
    BY <2>1 DEF EmptyTree
  <2>4. EmptyTree.spans = <<s>> /\ EmptyTree.turn = 1 /\ EmptyTree.tools = to
    BY <2>3
  <2>5. \A i \in DOMAIN EmptyTree.spans : EmptyTree.spans[i].name = "kernel.run"
    BY <2>2, <2>4
  <2>6. TurnsTrue(EmptyTree, none, 0, open)
    BY <1>3, <2>4, <2>5 DEF TurnsTrue, IsTurn
  <2>7. ToolsTrue(EmptyTree, none)
    BY <2>2, <2>4, <2>5 DEF ToolsTrue
  <2>8. CallsTrue(EmptyTree.spans, EmptyTree.tools, none, 0, open, none, 0, 0)
    BY <1>4, <2>2, <2>4 DEF CallsTrue
  <2>9. QED
    BY <2>6, <2>7, <2>8, EmptyPlaced DEF TreeTrue
<1>7. SeenTrue(NothingSeen, none, 0, open, none, 0, 0)
  <2>1. PICK to : to = [id \in {} |-> 0]
    OBVIOUS
  <2>2. NothingSeen = [spans |-> none, tools |-> to] /\ DOMAIN to = {}
    BY <1>3, <2>1 DEF NothingSeen
  <2>3. NothingSeen.spans = none /\ NothingSeen.tools = to
    BY <2>2
  <2>4. none \in Seq(SeenType) /\ to \in [DOMAIN to -> 1..Len(none)]
    BY <1>3, <2>1, <2>2
  <2>5. SeenShape(NothingSeen)
    BY <2>2, <2>3, <2>4 DEF SeenShape
  <2>6. CallsTrue(NothingSeen.spans, NothingSeen.tools, none, 0, open, none, 0, 0)
    BY <1>4, <2>2, <2>3 DEF CallsTrue
  <2>7. QED
    BY <2>2, <2>3, <2>5, <2>6 DEF SeenTrue, Pending
<1>8. Truth(none, 0, open, none, 0, 0)
  BY <1>3, <1>5, <1>6, <1>7, TreeOfNone, SeenOfNone DEF Truth
<1>9. QED
  BY <1>1, <1>3, <1>8 DEF True

-----------------------------------------------------------------------------
(* The projections tell the truth.                                          *)

\* The event that ends what n began, when there is one and no other.
LEMMA EndingIs ==
  ASSUME NEW k \in Spans, log[k] \in Seq(EventType), NEW n \in DOMAIN log[k], NEW kinds,
         NEW m \in n + 1..Len(log[k]), Is(log[k], m, kinds), Paired(log[k], m, n),
         \A h \in DOMAIN log[k] : Is(log[k], h, kinds) /\ Paired(log[k], h, n) => h = m
  PROVE  Ending(k, n, kinds) = m
<1>1. PICK later : later = {h \in n + 1..Len(log[k]) :
                      /\ log[k][h].kind \in kinds
                      /\ log[k][h].turn = log[k][n].turn /\ log[k][h].call = log[k][n].call}
  OBVIOUS
<1>2. n \in Nat /\ n >= 1 /\ Len(log[k]) \in Nat /\ DOMAIN log[k] = 1..Len(log[k])
  OBVIOUS
<1>3. \A h \in n + 1..Len(log[k]) : h \in DOMAIN log[k]
  BY <1>2
<1>4. m \in later /\ \A h \in later : h = m
  BY <1>1, <1>3 DEF Is, Paired, Turned
<1>5. Ending(k, n, kinds) = IF later = {} THEN 0 ELSE CHOOSE h \in later : TRUE
  BY <1>1 DEF Ending
<1>6. QED
  BY <1>4, <1>5

\* When there is none.
LEMMA EndingNone ==
  ASSUME NEW k \in Spans, log[k] \in Seq(EventType), NEW n \in DOMAIN log[k], NEW kinds,
         \A h \in DOMAIN log[k] : ~(Is(log[k], h, kinds) /\ Paired(log[k], h, n))
  PROVE  Ending(k, n, kinds) = 0
<1>1. PICK later : later = {h \in n + 1..Len(log[k]) :
                      /\ log[k][h].kind \in kinds
                      /\ log[k][h].turn = log[k][n].turn /\ log[k][h].call = log[k][n].call}
  OBVIOUS
<1>2. n \in Nat /\ n >= 1 /\ Len(log[k]) \in Nat /\ DOMAIN log[k] = 1..Len(log[k])
  OBVIOUS
<1>3. \A h \in n + 1..Len(log[k]) : h \in DOMAIN log[k]
  BY <1>2
<1>4. later = {}
  BY <1>1, <1>3 DEF Is, Paired, Turned
<1>5. Ending(k, n, kinds) = IF later = {} THEN 0 ELSE CHOOSE h \in later : TRUE
  BY <1>1 DEF Ending
<1>6. QED
  BY <1>4, <1>5

\* What TreeIsTrue says of the turns and of the calls of a kernel.
TellsTurn(k, spans, i, n, end) ==
  /\ log[k][n].kind = "TurnStarted" /\ spans[i].parent = 1
  /\ end = Ending(k, n, {"TurnCompleted", "TurnFailed"})
  /\ spans[i].cost = IF end = 0 THEN 0 ELSE log[k][end].cost

TellsCall(k, spans, observations, n, result) ==
  /\ \E i \in DOMAIN spans :
       LET parent == spans[spans[i].parent] IN
       /\ spans[i].name = "tool" /\ spans[i].start = n /\ spans[i].end = result
       /\ parent.name = "llm.step"
       /\ log[k][parent.start].turn = log[k][n].turn
       /\ parent.end # 0 => result \in n..parent.end
  /\ \E i \in DOMAIN observations :
       /\ observations[i].start = n
       /\ observations[i].end = IF result = 0 THEN n ELSE result

TellsAll(k, spans, observations) ==
  /\ \A i \in DOMAIN spans : spans[i].name = "llm.step" =>
       TellsTurn(k, spans, i, spans[i].start, spans[i].end)
  /\ \A n \in DOMAIN log[k] : log[k][n].kind = "PreToolUse" /\ Distinct(k, n) =>
       TellsCall(k, spans, observations, n, Ending(k, n, {"PostToolUse"}))

\* The span of a turn ends as the turn did.
LEMMA TurnTold ==
  ASSUME NEW k \in Spans, log[k] \in Seq(EventType), NEW T, NEW open \in BOOLEAN, NEW C, NEW a,
         NEW c, LogTrue(log[k], T, open, C, a, c), NEW t, TreeShape(t),
         TurnsTrue(t, log[k], T, open), NEW i \in DOMAIN t.spans, t.spans[i].name = "llm.step",
         NEW n, n = t.spans[i].start, NEW end, end = t.spans[i].end
  PROVE  TellsTurn(k, t.spans, i, n, end)
<1>1. PICK evs : evs = log[k]
  OBVIOUS
<1>2. /\ n \in DOMAIN evs /\ Is(evs, n, {"TurnStarted"}) /\ t.spans[i].parent = 1
      /\ i # t.turn => /\ end \in n + 1..Len(evs) /\ Is(evs, end, Ends) /\ Paired(evs, end, n)
                       /\ t.spans[i].cost = evs[end].cost
  BY <1>1 DEF TurnsTrue, IsTurn
<1>3. n \in Nat /\ Len(evs) \in Nat /\ evs[n].kind = "TurnStarted" /\ Ends = {"TurnCompleted", "TurnFailed"}
  BY <1>1, <1>2 DEF Is, Ends
<1>4. CASE i # t.turn
  <2>1. end \in DOMAIN evs /\ end # 0
    BY <1>1, <1>2, <1>3, <1>4
  <2>2. ASSUME NEW h \in DOMAIN evs, Is(evs, h, Ends), Paired(evs, h, n) PROVE h = end
    <3>1. Is(evs, end, Ends) /\ Turned(evs, h, end)
      BY <1>2, <1>4, <2>2 DEF Paired, Turned
    <3>2. QED
      BY <1>1, <2>1, <2>2, <3>1 DEF LogTrue
  <2>3. Ending(k, n, Ends) = end
    BY <1>1, <1>2, <1>4, <2>2, EndingIs
  <2>4. QED
    BY <1>1, <1>2, <1>3, <1>4, <2>1, <2>3 DEF TellsTurn
<1>5. CASE i = t.turn
  <2>1. i # 1
    BY SpansOf
  <2>2. open /\ end = 0 /\ t.spans[i].cost = 0 /\ evs[n].turn = T
    BY <1>1, <1>5, <2>1 DEF TurnsTrue
  <2>3. \A h \in DOMAIN evs : ~(Is(evs, h, Ends) /\ Paired(evs, h, n))
    BY <1>1, <2>2 DEF LogTrue, Paired, Turned
  <2>4. Ending(k, n, Ends) = 0
    BY <1>1, <1>2, <2>3, EndingNone
  <2>5. QED
    BY <1>1, <1>2, <1>3, <2>2, <2>4 DEF TellsTurn
<1>6. QED
  BY <1>4, <1>5

\* A projection has the result of a call, or it waits.
Resulted(ss, to, open, evs, n, result) ==
  \E i \in DOMAIN ss :
    /\ ss[i].name = "tool" /\ ss[i].start = n
    /\ \/ result = ss[i].end /\ result \in n + 1..Len(evs)
       \/ result = 0 /\ open /\ evs[n].id \in DOMAIN to /\ to[evs[n].id] = i

\* A projection that is true has it.
LEMMA CallTold ==
  ASSUME NEW k \in Spans, log[k] \in Seq(EventType), NEW T \in Nat, NEW open \in BOOLEAN, NEW C,
         NEW a \in Nat, NEW c \in Nat, LogTrue(log[k], T, open, C, a, c), NEW ss, NEW to,
         CallsTrue(ss, to, log[k], T, open, C, a, c), NEW n \in DOMAIN log[k], Alone(log[k], n),
         NEW result, result = Ending(k, n, {"PostToolUse"})
  PROVE  Resulted(ss, to, open, log[k], n, result)
<1>1. PICK evs : evs = log[k]
  OBVIOUS
<1>2. PICK i \in DOMAIN ss :
        /\ ss[i].name = "tool" /\ ss[i].start = n
        /\ \/ /\ open /\ evs[n].turn = T /\ evs[n].call > c
              /\ evs[n].id \in DOMAIN to /\ to[evs[n].id] = i
           \/ Answers(evs, n, ss[i].end)
  BY <1>1 DEF CallsTrue
<1>3. CASE Answers(evs, n, ss[i].end)
  <2>1. PICK m : m = ss[i].end
    OBVIOUS
  <2>2. m \in n + 1..Len(evs) /\ Is(evs, m, {"PostToolUse"}) /\ Paired(evs, m, n)
    BY <1>3, <2>1 DEF Answers
  <2>3. n \in Nat /\ n >= 1 /\ m \in DOMAIN evs
    BY <1>1, <2>2
  <2>4. ASSUME NEW h \in DOMAIN evs, Is(evs, h, {"PostToolUse"}), Paired(evs, h, n) PROVE h = m
    <3>1. Paired(evs, h, m)
      BY <2>2, <2>4 DEF Paired, Turned
    <3>2. QED
      BY <1>1, <2>2, <2>3, <2>4, <3>1 DEF LogTrue
  <2>5. Ending(k, n, {"PostToolUse"}) = m
    BY <1>1, <2>2, <2>4, EndingIs
  <2>6. QED
    BY <1>1, <1>2, <2>1, <2>2, <2>5 DEF Resulted
<1>4. CASE open /\ evs[n].turn = T /\ evs[n].call > c /\ evs[n].id \in DOMAIN to
           /\ to[evs[n].id] = i
  <2>1. ASSUME NEW h \in DOMAIN evs, Is(evs, h, {"PostToolUse"}), Paired(evs, h, n) PROVE FALSE
    <3>1. evs[h].turn = T /\ evs[h].call = evs[n].call
      BY <1>4, <2>1 DEF Paired, Turned
    <3>2. evs[h].call \in 1..c
      BY <1>1, <1>4, <2>1, <3>1 DEF LogTrue
    <3>3. QED
      BY <1>4, <3>1, <3>2
  <2>2. Ending(k, n, {"PostToolUse"}) = 0
    BY <1>1, <2>1, EndingNone
  <2>3. QED
    BY <1>1, <1>2, <1>4, <2>2 DEF Resulted
<1>5. QED
  BY <1>2, <1>3, <1>4

\* Both projections of a kernel tell what happened.
LEMMA TrueTells ==
  ASSUME Fits, NEW k \in Spans, True(k)
  PROVE  TellsAll(k, SpanTree(k), Observations(k))
<1> DEFINE spans == SpanTree(k)
           observations == Observations(k)
<1>1. PICK evs, T, open, C, a, c :
        /\ evs = log[k] /\ T = turn[k] /\ open = Busy(k) /\ C = calls[k]
        /\ a = Announced(k) /\ c = Collected(k)
  OBVIOUS
<1>2. PICK t, x : t = TreeOf(evs) /\ x = SeenOf(evs)
  OBVIOUS
<1>3. evs \in Seq(EventType) /\ T \in Nat /\ open \in BOOLEAN /\ a \in Nat /\ c \in Nat
  <2>1. Counts(evs, T, open, C, a, c)
    BY <1>1, FitsCounts
  <2>2. QED
    BY <2>1 DEF Counts
<1>4. /\ LogTrue(evs, T, open, C, a, c) /\ TreeTrue(t, evs, T, open, C, a, c)
      /\ SeenTrue(x, evs, T, open, C, a, c)
  BY <1>1, <1>2 DEF True, Truth
<1>5. spans = t.spans /\ observations = x.spans
  BY <1>1, <1>2 DEF SpanTree, Observations
<1>6. /\ TreeShape(t) /\ TurnsTrue(t, evs, T, open) /\ ToolsTrue(t, evs)
      /\ CallsTrue(t.spans, t.tools, evs, T, open, C, a, c)
      /\ CallsTrue(x.spans, x.tools, evs, T, open, C, a, c) /\ Pending(x)
  BY <1>4 DEF TreeTrue, SeenTrue
<1> HIDE DEF spans, observations
<1>7. ASSUME NEW i \in DOMAIN spans, spans[i].name = "llm.step", NEW n, n = spans[i].start,
             NEW end, end = spans[i].end
      PROVE  TellsTurn(k, spans, i, n, end)
  <2>1. i \in DOMAIN t.spans /\ t.spans[i].name = "llm.step" /\ n = t.spans[i].start /\ end = t.spans[i].end
    BY <1>5, <1>7
  <2>2. log[k] \in Seq(EventType) /\ LogTrue(log[k], T, open, C, a, c) /\ TurnsTrue(t, log[k], T, open)
    BY <1>1, <1>3, <1>4, <1>6
  <2>3. QED
    <3>1. TellsTurn(k, t.spans, i, n, end)
      BY <1>3, <1>6, <2>1, <2>2, TurnTold
    <3>2. QED
      BY <1>5, <3>1
<1>8. ASSUME NEW n \in DOMAIN evs, evs[n].kind = "PreToolUse", Distinct(k, n), NEW result,
             result = Ending(k, n, {"PostToolUse"})
      PROVE  TellsCall(k, spans, observations, n, result)
  <2>1. Alone(evs, n)
    BY <1>1, <1>8 DEF Distinct, Alone, Is, Turned
  <2>2. n \in Nat /\ n >= 1 /\ Len(evs) \in Nat
    BY <1>3
  <2>3. PICK i \in DOMAIN t.spans :
          /\ t.spans[i].name = "tool" /\ t.spans[i].start = n
          /\ \/ result = t.spans[i].end /\ result \in n + 1..Len(evs)
             \/ /\ result = 0 /\ open /\ evs[n].id \in DOMAIN t.tools
                /\ t.tools[evs[n].id] = i
    <3>1. /\ LogTrue(log[k], T, open, C, a, c) /\ log[k] \in Seq(EventType)
          /\ CallsTrue(t.spans, t.tools, log[k], T, open, C, a, c)
          /\ n \in DOMAIN log[k] /\ Alone(log[k], n)
      BY <1>1, <1>3, <1>4, <1>6, <1>8, <2>1
    <3>2. Resulted(t.spans, t.tools, open, log[k], n, result)
      BY <1>3, <1>8, <3>1, CallTold
    <3>3. QED
      BY <1>1, <3>2 DEF Resulted
  <2>4. PICK j \in DOMAIN x.spans :
          /\ x.spans[j].name = "tool" /\ x.spans[j].start = n
          /\ \/ result = x.spans[j].end /\ result \in n + 1..Len(evs)
             \/ /\ result = 0 /\ open /\ evs[n].id \in DOMAIN x.tools
                /\ x.tools[evs[n].id] = j
    <3>1. /\ LogTrue(log[k], T, open, C, a, c) /\ log[k] \in Seq(EventType)
          /\ CallsTrue(x.spans, x.tools, log[k], T, open, C, a, c)
          /\ n \in DOMAIN log[k] /\ Alone(log[k], n)
      BY <1>1, <1>3, <1>4, <1>6, <1>8, <2>1
    <3>2. Resulted(x.spans, x.tools, open, log[k], n, result)
      BY <1>3, <1>8, <3>1, CallTold
    <3>3. QED
      BY <1>1, <3>2 DEF Resulted
  <2>5. PICK s, parent : s = t.spans[i] /\ parent = t.spans[s.parent]
    OBVIOUS
  <2>6. /\ parent.name = "llm.step" /\ evs[parent.start].turn = evs[n].turn
        /\ parent.end # 0 => s.end <= parent.end
        /\ s.parent \in DOMAIN t.spans /\ parent.end \in Nat
    <3>1. /\ IsTurn(t, s.parent) /\ Turned(evs, parent.start, s.start)
          /\ parent.end # 0 => s.end <= parent.end
      BY <1>6, <2>3, <2>5 DEF ToolsTrue
    <3>2. QED
      BY <1>6, <2>3, <2>5, <3>1, SpansOf DEF IsTurn, Turned
  <2>7. s.end = result /\ (parent.end # 0 => result \in n..parent.end)
    <3>1. CASE result = t.spans[i].end /\ result \in n + 1..Len(evs)
      BY <2>2, <2>5, <2>6, <3>1
    <3>2. CASE /\ result = 0 /\ open /\ evs[n].id \in DOMAIN t.tools
               /\ t.tools[evs[n].id] = i
      <4>1. s.end = 0 /\ s.parent = t.turn
        BY <1>6, <2>5, <3>2 DEF ToolsTrue
      <4>2. parent.end = 0
        BY <1>6, <2>5, <3>2, <4>1 DEF TurnsTrue
      <4>3. QED
        BY <3>2, <4>1, <4>2
    <3>3. QED
      BY <2>3, <3>1, <3>2
  <2>8. x.spans[j].end = IF result = 0 THEN n ELSE result
    <3>1. CASE result = x.spans[j].end /\ result \in n + 1..Len(evs)
      BY <2>2, <3>1
    <3>2. CASE /\ result = 0 /\ open /\ evs[n].id \in DOMAIN x.tools
               /\ x.tools[evs[n].id] = j
      BY <1>6, <2>4, <3>2 DEF Pending
    <3>3. QED
      BY <2>4, <3>1, <3>2
  <2>9. \E g \in DOMAIN observations :
          /\ observations[g].start = n
          /\ observations[g].end = IF result = 0 THEN n ELSE result
    BY <1>5, <2>4, <2>8
  <2>10. \E g \in DOMAIN spans :
           /\ spans[g].name = "tool" /\ spans[g].start = n /\ spans[g].end = result
           /\ spans[spans[g].parent].name = "llm.step"
           /\ log[k][spans[spans[g].parent].start].turn = log[k][n].turn
           /\ spans[spans[g].parent].end # 0 => result \in n..spans[spans[g].parent].end
    BY <1>1, <1>5, <2>3, <2>5, <2>6, <2>7
  <2>11. QED
    BY <2>9, <2>10 DEF TellsCall
<1>9. TellsAll(k, spans, observations)
  BY <1>1, <1>7, <1>8, Zenon DEF TellsAll
<1>10. QED
  BY <1>9 DEF spans, observations

\* Whenever a trace is read, each turn of the tree has its own end and cost, and each
\* call with an id of its own has one result in both projections, under its turn.
THEOREM TreeTellsTheTruth == Spec => []TreeIsTrue
<1>1. Init => Fits /\ AllTrue
  BY InitFits, NothingTrue DEF AllTrue
<1>2. Fits /\ AllTrue /\ [Next]_vars => (Fits /\ AllTrue)'
  <2>1. SUFFICES ASSUME Fits, AllTrue, [Next]_vars PROVE Fits' /\ AllTrue'
    OBVIOUS
  <2>2. Fits' /\ \A h \in Spans : Moves(h)
    BY <2>1, NextMoves
  <2>3. ASSUME NEW k \in Spans PROVE True(k)'
    BY <2>1, <2>2, MovesTrue DEF AllTrue
  <2>4. QED
    BY <2>2, <2>3 DEF AllTrue
<1>3. Fits /\ AllTrue => TreeIsTrue
  <2>1. ASSUME Fits, AllTrue, NEW k \in Spans
        PROVE  TellsAll(k, SpanTree(k), Observations(k))
    BY <2>1, TrueTells DEF AllTrue
  <2>2. QED
    BY <2>1, Zenon DEF TreeIsTrue, TellsAll, TellsTurn, TellsCall
<1>4. QED
  BY <1>1, <1>2, <1>3, PTL DEF Spec

-----------------------------------------------------------------------------
(* What the spans cost.                                                     *)

Costs(ss) == [i \in DOMAIN ss |-> ss[i].cost]

\* A sum of costs is a sum.
LEMMA SumCostsIs == \A ss : SumCosts(ss) = Sum(Costs(ss), DOMAIN ss)
<1>1. TAKE ss
<1>2. PICK f : f = Costs(ss)
  OBVIOUS
<1>3. DOMAIN f = DOMAIN ss
  BY <1>2 DEF Costs
<1>4. SumCosts(ss) = SumOver(f)
  BY <1>2 DEF SumCosts, Costs
<1>5. SumOver(f) = Sum(f, DOMAIN f)
  BY DEF SumOver, Sum
<1>6. QED
  BY <1>2, <1>3, <1>4, <1>5

\* Spans with numbers for costs, n of them.
Priced(ss, n) == n \in Nat /\ DOMAIN ss = 1..n /\ \A i \in 1..n : ss[i].cost \in Nat

\* What one span more costs, or what one costs more, is added.
LEMMA CostGrows ==
  ASSUME NEW ss, NEW zz, NEW m, NEW n, Priced(ss, m), Priced(zz, n), NEW y \in 1..n,
         NEW c \in Nat, \A i \in 1..m : i # y => i \in 1..n /\ zz[i].cost = ss[i].cost,
         \A i \in 1..n : i # y => i \in 1..m,
         zz[y].cost = IF y \in 1..m THEN ss[y].cost + c ELSE c
  PROVE  SumCosts(zz) = SumCosts(ss) + c
<1>1. PICK f, g, S, R : f = Costs(ss) /\ g = Costs(zz) /\ S = 1..m /\ R = 1..n
  OBVIOUS
<1>2. IsFiniteSet(S) /\ IsFiniteSet(R)
  BY <1>1, FS_Interval DEF Priced
<1>3. /\ \A i \in S : f[i] = ss[i].cost /\ f[i] \in Int
      /\ \A i \in R : g[i] = zz[i].cost /\ g[i] \in Int
  BY <1>1 DEF Costs, Priced
<1>4. S \ {y} = R \ {y} /\ \A i \in S \ {y} : g[i] = f[i]
  BY <1>1, <1>3
<1>5. Sum(g, R) - Part(g, R, y) = Sum(f, S) - Part(f, S, y)
  BY <1>2, <1>3, <1>4, SumChange
<1>6. Part(g, R, y) = Part(f, S, y) + c /\ Part(f, S, y) \in Int
  BY <1>1, <1>3 DEF Part, Priced
<1>7. Sum(g, R) \in Int /\ Sum(f, S) \in Int
  BY <1>2, <1>3, SumCongruent
<1>8. SumCosts(zz) = Sum(g, R) /\ SumCosts(ss) = Sum(f, S)
  BY <1>1, SumCostsIs DEF Priced
<1>9. QED
  BY <1>5, <1>6, <1>7, <1>8

\* Spans that cost the same.
LEMMA CostStays ==
  ASSUME NEW ss, NEW zz, NEW n, Priced(ss, n), DOMAIN zz = 1..n,
         \A i \in 1..n : zz[i].cost = ss[i].cost
  PROVE  SumCosts(zz) = SumCosts(ss)
<1>1. PICK f, g, S : f = Costs(ss) /\ g = Costs(zz) /\ S = 1..n
  OBVIOUS
<1>2. IsFiniteSet(S)
  BY <1>1, FS_Interval DEF Priced
<1>3. \A i \in S : f[i] \in Int /\ g[i] = f[i]
  BY <1>1 DEF Costs, Priced
<1>4. Sum(f, S) = Sum(g, S)
  BY <1>2, <1>3, SumCongruent
<1>5. SumCosts(zz) = Sum(g, S) /\ SumCosts(ss) = Sum(f, S)
  BY <1>1, SumCostsIs DEF Priced
<1>6. QED
  BY <1>4, <1>5

\* A sum of costs is a number.
LEMMA CostIsNumber == ASSUME NEW ss, NEW n, Priced(ss, n) PROVE SumCosts(ss) \in Int
<1>1. PICK f, S : f = Costs(ss) /\ S = 1..n
  OBVIOUS
<1>2. IsFiniteSet(S) /\ \A i \in S : f[i] \in Int
  BY <1>1, FS_Interval DEF Priced, Costs
<1>3. QED
  BY <1>1, <1>2, SumCongruent, SumCostsIs DEF Priced

\* The spans of a tree have costs.
LEMMA TreePriced ==
  ASSUME NEW t, TreeShape(t)
  PROVE  Priced(t.spans, Len(t.spans))
  BY SpansOf DEF Priced

\* So have observations.
LEMMA SeenPriced ==
  ASSUME NEW x, SeenShape(x)
  PROVE  Priced(x.spans, Len(x.spans))
  BY SeenSpans DEF Priced

\* A span that is born costs what it costs.
LEMMA BornCosts ==
  ASSUME NEW t, TreeShape(t), NEW u, TreeShape(u), NEW s, Born(t, u, s), s.cost \in Nat
  PROVE  SumCosts(u.spans) = SumCosts(t.spans) + s.cost
<1>1. PICK ss, zz, n, c : ss = t.spans /\ zz = u.spans /\ n = Len(ss) /\ c = s.cost
  OBVIOUS
<1>2. Priced(ss, n) /\ Priced(zz, n + 1)
  BY <1>1, TreePriced DEF Born
<1>3. n \in Nat /\ c \in Nat /\ n + 1 \in 1..(n + 1) /\ n + 1 \notin 1..n
  BY <1>1, <1>2 DEF Priced
<1>4. zz[n + 1].cost = c /\ \A i \in 1..n : zz[i].cost = ss[i].cost
  BY <1>1 DEF Born
<1>5. SumCosts(zz) = SumCosts(ss) + c
  BY <1>2, <1>3, <1>4, CostGrows
<1>6. QED
  BY <1>1, <1>5

\* An event attached costs what its span costs more.
LEMMA MoreCosts ==
  ASSUME NEW t, TreeShape(t), NEW u, TreeShape(u), NEW i, NEW n, More(t, u, i, n), NEW c \in Nat,
         u.spans[i].cost = t.spans[i].cost + c
  PROVE  SumCosts(u.spans) = SumCosts(t.spans) + c
<1>1. PICK ss, zz, m : ss = t.spans /\ zz = u.spans /\ m = Len(ss)
  OBVIOUS
<1>2. Priced(ss, m) /\ Priced(zz, m) /\ i \in 1..m
  BY <1>1, TreePriced DEF More
<1>3. /\ zz[i].cost = ss[i].cost + c
      /\ \A g \in 1..m : g # i => zz[g].cost = ss[g].cost
  BY <1>1 DEF More
<1>4. SumCosts(zz) = SumCosts(ss) + c
  BY <1>2, <1>3, CostGrows
<1>5. QED
  BY <1>1, <1>4

\* An event adds its cost to the tree's.
LEMMA TreeCosts ==
  ASSUME NEW t, NEW evs \in Seq(EventType), NEW e \in EventType, NEW T, NEW open \in BOOLEAN,
         TreeShape(t), TurnsTrue(t, evs, T, open), e.kind \in Ends => open,
         e.kind \notin Ends => e.cost = 0, NEW n \in Nat
  PROVE  SumCosts(TreeStep(t, n, e).spans) = SumCosts(t.spans) + e.cost
<1>1. PICK u : u = TreeStep(t, n, e)
  OBVIOUS
<1>2. /\ t.turn \in 1..Len(t.spans) /\ 1 \in 1..Len(t.spans) /\ e.cost \in Nat
      /\ SumCosts(t.spans) \in Int
  <2>1. SumCosts(t.spans) \in Int
    BY TreePriced, CostIsNumber
  <2>2. QED
    BY <2>1 DEF TreeShape, EventType
<1>3. CASE ~Observable(e.kind)
  <2>1. u = t /\ e.cost = 0
    BY <1>1, <1>3 DEF TreeStep, Observable, Ends
  <2>2. QED
    BY <1>1, <1>2, <2>1
<1>4. CASE Observable(e.kind) /\ e.kind = "TurnStarted"
  <2>1. u = OpenTurn(t, n) /\ e.cost = 0
    BY <1>1, <1>4 DEF TreeStep, Observable, Ends
  <2>2. PICK s : s = NewSpan("llm.step", 1, n, <<n>>)
    OBVIOUS
  <2>3. TreeShape(u) /\ Born(t, u, s) /\ s.cost = 0
    BY <2>1, <2>2, OpenTurnIs DEF NewSpan
  <2>4. SumCosts(u.spans) = SumCosts(t.spans) + s.cost
    BY <2>3, BornCosts
  <2>5. QED
    BY <1>1, <2>1, <2>3, <2>4
<1>5. ASSUME NEW i \in 1..Len(t.spans), u = Attach(t, i, n)
      PROVE  SumCosts(u.spans) = SumCosts(t.spans)
  <2>1. TreeShape(u) /\ More(t, u, i, n) /\ u.spans[i].cost = t.spans[i].cost
    BY <1>5, AttachIs
  <2>2. t.spans[i].cost \in Nat
    BY <1>5, SpansOf
  <2>3. SumCosts(u.spans) = SumCosts(t.spans) + 0
    BY <2>1, <2>2, MoreCosts
  <2>4. QED
    BY <1>2, <2>3
<1>6. CASE Observable(e.kind) /\ e.kind \in {"TurnCompleted", "TurnFailed"}
  <2>1. u = CloseTurn(t, n, e) /\ open
    BY <1>1, <1>6 DEF TreeStep, Observable, Ends
  <2>2. t.turn # 1 /\ t.spans[t.turn].cost = 0
    BY <2>1 DEF TurnsTrue
  <2>3. TreeShape(u) /\ More(t, u, t.turn, n) /\ u.spans[t.turn].cost = e.cost
    BY <2>1, <2>2, CloseTurnIs
  <2>4. QED
    BY <1>1, <1>2, <2>2, <2>3, MoreCosts
<1>7. CASE Observable(e.kind) /\ e.kind = "PreToolUse" /\ e.id # NoId
  <2>1. u = OpenTool(t, n, e) /\ e.cost = 0
    BY <1>1, <1>7 DEF TreeStep, Observable, Ends
  <2>2. PICK s : s = NewSpan("tool", t.turn, n, <<n>>)
    OBVIOUS
  <2>3. TreeShape(u) /\ Born(t, u, s) /\ s.cost = 0
    BY <2>1, <2>2, OpenToolIs DEF NewSpan
  <2>4. SumCosts(u.spans) = SumCosts(t.spans) + s.cost
    BY <2>3, BornCosts
  <2>5. QED
    BY <1>1, <2>1, <2>3, <2>4
<1>8. CASE Observable(e.kind) /\ e.kind = "PostToolUse" /\ e.id \in DOMAIN t.tools
  <2>1. u = CloseTool(t, n, e) /\ e.cost = 0
    BY <1>1, <1>8 DEF TreeStep, Observable, Ends
  <2>2. PICK i : i = t.tools[e.id]
    OBVIOUS
  <2>3. /\ TreeShape(u) /\ More(t, u, i, n) /\ u.spans[i].cost = t.spans[i].cost
        /\ t.spans[i].cost \in Nat
    <3>1. ClosedCall(t, u, n, i, e.id)
      BY <1>8, <2>1, <2>2, CloseToolIs
    <3>2. t.spans[i].cost \in Nat
      BY <1>8, <2>2, SpansOf
    <3>3. QED
      BY <3>1, <3>2 DEF ClosedCall
  <2>4. SumCosts(u.spans) = SumCosts(t.spans) + 0
    BY <2>3, MoreCosts
  <2>5. QED
    BY <1>1, <2>1, <2>4
<1>9. CASE /\ Observable(e.kind)
           /\ \/ e.kind = "PreToolUse" /\ e.id = NoId
              \/ e.kind = "PostToolUse" /\ e.id \notin DOMAIN t.tools
  <2>1. u = Attach(t, t.turn, n) /\ e.cost = 0
    BY <1>1, <1>9 DEF TreeStep, Observable, Ends
  <2>2. QED
    BY <1>1, <1>2, <1>5, <2>1
<1>10. CASE /\ Observable(e.kind)
            /\ e.kind \notin {"TurnStarted", "TurnCompleted", "TurnFailed", "PreToolUse", "PostToolUse"}
  <2>1. u = Attach(t, 1, n) /\ e.cost = 0
    BY <1>1, <1>10 DEF TreeStep, Ends
  <2>2. QED
    BY <1>1, <1>2, <1>5, <2>1
<1>11. QED
  BY <1>1, <1>3, <1>4, <1>6, <1>7, <1>8, <1>9, <1>10

\* What is so of y, whose observations are those of x and one of that name and cost.
Dearer(x, y, name, cost) ==
  /\ SumCosts(y.spans) = SumCosts(x.spans) + cost
  /\ Generations(y.spans) # {} <=> Generations(x.spans) # {} \/ name = "llm.generation"

\* An observation more costs what it costs.
LEMMA ObserveCosts ==
  ASSUME NEW x, SeenShape(x), NEW name, name \in Names, NEW n, n \in Nat, NEW cost, cost \in Nat,
         NEW y, y = Observe(x, name, n, cost)
  PROVE  Dearer(x, y, name, cost)
<1>1. PICK ss, zz, m : ss = x.spans /\ zz = y.spans /\ m = Len(ss)
  OBVIOUS
<1>2. /\ SeenShape(y) /\ Len(zz) = m + 1 /\ \A i \in 1..m : zz[i] = ss[i]
      /\ zz[m + 1] = [name |-> name, start |-> n, end |-> n, cost |-> cost]
  <2>1. Observed(x, y, name, n, cost)
    BY ObserveIs
  <2>2. QED
    BY <1>1, <2>1 DEF Observed
<1>3. Priced(ss, m) /\ Priced(zz, m + 1)
  BY <1>1, <1>2, SeenPriced
<1>4. m \in Nat /\ m + 1 \in 1..(m + 1) /\ m + 1 \notin 1..m
  BY <1>3 DEF Priced
<1>5. zz[m + 1].cost = cost /\ zz[m + 1].name = name
  BY <1>2
<1>6. SumCosts(zz) = SumCosts(ss) + cost
  BY <1>2, <1>3, <1>4, <1>5, CostGrows
<1>7. Generations(zz) # {} <=> Generations(ss) # {} \/ name = "llm.generation"
  <2>1. DOMAIN ss = 1..m /\ DOMAIN zz = 1..(m + 1) /\ \A i \in 1..(m + 1) : i = m + 1 \/ i \in 1..m
    BY <1>3 DEF Priced
  <2>2. \A i \in 1..m : i \in 1..(m + 1)
    BY <1>4
  <2>3. QED
    BY <1>2, <1>4, <1>5, <2>1, <2>2 DEF Generations
<1>8. QED
  BY <1>1, <1>6, <1>7 DEF Dearer

\* An event adds its cost to the observations', and a generation if it completes a turn.
LEMMA SeenCosts ==
  ASSUME NEW x, SeenShape(x), NEW e \in EventType, e.kind # "TurnCompleted" => e.cost = 0,
         NEW n \in Nat
  PROVE  /\ SumCosts(ObserveStep(x, n, e).spans) = SumCosts(x.spans) + e.cost
         /\ Generations(ObserveStep(x, n, e).spans) # {} <=>
              Generations(x.spans) # {} \/ e.kind = "TurnCompleted"
<1>1. PICK y : y = ObserveStep(x, n, e)
  OBVIOUS
<1>2. /\ e.cost \in Nat /\ n \in Nat /\ 0 \in Nat /\ e.kind \in Names
      /\ {"llm.generation", "tool", "compaction"} \subseteq Names
      /\ e.kind # "llm.generation"
  BY DEF EventType, Names, EventKinds, Others, Ends
<1>3. SumCosts(x.spans) \in Int
  BY SeenPriced, CostIsNumber
<1>4. CASE e.kind = "UserPromptSubmit"
  <2>1. y = x /\ e.cost = 0
    BY <1>1, <1>4 DEF ObserveStep
  <2>2. QED
    BY <1>1, <1>3, <1>4, <2>1
<1>5. CASE e.kind = "TurnCompleted"
  <2>1. y = Observe(x, "llm.generation", n, e.cost)
    BY <1>1, <1>5 DEF ObserveStep
  <2>2. Dearer(x, y, "llm.generation", e.cost)
    BY <1>2, <2>1, ObserveCosts
  <2>3. QED
    BY <1>1, <1>5, <2>2 DEF Dearer
<1>6. CASE e.kind = "PreToolUse"
  <2>1. PICK z : z = Observe(x, "tool", n, 0)
    OBVIOUS
  <2>2. z = [spans |-> z.spans, tools |-> z.tools]
    <3>1. Observed(x, z, "tool", n, 0)
      BY <1>2, <2>1, ObserveIs
    <3>2. QED
      BY <3>1 DEF Observed, SeenShape
  <2>3. y.spans = z.spans
    <3>1. PICK to : y = [z EXCEPT !.tools = to]
      BY <1>1, <1>6, <2>1 DEF ObserveStep
    <3>2. PICK ss, tz : ss = z.spans /\ tz = z.tools
      OBVIOUS
    <3>3. z = [spans |-> ss, tools |-> tz]
      BY <2>2, <3>2
    <3>4. QED
      BY <3>1, <3>2, <3>3
  <2>4. Dearer(x, z, "tool", 0) /\ e.cost = 0
    BY <1>2, <1>6, <2>1, ObserveCosts
  <2>5. QED
    BY <1>1, <1>3, <1>6, <2>3, <2>4 DEF Dearer
<1>7. CASE e.kind = "PostToolUse" /\ e.id \notin DOMAIN x.tools
  <2>1. y = x /\ e.cost = 0
    BY <1>1, <1>7 DEF ObserveStep
  <2>2. QED
    BY <1>1, <1>3, <1>7, <2>1
<1>8. CASE e.kind = "PostToolUse" /\ e.id \in DOMAIN x.tools
  <2>1. PICK ss, to, w, m : ss = x.spans /\ to = x.tools /\ w = x.tools[e.id] /\ m = Len(x.spans)
    OBVIOUS
  <2>2. x = [spans |-> ss, tools |-> to] /\ ss \in Seq(SeenType) /\ w \in 1..m
    BY <1>8, <2>1 DEF SeenShape
  <2>3. PICK s, r : s = ss[w] /\ r = [s EXCEPT !.end = n]
    OBVIOUS
  <2>4. s \in SeenType
    BY <2>1, <2>2, <2>3
  <2>5. r.name = s.name /\ r.cost = s.cost
    BY <2>3, <2>4 DEF SeenType
  <2>6. PICK zz : zz = [ss EXCEPT ![w] = r]
    OBVIOUS
  <2>7. y.spans = zz
    <3>1. y = [x EXCEPT !.spans[w].end = n, !.tools = Restrict(@, DOMAIN @ \ {e.id})]
      BY <1>1, <1>8, <2>1 DEF ObserveStep
    <3>2. y = [spans |-> [ss EXCEPT ![w].end = n], tools |-> Restrict(to, DOMAIN to \ {e.id})]
      BY <2>2, <3>1
    <3>3. [ss EXCEPT ![w].end = n] = zz
      BY <2>2, <2>3, <2>6
    <3>4. QED
      BY <3>2, <3>3
  <2>8. /\ DOMAIN ss = 1..m /\ DOMAIN zz = 1..m
        /\ \A i \in 1..m : zz[i].name = ss[i].name /\ zz[i].cost = ss[i].cost
    <3>1. DOMAIN ss = 1..m
      BY <2>1, <2>2
    <3>2. DOMAIN zz = 1..m /\ zz[w] = r /\ \A i \in 1..m : i # w => zz[i] = ss[i]
      BY <2>2, <2>6, <3>1
    <3>3. ASSUME NEW i \in 1..m PROVE zz[i].name = ss[i].name /\ zz[i].cost = ss[i].cost
      BY <2>3, <2>5, <3>2
    <3>4. QED
      BY <3>1, <3>2, <3>3
  <2>9. Priced(ss, m)
    BY <2>1, SeenPriced
  <2>10. SumCosts(zz) = SumCosts(ss)
    BY <2>8, <2>9, CostStays
  <2>11. Generations(zz) = Generations(ss)
    BY <2>8 DEF Generations
  <2>12. QED
    BY <1>1, <1>3, <1>8, <2>1, <2>7, <2>10, <2>11
<1>9. CASE e.kind = "PostCompact"
  <2>1. y = Observe(x, "compaction", n, 0)
    BY <1>1, <1>9 DEF ObserveStep
  <2>2. Dearer(x, y, "compaction", 0) /\ e.cost = 0
    BY <1>2, <1>9, <2>1, ObserveCosts
  <2>3. QED
    BY <1>1, <1>3, <1>9, <2>2 DEF Dearer
<1>10. CASE e.kind \notin {"UserPromptSubmit", "TurnCompleted", "PreToolUse", "PostToolUse",
                           "PostCompact"}
  <2>1. (y = IF Observable(e.kind) THEN Observe(x, e.kind, n, 0) ELSE x) /\ e.cost = 0
    BY <1>1, <1>10 DEF ObserveStep
  <2>2. CASE Observable(e.kind)
    <3>1. y = Observe(x, e.kind, n, 0)
      BY <2>1, <2>2
    <3>2. Dearer(x, y, e.kind, 0)
      BY <1>2, <3>1, ObserveCosts
    <3>3. QED
      BY <1>1, <1>2, <1>3, <1>10, <2>1, <3>2 DEF Dearer
  <2>3. CASE ~Observable(e.kind)
    <3>1. y = x
      BY <2>1, <2>3
    <3>2. QED
      BY <1>1, <1>3, <1>10, <2>1, <3>1
  <2>4. QED
    BY <2>2, <2>3
<1>11. QED
  BY <1>4, <1>5, <1>6, <1>7, <1>8, <1>9, <1>10

\* What both projections cost, when an event is fired.
LEMMA SumsGrow ==
  ASSUME NEW evs \in Seq(EventType), NEW e \in EventType, NEW T, NEW open \in BOOLEAN, NEW C,
         NEW a, NEW c, Truth(evs, T, open, C, a, c), e.kind \in Ends => open,
         e.kind # "TurnCompleted" => e.cost = 0, NEW paid, Sums(evs, paid)
  PROVE  Sums(Append(evs, e), paid + e.cost)
<1>1. PICK t, x, more, n : /\ t = TreeOf(evs) /\ x = SeenOf(evs) /\ more = Append(evs, e)
                           /\ n = Len(evs) + 1
  OBVIOUS
<1>2. TreeShape(t) /\ TurnsTrue(t, evs, T, open) /\ SeenShape(x) /\ n \in Nat
  BY <1>1 DEF Truth, TreeTrue, SeenTrue
<1>3. TreeOf(more) = TreeStep(t, n, e) /\ SeenOf(more) = ObserveStep(x, n, e)
  BY <1>1, TreeGrows, SeenGrows
<1>4. SumCosts(TreeStep(t, n, e).spans) = SumCosts(t.spans) + e.cost
  <2>1. e.kind \notin Ends => e.cost = 0
    BY DEF Ends
  <2>2. QED
    BY <1>2, <2>1, TreeCosts
<1>5. /\ SumCosts(ObserveStep(x, n, e).spans) = SumCosts(x.spans) + e.cost
      /\ Generations(ObserveStep(x, n, e).spans) # {} <=>
           Generations(x.spans) # {} \/ e.kind = "TurnCompleted"
  BY <1>2, SeenCosts
<1>6. (\E m \in DOMAIN more : Is(more, m, {"TurnCompleted"})) <=>
        (\E m \in DOMAIN evs : Is(evs, m, {"TurnCompleted"})) \/ e.kind = "TurnCompleted"
  <2>1. /\ n \in Nat /\ n >= 1 /\ DOMAIN evs = 1..(n - 1) /\ DOMAIN more = 1..n /\ more[n] = e
        /\ \A m \in 1..n : m = n \/ m \in 1..(n - 1)
        /\ \A m \in 1..(n - 1) : more[m] = evs[m] /\ m \in 1..n
    BY <1>1, LogMore
  <2>2. n \in DOMAIN more
    BY <2>1
  <2>3. QED
    BY <2>1, <2>2, Zenon DEF Is
<1>7. QED
  BY <1>1, <1>3, <1>4, <1>5, <1>6 DEF Sums

-----------------------------------------------------------------------------
(* What is charged and what is shown.                                       *)

\* What fires a kernel, if anything, costs nothing and completes no turn.
Free(k) ==
  \/ log'[k] = log[k]
  \/ \E e : log'[k] = Append(log[k], e) /\ e.cost = 0 /\ e.kind # "TurnCompleted"

\* A fired event is free for all kernels if it is for its own.
LEMMA FireFree ==
  ASSUME LoopTyped, NEW g \in Spans, NEW kind, kind # "TurnCompleted", NEW call,
         Fire(g, kind, call, 0)
  PROVE  \A h \in Spans : Free(h)
<1>1. PICK e : e = [kind |-> kind, id |-> IF call = 0 THEN NoId ELSE calls[g][call],
                   cost |-> 0, turn |-> turn'[g], call |-> call]
  OBVIOUS
<1>2. e.cost = 0 /\ e.kind = kind
  BY <1>1
<1>3. TAKE h \in Spans
<1>4. log'[h] = log[h] \/ log'[h] = Append(log[h], e)
  <2>1. log' = [log EXCEPT ![g] = Append(log[g], e)]
    BY <1>1 DEF Fire
  <2>2. QED
    BY <2>1 DEF LoopTyped
<1>5. QED
  BY <1>4, <1>2 DEF Free

\* A step that charges nothing.
Quiet == UNCHANGED <<bill, money>> /\ \A h \in Spans : Free(h)

\* A step that charges a kernel.
Charges(k, cost) ==
  /\ Record(k, cost) /\ (UNCHANGED bill \/ bill' = [bill EXCEPT ![k] = cost])
  /\ \A h \in Spans : Free(h)

\* A turn that is completed.
Completes(k) ==
  /\ offTurn' = [offTurn EXCEPT ![k] = @ - bill[k]] /\ bill' = [bill EXCEPT ![k] = 0]
  /\ UNCHANGED <<total, turnSum, own, rolledUp>> /\ Wrote(k, "TurnCompleted", 0, bill[k])
  /\ Busy(k) /\ \A h \in Spans : h # k => log'[h] = log[h]

\* An agent's total is added to that of Root.
RollsUp(a) ==
  /\ total' = [total EXCEPT ![Root] = @ + total[a]]
  /\ turnSum' = [turnSum EXCEPT ![Root] = @ + total[a]]
  /\ rolledUp' = rolledUp + total[a] /\ UNCHANGED <<bill, log, own, offTurn>>

\* What a kernel's step charges.
LEMMA KernelCharges ==
  ASSUME LoopTyped, NEW k \in Spans, KernelStep(k)
  PROVE  Quiet \/ (\E cost \in Nat : Charges(k, cost)) \/ Completes(k)
<1>1. /\ \A kind, call : kind # "TurnCompleted" /\ Fire(k, kind, call, 0) => \A h \in Spans : Free(h)
      /\ UNCHANGED log => \A h \in Spans : Free(h)
  BY FireFree DEF Free
<1>2. CASE Prompt(k)
  <2>1. Fire(k, "UserPromptSubmit", 0, 0) /\ UNCHANGED <<bill, money>>
    BY <1>2 DEF Prompt
  <2>2. QED
    BY <1>1, <2>1 DEF Quiet
<1>3. CASE TurnStarted(k)
  <2>1. Fire(k, "TurnStarted", 0, 0) /\ UNCHANGED <<bill, money>>
    BY <1>3 DEF TurnStarted
  <2>2. QED
    BY <1>1, <2>1 DEF Quiet
<1>4. CASE TurnFailed(k)
  <2>1. Fire(k, "TurnFailed", 0, 0) /\ UNCHANGED <<bill, money>>
    BY <1>4 DEF TurnFailed
  <2>2. QED
    BY <1>1, <2>1 DEF Quiet
<1>5. CASE PreToolUse(k)
  <2>1. Fire(k, "PreToolUse", done[k] + 1, 0) /\ UNCHANGED <<bill, money>>
    BY <1>5 DEF PreToolUse
  <2>2. QED
    BY <1>1, <2>1 DEF Quiet
<1>6. CASE PostToolUse(k)
  <2>1. Fire(k, "PostToolUse", done[k] + 1, 0) /\ UNCHANGED <<bill, money>>
    BY <1>6 DEF PostToolUse
  <2>2. QED
    BY <1>1, <2>1 DEF Quiet
<1>7. CASE GuardTriggered(k)
  <2>1. Fire(k, "GuardTriggered", 0, 0) /\ UNCHANGED <<bill, money>>
    BY <1>7 DEF GuardTriggered
  <2>2. QED
    BY <1>1, <2>1 DEF Quiet
<1>8. CASE PreCompact(k)
  <2>1. Fire(k, "PreCompact", 0, 0) /\ UNCHANGED <<bill, money>>
    BY <1>8 DEF PreCompact
  <2>2. QED
    BY <1>1, <2>1 DEF Quiet
<1>9. CASE ToolsReturn(k) \/ CompactFails(k) \/ Silently(k)
  <2>1. UNCHANGED <<log, bill, money>>
    BY <1>9 DEF ToolsReturn, CompactFails, Silently
  <2>2. QED
    BY <1>1, <2>1 DEF Quiet
<1>10. ASSUME NEW cost \in Prices, PostCompact(k, cost) PROVE Charges(k, cost) /\ cost \in Nat
  <2>1. Fire(k, "PostCompact", 0, 0) /\ UNCHANGED bill /\ Record(k, cost)
    BY <1>10 DEF PostCompact
  <2>2. QED
    BY <1>1, <2>1, TelemetryAssumption DEF Charges
<1>11. ASSUME NEW cost \in Prices, NEW message \in Messages[k], Answer(k, message, cost)
       PROVE  Charges(k, cost) /\ cost \in Nat
  <2>1. UNCHANGED log /\ bill' = [bill EXCEPT ![k] = cost] /\ Record(k, cost)
    BY <1>11 DEF Answer
  <2>2. QED
    BY <1>1, <2>1, TelemetryAssumption DEF Charges
<1>12. CASE TurnCompleted(k)
  <2>1. /\ pc[k] \in {"final", "ran"}
        /\ offTurn' = [offTurn EXCEPT ![k] = @ - bill[k]] /\ bill' = [bill EXCEPT ![k] = 0]
        /\ UNCHANGED <<total, turnSum, own, rolledUp>>
        /\ Fire(k, "TurnCompleted", 0, bill[k])
    BY <1>12 DEF TurnCompleted, Goto
  <2>2. Busy(k)
    BY <2>1 DEF Busy, Calls
  <2>3. /\ Wrote(k, "TurnCompleted", 0, bill[k])
        /\ \A h \in Spans : h # k => log'[h] = log[h]
    BY <2>1 DEF Fire, Wrote, Event, LoopTyped
  <2>4. QED
    BY <2>1, <2>2, <2>3 DEF Completes
<1>13. QED
  BY <1>2, <1>3, <1>4, <1>5, <1>6, <1>7, <1>8, <1>9, <1>10, <1>11, <1>12 DEF KernelStep

\* What any step charges.
LEMMA NextCharges ==
  ASSUME LoopTyped, [Next]_vars
  PROVE  \/ Quiet \/ (\E k \in Spans, cost \in Nat : Charges(k, cost))
         \/ (\E k \in Spans : Completes(k)) \/ \E a \in Agents : RollsUp(a)
<1>1. Root \in Spans
  BY DEF Spans
<1>2. /\ \A kind, call : kind # "TurnCompleted" /\ Fire(Root, kind, call, 0) =>
           \A h \in Spans : Free(h)
      /\ UNCHANGED log => \A h \in Spans : Free(h)
  BY <1>1, FireFree DEF Free
<1>3. CASE Wake
  BY <1>2, <1>3 DEF Wake, Quiet
<1>4. CASE QueueInterrupt
  <2>1. Fire(Root, "QueueInterrupt", 0, 0) /\ UNCHANGED <<bill, money>>
    BY <1>4 DEF QueueInterrupt
  <2>2. QED
    BY <1>2, <2>1 DEF Quiet
<1>5. CASE \E k \in Spans : KernelStep(k)
  BY <1>5, KernelCharges
<1>6. ASSUME NEW a \in Agents, AgentStep(a) PROVE Quiet \/ RollsUp(a)
  <2>1. CASE SubagentStart(a)
    <3>1. Fire(Root, "SubagentStart", 0, 0) /\ UNCHANGED <<bill, money>>
      BY <2>1 DEF SubagentStart
    <3>2. QED
      BY <1>2, <3>1 DEF Quiet
  <2>2. CASE SubagentStop(a)
    <3>1. Fire(Root, "SubagentStop", 0, 0) /\ UNCHANGED <<bill, money>>
      BY <2>2 DEF SubagentStop
    <3>2. QED
      BY <1>2, <3>1 DEF Quiet
  <2>3. CASE RollUp(a)
    BY <2>3 DEF RollUp, RollsUp
  <2>4. CASE Result(a)
    BY <1>2, <2>4 DEF Result, Quiet
  <2>5. QED
    BY <1>6, <2>1, <2>2, <2>3, <2>4 DEF AgentStep
<1>7. CASE UNCHANGED vars
  BY <1>2, <1>7 DEF vars, loop, Quiet
<1>8. QED
  BY <1>3, <1>4, <1>5, <1>6, <1>7 DEF Next

\* Only an open turn ends.
LEMMA EndsBusy ==
  ASSUME Fits, Fits', NEW k \in Spans, Moves(k), NEW e, log'[k] = Append(log[k], e),
         e.kind \in Ends
  PROVE  Busy(k) /\ e \in EventType
<1>1. PICK evs, more, n : evs = log[k] /\ more = log'[k] /\ n = Len(evs)
  OBVIOUS
<1>2. evs \in Seq(EventType) /\ more \in Seq(EventType) /\ n \in Nat
  BY <1>1 DEF Fits, LoopTyped
<1>3. Len(more) = n + 1 /\ more[n + 1] = e /\ e \in EventType
  <2>1. Len(more) = n + 1 /\ more[n + 1] = e
    BY <1>1, <1>2
  <2>2. QED
    BY <1>2, <2>1
<1>4. ASSUME NEW kind, NEW call, NEW cost, Wrote(k, kind, call, cost) PROVE e.kind = kind
  <2>1. PICK f : f = Event(k, kind, call, cost)
    OBVIOUS
  <2>2. more = Append(evs, f) /\ f.kind = kind
    BY <1>1, <1>4, <2>1 DEF Wrote, Event
  <2>3. more[n + 1] = f
    BY <1>1, <1>2, <2>2
  <2>4. QED
    BY <1>3, <2>2, <2>3
<1>5. more # evs
  BY <1>1, <1>2, <1>3
<1>6. ~Rests(k)
  BY <1>1, <1>5 DEF Rests
<1>7. ~Mentions(k)
  BY <1>4, Kinds DEF Mentions
<1>8. ~Begins(k) /\ ~Announces(k) /\ ~Collects(k)
  BY <1>4, Kinds DEF Begins, Announces, Collects
<1>9. Finishes(k) => Busy(k)
  BY DEF Finishes
<1>10. QED
  BY <1>3, <1>6, <1>7, <1>8, <1>9 DEF Moves

\* What is free changes no sum.
LEMMA FreeSums ==
  ASSUME Fits, Fits', NEW k \in Spans, Moves(k), True(k), Free(k), NEW paid \in Int,
         Sums(log[k], paid)
  PROVE  Sums(log'[k], paid)
<1>1. CASE log'[k] = log[k]
  BY <1>1
<1>2. CASE log'[k] # log[k]
  <2>1. PICK e : log'[k] = Append(log[k], e) /\ e.cost = 0 /\ e.kind # "TurnCompleted"
    BY <1>2 DEF Free
  <2>2. PICK evs, more, n : evs = log[k] /\ more = log'[k] /\ n = Len(evs)
    OBVIOUS
  <2>3. evs \in Seq(EventType) /\ more \in Seq(EventType) /\ n \in Nat
    BY <2>2 DEF Fits, LoopTyped
  <2>4. e \in EventType
    <3>1. Len(more) = n + 1 /\ more[n + 1] = e
      BY <2>1, <2>2, <2>3
    <3>2. QED
      BY <2>3, <3>1
  <2>5. e.kind \in Ends => Busy(k)
    BY <2>1, EndsBusy
  <2>6. PICK T, open, C, a, c :
          /\ T = turn[k] /\ open = Busy(k) /\ C = calls[k]
          /\ a = Announced(k) /\ c = Collected(k)
    OBVIOUS
  <2>7. Truth(evs, T, open, C, a, c) /\ open \in BOOLEAN
    BY <2>2, <2>6 DEF True, Busy, Calls
  <2>8. Sums(Append(evs, e), paid + e.cost)
    BY <2>1, <2>2, <2>3, <2>4, <2>5, <2>6, <2>7, SumsGrow
  <2>9. paid + e.cost = paid
    BY <2>1
  <2>10. QED
    BY <2>1, <2>2, <2>8, <2>9
<1>3. QED
  BY <1>1, <1>2

\* What is paid stays paid, when nothing is charged.
LEMMA QuietPays ==
  ASSUME Fits, Fits', Totals, AllTrue, \A h \in Spans : Moves(h), Quiet
  PROVE  Totals'
<1>1. /\ bill' = bill /\ total' = total /\ turnSum' = turnSum /\ own' = own
      /\ offTurn' = offTurn /\ rolledUp' = rolledUp
  BY DEF Quiet, money
<1>2. ASSUME NEW k \in Spans PROVE Paid(k)'
  <2>1. PICK paid : paid = own[k] - offTurn[k]
    OBVIOUS
  <2>2. /\ own[k] \in Nat /\ offTurn[k] \in Nat /\ bill[k] <= offTurn[k] /\ paid \in Int
        /\ Sums(log[k], paid)
    BY <2>1 DEF Totals, Paid
  <2>3. Sums(log'[k], paid)
    BY <2>2, FreeSums DEF AllTrue, Quiet
  <2>4. QED
    BY <1>1, <2>1, <2>2, <2>3 DEF Paid, Sums
<1>3. Ledger'
  BY <1>1 DEF Totals, Ledger
<1>4. QED
  BY <1>2, <1>3 DEF Totals

\* A table with a sum put on one of its entries.
Put(f, r, x) == [f EXCEPT ![r] = @ + x]

\* Two sums put on a table, in either order.
LEMMA PutCommutes ==
  ASSUME NEW Keys, NEW f \in [Keys -> Nat], NEW r \in Keys, NEW k \in Keys, NEW x \in Nat,
         NEW y \in Nat
  PROVE  Put(Put(f, r, x), k, y) = Put(Put(f, k, y), r, x)
<1>1. PICK f1, f2, g1, g2 : /\ f1 = Put(f, r, x) /\ f2 = Put(f, k, y)
                            /\ g1 = Put(f1, k, y) /\ g2 = Put(f2, r, x)
  OBVIOUS
<1>2. f1 \in [Keys -> Nat] /\ f1[r] = f[r] + x /\ \A h \in Keys : h # r => f1[h] = f[h]
  BY <1>1 DEF Put
<1>3. f2 \in [Keys -> Nat] /\ f2[k] = f[k] + y /\ \A h \in Keys : h # k => f2[h] = f[h]
  BY <1>1 DEF Put
<1>4. g1 \in [Keys -> Nat] /\ g1[k] = f1[k] + y /\ \A h \in Keys : h # k => g1[h] = f1[h]
  BY <1>1, <1>2 DEF Put
<1>5. g2 \in [Keys -> Nat] /\ g2[r] = f2[r] + x /\ \A h \in Keys : h # r => g2[h] = f2[h]
  BY <1>1, <1>3 DEF Put
<1>6. f[r] \in Nat /\ f[k] \in Nat
  OBVIOUS
<1>7. ASSUME NEW h \in Keys PROVE g1[h] = g2[h]
  BY <1>2, <1>3, <1>4, <1>5, <1>6
<1>8. g1 = g2
  BY <1>4, <1>5, <1>7
<1>9. QED
  BY <1>1, <1>8

\* Two sums put one after the other on one entry of a table.
LEMMA PutTwice ==
  ASSUME NEW Keys, NEW f \in [Keys -> Nat], NEW r \in Keys, NEW x \in Nat, NEW y \in Nat
  PROVE  Put(Put(f, r, x), r, y) = Put(f, r, x + y)
<1>1. PICK f1, g1, g2 : f1 = Put(f, r, x) /\ g1 = Put(f1, r, y) /\ g2 = Put(f, r, x + y)
  OBVIOUS
<1>2. f1 \in [Keys -> Nat] /\ f1[r] = f[r] + x /\ \A h \in Keys : h # r => f1[h] = f[h]
  BY <1>1 DEF Put
<1>3. g1 \in [Keys -> Nat] /\ g1[r] = f1[r] + y /\ \A h \in Keys : h # r => g1[h] = f1[h]
  BY <1>1, <1>2 DEF Put
<1>4. x + y \in Nat /\ f[r] \in Nat
  OBVIOUS
<1>5. g2 \in [Keys -> Nat] /\ g2[r] = f[r] + (x + y) /\ \A h \in Keys : h # r => g2[h] = f[h]
  BY <1>1, <1>4 DEF Put
<1>6. ASSUME NEW h \in Keys PROVE g1[h] = g2[h]
  BY <1>2, <1>3, <1>4, <1>5
<1>7. g1 = g2
  BY <1>3, <1>5, <1>6
<1>8. QED
  BY <1>1, <1>7

\* A kernel that is charged owes as much more.
LEMMA ChargePays ==
  ASSUME Fits, Fits', Totals, AllTrue, \A h \in Spans : Moves(h), NEW k \in Spans,
         NEW cost \in Nat, Charges(k, cost)
  PROVE  Totals'
<1>1. /\ total' = [total EXCEPT ![k] = @ + cost] /\ turnSum' = [turnSum EXCEPT ![k] = @ + cost]
      /\ own' = [own EXCEPT ![k] = @ + cost] /\ offTurn' = [offTurn EXCEPT ![k] = @ + cost]
      /\ rolledUp' = rolledUp /\ (bill' = bill \/ bill' = [bill EXCEPT ![k] = cost])
  BY DEF Charges, Record
<1>2. /\ own \in [Spans -> Nat] /\ offTurn \in [Spans -> Nat] /\ rolledUp \in Nat
      /\ total = turnSum /\ total = [own EXCEPT ![Root] = @ + rolledUp] /\ Root \in Spans
  BY DEF Totals, Ledger, Spans
<1>3. Ledger'
  <2>1. own' \in [Spans -> Nat] /\ offTurn' \in [Spans -> Nat]
    BY <1>1, <1>2
  <2>2. total' = turnSum'
    BY <1>1, <1>2
  <2>3. total' = [own' EXCEPT ![Root] = @ + rolledUp]
    <3>1. Put(Put(own, Root, rolledUp), k, cost) = Put(Put(own, k, cost), Root, rolledUp)
      BY <1>2, PutCommutes
    <3>2. total = Put(own, Root, rolledUp) /\ total' = Put(total, k, cost) /\ own' = Put(own, k, cost)
      BY <1>1, <1>2 DEF Put
    <3>3. total' = Put(own', Root, rolledUp)
      BY <3>1, <3>2
    <3>4. QED
      BY <3>3 DEF Put
  <2>4. QED
    BY <1>1, <1>2, <2>1, <2>2, <2>3 DEF Ledger
<1>4. ASSUME NEW h \in Spans PROVE Paid(h)'
  <2>1. PICK paid : paid = own[h] - offTurn[h]
    OBVIOUS
  <2>2. /\ own[h] \in Nat /\ offTurn[h] \in Nat /\ bill[h] <= offTurn[h] /\ paid \in Int
        /\ Sums(log[h], paid)
    BY <2>1 DEF Totals, Paid
  <2>3. Sums(log'[h], paid)
    BY <2>2, FreeSums DEF AllTrue, Charges
  <2>4. own'[h] \in Nat /\ offTurn'[h] \in Nat /\ own'[h] - offTurn'[h] = paid
    BY <1>1, <1>2, <2>1, <2>2
  <2>5. bill'[h] <= offTurn'[h]
    <3>1. bill \in [Spans -> Nat]
      BY DEF Fits, LoopTyped
    <3>2. bill'[h] = bill[h] \/ (h = k /\ bill'[h] = cost)
      BY <1>1, <3>1
    <3>3. offTurn'[h] = offTurn[h] \/ (h = k /\ offTurn'[h] = offTurn[h] + cost)
      BY <1>1, <1>2
    <3>4. h = k => offTurn'[h] = offTurn[h] + cost
      BY <1>1, <1>2
    <3>5. bill[h] \in Nat
      BY <3>1
    <3>6. QED
      BY <2>2, <3>2, <3>3, <3>4, <3>5
  <2>6. QED
    BY <2>3, <2>4, <2>5 DEF Paid, Sums
<1>5. QED
  BY <1>3, <1>4 DEF Totals

\* A turn that is completed carries its bill.
LEMMA CompletionPays ==
  ASSUME Fits, Fits', Totals, AllTrue, \A h \in Spans : Moves(h), NEW k \in Spans, Completes(k)
  PROVE  Totals'
<1>1. /\ offTurn' = [offTurn EXCEPT ![k] = @ - bill[k]] /\ bill' = [bill EXCEPT ![k] = 0]
      /\ total' = total /\ turnSum' = turnSum /\ own' = own /\ rolledUp' = rolledUp
      /\ Wrote(k, "TurnCompleted", 0, bill[k]) /\ Busy(k)
      /\ \A h \in Spans : h # k => log'[h] = log[h]
  BY DEF Completes
<1>2. /\ own \in [Spans -> Nat] /\ offTurn \in [Spans -> Nat] /\ bill \in [Spans -> Nat]
      /\ bill[k] \in Nat /\ bill[k] <= offTurn[k]
  BY DEF Totals, Ledger, Paid, Fits, LoopTyped
<1>3. offTurn[k] \in Nat /\ offTurn[k] - bill[k] \in Nat
  BY <1>2
<1>4. Ledger'
  <2>1. offTurn' \in [Spans -> Nat]
    BY <1>1, <1>2, <1>3
  <2>2. QED
    BY <1>1, <2>1 DEF Totals, Ledger
<1>5. ASSUME NEW h \in Spans PROVE Paid(h)'
  <2>1. PICK paid : paid = own[h] - offTurn[h]
    OBVIOUS
  <2>2. /\ own[h] \in Nat /\ offTurn[h] \in Nat /\ bill[h] <= offTurn[h] /\ paid \in Int
        /\ Sums(log[h], paid)
    BY <2>1 DEF Totals, Paid
  <2>3. CASE h # k
    <3>1. log'[h] = log[h] /\ own'[h] = own[h] /\ offTurn'[h] = offTurn[h] /\ bill'[h] = bill[h]
      BY <1>1, <1>2, <2>3
    <3>2. QED
      BY <2>1, <2>2, <3>1 DEF Paid, Sums
  <2>4. CASE h = k
    <3>1. PICK e : e = Event(k, "TurnCompleted", 0, bill[k])
      OBVIOUS
    <3>2. Writes(k, "TurnCompleted", 0, e) /\ e.cost = bill[k]
      <4>1. Writes(k, "TurnCompleted", 0, e)
        BY <1>1, <3>1, Written
      <4>2. QED
        BY <3>1, <4>1 DEF Event
    <3>3. e \in EventType /\ e.kind = "TurnCompleted" /\ log'[k] = Append(log[k], e)
      BY <3>2 DEF Writes
    <3>4. PICK evs, T, open, C, a, c :
            /\ evs = log[k] /\ T = turn[k] /\ open = Busy(k) /\ C = calls[k]
            /\ a = Announced(k) /\ c = Collected(k)
      OBVIOUS
    <3>5. /\ Truth(evs, T, open, C, a, c) /\ open \in BOOLEAN /\ open
          /\ evs \in Seq(EventType)
      BY <1>1, <3>4 DEF AllTrue, True, Busy, Calls, Fits, LoopTyped
    <3>6. Sums(Append(evs, e), paid + e.cost)
      BY <2>2, <2>4, <3>3, <3>4, <3>5, SumsGrow
    <3>7. /\ own'[k] = own[k] /\ offTurn'[k] = offTurn[k] - bill[k] /\ bill'[k] = 0
          /\ paid + bill[k] = own[k] - (offTurn[k] - bill[k])
      BY <1>1, <1>2, <2>1, <2>2, <2>4
    <3>8. Sums(log'[k], own'[k] - offTurn'[k])
      BY <3>2, <3>3, <3>4, <3>6, <3>7
    <3>9. own'[k] \in Nat /\ offTurn'[k] \in Nat /\ bill'[k] <= offTurn'[k]
      BY <1>3, <2>2, <2>4, <3>7
    <3>10. QED
      BY <2>4, <3>8, <3>9 DEF Paid, Sums
  <2>5. QED
    BY <2>3, <2>4
<1>6. QED
  BY <1>4, <1>5 DEF Totals

\* An agent's bill comes to Root's total, and to nothing else.
LEMMA RollUpPays ==
  ASSUME Fits, Totals, NEW a \in Agents, RollsUp(a)
  PROVE  Totals'
<1>1. /\ total' = [total EXCEPT ![Root] = @ + total[a]]
      /\ turnSum' = [turnSum EXCEPT ![Root] = @ + total[a]]
      /\ rolledUp' = rolledUp + total[a] /\ bill' = bill /\ log' = log /\ own' = own
      /\ offTurn' = offTurn
  BY DEF RollsUp
<1>2. /\ own \in [Spans -> Nat] /\ rolledUp \in Nat /\ total = turnSum
      /\ total = [own EXCEPT ![Root] = @ + rolledUp] /\ Root \in Spans /\ a \in Spans
      /\ a # Root
  BY TelemetryAssumption DEF Totals, Ledger, Spans
<1>3. total[a] \in Nat
  BY <1>2
<1>4. total' = [own' EXCEPT ![Root] = @ + rolledUp']
  <2>1. Put(Put(own, Root, rolledUp), Root, total[a]) = Put(own, Root, rolledUp + total[a])
    BY <1>2, <1>3, PutTwice
  <2>2. total = Put(own, Root, rolledUp) /\ total' = Put(total, Root, total[a])
    BY <1>1, <1>2 DEF Put
  <2>3. total' = Put(own', Root, rolledUp')
    BY <1>1, <2>1, <2>2
  <2>4. QED
    BY <2>3 DEF Put
<1>5. Ledger'
  <2>1. own' \in [Spans -> Nat] /\ offTurn' \in [Spans -> Nat] /\ rolledUp' \in Nat
    BY <1>1, <1>2, <1>3 DEF Totals, Ledger
  <2>2. total' = turnSum'
    BY <1>1, <1>2
  <2>3. QED
    BY <1>4, <2>1, <2>2 DEF Ledger
<1>6. \A k \in Spans : Paid(k)'
  BY <1>1 DEF Totals, Paid, Sums
<1>7. QED
  BY <1>5, <1>6 DEF Totals

\* Nothing is paid yet.
LEMMA NothingPaid == ASSUME Init PROVE Totals
<1>1. /\ total = [k \in Spans |-> 0] /\ turnSum = [k \in Spans |-> 0]
      /\ own = [k \in Spans |-> 0] /\ offTurn = [k \in Spans |-> 0]
      /\ bill = [k \in Spans |-> 0] /\ log = [k \in Spans |-> <<>>] /\ rolledUp = 0
      /\ Root \in Spans
  BY DEF Init, Spans
<1>2. Ledger
  BY <1>1 DEF Ledger
<1>3. Sums(<<>>, 0)
  <2>1. PICK t, x : t = EmptyTree /\ x = NothingSeen
    OBVIOUS
  <2>2. TreeOf(<<>>) = t /\ SeenOf(<<>>) = x
    BY <2>1, TreeOfNone, SeenOfNone
  <2>3. DOMAIN x.spans = {} /\ Priced(x.spans, 0) /\ Generations(x.spans) = {}
    <3>1. PICK to : to = [id \in {} |-> 0]
      OBVIOUS
    <3>2. x = [spans |-> <<>>, tools |-> to]
      BY <2>1, <3>1 DEF NothingSeen
    <3>3. x.spans = <<>>
      BY <3>2
    <3>4. DOMAIN <<>> = {} /\ 1..0 = {}
      OBVIOUS
    <3>5. QED
      BY <3>3, <3>4 DEF Priced, Generations
  <2>4. /\ Priced(t.spans, 1) /\ t.spans[1].cost = 0
    <3>1. PICK s, to : s = NewSpan("kernel.run", 0, 0, <<>>) /\ to = [id \in {} |-> 0]
      OBVIOUS
    <3>2. s.cost = 0
      BY <3>1 DEF NewSpan
    <3>3. t = [spans |-> <<s>>, turn |-> 1, tools |-> to]
      BY <2>1, <3>1 DEF EmptyTree
    <3>4. t.spans = <<s>> /\ DOMAIN <<s>> = 1..1 /\ <<s>>[1] = s
      BY <3>3
    <3>5. QED
      BY <3>2, <3>4 DEF Priced
  <2>5. SumCosts(x.spans) = 0
    <3>1. SumCosts(x.spans) = Sum(Costs(x.spans), {})
      BY <2>3, SumCostsIs
    <3>2. IsFiniteSet({})
      BY FS_EmptySet
    <3>3. QED
      BY <3>1, <3>2, SumRecursion
  <2>6. SumCosts(t.spans) = 0
    <3>1. PICK f, S : f = Costs(t.spans) /\ S = 1..1
      OBVIOUS
    <3>2. SumCosts(t.spans) = Sum(f, S)
      BY <2>4, <3>1, SumCostsIs DEF Priced
    <3>3. f = [i \in 1..1 |-> t.spans[i].cost]
      BY <2>4, <3>1 DEF Priced, Costs
    <3>4. \A i \in S : f[i] \in Int /\ f[i] = 0
      BY <2>4, <3>1, <3>3
    <3>5. IsFiniteSet(S)
      <4>1. PICK n : n = 1
        OBVIOUS
      <4>2. n \in Int /\ S = 1..n
        BY <3>1, <4>1
      <4>3. QED
        BY <4>2, FS_Interval
    <3>6. QED
      BY <3>2, <3>4, <3>5, SumOfOne
  <2>7. QED
    BY <2>2, <2>3, <2>5, <2>6 DEF Sums
<1>4. ASSUME NEW k \in Spans PROVE Paid(k)
  BY <1>1, <1>3 DEF Paid
<1>5. QED
  BY <1>2, <1>4 DEF Totals

\* What the three readings make of what was paid.
LEMMA TotalsTell == ASSUME Totals PROVE TotalsAddUp
<1>1. /\ own \in [Spans -> Nat] /\ offTurn \in [Spans -> Nat] /\ rolledUp \in Nat
      /\ total = turnSum /\ total = [own EXCEPT ![Root] = @ + rolledUp] /\ Root \in Spans
  BY DEF Totals, Ledger, Spans
<1>2. IsFiniteSet(Spans)
  BY TelemetryAssumption, FS_Singleton, FS_Union DEF Spans
<1>3. ASSUME NEW k \in Spans
      PROVE  /\ SumCosts(SpanTree(k)) = own[k] - offTurn[k]
             /\ SumCosts(Observations(k)) = own[k] - offTurn[k]
             /\ (\E n \in DOMAIN log[k] : log[k][n].kind = "TurnCompleted") <=>
                  Generations(Observations(k)) # {}
  BY DEF Totals, Paid, Sums, Is, SpanTree, Observations
<1>4. ASSUME NEW k \in Spans
      PROVE  ExportedCost(k) = IF Generations(Observations(k)) = {} THEN total[k]
                               ELSE own[k] - offTurn[k]
  BY <1>3 DEF ExportedCost
<1>5. ASSUME NEW f, DOMAIN f = Spans PROVE SumOver(f) = Sum(f, Spans)
  BY <1>5 DEF SumOver, Sum
<1>6. SumOver(turnSum) = SumOver(own) + rolledUp
  <2>1. /\ \A k \in Spans : own[k] \in Int /\ turnSum[k] \in Int
        /\ \A k \in Spans \ {Root} : turnSum[k] = own[k]
        /\ turnSum[Root] = own[Root] + rolledUp
        /\ DOMAIN turnSum = Spans /\ DOMAIN own = Spans
    BY <1>1
  <2>2. Sum(turnSum, Spans) - Part(turnSum, Spans, Root) = Sum(own, Spans) - Part(own, Spans, Root)
    BY <1>2, <2>1, SumChange
  <2>3. Sum(turnSum, Spans) \in Int /\ Sum(own, Spans) \in Int
    BY <1>2, <2>1, SumCongruent
  <2>4. Part(turnSum, Spans, Root) = turnSum[Root] /\ Part(own, Spans, Root) = own[Root]
    BY <1>1 DEF Part
  <2>5. SumOver(turnSum) = Sum(turnSum, Spans) /\ SumOver(own) = Sum(own, Spans)
    BY <1>5, <2>1
  <2>6. own[Root] \in Int /\ rolledUp \in Int
    BY <1>1
  <2>7. QED
    BY <2>1, <2>2, <2>3, <2>4, <2>5, <2>6
<1>7. ListedUSD = SumOver(own) + rolledUp /\ LoadTraceTotal = ListedUSD
  BY <1>1, <1>6 DEF ListedUSD, LoadTraceTotal
<1> DEFINE exported == [k \in Spans |-> ExportedCost(k)]
           completed(k) == \E n \in DOMAIN log[k] : log[k][n].kind = "TurnCompleted"
<1>8. ASSUME completed(Root) \/ rolledUp = 0 PROVE SumOver(exported) <= SumOver(own)
  <2>1. ASSUME NEW k \in Spans PROVE exported[k] \in Int /\ own[k] \in Int /\ exported[k] <= own[k]
    <3>1. own[k] \in Nat /\ offTurn[k] \in Nat /\ exported[k] = ExportedCost(k)
      BY <1>1
    <3>2. CASE Generations(Observations(k)) = {}
      <4>1. exported[k] = total[k]
        BY <1>4, <3>1, <3>2
      <4>2. CASE k # Root
        <5>1. total[k] = own[k]
          BY <1>1, <4>2
        <5>2. QED
          BY <3>1, <4>1, <5>1
      <4>3. CASE k = Root
        <5>1. ~completed(Root)
          BY <1>3, <3>2, <4>3
        <5>2. rolledUp = 0
          BY <1>8, <5>1
        <5>3. total[Root] = own[Root]
          BY <1>1, <5>2
        <5>4. QED
          BY <3>1, <4>1, <4>3, <5>3
      <4>4. QED
        BY <4>2, <4>3
    <3>3. CASE Generations(Observations(k)) # {}
      <4>1. exported[k] = own[k] - offTurn[k]
        BY <1>4, <3>1, <3>3
      <4>2. QED
        BY <3>1, <4>1
    <3>4. QED
      BY <3>2, <3>3
  <2>2. DOMAIN exported = Spans /\ DOMAIN own = Spans
    BY <1>1
  <2> HIDE DEF exported
  <2>3. Sum(exported, Spans) <= Sum(own, Spans)
    BY <1>2, <2>1, SumMonotone
  <2>4. QED
    BY <1>5, <2>2, <2>3
<1>9. ASSUME NEW k \in Spans, completed(k) PROVE exported[k] = own[k] - offTurn[k]
  BY <1>3, <1>4, <1>9
<1>10. QED
  BY <1>3, <1>7, <1>8, <1>9 DEF TotalsAddUp

\* What the readings of a trace add up to is what the provider charged, with an agent
\* counted twice in the session's totals and once in the export.
THEOREM TotalsAreWhatWasPaid == Spec => []TotalsAddUp
<1>1. Init => Fits /\ AllTrue /\ Totals
  BY InitFits, NothingTrue, NothingPaid DEF AllTrue
<1>2. Fits /\ AllTrue /\ Totals /\ [Next]_vars => (Fits /\ AllTrue /\ Totals)'
  <2>1. SUFFICES ASSUME Fits, AllTrue, Totals, [Next]_vars PROVE (Fits /\ AllTrue /\ Totals)'
    OBVIOUS
  <2>2. Fits' /\ \A h \in Spans : Moves(h)
    BY <2>1, NextMoves
  <2>3. ASSUME NEW k \in Spans PROVE True(k)'
    BY <2>1, <2>2, MovesTrue DEF AllTrue
  <2>4. AllTrue'
    BY <2>3 DEF AllTrue
  <2>5. \/ Quiet \/ (\E k \in Spans, cost \in Nat : Charges(k, cost))
        \/ (\E k \in Spans : Completes(k)) \/ \E a \in Agents : RollsUp(a)
    BY <2>1, NextCharges DEF Fits
  <2>6. Totals'
    BY <2>1, <2>2, <2>5, QuietPays, ChargePays, CompletionPays, RollUpPays
  <2>7. QED
    BY <2>2, <2>4, <2>6
<1>3. Totals => TotalsAddUp
  BY TotalsTell
<1>4. QED
  BY <1>1, <1>2, <1>3, PTL DEF Spec

============================================================================
