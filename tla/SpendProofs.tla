---------------------------- MODULE SpendProofs -----------------------------
(***************************************************************************)
(* Proofs about Spend for every limit, every set of prices and any number  *)
(* of calls, steps and subagents: the accounting is honest, the ledger     *)
(* complete, a limit that is reached is final, and subagents that work one *)
(* at a time overrun it by little.                                         *)
(***************************************************************************)
EXTENDS Spend, DataLemmas

-----------------------------------------------------------------------------
(* The invariants.                                                          *)

Places == {"idle", "lock", "preCompact", "preCompactRow", "check", "step", "stepRow",
           "tools", "compact", "compactRow", "stopped", "waking", "finish", "schema",
           "schemaRow", "rollup", "rollupRow", "result", "resume", "gone"}

\* Where a child may be: it never waits for the loop's lock and asks for no schema.
ChildPlaces == Places \ {"lock", "preCompact", "preCompactRow", "waking", "finish",
                         "schema", "schemaRow"}

Rows == [kernel : Kernels, turn : Nat, total : Nat]

Shapes ==
  /\ pc \in [Loops -> Places]
  /\ running \in [Kernels -> Nat] /\ limit \in [Kernels -> Nat]
  /\ start \in [Loops -> Nat] /\ turnMax \in [Loops -> Nat]
  /\ row \in [Loops -> Rows] /\ rows \in [Kernels -> [sum : Nat, last : Nat]]
  /\ steps \in [Kernels -> Nat] /\ paid \in Nat /\ async \subseteq Children
  /\ queue \in Nat /\ caller \in Loops /\ chats \in Nat
  /\ lost \in Nat /\ beside \in BOOLEAN

\* A child is where children may be, has spent nothing before it starts; a row waits
\* only for the goroutine that is about to insert it; Root keeps its limit.
Tidy ==
  /\ \A c \in Children : pc[c] \in ChildPlaces /\ (pc[c] = "idle" => running[c] = 0)
  /\ \A l \in Loops : pc[l] \notin InsertsAt => row[l] = NoRow
  /\ limit[Root] = TranscriptMax

\* What is still to come of a child's cost.
Working(c) == pc[c] \notin {"idle", "rollupRow", "result", "resume", "gone"}

Alone == TranscriptMax > 0 /\ ~beside /\ async = {}

\* With one subagent at a time: it works while Root waits in its tool turn, on what is
\* left of Root's limit; a step starts below the limit, a response and a summary may
\* come on top.
Brake ==
  Alone =>
    /\ queue = 0 /\ pc[Wake] = "idle"
    /\ \A c \in Children : pc[c] \notin {"idle", "gone"} =>
         /\ pc[Root] = "tools"
         /\ \A d \in Children : pc[d] \notin {"idle", "gone"} => d = c
    /\ \A c \in Children : Working(c) =>
         /\ running[Root] + limit[c] = TranscriptMax /\ limit[c] > 0
         /\ running[c] < limit[c] + MaxPrice
         /\ pc[c] \in {"step", "tools", "compact"} => running[c] < limit[c]
    /\ running[Root] < TranscriptMax + 2 * MaxPrice
    /\ pc[Root] \in {"step", "preCompact", "schema"} => running[Root] < TranscriptMax
    /\ pc[Root] \in {"stepRow", "tools", "compact", "preCompactRow", "schemaRow"} =>
         running[Root] < TranscriptMax + MaxPrice

\* The kernel a loop belongs to.
LEMMA KernelOfType ==
  /\ \A l \in Loops : KernelOf(l) \in Kernels
  /\ \A c \in Children : c \in Loops /\ c \in Kernels /\ KernelOf(c) = c /\ c # Root /\ c # Wake
  /\ Root \in Loops /\ Wake \in Loops /\ Root \in Kernels /\ Root # Wake
  /\ KernelOf(Root) = Root /\ KernelOf(Wake) = Root
  BY SpendAssumption DEF KernelOf, Kernels, Loops

\* Where an llm-step in flight continues.
LEMMA BilledIs ==
  /\ InFlight = {"step", "compact", "preCompact", "schema"}
  /\ InsertsAt = {"stepRow", "compactRow", "preCompactRow", "schemaRow", "rollupRow"}
  /\ Billed["step"] = "stepRow" /\ Billed["compact"] = "compactRow"
  /\ Billed["preCompact"] = "preCompactRow" /\ Billed["schema"] = "schemaRow"
<1>1. InFlight = {"step", "compact", "preCompact", "schema"}
  BY DEF InFlight, Billed
<1>2. /\ Billed["step"] = "stepRow" /\ Billed["compact"] = "compactRow"
      /\ Billed["preCompact"] = "preCompactRow" /\ Billed["schema"] = "schemaRow"
  BY DEF Billed
<1>3. {Billed[s] : s \in InFlight} = {"stepRow", "compactRow", "preCompactRow", "schemaRow"}
  BY <1>1, <1>2
<1> QED
  BY <1>1, <1>2, <1>3 DEF InsertsAt

\* NewKernel's state is well typed and tidy, and nothing is spent.
LEMMA IInvInit == Init => Shapes /\ Tidy
<1> SUFFICES ASSUME Init PROVE Shapes /\ Tidy
  OBVIOUS
<1> USE KernelOfType, SpendAssumption
<1>1. NoRow \in Rows
  BY DEF NoRow, Rows
<1>2. pc \in [Loops -> Places] /\ row \in [Loops -> Rows]
  BY <1>1 DEF Init, Places
<1>3. Shapes
  BY <1>2 DEF Init, Shapes
<1>4. Tidy
  BY DEF Init, Tidy, ChildPlaces, Places
<1> QED
  BY <1>3, <1>4

\* No operation changes the type of anything.
LEMMA ShapesStep == Shapes /\ Tidy /\ [Next]_vars => Shapes'
<1> SUFFICES ASSUME Shapes, Tidy, [Next]_vars PROVE Shapes'
  OBVIOUS
<1> USE KernelOfType, BilledIs, SpendAssumption DEF Goto
<1>1. ASSUME NEW max \in TurnMax, Chat(max) PROVE Shapes'
  BY <1>1 DEF Shapes, Chat, NewBudget, truth, Places
<1>2. ASSUME NEW l \in {Root, Wake}, LockRun(l) PROVE Shapes'
  BY <1>2 DEF Shapes, LockRun, truth, Places
<1>3. CASE CallStep
  <2>1. CASE CallResumes
    BY <2>1 DEF Shapes, CallResumes, StartWake, NewBudget, truth, Places
  <2>2. CASE CallIdle \/ StartSchema \/ EndCall
    BY <2>2 DEF Shapes, CallIdle, StartSchema, EndCall, truth, Places
  <2> QED BY <1>3, <2>1, <2>2 DEF CallStep
<1>4. ASSUME NEW l \in Loops, LoopStep(l) PROVE Shapes'
  <2>1. CASE LimitReached(l)
    BY <2>1 DEF Shapes, LimitReached, truth, Places
  <2>2. CASE StartStep(l)
    BY <2>2 DEF Shapes, StartStep, truth, Places
  <2>3. CASE AppendCost(l)
    <3>1. pc' \in [Loops -> Places]
      BY <2>3 DEF Shapes, AppendCost, AfterRow, Places
    <3>2. row[l] \in Rows
      BY DEF Shapes
    <3>3. rows' \in [Kernels -> [sum : Nat, last : Nat]]
      BY <2>3, <3>2 DEF Shapes, AppendCost, Rows
    <3>4. row' \in [Loops -> Rows]
      BY <2>3 DEF Shapes, AppendCost, Rows, NoRow
    <3> QED BY <2>3, <3>1, <3>3, <3>4 DEF Shapes, AppendCost, truth
  <2>4. CASE LeaveTools(l)
    <3>1. pc' \in [Loops -> Places]
      BY <2>4 DEF Shapes, LeaveTools, Places
    <3>2. queue' \in Nat
      BY <2>4 DEF Shapes, LeaveTools
    <3> QED BY <2>4, <3>1, <3>2 DEF Shapes, LeaveTools, truth
  <2>5. CASE StepFails(l)
    <3>1. pc' \in [Loops -> Places]
      BY <2>5 DEF Shapes, StepFails, Places
    <3>2. lost' \in Nat
      BY <2>5 DEF Shapes, StepFails
    <3> QED BY <2>5, <3>1, <3>2 DEF Shapes, StepFails
  <2>6. ASSUME NEW cost \in Prices, UpdateUse(l, cost) PROVE Shapes'
    <3>0. cost \in Nat
      OBVIOUS
    <3>1. pc' \in [Loops -> Places]
      BY <2>6 DEF Shapes, UpdateUse, Places
    <3>2. running' \in [Kernels -> Nat] /\ paid' \in Nat
      BY <2>6, <3>0 DEF Shapes, UpdateUse
    <3>3. row' \in [Loops -> Rows]
      BY <2>6, <3>0, <3>2 DEF Shapes, UpdateUse, Rows
    <3> QED BY <2>6, <3>1, <3>2, <3>3 DEF Shapes, UpdateUse, truth
  <2> QED BY <1>4, <2>1, <2>2, <2>3, <2>4, <2>5, <2>6 DEF LoopStep
<1>5. ASSUME NEW c \in Children, ChildStep(c) PROVE Shapes'
  <2>1. ASSUME RunSubagent(c)
        PROVE  pc' \in [Loops -> Places] /\ limit' \in [Kernels -> Nat]
    <3>1. pc' \in [Loops -> Places]
      BY <2>1 DEF Shapes, RunSubagent, Places
    <3>2. limit[Root] \in Nat /\ running[Root] \in Nat
      BY DEF Shapes
    <3>3. CASE limit[Root] > 0 /\ running[Root] >= limit[Root]
      BY <2>1, <3>1, <3>3 DEF Shapes, RunSubagent
    <3>4. CASE ~(limit[Root] > 0 /\ running[Root] >= limit[Root])
      <4>1. (IF limit[Root] > 0 THEN ChildBudget ELSE 0) \in Nat
        BY <3>2, <3>4 DEF ChildBudget
      <4> QED BY <2>1, <3>1, <3>4, <4>1 DEF Shapes, RunSubagent
    <3> QED BY <3>3, <3>4
  <2>2. CASE Subagent(c)
    BY <2>1, <2>2 DEF Shapes, Subagent
  <2>3. CASE SubagentAsync(c)
    BY <2>1, <2>3 DEF Shapes, SubagentAsync, truth
  <2>4. CASE ChildStops(c)
    BY <2>4 DEF Shapes, ChildStops, truth, Places
  <2>5. CASE RollUp(c)
    <3>1. pc' \in [Loops -> Places]
      BY <2>5 DEF Shapes, RollUp, Places
    <3>2. running' \in [Kernels -> Nat]
      BY <2>5 DEF Shapes, RollUp
    <3>3. row' \in [Loops -> Rows]
      BY <2>5, <3>2 DEF Shapes, RollUp, Rows
    <3> QED BY <2>5, <3>1, <3>2, <3>3 DEF Shapes, RollUp, truth
  <2>6. CASE Result(c)
    BY <2>6 DEF Shapes, Result, truth, Places
  <2>7. CASE ResumeNoop(c)
    BY <2>7 DEF Shapes, ResumeNoop, truth, Places
  <2>8. CASE ResumeWakes(c)
    BY <2>8 DEF Shapes, ResumeWakes, StartWake, NewBudget, truth, Places
  <2> QED BY <1>5, <2>2, <2>3, <2>4, <2>5, <2>6, <2>7, <2>8 DEF ChildStep
<1>6. CASE UNCHANGED vars
  BY <1>6 DEF Shapes, vars, truth
<1> QED
  BY <1>1, <1>2, <1>3, <1>4, <1>5, <1>6 DEF Next

\* Children stay where children may be, rows are inserted where they are due.
LEMMA TidyStep == Shapes /\ Tidy /\ [Next]_vars => Tidy'
<1> SUFFICES ASSUME Shapes, Tidy, [Next]_vars PROVE Tidy'
  OBVIOUS
<1> USE KernelOfType, BilledIs DEF Goto, Tidy, ChildPlaces
<1>0. /\ pc \in [Loops -> Places] /\ row \in [Loops -> Rows]
      /\ running \in [Kernels -> Nat] /\ limit \in [Kernels -> Nat]
  BY DEF Shapes
<1>1. ASSUME NEW max \in TurnMax, Chat(max) PROVE Tidy'
  BY <1>0, <1>1 DEF Chat, Places
<1>2. ASSUME NEW l \in {Root, Wake}, LockRun(l) PROVE Tidy'
  BY <1>0, <1>2 DEF LockRun, Places
<1>3. CASE CallStep
  BY <1>0, <1>3 DEF CallStep, CallResumes, CallIdle, StartSchema, EndCall, Places
<1>4. ASSUME NEW l \in Loops, LoopStep(l) PROVE Tidy'
  <2>1. CASE LimitReached(l)
    BY <1>0, <2>1 DEF LimitReached, Places
  <2>2. CASE StartStep(l)
    BY <1>0, <2>2 DEF StartStep, Places
  <2>3. CASE AppendCost(l)
    BY <1>0, <2>3 DEF AppendCost, AfterRow, Places
  <2>4. CASE LeaveTools(l)
    BY <1>0, <2>4 DEF LeaveTools, Places
  <2>5. CASE StepFails(l)
    BY <1>0, <2>5 DEF StepFails, Places
  <2>6. ASSUME NEW cost \in Prices, UpdateUse(l, cost) PROVE Tidy'
    <3>1. /\ pc[l] \in InFlight /\ pc' = [pc EXCEPT ![l] = Billed[pc[l]]]
          /\ \A m \in Loops : m # l => row'[m] = row[m]
          /\ \A c \in Children : c # l => running'[c] = running[c]
          /\ limit' = limit
      BY <1>0, <2>6 DEF UpdateUse, KernelOf
    <3>2. pc'[l] \in InsertsAt /\ pc'[l] # "idle" /\ (l \in Children => pc'[l] \in ChildPlaces)
      <4>1. pc'[l] = Billed[pc[l]]
        BY <1>0, <3>1
      <4> QED BY <3>1, <4>1 DEF Places
    <3>3. \A m \in Loops : m # l => pc'[m] = pc[m]
      BY <1>0, <3>1
    <3> QED BY <3>1, <3>2, <3>3
  <2> QED BY <1>4, <2>1, <2>2, <2>3, <2>4, <2>5, <2>6 DEF LoopStep
<1>5. ASSUME NEW c \in Children, ChildStep(c) PROVE Tidy'
  <2>1. CASE Subagent(c)
    BY <1>0, <2>1 DEF Subagent, RunSubagent, Places
  <2>2. CASE SubagentAsync(c)
    BY <1>0, <2>2 DEF SubagentAsync, RunSubagent, Places
  <2>3. CASE ChildStops(c)
    BY <1>0, <2>3 DEF ChildStops, Places
  <2>4. CASE RollUp(c)
    BY <1>0, <2>4 DEF RollUp, Places
  <2>5. CASE Result(c)
    BY <1>0, <2>5 DEF Result, Places
  <2>6. CASE ResumeNoop(c) \/ ResumeWakes(c)
    BY <1>0, <2>6 DEF ResumeNoop, ResumeWakes, Places
  <2> QED BY <1>5, <2>1, <2>2, <2>3, <2>4, <2>5, <2>6 DEF ChildStep
<1>6. CASE UNCHANGED vars
  BY <1>6 DEF vars
<1> QED
  BY <1>1, <1>2, <1>3, <1>4, <1>5, <1>6 DEF Next

-----------------------------------------------------------------------------
(* The accounting.                                                          *)

Honest(r, u, w, p) == r[Root] + Sum(r, u) + w = p

\* HonestTotal with the sum as a function of what it depends on.
LEMMA HonestIs == HonestTotal <=> Honest(running, Unrolled, lost, paid)
  BY DEF HonestTotal, Honest, Sum

\* The same of the next state.
LEMMA HonestNext == HonestTotal' <=> Honest(running', Unrolled', lost', paid')
<1> DEFINE Now == Honest(running, Unrolled, lost, paid)
<1>1. HonestTotal <=> Now
  BY HonestIs
<1> HIDE DEF Now
<1>2. HonestTotal' <=> Now'
  BY <1>1, PTL
<1> QED
  BY <1>2 DEF Now

\* One child changes, all others and their costs stay.
LEMMA HonestChange ==
  ASSUME NEW r \in [Kernels -> Nat], NEW s \in [Kernels -> Nat],
         NEW u \in SUBSET Children, NEW v \in SUBSET Children, NEW y,
         u \ {y} = v \ {y}, \A c \in Children : c # y => s[c] = r[c],
         NEW w \in Nat, NEW x \in Nat, NEW p \in Nat, NEW q \in Nat, Honest(r, u, w, p),
         s[Root] + Part(s, v, y) + x - q
           = r[Root] + Part(r, u, y) + w - p
  PROVE  Honest(s, v, x, q)
<1>1. IsFiniteSet(u) /\ IsFiniteSet(v)
  BY SpendAssumption, FS_Subset
<1>2. /\ \A c \in u : r[c] \in Int
      /\ \A c \in v : s[c] \in Int
      /\ \A c \in u \ {y} : s[c] = r[c]
  BY KernelOfType
<1> DEFINE a == Part(s, v, y)
           b == Part(r, u, y)
           su == Sum(r, u)
           sv == Sum(s, v)
<1>3. sv - a = su - b
  BY <1>1, <1>2, SumChange
<1>4. su \in Int /\ sv \in Int
  BY <1>1, <1>2, SumCongruent
<1>5. a \in Int /\ b \in Int /\ r[Root] \in Int /\ s[Root] \in Int
  BY <1>2, KernelOfType DEF Part
<1>6. s[Root] + a + x - q = r[Root] + b + w - p /\ r[Root] + su + w = p
  BY DEF Honest
<1> HIDE DEF a, b, su
<1>7. s[Root] + sv + x = q
  <2> HIDE DEF sv
  <2>1. sv = su - b + a
    BY <1>3, <1>4, <1>5
  <2>2. su = p - w - r[Root]
    BY <1>4, <1>5, <1>6
  <2>3. s[Root] = r[Root] + b + w - p + q - a - x
    BY <1>5, <1>6
  <2> QED BY <1>4, <1>5, <2>1, <2>2, <2>3
<1> QED
  BY <1>7 DEF Honest

\* Nothing spent, nothing to account for.
LEMMA HonestInit == Init => HonestTotal
<1> SUFFICES ASSUME Init PROVE Honest(running, Unrolled, lost, paid)
  BY HonestIs
<1>1. Unrolled \in SUBSET Children /\ IsFiniteSet(Unrolled)
  BY SpendAssumption, FS_Subset DEF Unrolled
<1>2. \A c \in Unrolled : running[c] = 0
  BY <1>1, KernelOfType DEF Init
<1>3. Sum(running, Unrolled) = 0
  BY <1>1, <1>2, KernelOfType, SumOfOne DEF Unrolled
<1> QED
  BY <1>3, KernelOfType DEF Init, Honest

\* Every step keeps the accounting honest: what it bills is added where it is billed,
\* and a child leaves the sum as its cost enters Root's total or is lost.
LEMMA HonestStep == Shapes /\ Tidy /\ HonestTotal /\ [Next]_vars => HonestTotal'
<1> SUFFICES ASSUME Shapes, Tidy, HonestTotal, [Next]_vars
             PROVE  Honest(running', Unrolled', lost', paid')
  BY HonestNext
<1>0. /\ running \in [Kernels -> Nat] /\ lost \in Nat /\ paid \in Nat
      /\ pc \in [Loops -> Places]
      /\ Unrolled \in SUBSET Children /\ Unrolled' \in SUBSET Children
      /\ Honest(running, Unrolled, lost, paid)
  BY HonestIs DEF Shapes, Unrolled
<1>1. running' \in [Kernels -> Nat] /\ lost' \in Nat /\ paid' \in Nat
  BY ShapesStep DEF Shapes
<1>2. ASSUME running' = running, lost' = lost, paid' = paid, NEW y \in Children,
             running[y] = 0, Unrolled' \ {y} = Unrolled \ {y}
      PROVE  Honest(running', Unrolled', lost', paid')
  BY <1>0, <1>1, <1>2, HonestChange, KernelOfType DEF Part
<1>3. ASSUME running' = running, lost' = lost, paid' = paid, Unrolled' = Unrolled
      PROVE  Honest(running', Unrolled', lost', paid')
  BY <1>0, <1>3
<1> USE KernelOfType, BilledIs DEF Goto
<1>4. ASSUME NEW max \in TurnMax, Chat(max) PROVE Honest(running', Unrolled', lost', paid')
  BY <1>0, <1>3, <1>4 DEF Chat, truth, Unrolled
<1>5. ASSUME NEW l \in {Root, Wake}, LockRun(l) PROVE Honest(running', Unrolled', lost', paid')
  BY <1>0, <1>3, <1>5 DEF LockRun, truth, Unrolled
<1>6. CASE CallStep
  BY <1>0, <1>3, <1>6 DEF CallStep, CallResumes, CallIdle, StartSchema, EndCall, truth, Unrolled
<1>7. ASSUME NEW l \in Loops, LoopStep(l) PROVE Honest(running', Unrolled', lost', paid')
  <2>1. CASE LimitReached(l) \/ StartStep(l)
    BY <1>0, <1>3, <2>1 DEF LimitReached, StartStep, truth, Unrolled
  <2>2. CASE AppendCost(l)
    BY <1>0, <1>3, <2>2 DEF AppendCost, AfterRow, truth, Unrolled
  <2>3. CASE LeaveTools(l)
    BY <1>0, <1>3, <2>3 DEF LeaveTools, truth, Unrolled
  <2>4. CASE StepFails(l)
    <3>1. CASE l \notin Children
      <4>1. Unrolled' = Unrolled
        BY <1>0, <2>4, <3>1 DEF StepFails, Unrolled
      <4> QED BY <1>3, <2>4, <3>1, <4>1 DEF StepFails
    <3>2. CASE l \in Children
      <4>1. l \in Unrolled /\ l \notin Unrolled' /\ Unrolled' \ {l} = Unrolled \ {l}
        BY <1>0, <2>4, <3>2 DEF StepFails, Unrolled
      <4>2. running' = running /\ paid' = paid /\ lost' = lost + running[l]
        BY <2>4, <3>2 DEF StepFails
      <4>3. running[l] \in Nat /\ running[Root] \in Nat
        BY <1>0, <3>2
      <4>4. running'[Root] + 0 + lost' - paid' = running[Root] + running[l] + lost - paid
        BY <1>0, <4>2, <4>3
      <4> QED BY <1>0, <1>1, <4>1, <4>2, <4>4, HonestChange DEF Part
    <3> QED BY <3>1, <3>2
  <2>5. ASSUME NEW cost \in Prices, UpdateUse(l, cost)
        PROVE  Honest(running', Unrolled', lost', paid')
    <3> DEFINE k == KernelOf(l)
    <3>1. /\ k \in Kernels /\ running' = [running EXCEPT ![k] = @ + cost]
          /\ paid' = paid + cost /\ lost' = lost /\ cost \in Nat
      BY <2>5, SpendAssumption DEF UpdateUse, truth
    <3>2. Unrolled' = Unrolled
      BY <1>0, <2>5 DEF UpdateUse, Unrolled
    <3>3. CASE k = Root
      <4>1. \A c \in Children : c # Root => running'[c] = running[c]
        BY <1>0, <3>1, <3>3
      <4>2. Root \notin Unrolled /\ running'[Root] = running[Root] + cost
        BY <1>0, <3>1, <3>3
      <4>3. running'[Root] + 0 + lost' - paid' = running[Root] + 0 + lost - paid
        BY <1>0, <3>1, <4>2
      <4> HIDE DEF k
      <4> QED BY <1>0, <1>1, <3>2, <4>1, <4>2, <4>3, HonestChange DEF Part
    <3>4. CASE k # Root
      <4>1. k = l /\ l \in Children
        BY <3>1, <3>4 DEF KernelOf, Kernels, Loops
      <4>2. l \in Unrolled
        BY <1>0, <2>5, <4>1 DEF UpdateUse, Unrolled
      <4>3. /\ running'[Root] = running[Root] /\ running'[l] = running[l] + cost
            /\ \A c \in Children : c # l => running'[c] = running[c]
        BY <1>0, <3>1, <4>1
      <4>4. running'[Root] + running'[l] + lost' - paid' = running[Root] + running[l] + lost - paid
        BY <1>0, <3>1, <4>1, <4>3
      <4> QED BY <1>0, <1>1, <3>2, <4>2, <4>3, <4>4, HonestChange DEF Part
    <3> QED BY <3>3, <3>4
  <2> QED BY <1>7, <2>1, <2>2, <2>3, <2>4, <2>5 DEF LoopStep
<1>8. ASSUME NEW c \in Children, ChildStep(c) PROVE Honest(running', Unrolled', lost', paid')
  <2>1. ASSUME RunSubagent(c) PROVE running[c] = 0 /\ Unrolled' \ {c} = Unrolled \ {c}
    BY <1>0, <2>1 DEF RunSubagent, Unrolled, Tidy
  <2>2. CASE Subagent(c) \/ SubagentAsync(c)
    BY <1>2, <2>1, <2>2 DEF Subagent, SubagentAsync, truth
  <2>3. CASE ChildStops(c)
    BY <1>0, <1>3, <2>3 DEF ChildStops, truth, Unrolled
  <2>4. CASE RollUp(c)
    <3>1. c \in Unrolled /\ c \notin Unrolled' /\ Unrolled' \ {c} = Unrolled \ {c}
      BY <1>0, <2>4 DEF RollUp, Unrolled
    <3>2. /\ running'[Root] = running[Root] + running[c] /\ lost' = lost /\ paid' = paid
          /\ \A d \in Children : running'[d] = running[d]
      BY <1>0, <2>4 DEF RollUp, truth
    <3>3. running'[Root] + 0 + lost' - paid' = running[Root] + running[c] + lost - paid
      BY <1>0, <3>2
    <3> QED BY <1>0, <1>1, <3>1, <3>2, <3>3, HonestChange DEF Part
  <2>5. CASE Result(c)
    BY <1>0, <1>3, <2>5 DEF Result, truth, Unrolled
  <2>6. CASE ResumeNoop(c) \/ ResumeWakes(c)
    BY <1>0, <1>3, <2>6 DEF ResumeNoop, ResumeWakes, truth, Unrolled
  <2> QED BY <1>8, <2>2, <2>3, <2>4, <2>5, <2>6 DEF ChildStep
<1>9. CASE UNCHANGED vars
  BY <1>3, <1>9 DEF vars, truth, Unrolled
<1> QED
  BY <1>4, <1>5, <1>6, <1>7, <1>8, <1>9 DEF Next

(***************************************************************************)
(* "Roll child spend into the parent total so RunningCostUSD is honest":   *)
(* whatever order calls, woken loops and subagents bill and report in,     *)
(* Root's total and the children at work account for all that was paid,    *)
(* but for what a child spent before it failed.                            *)
(***************************************************************************)
THEOREM AccountingIsHonest == Spec => []HonestTotal
<1>1. Shapes /\ Tidy /\ HonestTotal /\ [Next]_vars => (Shapes /\ Tidy /\ HonestTotal)'
  BY ShapesStep, TidyStep, HonestStep
<1> QED
  BY <1>1, IInvInit, HonestInit, PTL DEF Spec

-----------------------------------------------------------------------------
(* The ledger.                                                              *)

Turns(r) == [l \in Loops |-> r[l].turn]

Of(r, k) == {l \in Loops : r[l].kernel = k}

Entered(w, r, n, k) == w[k].sum + Sum(Turns(r), Of(r, k)) = n[k]

SumOfTurns(r, S) == MapThenSumSet(LAMBDA l : r[l].turn, S)

\* The sum of the property is the sum of a function.
LEMMA TurnsSum ==
  ASSUME NEW r, NEW S \in SUBSET Loops, \A l \in Loops : r[l].turn \in Int
  PROVE  SumOfTurns(r, S) = Sum(Turns(r), S)
<1> DEFINE f == Turns(r)
           P(g) == g = [s \in SUBSET S |->
                          IF s = {} THEN 0 ELSE r[Pick(s)].turn + g[s \ {Pick(s)}]]
           h == CHOOSE g : P(g)
<1>1. SumOfTurns(r, S) = h[S]
  BY DEF SumOfTurns, MapThenSumSet, MapThenFoldSet, Pick
<1>2. IsFiniteSet(S)
  <2>1. IsFiniteSet(Loops)
    BY SpendAssumption, FS_AddElement DEF Loops, Kernels
  <2> QED BY <2>1, FS_Subset
<1>3. \A x \in S : f[x] = r[x].turn /\ f[x] \in Int
  BY DEF Turns
<1>4. \A s \in SUBSET S : s # {} => Pick(s) \in S
  BY <1>2, PickOut
<1>5. ASSUME NEW g PROVE Adds(g, f, S) <=> P(g)
  <2>1. [s \in SUBSET S |-> IF s = {} THEN 0 ELSE f[Pick(s)] + g[s \ {Pick(s)}]]
        = [s \in SUBSET S |-> IF s = {} THEN 0 ELSE r[Pick(s)].turn + g[s \ {Pick(s)}]]
    <3> HIDE DEF f
    <3> QED BY <1>3, <1>4
  <2> HIDE DEF f
  <2> QED BY <2>1 DEF Adds
<1>6. \E g : P(g)
  <2>1. PICK g \in [SUBSET S -> Int] : Adds(g, f, S)
    <3> HIDE DEF f
    <3> QED BY <1>2, <1>3, SumIterExists
  <2> HIDE DEF P, f
  <2> QED BY <2>1, <1>5
<1>7. P(h)
  BY <1>6
<1> HIDE DEF P, h, f
<1>8. AddsOn(h, f, S)
  BY <1>5, <1>7 DEF Adds, AddsOn
<1>9. AddsOn(SumIter(f, S), f, S)
  BY <1>2, <1>3, SumIterType
<1>10. h[S] = SumIter(f, S)[S]
  BY <1>2, <1>3, <1>8, <1>9, SameIter
<1> QED
  BY <1>1, <1>10, SumIsIter DEF f

\* LedgerComplete as a statement about what it depends on.
LEMMA LedgerIs ==
  ASSUME NEW w, NEW r \in [Loops -> Rows], NEW n, NEW k \in Kernels
  PROVE  Entered(w, r, n, k) <=>
           w[k].sum + MapThenSumSet(LAMBDA l : r[l].turn, {l \in Loops : r[l].kernel = k}) = n[k]
<1>1. Of(r, k) \in SUBSET Loops /\ \A l \in Loops : r[l].turn \in Int
  BY DEF Of, Rows
<1>2. SumOfTurns(r, Of(r, k)) = Sum(Turns(r), Of(r, k))
  BY <1>1, TurnsSum
<1> QED
  BY <1>2 DEF SumOfTurns, Of, Entered

Ledger == \A k \in Kernels : Entered(rows, row, running, k)

\* The two are the same.
LEMMA LedgerNow == Shapes => (LedgerComplete <=> Ledger)
<1> SUFFICES ASSUME Shapes PROVE LedgerComplete <=> Ledger
  OBVIOUS
<1>1. row \in [Loops -> Rows]
  BY DEF Shapes
<1>2. \A k \in Kernels : Entered(rows, row, running, k) <=>
        rows[k].sum + MapThenSumSet(LAMBDA l : row[l].turn,
                                {l \in Loops : row[l].kernel = k}) = running[k]
  BY <1>1, LedgerIs
<1> QED
  BY <1>2 DEF Ledger, LedgerComplete

\* What a waiting row adds to the costs of k.
Owes(r, l, k) == IF r[l].kernel = k THEN r[l].turn ELSE 0

Books(w, r, n) ==
  /\ w \in [Kernels -> [sum : Nat, last : Nat]] /\ r \in [Loops -> Rows]
  /\ n \in [Kernels -> Nat]

OnlyRowOf(y, r, s) == \A l \in Loops : l # y => s[l] = r[l]

Gap(w, r, n, y, k) == w[k].sum + Owes(r, y, k) - n[k]

\* One goroutine's row changes.
LEMMA LedgerChange ==
  ASSUME NEW w, NEW r, NEW n, NEW v, NEW s, NEW m, Books(w, r, n), Books(v, s, m),
         NEW y \in Loops, OnlyRowOf(y, r, s), NEW k \in Kernels,
         Entered(w, r, n, k), Gap(v, s, m, y, k) = Gap(w, r, n, y, k)
  PROVE  Entered(v, s, m, k)
<1> DEFINE a == Owes(s, y, k)
           b == Owes(r, y, k)
           sr == Sum(Turns(r), Of(r, k))
           ss == Sum(Turns(s), Of(s, k))
<1>1. IsFiniteSet(Loops)
  BY SpendAssumption, FS_AddElement DEF Loops, Kernels
<1>2. IsFiniteSet(Of(r, k)) /\ IsFiniteSet(Of(s, k))
  BY <1>1, FS_Subset DEF Of
<1>3. /\ \A l \in Of(r, k) : Turns(r)[l] \in Int
      /\ \A l \in Of(s, k) : Turns(s)[l] \in Int
      /\ \A l \in Of(r, k) \ {y} : Turns(s)[l] = Turns(r)[l]
  BY DEF Turns, Of, Rows, OnlyRowOf, Books
<1>4. Of(r, k) \ {y} = Of(s, k) \ {y}
  BY DEF Of, OnlyRowOf
<1>5. sr - Part(Turns(r), Of(r, k), y) = ss - Part(Turns(s), Of(s, k), y)
  BY <1>2, <1>3, <1>4, SumChange
<1>6. Part(Turns(r), Of(r, k), y) = b /\ Part(Turns(s), Of(s, k), y) = a
  BY DEF Part, Turns, Of, Owes
<1>7. sr \in Int /\ ss \in Int
  BY <1>2, <1>3, SumCongruent
<1>8. /\ a \in Int /\ b \in Int /\ w[k].sum \in Int /\ v[k].sum \in Int
      /\ n[k] \in Int /\ m[k] \in Int
  BY DEF Owes, Rows, Books
<1>9. w[k].sum + sr = n[k] /\ v[k].sum + a - m[k] = w[k].sum + b - n[k]
  BY DEF Entered, Gap
<1> HIDE DEF a, b, sr
<1>10. v[k].sum + ss = m[k]
  <2> HIDE DEF ss
  <2>1. ss = sr - b + a
    BY <1>5, <1>6, <1>7, <1>8
  <2>2. sr = n[k] - w[k].sum
    BY <1>7, <1>8, <1>9
  <2>3. v[k].sum = w[k].sum + b - n[k] + m[k] - a
    BY <1>8, <1>9
  <2> QED BY <1>7, <1>8, <2>1, <2>2, <2>3
<1> QED
  BY <1>10 DEF Entered

\* No row waits and nothing is spent.
LEMMA LedgerInit == Init => Ledger
<1> SUFFICES ASSUME Init, NEW k \in Kernels PROVE Entered(rows, row, running, k)
  BY DEF Ledger
<1>1. row \in [Loops -> Rows] /\ \A l \in Loops : row[l].turn = 0
  BY KernelOfType DEF Init, NoRow, Rows
<1>2. IsFiniteSet(Of(row, k))
  <2>1. IsFiniteSet(Loops)
    BY SpendAssumption, FS_AddElement DEF Loops, Kernels
  <2> QED BY <2>1, FS_Subset DEF Of
<1>3. \A l \in Of(row, k) : Turns(row)[l] = 0
  BY <1>1 DEF Turns, Of
<1>4. Sum(Turns(row), Of(row, k)) = 0
  <2>1. Sum(Turns(row), Of(row, k)) = IF Root \in Of(row, k) THEN Turns(row)[Root] ELSE 0
    BY <1>2, <1>3, SumOfOne
  <2> QED BY <1>3, <2>1
<1> QED
  BY <1>4 DEF Entered, Init

\* Every step keeps it: billing and a rollup leave a row behind, of the same kernel and
\* amount, and only AppendCost takes it away.
LEMMA LedgerStep == Shapes /\ Tidy /\ Ledger /\ [Next]_vars => Ledger'
<1> SUFFICES ASSUME Shapes, Tidy, Ledger, [Next]_vars, NEW k \in Kernels
             PROVE  Entered(rows', row', running', k)
  BY DEF Ledger
<1>1. /\ row \in [Loops -> Rows] /\ rows \in [Kernels -> [sum : Nat, last : Nat]]
      /\ running \in [Kernels -> Nat] /\ Entered(rows, row, running, k)
      /\ pc \in [Loops -> Places]
  BY DEF Shapes, Ledger
<1>2. /\ row' \in [Loops -> Rows] /\ rows' \in [Kernels -> [sum : Nat, last : Nat]]
      /\ running' \in [Kernels -> Nat]
  BY ShapesStep DEF Shapes
<1>0. Books(rows, row, running) /\ Books(rows', row', running') /\ Entered(rows, row, running, k)
  BY <1>1, <1>2 DEF Books
<1>3. CASE UNCHANGED <<rows, row, running>>
  BY <1>1, <1>3
<1> USE KernelOfType, BilledIs DEF Goto
<1>4. ASSUME NEW l \in Loops, NEW cost \in Prices, UpdateUse(l, cost)
      PROVE  Entered(rows', row', running', k)
  <2>1. /\ row[l] = NoRow /\ cost \in Nat
        /\ rows' = rows /\ OnlyRowOf(l, row, row')
        /\ row'[l].kernel = KernelOf(l) /\ row'[l].turn = cost
        /\ running' = [running EXCEPT ![KernelOf(l)] = @ + cost]
    BY <1>1, <1>4, SpendAssumption DEF UpdateUse, Tidy, OnlyRowOf
  <2>2. Owes(row, l, k) = 0
    BY <2>1 DEF Owes, NoRow
  <2>3. Owes(row', l, k) = IF KernelOf(l) = k THEN cost ELSE 0
    BY <2>1 DEF Owes
  <2>4. running'[k] = running[k] + IF KernelOf(l) = k THEN cost ELSE 0
    BY <1>1, <2>1
  <2>5. Gap(rows', row', running', l, k) = Gap(rows, row, running, l, k)
    <3>1. rows[k].sum \in Int /\ running[k] \in Int
      BY <1>1
    <3> QED BY <2>1, <2>2, <2>3, <2>4, <3>1 DEF Gap
  <2> QED BY <1>0, <2>1, <2>5, LedgerChange
<1>5. ASSUME NEW l \in Loops, AppendCost(l) PROVE Entered(rows', row', running', k)
  <2>1. /\ row'[l] = NoRow /\ row[l].kernel \in Kernels /\ row[l].turn \in Nat
        /\ running' = running /\ OnlyRowOf(l, row, row')
        /\ rows' = [rows EXCEPT ![row[l].kernel] =
                      [sum |-> @.sum + row[l].turn, last |-> row[l].total]]
    BY <1>1, <1>5 DEF AppendCost, Rows, OnlyRowOf
  <2>2. Owes(row', l, k) = 0
    BY <2>1 DEF Owes, NoRow
  <2>3. rows'[k].sum = rows[k].sum + Owes(row, l, k)
    <3>1. rows[k].sum \in Int
      BY <1>1
    <3>2. CASE row[l].kernel = k
      BY <1>1, <2>1, <3>2 DEF Owes
    <3>3. CASE row[l].kernel # k
      BY <1>1, <2>1, <3>1, <3>3 DEF Owes
    <3> QED BY <3>2, <3>3
  <2>4. Gap(rows', row', running', l, k) = Gap(rows, row, running, l, k)
    <3>1. rows[k].sum \in Int /\ running[k] \in Int /\ Owes(row, l, k) \in Int
      BY <1>1, <2>1 DEF Owes
    <3> QED BY <2>1, <2>2, <2>3, <3>1 DEF Gap
  <2> QED BY <1>0, <2>1, <2>4, LedgerChange
<1>6. ASSUME NEW c \in Children, RollUp(c) PROVE Entered(rows', row', running', k)
  <2>1. /\ row[c] = NoRow /\ running[c] \in Nat
        /\ rows' = rows /\ OnlyRowOf(c, row, row')
        /\ row'[c].kernel = Root /\ row'[c].turn = running[c]
        /\ running' = [running EXCEPT ![Root] = @ + running[c]]
    BY <1>1, <1>6 DEF RollUp, Tidy, OnlyRowOf
  <2>2. Owes(row, c, k) = 0
    BY <2>1 DEF Owes, NoRow
  <2>3. Owes(row', c, k) = IF Root = k THEN running[c] ELSE 0
    BY <2>1 DEF Owes
  <2>4. running'[k] = running[k] + IF Root = k THEN running[c] ELSE 0
    BY <1>1, <2>1
  <2>5. Gap(rows', row', running', c, k) = Gap(rows, row, running, c, k)
    <3>1. rows[k].sum \in Int /\ running[k] \in Int
      BY <1>1
    <3> QED BY <2>1, <2>2, <2>3, <2>4, <3>1 DEF Gap
  <2> QED BY <1>0, <2>1, <2>5, LedgerChange
<1>7. CASE CallStep \/ (\E max \in TurnMax : Chat(max)) \/ (\E l \in {Root, Wake} : LockRun(l))
  BY <1>3, <1>7 DEF CallStep, CallResumes, CallIdle, StartSchema, EndCall, Chat, LockRun
<1>8. ASSUME NEW l \in Loops, LoopStep(l) PROVE Entered(rows', row', running', k)
  BY <1>3, <1>4, <1>5, <1>8 DEF LoopStep, LimitReached, StartStep, LeaveTools, StepFails
<1>9. ASSUME NEW c \in Children, ChildStep(c) PROVE Entered(rows', row', running', k)
  BY <1>3, <1>6, <1>9 DEF ChildStep, Subagent, SubagentAsync, ChildStops, Result,
     ResumeNoop, ResumeWakes
<1>10. CASE UNCHANGED vars
  BY <1>3, <1>10 DEF vars
<1> QED
  BY <1>7, <1>8, <1>9, <1>10 DEF Next

(***************************************************************************)
(* Of each span the costs table and the rows on their way to it add up to  *)
(* the running total, though a total is raised in one step and its row     *)
(* inserted in another, and several goroutines insert rows of Root.        *)
(***************************************************************************)
THEOREM EveryDollarHasARow == Spec => []LedgerComplete
<1>1. Shapes /\ Tidy /\ Ledger /\ [Next]_vars => (Shapes /\ Tidy /\ Ledger)'
  BY ShapesStep, TidyStep, LedgerStep
<1>2. Shapes /\ Ledger => LedgerComplete
  BY LedgerNow
<1> QED
  BY <1>1, <1>2, IInvInit, LedgerInit, PTL DEF Spec

-----------------------------------------------------------------------------
(* The limits.                                                              *)

\* What LimitsFinal says of a step.
FinalStep ==
  /\ TranscriptMax > 0 /\ running[Root] >= TranscriptMax =>
       /\ ~Starts(Root) /\ ~Starts(Wake)
       /\ \A c \in Children : pc[c] = "idle" => pc'[c] # "check"
  /\ pc[Root] # "idle" /\ Reached(Root) => ~Starts(Root)

\* With Root's limit reached both its loops have reached theirs.
LEMMA ReachedByBoth ==
  ASSUME Tidy, TranscriptMax > 0, running[Root] >= TranscriptMax
  PROVE  Reached(Root) /\ Reached(Wake)
  BY KernelOfType DEF Reached, Tidy

\* A step is started only below the limits, an llm-step of a summary before a chat only
\* below the transcript's, and a subagent only if something is left for it.
LEMMA LimitsFinalStep == Shapes /\ Tidy /\ [Next]_vars => FinalStep
<1> SUFFICES ASSUME Shapes, Tidy, [Next]_vars PROVE FinalStep
  OBVIOUS
<1>0. pc \in [Loops -> Places] /\ limit[Root] = TranscriptMax
  BY DEF Shapes, Tidy
<1> DEFINE Full == TranscriptMax > 0 /\ running[Root] >= TranscriptMax
           Same == /\ ~Starts(Root) /\ ~Starts(Wake)
                   /\ \A c \in Children : pc[c] = "idle" => pc'[c] # "check"
<1>1. Full => Reached(Root) /\ Reached(Wake)
  BY ReachedByBoth
<1>2. SUFFICES Same \/ (/\ Full => Same
                        /\ pc[Root] # "idle" /\ Reached(Root) => ~Starts(Root))
  BY DEF FinalStep
<1> USE KernelOfType DEF Goto, Starts
<1>3. ASSUME NEW max \in TurnMax, Chat(max)
      PROVE  (Full => Same) /\ pc[Root] = "idle"
  BY <1>0, <1>3 DEF Chat
<1>4. CASE \E l \in {Root, Wake} : LockRun(l)
  BY <1>0, <1>4 DEF LockRun
<1>5. CASE CallStep
  <2>1. CASE CallResumes
    BY <1>0, <2>1 DEF CallResumes
  <2>2. CASE CallIdle \/ EndCall
    BY <1>0, <2>2 DEF CallIdle, EndCall
  <2>3. CASE StartSchema
    <3>1. ~Reached(Root) /\ ~Full
      BY <1>1, <2>3 DEF StartSchema
    <3> QED BY <3>1
  <2> QED BY <1>5, <2>1, <2>2, <2>3 DEF CallStep
<1>6. ASSUME NEW l \in Loops, LoopStep(l)
      PROVE  Same \/ (/\ Full => Same
                      /\ pc[Root] # "idle" /\ Reached(Root) => ~Starts(Root))
  <2>1. CASE LimitReached(l)
    BY <1>0, <2>1 DEF LimitReached
  <2>2. CASE StartStep(l)
    <3>1. ~Reached(l) /\ pc' = [pc EXCEPT ![l] = "step"] /\ pc[l] = "check"
      BY <2>2 DEF StartStep
    <3>2. \A c \in Children : pc[c] = "idle" => pc'[c] # "check"
      BY <1>0, <3>1
    <3>3. CASE l \in Children
      BY <1>0, <3>1, <3>2, <3>3
    <3>4. CASE l = Wake
      BY <1>0, <1>1, <3>1, <3>4
    <3>5. CASE l = Root
      BY <1>1, <3>1, <3>5
    <3> QED BY <3>3, <3>4, <3>5 DEF Loops, Kernels
  <2>3. CASE AppendCost(l)
    BY <1>0, <2>3 DEF AppendCost, AfterRow
  <2>4. CASE LeaveTools(l)
    BY <1>0, <2>4 DEF LeaveTools
  <2>5. CASE StepFails(l)
    BY <1>0, <2>5 DEF StepFails
  <2>6. ASSUME NEW cost \in Prices, UpdateUse(l, cost) PROVE Same
    BY <1>0, <2>6, BilledIs DEF UpdateUse
  <2> QED BY <1>6, <2>1, <2>2, <2>3, <2>4, <2>5, <2>6 DEF LoopStep
<1>7. ASSUME NEW c \in Children, ChildStep(c) PROVE Full => Same
  <2>1. ASSUME RunSubagent(c), Full PROVE Same
    BY <1>0, <2>1 DEF RunSubagent
  <2>2. CASE Subagent(c) \/ SubagentAsync(c)
    BY <2>1, <2>2 DEF Subagent, SubagentAsync
  <2>3. CASE ChildStops(c) \/ RollUp(c) \/ Result(c)
    BY <1>0, <2>3 DEF ChildStops, RollUp, Result
  <2>4. CASE ResumeNoop(c) \/ ResumeWakes(c)
    BY <1>0, <2>4 DEF ResumeNoop, ResumeWakes
  <2> QED BY <1>7, <2>2, <2>3, <2>4 DEF ChildStep
<1>8. ASSUME NEW c \in Children, ChildStep(c) PROVE ~Starts(Root)
  BY <1>0, <1>8 DEF ChildStep, Subagent, SubagentAsync, RunSubagent, ChildStops, RollUp,
     Result, ResumeNoop, ResumeWakes
<1>9. CASE UNCHANGED vars
  BY <1>9 DEF vars
<1> HIDE DEF Full, Same
<1> QED
  BY <1>3, <1>4, <1>5, <1>6, <1>7, <1>8, <1>9 DEF Next

(***************************************************************************)
(* A transcript limit that the accounting has reached is final for the     *)
(* calls, the woken loop and the creation of subagents, and a call's own   *)
(* limit for that call, in whatever order the totals grow.                 *)
(***************************************************************************)
THEOREM LimitsAreFinal == Spec => LimitsFinal
<1>1. Shapes /\ Tidy /\ [Next]_vars => (Shapes /\ Tidy)'
  BY ShapesStep, TidyStep
<1>2. Shapes /\ Tidy /\ [Next]_vars => [FinalStep]_vars
  BY LimitsFinalStep
<1> QED
  BY <1>1, <1>2, IInvInit, PTL DEF Spec, LimitsFinal, FinalStep

-----------------------------------------------------------------------------
(* The brake.                                                               *)

\* The dearest response is a number, and no response costs more.
LEMMA MaxPriceIs == MaxPrice \in Nat /\ \A q \in Prices : q <= MaxPrice
<1>1. \E p \in Prices : \A q \in Prices : q <= p
  BY SpendAssumption
<1>2. MaxPrice \in Prices /\ \A q \in Prices : q <= MaxPrice
  BY <1>1 DEF MaxPrice
<1> QED
  BY <1>2, SpendAssumption

\* Whoever has not reached his limits is below the transcript limit of his kernel.
LEMMA BelowLimit ==
  ASSUME Shapes, NEW l \in Loops, ~Reached(l), limit[KernelOf(l)] > 0
  PROVE  running[KernelOf(l)] < limit[KernelOf(l)]
<1>1. limit[KernelOf(l)] \in Nat /\ running[KernelOf(l)] \in Nat
  BY KernelOfType DEF Shapes
<1> QED
  BY <1>1 DEF Reached

\* A kernel that has not started is within the limit.
LEMMA BrakeInit == Init => Brake
<1> SUFFICES ASSUME Init, Alone PROVE Brake
  BY DEF Brake
<1>1. /\ running[Root] = 0 /\ queue = 0 /\ pc[Wake] = "idle" /\ pc[Root] = "idle"
      /\ \A c \in Children : pc[c] = "idle"
  BY KernelOfType DEF Init
<1>2. 0 < TranscriptMax + 2 * MaxPrice
  BY MaxPriceIs, SpendAssumption DEF Alone
<1> QED
  BY <1>1, <1>2 DEF Brake, Working

\* Where a child's tool turn and its loop may go is bounded by its own limit; what it
\* reports is still below Root's and one response; while it works Root waits.
LEMMA BrakeStep == Shapes /\ Tidy /\ Brake /\ [Next]_vars => Brake'
<1> SUFFICES ASSUME Shapes, Tidy, Brake, [Next]_vars, Alone' PROVE Brake'
  BY DEF Brake
<1> USE KernelOfType, BilledIs DEF Goto
<1>a. /\ pc \in [Loops -> Places] /\ running \in [Kernels -> Nat]
      /\ limit \in [Kernels -> Nat] /\ TranscriptMax \in Nat /\ limit[Root] = TranscriptMax
      /\ queue \in Nat /\ async \subseteq Children /\ beside \in BOOLEAN
      /\ MaxPrice \in Nat
  BY SpendAssumption, MaxPriceIs DEF Shapes, Tidy
<1>b. Alone
  <2>1. async' = {} => async = {}
    BY DEF Next, vars, Chat, LockRun, CallStep, CallResumes, CallIdle, StartSchema,
       EndCall, LoopStep, LimitReached, StartStep, AppendCost, LeaveTools, StepFails,
       UpdateUse, ChildStep, Subagent, SubagentAsync, ChildStops, RollUp, Result,
       ResumeNoop, ResumeWakes
  <2>2. ~beside' => ~beside
    BY DEF Next, vars, truth, Chat, LockRun, CallStep, CallResumes, CallIdle, StartSchema,
       EndCall, LoopStep, LimitReached, StartStep, AppendCost, LeaveTools, StepFails,
       UpdateUse, ChildStep, Subagent, SubagentAsync, ChildStops, RollUp, Result,
       ResumeNoop, ResumeWakes
  <2> QED BY <2>1, <2>2 DEF Alone
<1>c. queue = 0 /\ pc[Wake] = "idle" /\ async = {} /\ TranscriptMax > 0
  BY <1>b DEF Brake, Alone
<1>d. ASSUME NEW c \in Children, pc[c] \notin {"idle", "gone"}
      PROVE  pc[Root] = "tools" /\ \A d \in Children : pc[d] \notin {"idle", "gone"} => d = c
  BY <1>b, <1>d DEF Brake
<1>e. ASSUME NEW c \in Children, Working(c)
      PROVE  /\ running[Root] + limit[c] = TranscriptMax /\ limit[c] > 0
             /\ running[c] < limit[c] + MaxPrice
             /\ pc[c] \in {"step", "tools", "compact"} => running[c] < limit[c]
  BY <1>b, <1>e DEF Brake
<1>f. /\ running[Root] < TranscriptMax + 2 * MaxPrice
      /\ pc[Root] \in {"step", "preCompact", "schema"} => running[Root] < TranscriptMax
      /\ pc[Root] \in {"stepRow", "tools", "compact", "preCompactRow", "schemaRow"} =>
           running[Root] < TranscriptMax + MaxPrice
  BY <1>b DEF Brake
\* The children stay where they are: what Root does on its own.
<1>g. ASSUME \A c \in Children : pc'[c] = pc[c] /\ running'[c] = running[c],
             \A c \in Children : limit'[c] = limit[c],
             queue' = 0, pc'[Wake] = "idle",
             running'[Root] = running[Root] \/ (pc[Root] # "tools" /\ pc'[Root] # "tools"),
             pc'[Root] = pc[Root] \/ pc[Root] # "tools"
               \/ \A c \in Children : pc[c] \in {"idle", "gone"},
             running'[Root] < TranscriptMax + 2 * MaxPrice,
             pc'[Root] \in {"step", "preCompact", "schema"} => running'[Root] < TranscriptMax,
             pc'[Root] \in {"stepRow", "tools", "compact", "preCompactRow", "schemaRow"} =>
               running'[Root] < TranscriptMax + MaxPrice
      PROVE  Brake'
  <2>1. ASSUME NEW c \in Children, pc'[c] \notin {"idle", "gone"}
        PROVE  /\ pc'[Root] = "tools"
               /\ \A d \in Children : pc'[d] \notin {"idle", "gone"} => d = c
    BY <1>d, <1>g, <2>1
  <2>2. ASSUME NEW c \in Children, Working(c)'
        PROVE  /\ running'[Root] + limit'[c] = TranscriptMax /\ limit'[c] > 0
               /\ running'[c] < limit'[c] + MaxPrice
               /\ pc'[c] \in {"step", "tools", "compact"} => running'[c] < limit'[c]
    <3>1. Working(c) /\ pc[c] \notin {"idle", "gone"}
      BY <1>g, <2>2 DEF Working
    <3>2. pc[Root] = "tools" /\ running'[Root] = running[Root]
      BY <1>d, <1>g, <3>1
    <3> QED BY <1>e, <1>g, <3>1, <3>2
  <2> QED BY <1>g, <2>1, <2>2 DEF Brake
\* Root stays where it is: what the one child does.
<1>h. ASSUME NEW c \in Children, pc' = [pc EXCEPT ![c] = pc'[c]], queue' = 0,
             pc[Root] = "tools", \A d \in Children : d # c => pc[d] \in {"idle", "gone"},
             running'[Root] < TranscriptMax + MaxPrice,
             Working(c)' => /\ running'[Root] + limit'[c] = TranscriptMax /\ limit'[c] > 0
                            /\ running'[c] < limit'[c] + MaxPrice
                            /\ pc'[c] \in {"step", "tools", "compact"} => running'[c] < limit'[c],
             running'[Root] \in Nat
      PROVE  Brake'
  <2>1. /\ pc'[Root] = "tools" /\ pc'[Wake] = "idle"
        /\ \A d \in Children : d # c => pc'[d] \in {"idle", "gone"}
    BY <1>a, <1>c, <1>h
  <2>2. \A d \in Children : Working(d)' => d = c
    BY <2>1 DEF Working
  <2>3. running'[Root] < TranscriptMax + 2 * MaxPrice
    BY <1>a, <1>h
  <2> QED BY <1>h, <2>1, <2>2, <2>3 DEF Brake
<1>1. ASSUME NEW max \in TurnMax, Chat(max) PROVE Brake'
  <2>1. /\ queue' = queue /\ running' = running /\ limit' = limit /\ pc[Root] = "idle"
        /\ pc' = [pc EXCEPT ![Root] = pc'[Root]] /\ pc'[Root] \in {"lock", "preCompact"}
        /\ pc'[Root] = "preCompact" => running[Root] < TranscriptMax
    BY <1>a, <1>c, <1>1 DEF Chat
  <2>2. /\ \A c \in Children : pc'[c] = pc[c]
        /\ pc'[Wake] = "idle"
    BY <1>a, <1>c, <2>1
  <2> QED BY <1>c, <1>f, <1>g, <2>1, <2>2
<1>2. ASSUME NEW l \in {Root, Wake}, LockRun(l) PROVE Brake'
  <2>1. l = Root
    BY <1>c, <1>2 DEF LockRun
  <2>2. /\ queue' = queue /\ running' = running /\ limit' = limit /\ pc[Root] = "lock"
        /\ pc' = [pc EXCEPT ![Root] = "check"]
    BY <1>2, <2>1 DEF LockRun
  <2>3. /\ \A c \in Children : pc'[c] = pc[c]
        /\ pc'[Wake] = "idle" /\ pc'[Root] = "check"
    BY <1>a, <1>c, <2>2
  <2> QED BY <1>c, <1>f, <1>g, <2>2, <2>3
<1>3. CASE CallStep
  <2>1. ~CallResumes
    BY <1>c DEF CallResumes, StartWake
  <2>2. /\ queue' = queue /\ running' = running /\ limit' = limit
        /\ pc[Root] \in {"stopped", "finish"}
        /\ pc' = [pc EXCEPT ![Root] = pc'[Root]] /\ pc'[Root] \in {"finish", "schema", "idle"}
        /\ pc'[Root] = "schema" => ~Reached(Root)
    BY <1>3, <1>a, <2>1 DEF CallStep, CallIdle, StartSchema, EndCall
  <2>3. pc'[Root] = "schema" => running[Root] < TranscriptMax
    BY <1>a, <1>c, <2>2, BelowLimit
  <2>4. /\ \A c \in Children : pc'[c] = pc[c]
        /\ pc'[Wake] = "idle"
    BY <1>a, <1>c, <2>2
  <2> QED BY <1>c, <1>f, <1>g, <2>2, <2>3, <2>4
<1>4. ASSUME LoopStep(Root) PROVE Brake'
  <2>0. ~StepFails(Root) => \A c \in Children : pc'[c] = pc[c]
    BY <1>a, <1>4 DEF LoopStep, LimitReached, StartStep, AppendCost, AfterRow, LeaveTools, UpdateUse
  <2>1. CASE LimitReached(Root)
    <3>1. pc'[Root] = "stopped" /\ pc'[Wake] = "idle" /\ pc[Root] = "check"
      BY <1>a, <1>c, <2>1 DEF LimitReached
    <3> QED BY <1>a, <1>c, <1>f, <1>g, <2>0, <2>1, <3>1 DEF LimitReached, StepFails
  <2>2. CASE StartStep(Root)
    <3>1. pc'[Root] = "step" /\ pc'[Wake] = "idle" /\ pc[Root] = "check" /\ ~Reached(Root)
      BY <1>a, <1>c, <2>2 DEF StartStep
    <3>2. running[Root] < TranscriptMax
      BY <1>a, <1>c, <3>1, BelowLimit
    <3> QED BY <1>a, <1>c, <1>f, <1>g, <2>0, <2>2, <3>1, <3>2 DEF StartStep, StepFails
  <2>3. CASE AppendCost(Root)
    <3>1. /\ pc'[Wake] = "idle" /\ pc[Root] \in {"stepRow", "compactRow", "preCompactRow", "schemaRow", "rollupRow"}
          /\ pc'[Root] \in {"stopped", "tools", "check", "lock", "idle", "result"}
          /\ pc'[Root] = "tools" => pc[Root] = "stepRow"
      BY <1>a, <1>c, <2>3 DEF AppendCost, AfterRow
    <3>2. queue' = queue /\ running' = running /\ limit' = limit
      BY <2>3 DEF AppendCost
    <3> QED BY <1>a, <1>c, <1>f, <1>g, <2>0, <2>3, <3>1, <3>2 DEF StepFails, AppendCost
  <2>4. CASE LeaveTools(Root)
    <3>1. /\ pc'[Wake] = "idle" /\ pc[Root] = "tools"
          /\ pc'[Root] \in {"stopped", "check", "compact"}
          /\ queue' = 0 /\ running' = running /\ limit' = limit
          /\ \A c \in Children : pc[c] \in {"idle", "gone"}
      BY <1>a, <1>c, <2>4 DEF LeaveTools
    <3> QED BY <1>a, <1>c, <1>f, <1>g, <2>0, <3>1 DEF StepFails
  <2>5. CASE StepFails(Root)
    <3>1. /\ pc'[Root] = "idle" /\ pc[Root] \in InFlight /\ pc'[Wake] = "idle"
          /\ \A c \in Children : pc'[c] = pc[c]
          /\ queue' = queue /\ running' = running /\ limit' = limit
      BY <1>a, <1>c, <2>5 DEF StepFails
    <3> QED BY <1>a, <1>c, <1>f, <1>g, <3>1
  <2>6. ASSUME NEW cost \in Prices, UpdateUse(Root, cost) PROVE Brake'
    <3>1. cost \in Nat /\ cost <= MaxPrice
      BY MaxPriceIs, SpendAssumption
    <3>2. /\ pc[Root] \in InFlight /\ pc' = [pc EXCEPT ![Root] = Billed[pc[Root]]]
          /\ running' = [running EXCEPT ![Root] = @ + cost]
          /\ limit' = limit /\ queue' = queue
      BY <2>6 DEF UpdateUse
    <3>3. /\ pc'[Root] = Billed[pc[Root]] /\ pc'[Wake] = "idle"
          /\ running'[Root] = running[Root] + cost
          /\ \A c \in Children : pc'[c] = pc[c] /\ running'[c] = running[c]
      BY <1>a, <1>c, <3>2
    <3>4. running[Root] \in Nat /\ running[Root] < TranscriptMax + MaxPrice
      BY <1>a, <1>f, <3>2
    <3>5. running'[Root] < TranscriptMax + 2 * MaxPrice
      BY <1>a, <3>1, <3>3, <3>4
    <3>6. /\ pc'[Root] \in {"stepRow", "compactRow", "preCompactRow", "schemaRow"}
          /\ pc'[Root] # "compactRow" => pc[Root] \in {"step", "preCompact", "schema"}
      BY <3>2, <3>3
    <3>7. pc'[Root] # "compactRow" => running'[Root] < TranscriptMax + MaxPrice
      BY <1>a, <1>f, <3>1, <3>3, <3>4, <3>6
    <3>8. pc[Root] # "tools" /\ pc'[Root] # "tools"
      BY <3>2, <3>6
    <3>9. queue' = 0 /\ pc'[Root] \notin {"step", "preCompact", "schema"}
          /\ (pc'[Root] \in {"stepRow", "tools", "compact", "preCompactRow", "schemaRow"}
                => pc'[Root] # "compactRow")
      BY <1>c, <3>2, <3>6
    <3> QED BY <1>g, <3>2, <3>3, <3>5, <3>7, <3>8, <3>9
  <2> QED BY <1>4, <2>1, <2>2, <2>3, <2>4, <2>5, <2>6 DEF LoopStep
<1>5. ~LoopStep(Wake)
  BY <1>c DEF LoopStep, LimitReached, StartStep, AppendCost, AfterRow, LeaveTools,
     StepFails, UpdateUse
<1>6. ASSUME NEW c \in Children, LoopStep(c) PROVE Brake'
  <2>1. pc[c] \notin {"idle", "gone"}
    BY <1>a, <1>6 DEF LoopStep, LimitReached, StartStep, AppendCost, AfterRow, LeaveTools,
       StepFails, UpdateUse
  <2>2. /\ pc[Root] = "tools" /\ \A d \in Children : d # c => pc[d] \in {"idle", "gone"}
        /\ running[Root] \in Nat /\ running[Root] < TranscriptMax + MaxPrice
        /\ running[c] \in Nat /\ limit[c] \in Nat
    BY <1>a, <1>d, <1>f, <2>1
  <2>3. CASE LimitReached(c)
    <3>1. pc' = [pc EXCEPT ![c] = "stopped"] /\ pc[c] = "check"
      BY <2>3 DEF LimitReached
    <3>2. Working(c) /\ pc'[c] = "stopped"
      BY <1>a, <3>1 DEF Working
    <3>3. queue' = queue /\ running' = running /\ limit' = limit
      BY <2>3 DEF LimitReached
    <3> QED BY <1>c, <1>e, <1>h, <2>2, <3>1, <3>2, <3>3
  <2>4. CASE StartStep(c)
    <3>1. pc' = [pc EXCEPT ![c] = "step"] /\ pc[c] = "check" /\ ~Reached(c)
      BY <2>4 DEF StartStep
    <3>2. Working(c) /\ pc'[c] = "step"
      BY <1>a, <3>1 DEF Working
    <3>3. queue' = queue /\ running' = running /\ limit' = limit
      BY <2>4 DEF StartStep
    <3>4. running[c] < limit[c]
      BY <1>e, <3>1, <3>2, BelowLimit
    <3> QED BY <1>c, <1>e, <1>h, <2>2, <3>1, <3>2, <3>3, <3>4
  <2>5. CASE AppendCost(c)
    <3>1. queue' = queue /\ running' = running /\ limit' = limit
      BY <2>5 DEF AppendCost
    <3>2. /\ pc' = [pc EXCEPT ![c] = pc'[c]]
          /\ pc'[c] \in {"stopped", "tools", "check", "lock", "idle", "result"}
          /\ pc[c] \in InsertsAt /\ (pc[c] = "rollupRow" => pc'[c] = "result")
          /\ pc'[c] = "tools" => ~Reached(c)
      BY <1>a, <2>5 DEF AppendCost, AfterRow
    <3>3. Working(c)' => Working(c) /\ pc'[c] \notin {"step", "compact"}
      BY <3>2 DEF Working
    <3>4. Working(c)' /\ pc'[c] = "tools" => running[c] < limit[c]
      BY <1>e, <3>2, <3>3, BelowLimit
    <3> QED BY <1>c, <1>e, <1>h, <2>2, <3>1, <3>2, <3>3, <3>4
  <2>6. CASE LeaveTools(c)
    <3>1. queue' = queue /\ running' = running /\ limit' = limit
      BY <2>6 DEF LeaveTools
    <3>2. /\ pc' = [pc EXCEPT ![c] = pc'[c]] /\ pc[c] = "tools"
          /\ pc'[c] \in {"stopped", "check", "compact"}
      BY <1>a, <2>6 DEF LeaveTools
    <3>3. Working(c)
      BY <3>2 DEF Working
    <3> QED BY <1>c, <1>e, <1>h, <2>2, <3>1, <3>2, <3>3
  <2>7. CASE StepFails(c)
    <3>1. queue' = queue /\ running' = running /\ limit' = limit
      BY <2>7 DEF StepFails
    <3>2. pc' = [pc EXCEPT ![c] = "result"]
      BY <1>a, <2>7 DEF StepFails
    <3>3. pc'[c] = "result" /\ ~Working(c)'
      BY <1>a, <3>2 DEF Working
    <3> QED BY <1>c, <1>h, <2>2, <3>1, <3>2, <3>3
  <2>8. ASSUME NEW cost \in Prices, UpdateUse(c, cost) PROVE Brake'
    <3>1. cost \in Nat /\ cost <= MaxPrice
      BY MaxPriceIs, SpendAssumption
    <3>2. /\ pc[c] \in InFlight /\ pc' = [pc EXCEPT ![c] = Billed[pc[c]]]
          /\ running' = [running EXCEPT ![c] = @ + cost]
          /\ limit' = limit /\ queue' = queue
      BY <2>8 DEF UpdateUse
    <3>3. /\ pc'[c] = Billed[pc[c]] /\ running'[c] = running[c] + cost
          /\ running'[Root] = running[Root]
      BY <1>a, <3>2
    <3>4. Working(c) /\ pc[c] \in {"step", "compact"}
      BY <3>2 DEF Working, Tidy, ChildPlaces
    <3>5. running'[c] < limit'[c] + MaxPrice
      BY <1>a, <1>e, <2>2, <3>1, <3>2, <3>3, <3>4
    <3>6. pc'[c] \notin {"step", "tools", "compact"}
      BY <3>3, <3>4
    <3> QED BY <1>c, <1>e, <1>h, <2>2, <3>2, <3>3, <3>4, <3>5, <3>6
  <2> QED BY <1>6, <2>3, <2>4, <2>5, <2>6, <2>7, <2>8 DEF LoopStep
<1>7. ASSUME NEW c \in Children, ChildStep(c) PROVE Brake'
  <2>1. ~SubagentAsync(c)
    BY DEF SubagentAsync, Alone
  <2>2. CASE Subagent(c)
    <3>1. /\ pc[Root] = "tools" /\ AtWork = {} /\ RunSubagent(c)
          /\ queue' = queue /\ running' = running
      BY <1>c, <2>2 DEF Subagent, Nobody, Alone
    <3>2. \A d \in Children : pc[d] \in {"idle", "gone"}
      BY <1>c, <3>1 DEF AtWork
    <3>3. running[Root] \in Nat /\ running[Root] < TranscriptMax + MaxPrice /\ running[c] \in Nat
      BY <1>a, <1>f, <3>1
    <3>4. CASE running[Root] >= TranscriptMax
      <4>1. pc' = [pc EXCEPT ![c] = "result"] /\ pc'[c] = "result"
        BY <1>a, <1>c, <3>1, <3>4 DEF RunSubagent
      <4>2. ~Working(c)'
        BY <4>1 DEF Working
      <4> QED BY <1>c, <1>h, <3>1, <3>2, <3>3, <4>1, <4>2
    <3>5. CASE running[Root] < TranscriptMax
      <4>1. /\ pc' = [pc EXCEPT ![c] = "check"] /\ pc'[c] = "check" /\ pc[c] = "idle"
            /\ limit'[c] = TranscriptMax - running[Root]
        BY <1>a, <1>c, <3>1, <3>3, <3>5 DEF RunSubagent, ChildBudget
      <4>2. running[c] = 0
        BY <4>1 DEF Tidy
      <4>3. /\ running'[Root] + limit'[c] = TranscriptMax /\ limit'[c] > 0
            /\ running'[c] < limit'[c] + MaxPrice
        BY <1>a, <3>1, <3>3, <3>5, <4>1, <4>2
      <4> QED BY <1>c, <1>h, <3>1, <3>2, <3>3, <4>1, <4>3
    <3> QED BY <1>a, <3>3, <3>4, <3>5
  <2>3. ASSUME pc[c] \notin {"idle", "gone"}
        PROVE  /\ pc[Root] = "tools" /\ \A d \in Children : d # c => pc[d] \in {"idle", "gone"}
               /\ running[Root] \in Nat /\ running[Root] < TranscriptMax + MaxPrice
               /\ running[c] \in Nat /\ limit[c] \in Nat
    BY <1>a, <1>d, <1>f, <2>3
  <2>4. CASE ChildStops(c)
    <3>1. /\ pc[c] = "stopped" /\ pc' = [pc EXCEPT ![c] = "rollup"]
          /\ queue' = queue /\ running' = running /\ limit' = limit
      BY <2>4 DEF ChildStops
    <3>2. Working(c) /\ pc'[c] = "rollup"
      BY <1>a, <3>1 DEF Working
    <3> QED BY <1>c, <1>e, <1>h, <2>3, <3>1, <3>2
  <2>5. CASE RollUp(c)
    <3>1. /\ pc[c] = "rollup" /\ pc' = [pc EXCEPT ![c] = "rollupRow"]
          /\ queue' = queue /\ running' = [running EXCEPT ![Root] = @ + running[c]]
      BY <2>5 DEF RollUp
    <3>2. /\ Working(c) /\ pc'[c] = "rollupRow" /\ ~Working(c)'
          /\ running'[Root] = running[Root] + running[c]
      BY <1>a, <3>1 DEF Working
    <3>3. running'[Root] \in Nat /\ running'[Root] < TranscriptMax + MaxPrice
      BY <1>a, <1>e, <2>3, <3>1, <3>2
    <3> QED BY <1>c, <1>h, <2>3, <3>1, <3>2, <3>3
  <2>6. CASE Result(c)
    <3>1. /\ pc[c] = "result" /\ pc' = [pc EXCEPT ![c] = "gone"]
          /\ queue' = queue /\ running' = running
      BY <1>c, <2>6 DEF Result
    <3>2. pc'[c] = "gone" /\ ~Working(c)'
      BY <1>a, <3>1 DEF Working
    <3> QED BY <1>c, <1>h, <2>3, <3>1, <3>2
  <2>7. CASE ResumeNoop(c)
    <3>1. /\ pc[c] = "resume" /\ pc' = [pc EXCEPT ![c] = "gone"]
          /\ queue' = queue /\ running' = running
      BY <2>7 DEF ResumeNoop
    <3>2. pc'[c] = "gone" /\ ~Working(c)'
      BY <1>a, <3>1 DEF Working
    <3> QED BY <1>c, <1>h, <2>3, <3>1, <3>2
  <2>8. ~ResumeWakes(c)
    BY <1>c DEF ResumeWakes, StartWake
  <2> QED BY <1>7, <2>1, <2>2, <2>4, <2>5, <2>6, <2>7, <2>8 DEF ChildStep
<1>8. CASE UNCHANGED vars
  BY <1>8, <1>b DEF Brake, Alone, Working, vars, truth
<1> QED
  BY <1>1, <1>2, <1>3, <1>4, <1>5, <1>6, <1>7, <1>8 DEF Next, Loops, Kernels

(***************************************************************************)
(* While subagents work one at a time the whole tree oversteps the         *)
(* transcript limit by one response and one summary at most, however many  *)
(* calls, steps and subagents there are and whatever they cost.            *)
(***************************************************************************)
THEOREM OverrunIsBounded == Spec => []OverrunBounded
<1>1. Shapes /\ Tidy /\ HonestTotal /\ Brake /\ [Next]_vars
        => (Shapes /\ Tidy /\ HonestTotal /\ Brake)'
  BY ShapesStep, TidyStep, HonestStep, BrakeStep
<1>2. Shapes /\ Tidy /\ HonestTotal /\ Brake => OverrunBounded
  <2> SUFFICES ASSUME Shapes, Tidy, HonestTotal, Brake, Alone
               PROVE  paid - lost < TranscriptMax + 2 * MaxPrice
    BY DEF OverrunBounded, Alone
  <2>0. /\ Unrolled \in SUBSET Children /\ IsFiniteSet(Unrolled)
        /\ \A c \in Unrolled : running[c] \in Int
        /\ \A c \in Unrolled : running[c] = 0 \/ Working(c)
    BY SpendAssumption, FS_Subset, KernelOfType DEF Unrolled, Shapes, Tidy, Working
  <2>1. /\ running[Root] \in Nat /\ lost \in Nat /\ paid \in Nat /\ TranscriptMax \in Nat
        /\ MaxPrice \in Nat
    BY KernelOfType, SpendAssumption, MaxPriceIs DEF Shapes
  <2>2. running[Root] + Sum(running, Unrolled) + lost = paid
    BY HonestIs DEF Honest
  <2>3. CASE \A c \in Children : ~Working(c)
    <3>1. Sum(running, Unrolled) = 0
      <4>1. \A x \in Unrolled \ {Root} : running[x] = 0
        BY <2>0, <2>3
      <4>2. Root \notin Unrolled
        BY <2>0, KernelOfType
      <4> QED BY <2>0, <4>1, <4>2, SumOfOne
    <3>2. running[Root] < TranscriptMax + 2 * MaxPrice
      BY DEF Brake
    <3> QED BY <2>1, <2>2, <3>1, <3>2
  <2>4. ASSUME NEW c \in Children, Working(c)
        PROVE  paid - lost < TranscriptMax + 2 * MaxPrice
    <3>1. \A d \in Children : Working(d) => d = c
      BY <2>4 DEF Brake, Working
    <3>2. Sum(running, Unrolled) = running[c]
      <4>1. c \in Unrolled
        BY <2>4 DEF Working, Unrolled
      <4>2. \A x \in Unrolled \ {c} : running[x] = 0
        BY <2>0, <3>1
      <4> QED BY <2>0, <4>1, <4>2, SumOfOne
    <3>3. /\ running[Root] + limit[c] = TranscriptMax /\ running[c] < limit[c] + MaxPrice
      BY <2>4 DEF Brake
    <3>4. running[c] \in Nat /\ limit[c] \in Nat
      BY KernelOfType DEF Shapes
    <3> QED BY <2>1, <2>2, <3>2, <3>3, <3>4
  <2> QED BY <2>3, <2>4
<1> QED
  BY <1>1, <1>2, IInvInit, HonestInit, BrakeInit, PTL DEF Spec
=============================================================================
