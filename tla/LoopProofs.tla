---------------------------- MODULE LoopProofs -----------------------------
(***************************************************************************)
(* Proofs about a kernel's configuration and its tool loop.  StepLoop: for *)
(* any number of chats, any limits, prices and results, and any answers of *)
(* the model, the guards are exact and a turn is closed once.  Startup:    *)
(* for every Config a host may ask for, every gateway, any servers and any *)
(* number of subagents, the limits fit, a kernel has room before it        *)
(* compacts, and its tools are the right ones.                             *)
(***************************************************************************)
EXTENDS StepLoop, Startup, TLAPS

----------------------------------------------------------------------------
(* Types.                                                                   *)

\* TypeOK in two parts: the flags, and all else with what is known of the answer whose
\* tools run and of the outcome of a chat that has not ended.
FlagsTyped ==
  /\ inspectionGuardSent \in BOOLEAN /\ validationGuardSent \in BOOLEAN
  /\ completionGuardSent \in BOOLEAN /\ workspaceMutated \in BOOLEAN
  /\ validationSinceMutation \in BOOLEAN /\ dirty \in BOOLEAN

Data ==
  /\ pc \in {"idle", "check", "step", "tools", "boundary", "compact"}
  /\ answer \in Answer \cup {NoAnswer} /\ lastBatch \in Answer \cup {NoAnswer}
  /\ history \in Seq({"user", "assistant", "calls", "tool"})
  /\ events \in Seq({"started", "completed", "failed"})
  /\ outcome \in {"none", "answer", "spend", "error", "loop_guard", "max_iter"}
  /\ chat \in Nat /\ turnMaxUSD \in TurnMax \cup {0} /\ spent \in Nat
  /\ turns \in Nat /\ streak \in Nat /\ cut \subseteq 1..Len(history)
  /\ recentSigs \in Seq(Answer)
  /\ inspectionTurns \in Nat /\ validationTurns \in Nat
  /\ pc = "tools" => answer \in Answer /\ answer.calls # {}
  /\ pc # "idle" => outcome = "none"

\* The nudges of a tool turn are messages of the user, two at most.
LEMMA NudgesAreMessages ==
  ASSUME NEW a PROVE Nudges(a) \in Seq({"user"})
<1> DEFINE one == IF InspectionNudge(a) THEN <<"user">> ELSE <<>>
           two == IF ValidationNudge(a) THEN <<"user">> ELSE <<>>
<1>1. one \in Seq({"user"}) /\ two \in Seq({"user"})
  <2>1. <<"user">> \in Seq({"user"}) /\ <<>> \in Seq({"user"})
    OBVIOUS
  <2>2. QED
    BY <2>1, Zenon
<1>2. Nudges(a) = one \o two
  BY DEF Nudges
<1> HIDE DEF one, two
<1>3. QED
  BY <1>1, <1>2

\* The window of the repeat guard: the last n signatures, or all there are.
LEMMA WindowIsSuffix ==
  ASSUME NEW S, NEW sigs \in Seq(S), NEW n \in Nat \ {0}
  PROVE  LET w == Window(sigs, n) IN
         /\ w \in Seq(S)
         /\ Len(w) = IF Len(sigs) > n THEN n ELSE Len(sigs)
         /\ \A i \in 1..Len(w) : w[Len(w) - i + 1] = sigs[Len(sigs) - i + 1]
<1>1. CASE Len(sigs) > n
  <2> DEFINE w == SubSeq(sigs, Len(sigs) - n + 1, Len(sigs))
  <2>1. Len(sigs) \in Nat /\ Len(sigs) - n + 1 \in 1..Len(sigs)
    BY <1>1
  <2>2. w \in Seq(S) /\ Len(w) = n
    BY <2>1
  <2>3. \A j \in 1..n : w[j] = sigs[Len(sigs) - n + j]
    BY <2>1
  <2> HIDE DEF w
  <2>4. \A i \in 1..Len(w) : w[Len(w) - i + 1] = sigs[Len(sigs) - i + 1]
    BY <2>1, <2>2, <2>3
  <2>5. Window(sigs, n) = w
    BY <1>1 DEF Window, w
  <2>6. QED
    BY <1>1, <2>2, <2>4, <2>5
<1>2. CASE ~(Len(sigs) > n)
  <2>1. SubSeq(sigs, 1, Len(sigs)) = sigs
    OBVIOUS
  <2>2. QED
    BY <1>2, <2>1 DEF Window
<1>3. QED
  BY <1>1, <1>2

\* The flags stay flags.
LEMMA FlagsKept == FlagsTyped /\ [Next]_vars => FlagsTyped'
<1> SUFFICES ASSUME FlagsTyped, [Next]_vars PROVE FlagsTyped'
  OBVIOUS
<1> USE DEF FlagsTyped
<1>1. CASE UNCHANGED vars
  BY <1>1 DEF vars, guardVars, truth
<1>2. CASE Prompt
  BY <1>2 DEF Prompt
<1>3. CASE Cancelled \/ OutOfMoney \/ StartTurn \/ StepFails
  BY <1>3 DEF Cancelled, OutOfMoney, StartTurn, StepFails, guardVars, truth
<1>4. ASSUME NEW a \in Answer, NEW cost \in Prices, CrossesLimit(a, cost) PROVE FlagsTyped'
  BY <1>4 DEF CrossesLimit, guardVars
<1>5. ASSUME NEW a \in Answer, NEW cost \in Prices, CompletionGuard(a, cost) PROVE FlagsTyped'
  BY <1>5 DEF CompletionGuard, truth
<1>6. ASSUME NEW a \in Answer, NEW cost \in Prices,
             FinalAnswer(a, cost) \/ UseTools(a, cost)
      PROVE  FlagsTyped'
  BY <1>6 DEF FinalAnswer, UseTools, guardVars, truth
<1>7. CASE ToolTurn
  <2>1. /\ workspaceMutated' = (workspaceMutated \/ MutatesFiles(answer))
        /\ validationSinceMutation' =
             (Validates(answer) \/ (validationSinceMutation /\ ~MutatesFiles(answer)))
        /\ inspectionGuardSent' = (inspectionGuardSent \/ InspectionNudge(answer))
        /\ validationGuardSent' = (validationGuardSent \/ ValidationNudge(answer))
        /\ dirty' = (IF RunsValidation(answer) THEN FALSE
                     ELSE dirty \/ MutatesFiles(answer))
        /\ UNCHANGED completionGuardSent
    BY <1>7 DEF ToolTurn, MutationFlags
  <2>2. QED
    BY <2>1
<1>8. CASE QueueInterrupt \/ NextTurn \/ StartCompact \/ Compacted \/ CompactFails
  BY <1>8 DEF QueueInterrupt, NextTurn, StartCompact, Compacted, CompactFails, guardVars,
              truth
<1>9. QED
  BY <1>1, <1>2, <1>3, <1>4, <1>5, <1>6, <1>7, <1>8 DEF Next, Loop, Outside

\* A cost is a natural number.
LEMMA PricesAreNat == \A cost \in Prices : cost \in Nat
BY LoopAssumption

\* The roles of messages.
Roles == {"user", "assistant", "calls", "tool"}

\* The rest keeps its type.
LEMMA DataKept == Data /\ [Next]_vars => Data'
<1> SUFFICES ASSUME Data, [Next]_vars PROVE Data'
  OBVIOUS
<1> USE DEF Data, Return, Goto
<1>1. CASE UNCHANGED vars
  BY <1>1 DEF vars, guardVars, truth
<1>2. CASE Prompt
  <2>1. PICK compact \in BOOLEAN, cost \in Prices :
          /\ history' = Append(IF compact THEN Summary ELSE history, "user")
          /\ spent' = IF compact THEN cost ELSE 0
          /\ cut' = IF compact THEN {} ELSE cut
    BY <1>2 DEF Prompt
  <2>2. Summary \in Seq(Roles)
    BY DEF Summary, Roles
  <2>3. history' \in Seq(Roles) /\ cut' \subseteq 1..Len(history')
    <3>1. CASE compact
      BY <2>1, <2>2, <3>1 DEF Roles
    <3>2. CASE ~compact
      BY <2>1, <3>2 DEF Roles
    <3>3. QED
      BY <3>1, <3>2
  <2>4. spent' \in Nat
    BY <2>1, PricesAreNat
  <2>5. QED
    BY <1>2, <2>3, <2>4 DEF Prompt, Roles
<1>3. CASE Cancelled
  BY <1>3 DEF Cancelled, guardVars, truth
<1>4. CASE OutOfMoney
  BY <1>4 DEF OutOfMoney, guardVars, truth
<1>5. CASE StartTurn
  BY <1>5 DEF StartTurn, guardVars, truth
<1>6. CASE StepFails
  BY <1>6 DEF StepFails, guardVars, truth
<1>7. ASSUME NEW a \in Answer, NEW cost \in Prices, CrossesLimit(a, cost) PROVE Data'
  <2>1. AnswerRole(a) \in Roles /\ history' = Append(history, AnswerRole(a))
    BY <1>7 DEF CrossesLimit, AnswerRole, Roles
  <2>2. cut' \in {cut, cut \cup {Len(history')}}
    BY <1>7 DEF CrossesLimit
  <2>3. history' \in Seq(Roles) /\ cut' \subseteq 1..Len(history')
    BY <2>1, <2>2 DEF Roles
  <2>4. spent' \in Nat /\ turns' \in Nat
    BY <1>7, PricesAreNat DEF CrossesLimit, Record
  <2>5. QED
    BY <1>7, <2>3, <2>4 DEF CrossesLimit, guardVars, Roles
<1>8. ASSUME NEW a \in Answer, NEW cost \in Prices, CompletionGuard(a, cost) PROVE Data'
  BY <1>8, PricesAreNat DEF CompletionGuard, Record, truth
<1>9. ASSUME NEW a \in Answer, NEW cost \in Prices, FinalAnswer(a, cost) PROVE Data'
  <2>1. history' \in Seq(Roles) /\ cut' \subseteq 1..Len(history')
    BY <1>9 DEF FinalAnswer, truth, Roles
  <2>2. spent' \in Nat /\ turns' \in Nat
    BY <1>9, PricesAreNat DEF FinalAnswer, Record
  <2>3. pc' = "idle" /\ outcome' \in {"answer", "error"}
    BY <1>9 DEF FinalAnswer
  <2>4. events' \in Seq({"started", "completed", "failed"})
    <3>1. events' = Append(events, "completed") \/ events' = Append(events, "failed")
      BY <1>9 DEF FinalAnswer
    <3>2. CASE events' = Append(events, "completed")
      BY <3>2
    <3>3. CASE events' = Append(events, "failed")
      BY <3>3
    <3>4. QED
      BY <3>1, <3>2, <3>3
  <2>5. QED
    BY <1>9, <2>1, <2>2, <2>3, <2>4 DEF FinalAnswer, guardVars, truth, Roles
<1>10. ASSUME NEW a \in Answer, NEW cost \in Prices, UseTools(a, cost) PROVE Data'
  BY <1>10, PricesAreNat DEF UseTools, Record, guardVars, truth
<1>11. CASE ToolTurn
  <2>1. history' \in Seq(Roles) /\ cut' \subseteq 1..Len(history')
    <3>1. ToolMessages(answer) \in Seq(Roles)
      BY NudgesAreMessages DEF ToolMessages, Roles
    <3>2. history' = history \o ToolMessages(answer) /\ UNCHANGED cut
      BY <1>11 DEF ToolTurn
    <3>3. QED
      BY <3>1, <3>2 DEF Roles
  <2>2. recentSigs' \in Seq(Answer)
    <3>1. Append(recentSigs, answer) \in Seq(Answer)
      BY <1>11 DEF ToolTurn
    <3>2. CASE MaxRepeatCalls > 1
      <4>1. MaxRepeatCalls \in Nat \ {0}
        BY <3>2, LoopAssumption
      <4>2. Window(Append(recentSigs, answer), MaxRepeatCalls) \in Seq(Answer)
        BY <3>1, <4>1, WindowIsSuffix
      <4>3. QED
        BY <1>11, <3>2, <4>2 DEF ToolTurn
    <3>3. QED
      BY <1>11, <3>2 DEF ToolTurn
  <2>3. spent' \in Nat /\ streak' \in Nat
    BY <1>11, PricesAreNat DEF ToolTurn
  <2>4. inspectionTurns' \in Nat /\ validationTurns' \in Nat
    BY <1>11 DEF ToolTurn, MutationFlags
  <2>5. QED
    BY <1>11, <2>1, <2>2, <2>3, <2>4 DEF ToolTurn, Roles
<1>12. CASE QueueInterrupt
  BY <1>12 DEF QueueInterrupt, guardVars, truth
<1>13. CASE NextTurn
  BY <1>13 DEF NextTurn, guardVars, truth
<1>14. CASE StartCompact
  BY <1>14 DEF StartCompact, guardVars, truth
<1>15. CASE Compacted
  BY <1>15, PricesAreNat DEF Compacted, Summary, guardVars
<1>16. CASE CompactFails
  BY <1>16 DEF CompactFails, guardVars, truth
<1>17. QED
  BY <1>1, <1>2, <1>3, <1>4, <1>5, <1>6, <1>7, <1>8, <1>9, <1>10, <1>11, <1>12, <1>13,
     <1>14, <1>15, <1>16 DEF Next, Loop, Outside

\* Both hold from the start.
LEMMA InitTyped == Init => Data /\ FlagsTyped
<1>1. Init => FlagsTyped
  BY DEF Init, FlagsTyped
<1>2. Init => Data
  BY DEF Init, Data
<1>3. QED
  BY <1>1, <1>2

\* Every variable of the loop keeps its type, the counters natural numbers and the cut
\* positions within the history, whatever the model answers.
THEOREM LoopTypeCorrect == Spec => []TypeOK
<1>1. Data /\ FlagsTyped => TypeOK
  BY DEF Data, FlagsTyped, TypeOK
<1>2. QED
  BY InitTyped, FlagsKept, DataKept, <1>1, PTL DEF Spec

----------------------------------------------------------------------------
(* The brackets of turns.                                                   *)

\* One more event of kind e, and whether that leaves a turn open.
LEMMA OneMoreEvent ==
  ASSUME NEW E, NEW s \in Seq(E), NEW e \in E,
         \A i \in 1..Len(s) : i % 2 = 1 <=> s[i] = "started",
         e = "started" <=> Len(s) % 2 = 0
  PROVE  /\ \A i \in 1..Len(Append(s, e)) : i % 2 = 1 <=> Append(s, e)[i] = "started"
         /\ Len(Append(s, e)) % 2 = 1 <=> e = "started"
<1>1. Len(s) \in Nat /\ Len(Append(s, e)) = Len(s) + 1
  OBVIOUS
<1>2. Len(s) % 2 = 0 <=> (Len(s) + 1) % 2 = 1
  BY <1>1
<1>3. \A i \in 1..Len(s) : Append(s, e)[i] = s[i]
  OBVIOUS
<1>4. Append(s, e)[Len(s) + 1] = e
  OBVIOUS
<1>5. QED
  BY <1>1, <1>2, <1>3, <1>4

\* Each step opens at most one turn, when none is open, or closes the open one.
LEMMA BracketsKept == Data /\ TurnsBracketed /\ [Next]_vars => TurnsBracketed'
<1> SUFFICES ASSUME Data, TurnsBracketed, [Next]_vars PROVE TurnsBracketed'
  OBVIOUS
<1>1. events \in Seq({"started", "completed", "failed"}) /\ Len(events) \in Nat
  BY DEF Data
<1>2. Len(events) % 2 \in {0, 1}
  BY <1>1
<1>3. ASSUME UNCHANGED events, pc \in {"step", "tools"} <=> pc' \in {"step", "tools"}
      PROVE  TurnsBracketed'
  BY <1>3 DEF TurnsBracketed
<1>4. ASSUME NEW e \in {"completed", "failed"}, events' = Append(events, e),
             pc \in {"step", "tools"}, pc' \notin {"step", "tools"}
      PROVE  TurnsBracketed'
  BY <1>1, <1>2, <1>4, OneMoreEvent DEF TurnsBracketed
<1>5. CASE UNCHANGED vars
  BY <1>3, <1>5 DEF vars
<1>6. CASE Prompt
  BY <1>6 DEF Prompt, TurnsBracketed, Goto
<1>7. CASE Cancelled \/ OutOfMoney
  BY <1>3, <1>7 DEF Cancelled, OutOfMoney, Return
<1>8. CASE StartTurn
  <2>1. events' = Append(events, "started") /\ pc = "check" /\ pc' = "step"
    BY <1>8 DEF StartTurn, Goto
  <2>2. Len(events) % 2 = 0
    BY <1>2, <2>1 DEF TurnsBracketed
  <2>3. QED
    BY <1>1, <2>1, <2>2, OneMoreEvent DEF TurnsBracketed
<1>9. CASE StepFails
  BY <1>4, <1>9 DEF StepFails, Return
<1>10. ASSUME NEW a \in Answer, NEW cost \in Prices, CrossesLimit(a, cost)
       PROVE  TurnsBracketed'
  BY <1>4, <1>10 DEF CrossesLimit, Record, Return
<1>11. ASSUME NEW a \in Answer, NEW cost \in Prices, CompletionGuard(a, cost)
       PROVE  TurnsBracketed'
  BY <1>4, <1>11 DEF CompletionGuard, Record
<1>12. ASSUME NEW a \in Answer, NEW cost \in Prices, FinalAnswer(a, cost)
       PROVE  TurnsBracketed'
  BY <1>4, <1>12 DEF FinalAnswer, Record, Return
<1>13. ASSUME NEW a \in Answer, NEW cost \in Prices, UseTools(a, cost)
       PROVE  TurnsBracketed'
  BY <1>3, <1>13 DEF UseTools, Record
<1>14. CASE ToolTurn
  BY <1>4, <1>14 DEF ToolTurn, Return
<1>15. CASE QueueInterrupt \/ NextTurn \/ StartCompact \/ Compacted
  BY <1>3, <1>15 DEF QueueInterrupt, NextTurn, StartCompact, Compacted, Goto
<1>16. CASE CompactFails
  BY <1>3, <1>16 DEF CompactFails, Return
<1>17. QED
  BY <1>5, <1>6, <1>7, <1>8, <1>9, <1>10, <1>11, <1>12, <1>13, <1>14, <1>15, <1>16
  DEF Next, Loop, Outside

\* TurnStarted opens a turn and exactly one of TurnCompleted and TurnFailed closes it
\* (streamViaStep), on every path, for chats of any length.
THEOREM TurnsAreBracketed == Spec => []TurnsBracketed
<1>1. Init => TurnsBracketed
  BY DEF Init, TurnsBracketed
<1>2. QED
  BY InitTyped, DataKept, BracketsKept, <1>1, PTL DEF Spec

----------------------------------------------------------------------------
(* The limits of a chat.                                                    *)

\* An llm-step goes out only below the limit; turns are bounded by MaxIter, and by one
\* more once the completion guard has sent the model back.
WithinLimits ==
  /\ pc = "step" => ~Reached(spent)
  /\ turns <= MaxIter + (IF completionGuardSent THEN 1 ELSE 0)
  /\ pc \in {"check", "step", "boundary", "compact"} =>
       turns < MaxIter + (IF completionGuardSent THEN 1 ELSE 0)

\* A turn is begun only below MaxIter and below the limit.
LEMMA LimitsKept == Data /\ WithinLimits /\ [Next]_vars => WithinLimits'
<1> SUFFICES ASSUME Data, WithinLimits, [Next]_vars PROVE WithinLimits'
  OBVIOUS
<1>1. turns \in Nat /\ MaxIter \in Nat \ {0}
  BY LoopAssumption DEF Data
<1> USE <1>1 DEF WithinLimits
<1>2. CASE UNCHANGED vars
  BY <1>2 DEF vars, guardVars, Reached
<1>3. CASE Prompt
  BY <1>3 DEF Prompt, Goto
<1>4. CASE Cancelled
  BY <1>4 DEF Cancelled, Return, guardVars
<1>5. CASE OutOfMoney
  BY <1>5 DEF OutOfMoney, Return, guardVars
<1>6. CASE StartTurn
  BY <1>6 DEF StartTurn, Goto, guardVars, Reached
<1>7. CASE StepFails
  BY <1>7 DEF StepFails, Return, guardVars
<1>8. ASSUME NEW a \in Answer, NEW cost \in Prices, CrossesLimit(a, cost)
      PROVE  WithinLimits'
  BY <1>8 DEF CrossesLimit, Record, Return, guardVars
<1>9. ASSUME NEW a \in Answer, NEW cost \in Prices, CompletionGuard(a, cost)
      PROVE  WithinLimits'
  BY <1>9 DEF CompletionGuard, Record
<1>10. ASSUME NEW a \in Answer, NEW cost \in Prices, FinalAnswer(a, cost)
       PROVE  WithinLimits'
  BY <1>10 DEF FinalAnswer, Record, Return, guardVars
<1>11. ASSUME NEW a \in Answer, NEW cost \in Prices, UseTools(a, cost)
       PROVE  WithinLimits'
  BY <1>11 DEF UseTools, Record, guardVars
<1>12. CASE ToolTurn
  <2>1. pc = "tools" /\ UNCHANGED <<turns, completionGuardSent>>
    BY <1>12 DEF ToolTurn
  <2>2. pc' = "idle" \/ (pc' = "boundary" /\ turns < MaxIter)
    BY <1>12 DEF ToolTurn, Return, AtMaxIter
  <2>3. QED
    BY <2>1, <2>2
<1>13. CASE QueueInterrupt
  BY <1>13 DEF QueueInterrupt, Goto, guardVars
<1>14. CASE NextTurn
  BY <1>14 DEF NextTurn, Goto, guardVars
<1>15. CASE StartCompact
  BY <1>15 DEF StartCompact, Goto, guardVars
<1>16. CASE Compacted
  BY <1>16 DEF Compacted, Goto, guardVars
<1>17. CASE CompactFails
  BY <1>17 DEF CompactFails, Return, guardVars
<1>18. QED
  BY <1>2, <1>3, <1>4, <1>5, <1>6, <1>7, <1>8, <1>9, <1>10, <1>11, <1>12, <1>13, <1>14,
     <1>15, <1>16, <1>17 DEF Next, Loop, Outside

\* Turns and money stay within their limits in every behaviour.
LEMMA LimitsInvariant == Spec => [](Data /\ WithinLimits)
<1>1. Init => WithinLimits
  BY LoopAssumption DEF Init, WithinLimits
<1>2. QED
  BY InitTyped, DataKept, LimitsKept, <1>1, PTL DEF Spec

\* MaxIter bounds the llm-steps of a chat, but for the one the completion guard adds.
THEOREM StepsAreBounded == Spec => []StepsBounded
<1>1. WithinLimits => StepsBounded
  BY DEF WithinLimits, StepsBounded
<1>2. QED
  BY LimitsInvariant, <1>1, PTL

\* Once a chat has reached its limit, by its own steps, a summary or the bill of a
\* subagent, no answer counts as a further turn of it.
THEOREM NoTurnIsTakenPastTheLimit == Spec => NoTurnPastLimit
<1>1. ASSUME WithinLimits, [Next]_vars, Reached(spent), chat' = chat, Data
      PROVE  turns' = turns
  <2>1. ~Prompt
    <3>1. chat \in Nat
      BY <1>1 DEF Data
    <3>2. Prompt => chat' = chat + 1
      BY DEF Prompt
    <3>3. QED
      BY <1>1, <3>1, <3>2
  <2>2. pc # "step"
    BY <1>1 DEF WithinLimits
  <2>3. QED
    BY <1>1, <2>1, <2>2
    DEF vars, Next, Loop, Outside, Cancelled, OutOfMoney, StartTurn, StepFails, CrossesLimit,
        CompletionGuard, FinalAnswer, UseTools, Record, ToolTurn, QueueInterrupt, NextTurn,
        StartCompact, Compacted, CompactFails
<1>2. Data /\ WithinLimits /\ [Next]_vars
        => [Reached(spent) /\ chat' = chat => turns' = turns]_vars
  BY <1>1
<1>3. QED
  BY LimitsInvariant, <1>2, PTL DEF Spec, NoTurnPastLimit

----------------------------------------------------------------------------
(* The completion guard.                                                    *)

\* The flags say what the tools did: the files are changed and not validated since,
\* exactly if the workspace is marked as mutated and no validation is noted.
FlagsTrue == dirty <=> workspaceMutated /\ ~validationSinceMutation

\* Every tool turn moves the flags as it moves the truth about the files.
LEMMA FlagsTrueKept == FlagsTyped /\ FlagsTrue /\ [Next]_vars => FlagsTrue'
<1> SUFFICES ASSUME FlagsTyped, FlagsTrue, [Next]_vars PROVE FlagsTrue'
  OBVIOUS
<1> USE DEF FlagsTrue
<1>1. CASE UNCHANGED <<dirty, workspaceMutated, validationSinceMutation>>
  BY <1>1
<1>2. CASE Prompt
  BY <1>2 DEF Prompt
<1>3. CASE ToolTurn
  <2>1. /\ workspaceMutated' = (workspaceMutated \/ MutatesFiles(answer))
        /\ validationSinceMutation' =
             (Validates(answer) \/ (validationSinceMutation /\ ~MutatesFiles(answer)))
        /\ dirty' = (IF RunsValidation(answer) THEN FALSE
                     ELSE dirty \/ MutatesFiles(answer))
    BY <1>3 DEF ToolTurn, MutationFlags
  <2>2. QED
    BY <2>1 DEF Validates, FlagsTyped
<1>4. QED
  BY <1>1, <1>2, <1>3
  DEF vars, guardVars, truth, Next, Loop, Outside, Cancelled, OutOfMoney, StartTurn, StepFails,
      CrossesLimit, CompletionGuard, FinalAnswer, UseTools, QueueInterrupt, NextTurn,
      StartCompact, Compacted, CompactFails

\* The completion guard (steploop.go): a chat whose files changed after the last
\* validation run ends with an answer only if the model was sent back once, and it is
\* never sent back otherwise.
THEOREM CompletionGuardIsExact == Spec => CompletionGuardExact
<1> DEFINE Exact ==
      /\ outcome # "answer" /\ outcome' = "answer" /\ dirty => completionGuardSent
      /\ ~completionGuardSent /\ completionGuardSent' => dirty
<1>1. Init => FlagsTrue
  BY DEF Init, FlagsTrue
<1>2. ASSUME FlagsTrue, Next PROVE Exact
  <2>1. ASSUME NEW a \in Answer, NEW cost \in Prices, FinalAnswer(a, cost) PROVE Exact
    BY <1>2, <2>1 DEF FinalAnswer, FlagsTrue, guardVars
  <2>2. ASSUME NEW a \in Answer, NEW cost \in Prices, CompletionGuard(a, cost) PROVE Exact
    BY <1>2, <2>2 DEF CompletionGuard, FlagsTrue
  <2>3. CASE Prompt
    BY <2>3 DEF Prompt
  <2>4. CASE ToolTurn
    BY <2>4 DEF ToolTurn, Return
  <2>5. QED
    BY <1>2, <2>1, <2>2, <2>3, <2>4
    DEF guardVars, Next, Loop, Outside, Return, Cancelled, OutOfMoney, StartTurn, StepFails,
        CrossesLimit, UseTools, QueueInterrupt, NextTurn, StartCompact, Compacted,
        CompactFails
<1>3. FlagsTrue /\ [Next]_vars => [Exact]_vars
  BY <1>2
<1> HIDE DEF Exact
<1>4. Spec => [][Exact]_vars
  BY InitTyped, FlagsKept, FlagsTrueKept, <1>1, <1>3, PTL DEF Spec
<1>5. QED
  BY <1>4 DEF CompletionGuardExact, Exact

----------------------------------------------------------------------------
(* The answers to tool calls.                                               *)

\* The message at i is no tool call without its results, but for the batch at work.
AnsweredAt(i) ==
  history[i] = "calls" =>
    \/ i < Len(history) /\ history[i + 1] = "tool"
    \/ i = Len(history) /\ pc = "tools"

Answered == \A i \in 1..Len(history) \ cut : AnsweredAt(i)

\* Messages m that are no tool calls are put after a history whose batches all have
\* their results; or m begins with the results of the last one.
LEMMA MoreMessages ==
  ASSUME Data, Answered, NEW m \in Seq({"user", "assistant", "tool"}), Len(m) > 0,
         history' = history \o m, cut' = cut, pc = "tools" => m[1] = "tool"
  PROVE  Answered'
<1>1. history \in Seq(Roles) /\ Len(history) \in Nat /\ Len(m) \in Nat
  BY DEF Data, Roles
<1>2. /\ Len(history') = Len(history) + Len(m)
      /\ \A i \in 1..Len(history) : history'[i] = history[i]
      /\ \A i \in 1..Len(m) : history'[Len(history) + i] = m[i]
  BY <1>1
<1>3. ASSUME NEW i \in 1..Len(history') \ cut PROVE AnsweredAt(i)'
  <2>1. CASE i \in 1..Len(history)
    <3>1. AnsweredAt(i)
      BY <1>3, <2>1 DEF Answered
    <3>2. i = Len(history) => history'[i + 1] = m[1]
      BY <1>1, <1>2
    <3>3. QED
      BY <1>1, <1>2, <2>1, <3>1, <3>2 DEF AnsweredAt
  <2>2. CASE i \notin 1..Len(history)
    <3>1. i - Len(history) \in 1..Len(m)
      BY <1>1, <1>2, <1>3, <2>2
    <3>2. history'[i] = m[i - Len(history)]
      BY <1>1, <1>2, <3>1
    <3>3. m[i - Len(history)] # "calls"
      BY <3>1
    <3>4. QED
      BY <3>2, <3>3 DEF AnsweredAt
  <2>3. QED
    BY <2>1, <2>2
<1>4. QED
  BY <1>3 DEF Answered

\* One such message, outside a batch.
LEMMA OneMoreMessage ==
  ASSUME Data, Answered, NEW role \in {"user", "assistant"},
         history' = Append(history, role), cut' = cut, pc # "tools"
  PROVE  Answered'
<1>1. <<role>> \in Seq({"user", "assistant", "tool"}) /\ Len(<<role>>) = 1
  OBVIOUS
<1>2. Append(history, role) = history \o <<role>>
  BY DEF Data
<1> DEFINE m == <<role>>
<1>3. m \in Seq({"user", "assistant", "tool"}) /\ Len(m) > 0 /\ history' = history \o m
  BY <1>1, <1>2
<1> HIDE DEF m
<1>4. QED
  BY <1>3, MoreMessages

\* A history that stays, outside a batch.
LEMMA SameHistory ==
  ASSUME Answered, history' = history, cut' = cut, pc # "tools" \/ pc' = pc
  PROVE  Answered'
BY DEF Answered, AnsweredAt

\* A batch begins, or a limit cuts it off.
LEMMA NewCalls ==
  ASSUME Data, Answered, NEW role \in {"assistant", "calls"}, pc # "tools",
         history' = Append(history, role),
         \/ cut' = cut /\ (pc' = "tools" \/ role = "assistant")
         \/ cut' = cut \cup {Len(history')}
  PROVE  Answered'
<1>1. history \in Seq(Roles) /\ Len(history) \in Nat
  BY DEF Data, Roles
<1>2. /\ Len(history') = Len(history) + 1 /\ history'[Len(history) + 1] = role
      /\ \A i \in 1..Len(history) : history'[i] = history[i]
  BY <1>1
<1>3. ASSUME NEW i \in 1..Len(history') \ cut' PROVE AnsweredAt(i)'
  <2>1. CASE i \in 1..Len(history)
    <3>1. AnsweredAt(i) /\ i \in 1..Len(history) \ cut
      BY <1>3, <2>1 DEF Answered
    <3>2. QED
      BY <1>1, <1>2, <3>1 DEF AnsweredAt
  <2>2. CASE i \notin 1..Len(history)
    <3>1. i = Len(history')
      BY <1>1, <1>2, <1>3, <2>2
    <3>2. QED
      BY <1>2, <1>3, <3>1 DEF AnsweredAt
  <2>3. QED
    BY <2>1, <2>2
<1>4. QED
  BY <1>3 DEF Answered

\* Every tool turn appends the results right behind the calls.
LEMMA AnsweredKept == Data /\ Answered /\ [Next]_vars => Answered'
<1> SUFFICES ASSUME Data, Answered, [Next]_vars PROVE Answered'
  OBVIOUS
<1>1. CASE UNCHANGED vars
  BY <1>1, SameHistory DEF vars, truth
<1>2. CASE Prompt
  <2>1. pc = "idle" /\ pc' = "check"
    BY <1>2 DEF Prompt, Goto
  <2>2. CASE history' = Append(history, "user") /\ cut' = cut
    BY <2>1, <2>2, OneMoreMessage
  <2>3. CASE history' = Append(Summary, "user")
    <3>1. \A i \in 1..Len(history') : history'[i] # "calls"
      BY <2>3 DEF Summary
    <3>2. QED
      BY <3>1 DEF Answered, AnsweredAt
  <2>4. QED
    BY <1>2, <2>2, <2>3 DEF Prompt
<1>3. CASE Cancelled \/ OutOfMoney \/ StartTurn \/ StepFails
  BY <1>3, SameHistory DEF Cancelled, OutOfMoney, StartTurn, StepFails, Goto, truth
<1>4. ASSUME NEW a \in Answer, NEW cost \in Prices, CrossesLimit(a, cost) PROVE Answered'
  BY <1>4, NewCalls DEF CrossesLimit, Record, AnswerRole
<1>5. ASSUME NEW a \in Answer, NEW cost \in Prices, CompletionGuard(a, cost)
      PROVE  Answered'
  <2> DEFINE m == <<"assistant", "user">>
  <2>1. m \in Seq({"user", "assistant", "tool"}) /\ Len(m) > 0
    OBVIOUS
  <2>2. history' = history \o m /\ cut' = cut /\ pc = "step"
    BY <1>5 DEF CompletionGuard, Record, truth
  <2> HIDE DEF m
  <2>3. QED
    BY <2>1, <2>2, MoreMessages
<1>6. ASSUME NEW a \in Answer, NEW cost \in Prices, FinalAnswer(a, cost) PROVE Answered'
  <2>1. history' = Append(history, "assistant") /\ cut' = cut /\ pc = "step"
    BY <1>6 DEF FinalAnswer, Record, truth
  <2>2. QED
    BY <2>1, OneMoreMessage
<1>7. ASSUME NEW a \in Answer, NEW cost \in Prices, UseTools(a, cost) PROVE Answered'
  BY <1>7, NewCalls DEF UseTools, Record, truth
<1>8. CASE ToolTurn
  <2> DEFINE m == ToolMessages(answer)
  <2>1. m \in Seq({"user", "assistant", "tool"}) /\ Len(m) > 0 /\ m[1] = "tool"
    BY NudgesAreMessages DEF ToolMessages
  <2>2. history' = history \o m /\ cut' = cut
    BY <1>8 DEF ToolTurn
  <2> HIDE DEF m
  <2>3. QED
    BY <2>1, <2>2, MoreMessages
<1>9. CASE QueueInterrupt
  <2>1. history' = Append(history, "user") /\ cut' = cut /\ pc = "boundary"
    BY <1>9 DEF QueueInterrupt, Goto, truth
  <2>2. QED
    BY <2>1, OneMoreMessage
<1>10. CASE NextTurn \/ StartCompact \/ CompactFails
  BY <1>10, SameHistory DEF NextTurn, StartCompact, CompactFails, Goto, truth
<1>11. CASE Compacted
  <2>1. \A i \in 1..Len(history') : history'[i] # "calls"
    BY <1>11 DEF Compacted, Summary
  <2>2. QED
    BY <2>1 DEF Answered, AnsweredAt
<1>12. QED
  BY <1>1, <1>2, <1>3, <1>4, <1>5, <1>6, <1>7, <1>8, <1>9, <1>10, <1>11
  DEF Next, Loop, Outside

\* Whenever a request goes out, each assistant message with tool calls is followed by
\* their results, but for the calls a limit cut off, for histories of any length.
THEOREM CallsAreAnswered == Spec => []ToolCallsAnswered
<1>1. Init => Answered
  BY DEF Init, Answered
<1>2. Data /\ Answered => ToolCallsAnswered
  BY DEF Answered, AnsweredAt, ToolCallsAnswered
<1>3. QED
  BY InitTyped, DataKept, AnsweredKept, <1>1, <1>2, PTL DEF Spec

----------------------------------------------------------------------------
(* The repeat guard.                                                        *)

\* The window w ends with exactly n signatures l, or holds nothing else.
EndsWith(w, n, l) ==
  /\ n \in Nat /\ n <= Len(w)
  /\ \A i \in 1..n : w[Len(w) - i + 1] = l
  /\ n < Len(w) => w[Len(w) - n] # l
  /\ n = 0 => Len(w) = 0

\* One more signature in the window, and the length of the streak it ends.
LEMMA WindowTurns ==
  ASSUME NEW s \in Seq(Answer), NEW n \in Nat, NEW l, NEW a \in Answer,
         NEW M \in Nat, M > 1, n < M, Len(s) <= M, EndsWith(s, n, l)
  PROVE  LET w == Window(Append(s, a), M)
             t == IF l = a THEN n + 1 ELSE 1
         IN  /\ Len(w) <= M /\ t <= M /\ EndsWith(w, t, a)
             /\ AllEqual(w, M) <=> t = M
<1> DEFINE v == Append(s, a)
           w == Window(v, M)
           t == IF l = a THEN n + 1 ELSE 1
<1>1. /\ v \in Seq(Answer) /\ Len(s) \in Nat /\ Len(v) = Len(s) + 1
      /\ v[Len(s) + 1] = a /\ \A i \in 1..Len(s) : v[i] = s[i]
  OBVIOUS
<1> HIDE DEF v
<1>2. M \in Nat \ {0}
  OBVIOUS
<1>3. /\ w \in Seq(Answer) /\ Len(w) = IF Len(v) > M THEN M ELSE Len(v)
      /\ \A i \in 1..Len(w) : w[Len(w) - i + 1] = v[Len(v) - i + 1]
  BY <1>1, <1>2, WindowIsSuffix
<1> HIDE DEF w
<1>4. Len(w) \in Nat /\ Len(w) <= M /\ Len(w) <= Len(v) /\ Len(w) >= 1
  BY <1>1, <1>3
<1>5. w[Len(w)] = a
  <2>1. w[Len(w) - 1 + 1] = v[Len(v) - 1 + 1]
    BY <1>3, <1>4
  <2>2. QED
    BY <1>1, <1>4, <2>1
<1>6. ASSUME NEW i \in 2..Len(w)
      PROVE  i - 1 \in 1..Len(s) /\ w[Len(w) - i + 1] = s[Len(s) - (i - 1) + 1]
  <2>1. i \in Nat /\ i >= 2 /\ i <= Len(w) /\ i \in 1..Len(w)
    BY <1>4, <1>6
  <2>2. w[Len(w) - i + 1] = v[Len(v) - i + 1]
    BY <1>3, <2>1
  <2>3. Len(v) - i + 1 = Len(s) - (i - 1) + 1 /\ Len(s) - (i - 1) + 1 \in 1..Len(s)
    BY <1>1, <1>4, <2>1
  <2>4. v[Len(s) - (i - 1) + 1] = s[Len(s) - (i - 1) + 1]
    BY <1>1, <2>3
  <2>5. i - 1 \in 1..Len(s)
    BY <1>1, <1>4, <2>1
  <2>6. QED
    BY <2>2, <2>3, <2>4, <2>5
<1>7. t \in Nat /\ t >= 1 /\ t <= M /\ t <= Len(w)
  BY <1>1, <1>3, <1>4 DEF EndsWith
<1>8. ASSUME NEW i \in 1..t PROVE w[Len(w) - i + 1] = a
  <2>1. CASE i = 1
    BY <1>4, <1>5, <2>1
  <2>2. CASE i # 1
    <3>1. l = a /\ i - 1 \in 1..n /\ i \in 2..Len(w)
      BY <1>7, <1>8, <2>2
    <3>2. s[Len(s) - (i - 1) + 1] = l
      BY <3>1 DEF EndsWith
    <3>3. QED
      BY <1>6, <3>1, <3>2
  <2>3. QED
    BY <2>1, <2>2
<1>9. ASSUME t < Len(w) PROVE w[Len(w) - t] # a
  <2>1. t + 1 \in 2..Len(w) /\ Len(w) - (t + 1) + 1 = Len(w) - t
    BY <1>4, <1>7, <1>9
  <2>2. t \in 1..Len(s) /\ w[Len(w) - t] = s[Len(s) - t + 1]
    BY <1>6, <1>7, <2>1
  <2>3. CASE l = a
    <3>1. t = n + 1 /\ Len(s) - t + 1 = Len(s) - n /\ n < Len(s)
      BY <1>1, <2>2, <2>3
    <3>2. QED
      BY <2>2, <2>3, <3>1 DEF EndsWith
  <2>4. CASE l # a
    <3>1. t = 1 /\ Len(s) - t + 1 = Len(s) - 1 + 1 /\ 1 \in 1..n
      BY <1>1, <2>2, <2>4 DEF EndsWith
    <3>2. s[Len(s) - 1 + 1] = l
      BY <3>1 DEF EndsWith
    <3>3. QED
      BY <2>2, <2>4, <3>1, <3>2
  <2>5. QED
    BY <2>3, <2>4
<1>10. EndsWith(w, t, a)
  BY <1>7, <1>8, <1>9 DEF EndsWith
<1> HIDE DEF t
<1>11. t = M => AllEqual(w, M)
  BY <1>4, <1>5, <1>7, <1>8 DEF AllEqual
<1>12. AllEqual(w, M) => t = M
  <2> SUFFICES ASSUME AllEqual(w, M), t # M PROVE FALSE
    OBVIOUS
  <2>1. t < Len(w) /\ t + 1 \in 1..M /\ Len(w) - (t + 1) + 1 = Len(w) - t
    BY <1>4, <1>7 DEF AllEqual
  <2>2. w[Len(w) - (t + 1) + 1] = w[Len(w)]
    BY <2>1 DEF AllEqual
  <2>3. QED
    BY <1>5, <1>9, <2>1, <2>2
<1>13. QED
  BY <1>4, <1>7, <1>10, <1>11, <1>12 DEF w, t, v

\* While a chat goes on the window ends with exactly the streak, which is short of the
\* limit; the guard has ended only chats that reached it.
GuardInv ==
  /\ outcome = "loop_guard" => streak = MaxRepeatCalls
  /\ MaxRepeatCalls > 1 /\ outcome = "max_iter" => streak < MaxRepeatCalls
  /\ MaxRepeatCalls > 1 /\ pc # "idle" =>
       /\ streak < MaxRepeatCalls /\ Len(recentSigs) <= MaxRepeatCalls
       /\ EndsWith(recentSigs, streak, lastBatch)

\* The window of signatures and the streak of equal turns stay in step.
LEMMA GuardKept == Data /\ GuardInv /\ [Next]_vars => GuardInv'
<1> SUFFICES ASSUME Data, GuardInv, [Next]_vars PROVE GuardInv'
  OBVIOUS
<1>1. ASSUME UNCHANGED <<streak, lastBatch, recentSigs>>,
             pc = "idle" => pc' = "idle",
             outcome' = outcome \/ outcome' \notin {"loop_guard", "max_iter"}
      PROVE  GuardInv'
  BY <1>1 DEF GuardInv, EndsWith
<1>2. CASE UNCHANGED vars
  BY <1>1, <1>2 DEF vars, truth
<1>3. CASE Prompt
  BY <1>3, LoopAssumption DEF Prompt, GuardInv, EndsWith
<1>4. CASE Cancelled \/ OutOfMoney \/ StartTurn \/ StepFails
  BY <1>1, <1>4 DEF Cancelled, OutOfMoney, StartTurn, StepFails, Return, Goto, truth
<1>5. ASSUME NEW a \in Answer, NEW cost \in Prices, CrossesLimit(a, cost) PROVE GuardInv'
  BY <1>1, <1>5 DEF CrossesLimit, Record, Return
<1>6. ASSUME NEW a \in Answer, NEW cost \in Prices, CompletionGuard(a, cost)
      PROVE  GuardInv'
  BY <1>1, <1>6 DEF CompletionGuard, Record, truth
<1>7. ASSUME NEW a \in Answer, NEW cost \in Prices, FinalAnswer(a, cost) PROVE GuardInv'
  BY <1>1, <1>7 DEF FinalAnswer, Record, Return, truth
<1>8. ASSUME NEW a \in Answer, NEW cost \in Prices, UseTools(a, cost) PROVE GuardInv'
  BY <1>1, <1>8 DEF UseTools, Record, truth
<1>9. CASE ToolTurn
  <2>1. /\ pc = "tools" /\ answer \in Answer /\ recentSigs \in Seq(Answer)
        /\ streak \in Nat /\ MaxRepeatCalls \in Nat /\ outcome = "none"
    BY <1>9, LoopAssumption DEF ToolTurn, Data
  <2>2. streak' = (IF lastBatch = answer THEN streak + 1 ELSE 1) /\ lastBatch' = answer
    BY <1>9 DEF ToolTurn
  <2>3. CASE ~(MaxRepeatCalls > 1)
    <3>1. outcome' # "loop_guard"
      BY <1>9, <2>1, <2>3 DEF ToolTurn, Return, SpinDetected
    <3>2. QED
      BY <2>3, <3>1 DEF GuardInv
  <2>4. CASE MaxRepeatCalls > 1
    <3>1. recentSigs' = Window(Append(recentSigs, answer), MaxRepeatCalls)
      BY <1>9, <2>4 DEF ToolTurn
    <3>2. /\ streak < MaxRepeatCalls /\ Len(recentSigs) <= MaxRepeatCalls
          /\ EndsWith(recentSigs, streak, lastBatch)
      BY <2>1, <2>4 DEF GuardInv
    <3>3. /\ Len(recentSigs') <= MaxRepeatCalls /\ streak' <= MaxRepeatCalls
          /\ EndsWith(recentSigs', streak', lastBatch')
          /\ AllEqual(recentSigs', MaxRepeatCalls) <=> streak' = MaxRepeatCalls
      BY <2>1, <2>2, <2>4, <3>1, <3>2, WindowTurns
    <3>4. CASE SpinDetected
      <4>1. pc' = "idle" /\ outcome' = "loop_guard"
        BY <1>9, <3>4 DEF ToolTurn, Return
      <4>2. QED
        BY <3>3, <3>4, <4>1 DEF GuardInv, SpinDetected
    <3>5. CASE ~SpinDetected
      <4>1. outcome' # "loop_guard"
        BY <1>9, <2>1, <3>5 DEF ToolTurn, Return
      <4>2. streak' < MaxRepeatCalls
        <5>1. streak' \in Nat
          BY <2>1, <2>2
        <5>2. QED
          BY <2>1, <2>4, <3>3, <3>5, <5>1 DEF SpinDetected
      <4>3. QED
        BY <3>3, <4>1, <4>2 DEF GuardInv
    <3>6. QED
      BY <3>4, <3>5
  <2>5. QED
    BY <2>3, <2>4
<1>10. CASE QueueInterrupt \/ NextTurn \/ StartCompact \/ Compacted \/ CompactFails
  BY <1>1, <1>10
  DEF QueueInterrupt, NextTurn, StartCompact, Compacted, CompactFails, Goto, Return, truth
<1>11. QED
  BY <1>2, <1>3, <1>4, <1>5, <1>6, <1>7, <1>8, <1>9, <1>10 DEF Next, Loop, Outside

\* The repeat guard stops a chat at the MaxRepeatCalls-th consecutive tool turn with the
\* same calls and results, never earlier and never later, whatever MaxRepeatCalls is.
THEOREM LoopGuardIsExact == Spec => []LoopGuardExact
<1>1. Init => GuardInv
  BY LoopAssumption DEF Init, GuardInv
<1>2. GuardInv => LoopGuardExact
  BY DEF GuardInv, LoopGuardExact
<1>3. QED
  BY InitTyped, DataKept, GuardKept, <1>1, <1>2, PTL DEF Spec
----------------------------------------------------------------------------
(* Where a kernel starts.                                                   *)

Stages == {"none", "probe", "register", "connect", "sse", "list", "ready", "failed",
           "dropped", "closed"}

StartTyped ==
  /\ asked \in Config /\ asked.context \notin 1..3
  /\ cfg \in [Kernels -> Config] /\ limits \in [Kernels -> Limits]
  /\ stage \in [Kernels -> Stages]
  /\ \A k \in Kernels : inputContext(limits[k]) \notin 1..3

\* How the Config of a kernel comes from that of another, or from the host's.
SameSizes(c, d) == c.context = d.context /\ c.buffer = d.buffer /\ c.tokens = d.tokens

\* What the fields are after the limits of a model and the defaults.
FitFields(c, lim, d) ==
  LET window == inputContext(lim) IN
  /\ d.context > 3 /\ d.buffer > 0
  /\ window > 0 => d.context <= window
  /\ lim.output > 0 => d.tokens \in 1..lim.output
  /\ c.context > 0 /\ ~(window > 0 /\ window < c.context) => d.context = c.context
  /\ c.context <= 0 /\ window = 0 => d.context = DefaultContext
  /\ c.tokens > 0 => d.tokens <= c.tokens
  /\ c.buffer > 0 => d.buffer <= c.buffer
  /\ window = 0 /\ c.buffer > 0 => d.buffer = c.buffer
  /\ window > 0 /\ c.buffer > 0 => d.buffer < d.context
  /\ c.buffer <= 0 => d.buffer = DefaultBuffer \/ d.buffer < d.context

\* Fitting a Config to what a gateway says of a model gives these fields.
LEMMA Fitting ==
  ASSUME NEW c \in Config, NEW lim \in Limits, c.context \notin 1..3,
         inputContext(lim) \notin 1..3
  PROVE  /\ WindowDefaults(ApplyModelLimits(c, lim)) \in Config
         /\ FitFields(c, lim, WindowDefaults(ApplyModelLimits(c, lim)))
<1> DEFINE window == inputContext(lim)
           context == Lower(c.context, window)
           buffer == IF window > 0 /\ c.buffer >= context THEN context \div 4 ELSE c.buffer
           d == WindowDefaults(ApplyModelLimits(c, lim))
<1>1. window \in Nat /\ lim.output \in Nat
  BY DEF Limits, inputContext
<1>2. /\ c.context \in Int /\ c.buffer \in Int /\ c.tokens \in Int /\ c.iter \in Int
      /\ context \in Int /\ buffer \in Int /\ Lower(c.tokens, lim.output) \in Int
  BY <1>1 DEF Config, Lower
<1>3. d = [c EXCEPT !.context = OrDefault(context, DefaultContext),
                    !.buffer = OrDefault(buffer, DefaultBuffer),
                    !.tokens = Lower(c.tokens, lim.output),
                    !.iter = OrDefault(c.iter, 100)]
  BY DEF WindowDefaults, ApplyModelLimits, Config
<1>a. /\ OrDefault(context, DefaultContext) \in Int
      /\ OrDefault(buffer, DefaultBuffer) \in Int /\ OrDefault(c.iter, 100) \in Int
  BY <1>2, StartupAssumption DEF OrDefault
<1>4. /\ d \in Config
      /\ d.context = OrDefault(context, DefaultContext)
      /\ d.buffer = OrDefault(buffer, DefaultBuffer)
      /\ d.tokens = Lower(c.tokens, lim.output)
  <2> HIDE DEF d, context, buffer
  <2>1. QED
    BY <1>2, <1>3, <1>a DEF Config
<1>5. d.context > 3 /\ (window > 0 => context > 3 /\ d.context = context)
  BY <1>1, <1>2, <1>4, StartupAssumption DEF OrDefault, Lower
<1>6. context > 3 => context \div 4 \in 1..(context - 1)
  BY <1>2
<1> HIDE DEF d, context, window
<1>7. QED
  <2>1. FitFields(c, lim, d)
    BY <1>1, <1>2, <1>4, <1>5, <1>6, StartupAssumption
    DEF FitFields, OrDefault, Lower, context, window
  <2>2. QED
    BY <1>4, <2>1 DEF d

-----------------------------------------------------------------------------
\* The invariant that the steps keep: what a kernel starts from is known until it is
\* fitted, and a subagent starts when its parent is.
StartInv ==
  /\ StartTyped
  /\ \A k \in Kernels : Configured(k) => cfg[k].context > 3 /\ cfg[k].buffer > 0
  /\ ~Configured(Host) => SameSizes(cfg[Host], asked)
  /\ \A k \in Children : stage[k] # "none" => stage[Host] \in {"ready", "closed"}
  /\ \A k \in Children : stage[k] = "probe" => SameSizes(cfg[k], cfg[Host])
  /\ LimitsFit /\ RoomToCompact

\* The Config a host starts with, from Go or from the command line, is a Config.
LEMMA AskedIsConfig ==
  ASSUME StartInit PROVE asked \in Config /\ asked.context \notin 1..3
<1>1. CASE asked \in Settings
  BY <1>1, StartupAssumption
<1>2. CASE asked \in {LoadConfig(flags) : flags \in CommandLines}
  <2>1. PICK flags \in Flags : asked = LoadConfig(flags) /\ flags.contextSize \notin 1..3
    BY <1>2, StartupAssumption
  <2>2. (IF flags.maxIter > 0 THEN flags.maxIter ELSE flags.envMaxIter) \in Int
    BY DEF Flags
  <2>3. <<>> \in Seq([id : STRING, name : STRING, tools : SUBSET STRING])
    OBVIOUS
  <2>4. QED
    BY <2>1, <2>2, <2>3 DEF LoadConfig, Flags, Config
<1>3. QED
  BY <1>1, <1>2 DEF StartInit

\* Before NewKernel every Config is the one the host asks for.
LEMMA StartEstablishes == StartInit => StartInv
<1> SUFFICES ASSUME StartInit PROVE StartInv
  OBVIOUS
<1>1. StartTyped
  BY AskedIsConfig DEF StartInit, StartTyped, NoLimits, Missing, Limits, Stages, inputContext
<1>2. QED
  BY <1>1 DEF StartInit, StartInv, LimitsFit, RoomToCompact, Configured, SameSizes, Kernels

\* A step after the fitting changes no size: it keeps the invariant.
LEMMA QuietStep ==
  ASSUME StartInv, asked' = asked, limits' = limits, stage' \in [Kernels -> Stages],
         cfg' \in [Kernels -> Config],
         \A k \in Kernels : SameSizes(cfg'[k], cfg[k]),
         \A k \in Kernels : stage'[k] # stage[k] =>
            {stage[k], stage'[k]} \cap {"none", "probe"} = {},
         stage[Host] \in {"ready", "closed"} => stage'[Host] \in {"ready", "closed"}
  PROVE  StartInv'
<1>1. StartTyped'
  BY DEF StartInv, StartTyped
<1>2. \A k \in Kernels : Configured(k)' <=> Configured(k)
  BY DEF Configured
<1>3. /\ Host \in Kernels /\ \A k \in Children : k \in Kernels
      /\ Prudent' <=> Prudent
  BY DEF Kernels, Prudent
<1>4. LimitsFit'
  BY <1>2, <1>3 DEF StartInv, LimitsFit, SameSizes
<1>5. RoomToCompact'
  BY <1>2, <1>3 DEF StartInv, RoomToCompact, SameSizes
<1>6. \A k \in Kernels : Configured(k)' => cfg'[k].context > 3 /\ cfg'[k].buffer > 0
  BY <1>2 DEF StartInv, SameSizes
<1>7. ~Configured(Host)' => SameSizes(cfg'[Host], asked')
  BY <1>2, <1>3 DEF StartInv, SameSizes
<1>8. \A k \in Children : stage'[k] # "none" => stage'[Host] \in {"ready", "closed"}
  BY <1>3 DEF StartInv
<1>9. \A k \in Children : stage'[k] = "probe" => SameSizes(cfg'[k], cfg'[Host])
  BY <1>3, ZenonT(60) DEF StartInv, SameSizes
<1>10. QED
  BY <1>1, <1>4, <1>5, <1>6, <1>7, <1>8, <1>9 DEF StartInv, Configured

\* The host's kernel is fitted from what the host asked, a subagent from its parent.
LEMMA ProbeStep ==
  ASSUME StartInv, NEW k \in Kernels, Probe(k) PROVE StartInv'
<1> DEFINE from == IF k = Host THEN asked ELSE cfg[Host]
           lim == limits'[k]
           d == WindowDefaults(ApplyModelLimits(cfg[k], lim))
<1>1. /\ stage[k] = "probe" /\ stage' = [stage EXCEPT ![k] = "register"]
      /\ cfg' = [cfg EXCEPT ![k] = d] /\ asked' = asked
  BY DEF Probe, Enter, StartInv, StartTyped
<1>2. PICK direct, endpoint, listed \in Documents \cup {Missing, NoLimits} :
        limits' = [limits EXCEPT ![k] = FetchModelLimits(direct, endpoint, listed)]
  BY DEF Probe
<1>3. \A doc \in Documents \cup {Missing, NoLimits} :
        doc \in Limits /\ inputContext(doc) \notin 1..3
  BY StartupAssumption DEF Missing, NoLimits, Limits, inputContext
<1>4. FetchModelLimits(direct, endpoint, listed) \in Limits
      /\ inputContext(FetchModelLimits(direct, endpoint, listed)) \notin 1..3
  BY <1>3 DEF FetchModelLimits
<1>5. /\ limits' \in [Kernels -> Limits] /\ lim \in Limits
      /\ inputContext(lim) \notin 1..3
      /\ \A j \in Kernels : inputContext(limits'[j]) \notin 1..3
      /\ \A j \in Kernels \ {k} : limits'[j] = limits[j]
  BY <1>2, <1>4 DEF StartInv, StartTyped
<1>6. /\ Host \in Kernels /\ \A j \in Children : j \in Kernels /\ j # Host
      /\ \A j \in Kernels : j # Host => j \in Children
  BY StartupAssumption DEF Kernels
<1>7. /\ SameSizes(cfg[k], from) /\ cfg[k] \in Config /\ cfg[k].context \notin 1..3
      /\ k # Host => /\ stage[Host] \in {"ready", "closed"} /\ Configured(Host)
                     /\ cfg[Host] \in Config
      /\ k = Host => \A j \in Children : stage[j] = "none"
  <2>1. cfg[k] \in Config /\ cfg[Host] \in Config /\ asked.context \notin 1..3
    BY <1>6 DEF StartInv, StartTyped
  <2>2. CASE k = Host
    BY <2>1, <2>2, <1>1, <1>6 DEF StartInv, Configured, SameSizes
  <2>3. CASE k # Host
    <3>1. SameSizes(cfg[k], cfg[Host]) /\ stage[Host] \in {"ready", "closed"}
      BY <2>3, <1>1, <1>6 DEF StartInv
    <3>2. Configured(Host) /\ cfg[Host].context > 3
      BY <3>1, <1>6 DEF StartInv, Configured
    <3>3. QED
      BY <2>1, <2>3, <3>1, <3>2 DEF SameSizes, Config
  <2>4. QED
    BY <2>2, <2>3
<1>8. d \in Config /\ FitFields(cfg[k], lim, d)
  BY <1>5, <1>7, Fitting
<1> HIDE DEF d
<1>9. /\ cfg' \in [Kernels -> Config] /\ stage' \in [Kernels -> Stages]
      /\ cfg'[k] = d /\ stage'[k] = "register"
      /\ \A j \in Kernels \ {k} : cfg'[j] = cfg[j] /\ stage'[j] = stage[j]
  BY <1>1, <1>8 DEF StartInv, StartTyped, Stages
<1>10. StartTyped'
  BY <1>1, <1>5, <1>9 DEF StartInv, StartTyped
<1>11. \A j \in Kernels : Configured(j)' <=> j = k \/ Configured(j)
  BY <1>9 DEF Configured
<1>12. FitFields(from, lim, d) /\ (k # Host => from.context > 3 /\ from.buffer > 0)
  BY <1>6, <1>7, <1>8 DEF FitFields, SameSizes, StartInv
<1>13. LimitsFit'
  <2>1. SUFFICES ASSUME NEW j \in Kernels, Configured(j)'
                 PROVE  LET window == inputContext(limits'[j])
                            before == IF j = Host THEN asked' ELSE cfg'[Host]
                        IN  /\ window > 0 => cfg'[j].context <= window
                            /\ limits'[j].output > 0 =>
                                 cfg'[j].tokens \in 1..limits'[j].output
                            /\ before.context > 0 /\ ~(window > 0 /\ window < before.context)
                                 => cfg'[j].context = before.context
                            /\ before.tokens > 0 => cfg'[j].tokens <= before.tokens
                            /\ before.buffer > 0 => cfg'[j].buffer <= before.buffer
    BY DEF LimitsFit
  <2>2. CASE j = k
    BY <2>2, <1>1, <1>6, <1>9, <1>12 DEF FitFields
  <2>3. CASE j # k
    <3>1. Configured(j) /\ (j = Host \/ k # Host)
      BY <2>1, <2>3, <1>6, <1>7, <1>11 DEF Configured
    <3>2. QED
      BY <2>3, <3>1, <1>1, <1>5, <1>6, <1>9 DEF StartInv, LimitsFit
  <2>4. QED
    BY <2>2, <2>3
<1>14. RoomToCompact'
  <2>1. SUFFICES ASSUME NEW j \in Kernels, Configured(j)'
                 PROVE  \/ cfg'[j].buffer \in 1..(cfg'[j].context - 1)
                        \/ inputContext(limits'[j]) = 0 /\ ~Prudent
                        \/ asked.buffer <= 0 /\ cfg'[j].context <= DefaultBuffer
                             /\ (j = Host \/ inputContext(limits'[j]) = 0)
    BY <1>1 DEF RoomToCompact, Prudent
  <2> DEFINE window == inputContext(lim)
  <2>a. /\ d.context \in Int /\ d.buffer \in Int /\ window \in Nat
        /\ from.context \in Int /\ from.buffer \in Int
        /\ asked.context \in Int /\ asked.buffer \in Int
    BY <1>5, <1>7, <1>8 DEF Config, Limits, inputContext, StartInv, StartTyped
  <2>2. CASE j = k /\ k = Host
    <3>1. from = asked
      BY <2>2
    <3>2. \/ d.buffer \in 1..(d.context - 1)
          \/ window = 0 /\ ~Prudent
          \/ asked.buffer <= 0 /\ d.context <= DefaultBuffer
      BY <2>a, <3>1, <1>12, StartupAssumption DEF FitFields, Prudent
    <3>3. QED
      BY <2>2, <3>2, <1>9
  <2>3. CASE j = k /\ k # Host
    <3>1. from = cfg[Host]
      BY <2>3
    <3>2. CASE window > 0
      BY <2>3, <2>a, <3>2, <1>9, <1>12 DEF FitFields
    <3>3. CASE window = 0
      <4>1. d.buffer = from.buffer /\ d.context = from.context
        BY <2>3, <2>a, <3>3, <1>12 DEF FitFields
      <4>2. \/ from.buffer \in 1..(from.context - 1)
            \/ ~Prudent
            \/ asked.buffer <= 0 /\ from.context <= DefaultBuffer
        BY <2>3, <3>1, <1>6, <1>7 DEF StartInv, RoomToCompact
      <4>3. QED
        BY <2>3, <3>3, <4>1, <4>2, <1>9
    <3>4. QED
      BY <3>2, <3>3, <2>a
  <2>4. CASE j # k
    BY <2>1, <2>4, <1>5, <1>9, <1>11 DEF StartInv, RoomToCompact
  <2>5. QED
    BY <2>2, <2>3, <2>4
<1>15. \A j \in Kernels : Configured(j)' => cfg'[j].context > 3 /\ cfg'[j].buffer > 0
  BY <1>9, <1>11, <1>8 DEF StartInv, FitFields
<1>16. ~Configured(Host)' => SameSizes(cfg'[Host], asked')
  BY <1>1, <1>6, <1>9, <1>11 DEF StartInv
<1>17. \A j \in Children : stage'[j] # "none" => stage'[Host] \in {"ready", "closed"}
  BY <1>6, <1>7, <1>9 DEF StartInv
<1>18. \A j \in Children : stage'[j] = "probe" => SameSizes(cfg'[j], cfg'[Host])
  BY <1>6, <1>7, <1>9 DEF StartInv
<1>19. QED
  BY <1>10, <1>13, <1>14, <1>15, <1>16, <1>17, <1>18 DEF StartInv

\* The defaults of the tags keep the sizes.
LEMMA DefaultsKeepSizes ==
  ASSUME NEW c \in Config
  PROVE  ApplyDefaultDataTypes(c) \in Config /\ SameSizes(ApplyDefaultDataTypes(c), c)
<1> DEFINE repeat == IF c.repeat = 0 THEN 3 ELSE c.repeat
<1>1. repeat \in Int
  BY DEF Config
<1>2. ApplyDefaultDataTypes(c) =
        [c EXCEPT !.repeat = repeat, !.computer = TRUE, !.delegates = TRUE]
  BY DEF ApplyDefaultDataTypes
<1> HIDE DEF repeat
<1>3. QED
  BY <1>1, <1>2 DEF Config, SameSizes

\* Every step keeps the invariant.
LEMMA StartKeeps == StartInv /\ [StartNext]_startVars => StartInv'
<1> SUFFICES ASSUME StartInv, [StartNext]_startVars PROVE StartInv'
  OBVIOUS
<1> USE DEF Enter
<1>1. /\ cfg \in [Kernels -> Config] /\ stage \in [Kernels -> Stages] /\ Host \in Kernels
      /\ \A k \in Kernels : SameSizes(cfg[k], cfg[k])
      /\ \A k \in Children : k \in Kernels /\ k # Host
  BY StartupAssumption DEF StartInv, StartTyped, SameSizes, Kernels
<1>2. CASE NewKernel
  <2>1. stage' = [stage EXCEPT ![Host] = "probe"] /\ stage[Host] = "none"
    BY <1>2 DEF NewKernel
  <2>2. UNCHANGED <<asked, cfg, limits>>
    BY <1>2 DEF NewKernel
  <2>3. \A k \in Kernels : Configured(k)' <=> Configured(k)
    BY <1>1, <2>1 DEF Configured
  <2>4. StartTyped'
    BY <1>1, <2>1, <2>2 DEF StartInv, StartTyped, Stages
  <2>5. LimitsFit' /\ RoomToCompact'
    BY <2>2, <2>3 DEF StartInv, LimitsFit, RoomToCompact, Prudent
  <2>6. QED
    BY <1>1, <2>1, <2>2, <2>3, <2>4, <2>5 DEF StartInv
<1>3. ASSUME NEW k \in Kernels, RunSubagent(k) PROVE StartInv'
  <2> DEFINE d == [cfg[Host] EXCEPT !.delegates = FALSE]
  <2>1. /\ stage' = [stage EXCEPT ![k] = "probe"] /\ stage[k] = "none" /\ k \in Children
        /\ stage[Host] = "ready" /\ UNCHANGED <<asked, limits>>
        /\ cfg' = [cfg EXCEPT ![k] = d]
    BY <1>3 DEF RunSubagent
  <2>2. cfg[Host] \in Config
    BY <1>1
  <2>3. d \in Config /\ SameSizes(d, cfg[Host])
    BY <2>2 DEF Config, SameSizes
  <2> HIDE DEF d
  <2>4. \A j \in Kernels : (Configured(j)' <=> Configured(j)) /\ (j # k => cfg'[j] = cfg[j])
    BY <1>1, <2>1 DEF Configured
  <2>5. ~Configured(k)' /\ k # Host /\ cfg'[k] = d
    BY <1>1, <2>1, <2>4 DEF Configured
  <2>6. StartTyped'
    BY <1>1, <2>1, <2>3 DEF StartInv, StartTyped, Stages
  <2>7. LimitsFit'
    BY <1>1, <2>1, <2>4, <2>5 DEF StartInv, LimitsFit
  <2>8. RoomToCompact'
    BY <1>1, <2>1, <2>4, <2>5 DEF StartInv, RoomToCompact, Prudent
  <2>9. QED
    BY <1>1, <2>1, <2>3, <2>4, <2>5, <2>6, <2>7, <2>8 DEF StartInv
<1>4. ASSUME NEW k \in Kernels, Register(k) PROVE StartInv'
  <2> DEFINE d == ApplyDefaultDataTypes(cfg[k])
  <2>1. /\ stage' = [stage EXCEPT ![k] = "connect"] /\ stage[k] = "register"
        /\ cfg' = [cfg EXCEPT ![k] = d] /\ UNCHANGED <<asked, limits>>
    BY <1>4 DEF Register
  <2>2. cfg[k] \in Config
    BY <1>1
  <2>3. d \in Config /\ SameSizes(d, cfg[k])
    BY <2>2, DefaultsKeepSizes
  <2> HIDE DEF d
  <2>4. cfg' \in [Kernels -> Config] /\ \A j \in Kernels : SameSizes(cfg'[j], cfg[j])
    BY <1>1, <2>1, <2>3 DEF SameSizes
  <2>5. /\ stage' \in [Kernels -> Stages]
        /\ \A j \in Kernels : stage'[j] # stage[j] =>
             {stage[j], stage'[j]} \cap {"none", "probe"} = {}
        /\ stage[Host] \in {"ready", "closed"} => stage'[Host] \in {"ready", "closed"}
    BY <1>1, <2>1 DEF Stages
  <2>6. QED
    BY <2>1, <2>4, <2>5, QuietStep
<1>5. ASSUME NEW k \in Kernels,
             \/ Connect(k) \/ FallBack(k) \/ ConnectFails(k) \/ FinishConnection(k)
             \/ ListFails(k) \/ OpenStore(k) \/ SubagentEnds(k)
      PROVE  StartInv'
  <2>1. PICK to \in {"list", "sse", "failed", "connect", "ready", "dropped"} :
          /\ stage' = [stage EXCEPT ![k] = to]
          /\ stage[k] \in {"connect", "sse", "list", "ready"}
          /\ stage[k] = "ready" => k \in Children
          /\ UNCHANGED <<asked, cfg, limits>>
    BY <1>5 DEF Connect, FallBack, ConnectFails, FinishConnection, ListFails, OpenStore,
                SubagentEnds
  <2>2. stage' \in [Kernels -> Stages]
    BY <1>1, <2>1 DEF Stages
  <2>3. \A j \in Kernels : stage'[j] # stage[j] =>
          {stage[j], stage'[j]} \cap {"none", "probe"} = {}
    BY <1>1, <2>1
  <2>4. stage[Host] \in {"ready", "closed"} => stage'[Host] \in {"ready", "closed"}
    BY <1>1, <2>1
  <2>5. QED
    BY <1>1, <2>1, <2>2, <2>3, <2>4, QuietStep
<1>6. CASE CloseKernel
  <2>1. /\ stage' = [stage EXCEPT ![Host] = "closed"] /\ stage[Host] = "ready"
        /\ UNCHANGED <<asked, cfg, limits>>
    BY <1>6 DEF CloseKernel
  <2>2. QED
    BY <1>1, <2>1, QuietStep DEF Stages
<1>7. CASE UNCHANGED startVars
  BY <1>1, <1>7, QuietStep DEF startVars
<1>8. QED
  BY <1>2, <1>3, <1>4, <1>5, <1>6, <1>7, ProbeStep DEF StartNext

\* The invariant holds from the first NewKernel on.
LEMMA StartInvariant == StartSpec => []StartInv
  BY StartEstablishes, StartKeeps, PTL DEF StartSpec

\* Configured sizes are kept where they fit what the gateway tells, lowered where they
\* do not, and never raised, for the host's kernel (NewKernel, applyModelLimits) and
\* for every subagent that inherits its Config (runSubagent).
THEOREM LimitsAlwaysFit == StartSpec => []LimitsFit
<1>1. StartInv => LimitsFit
  BY DEF StartInv
<1>2. QED
  BY <1>1, StartInvariant, PTL

\* The threshold of overContextThreshold leaves room before a compaction, but for the
\* two Configs that RoomToCompact names.
THEOREM RoomUnlessAskedFor == StartSpec => []RoomToCompact
<1>1. StartInv => RoomToCompact
  BY DEF StartInv
<1>2. QED
  BY <1>1, StartInvariant, PTL

-----------------------------------------------------------------------------
(* The tools.                                                               *)

\* The tools of the i-th server that the host asks for.
Brought(i) == {ToolName(asked.servers[i], tool) : tool \in asked.servers[i].tools}

\* The tools of a kernel before its first server.
Own(k) ==
  asked.tools \cup (IF k # Host \/ asked.computer THEN Core ELSE {})
              \cup (IF k = Host /\ asked.delegates THEN Delegate ELSE {})

\* A kernel has not registered its tools yet.
Early(k) == stage[k] \in {"none", "probe", "register"}

\* Every kernel has the servers and tools the host asks for; the two switches are the
\* host's until its kernel has registered, a subagent starts with its own.
Switches(k) ==
  /\ cfg[k].servers = asked.servers /\ cfg[k].tools = asked.tools
  /\ k = Host /\ Early(k) =>
       cfg[k].computer = asked.computer /\ cfg[k].delegates = asked.delegates
  /\ k # Host /\ stage[k] \in {"probe", "register"} =>
       cfg[k].computer = TRUE /\ cfg[k].delegates = FALSE
  /\ ~Early(k) => cfg[k].computer = TRUE

\* The tools are the kernel's own and those of the servers so far, of which the later
\* one wins.
Toolbox(k) ==
  /\ served[k] \in 0..Len(asked.servers)
  /\ Early(k) => served[k] = 0
  /\ ~Early(k) =>
       DOMAIN registry[k] = Own(k) \cup UNION {Brought(i) : i \in 1..served[k]}
  /\ \A i \in 1..served[k] : \A name \in Brought(i) : \E j \in i..served[k] :
       name \in Brought(j) /\ registry[k][name] = asked.servers[j].id

\* The connections of the servers so far are open, and that of the next while its tools
\* are listed.
Connections(k) ==
  /\ stage[k] \in {"connect", "sse", "list", "ready"} =>
       \A i \in 1..served[k] : <<k, asked.servers[i].id>> \in open
  /\ stage[k] \in {"sse", "list"} => served[k] < Len(asked.servers)
  /\ stage[k] = "list" => <<k, asked.servers[served[k] + 1].id>> \in open
  /\ stage[k] = "ready" => served[k] = Len(asked.servers)

ToolsRight ==
  /\ registry = [k \in Kernels |-> registry[k]] /\ served = [k \in Kernels |-> served[k]]
  /\ \A k \in Kernels : Switches(k) /\ Toolbox(k) /\ Connections(k)
  /\ stage[Host] = "closed" => \A c \in open : c[1] # Host

\* Fitting a Config changes none of its tools, and the defaults of the tags switch the
\* core tools and delegation on.
LEMMA FittingKeepsTools ==
  ASSUME NEW c \in Config, NEW lim
  PROVE  LET d == WindowDefaults(ApplyModelLimits(c, lim))
             e == ApplyDefaultDataTypes(c)
         IN  /\ d.servers = c.servers /\ d.tools = c.tools
             /\ d.computer = c.computer /\ d.delegates = c.delegates
             /\ e.servers = c.servers /\ e.tools = c.tools /\ e.computer = TRUE
<1> DEFINE context == Lower(c.context, inputContext(lim))
           tokens == Lower(c.tokens, lim.output)
           buffer == IF inputContext(lim) > 0 /\ c.buffer >= context THEN context \div 4
                     ELSE c.buffer
           repeat == IF c.repeat = 0 THEN 3 ELSE c.repeat
<1>1. ApplyModelLimits(c, lim) =
        [c EXCEPT !.context = context, !.tokens = tokens, !.buffer = buffer]
  BY DEF ApplyModelLimits
<1>2. ApplyDefaultDataTypes(c) =
        [c EXCEPT !.repeat = repeat, !.computer = TRUE, !.delegates = TRUE]
  BY DEF ApplyDefaultDataTypes
<1> HIDE DEF context, tokens, buffer, repeat
<1>3. QED
  BY <1>1, <1>2 DEF WindowDefaults, Config

\* What a kernel has before its first server is what OwnTools registers.
LEMMA OwnNames ==
  ASSUME NEW c
  PROVE  DOMAIN OwnTools(c) = c.tools \cup (IF c.computer THEN Core ELSE {})
                                      \cup (IF c.delegates THEN Delegate ELSE {})
<1>1. DOMAIN NoTools = {}
  BY DEF NoTools
<1> DEFINE core == IF c.computer THEN With(NoTools, Core, "kernel") ELSE NoTools
           both == IF c.delegates THEN With(core, Delegate, "kernel") ELSE core
<1>2. DOMAIN core = IF c.computer THEN Core ELSE {}
  BY <1>1 DEF With
<1> HIDE DEF core
<1>3. DOMAIN both = DOMAIN core \cup (IF c.delegates THEN Delegate ELSE {})
  BY DEF With
<1> HIDE DEF both
<1>4. DOMAIN With(both, c.tools, "host") = DOMAIN both \cup c.tools
  BY DEF With
<1>5. OwnTools(c) = With(both, c.tools, "host")
  BY DEF OwnTools, core, both
<1>6. QED
  BY <1>2, <1>3, <1>4, <1>5

\* Before NewKernel there are no tools and no connections.
LEMMA ToolsInit == StartInit => ToolsRight
<1> SUFFICES ASSUME StartInit PROVE ToolsRight
  OBVIOUS
<1>1. asked \in Config /\ asked.servers \in Seq([id : STRING, name : STRING,
                                                 tools : SUBSET STRING])
  BY AskedIsConfig DEF Config
<1>2. /\ registry = [k \in Kernels |-> registry[k]]
      /\ served = [k \in Kernels |-> served[k]]
  BY DEF StartInit
<1>3. \A k \in Kernels : stage[k] = "none" /\ cfg[k] = asked /\ served[k] = 0
  BY DEF StartInit
<1>4. \A k \in Kernels : Switches(k) /\ Toolbox(k) /\ Connections(k)
  BY <1>1, <1>3 DEF Switches, Toolbox, Connections, Early
<1>5. Host \in Kernels
  BY DEF Kernels
<1>6. QED
  BY <1>2, <1>3, <1>4, <1>5 DEF ToolsRight

\* A step of one kernel is nothing to the others as long as it keeps their connections.
LEMMA OthersKeep ==
  ASSUME ToolsRight, NEW k \in Kernels, asked' = asked,
         \A j \in Kernels \ {k} :
           /\ cfg'[j] = cfg[j] /\ registry'[j] = registry[j]
           /\ served'[j] = served[j] /\ stage'[j] = stage[j]
           /\ \A id : <<j, id>> \in open => <<j, id>> \in open'
  PROVE  \A j \in Kernels \ {k} : (Switches(j) /\ Toolbox(j) /\ Connections(j))'
<1> SUFFICES ASSUME NEW j \in Kernels \ {k}
             PROVE  (Switches(j) /\ Toolbox(j) /\ Connections(j))'
  OBVIOUS
<1>1. Switches(j) /\ Toolbox(j) /\ Connections(j)
  BY DEF ToolsRight
<1>2. (Early(j)' <=> Early(j)) /\ Own(j)' = Own(j) /\ \A i : Brought(i)' = Brought(i)
  BY DEF Early, Own, Brought
<1>3. Switches(j)'
  BY <1>1, <1>2 DEF Switches
<1>4. Toolbox(j)'
  BY <1>1, <1>2 DEF Toolbox
<1>5. Connections(j)'
  BY <1>1 DEF Connections
<1>6. QED
  BY <1>3, <1>4, <1>5

\* The step to a new kernel of its own: no tools yet.
LEMMA BeginStep ==
  ASSUME StartInv, ToolsRight, NEW k \in Kernels,
         \/ k = Host /\ NewKernel
         \/ RunSubagent(k)
         \/ Probe(k)
  PROVE  ToolsRight'
<1>1. /\ cfg \in [Kernels -> Config] /\ stage \in [Kernels -> Stages] /\ Host \in Kernels
      /\ \A j \in Children : j # Host
      /\ Switches(k) /\ Toolbox(k) /\ Connections(k) /\ Switches(Host)
  BY StartupAssumption DEF StartInv, StartTyped, Kernels, ToolsRight
<1>2. /\ UNCHANGED <<asked, registry, open, served>>
      /\ stage[k] \in {"none", "probe"} /\ stage'[k] \in {"probe", "register"}
      /\ \A j \in Kernels \ {k} : cfg'[j] = cfg[j] /\ stage'[j] = stage[j]
  BY <1>1 DEF NewKernel, RunSubagent, Probe, Enter
<1>3. Switches(k)'
  <2>1. CASE k = Host /\ NewKernel
    BY <1>1, <1>2, <2>1 DEF NewKernel, Switches, Early
  <2>2. CASE RunSubagent(k)
    <3>1. cfg[Host] \in Config
      BY <1>1
    <3>2. /\ stage[Host] = "ready" /\ k # Host
          /\ cfg'[k] = [cfg[Host] EXCEPT !.delegates = FALSE]
      BY <1>1, <2>2 DEF RunSubagent
    <3>3. /\ cfg'[k].servers = cfg[Host].servers /\ cfg'[k].tools = cfg[Host].tools
          /\ cfg'[k].computer = cfg[Host].computer /\ cfg'[k].delegates = FALSE
      BY <3>1, <3>2 DEF Config
    <3>4. /\ cfg[Host].servers = asked.servers /\ cfg[Host].tools = asked.tools
          /\ cfg[Host].computer = TRUE
      BY <1>1, <3>2 DEF Switches, Early
    <3>5. QED
      BY <1>2, <3>2, <3>3, <3>4 DEF Switches, Early
  <2>3. CASE Probe(k)
    <3>1. PICK c \in Config : c = cfg[k]
      BY <1>1
    <3>2. PICK lim : cfg'[k] = WindowDefaults(ApplyModelLimits(c, lim))
      BY <1>1, <2>3, <3>1 DEF Probe
    <3>3. PICK d : d = WindowDefaults(ApplyModelLimits(c, lim))
      OBVIOUS
    <3>4. /\ d.servers = c.servers /\ d.tools = c.tools
          /\ d.computer = c.computer /\ d.delegates = c.delegates
      BY <3>3, FittingKeepsTools
    <3>5. /\ cfg'[k].servers = cfg[k].servers /\ cfg'[k].tools = cfg[k].tools
          /\ cfg'[k].computer = cfg[k].computer /\ cfg'[k].delegates = cfg[k].delegates
      BY <3>1, <3>2, <3>3, <3>4
    <3>6. stage[k] = "probe"
      BY <2>3 DEF Probe, Enter
    <3>7. QED
      BY <1>1, <1>2, <3>5, <3>6 DEF Switches, Early
  <2>4. QED
    BY <2>1, <2>2, <2>3
<1>4. Toolbox(k)' /\ Connections(k)'
  BY <1>1, <1>2 DEF Toolbox, Connections, Early, Brought
<1>5. \A j \in Kernels \ {k} : (Switches(j) /\ Toolbox(j) /\ Connections(j))'
  BY <1>2, OthersKeep
<1>6. stage'[Host] = "closed" => stage[Host] = "closed"
  BY <1>1, <1>2
<1>7. QED
  BY <1>2, <1>3, <1>4, <1>5, <1>6 DEF ToolsRight

\* Register reads the two switches before the defaults of the tags set them.
LEMMA RegisterStep ==
  ASSUME StartInv, ToolsRight, NEW k \in Kernels, Register(k)
  PROVE  ToolsRight'
<1>1. /\ cfg \in [Kernels -> Config] /\ stage \in [Kernels -> Stages] /\ Host \in Kernels
      /\ Switches(k) /\ Toolbox(k) /\ Connections(k)
      /\ registry = [j \in Kernels |-> registry[j]]
  BY DEF StartInv, StartTyped, Kernels, ToolsRight
<1>2. /\ UNCHANGED <<asked, open, served>>
      /\ stage[k] = "register" /\ stage' = [stage EXCEPT ![k] = "connect"]
      /\ cfg' = [cfg EXCEPT ![k] = ApplyDefaultDataTypes(cfg[k])]
      /\ registry' = [registry EXCEPT ![k] = OwnTools(cfg[k])]
  BY DEF Register, Enter
<1>3. /\ stage'[k] = "connect" /\ cfg'[k] = ApplyDefaultDataTypes(cfg[k])
      /\ registry'[k] = OwnTools(cfg[k])
      /\ registry' = [j \in Kernels |-> registry'[j]]
      /\ \A j \in Kernels \ {k} :
           cfg'[j] = cfg[j] /\ stage'[j] = stage[j] /\ registry'[j] = registry[j]
  BY <1>1, <1>2
<1>4. /\ cfg'[k].servers = asked.servers /\ cfg'[k].tools = asked.tools
      /\ cfg'[k].computer = TRUE
  <2>1. cfg[k] \in Config
    BY <1>1
  <2>2. QED
    BY <1>1, <1>3, <2>1, FittingKeepsTools DEF Switches
<1>5. Switches(k)'
  BY <1>2, <1>3, <1>4 DEF Switches, Early
<1>6. served[k] = 0 /\ served'[k] = 0
  BY <1>1, <1>2 DEF Toolbox, Early
<1>7. DOMAIN registry'[k] = Own(k)
  <2>1. /\ cfg[k].tools = asked.tools
        /\ cfg[k].computer = (k # Host \/ asked.computer)
        /\ cfg[k].delegates = (k = Host /\ asked.delegates)
    <3>1. asked.computer \in BOOLEAN /\ asked.delegates \in BOOLEAN
      BY DEF StartInv, StartTyped, Config
    <3>2. QED
      BY <1>1, <1>2, <3>1 DEF Switches, Early
  <2>2. QED
    BY <1>3, <2>1, OwnNames DEF Own
<1>8. Toolbox(k)'
  BY <1>1, <1>2, <1>3, <1>6, <1>7 DEF Toolbox, Early, Own
<1>9. Connections(k)'
  BY <1>3, <1>6 DEF Connections
<1>10. \A j \in Kernels \ {k} : (Switches(j) /\ Toolbox(j) /\ Connections(j))'
  BY <1>2, <1>3, OthersKeep
<1>11. stage'[Host] = "closed" => stage[Host] = "closed"
  BY <1>1, <1>2
<1>12. QED
  BY <1>2, <1>3, <1>5, <1>8, <1>9, <1>10, <1>11 DEF ToolsRight

\* A server is connected, or its tools are listed.
LEMMA ServerStep ==
  ASSUME StartInv, ToolsRight, NEW k \in Kernels, Connect(k) \/ FinishConnection(k)
  PROVE  ToolsRight'
<1> DEFINE n == served[k] + 1
<1>1. /\ stage \in [Kernels -> Stages] /\ Host \in Kernels
      /\ Switches(k) /\ Toolbox(k) /\ Connections(k)
      /\ registry = [j \in Kernels |-> registry[j]]
      /\ served = [j \in Kernels |-> served[j]]
      /\ Len(asked.servers) \in Nat
  <2>1. asked \in Config
    BY DEF StartInv, StartTyped
  <2>2. Len(asked.servers) \in Nat
    BY <2>1 DEF Config
  <2>3. QED
    BY <2>2 DEF StartInv, StartTyped, Kernels, ToolsRight
<1>2. cfg[k].servers = asked.servers /\ Server(k) = asked.servers[n] /\ served[k] \in Nat
  BY <1>1 DEF Switches, Server, Toolbox
<1>3. CASE Connect(k)
  <2>1. /\ UNCHANGED <<asked, cfg, registry, served>>
        /\ stage[k] \in {"connect", "sse"} /\ stage' = [stage EXCEPT ![k] = "list"]
        /\ open' = open \cup {<<k, asked.servers[n].id>>}
        /\ served[k] < Len(asked.servers)
    BY <1>2, <1>3 DEF Connect, Enter, Connecting
  <2>2. Early(k)' <=> Early(k)
    BY <1>1, <2>1 DEF Early
  <2>3. Switches(k)' /\ Toolbox(k)'
    <3>1. stage'[k] = "list"
      BY <1>1, <2>1
    <3>2. QED
      BY <1>1, <2>1, <2>2, <3>1 DEF Switches, Toolbox, Brought, Own
  <2>4. Connections(k)'
    BY <1>1, <2>1 DEF Connections
  <2>5. \A j \in Kernels \ {k} : (Switches(j) /\ Toolbox(j) /\ Connections(j))'
    BY <1>1, <2>1, OthersKeep
  <2>6. stage'[Host] = "closed" => \A c \in open' : c[1] # Host
    BY <1>1, <2>1 DEF ToolsRight
  <2>7. QED
    BY <1>1, <2>1, <2>3, <2>4, <2>5, <2>6 DEF ToolsRight
<1>4. CASE FinishConnection(k)
  <2>1. /\ UNCHANGED <<asked, cfg, open>>
        /\ stage[k] = "list" /\ stage' = [stage EXCEPT ![k] = "connect"]
        /\ registry' = [registry EXCEPT ![k] =
                          With(registry[k], Brought(n), asked.servers[n].id)]
        /\ served' = [served EXCEPT ![k] = n]
    BY <1>2, <1>4 DEF FinishConnection, Enter, Brought
  <2>2. n \in 1..Len(asked.servers) /\ ~Early(k)
    BY <1>1, <1>2, <2>1 DEF Connections, Early
  <2>3. /\ stage'[k] = "connect" /\ served'[k] = n
        /\ registry'[k] = With(registry[k], Brought(n), asked.servers[n].id)
        /\ registry' = [j \in Kernels |-> registry'[j]]
        /\ served' = [j \in Kernels |-> served'[j]]
        /\ \A j \in Kernels \ {k} :
             registry'[j] = registry[j] /\ served'[j] = served[j] /\ stage'[j] = stage[j]
    BY <1>1, <2>1
  <2>4. Own(k)' = Own(k) /\ (\A i : Brought(i)' = Brought(i)) /\ ~Early(k)'
    BY <2>1, <2>3 DEF Own, Brought, Early
  <2>5. DOMAIN registry[k] = Own(k) \cup UNION {Brought(i) : i \in 1..served[k]}
    BY <1>1, <2>2 DEF Toolbox
  <2>6. DOMAIN registry'[k] = Own(k) \cup UNION {Brought(i) : i \in 1..n}
    <3>1. DOMAIN registry'[k] = DOMAIN registry[k] \cup Brought(n)
      BY <2>3 DEF With
    <3>2. 1..n = 1..served[k] \cup {n}
      BY <1>2
    <3>3. QED
      BY <2>5, <3>1, <3>2
  <2>7. ASSUME NEW i \in 1..n, NEW name \in Brought(i)
        PROVE  \E j \in i..n : name \in Brought(j)
                 /\ registry'[k][name] = asked.servers[j].id
    <3>1. CASE name \in Brought(n)
      <4>1. registry'[k][name] = asked.servers[n].id
        BY <2>3, <3>1 DEF With
      <4>2. n \in i..n
        BY <1>2
      <4>3. QED
        BY <3>1, <4>1, <4>2
    <3>2. CASE name \notin Brought(n)
      <4>1. i \in 1..served[k]
        BY <1>2, <2>7, <3>2
      <4>2. PICK j \in i..served[k] :
              name \in Brought(j) /\ registry[k][name] = asked.servers[j].id
        BY <1>1, <4>1 DEF Toolbox
      <4>3. registry'[k][name] = registry[k][name]
        <5>1. name \in DOMAIN registry[k] \ Brought(n)
          BY <2>5, <2>7, <3>2, <4>1
        <5>2. QED
          BY <2>3, <5>1 DEF With
      <4>4. j \in i..n
        BY <1>2
      <4>5. QED
        BY <4>2, <4>3, <4>4
    <3>3. QED
      BY <3>1, <3>2
  <2>8. Toolbox(k)'
    <3>1. n \in 0..Len(asked'.servers) /\ served'[k] = n
      BY <1>1, <1>2, <2>1, <2>2, <2>3
    <3> HIDE DEF n
    <3>2. \A i \in 1..n : \A name \in Brought(i)' : \E j \in i..n :
            name \in Brought(j)' /\ registry'[k][name] = asked'.servers[j].id
      BY <2>1, <2>4, <2>7
    <3>3. DOMAIN registry'[k] = Own(k)' \cup UNION {Brought(i)' : i \in 1..n}
      BY <2>4, <2>6
    <3>4. QED
      BY <2>4, <3>1, <3>2, <3>3 DEF Toolbox
  <2>9. Connections(k)'
    <3>1. ASSUME NEW i \in 1..n PROVE <<k, asked.servers[i].id>> \in open
      <4>1. i \in 1..served[k] \/ i = n
        BY <1>2
      <4>2. QED
        BY <1>1, <2>1, <4>1 DEF Connections
    <3>2. QED
      BY <2>1, <2>3, <3>1 DEF Connections
  <2>10. Switches(k)'
    BY <1>1, <2>1, <2>2, <2>4, <2>3 DEF Switches, Early
  <2>11. \A j \in Kernels \ {k} : (Switches(j) /\ Toolbox(j) /\ Connections(j))'
    BY <2>1, <2>3, OthersKeep
  <2>12. stage'[Host] = "closed" => stage[Host] = "closed"
    BY <1>1, <2>1
  <2>13. QED
    BY <2>1, <2>3, <2>8, <2>9, <2>10, <2>11, <2>12 DEF ToolsRight
<1>5. QED
  BY <1>3, <1>4

\* NewKernel returns, with an error or a kernel, and the kernel ends: what connections
\* are closed are its own.
LEMMA EndStep ==
  ASSUME StartInv, ToolsRight, NEW k \in Kernels,
         \/ FallBack(k) \/ ConnectFails(k) \/ ListFails(k) \/ OpenStore(k)
         \/ SubagentEnds(k) \/ (k = Host /\ CloseKernel)
  PROVE  ToolsRight'
<1>1. /\ stage \in [Kernels -> Stages] /\ Host \in Kernels
      /\ \A j \in Children : j # Host
      /\ Switches(k) /\ Toolbox(k) /\ Connections(k) /\ Len(asked.servers) \in Nat
  BY StartupAssumption, SMTT(30) DEF StartInv, StartTyped, Kernels, ToolsRight, Config
<1>2. Connecting(k) <=> served[k] < Len(asked.servers)
  BY <1>1 DEF Connecting, Switches
<1>3. PICK to \in {"sse", "failed", "ready", "dropped", "closed"} :
        /\ UNCHANGED <<asked, cfg, registry, served>>
        /\ stage[k] \in {"connect", "sse", "list", "ready"}
        /\ stage' = [stage EXCEPT ![k] = to]
        /\ to = "sse" => stage[k] = "connect" /\ Connecting(k) /\ open' = open
        /\ to = "ready" => stage[k] = "connect" /\ ~Connecting(k) /\ open' = open
        /\ to = "closed" => open' = {c \in open : c[1] # Host}
        /\ to = "closed" => k = Host
        /\ to \in {"failed", "dropped"} => open' \in {open, open \ {<<k, Server(k).id>>}}
  BY <1>1
  DEF FallBack, ConnectFails, ListFails, OpenStore, SubagentEnds, CloseKernel, Enter
<1>4. /\ stage'[k] = to /\ \A j \in Kernels \ {k} : stage'[j] = stage[j]
      /\ ~Early(k) /\ ~Early(k)'
  BY <1>1, <1>3 DEF Early
<1>5. Switches(k)' /\ Toolbox(k)'
  <2>1. Own(k)' = Own(k) /\ \A i : Brought(i)' = Brought(i)
    BY <1>3 DEF Own, Brought
  <2>2. Switches(k)'
    BY <1>1, <1>3, <1>4 DEF Switches, Early
  <2>3. Toolbox(k)'
    BY <1>1, <1>3, <1>4, <2>1 DEF Toolbox
  <2>4. QED
    BY <2>2, <2>3
<1>6. Connections(k)'
  <2>1. CASE to \in {"failed", "dropped", "closed"}
    BY <1>4, <2>1 DEF Connections
  <2>2. CASE to = "sse"
    BY <1>1, <1>2, <1>3, <1>4, <2>2 DEF Connections
  <2>3. CASE to = "ready"
    <3>1. served[k] = Len(asked.servers)
      BY <1>1, <1>2, <1>3, <2>3 DEF Toolbox
    <3>2. QED
      BY <1>1, <1>3, <1>4, <2>3, <3>1 DEF Connections
  <2>4. QED
    BY <2>1, <2>2, <2>3
<1>7. \A j \in Kernels \ {k} : \A id : <<j, id>> \in open => <<j, id>> \in open'
  <2>1. SUFFICES ASSUME NEW j \in Kernels \ {k}, NEW id, <<j, id>> \in open
                 PROVE  <<j, id>> \in open'
    OBVIOUS
  <2>2. <<j, id>>[1] = j /\ j # k
    OBVIOUS
  <2>3. <<j, id>> # <<k, Server(k).id>>
    BY <2>2
  <2>4. QED
    BY <1>3, <2>1, <2>2, <2>3
<1>8. \A j \in Kernels \ {k} : (Switches(j) /\ Toolbox(j) /\ Connections(j))'
  BY <1>3, <1>4, <1>7, OthersKeep
<1>9. stage'[Host] = "closed" => \A c \in open' : c[1] # Host
  BY <1>1, <1>3, <1>4 DEF ToolsRight
<1>10. QED
  BY <1>3, <1>5, <1>6, <1>8, <1>9 DEF ToolsRight

\* Every step keeps the tools right.
LEMMA StepKeepsTools == StartInv /\ ToolsRight /\ [StartNext]_startVars => ToolsRight'
<1> SUFFICES ASSUME StartInv, ToolsRight, [StartNext]_startVars PROVE ToolsRight'
  OBVIOUS
<1>1. Host \in Kernels
  BY DEF Kernels
<1>2. CASE UNCHANGED startVars
  BY <1>2 DEF startVars, ToolsRight, Switches, Toolbox, Connections, Early, Own, Brought
<1>3. CASE NewKernel \/ CloseKernel
  BY <1>1, <1>3, BeginStep, EndStep
<1>4. ASSUME NEW k \in Kernels,
             \/ RunSubagent(k) \/ Probe(k) \/ Register(k) \/ Connect(k) \/ FallBack(k)
             \/ ConnectFails(k) \/ FinishConnection(k) \/ ListFails(k) \/ OpenStore(k)
             \/ SubagentEnds(k)
      PROVE  ToolsRight'
  BY <1>4, BeginStep, RegisterStep, ServerStep, EndStep
<1>5. QED
  BY <1>2, <1>3, <1>4 DEF StartNext

\* The tools of a kernel (NewKernel, runSubagent and connectMCP): a subagent does not
\* delegate although its inherited Config says so, the core tools are the host's choice
\* for its own kernel only, every tool of every server is there and its connection open,
\* and after Close none of the host's connections is; for any servers, tools and number
\* of subagents, and whichever connections fail.
THEOREM ToolboxIsRight == StartSpec => []ToolboxRight
<1>1. StartInv /\ ToolsRight => ToolboxRight
  <2> SUFFICES ASSUME StartInv, ToolsRight PROVE ToolboxRight
    OBVIOUS
  <2>1. ASSUME NEW k \in Kernels, stage[k] = "ready"
        PROVE  LET servers == cfg[k].servers
                   names(i) == {ToolName(servers[i], tool) : tool \in servers[i].tools}
                   taken == asked.tools \cup UNION {names(i) : i \in DOMAIN servers}
               IN  /\ \A name \in Delegate \ taken :
                        name \in DOMAIN registry[k] <=> k = Host /\ asked.delegates
                   /\ \A name \in Core \ taken :
                        name \in DOMAIN registry[k] <=> k # Host \/ asked.computer
                   /\ \A i \in DOMAIN servers :
                        /\ <<k, servers[i].id>> \in open
                        /\ \A name \in names(i) : \E j \in i..Len(servers) :
                             name \in names(j) /\ registry[k][name] = servers[j].id
    <3> DEFINE all == 1..Len(asked.servers)
               taken == asked.tools \cup UNION {Brought(i) : i \in all}
    <3>1. /\ cfg[k].servers = asked.servers /\ DOMAIN asked.servers = all
          /\ served[k] = Len(asked.servers) /\ ~Early(k)
      <4>1. asked \in Config
        BY DEF StartInv, StartTyped
      <4>2. DOMAIN asked.servers = all
        BY <4>1 DEF Config
      <4>3. QED
        BY <2>1, <4>2 DEF ToolsRight, Switches, Connections, Early
    <3>2. Toolbox(k) /\ Connections(k)
      BY DEF ToolsRight
    <3>3. DOMAIN registry[k] = Own(k) \cup UNION {Brought(i) : i \in all}
      BY <3>1, <3>2 DEF Toolbox
    <3>4. Core \cap Delegate = {}
      BY DEF Core, Delegate
    <3>5. /\ \A name \in Delegate \ taken :
               name \in DOMAIN registry[k] <=> k = Host /\ asked.delegates
          /\ \A name \in Core \ taken :
               name \in DOMAIN registry[k] <=> k # Host \/ asked.computer
      <4> HIDE DEF all
      <4>1. QED
        BY <3>3, <3>4 DEF Own
    <3>6. \A i \in all :
            /\ <<k, asked.servers[i].id>> \in open
            /\ \A name \in Brought(i) : \E j \in i..Len(asked.servers) :
                 name \in Brought(j) /\ registry[k][name] = asked.servers[j].id
      BY <2>1, <3>1, <3>2 DEF Toolbox, Connections
    <3> HIDE DEF all
    <3>7. QED
      BY <3>1, <3>5, <3>6 DEF Brought
  <2>2. QED
    BY <2>1 DEF ToolboxRight, ToolsRight
<1>2. QED
  BY StartInvariant, ToolsInit, StepKeepsTools, <1>1, PTL DEF StartSpec
=============================================================================
