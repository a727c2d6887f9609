------------------------------ MODULE StepLoop ------------------------------
(***************************************************************************)
(* streamViaStep (steploop.go): the tool loop of one Kernel, chat after    *)
(* chat.  Each chat is one Stream call; the loop asks the model for one    *)
(* llm-step, executes the tool calls of the answer, nudges, guards, bills  *)
(* and compacts, until it returns.                                         *)
(*                                                                         *)
(* The model's answer is any member of Answer: the tool calls it makes,    *)
(* seen only as far as the loop looks at them (an edit, a validation run,  *)
(* anything else), and what they return, seen only through the signature   *)
(* the repeat guard compares.                                              *)
(***************************************************************************)
EXTENDS Integers, Sequences

CONSTANTS
  Chats,            \* bound: how many Stream calls the host makes
  MaxIter,          \* Config.MaxIter
  MaxRepeatCalls,   \* Config.MaxRepeatCalls; 0 and 1 disable the guard
  InspectionLimit,  \* 8 in the code
  ValidationLimit,  \* 2 in the code
  TurnMax,          \* values the host passes to WithMaxTurnSpendUSD; 0 disables
  Prices,           \* what an llm-step, or a tool call that spends, may cost
  MayCompact,       \* may context pressure arise?
  MayQueue,         \* may a message be waiting at a turn boundary?
  Results           \* what a batch of tool calls may return

ASSUME LoopAssumption ==
  /\ Chats \in Nat /\ MaxIter \in Nat \ {0} /\ MaxRepeatCalls \in Nat
  /\ InspectionLimit \in Nat \ {0} /\ ValidationLimit \in Nat \ {0}
  /\ TurnMax \subseteq Nat /\ Prices \subseteq Nat /\ Prices # {}
  /\ MayCompact \in BOOLEAN /\ MayQueue \in BOOLEAN

ToolKinds == {"edit", "test", "read"}

\* An answer without calls is final; the signature of a batch covers the
\* calls and their results.
Answer == [calls : SUBSET ToolKinds, result : Results]

VARIABLES
  pc,          \* where the loop is
  answer,      \* the answer whose tools are being executed, if any
  history,     \* the roles of Kernel.History; "calls" is an assistant message
               \* that makes tool calls
  events,      \* the turn events of this chat, in order
  outcome,     \* how the last chat ended
  chat,        \* number of this chat
  turnMaxUSD,  \* the limit of this chat
  spent,       \* what this chat has cost so far
  turns,       \* local `turns`: llm-steps of this chat's loop
  recentSigs,  \* rolling window of the repeat guard
  inspectionTurns, inspectionGuardSent,
  workspaceMutated, validationSinceMutation,
  validationTurns, validationGuardSent, completionGuardSent,
  dirty,       \* files changed and no validation ran after that, in the order
               \* the tools really ran
  lastBatch,   \* the signature of the last tool turn
  streak,      \* consecutive tool turns with that signature
  cut          \* positions in history of tool calls cut off by a limit

guardVars == <<inspectionTurns, inspectionGuardSent, workspaceMutated,
               validationSinceMutation, validationTurns, validationGuardSent,
               completionGuardSent>>
truth == <<dirty, lastBatch, streak, cut>>
vars == <<pc, answer, history, events, outcome, chat, turnMaxUSD, spent, turns,
          recentSigs, guardVars, truth>>

NoAnswer == [calls |-> {}, result |-> "none"]

Init ==
  /\ pc = "idle" /\ answer = NoAnswer /\ history = <<>> /\ events = <<>>
  /\ outcome = "none" /\ chat = 0 /\ spent = 0 /\ turns = 0 /\ recentSigs = <<>>
  /\ inspectionTurns = 0 /\ inspectionGuardSent = FALSE
  /\ workspaceMutated = FALSE /\ validationSinceMutation = FALSE
  /\ validationTurns = 0 /\ validationGuardSent = FALSE
  /\ completionGuardSent = FALSE
  /\ dirty = FALSE /\ lastBatch = NoAnswer /\ streak = 0
  /\ turnMaxUSD = 0 /\ cut = {}

-----------------------------------------------------------------------------
Reached(cost) == turnMaxUSD > 0 /\ cost >= turnMaxUSD

Summary == <<"user", "assistant">>

Goto(from, to) == pc = from /\ pc' = to

Return(how) == pc' = "idle" /\ outcome' = how

\* Stream up to the loop: compaction if the context is too full, then the
\* prompt; streamViaStep's locals start afresh.
Prompt ==
  /\ Goto("idle", "check")
  /\ chat < Chats
  /\ chat' = chat + 1
  /\ \E compact \in IF MayCompact /\ history # <<>> THEN BOOLEAN ELSE {FALSE},
        cost \in Prices :
       /\ history' = Append(IF compact THEN Summary ELSE history, "user")
       /\ spent' = IF compact THEN cost ELSE 0
       /\ cut' = IF compact THEN {} ELSE cut
  /\ turnMaxUSD' \in TurnMax
  /\ events' = <<>> /\ outcome' = "none" /\ turns' = 0 /\ recentSigs' = <<>>
  /\ inspectionTurns' = 0 /\ inspectionGuardSent' = FALSE
  /\ workspaceMutated' = FALSE /\ validationSinceMutation' = FALSE
  /\ validationTurns' = 0 /\ validationGuardSent' = FALSE
  /\ completionGuardSent' = FALSE
  /\ dirty' = FALSE /\ lastBatch' = NoAnswer /\ streak' = 0
  /\ UNCHANGED answer

\* The top of the loop: cancelled, out of money, or one more llm-step.
Cancelled ==
  /\ pc = "check"
  /\ Return("error")
  /\ UNCHANGED <<answer, history, events, chat, turnMaxUSD, spent, turns,
                 recentSigs, guardVars, truth>>

OutOfMoney ==
  /\ pc = "check"
  /\ Reached(spent)
  /\ Return("spend")
  /\ UNCHANGED <<answer, history, events, chat, turnMaxUSD, spent, turns,
                 recentSigs, guardVars, truth>>

StartTurn ==
  /\ Goto("check", "step")
  /\ ~Reached(spent)
  /\ events' = Append(events, "started")
  /\ UNCHANGED <<answer, history, outcome, chat, turnMaxUSD, spent, turns,
                 recentSigs, guardVars, truth>>

StepFails ==
  /\ pc = "step"
  /\ Return("error")
  /\ events' = Append(events, "failed")
  /\ UNCHANGED <<answer, history, chat, turnMaxUSD, spent, turns, recentSigs,
                 guardVars, truth>>

-----------------------------------------------------------------------------
(* An answer arrives: it is appended and billed before anything else.       *)

Record(a, cost) ==
  /\ pc = "step"
  /\ turns' = turns + 1
  /\ spent' = spent + cost

AnswerRole(a) == IF a.calls = {} THEN "assistant" ELSE "calls"

\* The response that crosses the limit ends the chat, its tools unexecuted.
CrossesLimit(a, cost) ==
  /\ Record(a, cost)
  /\ Reached(spent')
  /\ history' = Append(history, AnswerRole(a))
  /\ events' = Append(events, "completed")
  /\ Return("spend")
  /\ cut' = IF a.calls = {} THEN cut ELSE cut \cup {Len(history')}
  /\ UNCHANGED <<answer, chat, turnMaxUSD, recentSigs, guardVars, dirty,
                 lastBatch, streak>>

\* A final answer while files are changed and unvalidated is sent back once.
CompletionGuard(a, cost) ==
  /\ Record(a, cost)
  /\ ~Reached(spent')
  /\ a.calls = {}
  /\ workspaceMutated /\ ~validationSinceMutation /\ ~completionGuardSent
  /\ history' = history \o <<"assistant", "user">>
  /\ events' = Append(events, "completed")
  /\ completionGuardSent' = TRUE
  /\ pc' = "check"
  /\ UNCHANGED <<answer, outcome, chat, turnMaxUSD, recentSigs,
                 inspectionTurns, inspectionGuardSent, workspaceMutated,
                 validationSinceMutation, validationTurns, validationGuardSent,
                 truth>>

\* Mutant of FinalAnswer: the turn is reported complete before the text is
\* written, and failed when that fails.
FinalAnswerEarly(a, cost) ==
  /\ Record(a, cost)
  /\ ~Reached(spent')
  /\ a.calls = {}
  /\ ~(workspaceMutated /\ ~validationSinceMutation /\ ~completionGuardSent)
  /\ history' = Append(history, "assistant")
  /\ \/ events' = Append(events, "completed") /\ Return("answer")
     \/ events' = events \o <<"completed", "failed">> /\ Return("error")
  /\ UNCHANGED <<answer, chat, turnMaxUSD, recentSigs, guardVars, truth>>

\* Any other final answer is written out; the writer may fail.
FinalAnswer(a, cost) ==
  /\ Record(a, cost)
  /\ ~Reached(spent')
  /\ a.calls = {}
  /\ ~(workspaceMutated /\ ~validationSinceMutation /\ ~completionGuardSent)
  /\ history' = Append(history, "assistant")
  /\ \/ events' = Append(events, "completed") /\ Return("answer")
     \/ events' = Append(events, "failed") /\ Return("error")
  /\ UNCHANGED <<answer, chat, turnMaxUSD, recentSigs, guardVars, truth>>

UseTools(a, cost) ==
  /\ Record(a, cost)
  /\ ~Reached(spent')
  /\ a.calls # {}
  /\ history' = Append(history, "calls")
  /\ answer' = a
  /\ pc' = "tools"
  /\ UNCHANGED <<events, outcome, chat, turnMaxUSD, recentSigs, guardVars,
                 truth>>

-----------------------------------------------------------------------------
(* The tools have run: runToolCalls executes the edits first, then the rest.*)

MutatesFiles(a)  == "edit" \in a.calls
RunsValidation(a) == "test" \in a.calls

\* The bookkeeping of a tool turn, in the order of the code: first the
\* mutation flags and the inspection count, then the validation flags.
Inspects(a)   == ~MutatesFiles(a) /\ ~workspaceMutated
Validates(a)  == RunsValidation(a) /\ (workspaceMutated \/ MutatesFiles(a))

\* Mutant of MutationFlags: the validation flags are updated first, so an edit hides
\* the validation run of its own batch.
FlagsValidationFirst(a) ==
  /\ workspaceMutated' = (workspaceMutated \/ MutatesFiles(a))
  /\ validationSinceMutation' =
       ((Validates(a) \/ validationSinceMutation) /\ ~MutatesFiles(a))
  /\ validationTurns' = (IF MutatesFiles(a) THEN 0 ELSE validationTurns)
                          + (IF Validates(a) THEN 1 ELSE 0)
  /\ inspectionTurns' = inspectionTurns + (IF Inspects(a) THEN 1 ELSE 0)

MutationFlags(a) ==
  /\ workspaceMutated' = (workspaceMutated \/ MutatesFiles(a))
  /\ validationSinceMutation' =
       (Validates(a) \/ (validationSinceMutation /\ ~MutatesFiles(a)))
  /\ validationTurns' = (IF MutatesFiles(a) THEN 0 ELSE validationTurns)
                          + (IF Validates(a) THEN 1 ELSE 0)
  /\ inspectionTurns' = inspectionTurns + (IF Inspects(a) THEN 1 ELSE 0)

InspectionNudge(a) ==
  Inspects(a) /\ inspectionTurns' >= InspectionLimit /\ ~inspectionGuardSent

ValidationNudge(a) ==
  Validates(a) /\ validationTurns' >= ValidationLimit /\ ~validationGuardSent

Nudges(a) ==
  (IF InspectionNudge(a) THEN <<"user">> ELSE <<>>)
    \o (IF ValidationNudge(a) THEN <<"user">> ELSE <<>>)

\* Mutant of Window: one signature too many is kept out.
WindowShort(sigs, n) ==
  SubSeq(sigs, IF Len(sigs) > n THEN Len(sigs) - n + 2 ELSE 1, Len(sigs))

\* The last n signatures, and whether they are all there and all the same.
Window(sigs, n) ==
  SubSeq(sigs, IF Len(sigs) > n THEN Len(sigs) - n + 1 ELSE 1, Len(sigs))

AllEqual(sigs, n) ==
  /\ Len(sigs) >= n
  /\ \A i \in 1..n : sigs[Len(sigs) - i + 1] = sigs[Len(sigs)]

SpinDetected == MaxRepeatCalls > 1 /\ AllEqual(recentSigs', MaxRepeatCalls)

\* Mutant of ToolMessages: the nudge is put before the results.
NudgesFirst(a) == Nudges(a) \o <<"tool">>

\* The results of the batch, then the nudges.
ToolMessages(a) == <<"tool">> \o Nudges(a)

AtMaxIter == turns >= MaxIter

ToolTurn ==
  /\ pc = "tools"
  /\ \E rollup \in Prices : spent' = spent + rollup  \* a subagent's bill
  /\ MutationFlags(answer)
  /\ history' = history \o ToolMessages(answer)
  /\ inspectionGuardSent' = (inspectionGuardSent \/ InspectionNudge(answer))
  /\ validationGuardSent' = (validationGuardSent \/ ValidationNudge(answer))
  /\ events' = Append(events, "completed")
  /\ recentSigs' = IF MaxRepeatCalls > 1
                     THEN Window(Append(recentSigs, answer), MaxRepeatCalls)
                     ELSE recentSigs
  /\ IF SpinDetected THEN Return("loop_guard")
     ELSE IF AtMaxIter THEN Return("max_iter")
     ELSE pc' = "boundary" /\ UNCHANGED outcome
  /\ dirty' = (IF RunsValidation(answer) THEN FALSE ELSE dirty \/ MutatesFiles(answer))
  /\ streak' = IF lastBatch = answer THEN streak + 1 ELSE 1
  /\ lastBatch' = answer
  /\ answer' = NoAnswer
  /\ UNCHANGED <<chat, turnMaxUSD, turns, completionGuardSent, cut>>

-----------------------------------------------------------------------------
(* The turn boundary.                                                       *)

QueueInterrupt ==
  /\ MayQueue
  /\ Goto("boundary", "check")
  /\ history' = Append(history, "user")
  /\ UNCHANGED <<answer, events, outcome, chat, turnMaxUSD, spent, turns,
                 recentSigs, guardVars, truth>>

NextTurn ==
  /\ Goto("boundary", "check")
  /\ UNCHANGED <<answer, history, events, outcome, chat, turnMaxUSD, spent,
                 turns, recentSigs, guardVars, truth>>

StartCompact ==
  /\ MayCompact
  /\ Goto("boundary", "compact")
  /\ UNCHANGED <<answer, history, events, outcome, chat, turnMaxUSD, spent,
                 turns, recentSigs, guardVars, truth>>

\* Mutant of Compacted: the summary waits for a budget that is spent.
CompactedInBudget ==
  /\ ~Reached(spent)
  /\ Goto("compact", "check")
  /\ \E cost \in Prices : spent' = spent + cost
  /\ history' = Summary
  /\ cut' = {}
  /\ UNCHANGED <<answer, events, outcome, chat, turnMaxUSD, turns, recentSigs,
                 guardVars, dirty, lastBatch, streak>>

Compacted ==
  /\ Goto("compact", "check")
  /\ \E cost \in Prices : spent' = spent + cost
  /\ history' = Summary
  /\ cut' = {}
  /\ UNCHANGED <<answer, events, outcome, chat, turnMaxUSD, turns, recentSigs,
                 guardVars, dirty, lastBatch, streak>>

CompactFails ==
  /\ pc = "compact"
  /\ Return("error")
  /\ UNCHANGED <<answer, history, events, chat, turnMaxUSD, spent, turns,
                 recentSigs, guardVars, truth>>

-----------------------------------------------------------------------------
Loop ==
  \/ OutOfMoney \/ StartTurn \/ StepFails
  \/ \E a \in Answer, cost \in Prices :
       CrossesLimit(a, cost) \/ CompletionGuard(a, cost)
         \/ FinalAnswer(a, cost) \/ UseTools(a, cost)
  \/ ToolTurn \/ NextTurn \/ Compacted

\* What comes from outside: the host, a queued message, a full context, a
\* summary that fails.
Outside == Prompt \/ Cancelled \/ QueueInterrupt \/ StartCompact \/ CompactFails

Next == Loop \/ Outside

Spec == Init /\ [][Next]_vars

\* An llm-step answers or fails, a tool call returns and so does a summary;
\* nothing has to come from outside.
FairSpec == Spec /\ WF_vars(Loop)

-----------------------------------------------------------------------------
(* Properties.                                                              *)

TypeOK ==
  /\ pc \in {"idle", "check", "step", "tools", "boundary", "compact"}
  /\ answer \in Answer \cup {NoAnswer} /\ lastBatch \in Answer \cup {NoAnswer}
  /\ history \in Seq({"user", "assistant", "calls", "tool"})
  /\ events \in Seq({"started", "completed", "failed"})
  /\ outcome \in {"none", "answer", "spend", "error", "loop_guard", "max_iter"}
  /\ chat \in Nat /\ turnMaxUSD \in TurnMax \cup {0} /\ spent \in Nat
  /\ turns \in Nat /\ streak \in Nat /\ cut \subseteq DOMAIN history
  /\ recentSigs \in Seq(Answer)
  /\ inspectionTurns \in Nat /\ validationTurns \in Nat
  /\ inspectionGuardSent \in BOOLEAN /\ validationGuardSent \in BOOLEAN
  /\ completionGuardSent \in BOOLEAN /\ workspaceMutated \in BOOLEAN
  /\ validationSinceMutation \in BOOLEAN /\ dirty \in BOOLEAN

\* TurnStarted opens a turn and exactly one of TurnCompleted and TurnFailed
\* closes it, before the next turn opens and before the loop returns, on every
\* path out of the loop body.
TurnsBracketed ==
  /\ \A i \in 1..Len(events) : i % 2 = 1 <=> events[i] = "started"
  /\ Len(events) % 2 = 1 <=> pc \in {"step", "tools"}

\* The repeat guard's rolling window stops the chat at the MaxRepeatCalls-th
\* consecutive tool turn with the same calls and results, never earlier and
\* never later, nudges and queue interrupts in between notwithstanding.
LoopGuardExact ==
  /\ outcome = "loop_guard" => streak = MaxRepeatCalls
  /\ MaxRepeatCalls > 1 /\ outcome = "max_iter" => streak < MaxRepeatCalls
  /\ MaxRepeatCalls > 1 /\ pc # "idle" => streak < MaxRepeatCalls

\* A chat whose files changed after the last validation run ends with an answer
\* only if the model was sent back once; it is never sent back otherwise.
CompletionGuardExact ==
  [][ /\ outcome # "answer" /\ outcome' = "answer" /\ dirty => completionGuardSent
      /\ ~completionGuardSent /\ completionGuardSent' => dirty ]_vars

\* MaxIter bounds the llm-steps of a chat, but for the one the completion guard
\* adds.
StepsBounded == turns <= MaxIter + (IF completionGuardSent THEN 1 ELSE 0)

\* Whenever a request goes out, each assistant message with tool calls is
\* followed by the results of those calls, across guards, nudges, interrupts,
\* failed steps, cancelled chats and compaction; but not those of a response
\* that crossed a limit, whose tools never run.
ToolCallsAnswered ==
  pc = "step" =>
    \A i \in 1..Len(history) \ cut :
      history[i] = "calls" => i < Len(history) /\ history[i + 1] = "tool"

\* Once a chat has reached its limit, by its own steps or by the bill of a
\* subagent, it takes no further turn.
NoTurnPastLimit == [][Reached(spent) /\ chat' = chat => turns' = turns]_vars

\* Every chat ends: no sequence of answers, nudges and interrupts keeps the
\* loop going for ever.
ChatEnds == pc # "idle" ~> pc = "idle"
=============================================================================
