------------------------------- MODULE Replay -------------------------------
(***************************************************************************)
(* A conversation and its record: what a saved kernel keeps in memory,     *)
(* what it fires into the event log of its span (fireEvent in kernel.go,   *)
(* AppendEvent in store.go), and what a later process rebuilds from that   *)
(* table (NewKernel in kernel.go, ReconstructHistory in history.go).  The  *)
(* process may die between any two steps.                                  *)
(*                                                                         *)
(* A message is its role and a number of its own; the question and answer  *)
(* that Compact leaves are the one entry "summary", numbered 0 when the    *)
(* model summed up in no words.  "cutCalls" are the calls of a response    *)
(* that reaches a spend limit: they are never run.  trimForCompact turns   *)
(* "assistant", "calls", "cutCalls" and "tool" messages into "trimmed"     *)
(* ones.  The events of single tool calls are left out; one loop runs at a *)
(* time, and a woken one ends like any other (that it waits for itself is  *)
(* KernelRun's).                                                           *)
(***************************************************************************)
EXTENDS Naturals, Sequences, SequencesExt

CONSTANTS
  MaxMsgs,  \* bound: messages made, all processes together
  MaxSeq,   \* bound: events a process may have fired when it begins a chat
  Lives,    \* bound: processes that work on the span
  Happens   \* which of the following happen: "stepFails", "compact",
            \* "compactFails", "emptySummary", "writerFails", "nudge",
            \* "queue", "limit"

ASSUME ReplayAssumption ==
  /\ MaxMsgs \in Nat /\ MaxSeq \in Nat /\ Lives \in Nat
  /\ Happens \subseteq {"stepFails", "compact", "compactFails", "emptySummary",
                        "writerFails", "nudge", "queue", "limit"}

VARIABLES
  pc,       \* where the kernel is; "down" between processes
  history,  \* Kernel.History
  turn,     \* messages of the turn that TurnCompleted will carry
  seq,      \* Kernel.seq
  table,    \* the span's rows of the events table, by sequence number
  made,     \* number of messages made
  lives,    \* number of processes started
  unheard   \* messages of Kernel.History that no replayed event will carry

vars == <<pc, history, turn, seq, table, made, lives, unheard>>

Init ==
  /\ pc = "down" /\ history = <<>> /\ turn = <<>>
  /\ seq = 0 /\ table = <<>> /\ made = 0 /\ lives = 0 /\ unheard = {}

-----------------------------------------------------------------------------
(* The record.                                                              *)

Event(kind, content) == [kind |-> kind, content |-> content]

\* INSERT ... ON CONFLICT DO NOTHING.
Stored(n, event) == IF n \in DOMAIN table THEN table ELSE Append(table, event)

Fire(kind, content) ==
  /\ seq' = seq + 1
  /\ table' = Stored(seq', Event(kind, content))

\* Mutant of Baseline: the first compaction is found.
FirstBaseline ==
  SelectInSeq(table, LAMBDA e : e.kind = "PostCompact" /\ e.content # <<"summary", 0>>)

\* The last compaction that has a summary, 0 if there is none.
Baseline ==
  SelectLastInSeq(table, LAMBDA e : e.kind = "PostCompact" /\ e.content # <<"summary", 0>>)

Replayed(e) ==
  CASE e.kind = "UserPromptSubmit" -> <<e.content>>
    [] e.kind = "TurnCompleted"    -> e.content
    [] OTHER                       -> <<>>

\* ReconstructHistory, for one span.
ReconstructHistory ==
  LET tail == SubSeq(table, Baseline + 1, Len(table))
  IN (IF Baseline = 0 THEN <<>> ELSE <<table[Baseline].content>>)
       \o FlattenSeq([i \in DOMAIN tail |-> Replayed(tail[i])])

-----------------------------------------------------------------------------
(* The process.                                                             *)

Goto(from, to) == pc = from /\ pc' = to

Say(role) ==
  /\ made < MaxMsgs
  /\ made' = made + 1
  /\ history' = Append(history, <<role, made'>>)

\* The kernel of a span that is not a root starts from the record; the kernel of
\* a root span starts empty, whatever its record holds, and is not modelled.
NewKernel ==
  /\ lives < Lives
  /\ Goto("down", "idle")
  /\ lives' = lives + 1
  /\ seq' = 0
  /\ history' = ReconstructHistory
  /\ UNCHANGED <<turn, table, made, unheard>>

Crash ==
  /\ pc # "down" /\ pc' = "down"
  /\ history' = <<>> /\ turn' = <<>>
  /\ UNCHANGED <<seq, table, made, lives, unheard>>

\* Stream: SessionStart before the first message.
Stream ==
  /\ seq < MaxSeq
  /\ Goto("idle", "enter")
  /\ IF history = <<>> THEN Fire("SessionStart", <<>>) ELSE UNCHANGED <<seq, table>>
  /\ UNCHANGED <<history, turn, made, lives, unheard>>

Prompt ==
  /\ Goto("enter", "prompted")
  /\ Say("user")
  /\ UNCHANGED <<turn, seq, table, lives, unheard>>

UserPromptSubmit ==
  /\ Goto("prompted", "loop")
  /\ Fire("UserPromptSubmit", history[Len(history)])
  /\ UNCHANGED <<history, turn, made, lives, unheard>>

\* The loop ends at its top, with no event: at a spend limit, or cancelled.
EndsAtTop(to) ==
  /\ Goto("loop", to)
  /\ UNCHANGED <<history, turn, seq, table, made, lives, unheard>>

TurnStarted ==
  /\ Goto("loop", "step")
  /\ Fire("TurnStarted", <<>>)
  /\ UNCHANGED <<history, turn, made, lives, unheard>>

StepFails ==
  /\ "stepFails" \in Happens
  /\ Goto("step", "idle")
  /\ Fire("TurnFailed", <<>>)
  /\ UNCHANGED <<history, turn, made, lives, unheard>>

\* appendStepMessages: in memory at once, in the record with TurnCompleted.
appendStepMessages(role) ==
  /\ Say(role)
  /\ turn' = Append(turn, history'[Len(history')])

Answer ==
  /\ Goto("step", "answered")
  /\ appendStepMessages("assistant")
  /\ UNCHANGED <<seq, table, lives, unheard>>

Calls ==
  /\ Goto("step", "tools")
  /\ appendStepMessages("calls")
  /\ UNCHANGED <<seq, table, lives, unheard>>

\* The response's own cost reaches a limit: its calls are on record, and the loop
\* ends without them.
LimitCut ==
  /\ "limit" \in Happens
  /\ Goto("step", "cut")
  /\ appendStepMessages("cutCalls")
  /\ UNCHANGED <<seq, table, lives, unheard>>

Tools ==
  /\ Goto("tools", "ran")
  /\ appendStepMessages("tool")
  /\ UNCHANGED <<seq, table, lives, unheard>>

\* Mutant of TurnCompleted: the event carries the assistant's message only.
TurnCompletedShort(from, to) ==
  /\ Goto(from, to)
  /\ Fire("TurnCompleted", SubSeq(turn, 1, 1))
  /\ turn' = <<>>
  /\ UNCHANGED <<history, made, lives, unheard>>

TurnCompleted(from, to) ==
  /\ Goto(from, to)
  /\ Fire("TurnCompleted", turn)
  /\ turn' = <<>>
  /\ UNCHANGED <<history, made, lives, unheard>>

\* The final text cannot be written: the turn fails after it was appended.
WriterFails ==
  /\ "writerFails" \in Happens
  /\ Goto("answered", "idle")
  /\ Fire("TurnFailed", <<>>)
  /\ turn' = <<>> /\ unheard' = unheard \cup {made}
  /\ UNCHANGED <<history, made, lives>>

\* GuardTriggered and the nudge: completion guard, or a guard of a tool turn.
Nudge(from, to) ==
  /\ "nudge" \in Happens
  /\ Goto(from, to)
  /\ Fire("GuardTriggered", <<>>)
  /\ Say("user") /\ unheard' = unheard \cup {made'}
  /\ UNCHANGED <<turn, lives>>

QueueInterrupt ==
  /\ "queue" \in Happens
  /\ Goto("boundary", "loop")
  /\ Say("user") /\ unheard' = unheard \cup {made'}
  /\ Fire("QueueInterrupt", history'[Len(history')])
  /\ UNCHANGED <<turn, lives>>

NextTurn ==
  /\ Goto("boundary", "loop")
  /\ UNCHANGED <<history, turn, seq, table, made, lives, unheard>>

-----------------------------------------------------------------------------
(* Compact, before a prompt or at a turn boundary.                          *)

Trim(message) == IF message[1] \in {"assistant", "calls", "cutCalls", "tool"}
                   THEN <<"trimmed", message[2]>> ELSE message

PreCompact(from, to) ==
  /\ "compact" \in Happens /\ history # <<>>
  /\ Goto(from, to)
  /\ history' = [i \in DOMAIN history |-> Trim(history[i])]
  /\ Fire("PreCompact", <<>>)
  /\ UNCHANGED <<turn, made, lives, unheard>>

CompactFails ==
  /\ "compactFails" \in Happens
  /\ pc \in {"preCompact", "loopCompact"} /\ pc' = "idle"
  /\ UNCHANGED <<history, turn, seq, table, made, lives, unheard>>

Summarised(from, to) ==
  /\ Goto(from, to)
  /\ made < MaxMsgs /\ made' = made + 1
  /\ \E n \in {made'} \cup (IF "emptySummary" \in Happens THEN {0} ELSE {}) :
       history' = << <<"summary", n>> >>
  /\ UNCHANGED <<turn, seq, table, lives, unheard>>

PostCompact(from, to) ==
  /\ Goto(from, to)
  /\ Fire("PostCompact", history[1])
  /\ UNCHANGED <<history, turn, made, lives, unheard>>

-----------------------------------------------------------------------------
(* The end of a loop.                                                       *)

Guarded ==
  /\ Goto("boundary", "stop")
  /\ UNCHANGED <<history, turn, seq, table, made, lives, unheard>>

Stop ==
  /\ Goto("stop", "resume")
  /\ Fire("Stop", <<>>)
  /\ UNCHANGED <<history, turn, made, lives, unheard>>

MasterIdle ==
  /\ Goto("resume", "idle")
  /\ Fire("MasterIdle", <<>>)
  /\ UNCHANGED <<history, turn, made, lives, unheard>>

\* tryResume with a background result in the queue: no event carries it.
Wake ==
  /\ "queue" \in Happens
  /\ pc \in {"resume", "idle"} /\ pc' = "loop"
  /\ Say("user") /\ unheard' = unheard \cup {made'}
  /\ UNCHANGED <<turn, seq, table, lives>>

-----------------------------------------------------------------------------
Chat == Stream \/ Prompt \/ UserPromptSubmit

Turn ==
  \/ TurnStarted \/ StepFails \/ Answer \/ Calls \/ Tools \/ WriterFails
  \/ LimitCut
  \/ "limit" \in Happens /\ EndsAtTop("stop")
  \/ "stepFails" \in Happens /\ EndsAtTop("idle")
  \/ TurnCompleted("answered", "stop") \/ TurnCompleted("ran", "boundary")
  \/ TurnCompleted("cut", "stop")
  \/ "nudge" \in Happens /\ TurnCompleted("answered", "completionGuard")
  \/ Nudge("completionGuard", "loop") \/ Nudge("boundary", "boundary")
  \/ QueueInterrupt \/ NextTurn \/ Guarded

Compact ==
  \/ PreCompact("enter", "preCompact") \/ PreCompact("boundary", "loopCompact")
  \/ Summarised("preCompact", "preReset") \/ Summarised("loopCompact", "loopReset")
  \/ PostCompact("preReset", "compacted") \/ PostCompact("loopReset", "loop")
  \/ CompactFails

\* After the compaction of a call comes its prompt.
PromptCompacted ==
  /\ Goto("compacted", "prompted")
  /\ Say("user")
  /\ UNCHANGED <<turn, seq, table, lives, unheard>>

Next == NewKernel \/ Crash \/ Chat \/ Turn \/ Compact \/ PromptCompacted
          \/ Stop \/ MasterIdle \/ Wake

Spec == Init /\ [][Next]_vars

-----------------------------------------------------------------------------
(* Properties.                                                              *)

Trimmed(messages) == [i \in DOMAIN messages |-> Trim(messages[i])]

Heard(messages) ==
  FlattenSeq([i \in DOMAIN messages |->
    IF messages[i][2] \in unheard THEN <<>> ELSE <<messages[i]>>])

\* The prompt whose event is not fired yet, or the turn that is not completed.
InFlight == IF pc = "prompted" THEN <<history[Len(history)]>> ELSE turn

\* The record rebuilds what is in memory, but for the messages that no event
\* carries, the trimming of tool results, and what a crash costs: the turn in
\* progress, or a compaction not yet on record.
Rebuilds ==
  pc \notin {"down", "preCompact", "loopCompact", "preReset", "loopReset"}
    => Trimmed(Heard(history)) = Trimmed(ReconstructHistory \o InFlight)

\* "The returned history is exactly what the kernel would have in memory", in the
\* first process of a span and as long as every summary says something.
CrashLosesOneTurn ==
  lives = 1 /\ (\A n \in DOMAIN table : table[n].content # <<"summary", 0>>)
    => Rebuilds

\* "So a process restart can pick up an existing conversation": what the second
\* process adds is rebuilt too.
RestartRebuilds == Rebuilds

\* Whatever fails, crashes, is compacted or is dropped by a counter that starts
\* again, the rebuilt conversation pairs each request for tools with its own
\* results: a call that was to be run is followed by the results of that turn, and
\* results follow the calls that they answer; otherwise the next request would be
\* refused.  The calls of a response that reached a spend limit ("cutCalls") are
\* exempt: fireTurnCompleted records them without results, so the conversation
\* holds them unanswered, in memory as in the record.
RebuiltCallsAnswered ==
  LET rebuilt == ReconstructHistory
  IN \A i \in DOMAIN rebuilt :
       /\ rebuilt[i][1] = "calls" =>
            i < Len(rebuilt) /\ rebuilt[i + 1] = <<"tool", rebuilt[i][2] + 1>>
       /\ rebuilt[i][1] = "tool" =>
            /\ i > 1 /\ rebuilt[i - 1][1] = "calls"
            /\ rebuilt[i][2] = rebuilt[i - 1][2] + 1
=============================================================================
