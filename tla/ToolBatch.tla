----------------------------- MODULE ToolBatch -----------------------------
(***************************************************************************)
(* runToolCalls (steploop.go): the tool calls of one assistant message.    *)
(* Every call is announced; those that mutate files run one at a time, in  *)
(* the order of the calls; the rest run side by side, one goroutine each;  *)
(* the results are put back in the order of the calls.                     *)
(*                                                                         *)
(* The tools share one file.  A write opens (and truncates) it in one step *)
(* and has written it in a later one; whoever reads in between sees a torn *)
(* file.  The kinds of call are "edit" (write, edit, multiedit), "badEdit" *)
(* (one of these that returns an error and writes nothing), "read" (any    *)
(* call that only looks), "shell" (bash or subagent: not a mutating tool   *)
(* to the kernel, but it writes) and "unknown" (no such tool).             *)
(***************************************************************************)
EXTENDS Naturals, Sequences

CONSTANTS
  Kinds,    \* the kinds of call the model makes
  MaxCalls  \* bound: calls of one message

ASSUME BatchAssumption ==
  /\ Kinds \subseteq {"edit", "badEdit", "read", "shell", "unknown"}
  /\ MaxCalls \in Nat

VARIABLES
  calls,     \* the kind of each call
  pc,        \* what the loop's goroutine is doing
  started,   \* calls whose handler has begun
  finished,  \* calls whose result is in its slot
  results,   \* the slots
  file,      \* the calls whose writes the file holds, in order
  events,    \* the tool events fired, in order
  message    \* the parts of the tool-role message

vars == <<calls, pc, started, finished, results, file, events, message>>

Result(ok, saw, torn) == [ok |-> ok, saw |-> saw, torn |-> torn]
Empty == Result(FALSE, <<>>, FALSE)

Init ==
  /\ calls \in UNION {[1..n -> Kinds] : n \in 1..MaxCalls}
  /\ pc = "announce" /\ started = {} /\ finished = {}
  /\ results = [i \in DOMAIN calls |-> Empty]
  /\ file = <<>> /\ events = <<>> /\ message = <<>>

-----------------------------------------------------------------------------
\* Kernel.Fire, which leaves the scope of the turn empty.
Fire(kind, i) == events' = Append(events, [kind |-> kind, call |-> i])

\* PreToolUse of the next call.
Announce ==
  /\ pc = "announce"
  /\ Fire("PreToolUse", Len(events) + 1)
  /\ pc' = IF Len(events') = Len(calls) THEN "mutate" ELSE "announce"
  /\ UNCHANGED <<calls, started, finished, results, file, message>>

mutatingTool(kind) == kind \in {"edit", "badEdit"}

Mutating == {i \in DOMAIN calls : mutatingTool(calls[i])}
ReadOnly == DOMAIN calls \ Mutating

Writes(i) == calls[i] \in {"edit", "shell"}

\* Some write has begun and not ended.
Torn == \E i \in started \ finished : Writes(i)

Store(i, result) ==
  /\ finished' = finished \cup {i}
  /\ results' = [results EXCEPT ![i] = result]

\* The handler begins: the mutating calls one after the other, the others
\* once they are launched.
StartMutating(i) ==
  /\ pc = "mutate"
  /\ i \in Mutating \ started
  /\ \A j \in Mutating : j < i => j \in finished
  /\ started' = started \cup {i}
  /\ UNCHANGED <<calls, pc, finished, results, file, events, message>>

\* Mutant of Launch: the wave does not wait for the last mutating call.
LaunchEarly ==
  /\ pc = "mutate"
  /\ Mutating \subseteq started
  /\ pc' = "wave"
  /\ UNCHANGED <<calls, started, finished, results, file, events, message>>

Launch ==
  /\ pc = "mutate"
  /\ Mutating \subseteq finished
  /\ pc' = "wave"
  /\ UNCHANGED <<calls, started, finished, results, file, events, message>>

StartReadOnly(i) ==
  /\ pc = "wave"
  /\ i \in ReadOnly \ started
  /\ started' = started \cup {i}
  /\ UNCHANGED <<calls, pc, finished, results, file, events, message>>

\* The handler returns.
Finish(i) ==
  /\ i \in started \ finished
  /\ file' = IF Writes(i) THEN Append(file, i) ELSE file
  /\ Store(i, CASE calls[i] = "read" -> Result(TRUE, file, Torn)
                [] calls[i] \in {"edit", "shell"} -> Result(TRUE, <<>>, FALSE)
                [] calls[i] \in {"badEdit", "unknown"} -> Result(FALSE, <<>>, FALSE))
  /\ UNCHANGED <<calls, pc, started, events, message>>

\* Mutant of Wait: the goroutines of unknown tools never report back.
WaitForAnswers ==
  /\ pc = "wave"
  /\ ReadOnly \subseteq {i \in finished : calls[i] # "unknown"}
  /\ pc' = "collect"
  /\ UNCHANGED <<calls, started, finished, results, file, events, message>>

\* wg.Wait.
Wait ==
  /\ pc = "wave"
  /\ ReadOnly \subseteq finished
  /\ pc' = "collect"
  /\ UNCHANGED <<calls, started, finished, results, file, events, message>>

\* Mutant of Collect: failures are reported as completions.
CollectPlain ==
  /\ pc = "collect"
  /\ message' = Append(message, results[Len(message) + 1])
  /\ Fire("PostToolUse", Len(message'))
  /\ pc' = IF Len(message') = Len(calls) THEN "done" ELSE "collect"
  /\ UNCHANGED <<calls, started, finished, results, file>>

\* The next part of the message and its completion event.
Collect ==
  /\ pc = "collect"
  /\ message' = Append(message, results[Len(message) + 1])
  /\ Fire(IF results[Len(message')].ok THEN "PostToolUse" ELSE "PostToolUseFailure",
          Len(message'))
  /\ pc' = IF Len(message') = Len(calls) THEN "done" ELSE "collect"
  /\ UNCHANGED <<calls, started, finished, results, file>>

-----------------------------------------------------------------------------
Runner == Announce \/ Launch \/ Wait \/ Collect \/ \E i \in Mutating : StartMutating(i)

Handler(i) == StartReadOnly(i) \/ Finish(i)

Next == Runner \/ \E i \in DOMAIN calls : Handler(i)

Spec == Init /\ [][Next]_vars

\* A goroutine that can move does, and a handler returns.
FairSpec ==
  /\ Spec
  /\ WF_vars(Runner) /\ \A i \in 1..MaxCalls : WF_vars(i \in DOMAIN calls /\ Handler(i))

-----------------------------------------------------------------------------
(* Properties.                                                              *)

TypeOK ==
  /\ calls \in Seq(Kinds) /\ Len(calls) <= MaxCalls
  /\ pc \in {"announce", "mutate", "wave", "collect", "done"}
  /\ finished \subseteq started /\ started \subseteq DOMAIN calls
  /\ results \in [DOMAIN calls -> [ok : BOOLEAN, saw : Seq(DOMAIN calls), torn : BOOLEAN]]
  /\ file \in Seq(DOMAIN calls)
  /\ message \in Seq([ok : BOOLEAN, saw : Seq(DOMAIN calls), torn : BOOLEAN])

\* "A dependent read or a test run never sees a half-written file", as long as
\* no shell command of the same message writes one.
NoTornRead ==
  (\A i \in DOMAIN calls : calls[i] # "shell") => \A i \in finished : ~results[i].torn

\* The batch "begins as a unit": no handler runs before every call is announced
\* and none is reported before every handler is done; the completions come in
\* the order of the calls and say what the message says.
BatchReported ==
  /\ started # {} => Len(events) >= Len(calls)
  /\ message # <<>> => finished = DOMAIN calls
  /\ \A e \in 1..Len(events) :
       IF e <= Len(calls)
         THEN events[e].kind = "PreToolUse" /\ events[e].call = e
         ELSE /\ events[e].call = e - Len(calls)
              /\ events[e].kind = IF message[e - Len(calls)].ok
                                    THEN "PostToolUse" ELSE "PostToolUseFailure"

\* Every batch comes back to the loop.
BatchReturns == <>(pc = "done")

\* Whatever the interleaving, the batch is an atomic one: "the tool-role message
\* and the loop-guard signature stay deterministic no matter the interleaving"
\* but for what its shell commands write.
AB == INSTANCE AtomicBatch WITH
        outcome <- IF pc = "done" THEN message ELSE <<>>,
        file <- IF pc = "done" THEN file ELSE <<>>

ImplementsAtomicBatch == AB!Spec
=============================================================================
