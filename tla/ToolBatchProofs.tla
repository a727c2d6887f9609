-------------------------- MODULE ToolBatchProofs ---------------------------
(***************************************************************************)
(* Proofs about a batch of tool calls, for batches of any length and any   *)
(* interleaving of its goroutines: its types, its report, the absence of   *)
(* torn reads and, from an invariant about the file, that the batch is the *)
(* atomic one of AtomicBatch.  Then about the tools themselves: what a     *)
(* deadline or a cancelled turn leaves of a command's processes, and what  *)
(* the calls of any number of agents make of a file and are told of it.    *)
(***************************************************************************)
EXTENDS ToolBatch, Shell, FileTools, DataLemmas

N == Len(calls)

AnyResult == [ok : BOOLEAN, saw : Seq(1..N), torn : BOOLEAN]
AnyEvent  == [kind : {"PreToolUse", "PostToolUse", "PostToolUseFailure"}, call : Nat]

\* The calls and their results have their types.
Typed ==
  /\ calls \in Seq(Kinds) /\ N \in Nat /\ N >= 1 /\ N <= MaxCalls /\ DOMAIN calls = 1..N
  /\ pc \in {"announce", "mutate", "wave", "collect", "done"}
  /\ finished \subseteq started /\ started \subseteq 1..N
  /\ results \in [1..N -> AnyResult]
  /\ file \in Seq(1..N)
  /\ message \in Seq(AnyResult) /\ events \in Seq(AnyEvent)

\* What a result is.
LEMMA ResultIsAny ==
  ASSUME NEW ok \in BOOLEAN, NEW saw \in Seq(1..N), NEW broken \in BOOLEAN
  PROVE  Result(ok, saw, broken) \in AnyResult
BY DEF Result, AnyResult

\* A batch has its types before the first event.
LEMMA InitTyped == Init => Typed
<1> SUFFICES ASSUME Init PROVE Typed
  OBVIOUS
<1>1. PICK n \in 1..MaxCalls : calls \in [1..n -> Kinds]
  BY DEF Init
<1>2. calls \in Seq(Kinds) /\ N = n /\ n \in Nat /\ n <= MaxCalls /\ n >= 1
  BY <1>1, BatchAssumption DEF N
<1>3. DOMAIN calls = 1..N
  BY <1>1, <1>2
<1>4. <<>> \in Seq(1..N) /\ <<>> \in Seq(AnyResult) /\ <<>> \in Seq(AnyEvent)
  OBVIOUS
<1>5. Empty \in AnyResult
  BY <1>4, ResultIsAny DEF Empty
<1>6. QED
  BY <1>2, <1>3, <1>4, <1>5 DEF Init, Typed

\* There are five kinds of calls.
LEMMA KindOf ==
  ASSUME Typed, NEW i \in 1..N
  PROVE  calls[i] \in {"edit", "badEdit", "read", "shell", "unknown"}
<1>1. calls[i] \in Kinds
  BY DEF Typed, N
<1>2. QED
  BY <1>1, BatchAssumption

\* Kernel.Fire adds an event.
LEMMA FireTyped ==
  ASSUME Typed, NEW kind \in {"PreToolUse", "PostToolUse", "PostToolUseFailure"},
         NEW i \in Nat, Fire(kind, i)
  PROVE  /\ events' \in Seq(AnyEvent) /\ Len(events') = Len(events) + 1
         /\ Len(events) \in Nat
         /\ events'[Len(events')] = [kind |-> kind, call |-> i]
         /\ \A e \in 1..Len(events) : events'[e] = events[e]
<1>1. [kind |-> kind, call |-> i] \in AnyEvent
  BY DEF AnyEvent
<1>2. events \in Seq(AnyEvent) /\ events' = Append(events, [kind |-> kind, call |-> i])
  BY DEF Typed, Fire
<1>3. QED
  BY <1>1, <1>2

\* The handler writes at the end of the file, or not at all, and stores its result.
LEMMA FinishTyped ==
  ASSUME Typed, NEW i \in 1..N, Finish(i)
  PROVE  /\ file' = (IF Writes(i) THEN Append(file, i) ELSE file)
         /\ file' \in Seq(1..N)
         /\ finished' = finished \cup {i}
         /\ results' \in [1..N -> AnyResult]
         /\ \A j \in 1..N : j # i => results'[j] = results[j]
         /\ calls[i] = "read" => results'[i] = Result(TRUE, file, Torn)
         /\ calls[i] \in {"edit", "shell"} => results'[i] = Result(TRUE, <<>>, FALSE)
         /\ calls[i] \in {"badEdit", "unknown"} => results'[i] = Result(FALSE, <<>>, FALSE)
<1>1. file' = (IF Writes(i) THEN Append(file, i) ELSE file) /\ finished' = finished \cup {i}
  BY DEF Finish, Store
<1>2. file' \in Seq(1..N) /\ file \in Seq(1..N) /\ <<>> \in Seq(1..N)
  <2>1. file \in Seq(1..N) /\ <<>> \in Seq(1..N)
    BY DEF Typed
  <2>2. Append(file, i) \in Seq(1..N)
    BY <2>1
  <2>3. QED
    BY <1>1, <2>1, <2>2
<1>3. calls[i] \in {"edit", "badEdit", "read", "shell", "unknown"}
  BY KindOf
<1> DEFINE r == CASE calls[i] = "read" -> Result(TRUE, file, Torn)
                  [] calls[i] \in {"edit", "shell"} -> Result(TRUE, <<>>, FALSE)
                  [] calls[i] \in {"badEdit", "unknown"} -> Result(FALSE, <<>>, FALSE)
<1>4. /\ calls[i] = "read" => r = Result(TRUE, file, Torn)
      /\ calls[i] \in {"edit", "shell"} => r = Result(TRUE, <<>>, FALSE)
      /\ calls[i] \in {"badEdit", "unknown"} => r = Result(FALSE, <<>>, FALSE)
  OBVIOUS
<1>5. results' = [results EXCEPT ![i] = r]
  BY DEF Finish, Store
<1> HIDE DEF r
<1>6. Torn \in BOOLEAN
  BY DEF Torn
<1>7. r \in AnyResult
  BY <1>2, <1>3, <1>4, <1>6, ResultIsAny
<1>8. results' \in [1..N -> AnyResult] /\ results'[i] = r
      /\ \A j \in 1..N : j # i => results'[j] = results[j]
  BY <1>5, <1>7 DEF Typed
<1>9. QED
  BY <1>1, <1>2, <1>4, <1>8

\* The next part of the message is the next result, and its event says how it ended.
LEMMA CollectTyped ==
  ASSUME Typed, Collect, Len(message) < N
  PROVE  LET n == Len(message) + 1 IN
         /\ message' = Append(message, results[n]) /\ message' \in Seq(AnyResult)
         /\ n \in 1..N /\ Len(message') = n /\ message'[n] = results[n]
         /\ \A i \in 1..Len(message) : message'[i] = message[i]
         /\ Fire(IF message'[n].ok THEN "PostToolUse" ELSE "PostToolUseFailure", n)
         /\ pc' = IF n = N THEN "done" ELSE "collect"
<1> DEFINE n == Len(message) + 1
<1>1. Len(message) \in Nat /\ n \in 1..N /\ results[n] \in AnyResult
  BY DEF Typed
<1>2. message' = Append(message, results[n]) /\ message \in Seq(AnyResult)
  BY DEF Collect, Typed
<1>3. Len(message') = n /\ message'[n] = results[n] /\ message' \in Seq(AnyResult)
      /\ \A i \in 1..Len(message) : message'[i] = message[i]
  BY <1>1, <1>2
<1>4. Fire(IF results[Len(message')].ok THEN "PostToolUse" ELSE "PostToolUseFailure",
           Len(message'))
      /\ pc' = IF Len(message') = Len(calls) THEN "done" ELSE "collect"
  BY DEF Collect
<1>5. QED
  BY <1>1, <1>2, <1>3, <1>4 DEF N

----------------------------------------------------------------------------
(* The control of the loop's goroutine and what it reports.                 *)

\* The event e of the batch, if so many have been fired.
EventRight(e) ==
  IF e <= N
    THEN events[e].kind = "PreToolUse" /\ events[e].call = e
    ELSE /\ events[e].call = e - N
         /\ events[e].kind = IF message[e - N].ok THEN "PostToolUse" ELSE "PostToolUseFailure"

\* Which handlers have run, how many events are fired and how much of the message is
\* there in each phase of the batch.
Control ==
  /\ pc = "announce" => started = {} /\ message = <<>> /\ Len(events) < N
  /\ pc # "announce" => Len(events) = N + Len(message)
  /\ pc = "mutate" => started \subseteq Mutating
  /\ pc \in {"wave", "collect", "done"} => Mutating \subseteq finished
  /\ pc \notin {"collect", "done"} => message = <<>>
  /\ pc \in {"collect", "done"} => finished = 1..N
  /\ pc = "collect" => Len(message) < N
  /\ pc = "done" => Len(message) = N
  /\ \A i \in 1..Len(message) : message[i] = results[i]
  /\ \A e \in 1..Len(events) : EventRight(e)

CInv == Typed /\ Control

\* Before the first event nothing has begun and nothing is reported.
LEMMA InitControl == Init => CInv
<1>1. Init => Control
  <2> SUFFICES ASSUME Init PROVE Control
    OBVIOUS
  <2>1. N >= 1 /\ N \in Nat
    BY InitTyped DEF Typed
  <2>2. Len(events) = 0 /\ Len(message) = 0 /\ pc = "announce" /\ started = {} /\ message = <<>>
    BY DEF Init
  <2>3. QED
    BY <2>1, <2>2 DEF Control
<1>2. QED
  BY <1>1, InitTyped DEF CInv

\* The calls are announced in their order.
LEMMA AnnounceStep == ASSUME CInv, Announce PROVE CInv'
<1> USE DEF CInv
<1>1. Len(events) \in Nat /\ N \in Nat /\ Len(events) < N /\ message = <<>> /\ started = {}
  BY DEF Announce, Control, Typed
<1>2. UNCHANGED <<calls, started, finished, results, file, message>>
  BY DEF Announce
<1>3. /\ events' \in Seq(AnyEvent) /\ Len(events') = Len(events) + 1
      /\ events'[Len(events')] = [kind |-> "PreToolUse", call |-> Len(events) + 1]
      /\ \A e \in 1..Len(events) : events'[e] = events[e]
  BY <1>1, FireTyped DEF Announce
<1>4. /\ pc = "announce" /\ pc' = IF Len(events') = N THEN "mutate" ELSE "announce"
  BY DEF Announce, N
<1>5. Typed' /\ N' = N
  BY <1>2, <1>3, <1>4 DEF Typed, N, AnyResult, AnyEvent
<1>6. ASSUME NEW e \in 1..Len(events') PROVE EventRight(e)'
  <2>1. CASE e \in 1..Len(events)
    BY <1>1, <1>2, <1>3, <1>5, <2>1 DEF Control, EventRight
  <2>2. CASE e = Len(events')
    BY <1>1, <1>3, <1>5, <2>2 DEF EventRight
  <2>3. QED
    BY <1>1, <1>3, <2>1, <2>2
<1>7. Control'
  BY <1>1, <1>2, <1>3, <1>4, <1>5, <1>6 DEF Control, Mutating
<1>8. QED
  BY <1>5, <1>7

\* Nothing is reported while handlers run.
LEMMA HandlerStep ==
  ASSUME CInv,
         \/ \E i \in Mutating : StartMutating(i)
         \/ Launch
         \/ \E i \in 1..N : StartReadOnly(i) \/ Finish(i)
         \/ Wait
  PROVE  CInv'
<1> USE DEF CInv
<1>1. CASE \E i \in Mutating : StartMutating(i)
  <2> PICK i \in Mutating : StartMutating(i)
    BY <1>1
  <2>1. /\ pc = "mutate" /\ started' = started \cup {i}
        /\ UNCHANGED <<calls, pc, finished, results, file, events, message>>
    BY DEF StartMutating
  <2>2. i \in 1..N
    BY DEF Mutating, Typed
  <2>3. Typed' /\ N' = N
    BY <2>1, <2>2 DEF Typed, N, AnyResult, AnyEvent
  <2>4. Control'
    BY <2>1, <2>3 DEF Control, EventRight, Mutating
  <2>5. QED
    BY <2>3, <2>4
<1>2. CASE Launch \/ Wait
  <2>1. UNCHANGED <<calls, started, finished, results, file, events, message>>
    BY <1>2 DEF Launch, Wait
  <2>2. \/ pc = "mutate" /\ pc' = "wave" /\ Mutating \subseteq finished
        \/ pc = "wave" /\ pc' = "collect" /\ ReadOnly \subseteq finished
    BY <1>2 DEF Launch, Wait
  <2>3. Typed' /\ N' = N
    BY <2>1, <2>2 DEF Typed, N, AnyResult, AnyEvent
  <2>4. pc = "wave" => finished = 1..N
    BY <2>2 DEF Control, ReadOnly, Typed
  <2>5. Len(message) = 0 /\ message = <<>> /\ N >= 1 /\ N \in Nat /\ Len(events) = N
    BY <2>2 DEF Control, Typed
  <2>6. Control'
    <3>1. CASE pc = "mutate"
      BY <2>1, <2>2, <2>3, <2>5, <3>1 DEF Control, EventRight, Mutating
    <3>2. CASE pc = "wave"
      BY <2>1, <2>2, <2>3, <2>4, <2>5, <3>2 DEF Control, EventRight, Mutating
    <3>3. QED
      BY <2>2, <3>1, <3>2
  <2>7. QED
    BY <2>3, <2>6
<1>3. CASE \E i \in 1..N : StartReadOnly(i)
  <2> PICK i \in 1..N : StartReadOnly(i)
    BY <1>3
  <2>1. /\ pc = "wave" /\ started' = started \cup {i}
        /\ UNCHANGED <<calls, pc, finished, results, file, events, message>>
    BY DEF StartReadOnly
  <2>2. Typed' /\ N' = N
    BY <2>1 DEF Typed, N, AnyResult, AnyEvent
  <2>3. Control'
    BY <2>1, <2>2 DEF Control, EventRight, Mutating
  <2>4. QED
    BY <2>2, <2>3
<1>4. CASE \E i \in 1..N : Finish(i)
  <2> PICK i \in 1..N : Finish(i)
    BY <1>4
  <2>1. UNCHANGED <<calls, pc, started, events, message>> /\ i \in started \ finished
    BY DEF Finish
  <2>2. finished' = finished \cup {i} /\ results' \in [1..N -> AnyResult]
        /\ file' \in Seq(1..N)
    BY FinishTyped
  <2>3. Typed' /\ N' = N
    BY <2>1, <2>2 DEF Typed, N, AnyResult, AnyEvent
  <2>4. pc \in {"mutate", "wave"} /\ message = <<>>
    BY <2>1 DEF Control, Typed
  <2>5. Control'
    BY <2>1, <2>2, <2>3, <2>4 DEF Control, EventRight, Mutating
  <2>6. QED
    BY <2>3, <2>5
<1>5. QED
  BY <1>1, <1>2, <1>3, <1>4

\* The results are reported in the order of the calls.
LEMMA CollectStep == ASSUME CInv, Collect PROVE CInv'
<1> USE DEF CInv
<1> DEFINE n == Len(message) + 1
           kind == IF message'[n].ok THEN "PostToolUse" ELSE "PostToolUseFailure"
<1>1. /\ pc = "collect" /\ Len(message) < N /\ Len(message) \in Nat /\ N \in Nat
      /\ Len(events) = N + Len(message)
      /\ UNCHANGED <<calls, started, finished, results, file>>
  BY DEF Collect, Control, Typed
<1>2. /\ message' \in Seq(AnyResult)
      /\ n \in 1..N /\ Len(message') = n /\ message'[n] = results[n]
      /\ \A i \in 1..Len(message) : message'[i] = message[i]
      /\ Fire(kind, n) /\ pc' = IF n = N THEN "done" ELSE "collect"
  BY <1>1, CollectTyped
<1>3. kind \in {"PreToolUse", "PostToolUse", "PostToolUseFailure"} /\ n \in Nat
  BY <1>1
<1>4. /\ events' \in Seq(AnyEvent) /\ Len(events') = Len(events) + 1
      /\ events'[Len(events')] = [kind |-> kind, call |-> n]
      /\ \A e \in 1..Len(events) : events'[e] = events[e]
  BY <1>2, <1>3, FireTyped
<1>5. Typed' /\ N' = N
  BY <1>1, <1>2, <1>4 DEF Typed, N, AnyResult, AnyEvent
<1>6. ASSUME NEW e \in 1..Len(events') PROVE EventRight(e)'
  <2>1. CASE e \in 1..Len(events)
    <3>1. EventRight(e) /\ events'[e] = events[e]
      BY <1>4, <2>1 DEF Control
    <3>2. e > N => e - N \in 1..Len(message)
      BY <1>1, <2>1
    <3>3. e > N => message'[e - N] = message[e - N]
      BY <1>2, <3>2
    <3>4. QED
      BY <1>1, <1>5, <3>1, <3>3 DEF EventRight
  <2>2. CASE e = Len(events')
    <3>1. e = N + n /\ e > N /\ e - N = n
      BY <1>1, <1>4, <2>2
    <3>2. events'[e].kind = kind /\ events'[e].call = n
      BY <1>4, <2>2
    <3>3. QED
      BY <1>1, <1>5, <3>1, <3>2 DEF EventRight
  <2>3. QED
    BY <1>1, <1>4, <2>1, <2>2
<1>7. \A i \in 1..Len(message') : message'[i] = results'[i]
  BY <1>1, <1>2 DEF Control
<1>8. Control'
  BY <1>1, <1>2, <1>4, <1>5, <1>6, <1>7 DEF Control, Mutating
<1>9. QED
  BY <1>5, <1>8

\* All steps of a batch.
LEMMA ControlKept == CInv /\ [Next]_vars => CInv'
<1> SUFFICES ASSUME CInv, [Next]_vars PROVE CInv'
  OBVIOUS
<1>1. CASE UNCHANGED vars
  BY <1>1 DEF vars, CInv, Typed, Control, EventRight, N, AnyResult, AnyEvent, Mutating
<1>2. DOMAIN calls = 1..N
  BY DEF CInv, Typed
<1>3. QED
  BY <1>1, <1>2, AnnounceStep, HandlerStep, CollectStep DEF Next, Runner, Handler

\* What is announced and reported, always.
LEMMA ControlInvariant == Spec => []CInv
BY InitControl, ControlKept, PTL DEF Spec

\* Every variable of a batch keeps its type; a result is only stored for a handler that
\* has begun.
THEOREM BatchTypeCorrect == Spec => []TypeOK
<1>1. CInv => TypeOK
  BY DEF CInv, Typed, TypeOK, AnyResult, N
<1>2. QED
  BY ControlInvariant, <1>1, PTL

\* The batch begins as a unit, nothing is reported before every handler is done, and the
\* completions come in the order of the calls and say what the message says
\* (runToolCalls), for batches of any length.
THEOREM BatchIsReported == Spec => []BatchReported
<1>1. CInv => BatchReported
  <2> SUFFICES ASSUME CInv PROVE BatchReported
    OBVIOUS
  <2>1. started # {} => Len(events) >= Len(calls)
    <3>1. Len(message) \in Nat /\ N \in Nat
      BY DEF CInv, Typed
    <3>2. started # {} => Len(events) = N + Len(message)
      BY DEF CInv, Control
    <3>3. QED
      BY <3>1, <3>2 DEF N
  <2>2. message # <<>> => finished = DOMAIN calls
    BY DEF CInv, Control, Typed
  <2>3. QED
    BY <2>1, <2>2 DEF CInv, Control, EventRight, BatchReported, N
<1>2. QED
  BY ControlInvariant, <1>1, PTL

----------------------------------------------------------------------------
(* The file.                                                                *)

IsEdit(a) == calls[file[a]] = "edit"

\* The file holds the edits up to k, and no edit after it.
SplitAt(k) == \A a \in 1..Len(file) : a <= k <=> IsEdit(a)

\* The file holds the writes of the finished calls, the edits first and in the order of
\* the calls; no mutating call has begun before all earlier ones have finished.
FileRight ==
  /\ \A a \in 1..Len(file) : file[a] \in finished /\ Writes(file[a])
  /\ \A a, b \in 1..Len(file) : a # b => file[a] # file[b]
  /\ \A i \in finished : Writes(i) => \E a \in 1..Len(file) : file[a] = i
  /\ \E k \in 0..Len(file) : SplitAt(k)
  /\ pc \in {"announce", "mutate"} => SplitAt(Len(file))
  /\ \A a, b \in 1..Len(file) : a < b /\ IsEdit(a) /\ IsEdit(b) => file[a] < file[b]
  /\ \A i \in started \cap Mutating : \A j \in Mutating : j < i => j \in finished

\* The read i has seen the first m writes, all the edits among them; if it was torn,
\* a later write is in the file or still going on.
ReadAt(i, m) ==
  /\ results[i] = Result(TRUE, SubSeq(file, 1, m), results[i].torn)
  /\ \A a \in 1..Len(file) : IsEdit(a) => a <= m
  /\ results[i].torn => m < Len(file) \/ Torn

ResultRight(i) ==
  /\ calls[i] \in {"edit", "shell"} => results[i] = Result(TRUE, <<>>, FALSE)
  /\ calls[i] \in {"badEdit", "unknown"} => results[i] = Result(FALSE, <<>>, FALSE)
  /\ calls[i] = "read" => \E m \in 0..Len(file) : ReadAt(i, m)

FInv == FileRight /\ \A i \in finished : ResultRight(i)

\* What a file held stays when more is written.
LEMMA AppendKeepsPrefix ==
  ASSUME NEW S, NEW f \in Seq(S), NEW x \in S, NEW m \in 0..Len(f)
  PROVE  SubSeq(Append(f, x), 1, m) = SubSeq(f, 1, m)
<1>1. Append(f, x) \in Seq(S) /\ Len(Append(f, x)) = Len(f) + 1 /\ Len(f) \in Nat
      /\ \A a \in 1..Len(f) : Append(f, x)[a] = f[a]
  OBVIOUS
<1>2. /\ SubSeq(f, 1, m) \in Seq(S) /\ Len(SubSeq(f, 1, m)) = m
      /\ \A a \in 1..m : SubSeq(f, 1, m)[a] = f[a]
  BY <1>1
<1> DEFINE g == Append(f, x)
<1> HIDE DEF g
<1>3. /\ SubSeq(g, 1, m) \in Seq(S) /\ Len(SubSeq(g, 1, m)) = m
      /\ \A a \in 1..m : SubSeq(g, 1, m)[a] = g[a]
  BY <1>1 DEF g
<1>4. \A a \in 1..m : SubSeq(g, 1, m)[a] = SubSeq(f, 1, m)[a]
  BY <1>1, <1>2, <1>3 DEF g
<1>5. QED
  BY <1>2, <1>3, <1>4 DEF g

\* All of a sequence.
LEMMA WholePrefix == ASSUME NEW S, NEW f \in Seq(S) PROVE SubSeq(f, 1, Len(f)) = f
OBVIOUS

\* Steps that leave the file alone.
LEMMA FileStays ==
  ASSUME CInv, FInv, UNCHANGED <<calls, file, finished, results>>, started \subseteq started',
         pc' \in {"announce", "mutate"} => pc \in {"announce", "mutate"},
         \A i \in (started' \ started) \cap Mutating :
           \A j \in Mutating : j < i => j \in finished
  PROVE  FInv'
<1>1. Torn => Torn'
  BY DEF Torn, Writes
<1>2. Mutating' = Mutating
  BY DEF Mutating
<1>3. FileRight'
  BY <1>2 DEF FInv, FileRight, SplitAt, IsEdit, Writes
<1>4. ASSUME NEW i \in finished PROVE ResultRight(i)'
  <2>1. ResultRight(i)
    BY DEF FInv
  <2>2. QED
    BY <1>1, <2>1 DEF ResultRight, ReadAt, IsEdit
<1>5. QED
  BY <1>3, <1>4 DEF FInv

\* A handler that writes nothing returns.
LEMMA LookStep ==
  ASSUME CInv, FInv, NEW i \in 1..N, Finish(i), ~Writes(i)
  PROVE  FInv'
<1>1. /\ UNCHANGED <<calls, pc, started, file>> /\ i \in started \ finished
      /\ finished' = finished \cup {i}
  BY FinishTyped DEF Finish, CInv
<1>2. /\ \A j \in 1..N : j # i => results'[j] = results[j]
      /\ calls[i] = "read" => results'[i] = Result(TRUE, file, Torn)
      /\ calls[i] \in {"edit", "shell"} => results'[i] = Result(TRUE, <<>>, FALSE)
      /\ calls[i] \in {"badEdit", "unknown"} => results'[i] = Result(FALSE, <<>>, FALSE)
  BY FinishTyped DEF CInv
<1>3. Torn' = Torn
  BY <1>1 DEF Torn, Writes
<1>4. Mutating' = Mutating
  BY <1>1 DEF Mutating
<1>5. FileRight'
  BY <1>1, <1>4 DEF FInv, FileRight, SplitAt, IsEdit, Writes
<1>6. ASSUME NEW j \in finished PROVE ResultRight(j)'
  <2>1. ResultRight(j) /\ j \in 1..N /\ j # i
    BY <1>1 DEF FInv, CInv, Typed
  <2>2. QED
    BY <1>1, <1>2, <1>3, <2>1 DEF ResultRight, ReadAt, IsEdit
<1>7. ResultRight(i)'
  <2>1. ASSUME calls[i] = "read" PROVE ReadAt(i, Len(file))'
    <3>1. file \in Seq(1..N)
      BY DEF CInv, Typed
    <3>2. SubSeq(file, 1, Len(file)) = file
      BY <3>1, WholePrefix
    <3>3. results'[i] = Result(TRUE, file, Torn) /\ results'[i].torn = Torn
      BY <1>2, <2>1 DEF Result
    <3>4. \A a \in 1..Len(file) : a <= Len(file)
      BY <3>1
    <3>5. QED
      BY <1>1, <1>3, <3>2, <3>3, <3>4 DEF ReadAt
  <2>2. Len(file) \in 0..Len(file)
    BY DEF CInv, Typed
  <2>3. QED
    BY <1>1, <1>2, <2>1, <2>2 DEF ResultRight
<1>8. QED
  BY <1>1, <1>5, <1>6, <1>7 DEF FInv

\* A handler that writes returns: an edit while all writes are edits, a shell command
\* after the last edit.
LEMMA WriteStep ==
  ASSUME CInv, FInv, NEW i \in 1..N, Finish(i), Writes(i)
  PROVE  FInv'
<1>0. PICK L \in Nat : L = Len(file)
  BY DEF CInv, Typed
<1>1. /\ UNCHANGED <<calls, pc, started>> /\ i \in started /\ i \notin finished
      /\ finished' = finished \cup {i} /\ file' = Append(file, i)
      /\ \A j \in 1..N : j # i => results'[j] = results[j]
  BY FinishTyped DEF Finish, CInv
<1>2. /\ file \in Seq(1..N) /\ L \in Nat /\ Len(file') = L + 1 /\ file'[L + 1] = i
      /\ \A a \in 1..L : file'[a] = file[a]
  BY <1>0, <1>1 DEF CInv, Typed
<1>3. Mutating' = Mutating /\ (i \in Mutating <=> calls[i] = "edit") /\ calls[i] \in {"edit", "shell"}
  BY <1>1 DEF Mutating, mutatingTool, Writes, CInv, Typed
<1>4. results'[i] = Result(TRUE, <<>>, FALSE)
  BY <1>3, FinishTyped DEF CInv
<1>5. /\ finished \subseteq started /\ started \subseteq 1..N /\ pc \in {"mutate", "wave"}
      /\ pc = "mutate" => started \subseteq Mutating
      /\ pc = "wave" => Mutating \subseteq finished
  BY <1>1 DEF CInv, Control, Typed
<1>6. pc = (IF calls[i] = "edit" THEN "mutate" ELSE "wave")
  BY <1>1, <1>3, <1>5
<1>7. \A a \in 1..L : file[a] \in finished /\ Writes(file[a]) /\ file[a] # i
  BY <1>0, <1>1 DEF FInv, FileRight
<1>8. \A a \in 1..L + 1 : Writes(file'[a]) /\ file'[a] \in finished'
  <2>2. \A a \in 1..L : Writes(file'[a]) /\ file'[a] \in finished'
    BY <1>1, <1>2, <1>7
  <2>3. \A a \in 1..L + 1 : a \in 1..L \/ a = L + 1
    BY <1>2
  <2>4. QED
    BY <1>1, <1>2, <2>2, <2>3
<1>9. \A a, b \in 1..L + 1 : a # b => file'[a] # file'[b]
  <2>1. \A a, b \in 1..L : a # b => file[a] # file[b]
    BY <1>0 DEF FInv, FileRight
  <2>2. \A a \in 1..L + 1 : a \in 1..L \/ a = L + 1
    BY <1>2
  <2>3. QED
    BY <1>2, <1>7, <2>1, <2>2
<1>10. \A j \in finished' : Writes(j)' => \E a \in 1..L + 1 : file'[a] = j
  <2> SUFFICES ASSUME NEW j \in finished', Writes(j)' PROVE \E a \in 1..L + 1 : file'[a] = j
    OBVIOUS
  <2>1. CASE j = i
    BY <1>2, <2>1
  <2>2. CASE j \in finished
    <3>1. Writes(j)
      BY <1>1 DEF Writes
    <3>2. PICK a \in 1..L : file[a] = j
      BY <1>0, <2>2, <3>1 DEF FInv, FileRight
    <3>3. QED
      BY <1>2, <3>2
  <2>3. QED
    BY <1>1, <2>1, <2>2
<1>11. /\ \A a \in 1..L : IsEdit(a)' <=> IsEdit(a)
       /\ IsEdit(L + 1)' <=> calls[i] = "edit"
  BY <1>1, <1>2 DEF IsEdit
<1>12. \A a \in 1..L + 1 : a \in 1..L \/ a = L + 1
  BY <1>2
<1>13. \A j \in started' \cap Mutating' : \A h \in Mutating' : h < j => h \in finished'
  BY <1>1, <1>3 DEF FInv, FileRight
<1>14. CASE calls[i] = "edit"
  <2>1. \A a \in 1..L : IsEdit(a)
    BY <1>0, <1>6, <1>14 DEF FInv, FileRight, SplitAt
  <2>2. \A a \in 1..L + 1 : IsEdit(a)'
    BY <1>11, <1>12, <1>14, <2>1
  <2>3. SplitAt(L + 1)'
    BY <1>2, <2>2 DEF SplitAt
  <2>4. \A a \in 1..L : file[a] < i
    <3> SUFFICES ASSUME NEW a \in 1..L PROVE file[a] < i
      OBVIOUS
    <3>1. file[a] \in 1..N /\ file[a] # i /\ file[a] \in started /\ calls[file[a]] = "edit"
      BY <1>2, <1>5, <1>7, <2>1 DEF IsEdit
    <3>2. file[a] \in Mutating
      BY <3>1 DEF Mutating, mutatingTool, CInv, Typed
    <3>3. ~(i < file[a])
      BY <1>1, <1>3, <1>14, <3>1, <3>2 DEF FInv, FileRight
    <3>4. N \in Nat
      BY DEF CInv, Typed
    <3>5. QED
      BY <3>1, <3>3, <3>4
  <2>5. \A a, b \in 1..L + 1 : a < b => file'[a] < file'[b]
    <3>1. \A a, b \in 1..L : a < b => file[a] < file[b]
      BY <1>0, <2>1 DEF FInv, FileRight
    <3>2. QED
      BY <1>2, <1>12, <2>4, <3>1
  <2>6. L + 1 \in 0..L + 1
    BY <1>2
  <2>7. FileRight'
    BY <1>1, <1>2, <1>8, <1>9, <1>10, <1>13, <2>3, <2>5, <2>6 DEF FileRight, Writes
  <2>8. ASSUME NEW j \in finished PROVE ResultRight(j)'
    <3>1. ResultRight(j) /\ j \in 1..N /\ j # i /\ j \in Mutating
      BY <1>1, <1>5, <1>6, <1>14 DEF FInv
    <3>2. calls[j] # "read"
      BY <3>1 DEF Mutating, mutatingTool
    <3>3. QED
      BY <1>1, <3>1, <3>2 DEF ResultRight
  <2>9. ResultRight(i)'
    BY <1>1, <1>4, <1>14 DEF ResultRight
  <2>10. QED
    BY <1>1, <2>7, <2>8, <2>9 DEF FInv
<1>15. CASE calls[i] = "shell"
  <2>1. PICK k \in 0..L : SplitAt(k)
    BY <1>0 DEF FInv, FileRight
  <2>2. SplitAt(k)' /\ k \in 0..L + 1
    <3>1. \A a \in 1..L : a <= k <=> IsEdit(a)
      BY <1>0, <2>1 DEF SplitAt
    <3>2. ~(L + 1 <= k) /\ ~IsEdit(L + 1)' /\ k \in 0..L + 1
      BY <1>2, <1>11, <1>15, <2>1
    <3>3. \A a \in 1..L + 1 : a <= k <=> IsEdit(a)'
      BY <1>11, <1>12, <3>1, <3>2
    <3>4. QED
      BY <1>2, <3>2, <3>3 DEF SplitAt
  <2>3. ASSUME NEW a \in 1..L + 1, NEW b \in 1..L + 1, a < b, IsEdit(a)', IsEdit(b)'
        PROVE  file'[a] < file'[b]
    <3>1. a \in 1..L /\ b \in 1..L /\ IsEdit(a) /\ IsEdit(b)
      BY <1>2, <1>11, <1>12, <1>15, <2>3
    <3>2. file[a] < file[b]
      BY <1>0, <2>3, <3>1 DEF FInv, FileRight
    <3>3. QED
      BY <1>2, <3>1, <3>2
  <2>4. pc' \notin {"announce", "mutate"}
    BY <1>1, <1>6, <1>15
  <2>5. FileRight'
    BY <1>1, <1>2, <1>8, <1>9, <1>10, <1>13, <2>2, <2>3, <2>4 DEF FileRight, Writes
  <2>6. ASSUME NEW j \in finished, calls[j] = "read" PROVE \E m \in 0..L + 1 : ReadAt(j, m)'
    <3>1. j \in 1..N /\ j # i /\ ResultRight(j)
      BY <1>1, <1>5 DEF FInv
    <3>2. PICK m \in 0..L : ReadAt(j, m)
      BY <1>0, <2>6, <3>1 DEF ResultRight
    <3>3. SubSeq(file', 1, m) = SubSeq(file, 1, m)
      BY <1>0, <1>1, <1>2, AppendKeepsPrefix
    <3>4. \A a \in 1..L + 1 : IsEdit(a)' => a <= m
      BY <1>0, <1>11, <1>12, <1>15, <3>2 DEF ReadAt
    <3>5. m < L + 1 /\ m \in 0..L + 1
      BY <1>2, <3>2
    <3>6. results'[j] = Result(TRUE, SubSeq(file', 1, m), results'[j].torn)
      BY <1>1, <3>1, <3>2, <3>3 DEF ReadAt
    <3>7. ReadAt(j, m)'
      BY <1>2, <3>4, <3>5, <3>6 DEF ReadAt
    <3>8. QED
      BY <3>5, <3>7
  <2>7. ASSUME NEW j \in finished PROVE ResultRight(j)'
    <3>1. ResultRight(j) /\ j \in 1..N /\ j # i
      BY <1>1, <1>5 DEF FInv
    <3>2. calls[j] = "read" => \E m \in 0..Len(file') : ReadAt(j, m)'
      BY <1>2, <2>6
    <3>3. QED
      BY <1>1, <3>1, <3>2 DEF ResultRight
  <2>8. ResultRight(i)'
    BY <1>1, <1>4, <1>15 DEF ResultRight
  <2>9. QED
    BY <1>1, <2>5, <2>7, <2>8 DEF FInv
<1>16. QED
  BY <1>3, <1>14, <1>15

\* The file and what the calls saw of it, in every step of a batch.
LEMMA FileKept == ASSUME CInv, FInv, [Next]_vars PROVE FInv'
<1>1. CASE UNCHANGED vars
  <2>1. UNCHANGED <<calls, file, finished, results, started, pc>>
    BY <1>1 DEF vars
  <2>2. QED
    BY <2>1, FileStays
<1>2. CASE Announce \/ Launch \/ Wait \/ Collect
  <2>1. UNCHANGED <<calls, file, finished, results, started>>
    BY <1>2 DEF Announce, Launch, Wait, Collect
  <2>2. pc' \in {"announce", "mutate"} => pc \in {"announce", "mutate"}
    BY <1>2 DEF Announce, Launch, Wait, Collect
  <2>3. QED
    BY <2>1, <2>2, FileStays
<1>3. CASE \E i \in Mutating : StartMutating(i)
  <2> PICK i \in Mutating : StartMutating(i)
    BY <1>3
  <2>1. /\ UNCHANGED <<calls, file, finished, results, pc>> /\ started' = started \cup {i}
        /\ \A j \in Mutating : j < i => j \in finished
    BY DEF StartMutating
  <2>2. QED
    BY <2>1, FileStays
<1>4. CASE \E i \in 1..N : StartReadOnly(i)
  <2> PICK i \in 1..N : StartReadOnly(i)
    BY <1>4
  <2>1. /\ UNCHANGED <<calls, file, finished, results, pc>> /\ started' = started \cup {i}
        /\ i \notin Mutating
    BY DEF StartReadOnly, ReadOnly
  <2>2. QED
    BY <2>1, FileStays
<1>5. CASE \E i \in 1..N : Finish(i)
  BY <1>5, LookStep, WriteStep
<1>6. DOMAIN calls = 1..N
  BY DEF CInv, Typed
<1>7. QED
  BY <1>1, <1>2, <1>3, <1>4, <1>5, <1>6 DEF Next, Runner, Handler

\* An empty file is right before the first call.
LEMMA InitFile == Init => FInv
<1> SUFFICES ASSUME Init PROVE FInv
  OBVIOUS
<1>1. Len(file) = 0 /\ finished = {} /\ started = {} /\ 0 \in 0..Len(file)
  BY DEF Init
<1>2. SplitAt(0)
  BY <1>1 DEF SplitAt
<1>3. QED
  BY <1>1, <1>2 DEF FInv, FileRight

\* What the file holds, always.
LEMMA FileInvariant == Spec => [](CInv /\ FInv)
<1>1. CInv /\ FInv /\ [Next]_vars => FInv'
  BY FileKept
<1>2. QED
  BY ControlInvariant, InitFile, <1>1, PTL DEF Spec

\* No read of a batch without shell commands is torn: the edits are over before a read
\* begins.
LEMMA ReadsAreWhole ==
  ASSUME CInv, FInv, NEW i \in finished, \A j \in DOMAIN calls : calls[j] # "shell"
  PROVE  ~results[i].torn
<1>1. i \in 1..N /\ DOMAIN calls = 1..N /\ ResultRight(i) /\ i \in started
  BY DEF CInv, Typed, FInv
<1>2. calls[i] \in {"edit", "badEdit", "read", "shell", "unknown"}
  BY <1>1, KindOf DEF CInv
<1>3. CASE calls[i] # "read"
  BY <1>1, <1>2, <1>3 DEF ResultRight, Result
<1>4. CASE calls[i] = "read"
  <2>1. PICK m \in 0..Len(file) : ReadAt(i, m)
    BY <1>1, <1>4 DEF ResultRight
  <2>2. \A a \in 1..Len(file) : IsEdit(a)
    BY <1>1 DEF FInv, FileRight, Writes, IsEdit, CInv, Typed
  <2>3. ~(m < Len(file))
    <3>1. SUFFICES ASSUME m < Len(file) PROVE FALSE
      OBVIOUS
    <3>2. Len(file) \in 1..Len(file)
      BY <2>1, <3>1 DEF CInv, Typed
    <3>3. Len(file) <= m
      BY <2>1, <2>2, <3>2 DEF ReadAt
    <3>4. QED
      BY <2>1, <3>1, <3>3 DEF CInv, Typed
  <2>4. i \notin Mutating
    BY <1>4 DEF Mutating, mutatingTool
  <2>5. Mutating \subseteq finished
    BY <1>1, <2>4 DEF CInv, Control, Typed
  <2>6. ~Torn
    BY <1>1, <2>5 DEF Torn, Writes, Mutating, mutatingTool, CInv, Typed
  <2>7. QED
    BY <2>1, <2>3, <2>6 DEF ReadAt
<1>5. QED
  BY <1>3, <1>4

\* In a batch of any length no read sees a half-written file, unless a shell command of
\* the same message writes it.
THEOREM ReadsAreNotTorn == Spec => []NoTornRead
<1>1. CInv /\ FInv => NoTornRead
  BY ReadsAreWhole DEF NoTornRead
<1>2. QED
  BY FileInvariant, <1>1, PTL
----------------------------------------------------------------------------
(* The batch is an atomic one: what the last Collect completes is one step of *)
(* AtomicBatch, every other step is none.                                    *)

\* A call writes once.
LEMMA FewWrites == ASSUME CInv, FInv PROVE Len(file) <= N
<1>1. file \in Seq(1..N) /\ Len(file) \in Nat /\ N \in Nat
  BY DEF CInv, Typed
<1>2. \A n \in Nat : IsFiniteSet(1..n) /\ Cardinality(1..n) = n
  BY FS_Interval
<1>3. /\ IsFiniteSet(1..Len(file)) /\ Cardinality(1..Len(file)) = Len(file)
      /\ IsFiniteSet(1..N) /\ Cardinality(1..N) = N
  BY <1>1, <1>2
<1>4. file \in [1..Len(file) -> 1..N]
  BY <1>1
<1>5. \A a, b \in 1..Len(file) : a # b => file[a] # file[b]
  BY DEF FInv, FileRight
<1>6. ~(N < Len(file))
  BY <1>3, <1>4, <1>5, FS_PigeonHole, ZenonT(60)
<1>7. QED
  BY <1>1, <1>6

\* A sequence is what comes before a place and what comes after it, and a prefix that
\* reaches past the place is the first part and a prefix of the second.
LEMMA SplitSequence ==
  ASSUME NEW S, NEW f \in Seq(S), NEW k \in 0..Len(f), NEW m \in k..Len(f)
  PROVE  SubSeq(f, 1, m) = SubSeq(f, 1, k) \o SubSeq(SubSeq(f, k + 1, Len(f)), 1, m - k)
<1> DEFINE u == SubSeq(f, 1, k)
           v == SubSeq(f, k + 1, Len(f))
<1>1. Len(f) \in Nat /\ k \in Nat /\ m \in Nat /\ k <= m /\ m <= Len(f)
  OBVIOUS
<1>2. u \in Seq(S) /\ Len(u) = k /\ \A a \in 1..k : u[a] = f[a]
  BY <1>1
<1>3. v \in Seq(S) /\ Len(v) = Len(f) - k /\ \A a \in 1..Len(f) - k : v[a] = f[k + a]
  BY <1>1
<1> HIDE DEF u, v
<1> DEFINE w == SubSeq(v, 1, m - k)
<1>4. w \in Seq(S) /\ Len(w) = m - k /\ \A a \in 1..m - k : w[a] = f[k + a]
  BY <1>1, <1>3
<1> HIDE DEF w
<1>5. u \o w \in Seq(S) /\ Len(u \o w) = m
      /\ \A a \in 1..m : (u \o w)[a] = IF a <= k THEN u[a] ELSE w[a - k]
  <2>1. /\ u \o w \in Seq(S) /\ Len(u \o w) = Len(u) + Len(w)
        /\ \A a \in 1..Len(u) + Len(w) :
             (u \o w)[a] = IF a <= Len(u) THEN u[a] ELSE w[a - Len(u)]
    BY <1>2, <1>4, ConcatProperties
  <2>2. Len(u) = k /\ Len(w) = m - k /\ k + (m - k) = m
    BY <1>1, <1>2, <1>4
  <2>3. QED
    BY <2>1, <2>2
<1>6. \A a \in 1..m : (u \o w)[a] = f[a]
  <2> TAKE a \in 1..m
  <2>1. CASE a <= k
    BY <1>1, <1>2, <1>5, <2>1
  <2>2. CASE ~(a <= k)
    <3>1. a - k \in 1..m - k /\ k + (a - k) = a
      BY <1>1, <2>2
    <3>2. QED
      BY <1>4, <1>5, <2>2, <3>1
  <2>3. QED
    BY <2>1, <2>2
<1>7. SubSeq(f, 1, m) \in Seq(S) /\ Len(SubSeq(f, 1, m)) = m
      /\ \A a \in 1..m : SubSeq(f, 1, m)[a] = f[a]
  BY <1>1
<1>8. SubSeq(f, 1, m) = u \o w
  BY <1>5, <1>6, <1>7
<1>9. QED
  BY <1>8 DEF u, v, w

\* The writes up to k are the edits, in their order, and the rest the shell commands.
LEMMA WritesInOrder ==
  ASSUME CInv, FInv, finished = 1..N, NEW k \in 0..Len(file), SplitAt(k)
  PROVE  LET firsts == SubSeq(file, 1, k)
             order == SubSeq(file, k + 1, Len(file))
         IN  /\ firsts \in AB!Orders(AB!Edits) /\ order \in AB!Orders(AB!Shells)
             /\ AB!InOrder(firsts) /\ file = firsts \o order
<1> DEFINE firsts == SubSeq(file, 1, k)
           order == SubSeq(file, k + 1, Len(file))
           L == Len(file)
<1>1. /\ file \in Seq(1..N) /\ L \in Nat /\ N \in Nat /\ L <= N /\ k \in Nat /\ k <= L
      /\ DOMAIN calls = 1..N /\ Len(calls) = N
  BY FewWrites DEF CInv, Typed, N
<1>2. firsts \in Seq(1..N) /\ Len(firsts) = k /\ DOMAIN firsts = 1..k
      /\ \A a \in 1..k : firsts[a] = file[a]
  BY <1>1
<1>3. order \in Seq(1..N) /\ Len(order) = L - k /\ DOMAIN order = 1..L - k
      /\ \A a \in 1..L - k : order[a] = file[k + a]
  BY <1>1
<1>4. file = firsts \o order
  <2>1. L \in k..L
    BY <1>1
  <2>2. SubSeq(file, 1, L) = firsts \o SubSeq(order, 1, L - k)
    BY <1>1, <2>1, SplitSequence
  <2>3. SubSeq(file, 1, L) = file /\ SubSeq(order, 1, Len(order)) = order
    BY <1>1, <1>3, WholePrefix
  <2>4. QED
    BY <1>3, <2>2, <2>3
<1> HIDE DEF firsts, order
<1>5. \A a \in 1..L : file[a] \in 1..N /\ Writes(file[a]) /\ (a <= k <=> calls[file[a]] = "edit")
  BY <1>1 DEF FInv, FileRight, SplitAt, IsEdit
<1>6. \A a, b \in 1..L : a # b => file[a] # file[b]
  BY DEF FInv, FileRight
<1>7. \A i \in 1..N : Writes(i) => \E a \in 1..L : file[a] = i
  BY DEF FInv, FileRight
<1>8. firsts \in AB!Orders(AB!Edits)
  <2>0. \A a \in 1..k : a \in 1..L /\ a <= k
    BY <1>1
  <2>1. firsts \in [1..k -> AB!Edits]
    <3>1. \A a \in 1..k : file[a] \in DOMAIN calls /\ calls[file[a]] = "edit"
      BY <1>1, <1>5, <2>0
    <3>2. \A a \in 1..k : firsts[a] \in AB!Edits
      BY <1>2, <3>1 DEF AB!Edits
    <3>3. QED
      BY <1>2, <3>2
  <2>2. \A a, b \in 1..k : a # b => firsts[a] # firsts[b]
    <3>1. \A a, b \in 1..k : a # b => file[a] # file[b]
      BY <1>6, <2>0
    <3>2. QED
      BY <1>2, <3>1
  <2>3. ASSUME NEW i \in AB!Edits PROVE \E a \in 1..k : firsts[a] = i
    <3>1. i \in 1..N /\ Writes(i) /\ calls[i] = "edit"
      BY <1>1 DEF AB!Edits, Writes
    <3>2. PICK a \in 1..L : file[a] = i
      BY <1>7, <3>1
    <3>3. a \in 1..k
      BY <1>1, <1>5, <3>1, <3>2
    <3>4. QED
      BY <1>2, <3>2, <3>3
  <2>4. k \in 0..Len(calls)
    BY <1>1
  <2>5. QED
    BY <1>2, <2>1, <2>2, <2>3, <2>4 DEF AB!Orders
<1>9. order \in AB!Orders(AB!Shells)
  <2>1. \A a \in 1..L - k : k + a \in 1..L /\ ~(k + a <= k)
    BY <1>1
  <2>2. order \in [1..L - k -> AB!Shells]
    <3>1. \A a \in 1..L - k : file[k + a] \in DOMAIN calls /\ calls[file[k + a]] = "shell"
      <4> TAKE a \in 1..L - k
      <4>1. /\ file[k + a] \in 1..N /\ Writes(file[k + a])
            /\ (k + a <= k <=> calls[file[k + a]] = "edit")
        BY <1>5, <2>1
      <4>2. ~(k + a <= k)
        BY <2>1
      <4>3. QED
        BY <1>1, <4>1, <4>2 DEF Writes
    <3>2. \A a \in 1..L - k : order[a] \in AB!Shells
      BY <1>3, <3>1 DEF AB!Shells
    <3>3. QED
      BY <1>3, <3>2
  <2>3. \A a, b \in 1..L - k : a # b => order[a] # order[b]
    <3> TAKE a, b \in 1..L - k
    <3>1. a # b => k + a # k + b
      BY <1>1
    <3>2. QED
      BY <1>3, <1>6, <2>1, <3>1
  <2>4. ASSUME NEW i \in AB!Shells PROVE \E a \in 1..L - k : order[a] = i
    <3>1. i \in 1..N /\ Writes(i) /\ calls[i] # "edit"
      BY <1>1 DEF AB!Shells, Writes
    <3>2. PICK a \in 1..L : file[a] = i
      BY <1>7, <3>1
    <3>3. ~(a <= k)
      BY <1>5, <3>1, <3>2
    <3>4. a - k \in 1..L - k /\ k + (a - k) = a
      BY <1>1, <3>3
    <3>5. order[a - k] = i
      BY <1>3, <3>2, <3>4
    <3>6. QED
      BY <3>4, <3>5
  <2>5. L - k \in 0..Len(calls)
    BY <1>1
  <2>6. QED
    BY <1>3, <2>2, <2>3, <2>4, <2>5 DEF AB!Orders
<1>10. AB!InOrder(firsts)
  <2>1. \A a, b \in 1..k : a < b => file[a] < file[b]
    <3> SUFFICES ASSUME NEW a \in 1..k, NEW b \in 1..k, a < b PROVE file[a] < file[b]
      OBVIOUS
    <3>1. a \in 1..L /\ b \in 1..L /\ a <= k /\ b <= k
      BY <1>1
    <3>2. IsEdit(a) /\ IsEdit(b)
      BY <1>5, <3>1 DEF IsEdit
    <3>3. QED
      BY <3>1, <3>2 DEF FInv, FileRight
  <2>2. QED
    BY <1>2, <2>1 DEF AB!InOrder
<1>11. QED
  BY <1>4, <1>8, <1>9, <1>10 DEF firsts, order

\* Every result is one the atomic batch may give.
LEMMA AnswersRight ==
  ASSUME CInv, FInv, finished = 1..N, NEW k \in 0..Len(file), SplitAt(k), NEW i \in 1..N
  PROVE  results[i] \in AB!AnswersTo(calls[i], SubSeq(file, 1, k),
                                     SubSeq(file, k + 1, Len(file)))
<1> DEFINE firsts == SubSeq(file, 1, k)
           order == SubSeq(file, k + 1, Len(file))
<1>1. ResultRight(i)
  BY DEF FInv
<1>2. calls[i] \in {"edit", "badEdit", "read", "shell", "unknown"}
  BY KindOf DEF CInv
<1>3. ASSUME calls[i] = "read" PROVE results[i] \in AB!AnswersTo("read", firsts, order)
  <2>1. file \in Seq(1..N) /\ Len(file) \in Nat /\ k \in Nat /\ k <= Len(file)
    BY DEF CInv, Typed
  <2>2. PICK m \in 0..Len(file) : ReadAt(i, m)
    BY <1>1, <1>3 DEF ResultRight
  <2>3. k <= m
    <3>1. CASE k = 0
      BY <2>2, <3>1
    <3>2. CASE k # 0
      <4>1. k \in 1..Len(file) /\ k <= k
        BY <2>1, <3>2
      <4>2. IsEdit(k)
        BY <4>1 DEF SplitAt
      <4>3. QED
        BY <2>2, <4>1, <4>2 DEF ReadAt
    <3>3. QED
      BY <3>1, <3>2
  <2>4. m \in k..Len(file) /\ m - k \in 0..Len(file) - k
    BY <2>1, <2>2, <2>3
  <2>5. Len(order) = Len(file) - k
    BY <2>1
  <2>6. SubSeq(file, 1, m) = firsts \o SubSeq(order, 1, m - k)
    BY <2>1, <2>4, SplitSequence
  <2>7. ~Torn
    BY DEF Torn, CInv, Typed
  <2>8. results[i].torn => m < Len(file)
    BY <2>2, <2>7 DEF ReadAt
  <2>9. results[i].torn => m - k \in 0..Len(file) - k - 1
    BY <2>1, <2>4, <2>8
  <2>10. results[i].torn \in BOOLEAN
    BY DEF CInv, Typed, AnyResult
  <2> HIDE DEF firsts, order
  <2>11. results[i] = AB!Answer(TRUE, firsts \o SubSeq(order, 1, m - k), results[i].torn)
    BY <2>2, <2>6 DEF ReadAt, Result, AB!Answer
  <2>12. CASE results[i].torn = FALSE
    <3>1. m - k \in 0..Len(order)
      BY <2>4, <2>5
    <3>2. QED
      BY <2>11, <2>12, <3>1 DEF AB!AnswersTo
  <2>13. CASE results[i].torn = TRUE
    <3>1. m - k \in 0..Len(order) - 1
      BY <2>5, <2>9, <2>13
    <3>2. QED
      BY <2>11, <2>13, <3>1 DEF AB!AnswersTo
  <2>14. QED
    BY <2>10, <2>12, <2>13
<1>4. calls[i] \in {"edit", "shell"} => results[i] \in AB!AnswersTo(calls[i], firsts, order)
  BY <1>1 DEF ResultRight, Result, AB!AnswersTo, AB!Answer
<1>5. calls[i] \in {"badEdit", "unknown"} => results[i] \in AB!AnswersTo(calls[i], firsts, order)
  BY <1>1 DEF ResultRight, Result, AB!AnswersTo, AB!Answer
<1>6. QED
  BY <1>2, <1>3, <1>4, <1>5

\* The step that completes the message is the step of the atomic batch.
LEMMA LastPartRuns ==
  ASSUME CInv, FInv, Collect, pc' = "done", CInv'
  PROVE  AB!Run
<1>1. /\ pc = "collect" /\ finished = 1..N /\ Len(message) < N /\ DOMAIN calls = 1..N
      /\ UNCHANGED <<calls, file, results>>
  BY DEF Collect, CInv, Control, Typed
<1>2. PICK k \in 0..Len(file) : SplitAt(k)
  BY DEF FInv, FileRight
<1> DEFINE firsts == SubSeq(file, 1, k)
           order == SubSeq(file, k + 1, Len(file))
<1>3. /\ firsts \in AB!Orders(AB!Edits) /\ order \in AB!Orders(AB!Shells)
      /\ AB!InOrder(firsts) /\ file = firsts \o order
  BY <1>1, <1>2, WritesInOrder
<1>4. \A i \in 1..N : results[i] \in AB!AnswersTo(calls[i], firsts, order)
  BY <1>1, <1>2, AnswersRight
<1> HIDE DEF firsts, order
<1>5. N' = N
  BY <1>1 DEF N
<1>6. /\ Len(message') = N /\ message' \in Seq(AnyResult)'
      /\ \A i \in 1..N : message'[i] = results[i]
  BY <1>1, <1>5 DEF CInv, Control, Typed
<1>7. DOMAIN message' = 1..N
  BY <1>6
<1>8. /\ (IF pc = "done" THEN message ELSE <<>>) = <<>>
      /\ (IF pc' = "done" THEN message' ELSE <<>>) = message'
      /\ (IF pc' = "done" THEN file' ELSE <<>>) = firsts \o order
  BY <1>1, <1>3
<1>9. QED
  BY <1>1, <1>3, <1>4, <1>6, <1>7, <1>8 DEF AB!Run

\* Every other step changes nothing the atomic batch shows.
LEMMA OthersStutter ==
  ASSUME CInv, [Next]_vars, ~(Collect /\ pc' = "done")
  PROVE  UNCHANGED <<calls, IF pc = "done" THEN message ELSE <<>>,
                     IF pc = "done" THEN file ELSE <<>>>>
<1>1. CASE UNCHANGED vars
  BY <1>1 DEF vars
<1>2. CASE Next
  <2>1. calls' = calls
    BY <1>2 DEF Next, Runner, Handler, Announce, Launch, Wait, Collect, StartMutating,
                StartReadOnly, Finish
  <2>2. pc # "done"
    <3>1. pc = "done" => started \ finished = {}
      BY DEF CInv, Control, Typed
    <3>2. QED
      BY <1>2, <3>1 DEF Next, Runner, Handler, Announce, Launch, Wait, Collect,
                StartMutating, StartReadOnly, Finish
  <2>3. pc' # "done"
    BY <1>2, <2>2 DEF Next, Runner, Handler, Announce, Launch, Wait, StartMutating,
                StartReadOnly, Finish
  <2>4. QED
    BY <2>1, <2>2, <2>3
<1>3. QED
  BY <1>1, <1>2

\* Whatever the number of calls and the interleaving of their goroutines, a batch of
\* runToolCalls is the atomic one: edits in the order of the calls, reads after them,
\* answers in the order of the calls.
THEOREM BatchIsAtomic == Spec => ImplementsAtomicBatch
<1>1. Init => AB!Init
  BY DEF Init, AB!Init
<1>2. CInv /\ FInv /\ CInv' /\ [Next]_vars =>
        [AB!Run]_<<calls, IF pc = "done" THEN message ELSE <<>>,
                   IF pc = "done" THEN file ELSE <<>>>>
  BY LastPartRuns, OthersStutter
<1>3. QED
  BY FileInvariant, <1>1, <1>2, PTL DEF Spec, ImplementsAtomicBatch, AB!Spec

-----------------------------------------------------------------------------
(* The shell.                                                               *)

\* A process outside of the group is started by a bash that still runs; once the
\* context has ended and killed the group there is none.
LEMMA TreeStaysDead == TimeoutKillsTree /\ [ShellNext]_shellVars => TimeoutKillsTree'
<1> SUFFICES ASSUME TimeoutKillsTree, [ShellNext]_shellVars PROVE TimeoutKillsTree'
  OBVIOUS
<1> USE DEF TimeoutKillsTree, Group
<1>1. CASE UNCHANGED shellVars
  BY <1>1 DEF shellVars
<1>2. CASE RunCommand
  BY <1>2 DEF RunCommand
<1>3. CASE ShellStep
  BY <1>3 DEF ShellStep, BashExited, Reply
<1>4. CASE \E why \in {"deadline", "turn"} : ContextDone(why)
  <2>1. PICK why \in {"deadline", "turn"} : ContextDone(why)
    BY <1>4
  <2>2. CASE cmd = "running"
    BY <2>1, <2>2 DEF ContextDone, Kill
  <2>3. CASE cmd = "draining"
    BY <2>1, <2>3 DEF ContextDone
  <2>4. QED
    BY <2>1, <2>2, <2>3 DEF ContextDone
<1>5. CASE \E p \in {"child", "stray"} : Spawn(p)
  <2>1. PICK p \in {"child", "stray"} : Spawn(p)
    BY <1>5
  <2>2. "bash" \in alive /\ cancel' = cancel /\ early' = early
    BY <2>1 DEF Spawn
  <2>3. QED
    BY <2>2
<1>6. CASE \E p \in {"bash", "child", "stray"} : Exit(p)
  BY <1>6 DEF Exit
<1>7. QED
  BY <1>1, <1>2, <1>3, <1>4, <1>5, <1>6 DEF ShellNext, Deadline

\* "Own process group so a timeout kills the whole tree" (bash.go): after a deadline or
\* a cancelled turn no process of the command's group runs, for any number of commands.
THEOREM KilledTreesStayDead == ShellSpec => []TimeoutKillsTree
<1>1. ShellInit => TimeoutKillsTree
  BY DEF ShellInit, TimeoutKillsTree
<1>2. QED
  BY <1>1, TreeStaysDead, PTL DEF ShellSpec

-----------------------------------------------------------------------------
(* The edits of a call.  Induction goes through a least counterexample.     *)

\* A set of places has a last one.
LEMMA LastPlace ==
  ASSUME NEW n \in Nat, NEW S \in SUBSET (1..n), S # {}
  PROVE  Max(S) \in S /\ \A i \in S : i <= Max(S)
<1> DEFINE W == {n - i : i \in S}
<1>1. W \subseteq Nat /\ W # {}
  <2>1. \A i \in S : n - i \in Nat
    OBVIOUS
  <2>2. QED
    BY <2>1
<1>2. PICK w \in W : \A v \in W : w <= v
  <2> HIDE DEF W
  <2>1. QED
    BY <1>1, LeastNumber
<1>3. PICK i \in S : w = n - i
  OBVIOUS
<1>4. ASSUME NEW j \in S PROVE i >= j
  <2>1. w <= n - j
    BY <1>2
  <2>2. i \in Int /\ j \in Int
    OBVIOUS
  <2> HIDE DEF W
  <2>3. QED
    BY <1>3, <2>1, <2>2
<1>5. Max(S) \in S /\ \A j \in S : Max(S) >= j
  BY <1>4 DEF Max
<1>6. QED
  BY <1>5

\* The lines of the files and of what may be written.
Line == Range(Original) \cup (UNION {Range(text) : text \in Contents})
          \cup (UNION {{list[i].new : i \in DOMAIN list} : list \in EditLists})

EditResult == [ok : BOOLEAN, content : Seq(Line)]

\* The first of the places that are left is edited last.
EditsOf(g, base, list) ==
  g = [s \in SUBSET DOMAIN list |->
         IF s = {} THEN base ELSE ApplyEdit(g[s \ {Max(s)}], list[Max(s)])]

EditIter(base, list) == CHOOSE g : EditsOf(g, base, list)

\* What ApplyEdits computes.
LEMMA ApplyIsIter ==
  ASSUME NEW content, NEW list
  PROVE  ApplyEdits(content, list)
           = EditIter([ok |-> TRUE, content |-> content], list)[DOMAIN list]
  BY DEF ApplyEdits, FoldLeft, MapThenFoldSet, EditIter, EditsOf

\* The same of a function that is right on the first n places.
EditsUpTo(n, g, base, list) ==
  \A s \in SUBSET DOMAIN list : s \subseteq 1..n =>
    g[s] = IF s = {} THEN base ELSE ApplyEdit(g[s \ {Max(s)}], list[Max(s)])

\* An edit of a file gives a file.
LEMMA EditType ==
  ASSUME NEW r \in EditResult, NEW list \in EditLists, NEW i \in DOMAIN list
  PROVE  ApplyEdit(r, list[i]) \in EditResult
<1> DEFINE e == list[i]
<1>1. e.new \in Line
  BY DEF Line
<1> HIDE DEF e
<1>2. r.ok \in BOOLEAN /\ r.content \in Seq(Line)
      /\ r = [ok |-> r.ok, content |-> r.content]
  BY DEF EditResult
<1>3. Swap(r.content, e) \in Seq(Line)
  <2>1. /\ DOMAIN r.content = 1..Len(r.content) /\ Len(r.content) \in Nat
        /\ \A j \in 1..Len(r.content) : r.content[j] \in Line
    BY <1>2
  <2>2. Swap(r.content, e) \in [1..Len(r.content) -> Line]
    BY <1>1, <2>1 DEF Swap
  <2>3. QED
    BY <2>1, <2>2
<1>4. [r EXCEPT !.ok = FALSE] \in EditResult
  BY <1>2 DEF EditResult
<1>5. [r EXCEPT !.content = Swap(r.content, e)] \in EditResult
  BY <1>2, <1>3 DEF EditResult
<1>6. ApplyEdit(r, e) \in {[r EXCEPT !.ok = FALSE],
                           [r EXCEPT !.content = Swap(r.content, e)]}
  BY DEF ApplyEdit
<1>7. QED
  BY <1>4, <1>5, <1>6 DEF e

\* What is left of some of the first n places when the last is taken out.
LEMMA TakeOut ==
  ASSUME NEW list \in EditLists, NEW s \in SUBSET DOMAIN list, s # {},
         NEW n \in Nat, s \subseteq 1..n
  PROVE  /\ n # 0 /\ Max(s) \in DOMAIN list /\ Max(s) \in s
         /\ s \ {Max(s)} \in SUBSET DOMAIN list /\ s \ {Max(s)} \subseteq 1..(n - 1)
<1>1. Max(s) \in s /\ \A i \in s : i <= Max(s)
  BY LastPlace
<1>2. ASSUME NEW i \in s \ {Max(s)} PROVE i \in 1..(n - 1)
  BY <1>1
<1>3. QED
  BY <1>1, <1>2

\* There is a function with that recursion.
LEMMA EditIterExists ==
  ASSUME NEW list \in EditLists, NEW base \in EditResult
  PROVE  \E g \in [SUBSET DOMAIN list -> EditResult] : EditsOf(g, base, list)
<1> DEFINE D == DOMAIN list
           Good(n) == \E g \in [SUBSET D -> EditResult] : EditsUpTo(n, g, base, list)
<1>1. ASSUME NEW i \in Nat, ~Good(i) PROVE FALSE
  <2>1. PICK n \in Nat : ~Good(n) /\ \A m \in Nat : m < n => Good(m)
    <3> DEFINE W == {m \in Nat : ~Good(m)}
    <3> HIDE DEF Good
    <3>1. W \subseteq Nat /\ W # {}
      BY <1>1
    <3>2. PICK n \in W : \A m \in W : n <= m
      <4> HIDE DEF W
      <4>1. QED
        BY <3>1, LeastNumber
    <3>3. n \in Nat /\ ~Good(n)
      BY <3>2
    <3>4. ASSUME NEW m \in Nat, m < n PROVE Good(m)
      BY <3>2, <3>3, <3>4
    <3>5. QED
      BY <3>3, <3>4
  <2>2. n # 0
    <3> DEFINE z == [s \in SUBSET D |-> base]
    <3>1. z \in [SUBSET D -> EditResult] /\ \A s \in SUBSET D : z[s] = base
      OBVIOUS
    <3> HIDE DEF z
    <3>2. EditsUpTo(0, z, base, list)
      BY <3>1 DEF EditsUpTo
    <3>3. QED
      BY <2>1, <3>1, <3>2
  <2>3. PICK g \in [SUBSET D -> EditResult] : EditsUpTo(n - 1, g, base, list)
    <3> HIDE DEF Good
    <3>1. Good(n - 1)
      BY <2>1, <2>2
    <3> USE DEF Good
    <3>2. QED
      BY <3>1
  <2> DEFINE h == [s \in SUBSET D |->
                     IF s \subseteq 1..n /\ s # {}
                       THEN ApplyEdit(g[s \ {Max(s)}], list[Max(s)]) ELSE base]
  <2>4. h \in [SUBSET D -> EditResult]
    <3>1. ASSUME NEW s \in SUBSET D, s \subseteq 1..n, s # {}
          PROVE  ApplyEdit(g[s \ {Max(s)}], list[Max(s)]) \in EditResult
      <4>1. Max(s) \in DOMAIN list /\ s \ {Max(s)} \in SUBSET D
        BY <3>1, TakeOut
      <4>2. g[s \ {Max(s)}] \in EditResult
        BY <4>1
      <4>3. QED
        BY <4>1, <4>2, EditType
    <3>2. QED
      BY <3>1
  <2>5. \A s \in SUBSET D : s \subseteq 1..(n - 1) => h[s] = g[s]
    <3>1. SUFFICES ASSUME NEW s \in SUBSET D, s \subseteq 1..(n - 1) PROVE h[s] = g[s]
      OBVIOUS
    <3>2. s \subseteq 1..n
      BY <2>1, <3>1
    <3>3. g[s] = IF s = {} THEN base ELSE ApplyEdit(g[s \ {Max(s)}], list[Max(s)])
      BY <2>3, <3>1 DEF EditsUpTo
    <3>4. QED
      BY <3>2, <3>3
  <2>6. ASSUME NEW s \in SUBSET D, s \subseteq 1..n
        PROVE  h[s] = IF s = {} THEN base ELSE ApplyEdit(h[s \ {Max(s)}], list[Max(s)])
    <3>1. CASE s = {}
      BY <3>1
    <3>2. CASE s # {}
      <4>1. s \ {Max(s)} \in SUBSET D /\ s \ {Max(s)} \subseteq 1..(n - 1)
        BY <2>1, <2>6, <3>2, TakeOut
      <4>2. h[s \ {Max(s)}] = g[s \ {Max(s)}]
        BY <2>5, <4>1
      <4>3. h[s] = ApplyEdit(g[s \ {Max(s)}], list[Max(s)])
        BY <2>6, <3>2
      <4>4. QED
        BY <3>2, <4>2, <4>3
    <3>3. QED
      BY <3>1, <3>2
  <2> HIDE DEF h
  <2>7. EditsUpTo(n, h, base, list)
    BY <2>6 DEF EditsUpTo
  <2>8. QED
    BY <2>1, <2>4, <2>7
<1>2. Len(list) \in Nat /\ D = 1..Len(list)
  <2>1. list \in Seq(Range(list))
    BY FileAssumption
  <2>2. QED
    BY <2>1
<1>3. PICK g \in [SUBSET D -> EditResult] : EditsUpTo(Len(list), g, base, list)
  BY <1>1, <1>2
<1>4. g = [s \in SUBSET D |->
             IF s = {} THEN base ELSE ApplyEdit(g[s \ {Max(s)}], list[Max(s)])]
  BY <1>2, <1>3 DEF EditsUpTo
<1>5. QED
  BY <1>4 DEF EditsOf

\* The edits of a call make a file of a file.
LEMMA ApplyType ==
  ASSUME NEW list \in EditLists, NEW content \in Seq(Line)
  PROVE  ApplyEdits(content, list) \in EditResult
<1> DEFINE base == [ok |-> TRUE, content |-> content]
           h == EditIter(base, list)
           D == DOMAIN list
<1>1. base \in EditResult
  BY DEF EditResult
<1> HIDE DEF base
<1>2. EditsOf(h, base, list)
  BY <1>1, EditIterExists DEF EditIter
<1>3. \A s \in SUBSET D :
        h[s] = IF s = {} THEN base ELSE ApplyEdit(h[s \ {Max(s)}], list[Max(s)])
  BY <1>2 DEF EditsOf
<1> HIDE DEF h
<1>4. Len(list) \in Nat /\ D = 1..Len(list)
  <2>1. list \in Seq(Range(list))
    BY FileAssumption
  <2>2. QED
    BY <2>1
<1> DEFINE Good(n) == \A s \in SUBSET D : s \subseteq 1..n => h[s] \in EditResult
<1>5. ASSUME NEW i \in Nat, ~Good(i) PROVE FALSE
  <2>1. PICK n \in Nat : ~Good(n) /\ \A m \in Nat : m < n => Good(m)
    <3> DEFINE W == {m \in Nat : ~Good(m)}
    <3> HIDE DEF Good
    <3>1. W \subseteq Nat /\ W # {}
      BY <1>5
    <3>2. PICK n \in W : \A m \in W : n <= m
      <4> HIDE DEF W
      <4>1. QED
        BY <3>1, LeastNumber
    <3>3. n \in Nat /\ ~Good(n)
      BY <3>2
    <3>4. ASSUME NEW m \in Nat, m < n PROVE Good(m)
      BY <3>2, <3>3, <3>4
    <3>5. QED
      BY <3>3, <3>4
  <2>2. PICK s \in SUBSET D : s \subseteq 1..n /\ h[s] \notin EditResult
    BY <2>1
  <2>3. s # {}
    BY <1>1, <1>3, <2>2
  <2>4. /\ n # 0 /\ Max(s) \in D /\ s \ {Max(s)} \in SUBSET D
        /\ s \ {Max(s)} \subseteq 1..(n - 1)
    BY <2>2, <2>3, TakeOut
  <2>5. Good(n - 1)
    <3> HIDE DEF Good
    <3>1. QED
      BY <2>1, <2>4
  <2>6. h[s \ {Max(s)}] \in EditResult
    BY <2>4, <2>5
  <2>7. ApplyEdit(h[s \ {Max(s)}], list[Max(s)]) \in EditResult
    BY <2>4, <2>6, EditType
  <2>8. QED
    BY <1>3, <2>2, <2>3, <2>7
<1>6. h[D] \in EditResult
  BY <1>4, <1>5
<1>7. QED
  BY <1>6, ApplyIsIter DEF h, base

-----------------------------------------------------------------------------
(* The calls that change the file.                                          *)

FilesTyped ==
  /\ disk \in Seq(Line)
  /\ tool \in [Agents -> [pc : {"idle", "write", "truncated"}, edits : EditLists \cup {<<>>},
                          new : Seq(Line)]]
  /\ reader \in [Agents -> [at : Nat \ {0}, seen : Seq(Line), told : {"more", "end", "cut"},
                            total : Nat, same : BOOLEAN]]

\* As long as no call has written between the read and the write of another, and none
\* has failed or died in its write since the file was last written whole: one at most has truncated the file and is going to write what
\* its edits make of the promised file; if none has, the file is as promised, and what
\* the others are going to write is what their edits make of it.
Composed ==
  ~crossed /\ ~torn =>
    /\ \A a, b \in Agents :
         tool[a].pc = "truncated" /\ tool[b].pc = "truncated" => a = b
    /\ (\A a \in Agents : tool[a].pc # "truncated") =>
         /\ disk = promised
         /\ \A a \in Agents : tool[a].pc = "write" /\ tool[a].edits # <<>> =>
              ApplyEdits(disk, tool[a].edits) = [ok |-> TRUE, content |-> tool[a].new]
    /\ \A a \in Agents : tool[a].pc = "truncated" /\ tool[a].edits # <<>> =>
         ApplyEdits(promised, tool[a].edits) = [ok |-> TRUE, content |-> tool[a].new]

\* The files at first and those that may be written are sequences of lines.
LEMMA FileType ==
  ASSUME NEW text \in {Original} \cup Contents
  PROVE  text \in Seq(Line)
<1>1. text \in Seq(Range(text))
  BY FileAssumption
<1>2. Range(text) \subseteq Line
  BY DEF Line
<1>3. QED
  BY <1>1, <1>2

\* An edit that succeeds leaves its new content for the write.
LEMMA EditStep ==
  ASSUME FilesTyped, Composed, NEW a \in Agents, NEW list \in EditLists,
         ReadAndEdit(a, list)
  PROVE  FilesTyped' /\ Composed'
<1> DEFINE r == ApplyEdits(disk, list)
<1>1. r \in EditResult /\ r.ok \in BOOLEAN /\ r.content \in Seq(Line)
      /\ r = [ok |-> r.ok, content |-> r.content]
  <2>1. r \in EditResult
    BY ApplyType DEF FilesTyped
  <2> HIDE DEF r
  <2>2. QED
    BY <2>1 DEF EditResult
<1>2. /\ tool[a].pc = "idle" /\ UNCHANGED <<disk, reader, promised, crossed, torn>>
      /\ tool' = IF r.ok
                   THEN [tool EXCEPT ![a] =
                           [pc |-> "write", edits |-> list, new |-> r.content]]
                   ELSE tool
  BY DEF ReadAndEdit
<1>3. r.ok => r = [ok |-> TRUE, content |-> r.content]
  <2> HIDE DEF r
  <2>1. QED
    BY <1>1
<1>4. r = ApplyEdits(disk, list)
  OBVIOUS
<1> HIDE DEF r
<1>5. CASE ~r.ok
  BY <1>2, <1>5 DEF FilesTyped, Composed
<1>6. CASE r.ok
  <2> DEFINE e == [pc |-> "write", edits |-> list, new |-> r.content]
  <2>1. e \in [pc : {"idle", "write", "truncated"}, edits : EditLists \cup {<<>>},
               new : Seq(Line)]
        /\ e.pc = "write" /\ e.edits = list /\ e.new = r.content
    BY <1>1
  <2> HIDE DEF e
  <2>2. tool' = [tool EXCEPT ![a] = e]
    BY <1>2, <1>6 DEF e
  <2>3. FilesTyped'
    BY <1>2, <2>1, <2>2 DEF FilesTyped
  <2>4. \A b \in Agents : tool'[b] = IF b = a THEN e ELSE tool[b]
    BY <2>2 DEF FilesTyped
  <2>5. \A b \in Agents : tool'[b].pc = "truncated" =>
          b # a /\ tool[b].pc = "truncated" /\ tool'[b] = tool[b]
    BY <2>1, <2>4
  <2>6. \A b \in Agents : tool[b].pc = "truncated" => tool'[b].pc = "truncated"
    BY <1>2, <2>4
  <2>7. ApplyEdits(disk, list) = [ok |-> TRUE, content |-> e.new]
    BY <1>3, <1>4, <1>6, <2>1
  <2>8. Composed'
    <3>1. SUFFICES ASSUME ~crossed, ~torn PROVE Composed'
      BY <1>2 DEF Composed
    <3>2. \A b, c \in Agents :
            tool'[b].pc = "truncated" /\ tool'[c].pc = "truncated" => b = c
      BY <2>5, <3>1 DEF Composed
    <3>3. ASSUME \A b \in Agents : tool'[b].pc # "truncated"
          PROVE  /\ disk = promised
                 /\ \A b \in Agents : tool'[b].pc = "write" /\ tool'[b].edits # <<>> =>
                      ApplyEdits(disk, tool'[b].edits) =
                        [ok |-> TRUE, content |-> tool'[b].new]
      BY <2>1, <2>4, <2>6, <2>7, <3>1, <3>3 DEF Composed
    <3>4. \A b \in Agents : tool'[b].pc = "truncated" /\ tool'[b].edits # <<>> =>
            ApplyEdits(promised, tool'[b].edits) = [ok |-> TRUE, content |-> tool'[b].new]
      BY <2>5, <3>1 DEF Composed
    <3>5. QED
      BY <1>2, <3>2, <3>3, <3>4 DEF Composed
  <2>9. QED
    BY <2>3, <2>8
<1>7. QED
  BY <1>1, <1>5, <1>6

\* write reads nothing, so there is nothing it could have read too early.
LEMMA WriteCallStep ==
  ASSUME FilesTyped, Composed, NEW a \in Agents, NEW content \in Contents,
         Write(a, content)
  PROVE  FilesTyped' /\ Composed'
<1> DEFINE e == [pc |-> "write", edits |-> <<>>, new |-> content]
<1>1. e \in [pc : {"idle", "write", "truncated"}, edits : EditLists \cup {<<>>},
             new : Seq(Line)]
      /\ e.pc = "write" /\ e.edits = <<>>
  BY FileType
<1>2. /\ tool[a].pc = "idle" /\ UNCHANGED <<disk, reader, promised, crossed, torn>>
      /\ tool' = [tool EXCEPT ![a] = e]
  BY DEF Write
<1> HIDE DEF e
<1>3. FilesTyped'
  BY <1>1, <1>2 DEF FilesTyped
<1>4. \A b \in Agents : tool'[b] = IF b = a THEN e ELSE tool[b]
  BY <1>2 DEF FilesTyped
<1>5. Composed'
  BY <1>1, <1>2, <1>4 DEF Composed
<1>6. QED
  BY <1>3, <1>5

\* Who cannot open the file leaves it as it is.
LEMMA OpenFailsStep ==
  ASSUME FilesTyped, Composed, NEW a \in Agents, OpenFails(a)
  PROVE  FilesTyped' /\ Composed'
<1>1. /\ tool[a].pc = "write" /\ UNCHANGED <<disk, reader, promised, crossed, torn>>
      /\ tool' = [tool EXCEPT ![a] = NoTool]
  BY DEF OpenFails
<1>2. /\ NoTool \in [pc : {"idle", "write", "truncated"}, edits : EditLists \cup {<<>>},
                     new : Seq(Line)]
      /\ NoTool.pc = "idle"
  BY DEF NoTool
<1>3. FilesTyped'
  BY <1>1, <1>2 DEF FilesTyped
<1>4. \A b \in Agents : tool'[b] = IF b = a THEN NoTool ELSE tool[b]
  BY <1>1 DEF FilesTyped
<1>5. Composed'
  BY <1>1, <1>2, <1>4 DEF Composed
<1>6. QED
  BY <1>3, <1>5

\* Who fails to write what it has truncated leaves the file torn.
LEMMA WriteFailsStep ==
  ASSUME FilesTyped, Composed, NEW a \in Agents, WriteFails(a)
  PROVE  FilesTyped' /\ Composed'
<1>1. /\ \E n \in 0..Len(tool[a].new) : disk' = SubSeq(tool[a].new, 1, n)
      /\ Under(a) /\ torn' = TRUE
      /\ tool' = [tool EXCEPT ![a] = NoTool]
  BY DEF WriteFails
<1>2. NoTool \in [pc : {"idle", "write", "truncated"}, edits : EditLists \cup {<<>>},
                  new : Seq(Line)]
  BY DEF NoTool
<1>3. disk' \in Seq(Line)
  <2>1. PICK new \in Seq(Line) : new = tool[a].new
    BY DEF FilesTyped
  <2>2. PICK n \in 0..Len(new) : disk' = SubSeq(new, 1, n)
    BY <1>1, <2>1
  <2>3. n \in Int /\ \A i \in 1..n : new[i] \in Line
    BY <2>1, <2>2
  <2>4. QED
    BY <2>2, <2>3, SubSeqProperties
<1>4. tool' \in [Agents -> [pc : {"idle", "write", "truncated"},
                            edits : EditLists \cup {<<>>}, new : Seq(Line)]]
  BY <1>1, <1>2 DEF FilesTyped
<1>5. reader' \in [Agents -> [at : Nat \ {0}, seen : Seq(Line),
                              told : {"more", "end", "cut"}, total : Nat,
                              same : BOOLEAN]]
  BY <1>1 DEF FilesTyped, Under
<1>6. Composed'
  BY <1>1 DEF Composed
<1>7. QED
  BY <1>3, <1>4, <1>5, <1>6 DEF FilesTyped

\* Who opens the file for its write truncates it: if no other has read it, what is
\* promised is what its edits were made on.
LEMMA TruncateStep ==
  ASSUME FilesTyped, Composed, NEW a \in Agents, Truncate(a)
  PROVE  FilesTyped' /\ Composed'
<1>1. /\ tool[a].pc = "write" /\ disk' = <<>> /\ Under(a)
      /\ tool' = [tool EXCEPT ![a].pc = "truncated"] /\ UNCHANGED <<promised, torn>>
  BY DEF Truncate
<1>2. \A b \in Agents : /\ tool'[b].edits = tool[b].edits /\ tool'[b].new = tool[b].new
                        /\ tool'[b].pc = IF b = a THEN "truncated" ELSE tool[b].pc
  BY <1>1 DEF FilesTyped
<1>3. FilesTyped'
  <2>1. tool' \in [Agents -> [pc : {"idle", "write", "truncated"},
                              edits : EditLists \cup {<<>>}, new : Seq(Line)]]
    BY <1>1, ZenonT(60) DEF FilesTyped
  <2>2. reader' \in [Agents -> [at : Nat \ {0}, seen : Seq(Line),
                                told : {"more", "end", "cut"}, total : Nat,
                                same : BOOLEAN]]
    BY <1>1 DEF FilesTyped, Under
  <2>3. disk' \in Seq(Line)
    BY <1>1
  <2>4. QED
    BY <2>1, <2>2, <2>3 DEF FilesTyped
<1>4. Composed'
  <2>1. SUFFICES ASSUME ~crossed', ~torn' PROVE Composed'
    BY DEF Composed
  <2>2. ~crossed /\ ~torn /\ \A b \in Agents \ {a} : tool[b].pc = "idle"
    BY <1>1, <2>1 DEF Under
  <2>3. \A b \in Agents : tool[b].pc # "truncated"
    BY <1>1, <2>2
  <2>4. /\ disk = promised
        /\ tool[a].edits # <<>> =>
             ApplyEdits(disk, tool[a].edits) = [ok |-> TRUE, content |-> tool[a].new]
    BY <1>1, <2>2, <2>3 DEF Composed
  <2>5. QED
    BY <1>1, <1>2, <2>2, <2>4 DEF Composed
<1>5. QED
  BY <1>3, <1>4

\* Who has truncated the file writes it: it is as promised again, and if it was torn
\* and the whole of it is written, it is torn no more.
LEMMA WriteOutStep ==
  ASSUME FilesTyped, Composed, NEW a \in Agents, WriteOut(a)
  PROVE  FilesTyped' /\ Composed'
<1> DEFINE r == ApplyEdits(promised, tool[a].edits)
<1>1. /\ tool[a].pc = "truncated" /\ disk' = tool[a].new /\ Under(a)
      /\ promised' = IF tool[a].edits = <<>> THEN tool[a].new
                       ELSE IF r.ok THEN r.content ELSE promised
      /\ tool' = [tool EXCEPT ![a] = NoTool] /\ torn' = (torn /\ tool[a].edits # <<>>)
  BY DEF WriteOut
<1>2. /\ NoTool \in [pc : {"idle", "write", "truncated"}, edits : EditLists \cup {<<>>},
                     new : Seq(Line)]
      /\ NoTool.pc = "idle"
  BY DEF NoTool
<1>3. FilesTyped'
  <2>1. tool' \in [Agents -> [pc : {"idle", "write", "truncated"},
                              edits : EditLists \cup {<<>>}, new : Seq(Line)]]
    BY <1>1, <1>2 DEF FilesTyped
  <2>2. reader' \in [Agents -> [at : Nat \ {0}, seen : Seq(Line),
                                told : {"more", "end", "cut"}, total : Nat,
                                same : BOOLEAN]]
    BY <1>1 DEF FilesTyped, Under
  <2>3. disk' \in Seq(Line)
    BY <1>1 DEF FilesTyped
  <2>4. QED
    BY <2>1, <2>2, <2>3 DEF FilesTyped
<1>4. Composed'
  <2>1. SUFFICES ASSUME ~crossed', ~torn' PROVE Composed'
    BY DEF Composed
  <2>2. /\ ~crossed /\ (tool[a].edits # <<>> => ~torn)
        /\ \A b \in Agents \ {a} : tool[b].pc = "idle"
    BY <1>1, <2>1 DEF Under
  <2>3. \A b \in Agents : tool'[b].pc = "idle"
    BY <1>1, <1>2, <2>2 DEF FilesTyped
  <2>4. tool[a].edits # <<>> => r = [ok |-> TRUE, content |-> tool[a].new]
    BY <1>1, <2>2 DEF Composed
  <2> HIDE DEF r
  <2>5. promised' = tool[a].new
    BY <1>1, <2>4
  <2>6. QED
    BY <1>1, <2>3, <2>5 DEF Composed
<1>5. QED
  BY <1>3, <1>4

\* A reader starts over.
LEMMA UnreadType ==
  /\ Unread \in [at : Nat \ {0}, seen : Seq(Line), told : {"more", "end", "cut"},
                 total : Nat, same : BOOLEAN]
  /\ Unread.at = 1 /\ Unread.seen = <<>> /\ Unread.told = "more"
BY DEF Unread

\* The process dies: the file is torn if one has truncated it.
LEMMA DieStep ==
  ASSUME FilesTyped, Composed, ToolsDie
  PROVE  FilesTyped' /\ Composed'
<1>1. /\ torn' = (torn \/ \E a \in Agents : tool[a].pc = "truncated")
      /\ tool' = [a \in Agents |-> NoTool] /\ reader' = [a \in Agents |-> Unread]
      /\ UNCHANGED <<disk, promised, crossed>>
  BY DEF ToolsDie
<1>2. /\ NoTool \in [pc : {"idle", "write", "truncated"}, edits : EditLists \cup {<<>>},
                     new : Seq(Line)]
      /\ NoTool.pc = "idle"
  BY DEF NoTool
<1>3. FilesTyped'
  BY <1>1, <1>2, UnreadType DEF FilesTyped
<1>4. Composed'
  BY <1>1, <1>2 DEF Composed
<1>5. QED
  BY <1>3, <1>4

-----------------------------------------------------------------------------
(* Reading.                                                                 *)

\* Of a file whose reader has noticed no change: before its next page it has seen the
\* lines up to that page, of those the scanner gets, and once it was told of the end, all
\* there are.
Paged(a) ==
  reader[a].same =>
    LET text == Scanned(disk) IN
    /\ reader[a].told = "more" =>
         /\ reader[a].at \in 1..(Len(text) + 1)
         /\ reader[a].seen = SubSeq(text, 1, reader[a].at - 1)
    /\ reader[a].told = "end" =>
         reader[a].seen = disk /\ reader[a].total = Len(disk)

AllPaged == \A a \in Agents : Paged(a)

\* The scanner gets lines of the file.
LEMMA ScannedType ==
  ASSUME NEW content \in Seq(Line)
  PROVE  /\ Scanned(content) \in Seq(Line)
         /\ LongLines(content) = {} => Scanned(content) = content
         /\ \E m \in 0..Len(content) : Scanned(content) = SubSeq(content, 1, m)
<1> DEFINE long == LongLines(content)
           m == CHOOSE i \in long : \A j \in long : i <= j
<1>1. Len(content) \in Nat /\ DOMAIN content = 1..Len(content)
      /\ \A i \in 1..Len(content) : content[i] \in Line
  OBVIOUS
<1>2. CASE long = {}
  <2>1. Scanned(content) = content
    BY <1>2 DEF Scanned
  <2>2. content = SubSeq(content, 1, Len(content)) /\ Len(content) \in 0..Len(content)
    BY <1>1, SubSeqFull
  <2>3. QED
    BY <2>1, <2>2
<1>3. CASE long # {}
  <2>1. long \subseteq Nat /\ long \subseteq 1..Len(content)
    BY <1>1 DEF LongLines
  <2>2. \E i \in long : \A j \in long : i <= j
    <3> HIDE DEF long
    <3>1. QED
      BY <1>3, <2>1, LeastNumber
  <2>3. m \in long
    BY <2>2
  <2>4. m - 1 \in Int /\ m - 1 <= Len(content) /\ m - 1 \in 0..Len(content)
    BY <1>1, <2>1, <2>3
  <2>5. Scanned(content) = SubSeq(content, 1, m - 1)
    BY <1>3 DEF Scanned
  <2>6. LongLines(content) # {}
    BY <1>3
  <2> HIDE DEF m, long
  <2>7. \A i \in 1..(m - 1) : content[i] \in Line
    BY <1>1, <2>4
  <2>8. Scanned(content) \in Seq(Line)
    BY <2>4, <2>5, <2>7, SubSeqProperties
  <2>9. QED
    BY <2>4, <2>5, <2>6, <2>8
<1>4. QED
  BY <1>2, <1>3

\* What the scanner gets is what the file begins with.
LEMMA ScannedIsPrefix ==
  ASSUME NEW content \in Seq(Line), NEW k \in Nat, k \in 0..Len(Scanned(content))
  PROVE  SubSeq(Scanned(content), 1, k) = SubSeq(content, 1, k)
<1>1. PICK m \in 0..Len(content) : Scanned(content) = SubSeq(content, 1, m)
  BY ScannedType
<1>2. Len(content) \in Nat /\ \A i \in 1..m : content[i] \in Line
  BY <1>1
<1>3. Len(SubSeq(content, 1, m)) = IF 1 <= m THEN m - 1 + 1 ELSE 0
  BY <1>1, <1>2, SubSeqProperties
<1>4. k <= m
  BY <1>1, <1>3
<1>5. CASE k = 0
  BY <1>5, SubSeqEmpty
<1>6. CASE k # 0
  <2>1. /\ 1 \in 1..Len(content) /\ m \in 1..Len(content)
        /\ 1 \in 1..(m - 1 + 1) /\ k \in 1..(m - 1 + 1)
    BY <1>1, <1>2, <1>4, <1>6
  <2>2. SubSeq(SubSeq(content, 1, m), 1, k) = SubSeq(content, 1 + 1 - 1, 1 + k - 1)
    BY <2>1, SubSeqOfSubSeq
  <2>3. QED
    BY <1>1, <2>2
<1>7. QED
  BY <1>5, <1>6

\* A page of a text.
PageOf(text, p) ==
  SubSeq(text, p, IF p + Limit - 1 < Len(text) THEN p + Limit - 1 ELSE Len(text))

\* What a page adds to the lines before it.
Follows(text, n, p, page) ==
  /\ page \in Seq(Line) /\ Len(page) \in Nat
  /\ p <= n + 1 =>
       /\ p + Len(page) \in 1..(n + 1)
       /\ SubSeq(text, 1, p - 1) \o page = SubSeq(text, 1, p + Len(page) - 1)
  /\ p <= n + 1 /\ n < p + Limit => SubSeq(text, 1, p - 1) \o page = text

\* A page follows what was seen.
LEMMA PageFollows ==
  ASSUME NEW text \in Seq(Line), NEW n \in Nat, n = Len(text), NEW p \in Nat \ {0},
         NEW page, page = PageOf(text, p)
  PROVE  Follows(text, n, p, page)
<1> DEFINE end == IF p + Limit - 1 < n THEN p + Limit - 1 ELSE n
<1>1. Limit \in Nat \ {0} /\ end \in Int /\ end <= n
  BY FileAssumption
<1>2. \A i \in p..end : text[i] \in Line
  BY <1>1
<1>3. page = SubSeq(text, p, end)
  BY DEF PageOf
<1>4. end = IF p + Limit - 1 < n THEN p + Limit - 1 ELSE n
  OBVIOUS
<1> HIDE DEF end
<1>5. page \in Seq(Line) /\ Len(page) = IF p <= end THEN end - p + 1 ELSE 0
  BY <1>1, <1>2, <1>3, SubSeqProperties
<1>6. ASSUME p <= n + 1 PROVE SubSeq(text, 1, p - 1) \o page = SubSeq(text, 1, end)
  <2>1. p - 1 \in 0..Len(text) /\ end \in (p - 1)..Len(text) /\ 1 \in 1..(Len(text) + 1)
    BY <1>1, <1>4, <1>6
  <2>2. SubSeq(text, 1, p - 1) \o SubSeq(text, (p - 1) + 1, end) = SubSeq(text, 1, end)
    BY <2>1, ConcatAdjacentSubSeq
  <2>3. (p - 1) + 1 = p
    OBVIOUS
  <2>4. QED
    BY <1>3, <2>2, <2>3
<1>7. ASSUME p <= n + 1 PROVE p + Len(page) - 1 = end /\ p + Len(page) \in 1..(n + 1)
  BY <1>1, <1>4, <1>5, <1>7
<1>8. ASSUME p <= n + 1, n < p + Limit PROVE end = n
  BY <1>1, <1>4, <1>8
<1>9. SubSeq(text, 1, n) = text
  BY SubSeqFull
<1>10. ASSUME p <= n + 1
       PROVE  SubSeq(text, 1, p - 1) \o page = SubSeq(text, 1, p + Len(page) - 1)
  BY <1>6, <1>7, <1>10
<1>11. ASSUME p <= n + 1, n < p + Limit PROVE SubSeq(text, 1, p - 1) \o page = text
  BY <1>6, <1>8, <1>9, <1>11
<1>12. Len(page) \in Nat
  BY <1>1, <1>5
<1>13. QED
  BY <1>5, <1>7, <1>10, <1>11, <1>12 DEF Follows

\* Without more to come there is no line that is too long, and the page is the last.
LEMMA NoMore ==
  ASSUME NEW content \in Seq(Line), NEW p \in Nat, ~HasMore(content, p)
  PROVE  Scanned(content) = content /\ Len(content) < p + Limit
<1>1. ~(Len(Scanned(content)) >= p + Limit) /\ LongLines(content) = {}
  BY DEF HasMore
<1>2. Scanned(content) = content
  BY <1>1, ScannedType
<1>3. Len(content) \in Nat /\ Limit \in Nat
  BY FileAssumption
<1>4. QED
  BY <1>1, <1>2, <1>3

\* One page.
LEMMA ReadStep ==
  ASSUME FilesTyped, AllPaged, NEW a \in Agents, Read(a)
  PROVE  FilesTyped' /\ AllPaged'
<1>1. reader[a].told = "more" /\ UNCHANGED <<disk, tool>>
  BY DEF Read
<1>2. PICK text \in Seq(Line) : text = Scanned(disk) /\ disk \in Seq(Line)
  BY ScannedType DEF FilesTyped
<1>3. PICK r \in [at : Nat \ {0}, seen : Seq(Line), told : {"more", "end", "cut"},
                 total : Nat, same : BOOLEAN] : r = reader[a]
  BY DEF FilesTyped
<1>4. PICK n \in Nat, p \in Nat \ {0} : n = Len(text) /\ p = r.at
  BY <1>2, <1>3
<1>5. PICK page : page = PageOf(text, p)
  OBVIOUS
<1>6. PICK e : /\ e = IF Width(page) > Room THEN [r EXCEPT !.told = "cut"]
                     ELSE IF HasMore(disk, p)
                       THEN [r EXCEPT !.seen = r.seen \o page, !.at = p + Len(page)]
                     ELSE [r EXCEPT !.seen = r.seen \o page, !.told = "end",
                                    !.total = n]
               /\ reader' = [reader EXCEPT ![a] = e]
  BY <1>2, <1>3, <1>4, <1>5 DEF Read, PageOf
<1>7. Follows(text, n, p, page)
  BY <1>4, <1>5, PageFollows
<1>8. r.seen \o page \in Seq(Line) /\ p + Len(page) \in Nat \ {0}
  <2>1. page \in Seq(Line) /\ Len(page) \in Nat /\ r.seen \in Seq(Line)
    BY <1>3, <1>7 DEF Follows
  <2>2. QED
    BY <1>4, <2>1
<1>9. /\ e \in [at : Nat \ {0}, seen : Seq(Line), told : {"more", "end", "cut"},
                total : Nat, same : BOOLEAN]
      /\ e.same = r.same
      /\ \/ e.told = "cut"
         \/ HasMore(disk, p) /\ e.told = "more" /\ e.at = p + Len(page)
              /\ e.seen = r.seen \o page
         \/ ~HasMore(disk, p) /\ e.told = "end" /\ e.total = n
              /\ e.seen = r.seen \o page
  BY <1>1, <1>3, <1>4, <1>6, <1>8
<1>10. reader' \in [Agents -> [at : Nat \ {0}, seen : Seq(Line),
                               told : {"more", "end", "cut"}, total : Nat,
                               same : BOOLEAN]]
       /\ \A b \in Agents : reader'[b] = IF b = a THEN e ELSE reader[b]
  BY <1>6, <1>9 DEF FilesTyped
<1>11. FilesTyped'
  BY <1>1, <1>10 DEF FilesTyped
<1>12. ASSUME r.same
       PROVE  /\ e.told = "more" =>
                   e.at \in 1..(n + 1) /\ e.seen = SubSeq(text, 1, e.at - 1)
              /\ e.told = "end" => e.seen = disk /\ e.total = Len(disk)
  <2>1. p \in 1..(n + 1) /\ r.seen = SubSeq(text, 1, p - 1) /\ p <= n + 1
    BY <1>1, <1>2, <1>3, <1>4, <1>12 DEF AllPaged, Paged
  <2> DEFINE seen == r.seen \o page
  <2>2. HasMore(disk, p) => /\ p + Len(page) \in 1..(n + 1)
                         /\ seen = SubSeq(text, 1, p + Len(page) - 1)
    BY <1>7, <2>1 DEF Follows
  <2>3. ~HasMore(disk, p) => seen = disk /\ n = Len(disk)
    <3>1. ASSUME ~HasMore(disk, p) PROVE seen = disk /\ n = Len(disk)
      <4>1. text = disk /\ n < p + Limit /\ n = Len(disk)
        BY <1>2, <1>4, <3>1, NoMore
      <4>2. QED
        BY <1>7, <2>1, <4>1 DEF Follows
    <3>2. QED
      BY <3>1
  <2>4. \/ e.told = "cut"
        \/ HasMore(disk, p) /\ e.told = "more" /\ e.at = p + Len(page) /\ e.seen = seen
        \/ ~HasMore(disk, p) /\ e.told = "end" /\ e.total = n /\ e.seen = seen
    BY <1>9
  <2> HIDE DEF seen
  <2>5. ASSUME e.told = "more" PROVE e.at \in 1..(n + 1) /\ e.seen = SubSeq(text, 1, e.at - 1)
    <3>1. HasMore(disk, p) /\ e.at = p + Len(page) /\ e.seen = seen
      BY <2>4, <2>5
    <3>2. QED
      BY <2>2, <3>1
  <2>6. ASSUME e.told = "end" PROVE e.seen = disk /\ e.total = Len(disk)
    BY <2>3, <2>4, <2>6
  <2>7. QED
    BY <2>5, <2>6
<1>13. AllPaged'
  <2>1. ASSUME NEW b \in Agents PROVE Paged(b)'
    <3>1. CASE b = a
      <4>1. reader'[b] = e /\ disk' = disk /\ Scanned(disk)' = text
        BY <1>1, <1>2, <1>10, <3>1
      <4>2. QED
        BY <1>4, <1>9, <1>12, <4>1 DEF Paged
    <3>2. CASE b # a
      BY <1>1, <1>10, <3>2 DEF AllPaged, Paged
    <3>3. QED
      BY <3>1, <3>2
  <2>2. QED
    BY <2>1 DEF AllPaged
<1>14. QED
  BY <1>11, <1>13

\* A reader that has seen nothing yet has missed nothing.
LEMMA UnreadIsPaged ==
  ASSUME NEW content \in Seq(Line)
  PROVE  LET text == Scanned(content)
         IN  Unread.at \in 1..(Len(text) + 1)
               /\ Unread.seen = SubSeq(text, 1, Unread.at - 1)
<1>1. Scanned(content) \in Seq(Line) /\ Len(Scanned(content)) \in Nat
  BY ScannedType
<1>2. SubSeq(Scanned(content), 1, 0) = <<>>
  BY SubSeqEmpty
<1>3. QED
  BY <1>1, <1>2, UnreadType

-----------------------------------------------------------------------------
FilesInv == FilesTyped /\ Composed /\ AllPaged

\* Nobody has called or read yet.
LEMMA FilesInit == FileInit => FilesInv
<1> SUFFICES ASSUME FileInit PROVE FilesInv
  OBVIOUS
<1>1. disk \in Seq(Line)
  BY FileType DEF FileInit
<1>2. NoTool \in [pc : {"idle", "write", "truncated"}, edits : EditLists \cup {<<>>},
                  new : Seq(Line)]
      /\ NoTool.pc = "idle"
  BY DEF NoTool
<1>3. FilesTyped
  BY <1>1, <1>2, UnreadType DEF FileInit, FilesTyped
<1>4. Composed
  BY <1>2 DEF FileInit, Composed
<1>5. AllPaged
  BY <1>1, UnreadType, UnreadIsPaged DEF FileInit, AllPaged, Paged
<1>6. QED
  BY <1>3, <1>4, <1>5 DEF FilesInv

\* Every step of a tool keeps the invariant.
LEMMA FilesStep == FilesInv /\ [FileNext]_fileVars => FilesInv'
<1> SUFFICES ASSUME FilesInv, [FileNext]_fileVars PROVE FilesInv'
  OBVIOUS
<1> USE DEF FilesInv
<1>1. CASE UNCHANGED fileVars
  BY <1>1 DEF fileVars, FilesTyped, Composed, AllPaged, Paged
<1>2. ASSUME NEW a \in Agents,
             \/ \E list \in EditLists : ReadAndEdit(a, list)
             \/ \E content \in Contents : Write(a, content)
             \/ OpenFails(a)
      PROVE  FilesInv'
  <2>1. disk' = disk /\ reader' = reader
    BY <1>2 DEF ReadAndEdit, Write, OpenFails
  <2>2. AllPaged'
    BY <2>1 DEF AllPaged, Paged
  <2>3. QED
    BY <1>2, <2>2, EditStep, WriteCallStep, OpenFailsStep
<1>3. ASSUME NEW a \in Agents, Truncate(a) \/ WriteOut(a) \/ WriteFails(a) PROVE FilesInv'
  <2>1. reader' = [b \in Agents |-> [reader[b] EXCEPT !.same = FALSE]]
    BY <1>3 DEF Truncate, WriteOut, WriteFails, Under
  <2>2. \A b \in Agents : ~reader'[b].same
    BY <2>1 DEF FilesTyped
  <2>3. AllPaged'
    BY <2>2 DEF AllPaged, Paged
  <2>4. QED
    BY <1>3, <2>3, TruncateStep, WriteOutStep, WriteFailsStep
<1>4. ASSUME NEW a \in Agents, Read(a) PROVE FilesInv'
  <2>1. UNCHANGED <<disk, tool, promised, crossed, torn>>
    BY <1>4 DEF Read
  <2>2. Composed'
    BY <2>1 DEF Composed
  <2>3. QED
    BY <1>4, <2>2, ReadStep
<1>5. ASSUME NEW a \in Agents, Reread(a) PROVE FilesInv'
  <2>1. UNCHANGED <<disk, tool, promised, crossed, torn>>
        /\ reader' = [reader EXCEPT ![a] = Unread]
    BY <1>5 DEF Reread
  <2>2. Composed'
    BY <2>1 DEF Composed
  <2>3. /\ reader' \in [Agents -> [at : Nat \ {0}, seen : Seq(Line),
                                   told : {"more", "end", "cut"}, total : Nat,
                                   same : BOOLEAN]]
        /\ \A b \in Agents : reader'[b] = IF b = a THEN Unread ELSE reader[b]
    BY <2>1, UnreadType DEF FilesTyped
  <2>4. FilesTyped'
    BY <2>1, <2>3 DEF FilesTyped
  <2>5. AllPaged'
    BY <2>1, <2>3, UnreadType, UnreadIsPaged DEF FilesTyped, AllPaged, Paged
  <2>6. QED
    BY <2>2, <2>4, <2>5
<1>6. CASE ToolsDie
  <2>1. disk' = disk /\ \A a \in Agents : reader'[a] = Unread
    BY <1>6 DEF ToolsDie
  <2>2. AllPaged'
    BY <2>1, UnreadType, UnreadIsPaged DEF FilesTyped, AllPaged, Paged
  <2>3. QED
    BY <1>6, <2>2, DieStep
<1>7. QED
  BY <1>1, <1>2, <1>3, <1>4, <1>5, <1>6 DEF FileNext

\* The invariant holds of every reachable state.
LEMMA FilesInvariant == FileSpec => []FilesInv
<1>1. QED
  BY FilesInit, FilesStep, PTL DEF FileSpec

\* The calls of edit, multiedit and write compose (edit.go, multiedit.go, write.go): with
\* none between the read and the write of another, the file is what those answered with
\* success make of it one after the other, and those answered with an error leave no
\* trace, unless os.WriteFile failed on the open file: such a file is torn until the next
\* `write`.  For any files and lists of edits, and any number of agents and calls.
THEOREM EditsAlwaysCompose == FileSpec => []EditsCompose
<1>1. FilesInv => EditsCompose
  BY DEF FilesInv, Composed, EditsCompose
<1>2. QED
  BY FilesInvariant, <1>1, PTL

\* The pages of read cover the file (read.go): who follows the hints has seen each line
\* before the next page once and in order, if nobody wrote meanwhile, and is told of the
\* end only after the last line of the file, for any file, page and room for an answer.
THEOREM PagesAlwaysCover == FileSpec => []PagesCover
<1>1. ASSUME FilesInv PROVE PagesCover
  <2>1. SUFFICES ASSUME NEW a \in Agents, reader[a].same
                 PROVE  /\ reader[a].told = "more" =>
                             reader[a].seen = SubSeq(disk, 1, reader[a].at - 1)
                        /\ reader[a].told = "end" =>
                             reader[a].seen = disk /\ reader[a].total = Len(disk)
    BY DEF PagesCover
  <2>2. reader[a].told = "end" => reader[a].seen = disk /\ reader[a].total = Len(disk)
    BY <1>1, <2>1 DEF FilesInv, AllPaged, Paged
  <2>3. ASSUME reader[a].told = "more"
        PROVE  reader[a].seen = SubSeq(disk, 1, reader[a].at - 1)
    <3>1. PICK p \in Nat \ {0} : p = reader[a].at
      BY <1>1, <2>1 DEF FilesInv, FilesTyped
    <3>2. /\ p - 1 \in 0..Len(Scanned(disk))
          /\ reader[a].seen = SubSeq(Scanned(disk), 1, p - 1)
      <4>1. /\ p \in 1..(Len(Scanned(disk)) + 1)
            /\ reader[a].seen = SubSeq(Scanned(disk), 1, p - 1)
        BY <1>1, <2>1, <2>3, <3>1 DEF FilesInv, AllPaged, Paged
      <4>2. PICK text \in Seq(Line) : text = Scanned(disk)
        BY <1>1, ScannedType DEF FilesInv, FilesTyped
      <4>3. Len(text) \in Nat
        BY <4>2
      <4>4. QED
        BY <3>1, <4>1, <4>2, <4>3
    <3>3. SubSeq(Scanned(disk), 1, p - 1) = SubSeq(disk, 1, p - 1)
      BY <1>1, <3>1, <3>2, ScannedIsPrefix DEF FilesInv, FilesTyped
    <3>4. QED
      BY <3>1, <3>2, <3>3
  <2>4. QED
    BY <2>2, <2>3
<1>2. QED
  BY FilesInvariant, <1>1, PTL
=============================================================================
