---------------------------- MODULE RecordProofs -----------------------------
(***************************************************************************)
(* Proofs about records: what a process rebuilds from the events that      *)
(* another has stored; and of the benchmark, for every budget, every set   *)
(* of prices, any number of runs, crashes and repairs, and any number of   *)
(* branches, that a harness whose usage is read while it runs costs less   *)
(* than what was left of the budget and one more response, that the ledger *)
(* charges no run more than it has cost, and that the credit for a pushed  *)
(* branch goes to its run.                                                 *)
(***************************************************************************)
EXTENDS Replay, HarnessEval, DataLemmas

-----------------------------------------------------------------------------
(* What a record rebuilds.                                                  *)

Message ==
  {"user", "assistant", "calls", "cutCalls", "tool", "summary", "trimmed"} \X Nat

\* Events with a message, with the messages of a turn, and without.
EventType ==
  [kind : {"UserPromptSubmit", "QueueInterrupt", "PostCompact"}, content : Message]
    \cup [kind : {"TurnCompleted"}, content : Seq(Message)]
    \cup [kind : {"SessionStart", "TurnStarted", "TurnFailed", "GuardTriggered",
                  "PreCompact", "Stop", "MasterIdle"}, content : {<<>>}]

IsBase(e) == e.kind = "PostCompact" /\ e.content # <<"summary", 0>>

Bases(evs) == {i \in 1..Len(evs) : IsBase(evs[i])}

BaseOf(evs) == IF Bases(evs) # {} THEN Max(Bases(evs)) ELSE 0

\* What is replayed of the events after b.
Rest(evs, b) == FlattenSeq([i \in 1..(Len(evs) - b) |-> Replayed(evs[b + i])])

\* ReconstructHistory, of any events.
RebuiltOf(evs) ==
  (IF BaseOf(evs) = 0 THEN <<>> ELSE <<evs[BaseOf(evs)].content>>)
    \o Rest(evs, BaseOf(evs))

\* The last compaction is an event of the log, and none is after it.
LEMMA BaseIs ==
  ASSUME NEW evs \in Seq(EventType)
  PROVE  /\ BaseOf(evs) \in 0..Len(evs)
         /\ BaseOf(evs) # 0 => IsBase(evs[BaseOf(evs)])
         /\ \A i \in 1..Len(evs) : IsBase(evs[i]) => i <= BaseOf(evs)
<1>1. Len(evs) \in Nat /\ Bases(evs) \subseteq 1..Len(evs)
  BY DEF Bases
<1>2. CASE Bases(evs) = {}
  BY <1>1, <1>2 DEF BaseOf, Bases
<1>3. CASE Bases(evs) # {}
  <2>1. \E b \in Bases(evs) : \A i \in Bases(evs) : b >= i
    <3> DEFINE W == {n \in Nat : \A i \in Bases(evs) : n >= i}
    <3>1. Len(evs) \in W
      BY <1>1
    <3>2. W \subseteq Nat /\ W # {}
      <4>1. W \subseteq Nat
        OBVIOUS
      <4> HIDE DEF W
      <4>2. QED
        BY <3>1, <4>1
    <3>3. PICK n \in W : \A m \in W : n <= m
      <4> HIDE DEF W
      <4>1. QED
        BY <3>2, LeastNumber
    <3>4. n \in Nat /\ \A i \in Bases(evs) : n >= i
      OBVIOUS
    <3>5. CASE n \in Bases(evs)
      BY <3>4, <3>5
    <3>6. CASE n \notin Bases(evs)
      <4>1. n # 0
        BY <1>1, <1>3, <3>4
      <4>2. n - 1 \in Nat /\ \A i \in Bases(evs) : n - 1 >= i
        BY <1>1, <3>4, <3>6, <4>1
      <4>3. n - 1 \in W /\ ~(n <= n - 1)
        BY <3>4, <4>2
      <4> HIDE DEF W
      <4>4. QED
        BY <3>3, <4>3
    <3>7. QED
      BY <3>5, <3>6
  <2>2. Max(Bases(evs)) \in Bases(evs) /\ \A i \in Bases(evs) : Max(Bases(evs)) >= i
    BY <2>1 DEF Max
  <2>3. BaseOf(evs) \in Bases(evs) /\ \A i \in Bases(evs) : BaseOf(evs) >= i
    BY <1>3, <2>2 DEF BaseOf
  <2>4. BaseOf(evs) \in 1..Len(evs) /\ IsBase(evs[BaseOf(evs)])
    BY <2>3 DEF Bases
  <2>5. ASSUME NEW i \in 1..Len(evs), IsBase(evs[i]) PROVE i <= BaseOf(evs)
    BY <2>3, <2>4, <2>5, <1>1 DEF Bases
  <2>6. QED
    BY <1>1, <2>4, <2>5
<1>4. QED
  BY <1>2, <1>3

\* Nothing else is the last compaction.
LEMMA OneBase ==
  ASSUME NEW evs \in Seq(EventType), NEW b \in 0..Len(evs),
         b # 0 => IsBase(evs[b]),
         \A i \in 1..Len(evs) : IsBase(evs[i]) => i <= b
  PROVE  BaseOf(evs) = b
<1>1. /\ BaseOf(evs) \in 0..Len(evs) /\ Len(evs) \in Nat
      /\ BaseOf(evs) # 0 => IsBase(evs[BaseOf(evs)])
      /\ \A i \in 1..Len(evs) : IsBase(evs[i]) => i <= BaseOf(evs)
  BY BaseIs
<1>2. BaseOf(evs) <= b
  BY <1>1
<1>3. b <= BaseOf(evs)
  BY <1>1
<1>4. QED
  BY <1>1, <1>2, <1>3

\* What an event holds, by its kind.
LEMMA EventHolds ==
  \A e \in EventType :
    /\ Replayed(e) \in Seq(Message)
    /\ IsBase(e) => e.content \in Message /\ Replayed(e) = <<>>
<1> TAKE e \in EventType
<1>1. e.kind \in {"UserPromptSubmit", "QueueInterrupt", "PostCompact"}
        => e.content \in Message
  BY DEF EventType
<1>2. e.kind = "TurnCompleted" => e.content \in Seq(Message)
  BY DEF EventType
<1>3. Replayed(e) \in Seq(Message)
  <2>1. CASE e.kind = "UserPromptSubmit"
    <3>1. Replayed(e) = <<e.content>>
      BY <2>1 DEF Replayed
    <3>2. QED
      BY <1>1, <2>1, <3>1
  <2>2. CASE e.kind = "TurnCompleted"
    <3>1. Replayed(e) = e.content
      BY <2>2 DEF Replayed
    <3>2. QED
      BY <1>2, <2>2, <3>1
  <2>3. CASE e.kind # "UserPromptSubmit" /\ e.kind # "TurnCompleted"
    <3>1. Replayed(e) = <<>>
      BY <2>3 DEF Replayed
    <3>2. QED
      BY <3>1
  <2>4. QED
    BY <2>1, <2>2, <2>3
<1>4. IsBase(e) => Replayed(e) = <<>>
  BY DEF IsBase, Replayed
<1>5. QED
  BY <1>1, <1>3, <1>4 DEF IsBase

\* What is replayed after b, for a log that is one event longer.
LEMMA TailGrows ==
  ASSUME NEW evs \in Seq(EventType), NEW e \in EventType, NEW b \in 0..Len(evs)
  PROVE  /\ Rest(evs, b) \in Seq(Message)
         /\ Rest(Append(evs, e), b) = Rest(evs, b) \o Replayed(e)
<1>1. PICK n \in Nat : n = Len(evs) - b
  <2>1. Len(evs) \in Nat
    OBVIOUS
  <2>2. QED
    BY <2>1
<1>2. PICK f : f = [i \in 1..(n + 1) |-> Replayed(Append(evs, e)[b + i])]
  OBVIOUS
<1>3. PICK longer \in Seq(EventType) : longer = Append(evs, e)
  BY AppendProperties
<1>4. /\ Len(evs) \in Nat /\ Len(longer) = Len(evs) + 1 /\ b \in Nat
      /\ \A i \in 1..Len(evs) : longer[i] = evs[i]
      /\ longer[Len(evs) + 1] = e
      /\ \A i \in 1..Len(longer) : longer[i] \in EventType
  BY <1>3
<1>5. /\ \A i \in 1..(n + 1) : b + i \in 1..Len(longer)
      /\ \A i \in 1..n : b + i \in 1..Len(evs)
      /\ b + (n + 1) = Len(evs) + 1
      /\ Len(longer) - b = n + 1
  BY <1>1, <1>4
<1>6. /\ \A i \in 1..(n + 1) : f[i] = Replayed(longer[b + i])
      /\ \A i \in 1..(n + 1) : f[i] \in Seq(Message)
  BY <1>2, <1>3, <1>4, <1>5, EventHolds
<1>7. f[n + 1] = Replayed(e) /\ \A i \in 1..n : f[i] = Replayed(evs[b + i])
  <2>1. n + 1 \in 1..(n + 1) /\ \A i \in 1..n : i \in 1..(n + 1)
    OBVIOUS
  <2>2. QED
    BY <1>4, <1>5, <1>6, <2>1
<1>8. /\ [i \in 1..n |-> f[i]] \in Seq(Seq(Message))
      /\ [i \in 1..(n + 1) |-> f[i]] = Append([i \in 1..n |-> f[i]], f[n + 1])
  BY <1>6, OnePlaceMore
<1>9. PICK s \in Seq(Seq(Message)) : s = [i \in 1..n |-> f[i]]
  BY <1>8
<1>10. PICK last \in Seq(Message) : last = Replayed(e)
  BY EventHolds
<1>11. [i \in 1..n |-> Replayed(evs[b + i])] = s
  BY <1>7, <1>9
<1>12. [i \in 1..(n + 1) |-> Replayed(longer[b + i])] = Append(s, last)
  <2>1. [i \in 1..(n + 1) |-> Replayed(longer[b + i])] = [i \in 1..(n + 1) |-> f[i]]
    BY <1>6
  <2>2. QED
    BY <1>7, <1>8, <1>9, <1>10, <2>1
<1>13. Rest(evs, b) = FlattenSeq(s)
  BY <1>1, <1>11 DEF Rest
<1>14. Rest(longer, b) = FlattenSeq(Append(s, last))
  BY <1>5, <1>12 DEF Rest
<1>15. QED
  BY <1>3, <1>10, <1>13, <1>14, FlattenAppend, FlattenType

\* What a log rebuilds.
LEMMA RebuiltType ==
  ASSUME NEW evs \in Seq(EventType)
  PROVE  RebuiltOf(evs) \in Seq(Message)
<1>1. PICK b \in 0..Len(evs) : b = BaseOf(evs) /\ (b # 0 => IsBase(evs[b]))
  BY BaseIs
<1>2. PICK rest \in Seq(Message) : rest = Rest(evs, b)
  <2>1. PICK e : e \in EventType
    <3>1. [kind |-> "Stop", content |-> <<>>] \in EventType
      BY DEF EventType
    <3>2. QED
      BY <3>1
  <2>2. QED
    BY <2>1, TailGrows
<1>3. CASE b = 0
  <2>1. RebuiltOf(evs) = <<>> \o rest
    BY <1>1, <1>2, <1>3 DEF RebuiltOf
  <2>2. QED
    BY <1>2, <2>1
<1>4. CASE b # 0
  <2>1. evs[b] \in EventType
    BY <1>4
  <2>2. <<evs[b].content>> \in Seq(Message)
    BY <1>1, <1>4, <2>1, EventHolds
  <2>3. RebuiltOf(evs) = <<evs[b].content>> \o rest
    BY <1>1, <1>2, <1>4 DEF RebuiltOf
  <2>4. QED
    BY <2>2, <2>3, ConcatProperties
<1>5. QED
  BY <1>3, <1>4

\* What one event more adds, and what a compaction leaves.
LEMMA RebuiltGrows ==
  ASSUME NEW evs \in Seq(EventType), NEW e \in EventType
  PROVE  RebuiltOf(Append(evs, e)) = IF IsBase(e) THEN <<e.content>>
                                     ELSE RebuiltOf(evs) \o Replayed(e)
<1>1. PICK longer \in Seq(EventType) : longer = Append(evs, e)
  BY AppendProperties
<1>2. /\ Len(evs) \in Nat /\ Len(longer) = Len(evs) + 1
      /\ \A i \in 1..Len(evs) : longer[i] = evs[i]
      /\ longer[Len(evs) + 1] = e
  BY <1>1
<1>3. CASE IsBase(e)
  <2>1. Len(longer) \in 0..Len(longer) /\ Len(longer) # 0 /\ IsBase(longer[Len(longer)])
    BY <1>2, <1>3
  <2>2. BaseOf(longer) = Len(longer)
    BY <2>1, OneBase
  <2>3. Rest(longer, Len(longer)) = <<>>
    <3>1. Len(longer) - Len(longer) = 0 /\ 1..0 = {}
      BY <1>2
    <3>2. [i \in 1..(Len(longer) - Len(longer)) |-> Replayed(longer[Len(longer) + i])]
            = <<>>
      BY <3>1
    <3>3. QED
      BY <3>2, FlattenNone DEF Rest
  <2>4. RebuiltOf(longer) = <<e.content>> \o <<>>
    BY <1>2, <2>1, <2>2, <2>3 DEF RebuiltOf
  <2>5. <<e.content>> \in Seq(Message)
    BY <1>3, EventHolds
  <2>6. <<e.content>> \o <<>> = <<e.content>>
    BY <2>5, ConcatEmptySeq
  <2>7. QED
    BY <1>1, <1>3, <2>4, <2>6
<1>4. CASE ~IsBase(e)
  <2>1. PICK b \in 0..Len(evs) : b = BaseOf(evs)
    BY BaseIs
  <2>2. /\ b # 0 => IsBase(evs[b])
        /\ \A i \in 1..Len(evs) : IsBase(evs[i]) => i <= b
    BY <2>1, BaseIs
  <2>3. b \in 0..Len(longer) /\ (b # 0 => longer[b] = evs[b])
    BY <1>2
  <2>4. \A i \in 1..Len(longer) : IsBase(longer[i]) => i <= b
    BY <1>2, <1>4, <2>2
  <2>5. BaseOf(longer) = b
    BY <2>2, <2>3, <2>4, OneBase
  <2>6. PICK rest \in Seq(Message) : rest = Rest(evs, b)
    BY TailGrows
  <2>7. PICK more \in Seq(Message) : more = Replayed(e)
    BY EventHolds
  <2>8. Rest(longer, b) = rest \o more
    BY <1>1, <2>6, <2>7, TailGrows
  <2>9. PICK first \in Seq(Message) : first = IF b = 0 THEN <<>> ELSE <<evs[b].content>>
    <3>1. CASE b = 0
      <4>1. <<>> \in Seq(Message)
        OBVIOUS
      <4>2. QED
        BY <3>1, <4>1
    <3>2. CASE b # 0
      <4>1. evs[b] \in EventType
        BY <3>2
      <4>2. <<evs[b].content>> \in Seq(Message)
        BY <2>2, <3>2, <4>1, EventHolds
      <4>3. QED
        BY <3>2, <4>2
    <3>3. QED
      BY <3>1, <3>2
  <2>10. RebuiltOf(evs) = first \o rest
    BY <2>1, <2>6, <2>9 DEF RebuiltOf
  <2>11. RebuiltOf(longer) = first \o (rest \o more)
    BY <2>3, <2>5, <2>8, <2>9 DEF RebuiltOf
  <2>12. (first \o rest) \o more = first \o (rest \o more)
    BY ConcatAssociative, SMTT(30)
  <2>13. QED
    BY <1>1, <1>4, <2>7, <2>10, <2>11, <2>12
<1>5. QED
  BY <1>3, <1>4

\* ReconstructHistory is what the table rebuilds.
LEMMA RebuildsTable ==
  ASSUME table \in Seq(EventType)
  PROVE  ReconstructHistory = RebuiltOf(table)
<1>1. Baseline = BaseOf(table)
  BY DEF Baseline, BaseOf, Bases, IsBase, SelectLastInSeq
<1>2. PICK b \in 0..Len(table) : b = BaseOf(table)
  BY BaseIs
<1>3. PICK rest : rest = SubSeq(table, b + 1, Len(table))
  OBVIOUS
<1>4. /\ DOMAIN rest = 1..(Len(table) - b)
      /\ \A i \in 1..(Len(table) - b) : rest[i] = table[b + i]
  <2>1. Len(table) \in Nat /\ b \in Nat /\ b <= Len(table)
    OBVIOUS
  <2>2. \A i \in (b + 1)..Len(table) : table[i] \in EventType
    BY <2>1
  <2>3. Len(rest) = Len(table) - b /\ rest \in Seq(EventType)
        /\ \A i \in 1..(Len(table) - b) : rest[i] = table[b + i]
    BY <1>3, <2>1, <2>2, SubSeqProperties
  <2>4. QED
    BY <2>3
<1>5. [i \in DOMAIN rest |-> Replayed(rest[i])]
        = [i \in 1..(Len(table) - b) |-> Replayed(table[b + i])]
  BY <1>4
<1>6. QED
  BY <1>1, <1>2, <1>3, <1>5 DEF ReconstructHistory, RebuiltOf, Rest

-----------------------------------------------------------------------------
(* What is remembered, and what of it was heard.                            *)

\* Heard, of any messages.
Kept(messages, missed) ==
  FlattenSeq([i \in 1..Len(messages) |->
    IF messages[i][2] \in missed THEN <<>> ELSE <<messages[i]>>])

\* Does a log rebuild what is remembered, but for what is on its way?
Same(messages, missed, evs, going) ==
  Trimmed(Kept(messages, missed)) = Trimmed(RebuiltOf(evs) \o going)

\* A sequence that is not empty has a last element.
LEMMA LastOne ==
  ASSUME NEW S, NEW s \in Seq(S), s # <<>>
  PROVE  \E r \in Seq(S) : \E m \in S : s = Append(r, m) /\ Len(s) = Len(r) + 1
<1>1. Len(s) \in Nat /\ Len(s) # 0
  BY EmptySeq
<1>2. PICK r : r = [i \in 1..(Len(s) - 1) |-> s[i]]
  OBVIOUS
<1>3. PICK m \in S : m = s[Len(s)]
  BY <1>1
<1>4. r \in Seq(S) /\ Len(r) = Len(s) - 1
  BY <1>1, <1>2
<1>5. s = Append(r, m)
  BY <1>1, <1>2, <1>3, <1>4
<1>6. Len(s) = Len(r) + 1
  BY <1>1, <1>4
<1>7. QED
  BY <1>3, <1>4, <1>5, <1>6

\* A message keeps its number.
LEMMA TrimIs ==
  \A m \in Message : Trim(m) \in Message /\ Trim(m)[2] = m[2] /\ Trim(Trim(m)) = Trim(m)
<1> TAKE m \in Message
<1>1. PICK role \in {"user", "assistant", "calls", "cutCalls", "tool", "summary",
                       "trimmed"},
           n \in Nat : m = <<role, n>>
  BY DEF Message
<1>2. m[1] = role /\ m[2] = n
  BY <1>1
<1>3. CASE role \in {"assistant", "calls", "cutCalls", "tool"}
  <2>1. Trim(m) = <<"trimmed", n>>
    BY <1>2, <1>3 DEF Trim
  <2>2. Trim(<<"trimmed", n>>) = <<"trimmed", n>>
    BY DEF Trim
  <2>3. QED
    BY <1>2, <2>1, <2>2 DEF Message
<1>4. CASE role \notin {"assistant", "calls", "cutCalls", "tool"}
  <2>1. Trim(m) = m
    BY <1>2, <1>4 DEF Trim
  <2>2. QED
    BY <2>1
<1>5. QED
  BY <1>3, <1>4

\* All of them, one by one.
LEMMA TrimmedIs ==
  ASSUME NEW s \in Seq(Message)
  PROVE  /\ Trimmed(s) \in Seq(Message) /\ Len(Trimmed(s)) = Len(s)
         /\ \A i \in 1..Len(s) : Trimmed(s)[i] = Trim(s[i])
<1>1. DOMAIN s = 1..Len(s) /\ Len(s) \in Nat /\ \A i \in 1..Len(s) : s[i] \in Message
  OBVIOUS
<1>2. \A i \in 1..Len(s) : Trim(s[i]) \in Message
  BY <1>1, TrimIs
<1>3. Trimmed(s) = [i \in 1..Len(s) |-> Trim(s[i])]
  BY <1>1 DEF Trimmed
<1>4. QED
  BY <1>1, <1>2, <1>3

\* Trimming again changes nothing.
LEMMA TrimmedTwice ==
  ASSUME NEW s \in Seq(Message)
  PROVE  Trimmed(Trimmed(s)) = Trimmed(s)
<1>1. PICK t \in Seq(Message) : t = Trimmed(s)
  BY TrimmedIs
<1>2. PICK u \in Seq(Message) : u = Trimmed(t)
  BY TrimmedIs
<1>3. /\ Len(t) = Len(s) /\ Len(u) = Len(t)
      /\ \A i \in 1..Len(s) : s[i] \in Message /\ t[i] = Trim(s[i])
      /\ \A i \in 1..Len(t) : u[i] = Trim(t[i])
  BY <1>1, <1>2, TrimmedIs
<1>4. \A i \in 1..Len(t) : u[i] = t[i]
  BY <1>3, TrimIs
<1>5. u = t
  BY <1>3, <1>4, SeqEqual
<1>6. QED
  BY <1>1, <1>2, <1>5

\* Two pieces are trimmed as one.
LEMMA TrimmedGlue ==
  ASSUME NEW a \in Seq(Message), NEW b \in Seq(Message)
  PROVE  Trimmed(a \o b) = Trimmed(a) \o Trimmed(b)
<1>1. PICK c \in Seq(Message) : c = a \o b
  BY ConcatProperties
<1>2. PICK ta \in Seq(Message) : ta = Trimmed(a)
  BY TrimmedIs
<1>3. PICK tb \in Seq(Message) : tb = Trimmed(b)
  BY TrimmedIs
<1>4. PICK tc \in Seq(Message) : tc = Trimmed(c)
  BY TrimmedIs
<1>5. PICK g \in Seq(Message) : g = ta \o tb
  BY ConcatProperties
<1>6. /\ Len(a) \in Nat /\ Len(b) \in Nat /\ Len(ta) = Len(a) /\ Len(tb) = Len(b)
      /\ Len(tc) = Len(c)
      /\ \A i \in 1..Len(a) : ta[i] = Trim(a[i])
      /\ \A i \in 1..Len(b) : tb[i] = Trim(b[i])
      /\ \A i \in 1..Len(c) : tc[i] = Trim(c[i])
  BY <1>2, <1>3, <1>4, TrimmedIs
<1>7. /\ Len(c) = Len(a) + Len(b)
      /\ \A i \in 1..Len(a) + Len(b) : c[i] = IF i <= Len(a) THEN a[i] ELSE b[i - Len(a)]
  BY <1>1, ConcatProperties
<1>8. /\ Len(g) = Len(ta) + Len(tb)
      /\ \A i \in 1..Len(ta) + Len(tb) :
           g[i] = IF i <= Len(ta) THEN ta[i] ELSE tb[i - Len(ta)]
  BY <1>5, ConcatProperties
<1>9. ASSUME NEW i \in 1..Len(tc) PROVE tc[i] = g[i]
  <2>1. CASE i <= Len(a)
    BY <1>6, <1>7, <1>8, <2>1, SMTT(30)
  <2>2. CASE ~(i <= Len(a))
    <3>1. i - Len(a) \in 1..Len(b)
      BY <1>6, <1>7, <2>2
    <3>2. QED
      BY <1>6, <1>7, <1>8, <2>2, <3>1
  <2>3. QED
    BY <2>1, <2>2
<1>10. tc = g
  BY <1>6, <1>7, <1>8, <1>9, SeqEqual
<1>11. QED
  BY <1>1, <1>2, <1>3, <1>4, <1>5, <1>10

\* What is kept of one message more.
LEMMA KeptGrows ==
  ASSUME NEW s \in Seq(Message), NEW m \in Message, NEW missed
  PROVE  /\ Kept(s, missed) \in Seq(Message)
         /\ Kept(Append(s, m), missed)
              = Kept(s, missed) \o (IF m[2] \in missed THEN <<>> ELSE <<m>>)
<1> DEFINE piece(x) == IF x[2] \in missed THEN <<>> ELSE <<x>>
<1>1. PICK n \in Nat : n = Len(s)
  OBVIOUS
<1>2. PICK longer \in Seq(Message) : longer = Append(s, m)
  BY AppendProperties
<1>3. /\ Len(longer) = n + 1 /\ longer[n + 1] = m /\ \A i \in 1..n : longer[i] = s[i]
      /\ \A i \in 1..(n + 1) : longer[i] \in Message
  BY <1>1, <1>2
<1>4. \A x \in Message : piece(x) \in Seq(Message)
  OBVIOUS
<1>5. /\ Kept(s, missed) = FlattenSeq([i \in 1..n |-> piece(s[i])])
      /\ Kept(longer, missed) = FlattenSeq([i \in 1..(n + 1) |-> piece(longer[i])])
      /\ piece(m) = IF m[2] \in missed THEN <<>> ELSE <<m>>
  BY <1>1, <1>3 DEF Kept
<1> HIDE DEF piece
<1>6. PICK f : f = [i \in 1..(n + 1) |-> piece(longer[i])]
  OBVIOUS
<1>7. \A i \in 1..(n + 1) : f[i] = piece(longer[i]) /\ f[i] \in Seq(Message)
  BY <1>3, <1>4, <1>6
<1>8. f[n + 1] = piece(m) /\ \A i \in 1..n : f[i] = piece(s[i])
  <2>1. n + 1 \in 1..(n + 1) /\ \A i \in 1..n : i \in 1..(n + 1)
    OBVIOUS
  <2>2. QED
    BY <1>3, <1>7, <2>1
<1>9. /\ [i \in 1..n |-> f[i]] \in Seq(Seq(Message))
      /\ [i \in 1..(n + 1) |-> f[i]] = Append([i \in 1..n |-> f[i]], f[n + 1])
  BY <1>7, OnePlaceMore
<1>10. PICK p \in Seq(Seq(Message)) : p = [i \in 1..n |-> f[i]]
  BY <1>9
<1>11. PICK last \in Seq(Message) : last = piece(m)
  BY <1>4
<1>12. [i \in 1..n |-> piece(s[i])] = p
  BY <1>8, <1>10
<1>13. [i \in 1..(n + 1) |-> piece(longer[i])] = Append(p, last)
  <2>1. [i \in 1..(n + 1) |-> piece(longer[i])] = [i \in 1..(n + 1) |-> f[i]]
    BY <1>7
  <2>2. QED
    BY <1>8, <1>9, <1>10, <1>11, <2>1
<1>14. Kept(s, missed) = FlattenSeq(p) /\ Kept(longer, missed) = FlattenSeq(Append(p, last))
  BY <1>5, <1>12, <1>13
<1>15. QED
  BY <1>2, <1>5, <1>11, <1>14, FlattenAppend, FlattenType, ZenonT(60)

\* Nothing is kept of nothing.
LEMMA KeptNone == \A missed : Kept(<<>>, missed) = <<>>
<1> TAKE missed
<1>1. [i \in 1..Len(<<>>) |-> IF <<>>[i][2] \in missed THEN <<>> ELSE <<<<>>[i]>>] = <<>>
  OBVIOUS
<1>2. QED
  BY <1>1, FlattenNone DEF Kept

\* Only the numbers that occur matter.
LEMMA KeptSame ==
  ASSUME NEW s \in Seq(Message), NEW missed, NEW more,
         \A i \in 1..Len(s) : s[i][2] \in missed <=> s[i][2] \in more
  PROVE  Kept(s, missed) = Kept(s, more)
<1>1. \A i \in 1..Len(s) : (IF s[i][2] \in missed THEN <<>> ELSE <<s[i]>>)
                             = (IF s[i][2] \in more THEN <<>> ELSE <<s[i]>>)
  OBVIOUS
<1>2. [i \in 1..Len(s) |-> IF s[i][2] \in missed THEN <<>> ELSE <<s[i]>>]
        = [i \in 1..Len(s) |-> IF s[i][2] \in more THEN <<>> ELSE <<s[i]>>]
  BY <1>1
<1>3. QED
  BY <1>2 DEF Kept

\* A message after a message.
LEMMA Pair ==
  ASSUME NEW x \in Message, NEW y \in Message
  PROVE  Append(<<x>>, y) = <<x, y>>
<1>0. <<x>> \in Seq(Message) /\ <<x, y>> \in Seq(Message)
  OBVIOUS
<1>1. PICK a \in Seq(Message) : a = <<x>>
  BY <1>0
<1>2. PICK b \in Seq(Message) : b = <<x, y>>
  BY <1>0
<1>3. PICK c \in Seq(Message) : c = Append(a, y)
  BY AppendProperties
<1>4. Len(a) = 1 /\ a[1] = x /\ Len(b) = 2 /\ b[1] = x /\ b[2] = y
  BY <1>1, <1>2
<1>5. Len(c) = 2 /\ c[1] = x /\ c[2] = y
  <2>1. Len(c) = Len(a) + 1 /\ c[Len(a) + 1] = y /\ \A i \in 1..Len(a) : c[i] = a[i]
    BY <1>3
  <2>2. QED
    BY <1>4, <2>1
<1>6. \A i \in 1..Len(c) : c[i] = b[i]
  BY <1>4, <1>5
<1>7. c = b
  BY <1>4, <1>5, <1>6, SeqEqual
<1>8. QED
  BY <1>1, <1>2, <1>3, <1>7

\* One message more is trimmed as well.
LEMMA TrimmedGrows ==
  ASSUME NEW s \in Seq(Message), NEW m \in Message
  PROVE  Trimmed(Append(s, m)) = Append(Trimmed(s), Trim(m))
<1>1. PICK t \in Seq(Message) : t = Append(s, m)
  BY AppendProperties
<1>2. PICK ts \in Seq(Message) : ts = Trimmed(s)
  BY TrimmedIs
<1>3. PICK tt \in Seq(Message) : tt = Trimmed(t)
  BY TrimmedIs
<1>4. PICK a \in Seq(Message) : a = Append(ts, Trim(m))
  BY TrimIs, AppendProperties
<1>5. /\ Len(s) \in Nat /\ Len(t) = Len(s) + 1 /\ t[Len(s) + 1] = m
      /\ \A i \in 1..Len(s) : t[i] = s[i]
  BY <1>1
<1>6. /\ Len(ts) = Len(s) /\ Len(tt) = Len(t)
      /\ \A i \in 1..Len(s) : ts[i] = Trim(s[i])
      /\ \A i \in 1..Len(t) : tt[i] = Trim(t[i])
  BY <1>2, <1>3, TrimmedIs
<1>7. /\ Len(a) = Len(s) + 1 /\ a[Len(s) + 1] = Trim(m)
      /\ \A i \in 1..Len(s) : a[i] = ts[i]
  BY <1>4, <1>6
<1>8. ASSUME NEW i \in 1..Len(tt) PROVE tt[i] = a[i]
  <2>1. CASE i = Len(s) + 1
    BY <1>5, <1>6, <1>7, <2>1
  <2>2. CASE i # Len(s) + 1
    <3>1. i \in 1..Len(s)
      BY <1>5, <1>6, <2>2
    <3>2. QED
      BY <1>5, <1>6, <1>7, <3>1
  <2>3. QED
    BY <2>1, <2>2
<1>9. tt = a
  BY <1>5, <1>6, <1>7, <1>8, SeqEqual
<1>10. QED
  BY <1>1, <1>2, <1>3, <1>4, <1>9

\* Trimming and forgetting go together.
LEMMA KeptTrim ==
  ASSUME NEW missed
  PROVE  \A s \in Seq(Message) : Kept(Trimmed(s), missed) = Trimmed(Kept(s, missed))
<1> DEFINE Agrees(s) == Kept(Trimmed(s), missed) = Trimmed(Kept(s, missed))
           W == {n \in Nat : \E s \in Seq(Message) : Len(s) = n /\ ~Agrees(s)}
<1>1. ASSUME NEW s \in Seq(Message), ~Agrees(s) PROVE FALSE
  <2>1. Len(s) \in W
    BY <1>1
  <2>2. W \subseteq Nat /\ W # {}
    <3>1. W \subseteq Nat
      OBVIOUS
    <3> HIDE DEF W
    <3>2. QED
      BY <2>1, <3>1
  <2>3. PICK n \in W : \A k \in W : n <= k
    <3> HIDE DEF W
    <3>1. QED
      BY <2>2, LeastNumber
  <2>4. PICK t \in Seq(Message) : Len(t) = n /\ ~Agrees(t)
    BY <2>3
  <2>5. \A r \in Seq(Message) : Len(r) < n => Agrees(r)
    <3>1. \A r \in Seq(Message) : ~Agrees(r) => Len(r) \in W
      OBVIOUS
    <3>2. n \in Nat /\ \A r \in Seq(Message) : Len(r) \in Nat
      OBVIOUS
    <3> HIDE DEF W, Agrees
    <3>3. QED
      BY <2>3, <3>1, <3>2
  <2>6. t # <<>>
    <3>1. Trimmed(<<>>) = <<>>
      BY DEF Trimmed
    <3>2. Agrees(<<>>)
      BY <3>1, KeptNone
    <3> HIDE DEF Agrees
    <3>3. QED
      BY <2>4, <3>2
  <2>7. PICK r \in Seq(Message) : \E m \in Message : t = Append(r, m) /\ Len(t) = Len(r) + 1
    BY <2>6, LastOne
  <2>8. PICK m \in Message : t = Append(r, m) /\ Len(t) = Len(r) + 1
    BY <2>7
  <2>9. Agrees(r)
    <3>1. Len(r) \in Nat /\ Len(r) < n
      BY <2>4, <2>8
    <3> HIDE DEF Agrees
    <3>2. QED
      BY <2>5, <3>1
  <2>10. PICK kept \in Seq(Message) : kept = Kept(r, missed)
    BY <2>8, KeptGrows
  <2>11. PICK piece \in Seq(Message) : piece = IF m[2] \in missed THEN <<>> ELSE <<m>>
    <3>1. <<>> \in Seq(Message) /\ <<m>> \in Seq(Message)
      OBVIOUS
    <3>2. QED
      BY <3>1
  <2>12. PICK last \in Message : last = Trim(m)
    BY TrimIs
  <2>13. Trimmed(piece) = IF last[2] \in missed THEN <<>> ELSE <<last>>
    <3>1. last[2] = m[2]
      BY <2>12, TrimIs
    <3>2. CASE m[2] \in missed
      <4>1. piece = <<>> /\ Trimmed(<<>>) = <<>>
        BY <2>11, <3>2 DEF Trimmed
      <4>2. QED
        BY <3>1, <3>2, <4>1
    <3>3. CASE m[2] \notin missed
      <4>1. piece = <<m>>
        BY <2>11, <3>3
      <4>2. [i \in DOMAIN <<m>> |-> Trim(<<m>>[i])] = <<Trim(m)>>
        OBVIOUS
      <4>3. QED
        BY <2>12, <3>1, <3>3, <4>1, <4>2 DEF Trimmed
    <3>4. QED
      BY <3>2, <3>3
  <2>14. Kept(t, missed) = kept \o piece
    BY <2>8, <2>10, <2>11, KeptGrows
  <2>15. Trimmed(Kept(t, missed)) = Trimmed(kept) \o Trimmed(piece)
    BY <2>14, TrimmedGlue
  <2>16. PICK short \in Seq(Message) : short = Trimmed(r)
    BY TrimmedIs
  <2>17. Trimmed(t) = Append(short, last)
    BY <2>8, <2>12, <2>16, TrimmedGrows
  <2>18. Kept(Trimmed(t), missed) = Kept(short, missed) \o Trimmed(piece)
    <3>1. Kept(Append(short, last), missed)
            = Kept(short, missed) \o (IF last[2] \in missed THEN <<>> ELSE <<last>>)
      BY KeptGrows
    <3> HIDE DEF Agrees, W
    <3>2. QED
      BY <2>13, <2>17, <3>1
  <2>19. Kept(short, missed) = Trimmed(kept)
    BY <2>9, <2>10, <2>16
  <2>20. Agrees(t)
    BY <2>15, <2>18, <2>19
  <2> HIDE DEF Agrees
  <2>21. QED
    BY <2>4, <2>20
<1>2. QED
  BY <1>1

\* Nothing is rebuilt of nothing.
LEMMA RebuiltNone == RebuiltOf(<<>>) = <<>>
<1>1. <<>> \in Seq(EventType) /\ Len(<<>>) = 0 /\ 1..0 = {}
  OBVIOUS
<1>2. BaseOf(<<>>) = 0
  BY <1>1 DEF BaseOf, Bases
<1>3. [i \in 1..(Len(<<>>) - 0) |-> Replayed(<<>>[0 + i])] = <<>>
  BY <1>1
<1>4. Rest(<<>>, 0) = <<>>
  BY <1>3, FlattenNone DEF Rest
<1>5. RebuiltOf(<<>>) = <<>> \o <<>>
  BY <1>2, <1>4 DEF RebuiltOf
<1>6. <<>> \o <<>> = <<>>
  OBVIOUS
<1>7. QED
  BY <1>5, <1>6

\* The first process of a span starts with nothing.
LEMMA SameAtFirst == \A missed : Same(<<>>, missed, <<>>, <<>>)
<1> TAKE missed
<1>1. <<>> \o <<>> = <<>>
  OBVIOUS
<1>2. RebuiltOf(<<>>) \o <<>> = Kept(<<>>, missed)
  BY <1>1, RebuiltNone, KeptNone
<1>3. QED
  BY <1>2 DEF Same

\* A message that an event is going to carry.
LEMMA SameHeard ==
  ASSUME NEW messages \in Seq(Message), NEW missed, NEW evs \in Seq(EventType),
         NEW going \in Seq(Message), NEW m \in Message,
         Same(messages, missed, evs, going), m[2] \notin missed
  PROVE  Same(Append(messages, m), missed, evs, Append(going, m))
<1>1. PICK kept \in Seq(Message) : kept = Kept(messages, missed)
  BY KeptGrows
<1>2. PICK told \in Seq(Message) : told = RebuiltOf(evs)
  BY RebuiltType
<1>3. PICK all \in Seq(Message) : all = told \o going
  BY ConcatProperties
<1>4. Trimmed(kept) = Trimmed(all)
  BY <1>1, <1>2, <1>3 DEF Same
<1>5. <<m>> \in Seq(Message)
  OBVIOUS
<1>6. Kept(Append(messages, m), missed) = kept \o <<m>>
  BY <1>1, KeptGrows
<1>7. told \o Append(going, m) = all \o <<m>>
  <2>1. Append(going, m) = going \o <<m>>
    BY AppendIsConcat
  <2>2. PICK one \in Seq(Message) : one = <<m>>
    BY <1>5
  <2>3. (told \o going) \o one = told \o (going \o one)
    BY ConcatAssociative, SMTT(30)
  <2>4. QED
    BY <1>3, <2>1, <2>2, <2>3
<1>8. /\ Trimmed(kept \o <<m>>) = Trimmed(kept) \o Trimmed(<<m>>)
      /\ Trimmed(all \o <<m>>) = Trimmed(all) \o Trimmed(<<m>>)
  BY <1>5, TrimmedGlue
<1>9. QED
  BY <1>2, <1>4, <1>6, <1>7, <1>8 DEF Same

\* The event that carries what is on its way.
LEMMA SameRecorded ==
  ASSUME NEW messages, NEW missed, NEW evs \in Seq(EventType), NEW e \in EventType,
         ~IsBase(e), Same(messages, missed, evs, Replayed(e))
  PROVE  Same(messages, missed, Append(evs, e), <<>>)
<1>1. PICK all \in Seq(Message) : all = RebuiltOf(evs) \o Replayed(e)
  BY RebuiltType, EventHolds, ConcatProperties
<1>2. RebuiltOf(Append(evs, e)) = all
  BY <1>1, RebuiltGrows
<1>3. all \o <<>> = all
  BY ConcatEmptySeq
<1>4. QED
  BY <1>1, <1>2, <1>3 DEF Same

\* An event that carries nothing.
LEMMA SameQuiet ==
  ASSUME NEW messages, NEW missed, NEW evs \in Seq(EventType), NEW e \in EventType,
         NEW going, ~IsBase(e), Replayed(e) = <<>>, Same(messages, missed, evs, going)
  PROVE  Same(messages, missed, Append(evs, e), going)
<1>1. PICK told \in Seq(Message) : told = RebuiltOf(evs)
  BY RebuiltType
<1>2. RebuiltOf(Append(evs, e)) = told \o <<>>
  BY <1>1, RebuiltGrows
<1>3. told \o <<>> = told
  BY ConcatEmptySeq
<1>4. QED
  BY <1>1, <1>2, <1>3 DEF Same

\* A message that no event carries.
LEMMA SameUnheard ==
  ASSUME NEW messages \in Seq(Message), NEW missed, NEW evs, NEW going, NEW m \in Message,
         Same(messages, missed, evs, going),
         \A i \in 1..Len(messages) : messages[i][2] # m[2]
  PROVE  Same(Append(messages, m), missed \cup {m[2]}, evs, going)
<1> DEFINE more == missed \cup {m[2]}
<1>1. /\ m[2] \in more
      /\ \A i \in 1..Len(messages) : messages[i][2] \in missed <=> messages[i][2] \in more
  OBVIOUS
<1> HIDE DEF more
<1>2. PICK kept \in Seq(Message) : kept = Kept(messages, more)
  BY KeptGrows
<1>3. Kept(messages, missed) = kept
  BY <1>1, <1>2, KeptSame
<1>4. Kept(Append(messages, m), more) = kept \o (IF m[2] \in more THEN <<>> ELSE <<m>>)
  BY <1>2, KeptGrows
<1>5. kept \o <<>> = kept
  BY ConcatEmptySeq
<1>6. Kept(Append(messages, m), more) = Kept(messages, missed)
  BY <1>1, <1>3, <1>4, <1>5
<1>7. QED
  BY <1>6 DEF Same, more

\* A message that an event was going to carry, and now none will.
LEMMA SameDropped ==
  ASSUME NEW messages \in Seq(Message), NEW missed, NEW evs \in Seq(EventType),
         NEW m \in Message, Same(Append(messages, m), missed, evs, <<m>>),
         m[2] \notin missed, \A i \in 1..Len(messages) : messages[i][2] # m[2]
  PROVE  Same(Append(messages, m), missed \cup {m[2]}, evs, <<>>)
<1>1. PICK kept \in Seq(Message) : kept = Kept(messages, missed)
  BY KeptGrows
<1>2. PICK told \in Seq(Message) : told = RebuiltOf(evs)
  BY RebuiltType
<1>3. Kept(Append(messages, m), missed) = kept \o <<m>>
  BY <1>1, KeptGrows
<1>4. Kept(Append(messages, m), missed \cup {m[2]}) = kept
  <2> DEFINE more == missed \cup {m[2]}
  <2>1. /\ m[2] \in more
        /\ \A i \in 1..Len(messages) : messages[i][2] \in missed <=> messages[i][2] \in more
    OBVIOUS
  <2> HIDE DEF more
  <2>2. Kept(messages, more) = kept
    BY <1>1, <2>1, KeptSame
  <2>3. Kept(Append(messages, m), more)
          = Kept(messages, more) \o (IF m[2] \in more THEN <<>> ELSE <<m>>)
    BY KeptGrows
  <2>4. kept \o <<>> = kept
    BY ConcatEmptySeq
  <2>5. QED
    BY <2>1, <2>2, <2>3, <2>4 DEF more
<1>5. told \o <<>> = told
  BY ConcatEmptySeq
<1>6. Trimmed(kept \o <<m>>) = Trimmed(told \o <<m>>)
  BY <1>2, <1>3 DEF Same
<1>7. /\ kept \o <<m>> = Append(kept, m) /\ told \o <<m>> = Append(told, m)
  BY AppendIsConcat
<1>8. PICK a \in Seq(Message) : a = Trimmed(kept)
  BY TrimmedIs
<1>9. PICK b \in Seq(Message) : b = Trimmed(told)
  BY TrimmedIs
<1>10. Append(a, Trim(m)) = Append(b, Trim(m))
  <2>1. Trimmed(Append(kept, m)) = Append(a, Trim(m))
    BY <1>8, TrimmedGrows
  <2>2. Trimmed(Append(told, m)) = Append(b, Trim(m))
    BY <1>9, TrimmedGrows
  <2>3. QED
    BY <1>6, <1>7, <2>1, <2>2
<1>11. a = b
  <2>1. PICK x \in Message : x = Trim(m)
    BY TrimIs
  <2>2. PICK s \in Seq(Message) : s = Append(a, x)
    BY AppendProperties
  <2>3. /\ Len(s) = Len(a) + 1 /\ \A i \in 1..Len(a) : s[i] = a[i]
        /\ Len(a) \in Nat /\ Len(b) \in Nat
    BY <2>2
  <2>4. s = Append(b, x)
    BY <1>10, <2>1, <2>2
  <2>5. Len(s) = Len(b) + 1 /\ \A i \in 1..Len(b) : s[i] = b[i]
    BY <2>4
  <2>6. Len(a) = Len(b) /\ \A i \in 1..Len(a) : a[i] = b[i]
    BY <2>3, <2>5
  <2>7. QED
    BY <2>6, SeqEqual
<1>12. QED
  BY <1>2, <1>4, <1>5, <1>8, <1>9, <1>11 DEF Same

\* Trimming what is remembered.
LEMMA SameTrimmed ==
  ASSUME NEW messages \in Seq(Message), NEW missed, NEW evs, NEW going,
         Same(messages, missed, evs, going)
  PROVE  Same(Trimmed(messages), missed, evs, going)
<1>1. PICK kept \in Seq(Message) : kept = Kept(messages, missed)
  <2>1. PICK m : m \in Message
    <3>1. <<"user", 0>> \in Message
      BY DEF Message
    <3>2. QED
      BY <3>1
  <2>2. QED
    BY <2>1, KeptGrows
<1>2. Kept(Trimmed(messages), missed) = Trimmed(kept)
  BY <1>1, KeptTrim
<1>3. Trimmed(Trimmed(kept)) = Trimmed(kept)
  BY TrimmedTwice
<1>4. QED
  BY <1>1, <1>2, <1>3 DEF Same

\* The summary on record.
LEMMA SameSummary ==
  ASSUME NEW missed, NEW evs \in Seq(EventType), NEW e \in EventType, IsBase(e),
         e.content[2] \notin missed
  PROVE  Same(<<e.content>>, missed, Append(evs, e), <<>>)
<1>1. PICK m \in Message : m = e.content
  BY EventHolds
<1>2. RebuiltOf(Append(evs, e)) = <<m>>
  BY <1>1, RebuiltGrows
<1>3. <<m>> \o <<>> = <<m>>
  OBVIOUS
<1>4. Kept(<<m>>, missed) = <<m>>
  <2>1. <<>> \in Seq(Message) /\ Append(<<>>, m) = <<m>>
    OBVIOUS
  <2>2. Kept(Append(<<>>, m), missed) = Kept(<<>>, missed) \o <<m>>
    BY <1>1, <2>1, KeptGrows
  <2>3. <<>> \o <<m>> = <<m>>
    OBVIOUS
  <2>4. QED
    BY <2>1, <2>2, <2>3, KeptNone
<1>5. QED
  BY <1>1, <1>2, <1>3, <1>4 DEF Same


-----------------------------------------------------------------------------
(* The invariant of the record.                                             *)

\* Calls that are run are followed by their own results, and results follow theirs.
Whole(messages) ==
  \A i \in 1..Len(messages) :
    /\ messages[i][1] = "calls" =>
         i < Len(messages) /\ messages[i + 1] = <<"tool", messages[i][2] + 1>>
    /\ messages[i][1] = "tool" =>
         /\ i > 1 /\ messages[i - 1][1] = "calls"
         /\ messages[i][2] = messages[i - 1][2] + 1

ReplayTyped ==
  /\ history \in Seq(Message) /\ turn \in Seq(Message) /\ table \in Seq(EventType)
  /\ seq \in Nat /\ made \in Nat /\ lives \in Nat /\ unheard \subseteq Nat

\* The messages of the turn in progress.
TurnIs ==
  /\ pc = "answered" => turn = << <<"assistant", made>> >>
  /\ pc = "tools" => turn = << <<"calls", made>> >>
  /\ pc = "cut" => turn = << <<"cutCalls", made>> >>
  /\ pc = "ran" => \E n \in 0..made : /\ made = n + 1
                                      /\ turn = << <<"calls", n>>, <<"tool", made>> >>
  /\ pc \notin {"answered", "tools", "cut", "ran"} => turn = <<>>

\* The end of what is remembered, where an event is about to carry it.
HistoryEnds ==
  /\ pc = "prompted" => history # <<>> /\ history[Len(history)] = <<"user", made>>
  /\ pc \in {"preReset", "loopReset"} =>
       \E n \in {0, made} : n \notin unheard /\ history = << <<"summary", n>> >>
  /\ pc = "answered" =>
       /\ history # <<>> /\ history[Len(history)] = <<"assistant", made>>
       /\ made \notin unheard /\ made # 0
       /\ lives <= 1 => \A i \in 1..(Len(history) - 1) : history[i][2] < made

\* No message has the number of the next.
Numbers ==
  /\ lives <= 1 => \A i \in 1..Len(history) : history[i][2] <= made
  /\ unheard \subseteq 1..made

\* The first process stores every event that it fires.
FirstLife ==
  /\ lives = 0 => pc = "down" /\ table = <<>> /\ seq = 0
  /\ lives <= 1 => seq = Len(table)

Worded(evs) == \A n \in 1..Len(evs) : evs[n].content # <<"summary", 0>>

FirstRebuilds ==
  lives <= 1 /\ pc \notin {"down", "preReset", "loopReset"} /\ Worded(table) =>
    Same(history, unheard, table, InFlight)

ReplayShape == ReplayTyped /\ TurnIs /\ HistoryEnds /\ Numbers /\ FirstLife

ReplayInv == ReplayShape /\ Whole(RebuiltOf(table)) /\ FirstRebuilds

\* Two pieces are whole together.
LEMMA WholeGlue ==
  ASSUME NEW a \in Seq(Message), NEW b \in Seq(Message), Whole(a), Whole(b)
  PROVE  Whole(a \o b)
<1>1. PICK c \in Seq(Message) : c = a \o b
  BY ConcatProperties
<1>2. /\ Len(a) \in Nat /\ Len(b) \in Nat /\ Len(c) = Len(a) + Len(b)
      /\ \A i \in 1..Len(a) + Len(b) : c[i] = IF i <= Len(a) THEN a[i] ELSE b[i - Len(a)]
  BY <1>1, ConcatProperties
<1>3. ASSUME NEW i \in 1..Len(c), c[i][1] = "calls"
      PROVE  i < Len(c) /\ c[i + 1] = <<"tool", c[i][2] + 1>>
  <2>1. CASE i <= Len(a)
    <3>1. a[i][1] = "calls" /\ i \in 1..Len(a)
      BY <1>2, <1>3, <2>1
    <3>2. i < Len(a) /\ a[i + 1] = <<"tool", a[i][2] + 1>>
      BY <3>1 DEF Whole
    <3>3. i + 1 \in 1..Len(a) + Len(b) /\ i + 1 <= Len(a)
      BY <1>2, <3>1, <3>2
    <3>4. c[i] = a[i] /\ c[i + 1] = a[i + 1] /\ i < Len(c)
      BY <1>2, <3>1, <3>2, <3>3
    <3>5. QED
      BY <3>2, <3>4
  <2>2. CASE ~(i <= Len(a))
    <3>1. PICK k \in 1..Len(b) : k = i - Len(a)
      BY <1>2, <2>2
    <3>2. c[i] = b[k]
      BY <1>2, <2>2, <3>1
    <3>3. k < Len(b) /\ b[k + 1] = <<"tool", b[k][2] + 1>>
      BY <1>3, <3>2 DEF Whole
    <3>4. i + 1 \in 1..Len(a) + Len(b) /\ ~(i + 1 <= Len(a)) /\ (i + 1) - Len(a) = k + 1
      BY <1>2, <2>2, <3>1, <3>3
    <3>5. c[i + 1] = b[k + 1] /\ i < Len(c)
      BY <1>2, <3>4
    <3>6. QED
      BY <3>2, <3>3, <3>5
  <2>3. QED
    BY <2>1, <2>2
<1>4. ASSUME NEW i \in 1..Len(c), c[i][1] = "tool"
      PROVE  i > 1 /\ c[i - 1][1] = "calls" /\ c[i][2] = c[i - 1][2] + 1
  <2>1. CASE i <= Len(a)
    <3>1. i \in 1..Len(a) /\ c[i] = a[i]
      BY <1>2, <1>4, <2>1
    <3>2. i > 1 /\ a[i - 1][1] = "calls" /\ a[i][2] = a[i - 1][2] + 1
      BY <1>4, <3>1 DEF Whole
    <3>3. i - 1 \in 1..Len(a) + Len(b) /\ i - 1 <= Len(a)
      BY <1>2, <3>1, <3>2
    <3>4. c[i - 1] = a[i - 1]
      BY <1>2, <3>3
    <3>5. QED
      BY <3>1, <3>2, <3>4
  <2>2. CASE ~(i <= Len(a))
    <3>1. PICK k \in 1..Len(b) : k = i - Len(a)
      BY <1>2, <2>2
    <3>2. c[i] = b[k]
      BY <1>2, <2>2, <3>1
    <3>3. k > 1 /\ b[k - 1][1] = "calls" /\ b[k][2] = b[k - 1][2] + 1
      BY <1>4, <3>2 DEF Whole
    <3>4. i - 1 \in 1..Len(a) + Len(b) /\ ~(i - 1 <= Len(a)) /\ (i - 1) - Len(a) = k - 1
          /\ i > 1
      BY <1>2, <2>2, <3>1, <3>3
    <3>5. c[i - 1] = b[k - 1]
      BY <1>2, <3>4
    <3>6. QED
      BY <3>2, <3>3, <3>4, <3>5
  <2>3. QED
    BY <2>1, <2>2
<1>5. Whole(c)
  BY <1>3, <1>4 DEF Whole
<1>6. QED
  BY <1>1, <1>5

\* What an event that is fired leaves: a first process stores it.
LEMMA FireIs ==
  ASSUME ReplayTyped, FirstLife, NEW kind, NEW what, Event(kind, what) \in EventType,
         Fire(kind, what)
  PROVE  /\ seq' = seq + 1 /\ seq' \in Nat /\ table' \in Seq(EventType)
         /\ table' = table \/ table' = Append(table, Event(kind, what))
         /\ lives <= 1 => table' = Append(table, Event(kind, what)) /\ seq' = Len(table')
<1>1. PICK e \in EventType : e = Event(kind, what)
  OBVIOUS
<1>2. PICK longer \in Seq(EventType) : longer = Append(table, e)
  BY AppendProperties DEF ReplayTyped
<1>3. table \in Seq(EventType) /\ Len(table) \in Nat /\ Len(longer) = Len(table) + 1
      /\ DOMAIN table = 1..Len(table) /\ seq \in Nat
  BY <1>2 DEF ReplayTyped
<1>4. seq' = seq + 1 /\ table' = IF seq' \in DOMAIN table THEN table ELSE longer
  BY <1>1, <1>2 DEF Fire, Stored
<1>5. lives <= 1 => seq = Len(table)
  BY DEF FirstLife
<1>6. seq' \in Nat /\ (table' = table \/ table' = longer)
  BY <1>3, <1>4
<1>7. ASSUME lives <= 1 PROVE table' = longer /\ seq' = Len(longer)
  BY <1>3, <1>4, <1>5, <1>7
<1>8. table' \in Seq(EventType)
  BY <1>2, <1>3, <1>6
<1> HIDE DEF ReplayTyped, FirstLife
<1>9. QED
  BY <1>1, <1>2, <1>4, <1>6, <1>7, <1>8

\* What a message leaves that is added to what is remembered.
LEMMA SayIs ==
  ASSUME ReplayTyped, Numbers, NEW role \in {"user", "assistant", "calls", "cutCalls", "tool"},
         Say(role)
  PROVE  /\ made' = made + 1 /\ made' \in Nat /\ <<role, made'>> \in Message
         /\ history' = Append(history, <<role, made'>>) /\ history' \in Seq(Message)
         /\ history' # <<>> /\ Len(history') = Len(history) + 1
         /\ history'[Len(history')] = <<role, made'>>
         /\ \A i \in 1..Len(history) : history'[i] = history[i]
         /\ lives <= 1 => /\ \A i \in 1..Len(history) : history[i][2] < made'
                          /\ \A i \in 1..Len(history') : history'[i][2] <= made'
         /\ made' \notin unheard /\ unheard \subseteq 1..made' /\ made' \in 1..made'
<1>1. made' = made + 1 /\ made \in Nat /\ history' = Append(history, <<role, made'>>)
  BY DEF Say, ReplayTyped
<1>2. PICK m \in Message : m = <<role, made'>> /\ m[2] = made'
  <2>1. <<role, made'>> \in Message
    BY <1>1 DEF Message
  <2>2. <<role, made'>>[2] = made'
    OBVIOUS
  <2>3. QED
    BY <2>1, <2>2
<1>3. PICK longer \in Seq(Message) : longer = Append(history, m)
  BY AppendProperties DEF ReplayTyped
<1>4. /\ Len(history) \in Nat /\ Len(longer) = Len(history) + 1
      /\ longer[Len(history) + 1] = m /\ \A i \in 1..Len(history) : longer[i] = history[i]
  BY <1>3 DEF ReplayTyped
<1>5. longer # <<>>
  BY <1>4
<1>6. /\ \A i \in 1..Len(history) : history[i] \in Message
      /\ lives <= 1 => \A i \in 1..Len(history) : history[i][2] <= made
      /\ \A x \in Message : x[2] \in Nat
      /\ unheard \subseteq 1..made
  BY DEF Numbers, ReplayTyped, Message
<1>7. lives <= 1 => \A i \in 1..Len(history) : history[i][2] < made'
  BY <1>1, <1>6
<1>8. ASSUME lives <= 1, NEW i \in 1..Len(longer) PROVE longer[i][2] <= made'
  <2>1. CASE i = Len(history) + 1
    BY <1>1, <1>2, <1>4, <2>1
  <2>2. CASE i # Len(history) + 1
    <3>1. i \in 1..Len(history)
      BY <1>4, <2>2
    <3>2. QED
      BY <1>1, <1>4, <1>6, <1>8, <3>1
  <2>3. QED
    BY <2>1, <2>2
<1>9. made' \notin unheard /\ unheard \subseteq 1..made' /\ made' \in 1..made'
  BY <1>1, <1>6
<1>10. QED
  BY <1>1, <1>2, <1>3, <1>4, <1>5, <1>7, <1>8, <1>9


\* Each step keeps the shape.
LEMMA ShapeStep == ReplayShape /\ [Next]_vars => ReplayShape'
<1> SUFFICES ASSUME ReplayShape, [Next]_vars PROVE ReplayShape'
  OBVIOUS
<1>0. ReplayTyped /\ TurnIs /\ HistoryEnds /\ Numbers /\ FirstLife
  BY DEF ReplayShape
<1>m. /\ DOMAIN history = 1..Len(history) /\ Len(history) \in Nat
      /\ \A i \in 1..Len(history) : history[i] \in Message
      /\ \A x \in Message : x[2] \in Nat
      /\ made \in Nat /\ <<>> \in Seq(Message)
  BY <1>0 DEF ReplayTyped, Message
<1>1. ASSUME NewKernel PROVE ReplayShape'
  <2>1. history' = RebuiltOf(table)
    BY <1>0, <1>1, RebuildsTable DEF NewKernel, ReplayTyped
  <2>2. history' \in Seq(Message)
    BY <1>0, <2>1, RebuiltType DEF ReplayTyped
  <2>3. lives' <= 1 => history' = <<>> /\ seq' = 0 /\ table' = <<>> /\ 1..Len(history') = {}
    BY <1>0, <1>1, <2>1, RebuiltNone DEF NewKernel, ReplayTyped, FirstLife
  <2>4. ReplayTyped'
    BY <1>0, <1>m, <1>1, <2>2, <2>3 DEF NewKernel, ReplayTyped, Goto
  <2>5. TurnIs'
    BY <1>0, <1>m, <1>1 DEF NewKernel, TurnIs, Goto
  <2>6. HistoryEnds'
    BY <1>0, <1>m, <1>1 DEF NewKernel, HistoryEnds, TurnIs, Goto
  <2>7. Numbers'
    BY <1>0, <1>m, <1>1, <2>2, <2>3 DEF NewKernel, Numbers, ReplayTyped, Goto
  <2>8. FirstLife'
    BY <1>0, <1>m, <1>1, <2>2, <2>3 DEF NewKernel, FirstLife, ReplayTyped, Goto
  <2>9. QED
    BY <2>4, <2>5, <2>6, <2>7, <2>8 DEF ReplayShape
<1>2. ASSUME Crash PROVE ReplayShape'
  <2>1. ReplayTyped'
    BY <1>0, <1>m, <1>2 DEF Crash, ReplayTyped, Goto
  <2>2. TurnIs'
    BY <1>0, <1>m, <1>2 DEF Crash, TurnIs, Goto
  <2>3. HistoryEnds'
    BY <1>0, <1>m, <1>2 DEF Crash, HistoryEnds, TurnIs, Goto
  <2>4. Numbers'
    BY <1>0, <1>m, <1>2 DEF Crash, Numbers, ReplayTyped, Goto
  <2>5. FirstLife'
    BY <1>0, <1>m, <1>2 DEF Crash, FirstLife, ReplayTyped, Goto
  <2>6. QED
    BY <2>1, <2>2, <2>3, <2>4, <2>5 DEF ReplayShape
<1>3. ASSUME Stream PROVE ReplayShape'
  <2>1. /\ seq' \in Nat /\ table' \in Seq(EventType)
        /\ lives <= 1 => seq' = Len(table')
    <3>1. CASE history = <<>>
      <4>1. Event("SessionStart", <<>>) \in EventType
        BY DEF Event, EventType
      <4>2. Fire("SessionStart", <<>>)
        BY <1>3, <3>1 DEF Stream
      <4>3. QED
        BY <1>0, <4>1, <4>2, FireIs
    <3>2. CASE history # <<>>
      BY <1>0, <1>3, <3>2 DEF Stream, ReplayTyped, FirstLife
    <3>3. QED
      BY <3>1, <3>2
  <2>2. ReplayTyped'
    BY <1>0, <1>m, <1>3, <2>1 DEF Stream, ReplayTyped, Goto
  <2>3. TurnIs'
    BY <1>0, <1>m, <1>3 DEF Stream, TurnIs, Goto
  <2>4. HistoryEnds'
    BY <1>0, <1>m, <1>3 DEF Stream, HistoryEnds, TurnIs, Goto
  <2>5. Numbers'
    BY <1>0, <1>m, <1>3 DEF Stream, Numbers, ReplayTyped, Goto
  <2>6. FirstLife'
    BY <1>0, <1>m, <1>3, <2>1 DEF Stream, FirstLife, ReplayTyped, Goto
  <2>7. QED
    BY <2>2, <2>3, <2>4, <2>5, <2>6 DEF ReplayShape
<1>4. ASSUME Prompt PROVE ReplayShape'
  <2>1. Say("user")
    BY <1>4 DEF Prompt
  <2>2. /\ made' = made + 1 /\ made' \in Nat /\ <<"user", made'>> \in Message
        /\ history' = Append(history, <<"user", made'>>) /\ history' \in Seq(Message)
        /\ history' # <<>> /\ Len(history') = Len(history) + 1
        /\ history'[Len(history')] = <<"user", made'>>
        /\ \A i \in 1..Len(history) : history'[i] = history[i]
        /\ lives <= 1 => /\ \A i \in 1..Len(history) : history[i][2] < made'
                         /\ \A i \in 1..Len(history') : history'[i][2] <= made'
        /\ made' \notin unheard /\ unheard \subseteq 1..made' /\ made' \in 1..made'
    BY <1>0, <2>1, SayIs
  <2>3. ReplayTyped'
    BY <1>0, <1>m, <1>4, <2>2 DEF Prompt, ReplayTyped, Goto
  <2>4. TurnIs'
    BY <1>0, <1>m, <1>4, <2>2 DEF Prompt, TurnIs, Goto
  <2>5. HistoryEnds'
    BY <1>0, <1>m, <1>4, <2>2 DEF Prompt, HistoryEnds, TurnIs, Goto
  <2>6. Numbers'
    BY <1>0, <1>m, <1>4, <2>2 DEF Prompt, Numbers, ReplayTyped, Goto
  <2>7. FirstLife'
    BY <1>0, <1>m, <1>4, <2>2 DEF Prompt, FirstLife, ReplayTyped, Goto
  <2>8. QED
    BY <2>3, <2>4, <2>5, <2>6, <2>7 DEF ReplayShape
<1>5. ASSUME UserPromptSubmit PROVE ReplayShape'
  <2>1. Event("UserPromptSubmit", history[Len(history)]) \in EventType
    BY <1>0, <1>m, <1>5 DEF UserPromptSubmit, Event, EventType, ReplayTyped, HistoryEnds,
       Goto
  <2>2. Fire("UserPromptSubmit", history[Len(history)])
    BY <1>5 DEF UserPromptSubmit
  <2>3. /\ seq' = seq + 1 /\ seq' \in Nat /\ table' \in Seq(EventType)
        /\ lives <= 1 => seq' = Len(table')
    BY <1>0, <2>1, <2>2, FireIs
  <2>4. ReplayTyped'
    BY <1>0, <1>m, <1>5, <2>3 DEF UserPromptSubmit, ReplayTyped, Goto
  <2>5. TurnIs'
    BY <1>0, <1>m, <1>5, <2>3 DEF UserPromptSubmit, TurnIs, Goto
  <2>6. HistoryEnds'
    BY <1>0, <1>m, <1>5, <2>3 DEF UserPromptSubmit, HistoryEnds, TurnIs, Goto
  <2>7. Numbers'
    BY <1>0, <1>m, <1>5, <2>3 DEF UserPromptSubmit, Numbers, ReplayTyped, Goto
  <2>8. FirstLife'
    BY <1>0, <1>m, <1>5, <2>3 DEF UserPromptSubmit, FirstLife, ReplayTyped, Goto
  <2>9. QED
    BY <2>4, <2>5, <2>6, <2>7, <2>8 DEF ReplayShape
<1>6. ASSUME TurnStarted PROVE ReplayShape'
  <2>1. Event("TurnStarted", <<>>) \in EventType
    BY <1>0, <1>m, <1>6 DEF TurnStarted, Event, EventType, ReplayTyped, HistoryEnds, Goto
  <2>2. Fire("TurnStarted", <<>>)
    BY <1>6 DEF TurnStarted
  <2>3. /\ seq' = seq + 1 /\ seq' \in Nat /\ table' \in Seq(EventType)
        /\ lives <= 1 => seq' = Len(table')
    BY <1>0, <2>1, <2>2, FireIs
  <2>4. ReplayTyped'
    BY <1>0, <1>m, <1>6, <2>3 DEF TurnStarted, ReplayTyped, Goto
  <2>5. TurnIs'
    BY <1>0, <1>m, <1>6, <2>3 DEF TurnStarted, TurnIs, Goto
  <2>6. HistoryEnds'
    BY <1>0, <1>m, <1>6, <2>3 DEF TurnStarted, HistoryEnds, TurnIs, Goto
  <2>7. Numbers'
    BY <1>0, <1>m, <1>6, <2>3 DEF TurnStarted, Numbers, ReplayTyped, Goto
  <2>8. FirstLife'
    BY <1>0, <1>m, <1>6, <2>3 DEF TurnStarted, FirstLife, ReplayTyped, Goto
  <2>9. QED
    BY <2>4, <2>5, <2>6, <2>7, <2>8 DEF ReplayShape
<1>7. ASSUME StepFails PROVE ReplayShape'
  <2>1. Event("TurnFailed", <<>>) \in EventType
    BY <1>0, <1>m, <1>7 DEF StepFails, Event, EventType, ReplayTyped, HistoryEnds, Goto
  <2>2. Fire("TurnFailed", <<>>)
    BY <1>7 DEF StepFails
  <2>3. /\ seq' = seq + 1 /\ seq' \in Nat /\ table' \in Seq(EventType)
        /\ lives <= 1 => seq' = Len(table')
    BY <1>0, <2>1, <2>2, FireIs
  <2>4. ReplayTyped'
    BY <1>0, <1>m, <1>7, <2>3 DEF StepFails, ReplayTyped, Goto
  <2>5. TurnIs'
    BY <1>0, <1>m, <1>7, <2>3 DEF StepFails, TurnIs, Goto
  <2>6. HistoryEnds'
    BY <1>0, <1>m, <1>7, <2>3 DEF StepFails, HistoryEnds, TurnIs, Goto
  <2>7. Numbers'
    BY <1>0, <1>m, <1>7, <2>3 DEF StepFails, Numbers, ReplayTyped, Goto
  <2>8. FirstLife'
    BY <1>0, <1>m, <1>7, <2>3 DEF StepFails, FirstLife, ReplayTyped, Goto
  <2>9. QED
    BY <2>4, <2>5, <2>6, <2>7, <2>8 DEF ReplayShape
<1>8. ASSUME Answer PROVE ReplayShape'
  <2>1. Say("assistant")
    BY <1>8 DEF Answer, appendStepMessages
  <2>2. /\ made' = made + 1 /\ made' \in Nat /\ <<"assistant", made'>> \in Message
        /\ history' = Append(history, <<"assistant", made'>>) /\ history' \in Seq(Message)
        /\ history' # <<>> /\ Len(history') = Len(history) + 1
        /\ history'[Len(history')] = <<"assistant", made'>>
        /\ \A i \in 1..Len(history) : history'[i] = history[i]
        /\ lives <= 1 => /\ \A i \in 1..Len(history) : history[i][2] < made'
                         /\ \A i \in 1..Len(history') : history'[i][2] <= made'
        /\ made' \notin unheard /\ unheard \subseteq 1..made' /\ made' \in 1..made'
    BY <1>0, <2>1, SayIs
  <2>3. ReplayTyped'
    BY <1>0, <1>m, <1>8, <2>2 DEF Answer, appendStepMessages, ReplayTyped, Goto
  <2>4. TurnIs'
    BY <1>0, <1>m, <1>8, <2>2 DEF Answer, appendStepMessages, TurnIs, Goto
  <2>5. HistoryEnds'
    BY <1>0, <1>m, <1>8, <2>2 DEF Answer, appendStepMessages, HistoryEnds, TurnIs, Goto
  <2>6. Numbers'
    BY <1>0, <1>m, <1>8, <2>2 DEF Answer, appendStepMessages, Numbers, ReplayTyped, Goto
  <2>7. FirstLife'
    BY <1>0, <1>m, <1>8, <2>2 DEF Answer, appendStepMessages, FirstLife, ReplayTyped, Goto
  <2>8. QED
    BY <2>3, <2>4, <2>5, <2>6, <2>7 DEF ReplayShape
<1>9. ASSUME Calls PROVE ReplayShape'
  <2>1. Say("calls")
    BY <1>9 DEF Calls, appendStepMessages
  <2>2. /\ made' = made + 1 /\ made' \in Nat /\ <<"calls", made'>> \in Message
        /\ history' = Append(history, <<"calls", made'>>) /\ history' \in Seq(Message)
        /\ history' # <<>> /\ Len(history') = Len(history) + 1
        /\ history'[Len(history')] = <<"calls", made'>>
        /\ \A i \in 1..Len(history) : history'[i] = history[i]
        /\ lives <= 1 => /\ \A i \in 1..Len(history) : history[i][2] < made'
                         /\ \A i \in 1..Len(history') : history'[i][2] <= made'
        /\ made' \notin unheard /\ unheard \subseteq 1..made' /\ made' \in 1..made'
    BY <1>0, <2>1, SayIs
  <2>3. ReplayTyped'
    BY <1>0, <1>m, <1>9, <2>2 DEF Calls, appendStepMessages, ReplayTyped, Goto
  <2>4. TurnIs'
    BY <1>0, <1>m, <1>9, <2>2 DEF Calls, appendStepMessages, TurnIs, Goto
  <2>5. HistoryEnds'
    BY <1>0, <1>m, <1>9, <2>2 DEF Calls, appendStepMessages, HistoryEnds, TurnIs, Goto
  <2>6. Numbers'
    BY <1>0, <1>m, <1>9, <2>2 DEF Calls, appendStepMessages, Numbers, ReplayTyped, Goto
  <2>7. FirstLife'
    BY <1>0, <1>m, <1>9, <2>2 DEF Calls, appendStepMessages, FirstLife, ReplayTyped, Goto
  <2>8. QED
    BY <2>3, <2>4, <2>5, <2>6, <2>7 DEF ReplayShape
<1>10. ASSUME Tools PROVE ReplayShape'
  <2>1. Say("tool")
    BY <1>10 DEF Tools, appendStepMessages
  <2>2. /\ made' = made + 1 /\ made' \in Nat /\ <<"tool", made'>> \in Message
        /\ history' = Append(history, <<"tool", made'>>) /\ history' \in Seq(Message)
        /\ history' # <<>> /\ Len(history') = Len(history) + 1
        /\ history'[Len(history')] = <<"tool", made'>>
        /\ \A i \in 1..Len(history) : history'[i] = history[i]
        /\ lives <= 1 => /\ \A i \in 1..Len(history) : history[i][2] < made'
                         /\ \A i \in 1..Len(history') : history'[i][2] <= made'
        /\ made' \notin unheard /\ unheard \subseteq 1..made' /\ made' \in 1..made'
    BY <1>0, <2>1, SayIs
  <2>3. pc = "tools" /\ pc' = "ran" /\ turn' = Append(turn, history'[Len(history')])
    BY <1>10 DEF Tools, Goto, appendStepMessages
  <2>4. turn = << <<"calls", made>> >>
    BY <1>0, <2>3 DEF TurnIs
  <2>5. turn' = << <<"calls", made>>, <<"tool", made'>> >> /\ made \in 0..made'
        /\ made' = made + 1
    <3>1. PICK said \in Message : said = <<"tool", made'>>
      BY <2>2
    <3>2. PICK calls \in Message : calls = <<"calls", made>>
      BY <1>m DEF Message
    <3>3. turn' = <<calls, said>>
      <4>1. turn' = Append(<<calls>>, said)
        BY <2>3, <2>4, <2>2, <3>1, <3>2
      <4>2. Append(<<calls>>, said) = <<calls, said>>
        BY Pair
      <4>3. QED
        BY <4>1, <4>2
    <3>4. made \in 0..made' /\ made' = made + 1
      BY <1>m, <2>2
    <3>5. QED
      BY <3>1, <3>2, <3>3, <3>4
  <2>6. ReplayTyped'
    BY <1>0, <1>m, <1>10, <2>2 DEF Tools, appendStepMessages, ReplayTyped, Goto
  <2>7. TurnIs'
    BY <1>0, <1>m, <1>10, <2>2, <2>3, <2>5 DEF Tools, appendStepMessages, TurnIs, Goto
  <2>8. HistoryEnds'
    BY <1>0, <1>m, <1>10, <2>2 DEF Tools, appendStepMessages, HistoryEnds, TurnIs, Goto
  <2>9. Numbers'
    BY <1>0, <1>m, <1>10, <2>2 DEF Tools, appendStepMessages, Numbers, ReplayTyped, Goto
  <2>10. FirstLife'
    BY <1>0, <1>m, <1>10, <2>2 DEF Tools, appendStepMessages, FirstLife, ReplayTyped, Goto
  <2>11. QED
    BY <2>6, <2>7, <2>8, <2>9, <2>10 DEF ReplayShape
<1>11. ASSUME WriterFails PROVE ReplayShape'
  <2>1. pc = "answered" /\ made \in 1..made
    BY <1>0, <1>m, <1>11 DEF WriterFails, Goto, HistoryEnds
  <2>2. Event("TurnFailed", <<>>) \in EventType
    BY <1>0, <1>m, <1>11 DEF WriterFails, Event, EventType, ReplayTyped, HistoryEnds, Goto
  <2>3. Fire("TurnFailed", <<>>)
    BY <1>11 DEF WriterFails
  <2>4. /\ seq' = seq + 1 /\ seq' \in Nat /\ table' \in Seq(EventType)
        /\ lives <= 1 => seq' = Len(table')
    BY <1>0, <2>2, <2>3, FireIs
  <2>5. ReplayTyped'
    BY <1>0, <1>m, <1>11, <2>4 DEF WriterFails, ReplayTyped, Goto
  <2>6. TurnIs'
    BY <1>0, <1>m, <1>11, <2>4 DEF WriterFails, TurnIs, Goto
  <2>7. HistoryEnds'
    BY <1>0, <1>m, <1>11, <2>4 DEF WriterFails, HistoryEnds, TurnIs, Goto
  <2>8. Numbers'
    BY <1>0, <1>m, <1>11, <2>4, <2>1 DEF WriterFails, Numbers, ReplayTyped, Goto
  <2>9. FirstLife'
    BY <1>0, <1>m, <1>11, <2>4 DEF WriterFails, FirstLife, ReplayTyped, Goto
  <2>10. QED
    BY <2>5, <2>6, <2>7, <2>8, <2>9 DEF ReplayShape
<1>12. ASSUME NEW from \in {"answered", "cut", "ran"},
             NEW to \in {"stop", "boundary", "completionGuard"},
             TurnCompleted(from, to)
      PROVE ReplayShape'
  <2>1. Event("TurnCompleted", turn) \in EventType
    BY <1>0, <1>m, <1>12 DEF TurnCompleted, Event, EventType, ReplayTyped, HistoryEnds, Goto
  <2>2. Fire("TurnCompleted", turn)
    BY <1>12 DEF TurnCompleted
  <2>3. /\ seq' = seq + 1 /\ seq' \in Nat /\ table' \in Seq(EventType)
        /\ lives <= 1 => seq' = Len(table')
    BY <1>0, <2>1, <2>2, FireIs
  <2>4. ReplayTyped'
    BY <1>0, <1>m, <1>12, <2>3 DEF TurnCompleted, ReplayTyped, Goto
  <2>5. TurnIs'
    BY <1>0, <1>m, <1>12, <2>3 DEF TurnCompleted, TurnIs, Goto
  <2>6. HistoryEnds'
    BY <1>0, <1>m, <1>12, <2>3 DEF TurnCompleted, HistoryEnds, TurnIs, Goto
  <2>7. Numbers'
    BY <1>0, <1>m, <1>12, <2>3 DEF TurnCompleted, Numbers, ReplayTyped, Goto
  <2>8. FirstLife'
    BY <1>0, <1>m, <1>12, <2>3 DEF TurnCompleted, FirstLife, ReplayTyped, Goto
  <2>9. QED
    BY <2>4, <2>5, <2>6, <2>7, <2>8 DEF ReplayShape
<1>13. ASSUME NEW from \in {"completionGuard", "boundary"}, NEW to \in {"loop", "boundary"},
             Nudge(from, to)
      PROVE ReplayShape'
  <2>1. Say("user")
    BY <1>13 DEF Nudge
  <2>2. /\ made' = made + 1 /\ made' \in Nat /\ <<"user", made'>> \in Message
        /\ history' = Append(history, <<"user", made'>>) /\ history' \in Seq(Message)
        /\ history' # <<>> /\ Len(history') = Len(history) + 1
        /\ history'[Len(history')] = <<"user", made'>>
        /\ \A i \in 1..Len(history) : history'[i] = history[i]
        /\ lives <= 1 => /\ \A i \in 1..Len(history) : history[i][2] < made'
                         /\ \A i \in 1..Len(history') : history'[i][2] <= made'
        /\ made' \notin unheard /\ unheard \subseteq 1..made' /\ made' \in 1..made'
    BY <1>0, <2>1, SayIs
  <2>3. Event("GuardTriggered", <<>>) \in EventType
    BY <1>0, <1>m, <1>13, <2>2 DEF Nudge, Event, EventType, ReplayTyped, HistoryEnds, Goto
  <2>4. Fire("GuardTriggered", <<>>)
    BY <1>13, <2>2 DEF Nudge
  <2>5. /\ seq' = seq + 1 /\ seq' \in Nat /\ table' \in Seq(EventType)
        /\ lives <= 1 => seq' = Len(table')
    BY <1>0, <2>3, <2>4, FireIs
  <2>6. ReplayTyped'
    BY <1>0, <1>m, <1>13, <2>2, <2>5 DEF Nudge, ReplayTyped, Goto
  <2>7. TurnIs'
    BY <1>0, <1>m, <1>13, <2>2, <2>5 DEF Nudge, TurnIs, Goto
  <2>8. HistoryEnds'
    BY <1>0, <1>m, <1>13, <2>2, <2>5 DEF Nudge, HistoryEnds, TurnIs, Goto
  <2>9. Numbers'
    BY <1>0, <1>m, <1>13, <2>2, <2>5 DEF Nudge, Numbers, ReplayTyped, Goto
  <2>10. FirstLife'
    BY <1>0, <1>m, <1>13, <2>2, <2>5 DEF Nudge, FirstLife, ReplayTyped, Goto
  <2>11. QED
    BY <2>6, <2>7, <2>8, <2>9, <2>10 DEF ReplayShape
<1>14. ASSUME QueueInterrupt PROVE ReplayShape'
  <2>1. Say("user")
    BY <1>14 DEF QueueInterrupt
  <2>2. /\ made' = made + 1 /\ made' \in Nat /\ <<"user", made'>> \in Message
        /\ history' = Append(history, <<"user", made'>>) /\ history' \in Seq(Message)
        /\ history' # <<>> /\ Len(history') = Len(history) + 1
        /\ history'[Len(history')] = <<"user", made'>>
        /\ \A i \in 1..Len(history) : history'[i] = history[i]
        /\ lives <= 1 => /\ \A i \in 1..Len(history) : history[i][2] < made'
                         /\ \A i \in 1..Len(history') : history'[i][2] <= made'
        /\ made' \notin unheard /\ unheard \subseteq 1..made' /\ made' \in 1..made'
    BY <1>0, <2>1, SayIs
  <2>3. Event("QueueInterrupt", <<"user", made'>>) \in EventType
    BY <1>0, <1>m, <1>14, <2>2 DEF QueueInterrupt, Event, EventType, ReplayTyped,
       HistoryEnds, Goto
  <2>4. Fire("QueueInterrupt", <<"user", made'>>)
    BY <1>14, <2>2 DEF QueueInterrupt
  <2>5. /\ seq' = seq + 1 /\ seq' \in Nat /\ table' \in Seq(EventType)
        /\ lives <= 1 => seq' = Len(table')
    BY <1>0, <2>3, <2>4, FireIs
  <2>6. ReplayTyped'
    BY <1>0, <1>m, <1>14, <2>2, <2>5 DEF QueueInterrupt, ReplayTyped, Goto
  <2>7. TurnIs'
    BY <1>0, <1>m, <1>14, <2>2, <2>5 DEF QueueInterrupt, TurnIs, Goto
  <2>8. HistoryEnds'
    BY <1>0, <1>m, <1>14, <2>2, <2>5 DEF QueueInterrupt, HistoryEnds, TurnIs, Goto
  <2>9. Numbers'
    BY <1>0, <1>m, <1>14, <2>2, <2>5 DEF QueueInterrupt, Numbers, ReplayTyped, Goto
  <2>10. FirstLife'
    BY <1>0, <1>m, <1>14, <2>2, <2>5 DEF QueueInterrupt, FirstLife, ReplayTyped, Goto
  <2>11. QED
    BY <2>6, <2>7, <2>8, <2>9, <2>10 DEF ReplayShape
<1>15. ASSUME NextTurn PROVE ReplayShape'
  <2>1. ReplayTyped'
    BY <1>0, <1>m, <1>15 DEF NextTurn, ReplayTyped, Goto
  <2>2. TurnIs'
    BY <1>0, <1>m, <1>15 DEF NextTurn, TurnIs, Goto
  <2>3. HistoryEnds'
    BY <1>0, <1>m, <1>15 DEF NextTurn, HistoryEnds, TurnIs, Goto
  <2>4. Numbers'
    BY <1>0, <1>m, <1>15 DEF NextTurn, Numbers, ReplayTyped, Goto
  <2>5. FirstLife'
    BY <1>0, <1>m, <1>15 DEF NextTurn, FirstLife, ReplayTyped, Goto
  <2>6. QED
    BY <2>1, <2>2, <2>3, <2>4, <2>5 DEF ReplayShape
<1>16. ASSUME Guarded PROVE ReplayShape'
  <2>1. ReplayTyped'
    BY <1>0, <1>m, <1>16 DEF Guarded, ReplayTyped, Goto
  <2>2. TurnIs'
    BY <1>0, <1>m, <1>16 DEF Guarded, TurnIs, Goto
  <2>3. HistoryEnds'
    BY <1>0, <1>m, <1>16 DEF Guarded, HistoryEnds, TurnIs, Goto
  <2>4. Numbers'
    BY <1>0, <1>m, <1>16 DEF Guarded, Numbers, ReplayTyped, Goto
  <2>5. FirstLife'
    BY <1>0, <1>m, <1>16 DEF Guarded, FirstLife, ReplayTyped, Goto
  <2>6. QED
    BY <2>1, <2>2, <2>3, <2>4, <2>5 DEF ReplayShape
<1>17. ASSUME NEW from \in {"enter", "boundary"}, NEW to \in {"preCompact", "loopCompact"},
             PreCompact(from, to)
      PROVE ReplayShape'
  <2>1. history' = Trimmed(history)
    BY <1>17 DEF PreCompact, Trimmed
  <2>2. /\ history' \in Seq(Message) /\ Len(history') = Len(history)
        /\ \A i \in 1..Len(history) : history'[i][2] = history[i][2]
    BY <1>0, <1>m, <2>1, TrimmedIs, TrimIs DEF ReplayTyped
  <2>3. Event("PreCompact", <<>>) \in EventType
    BY <1>0, <1>m, <1>17 DEF PreCompact, Event, EventType, ReplayTyped, HistoryEnds, Goto
  <2>4. Fire("PreCompact", <<>>)
    BY <1>17 DEF PreCompact
  <2>5. /\ seq' = seq + 1 /\ seq' \in Nat /\ table' \in Seq(EventType)
        /\ lives <= 1 => seq' = Len(table')
    BY <1>0, <2>3, <2>4, FireIs
  <2>6. ReplayTyped'
    BY <1>0, <1>m, <1>17, <2>5, <2>2 DEF PreCompact, ReplayTyped, Goto
  <2>7. TurnIs'
    BY <1>0, <1>m, <1>17, <2>5 DEF PreCompact, TurnIs, Goto
  <2>8. HistoryEnds'
    BY <1>0, <1>m, <1>17, <2>5 DEF PreCompact, HistoryEnds, TurnIs, Goto
  <2>9. Numbers'
    BY <1>0, <1>m, <1>17, <2>5, <2>2 DEF PreCompact, Numbers, ReplayTyped, Goto
  <2>10. FirstLife'
    BY <1>0, <1>m, <1>17, <2>5 DEF PreCompact, FirstLife, ReplayTyped, Goto
  <2>11. QED
    BY <2>6, <2>7, <2>8, <2>9, <2>10 DEF ReplayShape
<1>18. ASSUME NEW from \in {"preCompact", "loopCompact"},
             NEW to \in {"preReset", "loopReset"},
             Summarised(from, to)
      PROVE ReplayShape'
  <2>1. made' = made + 1 /\ made' \in Nat /\ pc' \in {"preReset", "loopReset"}
    BY <1>m, <1>18 DEF Summarised, Goto
  <2>2. PICK n \in {0, made'} : history' = << <<"summary", n>> >>
    BY <1>18 DEF Summarised
  <2>3. n \in Nat /\ n <= made' /\ n \notin unheard
    BY <1>0, <1>m, <2>1, <2>2 DEF Numbers
  <2>4. << <<"summary", n>> >> \in Seq(Message) /\ Len(history') = 1
        /\ history'[1][2] = n
    <3>1. <<"summary", n>> \in Message
      BY <2>3 DEF Message
    <3>2. QED
      BY <2>2, <3>1
  <2>5. ReplayTyped'
    BY <1>0, <1>m, <1>18, <2>1, <2>2, <2>3, <2>4 DEF Summarised, ReplayTyped, Goto
  <2>6. TurnIs'
    BY <1>0, <1>m, <1>18 DEF Summarised, TurnIs, Goto
  <2>7. HistoryEnds'
    BY <1>0, <1>m, <1>18, <2>1, <2>2, <2>3, <2>4 DEF Summarised, HistoryEnds, TurnIs, Goto
  <2>8. Numbers'
    BY <1>0, <1>m, <1>18, <2>1, <2>2, <2>3, <2>4 DEF Summarised, Numbers, ReplayTyped, Goto
  <2>9. FirstLife'
    BY <1>0, <1>m, <1>18 DEF Summarised, FirstLife, ReplayTyped, Goto
  <2>10. QED
    BY <2>5, <2>6, <2>7, <2>8, <2>9 DEF ReplayShape
<1>19. ASSUME NEW from \in {"preReset", "loopReset"}, NEW to \in {"compacted", "loop"},
             PostCompact(from, to)
      PROVE ReplayShape'
  <2>1. Event("PostCompact", history[1]) \in EventType
    BY <1>0, <1>m, <1>19 DEF PostCompact, Event, EventType, ReplayTyped, HistoryEnds, Goto
  <2>2. Fire("PostCompact", history[1])
    BY <1>19 DEF PostCompact
  <2>3. /\ seq' = seq + 1 /\ seq' \in Nat /\ table' \in Seq(EventType)
        /\ lives <= 1 => seq' = Len(table')
    BY <1>0, <2>1, <2>2, FireIs
  <2>4. ReplayTyped'
    BY <1>0, <1>m, <1>19, <2>3 DEF PostCompact, ReplayTyped, Goto
  <2>5. TurnIs'
    BY <1>0, <1>m, <1>19, <2>3 DEF PostCompact, TurnIs, Goto
  <2>6. HistoryEnds'
    BY <1>0, <1>m, <1>19, <2>3 DEF PostCompact, HistoryEnds, TurnIs, Goto
  <2>7. Numbers'
    BY <1>0, <1>m, <1>19, <2>3 DEF PostCompact, Numbers, ReplayTyped, Goto
  <2>8. FirstLife'
    BY <1>0, <1>m, <1>19, <2>3 DEF PostCompact, FirstLife, ReplayTyped, Goto
  <2>9. QED
    BY <2>4, <2>5, <2>6, <2>7, <2>8 DEF ReplayShape
<1>20. ASSUME CompactFails PROVE ReplayShape'
  <2>1. ReplayTyped'
    BY <1>0, <1>m, <1>20 DEF CompactFails, ReplayTyped, Goto
  <2>2. TurnIs'
    BY <1>0, <1>m, <1>20 DEF CompactFails, TurnIs, Goto
  <2>3. HistoryEnds'
    BY <1>0, <1>m, <1>20 DEF CompactFails, HistoryEnds, TurnIs, Goto
  <2>4. Numbers'
    BY <1>0, <1>m, <1>20 DEF CompactFails, Numbers, ReplayTyped, Goto
  <2>5. FirstLife'
    BY <1>0, <1>m, <1>20 DEF CompactFails, FirstLife, ReplayTyped, Goto
  <2>6. QED
    BY <2>1, <2>2, <2>3, <2>4, <2>5 DEF ReplayShape
<1>21. ASSUME PromptCompacted PROVE ReplayShape'
  <2>1. Say("user")
    BY <1>21 DEF PromptCompacted
  <2>2. /\ made' = made + 1 /\ made' \in Nat /\ <<"user", made'>> \in Message
        /\ history' = Append(history, <<"user", made'>>) /\ history' \in Seq(Message)
        /\ history' # <<>> /\ Len(history') = Len(history) + 1
        /\ history'[Len(history')] = <<"user", made'>>
        /\ \A i \in 1..Len(history) : history'[i] = history[i]
        /\ lives <= 1 => /\ \A i \in 1..Len(history) : history[i][2] < made'
                         /\ \A i \in 1..Len(history') : history'[i][2] <= made'
        /\ made' \notin unheard /\ unheard \subseteq 1..made' /\ made' \in 1..made'
    BY <1>0, <2>1, SayIs
  <2>3. ReplayTyped'
    BY <1>0, <1>m, <1>21, <2>2 DEF PromptCompacted, ReplayTyped, Goto
  <2>4. TurnIs'
    BY <1>0, <1>m, <1>21, <2>2 DEF PromptCompacted, TurnIs, Goto
  <2>5. HistoryEnds'
    BY <1>0, <1>m, <1>21, <2>2 DEF PromptCompacted, HistoryEnds, TurnIs, Goto
  <2>6. Numbers'
    BY <1>0, <1>m, <1>21, <2>2 DEF PromptCompacted, Numbers, ReplayTyped, Goto
  <2>7. FirstLife'
    BY <1>0, <1>m, <1>21, <2>2 DEF PromptCompacted, FirstLife, ReplayTyped, Goto
  <2>8. QED
    BY <2>3, <2>4, <2>5, <2>6, <2>7 DEF ReplayShape
<1>22. ASSUME Stop PROVE ReplayShape'
  <2>1. Event("Stop", <<>>) \in EventType
    BY <1>0, <1>m, <1>22 DEF Stop, Event, EventType, ReplayTyped, HistoryEnds, Goto
  <2>2. Fire("Stop", <<>>)
    BY <1>22 DEF Stop
  <2>3. /\ seq' = seq + 1 /\ seq' \in Nat /\ table' \in Seq(EventType)
        /\ lives <= 1 => seq' = Len(table')
    BY <1>0, <2>1, <2>2, FireIs
  <2>4. ReplayTyped'
    BY <1>0, <1>m, <1>22, <2>3 DEF Stop, ReplayTyped, Goto
  <2>5. TurnIs'
    BY <1>0, <1>m, <1>22, <2>3 DEF Stop, TurnIs, Goto
  <2>6. HistoryEnds'
    BY <1>0, <1>m, <1>22, <2>3 DEF Stop, HistoryEnds, TurnIs, Goto
  <2>7. Numbers'
    BY <1>0, <1>m, <1>22, <2>3 DEF Stop, Numbers, ReplayTyped, Goto
  <2>8. FirstLife'
    BY <1>0, <1>m, <1>22, <2>3 DEF Stop, FirstLife, ReplayTyped, Goto
  <2>9. QED
    BY <2>4, <2>5, <2>6, <2>7, <2>8 DEF ReplayShape
<1>23. ASSUME MasterIdle PROVE ReplayShape'
  <2>1. Event("MasterIdle", <<>>) \in EventType
    BY <1>0, <1>m, <1>23 DEF MasterIdle, Event, EventType, ReplayTyped, HistoryEnds, Goto
  <2>2. Fire("MasterIdle", <<>>)
    BY <1>23 DEF MasterIdle
  <2>3. /\ seq' = seq + 1 /\ seq' \in Nat /\ table' \in Seq(EventType)
        /\ lives <= 1 => seq' = Len(table')
    BY <1>0, <2>1, <2>2, FireIs
  <2>4. ReplayTyped'
    BY <1>0, <1>m, <1>23, <2>3 DEF MasterIdle, ReplayTyped, Goto
  <2>5. TurnIs'
    BY <1>0, <1>m, <1>23, <2>3 DEF MasterIdle, TurnIs, Goto
  <2>6. HistoryEnds'
    BY <1>0, <1>m, <1>23, <2>3 DEF MasterIdle, HistoryEnds, TurnIs, Goto
  <2>7. Numbers'
    BY <1>0, <1>m, <1>23, <2>3 DEF MasterIdle, Numbers, ReplayTyped, Goto
  <2>8. FirstLife'
    BY <1>0, <1>m, <1>23, <2>3 DEF MasterIdle, FirstLife, ReplayTyped, Goto
  <2>9. QED
    BY <2>4, <2>5, <2>6, <2>7, <2>8 DEF ReplayShape
<1>24. ASSUME Wake PROVE ReplayShape'
  <2>1. Say("user")
    BY <1>24 DEF Wake
  <2>2. /\ made' = made + 1 /\ made' \in Nat /\ <<"user", made'>> \in Message
        /\ history' = Append(history, <<"user", made'>>) /\ history' \in Seq(Message)
        /\ history' # <<>> /\ Len(history') = Len(history) + 1
        /\ history'[Len(history')] = <<"user", made'>>
        /\ \A i \in 1..Len(history) : history'[i] = history[i]
        /\ lives <= 1 => /\ \A i \in 1..Len(history) : history[i][2] < made'
                         /\ \A i \in 1..Len(history') : history'[i][2] <= made'
        /\ made' \notin unheard /\ unheard \subseteq 1..made' /\ made' \in 1..made'
    BY <1>0, <2>1, SayIs
  <2>3. ReplayTyped'
    BY <1>0, <1>m, <1>24, <2>2 DEF Wake, ReplayTyped, Goto
  <2>4. TurnIs'
    BY <1>0, <1>m, <1>24, <2>2 DEF Wake, TurnIs, Goto
  <2>5. HistoryEnds'
    BY <1>0, <1>m, <1>24, <2>2 DEF Wake, HistoryEnds, TurnIs, Goto
  <2>6. Numbers'
    BY <1>0, <1>m, <1>24, <2>2 DEF Wake, Numbers, ReplayTyped, Goto
  <2>7. FirstLife'
    BY <1>0, <1>m, <1>24, <2>2 DEF Wake, FirstLife, ReplayTyped, Goto
  <2>8. QED
    BY <2>3, <2>4, <2>5, <2>6, <2>7 DEF ReplayShape
<1>27. ASSUME LimitCut PROVE ReplayShape'
  <2>1. Say("cutCalls")
    BY <1>27 DEF LimitCut, appendStepMessages
  <2>2. /\ made' = made + 1 /\ made' \in Nat /\ <<"cutCalls", made'>> \in Message
        /\ history' = Append(history, <<"cutCalls", made'>>) /\ history' \in Seq(Message)
        /\ history' # <<>> /\ Len(history') = Len(history) + 1
        /\ history'[Len(history')] = <<"cutCalls", made'>>
        /\ \A i \in 1..Len(history) : history'[i] = history[i]
        /\ lives <= 1 => /\ \A i \in 1..Len(history) : history[i][2] < made'
                         /\ \A i \in 1..Len(history') : history'[i][2] <= made'
        /\ made' \notin unheard /\ unheard \subseteq 1..made' /\ made' \in 1..made'
    BY <1>0, <2>1, SayIs
  <2>3. ReplayTyped'
    BY <1>0, <1>m, <1>27, <2>2 DEF LimitCut, appendStepMessages, ReplayTyped, Goto
  <2>4. TurnIs'
    BY <1>0, <1>m, <1>27, <2>2 DEF LimitCut, appendStepMessages, TurnIs, Goto
  <2>5. HistoryEnds'
    BY <1>0, <1>m, <1>27, <2>2 DEF LimitCut, appendStepMessages, HistoryEnds, TurnIs, Goto
  <2>6. Numbers'
    BY <1>0, <1>m, <1>27, <2>2 DEF LimitCut, appendStepMessages, Numbers, ReplayTyped, Goto
  <2>7. FirstLife'
    BY <1>0, <1>m, <1>27, <2>2 DEF LimitCut, appendStepMessages, FirstLife, ReplayTyped, Goto
  <2>8. QED
    BY <2>3, <2>4, <2>5, <2>6, <2>7 DEF ReplayShape
<1>28. ASSUME NEW to \in {"stop", "idle"}, EndsAtTop(to) PROVE ReplayShape'
  <2>1. ReplayTyped'
    BY <1>0, <1>m, <1>28 DEF EndsAtTop, ReplayTyped, Goto
  <2>2. TurnIs'
    BY <1>0, <1>m, <1>28 DEF EndsAtTop, TurnIs, Goto
  <2>3. HistoryEnds'
    BY <1>0, <1>m, <1>28 DEF EndsAtTop, HistoryEnds, TurnIs, Goto
  <2>4. Numbers'
    BY <1>0, <1>m, <1>28 DEF EndsAtTop, Numbers, ReplayTyped, Goto
  <2>5. FirstLife'
    BY <1>0, <1>m, <1>28 DEF EndsAtTop, FirstLife, ReplayTyped, Goto
  <2>6. QED
    BY <2>1, <2>2, <2>3, <2>4, <2>5 DEF ReplayShape
<1>25. CASE UNCHANGED vars
  BY <1>0, <1>25 DEF vars, ReplayTyped, TurnIs, HistoryEnds, Numbers, FirstLife, Goto,
     ReplayShape
<1>26. QED
  BY <1>1, <1>2, <1>3, <1>4, <1>5, <1>6, <1>7, <1>8, <1>9, <1>10, <1>11, <1>12, <1>13,
     <1>14, <1>15, <1>16, <1>17, <1>18, <1>19, <1>20, <1>21, <1>22, <1>23, <1>24, <1>25,
     <1>27, <1>28
     DEF Next, Chat, Turn, Compact

\* A log that has a summary in no words still has it when it is longer.
LEMMA WordedGrows ==
  ASSUME NEW evs \in Seq(EventType), NEW e \in EventType, Worded(Append(evs, e))
  PROVE  Worded(evs) /\ e.content # <<"summary", 0>>
<1>1. PICK longer \in Seq(EventType) : longer = Append(evs, e)
  BY AppendProperties
<1>2. /\ Len(evs) \in Nat /\ Len(longer) = Len(evs) + 1
      /\ longer[Len(evs) + 1] = e /\ \A i \in 1..Len(evs) : longer[i] = evs[i]
  BY <1>1
<1>3. \A n \in 1..Len(longer) : longer[n].content # <<"summary", 0>>
  BY <1>1 DEF Worded
<1>4. \A n \in 1..Len(evs) : n \in 1..Len(longer)
  BY <1>2
<1>5. Len(evs) + 1 \in 1..Len(longer)
  BY <1>2
<1>6. QED
  BY <1>2, <1>3, <1>4, <1>5 DEF Worded

\* An event that carries messages.
LEMMA Carries ==
  ASSUME ReplayShape, Whole(RebuiltOf(table)), NEW kind, NEW what,
         Event(kind, what) \in EventType, Fire(kind, what),
         kind # "PostCompact", Whole(Replayed(Event(kind, what)))
  PROVE  /\ Whole(RebuiltOf(table'))
         /\ lives <= 1 /\ Worded(table') => Worded(table)
         /\ \A messages, missed :
              lives <= 1 /\ Same(messages, missed, table, Replayed(Event(kind, what)))
                => Same(messages, missed, table', <<>>)
<1>1. PICK e \in EventType : e = Event(kind, what)
  OBVIOUS
<1>2. PICK evs \in Seq(EventType) : evs = table
  BY DEF ReplayShape, ReplayTyped
<1>3. /\ table' = evs \/ table' = Append(evs, e)
      /\ lives <= 1 => table' = Append(evs, e)
  BY <1>1, <1>2, FireIs DEF ReplayShape
<1>4. ~IsBase(e)
  BY <1>1 DEF IsBase, Event
<1>5. Whole(RebuiltOf(evs) \o Replayed(e))
  BY <1>1, <1>2, RebuiltType, EventHolds, WholeGlue
<1>6. Whole(RebuiltOf(Append(evs, e)))
  BY <1>4, <1>5, RebuiltGrows
<1>7. Whole(RebuiltOf(table'))
  BY <1>2, <1>3, <1>6
<1>8. lives <= 1 /\ Worded(table') => Worded(evs)
  BY <1>3, WordedGrows
<1>9. ASSUME NEW messages, NEW missed, lives <= 1, Same(messages, missed, evs, Replayed(e))
      PROVE  Same(messages, missed, table', <<>>)
  BY <1>3, <1>4, <1>9, SameRecorded
<1>10. QED
  BY <1>1, <1>2, <1>7, <1>8, <1>9

\* An event that carries none.
LEMMA CarriesNothing ==
  ASSUME ReplayShape, Whole(RebuiltOf(table)), NEW kind, NEW what,
         Event(kind, what) \in EventType, Fire(kind, what),
         kind \notin {"PostCompact", "UserPromptSubmit", "TurnCompleted"}
  PROVE  /\ Whole(RebuiltOf(table'))
         /\ lives <= 1 /\ Worded(table') => Worded(table)
         /\ \A messages, missed, going :
              lives <= 1 /\ Same(messages, missed, table, going)
                => Same(messages, missed, table', going)
<1>1. PICK e \in EventType : e = Event(kind, what)
  OBVIOUS
<1>2. PICK evs \in Seq(EventType) : evs = table
  BY DEF ReplayShape, ReplayTyped
<1>3. lives <= 1 => table' = Append(evs, e)
  BY <1>1, <1>2, FireIs DEF ReplayShape
<1>4. ~IsBase(e) /\ Replayed(e) = <<>>
  BY <1>1 DEF IsBase, Event, Replayed
<1>5. Whole(<<>>)
  BY DEF Whole
<1>6. /\ Whole(RebuiltOf(table'))
      /\ lives <= 1 /\ Worded(table') => Worded(table)
  BY <1>1, <1>4, <1>5, Carries
<1>7. ASSUME NEW messages, NEW missed, NEW going, lives <= 1,
             Same(messages, missed, evs, going)
      PROVE  Same(messages, missed, table', going)
  BY <1>3, <1>4, <1>7, SameQuiet
<1>8. QED
  BY <1>2, <1>6, <1>7

\* Each step keeps what the record rebuilds.
LEMMA RecordStep ==
  ReplayInv /\ [Next]_vars => Whole(RebuiltOf(table')) /\ FirstRebuilds'
<1> SUFFICES ASSUME ReplayInv, [Next]_vars
             PROVE  Whole(RebuiltOf(table')) /\ FirstRebuilds'
  OBVIOUS
<1>0. /\ ReplayShape /\ Whole(RebuiltOf(table)) /\ FirstRebuilds
      /\ ReplayTyped /\ TurnIs /\ HistoryEnds /\ Numbers /\ FirstLife
  BY DEF ReplayInv, ReplayShape
<1>m. /\ history \in Seq(Message) /\ turn \in Seq(Message) /\ table \in Seq(EventType)
      /\ made \in Nat /\ Len(history) \in Nat /\ <<>> \in Seq(Message)
      /\ \A i \in 1..Len(history) : history[i] \in Message
  BY <1>0 DEF ReplayTyped
<1>f. lives <= 1 /\ pc \notin {"down", "preReset", "loopReset"} /\ Worded(table) =>
        Same(history, unheard, table,
             IF pc = "prompted" THEN <<history[Len(history)]>> ELSE turn)
  BY <1>0 DEF FirstRebuilds, InFlight
<1>t. pc \notin {"answered", "tools", "cut", "ran"} => turn = <<>>
  BY <1>0 DEF TurnIs
<1>1. ASSUME NewKernel
      PROVE  Whole(RebuiltOf(table')) /\ FirstRebuilds'
  <2>1. table' = table /\ turn' = turn /\ pc = "down" /\ pc' = "idle" /\ lives' = lives + 1
    BY <1>1 DEF NewKernel, Goto
  <2>2. history' = RebuiltOf(table)
    BY <1>m, <1>1, RebuildsTable DEF NewKernel
  <2>3. lives' <= 1 => table = <<>> /\ history' = <<>> /\ turn' = <<>>
    BY <1>0, <1>t, <2>1, <2>2, RebuiltNone DEF FirstLife, ReplayTyped
  <2>4. FirstRebuilds'
    BY <2>1, <2>3, SameAtFirst DEF FirstRebuilds, InFlight
  <2>5. QED
    BY <1>0, <2>1, <2>4
<1>2. ASSUME Crash
      PROVE  Whole(RebuiltOf(table')) /\ FirstRebuilds'
  <2>1. table' = table /\ pc' = "down"
    BY <1>2 DEF Crash
  <2>2. QED
    BY <1>0, <2>1 DEF FirstRebuilds
<1>3. ASSUME Stream
      PROVE  Whole(RebuiltOf(table')) /\ FirstRebuilds'
  <2>1. pc = "idle" /\ pc' = "enter" /\ UNCHANGED <<history, turn, lives, unheard>>
    BY <1>3 DEF Stream, Goto
  <2>2. CASE history = <<>>
    <3>1. Event("SessionStart", <<>>) \in EventType
      BY DEF Event, EventType
    <3>2. Fire("SessionStart", <<>>)
      BY <1>3, <2>2 DEF Stream
    <3>3. /\ Whole(RebuiltOf(table'))
          /\ lives <= 1 /\ Worded(table') => Worded(table)
          /\ \A messages, missed, going :
               lives <= 1 /\ Same(messages, missed, table, going)
                 => Same(messages, missed, table', going)
      BY <1>0, <3>1, <3>2, CarriesNothing
    <3>4. QED
      BY <1>f, <2>1, <3>3 DEF FirstRebuilds, InFlight
  <2>3. CASE history # <<>>
    <3>1. table' = table
      BY <1>3, <2>3 DEF Stream
    <3>2. QED
      BY <1>0, <1>f, <2>1, <3>1 DEF FirstRebuilds, InFlight
  <2>4. QED
    BY <2>2, <2>3
<1>4. ASSUME Prompt
      PROVE  Whole(RebuiltOf(table')) /\ FirstRebuilds'
  <2>1. Say("user")
    BY <1>4 DEF Prompt
  <2>2. /\ made' = made + 1 /\ made' \in Nat /\ <<"user", made'>> \in Message
        /\ history' = Append(history, <<"user", made'>>) /\ history' \in Seq(Message)
        /\ Len(history') = Len(history) + 1
        /\ history'[Len(history')] = <<"user", made'>>
        /\ lives <= 1 => \A i \in 1..Len(history) : history[i][2] < made'
        /\ made' \notin unheard
    BY <1>0, <2>1, SayIs
  <2>3. pc = "enter" /\ pc' = "prompted" /\ UNCHANGED <<table, lives, unheard>>
    BY <1>4 DEF Prompt, Goto
  <2>4. turn = <<>> /\ Append(turn, <<"user", made'>>) = << <<"user", made'>> >>
    BY <1>t, <2>3
  <2>5. lives <= 1 /\ Worded(table) =>
          Same(history', unheard, table, Append(turn, <<"user", made'>>))
    BY <1>m, <1>f, <2>2, <2>3, SameHeard
  <2>6. FirstRebuilds'
    BY <2>2, <2>3, <2>4, <2>5 DEF FirstRebuilds, InFlight
  <2>7. QED
    BY <1>0, <2>3, <2>6
<1>5. ASSUME UserPromptSubmit
      PROVE  Whole(RebuiltOf(table')) /\ FirstRebuilds'
  <2>1. /\ pc = "prompted" /\ pc' = "loop" /\ UNCHANGED <<history, turn, lives, unheard>>
        /\ Fire("UserPromptSubmit", history[Len(history)])
    BY <1>5 DEF UserPromptSubmit, Goto
  <2>2. PICK m \in Message : m = history[Len(history)] /\ m[1] = "user"
    BY <1>0, <1>m, <2>1 DEF HistoryEnds
  <2>3. /\ Event("UserPromptSubmit", m) \in EventType
        /\ Replayed(Event("UserPromptSubmit", m)) = <<m>>
    BY DEF Event, EventType, Replayed
  <2>4. Whole(<<m>>)
    BY <2>2 DEF Whole
  <2>5. /\ Whole(RebuiltOf(table'))
        /\ lives <= 1 /\ Worded(table') => Worded(table)
        /\ \A messages, missed :
             lives <= 1
               /\ Same(messages, missed, table, Replayed(Event("UserPromptSubmit", m)))
                 => Same(messages, missed, table', <<>>)
    BY <1>0, <2>1, <2>2, <2>3, <2>4, Carries
  <2>6. turn' = <<>>
    BY <1>t, <2>1
  <2>7. FirstRebuilds'
    BY <1>f, <2>1, <2>2, <2>3, <2>5, <2>6 DEF FirstRebuilds, InFlight
  <2>8. QED
    BY <2>5, <2>7
<1>6. ASSUME TurnStarted
      PROVE  Whole(RebuiltOf(table')) /\ FirstRebuilds'
  <2>1. Event("TurnStarted", <<>>) \in EventType
    BY DEF Event, EventType
  <2>2. Fire("TurnStarted", <<>>)
    BY <1>6 DEF TurnStarted
  <2>3. /\ Whole(RebuiltOf(table'))
        /\ lives <= 1 /\ Worded(table') => Worded(table)
        /\ \A messages, missed, going :
             lives <= 1 /\ Same(messages, missed, table, going)
               => Same(messages, missed, table', going)
    BY <1>0, <2>1, <2>2, CarriesNothing
  <2>4. /\ UNCHANGED <<history, turn, lives, unheard>>
        /\ pc \notin {"down", "preReset", "loopReset", "prompted"} /\ pc' # "prompted"
    BY <1>6 DEF TurnStarted, Goto
  <2>5. FirstRebuilds'
    BY <1>f, <2>3, <2>4 DEF FirstRebuilds, InFlight
  <2>6. QED
    BY <2>3, <2>5
<1>7. ASSUME StepFails
      PROVE  Whole(RebuiltOf(table')) /\ FirstRebuilds'
  <2>1. Event("TurnFailed", <<>>) \in EventType
    BY DEF Event, EventType
  <2>2. Fire("TurnFailed", <<>>)
    BY <1>7 DEF StepFails
  <2>3. /\ Whole(RebuiltOf(table'))
        /\ lives <= 1 /\ Worded(table') => Worded(table)
        /\ \A messages, missed, going :
             lives <= 1 /\ Same(messages, missed, table, going)
               => Same(messages, missed, table', going)
    BY <1>0, <2>1, <2>2, CarriesNothing
  <2>4. /\ UNCHANGED <<history, turn, lives, unheard>>
        /\ pc \notin {"down", "preReset", "loopReset", "prompted"} /\ pc' # "prompted"
    BY <1>7 DEF StepFails, Goto
  <2>5. FirstRebuilds'
    BY <1>f, <2>3, <2>4 DEF FirstRebuilds, InFlight
  <2>6. QED
    BY <2>3, <2>5
<1>8. ASSUME Answer
      PROVE  Whole(RebuiltOf(table')) /\ FirstRebuilds'
  <2>1. Say("assistant")
    BY <1>8 DEF Answer, appendStepMessages
  <2>2. /\ made' = made + 1 /\ made' \in Nat /\ <<"assistant", made'>> \in Message
        /\ history' = Append(history, <<"assistant", made'>>) /\ history' \in Seq(Message)
        /\ Len(history') = Len(history) + 1
        /\ history'[Len(history')] = <<"assistant", made'>>
        /\ lives <= 1 => \A i \in 1..Len(history) : history[i][2] < made'
        /\ made' \notin unheard
    BY <1>0, <2>1, SayIs
  <2>3. pc = "step" /\ pc' = "answered" /\ UNCHANGED <<table, lives, unheard>>
    BY <1>8 DEF Answer, Goto
  <2>4. turn' = Append(turn, <<"assistant", made'>>)
    BY <1>8, <2>2 DEF Answer, appendStepMessages
  <2>5. lives <= 1 /\ Worded(table) =>
          Same(history', unheard, table, Append(turn, <<"assistant", made'>>))
    BY <1>m, <1>f, <2>2, <2>3, SameHeard
  <2>6. FirstRebuilds'
    BY <2>2, <2>3, <2>4, <2>5 DEF FirstRebuilds, InFlight
  <2>7. QED
    BY <1>0, <2>3, <2>6
<1>9. ASSUME Calls
      PROVE  Whole(RebuiltOf(table')) /\ FirstRebuilds'
  <2>1. Say("calls")
    BY <1>9 DEF Calls, appendStepMessages
  <2>2. /\ made' = made + 1 /\ made' \in Nat /\ <<"calls", made'>> \in Message
        /\ history' = Append(history, <<"calls", made'>>) /\ history' \in Seq(Message)
        /\ Len(history') = Len(history) + 1
        /\ history'[Len(history')] = <<"calls", made'>>
        /\ lives <= 1 => \A i \in 1..Len(history) : history[i][2] < made'
        /\ made' \notin unheard
    BY <1>0, <2>1, SayIs
  <2>3. pc = "step" /\ pc' = "tools" /\ UNCHANGED <<table, lives, unheard>>
    BY <1>9 DEF Calls, Goto
  <2>4. turn' = Append(turn, <<"calls", made'>>)
    BY <1>9, <2>2 DEF Calls, appendStepMessages
  <2>5. lives <= 1 /\ Worded(table) =>
          Same(history', unheard, table, Append(turn, <<"calls", made'>>))
    BY <1>m, <1>f, <2>2, <2>3, SameHeard
  <2>6. FirstRebuilds'
    BY <2>2, <2>3, <2>4, <2>5 DEF FirstRebuilds, InFlight
  <2>7. QED
    BY <1>0, <2>3, <2>6
<1>10. ASSUME Tools
      PROVE  Whole(RebuiltOf(table')) /\ FirstRebuilds'
  <2>1. Say("tool")
    BY <1>10 DEF Tools, appendStepMessages
  <2>2. /\ made' = made + 1 /\ made' \in Nat /\ <<"tool", made'>> \in Message
        /\ history' = Append(history, <<"tool", made'>>) /\ history' \in Seq(Message)
        /\ Len(history') = Len(history) + 1
        /\ history'[Len(history')] = <<"tool", made'>>
        /\ lives <= 1 => \A i \in 1..Len(history) : history[i][2] < made'
        /\ made' \notin unheard
    BY <1>0, <2>1, SayIs
  <2>3. pc = "tools" /\ pc' = "ran" /\ UNCHANGED <<table, lives, unheard>>
    BY <1>10 DEF Tools, Goto
  <2>4. turn' = Append(turn, <<"tool", made'>>)
    BY <1>10, <2>2 DEF Tools, appendStepMessages
  <2>5. lives <= 1 /\ Worded(table) =>
          Same(history', unheard, table, Append(turn, <<"tool", made'>>))
    BY <1>m, <1>f, <2>2, <2>3, SameHeard
  <2>6. FirstRebuilds'
    BY <2>2, <2>3, <2>4, <2>5 DEF FirstRebuilds, InFlight
  <2>7. QED
    BY <1>0, <2>3, <2>6
<1>11. ASSUME WriterFails
      PROVE  Whole(RebuiltOf(table')) /\ FirstRebuilds'
  <2>1. /\ pc = "answered" /\ pc' = "idle" /\ UNCHANGED <<history, made, lives>>
        /\ turn' = <<>> /\ unheard' = unheard \cup {made} /\ Fire("TurnFailed", <<>>)
    BY <1>11 DEF WriterFails, Goto
  <2>2. Event("TurnFailed", <<>>) \in EventType
    BY DEF Event, EventType
  <2>3. /\ Whole(RebuiltOf(table'))
        /\ lives <= 1 /\ Worded(table') => Worded(table)
        /\ \A messages, missed, going :
             lives <= 1 /\ Same(messages, missed, table, going)
               => Same(messages, missed, table', going)
    BY <1>0, <2>1, <2>2, CarriesNothing
  <2>4. /\ history # <<>> /\ history[Len(history)] = <<"assistant", made>>
        /\ made \notin unheard /\ turn = << <<"assistant", made>> >>
        /\ lives <= 1 => \A i \in 1..(Len(history) - 1) : history[i][2] < made
    BY <1>0, <2>1 DEF HistoryEnds, TurnIs
  <2>5. PICK r \in Seq(Message) :
          \E x \in Message : history = Append(r, x) /\ Len(history) = Len(r) + 1
    BY <1>m, <2>4, LastOne
  <2>6. PICK x \in Message : history = Append(r, x) /\ Len(history) = Len(r) + 1
    BY <2>5
  <2>7. x = <<"assistant", made>> /\ x[2] = made /\ Len(r) \in Nat
        /\ \A i \in 1..Len(r) : r[i] = history[i]
    BY <2>4, <2>6
  <2>8. lives <= 1 => \A i \in 1..Len(r) : r[i][2] # made
    <3>1. ASSUME lives <= 1, NEW i \in 1..Len(r) PROVE r[i][2] # made
      <4>1. i \in 1..(Len(history) - 1) /\ r[i] \in Message /\ r[i] = history[i]
        BY <2>6, <2>7
      <4>2. r[i][2] < made /\ r[i][2] \in Nat
        BY <2>4, <3>1, <4>1 DEF Message
      <4>3. QED
        BY <1>m, <4>2
    <3>2. QED
      BY <3>1
  <2>9. lives <= 1 /\ Worded(table) => Same(history, unheard \cup {made}, table, <<>>)
    <3>1. ASSUME lives <= 1, Worded(table)
          PROVE  Same(Append(r, x), unheard \cup {x[2]}, table, <<>>)
      <4>1. Same(Append(r, x), unheard, table, <<x>>)
        BY <1>f, <2>1, <2>4, <2>6, <2>7, <3>1
      <4>2. QED
        BY <1>m, <2>4, <2>7, <2>8, <3>1, <4>1, SameDropped
    <3>2. QED
      BY <2>6, <2>7, <3>1
  <2>10. FirstRebuilds'
    BY <2>1, <2>3, <2>9 DEF FirstRebuilds, InFlight
  <2>11. QED
    BY <2>3, <2>10
<1>12. ASSUME NEW from \in {"answered", "cut", "ran"},
             NEW to \in {"stop", "boundary", "completionGuard"},
             TurnCompleted(from, to)
      PROVE  Whole(RebuiltOf(table')) /\ FirstRebuilds'
  <2>1. /\ pc \in {"answered", "cut", "ran"} /\ pc' # "prompted" /\ turn' = <<>>
        /\ UNCHANGED <<history, lives, unheard>> /\ Fire("TurnCompleted", turn)
    BY <1>12 DEF TurnCompleted, Goto
  <2>2. /\ Event("TurnCompleted", turn) \in EventType
        /\ Replayed(Event("TurnCompleted", turn)) = turn
    BY <1>m DEF Event, EventType, Replayed
  <2>3. Whole(turn)
    <3>1. CASE pc = "answered"
      BY <1>0, <3>1 DEF TurnIs, Whole
    <3>2. CASE pc = "ran"
      <4>1. PICK n \in 0..made : /\ made = n + 1
                                 /\ turn = << <<"calls", n>>, <<"tool", made>> >>
        BY <1>0, <3>2 DEF TurnIs
      <4>2. /\ Len(turn) = 2 /\ 1..Len(turn) = {1, 2}
            /\ turn[1] = <<"calls", n>> /\ turn[2] = <<"tool", n + 1>>
        BY <4>1
      <4>3. turn[1][1] = "calls" /\ turn[1][2] = n /\ turn[2][1] = "tool"
            /\ turn[2][2] = n + 1
        BY <4>2
      <4>4. QED
        BY <4>2, <4>3 DEF Whole
    <3>3. CASE pc = "cut"
      BY <1>0, <3>3 DEF TurnIs, Whole
    <3>4. QED
      BY <2>1, <3>1, <3>2, <3>3
  <2>4. /\ Whole(RebuiltOf(table'))
        /\ lives <= 1 /\ Worded(table') => Worded(table)
        /\ \A messages, missed :
             lives <= 1
               /\ Same(messages, missed, table, Replayed(Event("TurnCompleted", turn)))
                 => Same(messages, missed, table', <<>>)
    BY <1>0, <2>1, <2>2, <2>3, Carries
  <2>5. FirstRebuilds'
    BY <1>f, <2>1, <2>2, <2>4 DEF FirstRebuilds, InFlight
  <2>6. QED
    BY <2>4, <2>5
<1>13. ASSUME NEW from \in {"completionGuard", "boundary"}, NEW to \in {"loop", "boundary"},
             Nudge(from, to)
      PROVE  Whole(RebuiltOf(table')) /\ FirstRebuilds'
  <2>1. Say("user")
    BY <1>13 DEF Nudge
  <2>2. /\ made' = made + 1 /\ made' \in Nat /\ <<"user", made'>> \in Message
        /\ history' = Append(history, <<"user", made'>>) /\ history' \in Seq(Message)
        /\ Len(history') = Len(history) + 1
        /\ history'[Len(history')] = <<"user", made'>>
        /\ lives <= 1 => \A i \in 1..Len(history) : history[i][2] < made'
        /\ made' \notin unheard
    BY <1>0, <2>1, SayIs
  <2>3. /\ pc \notin {"down", "preReset", "loopReset", "prompted"} /\ pc' # "prompted"
        /\ unheard' = unheard \cup {made'} /\ UNCHANGED <<turn, lives>>
    BY <1>13 DEF Nudge, Goto
  <2>4. lives <= 1 /\ Worded(table) => Same(history', unheard', table, turn)
    <3>1. PICK x \in Message : x = <<"user", made'>> /\ x[2] = made'
      <4>1. <<"user", made'>>[2] = made'
        OBVIOUS
      <4>2. QED
        BY <2>2, <4>1
    <3>2. ASSUME lives <= 1, Worded(table)
          PROVE  Same(Append(history, x), unheard \cup {x[2]}, table, turn)
      <4>1. Same(history, unheard, table, turn)
        BY <1>f, <2>3, <3>2
      <4>2. \A i \in 1..Len(history) : history[i][2] # x[2]
        <5>1. \A i \in 1..Len(history) : history[i][2] < made' /\ history[i][2] \in Nat
          BY <1>m, <2>2, <3>2 DEF Message
        <5>2. QED
          BY <2>2, <3>1, <5>1
      <4>3. QED
        BY <1>m, <4>1, <4>2, SameUnheard
    <3>3. QED
      BY <2>2, <2>3, <3>1, <3>2
  <2>5. Event("GuardTriggered", <<>>) \in EventType
    BY <2>2 DEF Event, EventType
  <2>6. Fire("GuardTriggered", <<>>)
    BY <1>13, <2>2 DEF Nudge
  <2>7. /\ Whole(RebuiltOf(table'))
        /\ lives <= 1 /\ Worded(table') => Worded(table)
        /\ \A messages, missed, going :
             lives <= 1 /\ Same(messages, missed, table, going)
               => Same(messages, missed, table', going)
    BY <1>0, <2>5, <2>6, CarriesNothing
  <2>8. FirstRebuilds'
    BY <2>3, <2>4, <2>7 DEF FirstRebuilds, InFlight
  <2>9. QED
    BY <2>7, <2>8
<1>14. ASSUME QueueInterrupt
      PROVE  Whole(RebuiltOf(table')) /\ FirstRebuilds'
  <2>1. Say("user")
    BY <1>14 DEF QueueInterrupt
  <2>2. /\ made' = made + 1 /\ made' \in Nat /\ <<"user", made'>> \in Message
        /\ history' = Append(history, <<"user", made'>>) /\ history' \in Seq(Message)
        /\ Len(history') = Len(history) + 1
        /\ history'[Len(history')] = <<"user", made'>>
        /\ lives <= 1 => \A i \in 1..Len(history) : history[i][2] < made'
        /\ made' \notin unheard
    BY <1>0, <2>1, SayIs
  <2>3. /\ pc \notin {"down", "preReset", "loopReset", "prompted"} /\ pc' # "prompted"
        /\ unheard' = unheard \cup {made'} /\ UNCHANGED <<turn, lives>>
    BY <1>14 DEF QueueInterrupt, Goto
  <2>4. lives <= 1 /\ Worded(table) => Same(history', unheard', table, turn)
    <3>1. PICK x \in Message : x = <<"user", made'>> /\ x[2] = made'
      <4>1. <<"user", made'>>[2] = made'
        OBVIOUS
      <4>2. QED
        BY <2>2, <4>1
    <3>2. ASSUME lives <= 1, Worded(table)
          PROVE  Same(Append(history, x), unheard \cup {x[2]}, table, turn)
      <4>1. Same(history, unheard, table, turn)
        BY <1>f, <2>3, <3>2
      <4>2. \A i \in 1..Len(history) : history[i][2] # x[2]
        <5>1. \A i \in 1..Len(history) : history[i][2] < made' /\ history[i][2] \in Nat
          BY <1>m, <2>2, <3>2 DEF Message
        <5>2. QED
          BY <2>2, <3>1, <5>1
      <4>3. QED
        BY <1>m, <4>1, <4>2, SameUnheard
    <3>3. QED
      BY <2>2, <2>3, <3>1, <3>2
  <2>5. Event("QueueInterrupt", <<"user", made'>>) \in EventType
    BY <2>2 DEF Event, EventType
  <2>6. Fire("QueueInterrupt", <<"user", made'>>)
    BY <1>14, <2>2 DEF QueueInterrupt
  <2>7. /\ Whole(RebuiltOf(table'))
        /\ lives <= 1 /\ Worded(table') => Worded(table)
        /\ \A messages, missed, going :
             lives <= 1 /\ Same(messages, missed, table, going)
               => Same(messages, missed, table', going)
    BY <1>0, <2>5, <2>6, CarriesNothing
  <2>8. FirstRebuilds'
    BY <2>3, <2>4, <2>7 DEF FirstRebuilds, InFlight
  <2>9. QED
    BY <2>7, <2>8
<1>15. ASSUME NextTurn
      PROVE  Whole(RebuiltOf(table')) /\ FirstRebuilds'
  <2>1. /\ UNCHANGED <<history, turn, table, lives, unheard>>
        /\ pc \notin {"down", "preReset", "loopReset", "prompted"} /\ pc' # "prompted"
    BY <1>15 DEF NextTurn, Goto
  <2>2. FirstRebuilds'
    BY <1>f, <2>1 DEF FirstRebuilds, InFlight
  <2>3. QED
    BY <1>0, <2>1, <2>2
<1>16. ASSUME Guarded
      PROVE  Whole(RebuiltOf(table')) /\ FirstRebuilds'
  <2>1. /\ UNCHANGED <<history, turn, table, lives, unheard>>
        /\ pc \notin {"down", "preReset", "loopReset", "prompted"} /\ pc' # "prompted"
    BY <1>16 DEF Guarded, Goto
  <2>2. FirstRebuilds'
    BY <1>f, <2>1 DEF FirstRebuilds, InFlight
  <2>3. QED
    BY <1>0, <2>1, <2>2
<1>17. ASSUME NEW from \in {"enter", "boundary"}, NEW to \in {"preCompact", "loopCompact"},
             PreCompact(from, to)
      PROVE  Whole(RebuiltOf(table')) /\ FirstRebuilds'
  <2>1. /\ pc \in {"enter", "boundary"} /\ pc' # "prompted" /\ Fire("PreCompact", <<>>)
        /\ history' = Trimmed(history) /\ UNCHANGED <<turn, lives, unheard>>
    BY <1>17 DEF PreCompact, Goto, Trimmed
  <2>2. Event("PreCompact", <<>>) \in EventType
    BY DEF Event, EventType
  <2>3. /\ Whole(RebuiltOf(table'))
        /\ lives <= 1 /\ Worded(table') => Worded(table)
        /\ \A messages, missed, going :
             lives <= 1 /\ Same(messages, missed, table, going)
               => Same(messages, missed, table', going)
    BY <1>0, <2>1, <2>2, CarriesNothing
  <2>4. lives <= 1 /\ Worded(table) => Same(history', unheard, table, turn)
    BY <1>m, <1>f, <2>1, SameTrimmed
  <2>5. FirstRebuilds'
    BY <2>1, <2>3, <2>4 DEF FirstRebuilds, InFlight
  <2>6. QED
    BY <2>3, <2>5
<1>18. ASSUME NEW from \in {"preCompact", "loopCompact"},
             NEW to \in {"preReset", "loopReset"},
             Summarised(from, to)
      PROVE  Whole(RebuiltOf(table')) /\ FirstRebuilds'
  <2>1. table' = table /\ pc' \in {"preReset", "loopReset"}
    BY <1>18 DEF Summarised, Goto
  <2>2. QED
    BY <1>0, <2>1 DEF FirstRebuilds
<1>19. ASSUME NEW from \in {"preReset", "loopReset"}, NEW to \in {"compacted", "loop"},
             PostCompact(from, to)
      PROVE  Whole(RebuiltOf(table')) /\ FirstRebuilds'
  <2>1. /\ pc \in {"preReset", "loopReset"} /\ pc' # "prompted"
        /\ Fire("PostCompact", history[1]) /\ UNCHANGED <<history, turn, lives, unheard>>
    BY <1>19 DEF PostCompact, Goto
  <2>2. PICK n \in {0, made} : n \notin unheard /\ history = << <<"summary", n>> >>
    BY <1>0, <2>1 DEF HistoryEnds
  <2>3. PICK x \in Message : x = <<"summary", n>> /\ x[1] = "summary" /\ x[2] = n
    BY <1>m, <2>2 DEF Message
  <2>4. history = <<x>> /\ history[1] = x
    BY <2>2, <2>3
  <2>5. PICK e \in EventType : e = Event("PostCompact", x)
    BY DEF Event, EventType
  <2>6. /\ table' = table \/ table' = Append(table, e)
        /\ lives <= 1 => table' = Append(table, e)
    BY <1>0, <2>1, <2>4, <2>5, FireIs
  <2>7. Whole(RebuiltOf(Append(table, e)))
    <3>1. e.content = x /\ Replayed(e) = <<>>
      BY <2>5 DEF Event, Replayed
    <3>2. CASE IsBase(e)
      <4>1. Whole(<<x>>)
        BY <2>3 DEF Whole
      <4>2. QED
        BY <1>m, <3>1, <3>2, <4>1, RebuiltGrows
    <3>3. CASE ~IsBase(e)
      <4>1. RebuiltOf(Append(table, e)) = RebuiltOf(table) \o <<>>
        BY <1>m, <3>1, <3>3, RebuiltGrows
      <4>2. RebuiltOf(table) \o <<>> = RebuiltOf(table)
        BY <1>m, RebuiltType, ConcatEmptySeq
      <4>3. QED
        BY <1>0, <4>1, <4>2
    <3>4. QED
      BY <3>2, <3>3
  <2>8. lives <= 1 /\ Worded(table') => Same(history, unheard, table', <<>>)
    <3>1. ASSUME lives <= 1, Worded(table') PROVE Same(history, unheard, table', <<>>)
      <4>1. table' = Append(table, e)
        BY <2>6, <3>1
      <4>2. e.content = x /\ IsBase(e)
        <5>1. e.content = x /\ e.kind = "PostCompact"
          BY <2>5 DEF Event
        <5>2. e.content # <<"summary", 0>>
          BY <1>m, <3>1, <4>1, WordedGrows
        <5>3. QED
          BY <5>1, <5>2 DEF IsBase
      <4>3. e.content[2] \notin unheard
        BY <2>2, <2>3, <4>2
      <4>4. Same(<<e.content>>, unheard, Append(table, e), <<>>)
        BY <1>m, <4>2, <4>3, SameSummary
      <4>5. QED
        BY <2>4, <4>1, <4>2, <4>4
    <3>2. QED
      BY <3>1
  <2>9. turn' = <<>>
    BY <1>t, <2>1
  <2>10. FirstRebuilds'
    BY <2>1, <2>8, <2>9 DEF FirstRebuilds, InFlight
  <2>11. QED
    BY <1>0, <2>6, <2>7, <2>10
<1>20. ASSUME CompactFails
      PROVE  Whole(RebuiltOf(table')) /\ FirstRebuilds'
  <2>1. /\ UNCHANGED <<history, turn, table, lives, unheard>>
        /\ pc \notin {"down", "preReset", "loopReset", "prompted"} /\ pc' # "prompted"
    BY <1>20 DEF CompactFails, Goto
  <2>2. FirstRebuilds'
    BY <1>f, <2>1 DEF FirstRebuilds, InFlight
  <2>3. QED
    BY <1>0, <2>1, <2>2
<1>21. ASSUME PromptCompacted
      PROVE  Whole(RebuiltOf(table')) /\ FirstRebuilds'
  <2>1. Say("user")
    BY <1>21 DEF PromptCompacted
  <2>2. /\ made' = made + 1 /\ made' \in Nat /\ <<"user", made'>> \in Message
        /\ history' = Append(history, <<"user", made'>>) /\ history' \in Seq(Message)
        /\ Len(history') = Len(history) + 1
        /\ history'[Len(history')] = <<"user", made'>>
        /\ lives <= 1 => \A i \in 1..Len(history) : history[i][2] < made'
        /\ made' \notin unheard
    BY <1>0, <2>1, SayIs
  <2>3. pc = "compacted" /\ pc' = "prompted" /\ UNCHANGED <<table, lives, unheard>>
    BY <1>21 DEF PromptCompacted, Goto
  <2>4. turn = <<>> /\ Append(turn, <<"user", made'>>) = << <<"user", made'>> >>
    BY <1>t, <2>3
  <2>5. lives <= 1 /\ Worded(table) =>
          Same(history', unheard, table, Append(turn, <<"user", made'>>))
    BY <1>m, <1>f, <2>2, <2>3, SameHeard
  <2>6. FirstRebuilds'
    BY <2>2, <2>3, <2>4, <2>5 DEF FirstRebuilds, InFlight
  <2>7. QED
    BY <1>0, <2>3, <2>6
<1>22. ASSUME Stop
      PROVE  Whole(RebuiltOf(table')) /\ FirstRebuilds'
  <2>1. Event("Stop", <<>>) \in EventType
    BY DEF Event, EventType
  <2>2. Fire("Stop", <<>>)
    BY <1>22 DEF Stop
  <2>3. /\ Whole(RebuiltOf(table'))
        /\ lives <= 1 /\ Worded(table') => Worded(table)
        /\ \A messages, missed, going :
             lives <= 1 /\ Same(messages, missed, table, going)
               => Same(messages, missed, table', going)
    BY <1>0, <2>1, <2>2, CarriesNothing
  <2>4. /\ UNCHANGED <<history, turn, lives, unheard>>
        /\ pc \notin {"down", "preReset", "loopReset", "prompted"} /\ pc' # "prompted"
    BY <1>22 DEF Stop, Goto
  <2>5. FirstRebuilds'
    BY <1>f, <2>3, <2>4 DEF FirstRebuilds, InFlight
  <2>6. QED
    BY <2>3, <2>5
<1>23. ASSUME MasterIdle
      PROVE  Whole(RebuiltOf(table')) /\ FirstRebuilds'
  <2>1. Event("MasterIdle", <<>>) \in EventType
    BY DEF Event, EventType
  <2>2. Fire("MasterIdle", <<>>)
    BY <1>23 DEF MasterIdle
  <2>3. /\ Whole(RebuiltOf(table'))
        /\ lives <= 1 /\ Worded(table') => Worded(table)
        /\ \A messages, missed, going :
             lives <= 1 /\ Same(messages, missed, table, going)
               => Same(messages, missed, table', going)
    BY <1>0, <2>1, <2>2, CarriesNothing
  <2>4. /\ UNCHANGED <<history, turn, lives, unheard>>
        /\ pc \notin {"down", "preReset", "loopReset", "prompted"} /\ pc' # "prompted"
    BY <1>23 DEF MasterIdle, Goto
  <2>5. FirstRebuilds'
    BY <1>f, <2>3, <2>4 DEF FirstRebuilds, InFlight
  <2>6. QED
    BY <2>3, <2>5
<1>24. ASSUME Wake
      PROVE  Whole(RebuiltOf(table')) /\ FirstRebuilds'
  <2>1. Say("user")
    BY <1>24 DEF Wake
  <2>2. /\ made' = made + 1 /\ made' \in Nat /\ <<"user", made'>> \in Message
        /\ history' = Append(history, <<"user", made'>>) /\ history' \in Seq(Message)
        /\ Len(history') = Len(history) + 1
        /\ history'[Len(history')] = <<"user", made'>>
        /\ lives <= 1 => \A i \in 1..Len(history) : history[i][2] < made'
        /\ made' \notin unheard
    BY <1>0, <2>1, SayIs
  <2>3. /\ pc \notin {"down", "preReset", "loopReset", "prompted"} /\ pc' # "prompted"
        /\ unheard' = unheard \cup {made'} /\ UNCHANGED <<turn, lives>>
    BY <1>24 DEF Wake, Goto
  <2>4. lives <= 1 /\ Worded(table) => Same(history', unheard', table, turn)
    <3>1. PICK x \in Message : x = <<"user", made'>> /\ x[2] = made'
      <4>1. <<"user", made'>>[2] = made'
        OBVIOUS
      <4>2. QED
        BY <2>2, <4>1
    <3>2. ASSUME lives <= 1, Worded(table)
          PROVE  Same(Append(history, x), unheard \cup {x[2]}, table, turn)
      <4>1. Same(history, unheard, table, turn)
        BY <1>f, <2>3, <3>2
      <4>2. \A i \in 1..Len(history) : history[i][2] # x[2]
        <5>1. \A i \in 1..Len(history) : history[i][2] < made' /\ history[i][2] \in Nat
          BY <1>m, <2>2, <3>2 DEF Message
        <5>2. QED
          BY <2>2, <3>1, <5>1
      <4>3. QED
        BY <1>m, <4>1, <4>2, SameUnheard
    <3>3. QED
      BY <2>2, <2>3, <3>1, <3>2
  <2>5. table' = table
    BY <1>24 DEF Wake
  <2>6. FirstRebuilds'
    BY <2>3, <2>4, <2>5 DEF FirstRebuilds, InFlight
  <2>7. QED
    BY <1>0, <2>5, <2>6
<1>27. ASSUME LimitCut
      PROVE  Whole(RebuiltOf(table')) /\ FirstRebuilds'
  <2>1. Say("cutCalls")
    BY <1>27 DEF LimitCut, appendStepMessages
  <2>2. /\ made' = made + 1 /\ made' \in Nat /\ <<"cutCalls", made'>> \in Message
        /\ history' = Append(history, <<"cutCalls", made'>>) /\ history' \in Seq(Message)
        /\ Len(history') = Len(history) + 1
        /\ history'[Len(history')] = <<"cutCalls", made'>>
        /\ lives <= 1 => \A i \in 1..Len(history) : history[i][2] < made'
        /\ made' \notin unheard
    BY <1>0, <2>1, SayIs
  <2>3. pc = "step" /\ pc' = "cut" /\ UNCHANGED <<table, lives, unheard>>
    BY <1>27 DEF LimitCut, Goto
  <2>4. turn' = Append(turn, <<"cutCalls", made'>>)
    BY <1>27, <2>2 DEF LimitCut, appendStepMessages
  <2>5. lives <= 1 /\ Worded(table) =>
          Same(history', unheard, table, Append(turn, <<"cutCalls", made'>>))
    BY <1>m, <1>f, <2>2, <2>3, SameHeard
  <2>6. FirstRebuilds'
    BY <2>2, <2>3, <2>4, <2>5 DEF FirstRebuilds, InFlight
  <2>7. QED
    BY <1>0, <2>3, <2>6
<1>28. ASSUME NEW to \in {"stop", "idle"}, EndsAtTop(to)
      PROVE  Whole(RebuiltOf(table')) /\ FirstRebuilds'
  <2>1. /\ UNCHANGED <<history, turn, table, lives, unheard>>
        /\ pc \notin {"down", "preReset", "loopReset", "prompted"} /\ pc' # "prompted"
    BY <1>28 DEF EndsAtTop, Goto
  <2>2. FirstRebuilds'
    BY <1>f, <2>1 DEF FirstRebuilds, InFlight
  <2>3. QED
    BY <1>0, <2>1, <2>2
<1>25. ASSUME UNCHANGED vars
      PROVE  Whole(RebuiltOf(table')) /\ FirstRebuilds'
  BY <1>0, <1>25 DEF vars, FirstRebuilds, InFlight
<1>26. QED
  BY <1>1, <1>2, <1>3, <1>4, <1>5, <1>6, <1>7, <1>8, <1>9, <1>10, <1>11, <1>12, <1>13,
     <1>14, <1>15, <1>16, <1>17, <1>18, <1>19, <1>20, <1>21, <1>22, <1>23, <1>24, <1>25,
     <1>27, <1>28
     DEF Next, Chat, Turn, Compact

\* The invariant of the record holds in every state.
LEMMA RecordHolds == Spec => []ReplayInv
<1>1. Init => ReplayInv
  <2> SUFFICES ASSUME Init PROVE ReplayInv
    OBVIOUS
  <2>1. /\ pc = "down" /\ history = <<>> /\ turn = <<>> /\ seq = 0 /\ table = <<>>
        /\ made = 0 /\ lives = 0 /\ unheard = {}
    BY DEF Init
  <2>2. ReplayTyped
    BY <2>1 DEF ReplayTyped
  <2>3. TurnIs /\ HistoryEnds
    BY <2>1 DEF TurnIs, HistoryEnds
  <2>4. Numbers /\ FirstLife
    BY <2>1 DEF Numbers, FirstLife
  <2>5. Whole(RebuiltOf(table))
    BY <2>1, RebuiltNone DEF Whole
  <2>6. FirstRebuilds
    BY <2>1 DEF FirstRebuilds
  <2>7. QED
    BY <2>2, <2>3, <2>4, <2>5, <2>6 DEF ReplayInv, ReplayShape
<1>2. ReplayInv /\ [Next]_vars => ReplayInv'
  BY ShapeStep, RecordStep DEF ReplayInv
<1>3. QED
  BY <1>1, <1>2, PTL DEF Spec

\* However often the process dies and starts again, whatever fails and whatever is
\* dropped from the table: the conversation that NewKernel rebuilds (kernel.go,
\* history.go) pairs every call that was to be run with its own results, and every
\* result with its calls.
THEOREM RebuiltIsWhole == Spec => []RebuiltCallsAnswered
<1>1. ReplayInv => RebuiltCallsAnswered
  <2> SUFFICES ASSUME ReplayInv PROVE RebuiltCallsAnswered
    OBVIOUS
  <2>1. table \in Seq(EventType) /\ Whole(RebuiltOf(table))
    BY DEF ReplayInv, ReplayShape, ReplayTyped
  <2>2. PICK rebuilt \in Seq(Message) : rebuilt = RebuiltOf(table)
    BY <2>1, RebuiltType
  <2>3. ReconstructHistory = rebuilt /\ DOMAIN rebuilt = 1..Len(rebuilt)
    BY <2>1, <2>2, RebuildsTable
  <2>4. QED
    BY <2>1, <2>2, <2>3 DEF RebuiltCallsAnswered, Whole
<1>2. QED
  BY <1>1, RecordHolds, PTL

\* In the first process of a span, as long as every summary says something, the
\* record rebuilds what is in memory, but for the turn in progress, the messages that
\* no event carries and the trimming of tool results.
THEOREM RecordIsFaithful == Spec => []CrashLosesOneTurn
<1>1. ReplayInv => CrashLosesOneTurn
  <2> SUFFICES ASSUME ReplayInv, lives = 1,
                      \A n \in DOMAIN table : table[n].content # <<"summary", 0>>,
                      pc \notin {"down", "preCompact", "loopCompact", "preReset",
                                "loopReset"}
               PROVE  Trimmed(Heard(history)) = Trimmed(ReconstructHistory \o InFlight)
    BY DEF CrashLosesOneTurn, Rebuilds
  <2>1. table \in Seq(EventType) /\ history \in Seq(Message)
    BY DEF ReplayInv, ReplayShape, ReplayTyped
  <2>2. DOMAIN table = 1..Len(table) /\ DOMAIN history = 1..Len(history)
    BY <2>1
  <2>3. Same(history, unheard, table, InFlight)
    BY <2>2 DEF ReplayInv, FirstRebuilds, Worded
  <2>4. Heard(history) = Kept(history, unheard)
    BY <2>2 DEF Heard, Kept
  <2>5. QED
    BY <2>1, <2>3, <2>4, RebuildsTable DEF Same
<1>2. QED
  BY <1>1, RecordHolds, PTL

-----------------------------------------------------------------------------
(* The benchmark.                                                           *)

\* The fields that the argument is about have their types; the others may be anything.
Shapes ==
  /\ pick \in Seq(Harness) /\ spent \in Int /\ ledger.sum \in Int /\ runs \in 0..Runs
  /\ ledger \in [lines : {ledger.lines}, sum : Int, torn : BOOLEAN, lost : {ledger.lost}]
  /\ bill \in [1..Runs -> Int]
  /\ log \in [Harness -> [run : Int, usage : [Kinds -> Int]]]
  /\ job.row \in [run : {job.row.run}, how : {job.row.how}, cost : Int,
                  branch : {job.row.branch}, sha : {job.row.sha}]
  /\ job \in [h : Harness, run : Int, budget : Int, before : {job.before},
              listed : {job.listed}, alive : BOOLEAN, due : BOOLEAN,
              replies : {job.replies}, row : {job.row}]

\* A run is one of the picked; whoever is alive runs; the log of a metered run says
\* what it has cost; before a response, and after the sample that follows it, that is
\* below the run's budget.
MeterRuns ==
  /\ phase \in {"run", "ledger", "report"} => pick # <<>>
  /\ job.alive => phase = "run"
  /\ phase = "run" => job.run = runs /\ runs \in 1..Runs
  /\ \A r \in 1..Runs : r > runs => bill[r] = 0
  /\ phase = "run" /\ job.h \in Metered =>
       /\ Cost(job.h, log[job.h].usage) = bill[job.run]
       /\ job.alive /\ ~job.due => bill[job.run] < job.budget
       /\ \E p \in ReplyPrices : bill[job.run] < job.budget + p

IInv == Shapes /\ MeterRuns

\* A harness and the two kinds of lines it is about.
LEMMA KindsOf ==
  /\ \A h \in Harness : Emits[h] \in Kinds /\ Counts[h] \in Kinds
  /\ {"assistant", "result"} \subseteq Kinds
  /\ \A h \in Metered : h \in Harness /\ h # "claude" /\ Emits[h] = Counts[h]
BY DEF Harness, Emits, Counts, Kinds, Metered

\* What the parser reads from typed usage is a number.
LEMMA CostIsInt ==
  ASSUME NEW h \in Harness, NEW usage \in [Kinds -> Int] PROVE Cost(h, usage) \in Int
BY KindsOf DEF Cost

\* A cost is rounded to a number, up by half a grain at most, and nothing to nothing.
LEMMA RoundedIs ==
  /\ \A c \in Int : Rounded(c) \in Int /\ Rounded(c) <= c + Grain \div 2
  /\ Rounded(0) = 0 /\ Grain \div 2 \in Nat
<1>1. Grain \in Nat /\ Grain > 0
  BY HarnessAssumption
<1>2. Grain \div 2 \in Nat /\ Grain \div 2 < Grain
  BY <1>1
<1>3. ASSUME NEW x \in Int PROVE x % Grain \in Int /\ x % Grain >= 0
  BY <1>1
<1>4. (Grain \div 2) % Grain = Grain \div 2
  BY <1>1, <1>2
<1>5. \A c \in Int : Rounded(c) \in Int /\ Rounded(c) <= c + Grain \div 2
  BY <1>2, <1>3 DEF Rounded
<1>6. QED
  BY <1>2, <1>4, <1>5 DEF Rounded

\* The logs L with n more units of usage under kind k in the log of h.
Added(L, h, k, n) == [L EXCEPT ![h].usage[k] = @ + n]

\* A line of usage that is added to a log is added to that kind of line only.
LEMMA UsageAdded ==
  ASSUME NEW L \in [Harness -> [run : Int, usage : [Kinds -> Int]]],
         NEW h \in Harness, NEW k \in Kinds, NEW n \in Int
  PROVE  /\ Added(L, h, k, n) \in [Harness -> [run : Int, usage : [Kinds -> Int]]]
         /\ Added(L, h, k, n)[h].usage[k] = L[h].usage[k] + n
<1> DEFINE u == [L[h].usage EXCEPT ![k] = @ + n]
           e == [L[h] EXCEPT !.usage = u]
<1>1. u \in [Kinds -> Int] /\ u[k] = L[h].usage[k] + n
  OBVIOUS
<1> HIDE DEF u
<1>2. e \in [run : Int, usage : [Kinds -> Int]] /\ e.usage = u
  BY <1>1
<1> HIDE DEF e
<1>3. [L EXCEPT ![h] = e] \in [Harness -> [run : Int, usage : [Kinds -> Int]]]
      /\ [L EXCEPT ![h] = e][h] = e
  BY <1>2
<1>4. QED
  BY <1>1, <1>2, <1>3 DEF Added, e, u

\* The suite starts with no run and nothing metered.
LEMMA InitEstablishes == SuiteInit => IInv
<1> SUFFICES ASSUME SuiteInit PROVE IInv
  OBVIOUS
<1>1. job = NoJob /\ NoJob.row = Missing
  BY DEF SuiteInit, NoJob
<1>2. Shapes
  BY <1>1, HarnessAssumption
  DEF SuiteInit, Shapes, NoJob, Missing, NoUsage, NoBranches, Harness
<1>3. MeterRuns
  BY <1>1, HarnessAssumption DEF SuiteInit, MeterRuns, NoJob
<1>4. QED
  BY <1>2, <1>3 DEF IInv

----------------------------------------------------------------------------
(* One lemma for each group of actions.                                     *)

\* The program moves on without a run, or ends.
LEMMA SuiteStep ==
  ASSUME IInv, NEW w \in Writes,
         (\E p \in Picks : StartSuite(p)) \/ LeaveSuite \/ WriteReport(w)
  PROVE  IInv'
<1> USE DEF IInv
<1>1. CASE \E p \in Picks : StartSuite(p)
  <2> PICK p \in Picks : StartSuite(p)
    BY <1>1
  <2>1. p \in Seq(Harness)
    <3>1. <<"toroid", "claude", "pi">> \in Seq(Harness)
      BY DEF Harness
    <3>2. \A h \in Harness : <<h>> \in Seq(Harness)
      OBVIOUS
    <3>3. QED
      BY <3>1, <3>2 DEF Picks
  <2>2. Shapes'
    BY <2>1 DEF StartSuite, Shapes, suiteBounds
  <2>3. MeterRuns'
    BY DEF StartSuite, MeterRuns, Cost, suiteBounds
  <2>4. QED
    BY <2>2, <2>3
<1>2. CASE LeaveSuite
  <2>1. job' = NoJob /\ NoJob.row = Missing
    BY <1>2 DEF LeaveSuite, Ends, NoJob
  <2>2. Shapes'
    BY <1>2, <2>1
    DEF LeaveSuite, Ends, Shapes, NoJob, Missing, NoBranches, Harness, suiteBounds
  <2>3. MeterRuns'
    BY <1>2, <2>1 DEF LeaveSuite, Ends, MeterRuns, NoJob, suiteBounds
  <2>4. QED
    BY <2>2, <2>3
<1>3. CASE WriteReport(w)
  <2>1. job' = NoJob /\ NoJob.row = Missing
    BY <1>3 DEF WriteReport, NoJob
  <2>2. Tail(pick) \in Seq(Harness)
    BY <1>3 DEF WriteReport, Shapes, MeterRuns
  <2>3. Shapes'
    BY <1>3, <2>1, <2>2
    DEF WriteReport, Shapes, NoJob, Missing, NoBranches, Harness, suiteBounds
  <2>4. MeterRuns'
    BY <1>3, <2>1 DEF WriteReport, MeterRuns, NoJob, suiteBounds
  <2>5. QED
    BY <2>3, <2>4
<1>4. QED
  BY <1>1, <1>2, <1>3

\* A run begins with an empty log and a budget above nothing.
LEMMA LaunchStep ==
  ASSUME IInv, NEW b \in BOOLEAN, Launch(b)
  PROVE  IInv'
<1> USE DEF IInv
<1> DEFINE h == Head(pick)
<1>1. h \in Harness
  BY DEF Launch, Shapes
<1>2. NoUsage \in [Kinds -> Int] /\ Cost(h, NoUsage) = 0
  BY <1>1, KindsOf DEF NoUsage, Cost
<1>3. /\ job'.h = h /\ job'.run = runs + 1 /\ job'.budget = Budget - spent
      /\ job'.alive = TRUE /\ job'.due = FALSE /\ job'.row = FreshRow(runs + 1)
      /\ job' \in [h : {h}, run : {runs + 1}, budget : {Budget - spent},
                   before : {job'.before}, listed : {job'.listed}, alive : BOOLEAN,
                   due : BOOLEAN, replies : {job'.replies}, row : {job'.row}]
  BY DEF Launch
<1>4. log' = [log EXCEPT ![h] = [run |-> runs + 1, usage |-> NoUsage]]
  BY DEF Launch
<1>5. /\ runs' = runs + 1 /\ runs + 1 \in 1..Runs /\ phase' = "run" /\ pick # <<>>
      /\ Budget - spent \in Int /\ Budget - spent > 0
      /\ UNCHANGED <<pick, spent, ledger, bill>>
  <2>1. runs \in 0..Runs /\ spent \in Int /\ Budget \in Nat /\ Runs \in Nat
    BY HarnessAssumption DEF Shapes
  <2>2. /\ runs' = runs + 1 /\ runs < Runs /\ phase' = "run" /\ pick # <<>>
        /\ Budget - spent > 0 /\ UNCHANGED <<pick, spent, ledger, bill>>
    BY DEF Launch
  <2>3. QED
    BY <2>1, <2>2
<1> HIDE DEF h
<1>6. Shapes'
  <2>1. job'.row \in [run : {job'.row.run}, how : {job'.row.how}, cost : Int,
                      branch : {job'.row.branch}, sha : {job'.row.sha}]
    BY <1>3 DEF FreshRow
  <2>2. log' \in [Harness -> [run : Int, usage : [Kinds -> Int]]]
    BY <1>1, <1>2, <1>4, <1>5, SMTT(30) DEF Shapes
  <2>3. job' \in [h : Harness, run : Int, budget : Int, before : {job'.before},
                  listed : {job'.listed}, alive : BOOLEAN, due : BOOLEAN,
                  replies : {job'.replies}, row : {job'.row}]
    BY <1>1, <1>3, <1>5
  <2>4. /\ pick' \in Seq(Harness) /\ spent' \in Int /\ ledger'.sum \in Int
        /\ runs' \in 0..Runs
        /\ ledger' \in [lines : {ledger'.lines}, sum : Int, torn : BOOLEAN,
                        lost : {ledger'.lost}]
        /\ bill' \in [1..Runs -> Int]
    BY <1>5 DEF Shapes
  <2>5. QED
    BY <2>1, <2>2, <2>3, <2>4 DEF Shapes
<1>7. MeterRuns'
  <2>1. bill[runs + 1] = 0 /\ \A r \in 1..Runs : r > runs + 1 => bill[r] = 0
    BY <1>5 DEF MeterRuns, Shapes
  <2>2. Cost(h, log'[h].usage) = 0
    BY <1>1, <1>2, <1>4 DEF Shapes
  <2>3. PICK p \in ReplyPrices : p \in Nat
    BY HarnessAssumption
  <2>4. bill[runs + 1] < (Budget - spent) + p
    BY <1>5, <2>1, <2>3
  <2>5. /\ Cost(job'.h, log'[job'.h].usage) = bill'[job'.run]
        /\ bill'[job'.run] < job'.budget
        /\ \E q \in ReplyPrices : bill'[job'.run] < job'.budget + q
    BY <1>3, <1>5, <2>1, <2>2, <2>3, <2>4
  <2>6. \A r \in 1..Runs : r > runs' => bill'[r] = 0
    BY <1>5, <2>1
  <2>7. QED
    BY <1>3, <1>5, <2>5, <2>6 DEF MeterRuns, Cost
<1>8. QED
  BY <1>6, <1>7

\* A run that cannot be started costs nothing; its log may be empty already.
LEMMA LaunchFailsStep ==
  ASSUME IInv, NEW b \in BOOLEAN, LaunchFails(b)
  PROVE  IInv'
<1> USE DEF IInv
<1> DEFINE h == Head(pick)
<1>1. h \in Harness
  BY DEF LaunchFails, Shapes
<1>2. NoUsage \in [Kinds -> Int]
  BY DEF NoUsage
<1>3. /\ phase' = "ledger" /\ runs' = runs + 1 /\ runs < Runs /\ pick # <<>>
      /\ UNCHANGED <<pick, spent, ledger, bill>>
      /\ runs + 1 \in Int /\ runs + 1 \in 0..Runs
  <2>1. /\ phase' = "ledger" /\ runs' = runs + 1 /\ runs < Runs /\ pick # <<>>
        /\ UNCHANGED <<pick, spent, ledger, bill>>
    BY DEF LaunchFails
  <2>2. QED
    BY <2>1, HarnessAssumption, SMTT(30) DEF Shapes
<1>4. Shapes'
  <2>1. log' \in [Harness -> [run : Int, usage : [Kinds -> Int]]]
    <3>1. CASE log' = log
      BY <3>1 DEF Shapes
    <3>2. CASE log' = [log EXCEPT ![h] = [run |-> runs + 1, usage |-> NoUsage]]
      BY <1>1, <1>2, <1>3, <3>2 DEF Shapes
    <3>3. QED
      BY <3>1, <3>2 DEF LaunchFails
  <2>2. job' = [h |-> h, run |-> runs + 1, budget |-> 0, before |-> NoBranches,
                listed |-> TRUE, alive |-> FALSE, due |-> FALSE, replies |-> 0,
                row |-> FreshRow(runs + 1)]
    BY DEF LaunchFails, NoJob
  <2> HIDE DEF h
  <2>3. job'.row \in [run : {job'.row.run}, how : {job'.row.how}, cost : Int,
                      branch : {job'.row.branch}, sha : {job'.row.sha}]
    BY <2>2 DEF FreshRow
  <2>4. job' \in [h : Harness, run : Int, budget : Int, before : {job'.before},
                  listed : {job'.listed}, alive : BOOLEAN, due : BOOLEAN,
                  replies : {job'.replies}, row : {job'.row}]
    BY <1>1, <1>3, <2>2
  <2>5. QED
    BY <1>3, <2>1, <2>3, <2>4 DEF Shapes
<1>5. MeterRuns'
  <2>1. job'.alive = FALSE
    BY DEF LaunchFails, NoJob
  <2>2. QED
    BY <1>3, <2>1 DEF MeterRuns, Shapes
<1>6. QED
  BY <1>4, <1>5

\* A response is paid for by a run below its budget, and its log says so if its
\* lines are counted.
LEMMA RespondStep ==
  ASSUME IInv, NEW price \in ReplyPrices, Respond(price)
  PROVE  IInv'
<1> USE DEF IInv
<1> DEFINE h == job.h
           k == Emits[job.h]
<1>1. /\ h \in Harness /\ k \in Kinds /\ Counts[h] \in Kinds /\ price \in Nat
      /\ job.run = runs /\ runs \in 1..Runs /\ phase = "run" /\ runs \in Int
  BY KindsOf, HarnessAssumption DEF Respond, Shapes, MeterRuns
<1>2. /\ bill' = [bill EXCEPT ![runs] = @ + price]
      /\ log' = [log EXCEPT ![h].usage[k] = @ + price]
      /\ job' = [job EXCEPT !.due = TRUE, !.replies = @ + 1]
      /\ UNCHANGED <<phase, pick, spent, ledger, runs>> /\ job.alive /\ ~job.due
  BY <1>1 DEF Respond, suiteBounds
<1>3. /\ job'.h = h /\ job'.run = runs /\ job'.budget = job.budget /\ job'.due = TRUE
      /\ job'.row = job.row /\ job'.alive = job.alive
  BY <1>1, <1>2 DEF Shapes
<1>4. bill' \in [1..Runs -> Int] /\ bill'[runs] = bill[runs] + price /\ bill[runs] \in Int
      /\ \A r \in 1..Runs : r > runs => bill'[r] = bill[r]
  BY <1>1, <1>2 DEF Shapes
<1>5. log' \in [Harness -> [run : Int, usage : [Kinds -> Int]]]
      /\ log'[h].usage[k] = log[h].usage[k] + price
  <2>1. log \in [Harness -> [run : Int, usage : [Kinds -> Int]]] /\ price \in Int
    BY <1>1 DEF Shapes
  <2>2. log' = Added(log, h, k, price)
    BY <1>2 DEF Added
  <2> HIDE DEF h, k
  <2>3. QED
    BY <1>1, <2>1, <2>2, UsageAdded
<1> HIDE DEF h, k
<1>6. Shapes'
  <2>1. job' \in [h : Harness, run : Int, budget : Int, before : {job'.before},
                  listed : {job'.listed}, alive : BOOLEAN, due : BOOLEAN,
                  replies : {job'.replies}, row : {job'.row}]
    BY <1>2 DEF Shapes
  <2>2. QED
    BY <1>2, <1>3, <1>4, <1>5, <2>1 DEF Shapes
<1>7. MeterRuns'
  <2>1. ASSUME h \in Metered
        PROVE  /\ Cost(h, log'[h].usage) = bill'[runs]
               /\ \E p \in ReplyPrices : bill'[runs] < job.budget + p
    <3>1. Cost(h, log[h].usage) = bill[runs] /\ bill[runs] < job.budget
      BY <1>1, <1>2, <2>1 DEF MeterRuns, h
    <3>2. Counts[h] = k
      BY <2>1, KindsOf DEF h, k
    <3>3. job.budget \in Int
      BY DEF Shapes
    <3>4. QED
      BY <1>1, <1>4, <1>5, <3>1, <3>2, <3>3 DEF Cost
  <2>2. QED
    BY <1>1, <1>2, <1>3, <1>4, <2>1 DEF MeterRuns, Cost, h
<1>8. QED
  BY <1>6, <1>7

\* A push changes the remote only; an agent that exits or is killed leaves its cost
\* and, unless it is claude, its log.
LEMMA AgentEndsStep ==
  ASSUME IInv, (\E n \in 1..MaxSuffix : Push(n)) \/ AgentExits \/ TimerKills
  PROVE  IInv'
<1> USE DEF IInv
<1>1. CASE \E n \in 1..MaxSuffix : Push(n)
  <2>1. UNCHANGED <<phase, pick, spent, job, log, ledger, bill, runs>>
    BY <1>1 DEF Push, suiteBounds
  <2>2. QED
    BY <2>1 DEF Shapes, MeterRuns, Cost
<1>2. CASE AgentExits \/ TimerKills
  <2>1. /\ job' = [job EXCEPT !.alive = FALSE] /\ job.alive
        /\ UNCHANGED <<phase, pick, spent, ledger, bill, runs>>
    BY <1>2 DEF AgentExits, TimerKills, suiteBounds
  <2>2. /\ job.run \in 1..Runs /\ "result" \in Kinds /\ "claude" \in Harness
    BY <2>1, KindsOf DEF MeterRuns, Harness
  <2>3. log' \in [Harness -> [run : Int, usage : [Kinds -> Int]]]
    <3>1. log \in [Harness -> [run : Int, usage : [Kinds -> Int]]] /\ bill[job.run] \in Int
      BY <2>2 DEF Shapes
    <3>2. \/ log' = log
          \/ log' = Added(log, "claude", "result", bill[job.run])
      BY <1>2 DEF AgentExits, TimerKills, Added
    <3>3. QED
      BY <2>2, <3>1, <3>2, UsageAdded
  <2>4. job.h \in Metered => log' = log
    BY <1>2, KindsOf DEF AgentExits, TimerKills
  <2>5. /\ job'.h = job.h /\ job'.run = job.run /\ job'.budget = job.budget
        /\ job'.row = job.row /\ job'.alive = FALSE
        /\ job' \in [h : Harness, run : Int, budget : Int, before : {job'.before},
                    listed : {job'.listed}, alive : BOOLEAN, due : BOOLEAN,
                    replies : {job'.replies}, row : {job'.row}]
    BY <2>1 DEF Shapes
  <2>6. Shapes'
    BY <2>1, <2>3, <2>5 DEF Shapes
  <2>7. MeterRuns'
    BY <2>1, <2>4, <2>5 DEF MeterRuns, Cost
  <2>8. QED
    BY <2>6, <2>7
<1>3. QED
  BY <1>1, <1>2

\* A run that survives the sample has cost less than its budget.
LEMMA SampleStep ==
  ASSUME IInv, Sample
  PROVE  IInv'
<1> USE DEF IInv
<1>1. /\ job' = [job EXCEPT !.due = FALSE, !.alive = ~OverBudget]
      /\ OverBudget \in BOOLEAN /\ job.alive
      /\ UNCHANGED <<phase, pick, spent, log, ledger, bill, runs>>
  BY DEF Sample, suiteBounds, OverBudget
<1>2. /\ job'.h = job.h /\ job'.run = job.run /\ job'.budget = job.budget
      /\ job'.row = job.row /\ job'.alive = ~OverBudget
      /\ job' \in [h : Harness, run : Int, budget : Int, before : {job'.before},
                  listed : {job'.listed}, alive : BOOLEAN, due : BOOLEAN,
                  replies : {job'.replies}, row : {job'.row}]
  BY <1>1 DEF Shapes
<1>3. Shapes'
  BY <1>1, <1>2 DEF Shapes
<1>4. ASSUME ~OverBudget, job.h \in Metered PROVE bill[job.run] < job.budget
  <2>1. Cost(job.h, log[job.h].usage) = bill[job.run] /\ job.run \in 1..Runs
    BY <1>1, <1>4 DEF MeterRuns
  <2>2. bill[job.run] \in Int /\ job.budget \in Int
    BY <2>1 DEF Shapes
  <2>3. QED
    BY <1>4, <2>1, <2>2 DEF OverBudget
<1>5. MeterRuns'
  BY <1>1, <1>2, <1>4 DEF MeterRuns, Cost
<1>6. QED
  BY <1>3, <1>5

\* The row with its credit and its cost is a row.
LEMMA Credited ==
  ASSUME NEW x, NEW choice, NEW c,
         x \in [run : {x.run}, how : {x.how}, cost : Int, branch : {x.branch},
                sha : {x.sha}]
  PROVE  [run |-> x.run, how |-> x.how, cost |-> c, branch |-> choice.branch,
          sha |-> choice.sha] = [Credit(x, choice) EXCEPT !.cost = c]
<1>1. x = [run |-> x.run, how |-> x.how, cost |-> x.cost, branch |-> x.branch,
           sha |-> x.sha]
  OBVIOUS
<1> DEFINE y == [x EXCEPT !.branch = choice.branch]
           z == [y EXCEPT !.sha = choice.sha]
<1>2. y = [run |-> x.run, how |-> x.how, cost |-> x.cost, branch |-> choice.branch,
           sha |-> x.sha]
  BY <1>1
<1> HIDE DEF y
<1>3. z = [run |-> x.run, how |-> x.how, cost |-> x.cost, branch |-> choice.branch,
           sha |-> choice.sha]
  BY <1>2
<1>4. Credit(x, choice) = z
  BY DEF Credit, y
<1> HIDE DEF z
<1>5. QED
  BY <1>3, <1>4

\* The row takes what the parser reads; the suite's and the repairs' lines in the
\* ledger, the report and the remote are nothing to a run.
LEMMA RunRecordStep ==
  ASSUME IInv, NEW w \in Writes,
         \/ \E b \in BOOLEAN : Collect(b)
         \/ RecordLedger(w) \/ RecoverLedger(w) \/ Recheck(w)
  PROVE  IInv'
<1> USE DEF IInv
<1>1. CASE \E b \in BOOLEAN : Collect(b)
  <2> PICK b \in BOOLEAN : Collect(b)
    BY <1>1
  <2> DEFINE c == RowCost(job.h, log[job.h].usage)
             choice == Choose(IF b THEN remote[job.h] ELSE NoBranches, job.before)
             row == [run |-> job.row.run, how |-> job.row.how, cost |-> c,
                     branch |-> choice.branch, sha |-> choice.sha]
  <2>1. c \in Int
    BY CostIsInt, RoundedIs DEF Shapes, RowCost
  <2>2. row = [Credit(job.row, choice) EXCEPT !.cost = c]
    BY Credited DEF Shapes
  <2>3. job' = [job EXCEPT !.listed = @ /\ b, !.row = row]
    BY <2>2 DEF Collect
  <2>4. row \in [run : {row.run}, how : {row.how}, cost : Int,
                 branch : {row.branch}, sha : {row.sha}]
    BY <2>1
  <2> HIDE DEF c, choice, row
  <2>5. /\ job'.row = row /\ job'.alive = job.alive
        /\ job' \in [h : Harness, run : Int, budget : Int, before : {job'.before},
                    listed : {job'.listed}, alive : BOOLEAN, due : BOOLEAN,
                    replies : {job'.replies}, row : {job'.row}]
    BY <2>3 DEF Shapes
  <2>6. /\ phase = "run" /\ phase' = "ledger" /\ ~job.alive
        /\ UNCHANGED <<pick, spent, log, ledger, bill, runs>>
    BY DEF Collect, suiteBounds
  <2>7. Shapes'
    BY <2>4, <2>5, <2>6 DEF Shapes
  <2>8. MeterRuns'
    BY <2>5, <2>6 DEF MeterRuns
  <2>9. QED
    BY <2>7, <2>8
<1>a. ASSUME AppendLedger(job.h, job.row, w)
      PROVE  ledger'.sum \in Int
             /\ ledger' \in [lines : {ledger'.lines}, sum : Int, torn : BOOLEAN,
                             lost : {ledger'.lost}]
  <2>1. ledger.sum \in Int /\ job.row.cost \in Int /\ ledger.torn \in BOOLEAN
    BY DEF Shapes
  <2>2. QED
    BY <1>a, <2>1 DEF AppendLedger
<1>2. CASE RecordLedger(w)
  <2>1. Shapes'
    BY <1>2, <1>a DEF RecordLedger, Shapes
  <2>2. MeterRuns'
    BY <1>2 DEF RecordLedger, MeterRuns
  <2>3. QED
    BY <2>1, <2>2
<1>3. CASE RecoverLedger(w)
  <2>1. job' = NoJob /\ NoJob.row = Missing
    BY <1>3 DEF RecoverLedger, Ends, NoJob
  <2>2. Shapes'
    BY <1>3, <1>a, <2>1
    DEF RecoverLedger, Ends, Shapes, NoJob, Missing, NoBranches, Harness
  <2>3. MeterRuns'
    BY <1>3, <2>1 DEF RecoverLedger, Ends, MeterRuns, NoJob
  <2>4. QED
    BY <2>2, <2>3
<1>4. CASE Recheck(w)
  <2>1. Shapes'
    BY <1>4 DEF Recheck, Shapes
  <2>2. MeterRuns'
    BY <1>4 DEF Recheck, MeterRuns, Cost
  <2>3. QED
    BY <2>1, <2>2
<1>5. QED
  BY <1>1, <1>2, <1>3, <1>4

\* A program that dies leaves no run in progress, though its agent may still be paid;
\* a recovered row costs what its log says.
LEMMA MishapStep ==
  ASSUME IInv, NEW w \in Writes,
         \/ \E p \in ReplyPrices \cup {0} : ProgramDies(p)
         \/ \E h \in Harness : Recover(h, w)
  PROVE  IInv'
<1> USE DEF IInv
<1>1. CASE \E p \in ReplyPrices \cup {0} : ProgramDies(p)
  <2> PICK p \in ReplyPrices \cup {0} : ProgramDies(p)
    BY <1>1
  <2>1. /\ job' = NoJob /\ NoJob.row = Missing /\ phase' = "idle" /\ pick' = <<>>
        /\ spent' = 0 /\ p \in Int /\ UNCHANGED <<log, ledger, runs>>
    BY HarnessAssumption DEF ProgramDies, Ends, NoJob
  <2>2. /\ bill' \in [1..Runs -> Int]
        /\ \A r \in 1..Runs : r > runs => bill'[r] = bill[r]
    <3>1. \/ bill' = bill
          \/ bill' = [bill EXCEPT ![job.run] = @ + p] /\ job.alive
      BY DEF ProgramDies
    <3>2. runs \in Int
      BY DEF Shapes
    <3>3. CASE bill' = bill
      BY <3>3 DEF Shapes
    <3>4. CASE bill' = [bill EXCEPT ![job.run] = @ + p] /\ job.alive
      BY <2>1, <3>2, <3>4 DEF Shapes, MeterRuns
    <3>5. QED
      BY <3>1, <3>3, <3>4
  <2>3. Shapes'
    BY <2>1, <2>2 DEF Shapes, NoJob, Missing, NoBranches, Harness
  <2>4. MeterRuns'
    BY <2>1, <2>2 DEF MeterRuns, NoJob
  <2>5. QED
    BY <2>3, <2>4
<1>2. CASE \E h \in Harness : Recover(h, w)
  <2> PICK h \in Harness : Recover(h, w)
    BY <1>2
  <2> DEFINE usage == log[h].usage
             cost  == IF h = "claude" /\ Cost(h, usage) = 0
                        THEN usage["assistant"] ELSE Cost(h, usage)
             row   == [run |-> log[h].run, how |-> "recovered", cost |-> Rounded(cost),
                       branch |-> 0, sha |-> 0]
  <2>1. cost \in Int /\ Rounded(cost) \in Int
    BY CostIsInt, KindsOf, RoundedIs DEF Shapes
  <2>2. phase' = "recovered" /\ UNCHANGED <<pick, spent, log, ledger, bill, runs>>
    BY DEF Recover
  <2>3. row \in [run : {row.run}, how : {row.how}, cost : Int,
                 branch : {row.branch}, sha : {row.sha}]
    BY <2>1
  <2>4. job' = [h |-> h, run |-> 0, budget |-> 0, before |-> NoBranches,
                listed |-> TRUE, alive |-> FALSE, due |-> FALSE, replies |-> 0,
                row |-> row]
    BY DEF Recover, NoJob
  <2> HIDE DEF row
  <2>5. Shapes'
    BY <2>2, <2>3, <2>4 DEF Shapes
  <2>6. MeterRuns'
    BY <2>2, <2>4 DEF MeterRuns
  <2>7. QED
    BY <2>5, <2>6
<1>3. QED
  BY <1>1, <1>2

----------------------------------------------------------------------------
\* Every step of the program keeps the invariant.
LEMMA StepKeeps == IInv /\ [SuiteNext]_suiteVars => IInv'
<1> SUFFICES ASSUME IInv, [SuiteNext]_suiteVars PROVE IInv'
  OBVIOUS
<1>1. CASE UNCHANGED suiteVars
  BY <1>1 DEF suiteVars, suiteBounds, IInv, Shapes, MeterRuns, Cost
<1>2. CASE Agent
  BY <1>2, RespondStep, AgentEndsStep, SampleStep DEF Agent
<1>3. CASE Repair
  BY <1>3, RunRecordStep, MishapStep DEF Repair, Harness
<1>w. "whole" \in Writes
  BY DEF Writes
<1>4. CASE \E b \in BOOLEAN : Launch(b) \/ LaunchFails(b) \/ Collect(b)
  BY <1>4, <1>w, LaunchStep, LaunchFailsStep, RunRecordStep
<1>5. CASE (\E p \in Picks : StartSuite(p)) \/ LeaveSuite
  BY <1>5, <1>w, SuiteStep
<1>6. CASE \E w \in Writes : RecordLedger(w) \/ WriteReport(w)
  BY <1>6, SuiteStep, RunRecordStep
<1>7. CASE \E p \in ReplyPrices \cup {0} : ProgramDies(p)
  BY <1>7, <1>w, MishapStep
<1>8. QED
  BY <1>1, <1>2, <1>3, <1>4, <1>5, <1>6, <1>7 DEF SuiteNext

\* The invariant holds of every reachable state.
LEMMA SuiteInvariant == SuiteSpec => []IInv
<1>1. QED
  BY InitEstablishes, StepKeeps, PTL DEF SuiteSpec

\* The brake (main.go's sampler): a run of a harness whose usage is read while it
\* runs costs less than what was left of the budget and one more response, for every
\* budget, every set of prices, and any number of runs, crashes and repairs.
THEOREM BrakeAlwaysHolds == SuiteSpec => []BrakeHolds
<1>1. IInv => BrakeHolds
  BY DEF IInv, MeterRuns, BrakeHolds, Braked
<1>2. QED
  BY SuiteInvariant, <1>1, PTL

----------------------------------------------------------------------------
(* The ledger and the credit.                                               *)

\* The run in progress is the last one, logs are of numbered runs, and nothing costs
\* less than nothing.
Amounts ==
  /\ phase \in {"run", "ledger", "report"} => job.run = runs /\ runs \in 1..Runs
  /\ \A r \in 1..Runs : bill[r] >= 0
  /\ \A h \in Harness : log[h].run \in 0..runs

\* A log says no more than its run has cost; claude's result comes last.
LogsRight ==
  /\ \A h \in Harness : log[h].run # 0 =>
       \A k \in Kinds : log[h].usage[k] <= bill[log[h].run]
  /\ phase = "run" => log[job.h].run = job.run
  /\ job.alive /\ job.h = "claude" => log["claude"].usage["result"] = 0

\* What may be written about run r of harness h.
Fair(h, how, r, cost) ==
  /\ r \in 1..runs
  /\ cost <= bill[r] + Grain \div 2
  /\ how = "run" /\ h \in Metered => cost = Rounded(bill[r])

\* The row at work, before it is in the ledger, and every line that is; a run that is
\* not in the ledger yet has no line.
RowsRight ==
  /\ phase \in {"run", "ledger"} => job.row.how = "run" /\ job.row.run = job.run
  /\ phase = "recovered" => job.row.how = "recovered"
  /\ phase \in {"ledger", "recovered"} =>
       Fair(job.h, job.row.how, job.row.run, job.row.cost)
  /\ \A l \in ledger.lines : Fair(l.h, l.how, l.run, l.cost)
  /\ phase \in {"run", "ledger"} => \A l \in ledger.lines : l.run # job.run

RowLike(x) == x \in [run : {x.run}, how : {x.how}, cost : Int, branch : {x.branch},
                     sha : {x.sha}]

\* Rows of the suite's own, in the report and on their way there, have their line, unless
\* it was lost.
Reported(rows) ==
  /\ rows = [h \in Harness |-> rows[h]]
  /\ \A h \in Harness : RowLike(rows[h])
  /\ \A h \in Harness : rows[h].how = "run" =>
       LineOf(h, rows[h]) \in ledger.lines \cup ledger.lost

ReportRight == Reported(metrics) /\ Reported(byName)

Books == Amounts /\ LogsRight /\ RowsRight /\ ReportRight

\* Missing rows are no rows of the suite's.
LEMMA NothingReported ==
  /\ NoRows = [h \in Harness |-> NoRows[h]]
  /\ \A h \in Harness : NoRows[h] = Missing
  /\ RowLike(Missing) /\ Missing.how = "none"
BY DEF NoRows, RowLike, Missing

Logs == [Harness -> [run : Int, usage : [Kinds -> Int]]]

\* What a line that is added to the log of h says, and what the logs say of the rest.
LEMMA UsageOf ==
  ASSUME NEW L \in Logs,
         NEW h \in Harness, NEW k \in Kinds, NEW n \in Int
  PROVE  /\ \A g \in Harness : Added(L, h, k, n)[g].run = L[g].run
         /\ \A g \in Harness, j \in Kinds :
              Added(L, h, k, n)[g].usage[j]
                = L[g].usage[j] + (IF g = h /\ j = k THEN n ELSE 0)
         /\ \A g \in Harness, j \in Kinds : L[g].usage[j] \in Int
<1> USE DEF Logs
<1> DEFINE u == [L[h].usage EXCEPT ![k] = @ + n]
           e == [L[h] EXCEPT !.usage = u]
<1>1. \A g \in Harness, j \in Kinds : L[g].usage[j] \in Int
  OBVIOUS
<1>2. \A j \in Kinds : u[j] = L[h].usage[j] + (IF j = k THEN n ELSE 0)
  BY <1>1
<1>3. u \in [Kinds -> Int]
  OBVIOUS
<1> HIDE DEF u
<1>4. e.run = L[h].run /\ e.usage = u
  OBVIOUS
<1> HIDE DEF e
<1>5. \A g \in Harness : Added(L, h, k, n)[g] = IF g = h THEN e ELSE L[g]
  BY DEF Added, e, u
<1>6. QED
  BY <1>1, <1>2, <1>4, <1>5, SMTT(30)

\* The branches that are there when a run has ended, if they can be listed.
SeenRefs(b) == IF b THEN remote[job.h] ELSE NoBranches

\* What the row of a run that has ended takes, and what it keeps.
LEMMA CollectedRow ==
  ASSUME IInv, NEW b \in BOOLEAN, Collect(b)
  PROVE  /\ job'.h = job.h /\ job'.run = job.run /\ job'.alive = job.alive
         /\ job'.listed = (job.listed /\ b) /\ job'.before = job.before
         /\ job'.row.run = job.row.run /\ job'.row.how = job.row.how
         /\ job'.row.cost = RowCost(job.h, log[job.h].usage)
         /\ job'.row.sha = Choose(SeenRefs(b), job.before).sha
<1> DEFINE c == RowCost(job.h, log[job.h].usage)
           choice == Choose(SeenRefs(b), job.before)
           row == [run |-> job.row.run, how |-> job.row.how, cost |-> c,
                   branch |-> choice.branch, sha |-> choice.sha]
<1>1. row = [Credit(job.row, choice) EXCEPT !.cost = c]
  BY Credited DEF IInv, Shapes
<1>2. job' = [job EXCEPT !.listed = @ /\ b, !.row = row]
  BY <1>1 DEF Collect, SeenRefs
<1>3. /\ row.run = job.row.run /\ row.how = job.row.how /\ row.cost = c
      /\ row.sha = choice.sha
  OBVIOUS
<1> HIDE DEF c, choice, row
<1>4. /\ job'.h = job.h /\ job'.run = job.run /\ job'.alive = job.alive
      /\ job'.listed = (job.listed /\ b) /\ job'.before = job.before
      /\ job'.row = row
  BY <1>2 DEF IInv, Shapes
<1>5. QED
  BY <1>3, <1>4 DEF c, choice

\* Before the first run there is nothing to get wrong.
LEMMA BooksOpen == SuiteInit => Books
<1> SUFFICES ASSUME SuiteInit PROVE Books
  OBVIOUS
<1>1. Amounts
  BY HarnessAssumption DEF SuiteInit, Amounts
<1>2. LogsRight
  BY HarnessAssumption DEF SuiteInit, LogsRight, NoJob
<1>3. RowsRight
  BY DEF SuiteInit, RowsRight
<1>4. ReportRight
  <2>1. Reported(NoRows)
    BY NothingReported DEF Reported
  <2>2. QED
    BY <2>1 DEF SuiteInit, ReportRight
<1>5. QED
  BY <1>1, <1>2, <1>3, <1>4 DEF Books

\* A run that is still paid for has no line yet: nothing that is written about the
\* others changes.
LEMMA BillPaid ==
  ASSUME IInv, Books, job.alive, NEW p \in Nat, UNCHANGED runs,
         bill' = [bill EXCEPT ![job.run] = @ + p]
  PROVE  /\ \A r \in 1..Runs : bill[r] \in Int /\ bill'[r] \in Int
         /\ \A r \in 1..Runs : bill'[r] >= bill[r] /\ bill'[r] >= 0
         /\ bill'[job.run] = bill[job.run] + p
         /\ \A l \in ledger.lines : Fair(l.h, l.how, l.run, l.cost)'
<1>1. job.run \in 1..Runs /\ job.run = runs /\ phase = "run"
  BY DEF IInv, MeterRuns
<1>2. \A r \in 1..Runs : bill[r] \in Int /\ bill[r] >= 0
  BY DEF IInv, Shapes, Books, Amounts
<1>3. /\ \A r \in 1..Runs : r # job.run => bill'[r] = bill[r]
      /\ bill'[job.run] = bill[job.run] + p
  BY <1>1 DEF IInv, Shapes
<1>4. \A r \in 1..Runs : bill'[r] \in Int /\ bill'[r] >= bill[r] /\ bill'[r] >= 0
  BY <1>1, <1>2, <1>3
<1>5. ASSUME NEW l \in ledger.lines PROVE Fair(l.h, l.how, l.run, l.cost)'
  <2>1. l.run # job.run /\ Fair(l.h, l.how, l.run, l.cost)
    BY <1>1 DEF Books, RowsRight
  <2>2. l.run \in 1..Runs
    BY <2>1, <1>1, HarnessAssumption DEF Fair
  <2>3. QED
    BY <1>3, <2>1, <2>2 DEF Fair
<1>6. QED
  BY <1>2, <1>3, <1>4, <1>5

\* The program moves on without a run, or ends: what is written stays as it is.
LEMMA SuiteBooks ==
  ASSUME IInv, Books, NEW w \in Writes,
         (\E p \in Picks : StartSuite(p)) \/ LeaveSuite \/ WriteReport(w)
  PROVE  Books'
<1>1. /\ UNCHANGED <<log, ledger, bill, runs>> /\ phase' \in {"idle", "next"}
      /\ ~job'.alive
  <2>1. CASE \E p \in Picks : StartSuite(p)
    BY <2>1 DEF StartSuite, suiteBounds, IInv, MeterRuns
  <2>2. CASE LeaveSuite \/ WriteReport(w)
    BY <2>2 DEF LeaveSuite, WriteReport, Ends, NoJob, suiteBounds
  <2>3. QED
    BY <2>1, <2>2
<1>2. Amounts' /\ LogsRight'
  BY <1>1 DEF Books, Amounts, LogsRight
<1>3. RowsRight'
  BY <1>1 DEF Books, RowsRight, Fair
<1>4. /\ metrics' \in {metrics, byName, NoRows}
      /\ byName' \in {metrics, byName, NoRows}
  BY DEF StartSuite, LeaveSuite, Ends, WriteReport, Rewrite, Writes
<1>5. ReportRight'
  <2>1. Reported(metrics) /\ Reported(byName) /\ Reported(NoRows)
    BY NothingReported DEF Books, ReportRight, Reported
  <2>2. QED
    BY <1>1, <1>4, <2>1 DEF ReportRight, Reported
<1>6. QED
  BY <1>2, <1>3, <1>5 DEF Books

\* A new run has cost nothing, has no line and, if its log is touched, an empty one.
LEMMA LaunchBooks ==
  ASSUME IInv, Books, NEW b \in BOOLEAN, Launch(b) \/ LaunchFails(b)
  PROVE  Books'
<1>0. PICK h \in Harness : h = Head(pick)
  BY DEF Launch, LaunchFails, IInv, Shapes
<1>1. runs \in Nat /\ runs + 1 \in 1..Runs
  <2>1. runs < Runs /\ runs \in 0..Runs
    BY DEF Launch, LaunchFails, IInv, Shapes
  <2>2. QED
    BY <2>1, HarnessAssumption
<1>2. /\ runs' = runs + 1 /\ UNCHANGED <<ledger, bill, metrics, byName>>
      /\ phase' \in {"run", "ledger"}
      /\ \/ log' = [log EXCEPT ![h] = [run |-> runs + 1, usage |-> NoUsage]]
         \/ log' = log /\ phase' = "ledger"
  BY <1>0 DEF Launch, LaunchFails
<1>3. /\ job'.h = h /\ job'.run = runs + 1 /\ job'.row = FreshRow(runs + 1)
      /\ job'.alive => phase' = "run"
  <2>1. CASE Launch(b)
    BY <1>0, <2>1 DEF Launch
  <2>2. CASE LaunchFails(b)
    BY <1>0, <2>2 DEF LaunchFails, NoJob
  <2>3. QED
    BY <2>1, <2>2
<1>4. bill[runs + 1] = 0 /\ \A r \in 1..Runs : bill[r] >= 0
  BY <1>1 DEF IInv, MeterRuns, Books, Amounts
<1>5. ASSUME log' = [log EXCEPT ![h] = [run |-> runs + 1, usage |-> NoUsage]]
      PROVE  /\ log'[h].run = runs + 1 /\ \A k \in Kinds : log'[h].usage[k] = 0
             /\ \A g \in Harness : g # h => log'[g] = log[g]
  BY <1>1, <1>5 DEF IInv, Shapes, NoUsage
<1>6. Amounts'
  <2>1. \A g \in Harness : log[g].run \in 0..runs
    BY DEF Books, Amounts
  <2>2. ASSUME NEW g \in Harness PROVE log'[g].run \in 0..(runs + 1)
    BY <1>1, <1>2, <1>5, <2>1
  <2>3. QED
    BY <1>1, <1>2, <1>3, <1>4, <2>2 DEF Amounts
<1>7. LogsRight'
  <2>1. \A g \in Harness : log[g].run # 0 =>
          \A k \in Kinds : log[g].usage[k] <= bill[log[g].run]
    BY DEF Books, LogsRight
  <2>2. ASSUME NEW g \in Harness, log'[g].run # 0, NEW k \in Kinds
        PROVE  log'[g].usage[k] <= bill[log'[g].run]
    <3>1. CASE log' = log
      BY <2>1, <2>2, <3>1
    <3>2. CASE log' = [log EXCEPT ![h] = [run |-> runs + 1, usage |-> NoUsage]]
      BY <1>4, <1>5, <2>1, <2>2, <3>2
    <3>3. QED
      BY <1>2, <3>1, <3>2
  <2>3. phase' = "run" => log'[h].run = runs + 1 /\ \A k \in Kinds : log'[h].usage[k] = 0
    BY <1>2, <1>5
  <2>4. QED
    BY <1>2, <1>3, <2>2, <2>3, KindsOf DEF LogsRight
<1>8. RowsRight'
  <2>1. /\ FreshRow(runs + 1).how = "run" /\ FreshRow(runs + 1).run = runs + 1
        /\ FreshRow(runs + 1).cost = 0
    BY DEF FreshRow
  <2>2. \A l \in ledger.lines : Fair(l.h, l.how, l.run, l.cost)
    BY DEF Books, RowsRight
  <2>3. ASSUME NEW l \in ledger.lines
        PROVE  Fair(l.h, l.how, l.run, l.cost)' /\ l.run # runs + 1
    BY <1>1, <1>2, <2>2 DEF Fair
  <2> PICK r \in 1..Runs : r = runs + 1
    BY <1>1
  <2>4. Fair(h, "run", r, 0)'
    BY <1>1, <1>2, <1>4, RoundedIs DEF Fair
  <2>5. QED
    BY <1>2, <1>3, <2>1, <2>3, <2>4 DEF RowsRight, Fair
<1>9. ReportRight'
  BY <1>2 DEF Books, ReportRight, Reported
<1>10. QED
  BY <1>6, <1>7, <1>8, <1>9 DEF Books

\* A response adds to its run and, at most as much, to its log.
LEMMA RespondBooks ==
  ASSUME IInv, Books, NEW price \in ReplyPrices, Respond(price)
  PROVE  Books'
<1>0. PICK h \in Harness : h = job.h
  BY DEF IInv, Shapes
<1>k. PICK k \in Kinds : k = Emits[h]
  BY KindsOf
<1>1. /\ h \in Harness /\ k \in Kinds /\ price \in Nat /\ "claude" \in Harness
      /\ "result" \in Kinds /\ phase = "run" /\ job.run \in 1..Runs
      /\ h = "claude" => k # "result"
  <2>1. job.alive /\ phase = "run" /\ job.run \in 1..Runs
    BY DEF Respond, IInv, MeterRuns
  <2>2. h \in Harness /\ price \in Nat
    BY HarnessAssumption DEF IInv, Shapes
  <2>3. h = "claude" => k # "result"
    BY <1>k DEF Emits, Harness
  <2>4. "claude" \in Harness
    BY DEF Harness
  <2>5. QED
    BY <1>0, <2>1, <2>2, <2>3, <2>4, KindsOf
<1>2. /\ bill' = [bill EXCEPT ![job.run] = @ + price] /\ log' = Added(log, h, k, price)
      /\ UNCHANGED <<phase, byName, ledger, metrics, runs>> /\ job.alive
  BY <1>0, <1>k DEF Respond, suiteBounds, Added
<1>3. job'.h = h /\ job'.run = job.run /\ job'.row = job.row
  BY <1>0 DEF Respond, IInv, Shapes
<1>4. /\ \A r \in 1..Runs : bill[r] \in Int /\ bill'[r] \in Int
      /\ \A r \in 1..Runs : bill'[r] >= bill[r] /\ bill'[r] >= 0
      /\ bill'[job.run] = bill[job.run] + price
      /\ \A l \in ledger.lines : Fair(l.h, l.how, l.run, l.cost)'
  BY <1>1, <1>2, BillPaid
<1>5. /\ \A g \in Harness : log'[g].run = log[g].run
      /\ \A g \in Harness, j \in Kinds :
           log'[g].usage[j] = log[g].usage[j] + (IF g = h /\ j = k THEN price ELSE 0)
      /\ \A g \in Harness, j \in Kinds : log[g].usage[j] \in Int
  <2>1. log \in Logs /\ price \in Int
    BY <1>1 DEF IInv, Shapes, Logs
  <2>2. log' = Added(log, h, k, price) /\ k \in Kinds
    BY <1>1, <1>2
  <2>3. \A g \in Harness : log'[g].run = log[g].run
    BY <2>1, <2>2, UsageOf
  <2>4. \A g \in Harness, j \in Kinds :
          log'[g].usage[j] = log[g].usage[j] + (IF g = h /\ j = k THEN price ELSE 0)
    BY <2>1, <2>2, UsageOf
  <2>5. \A g \in Harness, j \in Kinds : log[g].usage[j] \in Int
    BY <2>1 DEF Logs
  <2>6. QED
    BY <2>3, <2>4, <2>5
<1>6. Amounts'
  BY <1>2, <1>3, <1>4, <1>5 DEF Books, Amounts
<1>7. LogsRight'
  <2>1. ASSUME NEW g \in Harness, log[g].run # 0, NEW j \in Kinds
        PROVE  log'[g].usage[j] <= bill'[log[g].run]
    <3>1. log[g].usage[j] <= bill[log[g].run] /\ log[h].run = job.run
      BY <1>0, <1>1, <2>1 DEF Books, LogsRight
    <3>2. log[g].run \in 1..Runs
      <4>1. runs \in 0..Runs /\ log[g].run \in 0..runs
        BY DEF IInv, Shapes, Books, Amounts
      <4>2. QED
        BY <2>1, <4>1, HarnessAssumption
    <3>3. CASE g = h /\ j = k
      BY <1>1, <1>4, <1>5, <3>1, <3>2, <3>3
    <3>4. CASE ~(g = h /\ j = k)
      <4>1. log'[g].usage[j] = log[g].usage[j]
        BY <1>5, <3>4
      <4>2. bill'[log[g].run] >= bill[log[g].run] /\ log[g].usage[j] \in Int
        BY <1>4, <1>5, <3>2
      <4>3. QED
        BY <1>4, <3>1, <3>2, <4>1, <4>2
    <3>5. QED
      BY <3>3, <3>4
  <2>2. h = "claude" => log'["claude"].usage["result"] = 0
    BY <1>0, <1>1, <1>2, <1>5 DEF Books, LogsRight
  <2>3. QED
    BY <1>0, <1>1, <1>2, <1>3, <1>5, <2>1, <2>2 DEF Books, LogsRight
<1>8. RowsRight'
  BY <1>1, <1>2, <1>3, <1>4 DEF Books, RowsRight
<1>9. ReportRight'
  BY <1>2 DEF Books, ReportRight, Reported
<1>10. QED
  BY <1>6, <1>7, <1>8, <1>9 DEF Books

\* A push is nothing to the ledger; an agent that ends pays nothing more, and claude's
\* result line says what it has paid.
LEMMA AgentBooks ==
  ASSUME IInv, Books,
         (\E n \in 1..MaxSuffix : Push(n)) \/ AgentExits \/ TimerKills \/ Sample
  PROVE  Books'
<1>1. /\ UNCHANGED <<phase, byName, ledger, metrics, bill, runs>> /\ job.alive
      /\ \/ log' = log
         \/ job.h = "claude" /\ ~job'.alive
            /\ log' = Added(log, "claude", "result", bill[job.run])
  <2>1. CASE AgentExits
    <3>1. job' = [job EXCEPT !.alive = FALSE]
      BY <2>1 DEF AgentExits
    <3>2. ~job'.alive
      BY <3>1 DEF IInv, Shapes
    <3>3. QED
      BY <2>1, <3>2 DEF AgentExits, suiteBounds, Added
  <2>2. CASE (\E n \in 1..MaxSuffix : Push(n)) \/ TimerKills \/ Sample
    BY <2>2 DEF Push, TimerKills, Sample, suiteBounds
  <2>3. QED
    BY <2>1, <2>2
<1>2. job'.h = job.h /\ job'.run = job.run /\ job'.row = job.row
  BY DEF Push, AgentExits, TimerKills, Sample, IInv, Shapes
<1>3. /\ phase = "run" /\ job.run \in 1..Runs /\ "claude" \in Harness /\ "result" \in Kinds
      /\ bill[job.run] \in Int /\ job.h \in Harness
  BY <1>1, KindsOf DEF IInv, Shapes, MeterRuns, Harness
<1>4. \A g \in Harness : log'[g].run = log[g].run
  <2>1. log \in Logs
    BY DEF IInv, Shapes, Logs
  <2>2. QED
    BY <1>1, <1>3, <2>1, UsageOf
<1>5. Amounts'
  BY <1>1, <1>2, <1>4 DEF Books, Amounts
<1>6. LogsRight'
  <2>1. CASE log' = log
    BY <1>1, <1>2, <2>1 DEF Books, LogsRight
  <2>2. CASE /\ job.h = "claude" /\ ~job'.alive
             /\ log' = Added(log, "claude", "result", bill[job.run])
    <3>1. \A g \in Harness, j \in Kinds :
            log'[g].usage[j] = log[g].usage[j]
              + (IF g = "claude" /\ j = "result" THEN bill[job.run] ELSE 0)
      <4>1. log \in Logs
        BY DEF IInv, Shapes, Logs
      <4>2. QED
        BY <1>3, <2>2, <4>1, UsageOf
    <3>2. log["claude"].run = job.run /\ log["claude"].usage["result"] = 0
      BY <1>1, <1>3, <2>2 DEF Books, LogsRight
    <3>3. ASSUME NEW g \in Harness, log[g].run # 0, NEW j \in Kinds
          PROVE  log'[g].usage[j] <= bill[log[g].run]
      <4>1. log[g].usage[j] <= bill[log[g].run] /\ log[g].usage[j] \in Int
        BY <3>3 DEF Books, LogsRight, IInv, Shapes
      <4>2. CASE g = "claude" /\ j = "result"
        BY <1>3, <3>1, <3>2, <4>2
      <4>3. CASE ~(g = "claude" /\ j = "result")
        BY <3>1, <4>1, <4>3
      <4>4. QED
        BY <4>2, <4>3
    <3>4. QED
      BY <1>1, <1>2, <1>3, <1>4, <2>2, <3>3 DEF Books, LogsRight
  <2>3. QED
    BY <1>1, <2>1, <2>2
<1>7. RowsRight'
  BY <1>1, <1>2 DEF Books, RowsRight, Fair
<1>8. ReportRight'
  BY <1>1 DEF Books, ReportRight, Reported
<1>9. QED
  BY <1>5, <1>6, <1>7, <1>8 DEF Books

\* The row of a run that has ended takes the cost its log gives it: rounded, never more
\* than the run has cost, and exactly that if the log was read as it grew.
LEMMA CollectBooks ==
  ASSUME IInv, Books, NEW b \in BOOLEAN, Collect(b)
  PROVE  Books'
<1> DEFINE usage == log[job.h].usage
           c == RowCost(job.h, usage)
<1>1. /\ phase = "run" /\ phase' = "ledger" /\ ~job.alive
      /\ UNCHANGED <<log, ledger, bill, metrics, byName, runs>>
  BY DEF Collect, suiteBounds
<1>2. /\ job'.h = job.h /\ job'.run = job.run /\ ~job'.alive
      /\ job'.row.run = job.row.run /\ job'.row.how = job.row.how /\ job'.row.cost = c
  BY <1>1, CollectedRow
<1>3. job.h \in Harness /\ Counts[job.h] \in Kinds /\ job.run = runs /\ runs \in 1..Runs
  BY <1>1, KindsOf DEF IInv, Shapes, MeterRuns
<1>4. c <= bill[job.run] + Grain \div 2 /\ (job.h \in Metered => c = Rounded(bill[job.run]))
  <2>1. /\ Cost(job.h, usage) <= bill[job.run]
        /\ job.h \in Metered => Cost(job.h, usage) = bill[job.run]
    BY <1>1, <1>3 DEF Books, LogsRight, Cost, IInv, MeterRuns
  <2>2. Cost(job.h, usage) \in Int /\ bill[job.run] \in Int
    BY <1>3, CostIsInt DEF IInv, Shapes
  <2>3. QED
    BY <2>1, <2>2, RoundedIs DEF RowCost
<1>5. job.row.how = "run" /\ job.row.run = job.run
  BY <1>1 DEF Books, RowsRight
<1> HIDE DEF c
<1>6. Amounts' /\ LogsRight' /\ ReportRight'
  BY <1>1, <1>2 DEF Books, Amounts, LogsRight, ReportRight, Reported
<1>7. RowsRight'
  <2>1. job.run \in 1..runs
    BY <1>3, HarnessAssumption
  <2>2. Fair(job.h, job.row.how, job.row.run, job.row.cost)'
    BY <1>1, <1>2, <1>4, <1>5, <2>1 DEF Fair
  <2>3. QED
    BY <1>1, <1>2, <1>5, <2>2 DEF Books, RowsRight, Fair
<1>8. QED
  BY <1>6, <1>7 DEF Books

\* The line of a row enters the ledger, or is lost, with the row: in the report that is written next,
\* or, recovered, in the one that is written already.
LEMMA LedgerBooks ==
  ASSUME IInv, Books, NEW w \in Writes, RecordLedger(w) \/ RecoverLedger(w)
  PROVE  Books'
<1>1. /\ phase \in {"ledger", "recovered"} /\ phase' \in {"report", "idle"}
      /\ UNCHANGED <<log, metrics, bill, runs>>
      /\ AppendLedger(job.h, job.row, w)
  BY DEF RecordLedger, RecoverLedger, Ends
<1>2. /\ ledger'.lines \subseteq ledger.lines \cup {LineOf(job.h, job.row)}
      /\ ledger.lines \cup ledger.lost \cup {LineOf(job.h, job.row)}
           \subseteq ledger'.lines \cup ledger'.lost
  BY <1>1 DEF AppendLedger
<1>3. Amounts' /\ LogsRight'
  <2>1. phase' = "report" => job' = job
    BY DEF RecordLedger, RecoverLedger, Ends
  <2>2. phase' = "idle" => job' = NoJob
    BY DEF RecordLedger, RecoverLedger, Ends
  <2>3. phase' = "report" => phase = "ledger"
    BY DEF RecordLedger, RecoverLedger, Ends
  <2>4. Amounts'
    BY <1>1, <2>1, <2>3 DEF Books, Amounts
  <2>5. ~job'.alive
    BY <1>1, <2>1, <2>2 DEF IInv, MeterRuns, NoJob
  <2>6. LogsRight'
    BY <1>1, <2>5 DEF Books, LogsRight
  <2>7. QED
    BY <2>4, <2>6
<1>4. RowsRight'
  <2>1. ASSUME NEW l \in ledger'.lines PROVE Fair(l.h, l.how, l.run, l.cost)
    <3>1. CASE l \in ledger.lines
      BY <3>1 DEF Books, RowsRight
    <3>2. CASE l = LineOf(job.h, job.row)
      BY <1>1, <3>2 DEF Books, RowsRight, LineOf
    <3>3. QED
      BY <1>2, <2>1, <3>1, <3>2
  <2>2. QED
    BY <1>1, <2>1 DEF RowsRight, Fair
<1>5. ReportRight'
  <2>1. Reported(metrics)'
    BY <1>1, <1>2 DEF Books, ReportRight, Reported
  <2>2. CASE RecordLedger(w)
    <3>1. byName' = [byName EXCEPT ![job.h] = job.row]
      BY <2>2 DEF RecordLedger
    <3>2. \A h \in Harness : byName'[h] = IF h = job.h THEN job.row ELSE byName[h]
      BY <3>1 DEF Books, ReportRight, Reported
    <3>3. byName' = [h \in Harness |-> byName'[h]]
      BY <3>1 DEF Books, ReportRight, Reported
    <3>4. RowLike(job.row)
      BY DEF IInv, Shapes, RowLike
    <3>5. \A h \in Harness : RowLike(byName'[h])
      BY <3>2, <3>4 DEF Books, ReportRight, Reported
    <3>6. ASSUME NEW h \in Harness, byName'[h].how = "run"
          PROVE  LineOf(h, byName'[h]) \in ledger'.lines \cup ledger'.lost
      BY <1>2, <3>2, <3>6 DEF Books, ReportRight, Reported
    <3>7. QED
      BY <2>1, <3>3, <3>5, <3>6 DEF ReportRight, Reported, RowLike
  <2>3. CASE RecoverLedger(w)
    <3>1. byName' = NoRows
      BY <2>3 DEF RecoverLedger, Ends
    <3>2. Reported(byName)'
      BY <3>1, NothingReported DEF Reported, RowLike
    <3>3. QED
      BY <2>1, <3>2 DEF ReportRight
  <2>4. QED
    BY <2>2, <2>3
<1>6. QED
  BY <1>3, <1>4, <1>5 DEF Books

\* A program that dies leaves what is written; its agent may still pay, and the run that
\* it pays for has no line.
LEMMA DeathBooks ==
  ASSUME IInv, Books, NEW p \in ReplyPrices \cup {0}, ProgramDies(p)
  PROVE  Books'
<1>1. /\ phase' = "idle" /\ job' = NoJob /\ byName' = NoRows /\ p \in Nat
      /\ UNCHANGED <<log, ledger, metrics, runs>>
  BY HarnessAssumption DEF ProgramDies, Ends
<1>2. ~job'.alive
  BY <1>1 DEF NoJob
<1>3. /\ \A r \in 1..Runs : bill[r] \in Int /\ bill'[r] \in Int
      /\ \A r \in 1..Runs : bill'[r] >= bill[r] /\ bill'[r] >= 0
      /\ \A l \in ledger.lines : Fair(l.h, l.how, l.run, l.cost)'
  <2>1. CASE bill' = bill
    <3>1. \A r \in 1..Runs : bill[r] \in Int /\ bill[r] >= 0
      BY DEF IInv, Shapes, Books, Amounts
    <3>2. \A l \in ledger.lines : Fair(l.h, l.how, l.run, l.cost)
      BY DEF Books, RowsRight
    <3>3. QED
      BY <1>1, <2>1, <3>1, <3>2 DEF Fair
  <2>2. CASE bill' = [bill EXCEPT ![job.run] = @ + p] /\ job.alive
    BY <1>1, <2>2, BillPaid
  <2>3. QED
    BY <2>1, <2>2 DEF ProgramDies
<1>4. Amounts'
  BY <1>1, <1>3 DEF Books, Amounts
<1>5. LogsRight'
  <2>1. ASSUME NEW g \in Harness, log[g].run # 0, NEW k \in Kinds
        PROVE  log[g].usage[k] <= bill'[log[g].run]
    <3>1. log[g].usage[k] <= bill[log[g].run] /\ log[g].usage[k] \in Int
      BY <2>1 DEF Books, LogsRight, IInv, Shapes
    <3>2. log[g].run \in 1..Runs
      <4>1. runs \in 0..Runs /\ log[g].run \in 0..runs
        BY DEF IInv, Shapes, Books, Amounts
      <4>2. QED
        BY <2>1, <4>1, HarnessAssumption
    <3>3. QED
      BY <1>3, <3>1, <3>2
  <2>2. QED
    BY <1>1, <1>2, <2>1 DEF LogsRight
<1>6. RowsRight'
  BY <1>1, <1>3 DEF RowsRight
<1>7. ReportRight'
  <2>1. Reported(metrics)'
    BY <1>1 DEF Books, ReportRight, Reported
  <2>2. Reported(byName)'
    BY <1>1, NothingReported DEF Reported, RowLike
  <2>3. QED
    BY <2>1, <2>2 DEF ReportRight
<1>8. QED
  BY <1>4, <1>5, <1>6, <1>7 DEF Books

\* A recovered row costs no more than its log says, rounded.
LEMMA RecoverBooks ==
  ASSUME IInv, Books, NEW h \in Harness, NEW w \in Writes, Recover(h, w)
  PROVE  Books'
<1> DEFINE usage == log[h].usage
           cost  == IF h = "claude" /\ Cost(h, usage) = 0
                      THEN usage["assistant"] ELSE Cost(h, usage)
           row   == [run |-> log[h].run, how |-> "recovered", cost |-> Rounded(cost),
                     branch |-> 0, sha |-> 0]
<1>1. /\ log[h].run # 0 /\ phase' = "recovered"
      /\ UNCHANGED <<byName, log, ledger, bill, runs>>
      /\ metrics' \in {[metrics EXCEPT ![h] = row], metrics, NoRows}
      /\ job' = [NoJob EXCEPT !.h = h, !.row = row]
  BY DEF Recover, Rewrite, Writes
<1>2. Rounded(cost) \in Int /\ Rounded(cost) <= bill[log[h].run] + Grain \div 2
  <2>1. PICK k \in Kinds : cost = usage[k]
    BY KindsOf DEF Cost
  <2>2. usage[k] \in Int /\ usage[k] <= bill[log[h].run]
    BY <1>1 DEF IInv, Shapes, Books, LogsRight
  <2>3. log[h].run \in 1..Runs
    <3>1. runs \in 0..Runs /\ log[h].run \in 0..runs
      BY DEF IInv, Shapes, Books, Amounts
    <3>2. QED
      BY <1>1, <3>1, HarnessAssumption
  <2>4. bill[log[h].run] \in Int
    BY <2>3 DEF IInv, Shapes
  <2> HIDE DEF usage, cost
  <2>5. QED
    BY <2>1, <2>2, <2>4, RoundedIs
<1> HIDE DEF usage, cost
<1>3. /\ row.run = log[h].run /\ row.how = "recovered" /\ row.cost = Rounded(cost)
      /\ RowLike(row)
  BY <1>2 DEF RowLike
<1> HIDE DEF row
<1>4. job'.h = h /\ job'.row = row /\ ~job'.alive
  BY <1>1 DEF NoJob
<1>5. Amounts' /\ LogsRight'
  BY <1>1, <1>4 DEF Books, Amounts, LogsRight
<1>6. RowsRight'
  <2>1. runs \in 0..Runs /\ log[h].run \in 0..runs
    BY DEF IInv, Shapes, Books, Amounts
  <2>2. log[h].run \in 1..runs
    BY <1>1, <2>1, HarnessAssumption
  <2>3. Fair(job.h, job.row.how, job.row.run, job.row.cost)'
    BY <1>1, <1>2, <1>3, <1>4, <2>2 DEF Fair
  <2>4. QED
    BY <1>1, <1>3, <1>4, <2>3 DEF Books, RowsRight, Fair
<1>7. ReportRight'
  <2>1. CASE metrics' = [metrics EXCEPT ![h] = row]
    <3>1. /\ metrics' = [g \in Harness |-> metrics'[g]]
          /\ \A g \in Harness : metrics'[g] = IF g = h THEN row ELSE metrics[g]
      BY <2>1 DEF Books, ReportRight, Reported
    <3>2. QED
      BY <1>1, <1>3, <3>1 DEF Books, ReportRight, Reported, RowLike
  <2>2. CASE metrics' \in {metrics, NoRows}
    BY <1>1, <2>2, NothingReported DEF Books, ReportRight, Reported, RowLike
  <2>3. QED
    BY <1>1, <2>1, <2>2
<1>8. QED
  BY <1>5, <1>6, <1>7 DEF Books

\* No row that recheck writes is the suite's own any more.
LEMMA RecheckBooks ==
  ASSUME IInv, Books, NEW w \in Writes, Recheck(w)
  PROVE  Books'
<1> DEFINE rows == [h \in Harness |-> IF metrics[h] = Missing THEN Missing
                                       ELSE Rechecked(h, metrics[h])]
<1>1. /\ UNCHANGED <<phase, byName, job, log, ledger, bill, runs>>
      /\ metrics' \in {rows, metrics, NoRows}
  BY DEF Recheck, Rewrite, Writes
<1>2. Amounts' /\ LogsRight' /\ RowsRight'
  BY <1>1 DEF Books, Amounts, LogsRight, RowsRight, Fair
<1>3. ASSUME NEW h \in Harness, NEW x, RowLike(x)
      PROVE  RowLike(Rechecked(h, x)) /\ Rechecked(h, x).how = "rechecked"
  <2> DEFINE cost == IF log[h].run = 0 THEN x.cost ELSE RowCost(h, log[h].usage)
             seen == IF x.branch = 0 THEN [branch |-> 0, sha |-> 0]
                       ELSE LET c == Choose(Recorded(h, x.branch), NoBranches)
                            IN  IF c.sha = 0 THEN [c EXCEPT !.branch = x.branch] ELSE c
             y == [Credit(x, seen) EXCEPT !.cost = cost]
  <2>1. cost \in Int
    BY <1>3, CostIsInt, RoundedIs DEF IInv, Shapes, RowLike, RowCost
  <2>2. Rechecked(h, x) = [Credit(x, seen) EXCEPT !.cost = cost, !.how = "rechecked"]
    BY DEF Rechecked
  <2> HIDE DEF cost, seen
  <2>3. [run |-> x.run, how |-> x.how, cost |-> cost, branch |-> seen.branch,
         sha |-> seen.sha] = y
    BY <1>3, Credited DEF RowLike
  <2>4. Rechecked(h, x) = [y EXCEPT !.how = "rechecked"]
    BY <2>2
  <2> HIDE DEF y
  <2>5. Rechecked(h, x) = [run |-> x.run, how |-> "rechecked", cost |-> cost,
                           branch |-> seen.branch, sha |-> seen.sha]
    BY <2>3, <2>4
  <2>6. QED
    BY <2>1, <2>5 DEF RowLike
<1>4. RowLike(Missing) /\ Missing.how = "none"
  BY DEF RowLike, Missing
<1>5. ReportRight'
  <2>1. Reported(byName)'
    BY <1>1 DEF Books, ReportRight, Reported
  <2>2. /\ rows = [h \in Harness |-> rows[h]]
        /\ \A h \in Harness : RowLike(rows[h]) /\ rows[h].how # "run"
    BY <1>3, <1>4 DEF Books, ReportRight, Reported
  <2> HIDE DEF rows
  <2>3. CASE metrics' = rows
    BY <1>1, <2>1, <2>2, <2>3 DEF ReportRight, Reported, RowLike
  <2>4. CASE metrics' \in {metrics, NoRows}
    BY <1>1, <2>4, NothingReported DEF Books, ReportRight, Reported, RowLike
  <2>5. QED
    BY <1>1, <2>3, <2>4
<1>6. QED
  BY <1>2, <1>5 DEF Books

\* Every step of the program keeps the books.
LEMMA StepKeepsBooks == IInv /\ Books /\ [SuiteNext]_suiteVars => Books'
<1> SUFFICES ASSUME IInv, Books, [SuiteNext]_suiteVars PROVE Books'
  OBVIOUS
<1>1. CASE UNCHANGED suiteVars
  BY <1>1 DEF suiteVars, suiteBounds, Books, Amounts, LogsRight, RowsRight, ReportRight,
              Reported, RowLike, Fair
<1>2. CASE Agent
  BY <1>2, RespondBooks, AgentBooks DEF Agent
<1>3. CASE Repair
  BY <1>3, RecoverBooks, LedgerBooks, RecheckBooks DEF Repair, Harness
<1>4. CASE \E b \in BOOLEAN : Launch(b) \/ LaunchFails(b) \/ Collect(b)
  BY <1>4, LaunchBooks, CollectBooks
<1>w. "whole" \in Writes
  BY DEF Writes
<1>5. CASE (\E p \in Picks : StartSuite(p)) \/ LeaveSuite
  BY <1>5, <1>w, SuiteBooks
<1>6. CASE \E w \in Writes : RecordLedger(w) \/ WriteReport(w)
  BY <1>6, LedgerBooks, SuiteBooks
<1>7. CASE \E p \in ReplyPrices \cup {0} : ProgramDies(p)
  BY <1>7, DeathBooks
<1>8. QED
  BY <1>1, <1>2, <1>3, <1>4, <1>5, <1>6, <1>7 DEF SuiteNext

\* The ledger (main.go's spend-ledger.jsonl): no line of it charges a run more than it
\* has cost and half the grain of rounding, the suite's own line of a run whose usage is
\* read as it grows charges exactly its cost, rounded, and every row of the report that
\* the suite wrote has its line, but for lines that a failed write lost, for every grain
\* and however often writes fail, the program dies and its commands repair what it leaves.
THEOREM LedgerIsHonest == SuiteSpec => []LedgerHonest
<1>1. Books => LedgerHonest
  BY DEF Books, RowsRight, ReportRight, Reported, Fair, LineOf, LedgerHonest
<1>2. QED
  BY SuiteInvariant, BooksOpen, StepKeepsBooks, <1>1, PTL DEF SuiteSpec

----------------------------------------------------------------------------
\* Of the branches of the harness at work, what is not as it was listed is the run's.
RemoteRight ==
  /\ remote \in [Harness -> [1..MaxSuffix -> Int]]
  /\ \A h \in Harness, n \in 1..MaxSuffix : remote[h][n] \in 0..runs
  /\ job.listed \in BOOLEAN
  /\ phase = "run" /\ job.listed => \A n \in 1..MaxSuffix :
       /\ job.before[n] \in Int /\ job.before[n] < job.run
       /\ remote[job.h][n] \in {job.before[n], job.run}

Owned == RemoteRight /\ CreditIsOwn

\* A set of suffixes has a highest one.
LEMMA MaxIsIn ==
  ASSUME NEW S \in SUBSET (1..MaxSuffix), S # {}
  PROVE  Max(S) \in S
<1>1. MaxSuffix \in Nat /\ S \in SUBSET (0..MaxSuffix)
  BY HarnessAssumption
<1>2. QED
  BY <1>1, GreatestNumber

\* The commit that is chosen is the one of a branch that is new or has moved; there is
\* none only if there is no such branch.
LEMMA ChosenIsNew ==
  ASSUME NEW refs, NEW before
  PROVE  \/ /\ NewBranches(refs, before) = {} /\ Choose(refs, before).sha = 0
         \/ \E n \in NewBranches(refs, before) : Choose(refs, before).sha = refs[n]
<1>1. NewBranches(refs, before) \in SUBSET (1..MaxSuffix)
  BY DEF NewBranches
<1>2. NewBranches(refs, before) # {} =>
        Max(NewBranches(refs, before)) \in NewBranches(refs, before)
  BY <1>1, MaxIsIn
<1>3. QED
  BY <1>2 DEF Choose

\* Before the first run no branch is anybody's.
LEMMA InitOwned == SuiteInit => Owned
<1> SUFFICES ASSUME SuiteInit PROVE Owned
  OBVIOUS
<1>1. RemoteRight
  BY HarnessAssumption DEF SuiteInit, RemoteRight, NoBranches, NoJob
<1>2. CreditIsOwn
  BY DEF SuiteInit, CreditIsOwn
<1>3. QED
  BY <1>1, <1>2 DEF Owned

\* A new run knows the branches it was listed, all of earlier runs; one that cannot be
\* started has pushed none.
LEMMA LaunchOwned ==
  ASSUME IInv, Owned, NEW b \in BOOLEAN, Launch(b) \/ LaunchFails(b)
  PROVE  Owned'
<1>0. PICK h \in Harness : h = Head(pick)
  BY DEF Launch, LaunchFails, IInv, Shapes
<1>1. runs \in Nat /\ runs' = runs + 1 /\ remote' = remote
  BY HarnessAssumption DEF Launch, LaunchFails, IInv, Shapes
<1>2. \/ /\ phase' = "run" /\ job'.h = h /\ job'.run = runs + 1 /\ job'.listed = b
         /\ b => job'.before = remote[h]
      \/ /\ phase' = "ledger" /\ job'.h = h /\ job'.run = runs + 1 /\ job'.listed = TRUE
         /\ job'.row.sha = 0
  <2>1. CASE Launch(b)
    BY <1>0, <2>1 DEF Launch
  <2>2. CASE LaunchFails(b)
    BY <1>0, <2>2 DEF LaunchFails, NoJob, FreshRow
  <2>3. QED
    BY <2>1, <2>2
<1>3. \A g \in Harness, n \in 1..MaxSuffix :
        /\ remote[g][n] \in Int /\ remote[g][n] \in 0..(runs + 1)
        /\ remote[g][n] < runs + 1
  BY <1>1 DEF Owned, RemoteRight
<1>4. RemoteRight'
  BY <1>1, <1>2, <1>3 DEF Owned, RemoteRight
<1>5. CreditIsOwn'
  <2>1. \A n \in 1..MaxSuffix : remote'[h][n] # runs + 1
    BY <1>1, <1>3
  <2>2. CASE phase' = "run"
    BY <2>2 DEF CreditIsOwn
  <2>3. CASE phase' = "ledger"
    BY <1>2, <2>1, <2>3 DEF CreditIsOwn
  <2>4. QED
    BY <1>2, <2>2, <2>3
<1>6. QED
  BY <1>4, <1>5 DEF Owned

\* A run pushes its own commit; whatever else its agent does leaves the branches alone.
LEMMA AgentOwned ==
  ASSUME IInv, Owned, Agent
  PROVE  Owned'
<1>1. /\ job.alive /\ phase = "run" /\ phase' = "run" /\ runs' = runs
      /\ \/ remote' = remote
         \/ \E n \in 1..MaxSuffix : remote' = [remote EXCEPT ![job.h][n] = job.run]
  BY DEF Agent, Respond, Push, AgentExits, TimerKills, Sample, suiteBounds, IInv, MeterRuns
<1>2. /\ job'.h = job.h /\ job'.run = job.run /\ job'.listed = job.listed
      /\ job'.before = job.before
  <2>1. \/ job' = job
        \/ job' = [job EXCEPT !.due = TRUE, !.replies = @ + 1]
        \/ job' = [job EXCEPT !.alive = FALSE]
        \/ job' = [job EXCEPT !.due = FALSE, !.alive = ~OverBudget]
    BY DEF Agent, Respond, Push, AgentExits, TimerKills, Sample
  <2>2. QED
    BY <2>1 DEF IInv, Shapes
<1>3. job.h \in Harness /\ job.run \in Int /\ job.run \in 0..runs
  BY <1>1, HarnessAssumption DEF IInv, Shapes, MeterRuns
<1>4. CreditIsOwn'
  BY <1>1 DEF CreditIsOwn
<1>5. RemoteRight'
  <2>1. CASE remote' = remote
    BY <1>1, <1>2, <2>1 DEF Owned, RemoteRight
  <2>2. CASE \E n \in 1..MaxSuffix : remote' = [remote EXCEPT ![job.h][n] = job.run]
    <3>1. PICK m \in 1..MaxSuffix : remote' = [remote EXCEPT ![job.h][m] = job.run]
      BY <2>2
    <3>2. remote' \in [Harness -> [1..MaxSuffix -> Int]]
      BY <1>3, <3>1 DEF Owned, RemoteRight
    <3>3. \A h \in Harness, n \in 1..MaxSuffix :
            remote'[h][n] = IF h = job.h /\ n = m THEN job.run ELSE remote[h][n]
      BY <1>3, <3>1 DEF Owned, RemoteRight
    <3>4. QED
      BY <1>1, <1>2, <1>3, <3>2, <3>3 DEF Owned, RemoteRight
  <2>3. QED
    BY <1>1, <2>1, <2>2
<1>6. QED
  BY <1>4, <1>5 DEF Owned

\* The commit a run is credited with is on a branch that was not as it was listed, and
\* so the run's own.
LEMMA CollectOwned ==
  ASSUME IInv, Owned, NEW b \in BOOLEAN, Collect(b)
  PROVE  Owned'
<1>1. phase = "run" /\ phase' = "ledger" /\ UNCHANGED <<remote, runs>>
  BY DEF Collect, suiteBounds
<1>2. /\ job'.h = job.h /\ job'.run = job.run /\ job'.listed = (job.listed /\ b)
      /\ job'.row.sha = Choose(SeenRefs(b), job.before).sha
  BY CollectedRow
<1>3. RemoteRight'
  BY <1>1, <1>2 DEF Owned, RemoteRight
<1>4. CreditIsOwn'
  <2>1. SUFFICES ASSUME job.listed, b
                 PROVE  /\ job'.row.sha \in {0, job.run}
                        /\ job'.row.sha = 0 =>
                             \A n \in 1..MaxSuffix : remote[job.h][n] # job.run
    BY <1>1, <1>2 DEF CreditIsOwn
  <2>2. \A n \in 1..MaxSuffix :
          /\ job.before[n] \in Int /\ job.before[n] < job.run
          /\ remote[job.h][n] \in {job.before[n], job.run}
    BY <1>1, <2>1 DEF Owned, RemoteRight
  <2>3. SeenRefs(b) = remote[job.h]
    BY <2>1 DEF SeenRefs
  <2>4. job.run \in Int /\ job.run # 0
    BY <1>1, HarnessAssumption DEF IInv, MeterRuns
  <2>5. NewBranches(remote[job.h], job.before)
          = {n \in 1..MaxSuffix : remote[job.h][n] = job.run}
    BY <2>2, <2>4 DEF NewBranches
  <2>6. \/ /\ NewBranches(remote[job.h], job.before) = {} /\ job'.row.sha = 0
        \/ \E n \in NewBranches(remote[job.h], job.before) :
             job'.row.sha = remote[job.h][n]
    BY <1>2, <2>3, ChosenIsNew
  <2>7. QED
    BY <2>4, <2>5, <2>6
<1>5. QED
  BY <1>3, <1>4 DEF Owned

\* The other steps leave the branches and the credit of a run in the ledger alone.
LEMMA OtherOwned ==
  ASSUME IInv, Owned, NEW w \in Writes,
         \/ UNCHANGED suiteVars \/ (\E p \in Picks : StartSuite(p)) \/ LeaveSuite
         \/ RecordLedger(w) \/ WriteReport(w) \/ Repair
         \/ \E p \in ReplyPrices \cup {0} : ProgramDies(p)
  PROVE  Owned'
<1>1. /\ remote' = remote /\ runs' = runs
      /\ \/ phase' = phase /\ job' = job
         \/ phase = "ledger" /\ phase' = "report" /\ job' = job
         \/ phase' \notin {"run", "ledger", "report"} /\ job'.listed \in BOOLEAN
  <2>1. CASE UNCHANGED suiteVars
    BY <2>1 DEF suiteVars, suiteBounds
  <2>2. CASE \E p \in Picks : StartSuite(p)
    BY <2>2 DEF StartSuite, suiteBounds, Owned, RemoteRight
  <2>3. CASE LeaveSuite
    BY <2>3 DEF LeaveSuite, Ends, NoJob, suiteBounds
  <2>4. CASE RecordLedger(w)
    BY <2>4 DEF RecordLedger
  <2>5. CASE WriteReport(w)
    BY <2>5 DEF WriteReport, NoJob
  <2>6. CASE Repair
    <3> PICK v \in Writes : \/ Recover("toroid", v) \/ Recover("claude", v)
                            \/ Recover("pi", v) \/ RecoverLedger(v) \/ Recheck(v)
      BY <2>6 DEF Repair
    <3>1. ASSUME NEW h, Recover(h, v)
          PROVE  remote' = remote /\ runs' = runs /\ phase' = "recovered" /\ job'.listed
      BY <3>1 DEF Recover, NoJob
    <3>2. CASE RecoverLedger(v)
      BY <3>2 DEF RecoverLedger, Ends, NoJob
    <3>3. CASE Recheck(v)
      BY <3>3 DEF Recheck
    <3>4. QED
      BY <3>1, <3>2, <3>3
  <2>7. CASE \E p \in ReplyPrices \cup {0} : ProgramDies(p)
    BY <2>7 DEF ProgramDies, Ends, NoJob
  <2>8. QED
    BY <2>1, <2>2, <2>3, <2>4, <2>5, <2>6, <2>7
<1>2. RemoteRight'
  BY <1>1 DEF Owned, RemoteRight
<1>3. CreditIsOwn'
  BY <1>1 DEF Owned, CreditIsOwn
<1>4. QED
  BY <1>2, <1>3 DEF Owned

\* Every step keeps to whom the branches belong.
LEMMA StepKeepsOwned == IInv /\ Owned /\ [SuiteNext]_suiteVars => Owned'
<1> SUFFICES ASSUME IInv, Owned, [SuiteNext]_suiteVars PROVE Owned'
  OBVIOUS
<1>1. CASE \E b \in BOOLEAN : Launch(b) \/ LaunchFails(b) \/ Collect(b)
  BY <1>1, LaunchOwned, CollectOwned
<1>2. "whole" \in Writes
  BY DEF Writes
<1>3. CASE \E w \in Writes : RecordLedger(w) \/ WriteReport(w)
  BY <1>3, OtherOwned
<1>4. CASE \/ UNCHANGED suiteVars \/ (\E p \in Picks : StartSuite(p)) \/ LeaveSuite
           \/ Repair \/ \E p \in ReplyPrices \cup {0} : ProgramDies(p)
  BY <1>2, <1>4, OtherOwned
<1>5. QED
  BY <1>1, <1>3, <1>4, AgentOwned DEF SuiteNext

\* The credit (main.go's choice of the pushed branch): if the branches could be listed
\* before and after it, a run is credited with a commit exactly if it pushed one, and
\* with its own, however many branches earlier runs have left and whatever suffixes
\* the agents chose.
THEOREM CreditGoesToItsRun == SuiteSpec => []CreditIsOwn
<1>1. Owned => CreditIsOwn
  BY DEF Owned
<1>2. QED
  BY SuiteInvariant, InitOwned, StepKeepsOwned, <1>1, PTL DEF SuiteSpec
=============================================================================
