---------------------------- MODULE StreamProofs -----------------------------
(***************************************************************************)
(* Proofs about what arrives piece by piece: the fragments of an answer on *)
(* the wire, its chunks on the screen, and the rows of a trace on a page,  *)
(* those a deletion leaves among them.                                     *)
(***************************************************************************)
EXTENDS Wire, Tui, Sessions, DataLemmas

-----------------------------------------------------------------------------
(* The request.                                                             *)

LineType == SUBSET (Parts \cup {"error"})

Delta == Nat \X {"text", "reasoning"}

Outcome == [reason : {"none", "finish", "aborted", "error", "other"},
            err : {"none", "failed", "cancelled", "expired"}]

Typed ==
  /\ wire \in {"openai", "anthropic"} /\ mode \in {"stream", "complete"}
  /\ answer \in Seq(LineType) /\ read \in 0..Len(answer)
  /\ ctx \in {"live", "cancelled", "expired"} /\ posts \in Nat
  /\ call \in {"post", "backoff", "reading", "refused", "unavailable"}
  /\ reader \in {"none", "scan", "send", "end", "done"} /\ aborted \in BOOLEAN
  /\ toSend \in Seq(Delta) /\ content \in [Parts -> Seq(Nat)]
  /\ readErr \in {"none", "failed", "cancelled", "expired"}
  /\ forwarder \in {"none", "receive", "forward", "done"}
  /\ held \in Delta \cup {NoDelta} /\ received \in Seq(Delta) /\ left \in BOOLEAN
  /\ result \in Outcome

\* Which goroutines there are, and what each of them has in hand.
Places ==
  /\ call # "reading" <=> reader = "none"
  /\ call # "reading" \/ mode = "complete" => forwarder = "none"
  /\ mode = "complete" => reader \in {"none", "scan", "done"}
  /\ reader = "send" <=> toSend # <<>>
  /\ forwarder = "forward" <=> held # NoDelta
  /\ forwarder = "none" => received = <<>>
  /\ forwarder = "done" => reader = "done"
  /\ reader # "done" => result = NoResult
  /\ reader = "none" => read = 0
  /\ forwarder \in {"receive", "forward"} => result = NoResult
  /\ aborted => ctx # "live"

\* The POSTs that may still be made.
Retries ==
  /\ call \in {"post", "backoff"} => posts <= MaxRetries
  /\ GivesUpRightly

\* Fragments, of any answer.
Frags(text, p, n) ==
  FlattenSeq([i \in 1..n |-> IF p \in text[i] THEN <<i>> ELSE <<>>])

\* A reader of a stream has put together what it has read, and one of a whole body all
\* of it or nothing.
Accumulated ==
  /\ mode = "stream" => \A p \in Parts : content[p] = Frags(answer, p, read)
  /\ mode = "complete" => \/ \A p \in Parts : content[p] = Frags(answer, p, 0)
                          \/ \A p \in Parts : content[p] = Frags(answer, p, Len(answer))
  /\ mode = "complete" /\ reader # "done" =>
       \A p \in Parts : content[p] = Frags(answer, p, 0)
  /\ result.reason = "finish" /\ result.err = "none" =>
       \A p \in Parts : content[p] = Frags(answer, p, Len(answer))

\* One delta comes before another: of an earlier line, or the text of the same.
Before(c, d) ==
  \/ c[1] < d[1]
  \/ c[1] = d[1] /\ c[2] # d[2] /\ c[2] = "text"

Ordered(s) == \A i, j \in 1..Len(s) : i < j => Before(s[i], s[j])

Known(parts, n, d) == d[1] <= n /\ Contains(parts[d[2]], d[1])

\* What is on its way: received, held, and still to be sent, in this order.
InLine ==
  /\ Ordered(received) /\ Ordered(toSend)
  /\ \A i \in 1..Len(received) : Known(content, read, received[i])
  /\ \A i \in 1..Len(toSend) : Known(content, read, toSend[i]) /\ toSend[i][1] = read
  /\ \A i \in 1..Len(received), j \in 1..Len(toSend) : Before(received[i], toSend[j])
  /\ held # NoDelta =>
       /\ Known(content, read, held)
       /\ \A i \in 1..Len(received) : Before(received[i], held)
       /\ \A i \in 1..Len(toSend) : Before(held, toSend[i])

\* AllDeltas, of any answer.
DeltasOf(text, n) == FlattenSeq([i \in 1..n |-> Deltas(text[i], i)])

Hand(d) == IF d = NoDelta THEN <<>> ELSE <<d>>

\* Nothing is dropped as long as the context lives.
NothingDropped ==
  /\ Live => (received \o Hand(held)) \o toSend = DeltasOf(answer, read)
  /\ forwarder = "done" /\ result.err = "none" => received = DeltasOf(answer, read)

WInv == Typed /\ Places /\ Retries /\ Accumulated /\ InLine /\ NothingDropped

-----------------------------------------------------------------------------
(* What a line adds.                                                        *)

\* The fragments of a part, line by line.
LEMMA FragsGrow ==
  ASSUME NEW text \in Seq(LineType), NEW p
  PROVE  /\ Frags(text, p, 0) = <<>>
         /\ \A n \in 0..Len(text) : Frags(text, p, n) \in Seq(Nat)
         /\ \A n \in 0..Len(text) : n < Len(text) =>
              Frags(text, p, n + 1) = IF p \in text[n + 1]
                                         THEN Append(Frags(text, p, n), n + 1)
                                         ELSE Frags(text, p, n)
<1> DEFINE piece(i) == IF p \in text[i] THEN <<i>> ELSE <<>>
<1>1. \A i \in Nat : piece(i) \in Seq(Nat)
  OBVIOUS
<1>2. \A n : Frags(text, p, n) = FlattenSeq([i \in 1..n |-> piece(i)])
  BY DEF Frags
<1> HIDE DEF piece
<1>3. Frags(text, p, 0) = <<>>
  <2>1. [i \in 1..0 |-> piece(i)] = <<>>
    OBVIOUS
  <2>2. QED
    BY <1>2, <2>1, FlattenNone
<1>4. ASSUME NEW n \in 0..Len(text) PROVE Frags(text, p, n) \in Seq(Nat)
  <2>1. n \in Nat /\ [i \in 1..n |-> piece(i)] \in Seq(Seq(Nat))
    BY <1>1
  <2>2. QED
    BY <1>2, <2>1, FlattenType
<1>5. ASSUME NEW n \in 0..Len(text), n < Len(text)
      PROVE  Frags(text, p, n + 1) = IF p \in text[n + 1]
                                        THEN Append(Frags(text, p, n), n + 1)
                                        ELSE Frags(text, p, n)
  <2> DEFINE f == [i \in 1..(n + 1) |-> piece(i)]
  <2>1. n \in Nat /\ n + 1 \in 1..(n + 1) /\ n + 1 \in Nat
    OBVIOUS
  <2>2. \A i \in 1..(n + 1) : f[i] = piece(i) /\ f[i] \in Seq(Nat)
    BY <1>1, <2>1
  <2>3. [i \in 1..n |-> piece(i)] = [i \in 1..n |-> f[i]]
        /\ [i \in 1..(n + 1) |-> piece(i)] = [i \in 1..(n + 1) |-> f[i]]
    BY <2>1, <2>2
  <2> HIDE DEF f
  <2>4. PICK s \in Seq(Seq(Nat)) : s = [i \in 1..n |-> f[i]]
    BY <2>1, <2>2, OnePlaceMore
  <2>5. [i \in 1..(n + 1) |-> f[i]] = Append(s, f[n + 1])
    BY <2>1, <2>2, <2>4, OnePlaceMore
  <2>6. PICK last \in Seq(Nat) : last = piece(n + 1)
    BY <1>1, <2>1
  <2>7. Frags(text, p, n + 1) = FlattenSeq(s) \o last
    <3>1. f[n + 1] = last
      BY <2>1, <2>2, <2>6
    <3>2. Frags(text, p, n + 1) = FlattenSeq(Append(s, last))
      BY <1>2, <2>3, <2>5, <3>1
    <3>3. QED
      BY <3>2, FlattenAppend
  <2>8. Frags(text, p, n) = FlattenSeq(s) /\ FlattenSeq(s) \in Seq(Nat)
    BY <1>2, <2>3, <2>4, FlattenType
  <2>9. last = IF p \in text[n + 1] THEN <<n + 1>> ELSE <<>>
    BY <2>6 DEF piece
  <2>10. PICK sofar \in Seq(Nat) : sofar = FlattenSeq(s)
    BY <2>8
  <2>11. sofar \o <<n + 1>> = Append(sofar, n + 1) /\ sofar \o <<>> = sofar
    BY <2>1
  <2>12. QED
    BY <2>7, <2>8, <2>9, <2>10, <2>11
<1>6. QED
  BY <1>3, <1>4, <1>5

\* The deltas of one line.
LEMMA DeltasAre ==
  ASSUME NEW line, NEW n \in Nat
  PROVE  /\ Deltas(line, n) \in Seq(Delta) /\ Ordered(Deltas(line, n))
         /\ \A i \in 1..Len(Deltas(line, n)) :
              /\ Deltas(line, n)[i][1] = n
              /\ Deltas(line, n)[i][2] \in line \cap {"text", "reasoning"}
<1> DEFINE t == <<n, "text">>
           r == <<n, "reasoning">>
<1>1. t \in Delta /\ r \in Delta
  BY DEF Delta
<1>2. t[1] = n /\ t[2] = "text" /\ r[1] = n /\ r[2] = "reasoning"
  OBVIOUS
<1>3. Deltas(line, n) = (IF "text" \in line THEN <<t>> ELSE <<>>)
                          \o (IF "reasoning" \in line THEN <<r>> ELSE <<>>)
  BY DEF Deltas
<1>4. Before(t, r)
  BY <1>2 DEF Before
<1> HIDE DEF t, r
<1>5. CASE "text" \in line /\ "reasoning" \in line
  <2>1. Deltas(line, n) = <<t, r>>
    <3>1. PICK s : s = <<t>> \o <<r>>
      OBVIOUS
    <3>2. s \in Seq(Delta) /\ Len(s) = 2 /\ s[1] = t /\ s[2] = r
      BY <1>1, <3>1
    <3>3. <<t, r>> \in Seq(Delta) /\ Len(<<t, r>>) = 2
          /\ <<t, r>>[1] = t /\ <<t, r>>[2] = r
      BY <1>1
    <3>4. \A i \in 1..2 : s[i] = <<t, r>>[i]
      BY <3>2, <3>3
    <3>5. s = <<t, r>>
      BY <3>2, <3>3, <3>4, SeqEqual
    <3>6. QED
      BY <1>3, <1>5, <3>1, <3>5
  <2>2. <<t, r>> \in Seq(Delta) /\ Len(<<t, r>>) = 2 /\ <<t, r>>[1] = t /\ <<t, r>>[2] = r
    BY <1>1
  <2>3. QED
    BY <1>2, <1>4, <1>5, <2>1, <2>2 DEF Ordered
<1>6. CASE "text" \in line /\ "reasoning" \notin line
  <2>1. Deltas(line, n) = <<t>>
    BY <1>3, <1>6
  <2>2. <<t>> \in Seq(Delta) /\ Len(<<t>>) = 1 /\ <<t>>[1] = t
    BY <1>1
  <2>3. QED
    BY <1>2, <1>6, <2>1, <2>2 DEF Ordered
<1>7. CASE "text" \notin line /\ "reasoning" \in line
  <2>1. Deltas(line, n) = <<r>>
    BY <1>3, <1>7
  <2>2. <<r>> \in Seq(Delta) /\ Len(<<r>>) = 1 /\ <<r>>[1] = r
    BY <1>1
  <2>3. QED
    BY <1>2, <1>7, <2>1, <2>2 DEF Ordered
<1>8. CASE "text" \notin line /\ "reasoning" \notin line
  <2>1. Deltas(line, n) = <<>>
    BY <1>3, <1>8
  <2>2. QED
    BY <2>1 DEF Ordered
<1>9. QED
  BY <1>5, <1>6, <1>7, <1>8

\* All deltas, line by line.
LEMMA DeltasGrow ==
  ASSUME NEW text
  PROVE  /\ DeltasOf(text, 0) = <<>>
         /\ \A n \in Nat : DeltasOf(text, n) \in Seq(Delta)
         /\ \A n \in Nat :
              DeltasOf(text, n + 1) = DeltasOf(text, n) \o Deltas(text[n + 1], n + 1)
<1> DEFINE piece(i) == Deltas(text[i], i)
<1>1. \A i \in Nat : piece(i) \in Seq(Delta)
  BY DeltasAre
<1>2. \A n : DeltasOf(text, n) = FlattenSeq([i \in 1..n |-> piece(i)])
  BY DEF DeltasOf
<1>3. \A i : piece(i) = Deltas(text[i], i)
  OBVIOUS
<1> HIDE DEF piece
<1>4. DeltasOf(text, 0) = <<>>
  <2>1. [i \in 1..0 |-> piece(i)] = <<>>
    OBVIOUS
  <2>2. QED
    BY <1>2, <2>1, FlattenNone
<1>5. ASSUME NEW n \in Nat PROVE DeltasOf(text, n) \in Seq(Delta)
  <2>1. [i \in 1..n |-> piece(i)] \in Seq(Seq(Delta))
    BY <1>1
  <2>2. QED
    BY <1>2, <2>1, FlattenType
<1>6. ASSUME NEW n \in Nat
      PROVE  DeltasOf(text, n + 1) = DeltasOf(text, n) \o Deltas(text[n + 1], n + 1)
  <2> DEFINE f == [i \in 1..(n + 1) |-> piece(i)]
  <2>1. n + 1 \in 1..(n + 1) /\ n + 1 \in Nat
    OBVIOUS
  <2>2. \A i \in 1..(n + 1) : f[i] = piece(i) /\ f[i] \in Seq(Delta)
    BY <1>1, <2>1
  <2>3. [i \in 1..n |-> piece(i)] = [i \in 1..n |-> f[i]]
        /\ [i \in 1..(n + 1) |-> piece(i)] = [i \in 1..(n + 1) |-> f[i]]
    BY <2>1, <2>2
  <2> HIDE DEF f
  <2>4. PICK s \in Seq(Seq(Delta)) : s = [i \in 1..n |-> f[i]]
    BY <2>1, <2>2, OnePlaceMore
  <2>5. [i \in 1..(n + 1) |-> f[i]] = Append(s, f[n + 1])
    BY <2>1, <2>2, <2>4, OnePlaceMore
  <2>6. PICK last \in Seq(Delta) : last = piece(n + 1)
    BY <1>1, <2>1
  <2>7. DeltasOf(text, n + 1) = FlattenSeq(s) \o last
    <3>1. f[n + 1] = last
      BY <2>1, <2>2, <2>6
    <3>2. DeltasOf(text, n + 1) = FlattenSeq(Append(s, last))
      BY <1>2, <2>3, <2>5, <3>1
    <3>3. QED
      BY <3>2, FlattenAppend
  <2>8. DeltasOf(text, n) = FlattenSeq(s)
    BY <1>2, <2>3, <2>4
  <2>9. QED
    BY <1>3, <2>6, <2>7, <2>8
<1>7. QED
  BY <1>4, <1>5, <1>6

-----------------------------------------------------------------------------
(* The steps.                                                               *)

\* The answer of the provider is a sequence of text, and nobody has begun.
LEMMA WireBegins == WireInit => WInv
<1> SUFFICES ASSUME WireInit PROVE WInv
  OBVIOUS
<1>1. answer \in Seq(LineType)
  <2>1. PICK n \in 1..MaxLines :
          answer \in [1..n -> IF wire = "openai" THEN Lines ELSE EventLines]
    BY DEF WireInit
  <2>2. n \in Nat
    BY <2>1, WireAssumption
  <2>3. Lines \subseteq LineType /\ EventLines \subseteq LineType
    BY WireAssumption DEF LineType, EventLines
  <2>4. answer \in [1..n -> LineType]
    BY <2>1, <2>3
  <2>5. QED
    BY <2>2, <2>4
<1>2. \A p : Frags(answer, p, 0) = <<>>
  BY <1>1, FragsGrow
<1>3. DeltasOf(answer, 0) = <<>>
  BY DeltasGrow
<1>4. Typed
  <2>1. read = 0 /\ 0 \in 0..Len(answer)
    BY <1>1 DEF WireInit
  <2>2. <<>> \in Seq(Nat) /\ <<>> \in Seq(Delta)
    OBVIOUS
  <2>3. QED
    BY <1>1, <2>1, <2>2 DEF WireInit, Typed, NoResult, Outcome
<1>5. Places /\ Retries
  BY WireAssumption DEF WireInit, Places, Retries, GivesUpRightly
<1>6. Accumulated
  BY <1>2 DEF WireInit, Accumulated, NoResult
<1>7. InLine
  BY DEF WireInit, InLine, Ordered
<1>8. NothingDropped
  <2>1. <<>> \o <<>> = <<>>
    OBVIOUS
  <2>2. QED
    BY <1>3, <2>1 DEF WireInit, NothingDropped, Hand
<1>9. QED
  BY <1>4, <1>5, <1>6, <1>7, <1>8 DEF WInv

\* A line that is taken apart.
LEMMA LineTaken ==
  ASSUME Typed, Places, ReadLine, Live /\ ~aborted
  PROVE  /\ read' = read + 1 /\ read + 1 \in 1..Len(answer) /\ UNCHANGED aborted
         /\ content' = AddTo(content, answer[read + 1], read + 1)
         /\ content' \in [Parts -> Seq(Nat)]
         /\ toSend' = Deltas(answer[read + 1], read + 1) /\ toSend' \in Seq(Delta)
         /\ reader' = IF toSend' = <<>> THEN "scan" ELSE "send"
         /\ readErr' \in {readErr, "failed"}
<1>1. /\ read < Len(answer) /\ read' = read + 1 /\ UNCHANGED aborted
      /\ content' = AddTo(content, answer[read + 1], read + 1)
      /\ toSend' = Deltas(answer[read + 1], read + 1)
      /\ reader' = IF toSend' = <<>> THEN "scan" ELSE "send"
      /\ readErr' \in {readErr, "failed"}
  BY DEF ReadLine
<1>2. read + 1 \in 1..Len(answer) /\ read + 1 \in Nat
  BY <1>1 DEF Typed
<1>3. content' \in [Parts -> Seq(Nat)]
  BY <1>1, <1>2 DEF Typed, AddTo
<1>4. toSend' \in Seq(Delta)
  BY <1>1, <1>2, DeltasAre
<1>5. QED
  BY <1>1, <1>2, <1>3, <1>4

\* The first delta to be sent goes.
LEMMA FirstGoes ==
  ASSUME Typed, Places, reader = "send", AfterSend
  PROVE  /\ toSend' \in Seq(Delta) /\ Head(toSend) \in Delta /\ Len(toSend') = Len(toSend) - 1
         /\ Len(toSend) \in Nat \ {0} /\ Head(toSend) = toSend[1]
         /\ \A i \in 1..Len(toSend') : i + 1 \in 1..Len(toSend) /\ toSend'[i] = toSend[i + 1]
         /\ reader' \in {"send", "end", "scan"} /\ (reader' = "send" <=> toSend' # <<>>)
         /\ toSend = <<Head(toSend)>> \o toSend'
<1>1. toSend \in Seq(Delta) /\ toSend # <<>> /\ toSend' = Tail(toSend)
  BY DEF Typed, Places, AfterSend
<1>2. reader' \in {"send", "end", "scan"} /\ (reader' = "send" <=> toSend' # <<>>)
  BY DEF AfterSend
<1>3. PICK s \in Seq(Delta) : s = toSend /\ s # <<>>
  BY <1>1
<1>4. /\ Tail(s) \in Seq(Delta) /\ Head(s) \in Delta /\ Len(Tail(s)) = Len(s) - 1
      /\ Len(s) \in Nat \ {0} /\ Head(s) = s[1]
      /\ \A i \in 1..Len(Tail(s)) : i + 1 \in 1..Len(s) /\ Tail(s)[i] = s[i + 1]
  BY <1>3
<1>5. s = <<Head(s)>> \o Tail(s)
  BY <1>3
<1>6. QED
  BY <1>1, <1>2, <1>3, <1>4, <1>5

\* The types and the places are kept.
LEMMA TypedStep ==
  Typed /\ Places /\ [WireNext]_wireVars => Typed' /\ Places'
<1> SUFFICES ASSUME Typed, Places, [WireNext]_wireVars PROVE Typed' /\ Places'
  OBVIOUS
<1>1. CASE UNCHANGED wireVars
  BY <1>1 DEF Typed, Places, wireVars, request, reading, forwarding
<1>2. CASE Posting
  <2>1. CASE Answered \/ Refused
    BY <2>1 DEF Answered, Refused, Live, Typed, Places, request, reading, forwarding
  <2>2. CASE Unavailable \/ BackoffOver \/ BackoffCancelled
    BY <2>2 DEF Unavailable, BackoffOver, BackoffCancelled, Live, Typed, Places, request,
                reading, forwarding
  <2>3. QED
    BY <1>2, <2>1, <2>2 DEF Posting
<1>3. CASE Complete
  <2>1. /\ mode = "complete" /\ reader = "scan" /\ reader' = "done"
        /\ UNCHANGED <<request, ctx, call, posts, read, toSend, aborted, readErr,
                       forwarder, held, received, left>>
        /\ \/ /\ content' = [p \in Parts |-> Fragments(p, Len(answer))]
              /\ result' = [reason |-> "finish", err |-> "none"]
           \/ /\ result' = [reason |-> "none", err |-> IF Live THEN "failed" ELSE ctx]
              /\ UNCHANGED content
    BY <1>3 DEF Complete
  <2>2. content' \in [Parts -> Seq(Nat)]
    <3>1. \A p : Fragments(p, Len(answer)) = Frags(answer, p, Len(answer))
      BY DEF Fragments, Frags
    <3>2. \A p : Frags(answer, p, Len(answer)) \in Seq(Nat)
      <4>1. answer \in Seq(LineType) /\ Len(answer) \in 0..Len(answer)
        BY DEF Typed
      <4>2. QED
        BY <4>1, FragsGrow
    <3>3. QED
      BY <2>1, <3>1, <3>2 DEF Typed
  <2>3. result' \in Outcome
    BY <2>1 DEF Outcome, Live, Typed
  <2>4. QED
    BY <2>1, <2>2, <2>3 DEF Typed, Places, request
<1>4. CASE ReadLine
  <2>1. /\ mode = "stream" /\ reader = "scan" /\ UNCHANGED <<request, ctx, call, posts, forwarding>>
        /\ ~(Live /\ ~aborted) => /\ aborted' = TRUE /\ reader' = "end" /\ ctx # "live"
                                  /\ UNCHANGED <<read, content, toSend, readErr>>
    BY <1>4 DEF ReadLine, Live, Places
  <2>2. CASE Live /\ ~aborted
    <3>1. /\ read' = read + 1 /\ read + 1 \in 1..Len(answer) /\ UNCHANGED aborted
          /\ content' \in [Parts -> Seq(Nat)] /\ toSend' \in Seq(Delta)
          /\ reader' = IF toSend' = <<>> THEN "scan" ELSE "send"
          /\ readErr' \in {readErr, "failed"}
      BY <1>4, <2>2, LineTaken
    <3>2. QED
      BY <2>1, <3>1 DEF Typed, Places, request, forwarding
  <2>3. CASE ~(Live /\ ~aborted)
    BY <2>1, <2>3 DEF Typed, Places, request, forwarding
  <2>4. QED
    BY <2>2, <2>3
<1>5. CASE Send
  <2>1. /\ toSend' \in Seq(Delta) /\ Head(toSend) \in Delta
        /\ reader' \in {"send", "end", "scan"} /\ (reader' = "send" <=> toSend' # <<>>)
    BY <1>5, FirstGoes DEF Send
  <2>2. /\ reader = "send" /\ forwarder = "receive" /\ held' = Head(toSend)
        /\ forwarder' = "forward" /\ aborted' = aborted
        /\ UNCHANGED <<request, ctx, call, posts, read, content, readErr, received,
                       left, result>>
    BY <1>5 DEF Send
  <2>3. Head(toSend) # NoDelta
    BY <2>1 DEF Delta, NoDelta
  <2>4. QED
    BY <2>1, <2>2, <2>3 DEF Typed, Places, request
<1>6. CASE SendAborted
  <2>1. /\ toSend' \in Seq(Delta)
        /\ reader' \in {"send", "end", "scan"} /\ (reader' = "send" <=> toSend' # <<>>)
    BY <1>6, FirstGoes DEF SendAborted
  <2>2. reader = "send" /\ aborted' = TRUE /\ ctx # "live"
        /\ UNCHANGED <<request, ctx, call, posts, read, content, readErr, forwarding>>
    BY <1>6 DEF SendAborted, Live
  <2>3. QED
    BY <2>1, <2>2 DEF Typed, Places, request, forwarding
<1>7. CASE BodyEnds \/ BodyFails \/ Close
  BY <1>7 DEF BodyEnds, BodyFails, Close, Live, Typed, Places, request, forwarding
<1>8. CASE Forwarding
  <2>1. CASE Forward
    <3>1. /\ forwarder = "forward" /\ forwarder' = "receive"
          /\ received' = Append(received, held) /\ held' = NoDelta
          /\ UNCHANGED <<request, ctx, call, posts, reading, left, result>>
      BY <2>1 DEF Forward
    <3>2. held \in Delta /\ received \in Seq(Delta)
      BY <3>1 DEF Typed, Places
    <3>3. received' \in Seq(Delta)
      BY <3>1, <3>2
    <3>4. QED
      BY <3>1, <3>3 DEF Typed, Places, request, reading
  <2>2. CASE Drop
    BY <2>2 DEF Drop, Live, Typed, Places, request, reading
  <2>3. CASE Final
    <3>1. [reason |-> Reason, err |-> Err] \in Outcome
      BY DEF Typed, Reason, Err, Outcome, Live
    <3>2. QED
      BY <2>3, <3>1 DEF Final, Typed, Places, request, reading
  <2>4. QED
    BY <1>8, <2>1, <2>2, <2>3 DEF Forwarding
<1>9. CASE Cancel \/ LeaveStream
  <2>1. CASE Cancel
    BY <2>1 DEF Cancel, Typed, Places, request, reading, forwarding
  <2>2. CASE LeaveStream
    BY <2>2 DEF LeaveStream, Typed, Places, request, reading
  <2>3. QED
    BY <1>9, <2>1, <2>2
<1>10. QED
  BY <1>1, <1>2, <1>3, <1>4, <1>5, <1>6, <1>7, <1>8, <1>9 DEF WireNext, Reading

\* The retries are counted.
LEMMA RetriesStep ==
  Typed /\ Retries /\ [WireNext]_wireVars => Retries'
<1> SUFFICES ASSUME Typed, Retries, [WireNext]_wireVars PROVE Retries'
  OBVIOUS
<1> USE WireAssumption DEF Retries, GivesUpRightly, Live
<1>1. CASE UNCHANGED wireVars
  BY <1>1 DEF wireVars
<1>2. CASE Posting
  BY <1>2 DEF Posting, Answered, Refused, Unavailable, MayRetry, BackoffOver,
              BackoffCancelled, Typed
<1>3. CASE Reading
  <2>1. UNCHANGED <<ctx, call, posts>>
    BY <1>3 DEF Reading, Complete, ReadLine, Send, SendAborted, BodyEnds, BodyFails, Close
  <2>2. QED
    BY <2>1
<1>4. CASE Forwarding
  <2>1. UNCHANGED <<ctx, call, posts>>
    BY <1>4 DEF Forwarding, Forward, Drop, Final
  <2>2. QED
    BY <2>1
<1>5. CASE Cancel \/ LeaveStream
  BY <1>5 DEF Cancel, LeaveStream
<1> HIDE DEF Retries, GivesUpRightly, Live
<1>6. QED
  BY <1>1, <1>2, <1>3, <1>4, <1>5 DEF WireNext

\* What was put together stays a beginning of the answer, a line at a time.
LEMMA AccumulatedStep ==
  Typed /\ Places /\ Accumulated /\ [WireNext]_wireVars => Accumulated'
<1> SUFFICES ASSUME Typed, Places, Accumulated, [WireNext]_wireVars PROVE Accumulated'
  OBVIOUS
<1>1. answer' = answer /\ mode' = mode
  BY DEF WireNext, Posting, Answered, Refused, Unavailable, BackoffOver, BackoffCancelled,
         Reading, Complete, ReadLine, Send, SendAborted, BodyEnds, BodyFails, Close,
         Forwarding, Forward, Drop, Final, Cancel, LeaveStream, wireVars, request
<1>2. ASSUME UNCHANGED <<content, read, result>>, reader' = "done" \/ reader # "done"
      PROVE  Accumulated'
  BY <1>1, <1>2 DEF Accumulated
<1>3. ASSUME UNCHANGED <<content, read, result>>, mode = "stream" PROVE Accumulated'
  BY <1>1, <1>3 DEF Accumulated
<1>4. CASE UNCHANGED wireVars \/ Posting \/ Cancel \/ LeaveStream \/ Forward \/ Drop
  <2>1. UNCHANGED <<content, read, result>>
    BY <1>4 DEF wireVars, reading, forwarding, Posting, Answered, Refused, Unavailable,
                BackoffOver, BackoffCancelled, Cancel, LeaveStream, Forward, Drop
  <2>2. reader' = reader \/ reader # "done"
    <3>1. CASE Answered
      BY <3>1 DEF Answered, Places
    <3>2. CASE UNCHANGED reading
      BY <3>2 DEF reading
    <3>3. QED
      BY <1>4, <3>1, <3>2 DEF wireVars, Posting, Refused, Unavailable, BackoffOver,
                              BackoffCancelled, Cancel, LeaveStream, Forward, Drop
  <2>3. QED
    BY <1>2, <2>1, <2>2
<1>5. CASE Send \/ SendAborted \/ BodyEnds \/ BodyFails \/ Close
  <2>1. UNCHANGED <<content, read, result>>
    BY <1>5 DEF Send, SendAborted, BodyEnds, BodyFails, Close, forwarding
  <2>2. mode = "stream"
    BY <1>5 DEF Send, SendAborted, BodyEnds, BodyFails, Close, Places, Typed
  <2>3. QED
    BY <1>3, <2>1, <2>2
<1>6. CASE Complete
  <2>1. \A p : Fragments(p, Len(answer)) = Frags(answer, p, Len(answer))
    BY DEF Fragments, Frags
  <2>2. /\ mode = "complete" /\ reader = "scan" /\ reader' = "done"
        /\ \/ /\ content' = [p \in Parts |-> Fragments(p, Len(answer))]
              /\ result' = [reason |-> "finish", err |-> "none"]
           \/ /\ result' = [reason |-> "none", err |-> IF Live THEN "failed" ELSE ctx]
              /\ UNCHANGED content
    BY <1>6 DEF Complete
  <2>3. CASE content' = [p \in Parts |-> Fragments(p, Len(answer))]
    <3>1. \A p \in Parts : content'[p] = Frags(answer, p, Len(answer))
      BY <2>1, <2>3
    <3>2. QED
      BY <1>1, <2>2, <3>1 DEF Accumulated
  <2>4. CASE result' = [reason |-> "none", err |-> IF Live THEN "failed" ELSE ctx]
             /\ UNCHANGED content
    <3>1. result'.reason = "none"
      BY <2>4
    <3>2. QED
      BY <1>1, <2>2, <2>4, <3>1 DEF Accumulated
  <2>5. QED
    BY <2>2, <2>3, <2>4
<1>7. CASE ReadLine
  <2>1. mode = "stream" /\ reader = "scan" /\ result' = result
    BY <1>7 DEF ReadLine, forwarding
  <2>2. result = NoResult
    BY <2>1 DEF Places
  <2>3. CASE Live /\ ~aborted
    <3>1. /\ read' = read + 1 /\ read + 1 \in 1..Len(answer)
          /\ content' = AddTo(content, answer[read + 1], read + 1)
      BY <1>7, <2>3, LineTaken
    <3>2. PICK n \in 0..Len(answer) : n = read
      BY DEF Typed
    <3>3. n < Len(answer) /\ answer \in Seq(LineType)
      BY <3>1, <3>2 DEF Typed
    <3>4. ASSUME NEW p \in Parts PROVE content'[p] = Frags(answer, p, n + 1)
      <4>1. content[p] = Frags(answer, p, n)
        BY <2>1, <3>2 DEF Accumulated
      <4>2. Frags(answer, p, n + 1) = IF p \in answer[n + 1]
                                        THEN Append(Frags(answer, p, n), n + 1)
                                        ELSE Frags(answer, p, n)
        BY <3>3, FragsGrow
      <4>3. content'[p] = IF p \in answer[n + 1] THEN Append(content[p], n + 1)
                          ELSE content[p]
        BY <3>1, <3>2 DEF AddTo
      <4>4. QED
        BY <4>1, <4>2, <4>3
    <3>5. \A p \in Parts : content'[p] = Frags(answer, p, read')
      BY <3>1, <3>2, <3>4
    <3>6. QED
      BY <1>1, <2>1, <2>2, <3>5 DEF Accumulated, NoResult
  <2>4. CASE ~(Live /\ ~aborted)
    <3>1. UNCHANGED <<read, content>>
      BY <1>7, <2>4 DEF ReadLine
    <3>2. QED
      BY <1>3, <2>1, <3>1
  <2>5. QED
    BY <2>3, <2>4
<1>8. CASE Final
  <2>1. /\ UNCHANGED <<content, read, reader>> /\ forwarder = "receive"
        /\ result' = [reason |-> Reason, err |-> Err]
    BY <1>8 DEF Final, reading
  <2>2. mode = "stream"
    BY <2>1 DEF Places, Typed
  <2>3. result'.reason = Reason
    BY <2>1
  <2>4. Reason = "finish" => read = Len(answer)
    BY DEF Reason
  <2>5. QED
    BY <1>1, <2>1, <2>2, <2>3, <2>4 DEF Accumulated
<1>9. QED
  BY <1>4, <1>5, <1>6, <1>7, <1>8 DEF WireNext, Reading, Forwarding

\* A delta that was known stays known, for parts only grow.
LEMMA KnownStays ==
  ASSUME NEW parts \in [Parts -> Seq(Nat)], NEW more \in [Parts -> Seq(Nat)],
         NEW n \in Nat, NEW m \in Nat, n <= m,
         \A p \in Parts : more[p] = parts[p] \/ \E k \in Nat : more[p] = Append(parts[p], k),
         NEW d \in Delta, Known(parts, n, d)
  PROVE  Known(more, m, d)
<1>1. PICK p \in Parts, k \in Nat : d[2] = p /\ d[1] = k
  BY DEF Delta, Parts
<1>2. PICK i \in 1..Len(parts[p]) : parts[p][i] = k
  BY <1>1 DEF Known, Contains
<1>3. k <= n
  BY <1>1 DEF Known
<1>4. parts[p] \in Seq(Nat)
  OBVIOUS
<1>5. CASE more[p] = parts[p]
  BY <1>1, <1>2, <1>3, <1>5 DEF Known, Contains
<1>6. CASE more[p] # parts[p]
  <2>1. PICK x \in Nat : more[p] = Append(parts[p], x)
    BY <1>6
  <2>2. i \in 1..Len(more[p]) /\ more[p][i] = k
    BY <1>2, <1>4, <2>1
  <2>3. QED
    BY <1>1, <1>3, <2>2 DEF Known, Contains
<1>7. QED
  BY <1>5, <1>6

\* What was received, is held and will be sent stays in line.
LEMMA InLineStep ==
  Typed /\ Places /\ InLine /\ [WireNext]_wireVars => InLine'
<1> SUFFICES ASSUME Typed, Places, InLine, [WireNext]_wireVars PROVE InLine'
  OBVIOUS
<1>1. received \in Seq(Delta) /\ toSend \in Seq(Delta)
  BY DEF Typed
<1>2. ASSUME UNCHANGED <<received, toSend, held, read, content>> PROVE InLine'
  BY <1>2 DEF InLine
<1>3. CASE UNCHANGED wireVars \/ Posting \/ Cancel \/ LeaveStream \/ BodyEnds \/ BodyFails
             \/ Close \/ Final
  <2>1. UNCHANGED <<received, toSend, held, read, content>>
    BY <1>3 DEF wireVars, reading, forwarding, Posting, Answered, Refused, Unavailable,
                BackoffOver, BackoffCancelled, Cancel, LeaveStream, BodyEnds, BodyFails,
                Close, Final
  <2>2. QED
    BY <1>2, <2>1
<1>4. CASE Complete
  <2>1. /\ mode = "complete" /\ reader = "scan" /\ UNCHANGED <<received, toSend, held, read>>
    BY <1>4 DEF Complete
  <2>2. received = <<>> /\ toSend = <<>> /\ held = NoDelta
    BY <2>1 DEF Places
  <2>3. QED
    BY <2>1, <2>2 DEF InLine
<1>5. CASE ReadLine
  <2>1. CASE ~(Live /\ ~aborted)
    <3>1. UNCHANGED <<received, toSend, held, read, content>>
      BY <1>5, <2>1 DEF ReadLine, forwarding
    <3>2. QED
      BY <1>2, <3>1
  <2>2. CASE Live /\ ~aborted
    <3>1. /\ read' = read + 1 /\ read + 1 \in 1..Len(answer)
          /\ content' = AddTo(content, answer[read + 1], read + 1)
          /\ content' \in [Parts -> Seq(Nat)]
          /\ toSend' = Deltas(answer[read + 1], read + 1) /\ toSend' \in Seq(Delta)
      BY <1>5, <2>2, LineTaken
    <3>2. UNCHANGED <<received, held>>
      BY <1>5 DEF ReadLine, forwarding
    <3>3. PICK n \in Nat : n = read
      <4>1. read \in Nat
        BY DEF Typed
      <4>2. QED
        BY <4>1
    <3>4. PICK line : line = answer[n + 1]
      OBVIOUS
    <3>5. /\ Ordered(toSend')
          /\ \A i \in 1..Len(toSend') : /\ toSend'[i][1] = n + 1
                                        /\ toSend'[i][2] \in line \cap {"text", "reasoning"}
      BY <3>1, <3>3, <3>4, DeltasAre
    <3>6. \A p \in Parts : content'[p] = IF p \in line THEN Append(content[p], n + 1)
                                         ELSE content[p]
      BY <3>1, <3>3, <3>4 DEF AddTo
    <3>7. ASSUME NEW d \in Delta, Known(content, n, d)
          PROVE  Known(content', n + 1, d) /\ d[1] < n + 1
      <4>1. content \in [Parts -> Seq(Nat)] /\ n + 1 \in Nat /\ n <= n + 1
        BY DEF Typed
      <4>2. \A p \in Parts : content'[p] = content[p]
                               \/ \E k \in Nat : content'[p] = Append(content[p], k)
        BY <3>6, <4>1
      <4>3. PICK parts \in [Parts -> Seq(Nat)] : parts = content
        BY <4>1
      <4>4. PICK more \in [Parts -> Seq(Nat)] : more = content'
        BY <3>1
      <4>5. Known(more, n + 1, d)
        BY <3>7, <4>1, <4>2, <4>3, <4>4, KnownStays
      <4>6. d[1] < n + 1
        BY <3>7 DEF Known, Delta
      <4>7. QED
        BY <4>4, <4>5, <4>6
    <3>8. ASSUME NEW i \in 1..Len(toSend') PROVE Known(content', n + 1, toSend'[i])
      <4>1. PICK p \in Parts : p = toSend'[i][2] /\ p \in line
        BY <3>5 DEF Parts
      <4>2. content'[p] = Append(content[p], n + 1) /\ content[p] \in Seq(Nat)
        BY <3>6, <4>1 DEF Typed
      <4>3. Len(content'[p]) \in 1..Len(content'[p]) /\ content'[p][Len(content'[p])] = n + 1
        BY <4>2
      <4>4. QED
        BY <3>5, <4>1, <4>3 DEF Known, Contains
    <3>9. ASSUME NEW i \in 1..Len(received)
          PROVE  /\ Known(content', n + 1, received[i])
                 /\ \A j \in 1..Len(toSend') : Before(received[i], toSend'[j])
      <4>1. PICK d \in Delta : d = received[i] /\ Known(content, n, d)
        BY <1>1, <3>3, <3>4 DEF InLine
      <4>2. Known(content', n + 1, d) /\ d[1] < n + 1
        BY <3>7, <4>1
      <4>3. QED
        BY <3>5, <4>1, <4>2 DEF Before
    <3>10. ASSUME held # NoDelta
          PROVE  /\ Known(content', n + 1, held)
                 /\ \A j \in 1..Len(toSend') : Before(held, toSend'[j])
      <4>1. PICK d \in Delta : d = held /\ Known(content, n, d)
        BY <3>3, <3>4, <3>10 DEF InLine, Typed
      <4>2. Known(content', n + 1, d) /\ d[1] < n + 1
        BY <3>7, <4>1
      <4>3. QED
        BY <3>5, <4>1, <4>2 DEF Before
    <3>11. /\ Ordered(received)
           /\ held # NoDelta => \A i \in 1..Len(received) : Before(received[i], held)
      BY DEF InLine
    <3>12. QED
      BY <3>1, <3>2, <3>3, <3>4, <3>5, <3>8, <3>9, <3>10, <3>11 DEF InLine
  <2>3. QED
    BY <2>1, <2>2
<1>6. CASE Send \/ SendAborted
  <2>1. UNCHANGED <<received, read, content>>
    BY <1>6 DEF Send, SendAborted, forwarding
  <2>2. /\ toSend' \in Seq(Delta) /\ Head(toSend) = toSend[1]
        /\ Len(toSend) \in Nat \ {0} /\ Len(toSend') = Len(toSend) - 1
        /\ \A i \in 1..Len(toSend') : i + 1 \in 1..Len(toSend) /\ toSend'[i] = toSend[i + 1]
    BY <1>6, FirstGoes DEF Send, SendAborted
  <2>3. Ordered(toSend')
    BY <2>2 DEF InLine, Ordered
  <2>4. \A i \in 1..Len(toSend') :
          /\ Known(content, read, toSend'[i]) /\ toSend'[i][1] = read
          /\ \A j \in 1..Len(received) : Before(received[j], toSend'[i])
          /\ held # NoDelta => Before(held, toSend'[i])
    BY <2>2 DEF InLine
  <2>5. CASE Send
    <3>1. held' = toSend[1] /\ 1 \in 1..Len(toSend)
      BY <2>2, <2>5 DEF Send
    <3>2. Known(content, read, held') /\ \A i \in 1..Len(received) : Before(received[i], held')
      BY <3>1 DEF InLine
    <3>3. \A i \in 1..Len(toSend') : Before(held', toSend'[i])
      BY <2>2, <3>1 DEF InLine, Ordered
    <3>4. Ordered(received) /\ \A i \in 1..Len(received) : Known(content, read, received[i])
      BY DEF InLine
    <3>5. QED
      BY <2>1, <2>3, <2>4, <3>2, <3>3, <3>4 DEF InLine
  <2>6. CASE SendAborted
    <3>1. held' = held
      BY <2>6 DEF SendAborted, forwarding
    <3>2. Ordered(received) /\ (\A i \in 1..Len(received) : Known(content, read, received[i]))
          /\ held # NoDelta => /\ Known(content, read, held)
                               /\ \A i \in 1..Len(received) : Before(received[i], held)
      BY DEF InLine
    <3>3. QED
      BY <2>1, <2>3, <2>4, <3>1, <3>2 DEF InLine
  <2>7. QED
    BY <1>6, <2>5, <2>6
<1>7. CASE Forward
  <2>1. /\ received' = Append(received, held) /\ held' = NoDelta
        /\ UNCHANGED <<toSend, read, content>> /\ forwarder = "forward"
    BY <1>7 DEF Forward, reading
  <2>2. held # NoDelta
    BY <2>1 DEF Places
  <2>3. /\ Len(received') = Len(received) + 1 /\ Len(received) \in Nat
        /\ \A i \in 1..Len(received') :
             received'[i] = IF i = Len(received) + 1 THEN held ELSE received[i]
    BY <1>1, <2>1
  <2>4. \A i \in 1..Len(received') : i = Len(received) + 1 \/ i \in 1..Len(received)
    BY <2>3
  <2>5. Ordered(received')
    BY <2>2, <2>3, <2>4 DEF InLine, Ordered
  <2>6. \A i \in 1..Len(received') :
          /\ Known(content, read, received'[i])
          /\ \A j \in 1..Len(toSend) : Before(received'[i], toSend[j])
    BY <2>2, <2>3, <2>4 DEF InLine
  <2>7. Ordered(toSend)
        /\ \A i \in 1..Len(toSend) : Known(content, read, toSend[i]) /\ toSend[i][1] = read
    BY DEF InLine
  <2>8. QED
    BY <2>1, <2>5, <2>6, <2>7 DEF InLine
<1>8. CASE Drop
  <2>1. held' = NoDelta /\ UNCHANGED <<received, toSend, read, content>>
    BY <1>8 DEF Drop, reading
  <2>2. QED
    BY <2>1 DEF InLine
<1>9. QED
  BY <1>3, <1>4, <1>5, <1>6, <1>7, <1>8 DEF WireNext, Reading, Forwarding

\* Nothing is dropped as long as the context lives.
LEMMA DroppedStep ==
  Typed /\ Places /\ NothingDropped /\ [WireNext]_wireVars => NothingDropped'
<1> SUFFICES ASSUME Typed, Places, NothingDropped, [WireNext]_wireVars
             PROVE  NothingDropped'
  OBVIOUS
<1>1. answer' = answer /\ (Live' => Live)
  BY DEF WireNext, Posting, Answered, Refused, Unavailable, BackoffOver, BackoffCancelled,
         Reading, Complete, ReadLine, Send, SendAborted, BodyEnds, BodyFails, Close,
         Forwarding, Forward, Drop, Final, Cancel, LeaveStream, wireVars, request, Live
<1>2. received \in Seq(Delta) /\ toSend \in Seq(Delta) /\ held \in Delta \cup {NoDelta}
  BY DEF Typed
<1>3. ASSUME UNCHANGED <<received, held, toSend, read, result>>,
             forwarder' = "done" => forwarder = "done"
      PROVE  NothingDropped'
  BY <1>1, <1>3 DEF NothingDropped
<1>4. CASE UNCHANGED wireVars \/ Posting \/ Cancel \/ LeaveStream \/ BodyEnds \/ BodyFails
             \/ Close
  <2>1. UNCHANGED <<received, held, toSend, read, result>>
    BY <1>4 DEF wireVars, reading, forwarding, Posting, Answered, Refused, Unavailable,
                BackoffOver, BackoffCancelled, Cancel, LeaveStream, BodyEnds, BodyFails,
                Close
  <2>2. forwarder' = "done" => forwarder = "done"
    BY <1>4 DEF wireVars, reading, forwarding, Posting, Answered, Refused, Unavailable,
                BackoffOver, BackoffCancelled, Cancel, LeaveStream, BodyEnds, BodyFails,
                Close
  <2>3. QED
    BY <1>3, <2>1, <2>2
<1>5. CASE Complete
  <2>1. UNCHANGED <<received, held, toSend, read, forwarder>> /\ mode = "complete"
    BY <1>5 DEF Complete
  <2>2. forwarder = "none"
    BY <2>1 DEF Places
  <2>3. QED
    BY <1>1, <2>1, <2>2 DEF NothingDropped
<1>6. CASE ReadLine
  <2>1. CASE ~(Live /\ ~aborted)
    <3>1. UNCHANGED <<received, held, toSend, read, forwarder, result>>
      BY <1>6, <2>1 DEF ReadLine, forwarding
    <3>2. QED
      BY <1>3, <3>1
  <2>2. CASE Live /\ ~aborted
    <3>1. read' = read + 1 /\ toSend' = Deltas(answer[read + 1], read + 1)
          /\ toSend' \in Seq(Delta)
      BY <1>6, <2>2, LineTaken
    <3>2. UNCHANGED <<received, held, forwarder, result>> /\ reader = "scan"
      BY <1>6 DEF ReadLine, forwarding
    <3>3. toSend = <<>> /\ forwarder # "done"
      BY <3>2 DEF Places
    <3>4. PICK n \in Nat : n = read
      <4>1. read \in Nat
        BY DEF Typed
      <4>2. QED
        BY <4>1
    <3>5. PICK sent : sent = received \o Hand(held)
      OBVIOUS
    <3>6. /\ sent \in Seq(Delta)
          /\ sent = DeltasOf(answer, n)
      <4>1. sent \in Seq(Delta)
        BY <1>2, <3>5 DEF Hand
      <4>2. sent \o <<>> = DeltasOf(answer, n)
        BY <2>2, <3>3, <3>4, <3>5 DEF NothingDropped
      <4>3. sent \o <<>> = sent
        BY <4>1
      <4>4. QED
        BY <4>1, <4>2, <4>3
    <3>7. DeltasOf(answer, n + 1) = DeltasOf(answer, n) \o Deltas(answer[n + 1], n + 1)
      BY DeltasGrow
    <3>8. sent \o toSend' = DeltasOf(answer, read')
      BY <3>1, <3>4, <3>6, <3>7
    <3>9. QED
      BY <1>1, <3>2, <3>3, <3>5, <3>8 DEF NothingDropped
  <2>3. QED
    BY <2>1, <2>2
<1>7. CASE Send
  <2>1. /\ UNCHANGED <<received, read, result>> /\ held' = Head(toSend)
        /\ forwarder = "receive" /\ forwarder' = "forward" /\ reader = "send"
    BY <1>7 DEF Send
  <2>2. toSend = <<Head(toSend)>> \o toSend' /\ Head(toSend) \in Delta /\ toSend' \in Seq(Delta)
    BY <1>7, FirstGoes DEF Send
  <2>3. held = NoDelta
    BY <2>1 DEF Places
  <2>4. PICK r \in Seq(Delta), d \in Delta, rest \in Seq(Delta) :
          r = received /\ d = Head(toSend) /\ rest = toSend'
    BY <1>2, <2>2
  <2>5. d # NoDelta
    BY DEF Delta, NoDelta
  <2>6. (r \o <<>>) \o (<<d>> \o rest) = (r \o <<d>>) \o rest
    <3>1. r \o <<>> = r /\ <<d>> \in Seq(Delta)
      OBVIOUS
    <3>2. QED
      BY <3>1, ConcatAssociative
  <2>7. Live => (received \o Hand(held)) \o toSend = (received' \o Hand(held')) \o toSend'
    BY <2>1, <2>2, <2>3, <2>4, <2>5, <2>6 DEF Hand
  <2>8. QED
    BY <1>1, <2>1, <2>7 DEF NothingDropped
<1>8. CASE SendAborted \/ Drop
  <2>1. ~Live /\ UNCHANGED <<received, read, result>> /\ (forwarder' = "done" => forwarder = "done")
    BY <1>8 DEF SendAborted, Drop, reading, forwarding
  <2>2. QED
    BY <1>1, <2>1 DEF NothingDropped
<1>9. CASE Forward
  <2>1. /\ received' = Append(received, held) /\ held' = NoDelta
        /\ UNCHANGED <<toSend, read, result>> /\ forwarder = "forward"
        /\ forwarder' = "receive"
    BY <1>9 DEF Forward, reading
  <2>2. held # NoDelta /\ held \in Delta
    BY <1>2, <2>1 DEF Places
  <2>3. PICK r \in Seq(Delta), d \in Delta : r = received /\ d = held
    BY <1>2, <2>2
  <2>4. r \o <<d>> = Append(r, d) \o <<>>
    OBVIOUS
  <2>5. received \o Hand(held) = received' \o Hand(held')
    BY <2>1, <2>2, <2>3, <2>4 DEF Hand
  <2>6. QED
    BY <1>1, <2>1, <2>5 DEF NothingDropped
<1>10. CASE Final
  <2>1. /\ UNCHANGED <<received, held, toSend, read, ctx>> /\ forwarder = "receive"
        /\ reader = "done" /\ result' = [reason |-> Reason, err |-> Err]
    BY <1>10 DEF Final, reading
  <2>2. held = NoDelta /\ toSend = <<>>
    BY <2>1 DEF Places
  <2>3. (received \o <<>>) \o <<>> = received
    BY <1>2
  <2>4. result'.err = Err
    BY <2>1
  <2>5. Err = "none" => Live
    BY DEF Err, Live, Typed
  <2>6. Live' <=> Live
    BY <2>1 DEF Live
  <2>7. Live => received = DeltasOf(answer, read)
    BY <2>2, <2>3 DEF NothingDropped, Hand
  <2>8. QED
    BY <1>1, <2>1, <2>2, <2>3, <2>4, <2>5, <2>6, <2>7 DEF NothingDropped, Hand
<1>11. QED
  BY <1>4, <1>5, <1>6, <1>7, <1>8, <1>9, <1>10 DEF WireNext, Reading, Forwarding

\* The invariant holds of every reachable state.
LEMMA WireInvariant == WireSpec => []WInv
<1>1. WInv /\ [WireNext]_wireVars => WInv'
  BY TypedStep, RetriesStep, AccumulatedStep, InLineStep, DroppedStep DEF WInv
<1>2. QED
  BY WireBegins, <1>1, PTL DEF WireSpec

\* What Final and Complete return (llm/client.go, llm/anthropic.go) is a beginning of the
\* answer with every fragment in its part, and all of it if it says that it has ended
\* well, for answers of any length and wherever a body, a context or a host ends it.
THEOREM FinalIsFaithful == WireSpec => []FinalIsTheAnswer
<1>1. WInv => FinalIsTheAnswer
  <2> SUFFICES ASSUME WInv PROVE FinalIsTheAnswer
    OBVIOUS
  <2>1. \A p, n : Fragments(p, n) = Frags(answer, p, n)
    BY DEF Fragments, Frags
  <2>2. /\ read \in 0..Len(answer) /\ 0 \in 0..Len(answer) /\ Len(answer) \in 0..Len(answer)
        /\ mode \in {"stream", "complete"}
    BY DEF WInv, Typed
  <2>3. \E n \in 0..Len(answer) : \A p \in Parts : content[p] = Frags(answer, p, n)
    BY <2>2 DEF WInv, Accumulated
  <2>4. QED
    BY <2>1, <2>3 DEF WInv, Accumulated, FinalIsTheAnswer
<1>2. QED
  BY WireInvariant, <1>1, PTL

\* The deltas (gatewaystep.go's forwarding goroutine): the host receives them once each and
\* in order, each is in the message it gets, and all of them if the step ends without an
\* error, however the reader, the forwarder, the host and a cancellation interleave.
THEOREM HostHearsTheAnswer == WireSpec => []DeltasFaithful
<1>1. WInv => DeltasFaithful
  <2> SUFFICES ASSUME WInv PROVE DeltasFaithful
    OBVIOUS
  <2>1. \A n : AllDeltas(n) = DeltasOf(answer, n)
    BY DEF AllDeltas, DeltasOf
  <2>2. DOMAIN received = 1..Len(received) /\ received \in Seq(Delta)
    BY DEF WInv, Typed
  <2>3. \A i, j \in DOMAIN received : i < j => Before(received[i], received[j])
    BY <2>2 DEF WInv, InLine, Ordered
  <2>4. \A i \in DOMAIN received : Contains(content[received[i][2]], received[i][1])
    BY <2>2 DEF WInv, InLine, Known
  <2>5. forwarder = "done" /\ result.err = "none" => received = DeltasOf(answer, read)
    BY DEF WInv, NothingDropped
  <2>6. QED
    BY <2>1, <2>3, <2>4, <2>5 DEF DeltasFaithful, Before
<1>2. QED
  BY WireInvariant, <1>1, PTL

\* The retries (llm/client.go's doWithRetry): the request gives up on a provider that is
\* not there only when the context is gone or all attempts are used up, for any number.
THEOREM GivesUpOnlyThen == WireSpec => []GivesUpRightly
<1>1. WInv => GivesUpRightly
  BY DEF WInv, Retries
<1>2. QED
  BY WireInvariant, <1>1, PTL
-----------------------------------------------------------------------------
(* The chunks on the screen.  One is in the transcript, in the hands of     *)
(* Update, in the channel, or in the hands of the turn, in this order.      *)

Kinds == {"none", "stream", "tool", "toolDone", "drained", "done", "delegated"}

TuiEvent == [kind : Kinds, n : Nat, i : Nat]

\* The messages of the ends of turns, which do not go through the channel.
OwnWay == {"done", "delegated"}

\* The chunk that an event is, if it is one.
ChunkOf(m) == IF m.kind = "stream" THEN <<m>> ELSE <<>>

\* The chunks among events.
Chunks(q) == FlattenSeq([i \in 1..Len(q) |-> ChunkOf(q[i])])

TurnType == [pc : {"idle", "run", "ending", "stuck"}, how : {"stream", "delegate"},
             n : Nat, left : Nat, tools : SUBSET Nat, cancelled : BOOLEAN]

ScreenTyped ==
  /\ shown \in Seq(TuiEvent) /\ written \in Seq(TuiEvent) /\ channel \in Seq(TuiEvent)
  /\ inbox \subseteq TuiEvent /\ out \in TuiEvent /\ prompts \in Nat
  /\ job \in TurnType

\* Of the channel's events Update has one in hand at most, and then nobody waits.
OneAtATime ==
  /\ waiters \in {0, 1}
  /\ out.kind \notin OwnWay /\ \A i \in 1..Len(channel) : channel[i].kind \notin OwnWay
  /\ \A m \in inbox : m.kind \notin OwnWay => waiters = 0
  /\ \A m, k \in inbox : m.kind \notin OwnWay /\ k.kind \notin OwnWay => m = k

\* What follows on what.
OnTheWay(before) == (before \o Chunks(channel)) \o ChunkOf(out)

Conveyed ==
  /\ \A m \in inbox : m.kind = "stream" => written = OnTheWay(Append(shown, m))
  /\ (\A m \in inbox : m.kind # "stream") => written = OnTheWay(shown)

ScreenInv == ScreenTyped /\ OneAtATime /\ Conveyed

\* ChunkOf and Chunks make sequences of events.
LEMMA ChunksType ==
  /\ \A m \in TuiEvent : ChunkOf(m) \in Seq(TuiEvent)
  /\ \A q \in Seq(TuiEvent) :
       /\ [i \in 1..Len(q) |-> ChunkOf(q[i])] \in Seq(Seq(TuiEvent))
       /\ Chunks(q) \in Seq(TuiEvent)
  /\ Chunks(<<>>) = <<>>
<1>1. \A m \in TuiEvent : ChunkOf(m) \in Seq(TuiEvent)
  BY DEF ChunkOf
<1>2. ASSUME NEW q \in Seq(TuiEvent)
      PROVE  [i \in 1..Len(q) |-> ChunkOf(q[i])] \in Seq(Seq(TuiEvent))
  <2>1. Len(q) \in Nat /\ \A i \in 1..Len(q) : ChunkOf(q[i]) \in Seq(TuiEvent)
    BY <1>1
  <2>2. QED
    BY <2>1
<1>3. \A q \in Seq(TuiEvent) : Chunks(q) \in Seq(TuiEvent)
  BY <1>2, FlattenType DEF Chunks
<1>4. Chunks(<<>>) = <<>>
  <2>1. [i \in 1..Len(<<>>) |-> ChunkOf(<<>>[i])] = <<>>
    OBVIOUS
  <2>2. QED
    BY <2>1, FlattenNone DEF Chunks
<1>5. QED
  BY <1>1, <1>2, <1>3, <1>4

\* An event that is sent.
LEMMA ChunksAppend ==
  ASSUME NEW q \in Seq(TuiEvent), NEW m \in TuiEvent
  PROVE  Chunks(Append(q, m)) = Chunks(q) \o ChunkOf(m)
<1>1. PICK s \in Seq(Seq(TuiEvent)) : s = [i \in 1..Len(q) |-> ChunkOf(q[i])]
  BY ChunksType
<1>2. PICK r \in Seq(TuiEvent) : r = Append(q, m)
  BY AppendProperties
<1>3. PICK t \in Seq(Seq(TuiEvent)) : t = [i \in 1..Len(r) |-> ChunkOf(r[i])]
  BY ChunksType
<1>4. PICK c \in Seq(TuiEvent) : c = ChunkOf(m)
  BY ChunksType
<1>5. /\ Len(s) = Len(q) /\ Len(q) \in Nat /\ Len(r) = Len(q) + 1 /\ Len(t) = Len(q) + 1
      /\ \A i \in 1..Len(q) : r[i] = q[i]
      /\ r[Len(q) + 1] = m
  BY <1>1, <1>2, <1>3
<1>6. /\ \A i \in 1..Len(q) : s[i] = ChunkOf(q[i])
      /\ \A i \in 1..(Len(q) + 1) : t[i] = ChunkOf(r[i])
  BY <1>1, <1>3, <1>5
<1>7. /\ \A i \in 1..Len(q) : t[i] = s[i]
      /\ t[Len(q) + 1] = c
  BY <1>4, <1>5, <1>6
<1>8. t = Append(s, c)
  <2>1. PICK u \in Seq(Seq(TuiEvent)) : u = Append(s, c)
    BY AppendProperties
  <2>2. Len(u) = Len(t) /\ \A i \in 1..Len(t) : u[i] = t[i]
    BY <1>5, <1>7, <2>1
  <2>3. QED
    BY <2>1, <2>2, SeqEqual
<1>9. QED
  BY <1>1, <1>2, <1>3, <1>4, <1>8, FlattenAppend DEF Chunks

\* An event that is received.
LEMMA ChunksFirst ==
  ASSUME NEW q \in Seq(TuiEvent), q # <<>>
  PROVE  Chunks(q) = ChunkOf(Head(q)) \o Chunks(Tail(q))
<1>1. PICK s \in Seq(Seq(TuiEvent)) : s = [i \in 1..Len(q) |-> ChunkOf(q[i])]
  BY ChunksType
<1>2. PICK r \in Seq(TuiEvent) : r = Tail(q)
  BY HeadTailProperties
<1>3. PICK t \in Seq(Seq(TuiEvent)) : t = [i \in 1..Len(r) |-> ChunkOf(r[i])]
  BY ChunksType
<1>4. /\ Len(s) = Len(q) /\ Len(q) \in Nat \ {0} /\ Len(r) = Len(q) - 1 /\ Len(t) = Len(q) - 1
      /\ \A i \in 1..(Len(q) - 1) : r[i] = q[i + 1]
      /\ Head(q) = q[1]
  BY <1>1, <1>2, <1>3, EmptySeq
<1>5. /\ \A i \in 1..Len(q) : s[i] = ChunkOf(q[i])
      /\ \A i \in 1..(Len(q) - 1) : t[i] = ChunkOf(r[i])
  BY <1>1, <1>3, <1>4
<1>6. /\ \A i \in 1..(Len(q) - 1) : t[i] = s[i + 1]
      /\ s[1] = ChunkOf(Head(q))
  BY <1>4, <1>5
<1>7. s # <<>> /\ Head(s) = ChunkOf(Head(q))
  BY <1>4, <1>6
<1>8. t = Tail(s)
  <2>1. PICK u \in Seq(Seq(TuiEvent)) : u = Tail(s)
    BY <1>7, HeadTailProperties
  <2>2. Len(u) = Len(t) /\ \A i \in 1..Len(t) : u[i] = t[i]
    BY <1>4, <1>6, <1>7, <2>1
  <2>3. QED
    BY <2>1, <2>2, SeqEqual
<1>9. QED
  BY <1>1, <1>2, <1>3, <1>7, <1>8, FlattenFirst DEF Chunks, FirstThenRest

\* It holds at the start.
LEMMA ScreenBegins == TuiInit => ScreenInv
<1> SUFFICES ASSUME TuiInit PROVE ScreenInv
  OBVIOUS
<1>1. ScreenTyped
  BY TuiAssumption DEF TuiInit, ScreenTyped, NoTurn, Nothing, TuiEvent, Kinds, TurnType
<1>2. OneAtATime
  BY DEF TuiInit, OneAtATime, OwnWay, Nothing
<1>3. Conveyed
  <2>1. ChunkOf(out) = <<>> /\ Chunks(channel) = <<>> /\ inbox = {}
    BY ChunksType DEF TuiInit, ChunkOf, Nothing
  <2>2. QED
    BY <2>1 DEF TuiInit, Conveyed, OnTheWay
<1>4. QED
  BY <1>1, <1>2, <1>3 DEF ScreenInv

\* What the turn fires is an event.
LEMMA MsgType ==
  ScreenTyped => \A kind \in Kinds, i \in Nat : Msg(kind, i) \in TuiEvent
  BY DEF ScreenTyped, TurnType, Msg, TuiEvent

\* The goroutine of a turn keeps its type.
LEMMA TurnTypeStep == ScreenTyped /\ [TuiNext]_tuiVars => job' \in TurnType /\ prompts' \in Nat
<1> SUFFICES ASSUME ScreenTyped, [TuiNext]_tuiVars
             PROVE  job' \in TurnType /\ prompts' \in Nat
  OBVIOUS
<1>1. job \in TurnType /\ prompts \in Nat
  BY DEF ScreenTyped
<1>2. CASE UNCHANGED <<job, prompts>>
  BY <1>1, <1>2
<1>3. CASE Submit \/ Delegate
  <2>1. PICK how \in {"stream", "delegate"} : Start(how)
    BY <1>3 DEF Submit, Delegate
  <2>2. job' = [pc |-> "run", how |-> how, n |-> prompts + 1, left |-> Emissions,
                 tools |-> {}, cancelled |-> FALSE]
    BY <2>1 DEF Start, NoTurn
  <2>3. prompts' = prompts + 1
    BY <1>3 DEF Submit, Delegate
  <2>4. QED
    BY <1>1, <2>2, <2>3, TuiAssumption DEF TurnType
<1>4. CASE UNCHANGED tuiVars \/ EnqueueLine \/ NewSession \/ Quit \/ Take \/ SendEvent \/ Interrupt
  BY <1>2, <1>4 DEF tuiVars, EnqueueLine, NewSession, Quit, Take, SendEvent, Interrupt
<1>5. CASE Esc
  BY <1>1, <1>5 DEF Esc, TurnType
<1>6. ASSUME NEW m \in inbox, Handle(m) PROVE UNCHANGED <<job, prompts>>
  BY <1>6 DEF Handle
<1>7. CASE WriteChunk \/ PreToolUse
  <2>1. job.left \in Nat /\ job.left > 0 /\ job.left - 1 \in Nat
    BY <1>1, <1>7 DEF WriteChunk, PreToolUse, TurnType
  <2>2. PICK fewer \in Nat : fewer = job.left - 1
    BY <2>1
  <2>3. /\ \/ job' = [job EXCEPT !.left = fewer]
           \/ job' = [job EXCEPT !.left = fewer, !.tools = job.tools \cup {job.left}]
        /\ prompts' = prompts
    BY <1>7, <2>2 DEF WriteChunk, PreToolUse
  <2>4. job.tools \cup {job.left} \in SUBSET Nat
    BY <1>1 DEF TurnType
  <2>5. QED
    BY <1>1, <2>3, <2>4 DEF TurnType
<1>8. ASSUME NEW i \in job.tools, PostToolUse(i) PROVE job' \in TurnType /\ prompts' \in Nat
  BY <1>1, <1>8 DEF PostToolUse, TurnType
<1>9. ASSUME NEW failed \in BOOLEAN, LoopEnds(failed)
      PROVE  job' \in TurnType /\ prompts' \in Nat
  <2>1. (job.cancelled \/ failed) \in BOOLEAN
    BY <1>1 DEF TurnType
  <2>2. PICK c \in BOOLEAN : c = (job.cancelled \/ failed)
    BY <2>1
  <2>3. job' = [job EXCEPT !.pc = "ending", !.cancelled = c] /\ prompts' = prompts
    BY <1>9, <2>2 DEF LoopEnds
  <2>4. QED
    BY <1>1, <2>3 DEF TurnType
<1>10. CASE Returns
  <2>1. (job' = NoTurn \/ job' = [job EXCEPT !.pc = "stuck"]) /\ prompts' = prompts
    BY <1>10 DEF Returns
  <2>2. NoTurn \in TurnType
    BY DEF NoTurn, TurnType
  <2>3. [job EXCEPT !.pc = "stuck"] \in TurnType
    BY <1>1 DEF TurnType
  <2>4. QED
    BY <1>1, <2>1, <2>2, <2>3
<1>11. QED
  BY <1>2, <1>3, <1>4, <1>5, <1>6, <1>7, <1>8, <1>9, <1>10
     DEF TuiNext, Keys, Update, TurnStep

\* The types are kept.
LEMMA ScreenTypedStep == ScreenTyped /\ [TuiNext]_tuiVars => ScreenTyped'
<1> SUFFICES ASSUME ScreenTyped, [TuiNext]_tuiVars PROVE ScreenTyped'
  OBVIOUS
<1>1. /\ job' \in TurnType /\ prompts' \in Nat
      /\ \A kind \in Kinds, i \in Nat : Msg(kind, i) \in TuiEvent
  BY MsgType, TurnTypeStep
<1>2. ASSUME UNCHANGED <<shown, written, channel>>, inbox' \subseteq TuiEvent, out' \in TuiEvent
      PROVE  ScreenTyped'
  BY <1>1, <1>2 DEF ScreenTyped
<1>3. CASE UNCHANGED tuiVars \/ Keys
  <2>1. UNCHANGED <<shown, written, channel, inbox, out>>
    BY <1>3 DEF tuiVars, uiVars, Keys, Submit, Delegate, EnqueueLine, Esc, NewSession, Quit
  <2>2. QED
    BY <1>2, <2>1 DEF ScreenTyped
<1>4. CASE Take
  <2>1. /\ inbox' = inbox \cup {Head(channel)} /\ channel' = Tail(channel) /\ channel # <<>>
        /\ UNCHANGED <<shown, written, out>>
    BY <1>4 DEF Take, uiVars
  <2>2. Head(channel) \in TuiEvent /\ Tail(channel) \in Seq(TuiEvent)
    BY <2>1, HeadTailProperties DEF ScreenTyped
  <2>3. QED
    BY <1>1, <2>1, <2>2 DEF ScreenTyped
<1>5. ASSUME NEW m \in inbox, Handle(m) PROVE ScreenTyped'
  <2>1. inbox' = inbox \ {m} /\ shown' \in {shown, Append(shown, m)}
        /\ UNCHANGED <<channel, written, out>>
    BY <1>5 DEF Handle
  <2>2. Append(shown, m) \in Seq(TuiEvent)
    BY AppendProperties DEF ScreenTyped
  <2>3. QED
    BY <1>1, <2>1, <2>2 DEF ScreenTyped
<1>6. CASE WriteChunk \/ PreToolUse
  <2>1. job.left \in Nat
    BY DEF ScreenTyped, TurnType
  <2>2. out' \in TuiEvent
    BY <1>1, <1>6, <2>1 DEF WriteChunk, PreToolUse, Kinds
  <2>3. /\ UNCHANGED <<shown, channel, inbox>>
        /\ written' \in {written, Append(written, out')}
    BY <1>6 DEF WriteChunk, PreToolUse, uiVars
  <2>4. Append(written, out') \in Seq(TuiEvent)
    BY <2>2, AppendProperties DEF ScreenTyped
  <2>5. QED
    BY <1>1, <2>2, <2>3, <2>4 DEF ScreenTyped
<1>7. ASSUME NEW i \in job.tools, PostToolUse(i) PROVE ScreenTyped'
  <2>1. i \in Nat
    BY DEF ScreenTyped, TurnType
  <2>2. out' \in TuiEvent
    BY <1>1, <1>7, <2>1 DEF PostToolUse, Kinds
  <2>3. UNCHANGED <<shown, channel, inbox, written>>
    BY <1>7 DEF PostToolUse, uiVars
  <2>4. QED
    BY <1>2, <2>2, <2>3 DEF ScreenTyped
<1>8. CASE Interrupt
  <2>1. out' \in TuiEvent
    BY <1>1, <1>8 DEF Interrupt, Kinds
  <2>2. UNCHANGED <<shown, channel, inbox, written>>
    BY <1>8 DEF Interrupt, uiVars
  <2>3. QED
    BY <1>2, <2>1, <2>2 DEF ScreenTyped
<1>9. ASSUME NEW failed \in BOOLEAN, LoopEnds(failed) PROVE ScreenTyped'
  <2>1. UNCHANGED <<shown, channel, inbox, written, out>>
    BY <1>9 DEF LoopEnds, uiVars
  <2>2. QED
    BY <1>2, <2>1 DEF ScreenTyped
<1>10. CASE Returns
  <2>1. Msg(IF job.how = "delegate" THEN "delegated" ELSE "done", 0) \in TuiEvent
    BY <1>1 DEF Kinds
  <2>2. /\ inbox' \subseteq inbox \cup
             {Msg(IF job.how = "delegate" THEN "delegated" ELSE "done", 0)}
        /\ UNCHANGED <<shown, channel, written, out>>
    BY <1>10 DEF Returns, uiVars
  <2>3. inbox' \subseteq TuiEvent /\ out' \in TuiEvent
    BY <2>1, <2>2 DEF ScreenTyped
  <2>4. QED
    BY <1>2, <2>2, <2>3
<1>11. CASE SendEvent
  <2>1. Append(channel, out) \in Seq(TuiEvent)
    BY AppendProperties DEF ScreenTyped
  <2>2. Nothing \in TuiEvent
    BY DEF Nothing, TuiEvent, Kinds
  <2>3. UNCHANGED <<shown, written, inbox>> /\ out' = Nothing /\ channel' = Append(channel, out)
    BY <1>11 DEF SendEvent, uiVars
  <2>4. QED
    BY <1>1, <2>1, <2>2, <2>3 DEF ScreenTyped
<1>12. QED
  BY <1>3, <1>4, <1>5, <1>6, <1>7, <1>8, <1>9, <1>10, <1>11
     DEF TuiNext, Update, TurnStep

\* The channel's events are received one at a time.
LEMMA OneAtATimeStep == ScreenTyped /\ OneAtATime /\ [TuiNext]_tuiVars => OneAtATime'
<1> SUFFICES ASSUME ScreenTyped, OneAtATime, [TuiNext]_tuiVars PROVE OneAtATime'
  OBVIOUS
<1>1. channel \in Seq(TuiEvent)
  BY DEF ScreenTyped
<1>2. CASE UNCHANGED tuiVars \/ Keys
  <2>1. UNCHANGED <<waiters, out, channel, inbox>>
    BY <1>2 DEF tuiVars, Keys, Submit, Delegate, EnqueueLine, Esc, NewSession, Quit
  <2>2. QED
    BY <2>1 DEF OneAtATime
<1>3. CASE Take
  <2>1. /\ waiters = 1 /\ waiters' = 0 /\ channel # <<>> /\ out' = out
        /\ inbox' = inbox \cup {Head(channel)} /\ channel' = Tail(channel)
    BY <1>3 DEF Take, OneAtATime
  <2>2. \A m \in inbox : m.kind \in OwnWay
    BY <2>1 DEF OneAtATime
  <2>3. \A i \in 1..Len(channel') : i + 1 \in 1..Len(channel) /\ channel'[i] = channel[i + 1]
    BY <1>1, <2>1
  <2>4. \A i \in 1..Len(channel') : channel'[i].kind \notin OwnWay
    BY <2>3 DEF OneAtATime
  <2>5. QED
    BY <2>1, <2>2, <2>4 DEF OneAtATime
<1>4. ASSUME NEW m \in inbox, Handle(m) PROVE OneAtATime'
  <2>1. /\ inbox' = inbox \ {m} /\ UNCHANGED <<channel, out>>
        /\ waiters' = waiters + IF Rearms(m) THEN 1 ELSE 0
    BY <1>4 DEF Handle
  <2>2. CASE Rearms(m)
    <3>1. m.kind \notin OwnWay
      BY <2>2 DEF Rearms, OwnWay
    <3>2. waiters = 0 /\ \A k \in inbox' : k.kind \in OwnWay
      BY <2>1, <3>1 DEF OneAtATime
    <3>3. QED
      BY <2>1, <2>2, <3>2 DEF OneAtATime
  <2>3. CASE ~Rearms(m)
    <3>1. waiters' = waiters
      BY <2>1, <2>3 DEF OneAtATime
    <3>2. QED
      BY <2>1, <3>1 DEF OneAtATime
  <2>4. QED
    BY <2>2, <2>3
<1>5. CASE \/ WriteChunk \/ PreToolUse \/ Interrupt
           \/ \E i \in job.tools : PostToolUse(i)
  <2>1. UNCHANGED <<waiters, channel, inbox>>
    BY <1>5 DEF WriteChunk, PreToolUse, Interrupt, PostToolUse
  <2>2. out'.kind \notin OwnWay
    BY <1>5 DEF WriteChunk, PreToolUse, Interrupt, PostToolUse, Msg, OwnWay
  <2>3. QED
    BY <2>1, <2>2 DEF OneAtATime
<1>6. ASSUME NEW failed \in BOOLEAN, LoopEnds(failed) PROVE OneAtATime'
  BY <1>6 DEF LoopEnds, OneAtATime
<1>7. CASE Returns
  <2>1. UNCHANGED <<waiters, channel, out>>
    BY <1>7 DEF Returns
  <2>2. \A m \in inbox' : m \in inbox \/ m.kind \in OwnWay
    BY <1>7 DEF Returns, Msg, OwnWay
  <2>3. QED
    BY <2>1, <2>2 DEF OneAtATime
<1>8. CASE SendEvent
  <2>1. /\ UNCHANGED <<waiters, inbox>> /\ channel' = Append(channel, out) /\ out' = Nothing
    BY <1>8 DEF SendEvent
  <2>2. \A i \in 1..Len(channel') : channel'[i] = out \/ \E j \in 1..Len(channel) : channel'[i] = channel[j]
    <3>1. out \in TuiEvent /\ Len(channel') = Len(channel) + 1 /\ Len(channel) \in Nat
      BY <1>1, <2>1 DEF ScreenTyped
    <3>2. QED
      BY <1>1, <2>1, <3>1
  <2>3. \A i \in 1..Len(channel') : channel'[i].kind \notin OwnWay
    BY <2>2 DEF OneAtATime
  <2>4. QED
    BY <2>1, <2>3 DEF OneAtATime, Nothing, OwnWay
<1>9. QED
  BY <1>2, <1>3, <1>4, <1>5, <1>6, <1>7, <1>8 DEF TuiNext, Update, TurnStep

\* Chunks are neither lost, doubled nor reordered.
LEMMA ConveyedStep == ScreenInv /\ [TuiNext]_tuiVars => Conveyed'
<1> SUFFICES ASSUME ScreenTyped, OneAtATime, Conveyed, [TuiNext]_tuiVars PROVE Conveyed'
  BY DEF ScreenInv
<1>1. /\ shown \in Seq(TuiEvent) /\ written \in Seq(TuiEvent) /\ channel \in Seq(TuiEvent)
      /\ out \in TuiEvent /\ inbox \subseteq TuiEvent
  BY DEF ScreenTyped
<1>2. PICK c \in Seq(TuiEvent) : c = Chunks(channel)
  BY <1>1, ChunksType
<1>3. PICK o \in Seq(TuiEvent) : o = ChunkOf(out)
  BY <1>1, ChunksType
<1>4. ASSUME UNCHANGED <<shown, channel, written>>, ChunkOf(out') = ChunkOf(out),
             \A m : m.kind = "stream" => (m \in inbox' <=> m \in inbox)
      PROVE  Conveyed'
  BY <1>4 DEF Conveyed, OnTheWay
<1>5. CASE UNCHANGED tuiVars \/ Keys \/ \E failed \in BOOLEAN : LoopEnds(failed)
  <2>1. UNCHANGED <<shown, channel, written, out, inbox>>
    BY <1>5 DEF tuiVars, uiVars, Keys, Submit, Delegate, EnqueueLine, Esc, NewSession, Quit,
                LoopEnds
  <2>2. QED
    BY <1>4, <2>1
<1>6. CASE Returns
  <2>1. UNCHANGED <<shown, channel, written, out>>
    BY <1>6 DEF Returns, uiVars
  <2>2. \A m : m.kind = "stream" => (m \in inbox' <=> m \in inbox)
    BY <1>6 DEF Returns, Msg
  <2>3. QED
    BY <1>4, <2>1, <2>2
<1>7. CASE PreToolUse \/ Interrupt \/ \E i \in job.tools : PostToolUse(i)
  <2>1. UNCHANGED <<shown, channel, written, inbox>> /\ out = Nothing /\ out'.kind # "stream"
    BY <1>7 DEF PreToolUse, Interrupt, PostToolUse, Active, Msg, uiVars
  <2>2. ChunkOf(out') = ChunkOf(out)
    BY <2>1 DEF ChunkOf, Nothing
  <2>3. QED
    BY <1>4, <2>1, <2>2
<1>8. CASE WriteChunk
  <2>1. /\ UNCHANGED <<shown, channel, inbox>> /\ out = Nothing /\ out'.kind = "stream"
        /\ written' = Append(written, out')
    BY <1>8 DEF WriteChunk, Active, Msg, uiVars
  <2>2. out' \in TuiEvent
    BY ScreenTypedStep DEF ScreenTyped
  <2>3. o = <<>> /\ ChunkOf(out') = <<out'>>
    BY <1>3, <2>1 DEF ChunkOf, Nothing
  <2>4. ASSUME NEW b \in Seq(TuiEvent), written = (b \o c) \o o
        PROVE  written' = (b \o c) \o <<out'>>
    <3>1. PICK bc \in Seq(TuiEvent) : bc = b \o c
      BY ConcatProperties
    <3>2. bc \o <<>> = bc /\ Append(bc, out') = bc \o <<out'>>
      BY <2>2, <3>1, AppendIsConcat
    <3>3. QED
      BY <2>1, <2>3, <2>4, <3>1, <3>2
  <2>5. \A m \in inbox : Append(shown, m) \in Seq(TuiEvent)
    BY <1>1
  <2>6. /\ \A m \in inbox : m.kind = "stream" => written = (Append(shown, m) \o c) \o o
        /\ (\A m \in inbox : m.kind # "stream") => written = (shown \o c) \o o
    BY <1>2, <1>3 DEF Conveyed, OnTheWay
  <2>7. /\ \A m \in inbox : m.kind = "stream" => written' = (Append(shown, m) \o c) \o <<out'>>
        /\ (\A m \in inbox : m.kind # "stream") => written' = (shown \o c) \o <<out'>>
    BY <1>1, <2>4, <2>5, <2>6
  <2>8. QED
    BY <1>2, <2>1, <2>3, <2>7 DEF Conveyed, OnTheWay
<1>9. CASE SendEvent
  <2>1. UNCHANGED <<shown, written, inbox>> /\ channel' = Append(channel, out) /\ out' = Nothing
    BY <1>9 DEF SendEvent, uiVars
  <2>2. ChunkOf(out') = <<>> /\ Chunks(channel') = c \o o
    BY <1>1, <1>2, <1>3, <2>1, ChunksAppend DEF ChunkOf, Nothing
  <2>3. \A b \in Seq(TuiEvent) : (b \o c) \o o = (b \o (c \o o)) \o <<>>
    <3> SUFFICES ASSUME NEW b \in Seq(TuiEvent) PROVE (b \o c) \o o = (b \o (c \o o)) \o <<>>
      OBVIOUS
    <3>1. (b \o c) \o o = b \o (c \o o)
      BY ConcatAssociative, SMTT(30)
    <3>2. PICK all \in Seq(TuiEvent) : all = b \o (c \o o)
      <4>1. PICK co \in Seq(TuiEvent) : co = c \o o
        BY ConcatProperties
      <4>2. QED
        BY <4>1, ConcatProperties
    <3>3. all \o <<>> = all
      OBVIOUS
    <3>4. QED
      BY <3>1, <3>2, <3>3
  <2>4. \A m \in inbox : Append(shown, m) \in Seq(TuiEvent)
    BY <1>1
  <2>5. /\ \A m \in inbox : m.kind = "stream" => written = (Append(shown, m) \o c) \o o
        /\ (\A m \in inbox : m.kind # "stream") => written = (shown \o c) \o o
    BY <1>2, <1>3 DEF Conveyed, OnTheWay
  <2>6. /\ \A m \in inbox : m.kind = "stream" => written = (Append(shown, m) \o (c \o o)) \o <<>>
        /\ (\A m \in inbox : m.kind # "stream") => written = (shown \o (c \o o)) \o <<>>
    BY <1>1, <2>3, <2>4, <2>5
  <2>7. QED
    BY <2>1, <2>2, <2>6 DEF Conveyed, OnTheWay
<1>10. CASE Take
  <2>1. /\ UNCHANGED <<shown, written, out>> /\ channel # <<>> /\ waiters = 1
        /\ inbox' = inbox \cup {Head(channel)} /\ channel' = Tail(channel)
    BY <1>10 DEF Take, uiVars, OneAtATime
  <2>2. \A m \in inbox : m.kind # "stream"
    BY <2>1 DEF OneAtATime, OwnWay
  <2>3. PICK first \in TuiEvent : first = Head(channel)
    BY <1>1, <2>1, HeadTailProperties
  <2>4. PICK rest \in Seq(TuiEvent) : rest = Chunks(channel')
    BY <1>1, <2>1, HeadTailProperties, ChunksType
  <2>5. c = ChunkOf(first) \o rest
    BY <1>1, <1>2, <2>1, <2>3, <2>4, ChunksFirst
  <2>6. written = (shown \o c) \o o
    BY <1>2, <1>3, <2>2 DEF Conveyed, OnTheWay
  <2>7. CASE first.kind = "stream"
    <3>1. shown \o (<<first>> \o rest) = (shown \o <<first>>) \o rest
      <4>1. <<first>> \in Seq(TuiEvent)
        BY <2>3
      <4>2. PICK s \in Seq(TuiEvent) : s = shown
        BY <1>1
      <4>3. PICK f \in Seq(TuiEvent) : f = <<first>>
        BY <4>1
      <4>4. (s \o f) \o rest = s \o (f \o rest)
        BY ConcatAssociative, SMTT(30)
      <4>5. QED
        BY <4>2, <4>3, <4>4
    <3>2. shown \o <<first>> = Append(shown, first)
      BY <1>1, AppendIsConcat
    <3>3. written = (Append(shown, first) \o rest) \o o
      BY <2>5, <2>6, <2>7, <3>1, <3>2 DEF ChunkOf
    <3>4. QED
      BY <1>3, <2>1, <2>2, <2>3, <2>4, <2>7, <3>3 DEF Conveyed, OnTheWay
  <2>8. CASE first.kind # "stream"
    <3>1. <<>> \o rest = rest
      OBVIOUS
    <3>2. written = (shown \o rest) \o o
      BY <2>5, <2>6, <2>8, <3>1 DEF ChunkOf
    <3>3. QED
      BY <1>3, <2>1, <2>2, <2>3, <2>4, <2>8, <3>2 DEF Conveyed, OnTheWay
  <2>9. QED
    BY <2>7, <2>8
<1>11. ASSUME NEW m \in inbox, Handle(m) PROVE Conveyed'
  <2>1. /\ UNCHANGED <<written, channel, out>> /\ inbox' = inbox \ {m}
        /\ shown' = IF m.kind = "stream" THEN Append(shown, m) ELSE shown
    BY <1>11 DEF Handle
  <2>2. CASE m.kind = "stream"
    <3>1. \A k \in inbox' : k.kind # "stream"
      BY <2>1, <2>2 DEF OneAtATime, OwnWay
    <3>2. written = OnTheWay(Append(shown, m))
      BY <2>2 DEF Conveyed
    <3>3. QED
      BY <2>1, <2>2, <3>1, <3>2 DEF Conveyed, OnTheWay
  <2>3. CASE m.kind # "stream"
    BY <1>4, <2>1, <2>3
  <2>4. QED
    BY <2>2, <2>3
<1>12. QED
  BY <1>5, <1>6, <1>7, <1>8, <1>9, <1>10, <1>11 DEF TuiNext, Update, TurnStep

\* What one begins with is a prefix.
LEMMA PrefixOfGlue ==
  ASSUME NEW S, NEW s \in Seq(S), NEW u \in Seq(S)
  PROVE  IsPrefix(s, s \o u)
<1>1. PICK t \in Seq(S) : t = s \o u
  BY ConcatProperties
<1>2. Len(s) \in Nat /\ Len(t) \in Nat /\ Len(s) <= Len(t) /\ \A i \in 1..Len(s) : t[i] = s[i]
  BY <1>1
<1>3. PICK a \in Seq(S) : a = SubSeq(s, 1, Len(s))
  OBVIOUS
<1>4. PICK b \in Seq(S) : b = SubSeq(t, 1, Len(s))
  BY <1>2
<1>5. Len(a) = Len(b) /\ \A i \in 1..Len(a) : a[i] = b[i]
  BY <1>2, <1>3, <1>4
<1>6. a = b
  BY <1>5, SeqEqual
<1>7. QED
  BY <1>1, <1>2, <1>3, <1>4, <1>6 DEF IsPrefix

\* The transcript of the terminal interface (examples/cli/tui.go): what is shown is a
\* beginning of what Stream has written, chunk by chunk in the order of the writes, for
\* a channel of any size and any number of turns, tools and queued messages.
THEOREM TranscriptIsInOrder == TuiSpec => []ShownInOrder
<1>1. ScreenInv /\ [TuiNext]_tuiVars => ScreenInv'
  BY ScreenTypedStep, OneAtATimeStep, ConveyedStep DEF ScreenInv
<1>2. ScreenInv => ShownInOrder
  <2> SUFFICES ASSUME ScreenInv PROVE ShownInOrder
    OBVIOUS
  <2>1. /\ shown \in Seq(TuiEvent) /\ channel \in Seq(TuiEvent) /\ out \in TuiEvent
        /\ inbox \subseteq TuiEvent
    BY DEF ScreenInv, ScreenTyped
  <2>2. PICK c \in Seq(TuiEvent) : c = Chunks(channel)
    BY <2>1, ChunksType
  <2>3. PICK o \in Seq(TuiEvent) : o = ChunkOf(out)
    BY <2>1, ChunksType
  <2>4. CASE \A m \in inbox : m.kind # "stream"
    <3>1. written = (shown \o c) \o o
      BY <2>2, <2>3, <2>4 DEF ScreenInv, Conveyed, OnTheWay
    <3>2. written = shown \o (c \o o) /\ c \o o \in Seq(TuiEvent)
      BY <2>1, <3>1, ConcatAssociative, SMTT(30)
    <3>3. QED
      BY <2>1, <3>2, PrefixOfGlue DEF ShownInOrder
  <2>5. ASSUME NEW m \in inbox, m.kind = "stream" PROVE ShownInOrder
    <3>1. written = (Append(shown, m) \o c) \o o /\ m \in TuiEvent
      BY <2>1, <2>2, <2>3, <2>5 DEF ScreenInv, Conveyed, OnTheWay
    <3>2. Append(shown, m) = shown \o <<m>> /\ <<m>> \in Seq(TuiEvent)
      BY <2>1, <3>1, AppendIsConcat
    <3>3. (shown \o <<m>>) \o c = shown \o (<<m>> \o c) /\ <<m>> \o c \in Seq(TuiEvent)
      BY <2>1, <3>2, ConcatAssociative
    <3>4. PICK mc \in Seq(TuiEvent) : mc = <<m>> \o c
      BY <3>3
    <3>5. written = shown \o (mc \o o) /\ mc \o o \in Seq(TuiEvent)
      <4>1. written = (shown \o mc) \o o
        BY <3>1, <3>2, <3>3, <3>4
      <4>2. (shown \o mc) \o o = shown \o (mc \o o)
        <5>1. PICK s \in Seq(TuiEvent) : s = shown
          BY <2>1
        <5>2. (s \o mc) \o o = s \o (mc \o o)
          BY ConcatAssociative, SMTT(30)
        <5>3. QED
          BY <5>1, <5>2
      <4>3. QED
        BY <4>1, <4>2, ConcatProperties
    <3>6. QED
      BY <2>1, <3>5, PrefixOfGlue DEF ShownInOrder
  <2>6. QED
    BY <2>4, <2>5
<1>3. QED
  BY ScreenBegins, <1>1, <1>2, PTL DEF TuiSpec

-----------------------------------------------------------------------------
(* The rows that a deletion leaves.                                         *)

PCs == {"down", "opening", "idle", "summed first", "compacted", "run", "billed", "calling",
        "waiting", "stopped", "returned", "called", "boundary", "summed", "answered",
        "ending", "object", "ended", "failed", "gone"}

KernelType == [pc : PCs, total : Nat, seq : Nat, turns : Nat]

SpanType == [here : BOOLEAN, parent : {"", "root"}, started : Nat, ended : Nat]

TraceType == [here : BOOLEAN, titled : BOOLEAN, started : Nat, ended : Nat]

SessTyped ==
  /\ kernel \in [Span -> KernelType]
  /\ spans \in [Span -> SpanType] /\ trace \in TraceType
  /\ DOMAIN costs = Span /\ DOMAIN events = Span /\ memories \subseteq Span
  /\ clock \in Nat

\* Whoever may still write was there when the session was deleted.
Haunting ==
  deletions # 0 =>
    /\ kernel["root"].pc # "down"
    /\ kernel["root"].pc # "gone" => "root" \in haunted
    /\ kernel["child"].pc \notin {"down", "gone"} => haunted \cap {"root", "child"} # {}
    /\ kernel["root"].pc = "opening" => "new" \in haunted

\* What was written since.
Ghosts ==
  deletions # 0 =>
    /\ trace.here => haunted \cap {"root", "host"} # {}
    /\ \A s \in Span : spans[s].here \/ events[s] # <<>> \/ costs[s] # <<>> =>
         haunted \cap {"root", s} # {}
    /\ "new" \notin haunted => trace.started = 0
    /\ "notes" \notin haunted => memories \subseteq {"child"}

SessInv == SessTyped /\ deletions \in Nat /\ Haunting /\ Ghosts

\* An event is of one span.
LEMMA EventOfOne ==
  ASSUME SessTyped, NEW s \in Span, NEW kind, FireEvent(s, kind)
  PROVE  DOMAIN events' = Span /\ \A r \in Span \ {s} : events'[r] = events[r]
<1>1. \/ events' = events
      \/ \E new : events' = [events EXCEPT ![s] = new]
  BY DEF FireEvent
<1>2. QED
  BY <1>1 DEF SessTyped

\* A cost is of one span.
LEMMA CostOfOne ==
  ASSUME SessTyped, NEW s \in Span, NEW turnCost, NEW total, AppendCost(s, turnCost, total)
  PROVE  DOMAIN costs' = Span /\ \A r \in Span \ {s} : costs'[r] = costs[r]
BY DEF AppendCost, SessTyped

\* The row of a span is saved.
LEMMA SpanSaved ==
  ASSUME SessTyped, NEW s \in Span, NEW parent \in {"", "root"}, NEW started \in Nat,
         NEW ended \in Nat, SaveSpanMeta(s, parent, started, ended)
  PROVE  spans' \in [Span -> SpanType] /\ \A r \in Span \ {s} : spans'[r] = spans[r]
<1>1. spans[s] \in SpanType
  BY DEF SessTyped
<1>2. /\ spans[s].parent \in {"", "root"}
      /\ spans[s].started \in Nat /\ spans[s].ended \in Nat
  BY <1>1 DEF SpanType
<1>3. PICK row : row = [here |-> TRUE,
                        parent |-> IF parent # "" THEN parent ELSE spans[s].parent,
                        started |-> OrOld(started, spans[s].started),
                        ended |-> OrOld(ended, spans[s].ended)]
  OBVIOUS
<1>4. row \in SpanType
  BY <1>2, <1>3 DEF SpanType, OrOld
<1>5. spans' = [spans EXCEPT ![s] = row]
  BY <1>3 DEF SaveSpanMeta
<1>6. QED
  BY <1>4, <1>5 DEF SessTyped

\* The row of the trace is saved.
LEMMA TraceSaved ==
  ASSUME SessTyped, NEW started \in Nat, NEW ended \in Nat, SaveTraceMeta(started, ended)
  PROVE  trace' \in TraceType /\ (started = 0 => trace'.started = trace.started)
<1>1. trace.started \in Nat /\ trace.ended \in Nat
  BY DEF SessTyped, TraceType
<1>2. OrOld(started, trace.started) \in Nat /\ OrOld(ended, trace.ended) \in Nat
  BY <1>1 DEF OrOld
<1>3. started = 0 => OrOld(started, trace.started) = trace.started
  BY DEF OrOld
<1>4. QED
  BY <1>2, <1>3 DEF SaveTraceMeta, TraceType

\* A kernel that goes on.
LEMMA KernelGoes ==
  ASSUME SessTyped, NEW s \in Span, NEW x \in PCs, Goes(s, x)
  PROVE  /\ kernel' \in [Span -> KernelType] /\ kernel'[s].pc = x
         /\ \A r \in Span \ {s} : kernel'[r] = kernel[r]
<1>1. PICK k : k = [kernel[s] EXCEPT !.pc = x]
  OBVIOUS
<1>2. kernel' = [kernel EXCEPT ![s] = k]
  BY <1>1 DEF Goes
<1>3. kernel[s] \in KernelType
  BY DEF SessTyped
<1>4. k \in KernelType /\ k.pc = x
  BY <1>1, <1>3 DEF KernelType
<1>5. QED
  BY <1>2, <1>4 DEF SessTyped

\* A kernel that fires an event and goes on.
LEMMA KernelFires ==
  ASSUME SessTyped, NEW s \in Span, NEW kind, NEW x \in PCs, FiresTo(s, kind, x)
  PROVE  /\ kernel' \in [Span -> KernelType] /\ kernel'[s].pc = x
         /\ \A r \in Span \ {s} : kernel'[r] = kernel[r]
         /\ DOMAIN events' = Span /\ \A r \in Span \ {s} : events'[r] = events[r]
<1>1. PICK k : k = [kernel[s] EXCEPT !.pc = x, !.seq = @ + 1]
  OBVIOUS
<1>2. kernel[s] \in KernelType
  BY DEF SessTyped
<1>3. kernel' = [kernel EXCEPT ![s] = k]
  BY <1>1, <1>2 DEF FiresTo
<1>4. k \in KernelType /\ k.pc = x
  <2>1. kernel[s].total \in Nat /\ kernel[s].seq + 1 \in Nat /\ kernel[s].turns \in Nat
    BY <1>2 DEF KernelType
  <2>2. k = [pc |-> x, total |-> kernel[s].total, seq |-> kernel[s].seq + 1,
             turns |-> kernel[s].turns]
    BY <1>1, <1>2 DEF KernelType
  <2>3. QED
    BY <2>1, <2>2 DEF KernelType
<1>5. DOMAIN events' = Span /\ \A r \in Span \ {s} : events'[r] = events[r]
  BY EventOfOne DEF FiresTo
<1>6. QED
  BY <1>3, <1>4, <1>5 DEF SessTyped

\* A kernel makes a request.
LEMMA RequestTells ==
  ASSUME SessTyped, NEW s \in Span, NEW to \in PCs, NEW more \in Nat,
         Request(s, to, more)
  PROVE  /\ kernel' \in [Span -> KernelType]
         /\ kernel'[s].pc = to /\ kernel'[s].seq = kernel[s].seq
         /\ kernel'[s].turns = kernel[s].turns + more
         /\ kernel'[s].total = kernel[s].total + TurnPrice
         /\ \A r \in Span \ {s} : kernel'[r] = kernel[r]
<1>1. PICK k : k = [kernel[s] EXCEPT !.pc = to, !.turns = @ + more, !.total = @ + TurnPrice]
  OBVIOUS
<1>2. kernel[s] \in KernelType /\ TurnPrice \in Nat
  BY SessionsAssumption DEF SessTyped
<1>3. kernel' = [kernel EXCEPT ![s] = k]
  BY <1>1, <1>2 DEF Request
<1>4. kernel[s].total \in Nat /\ kernel[s].seq \in Nat /\ kernel[s].turns \in Nat
  BY <1>2 DEF KernelType
<1>5. k = [pc |-> to, total |-> kernel[s].total + TurnPrice, seq |-> kernel[s].seq,
           turns |-> kernel[s].turns + more]
  BY <1>1, <1>2 DEF KernelType
<1>6. k \in KernelType
  BY <1>2, <1>4, <1>5 DEF KernelType
<1>7. kernel'[s] = k /\ \A r \in Span \ {s} : kernel'[r] = kernel[r]
  BY <1>3 DEF SessTyped
<1>8. kernel' \in [Span -> KernelType]
  BY <1>3, <1>6 DEF SessTyped
<1>9. QED
  BY <1>5, <1>7, <1>8

\* A loop ends at its top.
LEMMA LeaveTells ==
  ASSUME SessTyped, NEW s \in Span, NEW to, LeaveLoop(s, to)
  PROVE  /\ kernel' \in [Span -> KernelType]
         /\ kernel'[s].pc = to /\ kernel'[s].seq = kernel[s].seq
         /\ kernel'[s].total = kernel[s].total
         /\ \A r \in Span \ {s} : kernel'[r] = kernel[r]
<1>1. PICK k : k = [kernel[s] EXCEPT !.pc = to, !.turns = @ + 1]
  OBVIOUS
<1>2. kernel[s] \in KernelType /\ to \in PCs
  BY DEF SessTyped, LeaveLoop, PCs
<1>3. kernel' = [kernel EXCEPT ![s] = k]
  BY <1>1, <1>2 DEF LeaveLoop
<1>4. kernel[s].total \in Nat /\ kernel[s].seq \in Nat /\ kernel[s].turns \in Nat
  BY <1>2 DEF KernelType
<1>5. k = [pc |-> to, total |-> kernel[s].total, seq |-> kernel[s].seq,
           turns |-> kernel[s].turns + 1]
  BY <1>1, <1>2 DEF KernelType
<1>6. k \in KernelType
  BY <1>2, <1>4, <1>5 DEF KernelType
<1>7. kernel'[s] = k /\ \A r \in Span \ {s} : kernel'[r] = kernel[r]
  BY <1>3 DEF SessTyped
<1>8. kernel' \in [Span -> KernelType]
  BY <1>3, <1>6 DEF SessTyped
<1>9. QED
  BY <1>5, <1>7, <1>8

\* Each step keeps the accounts of what is left.
LEMMA GhostStep == SessInv /\ [SessNext]_sessVars => SessInv'
<1> SUFFICES ASSUME SessInv, [SessNext]_sessVars PROVE SessInv'
  OBVIOUS
<1>0. SessTyped /\ deletions \in Nat /\ Haunting /\ Ghosts
  BY DEF SessInv
<1>s. Span = {"root", "child"} /\ TurnPrice \in Nat
  BY SessionsAssumption DEF Span
<1>1. ASSUME OpenRoot PROVE SessInv'
  <2>1. SaveSpanMeta("root", "", clock + 1, 0) /\ "root" \in Span
    BY <1>s, <1>1 DEF OpenRoot
  <2>2. "" \in {"", "root"} /\ clock + 1 \in Nat
    BY <1>0 DEF SessTyped
  <2>3. /\ spans' \in [Span -> SpanType]
        /\ \A r \in Span \ {"root"} : spans'[r] = spans[r]
    BY <1>0, <2>1, <2>2, SpanSaved
  <2>4. PICK k : k = [Down EXCEPT !.pc = "opening"]
    OBVIOUS
  <2>5. "root" \in Span /\ kernel["root"] \in KernelType
    BY <1>0, <1>s DEF SessTyped
  <2>6. kernel' = [kernel EXCEPT !["root"] = k]
    BY <1>1, <2>4, <2>5 DEF OpenRoot
  <2>7. /\ kernel["root"].total \in Nat /\ kernel["root"].seq \in Nat
        /\ kernel["root"].turns \in Nat
    BY <2>5 DEF KernelType
  <2>8. k = [pc |-> "opening", total |-> 0, seq |-> 0, turns |-> 0]
    BY <2>4, <2>5 DEF KernelType, Down
  <2>9. k \in KernelType /\ k.pc = "opening"
    BY <1>s, <2>7, <2>8 DEF KernelType, PCs
  <2>10. /\ kernel' \in [Span -> KernelType] /\ kernel'["root"].pc = "opening"
         /\ \A r \in Span \ {"root"} : kernel'[r] = kernel[r]
    BY <1>0, <2>5, <2>6, <2>9 DEF SessTyped
  <2>11. UNCHANGED <<trace, costs, events, memories>> /\ clock' = clock + 1
    BY <1>1 DEF OpenRoot, rows, counters
  <2>12. SessTyped'
    BY <1>0, <2>3, <2>10, <2>11 DEF SessTyped
  <2>13. deletions' \in Nat
    BY <1>0, <1>s, <1>1, <2>3, <2>10 DEF OpenRoot, Down, rows, counters, truth
  <2>14. Haunting'
    BY <1>0, <1>s, <1>1, <2>3, <2>10 DEF OpenRoot, Down, Haunting, SessTyped, rows,
       counters, truth
  <2>15. Ghosts'
    BY <1>0, <1>s, <1>1, <2>3, <2>10 DEF OpenRoot, SaveSpanMeta, Down, Ghosts, Haunting,
       SessTyped, rows, counters, truth
  <2>16. QED
    BY <2>12, <2>13, <2>14, <2>15 DEF SessInv
<1>2. ASSUME OpenTrace PROVE SessInv'
  <2>1. SaveTraceMeta(clock + 1, 0)
    BY <1>2 DEF OpenTrace
  <2>2. clock + 1 \in Nat
    BY <1>0 DEF SessTyped
  <2>3. trace' \in TraceType
    BY <1>0, <2>1, <2>2, TraceSaved
  <2>4. Goes("root", "idle") /\ "root" \in Span /\ "idle" \in PCs
    BY <1>s, <1>2 DEF OpenTrace, PCs
  <2>5. /\ kernel' \in [Span -> KernelType] /\ kernel'["root"].pc = "idle"
        /\ \A r \in Span \ {"root"} : kernel'[r] = kernel[r]
    BY <1>0, <2>4, KernelGoes
  <2>6. SessTyped'
    BY <1>0, <1>s, <1>2, <2>3, <2>5 DEF OpenTrace, SessTyped, rows, counters, truth
  <2>7. deletions' \in Nat
    BY <1>0, <1>s, <1>2, <2>3, <2>5 DEF OpenTrace, rows, counters, truth
  <2>8. Haunting'
    BY <1>0, <1>s, <1>2, <2>3, <2>5 DEF OpenTrace, Haunting, SessTyped, rows, counters,
       truth
  <2>9. Ghosts'
    BY <1>0, <1>s, <1>2, <2>3, <2>5 DEF OpenTrace, SaveTraceMeta, Ghosts, Haunting,
       SessTyped, rows, counters, truth
  <2>10. QED
    BY <2>6, <2>7, <2>8, <2>9 DEF SessInv
<1>3. ASSUME CallTool PROVE SessInv'
  <2>1. /\ FiresTo("root", "PreToolUse", "calling")
        /\ "root" \in Span /\ "calling" \in PCs
    BY <1>s, <1>3 DEF CallTool, PCs
  <2>2. /\ kernel' \in [Span -> KernelType] /\ kernel'["root"].pc = "calling"
        /\ \A r \in Span \ {"root"} : kernel'[r] = kernel[r]
        /\ DOMAIN events' = Span /\ \A r \in Span \ {"root"} : events'[r] = events[r]
    BY <1>0, <2>1, KernelFires
  <2>3. SessTyped'
    BY <1>0, <1>s, <1>3, <2>2 DEF CallTool, SessTyped, rows, counters, truth
  <2>4. deletions' \in Nat
    BY <1>0, <1>s, <1>3, <2>2 DEF CallTool, rows, counters, truth
  <2>5. Haunting'
    BY <1>0, <1>s, <1>3, <2>2 DEF CallTool, Haunting, SessTyped, rows, counters, truth
  <2>6. Ghosts'
    BY <1>0, <1>s, <1>3, <2>2 DEF CallTool, Ghosts, Haunting, SessTyped, rows, counters,
       truth
  <2>7. QED
    BY <2>3, <2>4, <2>5, <2>6 DEF SessInv
<1>4. ASSUME OpenChild PROVE SessInv'
  <2>1. SaveSpanMeta("child", "root", clock + 1, 0) /\ "child" \in Span
    BY <1>s, <1>4 DEF OpenChild
  <2>2. "root" \in {"", "root"} /\ clock + 1 \in Nat
    BY <1>0 DEF SessTyped
  <2>3. /\ spans' \in [Span -> SpanType]
        /\ \A r \in Span \ {"child"} : spans'[r] = spans[r]
    BY <1>0, <2>1, <2>2, SpanSaved
  <2>4. PICK k : k = [kernel["root"] EXCEPT !.pc = "waiting"]
    OBVIOUS
  <2>5. PICK l : l = [kernel["child"] EXCEPT !.pc = "idle"]
    OBVIOUS
  <2>6. kernel["root"] \in KernelType /\ kernel["child"] \in KernelType
    BY <1>0, <1>s DEF SessTyped
  <2>7. kernel' = [r \in Span |-> IF r = "root" THEN k ELSE l]
    BY <1>0, <1>s, <1>4, <2>4, <2>5 DEF OpenChild, SessTyped
  <2>8. /\ kernel["root"].total \in Nat /\ kernel["root"].seq \in Nat
        /\ kernel["root"].turns \in Nat
        /\ kernel["child"].total \in Nat /\ kernel["child"].seq \in Nat
        /\ kernel["child"].turns \in Nat
    BY <2>6 DEF KernelType
  <2>9. k = [pc |-> "waiting", total |-> kernel["root"].total,
             seq |-> kernel["root"].seq, turns |-> kernel["root"].turns]
    BY <2>4, <2>6 DEF KernelType
  <2>10. k \in KernelType /\ k.pc = "waiting"
    BY <2>8, <2>9 DEF KernelType, PCs
  <2>11. l \in KernelType /\ l.pc = "idle"
    BY <2>5, <2>6 DEF KernelType, PCs
  <2>12. kernel'["root"] = k /\ kernel'["child"] = l
    BY <1>s, <2>7
  <2>13. kernel' \in [Span -> KernelType]
    BY <1>s, <2>7, <2>10, <2>11
  <2>14. /\ kernel'["root"].pc = "waiting"
         /\ kernel'["child"].pc = "idle"
    BY <2>10, <2>11, <2>12
  <2>15. SessTyped'
    BY <1>0, <1>s, <1>4, <2>3, <2>13, <2>14 DEF OpenChild, SessTyped, rows, counters, truth
  <2>16. deletions' \in Nat
    BY <1>0, <1>s, <1>4, <2>3, <2>13, <2>14 DEF OpenChild, rows, counters, truth
  <2>17. Haunting'
    BY <1>0, <1>s, <1>4, <2>3, <2>13, <2>14 DEF OpenChild, Haunting, SessTyped, rows,
       counters, truth
  <2>18. Ghosts'
    BY <1>0, <1>s, <1>4, <2>3, <2>13, <2>14 DEF OpenChild, SaveSpanMeta, Ghosts, Haunting,
       SessTyped, rows, counters, truth
  <2>19. QED
    BY <2>15, <2>16, <2>17, <2>18 DEF SessInv
<1>5. ASSUME NEW to \in {"idle", "object"}, EndTrace(to) PROVE SessInv'
  <2>1. SaveTraceMeta(0, clock + 1)
    BY <1>5 DEF EndTrace
  <2>2. clock + 1 \in Nat
    BY <1>0 DEF SessTyped
  <2>3. trace' \in TraceType /\ trace'.started = trace.started
    BY <1>0, <2>1, <2>2, TraceSaved
  <2>4. Goes("root", to) /\ "root" \in Span /\ to \in PCs
    BY <1>s, <1>5 DEF EndTrace, PCs
  <2>5. /\ kernel' \in [Span -> KernelType] /\ kernel'["root"].pc = to
        /\ \A r \in Span \ {"root"} : kernel'[r] = kernel[r]
    BY <1>0, <2>4, KernelGoes
  <2>6. SessTyped'
    BY <1>0, <1>s, <1>5, <2>3, <2>5 DEF EndTrace, SessTyped, rows, counters, truth
  <2>7. deletions' \in Nat
    BY <1>0, <1>s, <1>5, <2>3, <2>5 DEF EndTrace, rows, counters, truth
  <2>8. Haunting'
    BY <1>0, <1>s, <1>5, <2>3, <2>5 DEF EndTrace, Haunting, SessTyped, rows, counters, truth
  <2>9. Ghosts'
    BY <1>0, <1>s, <1>5, <2>3, <2>5 DEF EndTrace, SaveTraceMeta, Ghosts, Haunting,
       SessTyped, rows, counters, truth
  <2>10. QED
    BY <2>6, <2>7, <2>8, <2>9 DEF SessInv
<1>6. ASSUME StopChild PROVE SessInv'
  <2>1. PICK k : k = [kernel["root"] EXCEPT !.seq = @ + 1,
             !.pc = IF kernel["child"].pc = "ended" THEN "stopped" ELSE "returned"]
    OBVIOUS
  <2>2. PICK l : l = [kernel["child"] EXCEPT !.pc = "gone"]
    OBVIOUS
  <2>3. kernel["root"] \in KernelType /\ kernel["child"] \in KernelType
    BY <1>0, <1>s DEF SessTyped
  <2>4. kernel' = [r \in Span |-> IF r = "root" THEN k ELSE l]
    BY <1>0, <1>s, <1>6, <2>1, <2>2 DEF StopChild, SessTyped
  <2>5. /\ kernel["root"].total \in Nat /\ kernel["root"].seq \in Nat
        /\ kernel["root"].turns \in Nat
        /\ kernel["child"].total \in Nat /\ kernel["child"].seq \in Nat
        /\ kernel["child"].turns \in Nat
    BY <2>3 DEF KernelType
  <2>6. k = [pc |-> IF kernel["child"].pc = "ended" THEN "stopped" ELSE "returned",
             total |-> kernel["root"].total,
             seq |-> kernel["root"].seq + 1, turns |-> kernel["root"].turns]
    BY <2>1, <2>3 DEF KernelType
  <2>7. /\ k \in KernelType
        /\ k.pc = (IF kernel["child"].pc = "ended" THEN "stopped" ELSE "returned")
    BY <2>5, <2>6 DEF KernelType, PCs
  <2>8. l \in KernelType /\ l.pc = "gone"
    BY <2>2, <2>3 DEF KernelType, PCs
  <2>9. kernel'["root"] = k /\ kernel'["child"] = l
    BY <1>s, <2>4
  <2>10. kernel' \in [Span -> KernelType]
    BY <1>s, <2>4, <2>7, <2>8
  <2>11. /\ kernel'["root"].pc
              = (IF kernel["child"].pc = "ended" THEN "stopped" ELSE "returned")
         /\ kernel'["child"].pc = "gone"
    BY <2>7, <2>8, <2>9
  <2>12. DOMAIN events' = Span /\ \A r \in Span \ {"root"} : events'[r] = events[r]
    BY <1>0, <1>s, <1>6, EventOfOne DEF StopChild
  <2>13. SessTyped'
    BY <1>0, <1>s, <1>6, <2>10, <2>11, <2>12 DEF StopChild, SessTyped, rows, counters, truth
  <2>14. deletions' \in Nat
    BY <1>0, <1>s, <1>6, <2>10, <2>11, <2>12 DEF StopChild, rows, counters, truth
  <2>15. Haunting'
    BY <1>0, <1>s, <1>6, <2>10, <2>11, <2>12 DEF StopChild, Haunting, SessTyped, rows,
       counters, truth
  <2>16. Ghosts'
    BY <1>0, <1>s, <1>6, <2>10, <2>11, <2>12 DEF StopChild, Ghosts, Haunting, SessTyped,
       rows, counters, truth
  <2>17. QED
    BY <2>13, <2>14, <2>15, <2>16 DEF SessInv
<1>7. ASSUME RollUp PROVE SessInv'
  <2>1. PICK k : k = [kernel["root"] EXCEPT !.pc = "returned",
             !.total = kernel["root"].total + kernel["child"].total]
    OBVIOUS
  <2>2. /\ "root" \in Span /\ kernel["root"] \in KernelType
        /\ kernel["child"] \in KernelType
    BY <1>0, <1>s DEF SessTyped
  <2>3. kernel' = [kernel EXCEPT !["root"] = k]
    BY <1>7, <2>1, <2>2 DEF RollUp
  <2>4. /\ kernel["root"].total \in Nat /\ kernel["root"].seq \in Nat
        /\ kernel["root"].turns \in Nat
        /\ kernel["child"].total \in Nat
    BY <2>2 DEF KernelType
  <2>5. k = [pc |-> "returned", total |-> kernel["root"].total + kernel["child"].total,
             seq |-> kernel["root"].seq, turns |-> kernel["root"].turns]
    BY <2>1, <2>2 DEF KernelType, Down
  <2>6. k \in KernelType /\ k.pc = "returned"
    BY <1>s, <2>4, <2>5 DEF KernelType, PCs
  <2>7. /\ kernel' \in [Span -> KernelType] /\ kernel'["root"].pc = "returned"
        /\ \A r \in Span \ {"root"} : kernel'[r] = kernel[r]
    BY <1>0, <2>2, <2>3, <2>6 DEF SessTyped
  <2>8. DOMAIN costs' = Span /\ \A r \in Span \ {"root"} : costs'[r] = costs[r]
    <3>1. CASE kernel["child"].total = 0
      BY <1>0, <1>7, <3>1 DEF RollUp, SessTyped
    <3>2. CASE kernel["child"].total # 0
      BY <1>0, <1>s, <1>7, <3>2, CostOfOne DEF RollUp
    <3>3. QED
      BY <3>1, <3>2
  <2>9. SessTyped'
    BY <1>0, <1>s, <1>7, <2>7, <2>8 DEF RollUp, SessTyped, rows, counters, truth
  <2>10. deletions' \in Nat
    BY <1>0, <1>s, <1>7, <2>7, <2>8 DEF RollUp, rows, counters, truth
  <2>11. Haunting'
    BY <1>0, <1>s, <1>7, <2>7, <2>8 DEF RollUp, Haunting, SessTyped, rows, counters, truth
  <2>12. Ghosts'
    BY <1>0, <1>s, <1>7, <2>7, <2>8 DEF RollUp, Ghosts, Haunting, SessTyped, rows,
       counters, truth
  <2>13. QED
    BY <2>9, <2>10, <2>11, <2>12 DEF SessInv
<1>8. ASSUME FinishTool PROVE SessInv'
  <2>1. /\ FiresTo("root", "PostToolUse", "called")
        /\ "root" \in Span /\ "called" \in PCs
    BY <1>s, <1>8 DEF FinishTool, PCs
  <2>2. /\ kernel' \in [Span -> KernelType] /\ kernel'["root"].pc = "called"
        /\ \A r \in Span \ {"root"} : kernel'[r] = kernel[r]
        /\ DOMAIN events' = Span /\ \A r \in Span \ {"root"} : events'[r] = events[r]
    BY <1>0, <2>1, KernelFires
  <2>3. SessTyped'
    BY <1>0, <1>s, <1>8, <2>2 DEF FinishTool, SessTyped, rows, counters, truth
  <2>4. deletions' \in Nat
    BY <1>0, <1>s, <1>8, <2>2 DEF FinishTool, rows, counters, truth
  <2>5. Haunting'
    BY <1>0, <1>s, <1>8, <2>2 DEF FinishTool, Haunting, SessTyped, rows, counters, truth
  <2>6. Ghosts'
    BY <1>0, <1>s, <1>8, <2>2 DEF FinishTool, Ghosts, Haunting, SessTyped, rows, counters,
       truth
  <2>7. QED
    BY <2>3, <2>4, <2>5, <2>6 DEF SessInv
<1>9. ASSUME NEW s \in Span, StartRun(s) PROVE SessInv'
  <2>1. /\ FiresTo(s, "UserPromptSubmit", "run")
        /\ s \in Span /\ "run" \in PCs
    BY <1>s, <1>9 DEF StartRun, PCs
  <2>2. /\ kernel' \in [Span -> KernelType] /\ kernel'[s].pc = "run"
        /\ \A r \in Span \ {s} : kernel'[r] = kernel[r]
        /\ DOMAIN events' = Span /\ \A r \in Span \ {s} : events'[r] = events[r]
    BY <1>0, <2>1, KernelFires
  <2>3. SessTyped'
    BY <1>0, <1>s, <1>9, <2>2 DEF StartRun, SessTyped, rows, counters, truth
  <2>4. deletions' \in Nat
    BY <1>0, <1>s, <1>9, <2>2 DEF StartRun, rows, counters, truth
  <2>5. Haunting'
    BY <1>0, <1>s, <1>9, <2>2 DEF StartRun, Haunting, SessTyped, rows, counters, truth
  <2>6. Ghosts'
    BY <1>0, <1>s, <1>9, <2>2 DEF StartRun, Ghosts, Haunting, SessTyped, rows, counters,
       truth
  <2>7. QED
    BY <2>3, <2>4, <2>5, <2>6 DEF SessInv
<1>r. ASSUME NEW s \in Span, NEW to \in PCs, NEW more \in Nat, Request(s, to, more),
             kernel[s].pc \notin {"down", "gone", "opening"},
             to \notin {"down", "gone", "opening"}
      PROVE  SessInv'
  <2>1. /\ kernel' \in [Span -> KernelType] /\ kernel'[s].pc = to
        /\ \A r \in Span \ {s} : kernel'[r] = kernel[r]
    BY <1>0, <1>s, <1>r, RequestTells
  <2>2. DOMAIN costs' = Span /\ \A r \in Span \ {s} : costs'[r] = costs[r]
    BY <1>0, <1>s, <1>r, CostOfOne DEF Request
  <2>3. UNCHANGED <<trace, spans, events, memories, clock, deletions, haunted>>
    BY <1>r DEF Request
  <2>4. SessTyped'
    BY <1>0, <2>1, <2>2, <2>3 DEF SessTyped
  <2>5. deletions' \in Nat
    BY <1>0, <2>3
  <2>6. Haunting'
    BY <1>0, <1>s, <1>r, <2>1, <2>3 DEF Haunting
  <2>7. Ghosts'
    BY <1>0, <1>s, <1>r, <2>2, <2>3 DEF Ghosts, Haunting
  <2>8. QED
    BY <2>4, <2>5, <2>6, <2>7 DEF SessInv
<1>10. ASSUME NEW s \in Span, Bill(s) PROVE SessInv'
  <2>1. Request(s, "billed", 1) /\ kernel[s].pc \in {"run", "boundary"}
    BY <1>10 DEF Bill
  <2>2. "billed" \in PCs /\ 1 \in Nat
    BY DEF PCs
  <2>3. QED
    BY <1>r, <2>1, <2>2
<1>11. ASSUME NEW s \in Span, NEW kind, CompleteTurn(s, kind) PROVE SessInv'
  <2>1. PICK to \in {"boundary", "answered"} : FiresTo(s, kind, to)
    BY <1>11 DEF CompleteTurn
  <2>2. /\ kernel' \in [Span -> KernelType] /\ kernel'[s].pc = to
        /\ \A r \in Span \ {s} : kernel'[r] = kernel[r]
        /\ DOMAIN events' = Span /\ \A r \in Span \ {s} : events'[r] = events[r]
    <3>1. to \in PCs
      BY DEF PCs
    <3>2. QED
      BY <1>0, <2>1, <3>1, KernelFires
  <2>3. SessTyped'
    BY <1>0, <1>s, <1>11, <2>2 DEF CompleteTurn, SessTyped, rows, counters, truth
  <2>4. deletions' \in Nat
    BY <1>0, <1>s, <1>11, <2>2 DEF CompleteTurn, rows, counters, truth
  <2>5. Haunting'
    BY <1>0, <1>s, <1>11, <2>2 DEF CompleteTurn, Haunting, SessTyped, rows, counters, truth
  <2>6. Ghosts'
    BY <1>0, <1>s, <1>11, <2>2 DEF CompleteTurn, Ghosts, Haunting, SessTyped, rows,
       counters, truth
  <2>7. QED
    BY <2>3, <2>4, <2>5, <2>6 DEF SessInv
<1>12. ASSUME NEW s \in Span, EndSpan(s) PROVE SessInv'
  <2>1. SaveSpanMeta(s, "", 0, clock + 1) /\ s \in Span
    BY <1>s, <1>12 DEF EndSpan
  <2>2. "" \in {"", "root"} /\ clock + 1 \in Nat
    BY <1>0 DEF SessTyped
  <2>3. /\ spans' \in [Span -> SpanType]
        /\ \A r \in Span \ {s} : spans'[r] = spans[r]
    BY <1>0, <2>1, <2>2, SpanSaved
  <2>4. /\ Goes(s, IF s = "root" THEN "ending" ELSE "ended") /\ s \in Span
        /\ (IF s = "root" THEN "ending" ELSE "ended") \in PCs
    BY <1>s, <1>12 DEF EndSpan, PCs
  <2>5. /\ kernel' \in [Span -> KernelType]
        /\ kernel'[s].pc = (IF s = "root" THEN "ending" ELSE "ended")
        /\ \A r \in Span \ {s} : kernel'[r] = kernel[r]
    BY <1>0, <2>4, KernelGoes
  <2>6. UNCHANGED <<trace, costs, events, memories>> /\ clock' = clock + 1
    BY <1>12 DEF EndSpan, rows, counters
  <2>7. SessTyped'
    BY <1>0, <2>3, <2>5, <2>6 DEF SessTyped
  <2>8. deletions' \in Nat
    BY <1>0, <1>s, <1>12, <2>3, <2>5 DEF EndSpan, rows, counters, truth
  <2>9. Haunting'
    BY <1>0, <1>s, <1>12, <2>3, <2>5 DEF EndSpan, Haunting, SessTyped, rows, counters, truth
  <2>10. Ghosts'
    BY <1>0, <1>s, <1>12, <2>3, <2>5 DEF EndSpan, SaveSpanMeta, Ghosts, Haunting,
       SessTyped, rows, counters, truth
  <2>11. QED
    BY <2>7, <2>8, <2>9, <2>10 DEF SessInv
<1>13. ASSUME NEW s \in Span, FailTurn(s) PROVE SessInv'
  <2>1. PICK k : k = [kernel[s] EXCEPT !.pc = IF s = "root" THEN "idle" ELSE "failed",
             !.seq = @ + 1, !.turns = @ + 1]
    OBVIOUS
  <2>2. s \in Span /\ kernel[s] \in KernelType
    BY <1>0, <1>s DEF SessTyped
  <2>3. kernel' = [kernel EXCEPT ![s] = k]
    BY <1>13, <2>1, <2>2 DEF FailTurn
  <2>4. kernel[s].total \in Nat /\ kernel[s].seq \in Nat /\ kernel[s].turns \in Nat
    BY <2>2 DEF KernelType
  <2>5. k = [pc |-> IF s = "root" THEN "idle" ELSE "failed", total |-> kernel[s].total,
             seq |-> kernel[s].seq + 1, turns |-> kernel[s].turns + 1]
    BY <2>1, <2>2 DEF KernelType, Down
  <2>6. k \in KernelType /\ k.pc = (IF s = "root" THEN "idle" ELSE "failed")
    BY <1>s, <2>4, <2>5 DEF KernelType, PCs
  <2>7. /\ kernel' \in [Span -> KernelType]
        /\ kernel'[s].pc = (IF s = "root" THEN "idle" ELSE "failed")
        /\ \A r \in Span \ {s} : kernel'[r] = kernel[r]
    BY <1>0, <2>2, <2>3, <2>6 DEF SessTyped
  <2>8. DOMAIN events' = Span /\ \A r \in Span \ {s} : events'[r] = events[r]
    BY <1>0, <1>s, <1>13, EventOfOne DEF FailTurn
  <2>9. SessTyped'
    BY <1>0, <1>s, <1>13, <2>7, <2>8 DEF FailTurn, SessTyped, rows, counters, truth
  <2>10. deletions' \in Nat
    BY <1>0, <1>s, <1>13, <2>7, <2>8 DEF FailTurn, rows, counters, truth
  <2>11. Haunting'
    BY <1>0, <1>s, <1>13, <2>7, <2>8 DEF FailTurn, Haunting, SessTyped, rows, counters,
       truth
  <2>12. Ghosts'
    BY <1>0, <1>s, <1>13, <2>7, <2>8 DEF FailTurn, Ghosts, Haunting, SessTyped, rows,
       counters, truth
  <2>13. QED
    BY <2>9, <2>10, <2>11, <2>12 DEF SessInv
<1>14. ASSUME KernelDies PROVE SessInv'
  <2>1. [Down EXCEPT !.pc = "gone"] = [pc |-> "gone", total |-> 0, seq |-> 0, turns |-> 0]
    BY DEF Down
  <2>2. [pc |-> "gone", total |-> 0, seq |-> 0, turns |-> 0] \in KernelType
    BY DEF KernelType, PCs
  <2>3. kernel' \in [Span -> KernelType]
    BY <1>14, <2>1, <2>2 DEF KernelDies
  <2>4. UNCHANGED <<trace, spans, costs, events, memories, clock>>
    BY <1>14 DEF KernelDies, rows, counters
  <2>5. SessTyped'
    BY <1>0, <2>3, <2>4 DEF SessTyped
  <2>6. deletions' \in Nat
    BY <1>0, <1>s, <1>14, <2>3 DEF KernelDies, rows, Down, rows, counters, truth
  <2>7. Haunting'
    BY <1>0, <1>s, <1>14, <2>3 DEF KernelDies, rows, Down, Haunting, SessTyped, rows,
       counters, truth
  <2>8. Ghosts'
    BY <1>0, <1>s, <1>14, <2>3 DEF KernelDies, rows, Down, Ghosts, Haunting, SessTyped,
       rows, counters, truth
  <2>9. QED
    BY <2>5, <2>6, <2>7, <2>8 DEF SessInv
<1>15. ASSUME UpdateTraceTitle PROVE SessInv'
  <2>1. trace \in TraceType
    BY <1>0 DEF SessTyped
  <2>2. trace' = [trace EXCEPT !.here = TRUE, !.titled = TRUE]
    BY <1>15 DEF UpdateTraceTitle
  <2>3. trace' \in TraceType
    BY <2>1, <2>2 DEF TraceType
  <2>4. trace'.started = trace.started
    BY <2>1, <2>2 DEF TraceType
  <2>5. UNCHANGED <<kernel, spans, costs, events, memories, clock>>
    BY <1>15 DEF UpdateTraceTitle, rows, counters
  <2>6. SessTyped'
    BY <1>0, <2>3, <2>4, <2>5 DEF SessTyped
  <2>7. deletions' \in Nat
    BY <1>0, <1>s, <1>15, <2>3, <2>4 DEF UpdateTraceTitle, Works, Begun, rows, counters,
       truth
  <2>8. Haunting'
    BY <1>0, <1>s, <1>15, <2>3, <2>4 DEF UpdateTraceTitle, Works, Begun, Haunting,
       SessTyped, rows, counters, truth
  <2>9. Ghosts'
    BY <1>0, <1>s, <1>15, <2>3, <2>4 DEF UpdateTraceTitle, Works, Begun, Ghosts, Haunting,
       SessTyped, rows, counters, truth
  <2>10. QED
    BY <2>6, <2>7, <2>8, <2>9 DEF SessInv
<1>16. ASSUME NEW s \in Span, SaveMemories(s) PROVE SessInv'
  <2>1. SessTyped'
    BY <1>0, <1>s, <1>16 DEF SaveMemories, Works, Begun, SessTyped, rows, counters, truth
  <2>2. deletions' \in Nat
    BY <1>0, <1>s, <1>16 DEF SaveMemories, Works, Begun, rows, counters, truth
  <2>3. Haunting'
    BY <1>0, <1>s, <1>16 DEF SaveMemories, Works, Begun, Haunting, SessTyped, rows,
       counters, truth
  <2>4. Ghosts'
    BY <1>0, <1>s, <1>16 DEF SaveMemories, Works, Begun, Ghosts, Haunting, SessTyped,
       rows, counters, truth
  <2>5. QED
    BY <2>1, <2>2, <2>3, <2>4 DEF SessInv
<1>17. ASSUME DeleteSession PROVE SessInv'
  <2>1. NoTrace \in TraceType /\ NoSpan \in SpanType
    BY DEF NoTrace, NoSpan, TraceType, SpanType
  <2>2. trace' \in TraceType /\ spans' \in [Span -> SpanType]
    BY <1>17, <2>1 DEF DeleteSession
  <2>3. DOMAIN costs' = Span /\ DOMAIN events' = Span /\ memories' \subseteq Span
    BY <1>0, <1>17 DEF DeleteSession, SessTyped
  <2>4. deletions' = deletions + 1
    BY <1>17 DEF DeleteSession
  <2>5. UNCHANGED <<kernel, clock>>
    BY <1>17 DEF DeleteSession, rows, counters
  <2>6. SessTyped'
    BY <1>0, <2>2, <2>3, <2>4, <2>5 DEF SessTyped
  <2>7. deletions' \in Nat
    BY <1>0, <2>2, <2>3, <2>4
  <2>8. Haunting'
    BY <1>0, <1>s, <1>17, <2>2, <2>3, <2>4 DEF DeleteSession, Begun, Haunts, Alive,
       NoTrace, NoSpan, Haunting, SessTyped, rows, counters, truth
  <2>9. Ghosts'
    BY <1>0, <1>s, <1>17, <2>2, <2>3, <2>4 DEF DeleteSession, Begun, Haunts, Alive,
       NoTrace, NoSpan, Ghosts, Haunting, SessTyped, rows, counters, truth
  <2>10. QED
    BY <2>6, <2>7, <2>8, <2>9 DEF SessInv
<1>18. CASE Dashboard \/ UNCHANGED sessVars
  <2>1. UNCHANGED <<rows, kernel, clock, truth>>
    BY <1>18 DEF Dashboard, ReadTrace, ReadSpans, ReadCosts, ReadEvents, SendPage,
       sessVars, counters
  <2>2. QED
    BY <1>0, <2>1 DEF SessInv, SessTyped, Haunting, Ghosts, rows, truth
<1>19. ASSUME Summarise PROVE SessInv'
  <2>1. PICK to \in {"summed first", "summed"} : Request("root", to, 0)
    BY <1>19 DEF Summarise
  <2>2. /\ "root" \in Span /\ to \in PCs /\ 0 \in Nat
        /\ kernel["root"].pc \in {"idle", "boundary"}
    BY <1>s, <1>19 DEF PCs, Summarise
  <2>3. QED
    BY <1>r, <2>1, <2>2
<1>20. ASSUME StructuredPass PROVE SessInv'
  <2>1. Request("root", "idle", 0) /\ kernel["root"].pc = "object"
    BY <1>20 DEF StructuredPass
  <2>2. "root" \in Span /\ "idle" \in PCs /\ 0 \in Nat
    BY <1>s DEF PCs
  <2>3. QED
    BY <1>r, <2>1, <2>2
<1>21. ASSUME SummaryTold PROVE SessInv'
  <2>1. PICK to \in {"run", "compacted"} : FiresTo("root", "PostCompact", to)
    BY <1>21 DEF SummaryTold
  <2>2. to \in PCs /\ "root" \in Span
    BY <1>s DEF PCs
  <2>3. /\ kernel' \in [Span -> KernelType] /\ kernel'["root"].pc = to
        /\ \A r \in Span \ {"root"} : kernel'[r] = kernel[r]
        /\ DOMAIN events' = Span /\ \A r \in Span \ {"root"} : events'[r] = events[r]
    BY <1>0, <2>1, <2>2, KernelFires
  <2>4. SessTyped'
    BY <1>0, <1>s, <1>21, <2>3 DEF SummaryTold, SessTyped, rows, counters, truth
  <2>5. deletions' \in Nat
    BY <1>0, <1>21 DEF SummaryTold, truth
  <2>6. Haunting'
    BY <1>0, <1>s, <1>21, <2>3 DEF SummaryTold, Haunting, truth
  <2>7. Ghosts'
    BY <1>0, <1>s, <1>21, <2>3 DEF SummaryTold, Ghosts, Haunting, truth
  <2>8. QED
    BY <2>4, <2>5, <2>6, <2>7 DEF SessInv
<1>22. ASSUME NoPass PROVE SessInv'
  <2>1. Goes("root", "idle") /\ "root" \in Span /\ "idle" \in PCs
    BY <1>s, <1>22 DEF NoPass, PCs
  <2>2. /\ kernel' \in [Span -> KernelType] /\ kernel'["root"].pc = "idle"
        /\ \A r \in Span \ {"root"} : kernel'[r] = kernel[r]
    BY <1>0, <2>1, KernelGoes
  <2>3. UNCHANGED <<rows, clock, truth>> /\ kernel["root"].pc = "object"
    BY <1>22 DEF NoPass, counters
  <2>4. QED
    BY <1>0, <1>s, <2>2, <2>3 DEF SessInv, SessTyped, Haunting, Ghosts, rows, truth
<1>23. ASSUME NEW s \in Span, NEW to, LeaveLoop(s, to) PROVE SessInv'
  <2>1. /\ kernel' \in [Span -> KernelType] /\ kernel'[s].pc = to
        /\ \A r \in Span \ {s} : kernel'[r] = kernel[r]
    BY <1>0, <1>23, LeaveTells
  <2>2. /\ UNCHANGED <<rows, clock, truth>> /\ to \in {"answered", "idle", "failed"}
        /\ kernel[s].pc \in {"run", "boundary"}
    BY <1>23 DEF LeaveLoop, counters
  <2>3. QED
    BY <1>0, <1>s, <2>1, <2>2 DEF SessInv, SessTyped, Haunting, Ghosts, rows, truth
<1>24. QED
  BY <1>1, <1>2, <1>3, <1>4, <1>5, <1>6, <1>7, <1>8, <1>9, <1>10, <1>11, <1>12, <1>13,
     <1>14, <1>15, <1>16, <1>17, <1>18, <1>19, <1>20, <1>21, <1>22, <1>23
     DEF SessNext, KernelStep, Chore

\* The invariant holds at first.
LEMMA SessBegins == SessInit => SessInv
<1> SUFFICES ASSUME SessInit PROVE SessInv
  OBVIOUS
<1>1. Down \in KernelType /\ NoSpan \in SpanType /\ NoTrace \in TraceType
  BY DEF Down, KernelType, PCs, NoSpan, SpanType, NoTrace, TraceType
<1>2. SessTyped
  BY <1>1 DEF SessInit, SessTyped
<1>3. deletions \in Nat /\ Haunting /\ Ghosts
  BY DEF SessInit, Haunting, Ghosts
<1>4. QED
  BY <1>2, <1>3 DEF SessInv

\* Whenever the rows of a trace are deleted while it is worked on (DeleteSession in
\* store.go), what is in the tables afterwards comes from a kernel that was live then
\* or from the host, but for the memories of a subagent.
THEOREM GhostsAreAccountedFor == SessSpec => []GhostsHaveAuthors
<1>1. SessInit => SessInv
  BY SessBegins
<1>2. SessInv /\ [SessNext]_sessVars => SessInv'
  BY GhostStep
<1>3. SessInv => GhostsHaveAuthors
  BY DEF SessInv, Ghosts, GhostsHaveAuthors
<1>4. QED
  BY <1>1, <1>2, <1>3, PTL DEF SessSpec

-----------------------------------------------------------------------------
(* What a page shows.                                                       *)

\* A row of costs, and of events.
CostType == [turn : Nat, total : Nat]

EventKinds == {"UserPromptSubmit", "PreToolUse", "PostToolUse", "ToolTurn", "AnswerTurn",
               "CutTurn", "TurnFailed", "SubagentStop", "PostCompact"}

RowType == [seq : Nat, kind : EventKinds, call : Nat]

\* The event that kernel k fires next.
NextEvent(k, kind) == [seq |-> k.seq + 1, kind |-> kind, call |-> CallId(k)]

PagePCs == {"none", "trace", "root", "root events", "child", "child events", "done"}

PageType == [pc : PagePCs, found : BOOLEAN, spans : SUBSET Span,
             costs : [Span -> Seq(CostType)], events : [Span -> Seq(RowType)],
             quiet : BOOLEAN, paidFor : Nat]

\* Events that account for a row of costs.
BillKinds == {"AnswerTurn", "ToolTurn", "CutTurn", "TurnFailed", "SubagentStop",
              "PostCompact"}

BillsIn(evs) == {i \in DOMAIN evs : evs[i].kind \in BillKinds}

\* The rows of costs of a span that no event tells of.
Silent(s) == IF s = "root" THEN objects ELSE 0

\* A call, and its result after it.
CalledIn(evs, id) == \E a \in DOMAIN evs : evs[a].kind = "PreToolUse" /\ evs[a].call = id

TimedIn(evs, id) ==
  \E a, b \in DOMAIN evs : /\ evs[a].kind = "PreToolUse" /\ evs[a].call = id
                           /\ evs[b].kind = "PostToolUse" /\ evs[b].call = id /\ a < b

\* Events of which a timeline can be made.
Tellable(evs) ==
  /\ evs # <<>> => evs[1].kind = "UserPromptSubmit"
  /\ \A i \in DOMAIN evs : evs[i].kind = "ToolTurn" => TimedIn(evs, evs[i].call)

RowsTyped ==
  /\ costs \in [Span -> Seq(CostType)] /\ events \in [Span -> Seq(RowType)]
  /\ paidFor \in Nat /\ objects \in Nat /\ astray \in BOOLEAN

\* Which kernel works while the other does what.
Working ==
  /\ kernel["child"].pc \notin {"down", "gone"} => kernel["root"].pc = "waiting"
  /\ kernel["child"].pc \in {"down", "idle", "run", "billed", "answered", "ended", "failed",
                             "gone"}
  /\ kernel["root"].pc \notin {"ended", "failed"}
  /\ kernel["root"].pc = "stopped" => kernel["child"].pc = "gone"
  /\ kernel["root"].pc = "down" => kernel["child"].pc = "down" /\ paidFor = 0
  /\ kernel["root"].pc # "down" => spans["root"].here
  /\ spans["child"].here => spans["root"].here
  /\ ~astray => kernel["root"].pc # "gone"

\* Where a row of costs may be ahead of its event.
Owing == {"billed", "calling", "waiting", "returned", "called", "summed first", "summed"}

Calling == {"calling", "waiting", "stopped", "returned"}

\* Where a span may be without a prompt: before its kernel has taken a turn.
Early == {"down", "opening", "idle"}

\* The rows of a span, of which k is the kernel: the events of a live kernel are numbered
\* through, and they account for the costs but for the last and for `silent` others.
Straight(k, evs, cs, silent) ==
  /\ k.pc # "gone" => Len(evs) = k.seq /\ \A i \in 1..Len(evs) : evs[i].seq = i
  /\ k.pc = "down" => k.seq = 0 /\ k.total = 0 /\ k.turns = 0 /\ cs = <<>>
  /\ Len(cs) <= Cardinality(BillsIn(evs)) + silent + 1
  /\ k.pc \notin Owing \cup {"gone"} => Len(cs) <= Cardinality(BillsIn(evs)) + silent
  /\ Tellable(evs)
  /\ k.pc \notin Early \cup {"gone"} => evs # <<>>
  /\ k.pc # "gone" /\ k.turns # 0 => evs # <<>>
  /\ k.pc \in Calling => CalledIn(evs, CallId(k))
  /\ k.pc = "called" => TimedIn(evs, CallId(k))

AllStraight == \A s \in Span : Straight(kernel[s], events[s], costs[s], Silent(s))

\* Is the child's cost still to be added to the root's?
Apart == kernel["child"].pc # "gone" \/ kernel["root"].pc = "stopped"

\* Totals and what was paid.
Totals ==
  /\ \A s \in Span : \A i \in DOMAIN costs[s] : costs[s][i].total <= paidFor
  /\ kernel["root"].total <= paidFor
  /\ Apart => kernel["root"].total + kernel["child"].total <= paidFor
  /\ ~astray => paidFor = kernel["root"].total + (IF Apart THEN kernel["child"].total ELSE 0)
  /\ kernel["root"].total # 0 =>
       \E i \in DOMAIN costs["root"] : costs["root"][i].total = kernel["root"].total

\* Which queries of the page have been made.
CostsSeen(s) ==
  /\ s \in page.spans
  /\ \/ page.pc \in {"child events", "done"}
     \/ s = "root" /\ page.pc \in {"root events", "child"}

EventsSeen(s) ==
  /\ s \in page.spans
  /\ \/ page.pc = "done"
     \/ s = "root" /\ page.pc \in {"child", "child events"}

PageShape ==
  /\ page \in PageType
  /\ "child" \in page.spans => "root" \in page.spans
  /\ page.pc \in {"none", "trace"} => page.spans = {}
  /\ page.pc \in {"root", "root events", "child", "child events"} => "root" \in page.spans
  /\ page.pc \in {"child", "child events"} => "child" \in page.spans
  /\ \A s \in Span : /\ ~CostsSeen(s) => page.costs[s] = <<>>
                     /\ ~EventsSeen(s) => page.events[s] = <<>>

\* The costs of the root that the page has or will have.
RootCosts == IF CostsSeen("root") THEN page.costs["root"] ELSE costs["root"]

\* What was read, and what is in the tables.
PageTrue ==
  /\ \A s \in Span :
       /\ EventsSeen(s) =>
            Len(page.costs[s]) <= Cardinality(BillsIn(page.events[s])) + Silent(s) + 1
       /\ ~EventsSeen(s) =>
            Len(page.costs[s]) <= Cardinality(BillsIn(events[s])) + Silent(s) + 1
       /\ Tellable(page.events[s])
       /\ \A i \in DOMAIN page.costs[s] : page.costs[s][i].total <= paidFor
  /\ page.paidFor <= paidFor
  /\ page.pc = "done" /\ "root" \notin page.spans => page.paidFor = 0
  /\ page.pc # "none" /\ page.quiet /\ page.paidFor = paidFor /\ ~astray /\ paidFor # 0 =>
       \E i \in DOMAIN RootCosts : RootCosts[i].total = paidFor

\* What a page and the rows it is made of promise.
PageKept == RowsTyped /\ AllStraight /\ PageShape /\ PageTrue

PageInv == deletions = 0 => PageKept /\ Working /\ Totals

\* The events that account for costs are finitely many.
LEMMA BillsNumber ==
  ASSUME NEW evs \in Seq(RowType)
  PROVE  IsFiniteSet(BillsIn(evs)) /\ Cardinality(BillsIn(evs)) \in Nat
<1>1. Len(evs) \in Nat /\ DOMAIN evs = 1..Len(evs)
  OBVIOUS
<1>2. IsFiniteSet(1..Len(evs))
  BY <1>1, FS_Interval
<1>3. BillsIn(evs) \in SUBSET (1..Len(evs))
  BY <1>1 DEF BillsIn
<1>4. QED
  BY <1>2, <1>3, FS_Subset, FS_CardinalityType

\* How many account for costs with one event more.
LEMMA BillsGrow ==
  ASSUME NEW evs \in Seq(RowType), NEW e \in RowType
  PROVE  Cardinality(BillsIn(Append(evs, e))) =
           Cardinality(BillsIn(evs)) + IF e.kind \in BillKinds THEN 1 ELSE 0
<1>1. /\ Len(evs) \in Nat /\ DOMAIN evs = 1..Len(evs)
      /\ Len(Append(evs, e)) = Len(evs) + 1
      /\ DOMAIN Append(evs, e) = 1..(Len(evs) + 1)
      /\ Append(evs, e)[Len(evs) + 1] = e
      /\ \A i \in 1..Len(evs) : Append(evs, e)[i] = evs[i]
  OBVIOUS
<1>2. IsFiniteSet(BillsIn(evs)) /\ Cardinality(BillsIn(evs)) \in Nat
  BY BillsNumber
<1>3. CASE e.kind \in BillKinds
  <2>1. BillsIn(Append(evs, e)) = BillsIn(evs) \cup {Len(evs) + 1}
    BY <1>1, <1>3 DEF BillsIn
  <2>2. Len(evs) + 1 \notin BillsIn(evs)
    BY <1>1 DEF BillsIn
  <2>3. Cardinality(BillsIn(evs) \cup {Len(evs) + 1}) = Cardinality(BillsIn(evs)) + 1
    BY <1>2, <2>2, FS_AddElement
  <2>4. QED
    BY <1>2, <1>3, <2>1, <2>3
<1>4. CASE e.kind \notin BillKinds
  <2>1. BillsIn(Append(evs, e)) = BillsIn(evs)
    BY <1>1, <1>4 DEF BillsIn
  <2>2. QED
    BY <1>2, <1>4, <2>1
<1>5. QED
  BY <1>2, <1>3, <1>4

\* The id of a call is a number.
LEMMA CallIdType == ASSUME NEW k \in KernelType PROVE CallId(k) \in Nat
BY DEF CallId, KernelType

\* What events have told stays told, and what one more may add.
LEMMA TellsMore ==
  ASSUME NEW evs \in Seq(RowType), NEW e \in RowType, Tellable(evs),
         evs # <<>> \/ e.kind = "UserPromptSubmit", e.kind = "ToolTurn" => TimedIn(evs, e.call)
  PROVE  /\ Tellable(Append(evs, e)) /\ Append(evs, e) # <<>>
         /\ \A id : CalledIn(evs, id) => CalledIn(Append(evs, e), id)
         /\ e.kind = "PreToolUse" => CalledIn(Append(evs, e), e.call)
         /\ CalledIn(evs, e.call) /\ e.kind = "PostToolUse" => TimedIn(Append(evs, e), e.call)
<1> DEFINE more == Append(evs, e)
<1>1. /\ Len(evs) \in Nat /\ DOMAIN evs = 1..Len(evs)
      /\ DOMAIN more = 1..(Len(evs) + 1) /\ more[Len(evs) + 1] = e
      /\ \A i \in 1..Len(evs) : more[i] = evs[i]
      /\ more # <<>> /\ (evs # <<>> => 1 \in 1..Len(evs))
      /\ (evs = <<>> => Len(evs) = 0)
  <2>1. /\ Len(evs) \in Nat /\ DOMAIN evs = 1..Len(evs)
        /\ DOMAIN more = 1..(Len(evs) + 1) /\ more[Len(evs) + 1] = e
        /\ \A i \in 1..Len(evs) : more[i] = evs[i]
    OBVIOUS
  <2>2. more # <<>>
    BY <2>1
  <2>3. evs # <<>> => Len(evs) # 0
    OBVIOUS
  <2>4. evs = <<>> => Len(evs) = 0
    OBVIOUS
  <2>5. QED
    BY <2>1, <2>2, <2>3, <2>4
<1> HIDE DEF more
<1>2. /\ \A id : CalledIn(evs, id) => CalledIn(more, id)
      /\ e.kind = "PreToolUse" => CalledIn(more, e.call)
  BY <1>1 DEF CalledIn
<1>3. \A id : TimedIn(evs, id) => TimedIn(more, id)
  BY <1>1 DEF TimedIn
<1>4. CalledIn(evs, e.call) /\ e.kind = "PostToolUse" => TimedIn(more, e.call)
  <2>1. SUFFICES ASSUME CalledIn(evs, e.call), e.kind = "PostToolUse"
                 PROVE  TimedIn(more, e.call)
    OBVIOUS
  <2>2. PICK a \in 1..Len(evs) : evs[a].kind = "PreToolUse" /\ evs[a].call = e.call
    BY <1>1, <2>1 DEF CalledIn
  <2>3. /\ a \in DOMAIN more /\ Len(evs) + 1 \in DOMAIN more /\ a < Len(evs) + 1
        /\ more[a].kind = "PreToolUse" /\ more[Len(evs) + 1].kind = "PostToolUse"
        /\ more[a].call = e.call /\ more[Len(evs) + 1].call = e.call
    BY <1>1, <2>1, <2>2
  <2>4. QED
    BY <2>3 DEF TimedIn
<1>5. more[1].kind = "UserPromptSubmit"
  BY <1>1 DEF Tellable
<1>6. \A i \in DOMAIN more : more[i].kind = "ToolTurn" => TimedIn(more, more[i].call)
  <2>1. SUFFICES ASSUME NEW i \in DOMAIN more, more[i].kind = "ToolTurn"
                 PROVE  TimedIn(more, more[i].call)
    OBVIOUS
  <2>2. CASE i = Len(evs) + 1
    BY <1>1, <1>3, <2>1, <2>2
  <2>3. CASE i \in 1..Len(evs)
    <3>1. more[i] = evs[i] /\ i \in DOMAIN evs
      BY <1>1, <2>3
    <3>2. QED
      BY <1>3, <2>1, <3>1 DEF Tellable
  <2>4. i = Len(evs) + 1 \/ i \in 1..Len(evs)
    BY <1>1
  <2>5. QED
    BY <2>2, <2>3, <2>4
<1>7. QED
  BY <1>1, <1>2, <1>4, <1>5, <1>6 DEF Tellable, more

\* A kernel fires an event.
LEMMA StraightFires ==
  ASSUME NEW k \in KernelType, NEW m \in KernelType, NEW evs \in Seq(RowType),
         NEW cs \in Seq(CostType), NEW kind \in EventKinds, NEW silent \in Nat,
         Straight(k, evs, cs, silent),
         k.pc \notin {"gone", "down"}, m.seq = k.seq + 1, m.pc \notin {"gone", "down"},
         k.pc \in {"opening", "idle"} => kind = "UserPromptSubmit",
         kind = "ToolTurn" => k.pc = "called",
         m.pc \notin Owing => k.pc \notin Owing \/ kind \in BillKinds,
         m.pc \in Calling => k.pc \in Calling \/ kind = "PreToolUse",
         m.pc = "called" => k.pc \in Calling /\ kind = "PostToolUse",
         m.pc \in Calling \cup {"called"} => CallId(m) = CallId(k)
  PROVE  Straight(m, Append(evs, NextEvent(k, kind)), cs, silent)
<1>1. PICK e : e = NextEvent(k, kind)
  OBVIOUS
<1>2. e \in RowType /\ e.kind = kind /\ e.seq = k.seq + 1 /\ e.call = CallId(k)
  BY <1>1, CallIdType DEF RowType, KernelType, NextEvent
<1>3. PICK more : more = Append(evs, e)
  OBVIOUS
<1>4. /\ k.seq \in Nat /\ Len(evs) = k.seq /\ \A i \in 1..Len(evs) : evs[i].seq = i
      /\ Tellable(evs)
  BY DEF Straight, KernelType
<1>5. Len(more) = m.seq /\ \A i \in 1..Len(more) : more[i].seq = i
  <2>1. /\ Len(more) = k.seq + 1 /\ more[k.seq + 1] = e
        /\ \A i \in 1..k.seq : more[i] = evs[i]
    BY <1>2, <1>3, <1>4
  <2>2. \A i \in 1..(k.seq + 1) : i = k.seq + 1 \/ i \in 1..k.seq
    BY <1>4
  <2>3. QED
    BY <1>2, <1>4, <2>1, <2>2
<1>6. /\ Cardinality(BillsIn(evs)) \in Nat
      /\ Cardinality(BillsIn(more)) =
           Cardinality(BillsIn(evs)) + IF kind \in BillKinds THEN 1 ELSE 0
  BY <1>2, <1>3, BillsNumber, BillsGrow
<1>7. /\ Tellable(more) /\ more # <<>>
      /\ CalledIn(evs, CallId(k)) \/ kind = "PreToolUse" => CalledIn(more, CallId(k))
      /\ CalledIn(evs, CallId(k)) /\ kind = "PostToolUse" => TimedIn(more, CallId(k))
  <2>1. evs # <<>> \/ e.kind = "UserPromptSubmit"
    BY <1>2 DEF Straight, Early
  <2>2. e.kind = "ToolTurn" => TimedIn(evs, e.call)
    BY <1>2 DEF Straight
  <2>3. /\ Tellable(more) /\ more # <<>>
        /\ \A id : CalledIn(evs, id) => CalledIn(more, id)
        /\ e.kind = "PreToolUse" => CalledIn(more, e.call)
        /\ CalledIn(evs, e.call) /\ e.kind = "PostToolUse" => TimedIn(more, e.call)
    BY <1>2, <1>3, <1>4, <2>1, <2>2, TellsMore
  <2>4. QED
    BY <1>2, <2>3
<1>8. Len(cs) \in Nat
  OBVIOUS
<1>9. /\ Len(cs) <= Cardinality(BillsIn(more)) + silent + 1
      /\ m.pc \notin Owing \cup {"gone"} => Len(cs) <= Cardinality(BillsIn(more)) + silent
  <2>1. /\ Len(cs) <= Cardinality(BillsIn(evs)) + silent + 1
        /\ k.pc \notin Owing => Len(cs) <= Cardinality(BillsIn(evs)) + silent
    BY DEF Straight
  <2>2. QED
    BY <1>6, <1>8, <2>1
<1>10. m.pc \in Calling => CalledIn(more, CallId(m))
  BY <1>7 DEF Straight
<1>11. m.pc = "called" => TimedIn(more, CallId(m))
  BY <1>7 DEF Straight
<1>12. Straight(m, more, cs, silent)
  BY <1>5, <1>7, <1>9, <1>10, <1>11 DEF Straight
<1>13. QED
  BY <1>1, <1>3, <1>12

\* A kernel adds a row of costs, which an event will tell of or none does.
LEMMA StraightBills ==
  ASSUME NEW k \in KernelType, NEW m \in KernelType, NEW evs \in Seq(RowType),
         NEW cs \in Seq(CostType), NEW c \in CostType, NEW silent \in Nat, NEW more \in Nat,
         Straight(k, evs, cs, silent), evs # <<>>,
         k.pc \notin Owing \cup {"gone"}, m.seq = k.seq, m.pc \notin {"down", "called"},
         m.pc \in Calling => k.pc \in Calling /\ CallId(m) = CallId(k),
         IF m.pc \in Owing THEN more = silent ELSE more = silent + 1
  PROVE  Straight(m, evs, Append(cs, c), more)
<1>1. Len(Append(cs, c)) = Len(cs) + 1 /\ Len(cs) \in Nat
  OBVIOUS
<1>2. Cardinality(BillsIn(evs)) \in Nat
  BY BillsNumber
<1>3. Len(cs) <= Cardinality(BillsIn(evs)) + silent
  BY DEF Straight
<1>4. /\ Len(Append(cs, c)) <= Cardinality(BillsIn(evs)) + more + 1
      /\ m.pc \notin Owing => Len(Append(cs, c)) <= Cardinality(BillsIn(evs)) + more
  BY <1>1, <1>2, <1>3
<1>5. QED
  BY <1>4 DEF Straight

\* A kernel goes on, or dies.
LEMMA StraightGoes ==
  ASSUME NEW k \in KernelType, NEW m \in KernelType, NEW evs \in Seq(RowType),
         NEW cs \in Seq(CostType), NEW silent \in Nat, Straight(k, evs, cs, silent),
         \/ m.pc = "gone"
         \/ /\ m.seq = k.seq /\ k.pc # "gone" /\ m.pc # "down"
            /\ m.pc \notin Owing => k.pc \notin Owing
            /\ m.pc \notin {"opening", "idle"} => k.pc \notin Early
            /\ m.turns # 0 => k.turns # 0 \/ k.pc \notin Early
            /\ m.pc \in Calling => k.pc \in Calling /\ CallId(m) = CallId(k)
            /\ m.pc # "called"
  PROVE  Straight(m, evs, cs, silent)
<1>1. Cardinality(BillsIn(evs)) \in Nat /\ Len(cs) \in Nat
  BY BillsNumber
<1>2. CASE m.pc = "gone"
  BY <1>2 DEF Straight, Calling
<1>3. CASE m.pc # "gone"
  BY <1>1, <1>3 DEF Straight, Early
<1>4. QED
  BY <1>2, <1>3

\* An event of a kernel that is not gone is the last of its span.
LEMMA EventIsLast ==
  ASSUME RowsTyped, NEW s \in Span, NEW kind \in EventKinds, FireEvent(s, kind),
         kernel[s] \in KernelType, Straight(kernel[s], events[s], costs[s], Silent(s)),
         kernel[s].pc # "gone"
  PROVE  /\ events' \in [Span -> Seq(RowType)]
         /\ events'[s] = Append(events[s], NextEvent(kernel[s], kind))
         /\ \A r \in Span \ {s} : events'[r] = events[r]
<1>1. PICK evs : evs = events[s]
  OBVIOUS
<1>2. PICK n : n = kernel[s].seq + 1
  OBVIOUS
<1>3. /\ evs \in Seq(RowType) /\ n \in Nat /\ Len(evs) = n - 1 /\ DOMAIN evs = 1..Len(evs)
      /\ \A i \in 1..Len(evs) : evs[i].seq = i
  BY <1>1, <1>2 DEF RowsTyped, Straight, KernelType
<1>4. ~\E i \in DOMAIN evs : evs[i].seq = n
  BY <1>3
<1>5. {i \in DOMAIN evs : evs[i].seq < n} = 1..Len(evs)
  BY <1>3
<1>6. Cardinality(1..Len(evs)) = n - 1
  BY <1>3, FS_Interval
<1>7. PICK e : e = [seq |-> n, kind |-> kind, call |-> CallId(kernel[s])]
  OBVIOUS
<1>8. e \in RowType
  BY <1>3, <1>7, CallIdType DEF RowType
<1>9. PICK more : more = InsertAt(evs, n, e)
  OBVIOUS
<1>10. more = Append(evs, e)
  <2>1. SubSeq(evs, 1, n - 1) = evs /\ SubSeq(evs, n, Len(evs)) = <<>>
    BY <1>3
  <2>2. more = (evs \o <<e>>) \o <<>>
    BY <1>9, <2>1 DEF InsertAt
  <2>3. evs \o <<e>> = Append(evs, e) /\ evs \o <<e>> \in Seq(RowType)
    BY <1>3, <1>8
  <2>4. QED
    BY <1>3, <1>8, <2>2, <2>3
<1>11. events' = [events EXCEPT ![s] = more]
  <2>1. Cardinality({i \in DOMAIN evs : evs[i].seq < n}) + 1 = n
    <3>1. Cardinality({i \in DOMAIN evs : evs[i].seq < n}) = n - 1
      BY <1>5, <1>6, Zenon
    <3>2. QED
      BY <1>3, <3>1
  <2>2. ~\E i \in DOMAIN events[s] : events[s][i].seq = n
    BY <1>1, <1>4
  <2>3. Cardinality({i \in DOMAIN events[s] : events[s][i].seq < n}) + 1 = n
    BY <1>1, <2>1
  <2>4. events' = [events EXCEPT ![s] = InsertAt(events[s], n, e)]
    BY <1>2, <1>7, <2>2, <2>3 DEF FireEvent, RowsTyped
  <2>5. QED
    BY <1>1, <1>9, <2>4
<1>12. more \in Seq(RowType)
  BY <1>3, <1>8, <1>10
<1>13. e = NextEvent(kernel[s], kind)
  BY <1>2, <1>7 DEF NextEvent
<1>14. QED
  BY <1>1, <1>10, <1>11, <1>12, <1>13 DEF RowsTyped

\* A page that no query changes stays true while rows are added.
LEMMA PageStays ==
  ASSUME PageShape, PageTrue, RowsTyped, RowsTyped', UNCHANGED page, paidFor <= paidFor',
         astray => astray', objects <= objects',
         \A s \in Span : Cardinality(BillsIn(events[s])) <= Cardinality(BillsIn(events'[s])),
         \A s \in Span : \A i \in DOMAIN costs[s] :
           i \in DOMAIN costs'[s] /\ costs'[s][i] = costs[s][i]
  PROVE  PageShape' /\ PageTrue'
<1>1. /\ \A s \in Span : /\ CostsSeen(s)' <=> CostsSeen(s)
                         /\ EventsSeen(s)' <=> EventsSeen(s)
      /\ page' = page
  BY DEF CostsSeen, EventsSeen
<1>2. PageShape'
  BY <1>1 DEF PageShape
<1>3. paidFor \in Nat /\ paidFor' \in Nat /\ page.paidFor \in Nat
      /\ page.paidFor <= paidFor /\ "root" \in Span
  BY DEF RowsTyped, PageTrue, PageShape, PageType, Span
<1>4. ASSUME NEW s \in Span
      PROVE  /\ EventsSeen(s)' =>
                  Len(page'.costs[s]) <= Cardinality(BillsIn(page'.events[s])) + Silent(s)' + 1
             /\ ~EventsSeen(s)' =>
                  Len(page'.costs[s]) <= Cardinality(BillsIn(events'[s])) + Silent(s)' + 1
             /\ Tellable(page'.events[s])
             /\ \A i \in DOMAIN page'.costs[s] : page'.costs[s][i].total <= paidFor'
  <2>1. /\ Cardinality(BillsIn(events[s])) \in Nat
        /\ Cardinality(BillsIn(events'[s])) \in Nat
        /\ Cardinality(BillsIn(page.events[s])) \in Nat /\ Len(page.costs[s]) \in Nat
        /\ \A i \in DOMAIN page.costs[s] : page.costs[s][i].total \in Nat
    <3>1. events[s] \in Seq(RowType) /\ events'[s] \in Seq(RowType)
      BY DEF RowsTyped
    <3>2. page.costs[s] \in Seq(CostType) /\ page.events[s] \in Seq(RowType)
      BY DEF PageShape, PageType
    <3>3. \A i \in DOMAIN page.costs[s] : page.costs[s][i] \in CostType
      BY <3>2
    <3>4. \A i \in DOMAIN page.costs[s] : page.costs[s][i].total \in Nat
      BY <3>3 DEF CostType
    <3>5. Len(page.costs[s]) \in Nat
      BY <3>2
    <3>6. QED
      BY <3>1, <3>2, <3>4, <3>5, BillsNumber
  <2>2. Cardinality(BillsIn(events[s])) <= Cardinality(BillsIn(events'[s]))
    OBVIOUS
  <2>3. /\ EventsSeen(s) =>
             Len(page.costs[s]) <= Cardinality(BillsIn(page.events[s])) + Silent(s) + 1
        /\ ~EventsSeen(s) =>
             Len(page.costs[s]) <= Cardinality(BillsIn(events[s])) + Silent(s) + 1
        /\ Tellable(page.events[s])
        /\ \A i \in DOMAIN page.costs[s] : page.costs[s][i].total <= paidFor
    BY DEF PageTrue
  <2>4. \A i \in DOMAIN page.costs[s] : page.costs[s][i].total <= paidFor'
    BY <1>3, <2>1, <2>3
  <2>5. Silent(s) \in Nat /\ Silent(s)' \in Nat /\ Silent(s) <= Silent(s)'
    BY DEF RowsTyped, Silent
  <2>6. /\ EventsSeen(s) =>
             Len(page.costs[s]) <= Cardinality(BillsIn(page.events[s])) + Silent(s)' + 1
        /\ ~EventsSeen(s) =>
             Len(page.costs[s]) <= Cardinality(BillsIn(events'[s])) + Silent(s)' + 1
    BY <2>1, <2>2, <2>3, <2>5
  <2>7. QED
    BY <1>1, <2>3, <2>4, <2>6
<1>5. page'.paidFor <= paidFor'
  BY <1>1, <1>3
<1>6. page'.pc = "done" /\ "root" \notin page'.spans => page'.paidFor = 0
  BY <1>1 DEF PageTrue
<1>7. ASSUME page'.pc # "none", page'.quiet, page'.paidFor = paidFor', ~astray',
             paidFor' # 0
      PROVE  \E i \in DOMAIN RootCosts' : RootCosts'[i].total = paidFor'
  <2>1. page.paidFor = paidFor /\ ~astray /\ paidFor = paidFor'
    BY <1>1, <1>3, <1>7
  <2>2. PICK i \in DOMAIN RootCosts : RootCosts[i].total = paidFor
    BY <1>1, <1>7, <2>1 DEF PageTrue
  <2>3. i \in DOMAIN RootCosts' /\ RootCosts'[i] = RootCosts[i]
    BY <1>1, <1>3, <2>2 DEF RootCosts
  <2>4. QED
    BY <2>1, <2>2, <2>3
<1>8. QED
  BY <1>2, <1>4, <1>5, <1>6, <1>7 DEF PageTrue

\* A kernel fires an event, and the other one stays or dies.
LEMMA FiringKeeps ==
  ASSUME PageKept, SessTyped, SessTyped', NEW s \in Span, NEW kind \in EventKinds,
         FireEvent(s, kind), UNCHANGED <<costs, page, paidFor, objects>>, astray => astray',
         astray' \in BOOLEAN, kernel'[s].seq = kernel[s].seq + 1,
         kernel[s].pc \notin {"gone", "down"}, kernel'[s].pc \notin {"gone", "down"},
         kernel[s].pc \in {"opening", "idle"} => kind = "UserPromptSubmit",
         kind = "ToolTurn" => kernel[s].pc = "called",
         kernel'[s].pc \notin Owing => kernel[s].pc \notin Owing \/ kind \in BillKinds,
         kernel'[s].pc \in Calling => kernel[s].pc \in Calling \/ kind = "PreToolUse",
         kernel'[s].pc = "called" => kernel[s].pc \in Calling /\ kind = "PostToolUse",
         kernel'[s].pc \in Calling \cup {"called"} => kernel'[s].turns = kernel[s].turns,
         \A r \in Span \ {s} : kernel'[r] = kernel[r] \/ kernel'[r].pc = "gone"
  PROVE  PageKept'
<1>1. /\ \A r \in Span : kernel[r] \in KernelType /\ kernel'[r] \in KernelType
      /\ \A r \in Span : events[r] \in Seq(RowType) /\ costs[r] \in Seq(CostType)
      /\ \A r \in Span : Straight(kernel[r], events[r], costs[r], Silent(r))
      /\ costs' = costs
      /\ \A r \in Span : Silent(r) \in Nat /\ Silent(r)' = Silent(r)
  BY DEF PageKept, SessTyped, RowsTyped, AllStraight, Silent
<1>2. /\ events' \in [Span -> Seq(RowType)]
      /\ events'[s] = Append(events[s], NextEvent(kernel[s], kind))
      /\ \A r \in Span \ {s} : events'[r] = events[r]
  BY <1>1, EventIsLast DEF PageKept
<1>3. RowsTyped'
  BY <1>2 DEF RowsTyped, PageKept
<1>4. Straight(kernel'[s], events'[s], costs'[s], Silent(s)')
  <2>1. kernel'[s].pc \in Calling \cup {"called"} => CallId(kernel'[s]) = CallId(kernel[s])
    BY DEF CallId
  <2>2. PICK silent \in Nat : silent = Silent(s)
    BY <1>1
  <2>3. /\ kernel[s] \in KernelType /\ kernel'[s] \in KernelType
        /\ events[s] \in Seq(RowType) /\ costs[s] \in Seq(CostType)
        /\ Straight(kernel[s], events[s], costs[s], silent)
    BY <1>1, <2>2
  <2>4. Straight(kernel'[s], Append(events[s], NextEvent(kernel[s], kind)), costs[s], silent)
    BY <2>1, <2>3, StraightFires, ZenonT(60)
  <2>5. QED
    BY <1>1, <1>2, <2>2, <2>4
<1>5. ASSUME NEW r \in Span \ {s}
      PROVE  Straight(kernel'[r], events'[r], costs'[r], Silent(r)')
  <2>1. /\ kernel[r] \in KernelType /\ kernel'[r] \in KernelType /\ events'[r] = events[r]
        /\ events[r] \in Seq(RowType) /\ costs[r] \in Seq(CostType) /\ costs'[r] = costs[r]
        /\ Straight(kernel[r], events[r], costs[r], Silent(r))
        /\ Silent(r) \in Nat /\ Silent(r)' = Silent(r)
    BY <1>1, <1>2
  <2>2. CASE kernel'[r] = kernel[r]
    BY <2>1, <2>2
  <2>3. CASE kernel'[r].pc = "gone"
    BY <2>1, <2>3, StraightGoes
  <2>4. QED
    BY <2>2, <2>3
<1>6. AllStraight'
  BY <1>4, <1>5 DEF AllStraight
<1>7. ASSUME NEW r \in Span
      PROVE  Cardinality(BillsIn(events[r])) <= Cardinality(BillsIn(events'[r]))
  <2>1. PICK e : e = NextEvent(kernel[s], kind)
    OBVIOUS
  <2>2. kernel[s] \in KernelType
    BY <1>1
  <2>3. e \in RowType
    BY <2>1, <2>2, CallIdType DEF KernelType, RowType, NextEvent
  <2>4. events[r] \in Seq(RowType) /\ Cardinality(BillsIn(events[r])) \in Nat
    BY <1>1, BillsNumber
  <2>5. CASE r = s
    <3>1. Cardinality(BillsIn(Append(events[r], e))) =
             Cardinality(BillsIn(events[r])) + IF e.kind \in BillKinds THEN 1 ELSE 0
      BY <2>3, <2>4, BillsGrow
    <3>2. events'[r] = Append(events[r], e)
      BY <1>2, <2>1, <2>5
    <3>3. QED
      BY <2>4, <3>1, <3>2
  <2>6. CASE r # s
    BY <1>2, <2>4, <2>6
  <2>7. QED
    BY <2>5, <2>6
<1>8. PageShape' /\ PageTrue'
  <2>1. /\ PageShape /\ PageTrue /\ RowsTyped /\ UNCHANGED page /\ paidFor <= paidFor'
        /\ objects <= objects'
        /\ \A r \in Span : \A i \in DOMAIN costs[r] :
             i \in DOMAIN costs'[r] /\ costs'[r][i] = costs[r][i]
    BY <1>1 DEF PageKept, RowsTyped
  <2>2. QED
    BY <1>3, <1>7, <2>1, PageStays
<1>9. QED
  BY <1>3, <1>6, <1>8 DEF PageKept

\* Kernels go on or die and write no row.
LEMMA GoingKeeps ==
  ASSUME PageKept, SessTyped, SessTyped',
         UNCHANGED <<events, costs, page, paidFor, objects>>,
         astray => astray', astray' \in BOOLEAN,
         \A r \in Span :
           \/ kernel'[r] = kernel[r]
           \/ kernel'[r].pc = "gone"
           \/ /\ kernel'[r].seq = kernel[r].seq /\ kernel[r].pc # "gone"
              /\ kernel'[r].pc # "down"
              /\ kernel'[r].pc \notin Owing => kernel[r].pc \notin Owing
              /\ kernel'[r].pc \notin {"opening", "idle"} => kernel[r].pc \notin Early
              /\ kernel'[r].turns # 0 => kernel[r].turns # 0 \/ kernel[r].pc \notin Early
              /\ kernel'[r].pc \in Calling =>
                   kernel[r].pc \in Calling /\ kernel'[r].turns = kernel[r].turns
              /\ kernel'[r].pc # "called"
  PROVE  PageKept'
<1>1. RowsTyped' /\ RowsTyped
  BY DEF PageKept, RowsTyped
<1>2. ASSUME NEW r \in Span PROVE Straight(kernel'[r], events'[r], costs'[r], Silent(r)')
  <2>1. /\ kernel[r] \in KernelType /\ kernel'[r] \in KernelType /\ events'[r] = events[r]
        /\ events[r] \in Seq(RowType) /\ costs[r] \in Seq(CostType) /\ costs'[r] = costs[r]
        /\ Straight(kernel[r], events[r], costs[r], Silent(r))
        /\ Silent(r) \in Nat /\ Silent(r)' = Silent(r)
    BY <1>1 DEF PageKept, SessTyped, RowsTyped, AllStraight, Silent
  <2>2. CASE kernel'[r] = kernel[r]
    BY <2>1, <2>2
  <2>3. CASE kernel'[r] # kernel[r]
    <3>1. kernel'[r].turns = kernel[r].turns => CallId(kernel'[r]) = CallId(kernel[r])
      BY DEF CallId
    <3>2. PICK silent \in Nat : silent = Silent(r)
      BY <2>1
    <3>3. /\ Straight(kernel[r], events[r], costs[r], silent)
          /\ kernel[r] \in KernelType /\ kernel'[r] \in KernelType
          /\ events[r] \in Seq(RowType) /\ costs[r] \in Seq(CostType)
      BY <2>1, <3>2
    <3>4. Straight(kernel'[r], events[r], costs[r], silent)
      BY <2>3, <3>1, <3>3, StraightGoes
    <3>5. QED
      BY <2>1, <3>2, <3>4
  <2>4. QED
    BY <2>2, <2>3
<1>3. AllStraight'
  BY <1>2 DEF AllStraight
<1>4. PageShape' /\ PageTrue'
  <2>1. /\ PageShape /\ PageTrue /\ UNCHANGED page /\ paidFor <= paidFor'
        /\ objects <= objects'
        /\ \A r \in Span : \A i \in DOMAIN costs[r] :
             i \in DOMAIN costs'[r] /\ costs'[r][i] = costs[r][i]
    BY <1>1 DEF PageKept, RowsTyped
  <2>2. \A r \in Span : Cardinality(BillsIn(events[r])) <= Cardinality(BillsIn(events'[r]))
    BY <1>1, BillsNumber DEF RowsTyped
  <2>3. QED
    BY <1>1, <2>1, <2>2, PageStays
<1>5. QED
  BY <1>1, <1>3, <1>4 DEF PageKept

\* A kernel bills a request or what a subagent has cost.
LEMMA BillingKeeps ==
  ASSUME PageKept, SessTyped, SessTyped', NEW s \in Span, NEW turn \in Nat,
         NEW total \in Nat, AppendCost(s, turn, total),
         UNCHANGED <<events, page, astray>>, paidFor' \in Nat, paidFor <= paidFor',
         kernel[s].pc \notin Owing \cup {"gone"},
         kernel[s].pc \notin Early \/ kernel[s].turns # 0,
         kernel'[s].seq = kernel[s].seq, kernel'[s].pc \notin {"down", "called"},
         kernel'[s].pc \in Calling =>
           kernel[s].pc \in Calling /\ kernel'[s].turns = kernel[s].turns,
         IF kernel'[s].pc \in Owing THEN objects' = objects
           ELSE s = "root" /\ objects' = objects + 1,
         \A r \in Span \ {s} : kernel'[r] = kernel[r]
  PROVE  /\ PageKept' /\ costs'[s] = Append(costs[s], [turn |-> turn, total |-> total])
         /\ \A r \in Span \ {s} : costs'[r] = costs[r]
<1>1. PICK c : c = [turn |-> turn, total |-> total]
  OBVIOUS
<1>2. c \in CostType /\ RowsTyped
  BY <1>1 DEF CostType, PageKept
<1>3. /\ costs' \in [Span -> Seq(CostType)] /\ costs'[s] = Append(costs[s], c)
      /\ \A r \in Span \ {s} : costs'[r] = costs[r]
  BY <1>1, <1>2 DEF AppendCost, RowsTyped
<1>o. objects \in Nat /\ objects' \in Nat /\ objects <= objects'
  BY <1>2 DEF RowsTyped
<1>4. RowsTyped'
  BY <1>2, <1>3, <1>o DEF RowsTyped
<1>5. ASSUME NEW r \in Span PROVE Straight(kernel'[r], events'[r], costs'[r], Silent(r)')
  <2>1. /\ kernel[r] \in KernelType /\ kernel'[r] \in KernelType /\ events'[r] = events[r]
        /\ events[r] \in Seq(RowType) /\ costs[r] \in Seq(CostType)
        /\ Straight(kernel[r], events[r], costs[r], Silent(r))
    BY <1>2 DEF PageKept, SessTyped, RowsTyped, AllStraight
  <2>2. CASE r # s
    <3>1. Silent(r)' = Silent(r)
      BY <2>2 DEF Silent
    <3>2. QED
      BY <1>3, <2>1, <2>2, <3>1
  <2>3. CASE r = s
    <3>1. PICK silent, more : silent = Silent(s) /\ more = Silent(s)'
      OBVIOUS
    <3>2. /\ silent \in Nat /\ more \in Nat
          /\ IF kernel'[s].pc \in Owing THEN more = silent ELSE more = silent + 1
      BY <1>o, <3>1 DEF Silent
    <3>3. kernel'[s].turns = kernel[s].turns => CallId(kernel'[s]) = CallId(kernel[s])
      BY DEF CallId
    <3>4. /\ kernel[s] \in KernelType /\ kernel'[s] \in KernelType
          /\ events[s] \in Seq(RowType) /\ costs[s] \in Seq(CostType)
          /\ Straight(kernel[s], events[s], costs[s], silent)
      BY <2>1, <2>3, <3>1
    <3>5. events[s] # <<>>
      BY <3>4 DEF Straight, Early
    <3>6. Straight(kernel'[s], events[s], Append(costs[s], c), more)
      BY <1>2, <3>2, <3>3, <3>4, <3>5, StraightBills, ZenonT(60)
    <3>7. QED
      BY <1>3, <2>1, <2>3, <3>1, <3>6
  <2>4. QED
    BY <2>2, <2>3
<1>6. AllStraight'
  BY <1>5 DEF AllStraight
<1>7. PageShape' /\ PageTrue'
  <2>1. /\ PageShape /\ PageTrue /\ UNCHANGED page /\ (astray => astray')
    BY DEF PageKept
  <2>2. ASSUME NEW r \in Span, NEW i \in DOMAIN costs[r]
        PROVE  i \in DOMAIN costs'[r] /\ costs'[r][i] = costs[r][i]
    <3>1. costs[r] \in Seq(CostType)
      BY <1>2 DEF RowsTyped
    <3>2. CASE r # s
      BY <1>3, <3>2
    <3>3. CASE r = s
      BY <1>2, <1>3, <3>1, <3>3
    <3>4. QED
      BY <3>2, <3>3
  <2>3. \A r \in Span : Cardinality(BillsIn(events[r])) <= Cardinality(BillsIn(events'[r]))
    BY <1>2, BillsNumber DEF RowsTyped
  <2>4. QED
    BY <1>2, <1>4, <1>o, <2>1, <2>2, <2>3, PageStays
<1>8. QED
  BY <1>1, <1>3, <1>4, <1>6, <1>7 DEF PageKept

\* What a kernel that fires an event and goes on leaves as it was.
LEMMA FiringTells ==
  ASSUME SessTyped, NEW s \in Span, NEW kind, NEW x, FiresTo(s, kind, x)
  PROVE  /\ kernel'[s].pc = x /\ kernel'[s].seq = kernel[s].seq + 1
         /\ kernel'[s].total = kernel[s].total /\ kernel'[s].turns = kernel[s].turns
         /\ \A r \in Span \ {s} : kernel'[r] = kernel[r]
<1>1. PICK k : k = [kernel[s] EXCEPT !.pc = x, !.seq = @ + 1]
  OBVIOUS
<1>2. kernel[s] \in KernelType
  BY DEF SessTyped
<1>3. kernel' = [kernel EXCEPT ![s] = k]
  BY <1>1, <1>2 DEF FiresTo
<1>4. k = [pc |-> x, total |-> kernel[s].total, seq |-> kernel[s].seq + 1,
           turns |-> kernel[s].turns]
  BY <1>1, <1>2 DEF KernelType
<1>5. kernel'[s] = k /\ \A r \in Span \ {s} : kernel'[r] = kernel[r]
  BY <1>3 DEF SessTyped
<1>6. QED
  BY <1>4, <1>5

\* What a kernel that goes on leaves as it was.
LEMMA GoingTells ==
  ASSUME SessTyped, NEW s \in Span, NEW x, Goes(s, x)
  PROVE  /\ kernel'[s].pc = x /\ kernel'[s].seq = kernel[s].seq
         /\ kernel'[s].total = kernel[s].total /\ kernel'[s].turns = kernel[s].turns
         /\ \A r \in Span \ {s} : kernel'[r] = kernel[r]
<1>1. PICK k : k = [kernel[s] EXCEPT !.pc = x]
  OBVIOUS
<1>2. kernel[s] \in KernelType
  BY DEF SessTyped
<1>3. kernel' = [kernel EXCEPT ![s] = k]
  BY <1>1 DEF Goes
<1>4. k = [pc |-> x, total |-> kernel[s].total, seq |-> kernel[s].seq,
           turns |-> kernel[s].turns]
  BY <1>1, <1>2 DEF KernelType
<1>5. kernel'[s] = k /\ \A r \in Span \ {s} : kernel'[r] = kernel[r]
  BY <1>3 DEF SessTyped
<1>6. QED
  BY <1>4, <1>5

\* The root's kernel is opened.
LEMMA OpenRootTells ==
  ASSUME SessTyped, OpenRoot
  PROVE  /\ kernel'["root"].pc = "opening" /\ kernel'["root"].seq = 0
         /\ kernel'["root"].total = 0 /\ kernel'["root"].turns = 0
         /\ kernel'["child"] = kernel["child"]
         /\ spans'["root"].here /\ spans'["child"] = spans["child"]
<1>s. Span = {"root", "child"}
  BY DEF Span
<1>1. PICK k : k = [Down EXCEPT !.pc = "opening"]
  OBVIOUS
<1>2. kernel' = [kernel EXCEPT !["root"] = k]
  BY <1>1 DEF OpenRoot
<1>3. k = [pc |-> "opening", total |-> 0, seq |-> 0, turns |-> 0]
  BY <1>1 DEF Down
<1>4. kernel'["root"] = k /\ kernel'["child"] = kernel["child"]
  BY <1>s, <1>2 DEF SessTyped
<1>5. spans'["root"].here /\ spans'["child"] = spans["child"]
  BY <1>s DEF OpenRoot, SaveSpanMeta, SessTyped
<1>6. QED
  BY <1>3, <1>4, <1>5

\* The child's kernel is opened.
LEMMA OpenChildTells ==
  ASSUME SessTyped, OpenChild
  PROVE  /\ kernel'["root"].pc = "waiting" /\ kernel'["root"].seq = kernel["root"].seq
         /\ kernel'["root"].total = kernel["root"].total
         /\ kernel'["root"].turns = kernel["root"].turns
         /\ kernel'["child"].pc = "idle" /\ kernel'["child"].seq = kernel["child"].seq
         /\ kernel'["child"].total = kernel["child"].total
         /\ kernel'["child"].turns = kernel["child"].turns
         /\ spans'["root"] = spans["root"]
<1>s. Span = {"root", "child"}
  BY DEF Span
<1>1. kernel["root"] \in KernelType /\ kernel["child"] \in KernelType
  BY <1>s DEF SessTyped
<1>2. PICK k : k = [kernel["root"] EXCEPT !.pc = "waiting"]
  OBVIOUS
<1>3. PICK l : l = [kernel["child"] EXCEPT !.pc = "idle"]
  OBVIOUS
<1>4. k = [pc |-> "waiting", total |-> kernel["root"].total,
           seq |-> kernel["root"].seq, turns |-> kernel["root"].turns]
  BY <1>1, <1>2 DEF KernelType
<1>5. l = [pc |-> "idle", total |-> kernel["child"].total,
           seq |-> kernel["child"].seq, turns |-> kernel["child"].turns]
  BY <1>1, <1>3 DEF KernelType
<1>6. kernel'["root"] = k /\ kernel'["child"] = l
  BY <1>s, <1>2, <1>3 DEF OpenChild, SessTyped
<1>7. spans'["root"] = spans["root"]
  BY <1>s DEF OpenChild, SaveSpanMeta, SessTyped
<1>8. QED
  BY <1>4, <1>5, <1>6, <1>7

\* A turn fails.
LEMMA FailTells ==
  ASSUME SessTyped, NEW s \in Span, FailTurn(s)
  PROVE  /\ kernel'[s].pc = (IF s = "root" THEN "idle" ELSE "failed")
         /\ kernel'[s].seq = kernel[s].seq + 1 /\ kernel'[s].total = kernel[s].total
         /\ \A r \in Span \ {s} : kernel'[r] = kernel[r]
<1>1. PICK k : k = [kernel[s] EXCEPT !.pc = IF s = "root" THEN "idle" ELSE "failed",
                                    !.seq = @ + 1, !.turns = @ + 1]
  OBVIOUS
<1>2. kernel[s] \in KernelType
  BY DEF SessTyped
<1>3. kernel' = [kernel EXCEPT ![s] = k]
  BY <1>1, <1>2 DEF FailTurn
<1>4. k = [pc |-> IF s = "root" THEN "idle" ELSE "failed", total |-> kernel[s].total,
           seq |-> kernel[s].seq + 1, turns |-> kernel[s].turns + 1]
  BY <1>1, <1>2 DEF KernelType
<1>5. kernel'[s] = k /\ \A r \in Span \ {s} : kernel'[r] = kernel[r]
  BY <1>3 DEF SessTyped
<1>6. QED
  BY <1>4, <1>5

\* The child's Run has returned.
LEMMA StopTells ==
  ASSUME SessTyped, StopChild
  PROVE  /\ kernel'["root"].pc = (IF kernel["child"].pc = "ended" THEN "stopped"
                                  ELSE "returned")
         /\ kernel'["root"].seq = kernel["root"].seq + 1
         /\ kernel'["root"].total = kernel["root"].total
         /\ kernel'["root"].turns = kernel["root"].turns
         /\ kernel'["child"].pc = "gone" /\ kernel'["child"].total = kernel["child"].total
<1>s. Span = {"root", "child"}
  BY DEF Span
<1>1. kernel["root"] \in KernelType /\ kernel["child"] \in KernelType
  BY <1>s DEF SessTyped
<1>2. PICK k : k = [kernel["root"] EXCEPT !.seq = @ + 1,
             !.pc = IF kernel["child"].pc = "ended" THEN "stopped" ELSE "returned"]
  OBVIOUS
<1>3. PICK l : l = [kernel["child"] EXCEPT !.pc = "gone"]
  OBVIOUS
<1>4. k = [pc |-> IF kernel["child"].pc = "ended" THEN "stopped" ELSE "returned",
           total |-> kernel["root"].total, seq |-> kernel["root"].seq + 1,
           turns |-> kernel["root"].turns]
  BY <1>1, <1>2 DEF KernelType
<1>5. l = [pc |-> "gone", total |-> kernel["child"].total,
           seq |-> kernel["child"].seq, turns |-> kernel["child"].turns]
  BY <1>1, <1>3 DEF KernelType
<1>6. kernel'["root"] = k /\ kernel'["child"] = l
  BY <1>s, <1>2, <1>3 DEF StopChild, SessTyped
<1>7. QED
  BY <1>4, <1>5, <1>6

\* The child's cost is added to the root's.
LEMMA RollTells ==
  ASSUME SessTyped, RollUp
  PROVE  /\ kernel'["root"].pc = "returned" /\ kernel'["root"].seq = kernel["root"].seq
         /\ kernel'["root"].total = kernel["root"].total + kernel["child"].total
         /\ kernel'["root"].turns = kernel["root"].turns
         /\ kernel'["child"] = kernel["child"]
<1>s. Span = {"root", "child"}
  BY DEF Span
<1>1. PICK k : k = [kernel["root"] EXCEPT !.pc = "returned",
                    !.total = kernel["root"].total + kernel["child"].total]
  OBVIOUS
<1>2. kernel["root"] \in KernelType
  BY <1>s DEF SessTyped
<1>3. kernel' = [kernel EXCEPT !["root"] = k]
  BY <1>1 DEF RollUp
<1>4. k = [pc |-> "returned", total |-> kernel["root"].total + kernel["child"].total,
           seq |-> kernel["root"].seq, turns |-> kernel["root"].turns]
  BY <1>1, <1>2 DEF KernelType
<1>5. kernel'["root"] = k /\ kernel'["child"] = kernel["child"]
  BY <1>s, <1>3 DEF SessTyped
<1>6. QED
  BY <1>4, <1>5

\* What a step of a kernel or of the host does to the rows and to the kernels.
Keeps == PageKept' /\ Working' /\ Totals'

\* Totals are kept by a step that bills nothing.
LEMMA TotalsStay ==
  ASSUME Totals, UNCHANGED <<costs, paidFor>>, astray => astray', paidFor \in Nat,
         \A s \in Span : kernel[s].total \in Nat,
         \A s \in Span : kernel'[s].total = kernel[s].total,
         ~astray' => (Apart' <=> Apart), Apart' => Apart
  PROVE  Totals'
<1> "root" \in Span /\ "child" \in Span
  BY DEF Span
<1>1. \A s \in Span : \A i \in DOMAIN costs'[s] : costs'[s][i].total <= paidFor'
  BY DEF Totals
<1>2. kernel'["root"].total <= paidFor'
  BY DEF Totals
<1>3. Apart' => kernel'["root"].total + kernel'["child"].total <= paidFor'
  BY DEF Totals
<1>4. ~astray' => paidFor' = kernel'["root"].total
                              + (IF Apart' THEN kernel'["child"].total ELSE 0)
  BY DEF Totals
<1>5. kernel'["root"].total # 0 =>
        \E i \in DOMAIN costs'["root"] : costs'["root"][i].total = kernel'["root"].total
  BY DEF Totals
<1>6. QED
  BY <1>1, <1>2, <1>3, <1>4, <1>5 DEF Totals

\* When a kernel makes a request, and what it does next: a structured answer is the end.
Requesting(s, to) ==
  /\ kernel[s].pc \in {"run", "boundary", "idle", "object"}
  /\ kernel[s].pc = "idle" => kernel[s].turns # 0
  /\ \/ to \in {"billed", "summed first", "summed"} /\ objects' = objects
     \/ to = "idle" /\ s = "root" /\ objects' = objects + 1
  /\ s = "child" => to = "billed"

\* A number above zero is not zero.
LEMMA Positive == \A n \in Nat : n > 0 => n # 0
OBVIOUS

\* A request keeps what the rows tell.
LEMMA RequestKeeps ==
  ASSUME SessTyped, SessTyped', PageKept, Working, Totals,
         NEW s \in Span, NEW to \in PCs, NEW more \in Nat, Request(s, to, more),
         Requesting(s, to)
  PROVE  Keeps
<1>s. /\ Span = {"root", "child"} /\ TurnPrice \in Nat \ {0}
      /\ "root" \in Span /\ "child" \in Span
  BY SessionsAssumption DEF Span
<1>t. /\ \A r \in Span : kernel[r].total \in Nat
      /\ paidFor \in Nat /\ astray \in BOOLEAN
  BY DEF SessTyped, KernelType, PageKept, RowsTyped
<1>1. /\ kernel'[s].pc = to /\ kernel'[s].seq = kernel[s].seq
      /\ kernel'[s].total = kernel[s].total + TurnPrice
      /\ \A r \in Span \ {s} : kernel'[r] = kernel[r]
  BY RequestTells
<1>2. /\ UNCHANGED <<spans, events, page, astray>>
      /\ AppendCost(s, TurnPrice, kernel'[s].total) /\ paidFor' = paidFor + TurnPrice
  BY <1>1 DEF Request
<1>3. /\ TurnPrice \in Nat /\ kernel'[s].total \in Nat /\ paidFor' \in Nat
      /\ paidFor <= paidFor'
  BY <1>s, <1>t, <1>1, <1>2
<1>4. /\ PageKept' /\ \A r \in Span \ {s} : costs'[r] = costs[r]
      /\ costs'[s] = Append(costs[s], [turn |-> TurnPrice, total |-> kernel'[s].total])
  <2>1. /\ kernel[s].pc \notin Owing \cup {"gone"}
        /\ kernel[s].pc \notin Early \/ kernel[s].turns # 0
        /\ kernel'[s].pc \notin {"down", "called"} /\ kernel'[s].pc \notin Calling
    BY <1>1 DEF Requesting, Owing, Early, Calling
  <2>2. IF kernel'[s].pc \in Owing THEN objects' = objects
          ELSE s = "root" /\ objects' = objects + 1
    BY <1>1 DEF Requesting, Owing
  <2>3. PICK turn, total : turn = TurnPrice /\ total = kernel'[s].total
    OBVIOUS
  <2>4. turn \in Nat /\ total \in Nat /\ AppendCost(s, turn, total)
    BY <1>2, <1>3, <2>3
  <2>5. /\ PageKept' /\ costs'[s] = Append(costs[s], [turn |-> turn, total |-> total])
        /\ \A r \in Span \ {s} : costs'[r] = costs[r]
    BY <1>1, <1>2, <1>3, <2>1, <2>2, <2>4, BillingKeeps
  <2>6. QED
    BY <2>3, <2>5
<1>5. Working'
  BY <1>s, <1>t, <1>1, <1>2 DEF Requesting, Working
<1>6. Totals'
  <2>1. PICK c : c = [turn |-> TurnPrice, total |-> kernel'[s].total]
    OBVIOUS
  <2>2. c.total = kernel'[s].total /\ costs'[s] = Append(costs[s], c) /\ c \in CostType
    BY <1>3, <1>4, <2>1 DEF CostType
  <2>3. costs[s] \in Seq(CostType)
    BY DEF PageKept, RowsTyped
  <2>4. /\ DOMAIN costs'[s] = 1..(Len(costs[s]) + 1)
        /\ costs'[s][Len(costs[s]) + 1] = c /\ Len(costs[s]) \in Nat
        /\ \A i \in 1..Len(costs[s]) : costs'[s][i] = costs[s][i]
        /\ DOMAIN costs[s] = 1..Len(costs[s])
    BY <2>2, <2>3
  <2>5. /\ kernel["root"].total <= paidFor
        /\ Apart => kernel["root"].total + kernel["child"].total <= paidFor
        /\ ~astray => paidFor = kernel["root"].total
                                  + (IF Apart THEN kernel["child"].total ELSE 0)
        /\ kernel["root"].total # 0 =>
             \E i \in DOMAIN costs["root"] : costs["root"][i].total = kernel["root"].total
    BY DEF Totals
  <2>6. Apart' <=> Apart
    BY <1>s, <1>1, <1>2 DEF Requesting, Apart
  <2>7. s = "child" => Apart
    BY DEF Requesting, Apart
  <2>8. /\ kernel'["root"].total <= paidFor'
        /\ Apart' => kernel'["root"].total + kernel'["child"].total <= paidFor'
        /\ ~astray' => paidFor' = kernel'["root"].total
                                   + (IF Apart' THEN kernel'["child"].total ELSE 0)
    <3>1. CASE s = "root"
      <4>1. /\ kernel'["root"].total = kernel["root"].total + TurnPrice
            /\ kernel'["child"].total = kernel["child"].total
        BY <1>s, <1>1, <3>1
      <4>2. QED
        BY <1>s, <1>t, <1>2, <2>5, <2>6, <4>1
    <3>2. CASE s = "child"
      <4>1. /\ kernel'["child"].total = kernel["child"].total + TurnPrice
            /\ kernel'["root"].total = kernel["root"].total
      /\ kernel'["root"].turns = kernel["root"].turns
        BY <1>s, <1>1, <3>2
      <4>2. QED
        BY <1>s, <1>t, <1>2, <2>5, <2>6, <2>7, <3>2, <4>1
    <3>3. QED
      BY <1>s, <3>1, <3>2
  <2>9. kernel'[s].total <= paidFor'
    <3>1. CASE s = "root"
      BY <2>8, <3>1
    <3>2. CASE s = "child"
      <4>1. kernel'["child"].total + kernel'["root"].total <= paidFor'
        BY <1>s, <1>t, <1>1, <1>3, <2>6, <2>7, <2>8, <3>2
      <4>2. kernel'["root"].total \in Nat
        BY <1>s, <1>t, <1>1, <3>2
      <4>3. QED
        BY <1>3, <3>2, <4>1, <4>2
    <3>3. QED
      BY <1>s, <3>1, <3>2
  <2>10. ASSUME NEW r \in Span, NEW i \in DOMAIN costs'[r]
         PROVE  costs'[r][i].total <= paidFor'
    <3>1. \A q \in Span : \A j \in DOMAIN costs[q] : costs[q][j].total <= paidFor'
      <4>1. ASSUME NEW q \in Span, NEW j \in DOMAIN costs[q]
            PROVE  costs[q][j].total <= paidFor'
        <5>1. costs[q] \in Seq(CostType)
          BY DEF PageKept, RowsTyped
        <5>2. costs[q][j] \in CostType
          BY <5>1
        <5>3. costs[q][j].total \in Nat /\ costs[q][j].total <= paidFor
          BY <5>2 DEF CostType, Totals
        <5>4. QED
          BY <1>t, <1>3, <5>3
      <4>2. QED
        BY <4>1
    <3>2. CASE r # s
      BY <1>4, <3>1, <3>2
    <3>3. CASE r = s
      <4>1. i = Len(costs[s]) + 1 \/ i \in 1..Len(costs[s])
        BY <2>4, <3>3
      <4>2. QED
        BY <2>2, <2>4, <2>9, <3>1, <3>3, <4>1
    <3>4. QED
      BY <3>2, <3>3
  <2>11. kernel'["root"].total # 0 =>
           \E i \in DOMAIN costs'["root"] : costs'["root"][i].total = kernel'["root"].total
    <3>1. CASE s = "root"
      BY <2>2, <2>4, <3>1
    <3>2. CASE s = "child"
      BY <1>s, <1>1, <1>4, <2>5, <3>2
    <3>3. QED
      BY <1>s, <3>1, <3>2
  <2>12. QED
    BY <2>8, <2>10, <2>11 DEF Totals
<1>7. QED
  BY <1>4, <1>5, <1>6 DEF Keeps


\* Each step of a kernel and of the host keeps what the rows tell, while nothing is
\* deleted.
LEMMA KernelsKeep ==
  ASSUME SessTyped, SessTyped', PageKept, Working, Totals,
         KernelStep \/ KernelDies \/ UpdateTraceTitle \/ \E s \in Span : SaveMemories(s)
  PROVE  Keeps
<1>s. /\ Span = {"root", "child"} /\ TurnPrice \in Nat \ {0}
      /\ "root" \in Span /\ "child" \in Span
  BY SessionsAssumption DEF Span
<1>t. /\ \A s \in Span : kernel[s].total \in Nat /\ kernel[s].seq \in Nat
      /\ \A s \in Span : kernel[s].pc = "down" => kernel[s].total = 0 /\ kernel[s].seq = 0
      /\ paidFor \in Nat /\ astray \in BOOLEAN
  BY DEF SessTyped, KernelType, PageKept, RowsTyped, AllStraight, Straight
<1>1. ASSUME OpenRoot PROVE Keeps
  <2>1. /\ kernel'["root"].pc = "opening" /\ kernel'["root"].seq = 0
        /\ kernel'["root"].total = 0 /\ kernel'["root"].turns = 0
        /\ kernel'["child"] = kernel["child"]
        /\ spans'["root"].here /\ spans'["child"] = spans["child"]
    BY <1>1, OpenRootTells
  <2>2. /\ UNCHANGED <<events, costs, page, paidFor, objects, astray>>
        /\ kernel["root"].pc = "down"
    BY <1>1 DEF OpenRoot, truth
  <2>3. PageKept'
    BY <1>s, <1>t, <2>1, <2>2, GoingKeeps DEF Owing, Calling, Early
  <2>4. Working'
    BY <1>s, <1>t, <2>1, <2>2 DEF Working
  <2>5. Totals'
    BY <1>s, <1>t, <2>1, <2>2, TotalsStay DEF Working, Apart
  <2>6. QED
    BY <2>3, <2>4, <2>5 DEF Keeps
<1>2. ASSUME OpenTrace PROVE Keeps
  <2>1. Goes("root", "idle")
    BY <1>2 DEF OpenTrace
  <2>2. /\ kernel'["root"].pc = "idle" /\ kernel'["root"].seq = kernel["root"].seq
        /\ kernel'["root"].total = kernel["root"].total
        /\ kernel'["root"].turns = kernel["root"].turns
        /\ kernel'["child"] = kernel["child"]
    BY <1>s, <2>1, GoingTells
  <2>3. /\ UNCHANGED <<spans, events, costs, page, paidFor, objects, astray>>
        /\ kernel["root"].pc = "opening"
    BY <1>2 DEF OpenTrace, truth
  <2>4. PageKept'
    BY <1>s, <1>t, <2>2, <2>3, GoingKeeps DEF Owing, Calling, Early
  <2>5. Working'
    BY <1>s, <1>t, <2>2, <2>3 DEF Working
  <2>6. Totals'
    BY <1>s, <1>t, <2>2, <2>3, TotalsStay DEF Working, Apart
  <2>7. QED
    BY <2>4, <2>5, <2>6 DEF Keeps
<1>3. ASSUME CallTool PROVE Keeps
  <2>1. FiresTo("root", "PreToolUse", "calling") /\ "PreToolUse" \in EventKinds
    BY <1>3 DEF CallTool, EventKinds
  <2>2. /\ kernel'["root"].pc = "calling" /\ kernel'["root"].seq = kernel["root"].seq + 1
        /\ kernel'["root"].total = kernel["root"].total
        /\ kernel'["root"].turns = kernel["root"].turns
        /\ kernel'["child"] = kernel["child"]
    BY <1>s, <2>1, FiringTells
  <2>3. /\ UNCHANGED <<spans, costs, page, paidFor, objects, astray>>
        /\ FireEvent("root", "PreToolUse") /\ kernel["root"].pc = "billed"
    BY <1>3, <2>1 DEF CallTool, FiresTo, truth
  <2>4. PageKept'
    BY <1>s, <1>t, <2>1, <2>2, <2>3, FiringKeeps DEF Owing, Calling, Early
  <2>5. Working'
    BY <1>s, <1>t, <2>2, <2>3 DEF Working
  <2>6. Totals'
    BY <1>s, <1>t, <2>2, <2>3, TotalsStay DEF Working, Apart
  <2>7. QED
    BY <2>4, <2>5, <2>6 DEF Keeps
<1>4. ASSUME OpenChild PROVE Keeps
  <2>1. /\ kernel'["root"].pc = "waiting" /\ kernel'["root"].seq = kernel["root"].seq
        /\ kernel'["root"].total = kernel["root"].total
        /\ kernel'["root"].turns = kernel["root"].turns
        /\ kernel'["child"].pc = "idle" /\ kernel'["child"].seq = kernel["child"].seq
        /\ kernel'["child"].total = kernel["child"].total
        /\ kernel'["child"].turns = kernel["child"].turns
        /\ spans'["root"] = spans["root"]
    BY <1>4, OpenChildTells
  <2>2. /\ UNCHANGED <<events, costs, page, paidFor, objects, astray>>
        /\ kernel["root"].pc = "calling" /\ kernel["child"].pc = "down"
    BY <1>4 DEF OpenChild, truth
  <2>3. PageKept'
    BY <1>s, <1>t, <2>1, <2>2, GoingKeeps DEF Owing, Calling, Early
  <2>4. Working'
    BY <1>s, <1>t, <2>1, <2>2 DEF Working
  <2>5. Totals'
    BY <1>s, <1>t, <2>1, <2>2, TotalsStay DEF Working, Apart
  <2>6. QED
    BY <2>3, <2>4, <2>5 DEF Keeps
<1>5. ASSUME NEW to \in {"idle", "object"}, EndTrace(to) PROVE Keeps
  <2>1. Goes("root", to)
    BY <1>5 DEF EndTrace
  <2>2. /\ kernel'["root"].pc = to /\ kernel'["root"].seq = kernel["root"].seq
        /\ kernel'["root"].total = kernel["root"].total
        /\ kernel'["root"].turns = kernel["root"].turns
        /\ kernel'["child"] = kernel["child"]
    BY <1>s, <2>1, GoingTells
  <2>3. /\ UNCHANGED <<spans, events, costs, page, paidFor, objects, astray>>
        /\ kernel["root"].pc = "ending"
    BY <1>5 DEF EndTrace, truth
  <2>4. PageKept'
    BY <1>s, <1>t, <2>2, <2>3, GoingKeeps DEF Owing, Calling, Early
  <2>5. Working'
    BY <1>s, <1>t, <2>2, <2>3 DEF Working
  <2>6. Totals'
    BY <1>s, <1>t, <2>2, <2>3, TotalsStay DEF Working, Apart
  <2>7. QED
    BY <2>4, <2>5, <2>6 DEF Keeps
<1>6. ASSUME StopChild PROVE Keeps
  <2>1. /\ kernel'["root"].pc = (IF kernel["child"].pc = "ended" THEN "stopped"
                                  ELSE "returned")
        /\ kernel'["root"].seq = kernel["root"].seq + 1
        /\ kernel'["root"].total = kernel["root"].total
        /\ kernel'["root"].turns = kernel["root"].turns
        /\ kernel'["child"].pc = "gone" /\ kernel'["child"].total = kernel["child"].total
    BY <1>6, StopTells
  <2>2. /\ UNCHANGED <<spans, costs, page, paidFor, objects>> /\ FireEvent("root", "SubagentStop")
        /\ kernel["root"].pc = "waiting" /\ kernel["child"].pc \in {"ended", "failed"}
        /\ astray' = (astray \/ kernel["child"].pc = "failed")
    BY <1>6 DEF StopChild
  <2>3. "SubagentStop" \in EventKinds /\ "SubagentStop" \in BillKinds
        /\ astray' \in BOOLEAN /\ (astray => astray')
    BY <1>t, <2>2 DEF EventKinds, BillKinds
  <2>4. PageKept'
    BY <1>s, <1>t, <2>1, <2>2, <2>3, FiringKeeps DEF Owing, Calling, Early
  <2>5. Working'
    BY <1>s, <1>t, <2>1, <2>2 DEF Working
  <2>6. Totals'
    BY <1>s, <1>t, <2>1, <2>2, <2>3, TotalsStay DEF Working, Apart
  <2>7. QED
    BY <2>4, <2>5, <2>6 DEF Keeps
<1>7. ASSUME RollUp PROVE Keeps
  <2>1. /\ kernel'["root"].pc = "returned" /\ kernel'["root"].seq = kernel["root"].seq
        /\ kernel'["root"].total = kernel["root"].total + kernel["child"].total
        /\ kernel'["root"].turns = kernel["root"].turns
        /\ kernel'["child"] = kernel["child"]
    BY <1>7, RollTells
  <2>2. /\ UNCHANGED <<spans, events, page, paidFor, objects, astray>>
        /\ kernel["root"].pc = "stopped" /\ kernel["child"].pc = "gone"
        /\ IF kernel["child"].total = 0 THEN UNCHANGED costs
             ELSE AppendCost("root", kernel["child"].total, kernel'["root"].total)
    BY <1>7, <2>1 DEF RollUp, truth, Working
  <2>3. kernel["child"].total \in Nat /\ kernel'["root"].total \in Nat
    BY <1>s, <1>t, <2>1
  <2>5. Working'
    BY <1>s, <1>t, <2>1, <2>2 DEF Working
  <2>z. ASSUME kernel["child"].total = 0 PROVE PageKept' /\ Totals'
    <3>1. PageKept'
      BY <1>s, <1>t, <2>1, <2>2, <2>z, GoingKeeps DEF Owing, Calling, Early
    <3>2. /\ kernel'["root"].total = kernel["root"].total /\ kernel'["child"].total = 0
          /\ costs' = costs /\ Apart /\ ~Apart'
      BY <1>s, <1>t, <2>1, <2>2, <2>z DEF Apart
    <3>3. Totals'
      BY <1>t, <2>2, <2>z, <3>2 DEF Totals
    <3>4. QED
      BY <3>1, <3>3
  <2> SUFFICES ASSUME kernel["child"].total # 0 PROVE PageKept' /\ Totals'
    BY <2>5, <2>z DEF Keeps
  <2>a. AppendCost("root", kernel["child"].total, kernel'["root"].total)
    BY <2>2
  <2>4. /\ PageKept' /\ \A r \in Span \ {"root"} : costs'[r] = costs[r]
        /\ costs'["root"] = Append(costs["root"], [turn |-> kernel["child"].total,
                                                   total |-> kernel'["root"].total])
    <3>1. PICK turn, total : turn = kernel["child"].total /\ total = kernel'["root"].total
      OBVIOUS
    <3>2. turn \in Nat /\ total \in Nat /\ AppendCost("root", turn, total)
      BY <2>3, <2>a, <3>1
    <3>3. /\ kernel["root"].pc \notin Owing \cup {"gone"} /\ kernel["root"].pc \notin Early
          /\ kernel'["root"].pc \notin {"down", "called"} /\ kernel'["root"].pc \in Owing
          /\ kernel["root"].pc \in Calling
          /\ \A r \in Span \ {"root"} : kernel'[r] = kernel[r]
          /\ paidFor' \in Nat /\ paidFor <= paidFor'
      BY <1>s, <1>t, <2>1, <2>2 DEF Owing, Calling, Early
    <3>4. /\ PageKept' /\ \A r \in Span \ {"root"} : costs'[r] = costs[r]
          /\ costs'["root"] = Append(costs["root"], [turn |-> turn, total |-> total])
      BY <1>s, <2>1, <2>2, <3>2, <3>3, BillingKeeps
    <3>5. QED
      BY <3>1, <3>4
  <2>6. Totals'
    <3>1. PICK c : c = [turn |-> kernel["child"].total, total |-> kernel'["root"].total]
      OBVIOUS
    <3>2. c.total = kernel'["root"].total /\ costs'["root"] = Append(costs["root"], c)
          /\ c \in CostType
      BY <2>3, <2>4, <3>1 DEF CostType
    <3>3. costs["root"] \in Seq(CostType)
      BY <1>s DEF PageKept, RowsTyped
    <3>4. /\ DOMAIN costs'["root"] = 1..(Len(costs["root"]) + 1)
          /\ costs'["root"][Len(costs["root"]) + 1] = c /\ Len(costs["root"]) \in Nat
          /\ \A i \in 1..Len(costs["root"]) : costs'["root"][i] = costs["root"][i]
          /\ DOMAIN costs["root"] = 1..Len(costs["root"])
      BY <3>2, <3>3
    <3>5. Apart /\ ~Apart'
      BY <2>1, <2>2 DEF Apart
    <3>6. /\ kernel'["root"].total <= paidFor'
          /\ ~astray' => paidFor' = kernel'["root"].total
      BY <2>1, <2>2, <3>5 DEF Totals
    <3>7. \A i \in DOMAIN costs'["root"] : costs'["root"][i].total <= paidFor'
      <4>1. \A i \in 1..Len(costs["root"]) : costs["root"][i].total <= paidFor'
        BY <1>s, <2>2, <3>4 DEF Totals
      <4>2. \A i \in 1..(Len(costs["root"]) + 1) :
              i = Len(costs["root"]) + 1 \/ i \in 1..Len(costs["root"])
        BY <3>4
      <4>3. QED
        BY <3>2, <3>4, <3>6, <4>1, <4>2
    <3>8. \A i \in DOMAIN costs'["child"] : costs'["child"][i].total <= paidFor'
      BY <1>s, <2>2, <2>4 DEF Totals
    <3>9. \E i \in DOMAIN costs'["root"] : costs'["root"][i].total = kernel'["root"].total
      BY <3>2, <3>4
    <3>10. \A s \in Span : \A i \in DOMAIN costs'[s] : costs'[s][i].total <= paidFor'
      BY <1>s, <3>7, <3>8
    <3>11. QED
      BY <2>3, <3>5, <3>6, <3>9, <3>10 DEF Totals
  <2>7. QED
    BY <2>4, <2>6
<1>8. ASSUME FinishTool PROVE Keeps
  <2>1. FiresTo("root", "PostToolUse", "called") /\ "PostToolUse" \in EventKinds
    BY <1>8 DEF FinishTool, EventKinds
  <2>2. /\ kernel'["root"].pc = "called" /\ kernel'["root"].seq = kernel["root"].seq + 1
        /\ kernel'["root"].total = kernel["root"].total
        /\ kernel'["root"].turns = kernel["root"].turns
        /\ kernel'["child"] = kernel["child"]
    BY <1>s, <2>1, FiringTells
  <2>3. /\ UNCHANGED <<spans, costs, page, paidFor, objects, astray>>
        /\ FireEvent("root", "PostToolUse") /\ kernel["root"].pc = "returned"
    BY <1>8, <2>1 DEF FinishTool, FiresTo, truth
  <2>4. PageKept'
    BY <1>s, <1>t, <2>1, <2>2, <2>3, FiringKeeps DEF Owing, Calling, Early
  <2>5. Working'
    BY <1>s, <1>t, <2>2, <2>3 DEF Working
  <2>6. Totals'
    BY <1>s, <1>t, <2>2, <2>3, TotalsStay DEF Working, Apart
  <2>7. QED
    BY <2>4, <2>5, <2>6 DEF Keeps
<1>9. ASSUME NEW s \in Span, StartRun(s) PROVE Keeps
  <2>1. FiresTo(s, "UserPromptSubmit", "run") /\ "UserPromptSubmit" \in EventKinds
    BY <1>9 DEF StartRun, EventKinds
  <2>2. /\ kernel'[s].pc = "run" /\ kernel'[s].seq = kernel[s].seq + 1
        /\ kernel'[s].total = kernel[s].total /\ kernel'[s].turns = kernel[s].turns
        /\ \A r \in Span \ {s} : kernel'[r] = kernel[r]
    BY <2>1, FiringTells
  <2>3. /\ UNCHANGED <<spans, costs, page, paidFor, objects, astray>>
        /\ FireEvent(s, "UserPromptSubmit") /\ kernel[s].pc \in {"idle", "compacted"}
    BY <1>9, <2>1 DEF StartRun, FiresTo, truth
  <2>4. PageKept'
    BY <1>s, <1>t, <2>1, <2>2, <2>3, FiringKeeps DEF Owing, Calling, Early
  <2>5. Working'
    BY <1>s, <1>t, <2>2, <2>3 DEF Working
  <2>6. Totals'
    BY <1>s, <1>t, <2>2, <2>3, TotalsStay DEF Working, Apart
  <2>7. QED
    BY <2>4, <2>5, <2>6 DEF Keeps
<1>10. ASSUME NEW s \in Span, Bill(s) PROVE Keeps
  <2>1. /\ Request(s, "billed", 1) /\ kernel[s].pc \in {"run", "boundary"}
        /\ objects' = objects
    BY <1>10 DEF Bill
  <2>2. "billed" \in PCs /\ 1 \in Nat /\ Requesting(s, "billed")
    BY <2>1 DEF PCs, Requesting
  <2>3. QED
    BY <2>1, <2>2, RequestKeeps
<1>11. ASSUME NEW s \in Span, NEW kind, CompleteTurn(s, kind) PROVE Keeps
  <2>1. PICK to : to = IF kernel[s].pc = "called" THEN "boundary" ELSE "answered"
    OBVIOUS
  <2>2. /\ FiresTo(s, kind, to) /\ kind \in EventKinds /\ kind \in BillKinds
        /\ kind = "ToolTurn" => kernel[s].pc = "called"
    BY <1>11, <2>1 DEF CompleteTurn, EventKinds, BillKinds
  <2>3. /\ kernel'[s].pc = to /\ kernel'[s].seq = kernel[s].seq + 1
        /\ kernel'[s].total = kernel[s].total
        /\ \A r \in Span \ {s} : kernel'[r] = kernel[r]
    BY <2>2, FiringTells
  <2>4. /\ UNCHANGED <<spans, costs, page, paidFor, objects, astray>>
        /\ FireEvent(s, kind) /\ kernel[s].pc \in {"billed", "called"}
    BY <1>11, <2>2 DEF CompleteTurn, FiresTo, truth
  <2>5. kernel[s].pc = "called" => s = "root"
    BY <1>s DEF Working
  <2>6. PageKept'
    BY <1>s, <1>t, <2>1, <2>2, <2>3, <2>4, FiringKeeps DEF Owing, Calling, Early
  <2>7. Working'
    BY <1>s, <1>t, <2>1, <2>3, <2>4, <2>5 DEF Working
  <2>8. Totals'
    BY <1>s, <1>t, <2>1, <2>3, <2>4, TotalsStay DEF Working, Apart
  <2>9. QED
    BY <2>6, <2>7, <2>8 DEF Keeps
<1>12. ASSUME NEW s \in Span, EndSpan(s) PROVE Keeps
  <2>1. PICK pc : pc = IF s = "root" THEN "ending" ELSE "ended"
    OBVIOUS
  <2>2. Goes(s, pc)
    BY <1>12, <2>1 DEF EndSpan
  <2>3. /\ kernel'[s].pc = pc /\ kernel'[s].seq = kernel[s].seq
        /\ kernel'[s].total = kernel[s].total /\ kernel'[s].turns = kernel[s].turns
        /\ \A r \in Span \ {s} : kernel'[r] = kernel[r]
    BY <2>2, GoingTells
  <2>4. /\ UNCHANGED <<events, costs, page, paidFor, objects, astray>>
        /\ kernel[s].pc = "answered" /\ spans'[s].here
        /\ \A r \in Span \ {s} : spans'[r] = spans[r]
    BY <1>12 DEF EndSpan, SaveSpanMeta, SessTyped, truth
  <2>5. PageKept'
    BY <1>s, <1>t, <2>1, <2>3, <2>4, GoingKeeps DEF Owing, Calling, Early
  <2>6. Working'
    BY <1>s, <1>t, <2>1, <2>3, <2>4 DEF Working
  <2>7. Totals'
    BY <1>s, <1>t, <2>1, <2>3, <2>4, TotalsStay DEF Working, Apart
  <2>8. QED
    BY <2>5, <2>6, <2>7 DEF Keeps
<1>13. ASSUME NEW s \in Span, FailTurn(s) PROVE Keeps
  <2>1. /\ kernel'[s].pc = (IF s = "root" THEN "idle" ELSE "failed")
        /\ kernel'[s].seq = kernel[s].seq + 1 /\ kernel'[s].total = kernel[s].total
        /\ \A r \in Span \ {s} : kernel'[r] = kernel[r]
    BY <1>13, FailTells
  <2>2. /\ UNCHANGED <<spans, costs, page, paidFor, objects, astray>> /\ FireEvent(s, "TurnFailed")
        /\ kernel[s].pc \in {"run", "boundary"} \/ (s = "root" /\ kernel[s].pc = "billed")
    BY <1>13 DEF FailTurn, truth
  <2>3. "TurnFailed" \in EventKinds /\ "TurnFailed" \in BillKinds
    BY DEF EventKinds, BillKinds
  <2>4. PageKept'
    BY <1>s, <1>t, <2>1, <2>2, <2>3, FiringKeeps DEF Owing, Calling, Early
  <2>5. Working'
    BY <1>s, <1>t, <2>1, <2>2 DEF Working
  <2>6. Totals'
    BY <1>s, <1>t, <2>1, <2>2, TotalsStay DEF Working, Apart
  <2>7. QED
    BY <2>4, <2>5, <2>6 DEF Keeps
<1>14. ASSUME KernelDies PROVE Keeps
  <2>1. [Down EXCEPT !.pc = "gone"] = [pc |-> "gone", total |-> 0, seq |-> 0, turns |-> 0]
    BY DEF Down
  <2>2. \A s \in Span : kernel'[s].pc = "gone" /\ kernel'[s].total = 0
    BY <1>14, <2>1 DEF KernelDies
  <2>3. UNCHANGED <<spans, events, costs, page, paidFor, objects>> /\ astray' = TRUE
        /\ kernel["root"].pc # "down"
    BY <1>14 DEF KernelDies, rows
  <2>4. PageKept'
    BY <1>s, <1>t, <2>2, <2>3, GoingKeeps
  <2>5. Working'
    BY <1>s, <1>t, <2>2, <2>3 DEF Working
  <2>6. Totals'
    BY <1>s, <1>t, <2>2, <2>3 DEF Totals, Apart
  <2>7. QED
    BY <2>4, <2>5, <2>6 DEF Keeps
<1>15. ASSUME UpdateTraceTitle \/ \E s \in Span : SaveMemories(s) PROVE Keeps
  <2>1. UNCHANGED <<spans, kernel, events, costs, page, paidFor, objects, astray>>
    BY <1>15 DEF UpdateTraceTitle, SaveMemories
  <2>2. PageKept'
    BY <1>t, <2>1, GoingKeeps
  <2>3. Working'
    BY <2>1 DEF Working
  <2>4. Totals'
    BY <2>1 DEF Totals, Apart
  <2>5. QED
    BY <2>2, <2>3, <2>4 DEF Keeps
<1>16. ASSUME Summarise PROVE Keeps
  <2>1. PICK to \in {"summed first", "summed"} : Request("root", to, 0)
    BY <1>16 DEF Summarise
  <2>2. /\ to \in PCs /\ 0 \in Nat /\ objects' = objects
        /\ kernel["root"].pc \in {"idle", "boundary"} /\ kernel["root"].turns > 0
    BY <1>16 DEF PCs, Summarise
  <2>3. kernel["root"].turns # 0
    <3>1. kernel["root"] \in KernelType
      BY <1>s DEF SessTyped
    <3>2. kernel["root"].turns \in Nat /\ kernel["root"].turns > 0
      BY <2>2, <3>1 DEF KernelType
    <3>3. QED
      BY <3>2, Positive
  <2>4. Requesting("root", to)
    BY <1>s, <2>2, <2>3 DEF Requesting
  <2>5. QED
    BY <1>s, <2>1, <2>2, <2>4, RequestKeeps
<1>17. ASSUME StructuredPass PROVE Keeps
  <2>1. /\ Request("root", "idle", 0) /\ kernel["root"].pc = "object"
        /\ objects' = objects + 1
    BY <1>17 DEF StructuredPass
  <2>2. "idle" \in PCs /\ 0 \in Nat /\ Requesting("root", "idle")
    BY <2>1 DEF PCs, Requesting
  <2>3. QED
    BY <1>s, <2>1, <2>2, RequestKeeps
<1>18. ASSUME SummaryTold PROVE Keeps
  <2>1. PICK to : to = IF kernel["root"].pc = "summed" THEN "run" ELSE "compacted"
    OBVIOUS
  <2>2. /\ FiresTo("root", "PostCompact", to)
        /\ "PostCompact" \in EventKinds /\ "PostCompact" \in BillKinds
    BY <1>18, <2>1 DEF SummaryTold, EventKinds, BillKinds
  <2>3. /\ kernel'["root"].pc = to /\ kernel'["root"].seq = kernel["root"].seq + 1
        /\ kernel'["root"].total = kernel["root"].total
        /\ kernel'["child"] = kernel["child"]
    BY <1>s, <2>2, FiringTells
  <2>4. /\ UNCHANGED <<spans, costs, page, paidFor, objects, astray>>
        /\ FireEvent("root", "PostCompact")
        /\ kernel["root"].pc \in {"summed first", "summed"}
    BY <1>18, <2>2 DEF SummaryTold, FiresTo, truth
  <2>5. PageKept'
    BY <1>s, <1>t, <2>1, <2>2, <2>3, <2>4, FiringKeeps DEF Owing, Calling, Early
  <2>6. Working'
    BY <1>s, <1>t, <2>1, <2>3, <2>4 DEF Working
  <2>7. Totals'
    BY <1>s, <1>t, <2>1, <2>3, <2>4, TotalsStay DEF Working, Apart
  <2>8. QED
    BY <2>5, <2>6, <2>7 DEF Keeps
<1>19. ASSUME NoPass PROVE Keeps
  <2>1. Goes("root", "idle")
    BY <1>19 DEF NoPass
  <2>2. /\ kernel'["root"].pc = "idle" /\ kernel'["root"].seq = kernel["root"].seq
        /\ kernel'["root"].total = kernel["root"].total
        /\ kernel'["root"].turns = kernel["root"].turns
        /\ kernel'["child"] = kernel["child"]
    BY <1>s, <2>1, GoingTells
  <2>3. /\ UNCHANGED <<spans, events, costs, page, paidFor, objects, astray>>
        /\ kernel["root"].pc = "object"
    BY <1>19 DEF NoPass, rows, truth
  <2>4. PageKept'
    BY <1>s, <1>t, <2>2, <2>3, GoingKeeps DEF Owing, Calling, Early
  <2>5. Working'
    BY <1>s, <1>t, <2>2, <2>3 DEF Working
  <2>6. Totals'
    BY <1>s, <1>t, <2>2, <2>3, TotalsStay DEF Working, Apart
  <2>7. QED
    BY <2>4, <2>5, <2>6 DEF Keeps
<1>20. ASSUME NEW s \in Span, NEW to, LeaveLoop(s, to) PROVE Keeps
  <2>1. /\ kernel'[s].pc = to /\ kernel'[s].seq = kernel[s].seq
        /\ kernel'[s].total = kernel[s].total
        /\ \A r \in Span \ {s} : kernel'[r] = kernel[r]
    BY <1>20, LeaveTells
  <2>2. /\ UNCHANGED <<spans, events, costs, page, paidFor, objects, astray>>
        /\ kernel[s].pc \in {"run", "boundary"}
        /\ to \in {"answered", IF s = "root" THEN "idle" ELSE "failed"}
    BY <1>20 DEF LeaveLoop, rows, truth
  <2>3. PageKept'
    BY <1>s, <1>t, <2>1, <2>2, GoingKeeps DEF Owing, Calling, Early
  <2>4. Working'
    BY <1>s, <1>t, <2>1, <2>2 DEF Working
  <2>5. Totals'
    BY <1>s, <1>t, <2>1, <2>2, TotalsStay DEF Working, Apart
  <2>6. QED
    BY <2>3, <2>4, <2>5 DEF Keeps
<1>21. QED
  BY <1>1, <1>2, <1>3, <1>4, <1>5, <1>6, <1>7, <1>8, <1>9, <1>10, <1>11, <1>12, <1>13,
     <1>14, <1>15, <1>16, <1>17, <1>18, <1>19, <1>20 DEF KernelStep

\* The dashboard begins a page.
LEMMA TraceRead ==
  ASSUME SessTyped, PageKept, Working, Totals, ReadTrace
  PROVE  PageShape' /\ PageTrue'
<1>s. Span = {"root", "child"} /\ "root" \in Span /\ "child" \in Span
  BY DEF Span
<1>0. /\ UNCHANGED <<costs, events, kernel, paidFor, objects, astray>>
      /\ paidFor \in Nat /\ objects \in Nat
      /\ \A s \in Span : Cardinality(BillsIn(events[s])) \in Nat
  BY BillsNumber DEF ReadTrace, rows, truth, PageKept, RowsTyped
<1>1. PICK quiet \in BOOLEAN :
        quiet = \A s \in Span : kernel[s].pc \in {"down", "idle", "gone"}
  OBVIOUS
<1>2. PICK found : found = trace.here
  OBVIOUS
<1>3. page' = [pc |-> "trace", found |-> found, spans |-> {},
               costs |-> [s \in Span |-> <<>>], events |-> [s \in Span |-> <<>>],
               quiet |-> quiet, paidFor |-> paidFor]
  BY <1>1, <1>2 DEF ReadTrace, NoPage
<1>4. found \in BOOLEAN
  BY <1>2 DEF SessTyped, TraceType
<1>5. [s \in Span |-> <<>>] \in [Span -> Seq(CostType)]
      /\ [s \in Span |-> <<>>] \in [Span -> Seq(RowType)]
  OBVIOUS
<1>6. page' \in PageType
  BY <1>0, <1>3, <1>4, <1>5 DEF PageType, PagePCs
<1>7. /\ page'.pc = "trace" /\ page'.spans = {} /\ page'.paidFor = paidFor
      /\ page'.quiet = quiet
      /\ \A s \in Span : page'.costs[s] = <<>> /\ page'.events[s] = <<>>
  BY <1>3
<1>8. \A s \in Span : ~CostsSeen(s)' /\ ~EventsSeen(s)'
  BY <1>7 DEF CostsSeen, EventsSeen
<1>9. PageShape'
  BY <1>6, <1>7, <1>8 DEF PageShape
<1>10. Len(<<>>) = 0 /\ DOMAIN <<>> = {} /\ Tellable(<<>>)
  BY DEF Tellable
<1>11. ASSUME quiet, ~astray, paidFor # 0
       PROVE  \E i \in DOMAIN costs["root"] : costs["root"][i].total = paidFor
  <2>1. /\ kernel["root"].pc \in {"down", "idle", "gone"}
        /\ kernel["child"].pc \in {"down", "idle", "gone"}
    BY <1>s, <1>1, <1>11
  <2>2. kernel["root"].pc = "idle" /\ kernel["child"].pc \in {"down", "gone"}
    BY <1>11, <2>1 DEF Working
  <2>3. /\ kernel["child"].pc = "down" => kernel["child"].total = 0
        /\ kernel["root"].total \in Nat
    BY <1>s DEF PageKept, AllStraight, Straight, SessTyped, KernelType
  <2>4. paidFor = kernel["root"].total + (IF Apart THEN kernel["child"].total ELSE 0)
    BY <1>11 DEF Totals
  <2>5. paidFor = kernel["root"].total
    BY <2>2, <2>3, <2>4 DEF Apart
  <2>6. QED
    BY <1>11, <2>5 DEF Totals
<1>12. RootCosts' = costs["root"]
  BY <1>0, <1>s, <1>8 DEF RootCosts
<1>13. PageTrue'
  <2>1. ASSUME NEW s \in Span
        PROVE  /\ EventsSeen(s)' =>
                    Len(page'.costs[s]) <=
                      Cardinality(BillsIn(page'.events[s])) + Silent(s)' + 1
               /\ ~EventsSeen(s)' =>
                    Len(page'.costs[s]) <= Cardinality(BillsIn(events'[s])) + Silent(s)' + 1
               /\ Tellable(page'.events[s])
               /\ \A i \in DOMAIN page'.costs[s] : page'.costs[s][i].total <= paidFor'
    <3>1. Silent(s)' = Silent(s) /\ Silent(s) \in Nat
      BY <1>0 DEF Silent
    <3>2. QED
      BY <1>0, <1>7, <1>8, <1>10, <3>1
  <2>2. page'.paidFor <= paidFor' /\ page'.pc # "done"
    BY <1>0, <1>7
  <2>3. page'.quiet /\ page'.paidFor = paidFor' /\ ~astray' /\ paidFor' # 0 =>
          \E i \in DOMAIN RootCosts' : RootCosts'[i].total = paidFor'
    BY <1>0, <1>7, <1>11, <1>12
  <2>4. QED
    BY <2>1, <2>2, <2>3 DEF PageTrue
<1>14. QED
  BY <1>9, <1>13

\* The dashboard reads the spans.
LEMMA SpansRead ==
  ASSUME SessTyped, PageKept, Working, ReadSpans
  PROVE  PageShape' /\ PageTrue'
<1>s. Span = {"root", "child"} /\ "root" \in Span /\ "child" \in Span
  BY DEF Span
<1>0. /\ UNCHANGED <<costs, events, paidFor, objects, astray>> /\ page \in PageType
      /\ page.pc = "trace" /\ page.spans = {} /\ paidFor \in Nat
  BY DEF ReadSpans, rows, truth, PageKept, PageShape, RowsTyped
<1>1. PICK seen : seen = {s \in Span : spans[s].here}
  OBVIOUS
<1>2. PICK pc : pc = IF spans["root"].here THEN "root"
                     ELSE IF spans["child"].here THEN "child" ELSE "done"
  OBVIOUS
<1>3. page' = [page EXCEPT !.spans = seen, !.pc = pc]
  BY <1>1, <1>2 DEF ReadSpans
<1>4. page' = [pc |-> pc, found |-> page.found, spans |-> seen, costs |-> page.costs,
               events |-> page.events, quiet |-> page.quiet, paidFor |-> page.paidFor]
  BY <1>0, <1>3 DEF PageType
<1>5. /\ seen \in SUBSET Span /\ ("child" \in seen => "root" \in seen)
      /\ pc = IF "root" \in seen THEN "root" ELSE "done"
      /\ "root" \notin seen => seen = {}
  BY <1>s, <1>1, <1>2 DEF Working
<1>6. page' \in PageType
  BY <1>0, <1>4, <1>5 DEF PageType, PagePCs
<1>7. /\ page'.pc = pc /\ page'.spans = seen /\ page'.costs = page.costs
      /\ page'.events = page.events /\ page'.quiet = page.quiet
      /\ page'.paidFor = page.paidFor
  BY <1>4
<1>8. /\ \A s \in Span : ~CostsSeen(s) /\ ~EventsSeen(s)
      /\ \A s \in Span : ~CostsSeen(s)' /\ ~EventsSeen(s)'
  BY <1>0, <1>5, <1>7 DEF CostsSeen, EventsSeen
<1>9. \A s \in Span : page.costs[s] = <<>> /\ page.events[s] = <<>>
  BY <1>8 DEF PageKept, PageShape
<1>10. PageShape'
  BY <1>5, <1>6, <1>7, <1>9 DEF PageShape
<1>11. RootCosts' = RootCosts
  BY <1>0, <1>s, <1>8 DEF RootCosts
<1>12. PageTrue'
  <2>1. PageTrue
    BY DEF PageKept
  <2>2. ASSUME NEW s \in Span
        PROVE  /\ EventsSeen(s)' =>
                    Len(page'.costs[s]) <=
                      Cardinality(BillsIn(page'.events[s])) + Silent(s)' + 1
               /\ ~EventsSeen(s)' =>
                    Len(page'.costs[s]) <= Cardinality(BillsIn(events'[s])) + Silent(s)' + 1
               /\ Tellable(page'.events[s])
               /\ \A i \in DOMAIN page'.costs[s] : page'.costs[s][i].total <= paidFor'
    <3>1. Silent(s)' = Silent(s)
      BY <1>0 DEF Silent
    <3>2. QED
      BY <1>0, <1>7, <1>8, <2>1, <3>1 DEF PageTrue
  <2>3. page'.paidFor <= paidFor'
    BY <1>0, <1>7, <2>1 DEF PageTrue
  <2>4. "root" \notin page'.spans => page'.paidFor = 0
    <3>1. SUFFICES ASSUME "root" \notin seen PROVE page.paidFor = 0
      BY <1>7
    <3>2. paidFor = 0
      BY <1>s, <1>1, <3>1 DEF Working
    <3>3. page.paidFor \in Nat
      BY <1>0 DEF PageType
    <3>4. QED
      BY <1>0, <2>1, <3>2, <3>3 DEF PageTrue
  <2>5. page'.quiet /\ page'.paidFor = paidFor' /\ ~astray' /\ paidFor' # 0 =>
          \E i \in DOMAIN RootCosts' : RootCosts'[i].total = paidFor'
    BY <1>0, <1>7, <1>11, <2>1 DEF PageTrue
  <2>6. QED
    BY <2>2, <2>3, <2>4, <2>5 DEF PageTrue
<1>13. QED
  BY <1>10, <1>12

\* The dashboard reads the costs of a span.
LEMMA CostsRead ==
  ASSUME SessTyped, PageKept, Totals, NEW s \in Span, ReadCosts(s)
  PROVE  PageShape' /\ PageTrue'
<1>s. Span = {"root", "child"} /\ "root" \in Span /\ "child" \in Span
  BY DEF Span
<1>0. /\ UNCHANGED <<costs, events, paidFor, objects, astray>> /\ page \in PageType
      /\ page.pc = s /\ paidFor \in Nat /\ costs[s] \in Seq(CostType)
      /\ PageShape /\ PageTrue
  BY DEF ReadCosts, rows, truth, PageKept, PageShape, RowsTyped
<1>1. PICK pc : pc = EventsQuery(s)
  OBVIOUS
<1>2. PICK got : got = [page.costs EXCEPT ![s] = costs[s]]
  OBVIOUS
<1>3. page' = [page EXCEPT !.pc = pc, !.costs = got]
  BY <1>0, <1>1, <1>2 DEF ReadCosts, PageType
<1>4. page' = [pc |-> pc, found |-> page.found, spans |-> page.spans, costs |-> got,
               events |-> page.events, quiet |-> page.quiet, paidFor |-> page.paidFor]
  BY <1>0, <1>3 DEF PageType
<1>5. /\ s = "root" => pc = "root events"
      /\ s = "child" => pc = "child events"
  BY <1>1 DEF EventsQuery
<1>6. /\ got \in [Span -> Seq(CostType)] /\ got[s] = costs[s]
      /\ \A r \in Span \ {s} : got[r] = page.costs[r]
  BY <1>0, <1>2 DEF PageType
<1>7. page' \in PageType
  BY <1>0, <1>s, <1>4, <1>5, <1>6 DEF PageType, PagePCs
<1>8. /\ page'.pc = pc /\ page'.spans = page.spans /\ page'.costs = got
      /\ page'.events = page.events /\ page'.quiet = page.quiet
      /\ page'.paidFor = page.paidFor
  BY <1>4
<1>9. /\ s \in page.spans /\ "root" \in page.spans
      /\ ("child" \in page.spans => "root" \in page.spans)
  BY <1>0, <1>s DEF PageShape
<1>10. /\ CostsSeen(s)' /\ ~EventsSeen(s)' /\ ~EventsSeen(s)
       /\ \A r \in Span \ {s} : (CostsSeen(r)' <=> CostsSeen(r))
                                /\ (EventsSeen(r)' <=> EventsSeen(r))
  BY <1>0, <1>s, <1>5, <1>8, <1>9 DEF CostsSeen, EventsSeen
<1>11. PageShape'
  <2>1. \A r \in Span : /\ ~CostsSeen(r)' => page'.costs[r] = <<>>
                        /\ ~EventsSeen(r)' => page'.events[r] = <<>>
    BY <1>0, <1>6, <1>8, <1>10 DEF PageShape
  <2>2. QED
    BY <1>0, <1>s, <1>5, <1>7, <1>8, <1>9, <2>1 DEF PageShape
<1>12. RootCosts' = RootCosts
  BY <1>0, <1>s, <1>5, <1>6, <1>8, <1>10 DEF RootCosts, CostsSeen
<1>13. PageTrue'
  <2>1. /\ Len(costs[s]) <= Cardinality(BillsIn(events[s])) + Silent(s) + 1
        /\ \A i \in DOMAIN costs[s] : costs[s][i].total <= paidFor
    BY DEF PageKept, AllStraight, Straight, Totals
  <2>2. ASSUME NEW r \in Span
        PROVE  /\ EventsSeen(r)' =>
                    Len(page'.costs[r]) <=
                      Cardinality(BillsIn(page'.events[r])) + Silent(r)' + 1
               /\ ~EventsSeen(r)' =>
                    Len(page'.costs[r]) <= Cardinality(BillsIn(events'[r])) + Silent(r)' + 1
               /\ Tellable(page'.events[r])
               /\ \A i \in DOMAIN page'.costs[r] : page'.costs[r][i].total <= paidFor'
    <3>1. Silent(r)' = Silent(r)
      BY <1>0 DEF Silent
    <3>2. CASE r = s
      BY <1>0, <1>6, <1>8, <1>10, <2>1, <3>1, <3>2 DEF PageTrue
    <3>3. CASE r # s
      BY <1>0, <1>6, <1>8, <1>10, <3>1, <3>3 DEF PageTrue
    <3>4. QED
      BY <3>2, <3>3
  <2>3. page'.paidFor <= paidFor' /\ "root" \in page'.spans
    BY <1>0, <1>8, <1>9 DEF PageTrue
  <2>4. page'.quiet /\ page'.paidFor = paidFor' /\ ~astray' /\ paidFor' # 0 =>
          \E i \in DOMAIN RootCosts' : RootCosts'[i].total = paidFor'
    BY <1>0, <1>s, <1>8, <1>12 DEF PageTrue
  <2>5. QED
    BY <2>2, <2>3, <2>4 DEF PageTrue
<1>14. QED
  BY <1>11, <1>13

\* The dashboard reads the events of a span.
LEMMA EventsRead ==
  ASSUME SessTyped, PageKept, NEW s \in Span, ReadEvents(s)
  PROVE  PageShape' /\ PageTrue'
<1>s. Span = {"root", "child"} /\ "root" \in Span /\ "child" \in Span
  BY DEF Span
<1>0. /\ UNCHANGED <<costs, events, paidFor, objects, astray>> /\ page \in PageType
      /\ page.pc = EventsQuery(s) /\ paidFor \in Nat /\ events[s] \in Seq(RowType)
      /\ PageShape /\ PageTrue
  BY DEF ReadEvents, rows, truth, PageKept, PageShape, RowsTyped
<1>1. PICK pc : pc = IF s = "root" /\ "child" \in page.spans THEN "child" ELSE "done"
  OBVIOUS
<1>2. PICK got : got = [page.events EXCEPT ![s] = events[s]]
  OBVIOUS
<1>3. page' = [page EXCEPT !.events = got, !.pc = pc]
  BY <1>0, <1>1, <1>2 DEF ReadEvents, PageType
<1>4. page' = [pc |-> pc, found |-> page.found, spans |-> page.spans, costs |-> page.costs,
               events |-> got, quiet |-> page.quiet, paidFor |-> page.paidFor]
  BY <1>0, <1>3 DEF PageType
<1>5. /\ s = "root" => page.pc = "root events"
      /\ s = "child" => page.pc = "child events"
  BY <1>0 DEF EventsQuery
<1>6. /\ got \in [Span -> Seq(RowType)] /\ got[s] = events[s]
      /\ \A r \in Span \ {s} : got[r] = page.events[r]
  BY <1>0, <1>2 DEF PageType
<1>7. page' \in PageType
  BY <1>0, <1>1, <1>4, <1>6 DEF PageType, PagePCs
<1>8. /\ page'.pc = pc /\ page'.spans = page.spans /\ page'.costs = page.costs
      /\ page'.events = got /\ page'.quiet = page.quiet
      /\ page'.paidFor = page.paidFor
  BY <1>4
<1>9. s \in page.spans /\ "root" \in page.spans /\ pc \in {"child", "done"}
      /\ (pc = "child" => "child" \in page.spans)
  BY <1>0, <1>s, <1>1, <1>5 DEF PageShape
<1>10. /\ EventsSeen(s)' /\ ~EventsSeen(s)
       /\ \A r \in Span : CostsSeen(r)' <=> CostsSeen(r)
       /\ \A r \in Span \ {s} : EventsSeen(r)' <=> EventsSeen(r)
  BY <1>0, <1>s, <1>1, <1>5, <1>8, <1>9 DEF CostsSeen, EventsSeen
<1>11. PageShape'
  <2>1. \A r \in Span : /\ ~CostsSeen(r)' => page'.costs[r] = <<>>
                        /\ ~EventsSeen(r)' => page'.events[r] = <<>>
    BY <1>0, <1>6, <1>8, <1>10 DEF PageShape
  <2>2. QED
    BY <1>0, <1>s, <1>1, <1>7, <1>8, <1>9, <2>1 DEF PageShape
<1>12. RootCosts' = RootCosts
  BY <1>0, <1>s, <1>8, <1>10 DEF RootCosts
<1>13. PageTrue'
  <2>1. Tellable(events[s])
    BY DEF PageKept, AllStraight, Straight
  <2>2. ASSUME NEW r \in Span
        PROVE  /\ EventsSeen(r)' =>
                    Len(page'.costs[r]) <=
                      Cardinality(BillsIn(page'.events[r])) + Silent(r)' + 1
               /\ ~EventsSeen(r)' =>
                    Len(page'.costs[r]) <= Cardinality(BillsIn(events'[r])) + Silent(r)' + 1
               /\ Tellable(page'.events[r])
               /\ \A i \in DOMAIN page'.costs[r] : page'.costs[r][i].total <= paidFor'
    <3>1. Silent(r)' = Silent(r)
      BY <1>0 DEF Silent
    <3>2. CASE r = s
      BY <1>0, <1>6, <1>8, <1>10, <2>1, <3>1, <3>2 DEF PageTrue
    <3>3. CASE r # s
      BY <1>0, <1>6, <1>8, <1>10, <3>1, <3>3 DEF PageTrue
    <3>4. QED
      BY <3>2, <3>3
  <2>3. page'.paidFor <= paidFor' /\ "root" \in page'.spans
    BY <1>0, <1>8, <1>9 DEF PageTrue
  <2>4. page'.quiet /\ page'.paidFor = paidFor' /\ ~astray' /\ paidFor' # 0 =>
          \E i \in DOMAIN RootCosts' : RootCosts'[i].total = paidFor'
    BY <1>0, <1>s, <1>5, <1>8, <1>12 DEF PageTrue
  <2>5. QED
    BY <2>2, <2>3, <2>4 DEF PageTrue
<1>14. QED
  BY <1>11, <1>13

Blank == page = NoPage

\* A page that is not begun is true.
LEMMA PageClear == RowsTyped /\ Blank => PageShape /\ PageTrue
<1> SUFFICES ASSUME RowsTyped, page = NoPage PROVE PageShape /\ PageTrue
  BY DEF Blank
<1>1. NoPage \in PageType
  BY DEF NoPage, PageType, PagePCs
<1>2. /\ page.pc = "none" /\ page.spans = {} /\ page.paidFor = 0
      /\ \A s \in Span : page.costs[s] = <<>> /\ page.events[s] = <<>>
  BY DEF NoPage
<1>3. \A s \in Span : ~CostsSeen(s) /\ ~EventsSeen(s)
  BY <1>2 DEF CostsSeen, EventsSeen
<1>4. Len(<<>>) = 0 /\ DOMAIN <<>> = {} /\ Tellable(<<>>)
  BY DEF Tellable
<1>5. \A s \in Span : Cardinality(BillsIn(events[s])) \in Nat /\ Silent(s) \in Nat
  BY BillsNumber DEF RowsTyped, Silent
<1>6. PageShape
  BY <1>1, <1>2, <1>3 DEF PageShape
<1>7. PageTrue
  BY <1>2, <1>3, <1>4, <1>5 DEF PageTrue, RowsTyped
<1>8. QED
  BY <1>6, <1>7

\* So is one that will not be.
LEMMA PageClears == RowsTyped' /\ Blank' => PageShape' /\ PageTrue'
  BY PageClear, PTL

\* The rows of a timeline: a call is timed if it was run and has an id.
ToldType ==
  {r \in [label : {"user", "assistant", "tool", "tool-result"}, of : RowType,
          timed : BOOLEAN] :
     r.label = "tool" /\ ~r.timed => r.of.kind = "CutTurn" \/ r.of.call = 0}

\* What TimelineOf puts together, event for event.
PiecesOf(evs) ==
  LET timed(id) == /\ id # 0
                   /\ \E a, b \in DOMAIN evs :
                        /\ evs[a].kind = "PreToolUse" /\ evs[a].call = id
                        /\ evs[b].kind = "PostToolUse" /\ evs[b].call = id /\ a < b
      row(label, e) == [label |-> label, of |-> e, timed |-> timed(e.call)]
      told(e) == CASE e.kind = "UserPromptSubmit" -> <<row("user", e)>>
                    [] e.kind = "AnswerTurn" -> <<row("assistant", e)>>
                    [] e.kind = "ToolTurn" -> <<row("tool", e), row("tool-result", e)>>
                    [] e.kind = "CutTurn" -> <<row("tool", e)>>
                    [] OTHER -> <<>>
  IN  [i \in DOMAIN evs |-> told(evs[i])]

\* The row of an event in a timeline.
RowOf(evs, label, e) ==
  [label |-> label, of |-> e, timed |-> e.call # 0 /\ TimedIn(evs, e.call)]

\* The same, event for event.
PieceOf(evs, e) ==
  CASE e.kind = "UserPromptSubmit" -> <<RowOf(evs, "user", e)>>
    [] e.kind = "AnswerTurn" -> <<RowOf(evs, "assistant", e)>>
    [] e.kind = "ToolTurn" -> <<RowOf(evs, "tool", e), RowOf(evs, "tool-result", e)>>
    [] e.kind = "CutTurn" -> <<RowOf(evs, "tool", e)>>
    [] OTHER -> <<>>

\* Events of which a timeline can be made give one that begins with the user and has a
\* time for each call that was run and has an id.
LEMMA TimelineTells ==
  ASSUME NEW evs \in Seq(RowType), Tellable(evs)
  PROVE  /\ TimelineOf(evs) # <<>> => Head(TimelineOf(evs)).label = "user"
         /\ \A i \in DOMAIN TimelineOf(evs) :
              TimelineOf(evs)[i].label = "tool" /\ ~TimelineOf(evs)[i].timed =>
                \/ TimelineOf(evs)[i].of.kind = "CutTurn"
                \/ TimelineOf(evs)[i].of.call = 0
<1>1. PICK pieces : pieces = PiecesOf(evs)
  OBVIOUS
<1>2. TimelineOf(evs) = FlattenSeq(pieces)
  BY <1>1 DEF TimelineOf, PiecesOf
<1>3. Len(evs) \in Nat /\ DOMAIN evs = 1..Len(evs) /\ \A i \in DOMAIN evs : evs[i] \in RowType
  OBVIOUS
<1>4. DOMAIN pieces = 1..Len(evs)
  BY <1>1, <1>3 DEF PiecesOf
<1>5. ASSUME NEW i \in DOMAIN evs
      PROVE  /\ pieces[i] \in Seq(ToldType)
             /\ evs[i].kind = "UserPromptSubmit" =>
                  pieces[i] = <<RowOf(evs, "user", evs[i])>>
  <2>1. PICK e \in RowType : e = evs[i]
    BY <1>3
  <2>2. pieces[i] = PieceOf(evs, e)
    BY <1>1, <2>1 DEF PiecesOf, PieceOf, RowOf, TimedIn
  <2>3. PICK user, reply, tool, outcome :
          /\ user = RowOf(evs, "user", e) /\ reply = RowOf(evs, "assistant", e)
          /\ tool = RowOf(evs, "tool", e) /\ outcome = RowOf(evs, "tool-result", e)
    OBVIOUS
  <2>4. user \in ToldType /\ reply \in ToldType /\ outcome \in ToldType
    BY <2>3 DEF ToldType, RowOf
  <2>5. tool \in ToldType <=> tool.timed \/ e.kind = "CutTurn" \/ e.call = 0
    BY <2>3 DEF ToldType, RowOf
  <2>6. tool.timed <=> e.call # 0 /\ TimedIn(evs, e.call)
    BY <2>3 DEF RowOf
  <2>7. CASE e.kind = "UserPromptSubmit"
    <3>1. pieces[i] = <<user>>
      BY <2>2, <2>3, <2>7 DEF PieceOf
    <3>2. <<user>> \in Seq(ToldType)
      BY <2>4
    <3>3. QED
      BY <2>1, <2>3, <3>1, <3>2
  <2>8. CASE e.kind = "AnswerTurn"
    <3>1. pieces[i] = <<reply>>
      BY <2>2, <2>3, <2>8 DEF PieceOf
    <3>2. <<reply>> \in Seq(ToldType)
      BY <2>4
    <3>3. QED
      BY <2>1, <2>8, <3>1, <3>2
  <2>9. CASE e.kind = "ToolTurn"
    <3>1. pieces[i] = <<tool, outcome>>
      BY <2>2, <2>3, <2>9 DEF PieceOf
    <3>2. TimedIn(evs, e.call)
      BY <2>1, <2>9 DEF Tellable
    <3>3. tool \in ToldType
      BY <2>5, <2>6, <3>2
    <3>4. <<tool, outcome>> \in Seq(ToldType)
      BY <2>4, <3>3
    <3>5. QED
      BY <2>1, <2>9, <3>1, <3>4
  <2>10. CASE e.kind = "CutTurn"
    <3>1. pieces[i] = <<tool>>
      BY <2>2, <2>3, <2>10 DEF PieceOf
    <3>2. <<tool>> \in Seq(ToldType)
      BY <2>5, <2>10
    <3>3. QED
      BY <2>1, <2>10, <3>1, <3>2
  <2>11. CASE e.kind \notin {"UserPromptSubmit", "AnswerTurn", "ToolTurn", "CutTurn"}
    <3>1. pieces[i] = <<>>
      BY <2>2, <2>11 DEF PieceOf
    <3>2. QED
      BY <2>1, <2>11, <3>1
  <2>12. QED
    BY <2>7, <2>8, <2>9, <2>10, <2>11
<1>6. pieces \in Seq(Seq(ToldType)) /\ Len(pieces) = Len(evs)
  <2>1. pieces = [i \in 1..Len(evs) |-> pieces[i]]
    BY <1>1, <1>3 DEF PiecesOf
  <2>2. QED
    BY <1>3, <1>5, <2>1
<1>7. \A i \in DOMAIN FlattenSeq(pieces) : FlattenSeq(pieces)[i] \in ToldType
  <2>1. FlattenSeq(pieces) \in Seq(ToldType)
    BY <1>6, FlattenType
  <2>2. QED
    BY <2>1
<1>8. ASSUME evs # <<>> PROVE Head(FlattenSeq(pieces)).label = "user"
  <2>1. pieces # <<>> /\ 1 \in DOMAIN evs
    BY <1>3, <1>6, <1>8
  <2>2. FlattenSeq(pieces) = Head(pieces) \o FlattenSeq(Tail(pieces))
    BY <1>6, <2>1, FlattenFirst DEF FirstThenRest
  <2>3. PICK user : user = RowOf(evs, "user", evs[1])
    OBVIOUS
  <2>4. Head(pieces) = <<user>>
    BY <1>5, <1>6, <1>8, <2>1, <2>3 DEF Tellable
  <2>5. Tail(pieces) \in Seq(Seq(ToldType))
    BY <1>6, <2>1
  <2>6. FlattenSeq(Tail(pieces)) \in Seq(ToldType) /\ user \in ToldType
    BY <1>3, <2>1, <2>3, <2>5, FlattenType DEF ToldType, RowOf
  <2>7. PICK rest \in Seq(ToldType) : rest = FlattenSeq(Tail(pieces))
    BY <2>6
  <2>8. Head(<<user>> \o rest) = user
    BY <2>6
  <2>9. FlattenSeq(pieces) = <<user>> \o rest
    BY <2>2, <2>4, <2>7
  <2>10. user.label = "user"
    BY <2>3 DEF RowOf
  <2>11. QED
    BY <2>8, <2>9, <2>10
<1>9. ASSUME evs = <<>> PROVE FlattenSeq(pieces) = <<>>
  <2>1. pieces = <<>>
    BY <1>6, <1>9
  <2>2. QED
    BY <2>1, FlattenNone
<1>10. QED
  BY <1>2, <1>7, <1>8, <1>9 DEF ToldType

\* What was read and what is in the tables make the page.
LEMMA TruePageTells ==
  ASSUME PageKept, page.pc = "done"
  PROVE  /\ "child" \in page.spans => "root" \in page.spans
         /\ \A s \in Span :
              /\ Len(page.costs[s]) <= Cardinality(BillsIn(page.events[s])) + Silent(s) + 1
              /\ Tellable(page.events[s]) /\ page.events[s] \in Seq(RowType)
         /\ PageCost <= paidFor
         /\ page.quiet /\ page.paidFor = paidFor /\ ~astray => PageCost = paidFor
<1>s. Span = {"root", "child"} /\ "root" \in Span /\ "child" \in Span
  BY DEF Span
<1>0. PageShape /\ PageTrue /\ paidFor \in Nat /\ page \in PageType
  BY DEF PageKept, PageShape, RowsTyped
<1>1. ASSUME NEW s \in Span
      PROVE  /\ Len(page.costs[s]) <= Cardinality(BillsIn(page.events[s])) + Silent(s) + 1
             /\ Tellable(page.events[s]) /\ page.events[s] \in Seq(RowType)
  <2>1. page.events[s] \in Seq(RowType)
    BY <1>0 DEF PageType
  <2>2. Cardinality(BillsIn(page.events[s])) \in Nat /\ Silent(s) \in Nat
    BY <2>1, BillsNumber DEF PageKept, RowsTyped, Silent
  <2>3. CASE s \in page.spans
    BY <1>0, <2>1, <2>3 DEF PageTrue, EventsSeen
  <2>4. CASE s \notin page.spans
    <3>1. page.costs[s] = <<>>
      BY <1>0, <2>4 DEF PageShape, CostsSeen
    <3>2. Len(page.costs[s]) = 0
      BY <3>1
    <3>3. QED
      BY <1>0, <2>1, <2>2, <3>2 DEF PageTrue
  <2>5. QED
    BY <2>3, <2>4
<1>2. PICK all : all = UNION {ToSet(page.costs[s]) : s \in Span}
  OBVIOUS
<1>3. PICK totals : totals = {0} \cup {r.total : r \in all}
  OBVIOUS
<1>4. totals \in SUBSET (0..paidFor) /\ totals # {}
  <2>1. ASSUME NEW r \in all PROVE r.total \in 0..paidFor
    <3>1. PICK s \in Span : r \in ToSet(page.costs[s])
      BY <1>2
    <3>2. PICK i \in DOMAIN page.costs[s] : r = page.costs[s][i]
      BY <3>1 DEF ToSet
    <3>3. page.costs[s] \in Seq(CostType)
      BY <1>0 DEF PageType
    <3>4. r \in CostType
      BY <3>2, <3>3
    <3>5. r.total \in Nat /\ r.total <= paidFor
      BY <1>0, <3>2, <3>4 DEF CostType, PageTrue
    <3>6. QED
      BY <1>0, <3>5
  <2>2. QED
    BY <1>0, <1>3, <2>1
<1>5. /\ Max(totals) \in totals /\ \A x \in totals : x <= Max(totals)
      /\ Max(totals) \in Nat /\ Max(totals) <= paidFor
  <2>1. Max(totals) \in totals /\ \A x \in totals : x <= Max(totals)
    BY <1>0, <1>4, GreatestNumber
  <2>2. Max(totals) \in 0..paidFor
    BY <1>4, <2>1
  <2>3. QED
    BY <1>0, <2>1, <2>2
<1>6. PageCost = Max(totals)
  BY <1>2, <1>3 DEF PageCost
<1>7. ASSUME page.quiet, page.paidFor = paidFor, ~astray PROVE Max(totals) = paidFor
  <2>1. paidFor \in totals
    <3>1. CASE paidFor = 0
      BY <1>3, <3>1
    <3>2. CASE paidFor # 0
      <4>1. "root" \in page.spans
        BY <1>0, <1>7, <3>2 DEF PageTrue
      <4>2. RootCosts = page.costs["root"]
        BY <4>1 DEF RootCosts, CostsSeen
      <4>3. PICK i \in DOMAIN page.costs["root"] : page.costs["root"][i].total = paidFor
        BY <1>0, <1>7, <3>2, <4>2 DEF PageTrue
      <4>4. page.costs["root"][i] \in all
        BY <1>s, <1>2, <4>3 DEF ToSet
      <4>5. QED
        BY <1>3, <4>3, <4>4
    <3>3. QED
      BY <3>1, <3>2
  <2>2. QED
    BY <1>0, <1>5, <2>1
<1>8. QED
  BY <1>0, <1>1, <1>5, <1>6, <1>7 DEF PageShape

\* Each step of the system keeps what page, rows and kernels promise.
LEMMA PageStep ==
  ASSUME SessTyped, SessTyped', deletions \in Nat, PageInv, [SessNext]_sessVars
  PROVE  PageInv'
<1> SUFFICES ASSUME deletions' = 0 PROVE PageKept' /\ Working' /\ Totals'
  BY DEF PageInv
<1>1. deletions = 0 /\ ~DeleteSession
  <2>1. CASE DeleteSession
    BY <2>1 DEF DeleteSession
  <2>2. CASE ~DeleteSession
    BY <2>2 DEF SessNext, KernelStep, KernelDies, Chore, Dashboard, OpenRoot, OpenTrace,
       CallTool, OpenChild, EndTrace, StopChild, RollUp, FinishTool, StartRun, Request,
       Bill, LeaveLoop, Summarise, SummaryTold, StructuredPass, NoPass, CompleteTurn,
       EndSpan, FailTurn, UpdateTraceTitle, SaveMemories, ReadTrace, ReadSpans, ReadCosts,
       ReadEvents, SendPage, truth, sessVars
  <2>3. QED
    BY <2>1, <2>2
<1>2. PageKept /\ Working /\ Totals
  BY <1>1 DEF PageInv
<1>3. CASE KernelStep \/ KernelDies \/ UpdateTraceTitle \/ \E s \in Span : SaveMemories(s)
  BY <1>2, <1>3, KernelsKeep DEF Keeps
<1>4. CASE Dashboard
  <2>1. UNCHANGED <<costs, events, spans, kernel, paidFor, objects, astray>>
    BY <1>4 DEF Dashboard, ReadTrace, ReadSpans, ReadCosts, ReadEvents, SendPage, rows, truth
  <2>2. RowsTyped' /\ AllStraight' /\ Working' /\ Totals'
    BY <1>2, <2>1 DEF PageKept, RowsTyped, AllStraight, Silent, Working, Totals, Apart
  <2>3. PageShape' /\ PageTrue'
    <3>1. CASE ReadTrace
      BY <1>2, <3>1, TraceRead
    <3>2. CASE ReadSpans
      BY <1>2, <3>2, SpansRead
    <3>3. ASSUME NEW s \in Span, ReadCosts(s) PROVE PageShape' /\ PageTrue'
      BY <1>2, <3>3, CostsRead
    <3>4. ASSUME NEW s \in Span, ReadEvents(s) PROVE PageShape' /\ PageTrue'
      BY <1>2, <3>4, EventsRead
    <3>5. CASE \E found \in BOOLEAN : SendPage(found)
      <4>1. Blank'
        BY <3>5 DEF SendPage, Blank
      <4>2. QED
        BY <2>2, <4>1, PageClears
    <3>6. QED
      BY <1>4, <3>1, <3>2, <3>3, <3>4, <3>5 DEF Dashboard
  <2>4. QED
    BY <2>2, <2>3 DEF PageKept
<1>5. CASE UNCHANGED sessVars
  <2>1. UNCHANGED <<costs, events, spans, kernel, page, paidFor, objects, astray>>
    BY <1>5 DEF sessVars, rows, truth
  <2>2. RowsTyped' /\ AllStraight' /\ Working' /\ Totals'
    BY <1>2, <2>1 DEF PageKept, RowsTyped, AllStraight, Silent, Working, Totals, Apart
  <2>3. PageKept'
    BY <1>2, <2>1, GoingKeeps DEF PageKept, RowsTyped
  <2>4. QED
    BY <2>2, <2>3
<1>6. QED
  BY <1>1, <1>3, <1>4, <1>5 DEF SessNext, Chore

\* Whenever the dashboard has read the page of a trace that was not deleted, query after
\* query while the kernels write (LoadTraceData in store.go), the page holds no more rows
\* of costs than its events account for, but one and the structured answers; no subagent
\* without its parent, no turn outside a prompt, and no call without its time but one
\* that a spend limit cut off or that has no id; its cost is never above what the session
\* has cost, and is that cost if nothing was running.
THEOREM PageIsTrue == SessSpec => []PageTells
<1>1. SessInit => PageInv
  <2> SUFFICES ASSUME SessInit PROVE PageKept /\ Working /\ Totals
    BY DEF PageInv
  <2>1. RowsTyped
    <3>1. [s \in Span |-> <<>>] \in [Span -> Seq(CostType)]
          /\ [s \in Span |-> <<>>] \in [Span -> Seq(RowType)]
      OBVIOUS
    <3>2. QED
      BY <3>1 DEF SessInit, RowsTyped
  <2>2. PageShape /\ PageTrue
    BY <2>1, PageClear DEF SessInit, Blank
  <2>3. \A s \in Span : kernel[s] = Down /\ events[s] = <<>> /\ costs[s] = <<>>
    BY DEF SessInit
  <2>4. /\ Down.pc = "down" /\ Down.seq = 0 /\ Down.total = 0 /\ Down.turns = 0
        /\ Len(<<>>) = 0 /\ DOMAIN <<>> = {}
    BY DEF Down
  <2>5. "root" \in Span /\ "child" \in Span
    BY DEF Span
  <2>6. \A s \in Span : Cardinality(BillsIn(events[s])) \in Nat
    BY <2>1, BillsNumber DEF RowsTyped
  <2>7. ASSUME NEW s \in Span PROVE Straight(kernel[s], events[s], costs[s], Silent(s))
    <3>1. Silent(s) \in Nat
      BY <2>1 DEF RowsTyped, Silent
    <3>2. QED
      BY <2>3, <2>4, <2>6, <3>1 DEF Straight, Tellable, Calling, Early
  <2>8. AllStraight
    BY <2>7 DEF AllStraight
  <2>9. Working
    BY <2>3, <2>4, <2>5 DEF Working, SessInit, NoSpan
  <2>10. Totals
    BY <2>3, <2>4, <2>5 DEF Totals, SessInit
  <2>11. QED
    BY <2>1, <2>2, <2>8, <2>9, <2>10 DEF PageKept
<1>2. SessSpec => []SessInv
  <2>1. SessInv /\ [SessNext]_sessVars => SessInv'
    BY GhostStep
  <2>2. QED
    BY <2>1, SessBegins, PTL DEF SessSpec
<1>3. SessInv /\ SessInv' /\ PageInv /\ [SessNext]_sessVars => PageInv'
  BY PageStep DEF SessInv
<1>4. PageInv => PageTells
  <2> SUFFICES ASSUME PageInv, page.pc = "done", deletions = 0
               PROVE  PageTells
    BY DEF PageTells
  <2>1. PageKept
    BY DEF PageInv
  <2>2. /\ "child" \in page.spans => "root" \in page.spans
        /\ \A s \in Span :
             /\ Len(page.costs[s]) <= Cardinality(BillsIn(page.events[s])) + Silent(s) + 1
             /\ Tellable(page.events[s]) /\ page.events[s] \in Seq(RowType)
        /\ PageCost <= paidFor
        /\ page.quiet /\ page.paidFor = paidFor /\ ~astray => PageCost = paidFor
    BY <2>1, TruePageTells
  <2>3. ASSUME NEW s \in Span
        PROVE  LET evs == page.events[s]
                   billed == {i \in DOMAIN evs : evs[i].kind \in
                                {"AnswerTurn", "ToolTurn", "CutTurn", "TurnFailed",
                                 "SubagentStop", "PostCompact"}}
                   silent == IF s = "root" THEN objects ELSE 0
                   told == TimelineOf(evs)
               IN  /\ Len(page.costs[s]) <= Cardinality(billed) + silent + 1
                   /\ told # <<>> => Head(told).label = "user"
                   /\ \A i \in DOMAIN told :
                        told[i].label = "tool" /\ ~told[i].timed =>
                          told[i].of.kind = "CutTurn" \/ told[i].of.call = 0
    <3>1. /\ TimelineOf(page.events[s]) # <<>> =>
               Head(TimelineOf(page.events[s])).label = "user"
          /\ \A i \in DOMAIN TimelineOf(page.events[s]) :
               TimelineOf(page.events[s])[i].label = "tool"
               /\ ~TimelineOf(page.events[s])[i].timed =>
                 \/ TimelineOf(page.events[s])[i].of.kind = "CutTurn"
                 \/ TimelineOf(page.events[s])[i].of.call = 0
      BY <2>2, TimelineTells
    <3>2. Len(page.costs[s]) <= Cardinality(BillsIn(page.events[s])) + Silent(s) + 1
      BY <2>2
    <3>3. QED
      BY <3>1, <3>2 DEF BillsIn, BillKinds, Silent
  <2>4. QED
    BY <2>2, <2>3 DEF PageTells
<1>5. QED
  BY <1>1, <1>2, <1>3, <1>4, PTL DEF SessSpec
=============================================================================
