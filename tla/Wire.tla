-------------------------------- MODULE Wire --------------------------------
(***************************************************************************)
(* One llm-step on the wire: the POST and its retries (doWithRetry), the   *)
(* goroutine that reads the event stream (Client.StreamComplete and        *)
(* AnthropicClient.StreamComplete), the one that forwards its deltas       *)
(* (GatewayStep.Stream), and the host that ranges over them; or the same   *)
(* request without a stream (Complete).                                    *)
(*                                                                         *)
(* The provider is external.  Its answer is a sequence of lines; a line is *)
(* the set of parts it carries a fragment of, and the fragment is known by *)
(* the number of its line.  The last line also carries the finish reason.  *)
(* The body of the response may end at any line, as a body does whose      *)
(* connection was closed in an orderly way too early.                      *)
(***************************************************************************)
EXTENDS Naturals, Sequences, SequencesExt

CONSTANTS
  Lines,      \* the lines an OpenAI-compatible provider may send
  MaxLines,   \* bound: lines of one answer
  MaxRetries  \* 3 in the code

Parts == {"text", "reasoning", "call1", "call2"}

\* An Anthropic event carries one fragment; it may be an error.
EventLines == {line \in Lines : \A p, q \in line : p = q} \cup {{"error"}}

ASSUME WireAssumption ==
  Lines \subseteq SUBSET Parts /\ MaxLines \in Nat /\ MaxRetries \in Nat

VARIABLES
  wire,      \* "openai" or "anthropic"
  mode,      \* "stream" or "complete"
  answer,    \* what the provider has to say
  ctx,       \* "live", "cancelled" or "expired"
  call,      \* where the request is
  posts,     \* POSTs made
  read,      \* lines the reader has taken from the body
  reader,    \* where the reading goroutine is
  toSend,    \* the deltas of the current line that are not sent yet
  aborted,   \* local `aborted` of the reader
  content,   \* what has been accumulated of each part
  readErr,   \* finalErr of the reader
  forwarder, \* where the forwarding goroutine is
  held,      \* the delta it forwards
  received,  \* the deltas the host has received
  left,      \* the host has stopped receiving
  result     \* what Final, or Complete, returns

request == <<wire, mode, answer>>
reading == <<read, reader, toSend, aborted, content, readErr>>
forwarding == <<forwarder, held, received, left, result>>
wireVars == <<request, ctx, call, posts, reading, forwarding>>

NoDelta  == <<0, "none">>
NoResult == [reason |-> "none", err |-> "none"]

WireInit ==
  /\ wire \in {"openai", "anthropic"} /\ mode \in {"stream", "complete"}
  /\ answer \in UNION {[1..n -> IF wire = "openai" THEN Lines ELSE EventLines] :
                         n \in 1..MaxLines}
  /\ ctx = "live" /\ call = "post" /\ posts = 0
  /\ read = 0 /\ reader = "none" /\ toSend = <<>> /\ aborted = FALSE
  /\ content = [p \in Parts |-> <<>>] /\ readErr = "none"
  /\ forwarder = "none" /\ held = NoDelta /\ received = <<>> /\ left = FALSE
  /\ result = NoResult

-----------------------------------------------------------------------------
(* doWithRetry.                                                             *)

Live == ctx = "live"

\* The request is answered: a cancelled context answers with an error of its
\* own.
Answered ==
  /\ call = "post" /\ Live
  /\ posts' = posts + 1
  /\ call' = "reading"
  /\ reader' = "scan"
  /\ forwarder' = IF mode = "stream" THEN "receive" ELSE "none"
  /\ UNCHANGED <<request, ctx, read, toSend, aborted, content, readErr, held,
                 received, left, result>>

\* Any other status than 200, 429 and 5xx is final.
Refused ==
  /\ call = "post" /\ Live
  /\ posts' = posts + 1
  /\ call' = "refused"
  /\ UNCHANGED <<request, ctx, reading, forwarding>>

\* Mutant of MayRetry: one retry short.
MayRetryOnceLess == posts' < MaxRetries

\* attempt < 3: the attempts made, this one included, are one more.
MayRetry == posts' <= MaxRetries

\* 429, 5xx or a network error.
Unavailable ==
  /\ call = "post"
  /\ posts' = IF Live THEN posts + 1 ELSE posts
  /\ call' = IF Live /\ MayRetry THEN "backoff" ELSE "unavailable"
  /\ UNCHANGED <<request, ctx, reading, forwarding>>

BackoffOver ==
  /\ call = "backoff"
  /\ call' = "post"
  /\ UNCHANGED <<request, ctx, posts, reading, forwarding>>

BackoffCancelled ==
  /\ call = "backoff" /\ ~Live
  /\ call' = "unavailable"
  /\ UNCHANGED <<request, ctx, posts, reading, forwarding>>

-----------------------------------------------------------------------------
(* Complete: the whole body, or an error.                                   *)

\* The numbers of the fragments of a part in the first n lines.
Fragments(p, n) ==
  FlattenSeq([i \in 1..n |-> IF p \in answer[i] THEN <<i>> ELSE <<>>])

\* Half a body does not decode.
Complete ==
  /\ mode = "complete" /\ reader = "scan"
  /\ reader' = "done"
  /\ \/ /\ content' = [p \in Parts |-> Fragments(p, Len(answer))]
        /\ result' = [reason |-> "finish", err |-> "none"]
     \/ /\ result' = [reason |-> "none", err |-> IF Live THEN "failed" ELSE ctx]
        /\ UNCHANGED content
  /\ UNCHANGED <<request, ctx, call, posts, read, toSend, aborted, readErr,
                 forwarder, held, received, left>>

-----------------------------------------------------------------------------
(* The reading goroutine.                                                   *)

\* Mutant of AddTo: the index of a fragment is not looked at.
AddToFirst(parts, line, n) ==
  [p \in Parts |->
     IF p \in line \ {"call2"} \/ (p = "call1" /\ "call2" \in line)
       THEN Append(parts[p], n) ELSE parts[p]]

\* Fragments of tool calls go to the call of their index.
AddTo(parts, line, n) ==
  [p \in Parts |-> IF p \in line THEN Append(parts[p], n) ELSE parts[p]]

Deltas(line, n) ==
  (IF "text" \in line THEN << <<n, "text">> >> ELSE <<>>)
    \o (IF "reasoning" \in line THEN << <<n, "reasoning">> >> ELSE <<>>)

\* One line: the context is asked after it was read, then it is taken apart.
ReadLine ==
  /\ mode = "stream" /\ reader = "scan" /\ read < Len(answer)
  /\ IF Live /\ ~aborted
       THEN LET n == read + 1 IN
            /\ read' = n
            /\ content' = AddTo(content, answer[n], n)
            /\ toSend' = Deltas(answer[n], n)
            /\ reader' = IF toSend' = <<>> THEN "scan" ELSE "send"
            /\ readErr' = IF "error" \in answer[n] THEN "failed" ELSE readErr
            /\ UNCHANGED aborted
       ELSE /\ aborted' = TRUE /\ reader' = "end"
            /\ UNCHANGED <<read, content, toSend, readErr>>
  /\ UNCHANGED <<request, ctx, call, posts, forwarding>>

\* After a delta: the next one of the line, the end if the context interrupted
\* the line, or the next line.  The Anthropic reader sees the interruption
\* after its next line only.
AfterSend ==
  /\ toSend' = Tail(toSend)
  /\ reader' = IF toSend' # <<>> THEN "send"
               ELSE IF aborted' /\ wire = "openai" THEN "end" ELSE "scan"

\* An unbuffered channel: the two goroutines take this step together.
Send ==
  /\ reader = "send" /\ forwarder = "receive"
  /\ held' = Head(toSend)
  /\ forwarder' = "forward"
  /\ aborted' = aborted
  /\ AfterSend
  /\ UNCHANGED <<request, ctx, call, posts, read, content, readErr, received,
                 left, result>>

SendAborted ==
  /\ reader = "send" /\ ~Live
  /\ aborted' = TRUE
  /\ AfterSend
  /\ UNCHANGED <<request, ctx, call, posts, read, content, readErr, forwarding>>

\* The body ends, be it too early; a scanner sees no error in that.
BodyEnds ==
  /\ mode = "stream" /\ reader = "scan"
  /\ reader' = "end"
  /\ UNCHANGED <<request, ctx, call, posts, read, toSend, aborted, content,
                 readErr, forwarding>>

\* The connection breaks, or the context has cut it.
BodyFails ==
  /\ mode = "stream" /\ reader = "scan"
  /\ reader' = "end"
  /\ readErr' = IF readErr # "none" \/ aborted THEN readErr
                ELSE IF Live THEN "failed" ELSE ctx
  /\ UNCHANGED <<request, ctx, call, posts, read, toSend, aborted, content,
                 forwarding>>

\* The response is assembled and the channel closed.
Close ==
  /\ reader = "end"
  /\ reader' = "done"
  /\ readErr' = IF aborted /\ readErr = "none" THEN ctx ELSE readErr
  /\ UNCHANGED <<request, ctx, call, posts, read, toSend, aborted, content,
                 forwarding>>

-----------------------------------------------------------------------------
(* The forwarding goroutine and the host.                                   *)

Forward ==
  /\ forwarder = "forward" /\ ~left
  /\ forwarder' = "receive"
  /\ received' = Append(received, held)
  /\ held' = NoDelta
  /\ UNCHANGED <<request, ctx, call, posts, reading, left, result>>

\* Mutants of Drop: a delta is dropped whenever the host is slow; it is never
\* dropped.
DropSlow ==
  /\ forwarder = "forward"
  /\ forwarder' = "receive"
  /\ held' = NoDelta
  /\ UNCHANGED <<request, ctx, call, posts, reading, received, left, result>>

DropNever ==
  /\ forwarder = "forward" /\ ~Live /\ ~left
  /\ forwarder' = "receive"
  /\ held' = NoDelta
  /\ UNCHANGED <<request, ctx, call, posts, reading, received, left, result>>

Drop ==
  /\ forwarder = "forward" /\ ~Live
  /\ forwarder' = "receive"
  /\ held' = NoDelta
  /\ UNCHANGED <<request, ctx, call, posts, reading, received, left, result>>

\* A cancelled step is "aborted", one past its deadline an error, unless the
\* stream itself had ended well.
Err == IF readErr = "none" /\ ~Live THEN ctx ELSE readErr

Reason ==
  CASE readErr = "cancelled" \/ (readErr = "none" /\ ~Live) -> "aborted"
    [] readErr \in {"failed", "expired"}                    -> "error"
    [] OTHER -> IF read = Len(answer) THEN "finish" ELSE "other"

Final ==
  /\ forwarder = "receive" /\ reader = "done"
  /\ forwarder' = "done"
  /\ result' = [reason |-> Reason, err |-> Err]
  /\ UNCHANGED <<request, ctx, call, posts, reading, held, received, left>>

-----------------------------------------------------------------------------
Cancel ==
  /\ Live
  /\ ctx' \in {"cancelled", "expired"}
  /\ UNCHANGED <<request, call, posts, reading, forwarding>>

LeaveStream ==
  /\ ~left /\ mode = "stream"
  /\ left' = TRUE
  /\ UNCHANGED <<request, ctx, call, posts, reading, forwarder, held, received, result>>

Posting    == Answered \/ Refused \/ Unavailable \/ BackoffOver \/ BackoffCancelled
Reading    == Complete \/ ReadLine \/ Send \/ SendAborted \/ BodyEnds \/ BodyFails \/ Close
Forwarding == Forward \/ Drop \/ Final

WireNext == Posting \/ Reading \/ Forwarding \/ Cancel \/ LeaveStream

WireSpec == WireInit /\ [][WireNext]_wireVars

\* Every goroutine that can move does, and the provider answers or its
\* connection ends.
WireFairSpec ==
  WireSpec /\ WF_wireVars(Posting) /\ WF_wireVars(Reading) /\ WF_wireVars(Forwarding)

-----------------------------------------------------------------------------
(* Properties.                                                              *)

\* What Final returns is some beginning of the provider's answer, each fragment
\* in its own part and in order, however deltas, cancellation and the end of the
\* body interleave; a finish reason without an error says that it is all of it.
FinalIsTheAnswer ==
  /\ \E n \in 0..Len(answer) : \A p \in Parts : content[p] = Fragments(p, n)
  /\ result.reason = "finish" /\ result.err = "none" =>
       \A p \in Parts : content[p] = Fragments(p, Len(answer))

AllDeltas(n) == FlattenSeq([i \in 1..n |-> Deltas(answer[i], i)])

\* The host receives each delta at most once and in order, and "partial content
\* is preserved": what it received is in the message it gets.  If the step ends
\* without an error it has received all of the message.
DeltasFaithful ==
  /\ \A i, j \in DOMAIN received :
       i < j => \/ received[i][1] < received[j][1]
                \/ received[i][1] = received[j][1] /\ received[i][2] # received[j][2]
                                                  /\ received[i][2] = "text"
  /\ \A i \in DOMAIN received : Contains(content[received[i][2]], received[i][1])
  /\ forwarder = "done" /\ result.err = "none" => received = AllDeltas(read)

\* doWithRetry gives up on an unavailable provider only when the context is gone
\* or the request and all of its retries have failed.
GivesUpRightly == call = "unavailable" => ~Live \/ posts = MaxRetries + 1

StepOver == call \in {"refused", "unavailable"} \/ result # NoResult

\* A step ends, cancelled or not: neither goroutine waits for the other for ever,
\* unless the host has stopped receiving and never cancels.
StepEnds == <>StepOver \/ <>[](left /\ Live)
=============================================================================
