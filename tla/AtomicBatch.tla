---------------------------- MODULE AtomicBatch ----------------------------
(***************************************************************************)
(* What runToolCalls promises of a batch of tool calls, with no goroutines *)
(* and no half-written file: in one step every edit is applied in the      *)
(* order of the calls, every other call sees the file as the edits leave   *)
(* it, and the answers come back in the order of the calls.  Where the     *)
(* batch holds shell commands that write, the file takes these writes in   *)
(* some order after the edits, and a read sees some of them, the last one  *)
(* perhaps half done.                                                      *)
(***************************************************************************)
EXTENDS Naturals, Sequences

VARIABLES
  calls,    \* the kind of each call of the batch
  outcome,  \* the answer to each call, <<>> until they are there
  file      \* the calls whose writes the file holds, in order

Answer(ok, saw, torn) == [ok |-> ok, saw |-> saw, torn |-> torn]

Edits  == {i \in DOMAIN calls : calls[i] = "edit"}
Shells == {i \in DOMAIN calls : calls[i] = "shell"}

\* All the orders of the calls in S.
Orders(S) ==
  {s \in UNION {[1..n -> S] : n \in 0..Len(calls)} :
     /\ \A a, b \in DOMAIN s : a # b => s[a] # s[b]
     /\ \A i \in S : \E a \in DOMAIN s : s[a] = i}

InOrder(s) == \A a, b \in DOMAIN s : a < b => s[a] < s[b]

\* What a call may answer when the edits and the shell commands write in these orders.
AnswersTo(kind, edits, order) ==
  CASE kind = "read" ->
         {Answer(TRUE, edits \o SubSeq(order, 1, n), FALSE) : n \in 0..Len(order)}
           \cup {Answer(TRUE, edits \o SubSeq(order, 1, n), TRUE) : n \in 0..Len(order) - 1}
    [] kind \in {"edit", "shell"} -> {Answer(TRUE, <<>>, FALSE)}
    [] kind \in {"badEdit", "unknown"} -> {Answer(FALSE, <<>>, FALSE)}

Init == outcome = <<>> /\ file = <<>>

Run ==
  /\ outcome = <<>>
  /\ \E edits \in Orders(Edits), order \in Orders(Shells) :
       /\ InOrder(edits)
       /\ DOMAIN outcome' = DOMAIN calls
       /\ \A i \in DOMAIN calls : outcome'[i] \in AnswersTo(calls[i], edits, order)
       /\ file' = edits \o order
  /\ UNCHANGED calls

Spec == Init /\ [][Run]_<<calls, outcome, file>>
=============================================================================
