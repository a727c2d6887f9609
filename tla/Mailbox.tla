------------------------------ MODULE Mailbox ------------------------------
(***************************************************************************)
(* What a Kernel promises about messages, with no goroutines and no locks: *)
(* a message is either spoken straight into the conversation (the prompt   *)
(* of a Stream call) or posted (Enqueue, a background result); posted      *)
(* messages enter the conversation in the order they were posted, in       *)
(* batches and each one once; and a message leaves the conversation only   *)
(* into a summary that covers it.                                          *)
(***************************************************************************)
EXTENDS Naturals, Sequences

CONSTANTS Prompts, Posts

VARIABLES
  pending,    \* posted, not yet part of the conversation
  live,       \* the messages of the conversation, in order
  summarised  \* the messages a summary stands for

Members(s) == {s[i] : i \in DOMAIN s}

Known == Members(pending) \cup Members(live) \cup summarised

Init == pending = <<>> /\ live = <<>> /\ summarised = {}

Speak(c) ==
  /\ c \notin Known
  /\ live' = Append(live, c)
  /\ UNCHANGED <<pending, summarised>>

Post(m) ==
  /\ m \notin Known
  /\ pending' = Append(pending, m)
  /\ UNCHANGED <<live, summarised>>

Deliver(n) ==
  /\ live' = live \o SubSeq(pending, 1, n)
  /\ pending' = SubSeq(pending, n + 1, Len(pending))
  /\ UNCHANGED summarised

Summarise ==
  /\ summarised' = summarised \cup Members(live)
  /\ live' = <<>>
  /\ UNCHANGED pending

Next ==
  \/ \E c \in Prompts : Speak(c)
  \/ \E m \in Posts : Post(m)
  \/ \E n \in 1..Len(pending) : Deliver(n)
  \/ Summarise

Spec == Init /\ [][Next]_<<pending, live, summarised>>
=============================================================================
