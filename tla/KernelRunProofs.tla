-------------------------- MODULE KernelRunProofs --------------------------
(***************************************************************************)
(* Proofs about KernelRun for any number of Stream calls, background       *)
(* agents and host messages.                                               *)
(***************************************************************************)
EXTENDS KernelRun, DataLemmas

\* Draining hands the queue to one goroutine and leaves it empty; both keep
\* their type.
LEMMA DrainTypes ==
  ASSUME queue \in Seq(Msg), batch \in [Proc -> Seq(Msg)],
         NEW p \in Proc, DrainQueue(p)
  PROVE  /\ queue' \in Seq(Msg)
         /\ batch' \in [Proc -> Seq(Msg)]
         /\ failed' \in BOOLEAN
<1>1. queue' \in Seq(Msg)
  BY EmptySeq DEF DrainQueue
<1>2. batch' \in [Proc -> Seq(Msg)]
  BY DEF DrainQueue
<1> QED
  BY <1>1, <1>2 DEF DrainQueue

\* An append to History keeps its type and that of the copies it was made from.
LEMMA AppendTypes ==
  ASSUME TypeOK, NEW p \in Proc, NEW entries \in Seq(Msg \cup {Turn, Summary}),
         AppendHistory(p, entries)
  PROVE  /\ history' \in Seq(Msg \cup {Turn, Summary})
         /\ snap' \in [Proc -> Seq(Msg \cup {Turn, Summary})]
<1>1. snap[p] \in Seq(Msg \cup {Turn, Summary})
  BY DEF TypeOK
<1>2. snap[p] \o entries \in Seq(Msg \cup {Turn, Summary})
  BY <1>1, ConcatProperties
<1>3. snap' \in [Proc -> Seq(Msg \cup {Turn, Summary})]
  BY EmptySeq DEF TypeOK, AppendHistory
<1> QED
  BY <1>2, <1>3 DEF AppendHistory

\* So does appending what a goroutine has drained.
LEMMA DeliveryTypes ==
  ASSUME TypeOK, NEW p \in Proc, AppendHistory(p, batch[p]),
         batch' = [batch EXCEPT ![p] = <<>>]
  PROVE  /\ history' \in Seq(Msg \cup {Turn, Summary})
         /\ snap' \in [Proc -> Seq(Msg \cup {Turn, Summary})]
         /\ batch' \in [Proc -> Seq(Msg)]
<1>1. batch[p] \in Seq(Msg)
  BY DEF TypeOK
<1>2. /\ Len(batch[p]) \in Nat /\ DOMAIN batch[p] = 1..Len(batch[p])
      /\ \A i \in 1..Len(batch[p]) : batch[p][i] \in Msg
  BY <1>1
<1>3. batch[p] \in Seq(Msg \cup {Turn, Summary})
  BY <1>1, <1>2
<1>4. batch' \in [Proc -> Seq(Msg)]
  BY EmptySeq DEF TypeOK
<1> QED
  BY <1>3, <1>4, AppendTypes

\* The kernel NewKernel returns is well typed.
LEMMA TypeCorrectInit == Init => TypeOK
<1> SUFFICES ASSUME Init PROVE TypeOK
  OBVIOUS
<1>1. \A S : <<>> \in Seq(S)
  BY EmptySeq
<1>2. pc \in [Proc -> PC]
  BY DEF Init, PC
<1>3. batch \in [Proc -> Seq(Msg)] /\ snap \in [Proc -> Seq(Msg \cup {Turn, Summary})]
  BY <1>1 DEF Init
<1>4. turns \in [Proc -> Nat] /\ running \in BOOLEAN /\ failed \in BOOLEAN /\ idle \in BOOLEAN
  BY DEF Init
<1> QED
  BY <1>1, <1>2, <1>3, <1>4 DEF Init, TypeOK

\* No operation changes the type of anything.
LEMMA TypeCorrectStep == TypeOK /\ [Next]_vars => TypeOK'
<1> SUFFICES ASSUME TypeOK, [Next]_vars PROVE TypeOK'
  OBVIOUS
<1> USE DEF TypeOK, Goto, ReadHistory, AppendHistory, DrainQueue, ResetHistory,
        PC, HoldsRun, InLoop, Resuming, Preparing, Stopped, Msg, Proc
<1>1. ASSUME NEW c \in Callers, StreamEnter(c) PROVE TypeOK'
  BY <1>1 DEF StreamEnter
<1>2. ASSUME NEW c \in Callers, StreamStep(c) PROVE TypeOK'
  <2>1. CASE StreamCompact(c) BY <2>1 DEF StreamCompact
  <2>2. CASE StreamNoCompact(c) BY <2>2 DEF StreamNoCompact
  <2>3. CASE StreamCompacted(c) BY <2>3 DEF StreamCompacted
  <2>4. CASE StreamCompactFails(c) BY <2>4 DEF StreamCompactFails
  <2>5. CASE PromptRead(c) BY <2>5 DEF PromptRead
  <2>6. CASE PromptWrite(c) BY <2>6, SMTT(30) DEF PromptWrite
  <2>7. CASE Validate(c) BY <2>7 DEF Validate
  <2> QED BY <1>2, <2>1, <2>2, <2>3, <2>4, <2>5, <2>6, <2>7 DEF StreamStep
<1>3. ASSUME NEW p \in Proc, LockRun(p) PROVE TypeOK'
  BY <1>3 DEF LockRun
<1>4. ASSUME NEW p \in Proc, LoopStep(p) PROVE TypeOK'
  <2>1. CASE SetRunning(p) BY <2>1 DEF SetRunning
  <2>2. CASE TurnRead(p) BY <2>2 DEF TurnRead
  <2>3. CASE TurnWrite(p)
    <3>1. pc' \in [Proc -> PC]
      BY <2>3 DEF TurnWrite
    <3>2. /\ history' \in Seq(Msg \cup {Turn, Summary})
          /\ snap' \in [Proc -> Seq(Msg \cup {Turn, Summary})]
      BY <2>3 DEF TurnWrite
    <3> QED BY <2>3, <3>1, <3>2 DEF TurnWrite
  <2>4. CASE Boundary(p) BY <2>4, DrainTypes DEF Boundary
  <2>5. CASE BoundaryWrite(p)
    <3>1. pc' \in [Proc -> PC]
      BY <2>5 DEF BoundaryWrite
    <3>2. /\ history' \in Seq(Msg \cup {Turn, Summary})
          /\ snap' \in [Proc -> Seq(Msg \cup {Turn, Summary})]
          /\ batch' \in [Proc -> Seq(Msg)]
      BY <2>5, DeliveryTypes DEF BoundaryWrite
    <3> QED BY <2>5, <3>1, <3>2 DEF BoundaryWrite
  <2>6. CASE BoundaryNoQueue(p) BY <2>6 DEF BoundaryNoQueue
  <2>7. CASE LoopCompact(p) BY <2>7 DEF LoopCompact
  <2>8. CASE LoopCompacted(p) BY <2>8 DEF LoopCompacted
  <2>9. CASE LoopFails(p)
    <3>1. pc' \in [Proc -> PC]
      BY <2>9 DEF LoopFails
    <3>2. snap' \in [Proc -> Seq(Msg \cup {Turn, Summary})] /\ wakeMu' \in Proc \cup {NoProc}
      BY <2>9, EmptySeq DEF LoopFails
    <3> QED BY <2>9, <3>1, <3>2 DEF LoopFails
  <2>10. CASE Stop(p) BY <2>10 DEF Stop
  <2>11. CASE LimitStops(p) BY <2>11 DEF LimitStops
  <2> QED BY <1>4, <2>1, <2>2, <2>3, <2>4, <2>5, <2>6, <2>7, <2>8, <2>9, <2>10, <2>11
          DEF LoopStep
<1>5. ASSUME NEW p \in Proc, ResumeLock(p) PROVE TypeOK'
  BY <1>5 DEF ResumeLock
<1>6. ASSUME NEW p \in Proc, ResumeStep(p) PROVE TypeOK'
  <2>1. CASE ResumeNoop(p) BY <2>1 DEF ResumeNoop
  <2>2. CASE ResumeCheck(p) BY <2>2 DEF ResumeCheck
  <2>3. CASE MasterIdle(p) BY <2>3 DEF MasterIdle
  <2>4. CASE ResumeDrain(p) BY <2>4, DrainTypes DEF ResumeDrain
  <2>5. CASE Inject(p)
    <3>1. pc' \in [Proc -> PC]
      BY <2>5 DEF Inject
    <3>2. /\ history' \in Seq(Msg \cup {Turn, Summary})
          /\ snap' \in [Proc -> Seq(Msg \cup {Turn, Summary})]
          /\ batch' \in [Proc -> Seq(Msg)]
      BY <2>5, DeliveryTypes DEF Inject
    <3> QED BY <2>5, <3>1, <3>2 DEF Inject
  <2> QED BY <1>6, <2>1, <2>2, <2>3, <2>4, <2>5 DEF ResumeStep
<1>7. ASSUME NEW t \in Tasks, Spawn(t) \/ Finish(t) PROVE TypeOK'
  <2>1. CASE Spawn(t) BY <2>1 DEF Spawn
  <2>2. CASE Finish(t)
    <3>1. queue' \in Seq(Msg)
      BY <2>2, AppendProperties DEF Finish
    <3>2. pc' \in [Proc -> PC]
      BY <2>2 DEF Finish
    <3> QED BY <2>2, <3>1, <3>2 DEF Finish
  <2> QED BY <1>7, <2>1, <2>2
<1>8. ASSUME NEW h \in HostMsgs, HostEnqueue(h) PROVE TypeOK'
  BY <1>8 DEF HostEnqueue
<1>9. CASE UNCHANGED vars
  BY <1>9 DEF vars
<1> QED
  BY <1>1, <1>2, <1>3, <1>4, <1>5, <1>6, <1>7, <1>8, <1>9 DEF Next

(***************************************************************************)
(* Every variable of the run-state keeps the type its Go declaration gives *)
(* it, and every goroutine is at one of the points of Stream,              *)
(* streamCurrent, tryResume or SpawnBackground.                            *)
(***************************************************************************)
THEOREM TypeCorrect == Spec => []TypeOK
  BY TypeCorrectInit, TypeCorrectStep, PTL DEF Spec

-----------------------------------------------------------------------------
(***************************************************************************)
(* The inductive invariant.  wakeMu belongs to a goroutine from the moment *)
(* it asks whether to resume until the loop it resumed has ended, its own  *)
(* second tryResume included; while a goroutine holds it past its drain,   *)
(* nobody else can decide to leave a result to "a live loop", so the queue *)
(* holds no orphan.                                                        *)
(***************************************************************************)
Resumed == {"injectWrite", "runLock", "resumeLock"} \cup HoldsRun

WakeHeld ==
  /\ \A p \in Proc : pc[p] \in Resuming => wakeMu = p
  /\ \A p \in Proc : wakeMu = p => pc[p] \in Resuming \cup Resumed

NoOrphan == \A t \in Tasks : ~Orphaned(t)

WakeClean ==
  ~failed => \A p \in Proc : wakeMu = p /\ pc[p] \in Resumed => NoOrphan

IInv == TypeOK /\ LoopSerialized /\ WakeHeld /\ WakeClean /\ NoWakeGap

\* Initially nobody holds a lock and the queue is empty.
LEMMA IInvInit == Init => IInv
<1> SUFFICES ASSUME Init PROVE IInv
  OBVIOUS
<1>1. TypeOK
  BY TypeCorrectInit
<1>2. \A p \in Proc : pc[p] \in {"idle", "unspawned"}
  BY DEF Init
<1>3. LoopSerialized
  BY <1>2, ProcAssumption DEF Init, LoopSerialized, HoldsRun, InLoop
<1>4. WakeHeld
  BY <1>2, ProcAssumption DEF Init, WakeHeld, Resuming
<1>5. NoOrphan
  BY <1>2 DEF NoOrphan, Orphaned, Proc
<1> QED
  BY <1>1, <1>3, <1>4, <1>5 DEF IInv, WakeClean, NoWakeGap, NoOrphan

\* What one step may do to the lock state, action by action.
LEMMA LoopSerializedStep ==
  TypeOK /\ LoopSerialized /\ [Next]_vars => LoopSerialized'
<1> SUFFICES ASSUME TypeOK, LoopSerialized, [Next]_vars PROVE LoopSerialized'
  OBVIOUS
<1> USE ProcAssumption DEF LoopSerialized, Goto, HoldsRun, InLoop, TypeOK, Proc
<1>1. ASSUME NEW c \in Callers, StreamEnter(c) PROVE LoopSerialized'
  BY <1>1 DEF StreamEnter
<1>2. ASSUME NEW c \in Callers, StreamStep(c) PROVE LoopSerialized'
  <2> SUFFICES ASSUME NEW from \in Preparing, NEW to \in Preparing \cup Stopped \cup {"runLock"},
                      Goto(c, from, to), UNCHANGED <<runMu, running>>
               PROVE  LoopSerialized'
    BY <1>2 DEF StreamStep, StreamCompact, StreamNoCompact, StreamCompacted,
       StreamCompactFails, PromptRead, PromptWrite, Validate, Preparing, Stopped
  <2> QED BY DEF Preparing, Stopped
<1>3. ASSUME NEW p \in Proc, LockRun(p) PROVE LoopSerialized'
  BY <1>3 DEF LockRun
<1>4. ASSUME NEW p \in Proc, LoopStep(p) PROVE LoopSerialized'
  <2>1. CASE SetRunning(p) BY <2>1 DEF SetRunning
  <2>2. CASE TurnRead(p) BY <2>2 DEF TurnRead
  <2>3. CASE TurnWrite(p) BY <2>3 DEF TurnWrite
  <2>4. CASE Boundary(p) BY <2>4 DEF Boundary
  <2>5. CASE BoundaryWrite(p) BY <2>5 DEF BoundaryWrite
  <2>6. CASE BoundaryNoQueue(p) BY <2>6 DEF BoundaryNoQueue
  <2>7. CASE LoopCompact(p) BY <2>7 DEF LoopCompact
  <2>8. CASE LoopCompacted(p) BY <2>8 DEF LoopCompacted
  <2>9. CASE LoopFails(p) BY <2>9 DEF LoopFails
  <2>10. CASE Stop(p) BY <2>10 DEF Stop
  <2>11. CASE LimitStops(p) BY <2>11 DEF LimitStops
  <2> QED BY <1>4, <2>1, <2>2, <2>3, <2>4, <2>5, <2>6, <2>7, <2>8, <2>9, <2>10, <2>11
          DEF LoopStep
<1>5. ASSUME NEW p \in Proc, ResumeLock(p) PROVE LoopSerialized'
  BY <1>5 DEF ResumeLock
<1>6. ASSUME NEW p \in Proc, ResumeStep(p) PROVE LoopSerialized'
  <2>1. CASE ResumeNoop(p) BY <2>1 DEF ResumeNoop
  <2>2. CASE ResumeCheck(p) BY <2>2 DEF ResumeCheck
  <2>3. CASE MasterIdle(p) BY <2>3 DEF MasterIdle
  <2>4. CASE ResumeDrain(p) BY <2>4 DEF ResumeDrain
  <2>5. CASE Inject(p) BY <2>5 DEF Inject
  <2> QED BY <1>6, <2>1, <2>2, <2>3, <2>4, <2>5 DEF ResumeStep
<1>7. ASSUME NEW t \in Tasks, Spawn(t) \/ Finish(t) PROVE LoopSerialized'
  <2>1. CASE Spawn(t) BY <2>1 DEF Spawn
  <2>2. CASE Finish(t) BY <2>2 DEF Finish
  <2> QED BY <1>7, <2>1, <2>2
<1>8. ASSUME NEW h \in HostMsgs, HostEnqueue(h) PROVE LoopSerialized'
  BY <1>8 DEF HostEnqueue
<1>9. CASE UNCHANGED vars
  BY <1>9 DEF vars
<1> QED
  BY <1>1, <1>2, <1>3, <1>4, <1>5, <1>6, <1>7, <1>8, <1>9 DEF Next

(***************************************************************************)
(* Kernel.running tells tryResume the truth: it holds exactly while one    *)
(* goroutine, the holder of runMu, is inside the loop.                     *)
(***************************************************************************)
THEOREM RunStateIsHonest == Spec => []LoopSerialized
<1>1. Init => LoopSerialized
  BY IInvInit DEF IInv
<1> QED
  BY <1>1, LoopSerializedStep, TypeCorrect, PTL DEF Spec

\* wakeMu changes hands only through tryResume.
LEMMA WakeHeldStep ==
  TypeOK /\ WakeHeld /\ [Next]_vars => WakeHeld'
<1> SUFFICES ASSUME TypeOK, WakeHeld, [Next]_vars PROVE WakeHeld'
  OBVIOUS
<1> USE ProcAssumption DEF WakeHeld, Resumed, Goto, HoldsRun, InLoop, Resuming, TypeOK, Proc
<1>1. ASSUME NEW c \in Callers, StreamEnter(c) PROVE WakeHeld'
  BY <1>1 DEF StreamEnter
<1>2. ASSUME NEW c \in Callers, StreamStep(c) PROVE WakeHeld'
  <2>1. CASE StreamCompact(c) BY <2>1 DEF StreamCompact
  <2>2. CASE StreamNoCompact(c) BY <2>2 DEF StreamNoCompact
  <2>3. CASE StreamCompacted(c) BY <2>3 DEF StreamCompacted
  <2>4. CASE StreamCompactFails(c) BY <2>4 DEF StreamCompactFails
  <2>5. CASE PromptRead(c) BY <2>5 DEF PromptRead
  <2>6. CASE PromptWrite(c) BY <2>6 DEF PromptWrite
  <2>7. CASE Validate(c) BY <2>7 DEF Validate
  <2> QED BY <1>2, <2>1, <2>2, <2>3, <2>4, <2>5, <2>6, <2>7 DEF StreamStep
<1>3. ASSUME NEW p \in Proc, LockRun(p) PROVE WakeHeld'
  BY <1>3 DEF LockRun
<1>4. ASSUME NEW p \in Proc, LoopStep(p) PROVE WakeHeld'
  <2>1. CASE SetRunning(p) BY <2>1 DEF SetRunning
  <2>2. CASE TurnRead(p) BY <2>2 DEF TurnRead
  <2>3. CASE TurnWrite(p) BY <2>3 DEF TurnWrite
  <2>4. CASE Boundary(p) BY <2>4 DEF Boundary
  <2>5. CASE BoundaryWrite(p) BY <2>5 DEF BoundaryWrite
  <2>6. CASE BoundaryNoQueue(p) BY <2>6 DEF BoundaryNoQueue
  <2>7. CASE LoopCompact(p) BY <2>7 DEF LoopCompact
  <2>8. CASE LoopCompacted(p) BY <2>8 DEF LoopCompacted
  <2>9. CASE LoopFails(p) BY <2>9 DEF LoopFails
  <2>10. CASE Stop(p) BY <2>10 DEF Stop
  <2>11. CASE LimitStops(p) BY <2>11 DEF LimitStops
  <2> QED BY <1>4, <2>1, <2>2, <2>3, <2>4, <2>5, <2>6, <2>7, <2>8, <2>9, <2>10, <2>11 DEF LoopStep
<1>5. ASSUME NEW p \in Proc, ResumeLock(p) PROVE WakeHeld'
  BY <1>5 DEF ResumeLock
<1>6. ASSUME NEW p \in Proc, ResumeStep(p) PROVE WakeHeld'
  <2>1. CASE ResumeNoop(p) BY <2>1 DEF ResumeNoop
  <2>2. CASE ResumeCheck(p) BY <2>2 DEF ResumeCheck
  <2>3. CASE MasterIdle(p) BY <2>3 DEF MasterIdle
  <2>4. CASE ResumeDrain(p) BY <2>4 DEF ResumeDrain
  <2>5. CASE Inject(p) BY <2>5 DEF Inject
  <2> QED BY <1>6, <2>1, <2>2, <2>3, <2>4, <2>5 DEF ResumeStep
<1>7. ASSUME NEW t \in Tasks, Spawn(t) \/ Finish(t) PROVE WakeHeld'
  <2>1. CASE Spawn(t) BY <2>1 DEF Spawn
  <2>2. CASE Finish(t) BY <2>2 DEF Finish
  <2> QED BY <1>7, <2>1, <2>2
<1>8. ASSUME NEW h \in HostMsgs, HostEnqueue(h) PROVE WakeHeld'
  BY <1>8 DEF HostEnqueue
<1>9. CASE UNCHANGED vars
  BY <1>9 DEF vars
<1> QED
  BY <1>1, <1>2, <1>3, <1>4, <1>5, <1>6, <1>7, <1>8, <1>9 DEF Next

\* The orphans of the next state, by what the step does to the queue and to
\* the goroutines: an orphan appears only when a goroutine whose result is
\* queued ends.
LEMMA OrphanStep ==
  ASSUME TypeOK, [Next]_vars, NEW t \in Tasks, Orphaned(t)'
  PROVE  Orphaned(t) \/ ResumeNoop(t)
<1> USE ProcAssumption DEF Orphaned, Goto, DrainQueue, TypeOK, Proc, Msg
<1>1. ASSUME NEW c \in Callers, StreamEnter(c) PROVE Orphaned(t) \/ ResumeNoop(t)
  BY <1>1 DEF StreamEnter
<1>2. ASSUME NEW c \in Callers, StreamStep(c) PROVE Orphaned(t) \/ ResumeNoop(t)
  <2>1. CASE StreamCompact(c) BY <2>1 DEF StreamCompact
  <2>2. CASE StreamNoCompact(c) BY <2>2 DEF StreamNoCompact
  <2>3. CASE StreamCompacted(c) BY <2>3 DEF StreamCompacted
  <2>4. CASE StreamCompactFails(c) BY <2>4 DEF StreamCompactFails
  <2>5. CASE PromptRead(c) BY <2>5 DEF PromptRead
  <2>6. CASE PromptWrite(c) BY <2>6 DEF PromptWrite
  <2>7. CASE Validate(c) BY <2>7 DEF Validate
  <2> QED BY <1>2, <2>1, <2>2, <2>3, <2>4, <2>5, <2>6, <2>7 DEF StreamStep
<1>3. ASSUME NEW p \in Proc, LockRun(p) PROVE Orphaned(t) \/ ResumeNoop(t)
  BY <1>3 DEF LockRun
<1>4. ASSUME NEW p \in Proc, LoopStep(p) PROVE Orphaned(t) \/ ResumeNoop(t)
  <2>1. CASE SetRunning(p) BY <2>1 DEF SetRunning
  <2>2. CASE TurnRead(p) BY <2>2 DEF TurnRead
  <2>3. CASE TurnWrite(p) BY <2>3 DEF TurnWrite
  <2>4. CASE Boundary(p) BY <2>4 DEF Boundary
  <2>5. CASE BoundaryWrite(p) BY <2>5 DEF BoundaryWrite
  <2>6. CASE BoundaryNoQueue(p) BY <2>6 DEF BoundaryNoQueue
  <2>7. CASE LoopCompact(p) BY <2>7 DEF LoopCompact
  <2>8. CASE LoopCompacted(p) BY <2>8 DEF LoopCompacted
  <2>9. CASE LoopFails(p) BY <2>9 DEF LoopFails
  <2>10. CASE Stop(p) BY <2>10 DEF Stop
  <2>11. CASE LimitStops(p) BY <2>11 DEF LimitStops
  <2> QED BY <1>4, <2>1, <2>2, <2>3, <2>4, <2>5, <2>6, <2>7, <2>8, <2>9, <2>10, <2>11 DEF LoopStep
<1>5. ASSUME NEW p \in Proc, ResumeLock(p) PROVE Orphaned(t) \/ ResumeNoop(t)
  BY <1>5 DEF ResumeLock
<1>6. ASSUME NEW p \in Proc, ResumeStep(p) PROVE Orphaned(t) \/ ResumeNoop(t)
  <2>1. CASE ResumeNoop(p) BY <2>1 DEF ResumeNoop
  <2>2. CASE ResumeCheck(p) BY <2>2 DEF ResumeCheck
  <2>3. CASE MasterIdle(p) BY <2>3 DEF MasterIdle
  <2>4. CASE ResumeDrain(p) BY <2>4 DEF ResumeDrain
  <2>5. CASE Inject(p) BY <2>5 DEF Inject
  <2> QED BY <1>6, <2>1, <2>2, <2>3, <2>4, <2>5 DEF ResumeStep
<1>7. ASSUME NEW u \in Tasks, Spawn(u) \/ Finish(u) PROVE Orphaned(t) \/ ResumeNoop(t)
  <2>1. CASE Spawn(u) BY <2>1 DEF Spawn
  <2>2. CASE Finish(u) BY <2>2, SMTT(30) DEF Finish
  <2> QED BY <1>7, <2>1, <2>2
<1>8. ASSUME NEW h \in HostMsgs, HostEnqueue(h) PROVE Orphaned(t) \/ ResumeNoop(t)
  BY <1>8 DEF HostEnqueue
<1>9. CASE UNCHANGED vars
  BY <1>9 DEF vars
<1> QED
  BY <1>1, <1>2, <1>3, <1>4, <1>5, <1>6, <1>7, <1>8, <1>9 DEF Next

\* Once a goroutine has drained the queue on its way to resuming, nobody can
\* leave a result behind before it releases wakeMu.
LEMMA WakeCleanStep ==
  TypeOK /\ WakeHeld /\ WakeClean /\ [Next]_vars => WakeClean'
<1> SUFFICES ASSUME TypeOK, WakeHeld, WakeClean, [Next]_vars,
                    ~failed', NEW q \in Proc, wakeMu' = q, pc'[q] \in Resumed,
                    NEW t \in Tasks, Orphaned(t)'
             PROVE  FALSE
  BY DEF WakeClean, NoOrphan
<1>0. ~ResumeNoop(t) /\ Orphaned(t)
  BY OrphanStep, ProcAssumption DEF ResumeNoop
<1>1a. queue' # <<>>
  BY DEF Orphaned
<1>2a. ~failed => ~(wakeMu = q /\ pc[q] \in Resumed)
  BY <1>0 DEF WakeClean, NoOrphan
<1> HIDE DEF Orphaned, WakeClean
<1> USE <1>0, <1>1a, <1>2a, ProcAssumption
    DEF WakeHeld, Resumed, Goto, HoldsRun, InLoop, Resuming, TypeOK, Proc, DrainQueue
<1>1. ASSUME NEW c \in Callers, StreamEnter(c) PROVE FALSE
  BY <1>1 DEF StreamEnter
<1>2. ASSUME NEW c \in Callers, StreamStep(c) PROVE FALSE
  <2>1. CASE StreamCompact(c) BY <2>1 DEF StreamCompact
  <2>2. CASE StreamNoCompact(c) BY <2>2 DEF StreamNoCompact
  <2>3. CASE StreamCompacted(c) BY <2>3 DEF StreamCompacted
  <2>4. CASE StreamCompactFails(c) BY <2>4 DEF StreamCompactFails
  <2>5. CASE PromptRead(c) BY <2>5 DEF PromptRead
  <2>6. CASE PromptWrite(c) BY <2>6 DEF PromptWrite
  <2>7. CASE Validate(c) BY <2>7 DEF Validate
  <2> QED BY <1>2, <2>1, <2>2, <2>3, <2>4, <2>5, <2>6, <2>7 DEF StreamStep
<1>3. ASSUME NEW p \in Proc, LockRun(p) PROVE FALSE
  BY <1>3 DEF LockRun
<1>4. ASSUME NEW p \in Proc, LoopStep(p) PROVE FALSE
  <2>1. CASE SetRunning(p) BY <2>1 DEF SetRunning
  <2>2. CASE TurnRead(p) BY <2>2 DEF TurnRead
  <2>3. CASE TurnWrite(p) BY <2>3 DEF TurnWrite
  <2>4. CASE Boundary(p) BY <2>4 DEF Boundary
  <2>5. CASE BoundaryWrite(p) BY <2>5 DEF BoundaryWrite
  <2>6. CASE BoundaryNoQueue(p) BY <2>6 DEF BoundaryNoQueue
  <2>7. CASE LoopCompact(p) BY <2>7 DEF LoopCompact
  <2>8. CASE LoopCompacted(p) BY <2>8 DEF LoopCompacted
  <2>9. CASE LoopFails(p) BY <2>9 DEF LoopFails
  <2>10. CASE Stop(p) BY <2>10 DEF Stop
  <2>11. CASE LimitStops(p) BY <2>11 DEF LimitStops
  <2> QED BY <1>4, <2>1, <2>2, <2>3, <2>4, <2>5, <2>6, <2>7, <2>8, <2>9, <2>10, <2>11 DEF LoopStep
<1>5. ASSUME NEW p \in Proc, ResumeLock(p) PROVE FALSE
  BY <1>5 DEF ResumeLock
<1>6. ASSUME NEW p \in Proc, ResumeStep(p) PROVE FALSE
  <2>1. CASE ResumeNoop(p) BY <2>1 DEF ResumeNoop
  <2>2. CASE ResumeCheck(p) BY <2>2 DEF ResumeCheck
  <2>3. CASE MasterIdle(p) BY <2>3 DEF MasterIdle
  <2>4. CASE ResumeDrain(p) BY <2>4 DEF ResumeDrain
  <2>5. CASE Inject(p) BY <2>5 DEF Inject
  <2> QED BY <1>6, <2>1, <2>2, <2>3, <2>4, <2>5 DEF ResumeStep
<1>7. ASSUME NEW u \in Tasks, Spawn(u) \/ Finish(u) PROVE FALSE
  <2>1. CASE Spawn(u) BY <2>1 DEF Spawn
  <2>2. CASE Finish(u) BY <2>2 DEF Finish
  <2> QED BY <1>7, <2>1, <2>2
<1>8. ASSUME NEW h \in HostMsgs, HostEnqueue(h) PROVE FALSE
  BY <1>8 DEF HostEnqueue
<1>9. CASE UNCHANGED vars
  BY <1>9 DEF vars
<1> QED
  BY <1>1, <1>2, <1>3, <1>4, <1>5, <1>6, <1>7, <1>8, <1>9 DEF Next

\* The obligation to look at the queue is handed on, discharged by a drain, or
\* given up by a failing loop.
LEMMA NoWakeGapStep ==
  TypeOK /\ LoopSerialized /\ WakeHeld /\ WakeClean /\ NoWakeGap /\ [Next]_vars
    => NoWakeGap'
<1> SUFFICES ASSUME TypeOK, LoopSerialized, WakeHeld, WakeClean, NoWakeGap, [Next]_vars,
                    ~failed', NEW t \in Tasks, Orphaned(t)'
             PROVE  \E q \in Proc : WillDrain(q)'
  BY DEF NoWakeGap
<1>1a. queue' # <<>>
  BY DEF Orphaned
<1>2a. Orphaned(t) \/ ResumeNoop(t)
  BY OrphanStep
<1>3a. ~failed /\ Orphaned(t) => \E q \in Proc : WillDrain(q)
  BY DEF NoWakeGap
<1>4a. ~failed /\ Orphaned(t) => \A q \in Proc : ~(wakeMu = q /\ pc[q] \in Resumed)
  BY DEF WakeClean, NoOrphan
<1>5a. ResumeNoop(t) => \E q \in Proc : q # t /\ pc[q] \in InLoop
  BY DEF ResumeNoop, LoopSerialized, Goto, InLoop
<1> HIDE DEF Orphaned
<1> USE <1>1a, <1>2a, <1>3a, <1>4a, <1>5a, ProcAssumption
    DEF WillDrain, WakeHeld, Resumed, Goto, HoldsRun, InLoop, Resuming, TypeOK, Proc, DrainQueue
<1>1. ASSUME NEW c \in Callers, StreamEnter(c) PROVE \E q \in Proc : WillDrain(q)'
  BY <1>1 DEF StreamEnter
<1>2. ASSUME NEW c \in Callers, StreamStep(c) PROVE \E q \in Proc : WillDrain(q)'
  <2>1. CASE StreamCompact(c) BY <2>1 DEF StreamCompact
  <2>2. CASE StreamNoCompact(c) BY <2>2 DEF StreamNoCompact
  <2>3. CASE StreamCompacted(c) BY <2>3 DEF StreamCompacted
  <2>4. CASE StreamCompactFails(c) BY <2>4 DEF StreamCompactFails
  <2>5. CASE PromptRead(c) BY <2>5 DEF PromptRead
  <2>6. CASE PromptWrite(c) BY <2>6 DEF PromptWrite
  <2>7. CASE Validate(c) BY <2>7 DEF Validate
  <2> QED BY <1>2, <2>1, <2>2, <2>3, <2>4, <2>5, <2>6, <2>7 DEF StreamStep
<1>3. ASSUME NEW p \in Proc, LockRun(p) PROVE \E q \in Proc : WillDrain(q)'
  BY <1>3 DEF LockRun
<1>4. ASSUME NEW p \in Proc, LoopStep(p) PROVE \E q \in Proc : WillDrain(q)'
  <2>1. CASE SetRunning(p) BY <2>1 DEF SetRunning
  <2>2. CASE TurnRead(p) BY <2>2 DEF TurnRead
  <2>3. CASE TurnWrite(p) BY <2>3 DEF TurnWrite
  <2>4. CASE Boundary(p) BY <2>4 DEF Boundary
  <2>5. CASE BoundaryWrite(p) BY <2>5 DEF BoundaryWrite
  <2>6. CASE BoundaryNoQueue(p) BY <2>6 DEF BoundaryNoQueue
  <2>7. CASE LoopCompact(p) BY <2>7 DEF LoopCompact
  <2>8. CASE LoopCompacted(p) BY <2>8 DEF LoopCompacted
  <2>9. CASE LoopFails(p) BY <2>9 DEF LoopFails
  <2>10. CASE Stop(p)
    <3>1. ~ResumeNoop(t)
      BY <2>10 DEF Stop, ResumeNoop
    <3>2. wakeMu # p
      BY <2>10, <3>1 DEF Stop
    <3>3. pc'[p] = "resumeLock" /\ wakeMu' = wakeMu
      BY <2>10 DEF Stop
    <3> QED BY <3>2, <3>3
  <2>11. CASE LimitStops(p) BY <2>11 DEF LimitStops
  <2> QED BY <1>4, <2>1, <2>2, <2>3, <2>4, <2>5, <2>6, <2>7, <2>8, <2>9, <2>10, <2>11 DEF LoopStep
<1>5. ASSUME NEW p \in Proc, ResumeLock(p) PROVE \E q \in Proc : WillDrain(q)'
  BY <1>5 DEF ResumeLock
<1>6. ASSUME NEW p \in Proc, ResumeStep(p) PROVE \E q \in Proc : WillDrain(q)'
  <2>1. CASE ResumeNoop(p)
    <3>1. PICK q \in Proc : pc[q] \in InLoop
      BY <2>1 DEF ResumeNoop, LoopSerialized
    <3>2. pc'[q] \in HoldsRun
      BY <2>1, <3>1 DEF ResumeNoop
    <3> QED BY <3>2
  <2>2. CASE ResumeCheck(p) BY <2>2 DEF ResumeCheck
  <2>3. CASE MasterIdle(p) BY <2>3 DEF MasterIdle
  <2>4. CASE ResumeDrain(p) BY <2>4 DEF ResumeDrain
  <2>5. CASE Inject(p) BY <2>5 DEF Inject
  <2> QED BY <1>6, <2>1, <2>2, <2>3, <2>4, <2>5 DEF ResumeStep
<1>7. ASSUME NEW u \in Tasks, Spawn(u) \/ Finish(u) PROVE \E q \in Proc : WillDrain(q)'
  <2>1. CASE Spawn(u) BY <2>1 DEF Spawn
  <2>2. CASE Finish(u) BY <2>2 DEF Finish
  <2> QED BY <1>7, <2>1, <2>2
<1>8. ASSUME NEW h \in HostMsgs, HostEnqueue(h) PROVE \E q \in Proc : WillDrain(q)'
  BY <1>8 DEF HostEnqueue
<1>9. CASE UNCHANGED vars
  BY <1>9 DEF vars
<1> QED
  BY <1>1, <1>2, <1>3, <1>4, <1>5, <1>6, <1>7, <1>8, <1>9 DEF Next

\* Every step keeps the invariant: OrphanStep and the conjuncts above, together.
LEMMA IInvStep == IInv /\ [Next]_vars => IInv'
  BY TypeCorrectStep, LoopSerializedStep, WakeHeldStep, WakeCleanStep, NoWakeGapStep
  DEF IInv

(***************************************************************************)
(* tryResume, asked both by a loop that has ended and by a background      *)
(* agent that has finished, leaves no gap: a result whose goroutine went   *)
(* away is looked at by somebody, unless a loop failed in between.         *)
(***************************************************************************)
THEOREM NoResultFallsInTheGap == Spec => []NoWakeGap
<1>1. IInv => NoWakeGap
  BY DEF IInv
<1> QED
  BY <1>1, IInvInit, IInvStep, PTL DEF Spec

-----------------------------------------------------------------------------
(***************************************************************************)
(* Idleness.  MasterIdle is fired by the holder of wakeMu, and a woken     *)
(* loop holds wakeMu from the look at `running` to its end: whatever a     *)
(* goroutine in the loop was woken for, nobody else can be about to fire.  *)
(***************************************************************************)
WokenHold ==
  \A t \in Tasks : /\ pc[t] \notin {"idle"} \cup Preparing
                   /\ pc[t] \in {"runLock"} \cup HoldsRun => wakeMu = t

\* No agent has been started.
LEMMA WokenInit == Init => WokenHold /\ IdleMeansIdle
  BY ProcAssumption
  DEF Init, WokenHold, IdleMeansIdle, Proc, Preparing, HoldsRun, InLoop

\* A background agent's goroutine enters the loop from tryResume only.
LEMMA WokenHoldStep ==
  TypeOK /\ WakeHeld /\ WokenHold /\ [Next]_vars => WokenHold'
<1> SUFFICES ASSUME TypeOK, WakeHeld, WokenHold, [Next]_vars PROVE WokenHold'
  OBVIOUS
<1> USE ProcAssumption
    DEF WokenHold, WakeHeld, Goto, HoldsRun, InLoop, Resuming, Preparing, TypeOK, Proc
<1>1. ASSUME NEW c \in Callers, StreamEnter(c) PROVE WokenHold'
  BY <1>1 DEF StreamEnter
<1>2. ASSUME NEW c \in Callers, StreamStep(c) PROVE WokenHold'
  <2>1. CASE StreamCompact(c) BY <2>1 DEF StreamCompact
  <2>2. CASE StreamNoCompact(c) BY <2>2 DEF StreamNoCompact
  <2>3. CASE StreamCompacted(c) BY <2>3 DEF StreamCompacted
  <2>4. CASE StreamCompactFails(c) BY <2>4 DEF StreamCompactFails
  <2>5. CASE PromptRead(c) BY <2>5 DEF PromptRead
  <2>6. CASE PromptWrite(c) BY <2>6 DEF PromptWrite
  <2>7. CASE Validate(c) BY <2>7 DEF Validate
  <2> QED BY <1>2, <2>1, <2>2, <2>3, <2>4, <2>5, <2>6, <2>7 DEF StreamStep
<1>3. ASSUME NEW p \in Proc, LockRun(p) PROVE WokenHold'
  BY <1>3 DEF LockRun
<1>4. ASSUME NEW p \in Proc, LoopStep(p) PROVE WokenHold'
  <2>1. CASE SetRunning(p) BY <2>1 DEF SetRunning
  <2>2. CASE TurnRead(p) BY <2>2 DEF TurnRead
  <2>3. CASE TurnWrite(p) BY <2>3 DEF TurnWrite
  <2>4. CASE Boundary(p) BY <2>4 DEF Boundary
  <2>5. CASE BoundaryWrite(p) BY <2>5 DEF BoundaryWrite
  <2>6. CASE BoundaryNoQueue(p) BY <2>6 DEF BoundaryNoQueue
  <2>7. CASE LoopCompact(p) BY <2>7 DEF LoopCompact
  <2>8. CASE LoopCompacted(p) BY <2>8 DEF LoopCompacted
  <2>9. CASE LoopFails(p) BY <2>9 DEF LoopFails
  <2>10. CASE Stop(p) BY <2>10 DEF Stop
  <2>11. CASE LimitStops(p) BY <2>11 DEF LimitStops
  <2> QED BY <1>4, <2>1, <2>2, <2>3, <2>4, <2>5, <2>6, <2>7, <2>8, <2>9, <2>10, <2>11 DEF LoopStep
<1>5. ASSUME NEW p \in Proc, ResumeLock(p) PROVE WokenHold'
  BY <1>5 DEF ResumeLock
<1>6. ASSUME NEW p \in Proc, ResumeStep(p) PROVE WokenHold'
  <2>1. CASE ResumeNoop(p) BY <2>1 DEF ResumeNoop
  <2>2. CASE ResumeCheck(p) BY <2>2 DEF ResumeCheck
  <2>3. CASE MasterIdle(p) BY <2>3 DEF MasterIdle
  <2>4. CASE ResumeDrain(p) BY <2>4 DEF ResumeDrain
  <2>5. CASE Inject(p) BY <2>5 DEF Inject
  <2> QED BY <1>6, <2>1, <2>2, <2>3, <2>4, <2>5 DEF ResumeStep
<1>7. ASSUME NEW t \in Tasks, Spawn(t) \/ Finish(t) PROVE WokenHold'
  <2>1. CASE Spawn(t) BY <2>1 DEF Spawn
  <2>2. CASE Finish(t) BY <2>2 DEF Finish
  <2> QED BY <1>7, <2>1, <2>2
<1>8. ASSUME NEW h \in HostMsgs, HostEnqueue(h) PROVE WokenHold'
  BY <1>8 DEF HostEnqueue
<1>9. CASE UNCHANGED vars
  BY <1>9 DEF vars
<1> QED
  BY <1>1, <1>2, <1>3, <1>4, <1>5, <1>6, <1>7, <1>8, <1>9 DEF Next

\* Who fires MasterIdle holds wakeMu, so whoever runs was not woken; who takes wakeMu
\* or runMu does not hold the other and finds no loop running.
LEMMA IdleStep ==
  TypeOK /\ LoopSerialized /\ WakeHeld /\ WokenHold /\ IdleMeansIdle /\ [Next]_vars
    => IdleMeansIdle'
<1> SUFFICES ASSUME TypeOK, LoopSerialized, WakeHeld, WokenHold, IdleMeansIdle, [Next]_vars
             PROVE  IdleMeansIdle'
  OBVIOUS
<1>1. ASSUME NEW c \in Callers, StreamEnter(c) \/ StreamStep(c) PROVE IdleMeansIdle'
  BY <1>1 DEF IdleMeansIdle, StreamEnter, StreamStep, StreamCompact, StreamNoCompact,
     StreamCompacted, StreamCompactFails, PromptRead, PromptWrite, Validate
<1>2. ASSUME NEW p \in Proc, LockRun(p) PROVE IdleMeansIdle'
  <2>1. runMu = NoProc /\ running' = running
    BY <1>2 DEF LockRun
  <2>2. ~running
    BY <2>1, ProcAssumption DEF LoopSerialized, HoldsRun
  <2> QED BY <2>1, <2>2 DEF IdleMeansIdle
<1>3. ASSUME NEW p \in Proc, LoopStep(p) PROVE IdleMeansIdle'
  <2>1. CASE SetRunning(p) BY <2>1 DEF SetRunning, IdleMeansIdle
  <2>2. CASE LoopFails(p) \/ Stop(p) BY <2>2 DEF LoopFails, Stop, IdleMeansIdle
  <2> QED
    BY <1>3, <2>1, <2>2 DEF IdleMeansIdle, LoopStep, LimitStops, TurnRead, TurnWrite, Boundary,
       BoundaryWrite, BoundaryNoQueue, LoopCompact, LoopCompacted
<1>4. ASSUME NEW p \in Proc, ResumeLock(p) PROVE IdleMeansIdle'
  <2>1. pc[p] = "resumeLock" /\ wakeMu' = p /\ UNCHANGED <<runMu, running, idle>>
    BY <1>4 DEF ResumeLock, Goto
  <2>2. runMu # p
    BY <2>1 DEF LoopSerialized, HoldsRun, InLoop
  <2> QED BY <2>1, <2>2 DEF IdleMeansIdle
<1>5. ASSUME NEW p \in Proc, ResumeStep(p) PROVE IdleMeansIdle'
  <2>1. CASE MasterIdle(p)
    <3>1. pc[p] = "resumeDrain" /\ wakeMu' = NoProc /\ UNCHANGED <<runMu, running>>
      BY <2>1 DEF MasterIdle, Goto
    <3>2. wakeMu = p
      BY <3>1 DEF WakeHeld, Resuming
    <3>3. ASSUME running PROVE runMu \in Callers /\ runMu # NoProc
      <4>1. PICK q \in Proc : pc[q] \in InLoop
        BY <3>3 DEF LoopSerialized
      <4>2. runMu = q /\ q # p
        BY <3>1, <4>1 DEF LoopSerialized, HoldsRun, InLoop
      <4>3. q \notin Tasks
        BY <3>2, <4>1, <4>2 DEF WokenHold, HoldsRun
      <4> QED BY <4>2, <4>3, ProcAssumption DEF Proc
    <3> QED BY <3>1, <3>3 DEF IdleMeansIdle
  <2>2. CASE ResumeNoop(p)
    <3>1. wakeMu' = NoProc /\ UNCHANGED <<runMu, running, idle>>
      BY <2>2 DEF ResumeNoop
    <3>2. Callers \subseteq Proc
      BY DEF Proc
    <3> QED BY <3>1, <3>2, ProcAssumption DEF IdleMeansIdle
  <2> QED
    BY <1>5, <2>1, <2>2 DEF IdleMeansIdle, ResumeStep, ResumeCheck, ResumeDrain, Inject
<1>6. ASSUME NEW t \in Tasks, Spawn(t) \/ Finish(t) PROVE IdleMeansIdle'
  BY <1>6 DEF IdleMeansIdle, Spawn, Finish
<1>7. ASSUME NEW h \in HostMsgs, HostEnqueue(h) PROVE IdleMeansIdle'
  BY <1>7 DEF IdleMeansIdle, HostEnqueue
<1>8. CASE UNCHANGED vars
  BY <1>8 DEF IdleMeansIdle, vars
<1> QED
  BY <1>1, <1>2, <1>3, <1>4, <1>5, <1>6, <1>7, <1>8 DEF Next

(***************************************************************************)
(* A host that has no call of Stream open may trust MasterIdle, for any    *)
(* number of calls and of background agents, started from wherever: until  *)
(* the next loop starts, what runs is a call of the host's own and not a   *)
(* loop that a background result has woken.                                *)
(***************************************************************************)
THEOREM MasterIdleIsTrue == Spec => []IdleMeansIdle
<1>1. Init => WokenHold /\ IdleMeansIdle
  BY WokenInit
<1>2. IInv /\ WokenHold /\ IdleMeansIdle /\ [Next]_vars => (WokenHold /\ IdleMeansIdle)'
  BY WokenHoldStep, IdleStep DEF IInv
<1> QED
  BY <1>1, <1>2, IInvInit, IInvStep, PTL DEF Spec

-----------------------------------------------------------------------------
(***************************************************************************)
(* One call.  A host that calls Stream once and starts its background      *)
(* agents from the turns of that call is how the example hosts use a       *)
(* kernel.  Then a goroutine on its way into the loop either holds wakeMu  *)
(* or is the call itself, before there was any background agent.           *)
(***************************************************************************)
OneCall == (\A c, d \in Callers : c = d) /\ ~HostSpawns

FirstRun ==
  /\ \A c \in Callers : pc[c] \in {"idle"} \cup Preparing =>
       \A t \in Tasks : pc[t] = "unspawned"
  /\ \A p \in Proc : pc[p] \in {"runLock", "store"} =>
       \/ wakeMu = p
       \/ p \in Callers /\ \A t \in Tasks : pc[t] = "unspawned"
  /\ \A t \in Tasks : pc[t] \notin {"idle"} \cup Preparing
  /\ \A p \in Proc : pc[p] \in {"resumeDrain", "injectWrite"} => ~running

\* No agent has been started and nobody is in the loop.
LEMMA FirstRunInit == Init => FirstRun
  BY ProcAssumption DEF Init, FirstRun, Proc, Preparing

\* Whoever enters the loop while another one is inside tryResume would have to
\* hold wakeMu or to be the call before its first turn.
LEMMA FirstRunStep ==
  OneCall /\ TypeOK /\ LoopSerialized /\ WakeHeld /\ FirstRun /\ [Next]_vars => FirstRun'
<1> SUFFICES ASSUME OneCall, TypeOK, LoopSerialized, WakeHeld, FirstRun, [Next]_vars
             PROVE  FirstRun'
  OBVIOUS
<1> USE ProcAssumption
    DEF OneCall, FirstRun, WakeHeld, Goto, HoldsRun, InLoop, Resuming, Preparing,
        Stopped, TypeOK, Proc
<1>1. ASSUME NEW c \in Callers, StreamEnter(c) PROVE FirstRun'
  BY <1>1 DEF StreamEnter
<1>2. ASSUME NEW c \in Callers, StreamStep(c) PROVE FirstRun'
  <2>1. CASE StreamCompact(c) BY <2>1 DEF StreamCompact
  <2>2. CASE StreamNoCompact(c) BY <2>2 DEF StreamNoCompact
  <2>3. CASE StreamCompacted(c) BY <2>3 DEF StreamCompacted
  <2>4. CASE StreamCompactFails(c) BY <2>4 DEF StreamCompactFails
  <2>5. CASE PromptRead(c) BY <2>5 DEF PromptRead
  <2>6. CASE PromptWrite(c) BY <2>6 DEF PromptWrite
  <2>7. CASE Validate(c) BY <2>7 DEF Validate
  <2> QED BY <1>2, <2>1, <2>2, <2>3, <2>4, <2>5, <2>6, <2>7 DEF StreamStep
<1>3. ASSUME NEW p \in Proc, LockRun(p) PROVE FirstRun'
  BY <1>3 DEF LockRun
<1>4. ASSUME NEW p \in Proc, LoopStep(p) PROVE FirstRun'
  <2>1. CASE SetRunning(p)
    <3>1. \A q \in Proc : pc[q] \notin {"resumeDrain", "injectWrite"}
      BY <2>1 DEF SetRunning
    <3> QED BY <2>1, <3>1 DEF SetRunning
  <2>2. CASE TurnRead(p) BY <2>2 DEF TurnRead
  <2>3. CASE TurnWrite(p) BY <2>3 DEF TurnWrite
  <2>4. CASE Boundary(p) BY <2>4 DEF Boundary
  <2>5. CASE BoundaryWrite(p) BY <2>5 DEF BoundaryWrite
  <2>6. CASE BoundaryNoQueue(p) BY <2>6 DEF BoundaryNoQueue
  <2>7. CASE LoopCompact(p) BY <2>7 DEF LoopCompact
  <2>8. CASE LoopCompacted(p) BY <2>8 DEF LoopCompacted
  <2>9. CASE LoopFails(p) BY <2>9 DEF LoopFails
  <2>10. CASE Stop(p) BY <2>10 DEF Stop
  <2>11. CASE LimitStops(p) BY <2>11 DEF LimitStops
  <2> QED BY <1>4, <2>1, <2>2, <2>3, <2>4, <2>5, <2>6, <2>7, <2>8, <2>9, <2>10, <2>11 DEF LoopStep
<1>5. ASSUME NEW p \in Proc, ResumeLock(p) PROVE FirstRun'
  BY <1>5 DEF ResumeLock
<1>6. ASSUME NEW p \in Proc, ResumeStep(p) PROVE FirstRun'
  <2>1. CASE ResumeNoop(p) BY <2>1 DEF ResumeNoop
  <2>2. CASE ResumeCheck(p) BY <2>2 DEF ResumeCheck
  <2>3. CASE MasterIdle(p) BY <2>3 DEF MasterIdle
  <2>4. CASE ResumeDrain(p) BY <2>4 DEF ResumeDrain
  <2>5. CASE Inject(p) BY <2>5 DEF Inject
  <2> QED BY <1>6, <2>1, <2>2, <2>3, <2>4, <2>5 DEF ResumeStep
<1>7. ASSUME NEW t \in Tasks, Spawn(t) \/ Finish(t) PROVE FirstRun'
  <2>1. CASE Spawn(t)
    <3>1. PICK p \in Proc : pc[p] = "turnWrite"
      BY <2>1 DEF Spawn
    <3>2. \A q \in Proc : pc[q] \notin {"store"} /\ (pc[q] = "runLock" => q # p)
      BY <3>1 DEF LoopSerialized
    <3>3. \A c \in Callers : pc[c] \notin {"idle"} \cup Preparing
      BY <3>1
    <3>4. \A q \in Proc : pc[q] = "runLock" => wakeMu = q
      BY <3>1, <3>2
    <3> QED BY <2>1, <3>2, <3>3, <3>4 DEF Spawn
  <2>2. CASE Finish(t) BY <2>2 DEF Finish
  <2> QED BY <1>7, <2>1, <2>2
<1>8. ASSUME NEW h \in HostMsgs, HostEnqueue(h) PROVE FirstRun'
  BY <1>8 DEF HostEnqueue
<1>9. CASE UNCHANGED vars
  BY <1>9 DEF vars
<1> QED
  BY <1>1, <1>2, <1>3, <1>4, <1>5, <1>6, <1>7, <1>8, <1>9 DEF Next

\* With one call, two goroutines between reading History and writing it back
\* would both hold runMu, or both wakeMu, or one of them has no agent to meet.
LEMMA OneWriter ==
  OneCall /\ TypeOK /\ LoopSerialized /\ WakeHeld /\ FirstRun => HistoryOneWriter
<1> SUFFICES ASSUME OneCall, TypeOK, LoopSerialized, WakeHeld, FirstRun,
                    NEW p \in Proc, NEW q \in Proc, pc[p] \in Mutating, pc[q] \in Mutating
             PROVE  p = q
  BY DEF HistoryOneWriter
<1>1. ASSUME NEW x \in Proc, NEW y \in Proc, pc[x] \in {"preCompact", "promptWrite"},
             pc[y] \in Mutating
      PROVE  x = y
  BY <1>1 DEF OneCall, FirstRun, Preparing, Mutating, Proc
<1>2. ASSUME NEW x \in Proc, NEW y \in Proc, pc[x] \in InLoop, pc[y] \in InLoop
      PROVE  x = y
  BY <1>2 DEF LoopSerialized, HoldsRun
<1>3. ASSUME NEW x \in Proc, NEW y \in Proc, pc[x] = "injectWrite", pc[y] = "injectWrite"
      PROVE  x = y
  BY <1>3 DEF WakeHeld, Resuming
<1>4. ASSUME NEW x \in Proc, NEW y \in Proc, pc[x] = "injectWrite", pc[y] \in InLoop
      PROVE  FALSE
  BY <1>4 DEF FirstRun, LoopSerialized
<1>5. \A x \in Proc : pc[x] \in Mutating =>
        pc[x] \in {"preCompact", "promptWrite"} \cup InLoop \cup {"injectWrite"}
  BY DEF Mutating, InLoop
<1> QED
  BY <1>1, <1>2, <1>3, <1>4, <1>5

(***************************************************************************)
(* One call may have any number of background agents and queued messages:  *)
(* of all the goroutines that append to History without a lock of its own, *)
(* one at a time is between its read and its write.                        *)
(***************************************************************************)
THEOREM OneCallOneWriter == Spec => [](OneCall => HistoryOneWriter)
<1> DEFINE I == OneCall => FirstRun
<1>1. Init => I
  BY FirstRunInit
<1>2. IInv /\ I /\ [Next]_vars => I'
  BY FirstRunStep DEF IInv, OneCall
<1>3. IInv /\ I => (OneCall => HistoryOneWriter)
  BY OneWriter DEF IInv
<1> HIDE DEF I
<1> QED
  BY <1>1, <1>2, <1>3, IInvInit, IInvStep, PTL DEF Spec

-----------------------------------------------------------------------------
(***************************************************************************)
(* One place per message.  A goroutine may write back a History that others*)
(* have appended to since, so what it read counts as a place, too: as long *)
(* as a message waits in the queue or in somebody's hands, no History that *)
(* is about to be written holds it.                                        *)
(***************************************************************************)
In(m, s) == \E i \in 1..Len(s) : s[i] = m

Once(m, s) == \A i, j \in 1..Len(s) : s[i] = m /\ s[j] = m => i = j

Told(m) == In(m, history) \/ \E p \in Proc : In(m, snap[p])

Fresh(m) ==
  \/ m \in Callers /\ pc[m] \in {"idle", "enter", "preCompact", "prompt", "promptWrite"}
  \/ m \in Tasks /\ pc[m] \in {"unspawned", "child"}
  \/ m \in HostMsgs \ posted

InOnePlace(m) ==
  /\ Once(m, queue) /\ Once(m, history)
  /\ \A p \in Proc : Once(m, batch[p]) /\ Once(m, snap[p])
  /\ In(m, queue) => ~Told(m) /\ \A p \in Proc : ~In(m, batch[p])
  /\ \A p \in Proc : In(m, batch[p]) => ~Told(m) /\ \A q \in Proc \ {p} : ~In(m, batch[q])
  /\ Fresh(m) => ~Told(m) /\ ~In(m, queue) /\ \A p \in Proc : ~In(m, batch[p])

OnePlace == \A m \in Msg : InOnePlace(m)

\* The empty sequence holds nothing.
LEMMA InEmpty == \A m : ~In(m, <<>>) /\ Once(m, <<>>)
  BY DEF In, Once

\* A sequence of one entry holds that entry.
LEMMA InSingle == \A m, e : (In(m, <<e>>) <=> m = e) /\ Once(m, <<e>>)
  BY DEF In, Once

\* An appended sequence holds what its parts hold, and each message once if no
\* part holds it twice and not both hold it.
LEMMA InConcat ==
  ASSUME NEW S, NEW s \in Seq(S), NEW t \in Seq(S), NEW m
  PROVE  /\ In(m, s \o t) <=> In(m, s) \/ In(m, t)
         /\ Once(m, s) /\ Once(m, t) /\ ~(In(m, s) /\ In(m, t)) => Once(m, s \o t)
<1>1. /\ s \o t \in Seq(S) /\ Len(s \o t) = Len(s) + Len(t)
      /\ \A i \in 1..Len(s) + Len(t) :
           (s \o t)[i] = IF i <= Len(s) THEN s[i] ELSE t[i - Len(s)]
  BY ConcatProperties
<1>2. Len(s) \in Nat /\ Len(t) \in Nat
  BY LenProperties
<1>3. \A i \in 1..Len(t) : i + Len(s) \in 1..Len(s) + Len(t) /\ (s \o t)[i + Len(s)] = t[i]
  <2> TAKE i \in 1..Len(t)
  <2>1. i + Len(s) \in 1..Len(s) + Len(t) /\ ~(i + Len(s) <= Len(s)) /\ i + Len(s) - Len(s) = i
    BY <1>2
  <2> QED BY <1>1, <2>1
<1>4. \A i \in 1..Len(s) : i \in 1..Len(s) + Len(t) /\ (s \o t)[i] = s[i]
  BY <1>1, <1>2
<1>5. In(m, s) \/ In(m, t) => In(m, s \o t)
  BY <1>1, <1>3, <1>4 DEF In
<1>6. ASSUME NEW i \in 1..Len(s) + Len(t)
      PROVE  \/ i \in 1..Len(s) /\ (s \o t)[i] = s[i]
             \/ i - Len(s) \in 1..Len(t) /\ (s \o t)[i] = t[i - Len(s)]
  BY <1>1, <1>2
<1>7. In(m, s \o t) => In(m, s) \/ In(m, t)
  BY <1>1, <1>6 DEF In
<1>8. ASSUME Once(m, s), Once(m, t), ~(In(m, s) /\ In(m, t)),
             NEW i \in 1..Len(s) + Len(t), NEW j \in 1..Len(s) + Len(t),
             (s \o t)[i] = m, (s \o t)[j] = m
      PROVE  i = j
  <2>1. CASE i \in 1..Len(s) /\ s[i] = m /\ j \in 1..Len(s) /\ s[j] = m
    BY <1>8, <2>1 DEF Once
  <2>2. CASE i - Len(s) \in 1..Len(t) /\ t[i - Len(s)] = m /\ j - Len(s) \in 1..Len(t) /\ t[j - Len(s)] = m
    <3>1. i - Len(s) = j - Len(s)
      BY <1>8, <2>2 DEF Once
    <3> QED BY <3>1, <1>2
  <2>3. (i \in 1..Len(s) /\ s[i] = m) \/ (i - Len(s) \in 1..Len(t) /\ t[i - Len(s)] = m)
    BY <1>6, <1>8
  <2>4. (j \in 1..Len(s) /\ s[j] = m) \/ (j - Len(s) \in 1..Len(t) /\ t[j - Len(s)] = m)
    BY <1>6, <1>8
  <2> QED BY <1>8, <2>1, <2>2, <2>3, <2>4 DEF In
<1>9. Once(m, s) /\ Once(m, t) /\ ~(In(m, s) /\ In(m, t)) => Once(m, s \o t)
  BY <1>1, <1>8 DEF Once
<1> QED
  BY <1>5, <1>7, <1>9

\* Append is the same with one entry.
LEMMA InAppend ==
  ASSUME NEW S, NEW s \in Seq(S), NEW e \in S, NEW m
  PROVE  /\ In(m, Append(s, e)) <=> In(m, s) \/ m = e
         /\ Once(m, s) /\ (m = e => ~In(m, s)) => Once(m, Append(s, e))
<1>1. <<e>> \in Seq(S) /\ Append(s, e) = s \o <<e>>
  OBVIOUS
<1>2. /\ In(m, s \o <<e>>) <=> In(m, s) \/ In(m, <<e>>)
      /\ Once(m, s) /\ Once(m, <<e>>) /\ ~(In(m, s) /\ In(m, <<e>>)) => Once(m, s \o <<e>>)
  BY <1>1, InConcat
<1> QED
  BY <1>1, <1>2, InSingle

\* Copies counts to one where a message is held once, to nothing where it is
\* not held.
LEMMA CopiesIs ==
  ASSUME NEW S, NEW s \in Seq(S), NEW m, Once(m, s)
  PROVE  Copies(m, s) = IF In(m, s) THEN 1 ELSE 0
<1> DEFINE At == {i \in 1..Len(s) : s[i] = m}
<1>1. CASE In(m, s)
  <2>1. PICK i \in 1..Len(s) : s[i] = m
    BY <1>1 DEF In
  <2>2. At = {i}
    BY <2>1 DEF Once
  <2>3. Cardinality({i}) = 1
    BY FS_Singleton
  <2> QED BY <1>1, <2>2, <2>3 DEF Copies
<1>2. CASE ~In(m, s)
  <2>1. At = {}
    BY <1>2 DEF In
  <2> QED BY <1>2, <2>1, FS_EmptySet DEF Copies
<1> QED
  BY <1>1, <1>2

\* Initially every sequence is empty.
LEMMA OnePlaceInit == Init => OnePlace
  BY InEmpty DEF Init, OnePlace, InOnePlace, Told

\* Nothing becomes fresh again, and what enters the queue or History by its own
\* hand stops being fresh.
LEMMA FreshStep ==
  ASSUME TypeOK, [Next]_vars, NEW m, Fresh(m)'
  PROVE  /\ Fresh(m)
         /\ m \in Callers => ~PromptWrite(m)
         /\ m \in Tasks => ~Finish(m)
         /\ m \in HostMsgs => ~HostEnqueue(m)
<1> USE ProcAssumption
    DEF Fresh, Goto, HoldsRun, InLoop, Resuming, Preparing, Stopped, TypeOK, Proc
<1>a. m \in Callers => ~PromptWrite(m)
  BY DEF PromptWrite
<1>b. m \in Tasks => ~Finish(m)
  BY DEF Finish
<1>c. m \in HostMsgs => ~HostEnqueue(m)
  BY DEF HostEnqueue
<1>1. ASSUME NEW c \in Callers, StreamEnter(c) PROVE Fresh(m)
  BY <1>1 DEF StreamEnter
<1>2. ASSUME NEW c \in Callers, StreamStep(c) PROVE Fresh(m)
  <2>1. CASE StreamCompact(c) BY <2>1 DEF StreamCompact
  <2>2. CASE StreamNoCompact(c) BY <2>2 DEF StreamNoCompact
  <2>3. CASE StreamCompacted(c) BY <2>3 DEF StreamCompacted
  <2>4. CASE StreamCompactFails(c) BY <2>4 DEF StreamCompactFails
  <2>5. CASE PromptRead(c) BY <2>5 DEF PromptRead
  <2>6. CASE PromptWrite(c) BY <2>6 DEF PromptWrite
  <2>7. CASE Validate(c) BY <2>7 DEF Validate
  <2> QED BY <1>2, <2>1, <2>2, <2>3, <2>4, <2>5, <2>6, <2>7 DEF StreamStep
<1>3. ASSUME NEW p \in Proc, LockRun(p) PROVE Fresh(m)
  BY <1>3 DEF LockRun
<1>4. ASSUME NEW p \in Proc, LoopStep(p) PROVE Fresh(m)
  <2>1. CASE SetRunning(p) BY <2>1 DEF SetRunning
  <2>2. CASE TurnRead(p) BY <2>2 DEF TurnRead
  <2>3. CASE TurnWrite(p) BY <2>3 DEF TurnWrite
  <2>4. CASE Boundary(p) BY <2>4 DEF Boundary
  <2>5. CASE BoundaryWrite(p) BY <2>5 DEF BoundaryWrite
  <2>6. CASE BoundaryNoQueue(p) BY <2>6 DEF BoundaryNoQueue
  <2>7. CASE LoopCompact(p) BY <2>7 DEF LoopCompact
  <2>8. CASE LoopCompacted(p) BY <2>8 DEF LoopCompacted
  <2>9. CASE LoopFails(p) BY <2>9 DEF LoopFails
  <2>10. CASE Stop(p) BY <2>10 DEF Stop
  <2>11. CASE LimitStops(p) BY <2>11 DEF LimitStops
  <2> QED BY <1>4, <2>1, <2>2, <2>3, <2>4, <2>5, <2>6, <2>7, <2>8, <2>9, <2>10, <2>11 DEF LoopStep
<1>5. ASSUME NEW p \in Proc, ResumeLock(p) PROVE Fresh(m)
  BY <1>5 DEF ResumeLock
<1>6. ASSUME NEW p \in Proc, ResumeStep(p) PROVE Fresh(m)
  <2>1. CASE ResumeNoop(p) BY <2>1 DEF ResumeNoop
  <2>2. CASE ResumeCheck(p) BY <2>2 DEF ResumeCheck
  <2>3. CASE MasterIdle(p) BY <2>3 DEF MasterIdle
  <2>4. CASE ResumeDrain(p) BY <2>4 DEF ResumeDrain
  <2>5. CASE Inject(p) BY <2>5 DEF Inject
  <2> QED BY <1>6, <2>1, <2>2, <2>3, <2>4, <2>5 DEF ResumeStep
<1>7. ASSUME NEW t \in Tasks, Spawn(t) \/ Finish(t) PROVE Fresh(m)
  <2>1. CASE Spawn(t) BY <2>1 DEF Spawn
  <2>2. CASE Finish(t) BY <2>2 DEF Finish
  <2> QED BY <1>7, <2>1, <2>2
<1>8. ASSUME NEW h \in HostMsgs, HostEnqueue(h) PROVE Fresh(m)
  BY <1>8 DEF HostEnqueue
<1>9. ASSUME UNCHANGED vars PROVE Fresh(m)
  BY <1>9 DEF vars
<1> HIDE ProcAssumption
    DEF Fresh, Goto, HoldsRun, InLoop, Resuming, Preparing, Stopped, TypeOK, Proc
<1> QED
  BY <1>1, <1>2, <1>3, <1>4, <1>5, <1>6, <1>7, <1>8, <1>9, <1>a, <1>b, <1>c DEF Next

\* A step that hands copies of History around, or forgets them, moves nothing.
LEMMA OnePlaceStays ==
  ASSUME TypeOK, NEW m \in Msg, InOnePlace(m), Fresh(m)' => Fresh(m),
         UNCHANGED <<queue, history, batch>>,
         \A p \in Proc : snap'[p] \in {snap[p], history, <<>>}
  PROVE  InOnePlace(m)'
<1>1. \A p \in Proc : Once(m, snap'[p]) /\ (In(m, snap'[p]) => Told(m))
  BY InEmpty DEF InOnePlace, Told
<1>2. Told(m)' => Told(m)
  BY <1>1 DEF Told
<1> QED
  BY <1>1, <1>2 DEF InOnePlace

\* Compaction takes what a History holds out of the conversation.
LEMMA OnePlaceReset ==
  ASSUME TypeOK, NEW m \in Msg, InOnePlace(m), Fresh(m)' => Fresh(m),
         NEW p \in Proc, ResetHistory(p), UNCHANGED <<queue, batch>>
  PROVE  InOnePlace(m)'
<1>1. ~In(m, history') /\ Once(m, history')
  BY InSingle, ProcAssumption DEF ResetHistory
<1>2. \A q \in Proc : snap'[q] \in {snap[q], <<>>}
  BY DEF ResetHistory, TypeOK
<1>3. \A q \in Proc : Once(m, snap'[q]) /\ (In(m, snap'[q]) => Told(m))
  BY <1>2, InEmpty DEF InOnePlace, Told
<1>4. Told(m)' => Told(m)
  BY <1>1, <1>3 DEF Told
<1> QED
  BY <1>1, <1>3, <1>4 DEF InOnePlace

\* A drain hands the queue over, and what somebody reads next does not hold it.
LEMMA OnePlaceDrain ==
  ASSUME TypeOK, NEW m \in Msg, InOnePlace(m), Fresh(m)' => Fresh(m),
         NEW p \in Proc, DrainQueue(p), ReadHistory(p), UNCHANGED history
  PROVE  InOnePlace(m)'
<1>1. queue' = <<>> /\ batch'[p] = queue /\ \A q \in Proc \ {p} : batch'[q] = batch[q]
  BY DEF DrainQueue, TypeOK
<1>2. \A q \in Proc : snap'[q] \in {snap[q], history}
  BY DEF ReadHistory, TypeOK
<1>3. \A q \in Proc : Once(m, snap'[q]) /\ (In(m, snap'[q]) => Told(m))
  BY <1>2 DEF InOnePlace, Told
<1>4. Told(m)' => Told(m)
  BY <1>3 DEF Told
<1>5. ~In(m, queue') /\ Once(m, queue')
  BY <1>1, InEmpty
<1>6. \A q \in Proc : Once(m, batch'[q]) /\ (In(m, batch'[q]) => IF q = p THEN In(m, queue) ELSE In(m, batch[q]))
  BY <1>1 DEF InOnePlace
<1>7. \A q \in Proc : In(m, batch'[q]) => ~Told(m) /\ \A r \in Proc \ {q} : ~In(m, batch'[r])
  <2> SUFFICES ASSUME NEW q \in Proc, In(m, batch'[q])
               PROVE  ~Told(m) /\ \A r \in Proc \ {q} : ~In(m, batch'[r])
    OBVIOUS
  <2>1. CASE q = p
    BY <2>1, <1>6 DEF InOnePlace
  <2>2. CASE q # p
    BY <2>2, <1>6 DEF InOnePlace
  <2> QED BY <2>1, <2>2
<1>8. Fresh(m)' => \A q \in Proc : ~In(m, batch'[q])
  BY <1>6 DEF InOnePlace
<1> QED
  BY <1>3, <1>4, <1>5, <1>6, <1>7, <1>8 DEF InOnePlace

\* Appending what a goroutine has in hand, or a turn, or a prompt nobody has
\* seen: what is written was not in the History that was read.
LEMMA OnePlaceAppend ==
  ASSUME TypeOK, NEW m \in Msg, InOnePlace(m), Fresh(m)' => Fresh(m),
         NEW p \in Proc, NEW entries \in Seq(Msg \cup {Turn, Summary}),
         AppendHistory(p, entries), UNCHANGED queue,
         \A q \in Proc : batch'[q] \in {batch[q], <<>>},
         Once(m, entries),
         In(m, entries) => /\ ~Told(m) /\ ~In(m, queue) /\ ~Fresh(m)'
                           /\ \A q \in Proc : ~In(m, batch'[q])
  PROVE  InOnePlace(m)'
<1>1. snap[p] \in Seq(Msg \cup {Turn, Summary})
  BY DEF TypeOK
<1>2. /\ In(m, snap[p] \o entries) <=> In(m, snap[p]) \/ In(m, entries)
      /\ Once(m, snap[p]) /\ Once(m, entries) /\ ~(In(m, snap[p]) /\ In(m, entries))
           => Once(m, snap[p] \o entries)
  BY <1>1, InConcat
<1>3. Once(m, history') /\ (In(m, history') => Told(m) \/ In(m, entries))
  BY <1>2 DEF AppendHistory, InOnePlace, Told
<1>4. \A q \in Proc : snap'[q] \in {snap[q], <<>>}
  BY DEF AppendHistory, TypeOK
<1>5. \A q \in Proc : Once(m, snap'[q]) /\ (In(m, snap'[q]) => Told(m))
  BY <1>4, InEmpty DEF InOnePlace, Told
<1>6. Told(m)' => Told(m) \/ In(m, entries)
  BY <1>3, <1>5 DEF Told
<1>7. \A q \in Proc : Once(m, batch'[q]) /\ (In(m, batch'[q]) => In(m, batch[q]))
  BY InEmpty DEF InOnePlace
<1> QED
  BY <1>3, <1>5, <1>6, <1>7 DEF InOnePlace

\* A message nobody has seen joins the queue.
LEMMA OnePlaceEnqueue ==
  ASSUME TypeOK, NEW m \in Msg, InOnePlace(m), Fresh(m)' => Fresh(m),
         NEW e \in Msg, queue' = Append(queue, e), Fresh(e), ~Fresh(e)',
         UNCHANGED <<history, batch, snap>>
  PROVE  InOnePlace(m)'
<1>1. /\ In(m, Append(queue, e)) <=> In(m, queue) \/ m = e
      /\ Once(m, queue) /\ (m = e => ~In(m, queue)) => Once(m, Append(queue, e))
  BY InAppend DEF TypeOK
<1>2. m = e => Fresh(m) /\ ~Fresh(m)'
  OBVIOUS
<1>3. Told(m)' <=> Told(m)
  BY DEF Told
<1> QED
  BY <1>1, <1>2, <1>3 DEF InOnePlace

\* Every step moves a message from one place to the next, and only forward.
LEMMA OnePlaceStep == TypeOK /\ OnePlace /\ [Next]_vars => OnePlace'
<1> SUFFICES ASSUME TypeOK, OnePlace, [Next]_vars, NEW m \in Msg
             PROVE  InOnePlace(m)'
  BY DEF OnePlace
<1>a. InOnePlace(m) /\ (Fresh(m)' => Fresh(m))
  BY FreshStep DEF OnePlace
<1>b. ASSUME NEW p \in Proc, NEW entries,
             entries \in Seq({Turn}), AppendHistory(p, entries), UNCHANGED <<queue, batch>>,
             \A i \in 1..Len(entries) : entries[i] # m
      PROVE  InOnePlace(m)'
  <2>1. entries \in Seq(Msg \cup {Turn, Summary})
    BY <1>b
  <2>2. ~In(m, entries) /\ Once(m, entries)
    BY <1>b DEF In, Once
  <2> QED BY <1>a, <1>b, <2>1, <2>2, OnePlaceAppend
<1>c. ASSUME NEW p \in Proc, AppendHistory(p, batch[p]), UNCHANGED queue,
             batch' = [batch EXCEPT ![p] = <<>>]
      PROVE  InOnePlace(m)'
  <2>1. batch[p] \in Seq(Msg) /\ batch'[p] = <<>> /\ \A q \in Proc \ {p} : batch'[q] = batch[q]
    BY <1>c DEF TypeOK
  <2>2. batch[p] \in Seq(Msg \cup {Turn, Summary})
    BY <2>1
  <2>3. Once(m, batch[p])
    BY <1>a DEF InOnePlace
  <2>4. In(m, batch[p]) => /\ ~Told(m) /\ ~In(m, queue) /\ ~Fresh(m)'
                           /\ \A q \in Proc : ~In(m, batch'[q])
    BY <1>a, <2>1, InEmpty DEF InOnePlace
  <2>5. \A q \in Proc : batch'[q] \in {batch[q], <<>>}
    BY <2>1
  <2> HIDE DEF InOnePlace
  <2> QED BY <1>a, <1>c, <2>2, <2>3, <2>4, <2>5, OnePlaceAppend
<1>d. ASSUME NEW p \in Proc, ReadHistory(p), UNCHANGED <<queue, history, batch>>
      PROVE  InOnePlace(m)'
  <2>1. \A q \in Proc : snap'[q] \in {snap[q], history, <<>>}
    BY <1>d DEF ReadHistory, TypeOK
  <2> QED BY <1>a, <1>d, <2>1, OnePlaceStays
<1>e. ASSUME UNCHANGED <<queue, history, batch, snap>> PROVE InOnePlace(m)'
  BY <1>a, <1>e, OnePlaceStays
<1>f. ASSUME NEW p \in Proc, snap' = [snap EXCEPT ![p] = <<>>], UNCHANGED <<queue, history, batch>>
      PROVE  InOnePlace(m)'
  <2>1. \A q \in Proc : snap'[q] \in {snap[q], history, <<>>}
    BY <1>f DEF TypeOK
  <2> QED BY <1>a, <1>f, <2>1, OnePlaceStays
<1>1. ASSUME NEW c \in Callers, StreamEnter(c) PROVE InOnePlace(m)'
  BY <1>1, <1>e DEF StreamEnter
<1>2. ASSUME NEW c \in Callers, StreamStep(c) PROVE InOnePlace(m)'
  <2>0. c \in Proc /\ c \in Msg
    BY DEF Proc, Msg
  <2>1. CASE StreamCompact(c) BY <2>0, <2>1, <1>d DEF StreamCompact
  <2>2. CASE StreamNoCompact(c) BY <2>2, <1>e DEF StreamNoCompact
  <2>3. CASE StreamCompacted(c) BY <2>0, <2>3, <1>a, OnePlaceReset DEF StreamCompacted
  <2>4. CASE StreamCompactFails(c) BY <2>0, <2>4, <1>f DEF StreamCompactFails
  <2>5. CASE PromptRead(c) BY <2>0, <2>5, <1>d DEF PromptRead
  <2>6. CASE PromptWrite(c)
    <3>1. <<c>> \in Seq(Msg \cup {Turn, Summary})
      BY <2>0
    <3>2. (In(m, <<c>>) <=> m = c) /\ Once(m, <<c>>)
      BY InSingle
    <3>3. Fresh(c) /\ ~Fresh(c)'
      BY <2>6, FreshStep DEF PromptWrite, Goto, Fresh
    <3>4. AppendHistory(c, <<c>>) /\ UNCHANGED <<queue, batch>>
      BY <2>6 DEF PromptWrite
    <3>5. In(m, <<c>>) => /\ ~Told(m) /\ ~In(m, queue) /\ ~Fresh(m)'
                          /\ \A q \in Proc : ~In(m, batch'[q])
      BY <1>a, <3>2, <3>3, <3>4 DEF InOnePlace
    <3> QED BY <1>a, <2>0, <3>1, <3>2, <3>4, <3>5, OnePlaceAppend
  <2>7. CASE Validate(c) BY <2>7, <1>e DEF Validate
  <2> QED BY <1>2, <2>1, <2>2, <2>3, <2>4, <2>5, <2>6, <2>7 DEF StreamStep
<1>3. ASSUME NEW p \in Proc, LockRun(p) PROVE InOnePlace(m)'
  BY <1>3, <1>e DEF LockRun
<1>4. ASSUME NEW p \in Proc, LoopStep(p) PROVE InOnePlace(m)'
  <2>1. CASE SetRunning(p) BY <2>1, <1>e DEF SetRunning
  <2>2. CASE TurnRead(p) BY <2>2, <1>d DEF TurnRead
  <2>3. CASE TurnWrite(p)
    <3>1. <<Turn>> \in Seq({Turn}) /\ \A i \in 1..Len(<<Turn>>) : <<Turn>>[i] # m
      BY ProcAssumption
    <3> QED BY <2>3, <3>1, <1>b DEF TurnWrite
  <2>4. CASE Boundary(p) BY <2>4, <1>a, OnePlaceDrain DEF Boundary
  <2>5. CASE BoundaryWrite(p) BY <2>5, <1>c DEF BoundaryWrite
  <2>6. CASE BoundaryNoQueue(p) BY <2>6, <1>e DEF BoundaryNoQueue
  <2>7. CASE LoopCompact(p) BY <2>7, <1>d DEF LoopCompact
  <2>8. CASE LoopCompacted(p) BY <2>8, <1>a, OnePlaceReset DEF LoopCompacted
  <2>9. CASE LoopFails(p) BY <2>9, <1>f DEF LoopFails
  <2>10. CASE Stop(p) BY <2>10, <1>e DEF Stop
  <2>11. CASE LimitStops(p) BY <2>11, <1>e DEF LimitStops
  <2> QED BY <1>4, <2>1, <2>2, <2>3, <2>4, <2>5, <2>6, <2>7, <2>8, <2>9, <2>10, <2>11 DEF LoopStep
<1>5. ASSUME NEW p \in Proc, ResumeLock(p) PROVE InOnePlace(m)'
  BY <1>5, <1>e DEF ResumeLock
<1>6. ASSUME NEW p \in Proc, ResumeStep(p) PROVE InOnePlace(m)'
  <2>1. CASE ResumeNoop(p) BY <2>1, <1>e DEF ResumeNoop
  <2>2. CASE ResumeCheck(p) BY <2>2, <1>e DEF ResumeCheck
  <2>3. CASE MasterIdle(p) BY <2>3, <1>e DEF MasterIdle
  <2>4. CASE ResumeDrain(p) BY <2>4, <1>a, OnePlaceDrain DEF ResumeDrain
  <2>5. CASE Inject(p) BY <2>5, <1>c DEF Inject
  <2> QED BY <1>6, <2>1, <2>2, <2>3, <2>4, <2>5 DEF ResumeStep
<1>7. ASSUME NEW t \in Tasks, Spawn(t) \/ Finish(t) PROVE InOnePlace(m)'
  <2>1. CASE Spawn(t) BY <2>1, <1>e DEF Spawn
  <2>2. CASE Finish(t)
    <3>1. t \in Msg /\ Fresh(t)
      BY <2>2 DEF Msg, Proc, Finish, Goto, Fresh
    <3>2. ~Fresh(t)'
      BY <2>2, FreshStep
    <3> QED BY <2>2, <3>1, <3>2, <1>a, OnePlaceEnqueue DEF Finish
  <2> QED BY <1>7, <2>1, <2>2
<1>8. ASSUME NEW h \in HostMsgs, HostEnqueue(h) PROVE InOnePlace(m)'
  <2>1. h \in Msg /\ Fresh(h)
    BY <1>8 DEF Msg, HostEnqueue, Fresh
  <2>2. ~Fresh(h)'
    BY <1>8, FreshStep
  <2> QED BY <1>8, <2>1, <2>2, <1>a, OnePlaceEnqueue DEF HostEnqueue
<1>9. CASE UNCHANGED vars
  BY <1>9, <1>e DEF vars
<1> QED
  BY <1>1, <1>2, <1>3, <1>4, <1>5, <1>6, <1>7, <1>8, <1>9 DEF Next

\* What is held once and in one place has at most one copy.
LEMMA OnePlaceDelivers == TypeOK /\ OnePlace => DeliveredOnce
<1> SUFFICES ASSUME TypeOK, OnePlace, NEW m \in Msg
             PROVE  /\ Copies(m, queue) + Copies(m, history) <= 1
                    /\ \A p, q \in Proc :
                         /\ Copies(m, batch[p]) + Copies(m, queue) + Copies(m, history) <= 1
                         /\ p # q => Copies(m, batch[p]) + Copies(m, batch[q]) <= 1
  BY DEF DeliveredOnce
<1>1. InOnePlace(m)
  BY DEF OnePlace
<1>2. Copies(m, queue) = IF In(m, queue) THEN 1 ELSE 0
  BY <1>1, CopiesIs DEF InOnePlace, TypeOK
<1>3. Copies(m, history) = IF In(m, history) THEN 1 ELSE 0
  BY <1>1, CopiesIs DEF InOnePlace, TypeOK
<1>4. \A p \in Proc : Copies(m, batch[p]) = IF In(m, batch[p]) THEN 1 ELSE 0
  <2> TAKE p \in Proc
  <2>1. batch[p] \in Seq(Msg) /\ Once(m, batch[p])
    BY <1>1 DEF InOnePlace, TypeOK
  <2> QED BY <2>1, CopiesIs
<1>5. In(m, queue) => ~In(m, history) /\ \A p \in Proc : ~In(m, batch[p])
  BY <1>1 DEF InOnePlace, Told
<1>6. \A p \in Proc : In(m, batch[p]) => ~In(m, history) /\ \A q \in Proc \ {p} : ~In(m, batch[q])
  BY <1>1 DEF InOnePlace, Told
<1>7. Copies(m, queue) + Copies(m, history) <= 1
  BY <1>2, <1>3, <1>5
<1>8. ASSUME NEW p \in Proc
      PROVE  Copies(m, batch[p]) + Copies(m, queue) + Copies(m, history) <= 1
  BY <1>2, <1>3, <1>4, <1>5, <1>6
<1>9. ASSUME NEW p \in Proc, NEW q \in Proc, p # q
      PROVE  Copies(m, batch[p]) + Copies(m, batch[q]) <= 1
  <2>1. ~(In(m, batch[p]) /\ In(m, batch[q]))
    BY <1>6, <1>9
  <2> QED BY <1>4, <2>1
<1> QED
  BY <1>7, <1>8, <1>9

(***************************************************************************)
(* However calls, wakes, interrupts and compactions interleave, and        *)
(* although appends to History may overwrite each other, no message is     *)
(* delivered twice: it waits in the queue, is in the hands of one          *)
(* goroutine, or is one entry of History.                                  *)
(***************************************************************************)
THEOREM NothingTwice == Spec => []DeliveredOnce
  BY OnePlaceInit, OnePlaceStep, OnePlaceDelivers, TypeCorrect, PTL DEF Spec

-----------------------------------------------------------------------------
(* The messages of a History.  Induction over a sequence goes through the   *)
(* least of the lengths at which something would fail.                      *)

Entry == Msg \cup {Turn, Summary}

\* What Messages keeps of the first n entries, from what it keeps of one less.
KeepOne(g, s, n) ==
  IF n = 0 THEN <<>>
  ELSE IF s[n] \in Msg THEN Append(g[n - 1], s[n])
  ELSE g[n - 1]

Keeps(g, s) ==
  g = [n \in 0..Len(s) |->
         IF n = 0 THEN <<>>
         ELSE IF s[n] \in Msg THEN Append(g[n - 1], s[n])
         ELSE g[n - 1]]

KeptOf(s) == CHOOSE g : Keeps(g, s)

\* Messages is the end of that recursion.
LEMMA MessagesIsKept == \A s : Messages(s) = KeptOf(s)[Len(s)]
  BY DEF Messages, KeptOf, Keeps

KeepsUpTo(n, g, s) == \A i \in 0..Len(s) : i <= n => g[i] = KeepOne(g, s, i)

\* There is a function with that recursion.
LEMMA KeptExists ==
  ASSUME NEW s \in Seq(Entry)
  PROVE  \E g \in [0..Len(s) -> Seq(Msg)] : Keeps(g, s)
<1> DEFINE Good(n) == \E g \in [0..Len(s) -> Seq(Msg)] : KeepsUpTo(n, g, s)
<1>0. Len(s) \in Nat /\ \A i \in 1..Len(s) : s[i] \in Entry
  BY LenProperties, ElementOfSeq
<1>1. ASSUME NEW i \in Nat, ~Good(i) PROVE FALSE
  <2>1. PICK n \in Nat : ~Good(n) /\ \A m \in Nat : m < n => Good(m)
    <3> DEFINE W == {m \in Nat : ~Good(m)}
    <3> HIDE DEF Good
    <3>1. W \subseteq Nat /\ W # {}
      BY <1>1
    <3>2. PICK n \in W : \A m \in W : n <= m
      <4> HIDE DEF W
      <4> QED BY <3>1, LeastNumber
    <3>3. n \in Nat /\ ~Good(n)
      BY <3>2
    <3>4. ASSUME NEW m \in Nat, m < n PROVE Good(m)
      BY <3>2, <3>3, <3>4
    <3> QED BY <3>3, <3>4
  <2>2. n # 0
    <3> DEFINE z == [j \in 0..Len(s) |-> <<>>]
    <3>1. z \in [0..Len(s) -> Seq(Msg)]
      BY EmptySeq
    <3>2. KeepsUpTo(0, z, s)
      BY <1>0 DEF KeepsUpTo, KeepOne
    <3> QED BY <2>1, <3>1, <3>2
  <2>3. PICK g \in [0..Len(s) -> Seq(Msg)] : KeepsUpTo(n - 1, g, s)
    <3> HIDE DEF Good
    <3>1. Good(n - 1)
      BY <2>1, <2>2
    <3> USE DEF Good
    <3> QED BY <3>1
  <2> DEFINE h == [j \in 0..Len(s) |-> IF j <= n - 1 THEN g[j]
                                       ELSE IF s[j] \in Msg THEN Append(g[j - 1], s[j])
                                       ELSE g[j - 1]]
  <2>4. h \in [0..Len(s) -> Seq(Msg)]
    <3>1. ASSUME NEW j \in 0..Len(s), ~(j <= n - 1)
          PROVE  g[j - 1] \in Seq(Msg) /\ (s[j] \in Msg => Append(g[j - 1], s[j]) \in Seq(Msg))
      <4>1. j - 1 \in 0..Len(s)
        BY <1>0, <2>1, <2>2, <3>1
      <4>2. g[j - 1] \in Seq(Msg)
        BY <4>1
      <4> QED BY <4>2, AppendProperties
    <3> QED BY <3>1
  <2>5. ASSUME NEW j \in 0..Len(s), j <= n
        PROVE  h[j] = KeepOne(h, s, j)
    <3>1. CASE j <= n - 1
      <4>1. h[j] = g[j] /\ g[j] = KeepOne(g, s, j)
        BY <2>3, <3>1 DEF KeepsUpTo
      <4>2. j # 0 => j - 1 \in 0..Len(s) /\ h[j - 1] = g[j - 1]
        BY <1>0, <2>1, <3>1
      <4> QED BY <4>1, <4>2 DEF KeepOne
    <3>2. CASE ~(j <= n - 1)
      <4>1. j # 0 /\ j - 1 \in 0..Len(s) /\ j - 1 <= n - 1
        BY <1>0, <2>1, <2>2, <2>5, <3>2
      <4>2. h[j - 1] = g[j - 1]
        BY <4>1
      <4>3. h[j] = IF s[j] \in Msg THEN Append(g[j - 1], s[j]) ELSE g[j - 1]
        BY <3>2
      <4> HIDE DEF h
      <4> QED BY <4>1, <4>2, <4>3 DEF KeepOne
    <3> QED BY <3>1, <3>2
  <2> HIDE DEF h
  <2>6. KeepsUpTo(n, h, s)
    BY <2>5 DEF KeepsUpTo
  <2> QED BY <2>1, <2>4, <2>6
<1>2. PICK g \in [0..Len(s) -> Seq(Msg)] : KeepsUpTo(Len(s), g, s)
  BY <1>0, <1>1
<1>3. \A i \in 0..Len(s) : g[i] = KeepOne(g, s, i)
  BY <1>0, <1>2 DEF KeepsUpTo
<1>4. g = [n \in 0..Len(s) |->
             IF n = 0 THEN <<>>
             ELSE IF s[n] \in Msg THEN Append(g[n - 1], s[n])
             ELSE g[n - 1]]
  BY <1>2, <1>3 DEF KeepOne
<1> QED
  BY <1>4 DEF Keeps

\* The recursion, and that it keeps messages only.
LEMMA KeptIs ==
  ASSUME NEW s \in Seq(Entry)
  PROVE  /\ KeptOf(s) \in [0..Len(s) -> Seq(Msg)]
         /\ \A n \in 0..Len(s) : KeptOf(s)[n] = KeepOne(KeptOf(s), s, n)
<1>1. PICK g \in [0..Len(s) -> Seq(Msg)] : Keeps(g, s)
  BY KeptExists
<1>2. Keeps(KeptOf(s), s)
  BY <1>1 DEF KeptOf
<1> DEFINE k == KeptOf(s)
<1> HIDE DEF k
<1>3. Keeps(k, s)
  BY <1>2 DEF k
<1>4. /\ k = [n \in 0..Len(s) |-> k[n]]
      /\ \A n \in 0..Len(s) : k[n] = KeepOne(k, s, n)
  BY <1>3 DEF Keeps, KeepOne
<1>5. /\ g = [n \in 0..Len(s) |-> g[n]]
      /\ \A n \in 0..Len(s) : g[n] = KeepOne(g, s, n)
  BY <1>1 DEF Keeps, KeepOne
<1>6. ASSUME NEW i \in 0..Len(s), k[i] # g[i] PROVE FALSE
  <2> DEFINE W == {n \in 0..Len(s) : k[n] # g[n]}
  <2>1. PICK n \in W : \A m \in W : n <= m
    <3>1. W \subseteq Nat /\ W # {}
      BY <1>6, LenProperties
    <3> HIDE DEF W
    <3> QED BY <3>1, LeastNumber
  <2>2. n \in 0..Len(s) /\ k[n] # g[n] /\ Len(s) \in Nat
    BY <2>1, LenProperties
  <2>3. n # 0 => n - 1 \in 0..Len(s) /\ k[n - 1] = g[n - 1]
    <3> SUFFICES ASSUME n # 0 PROVE n - 1 \in 0..Len(s) /\ k[n - 1] = g[n - 1]
      OBVIOUS
    <3>1. n - 1 \in 0..Len(s) /\ ~(n <= n - 1)
      BY <2>2
    <3> QED BY <2>1, <3>1
  <2>4. KeepOne(k, s, n) = KeepOne(g, s, n)
    BY <2>3 DEF KeepOne
  <2> QED BY <1>4, <1>5, <2>2, <2>4
<1>7. k = g
  BY <1>4, <1>5, <1>6
<1> QED
  BY <1>1, <1>4, <1>7 DEF k

\* Nothing is kept of an empty History.
LEMMA MessagesOfNone == Messages(<<>>) = <<>>
<1> DEFINE none == <<>>
<1>1. none \in Seq(Entry) /\ Len(none) = 0
  BY EmptySeq
<1> HIDE DEF none
<1>2. KeptOf(none)[0] = KeepOne(KeptOf(none), none, 0)
  <2>1. 0 \in 0..Len(none)
    BY <1>1
  <2>2. \A n \in 0..Len(none) : KeptOf(none)[n] = KeepOne(KeptOf(none), none, n)
    BY <1>1, KeptIs
  <2> QED BY <2>1, <2>2
<1>3. Messages(none) = <<>>
  BY <1>1, <1>2, MessagesIsKept DEF KeepOne
<1> QED
  BY <1>3 DEF none

\* Messages are messages.
LEMMA MessagesType == \A s \in Seq(Entry) : Messages(s) \in Seq(Msg)
<1> SUFFICES ASSUME NEW s \in Seq(Entry) PROVE Messages(s) \in Seq(Msg)
  OBVIOUS
<1>1. Len(s) \in 0..Len(s)
  BY LenProperties
<1> QED
  BY <1>1, KeptIs, MessagesIsKept

\* What is kept of the first entries does not depend on the others.
LEMMA KeptPrefix ==
  ASSUME NEW s \in Seq(Entry), NEW t \in Seq(Entry), NEW l \in 0..Len(s), l <= Len(t),
         \A i \in 1..l : s[i] = t[i]
  PROVE  KeptOf(s)[l] = KeptOf(t)[l]
<1> DEFINE j == KeptOf(s)
           k == KeptOf(t)
<1>1. /\ \A n \in 0..l : j[n] = KeepOne(j, s, n)
      /\ \A n \in 0..l : k[n] = KeepOne(k, t, n)
  BY KeptIs, LenProperties
<1>2. l \in Nat
  BY LenProperties
<1> HIDE DEF j, k
<1>3. ASSUME NEW i \in 0..l, j[i] # k[i] PROVE FALSE
  <2> DEFINE W == {n \in 0..l : j[n] # k[n]}
  <2>1. PICK n \in W : \A m \in W : n <= m
    <3>1. W \subseteq Nat /\ W # {}
      BY <1>2, <1>3
    <3> HIDE DEF W
    <3> QED BY <3>1, LeastNumber
  <2>2. n \in 0..l /\ j[n] # k[n]
    BY <2>1
  <2>3. n # 0 => s[n] = t[n] /\ j[n - 1] = k[n - 1]
    <3> SUFFICES ASSUME n # 0 PROVE s[n] = t[n] /\ j[n - 1] = k[n - 1]
      OBVIOUS
    <3>1. n - 1 \in 0..l /\ ~(n <= n - 1) /\ n \in 1..l
      BY <1>2, <2>2
    <3> QED BY <2>1, <3>1
  <2>4. KeepOne(j, s, n) = KeepOne(k, t, n)
    BY <2>3 DEF KeepOne
  <2> QED BY <1>1, <2>2, <2>4
<1>4. l \in 0..l
  BY <1>2
<1> QED
  BY <1>3, <1>4 DEF j, k

\* One more entry is one more message, if it is one.
LEMMA MessagesAppend ==
  ASSUME NEW s \in Seq(Entry), NEW e \in Entry
  PROVE  Messages(Append(s, e)) = IF e \in Msg THEN Append(Messages(s), e) ELSE Messages(s)
<1> DEFINE t == Append(s, e)
           l == Len(s)
<1>1. /\ t \in Seq(Entry) /\ Len(t) = l + 1 /\ l \in Nat /\ t[l + 1] = e
      /\ \A i \in 1..l : t[i] = s[i]
  BY AppendProperties, LenProperties
<1> HIDE DEF t, l
<1>2. l = Len(s)
  BY DEF l
<1>3. KeptOf(s)[l] = KeptOf(t)[l]
  BY <1>1, <1>2, KeptPrefix
<1>4. KeptOf(t)[l + 1] = KeepOne(KeptOf(t), t, l + 1)
  BY <1>1, KeptIs
<1>5. l + 1 # 0 /\ (l + 1) - 1 = l
  BY <1>1
<1>6. Messages(t) = IF e \in Msg THEN Append(Messages(s), e) ELSE Messages(s)
  BY <1>1, <1>2, <1>3, <1>4, <1>5, MessagesIsKept DEF KeepOne
<1> QED
  BY <1>6 DEF t

\* How three sequences are put together does not matter.
LEMMA Regroup ==
  \A x, y, z \in Seq(Entry) : x \o (y \o z) = (x \o y) \o z
<1> SUFFICES ASSUME NEW x \in Seq(Entry), NEW y \in Seq(Entry), NEW z \in Seq(Entry)
             PROVE  x \o (y \o z) = (x \o y) \o z
  OBVIOUS
<1> QED
  BY ConcatAssociative, SMTT(30)

\* Messages that are appended are kept, all of them and in their order.
LEMMA MessagesConcat ==
  ASSUME NEW s \in Seq(Entry), NEW b \in Seq(Msg)
  PROVE  Messages(s \o b) = Messages(s) \o b
<1> DEFINE Bad(n) == \E c \in Seq(Msg) : Len(c) = n /\ Messages(s \o c) # Messages(s) \o c
           W == {n \in Nat : Bad(n)}
<1> SUFFICES ASSUME Messages(s \o b) # Messages(s) \o b PROVE FALSE
  OBVIOUS
<1>1. PICK n \in W : \A m \in W : n <= m
  <2>1. Len(b) \in W
    BY LenProperties
  <2>2. W \subseteq Nat /\ W # {}
    BY <2>1
  <2> HIDE DEF W
  <2> QED BY <2>2, LeastNumber
<1>2. PICK c \in Seq(Msg) : Len(c) = n /\ Messages(s \o c) # Messages(s) \o c
  BY <1>1
<1>3. n \in Nat /\ Messages(s) \in Seq(Msg) /\ Seq(Msg) \subseteq Seq(Entry)
  <2>1. Msg \subseteq Entry
    BY DEF Entry
  <2> QED BY <1>1, <2>1, MessagesType
<1>4. CASE c = <<>>
  <2>1. s \o c = s /\ Messages(s) \o c = Messages(s)
    BY <1>3, <1>4, ConcatEmptySeq
  <2> QED BY <1>2, <2>1
<1>5. CASE c # <<>>
  <2>1. PICK d \in Seq(Msg), e \in Msg : c = Append(d, e)
    BY <1>5, SequenceEmptyOrAppend
  <2>2. c = d \o <<e>> /\ Len(d) = n - 1 /\ n # 0
    <3>1. Len(c) = Len(d) + 1 /\ Len(d) \in Nat
      BY <2>1, AppendProperties, LenProperties
    <3> QED BY <1>2, <2>1, <3>1, AppendIsConcat, SMTT(30)
  <2>3. Messages(s \o d) = Messages(s) \o d
    <3>1. n - 1 \in Nat /\ ~(n <= n - 1)
      BY <1>3, <2>2
    <3>2. n - 1 \notin W
      BY <1>1, <3>1
    <3> QED BY <2>2, <3>1, <3>2
  <2>4. d \in Seq(Entry) /\ <<e>> \in Seq(Entry) /\ s \o d \in Seq(Entry) /\ e \in Entry /\ <<e>> \in Seq(Msg)
    <3>1. d \in Seq(Entry) /\ e \in Entry /\ <<e>> \in Seq(Msg)
      BY <1>3, <2>2 DEF Entry
    <3>2. <<e>> \in Seq(Entry)
      BY <3>1
    <3> QED BY <3>1, <3>2, ConcatProperties
  <2>5. s \o c = Append(s \o d, e)
    <3>1. s \o (d \o <<e>>) = (s \o d) \o <<e>>
      BY Regroup, <2>4
    <3> QED BY <2>2, <2>4, <3>1, AppendIsConcat
  <2>6. Messages(s \o c) = Append(Messages(s \o d), e)
    BY <2>2, <2>4, <2>5, MessagesAppend
  <2>7. Messages(s) \o c = Append(Messages(s) \o d, e)
    <3>1. Messages(s) \o (d \o <<e>>) = (Messages(s) \o d) \o <<e>>
      <4>1. Messages(s) \in Seq(Entry)
        BY <1>3
      <4> QED BY Regroup, <2>4, <4>1
    <3>2. Messages(s) \o d \in Seq(Msg)
      BY <1>3, <2>2, ConcatProperties
    <3> QED BY <2>2, <3>1, <3>2, AppendIsConcat
  <2> QED BY <1>2, <2>3, <2>6, <2>7
<1> QED
  BY <1>4, <1>5

\* The messages of a History are those that are in it.
LEMMA MessagesHold ==
  ASSUME NEW s \in Seq(Entry), NEW m
  PROVE  In(m, Messages(s)) <=> m \in Msg /\ In(m, s)
<1> DEFINE k == KeptOf(s)
           Upto(n) == m \in Msg /\ \E i \in 1..n : s[i] = m
           W == {n \in 0..Len(s) : ~(In(m, k[n]) <=> Upto(n))}
<1>1. /\ \A n \in 0..Len(s) : k[n] = KeepOne(k, s, n) /\ k[n] \in Seq(Msg)
      /\ Len(s) \in Nat
  BY KeptIs, LenProperties
<1> HIDE DEF k
<1>2. W = {}
  <2> SUFFICES ASSUME W # {} PROVE FALSE
    OBVIOUS
  <2>1. PICK n \in W : \A l \in W : n <= l
    <3>1. W \subseteq Nat
      BY <1>1
    <3> HIDE DEF W
    <3> QED BY <3>1, LeastNumber
  <2>2. n \in 0..Len(s) /\ ~(In(m, k[n]) <=> Upto(n))
    BY <2>1
  <2>3. n # 0
    <3> SUFFICES ASSUME n = 0 PROVE FALSE
      OBVIOUS
    <3>1. k[n] = <<>> /\ ~Upto(n)
      BY <1>1, <2>2 DEF KeepOne
    <3>2. ~In(m, <<>>)
      BY InEmpty
    <3> QED BY <2>2, <3>1, <3>2
  <2>4. n - 1 \in 0..Len(s) /\ (In(m, k[n - 1]) <=> Upto(n - 1))
    <3>1. n - 1 \in 0..Len(s) /\ ~(n <= n - 1)
      BY <1>1, <2>2, <2>3
    <3> QED BY <2>1, <3>1
  <2>5. Upto(n) <=> (Upto(n - 1) \/ (m \in Msg /\ s[n] = m))
    BY <1>1, <2>2, <2>3
  <2> HIDE DEF Upto
  <2>6. CASE s[n] \in Msg
    <3>1. k[n] = Append(k[n - 1], s[n]) /\ k[n - 1] \in Seq(Msg)
      BY <1>1, <2>2, <2>3, <2>4, <2>6 DEF KeepOne
    <3>2. In(m, k[n]) <=> In(m, k[n - 1]) \/ m = s[n]
      BY <2>6, <3>1, InAppend
    <3> QED BY <2>2, <2>4, <2>5, <2>6, <3>2
  <2>7. CASE s[n] \notin Msg
    <3>1. k[n] = k[n - 1]
      BY <1>1, <2>2, <2>3, <2>7 DEF KeepOne
    <3> QED BY <2>2, <2>4, <2>5, <2>7, <3>1
  <2> QED BY <2>6, <2>7
<1>3. In(m, k[Len(s)]) <=> Upto(Len(s))
  BY <1>1, <1>2
<1> QED
  BY <1>3, MessagesIsKept DEF k, In

-----------------------------------------------------------------------------
(***************************************************************************)
(* The kernel is a mailbox, for a host that calls Stream once.  A goroutine*)
(* has messages in hand exactly between a drain and the append that        *)
(* follows it; then it is the only one to write History, and what it read  *)
(* is what it writes to.                                                   *)
(***************************************************************************)
HandsFull ==
  \A p \in Proc : batch[p] # <<>> <=> pc[p] \in {"boundaryWrite", "injectWrite"}

SnapFresh == \A p \in Proc : pc[p] \in Mutating => snap[p] = history

CoveredOld == \A m \in covered : ~Fresh(m)

\* Nobody has anything in hand, nobody writes.
LEMMA DeliveryInit == Init => HandsFull /\ SnapFresh /\ CoveredOld
<1> SUFFICES ASSUME Init PROVE HandsFull /\ SnapFresh /\ CoveredOld
  OBVIOUS
<1>1. \A p \in Proc : batch[p] = <<>> /\ pc[p] \in {"idle", "unspawned"}
  BY DEF Init
<1> QED
  BY <1>1 DEF Init, HandsFull, SnapFresh, CoveredOld, Mutating

\* A drain fills a hand, the append after it empties it again.
LEMMA HandsFullStep == TypeOK /\ HandsFull /\ [Next]_vars => HandsFull'
<1> SUFFICES ASSUME TypeOK, HandsFull, [Next]_vars PROVE HandsFull'
  OBVIOUS
<1> USE DEF HandsFull, Goto, TypeOK, DrainQueue, Proc
<1>1. ASSUME NEW c \in Callers, StreamEnter(c) PROVE HandsFull'
  BY <1>1 DEF StreamEnter
<1>2. ASSUME NEW c \in Callers, StreamStep(c) PROVE HandsFull'
  <2>1. CASE StreamCompact(c) BY <2>1 DEF StreamCompact
  <2>2. CASE StreamNoCompact(c) BY <2>2 DEF StreamNoCompact
  <2>3. CASE StreamCompacted(c) BY <2>3 DEF StreamCompacted
  <2>4. CASE StreamCompactFails(c) BY <2>4 DEF StreamCompactFails
  <2>5. CASE PromptRead(c) BY <2>5 DEF PromptRead
  <2>6. CASE PromptWrite(c) BY <2>6 DEF PromptWrite
  <2>7. CASE Validate(c) BY <2>7 DEF Validate
  <2> QED BY <1>2, <2>1, <2>2, <2>3, <2>4, <2>5, <2>6, <2>7 DEF StreamStep
<1>3. ASSUME NEW p \in Proc, LockRun(p) PROVE HandsFull'
  BY <1>3 DEF LockRun
<1>4. ASSUME NEW p \in Proc, LoopStep(p) PROVE HandsFull'
  <2>1. CASE SetRunning(p) BY <2>1 DEF SetRunning
  <2>2. CASE TurnRead(p) BY <2>2 DEF TurnRead
  <2>3. CASE TurnWrite(p) BY <2>3 DEF TurnWrite
  <2>4. CASE Boundary(p) BY <2>4 DEF Boundary
  <2>5. CASE BoundaryWrite(p) BY <2>5 DEF BoundaryWrite
  <2>6. CASE BoundaryNoQueue(p) BY <2>6 DEF BoundaryNoQueue
  <2>7. CASE LoopCompact(p) BY <2>7 DEF LoopCompact
  <2>8. CASE LoopCompacted(p) BY <2>8 DEF LoopCompacted
  <2>9. CASE LoopFails(p) BY <2>9 DEF LoopFails
  <2>10. CASE Stop(p) BY <2>10 DEF Stop
  <2>11. CASE LimitStops(p) BY <2>11 DEF LimitStops
  <2> QED BY <1>4, <2>1, <2>2, <2>3, <2>4, <2>5, <2>6, <2>7, <2>8, <2>9, <2>10, <2>11 DEF LoopStep
<1>5. ASSUME NEW p \in Proc, ResumeLock(p) PROVE HandsFull'
  BY <1>5 DEF ResumeLock
<1>6. ASSUME NEW p \in Proc, ResumeStep(p) PROVE HandsFull'
  <2>1. CASE ResumeNoop(p) BY <2>1 DEF ResumeNoop
  <2>2. CASE ResumeCheck(p) BY <2>2 DEF ResumeCheck
  <2>3. CASE MasterIdle(p) BY <2>3 DEF MasterIdle
  <2>4. CASE ResumeDrain(p) BY <2>4 DEF ResumeDrain
  <2>5. CASE Inject(p) BY <2>5 DEF Inject
  <2> QED BY <1>6, <2>1, <2>2, <2>3, <2>4, <2>5 DEF ResumeStep
<1>7. ASSUME NEW t \in Tasks, Spawn(t) \/ Finish(t) PROVE HandsFull'
  <2>1. CASE Spawn(t) BY <2>1 DEF Spawn
  <2>2. CASE Finish(t) BY <2>2 DEF Finish
  <2> QED BY <1>7, <2>1, <2>2
<1>8. ASSUME NEW h \in HostMsgs, HostEnqueue(h) PROVE HandsFull'
  BY <1>8 DEF HostEnqueue
<1>9. CASE UNCHANGED vars
  BY <1>9 DEF vars
<1> QED
  BY <1>1, <1>2, <1>3, <1>4, <1>5, <1>6, <1>7, <1>8, <1>9 DEF Next

\* A goroutine that is about to write has read what is there, as long as there
\* is one writer at a time.
LEMMA SnapFreshStep == TypeOK /\ HistoryOneWriter /\ SnapFresh /\ [Next]_vars => SnapFresh'
<1> SUFFICES ASSUME TypeOK, HistoryOneWriter, SnapFresh, [Next]_vars PROVE SnapFresh'
  OBVIOUS
<1> USE DEF HistoryOneWriter, SnapFresh, Mutating, Goto, TypeOK, ReadHistory, Proc
<1>1. ASSUME NEW c \in Callers, StreamEnter(c) PROVE SnapFresh'
  BY <1>1 DEF StreamEnter
<1>2. ASSUME NEW c \in Callers, StreamStep(c) PROVE SnapFresh'
  <2>1. CASE StreamCompact(c) BY <2>1 DEF StreamCompact
  <2>2. CASE StreamNoCompact(c) BY <2>2 DEF StreamNoCompact
  <2>3. CASE StreamCompacted(c) BY <2>3 DEF StreamCompacted, ResetHistory
  <2>4. CASE StreamCompactFails(c) BY <2>4 DEF StreamCompactFails
  <2>5. CASE PromptRead(c) BY <2>5 DEF PromptRead
  <2>6. CASE PromptWrite(c) BY <2>6 DEF PromptWrite, AppendHistory
  <2>7. CASE Validate(c) BY <2>7 DEF Validate
  <2> QED BY <1>2, <2>1, <2>2, <2>3, <2>4, <2>5, <2>6, <2>7 DEF StreamStep
<1>3. ASSUME NEW p \in Proc, LockRun(p) PROVE SnapFresh'
  BY <1>3 DEF LockRun
<1>4. ASSUME NEW p \in Proc, LoopStep(p) PROVE SnapFresh'
  <2>1. CASE SetRunning(p) BY <2>1 DEF SetRunning
  <2>2. CASE TurnRead(p) BY <2>2 DEF TurnRead
  <2>3. CASE TurnWrite(p) BY <2>3 DEF TurnWrite, AppendHistory
  <2>4. CASE Boundary(p) BY <2>4 DEF Boundary
  <2>5. CASE BoundaryWrite(p) BY <2>5 DEF BoundaryWrite, AppendHistory
  <2>6. CASE BoundaryNoQueue(p) BY <2>6 DEF BoundaryNoQueue
  <2>7. CASE LoopCompact(p) BY <2>7 DEF LoopCompact
  <2>8. CASE LoopCompacted(p) BY <2>8 DEF LoopCompacted, ResetHistory
  <2>9. CASE LoopFails(p) BY <2>9 DEF LoopFails
  <2>10. CASE Stop(p) BY <2>10 DEF Stop
  <2>11. CASE LimitStops(p) BY <2>11 DEF LimitStops
  <2> QED BY <1>4, <2>1, <2>2, <2>3, <2>4, <2>5, <2>6, <2>7, <2>8, <2>9, <2>10, <2>11 DEF LoopStep
<1>5. ASSUME NEW p \in Proc, ResumeLock(p) PROVE SnapFresh'
  BY <1>5 DEF ResumeLock
<1>6. ASSUME NEW p \in Proc, ResumeStep(p) PROVE SnapFresh'
  <2>1. CASE ResumeNoop(p) BY <2>1 DEF ResumeNoop
  <2>2. CASE ResumeCheck(p) BY <2>2 DEF ResumeCheck
  <2>3. CASE MasterIdle(p) BY <2>3 DEF MasterIdle
  <2>4. CASE ResumeDrain(p) BY <2>4 DEF ResumeDrain
  <2>5. CASE Inject(p) BY <2>5 DEF Inject, AppendHistory
  <2> QED BY <1>6, <2>1, <2>2, <2>3, <2>4, <2>5 DEF ResumeStep
<1>7. ASSUME NEW t \in Tasks, Spawn(t) \/ Finish(t) PROVE SnapFresh'
  <2>1. CASE Spawn(t) BY <2>1 DEF Spawn
  <2>2. CASE Finish(t) BY <2>2 DEF Finish
  <2> QED BY <1>7, <2>1, <2>2
<1>8. ASSUME NEW h \in HostMsgs, HostEnqueue(h) PROVE SnapFresh'
  BY <1>8 DEF HostEnqueue
<1>9. CASE UNCHANGED vars
  BY <1>9 DEF vars
<1> QED
  BY <1>1, <1>2, <1>3, <1>4, <1>5, <1>6, <1>7, <1>8, <1>9 DEF Next

\* A summary covers what somebody has read in History, which is never fresh.
LEMMA CoveredOldStep == TypeOK /\ OnePlace /\ CoveredOld /\ [Next]_vars => CoveredOld'
<1> SUFFICES ASSUME TypeOK, OnePlace, CoveredOld, [Next]_vars,
                    NEW m \in covered', Fresh(m)'
             PROVE  FALSE
  BY DEF CoveredOld
<1>1. Fresh(m)
  BY FreshStep
<1>2. m \notin covered
  BY <1>1 DEF CoveredOld
<1>3. ASSUME NEW p \in Proc, ResetHistory(p) PROVE FALSE
  <2>1. m \in Msg /\ \E i \in DOMAIN snap[p] : snap[p][i] = m
    BY <1>2, <1>3 DEF ResetHistory
  <2>2. DOMAIN snap[p] = 1..Len(snap[p])
    BY DEF TypeOK
  <2>3. In(m, snap[p])
    BY <2>1, <2>2 DEF In
  <2> QED BY <1>1, <2>1, <2>3 DEF OnePlace, InOnePlace, Told
<1>4. covered' = covered \/ \E p \in Proc : ResetHistory(p)
  BY DEF Next, vars, Proc, StreamEnter, StreamStep, StreamCompact, StreamNoCompact,
     StreamCompacted, StreamCompactFails, PromptRead, PromptWrite, Validate, LockRun,
     LoopStep, SetRunning, TurnRead, TurnWrite, Boundary, BoundaryWrite, BoundaryNoQueue, LimitStops,
     LoopCompact, LoopCompacted, LoopFails, Stop, ResumeLock, ResumeStep, ResumeNoop,
     ResumeCheck, MasterIdle, ResumeDrain, Inject, Spawn, Finish, HostEnqueue
<1> QED
  BY <1>2, <1>3, <1>4

\* What is in somebody's hands, the queue after it, and the conversation.
Hand(b) ==
  IF {b[p] : p \in Proc} \ {<<>>} = {} THEN <<>>
  ELSE CHOOSE x \in {b[p] : p \in Proc} \ {<<>>} : TRUE

Pending == Hand(batch) \o queue

Live == Messages(history)

\* Nobody has anything in hand.
LEMMA HandEmpty ==
  ASSUME NEW b, \A p \in Proc : b[p] = <<>>
  PROVE  Hand(b) = <<>>
  BY DEF Hand

\* One goroutine has something in hand.
LEMMA HandOf ==
  ASSUME NEW b, NEW p \in Proc, b[p] # <<>>, \A q \in Proc \ {p} : b[q] = <<>>
  PROVE  Hand(b) = b[p]
<1>1. {b[q] : q \in Proc} \ {<<>>} = {b[p]}
  OBVIOUS
<1> QED
  BY <1>1 DEF Hand

\* Either way, by who writes.
LEMMA HandIs ==
  ASSUME TypeOK, HandsFull, HistoryOneWriter
  PROVE  /\ \A p \in Proc : batch[p] # <<>> =>
              /\ Hand(batch) = batch[p]
              /\ \A q \in Proc \ {p} : batch[q] = <<>>
         /\ (\A p \in Proc : batch[p] = <<>>) => Hand(batch) = <<>>
         /\ Hand(batch) \in Seq(Msg)
<1>1. ASSUME NEW p \in Proc, batch[p] # <<>>
      PROVE  /\ Hand(batch) = batch[p]
             /\ \A q \in Proc \ {p} : batch[q] = <<>>
  <2>1. \A q \in Proc \ {p} : batch[q] = <<>>
    BY <1>1 DEF HandsFull, HistoryOneWriter, Mutating
  <2> QED BY <1>1, <2>1, HandOf
<1>2. (\A p \in Proc : batch[p] = <<>>) => Hand(batch) = <<>>
  BY HandEmpty
<1>3. Hand(batch) \in Seq(Msg)
  <2>1. CASE \E p \in Proc : batch[p] # <<>>
    BY <1>1, <2>1 DEF TypeOK
  <2>2. CASE \A p \in Proc : batch[p] = <<>>
    BY <1>2, <2>2, EmptySeq
  <2> QED BY <2>1, <2>2
<1> QED
  BY <1>1, <1>2, <1>3

\* What is nowhere is not known to the mailbox.
LEMMA FreshIsUnknown ==
  ASSUME TypeOK, HandsFull, HistoryOneWriter, OnePlace, CoveredOld, NEW m \in Msg, Fresh(m)
  PROVE  ~In(m, Pending) /\ ~In(m, Live) /\ m \notin covered
<1>1. ~Told(m) /\ ~In(m, queue) /\ \A p \in Proc : ~In(m, batch[p])
  BY DEF OnePlace, InOnePlace
<1>2. ~In(m, Hand(batch))
  <2>1. CASE \E p \in Proc : batch[p] # <<>>
    BY <1>1, <2>1, HandIs
  <2>2. CASE \A p \in Proc : batch[p] = <<>>
    BY <2>2, HandIs, InEmpty
  <2> QED BY <2>1, <2>2
<1>3. Hand(batch) \in Seq(Msg) /\ queue \in Seq(Msg)
  BY HandIs DEF TypeOK
<1>4. ~In(m, Pending)
  BY <1>1, <1>2, <1>3, InConcat DEF Pending
<1>5. history \in Seq(Entry)
  BY DEF TypeOK, Entry
<1>6. ~In(m, Live)
  BY <1>1, <1>5, MessagesHold DEF Told, Live
<1> QED
  BY <1>4, <1>6 DEF CoveredOld

\* The steps of the mailbox.
Silent == Pending' = Pending /\ Live' = Live /\ covered' = covered

Speaks(c) ==
  /\ ~In(c, Pending) /\ ~In(c, Live) /\ c \notin covered
  /\ Live' = Append(Live, c) /\ Pending' = Pending /\ covered' = covered

Posts(m) ==
  /\ ~In(m, Pending) /\ ~In(m, Live) /\ m \notin covered
  /\ Pending' = Append(Pending, m) /\ Live' = Live /\ covered' = covered

Delivers(n) ==
  /\ Live' = Live \o SubSeq(Pending, 1, n)
  /\ Pending' = SubSeq(Pending, n + 1, Len(Pending))
  /\ covered' = covered

Summarises ==
  /\ covered' = covered \cup {m \in Msg : In(m, Live)}
  /\ Live' = <<>> /\ Pending' = Pending

MailboxStep ==
  \/ Silent
  \/ \E c \in Callers : Speaks(c)
  \/ \E m \in Tasks \cup HostMsgs : Posts(m)
  \/ \E n \in 1..Len(Pending) : Delivers(n)
  \/ Summarises

\* The kernel's own account of them is the mailbox's.
LEMMA MailboxStepIs ==
  ASSUME TypeOK, HandsFull, HistoryOneWriter, MailboxStep
  PROVE  MB!Next \/ UNCHANGED <<(IF Taken = {} THEN <<>> ELSE CHOOSE b \in Taken : TRUE) \o queue,
                                Messages(history), covered>>
<1>1. /\ Pending = (IF Taken = {} THEN <<>> ELSE CHOOSE b \in Taken : TRUE) \o queue
      /\ Pending' = ((IF Taken = {} THEN <<>> ELSE CHOOSE b \in Taken : TRUE) \o queue)'
  BY DEF Pending, Hand, Taken
<1>2. Live = Messages(history) /\ Live' = Messages(history)'
  BY DEF Live
<1>3. Pending \in Seq(Msg) /\ Live \in Seq(Msg)
  <2>1. Hand(batch) \in Seq(Msg) /\ queue \in Seq(Msg) /\ history \in Seq(Entry)
    BY HandIs DEF TypeOK, Entry
  <2> QED BY <2>1, ConcatProperties, MessagesType DEF Pending, Live
<1>4. DOMAIN Pending = 1..Len(Pending) /\ DOMAIN Live = 1..Len(Live)
  BY <1>3, LenProperties
<1>5. ASSUME NEW m, ~In(m, Pending), ~In(m, Live), m \notin covered
      PROVE  m \notin MB!Known
  BY <1>1, <1>2, <1>4, <1>5 DEF MB!Known, MB!Members, In
<1>6. ASSUME Silent
      PROVE  UNCHANGED <<(IF Taken = {} THEN <<>> ELSE CHOOSE b \in Taken : TRUE) \o queue,
                         Messages(history), covered>>
  BY <1>1, <1>2, <1>6 DEF Silent
<1>7. ASSUME NEW c \in Callers, Speaks(c) PROVE MB!Speak(c)
  BY <1>1, <1>2, <1>5, <1>7 DEF Speaks, MB!Speak
<1>8. ASSUME NEW m \in Tasks \cup HostMsgs, Posts(m) PROVE MB!Post(m)
  BY <1>1, <1>2, <1>5, <1>8 DEF Posts, MB!Post
<1>9. ASSUME NEW n \in 1..Len(Pending), Delivers(n) PROVE MB!Deliver(n)
  BY <1>1, <1>2, <1>9 DEF Delivers, MB!Deliver
<1>10. ASSUME Summarises PROVE MB!Summarise
  <2>1. MB!Members(Live) = {m \in Msg : In(m, Live)}
    BY <1>3, <1>4 DEF MB!Members, In
  <2> QED BY <1>1, <1>2, <1>10, <2>1 DEF Summarises, MB!Summarise
<1> QED
  BY <1>1, <1>6, <1>7, <1>8, <1>9, <1>10 DEF MailboxStep, MB!Next

\* A step that leaves the queue, the hands and History alone is silent.
LEMMA SilentStep ==
  ASSUME UNCHANGED <<queue, batch, history, covered>> PROVE MailboxStep
  BY DEF MailboxStep, Silent, Pending, Live

\* A drain moves messages from the queue to a hand.
LEMMA DrainStep ==
  ASSUME TypeOK, HandsFull, HistoryOneWriter, NEW p \in Proc, DrainQueue(p),
         \A q \in Proc : batch[q] = <<>>, queue # <<>>, UNCHANGED <<history, covered>>
  PROVE  MailboxStep
<1>1. Hand(batch) = <<>>
  BY HandEmpty
<1>2. batch'[p] = queue /\ queue' = <<>> /\ \A q \in Proc \ {p} : batch'[q] = <<>>
  BY DEF DrainQueue, TypeOK
<1>3. Hand(batch') = queue
  BY <1>2, HandOf
<1>4. queue \in Seq(Msg)
  BY DEF TypeOK
<1>5. Pending' = queue \o <<>> /\ Pending = <<>> \o queue
  BY <1>1, <1>2, <1>3 DEF Pending
<1>6. Pending' = Pending
  BY <1>4, <1>5, ConcatEmptySeq
<1> QED
  BY <1>6 DEF MailboxStep, Silent, Live

\* The append after it delivers them.
LEMMA DeliverStep ==
  ASSUME TypeOK, HandsFull, HistoryOneWriter, NEW p \in Proc, batch[p] # <<>>,
         snap[p] = history, AppendHistory(p, batch[p]),
         batch' = [batch EXCEPT ![p] = <<>>], UNCHANGED <<queue, covered>>
  PROVE  MailboxStep
<1>1. Hand(batch) = batch[p] /\ \A q \in Proc \ {p} : batch[q] = <<>>
  BY HandIs
<1>2. Hand(batch') = <<>>
  <2>1. \A q \in Proc : batch'[q] = <<>>
    BY <1>1 DEF TypeOK
  <2> QED BY <2>1, HandEmpty
<1>3. batch[p] \in Seq(Msg) /\ queue \in Seq(Msg) /\ history \in Seq(Entry)
  BY DEF TypeOK, Entry
<1> DEFINE n == Len(batch[p])
<1>4. /\ Len(Pending) = n + Len(queue) /\ n \in Nat \ {0} /\ Len(queue) \in Nat
      /\ Pending \in Seq(Msg)
      /\ Pending = batch[p] \o queue
  BY <1>1, <1>3, EmptySeq, ConcatProperties, LenProperties DEF Pending
<1>5. SubSeq(Pending, 1, n) = batch[p]
  <2>1. SubSeq(Pending, 1, n) = SubSeq(batch[p], 1, n)
    BY <1>3, <1>4, SubSeqOfConcat1
  <2> QED BY <1>3, <2>1, SubSeqFull
<1>6. SubSeq(Pending, n + 1, Len(Pending)) = queue
  <2>1. CASE queue = <<>>
    <3>1. Len(queue) = 0
      BY <2>1
    <3> QED BY <1>4, <2>1, <3>1, SubSeqEmpty
  <2>2. CASE queue # <<>>
    <3>1. Len(queue) # 0
      BY <1>3, <2>2, EmptySeq
    <3>2. SubSeq(Pending, n + 1, Len(Pending)) = SubSeq(queue, n + 1 - n, Len(Pending) - n)
      BY <1>3, <1>4, <3>1, SubSeqOfConcat2
    <3>3. n + 1 - n = 1 /\ Len(Pending) - n = Len(queue)
      BY <1>4
    <3> QED BY <1>3, <3>2, <3>3, SubSeqFull
  <2> QED BY <2>1, <2>2
<1>7. Pending' = queue
  BY <1>2, <1>3, ConcatEmptySeq DEF Pending
<1>8. Live' = Live \o batch[p]
  BY <1>3, MessagesConcat DEF Live, AppendHistory
<1>9. Delivers(n)
  BY <1>5, <1>6, <1>7, <1>8 DEF Delivers
<1>10. n \in 1..Len(Pending)
  BY <1>4
<1> QED
  BY <1>9, <1>10 DEF MailboxStep

\* Compaction summarises.
LEMMA SummariseStep ==
  ASSUME TypeOK, NEW p \in Proc, snap[p] = history, ResetHistory(p), UNCHANGED <<queue, batch>>
  PROVE  MailboxStep
<1>1. history \in Seq(Entry) /\ DOMAIN history = 1..Len(history)
  BY DEF TypeOK, Entry
<1>2. \A m \in Msg : In(m, Live) <=> \E i \in DOMAIN history : history[i] = m
  BY <1>1, MessagesHold DEF Live, In
<1>3. covered' = covered \cup {m \in Msg : In(m, Live)}
  BY <1>2 DEF ResetHistory
<1>4. Live' = <<>>
  <2>1. <<>> \in Seq(Entry) /\ Summary \in Entry /\ Summary \notin Msg /\ history' = Append(<<>>, Summary)
    BY EmptySeq, ProcAssumption DEF Entry, ResetHistory
  <2>2. Messages(Append(<<>>, Summary)) = Messages(<<>>)
    BY <2>1, MessagesAppend
  <2> QED BY <2>1, <2>2, MessagesOfNone DEF Live
<1>5. Pending' = Pending
  BY DEF Pending
<1> QED
  BY <1>3, <1>4, <1>5 DEF MailboxStep, Summarises

\* A turn is no message.
LEMMA TurnStep ==
  ASSUME TypeOK, NEW p \in Proc, snap[p] = history, AppendHistory(p, <<Turn>>),
         UNCHANGED <<queue, batch, covered>>
  PROVE  MailboxStep
<1>1. history \in Seq(Entry) /\ Turn \in Entry /\ Turn \notin Msg
  BY ProcAssumption DEF TypeOK, Entry
<1>2. history' = Append(history, Turn)
  BY <1>1, AppendIsConcat DEF AppendHistory
<1>3. Live' = Live
  BY <1>1, <1>2, MessagesAppend DEF Live
<1> QED
  BY <1>3 DEF MailboxStep, Silent, Pending

\* A prompt is spoken.
LEMMA SpeakStep ==
  ASSUME TypeOK, HandsFull, HistoryOneWriter, OnePlace, CoveredOld,
         NEW c \in Callers, Fresh(c), snap[c] = history, AppendHistory(c, <<c>>),
         UNCHANGED <<queue, batch, covered>>
  PROVE  MailboxStep
<1>1. history \in Seq(Entry) /\ c \in Msg /\ c \in Entry
  BY DEF TypeOK, Entry, Msg, Proc
<1>2. history' = Append(history, c)
  BY <1>1, AppendIsConcat DEF AppendHistory
<1>3. Live' = Append(Live, c)
  BY <1>1, <1>2, MessagesAppend DEF Live
<1>4. ~In(c, Pending) /\ ~In(c, Live) /\ c \notin covered
  BY <1>1, FreshIsUnknown
<1> QED
  BY <1>3, <1>4 DEF MailboxStep, Speaks, Pending

\* An enqueued message is posted.
LEMMA PostStep ==
  ASSUME TypeOK, HandsFull, HistoryOneWriter, OnePlace, CoveredOld,
         NEW m \in Tasks \cup HostMsgs, Fresh(m), queue' = Append(queue, m),
         UNCHANGED <<history, batch, covered>>
  PROVE  MailboxStep
<1>1. m \in Msg /\ queue \in Seq(Msg) /\ Hand(batch) \in Seq(Msg)
  BY HandIs DEF TypeOK, Msg, Proc
<1>2. Pending' = Append(Pending, m)
  <2>1. queue' = queue \o <<m>> /\ <<m>> \in Seq(Msg)
    BY <1>1, AppendIsConcat
  <2>2. Pending' = Hand(batch) \o (queue \o <<m>>)
    BY <2>1 DEF Pending
  <2>3. Pending \in Seq(Msg)
    BY <1>1, ConcatProperties DEF Pending
  <2>4. Append(Pending, m) = Pending \o <<m>>
    BY <1>1, <2>3, AppendIsConcat
  <2>5. Seq(Msg) \subseteq Seq(Entry)
    <3>1. Msg \subseteq Entry
      BY DEF Entry
    <3> QED BY <3>1
  <2>6. Hand(batch) \in Seq(Entry) /\ queue \in Seq(Entry) /\ <<m>> \in Seq(Entry)
    BY <1>1, <2>1, <2>5
  <2>7. Hand(batch) \o (queue \o <<m>>) = (Hand(batch) \o queue) \o <<m>>
    BY <2>6, Regroup
  <2> QED BY <2>2, <2>4, <2>7 DEF Pending
<1>3. ~In(m, Pending) /\ ~In(m, Live) /\ m \notin covered
  BY <1>1, FreshIsUnknown
<1> QED
  BY <1>2, <1>3 DEF MailboxStep, Posts, Live

\* Every operation of the kernel is a step of the mailbox.
LEMMA MailboxSteps ==
  ASSUME TypeOK, HandsFull, HistoryOneWriter, OnePlace, CoveredOld, SnapFresh,
         [Next]_vars, HistoryOneWriter'
  PROVE  MailboxStep
<1>a. ASSUME NEW p \in Proc, pc[p] \in Mutating PROVE snap[p] = history
  BY <1>a DEF SnapFresh
<1>b. ASSUME NEW p \in Proc, pc[p] \in {"boundary", "resumeDrain"}, Boundary(p) \/ ResumeDrain(p)
      PROVE  MailboxStep
  <2>1. \A q \in Proc : batch[q] = <<>>
    <3>1. ASSUME NEW q \in Proc, batch[q] # <<>> PROVE FALSE
      <4>1. pc[q] \in {"boundaryWrite", "injectWrite"} /\ q # p
        BY <1>b, <3>1 DEF HandsFull
      <4>2. pc'[p] \in {"boundaryWrite", "injectWrite"} /\ pc'[q] = pc[q]
        BY <1>b, <4>1 DEF Boundary, ResumeDrain, Goto, TypeOK
      <4> QED BY <4>1, <4>2 DEF HistoryOneWriter, Mutating
    <3> QED BY <3>1
  <2> QED BY <1>b, <2>1, DrainStep DEF Boundary, ResumeDrain
<1>1. ASSUME NEW c \in Callers, StreamEnter(c) PROVE MailboxStep
  BY <1>1, SilentStep DEF StreamEnter
<1>2. ASSUME NEW c \in Callers, StreamStep(c) PROVE MailboxStep
  <2>0. c \in Proc
    BY DEF Proc
  <2>1. CASE StreamCompact(c) BY <2>1, SilentStep DEF StreamCompact
  <2>2. CASE StreamNoCompact(c) BY <2>2, SilentStep DEF StreamNoCompact
  <2>3. CASE StreamCompacted(c)
    BY <2>0, <2>3, <1>a, SummariseStep DEF StreamCompacted, Goto, Mutating
  <2>4. CASE StreamCompactFails(c) BY <2>4, SilentStep DEF StreamCompactFails
  <2>5. CASE PromptRead(c) BY <2>5, SilentStep DEF PromptRead
  <2>6. CASE PromptWrite(c)
    <3>1. pc[c] = "promptWrite" /\ Fresh(c) /\ snap[c] = history
      BY <2>0, <2>6, <1>a DEF PromptWrite, Goto, Mutating, Fresh
    <3> QED BY <2>6, <3>1, SpeakStep DEF PromptWrite
  <2>7. CASE Validate(c) BY <2>7, SilentStep DEF Validate
  <2> QED BY <1>2, <2>1, <2>2, <2>3, <2>4, <2>5, <2>6, <2>7 DEF StreamStep
<1>3. ASSUME NEW p \in Proc, LockRun(p) PROVE MailboxStep
  BY <1>3, SilentStep DEF LockRun
<1>4. ASSUME NEW p \in Proc, LoopStep(p) PROVE MailboxStep
  <2>1. CASE SetRunning(p) BY <2>1, SilentStep DEF SetRunning
  <2>2. CASE TurnRead(p) BY <2>2, SilentStep DEF TurnRead
  <2>3. CASE TurnWrite(p)
    <3>1. pc[p] = "turnWrite"
      BY <2>3 DEF TurnWrite, Goto
    <3>2. snap[p] = history
      BY <1>a, <3>1 DEF Mutating
    <3> QED BY <2>3, <3>2, TurnStep DEF TurnWrite
  <2>4. CASE Boundary(p) BY <2>4, <1>b DEF Boundary, Goto
  <2>5. CASE BoundaryWrite(p)
    <3>1. pc[p] = "boundaryWrite"
      BY <2>5 DEF BoundaryWrite, Goto
    <3>2. snap[p] = history /\ batch[p] # <<>>
      BY <1>a, <3>1 DEF Mutating, HandsFull
    <3> QED BY <2>5, <3>2, DeliverStep DEF BoundaryWrite
  <2>6. CASE BoundaryNoQueue(p) BY <2>6, SilentStep DEF BoundaryNoQueue
  <2>7. CASE LoopCompact(p) BY <2>7, SilentStep DEF LoopCompact
  <2>8. CASE LoopCompacted(p)
    BY <2>8, <1>a, SummariseStep DEF LoopCompacted, Goto, Mutating
  <2>9. CASE LoopFails(p) BY <2>9, SilentStep DEF LoopFails
  <2>10. CASE Stop(p) BY <2>10, SilentStep DEF Stop
  <2>11. CASE LimitStops(p) BY <2>11, SilentStep DEF LimitStops
  <2> QED BY <1>4, <2>1, <2>2, <2>3, <2>4, <2>5, <2>6, <2>7, <2>8, <2>9, <2>10, <2>11 DEF LoopStep
<1>5. ASSUME NEW p \in Proc, ResumeLock(p) PROVE MailboxStep
  BY <1>5, SilentStep DEF ResumeLock
<1>6. ASSUME NEW p \in Proc, ResumeStep(p) PROVE MailboxStep
  <2>1. CASE ResumeNoop(p) BY <2>1, SilentStep DEF ResumeNoop
  <2>2. CASE ResumeCheck(p) BY <2>2, SilentStep DEF ResumeCheck
  <2>3. CASE MasterIdle(p) BY <2>3, SilentStep DEF MasterIdle
  <2>4. CASE ResumeDrain(p) BY <2>4, <1>b DEF ResumeDrain, Goto
  <2>5. CASE Inject(p)
    <3>1. pc[p] = "injectWrite"
      BY <2>5 DEF Inject, Goto
    <3>2. snap[p] = history /\ batch[p] # <<>>
      BY <1>a, <3>1 DEF Mutating, HandsFull
    <3> QED BY <2>5, <3>2, DeliverStep DEF Inject
  <2> QED BY <1>6, <2>1, <2>2, <2>3, <2>4, <2>5 DEF ResumeStep
<1>7. ASSUME NEW t \in Tasks, Spawn(t) \/ Finish(t) PROVE MailboxStep
  <2>1. CASE Spawn(t) BY <2>1, SilentStep DEF Spawn
  <2>2. CASE Finish(t)
    <3>1. Fresh(t)
      BY <2>2 DEF Finish, Goto, Fresh
    <3> QED BY <2>2, <3>1, PostStep DEF Finish
  <2> QED BY <1>7, <2>1, <2>2
<1>8. ASSUME NEW h \in HostMsgs, HostEnqueue(h) PROVE MailboxStep
  <2>1. Fresh(h)
    BY <1>8 DEF HostEnqueue, Fresh
  <2> QED BY <1>8, <2>1, PostStep DEF HostEnqueue
<1>9. CASE UNCHANGED vars
  BY <1>9, SilentStep DEF vars
<1> QED
  BY <1>1, <1>2, <1>3, <1>4, <1>5, <1>6, <1>7, <1>8, <1>9 DEF Next

(***************************************************************************)
(* For a host that calls Stream once, the kernel implements the mailbox,   *)
(* with any number of background agents and queued messages: they enter    *)
(* the conversation in the order they were queued, once each, and leave it *)
(* only into a summary that covers them.                                   *)
(***************************************************************************)
THEOREM KernelIsMailbox == ASSUME OneCall PROVE Spec => ImplementsMailbox
<1> DEFINE I == /\ IInv /\ FirstRun /\ OnePlace
                /\ HandsFull /\ SnapFresh /\ CoveredOld
<1>1. Init => I /\ MB!Init
  <2> SUFFICES ASSUME Init PROVE I /\ MB!Init
    OBVIOUS
  <2>1. I
    BY IInvInit, FirstRunInit, OnePlaceInit, DeliveryInit
  <2>2. Hand(batch) = <<>> /\ queue = <<>> /\ history = <<>> /\ covered = {}
    BY HandEmpty DEF Init
  <2>3. Pending = <<>> /\ Live = <<>>
    BY <2>2, MessagesOfNone DEF Pending, Live
  <2> QED BY <2>1, <2>2, <2>3 DEF MB!Init, Pending, Live, Hand, Taken
<1>2. I => HistoryOneWriter
  BY OneWriter DEF IInv
<1>3. I /\ [Next]_vars => I'
  BY <1>2, IInvStep, FirstRunStep, OnePlaceStep, HandsFullStep, SnapFreshStep, CoveredOldStep DEF IInv
<1>4. I /\ HistoryOneWriter /\ [Next]_vars /\ HistoryOneWriter' =>
        MB!Next \/ UNCHANGED <<(IF Taken = {} THEN <<>> ELSE CHOOSE b \in Taken : TRUE) \o queue,
                               Messages(history), covered>>
  BY MailboxSteps, MailboxStepIs DEF IInv
<1> HIDE DEF I
<1> QED
  BY <1>1, <1>2, <1>3, <1>4, PTL DEF Spec, ImplementsMailbox, MB!Spec
=============================================================================
