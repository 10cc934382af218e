----------------------- MODULE IndexMaintenance_proofs -----------------------
(***************************************************************************)
(* Machine-checked proofs about IndexMaintenance, for every set of tasks   *)
(* and every number of starts.                                             *)
(***************************************************************************)
EXTENDS IndexMaintenance, SequenceTheorems, TLAPS

-----------------------------------------------------------------------------
(* The steps that move the worker's program counter and nothing else.      *)
Move ==
    \/ LoopTest \/ AcquireAndTest \/ Block \/ Timeout \/ Reacquire
    \/ CheckStopped \/ CheckRunning \/ CheckEmpty \/ CheckClosed \/ SpuriousWakeup

(* A Move changes no data, and neither starts nor ends the run of a task.  *)
LEMMA MoveKeepsData ==
  ASSUME Move
  PROVE  /\ UNCHANGED <<running, owner, queue, hand, windowOpen, starts,
                        submitted, attempts, done, dropped>>
         /\ worker' \in WorkerStates \ {"process", "requeue"}
         /\ worker \in WorkerStates \ {"process", "requeue", "absent"}
  BY DEF Move, LoopTest, AcquireAndTest, Block, Timeout, Reacquire, CheckStopped,
         CheckRunning, CheckEmpty, CheckClosed, SpuriousWakeup, Goto, history, WorkerStates

(* Next, regrouped by what a step does to the data.                        *)
LEMMA NextCases ==
  ASSUME Next
  PROVE  \/ Start \/ StartThrows \/ StopClear \/ StopNotify \/ StopJoin
         \/ \E t \in Tasks : Enqueue(t)
         \/ Move
         \/ TakeTask \/ Succeed \/ Fail \/ GiveUp \/ Requeue
         \/ ClockTick
  BY DEF Next, OwnerStep, WorkerProgress, Move

(* What pushing an entry at the back of the queue does.                    *)
LEMMA PushEntry ==
  ASSUME queue \in Seq(Entry), NEW e \in Entry, queue' = Append(queue, e)
  PROVE  /\ queue' \in Seq(Entry)
         /\ Len(queue) \in Nat
         /\ Len(queue') = Len(queue) + 1
         /\ \A i \in 1..Len(queue) : queue'[i] = queue[i]
         /\ queue'[Len(queue) + 1] = e
  <1>1. Len(queue) \in Nat
    BY LenProperties
  <1> QED
    BY <1>1, AppendProperties

(* What popping the front of a non-empty queue does.                       *)
LEMMA PopEntry ==
  ASSUME queue \in Seq(Entry), queue # <<>>, queue' = Tail(queue)
  PROVE  /\ queue' \in Seq(Entry)
         /\ Head(queue) \in Entry
         /\ Head(queue) = queue[1]
         /\ Len(queue) \in Nat \ {0}
         /\ Len(queue') = Len(queue) - 1
         /\ \A i \in 1..Len(queue') : queue'[i] = queue[i + 1]
  <1>1. Len(queue) \in Nat \ {0}
    BY EmptySeq
  <1>2. Head(queue) = queue[1]
    OBVIOUS
  <1> QED
    BY <1>1, <1>2, HeadTailProperties

-----------------------------------------------------------------------------
(* Type correctness.                                                       *)

(* TypeOK is inductive: the retry count that leaves 0..MaxRetries is the   *)
(* one MayRetry refuses.                                                   *)
LEMMA TypeStep ==
  ASSUME TypeOK, [Next]_vars
  PROVE  TypeOK'
  <1> USE DEF TypeOK, WorkerStates, OwnerStates, history
  <1>1. CASE UNCHANGED vars
    BY <1>1 DEF vars
  <1>2. CASE Next
    <2>1. CASE Start \/ StartThrows
      <3>1. running' = TRUE /\ starts' \in Nat /\ worker' \in {"loop", worker}
        BY <2>1 DEF Start, StartThrows
      <3>2. UNCHANGED <<owner, queue, hand, windowOpen, submitted, attempts, done, dropped>>
        BY <2>1 DEF Start, StartThrows
      <3>3. worker \notin {"process", "requeue"} \/ worker' = worker \/ worker' = "loop"
        BY <3>1
      <3> QED
        BY <3>1, <3>2
    <2>2. CASE StopClear
      BY <2>2 DEF StopClear
    <2>3. CASE StopNotify
      BY <2>3 DEF StopNotify, Notified
    <2>4. CASE StopJoin
      BY <2>4 DEF StopJoin
    <2>5. ASSUME NEW t \in Tasks, Enqueue(t)
          PROVE  TypeOK'
      <3>1. [id |-> t, retry |-> 0] \in Entry
        BY DEF Entry, MaxRetries
      <3>2. queue' \in Seq(Entry)
        BY <2>5, <3>1, PushEntry DEF Enqueue
      <3> QED
        BY <2>5, <3>2 DEF Enqueue, Notified
    <2>6. CASE Move
      BY <2>6, MoveKeepsData
    <2>7. CASE TakeTask
      <3>1. queue' \in Seq(Entry) /\ hand' \in Entry
        BY <2>7, PopEntry DEF TakeTask, Popped
      <3> QED
        BY <2>7, <3>1 DEF TakeTask, Entry
    <2>8. CASE Succeed
      BY <2>8 DEF Succeed, Counted, Entry
    <2>9. CASE Fail
      <3>1. hand' \in Entry
        BY <2>9 DEF Fail, Retried, MayRetry, Entry, MaxRetries
      <3> QED
        BY <2>9, <3>1 DEF Fail, Counted, Entry
    <2>10. CASE GiveUp
      BY <2>10 DEF GiveUp, Counted, Entry
    <2>11. CASE Requeue
      <3>1. queue' \in Seq(Entry)
        BY <2>11, PushEntry DEF Requeue
      <3> QED
        BY <2>11, <3>1 DEF Requeue
    <2>12. CASE ClockTick
      BY <2>12 DEF ClockTick
    <2> QED
      BY <1>2, <2>1, <2>2, <2>3, <2>4, <2>5, <2>6, <2>7, <2>8, <2>9, <2>10,
         <2>11, <2>12, NextCases
  <1> QED
    BY <1>1, <1>2

LEMMA TypeInit == Init => TypeOK
  <1> SUFFICES ASSUME Init
               PROVE  TypeOK
    OBVIOUS
  <1>1. queue \in Seq(Entry)
    BY DEF Init
  <1>2. hand \in [id : Tasks \cup {NoTask}, retry : 0..MaxRetries]
    BY DEF Init, MaxRetries
  <1>3. /\ running \in BOOLEAN /\ owner \in OwnerStates /\ worker = "absent"
        /\ windowOpen \in BOOLEAN /\ starts \in Nat
    BY DEF Init, OwnerStates
  <1>4. /\ submitted \subseteq Tasks /\ done \subseteq Tasks /\ dropped \subseteq Tasks
        /\ attempts \in [Tasks -> Nat]
    BY DEF Init
  <1> QED
    BY <1>1, <1>2, <1>3, <1>4 DEF TypeOK, WorkerStates

(* Every reachable state is well typed; in particular retry_count never    *)
(* exceeds the limit of line 121.                                          *)
THEOREM TypeCorrect == Spec => []TypeOK
  BY TypeInit, TypeStep, PTL DEF Spec

-----------------------------------------------------------------------------
(* stop() and the worker thread.                                           *)

StopInv ==
    /\ NoWorkerAfterStop
    /\ owner # "idle" => ~running

LEMMA StopInvHolds == Spec => []StopInv
  <1>1. Init => StopInv
    BY DEF Init, StopInv, NoWorkerAfterStop
  <1>2. StopInv /\ TypeOK /\ [Next]_vars => StopInv'
    <2> SUFFICES ASSUME StopInv, TypeOK, [Next]_vars
                 PROVE  StopInv'
      OBVIOUS
    <2> USE DEF StopInv, NoWorkerAfterStop
    <2>1. CASE UNCHANGED vars
      BY <2>1 DEF vars
    <2>2. CASE Next
      <3>1. CASE Start \/ StartThrows \/ StopClear \/ StopNotify \/ StopJoin
        BY <3>1 DEF Start, StartThrows, StopClear, StopNotify, StopJoin, Joinable
      <3>2. CASE \E t \in Tasks : Enqueue(t)
        BY <3>2 DEF Enqueue, Notified
      <3>3. CASE Move
        BY <3>3, MoveKeepsData DEF WorkerStates
      <3>4. CASE TakeTask \/ Succeed \/ Fail \/ GiveUp \/ Requeue
        <4>1. worker # "absent" /\ UNCHANGED <<running, owner>>
          BY <3>4 DEF TakeTask, Succeed, Fail, GiveUp, Requeue
        <4> QED
          BY <4>1
      <3>5. CASE ClockTick
        BY <3>5 DEF ClockTick, history
      <3> QED
        BY <2>2, <3>1, <3>2, <3>3, <3>4, <3>5, NextCases
    <2> QED
      BY <2>1, <2>2
  <1> QED
    BY <1>1, <1>2, TypeCorrect, PTL DEF Spec

(* Once stop() has returned there is no worker, for any number of restarts. *)
THEOREM NoWorkerAfterStopHolds == Spec => []NoWorkerAfterStop
  <1>1. StopInv => NoWorkerAfterStop
    BY DEF StopInv
  <1> QED
    BY <1>1, StopInvHolds, PTL

(* stop() waits for the worker, which begins no run once running_ is clear. *)
THEOREM WorkerIsStoppable == Spec => ImplementsStoppableThread
  <1>1. Init => Part!Init
    BY DEF Init, Part!Init
  <1>2. TypeOK /\ StopInv /\ [Next]_vars => [Part!Next]_(Part!vars)
    <2> SUFFICES ASSUME TypeOK, StopInv, [Next]_vars
                 PROVE  [Part!Next]_(Part!vars)
      OBVIOUS
    <2> USE DEF Part!Next, Part!vars
    <2>1. CASE UNCHANGED vars
      BY <2>1 DEF vars
    <2>2. CASE Start \/ StartThrows
      <3>1. Part!Start
        BY <2>2 DEF Start, StartThrows, Part!Start, StopInv, NoWorkerAfterStop
      <3> QED
        BY <3>1
    <2>3. CASE StopClear
      <3>1. Part!Clear
        BY <2>3 DEF StopClear, Part!Clear
      <3> QED
        BY <3>1
    <2>4. CASE StopNotify \/ (\E t \in Tasks : Enqueue(t))
      <3>1. /\ running' = running /\ (owner = "idle" <=> owner' = "idle")
            /\ worker' = worker \/ (worker = "waiting" /\ worker' = "lock")
        BY <2>4 DEF StopNotify, Enqueue, Notified
      <3> QED
        BY <3>1
    <2>5. CASE StopJoin
      <3>1. Part!Return
        BY <2>5 DEF StopJoin, Joinable, Part!Return
      <3> QED
        BY <3>1
    <2>6. CASE Move
      <3>1. /\ worker \notin {"absent", "process", "requeue"}
            /\ worker' \notin {"process", "requeue"} /\ UNCHANGED <<running, owner>>
        BY <2>6, MoveKeepsData
      <3>2. CASE worker' = "absent"
        <4>1. Part!Leave
          BY <3>1, <3>2 DEF Part!Leave
        <4> QED
          BY <4>1
      <3>3. CASE worker' # "absent" /\ worker = "choose"
        <4>1. worker' = "loop"
          BY <2>6, <3>3 DEF Move, LoopTest, AcquireAndTest, Block, Timeout, Reacquire, CheckStopped,
             CheckRunning, CheckEmpty, CheckClosed, SpuriousWakeup, Goto
        <4>2. CASE running
          BY <3>1, <3>3, <4>1, <4>2
        <4>3. CASE ~running
          <5>1. Part!Skip
            BY <3>1, <3>3, <4>1, <4>3 DEF Part!Skip
          <5> QED
            BY <5>1
        <4> QED
          BY <4>2, <4>3
      <3>4. CASE worker' # "absent" /\ worker # "choose"
        <4>1. worker' = "choose" => running
          BY <2>6, <3>4 DEF Move, LoopTest, AcquireAndTest, Block, Timeout, Reacquire, CheckStopped,
             CheckRunning, CheckEmpty, CheckClosed, SpuriousWakeup, Goto
        <4> QED
          BY <3>1, <3>4, <4>1
      <3> QED
        BY <3>2, <3>3, <3>4
    <2>7. CASE TakeTask
      <3>1. Part!Begin
        BY <2>7 DEF TakeTask, Part!Begin
      <3> QED
        BY <3>1
    <2>8. CASE Succeed \/ GiveUp \/ Requeue
      <3>1. Part!End
        BY <2>8 DEF Succeed, GiveUp, Requeue, Part!End
      <3> QED
        BY <3>1
    <2>9. CASE Fail \/ ClockTick
      <3>1. /\ UNCHANGED <<running, owner>>
            /\ worker' = worker \/ (worker = "process" /\ worker' = "requeue")
        BY <2>9 DEF Fail, ClockTick
      <3> QED
        BY <3>1
    <2> QED
      BY <2>1, <2>2, <2>3, <2>4, <2>5, <2>6, <2>7, <2>8, <2>9, NextCases
  <1> QED
    BY <1>1, <1>2, TypeCorrect, StopInvHolds, PTL
       DEF Spec, ImplementsStoppableThread, Part!Spec

-----------------------------------------------------------------------------
(* The wake-up protocol.                                                   *)

(* The worker never sleeps over a queued task: the invariant is inductive  *)
(* because a push needs the mutex and the mutex is held from the predicate *)
(* to the wait.                                                            *)
THEOREM NoLostTaskWakeupHolds == Spec => []NoLostTaskWakeup
  <1>1. Init => NoLostTaskWakeup
    BY DEF Init, NoLostTaskWakeup
  <1>2. NoLostTaskWakeup /\ [Next]_vars => NoLostTaskWakeup'
    <2> SUFFICES ASSUME NoLostTaskWakeup, [Next]_vars
                 PROVE  NoLostTaskWakeup'
      OBVIOUS
    <2> USE DEF NoLostTaskWakeup
    <2>1. CASE UNCHANGED vars
      BY <2>1 DEF vars
    <2>2. CASE Next
      <3>1. CASE Start \/ StartThrows \/ StopClear \/ StopNotify \/ StopJoin
        BY <3>1 DEF Start, StartThrows, StopClear, StopNotify, StopJoin, Notified
      <3>2. CASE \E t \in Tasks : Enqueue(t)
        BY <3>2 DEF Enqueue, Notified, MutexFree
      <3>3. CASE Move
        BY <3>3, MoveKeepsData
           DEF Move, LoopTest, AcquireAndTest, Block, Timeout, Reacquire, CheckStopped,
               CheckRunning, CheckEmpty, CheckClosed, SpuriousWakeup, Goto
      <3>4. CASE TakeTask \/ Succeed \/ Fail \/ GiveUp \/ Requeue
        BY <3>4 DEF TakeTask, Succeed, Fail, GiveUp, Requeue
      <3>5. CASE ClockTick
        BY <3>5 DEF ClockTick
      <3> QED
        BY <2>2, <3>1, <3>2, <3>3, <3>4, <3>5, NextCases
    <2> QED
      BY <2>1, <2>2
  <1> QED
    BY <1>1, <1>2, PTL DEF Spec

-----------------------------------------------------------------------------
(* Conservation of tasks.                                                  *)

Distinct == \A i, j \in 1..Len(queue) : queue[i].id = queue[j].id => i = j

(* A push adds the pushed task to those in the queue, and keeps them       *)
(* distinct when the task was not there.                                   *)
LEMMA PushTask ==
  ASSUME queue \in Seq(Entry), NEW e \in Entry, queue' = Append(queue, e)
  PROVE  /\ \A t \in Tasks : InQueue(t)' <=> InQueue(t) \/ t = e.id
         /\ Distinct /\ ~InQueue(e.id) => Distinct'
  <1>1. /\ Len(queue) \in Nat
        /\ Len(queue') = Len(queue) + 1
        /\ \A i \in 1..Len(queue) : queue'[i] = queue[i]
        /\ queue'[Len(queue) + 1] = e
    BY PushEntry
  <1>2. 1..Len(queue') = 1..Len(queue) \cup {Len(queue) + 1}
    BY <1>1
  <1>3. \A t \in Tasks : InQueue(t)' <=> InQueue(t) \/ t = e.id
    BY <1>1, <1>2 DEF InQueue
  <1>4. Distinct /\ ~InQueue(e.id) => Distinct'
    BY <1>1, <1>2 DEF InQueue, Distinct
  <1> QED
    BY <1>3, <1>4

(* A pop takes exactly the front task out of a queue of distinct tasks.    *)
LEMMA PopTask ==
  ASSUME queue \in Seq(Entry), queue # <<>>, Distinct, queue' = Tail(queue)
  PROVE  /\ \A t \in Tasks : InQueue(t)' <=> InQueue(t) /\ t # Head(queue).id
         /\ InQueue(Head(queue).id)
         /\ Distinct'
  <1>1. /\ Len(queue) \in Nat \ {0}
        /\ Len(queue') = Len(queue) - 1
        /\ Head(queue) = queue[1]
        /\ \A i \in 1..Len(queue') : queue'[i] = queue[i + 1]
    BY PopEntry
  <1>2. \A i \in 1..Len(queue') : i + 1 \in 1..Len(queue) /\ i + 1 # 1
    BY <1>1
  <1>3. \A i \in 1..Len(queue) : i # 1 => i - 1 \in 1..Len(queue') /\ queue[i] = queue'[i - 1]
    BY <1>1
  <1>4. ASSUME NEW t \in Tasks
        PROVE  InQueue(t)' <=> InQueue(t) /\ t # Head(queue).id
    <2>1. InQueue(t)' => InQueue(t) /\ t # Head(queue).id
      BY <1>1, <1>2 DEF InQueue, Distinct
    <2>2. InQueue(t) /\ t # Head(queue).id => InQueue(t)'
      BY <1>1, <1>3 DEF InQueue
    <2> QED
      BY <2>1, <2>2
  <1>5. InQueue(Head(queue).id)
    BY <1>1 DEF InQueue
  <1>6. Distinct'
    <2> SUFFICES ASSUME NEW i \in 1..Len(queue'), NEW j \in 1..Len(queue'),
                        queue'[i].id = queue'[j].id
                 PROVE  i = j
      BY DEF Distinct
    <2>1. queue[i + 1].id = queue[j + 1].id
      BY <1>1
    <2>2. i + 1 = j + 1
      BY <2>1, <1>2 DEF Distinct
    <2> QED
      BY <2>2
  <1> QED
    BY <1>4, <1>5, <1>6

(* What TaskConserved says of one task.                                    *)
Placed(t) ==
    /\ t \in submitted <=> InQueue(t) \/ InHand(t) \/ Ended(t)
    /\ ~(InQueue(t) /\ InHand(t))
    /\ Ended(t) => ~InQueue(t) /\ ~InHand(t)
    /\ ~(t \in done /\ t \in dropped)

LEMMA ConservedUnfolded ==
  ASSUME TypeOK
  PROVE  TaskConserved <=> Distinct /\ \A t \in Tasks : Placed(t)
  BY DEF TypeOK, TaskConserved, Distinct, Placed

LEMMA ConservedStep ==
  ASSUME TypeOK, TypeOK', NoWorkerAfterStop, TaskConserved, [Next]_vars
  PROVE  TaskConserved'
  <1>1. Distinct /\ \A t \in Tasks : Placed(t)
    BY ConservedUnfolded
  <1> SUFFICES Distinct' /\ \A t \in Tasks : Placed(t)'
    BY DEF TypeOK, TaskConserved, Distinct, Placed
  <1>2. CASE UNCHANGED <<queue, hand, submitted, done, dropped>>
             /\ (worker' \in {"process", "requeue"} <=> worker \in {"process", "requeue"})
    BY <1>1, <1>2 DEF Distinct, Placed, InQueue, InHand, Ended
  <1>3. CASE UNCHANGED vars
    BY <1>2, <1>3 DEF vars
  <1>4. CASE Start \/ StartThrows \/ StopClear \/ StopNotify \/ StopJoin
    <2>1. CASE Start
      BY <1>2, <2>1 DEF Start, NoWorkerAfterStop, history
    <2> QED
      BY <1>2, <1>4, <2>1
         DEF StartThrows, StopClear, StopNotify, StopJoin, Notified, history
  <1>5. ASSUME NEW u \in Tasks, Enqueue(u)
        PROVE  Distinct' /\ \A t \in Tasks : Placed(t)'
    <2> DEFINE e == [id |-> u, retry |-> 0]
    <2>1. e \in Entry /\ e.id = u
      BY DEF Entry, MaxRetries
    <2>2. /\ ~InQueue(u) /\ ~InHand(u) /\ ~Ended(u)
      BY <1>1, <1>5 DEF Placed, Enqueue
    <2>3. /\ \A t \in Tasks : InQueue(t)' <=> InQueue(t) \/ t = u
          /\ Distinct'
      BY <1>1, <1>5, <2>1, <2>2, PushTask DEF Enqueue, TypeOK
    <2>4. \A t \in Tasks : (InHand(t)' <=> InHand(t)) /\ (Ended(t)' <=> Ended(t))
      BY <1>5 DEF Enqueue, Notified, InHand, Ended
    <2> QED
      BY <1>1, <1>5, <2>2, <2>3, <2>4 DEF Placed, Enqueue
  <1>6. CASE Move
    BY <1>2, <1>6, MoveKeepsData
  <1>7. CASE TakeTask
    <2>1. /\ \A t \in Tasks : InQueue(t)' <=> InQueue(t) /\ t # Head(queue).id
          /\ InQueue(Head(queue).id)
          /\ Distinct'
      BY <1>1, <1>7, PopTask DEF TakeTask, Popped, TypeOK
    <2>2. \A t \in Tasks : (InHand(t)' <=> t = Head(queue).id) /\ ~InHand(t)
                           /\ (Ended(t)' <=> Ended(t))
      BY <1>7 DEF TakeTask, InHand, Ended, history
    <2> QED
      BY <1>1, <1>7, <2>1, <2>2 DEF Placed, TakeTask, history
  <1>8. CASE Succeed \/ GiveUp
    <2>1. /\ hand.id \in Tasks /\ InHand(hand.id) /\ UNCHANGED <<queue, submitted>>
          /\ \A t \in Tasks : ~InHand(t)'
          /\ \/ done' = done \cup {hand.id} /\ dropped' = dropped
             \/ dropped' = dropped \cup {hand.id} /\ done' = done
      BY <1>8 DEF Succeed, GiveUp, InHand, TypeOK, Entry
    <2>2. ~InQueue(hand.id) /\ ~Ended(hand.id) /\ hand.id \in submitted
      BY <1>1, <2>1 DEF Placed
    <2>3. \A t \in Tasks : InHand(t) <=> t = hand.id
      BY <2>1 DEF InHand
    <2>4. Distinct' /\ \A t \in Tasks : (InQueue(t)' <=> InQueue(t))
      BY <1>1, <2>1 DEF Distinct, InQueue
    <2> QED
      BY <1>1, <2>1, <2>2, <2>3, <2>4 DEF Placed, Ended
  <1>9. CASE Fail
    <2>1. /\ hand'.id = hand.id /\ UNCHANGED <<queue, submitted, done, dropped>>
          /\ worker = "process" /\ worker' = "requeue"
      BY <1>9 DEF Fail, Retried, TypeOK, Entry
    <2> QED
      BY <1>1, <2>1 DEF Distinct, Placed, InQueue, InHand, Ended
  <1>10. CASE Requeue
    <2>1. /\ hand \in Entry /\ hand.id \in Tasks /\ InHand(hand.id)
          /\ UNCHANGED <<submitted, done, dropped>> /\ queue' = Append(queue, hand)
          /\ \A t \in Tasks : ~InHand(t)'
      BY <1>10 DEF Requeue, InHand, TypeOK, Entry, history
    <2>2. ~InQueue(hand.id) /\ ~Ended(hand.id) /\ hand.id \in submitted
      BY <1>1, <2>1 DEF Placed
    <2>3. /\ \A t \in Tasks : InQueue(t)' <=> InQueue(t) \/ t = hand.id
          /\ Distinct'
      BY <1>1, <2>1, <2>2, PushTask DEF TypeOK
    <2>4. \A t \in Tasks : (InHand(t) <=> t = hand.id) /\ (Ended(t)' <=> Ended(t))
      BY <2>1 DEF InHand, Ended
    <2> QED
      BY <1>1, <2>1, <2>2, <2>3, <2>4 DEF Placed
  <1>11. CASE ClockTick
    BY <1>2, <1>11 DEF ClockTick, history
  <1> QED
    BY <1>3, <1>4, <1>5, <1>6, <1>7, <1>8, <1>9, <1>10, <1>11, NextCases

(* No interleaving of pop, unlocked run and push back loses or duplicates a *)
(* task.  The step needs NoWorkerAfterStop: a start() over a worker that    *)
(* was not joined would lose the task in its hand.                         *)
THEOREM TaskConservedHolds == Spec => []TaskConserved
  <1>1. Init => TaskConserved
    BY DEF Init, TaskConserved, InQueue, InHand, Ended
  <1>2. TypeOK /\ TypeOK' /\ NoWorkerAfterStop /\ TaskConserved /\ [Next]_vars => TaskConserved'
    BY ConservedStep
  <1> QED
    BY <1>1, <1>2, TypeCorrect, NoWorkerAfterStopHolds, PTL DEF Spec

-----------------------------------------------------------------------------
(* The retry budget.                                                       *)

Untouched == \A t \in Tasks \ submitted : attempts[t] = 0

CountInv == RetryBudget /\ Untouched

(* One step keeps the budget.                                              *)
LEMMA CountStep ==
  ASSUME TypeOK, NoWorkerAfterStop, TaskConserved, CountInv, [Next]_vars
  PROVE  CountInv'
  <1> USE DEF CountInv, Untouched, RetryBudget
  <1>1. Distinct /\ \A t \in Tasks : Placed(t)
    BY ConservedUnfolded
  <1>2. CASE UNCHANGED <<queue, hand, submitted, attempts, done, dropped>>
             /\ (worker' \in {"process", "requeue"} => worker \in {"process", "requeue"})
    BY <1>2
  <1>3. CASE UNCHANGED vars
    BY <1>2, <1>3 DEF vars
  <1>4. CASE Start \/ StartThrows \/ StopClear \/ StopNotify \/ StopJoin
    BY <1>2, <1>4 DEF Start, StartThrows, StopClear, StopNotify, StopJoin, Notified, history
  <1>5. ASSUME NEW u \in Tasks, Enqueue(u)
        PROVE  CountInv'
    <2> DEFINE e == [id |-> u, retry |-> 0]
    <2>1. e \in Entry
      BY DEF Entry, MaxRetries
    <2>2. /\ Len(queue) \in Nat /\ Len(queue') = Len(queue) + 1
          /\ \A i \in 1..Len(queue) : queue'[i] = queue[i]
          /\ queue'[Len(queue) + 1] = e
      BY <1>5, <2>1, PushEntry DEF Enqueue, TypeOK
    <2>3. attempts[u] = 0
      BY <1>5 DEF Enqueue
    <2>4. \A i \in 1..Len(queue') : attempts'[queue'[i].id] = queue'[i].retry
      BY <1>5, <2>2, <2>3 DEF Enqueue
    <2>5. worker' \in {"process", "requeue"} => worker \in {"process", "requeue"}
      BY <1>5 DEF Enqueue, Notified
    <2> QED
      BY <1>5, <2>4, <2>5 DEF Enqueue
  <1>6. CASE Move
    BY <1>2, <1>6, MoveKeepsData
  <1>7. CASE TakeTask
    <2>1. /\ Len(queue) \in Nat \ {0} /\ Len(queue') = Len(queue) - 1
          /\ hand' = queue[1]
          /\ \A i \in 1..Len(queue') : queue'[i] = queue[i + 1]
      BY <1>7, PopEntry DEF TakeTask, Popped, TypeOK
    <2>2. \A i \in 1..Len(queue') : i + 1 \in 1..Len(queue)
      BY <2>1
    <2>3. \A i \in 1..Len(queue') : attempts[queue'[i].id] = queue'[i].retry
      BY <2>1, <2>2
    <2>4. attempts[hand'.id] = hand'.retry
      BY <2>1
    <2> QED
      BY <1>7, <2>3, <2>4 DEF TakeTask, history
  <1>8. CASE Succeed \/ Fail \/ GiveUp
    <2>1. /\ worker = "process" /\ InHand(hand.id) /\ hand \in Entry /\ hand.id \in Tasks
          /\ hand.retry \in 0..MaxRetries
          /\ Counted /\ UNCHANGED <<queue, submitted>>
      BY <1>8 DEF Succeed, Fail, GiveUp, InHand, TypeOK, Entry
    <2>2. hand.id \in submitted /\ ~InQueue(hand.id) /\ ~Ended(hand.id)
      BY <1>1, <2>1 DEF Placed
    <2>3. /\ attempts'[hand.id] = hand.retry + 1
          /\ \A t \in Tasks : t # hand.id => attempts'[t] = attempts[t]
      BY <2>1 DEF Counted, TypeOK
    <2>4. \A i \in 1..Len(queue) : queue[i].id \in Tasks /\ queue[i].id # hand.id
      <3>1. \A i \in 1..Len(queue) : queue[i] \in Entry
        BY ElementOfSeq DEF TypeOK
      <3> QED
        BY <2>2, <3>1 DEF InQueue, Entry
    <2>5. \A i \in 1..Len(queue') : attempts'[queue'[i].id] = queue'[i].retry
      BY <2>1, <2>3, <2>4
    <2>6. \A t \in Tasks \ submitted' : attempts'[t] = 0
      BY <2>1, <2>2, <2>3
    <2>7. \A t \in done \cup dropped : t \in Tasks /\ attempts'[t] = attempts[t]
      BY <2>2, <2>3 DEF TypeOK, Ended
    <2>8. CASE Succeed
      <3>1. worker' = "loop" /\ done' = done \cup {hand.id} /\ dropped' = dropped
        BY <2>8 DEF Succeed
      <3>2. hand.retry + 1 \in 1..(MaxRetries + 1)
        BY <2>1 DEF MaxRetries
      <3> QED
        BY <2>3, <2>5, <2>6, <2>7, <3>1, <3>2
    <2>9. CASE Fail
      <3>1. /\ worker' = "requeue" /\ UNCHANGED <<done, dropped>>
            /\ hand'.id = hand.id /\ hand'.retry = hand.retry + 1
        BY <2>1, <2>9 DEF Fail, Retried, Entry
      <3> QED
        BY <2>3, <2>5, <2>6, <2>7, <3>1
    <2>10. CASE GiveUp
      <3>1. /\ worker' = "loop" /\ dropped' = dropped \cup {hand.id} /\ done' = done
            /\ hand.retry = MaxRetries
        BY <2>1, <2>10 DEF GiveUp, MayRetry, MaxRetries
      <3> QED
        BY <2>3, <2>5, <2>6, <2>7, <3>1
    <2> QED
      BY <1>8, <2>8, <2>9, <2>10
  <1>9. CASE Requeue
    <2>1. hand \in Entry /\ attempts[hand.id] = hand.retry
      BY <1>9 DEF Requeue, TypeOK
    <2>2. /\ Len(queue) \in Nat /\ Len(queue') = Len(queue) + 1
          /\ \A i \in 1..Len(queue) : queue'[i] = queue[i]
          /\ queue'[Len(queue) + 1] = hand
      BY <1>9, <2>1, PushEntry DEF Requeue, TypeOK
    <2>3. \A i \in 1..Len(queue') : attempts[queue'[i].id] = queue'[i].retry
      BY <2>1, <2>2
    <2> QED
      BY <1>9, <2>3 DEF Requeue, history
  <1>10. CASE ClockTick
    BY <1>2, <1>10 DEF ClockTick, history
  <1> QED
    BY <1>3, <1>4, <1>5, <1>6, <1>7, <1>8, <1>9, <1>10, NextCases

(* The budget and its strengthening hold in every reachable state.        *)
LEMMA CountHolds == Spec => []CountInv
  <1>1. Init => CountInv
    BY DEF Init, CountInv, RetryBudget, Untouched
  <1>2. TypeOK /\ NoWorkerAfterStop /\ TaskConserved /\ CountInv /\ [Next]_vars => CountInv'
    BY CountStep
  <1> QED
    BY <1>1, <1>2, TypeCorrect, NoWorkerAfterStopHolds, TaskConservedHolds, PTL DEF Spec

(* Every dropped task was run exactly MaxRetries + 1 times.  The inductive *)
(* invariant adds that a task nobody submitted was never run, and leans on *)
(* TaskConserved: counting a run of the task in hand must not touch an     *)
(* entry that is still in the queue.                                       *)
THEOREM RetryBudgetHolds == Spec => []RetryBudget
  <1>1. CountInv => RetryBudget
    BY DEF CountInv
  <1> QED
    BY <1>1, CountHolds, PTL

-----------------------------------------------------------------------------
(* Refinement: every step of the worker is a step of RetryQueue or changes *)
(* neither status nor failures.                                            *)

Steady ==
    /\ \A t \in Tasks : StatusOf(t)' = StatusOf(t)
    /\ \A t \in Tasks : FailuresOf(t)' = FailuresOf(t)

(* A step that leaves every task where it is stutters in RetryQueue.       *)
LEMMA SteadyStutters == Steady => UNCHANGED Promise!vars
  BY DEF Steady, Promise!vars

(* A step that moves one task from one status to another, and leaves the   *)
(* others alone, is Become in RetryQueue.                                  *)
LEMMA BecomeOne ==
  ASSUME NEW t \in Tasks, NEW before, NEW after,
         StatusOf(t) = before, StatusOf(t)' = after,
         \A u \in Tasks : u # t => StatusOf(u)' = StatusOf(u)
  PROVE  Promise!Become(t, before, after)
  BY DEF Promise!Become

LEMMA FailuresKept ==
  ASSUME \A u \in Tasks : FailuresOf(u)' = FailuresOf(u)
  PROVE  [u \in Tasks |-> FailuresOf(u)]' = [u \in Tasks |-> FailuresOf(u)]
  OBVIOUS

LEMMA RefinementStep ==
  ASSUME TypeOK, NoWorkerAfterStop, TaskConserved, CountInv, [Next]_vars
  PROVE  [Promise!Next]_(Promise!vars)
  <1>1. Distinct /\ \A t \in Tasks : Placed(t)
    BY ConservedUnfolded
  <1>2. CASE /\ UNCHANGED <<hand, submitted, attempts, done, dropped>>
             /\ worker' = "process" <=> worker = "process"
    <2>1. Steady
      BY <1>2 DEF Steady, StatusOf, FailuresOf, Ended
    <2> QED
      BY <2>1, SteadyStutters
  <1>3. CASE UNCHANGED vars
    BY <1>2, <1>3 DEF vars
  <1>4. CASE Start \/ StartThrows \/ StopClear \/ StopNotify \/ StopJoin
    BY <1>2, <1>4 DEF Start, StartThrows, StopClear, StopNotify, StopJoin, Notified,
                      NoWorkerAfterStop, history
  <1>5. ASSUME NEW u \in Tasks, Enqueue(u)
        PROVE  [Promise!Next]_(Promise!vars)
    <2>1. ~InQueue(u) /\ ~InHand(u) /\ ~Ended(u)
      BY <1>1, <1>5 DEF Placed, Enqueue
    <2>2. StatusOf(u) = "new" /\ StatusOf(u)' = "pending"
      BY <1>5, <2>1 DEF Enqueue, Notified, StatusOf, InHand, Ended
    <2>3. \A t \in Tasks : t # u => StatusOf(t)' = StatusOf(t)
      BY <1>5 DEF Enqueue, Notified, StatusOf
    <2>4. \A t \in Tasks : FailuresOf(t)' = FailuresOf(t)
      BY <1>5 DEF Enqueue, FailuresOf, Ended
    <2>5. Promise!Submit(u)
      BY <2>2, <2>3, <2>4, BecomeOne, FailuresKept DEF Promise!Submit
    <2> QED
      BY <2>5 DEF Promise!Next
  <1>6. CASE Move
    BY <1>2, <1>6, MoveKeepsData
  <1>7. CASE TakeTask
    <2>0. Head(queue).id \in Tasks
      BY <1>7, PopEntry DEF TakeTask, Popped, TypeOK, Entry
    <2>h. PICK h \in Tasks : h = Head(queue).id
      BY <2>0
    <2>1. /\ \A t \in Tasks : InQueue(t)' <=> InQueue(t) /\ t # h
          /\ InQueue(h)
      BY <1>1, <1>7, <2>h, PopTask DEF TakeTask, Popped, TypeOK
    <2>2. h \in submitted /\ ~Ended(h)
      BY <1>1, <2>1 DEF Placed
    <2>3. /\ worker = "choose" /\ worker' = "process" /\ hand'.id = h
          /\ UNCHANGED <<submitted, attempts, done, dropped>>
      BY <1>7, <2>h DEF TakeTask, history
    <2>4. StatusOf(h) = "pending" /\ StatusOf(h)' = "active"
      BY <2>2, <2>3 DEF StatusOf, Ended
    <2>5. \A t \in Tasks : t # h => StatusOf(t)' = StatusOf(t)
      BY <2>3 DEF StatusOf
    <2>6. \A t \in Tasks : StatusOf(t) # "active"
      BY <2>3 DEF StatusOf
    <2>7. \A t \in Tasks : FailuresOf(t)' = FailuresOf(t)
      BY <2>3 DEF FailuresOf, Ended
    <2>8. Promise!Begin(h)
      BY <2>1, <2>4, <2>5, <2>6, <2>7, BecomeOne, FailuresKept DEF Promise!Begin
    <2> QED
      BY <2>1, <2>8 DEF Promise!Next
  <1>8. CASE Succeed \/ Fail \/ GiveUp
    <2>0. hand.id \in Tasks
      BY <1>8 DEF Succeed, Fail, GiveUp, TypeOK, Entry
    <2>h. PICK h \in Tasks : h = hand.id
      BY <2>0
    <2>1. /\ worker = "process" /\ InHand(h) /\ hand.id = h /\ hand \in Entry /\ h \in Tasks
          /\ hand.retry \in 0..MaxRetries /\ attempts[h] = hand.retry
          /\ Counted /\ UNCHANGED submitted
      BY <1>8, <2>h DEF Succeed, Fail, GiveUp, InHand, TypeOK, Entry, CountInv, RetryBudget
    <2>2. h \in submitted /\ ~Ended(h)
      BY <1>1, <2>1 DEF Placed
    <2>3. /\ attempts'[h] = hand.retry + 1
          /\ \A t \in Tasks : t # h => attempts'[t] = attempts[t]
      BY <2>1 DEF Counted, TypeOK
    <2>4. StatusOf(h) = "active" /\ FailuresOf(h) = hand.retry
      BY <2>1, <2>2 DEF StatusOf, FailuresOf, Ended
    <2>5. CASE Succeed
      <3>1. worker' = "loop" /\ done' = done \cup {h} /\ dropped' = dropped /\ hand' = hand
        BY <2>1, <2>5 DEF Succeed
      <3>2. h \in VerifyTasks
        <4>1. TRUE \in Outcomes(h)
          BY <2>1, <2>5 DEF Succeed
        <4>2. h \in ReindexTasks => Outcomes(h) = {FALSE}
          BY DEF Outcomes
        <4>3. h \notin ReindexTasks
          BY <4>1, <4>2, TRUE \notin {FALSE}
        <4> QED
          BY <4>3 DEF Tasks
      <3>3. StatusOf(h)' = "done"
        BY <2>1, <2>2, <3>1 DEF StatusOf, Ended
      <3>4. \A t \in Tasks : t # h => StatusOf(t)' = StatusOf(t)
        BY <2>1, <3>1 DEF StatusOf
      <3>5. \A t \in Tasks : FailuresOf(t)' = FailuresOf(t)
        BY <2>1, <2>2, <2>3, <2>4, <3>1 DEF FailuresOf, Ended, MaxRetries
      <3>6. Promise!Finish(h)
        BY <2>1, <2>4, <3>2, <3>3, <3>4, <3>5, BecomeOne, FailuresKept DEF Promise!Finish
      <3> QED
        BY <2>1, <3>6 DEF Promise!Next
    <2>6. CASE Fail
      <3>1. /\ worker' = "requeue" /\ UNCHANGED <<done, dropped>>
            /\ hand'.id = h /\ hand.retry < MaxRetries
        BY <2>1, <2>6 DEF Fail, Retried, Entry, MayRetry
      <3>2. StatusOf(h)' = "pending"
        BY <2>1, <2>2, <3>1 DEF StatusOf, Ended
      <3>3. \A t \in Tasks : t # h => StatusOf(t)' = StatusOf(t)
        BY <2>1, <3>1 DEF StatusOf
      <3>4. /\ FailuresOf(h)' = FailuresOf(h) + 1
            /\ \A t \in Tasks : t # h => FailuresOf(t)' = FailuresOf(t)
        BY <2>1, <2>2, <2>3, <3>1 DEF FailuresOf, Ended
      <3>5. Promise!Retry(h)
        BY <2>1, <2>4, <3>1, <3>2, <3>3, <3>4, BecomeOne DEF Promise!Retry
      <3> QED
        BY <2>1, <3>5 DEF Promise!Next
    <2>7. CASE GiveUp
      <3>1. /\ worker' = "loop" /\ dropped' = dropped \cup {h} /\ done' = done
            /\ hand' = hand /\ hand.retry = MaxRetries
        BY <2>1, <2>7 DEF GiveUp, MayRetry, MaxRetries
      <3>2. StatusOf(h)' = "dropped"
        BY <2>1, <2>2, <3>1 DEF StatusOf, Ended
      <3>3. \A t \in Tasks : t # h => StatusOf(t)' = StatusOf(t)
        BY <2>1, <3>1 DEF StatusOf
      <3>4. \A t \in Tasks : FailuresOf(t)' = FailuresOf(t)
        BY <2>1, <2>2, <2>3, <2>4, <3>1 DEF FailuresOf, Ended, MaxRetries
      <3>5. Promise!GiveUp(h)
        BY <2>1, <2>4, <3>1, <3>2, <3>3, <3>4, BecomeOne, FailuresKept DEF Promise!GiveUp
      <3> QED
        BY <2>1, <3>5 DEF Promise!Next
    <2> QED
      BY <1>8, <2>5, <2>6, <2>7
  <1>9. CASE Requeue
    BY <1>2, <1>9 DEF Requeue, history
  <1>10. CASE ClockTick
    BY <1>2, <1>10 DEF ClockTick, history
  <1> QED
    BY <1>3, <1>4, <1>5, <1>6, <1>7, <1>8, <1>9, <1>10, NextCases

(* The threads, the mutex and the queue implement the promise of           *)
(* RetryQueue.                                                             *)
THEOREM WorkerImplementsRetryQueue == Spec => ImplementsRetryQueue
  <1>1. Init => Promise!Init
    BY DEF Init, Promise!Init, StatusOf, FailuresOf, Ended
  <1>2. TypeOK /\ NoWorkerAfterStop /\ TaskConserved /\ CountInv /\ [Next]_vars
          => [Promise!Next]_(Promise!vars)
    BY RefinementStep
  <1> QED
    BY <1>1, <1>2, TypeCorrect, NoWorkerAfterStopHolds, TaskConservedHolds, CountHolds, PTL
       DEF Spec, ImplementsRetryQueue, Promise!Spec

-----------------------------------------------------------------------------
(* What the promise says of a task.                                        *)

\* How the account of one task may change in a step of the promise.
Moves(t, status, failures, newStatus, newFailures) ==
    \/ status = "new" /\ newStatus = "pending" /\ newFailures = failures
    \/ status = "pending" /\ newStatus = "active" /\ newFailures = failures
    \/ status = "active" /\ newStatus = "done" /\ newFailures = failures /\ t \in VerifyTasks
    \/ /\ status = "active" /\ newStatus = "pending"
       /\ failures < MaxRetries /\ newFailures = failures + 1
    \/ /\ status = "active" /\ newStatus = "dropped"
       /\ failures = MaxRetries /\ newFailures = failures

(* Between two states of the promise one task moves, or none.              *)
LEMMA OneTaskMoves ==
  ASSUME [Promise!Next]_(Promise!vars)
  PROVE  \/ \A t \in Tasks : StatusOf(t)' = StatusOf(t) /\ FailuresOf(t)' = FailuresOf(t)
         \/ \E t \in Tasks :
              /\ \A u \in Tasks \ {t} : StatusOf(u)' = StatusOf(u) /\ FailuresOf(u)' = FailuresOf(u)
              /\ Moves(t, StatusOf(t), FailuresOf(t), StatusOf(t)', FailuresOf(t)')
              /\ StatusOf(t)' = "active" => \A u \in Tasks : StatusOf(u) # "active"
  <1> DEFINE status == [t \in Tasks |-> StatusOf(t)]
             failures == [t \in Tasks |-> FailuresOf(t)]
  <1>1. \A t \in Tasks : /\ status[t] = StatusOf(t) /\ status'[t] = StatusOf(t)'
                         /\ failures[t] = FailuresOf(t) /\ failures'[t] = FailuresOf(t)'
    OBVIOUS
  <1>2. DOMAIN status = Tasks /\ DOMAIN failures = Tasks
    OBVIOUS
  <1>3. [\E t \in Tasks : Promise!Submit(t) \/ Promise!Begin(t) \/ Promise!Finish(t)
                          \/ Promise!Retry(t) \/ Promise!GiveUp(t)]_<<status, failures>>
    BY DEF Promise!Next, Promise!vars
  <1>4. CASE UNCHANGED <<status, failures>>
    BY <1>1, <1>4
  <1>5. ASSUME NEW t \in Tasks,
               Promise!Submit(t) \/ Promise!Begin(t) \/ Promise!Finish(t) \/ Promise!Retry(t) \/ Promise!GiveUp(t)
        PROVE  /\ \A u \in Tasks \ {t} : StatusOf(u)' = StatusOf(u) /\ FailuresOf(u)' = FailuresOf(u)
               /\ Moves(t, StatusOf(t), FailuresOf(t), StatusOf(t)', FailuresOf(t)')
               /\ StatusOf(t)' = "active" => \A u \in Tasks : StatusOf(u) # "active"
    <2>1. ASSUME NEW before, NEW after, Promise!Become(t, before, after)
          PROVE  /\ \A u \in Tasks \ {t} : StatusOf(u)' = StatusOf(u)
                 /\ StatusOf(t) = before /\ StatusOf(t)' = after
      <3>1. status[t] = before /\ status' = [status EXCEPT ![t] = after]
        BY <2>1 DEF Promise!Become
      <3>2. status'[t] = after /\ \A u \in Tasks \ {t} : status'[u] = status[u]
        BY <1>2, <3>1
      <3> QED
        BY <1>1, <3>1, <3>2
    <2>2. CASE Promise!Submit(t) \/ Promise!Begin(t) \/ Promise!Finish(t) \/ Promise!GiveUp(t)
      <3>1. failures' = failures
        BY <2>2 DEF Promise!Submit, Promise!Begin, Promise!Finish, Promise!GiveUp
      <3>2. \A u \in Tasks : FailuresOf(u)' = FailuresOf(u)
        BY <1>1, <3>1
      <3>3. CASE Promise!Submit(t)
        BY <2>1, <3>2, <3>3 DEF Promise!Submit, Moves
      <3>4. CASE Promise!Begin(t)
        <4>1. \A u \in Tasks : status[u] # "active"
          BY <3>4 DEF Promise!Begin
        <4>2. \A u \in Tasks : StatusOf(u) # "active"
          BY <1>1, <4>1
        <4> QED
          BY <2>1, <3>2, <3>4, <4>2 DEF Promise!Begin, Moves
      <3>5. CASE Promise!Finish(t)
        BY <2>1, <3>2, <3>5 DEF Promise!Finish, Moves
      <3>6. CASE Promise!GiveUp(t)
        <4>1. failures[t] = MaxRetries
          BY <3>6 DEF Promise!GiveUp
        <4>2. FailuresOf(t) = MaxRetries
          BY <1>1, <4>1
        <4> QED
          BY <2>1, <3>2, <3>6, <4>2 DEF Promise!GiveUp, Moves
      <3> QED
        BY <2>2, <3>3, <3>4, <3>5, <3>6
    <2>3. CASE Promise!Retry(t)
      <3>1. failures[t] < MaxRetries /\ failures' = [failures EXCEPT ![t] = failures[t] + 1]
        BY <2>3 DEF Promise!Retry
      <3>2. failures'[t] = failures[t] + 1 /\ \A u \in Tasks \ {t} : failures'[u] = failures[u]
        BY <1>2, <3>1
      <3>3. /\ FailuresOf(t) < MaxRetries /\ FailuresOf(t)' = FailuresOf(t) + 1
            /\ \A u \in Tasks \ {t} : FailuresOf(u)' = FailuresOf(u)
        BY <1>1, <3>1, <3>2
      <3> QED
        BY <2>1, <2>3, <3>3 DEF Promise!Retry, Moves
    <2> QED
      BY <1>5, <2>2, <2>3
  <1> QED
    BY <1>3, <1>4, <1>5

(* Whoever has queued a task: no other one is run beside it, it is only    *)
(* given up after its last repetition, and only a verification is done.    *)
THEOREM TasksAreAccountedFor == Spec => []Promise!Account
  <1> DEFINE Account ==
        /\ \A t, u \in Tasks : StatusOf(t) = "active" /\ StatusOf(u) = "active" => t = u
        /\ \A t \in Tasks : /\ StatusOf(t) = "dropped" => FailuresOf(t) = MaxRetries
                            /\ StatusOf(t) = "done" => t \in VerifyTasks
  <1>1. Account => Promise!Account
    BY DEF Promise!Account
  <1>2. Init => Account
    BY DEF Init, StatusOf
  <1>3. ASSUME Account, [Promise!Next]_(Promise!vars)
        PROVE  Account'
    <2>1. CASE \A t \in Tasks : StatusOf(t)' = StatusOf(t) /\ FailuresOf(t)' = FailuresOf(t)
      BY <1>3, <2>1
    <2>2. ASSUME NEW t \in Tasks,
                 \A u \in Tasks \ {t} : StatusOf(u)' = StatusOf(u) /\ FailuresOf(u)' = FailuresOf(u),
                 Moves(t, StatusOf(t), FailuresOf(t), StatusOf(t)', FailuresOf(t)'),
                 StatusOf(t)' = "active" => \A u \in Tasks : StatusOf(u) # "active"
          PROVE  Account'
      BY <1>3, <2>2 DEF Moves
    <2> QED
      BY <1>3, <2>1, <2>2, OneTaskMoves
  <1>4. Account /\ [Promise!Next]_(Promise!vars) => Account'
    BY <1>3
  <1> HIDE DEF Account
  <1> QED
    BY <1>1, <1>2, <1>4, WorkerImplementsRetryQueue, PTL DEF Spec, ImplementsRetryQueue, Promise!Spec

(* What has ended has ended: no interleaving of callers, worker and owner  *)
(* brings a task back or begins to count anew.                             *)
THEOREM EndsAreFinal == Spec => Promise!EndIsFinal
  <1> DEFINE status == [t \in Tasks |-> StatusOf(t)]
             failures == [t \in Tasks |-> FailuresOf(t)]
  <1>1. [Promise!Next]_(Promise!vars)
          => [\A t \in Tasks : status[t] \in {"done", "dropped"} =>
                 status'[t] = status[t] /\ failures'[t] = failures[t]]_(Promise!vars)
    BY OneTaskMoves DEF Moves
  <1> QED
    BY <1>1, WorkerImplementsRetryQueue, PTL DEF ImplementsRetryQueue, Promise!Spec, Promise!EndIsFinal

-----------------------------------------------------------------------------
(* The end of a stop.  The steps that fairness is assumed of are taken     *)
(* where they can be; that they can be is NeverStuck.                      *)

\* Where the worker goes on to once running_ is clear: it goes round
\* once more at most, if it is past its look at running_.
Homewards == [process |-> {"requeue", "loop"}, requeue |-> {"loop"}, loop |-> {"absent"},
              blocking |-> {"waiting"}, waiting |-> {"expired", "lock"}, expired |-> {"check"},
              lock |-> {"check"}, check |-> {"absent"}, choose |-> {"loop", "process"}]

\* stop() in its join, with the worker at that place.
Joining(place) == owner = "joining" /\ worker = place

(* A worker that goes on goes somewhere else.                              *)
LEMMA WorkerLeaves ==
  ASSUME WorkerProgress
  PROVE  worker' # worker
  BY DEF WorkerProgress, LoopTest, AcquireAndTest, Block, Timeout, Reacquire, CheckStopped, CheckRunning, CheckEmpty,
         CheckClosed, TakeTask, Succeed, Fail, GiveUp, Requeue, Goto

(* It goes home, whoever calls a queue function meanwhile.                 *)
LEMMA JoiningStep ==
  ASSUME TypeOK, StopInv, [Next]_vars, NEW place \in WorkerStates \ {"absent"}, Joining(place)
  PROVE  /\ Joining(place)' \/ \E next \in Homewards[place] : Joining(next)'
         /\ WorkerProgress => ~Joining(place)'
  <1> USE DEF Joining
  <1>1. ~running /\ place \in DOMAIN Homewards
    BY DEF StopInv, Homewards, WorkerStates
  <1>2. CASE UNCHANGED vars \/ ClockTick \/ \E t \in Tasks : Enqueue(t)
    <2>1. /\ owner' = owner
          /\ worker' = worker \/ (worker = "waiting" /\ worker' = "lock")
      BY <1>2 DEF vars, ClockTick, Enqueue, Notified
    <2> QED
      BY <2>1, WorkerLeaves DEF Homewards
  <1>3. CASE WorkerProgress \/ SpuriousWakeup
    <2>1. owner' = owner /\ ~CheckRunning
      BY <1>1, <1>3 DEF WorkerProgress, SpuriousWakeup, LoopTest, AcquireAndTest, Block, Timeout, Reacquire,
         CheckStopped, CheckRunning, CheckEmpty, CheckClosed, TakeTask, Succeed, Fail, GiveUp, Requeue, Goto
    <2>2. CASE LoopTest \/ AcquireAndTest \/ Block \/ Timeout \/ Reacquire \/ CheckStopped
            \/ CheckEmpty \/ CheckClosed \/ SpuriousWakeup
      BY <1>1, <2>1, <2>2 DEF SpuriousWakeup, LoopTest, AcquireAndTest, Block, Timeout, Reacquire,
         CheckStopped, CheckEmpty, CheckClosed, Goto, Homewards
    <2>3. CASE TakeTask \/ Succeed \/ Fail \/ GiveUp \/ Requeue
      <3>1. \/ worker = "process" /\ worker' \in {"requeue", "loop"}
            \/ worker = "requeue" /\ worker' = "loop"
            \/ worker = "choose" /\ worker' = "process"
        BY <2>3 DEF TakeTask, Succeed, Fail, GiveUp, Requeue
      <3> QED
        BY <2>1, <3>1 DEF Homewards
    <2> QED
      BY <1>3, <2>1, <2>2, <2>3, WorkerLeaves DEF WorkerProgress
  <1>4. ~OwnerStep
    BY DEF OwnerStep, Start, StartThrows, StopClear, StopNotify, StopJoin, Joinable, WorkerStates
  <1> QED
    BY <1>2, <1>3, <1>4 DEF Next

(* stop() tells the worker, joins it when it has gone, and returns.        *)
LEMMA StopStep ==
  ASSUME TypeOK, [Next]_vars
  PROVE  /\ owner = "notifying" =>
              owner' = "notifying" \/ (owner' = "joining" /\ worker' \in WorkerStates)
         /\ Joining("absent") => (Joining("absent") \/ owner = "idle")'
  <1>1. worker' \in WorkerStates
    BY TypeStep DEF TypeOK
  <1>2. owner # "idle" => \/ StopNotify \/ StopJoin
                          \/ owner' = owner /\ (worker = "absent" => worker' = "absent")
    BY DEF Next, vars, OwnerStep, Start, StartThrows, StopClear, Enqueue, Notified, SpuriousWakeup,
       ClockTick, WorkerProgress, LoopTest, AcquireAndTest, Block, Timeout, Reacquire,
       CheckStopped, CheckRunning, CheckEmpty, CheckClosed, TakeTask, Succeed, Fail, GiveUp, Requeue, Goto
  <1> QED
    BY <1>1, <1>2 DEF StopNotify, StopJoin, Joining

(* stop() returns, although its notification may reach nobody.             *)
THEOREM StopTerminatesHolds == FairSpec /\ []NeverStuck => StopTerminates
  <1> DEFINE Notifying == owner = "notifying"
             Idle == owner = "idle"
  <1>1. TypeOK /\ [Next]_vars =>
          /\ Notifying => (Notifying \/ Joining("process") \/ Joining("requeue") \/ Joining("loop")
                           \/ Joining("blocking") \/ Joining("waiting") \/ Joining("expired")
                           \/ Joining("lock") \/ Joining("check") \/ Joining("choose") \/ Joining("absent"))'
          /\ Joining("absent") => (Joining("absent") \/ Idle)'
    BY StopStep DEF Joining, WorkerStates
  <1>2. TypeOK /\ StopInv /\ [Next]_vars =>
          /\ Joining("process") => (Joining("process") \/ Joining("requeue") \/ Joining("loop"))'
          /\ Joining("requeue") => (Joining("requeue") \/ Joining("loop"))'
          /\ Joining("loop") => (Joining("loop") \/ Joining("absent"))'
          /\ Joining("blocking") => (Joining("blocking") \/ Joining("waiting"))'
          /\ Joining("waiting") => (Joining("waiting") \/ Joining("expired") \/ Joining("lock"))'
          /\ Joining("expired") => (Joining("expired") \/ Joining("check"))'
          /\ Joining("lock") => (Joining("lock") \/ Joining("check"))'
          /\ Joining("check") => (Joining("check") \/ Joining("absent"))'
          /\ Joining("choose") => (Joining("choose") \/ Joining("loop") \/ Joining("process"))'
    BY JoiningStep DEF Homewards, WorkerStates
  <1>3. TypeOK /\ StopInv /\ [Next]_vars /\ <<WorkerProgress>>_vars =>
          /\ Joining("process") => ~Joining("process")'
          /\ Joining("requeue") => ~Joining("requeue")'
          /\ Joining("loop") => ~Joining("loop")'
          /\ Joining("blocking") => ~Joining("blocking")'
          /\ Joining("waiting") => ~Joining("waiting")'
          /\ Joining("expired") => ~Joining("expired")'
          /\ Joining("lock") => ~Joining("lock")'
          /\ Joining("check") => ~Joining("check")'
          /\ Joining("choose") => ~Joining("choose")'
    BY JoiningStep DEF WorkerStates
  <1>4. /\ <<StopNotify>>_vars => ~Notifying'
        /\ <<StopJoin>>_vars => Idle'
    BY DEF StopNotify, StopJoin
  <1>5. NeverStuck =>
          /\ Notifying => ENABLED <<StopNotify>>_vars
          /\ Joining("absent") => ENABLED <<StopJoin>>_vars
          /\ Joining("process") \/ Joining("requeue") \/ Joining("loop") \/ Joining("blocking")
               \/ Joining("waiting") \/ Joining("expired") \/ Joining("lock") \/ Joining("check")
               \/ Joining("choose") => ENABLED <<WorkerProgress>>_vars
    BY DEF NeverStuck, Joining
  <1>6. TypeOK => (~Idle => Notifying \/ Joining("process") \/ Joining("requeue") \/ Joining("loop")
                           \/ Joining("blocking") \/ Joining("waiting") \/ Joining("expired")
                           \/ Joining("lock") \/ Joining("check") \/ Joining("choose") \/ Joining("absent"))
    BY DEF TypeOK, OwnerStates, WorkerStates, Joining
  <1>7. StopTerminates <=> (~Idle ~> Idle)
    <2>1. owner # "idle" <=> ~Idle
      OBVIOUS
    <2> QED
      BY <2>1, PTL DEF StopTerminates
  <1> HIDE DEF Notifying, Idle
  <1> QED
    BY <1>1, <1>2, <1>3, <1>4, <1>5, <1>6, <1>7, TypeCorrect, StopInvHolds, PTL DEF FairSpec, Spec

-----------------------------------------------------------------------------
(* What EventuallySettled rests on, but for the induction over the length   *)
(* of the queue: the line moves on, and every run uses up one repetition.  *)

\* Task t is the i-th in the queue.
Ahead(t, i) == i \in 1..Len(queue) /\ queue[i].id = t

\* It has moved on: to the place before, or from the front to its run.
MovedOn(t, i) == IF i = 1 THEN worker = "process" /\ hand.id = t ELSE Ahead(t, i - 1)

\* Where the worker goes on to while it runs, the window is open and the
\* queue is not empty.
Onwards == [process |-> {"requeue", "loop"}, requeue |-> {"loop"}, loop |-> {"lock"},
            lock |-> {"check"}, expired |-> {"check"}, check |-> {"choose"}, choose |-> {}]

InLine(t, i, place) == Ahead(t, i) /\ worker = place

Working == running /\ windowOpen

(* While the worker works, a queued task keeps its place, whoever is queued *)
(* behind it, until the front is taken and everybody moves on by one.      *)
LEMMA LineStep ==
  ASSUME TypeOK, NoLostTaskWakeup, Working, Working', [Next]_vars,
         NEW t \in Tasks, NEW i \in Nat \ {0}, NEW place \in WorkerStates \ {"absent"},
         InLine(t, i, place)
  PROVE  /\ place \in DOMAIN Onwards
         /\ InLine(t, i, place)' \/ MovedOn(t, i)' \/ \E next \in Onwards[place] : InLine(t, i, next)'
         /\ WorkerProgress => ~InLine(t, i, place)'
  <1>1. queue \in Seq(Entry) /\ queue # <<>> /\ Len(queue) \in Nat /\ worker = place
    <2>1. queue \in Seq(Entry) /\ worker = place /\ i \in 1..Len(queue)
      BY DEF TypeOK, InLine, Ahead
    <2> QED
      BY <2>1, EmptySeq, LenProperties
  <1>2. place \in DOMAIN Onwards
    BY <1>1 DEF NoLostTaskWakeup, Onwards, WorkerStates
  <1>3. WorkerProgress => ~InLine(t, i, place)'
    BY <1>1, WorkerLeaves DEF InLine
  <1>4. \A e \in Entry : queue' = queue \/ queue' = Append(queue, e) => Ahead(t, i)'
    BY <1>1, PushEntry DEF InLine, Ahead
  <1>5. CASE UNCHANGED vars \/ StopNotify \/ \E u \in Tasks : Enqueue(u)
    <2>1. worker' = worker
      BY <1>1, <1>2, <1>5 DEF vars, StopNotify, Enqueue, Notified, Onwards
    <2>2. Ahead(t, i)'
      <3>1. CASE queue' = queue
        BY <3>1 DEF InLine, Ahead
      <3>2. CASE \E u \in Tasks : Enqueue(u)
        BY <1>4, <3>2 DEF Enqueue, Entry, MaxRetries
      <3> QED
        BY <1>5, <3>1, <3>2 DEF vars, StopNotify
    <2> QED
      BY <1>1, <1>2, <1>3, <2>1, <2>2 DEF InLine
  <1>6. CASE Move
    <2>1. Ahead(t, i)'
      BY <1>6, MoveKeepsData DEF InLine, Ahead
    <2>2. worker' \in Onwards[place]
      BY <1>1, <1>2, <1>6 DEF Move, LoopTest, AcquireAndTest, Block, Timeout, Reacquire, CheckStopped,
         CheckRunning, CheckEmpty, CheckClosed, SpuriousWakeup, Goto, Onwards, Working
    <2> QED
      BY <1>2, <1>3, <2>1, <2>2 DEF InLine
  <1>7. CASE TakeTask
    <2>1. /\ Head(queue) = queue[1]
          /\ Len(queue') = Len(queue) - 1
          /\ \A j \in 1..Len(queue') : queue'[j] = queue[j + 1]
      BY <1>1, <1>7, PopEntry DEF TakeTask, Popped
    <2>2. CASE i = 1
      BY <1>2, <1>3, <1>7, <2>1, <2>2 DEF TakeTask, MovedOn, InLine, Ahead
    <2>3. CASE i # 1
      <3>1. i - 1 \in 1..Len(queue') /\ queue'[i - 1] = queue[i]
        BY <1>1, <2>1, <2>3 DEF InLine, Ahead
      <3> QED
        BY <1>2, <1>3, <2>3, <3>1 DEF MovedOn, InLine, Ahead
    <2> QED
      BY <2>2, <2>3
  <1>8. CASE Succeed \/ Fail \/ GiveUp \/ Requeue
    <2>1. worker' \in Onwards[place]
      <3>1. \/ worker = "process" /\ worker' \in {"requeue", "loop"}
            \/ worker = "requeue" /\ worker' = "loop"
        BY <1>8 DEF Succeed, Fail, GiveUp, Requeue
      <3> QED
        BY <1>1, <3>1 DEF Onwards
    <2>2. Ahead(t, i)'
      <3>1. CASE queue' = queue
        BY <3>1 DEF InLine, Ahead
      <3>2. CASE Requeue
        BY <1>4, <3>2 DEF Requeue, TypeOK
      <3> QED
        BY <1>8, <3>1, <3>2 DEF Succeed, Fail, GiveUp
    <2> QED
      BY <1>2, <1>3, <2>1, <2>2 DEF InLine
  <1>9. ~Start /\ ~StartThrows /\ ~StopClear /\ ~StopJoin /\ ~ClockTick
    BY <1>1 DEF Start, StartThrows, StopClear, StopJoin, Joinable, ClockTick, Working
  <1> QED
    BY <1>5, <1>6, <1>7, <1>8, <1>9, NextCases

(* While the worker runs and the window stays open, every queued task moves *)
(* on: the first is run, and every other one gets to the place before its  *)
(* own, whatever is queued and pushed back meanwhile.                      *)
THEOREM LineMovesOn ==
  FairSpec /\ []NeverStuck =>
    \A t \in Tasks : \A i \in Nat \ {0} :
      []((Ahead(t, i) /\ worker # "absent" /\ []Working) => <>MovedOn(t, i))
  <1> SUFFICES ASSUME NEW t \in Tasks, NEW i \in Nat \ {0}
               PROVE  FairSpec /\ []NeverStuck =>
                        []((Ahead(t, i) /\ worker # "absent" /\ []Working) => <>MovedOn(t, i))
    OBVIOUS
  <1> DEFINE In(place) == InLine(t, i, place)
             Goal == MovedOn(t, i)
             Queued == Ahead(t, i) /\ worker # "absent"
  <1>1. TypeOK /\ NoLostTaskWakeup /\ Working /\ Working' /\ [Next]_vars =>
          /\ In("process") => (In("process") \/ In("requeue") \/ In("loop") \/ Goal)'
          /\ In("requeue") => (In("requeue") \/ In("loop") \/ Goal)'
          /\ In("loop") => (In("loop") \/ In("lock") \/ Goal)'
          /\ In("expired") => (In("expired") \/ In("check") \/ Goal)'
          /\ In("lock") => (In("lock") \/ In("check") \/ Goal)'
          /\ In("check") => (In("check") \/ In("choose") \/ Goal)'
          /\ In("choose") => (In("choose") \/ Goal)'
    BY LineStep DEF Onwards, WorkerStates
  <1>2. TypeOK /\ NoLostTaskWakeup /\ Working /\ Working' /\ [Next]_vars /\ <<WorkerProgress>>_vars =>
          /\ In("process") => ~In("process")'
          /\ In("requeue") => ~In("requeue")'
          /\ In("loop") => ~In("loop")'
          /\ In("expired") => ~In("expired")'
          /\ In("lock") => ~In("lock")'
          /\ In("check") => ~In("check")'
          /\ In("choose") => ~In("choose")'
    BY LineStep DEF WorkerStates
  <1>3. NeverStuck =>
          (In("process") \/ In("requeue") \/ In("loop") \/ In("expired") \/ In("lock") \/ In("check")
             \/ In("choose") => ENABLED <<WorkerProgress>>_vars)
    BY DEF NeverStuck, InLine
  <1>4. TypeOK /\ NoLostTaskWakeup =>
          (Queued => \/ In("process") \/ In("requeue") \/ In("loop") \/ In("expired") \/ In("lock")
                     \/ In("check") \/ In("choose"))
    <2> SUFFICES ASSUME TypeOK, NoLostTaskWakeup, Queued
                 PROVE  worker \in {"process", "requeue", "loop", "expired", "lock", "check", "choose"}
      BY DEF InLine
    <2>1. queue # <<>>
      BY EmptySeq, LenProperties DEF TypeOK, Ahead
    <2> QED
      BY <2>1 DEF TypeOK, WorkerStates, NoLostTaskWakeup
  <1>5. Ahead(t, i) /\ worker # "absent" <=> Queued
    OBVIOUS
  <1> HIDE DEF In, Goal, Queued
  <1>6. FairSpec /\ []NeverStuck => []((Queued /\ []Working) => <>Goal)
    BY <1>1, <1>2, <1>3, <1>4, TypeCorrect, NoLostTaskWakeupHolds, PTL DEF FairSpec, Spec
  <1> QED
    BY <1>6, PTL DEF Queued, Goal

\* Task t is in the worker's hand, there, and has been run k times.
Held(t, k, place) == worker = place /\ hand.id = t /\ attempts[t] = k

\* It ended in its run number k + 1, or is in the queue for another one.
RunOver(t, k) ==
    \/ Ended(t)
    \/ k < MaxRetries /\ attempts[t] = k + 1 /\ \E i \in Nat \ {0} : Ahead(t, i)

(* A run is over when processTask() has returned and the task was pushed   *)
(* back; nobody else touches the task meanwhile.                           *)
LEMMA RunStep ==
  ASSUME TypeOK, StopInv, CountInv, [Next]_vars, NEW t \in Tasks, NEW k \in Nat
  PROVE  /\ Held(t, k, "process") =>
              \/ Held(t, k, "process")'
              \/ Held(t, k + 1, "requeue")' /\ k < MaxRetries
              \/ RunOver(t, k)'
         /\ Held(t, k + 1, "requeue") /\ k < MaxRetries => (Held(t, k + 1, "requeue") \/ RunOver(t, k))'
  <1> SUFFICES ASSUME \/ Held(t, k, "process")
                      \/ Held(t, k + 1, "requeue") /\ k < MaxRetries
               PROVE  \/ Held(t, k, "process") /\ Held(t, k, "process")'
                      \/ Held(t, k, "process") /\ Held(t, k + 1, "requeue")' /\ k < MaxRetries
                      \/ RunOver(t, k)'
                      \/ Held(t, k + 1, "requeue") /\ Held(t, k + 1, "requeue")'
    BY DEF Held
  <1>1. /\ worker \in {"process", "requeue"} /\ hand.id = t
        /\ hand \in Entry /\ hand.retry = attempts[t]
    BY DEF Held, TypeOK, CountInv, RetryBudget
  <1>2. CASE UNCHANGED vars \/ ClockTick \/ (OwnerStep /\ ~Start) \/ \E u \in Tasks : Enqueue(u)
    <2>1. /\ worker' = worker /\ hand' = hand /\ attempts' = attempts
      BY <1>1, <1>2 DEF vars, history, ClockTick, OwnerStep, StartThrows, StopClear, StopNotify,
         StopJoin, Enqueue, Notified
    <2> QED
      BY <2>1 DEF Held
  <1>3. CASE Succeed \/ GiveUp
    <2>1. hand.id \in done' \cup dropped'
      BY <1>3 DEF Succeed, GiveUp
    <2> QED
      BY <1>1, <2>1 DEF RunOver, Ended
  <1>4. CASE Fail
    <2>1. attempts'[t] = attempts[t] + 1 /\ hand'.id = t /\ attempts[t] < MaxRetries
      BY <1>1, <1>4 DEF Fail, Counted, Retried, MayRetry, TypeOK, Entry
    <2> QED
      BY <1>4, <2>1 DEF Held, Fail
  <1>5. CASE Requeue
    <2>1. /\ Len(queue) \in Nat /\ Len(queue') = Len(queue) + 1
          /\ queue'[Len(queue) + 1] = hand
      BY <1>1, <1>5, PushEntry DEF Requeue, TypeOK
    <2>2. attempts' = attempts /\ worker = "requeue"
      BY <1>5 DEF Requeue, history
    <2>3. \E i \in Nat \ {0} : Ahead(t, i)'
      BY <1>1, <2>1 DEF Ahead
    <2> QED
      BY <2>2, <2>3 DEF Held, RunOver
  <1>6. ~Move /\ ~TakeTask /\ ~Start
    BY <1>1, MoveKeepsData DEF TakeTask, Start, StopInv, NoWorkerAfterStop
  <1> QED
    BY <1>2, <1>3, <1>4, <1>5, <1>6, NextCases DEF OwnerStep

(* Every run comes to its end, whatever stop(), the callers and the clock  *)
(* do: the task has ended, or it is queued with one repetition less left.  *)
THEOREM RunsEnd ==
  FairSpec /\ []NeverStuck =>
    \A t \in Tasks : \A k \in Nat : Held(t, k, "process") ~> RunOver(t, k)
  <1> SUFFICES ASSUME NEW t \in Tasks, NEW k \in Nat
               PROVE  FairSpec /\ []NeverStuck => (Held(t, k, "process") ~> RunOver(t, k))
    OBVIOUS
  <1> DEFINE Running == Held(t, k, "process")
             Pushing == Held(t, k + 1, "requeue") /\ k < MaxRetries
             Goal == RunOver(t, k)
  <1>1. TypeOK /\ StopInv /\ CountInv /\ [Next]_vars =>
          /\ Running => (Running \/ Pushing \/ Goal)'
          /\ Pushing => (Pushing \/ Goal)'
    BY RunStep DEF MaxRetries
  <1>2. <<WorkerProgress>>_vars => (Running => ~Running') /\ (Pushing => ~Pushing')
    BY WorkerLeaves DEF Held
  <1>3. NeverStuck => (Running \/ Pushing => ENABLED <<WorkerProgress>>_vars)
    BY DEF NeverStuck, Held
  <1> HIDE DEF Running, Pushing, Goal
  <1>4. FairSpec /\ []NeverStuck => (Running ~> Goal)
    BY <1>1, <1>2, <1>3, TypeCorrect, StopInvHolds, CountHolds, PTL DEF FairSpec, Spec
  <1> QED
    BY <1>4, PTL DEF Running, Goal
=============================================================================
