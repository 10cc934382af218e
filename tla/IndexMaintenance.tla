-------------------------- MODULE IndexMaintenance --------------------------
(***************************************************************************)
(* The background maintenance worker of src/src/IndexMaintenance.cpp: one  *)
(* owner thread (main or serviceMain) that calls start() and stop(), any   *)
(* number of threads that call queueReindex() and queueVerify(), and the   *)
(* worker thread itself.  A step is one access to what they share: the     *)
(* atomic running_, the queue under queue_mutex_, the condition variable   *)
(* queue_cv_.                                                              *)
(*                                                                         *)
(* Abstractions: a task is a model value and stands for one call of a      *)
(* queue function; the clock is reduced to the one bit that                *)
(* isInMaintenanceWindow() makes of it (MaintenanceWindow computes it);    *)
(* scheduled_time is left out because the code writes it and never reads   *)
(* it.                                                                     *)
(***************************************************************************)
EXTENDS Integers, Sequences

CONSTANTS
    ReindexTasks,   \* tasks queueReindex() may be called with
    VerifyTasks,    \* tasks queueVerify() may be called with
    NoTask,         \* the worker's local task before it first pops one
    SpawnMayFail,   \* may std::thread's constructor throw?
    MaxStarts       \* bound on the calls of start() (for TLC; not in the code)

Tasks == ReindexTasks \cup VerifyTasks

ASSUME TaskAssumption == NoTask \notin Tasks /\ ReindexTasks \cap VerifyTasks = {}
ASSUME SwitchAssumption == SpawnMayFail \in BOOLEAN /\ MaxStarts \in Nat

VARIABLES
    running,        \* running_
    owner,          \* where the owner's call of stop() is
    worker,         \* where the worker thread is
    queue,          \* task_queue_
    hand,           \* the worker's local task, with its retry_count
    windowOpen,     \* what isInMaintenanceWindow() returns now
    starts,         \* calls of start() that were made (bounded)
    submitted,      \* history: tasks that were queued
    attempts,       \* history: runs of processTask() per task
    done,           \* history: tasks whose run succeeded
    dropped         \* history: tasks given up with the error log of line 131

vars == <<running, owner, worker, queue, hand, windowOpen, starts,
          submitted, attempts, done, dropped>>
history == <<submitted, attempts, done, dropped>>

MaxRetries == 3     \* the literal of line 121

Entry == [id : Tasks, retry : 0..MaxRetries]

WorkerStates ==
    {"absent",      \* no thread, or its function has returned
     "loop",        \* about to test running_ in the while condition
     "lock",        \* about to take queue_mutex_ and evaluate the predicate
     "blocking",    \* predicate false, mutex held, not yet in the wait set
     "waiting",     \* blocked in wait_for, mutex released
     "expired",     \* wait_for timed out, mutex not yet retaken
     "check",       \* past wait_for, mutex held: about to test running_
     "choose",      \* past that test, mutex held
     "process",     \* task popped, mutex released
     "requeue"}     \* the run failed and the task is to be pushed back

OwnerStates == {"idle", "notifying", "joining"}

TypeOK ==
    /\ running \in BOOLEAN
    /\ owner \in OwnerStates
    /\ worker \in WorkerStates
    /\ queue \in Seq(Entry)
    /\ hand \in [id : Tasks \cup {NoTask}, retry : 0..MaxRetries]
    /\ worker \in {"process", "requeue"} => hand \in Entry
    /\ windowOpen \in BOOLEAN
    /\ starts \in Nat
    /\ submitted \subseteq Tasks
    /\ attempts \in [Tasks -> Nat]
    /\ done \subseteq Tasks
    /\ dropped \subseteq Tasks

Init ==
    /\ running = FALSE
    /\ owner = "idle"
    /\ worker = "absent"
    /\ queue = <<>>
    /\ hand = [id |-> NoTask, retry |-> 0]
    /\ windowOpen \in BOOLEAN
    /\ starts = 0
    /\ submitted = {}
    /\ attempts = [t \in Tasks |-> 0]
    /\ done = {}
    /\ dropped = {}

-----------------------------------------------------------------------------
(* The owner.  A call of start() while running_ is set, and a call of      *)
(* stop() while it is not, return at once and are stuttering steps.        *)

Start ==
    /\ owner = "idle" /\ ~running /\ starts < MaxStarts
    /\ running' = TRUE
    /\ worker' = "loop"
    /\ starts' = starts + 1
    /\ UNCHANGED <<owner, queue, hand, windowOpen, history>>

\* make_unique<std::thread> throws after running_ was set: start() leaves with
\* the exception, running_ stays set and there is no worker.
StartThrows ==
    /\ SpawnMayFail
    /\ owner = "idle" /\ ~running /\ starts < MaxStarts
    /\ running' = TRUE
    /\ starts' = starts + 1
    /\ UNCHANGED <<owner, worker, queue, hand, windowOpen, history>>

\* stop() clears running_ without the mutex ...
StopClear ==
    /\ owner = "idle" /\ running
    /\ running' = FALSE
    /\ owner' = "notifying"
    /\ UNCHANGED <<worker, queue, hand, windowOpen, starts, history>>

\* A notification reaches only a thread that is in the wait set already.
Notified == IF worker = "waiting" THEN "lock" ELSE worker

\* ... notifies without the mutex too ...
StopNotify ==
    /\ owner = "notifying"
    /\ owner' = "joining"
    /\ worker' = Notified
    /\ UNCHANGED <<running, queue, hand, windowOpen, starts, history>>

JoinForgotten == TRUE                       \* a mutation of Joinable
Joinable == worker = "absent"

\* ... and joins the worker.
StopJoin ==
    /\ owner = "joining" /\ Joinable
    /\ owner' = "idle"
    /\ UNCHANGED <<running, worker, queue, hand, windowOpen, starts, history>>

-----------------------------------------------------------------------------
(* The callers.                                                            *)

MutexForgotten == TRUE                      \* a mutation of MutexFree
\* Only the worker keeps the mutex from one step to the next.
MutexFree == worker \notin {"blocking", "check", "choose"}

\* queueReindex(t) or queueVerify(t): push and notify_one under the mutex.
Enqueue(t) ==
    /\ MutexFree
    /\ t \notin submitted
    /\ queue' = Append(queue, [id |-> t, retry |-> 0])
    /\ worker' = Notified
    /\ submitted' = submitted \cup {t}
    /\ UNCHANGED <<running, owner, hand, windowOpen, starts, attempts, done, dropped>>

-----------------------------------------------------------------------------
(* The worker: one action per step of workerLoop().                        *)

Goto(from, to) ==
    /\ worker = from
    /\ worker' = to
    /\ UNCHANGED <<running, owner, queue, hand, windowOpen, starts, history>>

LoopTest == Goto("loop", IF running THEN "lock" ELSE "absent")

\* Take the mutex (at the top of the loop, or again after a wake-up) and
\* evaluate the predicate of wait_for.
AcquireAndTest == Goto("lock", IF queue # <<>> \/ ~running THEN "check" ELSE "blocking")

Block == Goto("blocking", "waiting")

UntimedWait == FALSE                        \* a mutation of Timeout
Timeout == Goto("waiting", "expired")       \* the 60 seconds are over

SpuriousWakeup == Goto("waiting", "lock")

Reacquire == Goto("expired", "check")       \* a timed-out wait_for returns in any case

CheckStopped == ~running /\ Goto("check", "absent")

\* The last look at running_ before a task is taken: stop(), which has no need
\* of the mutex, may clear it from here on.
CheckRunning == running /\ Goto("check", "choose")

CheckEmpty == queue = <<>> /\ Goto("choose", "loop")

\* A mutation of CheckClosed: the answer of isInMaintenanceWindow() is not used.
WindowIgnored == queue # <<>> /\ Goto("choose", "loop")

\* Outside the window the worker goes round the loop with the queue non-empty.
CheckClosed == queue # <<>> /\ ~windowOpen /\ Goto("choose", "loop")

PopForgotten == queue                       \* a mutation of Popped
Popped == Tail(queue)

TakeTask ==
    /\ worker = "choose" /\ queue # <<>> /\ windowOpen
    /\ hand' = Head(queue)
    /\ queue' = Popped
    /\ worker' = "process"
    /\ UNCHANGED <<running, owner, windowOpen, starts, history>>

\* What processTask() may return: DatabaseManager::reindex() sets success to
\* FALSE and has no path that sets it to TRUE; getIndexStatus() returns TRUE
\* unless an exception (out of memory) leaves it.
Outcomes(t) == IF t \in ReindexTasks THEN {FALSE} ELSE {TRUE, FALSE}

OneRetryMore(e) == e.retry <= MaxRetries    \* a mutation of MayRetry
MayRetry(e) == e.retry < MaxRetries

CountForgotten(e) == e                      \* a mutation of Retried
Retried(e) == [e EXCEPT !.retry = @ + 1]

Counted == attempts' = [attempts EXCEPT ![hand.id] = @ + 1]

Succeed ==
    /\ worker = "process" /\ TRUE \in Outcomes(hand.id)
    /\ Counted
    /\ done' = done \cup {hand.id}
    /\ worker' = "loop"
    /\ UNCHANGED <<running, owner, queue, hand, windowOpen, starts, submitted, dropped>>

Fail ==
    /\ worker = "process" /\ FALSE \in Outcomes(hand.id) /\ MayRetry(hand)
    /\ Counted
    /\ hand' = Retried(hand)
    /\ worker' = "requeue"
    /\ UNCHANGED <<running, owner, queue, windowOpen, starts, submitted, done, dropped>>

GiveUp ==
    /\ worker = "process" /\ FALSE \in Outcomes(hand.id) /\ ~MayRetry(hand)
    /\ Counted
    /\ dropped' = dropped \cup {hand.id}
    /\ worker' = "loop"
    /\ UNCHANGED <<running, owner, queue, hand, windowOpen, starts, submitted, done>>

Requeue ==
    /\ worker = "requeue"
    /\ queue' = Append(queue, hand)
    /\ worker' = "loop"
    /\ UNCHANGED <<running, owner, hand, windowOpen, starts, history>>

-----------------------------------------------------------------------------
(* The wall clock enters or leaves the maintenance window.                 *)
ClockTick ==
    /\ windowOpen' = ~windowOpen
    /\ UNCHANGED <<running, owner, worker, queue, hand, starts, history>>

OwnerStep == Start \/ StartThrows \/ StopClear \/ StopNotify \/ StopJoin

WorkerProgress ==
    \/ LoopTest \/ AcquireAndTest \/ Block \/ Timeout \/ Reacquire
    \/ CheckStopped \/ CheckRunning \/ CheckEmpty \/ CheckClosed \/ TakeTask
    \/ Succeed \/ Fail \/ GiveUp \/ Requeue

Next ==
    \/ OwnerStep
    \/ \E t \in Tasks : Enqueue(t)
    \/ WorkerProgress
    \/ SpuriousWakeup
    \/ ClockTick

Spec == Init /\ [][Next]_vars

\* The scheduler runs a thread that can run; wait_for returns when its 60
\* seconds are over; reindex() and getIndexStatus() return.  Nobody has to
\* call start(), stop() or a queue function, and the clock owes nothing.
FairSpec == Spec /\ WF_vars(WorkerProgress) /\ WF_vars(StopNotify) /\ WF_vars(StopJoin)

-----------------------------------------------------------------------------
(* Properties.                                                             *)

InQueue(t) == \E i \in 1..Len(queue) : queue[i].id = t
InHand(t) == worker \in {"process", "requeue"} /\ hand.id = t
Ended(t) == t \in done \cup dropped

(* A task that was queued is in exactly one place - once in the queue, in  *)
(* the worker's hand, done or dropped - whatever the interleaving of the   *)
(* pop and the unlocked run and the push back of workerLoop().             *)
TaskConserved ==
    /\ \A i, j \in 1..Len(queue) : queue[i].id = queue[j].id => i = j
    /\ \A t \in Tasks :
         /\ t \in submitted <=> InQueue(t) \/ InHand(t) \/ Ended(t)
         /\ ~(InQueue(t) /\ InHand(t))
         /\ Ended(t) => ~InQueue(t) /\ ~InHand(t)
    /\ done \cap dropped = {}

(* retry_count always is the number of runs that failed, so a task is      *)
(* dropped after exactly one run and MaxRetries repetitions, never earlier *)
(* and never later: what ImplementsRetryQueue rests on.                    *)
RetryBudget ==
    /\ \A i \in 1..Len(queue) : attempts[queue[i].id] = queue[i].retry
    /\ worker \in {"process", "requeue"} => attempts[hand.id] = hand.retry
    /\ \A t \in dropped : attempts[t] = MaxRetries + 1
    /\ \A t \in done : attempts[t] \in 1..(MaxRetries + 1)

(* The worker never goes to sleep over a task: queueReindex and queueVerify *)
(* push under the mutex, so a push cannot fall between the predicate and   *)
(* the wait, and their notification finds the worker in the wait set.      *)
NoLostTaskWakeup == worker \in {"blocking", "waiting"} => queue = <<>>

(* Once stop() has returned there is no worker thread: nothing touches the *)
(* database any more and start() may assign worker_thread_ again (assigning *)
(* over a joinable std::thread ends the process).                          *)
NoWorkerAfterStop == owner = "idle" /\ ~running => worker = "absent"

(* Whoever is waited for can go on: stop(), but for its join, and a worker  *)
(* wherever it is, the wait of wait_for included, of which stop() may have *)
(* missed the beginning.                                                   *)
NeverStuck ==
    /\ owner = "notifying" => ENABLED <<StopNotify>>_vars
    /\ owner = "joining" /\ worker = "absent" => ENABLED <<StopJoin>>_vars
    /\ worker # "absent" => ENABLED <<WorkerProgress>>_vars

(* stop() returns, although it changes running_ and notifies without the   *)
(* mutex and its notification can fall between the worker's predicate and  *)
(* its wait: the 60-second timeout of wait_for makes up for it.            *)
StopTerminates == owner # "idle" ~> owner = "idle"

(* While the worker runs and the window stays open, every queued task ends: *)
(* a task that keeps failing cannot circulate for ever.                    *)
EventuallySettled ==
    \A t \in Tasks :
        []((t \in submitted /\ worker # "absent" /\ [](running /\ windowOpen)) => <>Ended(t))

(* The worker implements the promise of RetryQueue.                        *)
StatusOf(t) ==
    CASE t \notin submitted -> "new"
      [] t \in done         -> "done"
      [] t \in dropped      -> "dropped"
      [] worker = "process" /\ hand.id = t -> "active"
      [] OTHER              -> "pending"

FailuresOf(t) == IF Ended(t) THEN attempts[t] - 1 ELSE attempts[t]

Promise == INSTANCE RetryQueue WITH
    Completable <- VerifyTasks,
    status <- [t \in Tasks |-> StatusOf(t)],
    failures <- [t \in Tasks |-> FailuresOf(t)]

ImplementsRetryQueue == Promise!Spec

(* stop() keeps the promise of StoppableThread: it returns when the worker *)
(* has gone, which finishes the run it has begun; one that was past its    *)
(* look at running_ when that was cleared takes one more task, and no      *)
(* second one.                                                             *)
Part == INSTANCE StoppableThread WITH
    flag <- running, thread <- worker # "absent", stopping <- owner # "idle",
    working <- worker \in {"process", "requeue"},
    last <- ~running /\ worker = "choose"

ImplementsStoppableThread == Part!Spec
=============================================================================
