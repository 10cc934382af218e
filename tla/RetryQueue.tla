----------------------------- MODULE RetryQueue -----------------------------
(***************************************************************************)
(* What the maintenance worker promises to whoever queues a task, with no  *)
(* thread, mutex, queue order or clock in it: a submitted task is run by   *)
(* at most one actor at a time, a failed run sends it back until MaxRetries *)
(* runs have been repeated, and it ends exactly once, done or dropped.     *)
(***************************************************************************)
EXTENDS Naturals

CONSTANTS Tasks, MaxRetries, Completable

VARIABLES
    status,     \* task -> where it stands
    failures    \* task -> failed runs that were followed by another one

vars == <<status, failures>>

Statuses == {"new", "pending", "active", "done", "dropped"}

TypeOK ==
    /\ status \in [Tasks -> Statuses]
    /\ failures \in [Tasks -> 0..MaxRetries]

Init ==
    /\ status = [t \in Tasks |-> "new"]
    /\ failures = [t \in Tasks |-> 0]

Become(t, before, after) ==
    /\ status[t] = before
    /\ status' = [status EXCEPT ![t] = after]

Submit(t) == Become(t, "new", "pending") /\ UNCHANGED failures

\* One worker: a task starts only when no other one is active.
Begin(t) ==
    /\ \A u \in Tasks : status[u] # "active"
    /\ Become(t, "pending", "active")
    /\ UNCHANGED failures

Finish(t) == t \in Completable /\ Become(t, "active", "done") /\ UNCHANGED failures

Retry(t) ==
    /\ failures[t] < MaxRetries
    /\ Become(t, "active", "pending")
    /\ failures' = [failures EXCEPT ![t] = @ + 1]

GiveUp(t) ==
    /\ failures[t] = MaxRetries
    /\ Become(t, "active", "dropped")
    /\ UNCHANGED failures

Next == \E t \in Tasks : Submit(t) \/ Begin(t) \/ Finish(t) \/ Retry(t) \/ GiveUp(t)

Spec == Init /\ [][Next]_vars

-----------------------------------------------------------------------------
(* What follows for whoever has queued a task.                             *)

(* Two tasks are never under way at once; what is given up has had all its *)
(* runs, and only a task that can succeed is ever done.                    *)
Account ==
    /\ \A t, u \in Tasks : status[t] = "active" /\ status[u] = "active" => t = u
    /\ \A t \in Tasks : /\ status[t] = "dropped" => failures[t] = MaxRetries
                        /\ status[t] = "done" => t \in Completable

(* The end of a task is never taken back, and its runs are not counted     *)
(* anew: nothing queues it again.                                          *)
EndIsFinal ==
    [][\A t \in Tasks : status[t] \in {"done", "dropped"} =>
                            status'[t] = status[t] /\ failures'[t] = failures[t]]_vars
=============================================================================
