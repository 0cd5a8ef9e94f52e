------------------------------ MODULE JobGraph ------------------------------
(***************************************************************************)
(* A wired graph of queue_job rows, one transaction per step: what the     *)
(* table promises when every execution ends on the row it was started for. *)
(* It is the abstract specification of JobQueue, which shows under what    *)
(* conditions workers, threads and heartbeats keep that promise.           *)
(*                                                                         *)
(* The buttons act on a row in any state: the methods ask for none, and    *)
(* the list actions (job_worker/views/queue_job_actions.xml) offer what    *)
(* the form view hides.  A selection of several rows is taken one row at a *)
(* time.  What a running execution does afterwards to a row that a button  *)
(* moved is JobQueue's subject, and JobEnqueue's.                          *)
(***************************************************************************)
EXTENDS JobCascade

VARIABLES state, count

vars == <<state, count>>

\* A counter never goes below zero.
TypeOK == state \in [Jobs -> JobStates] /\ count \in [Jobs -> Nat]

Init ==
    /\ state = [j \in Jobs |-> InitialState(j)]
    /\ count = [j \in Jobs |-> InitialCount(j)]

-----------------------------------------------------------------------------
(* The workers' transactions. *)

Start(j) ==
    /\ state[j] = "pending"
    /\ state' = [state EXCEPT ![j] = "started"]
    /\ UNCHANGED count

Succeed(j) ==
    /\ state[j] = "started"
    /\ state' = Succeeded(state, count, j)
    /\ count' = SucceededCount(state, count, j)

Retry(j) ==
    /\ state[j] = "started"
    /\ state' = [state EXCEPT ![j] = "pending"]
    /\ UNCHANGED count

Fail(j) ==
    /\ state[j] = "started"
    /\ state' = FailedForGood(state, j)
    /\ UNCHANGED count

\* The reclaim path gives up a row whose worker died once too often.
FailStale(j) ==
    /\ state[j] = "started"
    /\ state' = FailedByReclaim(state, j)
    /\ UNCHANGED count

-----------------------------------------------------------------------------
(* The operator's transactions. *)

\* pending_dependency_count keeps the value it has.
Requeue(j) ==
    /\ state' = [state EXCEPT ![j] = "pending"]
    /\ UNCHANGED count

\* Mutant of SetToDone: the barriers are forgotten.
SetToDoneAlone(j) ==
    /\ state' = [state EXCEPT ![j] = "done"]
    /\ UNCHANGED count

\* The rows chained to j are left as they are; the barriers count j whether it
\* was done before or not.
SetToDone(j) ==
    LET done == [state EXCEPT ![j] = "done"]
    IN  /\ state' = DependentsOnSuccess(done, count, j)
        /\ count' = ReleasedCount(done, count, j)

SetToFailed(j) ==
    /\ state' = FailedForGood(state, j)
    /\ UNCHANGED count

Cancel(j) ==
    /\ state' = Cancelled(state, j)
    /\ UNCHANGED count

\* A failed run_now() leaves no trace; a RetryableJobError leaves a pending row.
RunNow(j) ==
    \/ /\ state' = Succeeded(state, count, j)
       /\ count' = SucceededCount(state, count, j)
    \/ /\ state' = [state EXCEPT ![j] = "pending"]
       /\ UNCHANGED count

-----------------------------------------------------------------------------
(* The specifications. *)

Success(j) == Start(j) \/ Succeed(j) \/ Retry(j)
Handled(j) == Success(j) \/ Fail(j)
LeftAlone(j) == Handled(j) \/ FailStale(j)

\* Every failure is an exception a worker lives to handle.
HandledNext == \E j \in Jobs : Handled(j)
\* Left alone: workers may die as well.
AutoNext == \E j \in Jobs : LeftAlone(j)
\* An operator who requeues finished jobs and presses no other button.
RequeueNext ==
    \E j \in Jobs : \/ LeftAlone(j)
                    \/ state[j] \in {"done", "failed"} /\ Requeue(j)
\* With an operator who presses anything.
Next ==
    \E j \in Jobs : \/ LeftAlone(j) \/ Requeue(j) \/ SetToDone(j)
                    \/ SetToFailed(j) \/ Cancel(j) \/ RunNow(j)

HandledSpec == Init /\ [][HandledNext]_vars
AutoSpec    == Init /\ [][AutoNext]_vars
RequeueSpec == Init /\ [][RequeueNext]_vars
Spec        == Init /\ [][Next]_vars

-----------------------------------------------------------------------------
(* Properties. *)

\* The rows whose end decides what becomes of j.
Upstream(j) == DependencySet(j) \cup ({Parent[j]} \ {NoJob})

\* Nobody waits for what can no longer happen: a waiting row has an upstream
\* row that has not ended yet (the cascades of queue_job.py exist for this;
\* button_cancelled's docstring tells what a stranded barrier costs).
NoStrandedRow ==
    \A j \in Jobs : state[j] = "waiting"
        => \E u \in Upstream(j) : state[u] \notin TerminalStates

\* The same of group barriers: one that waits has a member that may still end.
NoStrandedBarrier ==
    \A d \in Jobs : state[d] = "waiting" /\ Dependencies[d] # <<>>
        => \E m \in DependencySet(d) : state[m] \notin TerminalStates

\* The counter of a waiting barrier is the number of its members that are
\* still to be done (pending_dependency_count, "decremented atomically").
CounterIsExact ==
    \A d \in Jobs : state[d] = "waiting" /\ Dependencies[d] # <<>>
        => count[d] = Cardinality({m \in DependencySet(d) : state[m] # "done"})

\* A callback is let go by success only, and a failure handler by failure
\* only: its parent, or all or some of its group, ended that way.  Handlers
\* that a success lets go are cancelled, callbacks that a failure lets go fail.
RightOutcomeReleases ==
    [][\A j \in Jobs : state[j] = "waiting" /\ state'[j] = "pending" =>
        IF RunOnFailure[j]
        THEN \E u \in Upstream(j) : state'[u] = "failed"
        ELSE IF Dependencies[j] = <<>> THEN state'[Parent[j]] = "done"
             ELSE \A m \in DependencySet(j) : state'[m] = "done"]_vars

\* A failed upstream row leaves no callback waiting ("When a parent job
\* transitions to failed, its children also move to failed"; "If any group
\* member fails permanently, the callback is also marked failed").
FailureReachesCallbacks ==
    \A j \in Jobs : state[j] = "waiting" /\ ~RunOnFailure[j]
        => \A u \in Upstream(j) : state[u] # "failed"

\* When a parent job becomes done its children stop waiting.
SuccessReachesChildren ==
    [][\A j \in Jobs : state[j] = "waiting" /\ Parent[j] # NoJob /\ state[Parent[j]] # "done"
            /\ state'[Parent[j]] = "done" => state'[j] # "waiting"]_vars

\* A group callback starts only after every member completes.
BarrierWaitsForAll ==
    [][\A d \in Jobs :
        (~RunOnFailure[d] /\ Dependencies[d] # <<>> /\ state[d] = "waiting" /\ state'[d] = "pending")
            => \A m \in DependencySet(d) : state'[m] = "done"]_vars

\* A barrier all of whose members are done does not wait any more.
CompletedGroupReleases ==
    \A d \in Jobs : Dependencies[d] # <<>> /\ state[d] = "waiting"
        => \E m \in DependencySet(d) : state[m] # "done"
=============================================================================
