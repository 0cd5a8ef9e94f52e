---------------------------- MODULE JobRetention ----------------------------
(***************************************************************************)
(* JobGraph with the timestamps that the autovacuum _gc_old_jobs() goes by *)
(* (job_worker/models/queue_job.py): it deletes done and failed rows by    *)
(* completed_at and cancelled rows by cancelled_at, and never finds a row  *)
(* whose timestamp is empty.                                               *)
(*                                                                         *)
(* No trigger keeps the timestamps: each of the places that write a state  *)
(* writes its own, or forgets to.  The definitions below name, place by    *)
(* place, the rows that are stamped there.                                 *)
(***************************************************************************)
EXTENDS JobGraph

VARIABLES
    completed,  \* rows with completed_at
    cancelled   \* rows with cancelled_at

retentionVars == <<state, count, completed, cancelled>>

RetentionInit == Init /\ completed = {} /\ cancelled = {}

-----------------------------------------------------------------------------
(* Where cancelled_at is written; st is the table in which j has ended. *)

\* The failure handlers among the children of a job that succeeded.
StampedHandlers(st, j) == Handlers(WaitingChildren(st, j))

\* Everybody the walk finds below those handlers.
StampedDescendants(st, j) ==
    LET walked == Closure(StampedHandlers(st, j), LAMBDA i : WaitingChildren(st, i))
    IN  UNION {WaitingChildren(st, i) : i \in walked}

\* Mutant of StampedBarriers: the CASE of the timestamp tests the counter as if
\* it had been decremented already.
StampedBarriersLate(st, cnt, j) ==
    Handlers({d \in WaitingDependents(st, j) : cnt[d] <= 0})

\* The failure handlers of groups that j completes.
StampedBarriers(st, cnt, j) ==
    Handlers({d \in WaitingDependents(st, j) : cnt[d] - 1 <= 0})

\* The rows that an operator's cancellation goes through.
CancelWalk(st, j) ==
    LET wired(i) == WaitingChildren(st, i) \cup WaitingDependents(st, i)
    IN  Closure(wired(j), wired) \cup {j}

\* Those it reaches along the parent axis, and along the dependency axis.
StampedCancelledChildren(st, j)   == UNION {WaitingChildren(st, i) : i \in CancelWalk(st, j)}
StampedCancelledDependents(st, j) == UNION {WaitingDependents(st, i) : i \in CancelWalk(st, j)}

-----------------------------------------------------------------------------
(* The writers. *)

\* Done by a worker or by run_now(): both cascades of a success.
Completes(j) ==
    LET done == [state EXCEPT ![j] = "done"]
    IN  /\ completed' = completed \cup {j}
        /\ cancelled' = cancelled \cup StampedHandlers(done, j) \cup StampedDescendants(done, j)
                            \cup StampedBarriers(ChildrenOnSuccess(done, j), count, j)

IsFinalized(j) == Succeed(j) /\ Completes(j)

IsRunByHand(j) == RunNow(j) /\ state'[j] = "done" /\ Completes(j)

\* Failed by a worker, by the reclaim path or by an operator: the row itself
\* gets completed_at, the rows its failure takes along do not.
IsFailed(j) ==
    /\ Fail(j) \/ FailStale(j) \/ SetToFailed(j)
    /\ completed' = completed \cup {j}
    /\ UNCHANGED cancelled

IsSetToDone(j) ==
    /\ SetToDone(j)
    /\ completed' = completed \cup {j}
    /\ cancelled' = cancelled \cup StampedBarriers([state EXCEPT ![j] = "done"], count, j)

\* The cascade, and with it its stamps, is withheld from a row that had ended.
IsCancelled(j) ==
    LET after   == [state EXCEPT ![j] = "cancelled"]
        cascade == StampedCancelledChildren(after, j) \cup StampedCancelledDependents(after, j)
    IN  /\ Cancel(j)
        /\ cancelled' = cancelled \cup {j}
                            \cup (IF state[j] \in TerminalStates THEN {} ELSE cascade)
        /\ UNCHANGED completed

IsRequeued(j) ==
    /\ Requeue(j)
    /\ completed' = completed \ {j}
    /\ cancelled' = cancelled \ {j}

\* Started, or put back to pending with what is written there.
Goes(j) ==
    /\ \/ Start(j) \/ Retry(j)
       \/ RunNow(j) /\ state'[j] = "pending"
    /\ UNCHANGED <<completed, cancelled>>

RetentionNext ==
    \E j \in Jobs : \/ Goes(j) \/ IsFinalized(j) \/ IsFailed(j)
                    \/ IsRunByHand(j) \/ IsSetToDone(j) \/ IsCancelled(j) \/ IsRequeued(j)

RetentionSpec == RetentionInit /\ [][RetentionNext]_retentionVars

-----------------------------------------------------------------------------
(* Properties. *)

\* The autovacuum finds the row once it is old enough.
Collectable(j) ==
    \/ state[j] \in {"done", "failed"} /\ j \in completed
    \/ state[j] = "cancelled" /\ j \in cancelled

\* Whatever the buttons and the cascades do, a done or cancelled row does not
\* stay in the table for ever: every cascade that cancels stamps the rows it
\* cancels (_gc_old_jobs).
DoneAndCancelledCollectable ==
    \A j \in Jobs : state[j] \in {"done", "cancelled"} => Collectable(j)

\* "Delete done/failed/cancelled jobs older than the configured retention"
\* (the docstring of _gc_old_jobs).
TerminalCollectable ==
    \A j \in Jobs : state[j] \in TerminalStates => Collectable(j)
=============================================================================
