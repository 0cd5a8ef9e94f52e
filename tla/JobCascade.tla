----------------------------- MODULE JobCascade -----------------------------
(***************************************************************************)
(* What one queue_job row does to the rows wired to it when it is done,    *)
(* fails for good or is cancelled (job_worker/models/queue_job.py).        *)
(*                                                                         *)
(* Jobs are wired along two axes.  The parent axis is the column parent_id *)
(* (chains, per-job callbacks); the dependency axis is the JSON list       *)
(* dependency_job_ids (group barriers) with the counter                    *)
(* pending_dependency_count.  A row with run_on_failure is a failure       *)
(* handler.  The wiring never changes after the rows are created, so it is *)
(* a constant here; the columns state and pending_dependency_count are     *)
(* functions the operators take (st, cnt) and return.                      *)
(***************************************************************************)
EXTENDS Integers, Sequences, FiniteSets

CONSTANTS
    Jobs,           \* ids of queue_job rows
    NoJob,          \* parent_id of a row without a parent
    Parent,         \* parent_id
    Dependencies,   \* dependency_job_ids, a list that may name a job twice
    RunOnFailure    \* run_on_failure

ASSUME WiringAssumption ==
    /\ NoJob \notin Jobs
    /\ Parent \in [Jobs -> Jobs \cup {NoJob}]
    /\ Dependencies \in [Jobs -> Seq(Jobs)]
    /\ RunOnFailure \in [Jobs -> BOOLEAN]

JobStates == {"waiting", "pending", "started", "done", "failed", "cancelled"}
TerminalStates == {"done", "failed", "cancelled"}

\* enqueue() stores a row as waiting when it has a parent or dependencies.
InitialState(j) ==
    IF Parent[j] # NoJob \/ Dependencies[j] # <<>> THEN "waiting" ELSE "pending"

InitialCount(j) == Len(Dependencies[j])

DependencySet(j) == {Dependencies[j][i] : i \in DOMAIN Dependencies[j]}

WaitingChildren(st, j) == {c \in Jobs : Parent[c] = j /\ st[c] = "waiting"}

\* The rows matched by  state = 'waiting' AND dependency_job_ids @> [j].
WaitingDependents(st, j) == {d \in Jobs : st[d] = "waiting" /\ j \in DependencySet(d)}

\* The least set that holds seed and is closed under Succ: what the code's
\* breadth-first walks and recursive calls visit.
Closure(seed, Succ(_)) ==
    {j \in Jobs : \A S \in SUBSET Jobs :
        (seed \subseteq S /\ \A i \in S : Succ(i) \subseteq S) => j \in S}

\* st with the rows of each set moved to the state that set is named for.
Move(st, toPending, toFailed, toCancelled) ==
    [j \in Jobs |-> CASE j \in toPending   -> "pending"
                      [] j \in toFailed    -> "failed"
                      [] j \in toCancelled -> "cancelled"
                      [] OTHER             -> st[j]]

Handlers(S) == {j \in S : RunOnFailure[j]}

-----------------------------------------------------------------------------
(* The parent axis. *)

\* Mutant of ChildrenOnSuccess: the handlers become pending like the callbacks.
ChildrenOnSuccessAll(st, j) == Move(st, WaitingChildren(st, j), {}, {})

\* Callbacks become pending; failure handlers are cancelled with all their
\* waiting descendants.
ChildrenOnSuccess(st, j) ==
    LET direct    == WaitingChildren(st, j)
        cancelled == Closure(Handlers(direct), LAMBDA i : WaitingChildren(st, i))
    IN  Move(st, direct \ Handlers(direct), {}, cancelled)

\* Mutant of ChildrenOnFailure: the walk stops after one step.
ChildrenOnFailureOneStep(st, j) ==
    LET children == WaitingChildren(st, j)
    IN  Move(st, Handlers(children), children \ Handlers(children), {})

\* Callbacks fail, and so on down the chain; the failure handlers met on the
\* way become pending.
ChildrenOnFailure(st, j) ==
    LET callbacks(i) == WaitingChildren(st, i) \ Handlers(WaitingChildren(st, i))
        failed       == Closure(callbacks(j), callbacks)
        handlers     == UNION {Handlers(WaitingChildren(st, i)) : i \in failed \cup {j}}
    IN  Move(st, handlers, failed, {})

-----------------------------------------------------------------------------
(* The dependency axis. *)

\* Mutant of ReleasedCount: the counter is not written back.
ReleasedCountLost(st, cnt, j) == cnt

\* _release_dependents: every waiting dependent loses one from its counter.
ReleasedCount(st, cnt, j) ==
    [d \in Jobs |-> IF d \in WaitingDependents(st, j) THEN cnt[d] - 1 ELSE cnt[d]]

\* Mutants of DependentsOnSuccess: released one member too early or too late.
DependentsReleasedEarly(st, cnt, j) ==
    LET released == {d \in WaitingDependents(st, j) : cnt[d] - 1 <= 1}
    IN  Move(st, released \ Handlers(released), {}, Handlers(released))
DependentsReleasedLate(st, cnt, j) ==
    LET released == {d \in WaitingDependents(st, j) : cnt[d] - 1 < 0}
    IN  Move(st, released \ Handlers(released), {}, Handlers(released))

\* A dependent whose counter reaches zero becomes pending, or is cancelled if
\* it is a failure handler.
DependentsOnSuccess(st, cnt, j) ==
    LET released == {d \in WaitingDependents(st, j) : cnt[d] - 1 <= 0}
    IN  Move(st, released \ Handlers(released), {}, Handlers(released))

\* _fail_dependents: one step, not a walk.
DependentsOnFailure(st, j) ==
    LET affected == WaitingDependents(st, j)
    IN  Move(st, Handlers(affected), affected \ Handlers(affected), {})

-----------------------------------------------------------------------------
(* Both axes, in the order the callers use them. *)

\* A job done by a worker or by run_now.
Succeeded(st, cnt, j) ==
    DependentsOnSuccess(ChildrenOnSuccess([st EXCEPT ![j] = "done"], j), cnt, j)

SucceededCount(st, cnt, j) ==
    ReleasedCount(ChildrenOnSuccess([st EXCEPT ![j] = "done"], j), cnt, j)

\* A job failed for good by handle_exception or by an operator.
FailedForGood(st, j) ==
    DependentsOnFailure(ChildrenOnFailure([st EXCEPT ![j] = "failed"], j), j)

\* A stale job failed by the reclaim path: raw SQL, direct children only.
FailedByReclaim(st, j) ==
    LET failed   == [st EXCEPT ![j] = "failed"]
        children == WaitingChildren(failed, j)
        next     == Move(failed, Handlers(children), children \ Handlers(children), {})
    IN  DependentsOnFailure(next, j)

\* A job cancelled by an operator: the cascade crosses both axes, and starts
\* only from a job that had not reached a terminal state.
Cancelled(st, j) ==
    LET after     == [st EXCEPT ![j] = "cancelled"]
        wired(i)  == WaitingChildren(after, i) \cup WaitingDependents(after, i)
        cancelled == IF st[j] \in TerminalStates THEN {} ELSE Closure(wired(j), wired)
    IN  Move(after, {}, {}, cancelled)
=============================================================================
