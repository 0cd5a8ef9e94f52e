-------------------------- MODULE JobCascadeProofs --------------------------
(* What every cascade leaves alone, whatever the wiring. *)
EXTENDS JobCascade, TLAPS

Waiting(st) == {j \in Jobs : st[j] = "waiting"}

\* new differs from st only on rows that wait in st, and none of them is done.
OnlyWaitingMoves(st, new) ==
    /\ new \in [Jobs -> JobStates]
    /\ \A j \in Jobs : st[j] # "waiting" => new[j] = st[j]
    /\ \A j \in Jobs : new[j] = "done" => st[j] = "done"

\* Moving waiting rows moves only waiting rows.
LEMMA MoveOnlyWaiting ==
    ASSUME NEW st \in [Jobs -> JobStates],
           NEW P, NEW F, NEW C,
           P \subseteq Waiting(st), F \subseteq Waiting(st), C \subseteq Waiting(st)
    PROVE  OnlyWaitingMoves(st, Move(st, P, F, C))
BY DEF Move, OnlyWaitingMoves, Waiting, JobStates

\* The walks over children visit waiting rows only.
LEMMA ChildrenOnSuccessOnlyWaiting ==
    ASSUME NEW st \in [Jobs -> JobStates], NEW j \in Jobs
    PROVE  OnlyWaitingMoves(st, ChildrenOnSuccess(st, j))
<1> DEFINE direct    == WaitingChildren(st, j)
           cancelled == Closure(Handlers(direct), LAMBDA i : WaitingChildren(st, i))
<1>1. direct \subseteq Waiting(st) /\ Handlers(direct) \subseteq Waiting(st)
  BY DEF WaitingChildren, Waiting, Handlers
<1>2. \A i : WaitingChildren(st, i) \subseteq Waiting(st)
  BY DEF WaitingChildren, Waiting
<1>3. Waiting(st) \in SUBSET Jobs
  BY DEF Waiting
<1>4. cancelled \subseteq Waiting(st)
  BY <1>1, <1>2, <1>3 DEF Closure
<1> HIDE DEF direct, cancelled
<1>5. OnlyWaitingMoves(st, Move(st, direct \ Handlers(direct), {}, cancelled))
  BY <1>1, <1>4, MoveOnlyWaiting
<1> QED
  BY <1>5 DEF ChildrenOnSuccess, direct, cancelled

LEMMA ChildrenOnFailureOnlyWaiting ==
    ASSUME NEW st \in [Jobs -> JobStates], NEW j \in Jobs
    PROVE  OnlyWaitingMoves(st, ChildrenOnFailure(st, j))
<1> DEFINE callbacks(i) == WaitingChildren(st, i) \ Handlers(WaitingChildren(st, i))
           failed       == Closure(callbacks(j), callbacks)
           handlers     == UNION {Handlers(WaitingChildren(st, i)) : i \in failed \cup {j}}
<1>1. \A i : callbacks(i) \subseteq Waiting(st) /\ Handlers(WaitingChildren(st, i)) \subseteq Waiting(st)
  BY DEF WaitingChildren, Waiting, Handlers
<1>2. Waiting(st) \in SUBSET Jobs
  BY DEF Waiting
<1>3. failed \subseteq Waiting(st)
  BY <1>1, <1>2 DEF Closure
<1>4. handlers \subseteq Waiting(st)
  BY <1>1
<1> HIDE DEF failed, handlers
<1>5. OnlyWaitingMoves(st, Move(st, handlers, failed, {}))
  BY <1>3, <1>4, MoveOnlyWaiting
<1> QED
  BY <1>5 DEF ChildrenOnFailure, failed, handlers

LEMMA DependentsOnSuccessOnlyWaiting ==
    ASSUME NEW st \in [Jobs -> JobStates], NEW cnt, NEW j \in Jobs
    PROVE  OnlyWaitingMoves(st, DependentsOnSuccess(st, cnt, j))
<1> DEFINE released == {d \in WaitingDependents(st, j) : cnt[d] - 1 <= 0}
<1>1. released \subseteq Waiting(st) /\ Handlers(released) \subseteq Waiting(st)
  BY DEF WaitingDependents, Waiting, Handlers
<1> HIDE DEF released
<1>2. OnlyWaitingMoves(st, Move(st, released \ Handlers(released), {}, Handlers(released)))
  BY <1>1, MoveOnlyWaiting
<1> QED
  BY <1>2 DEF DependentsOnSuccess, released

LEMMA DependentsOnFailureOnlyWaiting ==
    ASSUME NEW st \in [Jobs -> JobStates], NEW j \in Jobs
    PROVE  OnlyWaitingMoves(st, DependentsOnFailure(st, j))
<1> DEFINE affected == WaitingDependents(st, j)
<1>1. affected \subseteq Waiting(st) /\ Handlers(affected) \subseteq Waiting(st)
  BY DEF WaitingDependents, Waiting, Handlers
<1> HIDE DEF affected
<1>2. OnlyWaitingMoves(st, Move(st, Handlers(affected), affected \ Handlers(affected), {}))
  BY <1>1, MoveOnlyWaiting
<1> QED
  BY <1>2 DEF DependentsOnFailure, affected

-----------------------------------------------------------------------------
\* new is st with job j in state s and otherwise only waiting rows moved, none
\* of them to done.
MovesTo(st, new, j, s) ==
    /\ new \in [Jobs -> JobStates]
    /\ new[j] = s
    /\ \A d \in Jobs \ {j} : st[d] # "waiting" => new[d] = st[d]
    /\ \A d \in Jobs \ {j} : new[d] = "done" => st[d] = "done"

\* Two waiting-only moves in a row, after j itself was moved to s.
LEMMA TwoMoves ==
    ASSUME NEW st \in [Jobs -> JobStates], NEW j \in Jobs, NEW s \in JobStates \ {"waiting"},
           NEW mid, NEW new,
           OnlyWaitingMoves([st EXCEPT ![j] = s], mid), OnlyWaitingMoves(mid, new)
    PROVE  MovesTo(st, new, j, s)
BY DEF OnlyWaitingMoves, MovesTo, JobStates

\* A finished job is done whatever its dependents are (finalize_job, run_now).
LEMMA SucceededMoves ==
    ASSUME NEW st \in [Jobs -> JobStates], NEW cnt, NEW j \in Jobs
    PROVE  MovesTo(st, Succeeded(st, cnt, j), j, "done")
<1> DEFINE s0 == [st EXCEPT ![j] = "done"]
<1>0. s0 \in [Jobs -> JobStates]
  BY DEF JobStates
<1> HIDE DEF s0
<1>1. OnlyWaitingMoves(s0, ChildrenOnSuccess(s0, j))
  BY <1>0, ChildrenOnSuccessOnlyWaiting
<1>2. OnlyWaitingMoves(ChildrenOnSuccess(s0, j),
                       DependentsOnSuccess(ChildrenOnSuccess(s0, j), cnt, j))
  BY <1>1, DependentsOnSuccessOnlyWaiting DEF OnlyWaitingMoves
<1> QED
  BY <1>1, <1>2, TwoMoves DEF Succeeded, s0, JobStates

\* A failed job is failed whatever its dependents are (handle_exception,
\* button_set_to_failed).
LEMMA FailedForGoodMoves ==
    ASSUME NEW st \in [Jobs -> JobStates], NEW j \in Jobs
    PROVE  MovesTo(st, FailedForGood(st, j), j, "failed")
<1> DEFINE s0 == [st EXCEPT ![j] = "failed"]
<1>0. s0 \in [Jobs -> JobStates]
  BY DEF JobStates
<1> HIDE DEF s0
<1>1. OnlyWaitingMoves(s0, ChildrenOnFailure(s0, j))
  BY <1>0, ChildrenOnFailureOnlyWaiting
<1>2. OnlyWaitingMoves(ChildrenOnFailure(s0, j), DependentsOnFailure(ChildrenOnFailure(s0, j), j))
  BY <1>1, DependentsOnFailureOnlyWaiting DEF OnlyWaitingMoves
<1> QED
  BY <1>1, <1>2, TwoMoves DEF FailedForGood, s0, JobStates

\* The reclaim path's raw SQL.
LEMMA FailedByReclaimMoves ==
    ASSUME NEW st \in [Jobs -> JobStates], NEW j \in Jobs
    PROVE  MovesTo(st, FailedByReclaim(st, j), j, "failed")
<1> DEFINE s0       == [st EXCEPT ![j] = "failed"]
           children == WaitingChildren(s0, j)
           mid      == Move(s0, Handlers(children), children \ Handlers(children), {})
<1>0. s0 \in [Jobs -> JobStates]
  BY DEF JobStates
<1>1. children \subseteq Waiting(s0) /\ Handlers(children) \subseteq Waiting(s0)
  BY DEF WaitingChildren, Waiting, Handlers
<1> HIDE DEF s0, children
<1>2. OnlyWaitingMoves(s0, mid)
  BY <1>0, <1>1, MoveOnlyWaiting
<1> HIDE DEF mid
<1>3. OnlyWaitingMoves(mid, DependentsOnFailure(mid, j))
  BY <1>2, DependentsOnFailureOnlyWaiting DEF OnlyWaitingMoves
<1> QED
  BY <1>2, <1>3, TwoMoves DEF FailedByReclaim, mid, s0, children, JobStates

\* The cancellation that crosses both axes (button_cancelled).
LEMMA CancelledMoves ==
    ASSUME NEW st \in [Jobs -> JobStates], NEW j \in Jobs
    PROVE  MovesTo(st, Cancelled(st, j), j, "cancelled")
<1> DEFINE after     == [st EXCEPT ![j] = "cancelled"]
           wired(i)  == WaitingChildren(after, i) \cup WaitingDependents(after, i)
           cancelled == IF st[j] \in TerminalStates THEN {} ELSE Closure(wired(j), wired)
<1>0. after \in [Jobs -> JobStates]
  BY DEF JobStates
<1>1. \A i : wired(i) \subseteq Waiting(after)
  BY DEF WaitingChildren, WaitingDependents, Waiting
<1>2. Waiting(after) \in SUBSET Jobs
  BY DEF Waiting
<1>3. cancelled \subseteq Waiting(after)
  BY <1>1, <1>2 DEF Closure
<1> HIDE DEF after, cancelled
<1>4. OnlyWaitingMoves(after, Move(after, {}, {}, cancelled))
  BY <1>0, <1>3, MoveOnlyWaiting
<1>5. OnlyWaitingMoves(Move(after, {}, {}, cancelled), Move(after, {}, {}, cancelled))
  BY <1>4 DEF OnlyWaitingMoves
<1> QED
  BY <1>4, <1>5, TwoMoves DEF Cancelled, after, cancelled, JobStates

\* button_set_to_done cascades on the dependency axis only.
LEMMA DoneMoves ==
    ASSUME NEW st \in [Jobs -> JobStates], NEW cnt, NEW j \in Jobs
    PROVE  MovesTo(st, DependentsOnSuccess([st EXCEPT ![j] = "done"], cnt, j), j, "done")
<1> DEFINE s0 == [st EXCEPT ![j] = "done"]
<1>0. s0 \in [Jobs -> JobStates]
  BY DEF JobStates
<1> HIDE DEF s0
<1>1. OnlyWaitingMoves(s0, DependentsOnSuccess(s0, cnt, j))
  BY <1>0, DependentsOnSuccessOnlyWaiting
<1>2. OnlyWaitingMoves(DependentsOnSuccess(s0, cnt, j), DependentsOnSuccess(s0, cnt, j))
  BY <1>1 DEF OnlyWaitingMoves
<1> QED
  BY <1>1, <1>2, TwoMoves DEF s0, JobStates

\* A row that is retried, requeued or released.
LEMMA PendingMoves ==
    ASSUME NEW st \in [Jobs -> JobStates], NEW j \in Jobs
    PROVE  MovesTo(st, [st EXCEPT ![j] = "pending"], j, "pending")
BY DEF MovesTo, JobStates
=============================================================================
