--------------------------- MODULE JobQueueProofs ---------------------------
(***************************************************************************)
(* Theorems about JobQueue for every set of rows, wiring, workers and      *)
(* executions, under late heartbeats, crashes and every operator button.   *)
(***************************************************************************)
EXTENDS JobQueue, JobCascadeProofs

LEMMA ReleasedCountType ==
    ASSUME NEW st, NEW cnt \in [Jobs -> Int], NEW j \in Jobs
    PROVE  ReleasedCount(st, cnt, j) \in [Jobs -> Int]
BY DEF ReleasedCount

LEMMA SucceededCountType ==
    ASSUME NEW st, NEW cnt \in [Jobs -> Int], NEW j \in Jobs
    PROVE  SucceededCount(st, cnt, j) \in [Jobs -> Int]
BY ReleasedCountType DEF SucceededCount

-----------------------------------------------------------------------------
\* No step of any specification below breaks a type.
LEMMA TypeStep ==
    ASSUME TypeOK, [Next]_vars
    PROVE  TypeOK'
<1>1. ASSUME NEW w \in Workers, NEW j \in Jobs, NEW f \in Futures, AcquireFresh(w, j, f)
      PROVE  TypeOK'
  BY <1>1
  DEF AcquireFresh, Claim, Submit, TypeOK, row, worker, exec, hist,
      JobStates, HeartbeatStates, Phases, PCs, Beats
<1>2. ASSUME NEW w \in Workers, NEW j \in Jobs, NEW f \in Futures, Reclaim(w, j, f)
      PROVE  TypeOK'
  BY <1>2
  DEF Reclaim, Claim, Submit, TypeOK, row, worker, exec, hist,
      JobStates, HeartbeatStates, Phases, PCs, Beats
<1>3. ASSUME NEW w \in Workers, NEW j \in Jobs, ReclaimExhausted(w, j)
      PROVE  TypeOK'
  BY <1>3, FailedByReclaimMoves
  DEF ReclaimExhausted, Unclaim, MovesTo, TypeOK, row, worker, exec,
      hist, JobStates, HeartbeatStates, Phases, PCs, Beats
<1>4. ASSUME NEW f \in Futures, StartQueued(f)
      PROVE  TypeOK'
  BY <1>4
  DEF StartQueued, TypeOK, row, worker, exec, hist, JobStates,
      HeartbeatStates, Phases, PCs, Beats
<1>5. ASSUME NEW f \in Futures, HeartbeatJob(f)
      PROVE  TypeOK'
  BY <1>5
  DEF HeartbeatJob, TypeOK, row, worker, exec, hist, JobStates,
      HeartbeatStates, Phases, PCs, Beats
<1>6. ASSUME NEW w \in Workers, UpdateHeartbeats(w)
      PROVE  TypeOK'
  BY <1>6
  DEF UpdateHeartbeats, TypeOK, row, worker, exec, hist, JobStates,
      HeartbeatStates, Phases, PCs, Beats
<1>7. ASSUME NEW f \in Futures, TimeoutFires(f)
      PROVE  TypeOK'
  BY <1>7
  DEF TimeoutFires, TypeOK, row, worker, exec, hist, JobStates,
      HeartbeatStates, Phases, PCs, Beats
<1>8. ASSUME NEW f \in Futures, HandleTimeout(f)
      PROVE  TypeOK'
  BY <1>8
  DEF HandleTimeout, TypeOK, row, worker, exec, hist, JobStates,
      HeartbeatStates, Phases, PCs, Beats
<1>9. ASSUME NEW f \in Futures, HeartbeatEnds(f)
      PROVE  TypeOK'
  BY <1>9
  DEF HeartbeatEnds, TypeOK, row, worker, exec, hist, JobStates,
      HeartbeatStates, Phases, PCs, Beats
<1>10. ASSUME NEW f \in Futures, CommitSideEffects(f)
      PROVE  TypeOK'
  BY <1>10
  DEF CommitSideEffects, Goto, TypeOK, row, worker, exec, hist,
      JobStates, HeartbeatStates, Phases, PCs, Beats
<1>11. ASSUME NEW f \in Futures, Raise(f)
      PROVE  TypeOK'
  BY <1>11
  DEF Raise, Goto, TypeOK, row, worker, exec, hist, JobStates,
      HeartbeatStates, Phases, PCs, Beats
<1>12. ASSUME NEW f \in Futures, ReturnLate(f)
      PROVE  TypeOK'
  BY <1>12
  DEF ReturnLate, Goto, TypeOK, row, worker, exec, hist, JobStates,
      HeartbeatStates, Phases, PCs, Beats
<1>13. ASSUME NEW f \in Futures, CheckAfterCommit(f)
      PROVE  TypeOK'
  BY <1>13
  DEF CheckAfterCommit, Goto, TypeOK, row, worker, exec, hist,
      JobStates, HeartbeatStates, Phases, PCs, Beats
<1>14. ASSUME NEW f \in Futures, Finalize(f)
      PROVE  TypeOK'
  <2>1. job[f] \in Jobs
    BY <1>14 DEF Finalize, TypeOK
  <2>2. state' \in [Jobs -> JobStates] /\ count' \in [Jobs -> Int]
    BY <1>14, <2>1, SucceededMoves, SucceededCountType DEF Finalize, TypeOK, MovesTo
  <2> QED
    BY <1>14, <2>1, <2>2 DEF Finalize, Goto, Unclaim, TypeOK, row, worker, exec, hist,
      JobStates, HeartbeatStates, Phases, PCs, Beats
<1>15. ASSUME NEW f \in Futures, FinalizeFails(f)
      PROVE  TypeOK'
  BY <1>15
  DEF FinalizeFails, Goto, TypeOK, row, worker, exec, hist, JobStates,
      HeartbeatStates, Phases, PCs, Beats
<1>16. ASSUME NEW f \in Futures, ClearOwnership(f)
      PROVE  TypeOK'
  BY <1>16
  DEF ClearOwnership, Goto, Unclaim, TypeOK, row, worker, exec, hist,
      JobStates, HeartbeatStates, Phases, PCs, Beats
<1>17. ASSUME NEW f \in Futures, Cleanup(f)
      PROVE  TypeOK'
  BY <1>17
  DEF Cleanup, TypeOK, row, worker, exec, hist, JobStates,
      HeartbeatStates, Phases, PCs, Beats
<1>18. ASSUME NEW f \in Futures, RetryUncounted(f)
      PROVE  TypeOK'
  BY <1>18
  DEF RetryUncounted, BackToPending, Unclaim, Goto, TypeOK, row, worker,
      exec, hist, JobStates, HeartbeatStates, Phases, PCs, Beats
<1>19. ASSUME NEW f \in Futures, RetryCounted(f)
      PROVE  TypeOK'
  BY <1>19
  DEF RetryCounted, BackToPending, Unclaim, Goto, TypeOK, row, worker,
      exec, hist, JobStates, HeartbeatStates, Phases, PCs, Beats
<1>20. ASSUME NEW f \in Futures, HandleException(f)
      PROVE  TypeOK'
  <2>1. job[f] \in Jobs
    BY <1>20 DEF HandleException, TypeOK
  <2>2. state' \in [Jobs -> JobStates] /\ due' \in [Jobs -> BOOLEAN]
    <3>1. CASE Exhausted(job[f])
      <4>1. MovesTo(state, state', job[f], "failed")
        BY <1>20, <2>1, <3>1, FailedForGoodMoves DEF HandleException, FailForGood, TypeOK
      <4> QED
        BY <1>20, <2>1, <3>1, <4>1 DEF HandleException, FailForGood, TypeOK, MovesTo
    <3>2. CASE ~Exhausted(job[f])
      BY <1>20, <2>1, <3>2 DEF HandleException, BackToPending, TypeOK, JobStates
    <3> QED
      BY <3>1, <3>2
  <2>3. owner' \in [Jobs -> Workers \cup {NoWorker}] /\ heartbeat' \in [Jobs -> HeartbeatStates]
    BY <1>20, <2>1
    DEF HandleException, BackToPending, FailForGood, Unclaim, TypeOK, HeartbeatStates
  <2>4. UNCHANGED <<count, worker, job, host, timedOut, beat, hist>>
    BY <1>20 DEF HandleException, BackToPending, FailForGood
  <2>5. attempts' = [attempts EXCEPT ![job[f]] = @ + 1] /\ pc' = [pc EXCEPT ![f] = "cleanup"]
    BY <1>20 DEF HandleException, Goto
  <2>6. pc' \in [Futures -> PCs] /\ attempts' \in [Jobs -> Nat]
    BY <2>1, <2>5 DEF TypeOK, PCs
  <2>7. \A g \in Futures : pc'[g] # "idle" => job'[g] \in Jobs /\ host'[g] \in Workers
    BY <1>20, <2>4, <2>5 DEF TypeOK, HandleException
  <2> QED
    BY <2>2, <2>3, <2>4, <2>6, <2>7 DEF TypeOK, worker, hist
<1>21. ASSUME NEW f \in Futures, ModelGone(f)
      PROVE  TypeOK'
  <2>1. job[f] \in Jobs
    BY <1>21 DEF ModelGone, TypeOK
  <2>2. state' \in [Jobs -> JobStates]
    BY <1>21, <2>1, FailedForGoodMoves DEF ModelGone, FailForGood, TypeOK, MovesTo
  <2> QED
    BY <1>21, <2>1, <2>2
    DEF ModelGone, FailForGood, Goto, Unclaim, TypeOK, row, worker,
        exec, hist,
      JobStates, HeartbeatStates, Phases, PCs, Beats
<1>22. ASSUME NEW f \in Futures, HandlerFails(f)
      PROVE  TypeOK'
  BY <1>22
  DEF HandlerFails, Goto, TypeOK, row, worker, exec, hist, JobStates,
      HeartbeatStates, Phases, PCs, Beats
<1>23. ASSUME NEW w \in Workers, Crash(w)
      PROVE  TypeOK'
  BY <1>23
  DEF Crash, Vanish, TypeOK, row, worker, exec, hist, JobStates,
      HeartbeatStates, Phases, PCs, Beats
<1>24. ASSUME NEW w \in Workers, Stop(w)
      PROVE  TypeOK'
  BY <1>24
  DEF Stop, Vanish, TypeOK, row, worker, exec, hist, JobStates,
      HeartbeatStates, Phases, PCs, Beats
<1>25. ASSUME NEW j \in Jobs, BackoffElapses(j)
      PROVE  TypeOK'
  BY <1>25
  DEF BackoffElapses, TypeOK, row, worker, exec, hist, JobStates,
      HeartbeatStates, Phases, PCs, Beats
<1>26. ASSUME NEW j \in Jobs, HeartbeatAges(j)
      PROVE  TypeOK'
  BY <1>26
  DEF HeartbeatAges, TypeOK, row, worker, exec, hist, JobStates,
      HeartbeatStates, Phases, PCs, Beats
<1>27. ASSUME NEW j \in Jobs, ButtonRequeue(j)
      PROVE  TypeOK'
  BY <1>27
  DEF ButtonRequeue, Unclaim, TypeOK, row, worker, exec, hist,
      JobStates, HeartbeatStates, Phases, PCs, Beats
<1>28. ASSUME NEW j \in Jobs, ButtonSetToDone(j)
      PROVE  TypeOK'
  BY <1>28, DoneMoves, ReleasedCountType
  DEF ButtonSetToDone, MovesTo, TypeOK, row, worker, exec, hist,
      JobStates, HeartbeatStates, Phases, PCs, Beats
<1>29. ASSUME NEW j \in Jobs, ButtonSetToFailed(j)
      PROVE  TypeOK'
  BY <1>29, FailedForGoodMoves
  DEF ButtonSetToFailed, MovesTo, TypeOK, row, worker, exec, hist,
      JobStates, HeartbeatStates, Phases, PCs, Beats
<1>30. ASSUME NEW j \in Jobs, ButtonCancelled(j)
      PROVE  TypeOK'
  BY <1>30, CancelledMoves
  DEF ButtonCancelled, MovesTo, TypeOK, row, worker, exec, hist,
      JobStates, HeartbeatStates, Phases, PCs, Beats
<1>31. ASSUME NEW j \in Jobs, RunNow(j)
      PROVE  TypeOK'
  <2>1. CASE /\ state' = Succeeded(state, count, j)
             /\ count' = SucceededCount(state, count, j)
             /\ UNCHANGED <<owner, heartbeat, attempts, due, worker, exec, hist>>
    <3>1. state' \in [Jobs -> JobStates] /\ count' \in [Jobs -> Int]
      BY <2>1, SucceededMoves, SucceededCountType DEF TypeOK, MovesTo
    <3> QED
      BY <2>1, <3>1 DEF TypeOK, worker, exec, hist
  <2>2. CASE /\ state' = [state EXCEPT ![j] = "pending"]
             /\ \E isDue \in BOOLEAN : due' = [due EXCEPT ![j] = isDue]
             /\ \/ /\ attempts' = [attempts EXCEPT ![j] = @ + 1]
                   /\ UNCHANGED uncounted
                \/ /\ uncounted' = [uncounted EXCEPT ![j] = @ + 1]
                   /\ UNCHANGED attempts
             /\ UNCHANGED <<count, owner, heartbeat, worker, exec, starts>>
    BY <2>2 DEF TypeOK, worker, exec, JobStates
  <2> QED
    BY <1>31, <2>1, <2>2 DEF RunNow
<1>33. ASSUME NEW w \in Workers, NEW j \in Jobs, AcquireUnanswered(w, j)
      PROVE  TypeOK'
  BY <1>33
  DEF AcquireUnanswered, Claim, TypeOK, row, worker, exec, hist,
      JobStates, HeartbeatStates, Phases, PCs, Beats
<1>34. ASSUME NEW f \in Futures, FinalizeUnanswered(f)
      PROVE  TypeOK'
  <2>1. job[f] \in Jobs
    BY <1>34 DEF FinalizeUnanswered, TypeOK
  <2>2. state' \in [Jobs -> JobStates] /\ count' \in [Jobs -> Int]
    BY <1>34, <2>1, SucceededMoves, SucceededCountType
    DEF FinalizeUnanswered, TypeOK, MovesTo
  <2> QED
    BY <1>34, <2>1, <2>2
    DEF FinalizeUnanswered, Goto, Unclaim, TypeOK, row, worker, exec, hist,
      JobStates, HeartbeatStates, Phases, PCs, Beats
<1>32. CASE UNCHANGED vars
  BY <1>32
  DEF vars, row, worker, exec, hist, TypeOK, row, worker, exec, hist,
      JobStates, HeartbeatStates, Phases, PCs, Beats
<1> QED
  BY <1>1, <1>2, <1>3, <1>4, <1>5, <1>6, <1>7, <1>8, <1>9,
     <1>10, <1>11, <1>12, <1>13, <1>14, <1>15, <1>16, <1>17, <1>18,
     <1>19, <1>20, <1>21, <1>22, <1>23, <1>24, <1>25, <1>26, <1>27,
     <1>28, <1>29, <1>30, <1>31, <1>32, <1>33, <1>34
  DEF Next, QuietNext, LateAging, LostAnswers, Operator, Acquisition, Beating,
       Execution, ExceptionHandling, Processes, TimelyAging, Backoff

LEMMA TypeInit == Init => TypeOK
BY WiringAssumption, QueueAssumption
DEF Init, InitialState, InitialCount, TypeOK, row, worker, exec, hist,
    JobStates, HeartbeatStates, Phases, PCs, Beats

\* Every column, every worker and every execution keeps to its type, and a
\* live execution always knows its row and its process.
THEOREM TypeCorrect == Spec => []TypeOK
BY TypeInit, TypeStep, PTL DEF Spec

-----------------------------------------------------------------------------
(* The account of a row: what its runs were paid with. *)

\* The row neither starts a run nor returns to be run.
Keeps(d) ==
    /\ starts'[d] = starts[d] /\ uncounted'[d] = uncounted[d] /\ attempts'[d] >= attempts[d]
    /\ state'[d] \in {"waiting", "pending"} => state[d] \in {"waiting", "pending"}

\* The row is claimed, or claimed again: the latter pays an attempt, and only
\* while there is one.
Starts(d) ==
    /\ starts'[d] = starts[d] + 1 /\ uncounted'[d] = uncounted[d] /\ state'[d] = "started"
    /\ \/ state[d] = "pending" /\ attempts'[d] = attempts[d]
       \/ /\ state[d] = "started" /\ attempts'[d] = attempts[d] + 1
          /\ MaxRetries = 0 \/ attempts'[d] <= MaxRetries

\* The row is to be run again, which is charged, excused or forgiven.
Returns(d) ==
    /\ state'[d] = "pending"
    /\ \/ /\ starts'[d] = starts[d]
          /\ \/ attempts'[d] = attempts[d] + 1 /\ uncounted'[d] = uncounted[d]
             \/ attempts'[d] = attempts[d] /\ uncounted'[d] = uncounted[d] + 1
       \/ starts'[d] = 0 /\ attempts'[d] = 0 /\ uncounted'[d] = 0

\* A cascade that ends a row returns nobody.
LEMMA EndKeeps ==
    ASSUME NEW j \in Jobs, NEW s \in TerminalStates, MovesTo(state, state', j, s),
           UNCHANGED hist, \A d \in Jobs : attempts'[d] >= attempts[d]
    PROVE  \A d \in Jobs : Keeps(d)
BY DEF Keeps, MovesTo, TerminalStates, hist

\* Every step does one of these to every row.
LEMMA AccountStep ==
    ASSUME TypeOK, [Next]_vars
    PROVE  \A d \in Jobs : Keeps(d) \/ Starts(d) \/ Returns(d)
<1> DEFINE Kept == \A d \in Jobs : Keeps(d) \/ Starts(d) \/ Returns(d)
<1>1. ASSUME UNCHANGED <<state, attempts, hist>>
      PROVE  Kept
  BY <1>1 DEF Keeps, hist, TypeOK
<1>2. ASSUME NEW w \in Workers, NEW j \in Jobs, Claim(w, j), UNCHANGED uncounted,
             \/ Fresh(j) /\ UNCHANGED attempts
             \/ Abandoned(j) /\ ~Exhausted(j) /\ attempts' = [attempts EXCEPT ![j] = @ + 1]
      PROVE  Kept
  <2> SUFFICES ASSUME NEW d \in Jobs PROVE Keeps(d) \/ Starts(d)
    OBVIOUS
  <2>1. CASE d # j
    BY <1>2, <2>1 DEF Claim, Keeps, TypeOK
  <2>2. CASE d = j
    BY <1>2, <2>2, QueueAssumption DEF Claim, Fresh, Abandoned, Exhausted, Starts, TypeOK
  <2> QED
    BY <2>1, <2>2
<1>3. ASSUME NEW j \in Jobs, NEW s \in TerminalStates, MovesTo(state, state', j, s), UNCHANGED hist,
             attempts' = attempts \/ attempts' = [attempts EXCEPT ![j] = @ + 1]
      PROVE  Kept
  <2>1. \A d \in Jobs : attempts'[d] >= attempts[d]
    BY <1>3 DEF TypeOK
  <2> QED
    BY <1>3, <2>1, EndKeeps
<1>4. ASSUME NEW j \in Jobs, state' = [state EXCEPT ![j] = "pending"], UNCHANGED starts,
             \/ attempts' = [attempts EXCEPT ![j] = @ + 1] /\ UNCHANGED uncounted
             \/ uncounted' = [uncounted EXCEPT ![j] = @ + 1] /\ UNCHANGED attempts
      PROVE  Kept
  BY <1>4 DEF Keeps, Returns, TypeOK
<1>5. CASE Acquisition
  <2>1. ASSUME NEW w \in Workers, NEW j \in Jobs, ReclaimExhausted(w, j)
        PROVE  Kept
    <3>1. MovesTo(state, state', j, "failed")
      BY <2>1, FailedByReclaimMoves DEF ReclaimExhausted, TypeOK
    <3> QED
      BY <1>3, <2>1, <3>1 DEF ReclaimExhausted, TerminalStates
  <2>2. ASSUME NEW w \in Workers, NEW j \in Jobs,
               AcquireUnanswered(w, j) \/ \E f \in Futures : AcquireFresh(w, j, f) \/ Reclaim(w, j, f)
        PROVE  Kept
    BY <1>2, <2>2 DEF AcquireUnanswered, AcquireFresh, Reclaim, hist
  <2> QED
    BY <1>5, <2>1, <2>2 DEF Acquisition
<1>6. CASE Beating \/ Processes \/ TimelyAging \/ Backoff \/ LateAging \/ UNCHANGED vars
  BY <1>1, <1>6
  DEF Beating, UpdateHeartbeats, HeartbeatJob, TimeoutFires, HandleTimeout, HeartbeatEnds,
      Processes, Crash, Stop, TimelyAging, LateAging, HeartbeatAges, Backoff, BackoffElapses,
      row, hist, vars
<1>7. ASSUME NEW f \in Futures, Finalize(f) \/ FinalizeUnanswered(f)
      PROVE  Kept
  <2>1. job[f] \in Jobs /\ MovesTo(state, state', job[f], "done")
    BY <1>7, SucceededMoves DEF Finalize, FinalizeUnanswered, TypeOK
  <2> QED
    BY <1>3, <1>7, <2>1 DEF Finalize, FinalizeUnanswered, TerminalStates
<1>8. ASSUME NEW f \in Futures, Execution(f)
      PROVE  Kept
  BY <1>1, <1>7, <1>8
  DEF Execution, StartQueued, CommitSideEffects, Raise, ReturnLate, CheckAfterCommit,
      FinalizeFails, ClearOwnership, Cleanup, row, hist
<1>9. ASSUME NEW f \in Futures, ExceptionHandling(f)
      PROVE  Kept
  <2>1. CASE HandlerFails(f)
    BY <1>1, <2>1 DEF HandlerFails, row, hist
  <2>2. CASE RetryUncounted(f) \/ RetryCounted(f)
    <3>1. job[f] \in Jobs
      BY <2>2 DEF RetryUncounted, RetryCounted, TypeOK
    <3> QED
      BY <1>4, <2>2, <3>1 DEF RetryUncounted, RetryCounted, BackToPending, hist
  <2>3. CASE HandleException(f) \/ ModelGone(f)
    <3>1. job[f] \in Jobs /\ UNCHANGED hist
      BY <2>3 DEF HandleException, ModelGone, TypeOK
    <3>2. CASE FailForGood(job[f])
      <4>1. MovesTo(state, state', job[f], "failed")
        BY <3>1, <3>2, FailedForGoodMoves DEF FailForGood, TypeOK
      <4> QED
        BY <1>3, <2>3, <3>1, <4>1 DEF HandleException, ModelGone, TerminalStates
    <3>3. CASE BackToPending(job[f], FALSE) /\ HandleException(f)
      BY <1>4, <3>1, <3>3 DEF HandleException, BackToPending, hist
    <3> QED
      BY <2>3, <3>2, <3>3 DEF HandleException, ModelGone
  <2> QED
    BY <1>9, <2>1, <2>2, <2>3 DEF ExceptionHandling
<1>10. CASE Operator
  <2>1. ASSUME NEW j \in Jobs, ButtonRequeue(j)
        PROVE  Kept
    BY <2>1 DEF ButtonRequeue, Keeps, Returns, TypeOK
  <2>2. ASSUME NEW j \in Jobs, ButtonSetToDone(j) \/ ButtonSetToFailed(j) \/ ButtonCancelled(j)
        PROVE  Kept
    <3>1. \E s \in TerminalStates : MovesTo(state, state', j, s)
      BY <2>2, DoneMoves, FailedForGoodMoves, CancelledMoves
      DEF ButtonSetToDone, ButtonSetToFailed, ButtonCancelled, TerminalStates, TypeOK
    <3> QED
      BY <1>3, <2>2, <3>1 DEF ButtonSetToDone, ButtonSetToFailed, ButtonCancelled
  <2>3. ASSUME NEW j \in Jobs, RunNow(j)
        PROVE  Kept
    <3>1. CASE state' = Succeeded(state, count, j) /\ UNCHANGED <<attempts, hist>>
      <4>1. MovesTo(state, state', j, "done")
        BY <3>1, SucceededMoves DEF TypeOK
      <4> QED
        BY <1>3, <3>1, <4>1 DEF TerminalStates
    <3> QED
      BY <1>4, <2>3, <3>1 DEF RunNow
  <2> QED
    BY <1>10, <2>1, <2>2, <2>3 DEF Operator
<1>11. CASE LostAnswers
  BY <1>7, <1>11 DEF LostAnswers
<1> QED
  BY <1>5, <1>6, <1>8, <1>9, <1>10, <1>11 DEF Next, QuietNext

\* The retry accounting survives late heartbeats, crashes, operators and
\* executions that outlive their claim: the reclaim path and every exit of
\* handle_exception pay for the run that follows.
THEOREM RetriesAccounted == Spec => []RetryAccounting
<1>1. Init => RetryAccounting
  BY DEF Init, RetryAccounting
<1>2. TypeOK /\ TypeOK' /\ RetryAccounting /\ [Next]_vars => RetryAccounting'
  <2> SUFFICES ASSUME TypeOK, TypeOK', RetryAccounting, [Next]_vars, NEW d \in Jobs
               PROVE  starts'[d] <= attempts'[d] + uncounted'[d]
                        + (IF state'[d] \in {"waiting", "pending"} THEN 0 ELSE 1)
    BY DEF RetryAccounting
  <2>1. /\ {starts[d], attempts[d], uncounted[d], starts'[d], attempts'[d], uncounted'[d]} \subseteq Nat
        /\ starts[d] <= attempts[d] + uncounted[d]
                          + (IF state[d] \in {"waiting", "pending"} THEN 0 ELSE 1)
    BY DEF RetryAccounting, TypeOK
  <2>2. CASE Keeps(d)
    BY <2>1, <2>2 DEF Keeps
  <2>3. CASE Starts(d)
    BY <2>1, <2>3 DEF Starts
  <2>4. CASE Returns(d)
    BY <2>1, <2>4 DEF Returns
  <2> QED
    BY <2>2, <2>3, <2>4, AccountStep
<1> QED
  BY <1>1, <1>2, TypeCorrect, PTL DEF Spec

\* The step is not a RetryableJobError of a job whose attempts are used up
\* (handle_exception and run_now do not refuse it; other exceptions they do).
RetriesInTime ==
    \A j \in Jobs : state'[j] = "pending" /\ attempts'[j] > attempts[j] => attempts'[j] <= MaxRetries

\* Since its last requeue no job has been started more often than max_retries
\* and one more allow.
RunsBounded ==
    \A j \in Jobs : starts[j] <= MaxRetries + uncounted[j]
                                   + (IF state[j] \in {"waiting", "pending"} THEN 0 ELSE 1)

\* A job that raises, overruns, loses its bookkeeping or kills its worker is
\* started at most max_retries + 1 times, retries that are not to be counted
\* apart: whatever happens to heartbeats, claims and answers, and with
\* executions of the job that outlive their claim.  Only the RetryableJobErrors
\* of a job without attempts can exceed it.
THEOREM RunsStayBounded ==
    ASSUME MaxRetries # 0
    PROVE  Spec /\ [][RetriesInTime]_vars => []RunsBounded
<1>1. Init => RunsBounded
  BY QueueAssumption DEF Init, RunsBounded
<1>2. ASSUME TypeOK, TypeOK', RetryAccounting, RunsBounded, [Next]_vars, [RetriesInTime]_vars
      PROVE  RunsBounded'
  <2> SUFFICES ASSUME NEW d \in Jobs
               PROVE  starts'[d] <= MaxRetries + uncounted'[d]
                        + (IF state'[d] \in {"waiting", "pending"} THEN 0 ELSE 1)
    BY DEF RunsBounded
  <2>1. /\ {starts[d], attempts[d], uncounted[d], starts'[d], attempts'[d], uncounted'[d]} \subseteq Nat
        /\ starts[d] <= attempts[d] + uncounted[d]
                          + (IF state[d] \in {"waiting", "pending"} THEN 0 ELSE 1)
        /\ starts[d] <= MaxRetries + uncounted[d]
                          + (IF state[d] \in {"waiting", "pending"} THEN 0 ELSE 1)
    BY <1>2 DEF RetryAccounting, RunsBounded, TypeOK
  <2>2. MaxRetries \in Nat
    BY QueueAssumption
  <2>3. CASE Keeps(d)
    BY <2>1, <2>2, <2>3 DEF Keeps
  <2>4. CASE Starts(d)
    BY <2>1, <2>2, <2>4 DEF Starts
  <2>5. CASE Returns(d)
    <3>1. attempts'[d] > attempts[d] => attempts'[d] <= MaxRetries
      BY <1>2, <2>1, <2>5 DEF Returns, RetriesInTime, vars, row
    <3> QED
      BY <2>1, <2>2, <2>5, <3>1 DEF Returns
  <2> QED
    BY <1>2, <2>3, <2>4, <2>5, AccountStep
<1> QED
  BY <1>1, <1>2, TypeCorrect, RetriesAccounted, PTL DEF Spec
=============================================================================
