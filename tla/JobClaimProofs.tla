--------------------------- MODULE JobClaimProofs ---------------------------
(***************************************************************************)
(* Theorems about JobQueue left alone (no operator, heartbeats on time),   *)
(* for every set of rows, wiring, workers and executions: who holds a row, *)
(* that the table goes through the transactions of JobGraph, and what      *)
(* follows for the rows of a graph.                                        *)
(*                                                                         *)
(* They rest on one condition, SeparateExecutions.  Under every button and *)
(* late heartbeat it holds of workers with one pool thread                 *)
(* (OneThreadSeparates).  With more threads it takes an acquire query that *)
(* skips the worker's own rows (OwnRowsSkipped); the code's does not, and  *)
(* MCJobQueue_own_row.cfg shows what follows.                              *)
(***************************************************************************)
EXTENDS JobQueueProofs, FiniteSetTheorems, FunctionTheorems


Live(f) == pc[f] # "idle"

\* No process runs one job in two executions at once.  worker_id and
\* active_job_ids cannot tell such a pair apart.
SeparateExecutions ==
    \A f, g \in Futures : f # g /\ Live(f) /\ Live(g) /\ host[f] = host[g] => job[f] # job[g]

\* f has not overrun, or is past the point where that is looked at.
Holding(f) ==
    \/ pc[f] = "running" /\ ~timedOut[f]
    \/ pc[f] \in {"committed", "finalizing", "failing"}

\* Every live execution is counted in its worker's active_job_ids ...
SlotsCounted ==
    /\ \A w \in Workers : IsFiniteSet(active[w])
    /\ \A f \in Futures : Live(f) => job[f] \in active[host[f]]
\* ... so that nothing is ever left to the pool's queue;
NothingQueued == \A f \in Futures : pc[f] # "queued"
\* a row claimed for a process that works on it is started and has a heartbeat,
OwnedRowsStarted ==
    \A f \in Futures : Live(f) /\ OwnsRow(f) => state[job[f]] = "started" /\ heartbeat[job[f]] # "null"
\* and the row of an execution that has not overrun is claimed for its process,
\* with a fresh heartbeat.
HeldRowsFresh ==
    \A f \in Futures : Holding(f) => OwnsRow(f) /\ heartbeat[job[f]] = "fresh"

ClaimInv == SlotsCounted /\ NothingQueued /\ OwnedRowsStarted /\ HeldRowsFresh

-----------------------------------------------------------------------------
\* A worker that looks for work has an idle pool thread.
LEMMA FreeSlotFreeThread ==
    ASSUME TypeOK, SeparateExecutions, SlotsCounted, NothingQueued,
           NEW w \in Workers, HasFreeSlot(w)
    PROVE  Queued(w) = {} /\ Cardinality(Busy(w)) < Concurrency
<1> DEFINE held == [f \in Busy(w) |-> job[f]]
<1>1. Queued(w) = {}
  BY DEF NothingQueued, Queued
<1>2. held \in [Busy(w) -> active[w]]
  BY DEF SlotsCounted, Busy, Live
<1>3. \A f, g \in Busy(w) : held[f] = held[g] => f = g
  BY DEF SeparateExecutions, Busy, Live
<1>4. held \in Injection(Busy(w), active[w])
  BY <1>2, <1>3, Fun_IsInj
<1>5. IsFiniteSet(active[w])
  BY DEF SlotsCounted
<1>6. IsFiniteSet(Busy(w)) /\ Cardinality(Busy(w)) <= Cardinality(active[w])
  BY <1>4, <1>5, FS_Injection DEF ExistsInjection
<1> QED
  BY <1>1, <1>5, <1>6, FS_CardinalityType, QueueAssumption DEF HasFreeSlot

\* A row that is taken is not one that somebody holds.
LEMMA TakenRowsAreFree ==
    ASSUME ClaimInv, NEW j \in Jobs, Fresh(j) \/ Abandoned(j),
           NEW f \in Futures, Holding(f)
    PROVE  job[f] # j
BY DEF ClaimInv, OwnedRowsStarted, HeldRowsFresh, Holding, Live, Fresh, Abandoned

\* Acquisition by w, with an execution.
LEMMA SubmissionClaims ==
    ASSUME TypeOK, ClaimInv, SeparateExecutions,
           NEW w \in Workers, NEW j \in Jobs, NEW f \in Futures,
           HasFreeSlot(w), Fresh(j) \/ Abandoned(j), Claim(w, j), Submit(w, j, f)
    PROVE  ClaimInv'
<1>1. Queued(w) = {} /\ Cardinality(Busy(w)) < Concurrency
  BY FreeSlotFreeThread DEF ClaimInv
<1>2. pc[f] = "idle" /\ pc' = [pc EXCEPT ![f] = "running"]
  BY <1>1 DEF Submit
<1>3. /\ job' = [job EXCEPT ![f] = j] /\ host' = [host EXCEPT ![f] = w]
      /\ timedOut' = [timedOut EXCEPT ![f] = FALSE]
      /\ active' = [active EXCEPT ![w] = @ \cup {j}]
  BY DEF Submit
<1>4. /\ state' = [state EXCEPT ![j] = "started"] /\ owner' = [owner EXCEPT ![j] = w]
      /\ heartbeat' = [heartbeat EXCEPT ![j] = "fresh"]
  BY DEF Claim
<1>5. SlotsCounted'
  <2>1. \A v \in Workers : IsFiniteSet(active'[v])
    BY <1>3, FS_AddElement DEF ClaimInv, SlotsCounted, TypeOK
  <2> QED
    BY <1>2, <1>3, <2>1 DEF ClaimInv, SlotsCounted, Live, TypeOK
<1>6. NothingQueued'
  BY <1>2 DEF ClaimInv, NothingQueued, TypeOK
<1>7. OwnedRowsStarted'
  BY <1>2, <1>3, <1>4 DEF ClaimInv, OwnedRowsStarted, OwnsRow, Live, TypeOK
<1>8. HeldRowsFresh'
  <2>1. \A g \in Futures \ {f} : Holding(g) => job[g] # j
    BY TakenRowsAreFree
  <2> QED
    BY <1>2, <1>3, <1>4, <2>1 DEF ClaimInv, HeldRowsFresh, Holding, OwnsRow, TypeOK
<1> QED
  BY <1>5, <1>6, <1>7, <1>8 DEF ClaimInv

\* An execution that writes its row back and lets it go.
LEMMA WriteBackClaims ==
    ASSUME TypeOK, ClaimInv, SeparateExecutions,
           NEW f \in Futures, Holding(f),
           NEW s, MovesTo(state, state', job[f], s), Unclaim(job[f]), Goto(f, "cleanup"),
           UNCHANGED <<worker, job, host, timedOut>>
    PROVE  ClaimInv'
<1>1. job[f] \in Jobs /\ host[f] \in Workers /\ Live(f)
  BY DEF Holding, Live, TypeOK
<1>2. /\ pc' = [pc EXCEPT ![f] = "cleanup"]
      /\ owner' = [owner EXCEPT ![job[f]] = NoWorker]
      /\ heartbeat' = [heartbeat EXCEPT ![job[f]] = "null"]
  BY DEF Goto, Unclaim
<1>3. OwnsRow(f)
  BY DEF ClaimInv, HeldRowsFresh
<1>4. SlotsCounted' /\ NothingQueued'
  BY <1>1, <1>2 DEF ClaimInv, SlotsCounted, NothingQueued, Live, worker, TypeOK
<1>5. OwnedRowsStarted'
  BY <1>1, <1>2, QueueAssumption DEF ClaimInv, OwnedRowsStarted, OwnsRow, Live, MovesTo, TypeOK
<1>6. ASSUME NEW g \in Futures, Holding(g), g # f
      PROVE  job[g] # job[f]
  BY <1>1, <1>3, <1>6 DEF ClaimInv, HeldRowsFresh, Holding, SeparateExecutions, OwnsRow, Live
<1>7. HeldRowsFresh'
  BY <1>1, <1>2, <1>6 DEF ClaimInv, HeldRowsFresh, Holding, OwnsRow, TypeOK
<1> QED
  BY <1>4, <1>5, <1>7 DEF ClaimInv

LEMMA ClaimInit == Init => ClaimInv
BY FS_EmptySet DEF Init, ClaimInv, SlotsCounted, NothingQueued, OwnedRowsStarted, HeldRowsFresh,
   Live, Holding

\* Steps that write no row and submit nothing.
LEMMA MoveOnClaims ==
    ASSUME TypeOK, ClaimInv, NEW f \in Futures, Live(f), NEW label \in PCs \ {"idle", "queued"},
           Goto(f, label), UNCHANGED <<row, worker, job, host, timedOut>>,
           label \in {"running", "committed", "finalizing", "failing"} => Holding(f)
    PROVE  ClaimInv'
BY DEF ClaimInv, SlotsCounted, NothingQueued, OwnedRowsStarted, HeldRowsFresh,
   Live, Holding, OwnsRow, Goto, row, worker, TypeOK

\* Inductive as long as no process runs one job twice.
LEMMA ClaimStep ==
    ASSUME TypeOK, SeparateExecutions, ClaimInv, [QuietNext]_vars
    PROVE  ClaimInv'
<1>1. ASSUME NEW w \in Workers, NEW j \in Jobs, NEW f \in Futures,
             AcquireFresh(w, j, f) \/ Reclaim(w, j, f)
      PROVE  ClaimInv'
  BY <1>1, SubmissionClaims DEF AcquireFresh, Reclaim
<1>2. ASSUME NEW w \in Workers, NEW j \in Jobs, AcquireUnanswered(w, j)
      PROVE  ClaimInv'
  <2>1. /\ Fresh(j) \/ Abandoned(j)
        /\ Claim(w, j)
        /\ UNCHANGED <<worker, exec>>
    BY <1>2 DEF AcquireUnanswered
  <2>2. \A f \in Futures : Holding(f) => job[f] # j
    BY <2>1, TakenRowsAreFree
  <2>3. SlotsCounted' /\ NothingQueued'
    BY <2>1 DEF ClaimInv, SlotsCounted, NothingQueued, Live, worker, exec
  <2>4. OwnedRowsStarted'
    BY <2>1 DEF ClaimInv, OwnedRowsStarted, Live, OwnsRow, Claim, worker, exec, TypeOK
  <2>5. HeldRowsFresh'
    BY <2>1, <2>2 DEF ClaimInv, HeldRowsFresh, Holding, OwnsRow, Claim, worker, exec, TypeOK
  <2> QED
    BY <2>3, <2>4, <2>5 DEF ClaimInv
<1>3. ASSUME NEW w \in Workers, NEW j \in Jobs, ReclaimExhausted(w, j)
      PROVE  ClaimInv'
  <2>1. Abandoned(j) /\ MovesTo(state, state', j, "failed") /\ Unclaim(j)
    BY <1>3, FailedByReclaimMoves DEF ReclaimExhausted, TypeOK
  <2>2. UNCHANGED <<worker, exec>>
    BY <1>3 DEF ReclaimExhausted
  <2>3. \A f \in Futures : Holding(f) => job[f] # j
    BY <2>1, TakenRowsAreFree
  <2>4. SlotsCounted' /\ NothingQueued'
    BY <2>2 DEF ClaimInv, SlotsCounted, NothingQueued, Live, worker, exec
  <2>5. OwnedRowsStarted'
    BY <2>1, <2>2, QueueAssumption
    DEF ClaimInv, OwnedRowsStarted, Live, OwnsRow, Unclaim, MovesTo, worker, exec, TypeOK
  <2>6. HeldRowsFresh'
    BY <2>1, <2>2, <2>3 DEF ClaimInv, HeldRowsFresh, Holding, OwnsRow, Unclaim, worker, exec, TypeOK
  <2> QED
    BY <2>4, <2>5, <2>6 DEF ClaimInv
<1>4. ASSUME NEW w \in Workers, UpdateHeartbeats(w)
      PROVE  ClaimInv'
  BY <1>4
  DEF UpdateHeartbeats, ClaimInv, SlotsCounted, NothingQueued, OwnedRowsStarted, HeldRowsFresh,
      Live, Holding, OwnsRow, worker, exec, TypeOK
<1>5. ASSUME NEW f \in Futures,
             HeartbeatJob(f) \/ TimeoutFires(f) \/ HandleTimeout(f) \/ HeartbeatEnds(f)
      PROVE  ClaimInv'
  BY <1>5
  DEF HeartbeatJob, TimeoutFires, HandleTimeout, HeartbeatEnds,
      ClaimInv, SlotsCounted, NothingQueued, OwnedRowsStarted, HeldRowsFresh,
      Live, Holding, OwnsRow, row, worker, exec, TypeOK
<1>6. ASSUME NEW f \in Futures, StartQueued(f)
      PROVE  ClaimInv'
  BY <1>6 DEF StartQueued, ClaimInv, NothingQueued
<1>7. ASSUME NEW f \in Futures,
             \/ CommitSideEffects(f) \/ Raise(f) \/ ReturnLate(f)
             \/ CheckAfterCommit(f) \/ FinalizeFails(f) \/ HandlerFails(f)
      PROVE  ClaimInv'
  BY <1>7, MoveOnClaims
  DEF CommitSideEffects, Raise, ReturnLate, CheckAfterCommit, FinalizeFails, HandlerFails,
      Live, Holding, PCs
<1>8. ASSUME NEW f \in Futures, Finalize(f)
      PROVE  ClaimInv'
  <2>1. job[f] \in Jobs /\ Holding(f)
    BY <1>8 DEF Finalize, Holding, TypeOK
  <2>2. MovesTo(state, state', job[f], "done")
    BY <1>8, <2>1, SucceededMoves DEF Finalize, TypeOK
  <2> QED
    BY <1>8, <2>1, <2>2, WriteBackClaims DEF Finalize
<1>9. ASSUME NEW f \in Futures, ClearOwnership(f)
      PROVE  ClaimInv'
  <2>1. job[f] \in Jobs /\ host[f] \in Workers /\ Live(f) /\ Goto(f, "cleanup")
        /\ UNCHANGED <<state, worker, job, host, timedOut>>
    BY <1>9 DEF ClearOwnership, Live, TypeOK
  <2>2. CASE OwnsRow(f) /\ Unclaim(job[f])
    <3>1. \A g \in Futures : Holding(g) => job[g] # job[f]
      <4> SUFFICES ASSUME NEW g \in Futures, Holding(g), job[g] = job[f] PROVE FALSE
        OBVIOUS
      <4>1. g # f
        BY <1>9 DEF ClearOwnership, Holding
      <4>2. OwnsRow(g)
        BY DEF ClaimInv, HeldRowsFresh
      <4> QED
        BY <2>1, <2>2, <4>1, <4>2 DEF SeparateExecutions, OwnsRow, Live, Holding
    <3>2. SlotsCounted' /\ NothingQueued'
      BY <2>1 DEF Goto, ClaimInv, SlotsCounted, NothingQueued, Live, worker, TypeOK
    <3>3. OwnedRowsStarted'
      BY <2>1, <2>2, QueueAssumption
      DEF ClaimInv, OwnedRowsStarted, Live, OwnsRow, Unclaim, Goto, TypeOK
    <3>4. HeldRowsFresh'
      BY <2>1, <2>2, <3>1 DEF ClaimInv, HeldRowsFresh, Holding, OwnsRow, Unclaim, Goto, TypeOK
    <3> QED
      BY <3>2, <3>3, <3>4 DEF ClaimInv
  <2>3. CASE UNCHANGED <<owner, heartbeat>>
    BY <2>1, <2>3
    DEF Goto, ClaimInv, SlotsCounted, NothingQueued, OwnedRowsStarted, HeldRowsFresh,
        Live, Holding, OwnsRow, worker, TypeOK
  <2> QED
    BY <1>9, <2>2, <2>3 DEF ClearOwnership
<1>10. ASSUME NEW f \in Futures, Cleanup(f)
       PROVE  ClaimInv'
  <2>0. \A w \in Workers : active'[w] = active[w] \/ active'[w] = active[w] \ {job[f]}
    BY <1>10 DEF Cleanup, TypeOK
  <2>1. \A w \in Workers : IsFiniteSet(active'[w])
    BY <2>0, FS_RemoveElement DEF ClaimInv, SlotsCounted
  <2>2. \A g \in Futures \ {f} : Live(g) => job[g] # job[f] \/ host[g] # host[f]
    BY <1>10 DEF Cleanup, SeparateExecutions, Live
  <2>3. SlotsCounted'
    BY <1>10, <2>1, <2>2 DEF Cleanup, ClaimInv, SlotsCounted, Live, TypeOK
  <2> QED
    BY <1>10, <2>3
    DEF Cleanup, ClaimInv, NothingQueued, OwnedRowsStarted, HeldRowsFresh,
        Live, Holding, OwnsRow, row, TypeOK
<1>11. ASSUME NEW f \in Futures, RetryUncounted(f) \/ RetryCounted(f)
       PROVE  ClaimInv'
  <2>1. job[f] \in Jobs /\ Holding(f)
    BY <1>11 DEF RetryUncounted, RetryCounted, Holding, TypeOK
  <2>2. MovesTo(state, state', job[f], "pending")
    BY <1>11, <2>1, PendingMoves DEF RetryUncounted, RetryCounted, BackToPending, TypeOK
  <2> QED
    BY <1>11, <2>1, <2>2, WriteBackClaims DEF RetryUncounted, RetryCounted, BackToPending
<1>12. ASSUME NEW f \in Futures, HandleException(f) \/ ModelGone(f)
       PROVE  ClaimInv'
  <2>1. job[f] \in Jobs /\ Holding(f)
    BY <1>12 DEF HandleException, ModelGone, Holding, TypeOK
  <2>2. CASE FailForGood(job[f])
    <3>1. MovesTo(state, state', job[f], "failed")
      BY <2>1, <2>2, FailedForGoodMoves DEF FailForGood, TypeOK
    <3> QED
      BY <1>12, <2>1, <2>2, <3>1, WriteBackClaims DEF HandleException, ModelGone, FailForGood
  <2>3. CASE BackToPending(job[f], FALSE)
    <3>1. MovesTo(state, state', job[f], "pending")
      BY <2>1, <2>3, PendingMoves DEF BackToPending, TypeOK
    <3> QED
      BY <1>12, <2>1, <2>3, <3>1, WriteBackClaims DEF HandleException, ModelGone, BackToPending
  <2> QED
    BY <1>12, <2>2, <2>3 DEF HandleException, ModelGone
<1>13. ASSUME NEW w \in Workers, Crash(w)
       PROVE  ClaimInv'
  <2>1. \A v \in Workers : IsFiniteSet(active'[v])
    BY <1>13, FS_EmptySet DEF Crash, ClaimInv, SlotsCounted, TypeOK
  <2>2. SlotsCounted'
    BY <1>13, <2>1 DEF Crash, Vanish, Busy, Queued, ClaimInv, SlotsCounted, Live, TypeOK
  <2> QED
    BY <1>13, <2>2
    DEF Crash, Vanish, ClaimInv, NothingQueued, OwnedRowsStarted, HeldRowsFresh,
        Live, Holding, OwnsRow, row, TypeOK
<1>14. ASSUME NEW w \in Workers, Stop(w)
       PROVE  ClaimInv'
  BY <1>14
  DEF Stop, Vanish, Queued, ClaimInv, SlotsCounted, NothingQueued, OwnedRowsStarted,
      HeldRowsFresh, Live, Holding, OwnsRow, row, TypeOK
<1>15. ASSUME NEW j \in Jobs, ~Attended(j), HeartbeatAges(j)
       PROVE  ClaimInv'
  <2>1. \A f \in Futures : Holding(f) => job[f] # j
    BY <1>15 DEF Attended, Holding, ClaimInv, HeldRowsFresh
  <2>2. UNCHANGED <<state, owner, worker, exec>> /\ heartbeat' = [heartbeat EXCEPT ![j] = "stale"]
    BY <1>15 DEF HeartbeatAges
  <2> QED
    BY <2>1, <2>2
    DEF ClaimInv, SlotsCounted, NothingQueued, OwnedRowsStarted, HeldRowsFresh,
        Live, Holding, OwnsRow, worker, exec, TypeOK
<1>16. ASSUME UNCHANGED <<state, owner, heartbeat, worker, exec>>
       PROVE  ClaimInv'
  BY <1>16
  DEF ClaimInv, SlotsCounted, NothingQueued, OwnedRowsStarted, HeldRowsFresh,
      Live, Holding, OwnsRow, worker, exec
<1>17. ASSUME NEW j \in Jobs, BackoffElapses(j)
       PROVE  ClaimInv'
  BY <1>16, <1>17 DEF BackoffElapses
<1>18. CASE UNCHANGED vars
  BY <1>16, <1>18 DEF vars, row
<1> QED
  BY <1>1, <1>2, <1>3, <1>4, <1>5, <1>6, <1>7, <1>8, <1>9, <1>10, <1>11, <1>12, <1>13, <1>14,
     <1>15, <1>17, <1>18
  DEF QuietNext, Acquisition, Beating, Execution, ExceptionHandling, Processes, TimelyAging, Backoff

-----------------------------------------------------------------------------
LEMMA ClaimedRowsHeld ==
    ASSUME ClaimInv
    PROVE  ClaimHeld
BY DEF ClaimInv, NothingQueued, OwnedRowsStarted, HeldRowsFresh, Live, Holding, ClaimHeld

LEMMA HeldRowsExclusive ==
    ASSUME ClaimInv, SeparateExecutions
    PROVE  ExclusiveExecution
BY DEF ClaimInv, HeldRowsFresh, SeparateExecutions, Live, Holding, OwnsRow, Running, ExclusiveExecution

\* An execution whose row leaves its hands under it has a stale heartbeat.
LEMMA StaleBeforeLost ==
    ASSUME TypeOK, SeparateExecutions, ClaimInv, [QuietNext]_vars,
           NEW f \in Futures, Running(f), OwnsRow(f), Running(f)',
           state'[job[f]] # "started" \/ owner'[job[f]] # owner[job[f]]
    PROVE  heartbeat[job[f]] = "stale"
<1>0. job[f] \in Jobs /\ host[f] \in Workers /\ Live(f)
      /\ state[job[f]] = "started" /\ heartbeat[job[f]] # "null"
  BY DEF TypeOK, Running, Live, ClaimInv, OwnedRowsStarted
<1>1. ASSUME NEW w \in Workers, NEW j \in Jobs, Claim(w, j), Fresh(j) \/ Abandoned(j)
      PROVE  heartbeat[job[f]] = "stale"
  BY <1>0, <1>1 DEF Claim, Fresh, Abandoned, TypeOK
<1>2. ASSUME NEW w \in Workers, NEW j \in Jobs, ReclaimExhausted(w, j)
      PROVE  heartbeat[job[f]] = "stale"
  <2>1. Abandoned(j) /\ MovesTo(state, state', j, "failed") /\ Unclaim(j)
    BY <1>2, FailedByReclaimMoves DEF ReclaimExhausted, TypeOK
  <2> QED
    BY <1>0, <2>1 DEF Abandoned, MovesTo, Unclaim, TypeOK
<1>3. ASSUME UNCHANGED <<state, owner>>
      PROVE  FALSE
  BY <1>0, <1>3
<1>4. ASSUME NEW g \in Futures, Live(g), OwnsRow(g), pc'[g] = "cleanup", Unclaim(job[g]),
             \A d \in Jobs \ {job[g]} : state[d] = "started" => state'[d] = state[d]
      PROVE  FALSE
  <2>1. g # f /\ job[g] \in Jobs
    BY <1>4 DEF Live, Running, TypeOK
  <2>2. job[g] # job[f]
    BY <1>0, <1>4, <2>1 DEF SeparateExecutions, OwnsRow
  <2> QED
    BY <1>0, <1>4, <2>1, <2>2 DEF Unclaim, TypeOK
<1>5. ASSUME NEW g \in Futures, Holding(g), Goto(g, "cleanup"),
             \/ FailForGood(job[g]) \/ \E isDue \in BOOLEAN : BackToPending(job[g], isDue)
             \/ Unclaim(job[g]) /\ state' = Succeeded(state, count, job[g])
      PROVE  FALSE
  <2>1. job[g] \in Jobs /\ Live(g) /\ OwnsRow(g) /\ pc'[g] = "cleanup" /\ Unclaim(job[g])
    BY <1>5 DEF Holding, Live, Goto, ClaimInv, HeldRowsFresh, FailForGood, BackToPending, TypeOK
  <2>2. \E s : MovesTo(state, state', job[g], s)
    BY <1>5, <2>1, FailedForGoodMoves, PendingMoves, SucceededMoves
    DEF FailForGood, BackToPending, TypeOK
  <2>3. \A d \in Jobs \ {job[g]} : state[d] = "started" => state'[d] = state[d]
    BY <2>2 DEF MovesTo
  <2> QED
    BY <1>4, <2>1, <2>3
<1>6. ASSUME NEW g \in Futures, Execution(g)
      PROVE  FALSE
  <2>1. CASE Finalize(g)
    BY <1>5, <2>1 DEF Finalize, Holding
  <2>2. CASE ClearOwnership(g)
    <3>1. Live(g) /\ pc'[g] = "cleanup" /\ UNCHANGED state
      BY <2>2 DEF ClearOwnership, Goto, Live, TypeOK
    <3> QED
      BY <1>3, <1>4, <2>2, <3>1 DEF ClearOwnership
  <2> QED
    BY <1>3, <1>6, <2>1, <2>2
    DEF Execution, StartQueued, CommitSideEffects, Raise, ReturnLate, CheckAfterCommit,
        FinalizeFails, Cleanup, row
<1>7. ASSUME NEW g \in Futures, ExceptionHandling(g)
      PROVE  FALSE
  BY <1>3, <1>5, <1>7
  DEF ExceptionHandling, RetryUncounted, RetryCounted, HandleException, ModelGone, HandlerFails,
      Holding, row
<1>8. ASSUME Beating \/ Processes \/ TimelyAging \/ Backoff \/ UNCHANGED vars
      PROVE  FALSE
  BY <1>3, <1>8
  DEF Beating, UpdateHeartbeats, HeartbeatJob, TimeoutFires, HandleTimeout, HeartbeatEnds,
      Processes, Crash, Stop, TimelyAging, HeartbeatAges, Backoff, BackoffElapses, row, vars
<1>9. CASE Acquisition
  BY <1>1, <1>2, <1>9 DEF Acquisition, AcquireFresh, Reclaim, AcquireUnanswered
<1> QED
  BY <1>6, <1>7, <1>8, <1>9 DEF QuietNext

-----------------------------------------------------------------------------
LEMMA QuietSteps == [QuietNext]_vars => [Next]_vars
BY DEF Next

\* ClaimInv holds, whatever the pool size, until a process runs a job twice.
LEMMA ClaimsInvariant ==
    QuietSpec /\ []SeparateExecutions => [](TypeOK /\ ClaimInv)
<1>1. Init => TypeOK /\ ClaimInv
  BY TypeInit, ClaimInit
<1>2. TypeOK /\ ClaimInv /\ SeparateExecutions /\ [QuietNext]_vars => TypeOK' /\ ClaimInv'
  BY TypeStep, QuietSteps, ClaimStep
<1> QED
  BY <1>1, <1>2, PTL DEF QuietSpec

\* The row of an execution that has not overrun is started and claimed by its
\* own worker (the guard of the acquire query, heartbeats, write-backs).
THEOREM ClaimsHold ==
    QuietSpec /\ []SeparateExecutions => []ClaimHeld
BY ClaimsInvariant, ClaimedRowsHeld, PTL

\* Two threads run one job's method at once only if one has overrun, whichever
\* processes they belong to.
THEOREM ExecutionsExclusive ==
    QuietSpec /\ []SeparateExecutions => []ExclusiveExecution
BY ClaimsInvariant, HeldRowsExclusive, PTL

\* A running execution's row is taken from it only after its heartbeat went
\* stale: a timeout or another execution's end never releases it.
THEOREM HeldTillStale ==
    QuietSpec /\ []SeparateExecutions => HeldUntilStale
<1>1. TypeOK /\ ClaimInv /\ SeparateExecutions /\ [QuietNext]_vars
        => [\A f \in Futures :
              LET j == job[f]
              IN  (Running(f) /\ OwnsRow(f) /\ Running(f)' /\ (state'[j] # "started" \/ owner'[j] # owner[j]))
                      => heartbeat[j] = "stale"]_vars
  BY StaleBeforeLost
<1> QED
  BY <1>1, ClaimsInvariant, PTL DEF QuietSpec, HeldUntilStale

\* An execution that lets a row go after its timeout does not take the claim of
\* a newer execution: worker_id in the UPDATE's condition is enough as long as a
\* process has one execution of a job.
THEOREM OwnClaimsCleared ==
    QuietSpec /\ []SeparateExecutions => ClearsOnlyItsOwnClaim
<1> DEFINE Clears(f) == pc[f] = "releasing" /\ pc'[f] = "cleanup" /\ owner'[job[f]] # owner[job[f]]
<1>1. ASSUME TypeOK, [QuietNext]_vars, NEW f \in Futures, Clears(f)
      PROVE  OwnsRow(f)
  <2>1. ASSUME NEW g \in Futures, Execution(g)
        PROVE  OwnsRow(f)
    <3>1. CASE g = f
      BY <1>1, <2>1, <3>1
      DEF Execution, StartQueued, CommitSideEffects, Raise, ReturnLate, CheckAfterCommit, Finalize,
          FinalizeFails, ClearOwnership, Cleanup, Goto
    <3>2. CASE g # f
      BY <1>1, <2>1, <3>2
      DEF Execution, StartQueued, CommitSideEffects, Raise, ReturnLate, CheckAfterCommit, Finalize,
          FinalizeFails, ClearOwnership, Cleanup, Goto, TypeOK
    <3> QED
      BY <3>1, <3>2
  <2>2. ASSUME NEW g \in Futures, ExceptionHandling(g)
        PROVE  FALSE
    BY <1>1, <2>2
    DEF ExceptionHandling, RetryUncounted, RetryCounted, HandleException, ModelGone, HandlerFails,
        Goto, TypeOK
  <2>3. CASE Beating \/ Processes \/ TimelyAging \/ Backoff \/ UNCHANGED vars
    BY <1>1, <2>3
    DEF Beating, UpdateHeartbeats, HeartbeatJob, TimeoutFires, HandleTimeout, HeartbeatEnds,
        Processes, Crash, Stop, TimelyAging, HeartbeatAges, Backoff, BackoffElapses, row, exec, vars
  <2>4. CASE Acquisition
    BY <1>1, <2>4
    DEF Acquisition, AcquireFresh, Reclaim, AcquireUnanswered, ReclaimExhausted, Submit, exec, TypeOK
  <2> QED
    BY <1>1, <2>1, <2>2, <2>3, <2>4 DEF QuietNext
<1>2. ASSUME TypeOK, ClaimInv, SeparateExecutions, [QuietNext]_vars,
             NEW f \in Futures, Clears(f), NEW g \in Futures, g # f, job[g] = job[f],
             Running(g), ~timedOut[g]
      PROVE  FALSE
  <2>1. OwnsRow(g) /\ OwnsRow(f) /\ Live(f) /\ Live(g)
    BY <1>1, <1>2 DEF ClaimInv, HeldRowsFresh, Holding, Running, Live
  <2> QED
    BY <1>2, <2>1 DEF OwnsRow, SeparateExecutions
<1>3. TypeOK /\ ClaimInv /\ SeparateExecutions /\ [QuietNext]_vars
        => [\A f \in Futures :
              (pc[f] = "releasing" /\ pc'[f] = "cleanup" /\ owner'[job[f]] # owner[job[f]])
                  => ~\E g \in Futures : g # f /\ job[g] = job[f] /\ Running(g) /\ ~timedOut[g]]_vars
  BY <1>2
<1> QED
  BY <1>3, ClaimsInvariant, PTL DEF QuietSpec, ClearsOnlyItsOwnClaim

-----------------------------------------------------------------------------
(* The refinement of JobGraph. *)

\* The instance's cascades are the cascades.
LEMMA SameCascades ==
    ASSUME NEW st, NEW cnt, NEW j
    PROVE  /\ Graph!Succeeded(st, cnt, j) = Succeeded(st, cnt, j)
           /\ Graph!SucceededCount(st, cnt, j) = SucceededCount(st, cnt, j)
           /\ Graph!FailedForGood(st, j) = FailedForGood(st, j)
           /\ Graph!FailedByReclaim(st, j) = FailedByReclaim(st, j)
<1> USE DEF Graph!Handlers, Handlers, Graph!Move, Move,
            Graph!WaitingChildren, WaitingChildren, Graph!Closure, Closure
<1>1. \A s, i : Graph!WaitingDependents(s, i) = WaitingDependents(s, i)
  BY DEF Graph!WaitingDependents, WaitingDependents, Graph!DependencySet, DependencySet
<1>2. \A s, i : Graph!ChildrenOnSuccess(s, i) = ChildrenOnSuccess(s, i)
  BY DEF Graph!ChildrenOnSuccess, ChildrenOnSuccess
<1>3. \A s, i : Graph!ChildrenOnFailure(s, i) = ChildrenOnFailure(s, i)
  BY DEF Graph!ChildrenOnFailure, ChildrenOnFailure
<1>4. \A s, c, i : Graph!DependentsOnSuccess(s, c, i) = DependentsOnSuccess(s, c, i)
  BY <1>1 DEF Graph!DependentsOnSuccess, DependentsOnSuccess
<1>5. \A s, i : Graph!DependentsOnFailure(s, i) = DependentsOnFailure(s, i)
  BY <1>1 DEF Graph!DependentsOnFailure, DependentsOnFailure
<1>6. \A s, c, i : Graph!ReleasedCount(s, c, i) = ReleasedCount(s, c, i)
  BY <1>1 DEF Graph!ReleasedCount, ReleasedCount
<1>7. Graph!Succeeded(st, cnt, j) = Succeeded(st, cnt, j)
  BY <1>2, <1>4 DEF Graph!Succeeded, Succeeded
<1>8. Graph!SucceededCount(st, cnt, j) = SucceededCount(st, cnt, j)
  BY <1>2, <1>6 DEF Graph!SucceededCount, SucceededCount
<1>9. Graph!FailedForGood(st, j) = FailedForGood(st, j)
  BY <1>3, <1>5 DEF Graph!FailedForGood, FailedForGood
<1>10. Graph!FailedByReclaim(st, j) = FailedByReclaim(st, j)
  BY <1>5 DEF Graph!FailedByReclaim, FailedByReclaim
<1> QED
  BY <1>7, <1>8, <1>9, <1>10

LEMMA GraphInit == Init => Graph!Init
BY DEF Init, Graph!Init, InitialState, Graph!InitialState, InitialCount, Graph!InitialCount

\* Every step of the table is one of JobGraph's, or leaves states and counters
\* alone.
LEMMA GraphStep ==
    ASSUME TypeOK, ClaimInv, [QuietNext]_vars
    PROVE  [Graph!AutoNext]_(Graph!vars)
<1> USE DEF Graph!vars
<1>1. ASSUME NEW j \in Jobs, Fresh(j), state' = [state EXCEPT ![j] = "started"], UNCHANGED count
      PROVE  Graph!AutoNext
  BY <1>1 DEF Fresh, Graph!AutoNext, Graph!LeftAlone, Graph!Handled, Graph!Success, Graph!Start
<1>2. ASSUME NEW j \in Jobs, Abandoned(j), state' = [state EXCEPT ![j] = "started"], UNCHANGED count
      PROVE  UNCHANGED Graph!vars
  BY <1>2 DEF Abandoned, TypeOK
<1>3. ASSUME Acquisition
      PROVE  [Graph!AutoNext]_(Graph!vars)
  <2>1. ASSUME NEW w \in Workers, NEW j \in Jobs, ReclaimExhausted(w, j)
        PROVE  Graph!AutoNext
    BY <2>1, SameCascades
    DEF ReclaimExhausted, Abandoned, Graph!AutoNext, Graph!LeftAlone, Graph!FailStale
  <2>2. ASSUME NEW w \in Workers, NEW j \in Jobs, NEW f \in Futures,
               AcquireFresh(w, j, f) \/ Reclaim(w, j, f) \/ AcquireUnanswered(w, j)
        PROVE  [Graph!AutoNext]_(Graph!vars)
    BY <1>1, <1>2, <2>2 DEF AcquireFresh, Reclaim, AcquireUnanswered, Claim
  <2>3. ASSUME NEW w \in Workers, NEW j \in Jobs, AcquireUnanswered(w, j)
        PROVE  [Graph!AutoNext]_(Graph!vars)
    BY <1>1, <1>2, <2>3 DEF AcquireUnanswered, Claim
  <2> QED
    BY <1>3, <2>1, <2>2, <2>3 DEF Acquisition
<1>4. ASSUME NEW f \in Futures, Holding(f)
      PROVE  job[f] \in Jobs /\ state[job[f]] = "started"
  BY <1>4 DEF ClaimInv, HeldRowsFresh, OwnedRowsStarted, Holding, Live, TypeOK
<1>5. ASSUME NEW f \in Futures, Execution(f)
      PROVE  [Graph!AutoNext]_(Graph!vars)
  <2>1. CASE Finalize(f)
    <3>1. job[f] \in Jobs /\ state[job[f]] = "started"
      BY <1>4, <2>1 DEF Finalize, Holding
    <3> QED
      BY <2>1, <3>1, SameCascades
      DEF Finalize, Graph!AutoNext, Graph!LeftAlone, Graph!Handled, Graph!Success, Graph!Succeed
  <2> QED
    BY <1>5, <2>1
    DEF Execution, StartQueued, CommitSideEffects, Raise, ReturnLate, CheckAfterCommit,
        FinalizeFails, ClearOwnership, Cleanup, row
<1>6. ASSUME NEW f \in Futures, ExceptionHandling(f)
      PROVE  [Graph!AutoNext]_(Graph!vars)
  <2>1. CASE HandlerFails(f)
    BY <2>1 DEF HandlerFails, row
  <2>2. CASE ~HandlerFails(f)
    <3>1. job[f] \in Jobs /\ state[job[f]] = "started"
      BY <1>4, <1>6, <2>2
      DEF ExceptionHandling, RetryUncounted, RetryCounted, HandleException, ModelGone, Holding
    <3>2. FailForGood(job[f]) \/ \E isDue \in BOOLEAN : BackToPending(job[f], isDue)
      BY <1>6, <2>2
      DEF ExceptionHandling, RetryUncounted, RetryCounted, HandleException, ModelGone
    <3>3. \/ state' = FailedForGood(state, job[f]) /\ UNCHANGED count
          \/ state' = [state EXCEPT ![job[f]] = "pending"] /\ UNCHANGED count
      BY <3>2 DEF FailForGood, BackToPending
    <3> QED
      BY <3>1, <3>3, SameCascades
      DEF Graph!AutoNext, Graph!LeftAlone, Graph!Handled, Graph!Success, Graph!Retry, Graph!Fail
  <2> QED
    BY <2>1, <2>2
<1>7. ASSUME Beating \/ Processes \/ TimelyAging \/ Backoff \/ UNCHANGED vars
      PROVE  UNCHANGED Graph!vars
  BY <1>7
  DEF Beating, UpdateHeartbeats, HeartbeatJob, TimeoutFires, HandleTimeout, HeartbeatEnds,
      Processes, Crash, Stop, TimelyAging, HeartbeatAges, Backoff, BackoffElapses, row, vars
<1> QED
  BY <1>3, <1>5, <1>6, <1>7 DEF QuietNext

\* Workers, threads and heartbeats implement the graph of atomic transactions.
THEOREM GraphImplemented ==
    QuietSpec /\ []SeparateExecutions => ImplementsGraph
<1>1. TypeOK /\ ClaimInv /\ [QuietNext]_vars => [Graph!AutoNext]_(Graph!vars)
  BY GraphStep
<1> QED
  BY <1>1, ClaimsInvariant, GraphInit, PTL DEF QuietSpec, ImplementsGraph, Graph!AutoSpec

-----------------------------------------------------------------------------
(* What separates executions: what the pools are given. *)

\* No worker takes a row while an execution of it is still in its
\* active_job_ids.  The acquire query has no such clause.
SkipsOwnRows ==
    \A f \in Futures : pc[f] = "idle" /\ pc'[f] # "idle" => job'[f] \notin active[host'[f]]

\* Every execution has a pool thread and a row of its own, and a place in
\* active_job_ids.
PoolInv ==
    /\ SeparateExecutions
    /\ SlotsCounted
    /\ NothingQueued
    /\ \A w \in Workers : Cardinality(active[w]) <= Concurrency

\* What becomes of the executions in one step, the rows left out.
PoolMoves ==
    \/ \E w \in Workers, j \in Jobs, f \in Futures : HasFreeSlot(w) /\ Submit(w, j, f)
    \/ \E f \in Futures : Cleanup(f)
    \/ \E f \in Futures, label \in PCs \ {"idle", "queued"} :
          Live(f) /\ Goto(f, label) /\ UNCHANGED <<active, job, host>>
    \/ \E w \in Workers : Crash(w) \/ Stop(w)
    \/ UNCHANGED <<active, pc, job, host>>

LEMMA PoolStep ==
    ASSUME TypeOK, [Next]_vars
    PROVE  PoolMoves
<1>1. CASE Acquisition
  BY <1>1
  DEF Acquisition, AcquireFresh, Reclaim, AcquireUnanswered, ReclaimExhausted, worker, exec, PoolMoves
<1>2. CASE Beating \/ TimelyAging \/ LateAging \/ Backoff \/ Operator \/ UNCHANGED vars
  BY <1>2
  DEF Beating, UpdateHeartbeats, HeartbeatJob, TimeoutFires, HandleTimeout, HeartbeatEnds,
      TimelyAging, LateAging, HeartbeatAges, Backoff, BackoffElapses, Operator, ButtonRequeue,
      ButtonSetToDone, ButtonSetToFailed, ButtonCancelled, RunNow, worker, exec, vars, PoolMoves
<1>3. ASSUME NEW f \in Futures, Execution(f)
      PROVE  PoolMoves
  <2>1. CASE Cleanup(f)
    BY <2>1 DEF PoolMoves
  <2>2. CASE ~Cleanup(f)
    <3>1. \E label \in PCs \ {"idle", "queued"} : Live(f) /\ Goto(f, label)
      BY <1>3, <2>2
      DEF Execution, StartQueued, CommitSideEffects, Raise, ReturnLate, CheckAfterCommit, Finalize,
          FinalizeFails, ClearOwnership, Goto, Live, PCs
    <3>2. UNCHANGED <<active, job, host>>
      BY <1>3, <2>2
      DEF Execution, StartQueued, CommitSideEffects, Raise, ReturnLate, CheckAfterCommit, Finalize,
          FinalizeFails, ClearOwnership, worker
    <3> QED
      BY <3>1, <3>2 DEF PoolMoves
  <2> QED
    BY <2>1, <2>2
<1>4. ASSUME NEW f \in Futures, ExceptionHandling(f) \/ FinalizeUnanswered(f)
      PROVE  PoolMoves
  <2>1. \E label \in PCs \ {"idle", "queued"} : Live(f) /\ Goto(f, label)
    BY <1>4
    DEF ExceptionHandling, RetryUncounted, RetryCounted, HandleException, ModelGone, HandlerFails,
        FinalizeUnanswered, Live, PCs
  <2>2. UNCHANGED <<active, job, host>>
    BY <1>4
    DEF ExceptionHandling, RetryUncounted, RetryCounted, HandleException, ModelGone, HandlerFails,
        FinalizeUnanswered, worker
  <2> QED
    BY <2>1, <2>2 DEF PoolMoves
<1>5. CASE Processes
  BY <1>5 DEF Processes, PoolMoves
<1> QED
  BY <1>1, <1>2, <1>3, <1>4, <1>5 DEF Next, QuietNext, LostAnswers

LEMMA PoolInit == Init => PoolInv
BY FS_EmptySet, QueueAssumption
DEF Init, PoolInv, SeparateExecutions, SlotsCounted, NothingQueued, Live

LEMMA PoolInvStep ==
    ASSUME TypeOK, PoolInv, PoolMoves, SkipsOwnRows
    PROVE  PoolInv'
<1>0. \A w \in Workers : IsFiniteSet(active[w]) /\ Cardinality(active[w]) \in Nat
                         /\ Cardinality(active[w]) <= Concurrency /\ Concurrency \in Nat
  BY FS_CardinalityType, QueueAssumption DEF PoolInv, SlotsCounted
<1>1. ASSUME NEW w \in Workers, NEW j \in Jobs, NEW f \in Futures, HasFreeSlot(w), Submit(w, j, f)
      PROVE  PoolInv'
  <2>1. Queued(w) = {} /\ Cardinality(Busy(w)) < Concurrency
    BY <1>1, FreeSlotFreeThread DEF PoolInv
  <2>2. /\ pc[f] = "idle" /\ pc' = [pc EXCEPT ![f] = "running"]
        /\ job' = [job EXCEPT ![f] = j] /\ host' = [host EXCEPT ![f] = w]
        /\ active' = [active EXCEPT ![w] = @ \cup {j}]
    BY <1>1, <2>1 DEF Submit
  <2>3. j \notin active[w]
    BY <2>2 DEF SkipsOwnRows, TypeOK
  <2>4. \A v \in Workers : IsFiniteSet(active'[v]) /\ Cardinality(active'[v]) <= Concurrency
    <3>1. IsFiniteSet(active[w] \cup {j}) /\ Cardinality(active[w] \cup {j}) = Cardinality(active[w]) + 1
      BY <1>0, <2>3, FS_AddElement
    <3>2. Cardinality(active[w]) + 1 <= Concurrency
      BY <1>0, <1>1 DEF HasFreeSlot
    <3> QED
      BY <1>0, <2>2, <3>1, <3>2 DEF TypeOK
  <2>5. \A g \in Futures \ {f} : Live(g) => job[g] # j \/ host[g] # w
    BY <2>3 DEF PoolInv, SlotsCounted
  <2>6. SeparateExecutions' /\ NothingQueued'
    BY <2>2, <2>5 DEF PoolInv, SeparateExecutions, NothingQueued, Live, TypeOK
  <2>7. \A g \in Futures : Live(g)' => job'[g] \in active'[host'[g]]
    BY <2>2 DEF PoolInv, SlotsCounted, Live, TypeOK
  <2> QED
    BY <2>4, <2>6, <2>7 DEF PoolInv, SlotsCounted
<1>2. ASSUME NEW f \in Futures, Cleanup(f)
      PROVE  PoolInv'
  <2>1. \A w \in Workers : active'[w] = active[w] \/ active'[w] = active[w] \ {job[f]}
    BY <1>2 DEF Cleanup, TypeOK
  <2>2. \A w \in Workers : IsFiniteSet(active'[w]) /\ Cardinality(active'[w]) <= Concurrency
    <3> SUFFICES ASSUME NEW w \in Workers
                 PROVE  IsFiniteSet(active'[w]) /\ Cardinality(active'[w]) <= Concurrency
      OBVIOUS
    <3>1. IsFiniteSet(active[w] \ {job[f]})
          /\ Cardinality(active[w] \ {job[f]}) <= Cardinality(active[w])
      BY <1>0, FS_RemoveElement
    <3>2. Cardinality(active[w] \ {job[f]}) \in Nat
      BY <3>1, FS_CardinalityType
    <3> QED
      BY <1>0, <2>1, <3>1, <3>2
  <2>3. \A g \in Futures \ {f} : Live(g) => job[g] # job[f] \/ host[g] # host[f]
    BY <1>2 DEF Cleanup, PoolInv, SeparateExecutions, Live
  <2>4. \A g \in Futures : Live(g)' => job'[g] \in active'[host'[g]]
    BY <1>2, <2>3 DEF Cleanup, PoolInv, SlotsCounted, Live, TypeOK
  <2>5. SeparateExecutions' /\ NothingQueued'
    BY <1>2 DEF Cleanup, PoolInv, SeparateExecutions, NothingQueued, Live, TypeOK
  <2> QED
    BY <2>2, <2>4, <2>5 DEF PoolInv, SlotsCounted
<1>3. ASSUME NEW f \in Futures, NEW label \in PCs \ {"idle", "queued"}, Live(f), Goto(f, label),
             UNCHANGED <<active, job, host>>
      PROVE  PoolInv'
  BY <1>3 DEF PoolInv, SeparateExecutions, SlotsCounted, NothingQueued, Live, Goto, TypeOK
<1>4. ASSUME NEW w \in Workers, Crash(w)
      PROVE  PoolInv'
  <2>1. \A v \in Workers : active'[v] = active[v] \/ active'[v] = {}
    BY <1>4 DEF Crash, TypeOK
  <2>2. \A v \in Workers : IsFiniteSet(active'[v]) /\ Cardinality(active'[v]) <= Concurrency
    BY <1>0, <2>1, FS_EmptySet
  <2>3. \A g \in Futures : Live(g)' => job'[g] \in active'[host'[g]]
    BY <1>4 DEF Crash, Vanish, Busy, Queued, PoolInv, SlotsCounted, Live, TypeOK
  <2>4. SeparateExecutions' /\ NothingQueued'
    BY <1>4 DEF Crash, Vanish, PoolInv, SeparateExecutions, NothingQueued, Live, TypeOK
  <2> QED
    BY <2>2, <2>3, <2>4 DEF PoolInv, SlotsCounted
<1>5. ASSUME NEW w \in Workers, Stop(w)
      PROVE  PoolInv'
  BY <1>5
  DEF Stop, Vanish, Queued, PoolInv, SeparateExecutions, SlotsCounted, NothingQueued, Live, TypeOK
<1>6. CASE UNCHANGED <<active, pc, job, host>>
  BY <1>6 DEF PoolInv, SeparateExecutions, SlotsCounted, NothingQueued, Live
<1> QED
  BY <1>1, <1>2, <1>3, <1>4, <1>5, <1>6 DEF PoolMoves

\* A worker's executions are no more than the places they hold.
LEMMA PoolsFilled == PoolInv => PoolNotOverfilled
<1> SUFFICES ASSUME PoolInv, NEW w \in Workers
             PROVE  Cardinality(Busy(w) \cup Queued(w)) <= Concurrency
  BY DEF PoolNotOverfilled
<1> DEFINE mine == Busy(w) \cup Queued(w)
           held == [f \in mine |-> job[f]]
<1>1. \A f \in mine : Live(f) /\ host[f] = w /\ f \in Futures
  BY DEF Busy, Queued, Live
<1>2. held \in [mine -> active[w]]
  BY <1>1 DEF PoolInv, SlotsCounted
<1>3. \A f, g \in mine : held[f] = held[g] => f = g
  BY <1>1 DEF PoolInv, SeparateExecutions
<1>4. held \in Injection(mine, active[w])
  BY <1>2, <1>3, Fun_IsInj
<1>5. IsFiniteSet(active[w]) /\ Cardinality(active[w]) <= Concurrency
  BY DEF PoolInv, SlotsCounted
<1>6. IsFiniteSet(mine) /\ Cardinality(mine) <= Cardinality(active[w])
  BY <1>4, <1>5, FS_Injection DEF ExistsInjection
<1> QED
  BY <1>5, <1>6, FS_CardinalityType, QueueAssumption

\* An acquire query that leaves out the ids in active_job_ids is all that
\* SeparateExecutions takes, and it keeps a pool from being given more than it
\* has threads for: late heartbeats, lost answers and buttons included.
THEOREM OwnRowsSkipped ==
    Spec /\ [][SkipsOwnRows]_vars => []SeparateExecutions /\ []PoolNotOverfilled
<1>1. UNCHANGED vars => SkipsOwnRows
  BY DEF vars, exec, SkipsOwnRows
<1>2. TypeOK /\ PoolInv /\ [Next]_vars /\ [SkipsOwnRows]_vars => PoolInv'
  BY <1>1, PoolStep, PoolInvStep
<1>3. PoolInv => SeparateExecutions
  BY DEF PoolInv
<1> QED
  BY <1>2, <1>3, PoolInit, PoolsFilled, TypeCorrect, PTL DEF Spec

\* A worker with one pool thread never runs a job twice at once: it submits only
\* when active_job_ids is empty.
THEOREM OneThreadSeparates ==
    ASSUME Concurrency = 1
    PROVE  Spec => []SeparateExecutions /\ []PoolNotOverfilled
<1>1. ASSUME TypeOK, PoolInv, PoolMoves
      PROVE  SkipsOwnRows
  <2>1. \A w \in Workers : HasFreeSlot(w) => active[w] = {}
    <3> SUFFICES ASSUME NEW w \in Workers, HasFreeSlot(w)
                 PROVE  active[w] = {}
      OBVIOUS
    <3>1. IsFiniteSet(active[w]) /\ Cardinality(active[w]) = 0
      BY <1>1, FS_CardinalityType DEF HasFreeSlot, PoolInv, SlotsCounted
    <3> QED
      BY <3>1, FS_EmptySet
  <2>2. ASSUME NEW w \in Workers, NEW j \in Jobs, NEW f \in Futures, HasFreeSlot(w), Submit(w, j, f)
        PROVE  SkipsOwnRows
    BY <1>1, <2>1, <2>2 DEF Submit, SkipsOwnRows, TypeOK
  <2>3. ASSUME ~\E w \in Workers, j \in Jobs, f \in Futures : HasFreeSlot(w) /\ Submit(w, j, f)
        PROVE  SkipsOwnRows
    BY <1>1, <2>3
    DEF PoolMoves, Cleanup, Crash, Stop, Vanish, Live, Goto, SkipsOwnRows, TypeOK
  <2> QED
    BY <2>2, <2>3
<1>2. TypeOK /\ PoolInv /\ [Next]_vars => PoolInv'
  BY <1>1, PoolStep, PoolInvStep
<1>3. PoolInv => SeparateExecutions
  BY DEF PoolInv
<1> QED
  BY <1>2, <1>3, PoolInit, PoolsFilled, TypeCorrect, PTL DEF Spec

\* The system left alone is a special case.
LEMMA QuietIsSpec == QuietSpec => Spec
BY QuietSteps, PTL DEF QuietSpec, Spec

\* With an acquire query that skips its own rows, claims, exclusion and the
\* refinement hold of every behaviour of the system left alone.
THEOREM SkippingKeepsPromises ==
    QuietSpec /\ [][SkipsOwnRows]_vars
              => /\ []ClaimHeld
                 /\ []ExclusiveExecution
                 /\ HeldUntilStale
                 /\ ClearsOnlyItsOwnClaim
                 /\ []PoolNotOverfilled
                 /\ ImplementsGraph
BY QuietIsSpec, OwnRowsSkipped, ClaimsHold, ExecutionsExclusive, HeldTillStale, OwnClaimsCleared,
   GraphImplemented, PTL

\* With one pool thread to a worker they hold of the code as it is.
THEOREM OneThreadKeepsPromises ==
    ASSUME Concurrency = 1
    PROVE  QuietSpec
              => /\ []ClaimHeld
                 /\ []ExclusiveExecution
                 /\ HeldUntilStale
                 /\ ClearsOnlyItsOwnClaim
                 /\ []PoolNotOverfilled
                 /\ ImplementsGraph
BY QuietIsSpec, OneThreadSeparates, ClaimsHold, ExecutionsExclusive, HeldTillStale, OwnClaimsCleared,
   GraphImplemented, PTL

-----------------------------------------------------------------------------
(* What JobGraph proves of its rows holds of the workers' table as well. *)

\* Retention's timestamps play no part here.
GraphFacts == INSTANCE JobGraphProofs WITH completed <- {}, cancelled <- {}

\* The two instances of JobGraph are the same.
LEMMA SameGraph ==
    /\ Graph!Init => GraphFacts!Init
    /\ [Graph!AutoNext]_(Graph!vars) => [GraphFacts!AutoNext]_(GraphFacts!vars)
<1>1. Graph!Init => GraphFacts!Init
  BY DEF Graph!Init, GraphFacts!Init, Graph!InitialState, GraphFacts!InitialState,
         Graph!InitialCount, GraphFacts!InitialCount
<1>2. Graph!AutoNext => GraphFacts!AutoNext
  BY DEF Graph!AutoNext, GraphFacts!AutoNext, Graph!LeftAlone, GraphFacts!LeftAlone,
         Graph!Handled, GraphFacts!Handled, Graph!Success, GraphFacts!Success,
         Graph!Start, GraphFacts!Start, Graph!Succeed, GraphFacts!Succeed,
         Graph!Retry, GraphFacts!Retry, Graph!Fail, GraphFacts!Fail,
         Graph!FailStale, GraphFacts!FailStale,
         Graph!Succeeded, GraphFacts!Succeeded,
         Graph!SucceededCount, GraphFacts!SucceededCount,
         Graph!FailedForGood, GraphFacts!FailedForGood,
         Graph!FailedByReclaim, GraphFacts!FailedByReclaim,
         Graph!ChildrenOnSuccess, GraphFacts!ChildrenOnSuccess,
         Graph!ChildrenOnFailure, GraphFacts!ChildrenOnFailure,
         Graph!DependentsOnSuccess, GraphFacts!DependentsOnSuccess,
         Graph!DependentsOnFailure, GraphFacts!DependentsOnFailure,
         Graph!ReleasedCount, GraphFacts!ReleasedCount,
         Graph!WaitingChildren, GraphFacts!WaitingChildren,
         Graph!WaitingDependents, GraphFacts!WaitingDependents,
         Graph!DependencySet, GraphFacts!DependencySet,
         Graph!Closure, GraphFacts!Closure, Graph!Move, GraphFacts!Move,
         Graph!Handlers, GraphFacts!Handlers
<1> QED
  BY <1>1, <1>2 DEF Graph!vars, GraphFacts!vars

LEMMA GraphFactsImplemented ==
    QuietSpec /\ []SeparateExecutions => GraphFacts!AutoSpec
<1>1. Graph!AutoSpec => GraphFacts!AutoSpec
  BY SameGraph, PTL DEF Graph!AutoSpec, GraphFacts!AutoSpec
<1> QED
  BY <1>1, GraphImplemented, PTL DEF ImplementsGraph

\* A worker's barrier is let go only when its members are all done, as long as
\* heartbeats are on time and no process runs a job twice.
THEOREM BarriersHold ==
    ASSUME GraphFacts!DistinctMembers, GraphFacts!OneAxis
    PROVE  QuietSpec /\ []SeparateExecutions => BarrierWaitsForAll
<1>1. GraphFacts!AutoSpec => GraphFacts!BarrierWaitsForAll
  BY GraphFacts!BarrierWaits, WiringAssumption
<1>2. GraphFacts!BarrierWaitsForAll => BarrierWaitsForAll
  BY DEF GraphFacts!BarrierWaitsForAll, BarrierWaitsForAll, Graph!BarrierWaitsForAll,
         GraphFacts!DependencySet, Graph!DependencySet, GraphFacts!vars, Graph!vars
<1> QED
  BY <1>1, <1>2, GraphFactsImplemented, PTL

\* On the same terms the counter of a waiting barrier is exact, with any number of
\* workers finishing, dying and reclaiming at once.
THEOREM CountersStayExact ==
    ASSUME GraphFacts!DistinctMembers
    PROVE  QuietSpec /\ []SeparateExecutions => []GraphFacts!CounterIsExact
<1>1. GraphFacts!AutoSpec => []GraphFacts!CounterIsExact
  BY GraphFacts!CounterExact, WiringAssumption
<1> QED
  BY <1>1, GraphFactsImplemented, PTL

\* And a row is let go by the outcome it was wired to: a handler by a failure, a
\* chained row by its parent's success, a barrier by all of its members'.
THEOREM RightOutcomesRelease ==
    ASSUME GraphFacts!DistinctMembers, GraphFacts!OneAxis
    PROVE  QuietSpec /\ []SeparateExecutions => GraphFacts!RightOutcomeReleases
<1>1. GraphFacts!AutoSpec => GraphFacts!RightOutcomeReleases
  BY GraphFacts!OutcomeReleases, WiringAssumption
<1> QED
  BY <1>1, GraphFactsImplemented, PTL

\* No row waits for what can no longer happen, whatever workers die, where
\* groups are plain and chains have two links at most: the cascade of an
\* exhausted reclaim reaches direct children only.
THEOREM WorkersStrandNobody ==
    ASSUME GraphFacts!DistinctMembers, GraphFacts!PlainGroups,
           \A c \in Jobs : Parent[c] \in Jobs => Parent[Parent[c]] = NoJob
    PROVE  QuietSpec /\ []SeparateExecutions => []GraphFacts!NoStrandedRow
<1>1. GraphFacts!AutoSpec => []GraphFacts!NoStrandedRow
  BY GraphFacts!NoRowStranded, WiringAssumption
<1> QED
  BY <1>1, GraphFactsImplemented, PTL

\* Nothing takes a row out of done, on the same terms.
THEOREM DoneStaysDone ==
    QuietSpec /\ []SeparateExecutions => DoneIsFinal
<1>1. ASSUME TypeOK, ClaimInv, [QuietNext]_vars, NEW j \in Jobs, state[j] = "done"
      PROVE  state'[j] = "done"
  <2>1. CASE UNCHANGED Graph!vars
    BY <1>1, <2>1 DEF Graph!vars
  <2>2. ASSUME NEW i \in Jobs, Graph!LeftAlone(i)
        PROVE  state'[j] = "done"
    <3>1. state[i] = "started"
          => \A s : MovesTo(state, state', i, s) => state'[j] = "done"
      BY <1>1 DEF MovesTo
    <3>2. CASE Graph!Start(i)
      BY <1>1, <3>2 DEF Graph!Start, TypeOK
    <3>3. CASE Graph!Succeed(i) \/ Graph!Retry(i) \/ Graph!Fail(i) \/ Graph!FailStale(i)
      <4>1. state[i] = "started"
        BY <3>3 DEF Graph!Succeed, Graph!Retry, Graph!Fail, Graph!FailStale
      <4>2. \E s : MovesTo(state, state', i, s)
        <5>1. \/ state' = Succeeded(state, count, i) \/ state' = [state EXCEPT ![i] = "pending"]
              \/ state' = FailedForGood(state, i) \/ state' = FailedByReclaim(state, i)
          BY <3>3, SameCascades DEF Graph!Succeed, Graph!Retry, Graph!Fail, Graph!FailStale
        <5> QED
          BY <1>1, <5>1, SucceededMoves, FailedForGoodMoves, FailedByReclaimMoves, PendingMoves
          DEF TypeOK
      <4> QED
        BY <3>1, <4>1, <4>2
    <3> QED
      BY <2>2, <3>2, <3>3 DEF Graph!LeftAlone, Graph!Handled, Graph!Success
  <2> QED
    BY <1>1, <2>1, <2>2, GraphStep DEF Graph!AutoNext
<1>2. TypeOK /\ ClaimInv /\ [QuietNext]_vars
        => [\A j \in Jobs : state[j] = "done" => state'[j] = "done"]_vars
  BY <1>1
<1> QED
  BY <1>2, ClaimsInvariant, PTL DEF QuietSpec, DoneIsFinal
=============================================================================
