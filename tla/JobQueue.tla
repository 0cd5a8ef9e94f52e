------------------------------ MODULE JobQueue ------------------------------
(***************************************************************************)
(* The life of queue_job rows under the worker processes: acquisition,     *)
(* execution in pool threads, heartbeats, timeouts, stale-job reclaim,     *)
(* crashes, and the operator's buttons (job_worker/cli/worker.py and       *)
(* job_worker/models/queue_job.py).                                        *)
(*                                                                         *)
(* A transaction is one action.  An execution is a Future of the worker's  *)
(* thread pool together with the heartbeat thread it starts; it keeps its  *)
(* own control state between transactions, and nothing in the code ties a  *)
(* row to the one execution that owns it except the column worker_id.      *)
(*                                                                         *)
(* Time is abstract.  heartbeat is "fresh" while it is younger than        *)
(* stale_after_seconds and "stale" afterwards; due says that scheduled_at  *)
(* is empty or has passed.  Channel limits are not here: an acquirable row *)
(* may be taken at any time or be left alone.                              *)
(***************************************************************************)
EXTENDS JobCascade

CONSTANTS
    Workers,        \* worker processes (one worker_uuid each, never reused)
    NoWorker,       \* worker_id is NULL
    Futures,        \* identities for executions submitted to a pool
    Concurrency,    \* pool size of a worker
    MaxRetries,     \* max_retries of every row (0 retries for ever)
    HasTimeout,     \* the rows with timeout > 0
    AttemptBound    \* bound on attempts and on uncounted, for TLC only

ASSUME QueueAssumption ==
    /\ NoWorker \notin Workers
    /\ Concurrency \in Nat \ {0}
    /\ MaxRetries \in Nat
    /\ HasTimeout \subseteq Jobs
    /\ AttemptBound \in Nat

VARIABLES
    state, count, owner, heartbeat, attempts, due,  \* columns of queue_job
    phase, active,                                  \* workers
    pc, job, host, timedOut, beat,                  \* executions
    starts, uncounted                               \* history

row    == <<state, count, owner, heartbeat, attempts, due>>
worker == <<phase, active>>
exec   == <<pc, job, host, timedOut, beat>>
hist   == <<starts, uncounted>>
vars   == <<row, worker, exec, hist>>

HeartbeatStates == {"null", "fresh", "stale"}
Phases          == {"serving", "stopping", "dead"}
PCs             == {"idle", "queued", "running", "committed", "finalizing",
                    "failing", "releasing", "cleanup"}
Beats           == {"off", "on", "stamping"}

TypeOK ==
    /\ state     \in [Jobs -> JobStates]
    /\ count     \in [Jobs -> Int]
    /\ owner     \in [Jobs -> Workers \cup {NoWorker}]
    /\ heartbeat \in [Jobs -> HeartbeatStates]
    /\ attempts  \in [Jobs -> Nat]
    /\ due       \in [Jobs -> BOOLEAN]
    /\ phase     \in [Workers -> Phases]
    /\ active    \in [Workers -> SUBSET Jobs]
    /\ pc        \in [Futures -> PCs]
    /\ job       \in [Futures -> Jobs \cup {NoJob}]
    /\ host      \in [Futures -> Workers \cup {NoWorker}]
    /\ timedOut  \in [Futures -> BOOLEAN]
    /\ beat      \in [Futures -> Beats]
    /\ starts    \in [Jobs -> Nat]
    /\ uncounted \in [Jobs -> Nat]
    \* A live execution knows its job and its process.
    /\ \A f \in Futures : pc[f] # "idle" => job[f] \in Jobs /\ host[f] \in Workers

Init ==
    /\ state     = [j \in Jobs |-> InitialState(j)]
    /\ count     = [j \in Jobs |-> InitialCount(j)]
    /\ owner     = [j \in Jobs |-> NoWorker]
    /\ heartbeat = [j \in Jobs |-> "null"]
    /\ attempts  = [j \in Jobs |-> 0]
    /\ due       = [j \in Jobs |-> TRUE]
    /\ phase     = [w \in Workers |-> "serving"]
    /\ active    = [w \in Workers |-> {}]
    /\ pc        = [f \in Futures |-> "idle"]
    /\ job       = [f \in Futures |-> NoJob]
    /\ host      = [f \in Futures |-> NoWorker]
    /\ timedOut  = [f \in Futures |-> FALSE]
    /\ beat      = [f \in Futures |-> "off"]
    /\ starts    = [j \in Jobs |-> 0]
    /\ uncounted = [j \in Jobs |-> 0]

-----------------------------------------------------------------------------
(* Helpers. *)

\* Futures of w that hold a pool thread, and those still in the pool's queue.
Busy(w)   == {f \in Futures : host[f] = w /\ pc[f] \notin {"idle", "queued"}}
Queued(w) == {f \in Futures : host[f] = w /\ pc[f] = "queued"}

\* Mutants of Abandoned: without a test of the heartbeat, and without the test
\* for a heartbeat that was cleared.
AbandonedAnyHeartbeat(j) == state[j] = "started" /\ due[j]
AbandonedNotNull(j)      == state[j] = "started" /\ heartbeat[j] = "stale" /\ due[j]

\* The WHERE clause of the acquire query, limits apart.
Fresh(j)      == state[j] = "pending" /\ due[j]
Abandoned(j)  == state[j] = "started" /\ heartbeat[j] \in {"null", "stale"} /\ due[j]
Exhausted(j)  == MaxRetries # 0 /\ attempts[j] + 1 > MaxRetries

\* process_jobs() looks for work only while active_job_ids is short.
HasFreeSlot(w) == phase[w] = "serving" /\ Cardinality(active[w]) < Concurrency

\* The row's claim belongs to the process that runs f.
OwnsRow(f) == owner[job[f]] = host[f]

\* worker_id and heartbeat are written NULL.
Unclaim(j) ==
    /\ owner'     = [owner EXCEPT ![j] = NoWorker]
    /\ heartbeat' = [heartbeat EXCEPT ![j] = "null"]

-----------------------------------------------------------------------------
(* Acquisition: _acquire_job() and the submission to the pool.  A future   *)
(* gets a pool thread at once when one is idle and waits in the pool's     *)
(* queue otherwise; active_job_ids is a set of row ids.                    *)

Submit(w, j, f) ==
    LET free == Queued(w) = {} /\ Cardinality(Busy(w)) < Concurrency
    IN  /\ pc[f] = "idle"
        /\ pc'       = [pc EXCEPT ![f] = IF free THEN "running" ELSE "queued"]
        /\ beat'     = [beat EXCEPT ![f] = IF free THEN "on" ELSE "off"]
        /\ job'      = [job EXCEPT ![f] = j]
        /\ host'     = [host EXCEPT ![f] = w]
        /\ timedOut' = [timedOut EXCEPT ![f] = FALSE]
        /\ active'   = [active EXCEPT ![w] = @ \cup {j}]

Claim(w, j) ==
    /\ state'     = [state EXCEPT ![j] = "started"]
    /\ owner'     = [owner EXCEPT ![j] = w]
    /\ heartbeat' = [heartbeat EXCEPT ![j] = "fresh"]
    /\ starts'    = [starts EXCEPT ![j] = @ + 1]

AcquireFresh(w, j, f) ==
    /\ HasFreeSlot(w)
    /\ Fresh(j)
    /\ Claim(w, j)
    /\ Submit(w, j, f)
    /\ UNCHANGED <<count, attempts, due, phase, uncounted>>

\* Mutant of Reclaim: the take-over pays no attempt.
ReclaimFree(w, j, f) ==
    /\ HasFreeSlot(w)
    /\ Abandoned(j)
    /\ ~Exhausted(j)
    /\ attempts[j] < AttemptBound
    /\ Claim(w, j)
    /\ Submit(w, j, f)
    /\ UNCHANGED <<count, attempts, due, phase, uncounted>>

\* A started row without a live heartbeat is taken over and pays an attempt.
Reclaim(w, j, f) ==
    /\ HasFreeSlot(w)
    /\ Abandoned(j)
    /\ ~Exhausted(j)
    /\ attempts[j] < AttemptBound
    /\ Claim(w, j)
    /\ attempts' = [attempts EXCEPT ![j] = @ + 1]
    /\ Submit(w, j, f)
    /\ UNCHANGED <<count, due, phase, uncounted>>

\* The acquire commits and its answer is lost with the connection: the error
\* goes to run(), and the claimed row has no execution.
AcquireUnanswered(w, j) ==
    /\ HasFreeSlot(w)
    /\ \/ Fresh(j) /\ UNCHANGED attempts
       \/ /\ Abandoned(j) /\ ~Exhausted(j)
          /\ attempts[j] < AttemptBound
          /\ attempts' = [attempts EXCEPT ![j] = @ + 1]
    /\ Claim(w, j)
    /\ UNCHANGED <<count, due, worker, exec, uncounted>>

\* The same row with no attempt left is failed instead, by raw SQL.
ReclaimExhausted(w, j) ==
    /\ HasFreeSlot(w)
    /\ Abandoned(j)
    /\ Exhausted(j)
    /\ state'    = FailedByReclaim(state, j)
    /\ attempts' = [attempts EXCEPT ![j] = @ + 1]
    /\ Unclaim(j)
    /\ UNCHANGED <<count, due, worker, exec, hist>>

\* A pool thread becomes free and picks up a queued future.
StartQueued(f) ==
    /\ pc[f] = "queued"
    /\ Cardinality(Busy(host[f])) < Concurrency
    /\ pc'   = [pc EXCEPT ![f] = "running"]
    /\ beat' = [beat EXCEPT ![f] = "on"]
    /\ UNCHANGED <<row, worker, job, host, timedOut, hist>>

-----------------------------------------------------------------------------
(* Heartbeats and timeouts: the per-job heartbeat thread and the main loop. *)

HeartbeatJob(f) ==
    /\ beat[f] = "on"
    /\ state[job[f]] = "started" /\ OwnsRow(f)
    /\ heartbeat' = [heartbeat EXCEPT ![job[f]] = "fresh"]
    /\ UNCHANGED <<state, count, owner, attempts, due, worker, exec, hist>>

\* The batch update of the main loop looks at worker_id only.
UpdateHeartbeats(w) ==
    /\ phase[w] = "serving"
    /\ heartbeat' = [j \in Jobs |-> IF j \in active[w] /\ owner[j] = w
                                    THEN "fresh" ELSE heartbeat[j]]
    /\ UNCHANGED <<state, count, owner, attempts, due, worker, exec, hist>>

\* The heartbeat thread finds the job over its timeout: the event is set
\* before the row is stamped, and the loop ends.  It may still be inside its
\* loop body while the execution thread moves on.
TimeoutFires(f) ==
    /\ beat[f] = "on"
    /\ job[f] \in HasTimeout
    /\ timedOut' = [timedOut EXCEPT ![f] = TRUE]
    /\ beat'     = [beat EXCEPT ![f] = "stamping"]
    /\ UNCHANGED <<row, worker, pc, job, host, hist>>

\* Mutant of HandleTimeout: the row goes straight back to pending.
HandleTimeoutReleases(f) ==
    /\ beat[f] = "stamping"
    /\ state' = [state EXCEPT ![job[f]] = IF OwnsRow(f) /\ @ = "started" THEN "pending" ELSE @]
    /\ owner' = [owner EXCEPT ![job[f]] = IF OwnsRow(f) THEN NoWorker ELSE @]
    /\ beat'  = [beat EXCEPT ![f] = "off"]
    /\ UNCHANGED <<count, heartbeat, attempts, due, worker, pc, job, host, timedOut, hist>>

\* _handle_timeout: the row keeps its claim; the next attempt is paced when
\* there will be one.
HandleTimeout(f) ==
    LET j       == job[f]
        stamped == state[j] = "started" /\ OwnsRow(f)
        paced   == stamped /\ (MaxRetries = 0 \/ attempts[j] < MaxRetries)
    IN  /\ beat[f] = "stamping"
        /\ due'  = [due EXCEPT ![j] = @ /\ ~paced]
        /\ beat' = [beat EXCEPT ![f] = "off"]
        /\ UNCHANGED <<state, count, owner, heartbeat, attempts, worker,
                       pc, job, host, timedOut, hist>>

\* The heartbeat loop ends: its stop event is set once the method is over, and
\* a stamp that cannot be written is only logged.
HeartbeatEnds(f) ==
    /\ \/ beat[f] = "on" /\ pc[f] # "running"
       \/ beat[f] = "stamping"
    /\ beat' = [beat EXCEPT ![f] = "off"]
    /\ UNCHANGED <<row, worker, pc, job, host, timedOut, hist>>

-----------------------------------------------------------------------------
(* Execution: execute_job(), one action per transaction or check. *)

Goto(f, label) == pc' = [pc EXCEPT ![f] = label]

\* The method returns in time: its side effects are committed.
CommitSideEffects(f) ==
    /\ pc[f] = "running"
    /\ ~timedOut[f]
    /\ Goto(f, "committed")
    /\ UNCHANGED <<row, worker, job, host, timedOut, beat, hist>>

\* The method raises, or its commit does, before any timeout fired.
Raise(f) ==
    /\ pc[f] = "running"
    /\ ~timedOut[f]
    /\ Goto(f, "failing")
    /\ UNCHANGED <<row, worker, job, host, timedOut, beat, hist>>

\* The method returns or raises after the timeout: the work is rolled back.
ReturnLate(f) ==
    /\ pc[f] = "running"
    /\ timedOut[f]
    /\ Goto(f, "releasing")
    /\ UNCHANGED <<row, worker, job, host, timedOut, beat, hist>>

\* After the heartbeat join: a timeout that fired meanwhile leaves the row
\* started, although the side effects are in.
CheckAfterCommit(f) ==
    /\ pc[f] = "committed"
    /\ Goto(f, IF timedOut[f] THEN "cleanup" ELSE "finalizing")
    /\ UNCHANGED <<row, worker, job, host, timedOut, beat, hist>>

\* finalize_job(): no condition on state or worker_id.
Finalize(f) ==
    LET j == job[f]
    IN  /\ pc[f] = "finalizing"
        /\ state' = Succeeded(state, count, j)
        /\ count' = SucceededCount(state, count, j)
        /\ Unclaim(j)
        /\ Goto(f, "cleanup")
        /\ UNCHANGED <<attempts, due, worker, job, host, timedOut, beat, hist>>

\* finalize_job() fails: the error is handled as if the method had raised it.
FinalizeFails(f) ==
    /\ pc[f] = "finalizing"
    /\ Goto(f, IF timedOut[f] THEN "releasing" ELSE "failing")
    /\ UNCHANGED <<row, worker, job, host, timedOut, beat, hist>>

\* finalize_job() commits and the answer is lost: the row is done, and the
\* error is handled as if nothing had been written.
FinalizeUnanswered(f) ==
    LET j == job[f]
    IN  /\ pc[f] = "finalizing"
        /\ state' = Succeeded(state, count, j)
        /\ count' = SucceededCount(state, count, j)
        /\ Unclaim(j)
        /\ Goto(f, IF timedOut[f] THEN "releasing" ELSE "failing")
        /\ UNCHANGED <<attempts, due, worker, job, host, timedOut, beat, hist>>

\* Mutant of ClearOwnership: the UPDATE names the row only.
ClearOwnershipUnguarded(f) ==
    /\ pc[f] = "releasing"
    /\ Unclaim(job[f])
    /\ Goto(f, "cleanup")
    /\ UNCHANGED <<state, count, attempts, due, worker, job, host, timedOut, beat, hist>>

\* _clear_worker_ownership(), or its failure after three tries.
ClearOwnership(f) ==
    /\ pc[f] = "releasing"
    /\ \/ OwnsRow(f) /\ Unclaim(job[f])
       \/ UNCHANGED <<owner, heartbeat>>
    /\ Goto(f, "cleanup")
    /\ UNCHANGED <<state, count, attempts, due, worker, job, host, timedOut, beat, hist>>

\* _execute_and_cleanup()'s finally: the row id leaves active_job_ids.  The
\* last join of the heartbeat thread is taken to have succeeded.
Cleanup(f) ==
    /\ pc[f] = "cleanup"
    /\ beat[f] = "off"
    /\ active'   = [active EXCEPT ![host[f]] = @ \ {job[f]}]
    /\ pc'       = [pc EXCEPT ![f] = "idle"]
    /\ job'      = [job EXCEPT ![f] = NoJob]
    /\ host'     = [host EXCEPT ![f] = NoWorker]
    /\ timedOut' = [timedOut EXCEPT ![f] = FALSE]
    /\ UNCHANGED <<row, phase, beat, hist>>

-----------------------------------------------------------------------------
(* handle_exception(): like finalize_job(), it does not ask whose row it is. *)

\* The row goes back to pending with the claim cleared.
BackToPending(j, isDue) ==
    /\ state' = [state EXCEPT ![j] = "pending"]
    /\ due'   = [due EXCEPT ![j] = isDue]
    /\ Unclaim(j)
    /\ UNCHANGED count

FailForGood(j) ==
    /\ state' = FailedForGood(state, j)
    /\ due'   = [due EXCEPT ![j] = TRUE]
    /\ Unclaim(j)
    /\ UNCHANGED count

\* A young TransientRegistryError, or a RetryableJobError(ignore_retry=True).
RetryUncounted(f) ==
    LET j == job[f]
    IN  /\ pc[f] = "failing"
        /\ uncounted[j] < AttemptBound
        /\ \E isDue \in BOOLEAN : BackToPending(j, isDue)
        /\ uncounted' = [uncounted EXCEPT ![j] = @ + 1]
        /\ Goto(f, "cleanup")
        /\ UNCHANGED <<attempts, worker, job, host, timedOut, beat, starts>>

\* A RetryableJobError pays an attempt but is never refused one; its delay is
\* the method's choice and may be zero.
RetryCounted(f) ==
    LET j == job[f]
    IN  /\ pc[f] = "failing"
        /\ attempts[j] < AttemptBound
        /\ attempts' = [attempts EXCEPT ![j] = @ + 1]
        /\ \E isDue \in BOOLEAN : BackToPending(j, isDue)
        /\ Goto(f, "cleanup")
        /\ UNCHANGED <<worker, job, host, timedOut, beat, hist>>

\* Any other exception: retried with a backoff while attempts last.
HandleException(f) ==
    LET j == job[f]
    IN  /\ pc[f] = "failing"
        /\ attempts[j] < AttemptBound
        /\ attempts' = [attempts EXCEPT ![j] = @ + 1]
        /\ IF Exhausted(j) THEN FailForGood(j) ELSE BackToPending(j, FALSE)
        /\ Goto(f, "cleanup")
        /\ UNCHANGED <<worker, job, host, timedOut, beat, hist>>

\* A TransientRegistryError past transient_registry_max_age_seconds.
ModelGone(f) ==
    /\ pc[f] = "failing"
    /\ FailForGood(job[f])
    /\ Goto(f, "cleanup")
    /\ UNCHANGED <<attempts, worker, job, host, timedOut, beat, hist>>

\* handle_exception()'s own transaction (REPEATABLE READ) is refused: the row
\* stays as it is and only the log knows.
HandlerFails(f) ==
    /\ pc[f] = "failing"
    /\ Goto(f, "cleanup")
    /\ UNCHANGED <<row, worker, job, host, timedOut, beat, hist>>

-----------------------------------------------------------------------------
(* Processes and time. *)

\* Mutant of Vanish: the threads' bookkeeping outlives them.
VanishKeepsThreads(F) ==
    /\ job'      = [f \in Futures |-> IF f \in F THEN NoJob ELSE job[f]]
    /\ host'     = [f \in Futures |-> IF f \in F THEN NoWorker ELSE host[f]]
    /\ UNCHANGED <<pc, timedOut, beat>>

\* Executions that vanish with their threads.
Vanish(F) ==
    /\ pc'       = [f \in Futures |-> IF f \in F THEN "idle" ELSE pc[f]]
    /\ job'      = [f \in Futures |-> IF f \in F THEN NoJob ELSE job[f]]
    /\ host'     = [f \in Futures |-> IF f \in F THEN NoWorker ELSE host[f]]
    /\ timedOut' = [f \in Futures |-> timedOut[f] /\ f \notin F]
    /\ beat'     = [f \in Futures |-> IF f \in F THEN "off" ELSE beat[f]]

\* The process dies (OOM, os._exit, container restart).
Crash(w) ==
    /\ phase[w] # "dead"
    /\ phase'  = [phase EXCEPT ![w] = "dead"]
    /\ active' = [active EXCEPT ![w] = {}]
    /\ Vanish(Busy(w) \cup Queued(w))
    /\ UNCHANGED <<row, hist>>

\* The main loop ends: queued futures are cancelled, running ones awaited.
Stop(w) ==
    /\ phase[w] = "serving"
    /\ phase' = [phase EXCEPT ![w] = "stopping"]
    /\ Vanish(Queued(w))
    /\ UNCHANGED <<row, active, hist>>

BackoffElapses(j) ==
    /\ ~due[j]
    /\ due' = [due EXCEPT ![j] = TRUE]
    /\ UNCHANGED <<state, count, owner, heartbeat, attempts, worker, exec, hist>>

HeartbeatAges(j) ==
    /\ heartbeat[j] = "fresh"
    /\ heartbeat' = [heartbeat EXCEPT ![j] = "stale"]
    /\ UNCHANGED <<state, count, owner, attempts, due, worker, exec, hist>>

\* Somebody keeps the row's heartbeat fresh, or is about to be done with it:
\* the owner's main loop, which leaves process_jobs() for update_heartbeats()
\* only when its slots are full; or an execution of the owner that is running its
\* method and has not timed out, has only its bookkeeping transaction to do, or
\* is next to get a pool thread.
Attended(j) ==
    \E f \in Futures :
        /\ job[f] = j /\ OwnsRow(f)
        /\ \/ phase[host[f]] = "serving" /\ j \in active[host[f]] /\ ~HasFreeSlot(host[f])
           \/ pc[f] = "running" /\ ~timedOut[f]
           \/ pc[f] \in {"committed", "finalizing", "failing", "releasing", "cleanup"}
           \/ pc[f] = "queued"
              /\ Cardinality({g \in Busy(host[f]) : pc[g] = "running"}) < Concurrency

-----------------------------------------------------------------------------
(* The operator's buttons and run_now(), on one row. *)

\* Identity keys are not modelled here: every requeue is accepted.
ButtonRequeue(j) ==
    /\ state'     = [state EXCEPT ![j] = "pending"]
    /\ attempts'  = [attempts EXCEPT ![j] = 0]
    /\ due'       = [due EXCEPT ![j] = TRUE]
    /\ Unclaim(j)
    /\ starts'    = [starts EXCEPT ![j] = 0]
    /\ uncounted' = [uncounted EXCEPT ![j] = 0]
    /\ UNCHANGED <<count, worker, exec>>

\* Releases the barriers but not the parent_id children.
ButtonSetToDone(j) ==
    LET done == [state EXCEPT ![j] = "done"]
    IN  /\ state' = DependentsOnSuccess(done, count, j)
        /\ count' = ReleasedCount(done, count, j)
        /\ UNCHANGED <<owner, heartbeat, attempts, due, worker, exec, hist>>

ButtonSetToFailed(j) ==
    /\ state' = FailedForGood(state, j)
    /\ UNCHANGED <<count, owner, heartbeat, attempts, due, worker, exec, hist>>

ButtonCancelled(j) ==
    /\ state' = Cancelled(state, j)
    /\ UNCHANGED <<count, owner, heartbeat, attempts, due, worker, exec, hist>>

\* The operator's own transaction executes the method.  A failure raises and
\* rolls everything back, so only success and a retry leave a trace.
RunNow(j) ==
    \/ /\ state' = Succeeded(state, count, j)
       /\ count' = SucceededCount(state, count, j)
       /\ UNCHANGED <<owner, heartbeat, attempts, due, worker, exec, hist>>
    \/ /\ state' = [state EXCEPT ![j] = "pending"]
       /\ \E isDue \in BOOLEAN : due' = [due EXCEPT ![j] = isDue]
       /\ \/ /\ attempts[j] < AttemptBound
             /\ attempts' = [attempts EXCEPT ![j] = @ + 1]
             /\ UNCHANGED uncounted
          \/ /\ uncounted[j] < AttemptBound
             /\ uncounted' = [uncounted EXCEPT ![j] = @ + 1]
             /\ UNCHANGED attempts
       /\ UNCHANGED <<count, owner, heartbeat, worker, exec, starts>>

-----------------------------------------------------------------------------
(* The specifications. *)

Acquisition ==
    \E w \in Workers, j \in Jobs :
        \/ ReclaimExhausted(w, j) \/ AcquireUnanswered(w, j)
        \/ \E f \in Futures : AcquireFresh(w, j, f) \/ Reclaim(w, j, f)

Beating ==
    \/ \E w \in Workers : UpdateHeartbeats(w)
    \/ \E f \in Futures : \/ HeartbeatJob(f) \/ TimeoutFires(f)
                          \/ HandleTimeout(f) \/ HeartbeatEnds(f)

Execution(f) ==
    \/ StartQueued(f) \/ CommitSideEffects(f) \/ Raise(f) \/ ReturnLate(f)
    \/ CheckAfterCommit(f) \/ Finalize(f) \/ FinalizeFails(f)
    \/ ClearOwnership(f) \/ Cleanup(f)

ExceptionHandling(f) ==
    \/ RetryUncounted(f) \/ RetryCounted(f) \/ HandleException(f)
    \/ ModelGone(f) \/ HandlerFails(f)

Processes == \E w \in Workers : Crash(w) \/ Stop(w)

\* Heartbeats are refreshed in time: only an unattended row goes stale.
TimelyAging == \E j \in Jobs : ~Attended(j) /\ HeartbeatAges(j)

Backoff == \E j \in Jobs : BackoffElapses(j)

Operator ==
    \E j \in Jobs : \/ ButtonRequeue(j) \/ ButtonSetToDone(j)
                    \/ ButtonSetToFailed(j) \/ ButtonCancelled(j) \/ RunNow(j)

\* Left alone, with heartbeats on time.
QuietNext ==
    \/ Acquisition \/ Beating \/ Processes \/ TimelyAging \/ Backoff
    \/ \E f \in Futures : Execution(f) \/ ExceptionHandling(f)

\* Heartbeats may be late: a database outage, a paused process.
LateAging == \E j \in Jobs : HeartbeatAges(j)

\* The connection drops between a finalization's commit and its answer.
LostAnswers == \E f \in Futures : FinalizeUnanswered(f)

Next == QuietNext \/ LateAging \/ LostAnswers \/ Operator

QuietSpec == Init /\ [][QuietNext]_vars
LateSpec  == Init /\ [][QuietNext \/ LateAging]_vars
LossySpec == Init /\ [][QuietNext \/ LostAnswers]_vars
Spec      == Init /\ [][Next]_vars

\* The wheels that turn by themselves: clocks, pool threads, the heartbeat
\* thread, the bookkeeping transactions, and a serving worker that polls.
WheelsTurn ==
    /\ \A j \in Jobs :
        /\ WF_vars(BackoffElapses(j))
        /\ WF_vars(~Attended(j) /\ HeartbeatAges(j))
        /\ WF_vars(\E w \in Workers :
                        \/ ReclaimExhausted(w, j)
                        \/ \E f \in Futures : AcquireFresh(w, j, f) \/ Reclaim(w, j, f))
    /\ \A f \in Futures :
        /\ WF_vars(StartQueued(f))
        /\ WF_vars(TimeoutFires(f))
        /\ WF_vars(HandleTimeout(f) \/ HeartbeatEnds(f))
        /\ WF_vars(CheckAfterCommit(f) \/ Finalize(f) \/ FinalizeFails(f)
                   \/ ClearOwnership(f) \/ Cleanup(f) \/ ExceptionHandling(f))

\* In addition every method returns or raises at last.
MethodsReturn ==
    \A f \in Futures : WF_vars(CommitSideEffects(f) \/ Raise(f) \/ ReturnLate(f))

FairSpec   == QuietSpec /\ WheelsTurn /\ MethodsReturn
WedgedSpec == QuietSpec /\ WheelsTurn

-----------------------------------------------------------------------------
(* Properties. *)

Running(f) == pc[f] = "running"

\* Every run of a job is paid for: since the last requeue a row has been
\* claimed at most once more than its attempts and its uncounted retries
\* together, and not even that when it waits to be claimed.  This is what
\* stops a job that kills its worker, or overruns, from being re-run for ever
\* (the reclaim path of acquire_job_lock, handle_exception, run_now).
RetryAccounting ==
    \A j \in Jobs :
        starts[j] <= attempts[j] + uncounted[j]
                       + (IF state[j] \in {"waiting", "pending"} THEN 0 ELSE 1)

\* Heartbeats on time and no operator: a thread that has not timed out, from
\* its start to the end of its bookkeeping, works on a row that is started and
\* claimed by its own worker.  Nobody takes the row from under it.
ClaimHeld ==
    \A f \in Futures :
        pc[f] \in {"queued", "running", "committed", "finalizing", "failing"} /\ ~timedOut[f]
            => state[job[f]] = "started" /\ OwnsRow(f)

\* Heartbeats on time and no operator: a job's method runs in two threads at
\* once only if one of them has overrun its timeout (the overlap that
\* _handle_timeout's docstring accepts).
ExclusiveExecution ==
    \A f, g \in Futures :
        f # g /\ Running(f) /\ Running(g) /\ job[f] = job[g] => timedOut[f] \/ timedOut[g]

\* A row held by a running thread, timed out or not, leaves its owner or the
\* state started only after its heartbeat went stale: a timeout never releases
\* it (_handle_timeout).
HeldUntilStale ==
    [][\A f \in Futures :
        LET j == job[f]
        IN  (Running(f) /\ OwnsRow(f) /\ Running(f)' /\ (state'[j] # "started" \/ owner'[j] # owner[j]))
                => heartbeat[j] = "stale"]_vars

\* A job that is done stays done; the state diagram of docs/job-graphs.md
\* lets nothing leave done.
DoneIsFinal == [][\A j \in Jobs : state[j] = "done" => state'[j] = "done"]_vars

Graph == INSTANCE JobGraph WITH state <- state, count <- count

\* Heartbeats on time and no operator: whatever the threads, crashes and
\* timeouts, the table goes through the transactions of JobGraph and no others.
\* Every success, failure and retry is that of a started row, applied once.
ImplementsGraph == Graph!AutoSpec

\* A group barrier becomes pending only when every member is done
\* (_release_dependents, pending_dependency_count).
BarrierWaitsForAll == Graph!BarrierWaitsForAll

\* A worker has no more executions submitted than it has pool threads
\* (process_jobs counts active_job_ids against concurrency).
PoolNotOverfilled ==
    \A w \in Workers : Cardinality(Busy(w) \cup Queued(w)) <= Concurrency

\* _clear_worker_ownership is guarded so that it does not take the claim away
\* from a newer execution of the same job.
ClearsOnlyItsOwnClaim ==
    [][\A f \in Futures :
        (pc[f] = "releasing" /\ pc'[f] = "cleanup" /\ owner'[job[f]] # owner[job[f]])
            => ~\E g \in Futures : g # f /\ job[g] = job[f] /\ Running(g) /\ ~timedOut[g]]_vars

\* While some worker stays up and methods return, an unwired job is not left
\* behind by crashes, lost bookkeeping or timeouts: it reaches a terminal state
\* (stale-job reclaim; the retries a method may ask for without limit are cut
\* by AttemptBound).
EveryJobSettles ==
    (\E w \in Workers : <>[](phase[w] = "serving"))
        => \A j \in Jobs : InitialState(j) = "pending"
              => (state[j] \notin TerminalStates ~> state[j] \in TerminalStates)

\* A job that overran its timeout gets away from the thread that hangs in it,
\* while every worker stays up (stale-job reclaim as the backstop for a thread
\* that never returns, _handle_timeout).
OverrunIsRedispatched ==
    (\A w \in Workers : [](phase[w] = "serving"))
        => \A f \in Futures : (Running(f) /\ timedOut[f] /\ OwnsRow(f))
                                ~> (~Running(f) \/ ~OwnsRow(f))
=============================================================================
