# Odoo Job Worker: a TLA+ model

This directory holds a TLA+ model of the job queue in this repository: the
`queue_job` table and its dependency graphs, the calls that enqueue them, the
workers that execute its rows, the loop and upgrade gate around them, the
channel limits, and the supervisor that keeps one worker per database.
Modules are checked with TLC on small instances. The results that matter most
are proved with TLAPS for every value of the constants.

Every definition is translated from the code. `PROJECT.json` names the lines it
stands for.

## The system

| Component | State it keeps | Operations | Modelled in |
|---|---|---|---|
| Queue worker, `cli/worker.py` | `active_job_ids`, a thread pool, one heartbeat thread per execution, the clocks of the loop; in the table `state`, `worker_id`, `heartbeat`, `attempts`, `scheduled_at` | acquire, execute, finalize, handle an exception, heartbeat, time out, reclaim, stop; pause, reload the registry, recover from a database error | `JobQueue`, `WorkerLoop`, `ChannelLimits` |
| Job rows, `models/queue_job.py` | the same row, `parent_id`, `dependency_job_ids`, `pending_dependency_count`, `run_on_failure`, `identity_key`, the timestamps | `enqueue`; cascades on success, failure and cancellation; the form buttons and list actions; `run_now`; retention | `JobEnqueue`, `JobCascade`, `JobGraph`, `JobRetention` |
| Channel limits, `models/queue_limit.py` | `limit`, `rate_limit` | read by the acquire statement | `ChannelLimits` |
| Supervisor, `cli/runner.py` | worker threads, published instances, gates, advisory locks, failure history, quarantines | discover, start, stop, health check, watchdog, heartbeat file | `Supervisor` |
| Upgrade gate, `cli/upgrade_gate.py` | a cached probe and the time it closed | probe, pause, report overdue | `WorkerLoop`; its effect, in `Supervisor` |
| Delayables, `delay.py` | the wiring an object writes on what it holds | turns jobs, groups and chains into rows with parents and dependencies | `Delayables`, `DelayedGraph` |
| Heartbeat file, process guards, model mixin, serialization, lookups | little or none | | no |
| Monitor, demo and stress addons | statistics, examples | | no |

The components meet in the database. A worker claims a row by writing
`state = 'started'` and its `worker_uuid` in one transaction, then executes it
in a pool thread over several more transactions, while a heartbeat thread and
the main loop write the same row. Nothing but `worker_id` ties the row to the
execution, and `finalize_job` and `handle_exception` do not look at it. Workers
find abandoned rows by their heartbeat. The end of a row changes the rows wired
to it. Above this, the supervisor shares plain dictionaries with its worker
threads, and shares databases with other supervisors through advisory locks.

What is hard here: two executions of one row (late heartbeats, timeouts whose
thread goes on, a worker that reclaims its own row); crashes between any two
transactions; cascades that must cross two axes; counters that must be
decremented exactly once; transactions that enqueue from an old snapshot while
the jobs they wire to end; concurrent acquire statements; a cached probe and a
loop whose cycle may not end; threads that outlive their replacement.
`PROJECT.json` lists each hazard with its line and the properties that watch it.

What makes each component correct:

* worker: a row is held by one live execution; every run is paid for by an
  attempt; nothing is left `started` for ever;
* loop: no acquisition begins once the gate could know of an upgrade, and no job
  is taken with a registry that is owed a reload; lasting trouble is reported,
  cured trouble is not, and service returns;
* enqueuing: one live job per key; the rows of a graph end as it is written;
* graph: no row waits for an event that can no longer happen; counters are
  exact; callbacks and handlers are released by the right outcome;
* limits: `limit` and `rate_limit` hold;
* retention: every ended row can be collected;
* supervisor: one server per database; a death is charged once; a quarantine
  ends; a worker in trouble is seen by the watchdog or the degraded signal.

## The modules

* **`JobCascade`**: pure operators from the column functions `st`
  (`state`) and `cnt` (`pending_dependency_count`) to their next values. The
  wiring of the rows is constant, because no code changes it after `enqueue`.
  `Closure` stands for the code's breadth-first walks and recursive calls. It
  is a least set and not a RECURSIVE operator, so that proofs can use it.
* **`JobGraph`** (extends `JobCascade`): the table, one transaction per step.
  Worker transactions act on started rows only. This is what the graph promises
  when every execution ends on the row it was started for, and it is the
  abstract specification of `JobQueue`. The buttons act on rows in any state,
  because the methods ask for none and the list actions
  (`views/queue_job_actions.xml`) offer what the form view hides; a selection of
  several rows is taken one row at a time.
* **`Delayables`**: `delay()` of the three kinds of objects, as a function from
  a term to the calls of `enqueue` it makes, in order. The attributes an outer
  object writes on an inner one are a *wiring*.
* **`DelayedGraph`** (extends `Delayables`, INSTANCE `JobCascade`): a term is
  delayed and its rows are executed. `Fate` says from the term alone how each job
  must end, given the jobs that succeed; `Follows` says what comes after what.
* **`JobEnqueue`** (INSTANCE `JobCascade`): clients' transactions, each a list of
  `enqueue` calls. A client reads the snapshot it began with and its own rows,
  while the unique index sees every row, makes an insert wait for the transaction
  that holds the key, and refuses it when that one commits. Beside them jobs are
  executed: a completion has two steps (`ReadChildren`, `Complete`), and a method
  that raises, or a completion that is refused (`Raises`), is retried by
  `HandleException`. `Cancel` is the button on any committed row: one that runs
  and whose execution writes over it afterwards, and one that has ended.
  `Duplicated` is `_check_identity_key_state_unique`, which refuses to write a row
  whose key has been given to another live job.
* **`JobQueue`** (extends `JobCascade`): rows, workers and executions. A
  transaction is one action. An execution (`Futures`) has its own program
  counter `pc` between transactions, and `beat` for its heartbeat thread:

  | Code | Actions |
  |---|---|
  | `process_jobs`, `_acquire_job`, `acquire_job_lock` | `AcquireFresh`, `Reclaim`, `ReclaimExhausted`, `AcquireUnanswered` (the answer to the commit is lost); `Submit` puts the execution in the pool, `StartQueued` when a thread is free |
  | `_heartbeat_loop`, `_heartbeat_job`, `update_heartbeats` | `HeartbeatJob`, `UpdateHeartbeats`, `TimeoutFires`, `HeartbeatEnds` |
  | `_handle_timeout` | `HandleTimeout` |
  | `execute_job` | `CommitSideEffects`, `Raise`, `ReturnLate`, `CheckAfterCommit`, `Finalize`, `FinalizeFails`, `FinalizeUnanswered`, `ClearOwnership`, `Cleanup` |
  | `handle_exception` | `RetryUncounted`, `RetryCounted`, `HandleException`, `ModelGone`, `HandlerFails` |
  | process end, pool shutdown | `Crash`, `Stop` |
  | form buttons, `run_now` | `ButtonRequeue`, `ButtonSetToDone`, `ButtonSetToFailed`, `ButtonCancelled`, `RunNow` |

  Time is abstract. `heartbeat` is null, fresh or stale; `due` says whether
  `scheduled_at` has passed. `HeartbeatAges` may make any fresh heartbeat stale
  in `LateSpec` and `Spec`. In `QuietSpec` only an unattended row goes stale;
  `Attended` says from the code who keeps a row fresh. `LossySpec` is `QuietSpec`
  with finalizations whose answer is lost.
* **`JobRetention`** (extends `JobGraph`): adds `completed_at` and
  `cancelled_at`, by which `_gc_old_jobs` searches. `cancelled_at` alone is written
  in six places; `StampedHandlers`, `StampedDescendants`, `StampedBarriers`, `CancelWalk`,
  `StampedCancelledChildren` and `StampedCancelledDependents` say place by place
  which rows are stamped, apart from the cascades in `JobCascade` that move them.
* **`ChannelLimits`**: the acquire statement in two steps, `Look` (the
  snapshot) and `Take` (the row it locks) or `GiveUp` (its retries are used up),
  with rows around it that end, are written, overrun (`Overruns`), end without a
  trace (`EndUnrecorded`), go stale under a living worker or a dead one, and
  become fresh again by the batch heartbeat (`HeartbeatUpdate`). `lapsed` is a
  history of the rows that were stale since they were taken.
* **`WorkerLoop`**: the thread of one database, from the registry load through the
  cycles of `_listen_and_serve`, with the gate's cache. One action per statement
  that can fail. `Tick` advances all clocks; each saturates at the limit it is
  compared with. Time also passes while an acquisition blocks behind locks and is
  retried, up to `AcquireLimit`; it may succeed then. `registry` is what the
  loaded registry owes to the modules in the database. The database is up, down,
  locked (statements run into their timeout) or broken (only the acquisition
  raises).

  | Code | Actions |
  |---|---|
  | `_load_registry`, `_wait_for_upgrade_gate` | `LoadGateFails`, `WaitForGate`, `Load`, `LoadFails` |
  | `UpgradeGate.check`, `_upgrade_gate_is_open` | `Consult`, `WorkerConsults`, used by `Top`, `DrainGate`, `WaitForGate` |
  | `_listen_and_serve` | `Listen`, `Top`, `CheckRegistry`, `Beat`, `Wait` |
  | `process_jobs` | `PoolFull`, `DrainGate`, `Take`, `TakeNothing` |
  | `run`, `_back_off_after_database_error` | `...Fails`, `BackOff` |
  | `_fleet_is_degraded` | `Degraded`, a state function |
* **`Supervisor`**: one action per step of the supervisor's loop and database;
  a join is two actions with the world going on in between. Clocks are "none",
  "recent" or "old" past their threshold, and `failures` counts the stamps that
  are within the window. `use_advisory_lock` is on, as by default.
* **`JobCascadeProofs`** (lemmas about the cascades), **`JobGraphProofs`** (graph
  and retention), **`JobQueueProofs`**, **`JobClaimProofs`** (the worker),
  **`JobEnqueueProofs`**, **`ChannelLimitsProofs`**, **`WorkerLoopProofs`**,
  **`SupervisorProofs`**: the theorems.
* **`MC*`**: the instances for TLC; each names its graph as `delay.py` would
  write it, and `MCDelayedGraph` makes all of them.

Definitions whose comment says *Mutant of X* are plausible bugs in X. Replacing
X by one of them makes TLC refute the property it is listed with in
`PROJECT.json`. They are not part of the model.

## The runs

| Run | Instance | Checks | Distinct states |
|---|---|---|---|
| `exclusive` | 3 workers, `j1.on_done(j2)`, a timeout on `j1`, 2 retries, heartbeats on time | `ClaimHeld`, `ExclusiveExecution`, `HeldUntilStale`, `ImplementsGraph` (refinement) | 365 thousand |
| `accounting` | 2 workers, 1 job, late heartbeats, lost answers, every button | `TypeOK`, `RetryAccounting` | 1.2 million |
| `barrier` | `group(j1, j2).on_done(j3)`, 1 worker with a pool of 2 and 3 executions | `ExclusiveExecution`, `ImplementsGraph` | 919 thousand |
| `settles` | 2 workers, 1 job with timeout, 2 retries, fair | `EveryJobSettles` | 85 thousand |
| `handled` | 9 rows: a group, chains and handlers under a member | `NoStrandedRow`, `CounterIsExact`, `RightOutcomeReleases`, `BarrierWaitsForAll` | 714 |
| `buttons` | `group(a.on_error(y), b).on_error(x)`, every button on rows in any state, failures by reclaim | `TypeOK`, `NoStrandedBarrier`, `DoneAndCancelledCollectable` | 121 thousand |
| `delayed` | every graph of up to 3 jobs, every choice of failures | `EndsAsWritten`, `GraphsAreWellWired`, `StartsInOrder` | 63 thousand |
| `enqueue` | 2 transactions of up to 4 calls, 2 keys | `TypeOK`, `OneLivePerKey`, `StrandedOnlyByDedupe`, `BarrierWaitsForAll` | 339 thousand |
| `loop` | 1 thread, 2 slots, fair | `TypeOK`, `PausesForUpgrade`, `ReloadsBeforeServing`, `WedgedIsReported`, `PauseIsReported`, `HealthyAgain`, `ServesCurrentCode`, `ServesAgain`, `WatchdogSparesSlowJobs` | 362 thousand |
| `limits` | 1 worker process, 3 jobs of a channel, overruns and returning heartbeats | `PunctualLimitHolds`, `LastingStartsLimited` | 78 thousand |
| `prompt` | 2 processes, 1 database, 2 threads that end within the join, fair | `TypeOK`, `QuarantineOnlyServed`, `WatchdogSees`, `QuarantineEnds` | 67 thousand |
| `abandoned` | the same, threads hang or outlive the join | `OneServer`, `ChargedOnce` | 237 thousand |

Run one with `tlc -config MCJobQueue_exclusive.cfg MCJobQueue`.

**Bounds.** Three workers are what it takes to have an overrun thread, its
replacement and a third that might take the row from the replacement; with two
workers `ExclusiveExecution` does not need the guard of `_clear_worker_ownership`.
`AttemptBound` is one more than `MaxRetries`, so that exhaustion happens, except
in `exclusive`, where a reclaim or a vanished model fails the job. It also bounds
the retries a method asks for without being counted. `buttons` has a barrier and a
child under one member, both failure handlers, so the stamps of either axis meet
every button in every state; the walk below a cancelled handler
(`queue_job.py:765-772`) needs a handler's child and is left to the theorem
`RetentionHolds`. `handled` has a chain of three, a handler met on the way down,
and a handler with a child of its own. In `exclusive` a row with a child is taken
over by another worker, or failed by it; in `barrier` both members run in one
process and an execution waits in the pool's queue. `delayed` has every shape of
up to three jobs whose groups and chains have jobs as their parts; it leaves out
groups and chains of one part at three jobs, which it covers at one and two. In
`enqueue` one client runs a short program and the other a longer one; between them
they take the same keys in both orders, put a key on a member, on a child and on a
callback, and hang a chain on a barrier (so that a cancellation crosses both
axes). `MaxRows` is five: all programs run, in both orders, and the longest pairs
(a barrier's three or four rows beside a child program's three) lack their last
rows. In `loop` every limit differs enough from the others for their clocks to
expire in either order, and a queue of one is refilled at any moment; a streak of
one stands for every longer one, because only its clock is read. An acquisition
may block for a tick, after a check at an age of the probe just short of
`Interval`. In `limits` a channel with a limit of two and a rate of two has three
jobs, so one can be too many. `MaxFailures` is two, so one death restarts and the
second condemns; two threads let an abandoned one live next to its successor;
`StampBound` bounds the deaths that threads claim within the window.

**Symmetry** is used only in runs without liveness. **Deadlock** is not checked
where the system may really stop: when every process is dead or every row has
ended. `prompt` and `abandoned` check it.

**Where a property needs a condition.** `QuietSpec` (heartbeats on time, no
operator) is assumed by `exclusive` and `barrier`. Without it the
properties are false; see below. `exclusive` has a timeout and one slot per
worker, `barrier` two slots and no timeout, because a
worker with a timed-out thread and a free slot may reclaim its own row, and then
`worker_id` no longer separates the two executions. `handled` leaves out
failures by reclaim, because the code strands rows there, and `delayed` leaves
out the graphs in which a failure or a cancellation has to cross from one axis
to the other (`Crosses`, defined on the term) and chains of several steps given
to `on_error`. Jobs of `enqueue` succeed, are retried or are cancelled, and never
fail for good. `PunctualLimitHolds` leaves out the rows whose heartbeat lapsed.
`NoStrandedBarrier` is checked under every button, `NoStrandedRow` is not, because
Set to Done strands children. `StrandedOnlyByDedupe` excepts the wake-ups that are
lost to a job of another transaction. `limits` has one worker
process because two of them race.

**Fairness.** `FairSpec` of `JobQueue` assumes that clocks advance, that pool
and heartbeat threads make progress, that methods return or raise, and that a
serving worker polls. These are the loops of `run`, `process_jobs` and
`_heartbeat_loop`, which run on timeouts and do not wait for one another. There
is no fairness for a particular worker or for success, and `EveryJobSettles`
asks for one worker that stays up. Retries that a method asks for without limit
are cut by `AttemptBound`; the code itself never stops them. `FairSpec` of
`WorkerLoop` assumes that the thread goes on (each of its waits has a timeout)
and that time passes while it does. The database need not recover, a change need
not settle and a job need not end: where a property needs that, it says so in
its premise (`Quiet`, `JobsEnd`). `FairSpec` of
`Supervisor` assumes that its loop goes round (`stop_event.wait(timeout=10)`),
that threads reach their ends, and that time passes. Crashes, hangs and restarts
are never fair.

## Where the code and its documentation differ

`PROJECT.json` lists each finding with the line and the quotation. Each is
reproduced by a configuration below, which TLC refutes within seconds. Where one
names several properties, TLC stops at the first; without it, it finds the next.

| Configuration | What happens |
|---|---|
| `MCJobQueue_late` | with late heartbeats, a member completed by two executions is counted twice, and a straggler's exception takes a done job back to pending |
| `MCJobQueue_lost_answer` | the same to a done job whose final commit was not answered, with heartbeats on time |
| `MCJobQueue_wedged` | a thread that never returns keeps its timed-out row fresh for ever |
| `MCJobQueue_own_row` | a worker that acquires a row one of its own threads still has cannot tell two executions apart |
| `MCJobEnqueue_dedupe` | a callback wired to a deduplicated job misses its end; an ended job is returned as live; the index's refusal reaches the caller; a job cancelled while it runs, or a child cancelled during its parent's completion, is revived |
| `MCDelayedGraph_handler_chain` | of a chain given to `on_error` only the first step runs |
| `MCDelayedGraph_no_delay` | without delay a job runs after its own callbacks |
| `MCJobGraph_cross_failure`, `MCJobGraph_reclaim` | failure cascades keep to one axis, or to one step |
| `MCJobGraph_cleanup` | a cancelled group handler strands what is chained to it |
| `MCJobGraph_set_done` | Set to Done releases barriers but not children |
| `MCJobGraph_counts` | the counter counts a requeued member twice and a duplicated one once |
| `MCJobRetention_failed_kept` | rows failed by a cascade are never collected |
| `MCWorkerLoop_drain` | a drain that does not end: the watchdog's and the streak's clocks run on, and the registry is never checked |
| `MCWorkerLoop_errors` | a reload that fails on reopening is not tried again before jobs are taken; the backoff overflows after about a thousand errors in a row |
| `MCChannelLimits_race`, `MCChannelLimits_failures` | concurrent statements exceed a limit; with one worker, failed starts are not counted, and an overrun row that went stale comes back over the limit |
| `MCSupervisor_unwatched` | a late thread hides its successor from the watchdog |
| `MCSupervisor_removed` | discovery removes the database whose trouble should be reported |
| `MCSupervisor_lock_dropped` | a broken lock connection lets a second process in |

The overflow is not part of `WorkerLoop`'s `Next`: `OverflowSpec` adds it, with
`MaxStreak` in the place of the first streak whose delay does not fit a float.

## The proofs

Checked with `tlapm JobQueueProofs.tla`, and likewise for the others. Each
theorem holds for every value of the constants that meets the modules'
`...Assumption`: positive limits and intervals, `No...` values outside their
sets, rows wired to rows. Further conditions are stated with the theorem.

### The table (`JobGraphProofs`)

The buttons of `Spec` act on rows in any state, as often as they are pressed.

* **`CountersNatural`**: `Spec => []TypeOK`, and `RetentionSpec` too, for any wiring.
  `count \in [Jobs -> Nat]` is the hard part. It needs `CountsPositive`: a barrier
  that waits counts at least one, because it stops waiting when it reaches zero.
* **`CompletedGroupsRelease`**: `Spec => []CompletedGroupReleases`, assuming
  `DistinctMembers` (no dependency list names a row twice). `CountsCover` says that
  a waiting barrier counts at most its members that are not done. Most of it is
  one lemma about a step, `MemberByMember`: the counter of a barrier that goes on
  waiting loses one exactly if a member becomes done that was not.
* **`CounterExact`**: `[]CounterIsExact` on the same assumption, for `AutoSpec`, and
  for `Spec` under two conditions on steps: `DoneStays`, no done row is taken back
  (requeued, failed, cancelled or left pending by `run_now`), and `CountsOnce`, no
  Set to Done or `run_now` of a done row finds a barrier that still waits and counts
  it again. No counter would notice either.
* **`OutcomeReleases`**: `RightOutcomeReleases`, assuming also `OneAxis` (a barrier
  has no parent), for `AutoSpec`, and for `Spec` under these two and
  `NoWaitingRowForced` (no waiting row is requeued or left pending by `run_now`,
  which writes pending over waiting). It rests on what the closures put in:
  everything a failure fails or a success cancels was put there by the seed or by
  another member of the closure.
* **`BarrierWaits`**: `BarrierWaitsForAll` on the same terms; it follows.
* **`OnlyCutCascadesStrand`**: assuming `DistinctMembers` and `PlainGroups`
  (members do not wait themselves, nothing is chained to a group's callback or
  handler), `Spec` implies `[]NoStrandedRow`, `[]FailureReachesCallbacks` and
  `SuccessReachesChildren`, with every button on rows in any state, as long as no
  step is `CutShort`: a Set to Done of a row with waiting children, or a reclaim
  of an exhausted row with a failing child that has children. The code leaves
  these two cascades incomplete (the findings of `MCJobGraph_set_done` and
  `MCJobGraph_reclaim`), and no other step, button or death of a worker strands a
  row. The property is not inductive: `OpenInv` adds to `BarrierInv` (below) that
  the parent of a waiting row has not ended (`ParentsOpen`). Each step moves one
  row to pending or started, relabels it, or ends one and reaches all who wait for
  it (`StepsReach`).
* **`NoRowStranded`**: `HandledSpec => []NoStrandedRow`, and the same of `AutoSpec`
  where chains have two links at most.
* **`GroupsNeverStranded`**: assuming `DistinctMembers` and `PlainMembers` (the
  members of groups wait for nobody themselves; anything may be chained), `Spec`
  and `RetentionSpec` imply `[]NoStrandedBarrier`, without a condition on steps.
  `BarrierInv`: a waiting barrier counts at least one and at most its members that
  have not ended (`CountsLive`), and none of them has failed or waits
  (`GroupsOpen`). A requeue or a repeated Set to Done breaks the exact counter and
  not this bound: the one adds a member that may still end, the other counts too
  many.
* **`RetentionHolds`**: `RetentionSpec => []DoneAndCancelledCollectable`, with
  every button and for any wiring. The proof goes from place to place: the rows
  that each cascade moves to cancelled are among those stamped there, which for
  the two walks is a statement about closures.

`MCJobGraph_counts` shows that `DistinctMembers` is needed, and `DoneStays` for
the exact counter (a second Set to Done breaks it like a second completion);
`MCJobGraph_cross_failure` and `MCJobGraph_cleanup` that `PlainGroups` is.
`GraphsAreWellWired` checks that `delay()` wires every small graph as
`DistinctMembers` and `OneAxis` assume; two calls with one identity key are what
lists a row twice.

### The worker (`JobQueueProofs`, `JobClaimProofs`)

* **`TypeCorrect`**: `Spec => []TypeOK`. `TypeOK` is inductive. Its last conjunct
  (a live execution knows its job and process) is what lets the other actions be
  typed.
* **`RetriesAccounted`**: `Spec => []RetryAccounting`, with late heartbeats and
  every button. `AccountStep` sorts the steps by what they do to a row: it is
  started and the last run was paid for, it goes back to pending and pays, or the
  account stays as it is. The lemma this rests on is that a cascade moves only rows
  that wait, so it never puts a started row back to pending without a charge.
* **`RunsStayBounded`**: where `max_retries` is not 0, the same specification implies
  `[]RunsBounded` as long as `[][RetriesInTime]_vars`: since its last requeue no job
  was started more than `max_retries` times and once more, uncounted retries apart.
  `RetriesInTime` excludes a retry that is asked for (a `RetryableJobError`, in a
  worker or in `run_now()`) when the row has no attempt left; nothing in the code
  refuses it, and nothing else can exceed the limit.
* **`ClaimsHold`**, **`ExecutionsExclusive`**, **`HeldTillStale`**,
  **`OwnClaimsCleared`**, **`GraphImplemented`**: `QuietSpec /\ []SeparateExecutions`
  implies `[]ClaimHeld`, `[]ExclusiveExecution`, `HeldUntilStale`,
  `ClearsOnlyItsOwnClaim` and the refinement `ImplementsGraph`. The invariant is
  `ClaimInv`: every live execution is counted
  in its worker's `active_job_ids`, so nothing is left to the pool's queue; a row
  claimed for a process that works on it is started and has a heartbeat; and the
  row of an execution that has not overrun (or has passed the check after its
  commit) is claimed for its process, with a fresh heartbeat. `ClaimHeld` alone is
  not inductive: without the heartbeat, another worker could reclaim the row. For
  the refinement each of the actions is mapped to a transaction of
  `JobGraph` or to a stutter.
* **`OwnRowsSkipped`**: `Spec /\ [][SkipsOwnRows]_vars` implies
  `[]SeparateExecutions` and `[]PoolNotOverfilled`, with late heartbeats, lost
  answers and every button. `SkipsOwnRows` is a property of the acquisition alone:
  no worker takes a row whose id is still in its `active_job_ids`. The invariant is
  `PoolInv`: every live execution has a thread, a row of its own and a place in
  `active_job_ids`, and no more places are taken than there are threads.
* **`OneThreadSeparates`**: with `Concurrency = 1` the same two hold of `Spec`, since
  a worker looks for a row only while `active_job_ids` is empty.
* **`SkippingKeepsPromises`**, **`OneThreadKeepsPromises`**: so with either of these
  the five properties of `ClaimsHold` and its neighbours, and `PoolNotOverfilled`,
  hold of the system left alone, for any number of workers and jobs.
* **`BarriersHold`**, **`CountersStayExact`**, **`RightOutcomesRelease`**,
  **`WorkersStrandNobody`**: on the terms of `ClaimsHold`, the refinement carries
  `BarrierWaits`, `CounterExact`, `OutcomeReleases` and the second half of
  `NoRowStranded`, each with its conditions on the wiring, to the workers.
* **`DoneStaysDone`**: on these terms done is final.

`SeparateExecutions` says that no process runs one job in two executions at once.
**The code does not ensure it when a worker has more than one thread**, and the
default is two (`cli/runner.py:256`). A job that is retried at once is pending
while its thread still cleans up; the same worker may acquire it again, and
`active_job_ids`, a set, then counts two executions as one. With three jobs
and four executions that is enough for TLC to break `ClaimHeld` in `QuietSpec`
without a timeout: an execution waits in the pool's queue, without a heartbeat,
until its row is reclaimed. Run `barrier` shows the properties with two threads
for up to three live executions, which are too few for this. So the theorems
with `SeparateExecutions` say what the code guarantees as long as this does not
happen, `OneThreadKeepsPromises` that it cannot with one thread, and
`SkippingKeepsPromises` that a clause in the acquire query which leaves out the
ids in `active_job_ids` would be enough with more. `MCJobQueue_own_row` shows what
follows when it does happen: `ClearsOnlyItsOwnClaim` and `PoolNotOverfilled`, which
`SkippingKeepsPromises` proves under the clause, are what it violates.

### Enqueuing (`JobEnqueueProofs`)

All assume `OneAxis`: no call has both a parent and dependencies, as `delay()`
makes them. `RowsInv` is their common invariant: types, what an open
transaction's rows may be, and `Decisions`: the row of an execution is started,
done or cancelled (an operator may cancel a job that runs); between the read and
the write of a completion, what will be written hangs below the completed row, has
not moved except to be cancelled, has no execution of its own, and is written by
no other completion.

* **`EnqueueTypeCorrect`**: `Spec => []TypeOK`.
* **`KeysStayUnique`**: `Spec => []OneLivePerKey`. The insert is guarded by the
  index; the hard steps are a completion that would revive cancelled children
  (`Complete`), where `CollidingIn` must see every row it makes live, and the retry
  of a job that was cancelled while it ran and whose key another job has taken
  since (`HandleException`).
* **`EnqueuedBarrierWaits`**: `Spec => BarrierWaitsForAll`: when a barrier is let
  go every member has completed, though an operator may have cancelled one while
  it ran or afterwards. `CountsCover` says that
  a barrier counts at least the members that have not completed: the counter may be
  too high (a member was done before it was wired, or is listed twice) and strand
  the barrier, but it is never too low. With both axes on one call TLC refutes it, so
  `OneAxis` is needed.
* **`LostWakeUpsAreOthers`**: `Spec => []StrandedOnlyByDedupe`, also under
  `PlainPrograms`: a program uses a key once, the members of a group are single
  jobs listed once, and nothing is chained to a group's failure handler. The
  programs of the `enqueue` run are of this kind. Two calls with one key are one
  row, which then has the place of both; `MCJobGraph_counts` strands a row by a
  member listed twice, `MCJobGraph_cleanup` by a handler's child. The invariant is
  `WakeInv`, which TLC checked on the `enqueue` instance first:
  - `Together`: the rows of a transaction are all out, or all gone.
  - `Answers`: what a transaction sees is somebody else's and there to stay, and
    what it has got is that or the row it inserted for that call.
  - `PlainRows`: a row waits for rows of its own transaction, wired as the
    program says, or for such settled rows of others.
  - `ParentsWake`: the parent of a waiting row is live, and a completion that has
    already read found the child, or will drop it along with the parent. This is
    the hard one: a completion decides on what it read, and the proof has to show
    that no row of one transaction can slip in between.
  - `GroupsWake`: a group of one transaction counts exactly the members that have
    not completed, there is one, and every member is live or has completed.

  Rows of other transactions are left out of the last two, and that is where a
  wake-up is lost: `MCJobEnqueue_dedupe` shows it.

### Limits (`ChannelLimitsProofs`)

* **`ChannelsOvershoot`**: with n workers the jobs of a channel whose heartbeat
  never lapsed are at most n - 1 above its limit, and its starts at most n - 1 above
  its rate. `LimitInv` counts these rows together with the statements that have
  looked and may still take one; each `Look` below the limit reserves at most the
  looker's own turn. A row that lapsed and comes back is counted by no statement
  in between, so no bound holds of all fresh rows (`MCChannelLimits_failures`).
* **`OneWorkerKeepsLimits`**, **`OneWorkerKeepsRates`**: for n = 1,
  `PunctualLimitHolds` and `LastingStartsLimited`. One worker per database is what the
  supervisor provides (`OneServer`); several hosts without the lock race.

### The loop (`WorkerLoopProofs`)

* **`LoopTypeCorrect`**: `Spec => []TypeOK`. `SlotInv` adds that a job is looked for
  only while a slot is free; without it `active` could not be bounded, because the
  test and the acquisition are two steps.
* **`PausesHold`**: `Spec => PausesForUpgrade`, however long the drain: no job is
  taken once a change has lasted `Interval + AcquireLimit`. `GateInv` relates the
  cached answer to the change it did not see: while the gate is open during a
  change, the change is younger than the probe (`changeAge <= probeAge`), and
  during an acquisition the change has lasted less than `Interval` and the time
  the acquisition has blocked so far.
* **`ReloadsHold`**: `Spec => ReloadsBeforeServing`. `ReloadInv` says that a reload
  that is owed while the gate is open is due at this very step: the gate can only
  have reopened in the consultation just made, because a change that was seen has
  closed it, and the worker sees every answer (`wasOpen`).
* **`ReportsAreCurrent`**: `Spec` implies that `Degraded` holds only while the gate is
  closed, the registry is not loaded or a streak of database errors has not ended.
  `ClockInv`: each of the three clocks runs while what it times lasts, and
  is cleared with it. That the clocks do stop is the liveness of `HealthyAgain`.

### The supervisor (`SupervisorProofs`)

* **`SupervisorTypeCorrect`**: `[]TypeOK`, under `LateSpec` (threads hang and end
  late) and `PromptSpec`. `Places` says where a thread object can be: registered,
  being joined, or told to stop.
* **`DatabaseHasOneServer`**: `LateSpec => []OneServer`, from `Locked`: a process
  that has registered a thread for a database holds its lock.
* **`DeathChargedOnce`**: `LateSpec => []ChargedOnce`. `Charges` says that a thread
  that lives is not charged, and one that is charged is in `counted` or was told to
  stop, so the health check passes it by.
* **`QuarantineServed`**, **`WatchdogCovers`**: `PromptSpec => []QuarantineOnlyServed`
  and `[]WatchdogSees`. `PromptInv` adds that every thread that has not ended is
  registered or joined, so that none is left that could publish or withdraw an
  instance behind its successor's back; `MCSupervisor_unwatched` shows this
  where threads outlive the join.

### Only model-checked

`EndsAsWritten`, `GraphsAreWellWired` and `StartsInOrder`, because `Delayables`
is recursive, which the prover does not support; and everything about liveness
(`EveryJobSettles`, `QuarantineEnds`, the temporal properties of `WorkerLoop`
about what happens at last), which needs ENABLED and is beyond it.

## Not modelled

* Failures for good, with their cascades and failure handlers' releases, retries of
  a refused insert by Odoo's request layer, and the buttons other than Cancel in
  `JobEnqueue` (they are in `JobGraph`, without keys): a row that is requeued could
  meet its key there.
* `run_now` during `delay()` (`QUEUE_JOB__NO_DELAY`) is an order of runs in
  `Delayables`; the rows' states are not followed there. `split()` and the
  setters of a delayable.
* Graphs of four and more jobs, and groups or chains as parts of groups or
  chains: their `delay()` returns no job, so the object around them has nothing
  to wait for (docs/job-graphs.md, "Chain limitation").
* The single statements inside a retry wrapper: a wrapper is one attempt with
  its outcome.
* The probe's query: module states, the flag and the versions are one change.
* A failure or cancellation cascade as several statements: it is one step; the
  cascade on success is two in `JobEnqueue`.
* Seconds: backoff curves, intervals and join times.
* The clocks in `abandoned`, and hangs in `prompt`.
* What an execution still writes after a button has moved its row is in `JobQueue`
  and `JobEnqueue`, not in `JobGraph`, whose workers act on started rows. The
  buttons are not in `ChannelLimits`. A list action on several rows at once is one
  transaction in the code and one per row here.
* The supervisor in `WorkerLoop` beyond its degraded signal, and the inside of the
  worker in `Supervisor`.
* Reporting: display fields, OCA aliases, monitor, demo, stress, views; and pure
  I/O: the heartbeat file, process guards, signal handlers.

## Plan

The order is by consequence: the row and its executions first, then what is
built on it.

1. Done: `JobCascade`, `JobGraph`, `JobQueue`, `JobRetention`, `ChannelLimits`,
   `Supervisor`, `Delayables`, `DelayedGraph`, `JobEnqueue`, `WorkerLoop`, and the
   theorems above.
2. Done: the claim of a row with more than one pool thread, from a condition on
   the acquisition (`SkipsOwnRows`), and the table under every button.
3. `Backoff`: the three delay formulas against one another, over bounded inputs.
4. Alert rules of the monitor, if their cooldown proves to have state of interest.
