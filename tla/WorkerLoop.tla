----------------------------- MODULE WorkerLoop -----------------------------
(***************************************************************************)
(* The thread that serves one database: it waits for the upgrade gate and  *)
(* loads the registry (QueueJobRunner._load_registry), then runs           *)
(* QueueWorker.run(): take the LISTEN session, and in each cycle consult   *)
(* the gate, check the registry, drain the queue, beat for the running     *)
(* jobs and wait.  A database error goes through                           *)
(* _back_off_after_database_error() and takes a fresh session.             *)
(*                                                                         *)
(* Around it: the database fails and recovers, another process installs    *)
(* or upgrades modules, jobs arrive and end.  The supervisor's             *)
(* _fleet_is_degraded() reads the clocks of the gate and of the worker.    *)
(*                                                                         *)
(* A tick is a unit of monotonic time.  Every clock saturates at the limit *)
(* the code compares it with, so the model is finite and loses nothing.    *)
(***************************************************************************)
EXTENDS Integers

CONSTANTS
    Concurrency,     \* slots of the execution pool
    MaxQueue,        \* pending rows waiting at once (a bound)
    Interval,        \* interval_seconds: how long the gate caches its probe
    Overdue,         \* unhealthy_after_seconds, not 0
    RegInterval,     \* registry_check_interval
    Threshold,       \* database_unhealthy_after_seconds, not 0
    Stall,           \* worker_stall_timeout_seconds
    AcquireLimit,    \* how long an acquisition may block: its timeouts and retries
    MaxStreak,       \* consecutive database errors told apart (a bound)
    None             \* a clock that is not running

ASSUME LoopAssumption ==
    /\ {Concurrency, MaxQueue, Interval, Overdue} \subseteq Nat \ {0}
    /\ {RegInterval, Threshold, Stall, MaxStreak} \subseteq Nat \ {0}
    /\ AcquireLimit \in Nat
    /\ None \notin Int

VARIABLES
    db,              \* what statements meet
    change,          \* an install or upgrade by another process
    changeAge,       \* how long it has lasted
    registry,        \* the loaded registry against the database's modules
    queue, active,   \* pending rows; len(active_job_ids)
    pc,              \* where the thread is
    gateOpen, probeAge, closedAge,    \* UpgradeGate: _state, _checked_at, _closed_since
    wasOpen, checkAge,                \* _upgrade_gate_was_open, _last_registry_check
    retryAge,                         \* _registry_load_retry_since
    acquireAge,                       \* how long the acquisition under way has blocked
    progressAge,                      \* last_progress
    streak, streakAge                 \* _database_error_streak and its start

world  == <<db, change, changeAge>>
gate   == <<gateOpen, probeAge, closedAge>>
seen   == <<wasOpen, checkAge>>
errors == <<streak, streakAge>>
tries  == <<retryAge, acquireAge>>
vars   == <<world, registry, queue, active, pc, gate, seen, tries, progressAge, errors>>

\* down: every statement fails.  locked: statements run into the lock or
\* statement timeout.  broken: the acquisition raises an error that is not
\* transient, and the rest works.
DbStates == {"up", "locked", "down", "broken"}

\* seen: a probe has reported the change.
Changes == {"none", "unseen", "seen"}

\* owed: the gate saw the change and the registry was not reloaded since.
\* failed: that reload raised.  missed: no probe fell into the change.
Registries == {"current", "owed", "failed", "missed"}

PCs == {"gate", "load", "connect", "top", "registry", "drain", "acquire",
        "beat", "wait", "recover", "ended"}

Clock(limit) == 0..limit \cup {None}

TypeOK ==
    /\ db \in DbStates /\ change \in Changes /\ changeAge \in 0..(Interval + AcquireLimit)
    /\ registry \in Registries
    /\ queue \in 0..MaxQueue /\ active \in 0..Concurrency
    /\ pc \in PCs
    /\ gateOpen \in BOOLEAN /\ probeAge \in 0..Interval /\ closedAge \in Clock(Overdue)
    /\ wasOpen \in BOOLEAN /\ checkAge \in 0..RegInterval
    /\ retryAge \in Clock(Threshold) /\ acquireAge \in 0..AcquireLimit /\ progressAge \in 0..Stall
    /\ streak \in 0..MaxStreak /\ streakAge \in Clock(Threshold)

Init ==
    /\ db = "up" /\ change = "none" /\ changeAge = 0
    /\ registry = "missed"
    /\ queue = 0 /\ active = 0
    /\ pc = "gate"
    /\ gateOpen = TRUE /\ probeAge = Interval /\ closedAge = None
    /\ wasOpen = TRUE /\ checkAge = 0
    /\ retryAge = None /\ acquireAge = 0 /\ progressAge = 0
    /\ streak = 0 /\ streakAge = None

-----------------------------------------------------------------------------
(* The gate: at most one probe per Interval, and the cached answer between *)

\* Mutant of ProbeDue: a closed gate keeps its cached answer.
ProbeDueWhileOpen == gateOpen /\ probeAge = Interval

ProbeDue   == probeAge = Interval
ProbeFails == ProbeDue /\ db = "down"

\* UpgradeGate.is_open(): closed while modules are in transition, and when
\* the probe itself is blocked.
IsOpen == IF ProbeDue THEN change = "none" /\ db # "locked" ELSE gateOpen

\* Mutant of ClosedSince: every closed probe restarts the clock.
ClosedSinceProbe ==
    IF IsOpen THEN None ELSE IF ProbeDue THEN 0 ELSE closedAge

ClosedSince ==
    IF IsOpen THEN None ELSE IF gateOpen THEN 0 ELSE closedAge

\* check() and _record(): an error leaves the gate as it was.
Consult ==
    /\ ~ProbeFails
    /\ gateOpen' = IsOpen
    /\ probeAge' = IF ProbeDue THEN 0 ELSE probeAge
    /\ closedAge' = ClosedSince
    /\ change' = IF ProbeDue /\ change = "unseen" THEN "seen" ELSE change

\* Mutant of CheckDueAt: the check comes when its interval says.
CheckDueAtInterval == checkAge

\* _upgrade_gate_is_open(): reopening makes the registry check due.
CheckDueAt == IF IsOpen /\ ~wasOpen THEN RegInterval ELSE checkAge

WorkerConsults ==
    /\ Consult
    /\ wasOpen' = IsOpen
    /\ checkAge' = CheckDueAt

-----------------------------------------------------------------------------
(* Loading the registry before the worker exists                           *)

LoadFailed ==
    /\ retryAge' = IF retryAge = None THEN 0 ELSE retryAge
    /\ pc' = "gate"
    /\ UNCHANGED acquireAge

\* The gate's probe fails: the same backoff as a failed load.
LoadGateFails ==
    /\ pc = "gate" /\ ProbeFails
    /\ LoadFailed
    /\ UNCHANGED <<world, registry, queue, active, gate, seen, progressAge, errors>>

WaitForGate ==
    /\ pc = "gate"
    /\ Consult
    /\ pc' = IF IsOpen THEN "load" ELSE "gate"
    /\ UNCHANGED <<db, changeAge, registry, queue, active, seen, tries, progressAge, errors>>

Load ==
    /\ pc = "load" /\ db # "down"
    /\ registry' = "current"
    /\ retryAge' = None
    /\ wasOpen' = TRUE /\ checkAge' = 0 /\ progressAge' = 0
    /\ pc' = "connect"
    /\ UNCHANGED <<world, queue, active, gate, acquireAge, errors>>

LoadFails ==
    /\ pc = "load" /\ db \in {"down", "locked"}
    /\ LoadFailed
    /\ UNCHANGED <<world, registry, queue, active, gate, seen, progressAge, errors>>

-----------------------------------------------------------------------------
(* The main loop                                                           *)

Raise(step) ==
    /\ pc = step /\ pc' = "recover"
    /\ acquireAge' = 0
    /\ UNCHANGED <<world, registry, queue, active, gate, seen, retryAge, progressAge, errors>>

\* Mutant of Listen: the streak is cleared on entry, not at the end of a cycle.
ListenClearsStreak ==
    /\ pc = "connect" /\ db # "down"
    /\ streak' = 0 /\ streakAge' = None
    /\ pc' = "top"
    /\ UNCHANGED <<world, registry, queue, active, gate, seen, tries, progressAge>>

Listen ==
    /\ pc = "connect" /\ db # "down"
    /\ pc' = "top"
    /\ UNCHANGED <<world, registry, queue, active, gate, seen, tries, progressAge, errors>>

ListenFails == db = "down" /\ Raise("connect")

Top ==
    /\ pc = "top"
    /\ progressAge' = 0
    /\ WorkerConsults
    /\ pc' = IF IsOpen THEN "registry" ELSE "beat"
    /\ UNCHANGED <<db, changeAge, registry, queue, active, tries, errors>>

\* The backoff that follows marks progress as well.
TopFails == ProbeFails /\ Raise("top")

\* _check_registry(): due every RegInterval.  The clock restarts whatever
\* the reload does, and every exception is swallowed.
RegistryDue == checkAge = RegInterval

Reload ==
    /\ db # "down"
    /\ registry' = "current"

ReloadFails ==
    /\ db \in {"down", "locked"}
    /\ registry' = IF registry = "owed" THEN "failed" ELSE registry

\* Mutant of CheckRegistry: the clock is set before the interval is compared.
CheckRegistryRestarts ==
    /\ pc = "registry"
    /\ IF RegistryDue THEN Reload \/ ReloadFails ELSE UNCHANGED registry
    /\ checkAge' = 0
    /\ pc' = "drain"
    /\ UNCHANGED <<world, queue, active, gate, wasOpen, tries, progressAge, errors>>

CheckRegistry ==
    /\ pc = "registry"
    /\ IF RegistryDue
         THEN (Reload \/ ReloadFails) /\ checkAge' = 0
         ELSE UNCHANGED <<registry, checkAge>>
    /\ pc' = "drain"
    /\ UNCHANGED <<world, queue, active, gate, wasOpen, tries, progressAge, errors>>

\* process_jobs(): a full pool or a closed gate ends the drain.
PoolFull ==
    /\ pc = "drain" /\ active >= Concurrency
    /\ pc' = "beat"
    /\ UNCHANGED <<world, registry, queue, active, gate, seen, tries, progressAge, errors>>

\* Mutant of DrainGate: the drain trusts the gate's answer at the top of the cycle.
DrainUngated ==
    /\ pc = "drain" /\ active < Concurrency
    /\ pc' = "acquire"
    /\ UNCHANGED <<world, registry, queue, active, gate, seen, tries, progressAge, errors>>

\* Mutant of DrainGate: one job more than the pool has slots.
DrainOverfills ==
    /\ pc = "drain" /\ active <= Concurrency
    /\ WorkerConsults
    /\ pc' = IF IsOpen THEN "acquire" ELSE "beat"
    /\ UNCHANGED <<db, changeAge, registry, queue, active, tries, progressAge, errors>>

DrainGate ==
    /\ pc = "drain" /\ active < Concurrency
    /\ WorkerConsults
    /\ pc' = IF IsOpen THEN "acquire" ELSE "beat"
    /\ UNCHANGED <<db, changeAge, registry, queue, active, tries, progressAge, errors>>

DrainGateFails == active < Concurrency /\ ProbeFails /\ Raise("drain")

Take ==
    /\ pc = "acquire" /\ db = "up" /\ queue > 0
    /\ queue' = queue - 1 /\ active' = active + 1
    /\ acquireAge' = 0
    /\ pc' = "drain"
    /\ UNCHANGED <<world, registry, gate, seen, retryAge, progressAge, errors>>

NothingToTake == pc = "acquire" /\ ((db = "up" /\ queue = 0) \/ db = "locked")

\* Mutant of TakeNothing: waiting for the own jobs marks no progress.
TakeNothingSilently ==
    /\ NothingToTake
    /\ acquireAge' = 0
    /\ pc' = IF active > 0 THEN "drain" ELSE "beat"
    /\ UNCHANGED <<world, registry, queue, active, gate, seen, retryAge, progressAge, errors>>

\* Nothing to take, or a transient error: with jobs running the drain goes
\* on, and only an idle pool ends it.
TakeNothing ==
    /\ NothingToTake
    /\ pc' = IF active > 0 THEN "drain" ELSE "beat"
    /\ progressAge' = IF active > 0 THEN 0 ELSE progressAge
    /\ acquireAge' = 0
    /\ UNCHANGED <<world, registry, queue, active, gate, seen, retryAge, errors>>

TakeFails == db \in {"down", "broken"} /\ Raise("acquire")

\* update_heartbeats(): no statement without a running job, and a transient
\* error skips the beat.
Beat ==
    /\ pc = "beat" /\ (active = 0 \/ db # "down")
    /\ pc' = "wait"
    /\ UNCHANGED <<world, registry, queue, active, gate, seen, tries, progressAge, errors>>

BeatFails == active > 0 /\ db = "down" /\ Raise("beat")

\* Mutant of Wait: the streak is cleared and its clock is not.
WaitKeepsClock ==
    /\ pc = "wait"
    /\ streak' = 0
    /\ pc' = "top"
    /\ UNCHANGED <<world, registry, queue, active, gate, seen, tries, progressAge, streakAge>>

\* A wake-up or the poll timeout ends the cycle, which clears the streak.
Wait ==
    /\ pc = "wait"
    /\ streak' = 0 /\ streakAge' = None
    /\ pc' = "top"
    /\ UNCHANGED <<world, registry, queue, active, gate, seen, tries, progressAge>>

WaitFails == db = "down" /\ Raise("wait")

\* _back_off_after_database_error()
BackOff ==
    /\ pc = "recover"
    /\ streak' = IF streak < MaxStreak THEN streak + 1 ELSE streak
    /\ streakAge' = IF streakAge = None THEN 0 ELSE streakAge
    /\ progressAge' = 0
    /\ pc' = "connect"
    /\ UNCHANGED <<world, registry, queue, active, gate, seen, tries>>

\* The delay is computed from the streak before it is capped: some error of
\* the streak is the first whose delay does not fit a float.
BackOffOverflows ==
    /\ pc = "recover" /\ streak = MaxStreak
    /\ pc' = "ended"
    /\ UNCHANGED <<world, registry, queue, active, gate, seen, tries, progressAge, errors>>

Loading  == LoadGateFails \/ WaitForGate \/ Load \/ LoadFails
Draining == PoolFull \/ DrainGate \/ DrainGateFails \/ Take \/ TakeNothing \/ TakeFails
Cycling  == Listen \/ ListenFails \/ Top \/ TopFails \/ CheckRegistry
              \/ Beat \/ BeatFails \/ Wait \/ WaitFails
Thread   == Loading \/ Cycling \/ Draining \/ BackOff

-----------------------------------------------------------------------------
(* The world                                                               *)

DbBecomes(s) ==
    /\ s # db
    /\ db' = s
    /\ UNCHANGED <<change, changeAge, registry, queue, active, pc, gate, seen,
                   tries, progressAge, errors>>

\* Modules go to "to upgrade"; the partial-update flag is set; new code is
\* deployed on the old schema.
ChangeBegins ==
    /\ change = "none"
    /\ change' = "unseen" /\ changeAge' = 0
    /\ UNCHANGED <<db, registry, queue, active, pc, gate, seen, tries, progressAge, errors>>

ChangeSettles ==
    /\ change # "none"
    /\ change' = "none" /\ changeAge' = 0
    /\ registry' = IF change = "seen" \/ registry = "owed" THEN "owed" ELSE "missed"
    /\ UNCHANGED <<db, queue, active, pc, gate, seen, tries, progressAge, errors>>

JobArrives ==
    /\ queue < MaxQueue
    /\ queue' = queue + 1
    /\ UNCHANGED <<world, registry, active, pc, gate, seen, tries, progressAge, errors>>

\* _execute_and_cleanup() discards the id on a pool thread.
JobEnds ==
    /\ active > 0
    /\ active' = active - 1
    /\ UNCHANGED <<world, registry, queue, pc, gate, seen, tries, progressAge, errors>>

Older(age, limit) ==
    IF age = None THEN None ELSE IF age < limit THEN age + 1 ELSE limit

\* The QueueWorker and its clocks do not exist yet.
Starting == pc \in {"gate", "load"}

\* An acquisition blocks behind locks, up to its statement and lock timeouts and
\* through its retries, and may then succeed.
Tick ==
    /\ pc = "acquire" => acquireAge < AcquireLimit
    /\ acquireAge' = IF pc = "acquire" THEN acquireAge + 1 ELSE 0
    /\ changeAge' = IF change = "none" THEN 0 ELSE Older(changeAge, Interval + AcquireLimit)
    /\ probeAge' = Older(probeAge, Interval)
    /\ closedAge' = Older(closedAge, Overdue)
    /\ checkAge' = IF Starting THEN checkAge ELSE Older(checkAge, RegInterval)
    /\ retryAge' = Older(retryAge, Threshold)
    /\ progressAge' = IF Starting THEN progressAge ELSE Older(progressAge, Stall)
    /\ streakAge' = Older(streakAge, Threshold)
    /\ UNCHANGED <<db, change, registry, queue, active, pc, gateOpen, wasOpen, streak>>

World ==
    \/ \E s \in DbStates : DbBecomes(s)
    \/ ChangeBegins \/ ChangeSettles
    \/ JobArrives \/ JobEnds

Next == Thread \/ World \/ Tick

\* Streaks shorter than the overflow.
Spec == Init /\ [][Next]_vars

\* With the overflow at MaxStreak.
OverflowSpec == Init /\ [][Next \/ BackOffOverflows]_vars

\* The thread runs and time passes (it stops only for an acquisition that has
\* reached its limit, until the thread goes on).  Nothing makes the database recover, a change settle or a job end.
FairSpec == Spec /\ WF_vars(Thread) /\ SF_vars(Tick)

-----------------------------------------------------------------------------
(* What the supervisor reports: QueueJobRunner._fleet_is_degraded()        *)

Degraded == closedAge = Overdue \/ retryAge = Threshold \/ streakAge = Threshold

Quiet   == change = "none" /\ db = "up"
JobsEnd == []<>(active = 0)

(***************************************************************************)
(* PausesForUpgrade: a job is taken during an install or upgrade only by   *)
(* an acquisition that began while the gate's last probe, made before the  *)
(* change, was still cached: never once the change has lasted Interval and *)
(* an acquisition's longest block, however long the drain.                 *)
(***************************************************************************)
PausesForUpgrade ==
    [][active' > active => change = "none" \/ changeAge < Interval + AcquireLimit]_vars

(***************************************************************************)
(* ReloadsBeforeServing: after a change that a probe reported, no job is   *)
(* taken before the registry was reloaded or the reload was tried.         *)
(***************************************************************************)
ReloadsBeforeServing == [][active' > active => registry # "owed"]_vars

(***************************************************************************)
(* WedgedIsReported: a database that stays unreachable, or on which every  *)
(* acquisition raises while slots come free, is reported for good, though  *)
(* each recovery takes a new session and parts of a cycle may succeed.     *)
(***************************************************************************)
WedgedIsReported ==
    <>[](db \in {"down", "broken"} /\ change = "none") /\ JobsEnd => <>[]Degraded

(***************************************************************************)
(* PauseIsReported: a change that never ends, or a lock that always blocks *)
(* the probe, is reported for good.                                        *)
(***************************************************************************)
PauseIsReported ==
    <>[](db = "locked" \/ (change # "none" /\ db = "up")) => <>[]Degraded

(***************************************************************************)
(* HealthyAgain: once trouble is over for good and the thread keeps ending *)
(* its cycles, it is no longer reported.                                   *)
(***************************************************************************)
HealthyAgain ==
    <>[]Quiet /\ []<>(pc = "wait") => <>[]~Degraded

(***************************************************************************)
(* ServesCurrentCode: if trouble is over for good and the thread keeps     *)
(* starting cycles, it ends up with the current registry, also after a     *)
(* change that fell between two probes or a reload that failed.            *)
(***************************************************************************)
ServesCurrentCode ==
    <>[]Quiet /\ []<>(pc = "top") => <>[](registry = "current")

(***************************************************************************)
(* ServesAgain: once trouble is over for good and jobs keep ending, the    *)
(* queue is emptied again and again: no pause and no backoff lasts.        *)
(***************************************************************************)
ServesAgain == <>[]Quiet /\ JobsEnd => []<>(queue = 0)

(***************************************************************************)
(* WatchdogSparesSlowJobs: a thread that is not hung, and finds nothing    *)
(* more to take while its jobs run on for as long as they like, marks      *)
(* progress again and again: its clock is not stuck at the limit at which  *)
(* _check_worker_progress() ends the process.  How soon is not claimed.    *)
(***************************************************************************)
WatchdogSparesSlowJobs == <>[](queue = 0) => []<>(progressAge < Stall)

-----------------------------------------------------------------------------
(* What the code does not do                                               *)

(***************************************************************************)
(* DegradedOnlyInTrouble: a thread that keeps taking jobs is not reported  *)
(* (docstring of seconds_in_database_error_recovery()).  The streak's      *)
(* clock runs on while the drain does not end.                             *)
(***************************************************************************)
DegradedOnlyInTrouble == <>[]Quiet /\ JobsEnd => <>[]~Degraded

(***************************************************************************)
(* WatchdogSparesBusyLoops: the same while jobs keep arriving ("A worker   *)
(* whose main loop stops making progress", docs/configuration.md).  Taking *)
(* a job marks none, and a drain that always finds one does not end.       *)
(***************************************************************************)
WatchdogSparesBusyLoops == JobsEnd => []<>(progressAge < Stall)

(***************************************************************************)
(* RegistryChecked: the registry is checked every registry_check_interval, *)
(* so without trouble it becomes current.  A drain that does not end never *)
(* comes to the check.                                                     *)
(***************************************************************************)
RegistryChecked == <>[]Quiet /\ JobsEnd => <>[](registry = "current")

(***************************************************************************)
(* ReloadedOnResume: when the gate opens again the upgraded registry is    *)
(* reloaded before the next job.  A reload that raises is swallowed.       *)
(***************************************************************************)
ReloadedOnResume ==
    [][active' > active => registry \notin {"owed", "failed"}]_vars

(***************************************************************************)
(* LoopNeverEnds: no database trouble ends the thread (the comment in      *)
(* run()).  The backoff overflows after enough consecutive errors.         *)
(***************************************************************************)
LoopNeverEnds == pc # "ended"
=============================================================================
