----------------------------- MODULE Supervisor -----------------------------
(***************************************************************************)
(* The supervisor of a runner process (job_worker/cli/runner.py): it       *)
(* discovers databases, takes an advisory lock for each, keeps one worker  *)
(* thread per database, restarts threads that died, quarantines databases  *)
(* whose threads keep dying, and tells the container whether it is well.   *)
(*                                                                         *)
(* The supervisor's own thread and the worker threads share dictionaries   *)
(* without a lock; each is a function of the process and the database      *)
(* here.  Every step of the supervisor loop is one action per database,    *)
(* except that _stop_worker_thread blocks in the join between two.         *)
(*                                                                         *)
(* Time is abstract: a clock is "none" while it is not running, "recent"   *)
(* and then "old" past its threshold, and failures counts the stamps that  *)
(* are within failure_window_seconds.                                      *)
(***************************************************************************)
EXTENDS Integers, FiniteSets

CONSTANTS
    Processes,      \* runner processes (containers)
    Databases,
    Threads,        \* identities for worker threads
    NoProcess, NoDatabase, NoThread,
    MaxFailures,    \* maximum_consecutive_failures
    StampBound      \* bound on failures, for TLC only

ASSUME SupervisorAssumption ==
    /\ NoProcess \notin Processes /\ NoDatabase \notin Databases /\ NoThread \notin Threads
    /\ MaxFailures \in Nat \ {0} /\ StampBound \in Nat

VARIABLES
    status,         \* of a database, as its server shows it
    lock,           \* holder of the database's advisory lock
    phase,          \* of a process
    registered,     \* _worker_threads
    instance,       \* _worker_instances, by the thread that published
    gate,           \* _upgrade_gates, likewise
    retrySince,     \* _registry_load_retry_since, a clock
    failures,       \* _failure_timestamps within the window
    quarantined,    \* _quarantined_databases
    counted,        \* _deaths_counted
    joining,        \* the thread that _stop_worker_thread waits for
    at, host, serves, told,     \* threads: control, process, database, local stop event
    hung,           \* threads that are blocked for good
    streak, pause,  \* the clocks of a worker's database errors and of its gate
    charged         \* history: the stamps a thread's death has made

external == <<status, lock>>
fleet    == <<phase, registered, instance, gate, retrySince>>
ledger   == <<failures, quarantined, counted, charged>>
thread   == <<at, host, serves, told, hung, streak, pause>>
vars     == <<external, fleet, ledger, joining, thread>>

Statuses == {"up", "down", "upgrading", "selfUpgrading", "gone"}
Clocks   == {"none", "recent", "old"}

TypeOK ==
    /\ status \in [Databases -> Statuses]
    /\ lock \in [Databases -> Processes \cup {NoProcess}]
    /\ phase \in [Processes -> {"running", "stopping", "dead"}]
    /\ registered \in [Processes -> [Databases -> Threads \cup {NoThread}]]
    /\ instance \in [Processes -> [Databases -> Threads \cup {NoThread}]]
    /\ gate \in [Processes -> [Databases -> Threads \cup {NoThread}]]
    /\ retrySince \in [Processes -> [Databases -> Clocks]]
    /\ failures \in [Processes -> [Databases -> Nat]]
    /\ quarantined \in [Processes -> SUBSET Databases]
    /\ counted \subseteq Threads
    /\ joining \in [Processes -> Threads \cup {NoThread}]
    /\ at \in [Threads -> {"idle", "loading", "serving", "ending", "ended"}]
    /\ host \in [Threads -> Processes \cup {NoProcess}]
    /\ serves \in [Threads -> Databases \cup {NoDatabase}]
    /\ told \subseteq Threads /\ hung \subseteq Threads
    /\ streak \in [Threads -> Clocks] /\ pause \in [Threads -> Clocks]
    /\ charged \in [Threads -> Nat]
    /\ \A t \in Threads : at[t] # "idle" => host[t] \in Processes /\ serves[t] \in Databases
    \* A registered thread, ended or not, is one of this process and database.
    /\ \A p \in Processes, d \in Databases : registered[p][d] # NoThread =>
        LET t == registered[p][d] IN host[t] = p /\ serves[t] = d /\ at[t] # "idle"

Empty(v) == [p \in Processes |-> [d \in Databases |-> v]]

Init ==
    /\ status = [d \in Databases |-> "up"]
    /\ lock = [d \in Databases |-> NoProcess]
    /\ phase = [p \in Processes |-> "running"]
    /\ registered = Empty(NoThread) /\ instance = Empty(NoThread) /\ gate = Empty(NoThread)
    /\ retrySince = Empty("none") /\ failures = Empty(0)
    /\ quarantined = [p \in Processes |-> {}]
    /\ counted = {} /\ told = {} /\ hung = {}
    /\ joining = [p \in Processes |-> NoThread]
    /\ at = [t \in Threads |-> "idle"]
    /\ host = [t \in Threads |-> NoProcess]
    /\ serves = [t \in Threads |-> NoDatabase]
    /\ streak = [t \in Threads |-> "none"] /\ pause = [t \in Threads |-> "none"]
    /\ charged = [t \in Threads |-> 0]

-----------------------------------------------------------------------------
(* Helpers. *)

\* _database_has_module: any failure to connect counts as "no", and so does a
\* job_worker module that is itself being upgraded.
HasModule(d) == status[d] \in {"up", "upgrading"}
GateOpen(d)  == status[d] \in {"up", "gone"}

Alive(t) == at[t] \in {"loading", "serving", "ending"}

\* The supervisor of p is in its loop, not blocked in a join.
Looping(p) == phase[p] = "running" /\ joining[p] = NoThread

\* _expire_quarantines, at the start of a discovery pass.
StillQuarantined(p) == {d \in quarantined[p] : failures[p][d] >= MaxFailures}

\* _record_failure for thread t.
RecordFailure(t) ==
    LET p == host[t]
        d == serves[t]
    IN  /\ failures'    = [failures EXCEPT ![p][d] = @ + 1]
        /\ quarantined' = [quarantined EXCEPT ![p] =
                                IF failures[p][d] + 1 >= MaxFailures THEN @ \cup {d} ELSE @]
        /\ charged'     = [charged EXCEPT ![t] = @ + 1]

\* A thread object t for database d, in control state s.
NewThread(t, p, d, s) ==
    /\ at'     = [at EXCEPT ![t] = s]
    /\ host'   = [host EXCEPT ![t] = p]
    /\ serves' = [serves EXCEPT ![t] = d]
    /\ told' = told \ {t} /\ hung' = hung \ {t}
    /\ streak' = [streak EXCEPT ![t] = "none"]
    /\ pause'  = [pause EXCEPT ![t] = "none"]

\* Thread objects that nothing refers to any more.
Retire(S) ==
    /\ at'     = [t \in Threads |-> IF t \in S THEN "idle" ELSE at[t]]
    /\ host'   = [t \in Threads |-> IF t \in S THEN NoProcess ELSE host[t]]
    /\ serves' = [t \in Threads |-> IF t \in S THEN NoDatabase ELSE serves[t]]
    /\ told' = told \ S /\ hung' = hung \ S
    /\ streak' = [t \in Threads |-> IF t \in S THEN "none" ELSE streak[t]]
    /\ pause'  = [t \in Threads |-> IF t \in S THEN "none" ELSE pause[t]]
    /\ counted' = counted \ S
    /\ charged' = [t \in Threads |-> IF t \in S THEN 0 ELSE charged[t]]

-----------------------------------------------------------------------------
(* discover_databases() for one database. *)

\* A database without a thread gets the lock and a thread.  If the thread
\* cannot be started its object stays registered, dead and not counted.
DiscoverStarts(p, d, t) ==
    /\ Looping(p)
    /\ HasModule(d)
    /\ registered[p][d] = NoThread
    /\ lock[d] = NoProcess
    /\ at[t] = "idle"
    /\ lock'        = [lock EXCEPT ![d] = p]
    /\ registered'  = [registered EXCEPT ![p][d] = t]
    /\ quarantined' = [quarantined EXCEPT ![p] = StillQuarantined(p)]
    /\ \/ NewThread(t, p, d, "loading") /\ gate' = [gate EXCEPT ![p][d] = t]
       \/ NewThread(t, p, d, "ended") /\ UNCHANGED gate
    /\ UNCHANGED <<status, phase, instance, retrySince, failures, counted, charged, joining>>

\* A served database, or one that another process has locked.
DiscoverSkips(p, d) ==
    /\ Looping(p)
    /\ HasModule(d)
    /\ registered[p][d] # NoThread \/ lock[d] # NoProcess
    /\ quarantined' = [quarantined EXCEPT ![p] = StillQuarantined(p)]
    /\ UNCHANGED <<external, fleet, failures, counted, charged, joining, thread>>

\* Mutant of SignalStop: the local event is not set.
SignalStopSilently(p, d) ==
    LET t == registered[p][d]
    IN  /\ t # NoThread
        /\ registered' = [registered EXCEPT ![p][d] = NoThread]
        /\ counted'    = counted \ {t}
        /\ joining'    = [joining EXCEPT ![p] = t]
        /\ UNCHANGED told

\* Mutant of SignalStop: the thread is not forgotten.
SignalStopRemembers(p, d) ==
    LET t == registered[p][d]
    IN  /\ t # NoThread
        /\ told'    = told \cup {t}
        /\ counted' = counted \ {t}
        /\ joining' = [joining EXCEPT ![p] = t]
        /\ UNCHANGED registered

\* The first half of _stop_worker_thread: signal, forget, and join.
SignalStop(p, d) ==
    LET t == registered[p][d]
    IN  /\ t # NoThread
        /\ told'       = told \cup {t}
        /\ registered' = [registered EXCEPT ![p][d] = NoThread]
        /\ counted'    = counted \ {t}
        /\ joining'    = [joining EXCEPT ![p] = t]

DiscoverRemoves(p, d) ==
    /\ Looping(p)
    /\ ~HasModule(d)
    /\ SignalStop(p, d)
    /\ quarantined' = [quarantined EXCEPT ![p] = StillQuarantined(p)]
    /\ UNCHANGED <<external, phase, instance, gate, retrySince, failures, charged,
                   at, host, serves, hung, streak, pause>>

\* _cleanup() after a stop was asked for.
CleanupStops(p, d) ==
    /\ phase[p] = "stopping" /\ joining[p] = NoThread
    /\ SignalStop(p, d)
    /\ UNCHANGED <<external, phase, instance, gate, retrySince, failures, quarantined,
                   charged, at, host, serves, hung, streak, pause>>

\* Mutant of AfterJoin: the quarantine outlives its history.
AfterJoinKeepsQuarantine(p, t) ==
    LET d == serves[t]
    IN  /\ joining[p] = t
        /\ joining'     = [joining EXCEPT ![p] = NoThread]
        /\ instance'    = [instance EXCEPT ![p][d] = NoThread]
        /\ lock'        = [lock EXCEPT ![d] = IF @ = p THEN NoProcess ELSE @]
        /\ failures'    = [failures EXCEPT ![p][d] = 0]
        /\ UNCHANGED <<status, phase, registered, gate, retrySince, quarantined>>

\* The second half: the lock is released and the history dropped.
AfterJoin(p, t) ==
    LET d == serves[t]
    IN  /\ joining[p] = t
        /\ joining'     = [joining EXCEPT ![p] = NoThread]
        /\ instance'    = [instance EXCEPT ![p][d] = NoThread]
        /\ lock'        = [lock EXCEPT ![d] = IF @ = p THEN NoProcess ELSE @]
        /\ failures'    = [failures EXCEPT ![p][d] = 0]
        /\ quarantined' = [quarantined EXCEPT ![p] = @ \ {d}]
        /\ UNCHANGED <<status, phase, registered, gate, retrySince>>

JoinEnds(p, t) ==
    /\ at[t] = "ended"
    /\ AfterJoin(p, t)
    /\ Retire({t})

\* The thread is left to itself: a job may take longer than the join.
JoinTimesOut(p, t) ==
    /\ Alive(t)
    /\ AfterJoin(p, t)
    /\ UNCHANGED <<counted, charged, thread>>

-----------------------------------------------------------------------------
(* _check_thread_health() and _check_worker_progress() for one database. *)

Corpse(p, d) ==
    registered[p][d] # NoThread /\ at[registered[p][d]] = "ended" /\ d \notin quarantined[p]

\* The thread is replaced; the new object takes over the identity.
Replace(p, d, t) ==
    /\ NewThread(t, p, d, "loading")
    /\ gate'     = [gate EXCEPT ![p][d] = t]
    /\ instance' = [instance EXCEPT ![p][d] = NoThread]
    /\ counted'  = counted \ {t}
    /\ charged'  = [charged EXCEPT ![t] = 0]
    /\ UNCHANGED <<external, phase, registered, retrySince, joining>>

\* Mutant of CheckThreadHealth: every look at a corpse counts.
CheckThreadHealthRecounts(p, d) ==
    LET t         == registered[p][d]
        condemned == failures[p][d] + 1 >= MaxFailures
    IN  /\ Looping(p)
        /\ Corpse(p, d)
        /\ failures'    = [failures EXCEPT ![p][d] = @ + 1]
        /\ quarantined' = [quarantined EXCEPT ![p] = IF condemned THEN @ \cup {d} ELSE @]
        /\ IF condemned
           THEN /\ counted' = counted \cup {t}
                /\ UNCHANGED <<external, fleet, joining, charged, thread>>
           ELSE Replace(p, d, t)

\* A dead thread is charged once, and replaced unless that was one too many.
CheckThreadHealth(p, d) ==
    LET t         == registered[p][d]
        charge    == t \notin counted
        condemned == charge /\ failures[p][d] + 1 >= MaxFailures
    IN  /\ Looping(p)
        /\ Corpse(p, d)
        /\ failures'    = [failures EXCEPT ![p][d] = IF charge THEN @ + 1 ELSE @]
        /\ quarantined' = [quarantined EXCEPT ![p] = IF condemned THEN @ \cup {d} ELSE @]
        /\ IF condemned
           THEN /\ counted' = counted \cup {t}
                /\ charged' = [charged EXCEPT ![t] = @ + 1]
                /\ UNCHANGED <<external, fleet, joining, thread>>
           ELSE Replace(p, d, t)

\* The process, with every thread and every connection it has, is gone.
Exit(p) ==
    /\ phase' = [phase EXCEPT ![p] = "dead"]
    /\ lock'  = [d \in Databases |-> IF lock[d] = p THEN NoProcess ELSE lock[d]]
    /\ registered'  = [registered EXCEPT ![p] = [d \in Databases |-> NoThread]]
    /\ instance'    = [instance EXCEPT ![p] = [d \in Databases |-> NoThread]]
    /\ gate'        = [gate EXCEPT ![p] = [d \in Databases |-> NoThread]]
    /\ retrySince'  = [retrySince EXCEPT ![p] = [d \in Databases |-> "none"]]
    /\ failures'    = [failures EXCEPT ![p] = [d \in Databases |-> 0]]
    /\ quarantined' = [quarantined EXCEPT ![p] = {}]
    /\ joining'     = [joining EXCEPT ![p] = NoThread]
    /\ Retire({t \in Threads : host[t] = p})
    /\ UNCHANGED status

\* The watchdog: a published worker without progress ends the process.
CheckWorkerProgress(p, d) ==
    /\ Looping(p)
    /\ instance[p][d] \in hung
    /\ registered[p][d] # NoThread /\ Alive(registered[p][d])
    /\ Exit(p)

-----------------------------------------------------------------------------
(* _worker_thread_target(). *)

\* Mutant of LoadRegistry: a load that had to be retried is not published.
LoadRegistryUnpublished(t) ==
    LET p == host[t]
        d == serves[t]
    IN  /\ at[t] = "loading"
        /\ GateOpen(d)
        /\ at'         = [at EXCEPT ![t] = "serving"]
        /\ instance'   = [instance EXCEPT ![p][d] =
                                IF retrySince[p][d] = "none" THEN t ELSE @]
        /\ retrySince' = [retrySince EXCEPT ![p][d] = "none"]
        /\ pause'      = [pause EXCEPT ![t] = "none"]
        /\ UNCHANGED <<external, phase, registered, gate, ledger, joining,
                       host, serves, told, hung, streak>>

\* _load_registry succeeds and the worker is published, whether or not the
\* thread has been told to stop meanwhile.
LoadRegistry(t) ==
    LET p == host[t]
        d == serves[t]
    IN  /\ at[t] = "loading"
        /\ GateOpen(d)
        /\ at'         = [at EXCEPT ![t] = "serving"]
        /\ instance'   = [instance EXCEPT ![p][d] = t]
        /\ retrySince' = [retrySince EXCEPT ![p][d] = "none"]
        /\ pause'      = [pause EXCEPT ![t] = "none"]
        /\ UNCHANGED <<external, phase, registered, gate, ledger, joining,
                       host, serves, told, hung, streak>>

\* A database error is retried in place and starts a clock.
LoadFails(t) ==
    LET p == host[t]
        d == serves[t]
    IN  /\ at[t] = "loading"
        /\ status[d] = "down"
        /\ retrySince[p][d] = "none"
        /\ retrySince' = [retrySince EXCEPT ![p][d] = "recent"]
        /\ UNCHANGED <<external, phase, registered, instance, gate, ledger, joining, thread>>

\* A database error in the worker's main loop; a full cycle ends the streak.
DatabaseError(t) ==
    /\ at[t] = "serving" /\ t \notin hung
    /\ \/ status[serves[t]] = "down" /\ streak[t] = "none"
          /\ streak' = [streak EXCEPT ![t] = "recent"]
       \/ status[serves[t]] # "down" /\ streak[t] # "none"
          /\ streak' = [streak EXCEPT ![t] = "none"]
    /\ UNCHANGED <<external, fleet, ledger, joining, at, host, serves, told, hung, pause>>

\* The upgrade gate closes and opens again.
GateMoves(t) ==
    /\ at[t] \in {"loading", "serving"} /\ t \notin hung
    /\ \/ status[serves[t]] \in {"upgrading", "selfUpgrading"} /\ pause[t] = "none"
          /\ pause' = [pause EXCEPT ![t] = "recent"]
       \/ GateOpen(serves[t]) /\ pause[t] # "none"
          /\ pause' = [pause EXCEPT ![t] = "none"]
    /\ UNCHANGED <<external, fleet, ledger, joining, at, host, serves, told, hung, streak>>

\* The main loop is blocked in a call that does not return.
Hang(t) ==
    /\ at[t] = "serving" /\ t \notin hung
    /\ hung' = hung \cup {t}
    /\ UNCHANGED <<external, fleet, ledger, joining, at, host, serves, told, streak, pause>>

\* Told to stop, the thread returns.
Return(t) ==
    /\ at[t] \in {"loading", "serving"} /\ t \notin hung
    /\ t \in told \/ phase[host[t]] = "stopping"
    /\ at' = [at EXCEPT ![t] = "ending"]
    /\ UNCHANGED <<external, fleet, ledger, joining, host, serves, told, hung, streak, pause>>

\* Mutant of Crash: the death is not claimed before the thread ends.
CrashUnclaimed(t) ==
    /\ at[t] \in {"loading", "serving"} /\ t \notin hung
    /\ failures[host[t]][serves[t]] < StampBound
    /\ RecordFailure(t)
    /\ at' = [at EXCEPT ![t] = "ending"]
    /\ UNCHANGED <<external, fleet, counted, joining, host, serves, told, hung, streak, pause>>

\* The thread crashes: its death is claimed and stamped before it ends.
Crash(t) ==
    /\ at[t] \in {"loading", "serving"} /\ t \notin hung
    /\ failures[host[t]][serves[t]] < StampBound
    /\ counted' = counted \cup {t}
    /\ RecordFailure(t)
    /\ at' = [at EXCEPT ![t] = "ending"]
    /\ UNCHANGED <<external, fleet, joining, host, serves, told, hung, streak, pause>>

\* The finally clause: the instance and the retry clock of the database are
\* dropped, whoever's they are; the gate only if it is the thread's own.
End(t) ==
    LET p == host[t]
        d == serves[t]
    IN  /\ at[t] = "ending"
        /\ instance'   = [instance EXCEPT ![p][d] = NoThread]
        /\ retrySince' = [retrySince EXCEPT ![p][d] = "none"]
        /\ gate'       = [gate EXCEPT ![p][d] = IF @ = t THEN NoThread ELSE @]
        /\ IF registered[p][d] = t \/ joining[p] = t
           THEN /\ at' = [at EXCEPT ![t] = "ended"]
                /\ UNCHANGED <<counted, charged, host, serves, told, hung, streak, pause>>
           ELSE Retire({t})
        /\ UNCHANGED <<external, phase, registered, failures, quarantined, joining>>

-----------------------------------------------------------------------------
(* The processes' surroundings. *)

Stop(p) ==
    /\ phase[p] = "running"
    /\ phase' = [phase EXCEPT ![p] = "stopping"]
    /\ UNCHANGED <<external, registered, instance, gate, retrySince, ledger, joining, thread>>

Die(p) == phase[p] # "dead" /\ Exit(p)

Restart(p) ==
    /\ phase[p] = "dead"
    /\ phase' = [phase EXCEPT ![p] = "running"]
    /\ UNCHANGED <<external, registered, instance, gate, retrySince, ledger, joining, thread>>

DatabaseBecomes(d, s) ==
    /\ status[d] # s
    /\ status' = [status EXCEPT ![d] = s]
    /\ UNCHANGED <<lock, fleet, ledger, joining, thread>>

\* The oldest failure leaves the window.
StampAges(p, d) ==
    /\ failures[p][d] > 0
    /\ failures' = [failures EXCEPT ![p][d] = @ - 1]
    /\ UNCHANGED <<external, fleet, quarantined, counted, charged, joining, thread>>

RetryClockAges(p, d) ==
    /\ retrySince[p][d] = "recent"
    /\ retrySince' = [retrySince EXCEPT ![p][d] = "old"]
    /\ UNCHANGED <<external, phase, registered, instance, gate, ledger, joining, thread>>

WorkerClocksAge(t) ==
    /\ streak[t] = "recent" \/ pause[t] = "recent"
    /\ streak' = [streak EXCEPT ![t] = IF @ = "recent" THEN "old" ELSE @]
    /\ pause'  = [pause EXCEPT ![t] = IF @ = "recent" THEN "old" ELSE @]
    /\ UNCHANGED <<external, fleet, ledger, joining, at, host, serves, told, hung>>

\* The lock's connection breaks, which only the server notices.
LockDrops(d) ==
    /\ lock[d] # NoProcess
    /\ lock' = [lock EXCEPT ![d] = NoProcess]
    /\ UNCHANGED <<status, fleet, ledger, joining, thread>>

-----------------------------------------------------------------------------
(* The specifications. *)

Loop(p, d) ==
    \/ DiscoverSkips(p, d) \/ DiscoverRemoves(p, d) \/ CleanupStops(p, d)
    \/ CheckThreadHealth(p, d) \/ CheckWorkerProgress(p, d)
    \/ \E t \in Threads : DiscoverStarts(p, d, t)

Target(t) == LoadRegistry(t) \/ Return(t) \/ Crash(t) \/ End(t)

Surroundings ==
    \/ \E p \in Processes : Stop(p) \/ Die(p) \/ Restart(p)
    \/ \E d \in Databases, s \in Statuses : DatabaseBecomes(d, s)
    \/ \E p \in Processes, d \in Databases : StampAges(p, d)

\* Every thread ends within join_timeout_seconds.
PromptNext ==
    \/ \E p \in Processes, d \in Databases : Loop(p, d)
    \/ \E p \in Processes, t \in Threads : JoinEnds(p, t)
    \/ \E t \in Threads : Target(t)
    \/ Surroundings

\* A thread may hang, and may outlive the join.
LateNext == \/ PromptNext
            \/ \E t \in Threads : Hang(t) \/ \E p \in Processes : JoinTimesOut(p, t)

\* The troubles a thread waits out, and the clocks that measure them.
Troubles ==
    \/ \E t \in Threads : LoadFails(t) \/ DatabaseError(t) \/ GateMoves(t) \/ WorkerClocksAge(t)
    \/ \E p \in Processes, d \in Databases : RetryClockAges(p, d)

PromptSpec == Init /\ [][PromptNext \/ Troubles]_vars
LateSpec   == Init /\ [][LateNext]_vars
DropSpec   == Init /\ [][PromptNext \/ \E d \in Databases : LockDrops(d)]_vars

\* The supervisor goes round its loop, threads get to their ends, time passes.
FairSpec ==
    /\ PromptSpec
    /\ \A p \in Processes, d \in Databases :
        /\ WF_vars(DiscoverSkips(p, d) \/ DiscoverRemoves(p, d)
                   \/ \E t \in Threads : DiscoverStarts(p, d, t))
        /\ WF_vars(CheckThreadHealth(p, d))
        /\ WF_vars(StampAges(p, d)) /\ WF_vars(RetryClockAges(p, d))
    /\ \A t \in Threads :
        /\ WF_vars(\E p \in Processes : JoinEnds(p, t))
        /\ WF_vars(LoadRegistry(t)) /\ WF_vars(LoadFails(t))
        /\ WF_vars(DatabaseError(t)) /\ WF_vars(GateMoves(t))
        /\ WF_vars(Return(t)) /\ WF_vars(End(t)) /\ WF_vars(WorkerClocksAge(t))

-----------------------------------------------------------------------------
(* Properties. *)

\* _fleet_is_degraded: the heartbeat file is withheld.
FleetIsDegraded(p) ==
    \/ quarantined[p] # {}
    \/ \E d \in Databases :
        \/ gate[p][d] # NoThread /\ pause[gate[p][d]] = "old"
        \/ failures[p][d] >= MaxFailures
        \/ retrySince[p][d] = "old"
        \/ instance[p][d] # NoThread /\ streak[instance[p][d]] = "old"

\* A database is served by one thread of one process: two workers that go on
\* serving are never up at once, whatever threads a join left behind
\* (the advisory lock "serialises supervisors per DB").
OneServer ==
    \A t, u \in Threads :
        (at[t] = "serving" /\ at[u] = "serving" /\ serves[t] = serves[u]
            /\ t \notin told /\ u \notin told) => t = u

\* A thread's death is stamped at most once, whoever sees it first and however
\* often (_check_thread_health, "A corpse is counted once").
ChargedOnce == \A t \in Threads : charged[t] <= 1

\* A quarantine never outlives the service it stopped (_stop_worker_thread).
QuarantineOnlyServed ==
    \A p \in Processes : \A d \in quarantined[p] :
        registered[p][d] # NoThread \/ (joining[p] # NoThread /\ serves[joining[p]] = d)

\* The watchdog sees every worker that is registered and running
\* (_worker_instances, "so the supervisor's progress watchdog can read").
WatchdogSees ==
    \A p \in Processes, d \in Databases :
        LET t == registered[p][d]
        IN  t # NoThread /\ at[t] = "serving" => instance[p][d] = t

Undisturbed(p, d) == phase[p] = "running" /\ HasModule(d)

\* A quarantined database is retried once its failures have aged, while it is
\* discovered and its process runs (_expire_quarantines).
QuarantineEnds ==
    \A p \in Processes, d \in Databases :
        (d \in quarantined[p] /\ registered[p][d] # NoThread /\ at[registered[p][d]] = "ended")
            ~> (~Undisturbed(p, d) \/ \E t \in Threads : registered[p][d] = t /\ Alive(t))

Works(p, d) ==
    \E t \in Threads : registered[p][d] = t /\ at[t] \in {"loading", "serving"}

\* A database that its worker cannot reach is reported, unless it comes back
\* ("that is what keeps a wedged database from looking healthy").
UnreachableIsReported ==
    \A p \in Processes, d \in Databases :
        (status[d] = "down" /\ Works(p, d))
            ~> (status[d] # "down" \/ phase[p] # "running" \/ FleetIsDegraded(p))

\* An upgrade that does not end is reported ("A pause that does not end is
\* reported unhealthy").
StuckUpgradeIsReported ==
    \A p \in Processes, d \in Databases :
        (status[d] = "selfUpgrading" /\ Works(p, d))
            ~> (status[d] # "selfUpgrading" \/ phase[p] # "running" \/ FleetIsDegraded(p))
=============================================================================
