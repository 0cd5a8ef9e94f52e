---------------------------- MODULE ChannelLimits ----------------------------
(***************************************************************************)
(* The throttles of the acquire query (acquire_job_lock in                 *)
(* job_worker/cli/worker.py): per channel, at most limit jobs at a time    *)
(* and at most rate_limit starts per second (job_worker/models/            *)
(* queue_limit.py).                                                        *)
(*                                                                         *)
(* The query is one statement under READ COMMITTED: the rows it counts are *)
(* those of the snapshot it began with, while FOR UPDATE SKIP LOCKED looks *)
(* again at the row it takes.  A worker is therefore two steps, Look and   *)
(* Take.                                                                   *)
(*                                                                         *)
(* The heartbeat of a started row may lapse whether or not its worker      *)
(* lives: an execution that overruns its timeout stops its own heartbeat   *)
(* loop and goes on, and any heartbeat may be delayed.  It may come back:  *)
(* update_heartbeats beats for every execution of a living worker.         *)
(* Retries, wiring and the buttons are in JobQueue and JobGraph.           *)
(***************************************************************************)
EXTENDS Integers, FiniteSets

CONSTANTS
    Jobs, Workers, NoWorker,
    Channel,    \* channel of a job
    Limit,      \* "limit" of a channel, 1 where there is no queue_limit row
    Rate        \* rate_limit of a channel, 0 for no limit

ASSUME LimitAssumption ==
    /\ NoWorker \notin Workers
    /\ \A c \in {Channel[j] : j \in Jobs} : Limit[c] \in Nat /\ Rate[c] \in Nat

VARIABLES
    state,      \* state of a row
    owner,      \* worker_id of a started row, while an execution stands behind it
    stale,      \* started rows whose heartbeat is too old or cleared
    lapsed,     \* history: started rows that were stale since they were taken
    touched,    \* rows with a heartbeat or write_date within the last second
    looking,    \* workers with an acquire statement under way
    running,    \* the started rows with a live heartbeat their snapshot counts
    recent,     \* the started or done rows of the last second it counts
    begun       \* history: rows that were started within the last second

vars == <<state, owner, stale, lapsed, touched, looking, running, recent, begun>>

Init ==
    /\ state = [j \in Jobs |-> "pending"]
    /\ owner = [j \in Jobs |-> NoWorker]
    /\ stale = {} /\ lapsed = {} /\ touched = {} /\ begun = {} /\ looking = {}
    /\ running = [w \in Workers |-> {}]
    /\ recent = [w \in Workers |-> {}]

Fresh          == {j \in Jobs : state[j] = "started"} \ stale
In(S, c)       == {j \in S : Channel[j] = c}

\* Mutant of Throttled: each bound lets one more through.
ThrottledLate(w, c) ==
    \/ Cardinality(In(running[w], c)) > Limit[c]
    \/ Rate[c] # 0 /\ Cardinality(In(recent[w], c)) > Rate[c]

\* The limits the statement enforces on what it counted.
Throttled(w, c) ==
    \/ Cardinality(In(running[w], c)) >= Limit[c]
    \/ Rate[c] # 0 /\ Cardinality(In(recent[w], c)) >= Rate[c]

-----------------------------------------------------------------------------
\* The statement's snapshot.
Look(w) ==
    /\ w \notin looking
    /\ looking' = looking \cup {w}
    /\ running' = [running EXCEPT ![w] = Fresh]
    /\ recent'  = [recent EXCEPT ![w] = {j \in touched : state[j] \in {"started", "done"}}]
    /\ UNCHANGED <<state, owner, stale, lapsed, touched, begun>>

\* The statement and its snapshot are over.
Close(w) ==
    /\ looking' = looking \ {w}
    /\ running' = [running EXCEPT ![w] = {}]
    /\ recent'  = [recent EXCEPT ![w] = {}]

\* The row is locked, looked at again and marked started.
Take(w, j) ==
    /\ w \in looking
    /\ state[j] = "pending" \/ j \in stale
    /\ ~Throttled(w, Channel[j])
    /\ state'   = [state EXCEPT ![j] = "started"]
    /\ owner'   = [owner EXCEPT ![j] = w]
    /\ stale'   = stale \ {j}
    /\ lapsed'  = lapsed \ {j}
    /\ touched' = touched \cup {j}
    /\ begun'   = begun \cup {j}
    /\ Close(w)

\* A stale row whose retries are used up is failed instead, and the statement
\* takes nothing.
GiveUp(w, j) ==
    /\ w \in looking
    /\ j \in stale
    /\ ~Throttled(w, Channel[j])
    /\ state'   = [state EXCEPT ![j] = "failed"]
    /\ owner'   = [owner EXCEPT ![j] = NoWorker]
    /\ stale'   = stale \ {j}
    /\ lapsed'  = lapsed \ {j}
    /\ touched' = touched \cup {j}
    /\ Close(w)
    /\ UNCHANGED begun

\* The statement finds nothing to take.
Leave(w) ==
    /\ w \in looking
    /\ Close(w)
    /\ UNCHANGED <<state, owner, stale, lapsed, touched, begun>>

\* The end of an execution is a write too.
End(j, s) ==
    /\ state[j] = "started"
    /\ state'   = [state EXCEPT ![j] = s]
    /\ owner'   = [owner EXCEPT ![j] = NoWorker]
    /\ stale'   = stale \ {j}
    /\ lapsed'  = lapsed \ {j}
    /\ touched' = touched \cup {j}
    /\ UNCHANGED <<looking, running, recent, begun>>

\* An execution overruns its timeout: the reason is written and its heartbeat
\* loop ends, but the thread goes on and its worker still beats for it.
Overruns(j) ==
    /\ state[j] = "started" /\ owner[j] # NoWorker
    /\ touched' = touched \cup {j}
    /\ UNCHANGED <<state, owner, stale, lapsed, looking, running, recent, begun>>

\* An execution is over and the row stays started: an overrun releases its
\* claim, or is noticed after the job's commit, or nothing could be written.
EndUnrecorded(j) ==
    /\ state[j] = "started" /\ owner[j] # NoWorker
    /\ owner' = [owner EXCEPT ![j] = NoWorker]
    /\ \/ stale' = stale \cup {j} /\ lapsed' = lapsed \cup {j}
       \/ UNCHANGED <<stale, lapsed>>
    /\ UNCHANGED <<state, touched, looking, running, recent, begun>>

\* The worker dies; its rows go stale later, its statement is rolled back.  A
\* successor in the same place has another worker_uuid.
Die(w) ==
    /\ \E j \in Jobs : owner[j] = w
    /\ owner'   = [j \in Jobs |-> IF owner[j] = w THEN NoWorker ELSE owner[j]]
    /\ Close(w)
    /\ UNCHANGED <<state, stale, lapsed, touched, begun>>

\* No heartbeat for stale_after_seconds: the worker is dead, the execution is
\* over or overran, or the heartbeats are held up.  A start is a heartbeat.
GoesStale(j) ==
    /\ j \in Fresh \ begun
    /\ stale'  = stale \cup {j}
    /\ lapsed' = lapsed \cup {j}
    /\ UNCHANGED <<state, owner, touched, looking, running, recent, begun>>

\* A living worker beats for a row of its own, a stale one included.
HeartbeatUpdate(j) ==
    /\ state[j] = "started" /\ owner[j] # NoWorker
    /\ stale'   = stale \ {j}
    /\ touched' = touched \cup {j}
    /\ UNCHANGED <<state, owner, lapsed, looking, running, recent, begun>>

\* A second passes since j was started, then since it was last written.
SecondPasses(j) ==
    /\ j \in touched
    /\ begun'   = begun \ {j}
    /\ touched' = IF j \in begun THEN touched ELSE touched \ {j}
    /\ UNCHANGED <<state, owner, stale, lapsed, looking, running, recent>>

Next ==
    \/ \E w \in Workers : \/ Look(w) \/ Leave(w) \/ Die(w)
                          \/ \E j \in Jobs : Take(w, j) \/ GiveUp(w, j)
    \/ \E j \in Jobs : \/ Overruns(j) \/ EndUnrecorded(j) \/ GoesStale(j)
                       \/ HeartbeatUpdate(j) \/ SecondPasses(j)
                       \/ \E s \in {"done", "failed", "pending"} : End(j, s)

Spec == Init /\ [][Next]_vars

-----------------------------------------------------------------------------
(* Properties. *)

\* "Maximum concurrent jobs in this channel" (docs/configuration.md): the
\* started rows of a channel that nobody may take from their execution.
ChannelLimitHolds ==
    \A c \in {Channel[j] : j \in Jobs} : Cardinality(In(Fresh, c)) <= Limit[c]

\* The limit holds for the rows whose heartbeat never lapsed since they were
\* taken: a row whose heartbeat comes back is the only one that may be too many.
PunctualLimitHolds ==
    \A c \in {Channel[j] : j \in Jobs} : Cardinality(In(Fresh \ lapsed, c)) <= Limit[c]

\* The starts of the last second that have not failed since stay within
\* rate_limit, however often a worker asks and whatever is written to the rows.
LastingStartsLimited ==
    \A c \in {Channel[j] : j \in Jobs} : Rate[c] # 0 =>
        Cardinality({j \in In(begun, c) : state[j] \in {"started", "done"}}) <= Rate[c]

\* "Maximum jobs started per second" (docs/configuration.md).
RateLimitHolds ==
    \A c \in {Channel[j] : j \in Jobs} : Rate[c] # 0 => Cardinality(In(begun, c)) <= Rate[c]
=============================================================================
