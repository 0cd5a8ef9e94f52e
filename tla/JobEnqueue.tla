----------------------------- MODULE JobEnqueue -----------------------------
(***************************************************************************)
(* Transactions that enqueue graphs of jobs with identity keys, while      *)
(* workers complete jobs and an operator cancels them                      *)
(* (queue.job.enqueue() in job_worker/models/queue_job.py).                *)
(*                                                                         *)
(* A client's transaction is REPEATABLE READ: it sees the rows that were   *)
(* committed when it began, and its own.  The partial unique index on      *)
(* identity_key sees every row, and makes an insert wait for the           *)
(* transaction that holds the key.  A worker's completion is READ          *)
(* COMMITTED and has two steps: the ORM reads the waiting children, and    *)
(* later writes what it decided, whatever the rows have become, its own    *)
(* included: the operator may cancel a job that runs.                      *)
(*                                                                         *)
(* A program is the list of enqueue() calls of one transaction, as         *)
(* Delayables makes them: parent and deps name earlier calls.              *)
(***************************************************************************)
EXTENDS Integers, Sequences, SequencesExt

CONSTANTS
    MaxRows,        \* ids the table's sequence may give out (a bound)
    Clients,        \* transactions that enqueue
    NoClient,
    NoKey,          \* identity_key is NULL
    Programs        \* what each client may do

ASSUME EnqueueAssumption == MaxRows \in Nat \ {0} /\ NoClient \notin Clients

\* parent_id and dependency_job_ids name jobs that were enqueued before.
ASSUME ProgramAssumption ==
    \A c \in Clients : \A p \in Programs[c] :
        /\ Len(p) \in Nat
        /\ DOMAIN p = 1..Len(p)
        /\ \A i \in DOMAIN p : /\ p[i].parent \in 0..(i - 1)
                              /\ p[i].deps \in Seq(1..(i - 1))
                              /\ p[i].handler \in BOOLEAN

VARIABLES
    state, count, parent, deps, handler, key,   \* columns of queue_job
    writer,                                     \* whose open transaction inserted a row
    phase, program, got, snapshot,              \* clients
    decided,                                    \* executions, and what they are to write
    creator                                     \* history: who inserted a row

columns == <<state, count, parent, deps, handler, key>>
client  == <<phase, program, got, snapshot>>
vars    == <<columns, writer, client, decided, creator>>

Rows   == 1..MaxRows
NoRow  == 0
Phases == {"idle", "open", "committed", "aborted"}

C == INSTANCE JobCascade
        WITH Jobs <- Rows, NoJob <- NoRow, Parent <- parent,
             Dependencies <- deps, RunOnFailure <- handler

LiveStates == {"waiting", "pending", "started"}

\* Where the execution of a row is, and the states its completion will write to
\* others once it has read the children.  failing: what it did was rolled back.
\* completed: over, and counted.
Steps   == {"none", "running", "read", "failing", "completed"}
At(step) == [step |-> step, writes |-> [i \in {} |-> ""]]

TypeOK ==
    /\ state   \in [Rows -> C!JobStates \cup {"absent"}]
    /\ count   \in [Rows -> Int]
    /\ parent  \in [Rows -> Rows \cup {NoRow}]
    /\ deps    \in [Rows -> Seq(Rows)]
    /\ handler \in [Rows -> BOOLEAN]
    /\ writer  \in [Rows -> Clients \cup {NoClient}]
    /\ creator \in [Rows -> Clients \cup {NoClient}]
    /\ phase   \in [Clients -> Phases]
    /\ got     \in [Clients -> Seq(Rows)]
    /\ snapshot \in [Clients -> SUBSET Rows]
    \* What an open transaction has inserted, and only that, is invisible.
    /\ \A r \in Rows : writer[r] # NoClient => phase[writer[r]] = "open" /\ creator[r] = writer[r]

Init ==
    /\ state    = [r \in Rows |-> "absent"]
    /\ count    = [r \in Rows |-> 0]
    /\ parent   = [r \in Rows |-> NoRow]
    /\ deps     = [r \in Rows |-> <<>>]
    /\ handler  = [r \in Rows |-> FALSE]
    /\ key      = [r \in Rows |-> NoKey]
    /\ writer   = [r \in Rows |-> NoClient]
    /\ phase    = [c \in Clients |-> "idle"]
    /\ program  = [c \in Clients |-> <<>>]
    /\ got      = [c \in Clients |-> <<>>]
    /\ snapshot = [c \in Clients |-> {}]
    /\ decided  = [r \in Rows |-> At("none")]
    /\ creator  = [r \in Rows |-> NoClient]

-----------------------------------------------------------------------------
(* Helpers. *)

\* state as every transaction but the writer's sees it.
Committed == [r \in Rows |-> IF writer[r] = NoClient THEN state[r] ELSE "absent"]

\* Mutant of IndexedStates: the index leaves out the running jobs.
WaitingOrPending == {"waiting", "pending"}

\* The WHERE clause of queue_job_identity_key_active_uniq.
IndexedStates == {"waiting", "pending", "started"}

\* The index would hold the key of r twice.
Collides(st, r) ==
    /\ key[r] # NoKey /\ st[r] \in IndexedStates
    /\ \E s \in Rows \ {r} : key[s] = key[r] /\ st[s] \in IndexedStates

\* What _check_identity_key_state_unique refuses to write a row for.
Duplicated(r) ==
    key[r] # NoKey /\ \E s \in Rows \ {r} : key[s] = key[r] /\ Committed[s] \in LiveStates

Call(c)     == program[c][Len(got[c]) + 1]
Calling(c)  == phase[c] = "open" /\ Len(got[c]) < Len(program[c])
Holders(k)  == {r \in Rows : k # NoKey /\ key[r] = k /\ state[r] \in IndexedStates}

\* What enqueue()'s search for a live job with the key returns.
Found(c) ==
    {r \in Rows : /\ Call(c).key # NoKey /\ key[r] = Call(c).key
                  /\ r \in snapshot[c] \/ writer[r] = c}

\* The transaction of c waits for the end of another one that holds the key.
Blockers(c) == {writer[r] : r \in Holders(Call(c).key)} \ {NoClient, c}
Blocked(c)  == Calling(c) /\ Found(c) = {} /\ Blockers(c) # {}

-----------------------------------------------------------------------------
(* A client's transaction. *)

Begin(c) ==
    /\ phase[c] = "idle"
    /\ \E p \in Programs[c] : program' = [program EXCEPT ![c] = p]
    /\ phase'    = [phase EXCEPT ![c] = "open"]
    /\ snapshot' = [snapshot EXCEPT ![c] = {r \in Rows : Committed[r] \in LiveStates}]
    /\ UNCHANGED <<columns, writer, got, decided, creator>>

\* A live job with the key is returned as it is; the wiring asked for is lost.
ReturnExisting(c) ==
    /\ Calling(c)
    /\ \E r \in Found(c) : got' = [got EXCEPT ![c] = Append(@, r)]
    /\ UNCHANGED <<columns, writer, phase, program, snapshot, decided, creator>>

\* Mutant of InsertedBy: enqueue() commits.
Autocommitted(c) == NoClient

\* Until the caller commits, the row is its own.
InsertedBy(c) == c

\* The row is created, waiting if it is wired to others.
Insert(c) ==
    LET call == Call(c)
        Got(i) == IF i = 0 THEN NoRow ELSE got[c][i]
        wired  == call.parent # 0 \/ call.deps # <<>>
    IN  /\ Calling(c)
        /\ Found(c) = {} /\ Holders(call.key) = {}
        /\ \E r \in Rows :
            /\ \A s \in Rows : creator[s] = NoClient <=> s >= r
            /\ state'   = [state   EXCEPT ![r] = IF wired THEN "waiting" ELSE "pending"]
            /\ count'   = [count   EXCEPT ![r] = Len(call.deps)]
            /\ parent'  = [parent  EXCEPT ![r] = Got(call.parent)]
            /\ deps'    = [deps    EXCEPT ![r] = [i \in DOMAIN call.deps |-> Got(call.deps[i])]]
            /\ handler' = [handler EXCEPT ![r] = call.handler]
            /\ key'     = [key     EXCEPT ![r] = call.key]
            /\ writer'  = [writer  EXCEPT ![r] = InsertedBy(c)]
            /\ creator' = [creator EXCEPT ![r] = c]
            /\ got'     = [got     EXCEPT ![c] = Append(@, r)]
        /\ UNCHANGED <<phase, program, snapshot, decided>>

RollBack(c) ==
    /\ phase'   = [phase EXCEPT ![c] = "aborted"]
    /\ state'   = [r \in Rows |-> IF writer[r] = c THEN "absent" ELSE state[r]]
    /\ writer'  = [r \in Rows |-> IF writer[r] = c THEN NoClient ELSE writer[r]]
    /\ UNCHANGED <<count, parent, deps, handler, key, program, got, snapshot, decided, creator>>

\* The index refuses the insert for a committed row that is not in the
\* snapshot: the second search does not find it either, and the error goes to
\* the caller.
Refused(c) ==
    /\ Calling(c) /\ Found(c) = {}
    /\ \E r \in Holders(Call(c).key) : writer[r] = NoClient
    /\ RollBack(c)

\* PostgreSQL ends one of several transactions that wait for one another.
DeadlockVictim(c) ==
    /\ \E S \in SUBSET Clients :
          /\ c \in S
          /\ \A d \in S : Blocked(d) /\ Blockers(d) \cap S # {}
    /\ RollBack(c)

\* The caller's own code fails after some of the calls.
CallerFails(c) ==
    /\ phase[c] = "open" /\ ~Blocked(c)
    /\ RollBack(c)

\* Mutant of Commit: the rows stay with the transaction that is over.
CommitUnreleased(c) ==
    /\ phase[c] = "open" /\ ~Calling(c)
    /\ phase' = [phase EXCEPT ![c] = "committed"]
    /\ UNCHANGED <<columns, writer, program, got, snapshot, decided, creator>>

Commit(c) ==
    /\ phase[c] = "open" /\ ~Calling(c)
    /\ phase'  = [phase EXCEPT ![c] = "committed"]
    /\ writer' = [r \in Rows |-> IF writer[r] = c THEN NoClient ELSE writer[r]]
    /\ UNCHANGED <<columns, program, got, snapshot, decided, creator>>

-----------------------------------------------------------------------------
(* Workers and the operator. *)

Start(r) ==
    /\ Committed[r] = "pending"
    /\ state'   = [state EXCEPT ![r] = "started"]
    /\ decided' = [decided EXCEPT ![r] = At("running")]
    /\ UNCHANGED <<count, parent, deps, handler, key, writer, client, creator>>

\* finalize_job() up to the flush: the row is put to done, which is refused if its
\* key was taken over, and _cascade_children_on_parent_success reads the waiting
\* children and decides what to write.
ReadChildren(r) ==
    LET after == C!ChildrenOnSuccess(Committed, r)
    IN  /\ decided[r].step = "running" /\ ~Duplicated(r)
        /\ decided' = [decided EXCEPT ![r] =
               [step |-> "read",
                writes |-> Restrict(after, {i \in Rows : after[i] # Committed[i]})]]
        /\ UNCHANGED <<columns, writer, client, creator>>

\* The rows of open transactions stay as they are.
Merged(st) == [i \in Rows |-> IF writer[i] = NoClient THEN st[i] ELSE state[i]]

\* The columns after the flush of those writes and _release_dependents.
Flushed(r) ==
    LET done == [Committed EXCEPT ![r] = "done"]
    IN  [i \in Rows |-> IF i \in DOMAIN decided[r].writes THEN decided[r].writes[i] ELSE done[i]]
Completed(r)   == Merged(C!DependentsOnSuccess(Flushed(r), count, r))
CollidingIn(r) == LET st == Completed(r) IN {i \in Rows : Collides(st, i)}

\* Whatever has become of the row, it is done.
Complete(r) ==
    /\ decided[r].step = "read" /\ CollidingIn(r) = {}
    /\ state'   = Completed(r)
    /\ count'   = C!ReleasedCount(Flushed(r), count, r)
    /\ decided' = [decided EXCEPT ![r] = At("completed")]
    /\ UNCHANGED <<parent, deps, handler, key, writer, client, creator>>

\* The method raises, or the completion is refused: for its own row, or for a
\* child that was cancelled meanwhile and whose key belongs to a newer job.
Raises(r) ==
    /\ \/ decided[r].step = "running"
       \/ decided[r].step = "read" /\ \E i \in DOMAIN decided[r].writes : Duplicated(i)
    /\ decided' = [decided EXCEPT ![r] = At("failing")]
    /\ UNCHANGED <<columns, writer, client, creator>>

\* handle_exception(): the job is to be retried, unless its key was taken over;
\* then this is refused too, and the row stays as it is.
HandleException(r) ==
    /\ decided[r].step = "failing"
    /\ \/ Duplicated(r) /\ UNCHANGED state
       \/ Holders(key[r]) \subseteq {r} /\ state' = [state EXCEPT ![r] = "pending"]
    /\ decided' = [decided EXCEPT ![r] = At("none")]
    /\ UNCHANGED <<count, parent, deps, handler, key, writer, client, creator>>

\* The button's own transaction, on any row: one that runs, and, from a form
\* that is out of date, one that has ended.  It waits for a completion that has
\* flushed its row (the search for the key does), and is refused like it.
Cancel(r) ==
    /\ Committed[r] # "absent" /\ ~Duplicated(r)
    /\ key[r] = NoKey \/ decided[r].step # "read"
    /\ state' = Merged(C!Cancelled(Committed, r))
    /\ UNCHANGED <<count, parent, deps, handler, key, writer, client, decided, creator>>

-----------------------------------------------------------------------------

Calls(c)      == ReturnExisting(c) \/ Insert(c) \/ Refused(c)
Ends(c)       == Commit(c) \/ CallerFails(c)
Executes(r)   == Start(r) \/ ReadChildren(r) \/ Complete(r) \/ Raises(r) \/ HandleException(r)

Next ==
    \/ \E c \in Clients : Begin(c) \/ Calls(c) \/ Ends(c) \/ DeadlockVictim(c)
    \/ \E r \in Rows : Executes(r) \/ Cancel(r)

Spec == Init /\ [][Next]_vars

-----------------------------------------------------------------------------
(* Properties. *)

Upstream(r) == C!DependencySet(r) \cup ({parent[r]} \ {NoRow})

\* No two live jobs have one identity key, committed or not (docs/usage.md:
\* "Deduplication is enforced by a partial unique index"; the invariant of
\* tests/stress_common.py).
OneLivePerKey ==
    \A r, s \in Rows : (key[r] = key[s] /\ key[r] # NoKey /\ state[r] \in LiveStates
                            /\ state[s] \in LiveStates) => r = s

\* A wake-up is lost only to a job of another transaction, and one that was
\* committed: one transaction's graph becomes visible at once, so none of its
\* jobs can end before the rows that wait for it are there, and nothing is wired
\* to a row that was rolled back (dependency_job_ids has no foreign key).
StrandedOnlyByDedupe ==
    \A r \in Rows :
        (Committed[r] = "waiting" /\ \A u \in Upstream(r) : state[u] \in C!TerminalStates \cup {"absent"})
            => \E u \in Upstream(r) : creator[u] # creator[r] /\ state[u] # "absent"

\* A barrier is never let go before all its members have completed, also when
\* some of them were enqueued by others, end while it is being created, or are
\* cancelled while they run or once they are done.
BarrierWaitsForAll ==
    [][\A r \in Rows : (state[r] = "waiting" /\ state'[r] = "pending" /\ deps[r] # <<>>)
            => \A m \in C!DependencySet(r) : decided'[m].step = "completed"]_vars

\* Nobody is left waiting for a job that has ended.
NobodyStranded ==
    \A r \in Rows :
        (Committed[r] = "waiting") => \E u \in Upstream(r) : state[u] \notin C!TerminalStates

\* enqueue() returns a job that is live at that moment ("the existing job is
\* returned" if one is waiting, pending or started).
ReturnsLiveJob ==
    [][\A c \in Clients : Len(got'[c]) > Len(got[c]) => state'[Last(got'[c])] \in LiveStates]_vars

\* enqueue() does not fail when a job with the key exists: it is returned.
DedupeNeverFails == [][\A c \in Clients : ~Refused(c)]_vars

\* A cancelled job stays cancelled.
CancelledStays == [][\A r \in Rows : Committed[r] = "cancelled" => state'[r] = "cancelled"]_vars
=============================================================================
