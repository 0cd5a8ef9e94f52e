---------------------------- MODULE DelayedGraph ----------------------------
(***************************************************************************)
(* delay.py and the cascades of queue_job.py together: a graph of          *)
(* delayables is enqueued in one transaction and then executed.            *)
(*                                                                         *)
(* The reference is what the graph is written to mean: Fate says, from the *)
(* term alone, how each of its jobs must end when succeeds says which      *)
(* methods succeed.  The rows must end like that, whatever the order in    *)
(* which workers take them.                                                *)
(***************************************************************************)
EXTENDS Delayables

CONSTANTS
    Cases,          \* the graphs, each with the ids whose method succeeds
    MaxJobs         \* the most jobs a graph has

ASSUME GraphAssumption == MaxJobs \in Nat \ {0}

VARIABLES
    term,           \* the outermost object
    succeeds,       \* the ids whose method succeeds; the others fail for good
    delayed,        \* what delay() did: calls, runs, raised
    state, count    \* columns of queue_job; a row is the number of its call

vars == <<term, succeeds, delayed, state, count>>

Rows == 1..MaxJobs
Call(r) == IF r <= Len(delayed.calls) THEN delayed.calls[r] ELSE Unwired

C == INSTANCE JobCascade
        WITH Jobs         <- Rows,
             NoJob        <- 0,
             Parent       <- [r \in Rows |-> Call(r).parent],
             Dependencies <- [r \in Rows |-> Call(r).deps],
             RunOnFailure <- [r \in Rows |-> Call(r).handler]

Created == DOMAIN delayed.calls

Init ==
    /\ \E c \in Cases : term = c.term /\ succeeds = c.succeeds
    /\ delayed = NothingYet
    /\ state = [r \in Rows |-> "absent"]
    /\ count = [r \in Rows |-> 0]

\* delay(), and the commit of the transaction it is called in, which a raise
\* rolls back.
EnqueueGraph ==
    /\ delayed = NothingYet
    /\ delayed' = Delayed(term)
    /\ ~delayed'.raised
    /\ state' = [r \in Rows |-> IF r \in Created' THEN C!InitialState(r)' ELSE "absent"]
    /\ count' = [r \in Rows |-> IF r \in Created' THEN C!InitialCount(r)' ELSE 0]
    /\ UNCHANGED <<term, succeeds>>

Start(r) ==
    /\ state[r] = "pending"
    /\ state' = [state EXCEPT ![r] = "started"]
    /\ UNCHANGED <<term, succeeds, delayed, count>>

Succeed(r) ==
    /\ state[r] = "started"
    /\ delayed.calls[r].id \in succeeds
    /\ state' = C!Succeeded(state, count, r)
    /\ count' = C!SucceededCount(state, count, r)
    /\ UNCHANGED <<term, succeeds, delayed>>

Fail(r) ==
    /\ state[r] = "started"
    /\ delayed.calls[r].id \notin succeeds
    /\ state' = C!FailedForGood(state, r)
    /\ UNCHANGED <<term, succeeds, delayed, count>>

Next == EnqueueGraph \/ \E r \in Rows : Start(r) \/ Succeed(r) \/ Fail(r)

Spec == Init /\ [][Next]_vars

-----------------------------------------------------------------------------
(* What a graph means. *)

Over(Op(_), ts) == UNION {Op(ts[i]) : i \in DOMAIN ts}

RECURSIVE JobsOf(_)
JobsOf(t) ==
    (IF t.kind = "job" THEN {t.id} ELSE {})
        \cup Over(JobsOf, t.parts) \cup Over(JobsOf, t.done) \cup Over(JobsOf, t.error)

\* The jobs that start when t is let go, and those whose ends are the end of t.
RECURSIVE Firsts(_)
Firsts(t) == CASE t.kind = "job"   -> {t.id}
               [] t.kind = "group" -> Over(Firsts, t.parts)
               [] t.kind = "chain" -> Firsts(t.parts[1])
RECURSIVE Lasts(_)
Lasts(t) == CASE t.kind = "job"   -> {t.id}
              [] t.kind = "group" -> Over(Lasts, t.parts)
              [] t.kind = "chain" -> Lasts(Last(t.parts))

\* <<u, v>>: v may not start before u has ended.  A group's handlers start with
\* the first failure.
RECURSIVE Follows(_)
Follows(t) ==
    LET next == Over(Firsts, t.done) \cup (IF t.kind = "group" THEN {} ELSE Over(Firsts, t.error))
        steps == IF t.kind = "chain" THEN 2..Len(t.parts) ELSE {}
    IN  (Lasts(t) \X next)
            \cup UNION {Lasts(t.parts[i - 1]) \X Firsts(t.parts[i]) : i \in steps}
            \cup Over(Follows, t.parts) \cup Over(Follows, t.done) \cup Over(Follows, t.error)

\* What an object that ended like this lets happen to its callbacks and to its
\* handlers: a failure goes on to the callbacks, a cancellation to both.
CallbackMode(end) == IF end = "done" THEN "run" ELSE end
HandlerMode(end)  == IF end = "failed" THEN "run" ELSE "cancelled"

\* How the jobs of t end, as a function of their ids, and how t itself ends,
\* when it is let run, or failed or cancelled before it could.
RECURSIVE Fate(_, _, _)
Fate(t, mode, ok) ==
    LET Each(ts, m) == [i \in DOMAIN ts |-> Fate(ts[i], m, ok)]
        Step(fs, s) == Append(fs, Fate(s, IF fs = <<>> THEN mode ELSE CallbackMode(Last(fs).end), ok))
        parts == IF t.kind = "chain" THEN FoldLeft(Step, <<>>, t.parts) ELSE Each(t.parts, mode)
        ends  == {parts[i].end : i \in DOMAIN parts}
        end   == CASE t.kind = "job"   -> IF mode # "run" THEN mode
                                          ELSE IF t.id \in ok THEN "done" ELSE "failed"
                   [] t.kind = "chain" -> Last(parts).end
                   [] t.kind = "group" -> IF ends = {"done"} THEN "done"
                                          ELSE IF "failed" \in ends THEN "failed" ELSE "cancelled"
        below == parts \o Each(t.done, CallbackMode(end)) \o Each(t.error, HandlerMode(end))
    IN  [end  |-> end,
         jobs |-> FoldLeft(LAMBDA f, g : f @@ g.jobs,
                           [i \in IF t.kind = "job" THEN {t.id} ELSE {} |-> end], below)]

\* A failure or a cancellation inside t has to cross from one axis to the
\* other, which the cascades do not do: it reaches a group with callbacks, or
\* something chained to a callback of a group.
RECURSIVE Crosses(_, _, _)
Crosses(t, mode, ok) ==
    LET end  == Fate(t, mode, ok).end
        Idle(ts, m) == m # "run" /\ \E i \in DOMAIN ts :
                            \E x \in Range(<<ts[i]>> \o ts[i].parts) :
                                x.done \o x.error # <<>> \/ (x.kind = "chain" /\ Len(x.parts) > 1)
        Below(ts, m) == \E i \in DOMAIN ts : Crosses(ts[i], m, ok)
        Before(i)   == IF i = 1 \/ t.kind # "chain" THEN mode
                       ELSE CallbackMode(Fate([t EXCEPT !.parts = SubSeq(@, 1, i - 1)], mode, ok).end)
    IN  \/ t.kind = "group" /\ t.done \o t.error # <<>>
            /\ \/ mode # "run"
               \/ Idle(t.done, CallbackMode(end))
               \/ Idle(t.error, HandlerMode(end))
        \/ \E i \in DOMAIN t.parts : Crosses(t.parts[i], Before(i), ok)
        \/ Below(t.done, CallbackMode(end))
        \/ Below(t.error, HandlerMode(end))

-----------------------------------------------------------------------------
(* Properties. *)

Enqueued == delayed # NothingYet
AtRest   == Enqueued /\ \A r \in Created : state[r] \notin {"pending", "started"}

\* Every job of a graph ends as the graph is written to mean: steps in their
\* order, callbacks after success, handlers after failure, nobody left waiting
\* (docs/job-graphs.md, "Combining Patterns" and "How It Works").
EndsAsWritten ==
    AtRest => \A r \in Created :
                  state[r] = Fate(term, "run", succeeds).jobs[delayed.calls[r].id]

\* delay() makes one row per job and puts each on one axis, with no member
\* listed twice: what OneAxis and DistinctMembers of JobGraphProofs assume.
GraphsAreWellWired ==
    Enqueued => /\ {delayed.calls[r].id : r \in Created} = JobsOf(term)
                /\ \A r \in Created :
                      LET c == delayed.calls[r]
                      IN  /\ IsInjective(c.deps)
                          /\ c.parent = 0 \/ c.deps = <<>>
                          /\ \A u \in {c.parent} \cup Range(c.deps) : u < r

\* A step or a callback does not start before what it is written after has
\* ended ("The first job starts in pending state. Subsequent jobs start in
\* waiting state"; a group callback waits for every member).
StartsInOrder ==
    [][\A r, u \in Created :
        (state[r] = "pending" /\ state'[r] = "started"
            /\ <<delayed.calls[u].id, delayed.calls[r].id>> \in Follows(term))
        => state[u] \in C!TerminalStates]_vars

\* Run without delay, a job runs after the jobs it is written after.
NoDelayKeepsOrder ==
    \A i, k \in DOMAIN delayed.runs :
        <<delayed.calls[delayed.runs[k]].id, delayed.calls[delayed.runs[i]].id>> \in Follows(term)
            => k < i
=============================================================================
