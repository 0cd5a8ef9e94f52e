----------------------------- MODULE Delayables -----------------------------
(***************************************************************************)
(* delay(): from the objects of job_worker/delay.py (a job, a group or a   *)
(* chain, each with its on_done and on_error callbacks) to the calls of    *)
(* queue.job.enqueue() they make, in the order they make them.             *)
(*                                                                         *)
(* A term is the tree of objects.  A wiring is what an outer object writes *)
(* on an inner one before it delays it: _parent_job_id,                    *)
(* _dependency_job_ids and _run_on_failure.  A call is known by its        *)
(* position, so 0 is no job.                                               *)
(***************************************************************************)
EXTENDS Integers, Sequences, SequencesExt

Job(i)         == [kind |-> "job",   id |-> i, parts |-> <<>>, done |-> <<>>, error |-> <<>>]
Group(members) == [kind |-> "group", id |-> 0, parts |-> members, done |-> <<>>, error |-> <<>>]
Chain(steps)   == [kind |-> "chain", id |-> 0, parts |-> steps, done |-> <<>>, error |-> <<>>]
With(t, done, error) == [t EXCEPT !.done = done, !.error = error]

Unwired == [parent |-> 0, deps |-> <<>>, handler |-> FALSE]

\* calls made so far; the order in which QUEUE_JOB__NO_DELAY runs them; what
\* the last delay() returned (0 for None); whether one of them raised.
NothingYet == [calls |-> <<>>, runs |-> <<>>, last |-> 0, raised |-> FALSE]

-----------------------------------------------------------------------------
(* The wirings an object writes on what it holds. *)

\* A job's callbacks and handlers are its children.
ChildWiring(parent, onError) ==
    [parent |-> parent, deps |-> <<>>, handler |-> onError]

\* Mutants of BarrierWiring: the callback waits for the last member only; the
\* handler flag is forgotten.
BarrierOnLast(members, onError) ==
    [parent |-> 0, deps |-> <<Last(members)>>, handler |-> onError]
BarrierUnflagged(members, onError) ==
    [parent |-> 0, deps |-> members, handler |-> FALSE]

\* A group's callbacks and handlers depend on all its members.
BarrierWiring(members, onError) ==
    [parent |-> 0, deps |-> members, handler |-> onError]

\* Mutant of StepWiring: every step keeps the outer dependencies.
StepWiringKeepsDeps(outer, previous, first) ==
    [outer EXCEPT !.parent = IF first THEN @ ELSE previous]

\* The first step of a chain waits for what the chain waits for, each later
\* one for the step before it, if that one returned a job.
StepWiring(outer, previous, first) ==
    [parent  |-> IF first THEN outer.parent ELSE previous,
     deps    |-> IF first THEN outer.deps ELSE <<>>,
     handler |-> outer.handler]

-----------------------------------------------------------------------------
(* The three delay() methods. *)

RECURSIVE Delay(_, _, _)

DelayEach(terms, wiring, acc) ==
    FoldLeft(LAMBDA a, t : Delay(t, wiring, a), acc, terms)

\* An object that was delayed before returns the job it has.
DelayJob(t, wiring, acc) ==
    LET known == SelectInSeq(acc.calls, LAMBDA c : c.id = t.id)
        me    == Len(acc.calls) + 1
        own   == [acc EXCEPT !.calls = Append(@, [id |-> t.id] @@ wiring)]
        done  == DelayEach(t.done, ChildWiring(me, FALSE), own)
        all   == DelayEach(t.error, ChildWiring(me, TRUE), done)
    IN  IF known # 0
        THEN [acc EXCEPT !.last = known]
        ELSE [all EXCEPT !.last = me, !.runs = IF all.raised THEN @ ELSE Append(@, me)]

\* Only a job has the id that the group asks its members for.
DelayGroup(t, wiring, acc) ==
    LET Member(a, m) ==
            LET b == Delay(m, wiring, a.acc)
            IN  [acc |-> [b EXCEPT !.raised = @ \/ b.last = 0],
                 ids |-> Append(a.ids, b.last)]
        members == FoldLeft(Member, [acc |-> acc, ids |-> <<>>], t.parts)
        done    == DelayEach(t.done, BarrierWiring(members.ids, FALSE), members.acc)
        all     == DelayEach(t.error, BarrierWiring(members.ids, TRUE), done)
    IN  [all EXCEPT !.last = 0]

DelayChain(t, wiring, acc) ==
    LET Step(a, i) == Delay(t.parts[i], StepWiring(wiring, a.last, i = 1), a)
        steps == FoldLeft(Step, [acc EXCEPT !.last = 0], [i \in DOMAIN t.parts |-> i])
        done  == DelayEach(t.done, ChildWiring(steps.last, FALSE), steps)
        all   == DelayEach(t.error, ChildWiring(steps.last, TRUE), done)
    IN  [all EXCEPT !.last = 0]

Delay(t, wiring, acc) ==
    CASE acc.raised       -> acc
      [] t.kind = "job"   -> DelayJob(t, wiring, acc)
      [] t.kind = "group" -> DelayGroup(t, wiring, acc)
      [] t.kind = "chain" -> DelayChain(t, wiring, acc)

\* delay() on the outermost object.
Delayed(t) == Delay(t, Unwired, NothingYet)
=============================================================================
