--------------------------- MODULE JobGraphProofs ---------------------------
(***************************************************************************)
(* Theorems about graphs of any shape and size.                            *)
(*                                                                         *)
(* The buttons act on rows in any state.  However rows are wired, counters *)
(* stay natural and done and cancelled rows can be collected.  Where a     *)
(* group holds a row once, a group whose members are all done is let go.   *)
(* As long as nothing done is taken back or counted again, and no waiting  *)
(* row is forced to pending, the counter of a waiting barrier is exact and *)
(* callbacks and handlers are let go by the right outcome; the workers     *)
(* alone keep to that.  Where the members of groups wait for nobody        *)
(* themselves, no barrier is stranded; where nothing is chained to groups  *)
(* either, only the two cascades that the code cuts short strand a row.    *)
(***************************************************************************)
EXTENDS JobRetention, JobCascadeProofs, FiniteSetTheorems, FunctionTheorems

\* No member is listed twice (MCJobGraph_counts shows what happens
\* otherwise).
DistinctMembers ==
    \A d \in Jobs : \A i, k \in DOMAIN Dependencies[d] :
        Dependencies[d][i] = Dependencies[d][k] => i = k

\* delay() gives a row a parent or dependencies, not both.
OneAxis == \A j \in Jobs : Parent[j] = NoJob \/ Dependencies[j] = <<>>

\* The members of d that are still to be done.
Missing(st, d) == {m \in DependencySet(d) : st[m] # "done"}

-----------------------------------------------------------------------------
(* Groups as finite sets. *)

LEMMA DependencySetType ==
    ASSUME NEW d \in Jobs
    PROVE  DependencySet(d) \subseteq Jobs
BY WiringAssumption DEF DependencySet

LEMMA DependencySetSize ==
    ASSUME DistinctMembers, NEW d \in Jobs
    PROVE  /\ IsFiniteSet(DependencySet(d))
           /\ Cardinality(DependencySet(d)) = Len(Dependencies[d])
<1> DEFINE D == Dependencies[d]
           n == Len(D)
<1>1. D \in Seq(Jobs) /\ n \in Nat /\ DOMAIN D = 1..n
  BY WiringAssumption
<1>2. D \in [1..n -> DependencySet(d)]
  BY <1>1 DEF DependencySet
<1>3. \A i, k \in 1..n : D[i] = D[k] => i = k
  BY <1>1 DEF DistinctMembers
<1>4. \A m \in DependencySet(d) : \E i \in 1..n : D[i] = m
  BY <1>1 DEF DependencySet
<1>5. IsFiniteSet(1..n) /\ Cardinality(1..n) = n
  BY <1>1, FS_Interval
<1> HIDE DEF D, n
<1>6. D \in Bijection(1..n, DependencySet(d))
  BY <1>2, <1>3, <1>4, Fun_IsBij
<1>7. ExistsBijection(1..n, DependencySet(d))
  BY <1>6 DEF ExistsBijection
<1>8. IsFiniteSet(DependencySet(d)) /\ Cardinality(DependencySet(d)) = n
  BY <1>5, <1>7, FS_Bijection
<1> QED
  BY <1>8 DEF n, D

LEMMA MissingFinite ==
    ASSUME DistinctMembers, NEW st, NEW d \in Jobs
    PROVE  IsFiniteSet(Missing(st, d)) /\ Cardinality(Missing(st, d)) \in Nat
<1>1. Missing(st, d) \in SUBSET DependencySet(d)
  BY DEF Missing
<1> QED
  BY <1>1, DependencySetSize, FS_Subset, FS_CardinalityType

-----------------------------------------------------------------------------
(* Every step finishes nobody, or one row. *)

\* The step makes nobody done, leaves the counters, and nobody starts to wait.
FinishesNobody ==
    /\ state' \in [Jobs -> JobStates]
    /\ UNCHANGED count
    /\ \A i \in Jobs : state'[i] \in {"done", "waiting"} => state'[i] = state[i]

\* The step makes j done, whatever it was: rows that wait may move along the
\* parent axis, where only callbacks of j become pending, and then the barriers
\* that still wait lose a member.
Finishes(j) ==
    \E mid \in [Jobs -> JobStates] :
        /\ OnlyWaitingMoves([state EXCEPT ![j] = "done"], mid)
        /\ \A c \in Jobs \ {j} : state[c] = "waiting" /\ mid[c] = "pending"
                => Parent[c] = j /\ ~RunOnFailure[c]
        /\ state' = DependentsOnSuccess(mid, count, j)
        /\ count' = ReleasedCount(mid, count, j)

LEMMA FinishMoves ==
    ASSUME state \in [Jobs -> JobStates], NEW j \in Jobs, Finishes(j)
    PROVE  MovesTo(state, state', j, "done")
<1>1. PICK mid \in [Jobs -> JobStates] :
        /\ OnlyWaitingMoves([state EXCEPT ![j] = "done"], mid)
        /\ state' = DependentsOnSuccess(mid, count, j)
  BY DEF Finishes
<1>2. OnlyWaitingMoves(mid, state')
  BY <1>1, DependentsOnSuccessOnlyWaiting
<1> QED
  BY <1>1, <1>2, TwoMoves DEF JobStates

\* A cascade of a row that fails or is cancelled.
LEMMA OtherEndFinishesNobody ==
    ASSUME state \in [Jobs -> JobStates], NEW j \in Jobs, UNCHANGED count,
           NEW s \in {"failed", "cancelled"}, MovesTo(state, state', j, s)
    PROVE  FinishesNobody
BY DEF MovesTo, FinishesNobody

LEMMA SuccessFinishes ==
    ASSUME state \in [Jobs -> JobStates], NEW j \in Jobs,
           state' = Succeeded(state, count, j), count' = SucceededCount(state, count, j)
    PROVE  Finishes(j)
<1> DEFINE done == [state EXCEPT ![j] = "done"]
           mid  == ChildrenOnSuccess(done, j)
<1>1. done \in [Jobs -> JobStates]
  BY DEF JobStates
<1>2. OnlyWaitingMoves(done, mid)
  BY <1>1, ChildrenOnSuccessOnlyWaiting
<1>3. mid \in [Jobs -> JobStates]
  BY <1>2 DEF OnlyWaitingMoves
<1>4. state' = DependentsOnSuccess(mid, count, j) /\ count' = ReleasedCount(mid, count, j)
  BY DEF Succeeded, SucceededCount
<1>5. ASSUME NEW c \in Jobs \ {j}, state[c] = "waiting", mid[c] = "pending"
      PROVE  Parent[c] = j /\ ~RunOnFailure[c]
  BY <1>5 DEF ChildrenOnSuccess, Move, WaitingChildren, Handlers
<1> HIDE DEF mid
<1> QED
  BY <1>2, <1>3, <1>4, <1>5 DEF Finishes

\* Set to Done cascades on the dependency axis only.
LEMMA SetToDoneFinishes ==
    ASSUME state \in [Jobs -> JobStates], NEW j \in Jobs, SetToDone(j)
    PROVE  Finishes(j)
<1> DEFINE mid == [state EXCEPT ![j] = "done"]
<1>1. mid \in [Jobs -> JobStates] /\ OnlyWaitingMoves([state EXCEPT ![j] = "done"], mid)
  BY DEF JobStates, OnlyWaitingMoves
<1>2. /\ \A c \in Jobs \ {j} : mid[c] = state[c]
      /\ state' = DependentsOnSuccess(mid, count, j)
      /\ count' = ReleasedCount(mid, count, j)
  BY DEF SetToDone
<1> HIDE DEF mid
<1> QED
  BY <1>1, <1>2 DEF Finishes

\* What a step of the graph can be, its outcome for the row it is about told
\* apart.
LEMMA StepKinds ==
    ASSUME TypeOK, [Next]_vars
    PROVE  \/ UNCHANGED vars
           \/ \E j \in Jobs :
                \/ Start(j) \/ Retry(j) \/ Requeue(j)
                \/ Fail(j) \/ SetToFailed(j) \/ FailStale(j) \/ Cancel(j)
                \/ Finishes(j)
<1>1. ASSUME NEW j \in Jobs, Succeed(j) \/ SetToDone(j)
      PROVE  Finishes(j)
  BY <1>1, SuccessFinishes, SetToDoneFinishes DEF Succeed, TypeOK
<1>2. ASSUME NEW j \in Jobs, RunNow(j)
      PROVE  Finishes(j) \/ Requeue(j)
  BY <1>2, SuccessFinishes DEF RunNow, Requeue, TypeOK
<1> QED
  BY <1>1, <1>2 DEF Next, LeftAlone, Handled, Success

LEMMA TwoKinds ==
    ASSUME TypeOK, [Next]_vars
    PROVE  FinishesNobody \/ \E j \in Jobs : Finishes(j)
<1>0. state \in [Jobs -> JobStates]
  BY DEF TypeOK
<1>1. CASE UNCHANGED vars
  BY <1>0, <1>1 DEF vars, FinishesNobody
<1>2. ASSUME NEW j \in Jobs, Start(j) \/ Retry(j) \/ Requeue(j)
      PROVE  FinishesNobody
  BY <1>0, <1>2 DEF Start, Retry, Requeue, FinishesNobody, JobStates
<1>3. ASSUME NEW j \in Jobs, Fail(j) \/ FailStale(j) \/ SetToFailed(j) \/ Cancel(j)
      PROVE  FinishesNobody
  <2>1. UNCHANGED count
    BY <1>3 DEF Fail, FailStale, SetToFailed, Cancel
  <2>2. MovesTo(state, state', j, "failed") \/ MovesTo(state, state', j, "cancelled")
    BY <1>0, <1>3, FailedForGoodMoves, FailedByReclaimMoves, CancelledMoves
       DEF Fail, FailStale, SetToFailed, Cancel
  <2> QED
    BY <1>0, <2>1, <2>2, OtherEndFinishesNobody
<1> QED
  BY <1>1, <1>2, <1>3, StepKinds

-----------------------------------------------------------------------------
(* Counters, whatever the wiring. *)

\* A barrier waits only while its counter is positive: nothing becomes waiting,
\* and a decrement to zero releases.
CountsPositive ==
    \A d \in Jobs : state[d] = "waiting" /\ Dependencies[d] # <<>> => count[d] >= 1

LEMMA ReleasePositive ==
    ASSUME NEW st \in [Jobs -> JobStates], NEW cnt \in [Jobs -> Nat], NEW j \in Jobs,
           \A d \in Jobs : st[d] = "waiting" /\ Dependencies[d] # <<>> => cnt[d] >= 1
    PROVE  /\ ReleasedCount(st, cnt, j) \in [Jobs -> Nat]
           /\ \A d \in Jobs : DependentsOnSuccess(st, cnt, j)[d] = "waiting" /\ Dependencies[d] # <<>>
                => ReleasedCount(st, cnt, j)[d] >= 1
<1>1. \A d \in Jobs : d \in WaitingDependents(st, j) => st[d] = "waiting" /\ Dependencies[d] # <<>>
  BY WiringAssumption DEF WaitingDependents, DependencySet
<1>2. ReleasedCount(st, cnt, j) \in [Jobs -> Nat]
  BY <1>1 DEF ReleasedCount
<1>3. ASSUME NEW d \in Jobs, DependentsOnSuccess(st, cnt, j)[d] = "waiting", Dependencies[d] # <<>>
      PROVE  ReleasedCount(st, cnt, j)[d] >= 1
  <2>1. st[d] = "waiting"
    BY <1>3, DependentsOnSuccessOnlyWaiting DEF OnlyWaitingMoves
  <2>2. d \in WaitingDependents(st, j) => cnt[d] - 1 > 0
    BY <1>3 DEF DependentsOnSuccess, Move
  <2> QED
    BY <1>3, <2>1, <2>2 DEF ReleasedCount
<1> QED
  BY <1>2, <1>3

LEMMA CountsStep ==
    ASSUME TypeOK, CountsPositive, [Next]_vars
    PROVE  TypeOK' /\ CountsPositive'
<1>1. CASE FinishesNobody
  BY <1>1 DEF FinishesNobody, TypeOK, CountsPositive
<1>2. ASSUME NEW j \in Jobs, Finishes(j)
      PROVE  TypeOK' /\ CountsPositive'
  <2>1. PICK mid \in [Jobs -> JobStates] :
          /\ OnlyWaitingMoves([state EXCEPT ![j] = "done"], mid)
          /\ state' = DependentsOnSuccess(mid, count, j)
          /\ count' = ReleasedCount(mid, count, j)
    BY <1>2 DEF Finishes
  <2>2. \A d \in Jobs : mid[d] = "waiting" => state[d] = "waiting"
    BY <2>1 DEF OnlyWaitingMoves, TypeOK
  <2>3. state' \in [Jobs -> JobStates]
    BY <1>2, FinishMoves DEF MovesTo, TypeOK
  <2> QED
    BY <2>1, <2>2, <2>3, ReleasePositive DEF TypeOK, CountsPositive
<1> QED
  BY <1>1, <1>2, TwoKinds

\* The timestamps ride along.
LEMMA RetentionIsGraph == (RetentionInit => Init) /\ ([RetentionNext]_retentionVars => [Next]_vars)
BY DEF RetentionInit, RetentionNext, IsFinalized, IsRunByHand, IsFailed, IsSetToDone, IsCancelled,
       IsRequeued, Goes, Next, LeftAlone, Handled, Success, retentionVars, vars

LEMMA CountsInit == ASSUME Init PROVE TypeOK /\ CountsPositive
BY WiringAssumption DEF Init, InitialState, InitialCount, TypeOK, CountsPositive, JobStates

\* pending_dependency_count never goes below zero, whatever is requeued, run by
\* hand or set to done, in whatever state and however often, and however rows
\* are wired.
THEOREM CountersNatural == (Spec => []TypeOK) /\ (RetentionSpec => []TypeOK)
<1>1. Init => TypeOK /\ CountsPositive
  BY CountsInit
<1>2. TypeOK /\ CountsPositive /\ [Next]_vars => (TypeOK /\ CountsPositive)'
  BY CountsStep
<1> QED
  BY <1>1, <1>2, RetentionIsGraph, PTL DEF Spec, RetentionSpec

-----------------------------------------------------------------------------
(* What a counter counts. *)

\* A barrier that goes on waiting loses one from its counter if a member becomes
\* done that was not, or if one that was done is set to done or run again; that
\* a done member is taken back, no counter notices.
LEMMA MemberByMember ==
    ASSUME TypeOK, [Next]_vars, NEW d \in Jobs, state'[d] = "waiting"
    PROVE  /\ state[d] = "waiting"
           /\ \/ count'[d] = count[d] /\ Missing(state, d) \subseteq Missing(state', d)
              \/ \E j \in Missing(state, d) : /\ count'[d] = count[d] - 1
                                              /\ Missing(state', d) = Missing(state, d) \ {j}
              \/ count'[d] = count[d] - 1 /\ Missing(state', d) = Missing(state, d)
<1>1. CASE FinishesNobody
  BY <1>1, DependencySetType DEF FinishesNobody, Missing
<1>2. ASSUME NEW j \in Jobs, Finishes(j)
      PROVE  /\ state[d] = "waiting"
             /\ \/ count'[d] = count[d] /\ Missing(state, d) \subseteq Missing(state', d)
                \/ \E m \in Missing(state, d) : /\ count'[d] = count[d] - 1
                                                /\ Missing(state', d) = Missing(state, d) \ {m}
                \/ count'[d] = count[d] - 1 /\ Missing(state', d) = Missing(state, d)
  <2>1. PICK mid \in [Jobs -> JobStates] :
          /\ OnlyWaitingMoves([state EXCEPT ![j] = "done"], mid)
          /\ state' = DependentsOnSuccess(mid, count, j)
          /\ count' = ReleasedCount(mid, count, j)
    BY <1>2 DEF Finishes
  <2>2. MovesTo(state, state', j, "done")
    BY <1>2, FinishMoves DEF TypeOK
  <2>3. mid[d] = "waiting"
    BY <2>1, DependentsOnSuccessOnlyWaiting DEF OnlyWaitingMoves
  <2>4. state[d] = "waiting"
    BY <2>1, <2>3 DEF OnlyWaitingMoves, TypeOK
  <2>5. count'[d] = IF j \in DependencySet(d) THEN count[d] - 1 ELSE count[d]
    BY <2>1, <2>3 DEF ReleasedCount, WaitingDependents
  <2>6. Missing(state', d) = Missing(state, d) \ {j}
    BY <2>2, DependencySetType DEF Missing, MovesTo
  <2>7. j \in Missing(state, d) => j \in DependencySet(d)
    BY DEF Missing
  <2>8. CASE j \in Missing(state, d)
    BY <2>4, <2>5, <2>6, <2>7, <2>8
  <2>9. CASE j \notin Missing(state, d)
    BY <2>4, <2>5, <2>6, <2>9
  <2> QED
    BY <2>8, <2>9
<1> QED
  BY <1>1, <1>2, TwoKinds

\* A counter is never above what is missing: a barrier whose members are all
\* done does not wait.
CountsCover ==
    \A d \in Jobs : state[d] = "waiting" /\ Dependencies[d] # <<>>
        => count[d] <= Cardinality(Missing(state, d))

LEMMA InitExact == ASSUME DistinctMembers, Init PROVE CounterIsExact /\ CountsCover
<1>1. ASSUME NEW d \in Jobs
      PROVE  count[d] = Cardinality(Missing(state, d)) /\ count[d] \in Nat
  <2>1. \A m \in DependencySet(d) : state[m] # "done"
    BY DependencySetType DEF Init, InitialState
  <2>2. Missing(state, d) = DependencySet(d)
    BY <2>1 DEF Missing
  <2> QED
    BY <2>2, DependencySetSize, WiringAssumption DEF Init, InitialCount
<1> QED
  BY <1>1 DEF CounterIsExact, CountsCover, Missing

LEMMA CoverStep ==
    ASSUME DistinctMembers, TypeOK, CountsCover, [Next]_vars
    PROVE  CountsCover'
<1> SUFFICES ASSUME NEW d \in Jobs, state'[d] = "waiting", Dependencies[d] # <<>>
             PROVE  count'[d] <= Cardinality(Missing(state', d))
  BY DEF CountsCover, Missing, DependencySet
<1>1. state[d] = "waiting"
  BY MemberByMember
<1>2. /\ count[d] \in Nat /\ count[d] <= Cardinality(Missing(state, d))
      /\ Cardinality(Missing(state, d)) \in Nat /\ Cardinality(Missing(state', d)) \in Nat
  BY <1>1, MissingFinite DEF CountsCover, TypeOK
<1>3. CASE count'[d] = count[d] /\ Missing(state, d) \subseteq Missing(state', d)
  <2>1. Cardinality(Missing(state, d)) <= Cardinality(Missing(state', d))
    BY <1>3, MissingFinite, FS_Subset
  <2> QED
    BY <1>2, <1>3, <2>1
<1>4. ASSUME NEW j \in Missing(state, d),
             count'[d] = count[d] - 1, Missing(state', d) = Missing(state, d) \ {j}
      PROVE  count'[d] <= Cardinality(Missing(state', d))
  <2>1. Cardinality(Missing(state', d)) = Cardinality(Missing(state, d)) - 1
    BY <1>4, MissingFinite, FS_RemoveElement
  <2> QED
    BY <1>2, <1>4, <2>1
<1>5. CASE count'[d] = count[d] - 1 /\ Missing(state', d) = Missing(state, d)
  BY <1>2, <1>5
<1> QED
  BY <1>3, <1>4, <1>5, MemberByMember

\* A group whose members are all done is let go, whatever buttons are pressed on
\* whatever rows: a list that names a row twice is the only way to a barrier
\* that waits for members who are done (MCJobGraph_counts).
THEOREM CompletedGroupsRelease ==
    ASSUME DistinctMembers
    PROVE  Spec => []CompletedGroupReleases
<1>1. Init => TypeOK /\ CountsPositive /\ CountsCover
  BY CountsInit, InitExact
<1>2. TypeOK /\ CountsPositive /\ CountsCover /\ [Next]_vars
        => (TypeOK /\ CountsPositive /\ CountsCover)'
  BY CountsStep, CoverStep
<1>3. TypeOK /\ CountsPositive /\ CountsCover => CompletedGroupReleases
  <2> SUFFICES ASSUME TypeOK, CountsPositive, CountsCover,
                      NEW d \in Jobs, Dependencies[d] # <<>>, state[d] = "waiting"
               PROVE  \E m \in DependencySet(d) : state[m] # "done"
    BY DEF CompletedGroupReleases
  <2>1. Cardinality(Missing(state, d)) # 0
    BY MissingFinite DEF TypeOK, CountsPositive, CountsCover
  <2>2. Missing(state, d) # {}
    BY <2>1, FS_EmptySet
  <2> QED
    BY <2>2 DEF Missing
<1> QED
  BY <1>1, <1>2, <1>3, PTL DEF Spec

\* The step takes back no row that is done.
DoneStays == \A j \in Jobs : state[j] = "done" => state'[j] = "done"

\* No counter loses one for a row that was done already: a Set to Done or a
\* run_now() of such a row finds no barrier that still waits for others.
CountsOnce ==
    \A j \in Jobs : state[j] = "done" /\ (SetToDone(j) \/ RunNow(j)) => UNCHANGED count

\* A counter loses one only for a member that becomes done.
CountsNewMembers ==
    \A d \in Jobs : count'[d] # count[d]
        => \E m \in DependencySet(d) : state[m] # "done" /\ state'[m] = "done"

LEMMA CountedOnce ==
    ASSUME TypeOK, [Next]_vars, CountsOnce
    PROVE  CountsNewMembers
<1> SUFFICES ASSUME NEW d \in Jobs, count'[d] # count[d]
             PROVE  \E m \in DependencySet(d) : state[m] # "done" /\ state'[m] = "done"
  BY DEF CountsNewMembers
<1>1. PICK j \in Jobs : Succeed(j) \/ SetToDone(j) \/ RunNow(j)
  BY DEF Next, LeftAlone, Handled, Success, Start, Retry, Fail, FailStale,
         Requeue, SetToFailed, Cancel, vars
<1>2. state[j] # "done"
  BY <1>1 DEF CountsOnce, Succeed
<1>3. j \in DependencySet(d)
  BY <1>1 DEF Succeed, SetToDone, RunNow, SucceededCount, ReleasedCount, WaitingDependents, TypeOK
<1>4. Finishes(j)
  BY <1>1, SuccessFinishes, SetToDoneFinishes DEF Succeed, RunNow, TypeOK
<1>5. state'[j] = "done"
  BY <1>4, FinishMoves DEF MovesTo, TypeOK
<1> QED
  BY <1>2, <1>3, <1>5

\* What makes CounterIsExact inductive.
CounterInv == TypeOK /\ CountsPositive /\ CounterIsExact

LEMMA StepExact ==
    ASSUME DistinctMembers, CounterInv, [Next]_vars, DoneStays, CountsNewMembers
    PROVE  CounterInv'
<1> USE DEF CounterInv
<1>1. ASSUME NEW d \in Jobs, state'[d] = "waiting", Dependencies[d] # <<>>
      PROVE  count'[d] = Cardinality(Missing(state', d))
  <2>1. state[d] = "waiting"
    BY <1>1, MemberByMember
  <2>2. count[d] = Cardinality(Missing(state, d))
    BY <1>1, <2>1 DEF CounterIsExact, Missing
  <2>3. CASE count'[d] = count[d] /\ Missing(state, d) \subseteq Missing(state', d)
    <3>1. Missing(state', d) \subseteq Missing(state, d)
      BY DependencySetType DEF DoneStays, Missing
    <3>2. Missing(state', d) = Missing(state, d)
      BY <2>3, <3>1
    <3> QED
      BY <2>2, <2>3, <3>2
  <2>4. ASSUME NEW j \in Missing(state, d),
               count'[d] = count[d] - 1, Missing(state', d) = Missing(state, d) \ {j}
        PROVE  count'[d] = Cardinality(Missing(state', d))
    BY <2>2, <2>4, MissingFinite, FS_RemoveElement
  <2>5. CASE count'[d] = count[d] - 1 /\ Missing(state', d) = Missing(state, d)
    <3>1. count'[d] # count[d]
      BY <2>5 DEF TypeOK
    <3>2. PICK m \in DependencySet(d) : state[m] # "done" /\ state'[m] = "done"
      BY <3>1 DEF CountsNewMembers
    <3> QED
      BY <2>5, <3>2 DEF Missing
  <2> QED
    BY <1>1, <2>3, <2>4, <2>5, MemberByMember
<1>2. CounterIsExact'
  BY <1>1 DEF CounterIsExact, Missing, DependencySet
<1> QED
  BY <1>2, CountsStep

\* Left alone, a row that is done stays done and is not counted again.
LEMMA AloneDoneStays ==
    ASSUME TypeOK, [AutoNext]_vars
    PROVE  [Next]_vars /\ DoneStays /\ CountsNewMembers
<1>1. CASE UNCHANGED vars
  BY <1>1 DEF vars, DoneStays, CountsNewMembers
<1>2. ASSUME NEW j \in Jobs, LeftAlone(j)
      PROVE  DoneStays /\ CountsNewMembers
  <2>1. CASE Start(j) \/ Retry(j)
    BY <2>1 DEF Start, Retry, DoneStays, CountsNewMembers, TypeOK
  <2>2. CASE Succeed(j) \/ Fail(j) \/ FailStale(j)
    <3>1. state[j] = "started"
      BY <2>2 DEF Succeed, Fail, FailStale
    <3>2. MovesTo(state, state', j, "done") \/ MovesTo(state, state', j, "failed")
      BY <2>2, SucceededMoves, FailedForGoodMoves, FailedByReclaimMoves
         DEF Succeed, Fail, FailStale, TypeOK
    <3>3. DoneStays
      BY <3>1, <3>2 DEF MovesTo, DoneStays
    <3>4. CASE Succeed(j)
      <4>1. \A d \in Jobs : count'[d] # count[d] => j \in DependencySet(d)
        BY <3>4 DEF Succeed, SucceededCount, ReleasedCount, WaitingDependents, TypeOK
      <4>2. state'[j] = "done"
        BY <3>4, SucceededMoves DEF Succeed, MovesTo, TypeOK
      <4> QED
        BY <3>1, <3>3, <4>1, <4>2 DEF CountsNewMembers
    <3>5. CASE Fail(j) \/ FailStale(j)
      BY <3>3, <3>5 DEF Fail, FailStale, CountsNewMembers
    <3> QED
      BY <2>2, <3>4, <3>5
  <2> QED
    BY <1>2, <2>1, <2>2 DEF LeftAlone, Handled, Success
<1> QED
  BY <1>1, <1>2 DEF AutoNext, Next

\* pending_dependency_count of a waiting barrier is the number of members that
\* are not done, whatever fails, is retried or loses its worker, and whatever
\* buttons are pressed in whatever state, as long as no row that is done is
\* taken back or counted again (MCJobGraph_counts shows what a requeued member
\* does to its barrier).
THEOREM CounterExact ==
    ASSUME DistinctMembers
    PROVE  /\ AutoSpec => []CounterIsExact
           /\ Spec /\ [][DoneStays /\ CountsOnce]_vars => []CounterIsExact
<1>1. Init => CounterInv
  BY InitExact, CountsInit DEF CounterInv
<1>2. CounterInv /\ [Next]_vars /\ [DoneStays /\ CountsNewMembers]_vars => CounterInv'
  <2>1. UNCHANGED vars => DoneStays /\ CountsNewMembers
    BY DEF vars, DoneStays, CountsNewMembers
  <2> QED
    BY <2>1, StepExact
<1>3. CounterInv /\ [AutoNext]_vars => CounterInv'
  BY AloneDoneStays, StepExact DEF CounterInv
<1>4. CounterInv => CounterIsExact
  BY DEF CounterInv
<1>5. AutoSpec => []CounterIsExact
  BY <1>1, <1>3, <1>4, PTL DEF AutoSpec
<1>6. Spec /\ [][DoneStays /\ CountsOnce]_vars => []CounterIsExact
  <2>1. CounterInv /\ [Next]_vars /\ [DoneStays /\ CountsOnce]_vars => CounterInv'
    BY <1>2, CountedOnce DEF CounterInv
  <2> QED
    BY <1>1, <1>4, <2>1, PTL DEF Spec
<1> QED
  BY <1>5, <1>6
-----------------------------------------------------------------------------
(* Who is let go: success lets callbacks go, failure lets handlers go. *)

\* The last member of a barrier that is released is the one just done.
LEMMA LastMember ==
    ASSUME DistinctMembers, NEW st, NEW d \in Jobs, NEW j \in Missing(st, d),
           Cardinality(Missing(st, d)) <= 1
    PROVE  \A m \in DependencySet(d) \ {j} : st[m] = "done"
<1>1. IsFiniteSet(Missing(st, d) \ {j})
      /\ Cardinality(Missing(st, d) \ {j}) = Cardinality(Missing(st, d)) - 1
  BY MissingFinite, FS_RemoveElement
<1>2. Cardinality(Missing(st, d) \ {j}) \in Nat
  BY <1>1, FS_CardinalityType
<1>3. Cardinality(Missing(st, d) \ {j}) = 0
  BY <1>1, <1>2, MissingFinite
<1>4. Missing(st, d) \ {j} = {}
  BY <1>1, <1>3, FS_EmptySet
<1> QED
  BY <1>4 DEF Missing

\* Rows that a success makes pending are callbacks: of the job, or of a group
\* of which it is the last member to count.
LEMMA FinishLetsGo ==
    ASSUME TypeOK, NEW j \in Jobs, Finishes(j),
           NEW c \in Jobs, c # j, state[c] = "waiting", state'[c] = "pending"
    PROVE  /\ ~RunOnFailure[c]
           /\ \/ Parent[c] = j
              \/ j \in DependencySet(c) /\ count[c] - 1 <= 0 /\ count'[c] = count[c] - 1
<1>1. PICK mid \in [Jobs -> JobStates] :
        /\ \A i \in Jobs \ {j} : state[i] = "waiting" /\ mid[i] = "pending"
                => Parent[i] = j /\ ~RunOnFailure[i]
        /\ state' = DependentsOnSuccess(mid, count, j)
        /\ count' = ReleasedCount(mid, count, j)
  BY DEF Finishes
<1>2. CASE mid[c] = "pending"
  BY <1>1, <1>2
<1>3. CASE mid[c] # "pending"
  BY <1>1, <1>3 DEF DependentsOnSuccess, ReleasedCount, Move, WaitingDependents, Handlers
<1> QED
  BY <1>2, <1>3

\* Rows that a failure makes pending are handlers of a failed row.
LEMMA FailureLetsGo ==
    ASSUME NEW st \in [Jobs -> JobStates], NEW j \in Jobs,
           NEW c \in Jobs, c # j, st[c] = "waiting", FailedForGood(st, j)[c] = "pending"
    PROVE  RunOnFailure[c] /\ \E u \in Upstream(c) : FailedForGood(st, j)[u] = "failed"
<1> DEFINE s0           == [st EXCEPT ![j] = "failed"]
           callbacks(i) == WaitingChildren(s0, i) \ Handlers(WaitingChildren(s0, i))
           failed       == Closure(callbacks(j), callbacks)
           handlers     == UNION {Handlers(WaitingChildren(s0, i)) : i \in failed \cup {j}}
           plain        == {i \in Jobs : ~RunOnFailure[i]}
           mid          == ChildrenOnFailure(s0, j)
<1>1. s0 \in [Jobs -> JobStates] /\ s0[c] = "waiting" /\ s0[j] = "failed"
  BY DEF JobStates
<1>2. plain \in SUBSET Jobs /\ \A i : callbacks(i) \subseteq plain
  BY DEF WaitingChildren, Handlers
<1>3. failed \subseteq plain
  BY <1>2 DEF Closure
<1>4. OnlyWaitingMoves(s0, mid)
  BY <1>1, ChildrenOnFailureOnlyWaiting
<1>5. OnlyWaitingMoves(mid, DependentsOnFailure(mid, j))
  BY <1>4, DependentsOnFailureOnlyWaiting DEF OnlyWaitingMoves
<1>6. FailedForGood(st, j) = DependentsOnFailure(mid, j)
  BY DEF FailedForGood
<1>7. mid = Move(s0, handlers, failed, {})
  BY DEF ChildrenOnFailure
<1> HIDE DEF s0, failed, mid
<1>8. \A i \in handlers : RunOnFailure[i] /\ Parent[i] \in failed \cup {j}
  BY DEF Handlers, WaitingChildren
<1>9. \A i \in failed \cup {j} : i \in Jobs /\ mid[i] = "failed"
  <2>1. ASSUME NEW i \in failed PROVE mid[i] = "failed" /\ i \in Jobs
    BY <1>3, <1>7, <1>8 DEF Move
  <2>2. mid[j] = "failed"
    BY <1>1, <1>4 DEF OnlyWaitingMoves
  <2> QED
    BY <2>1, <2>2
<1>10. \A i \in failed \cup {j} : FailedForGood(st, j)[i] = "failed"
  BY <1>5, <1>6, <1>9 DEF OnlyWaitingMoves
<1>11. CASE mid[c] = "pending"
  <2>1. c \in handlers
    BY <1>1, <1>7, <1>11 DEF Move
  <2>2. Parent[c] \in Upstream(c)
    BY <1>8, <1>9, <2>1, WiringAssumption DEF Upstream
  <2> QED
    BY <1>8, <1>10, <2>1, <2>2
<1>12. CASE mid[c] # "pending"
  <2>1. c \in Handlers(WaitingDependents(mid, j))
    BY <1>6, <1>12 DEF DependentsOnFailure, Move
  <2>2. RunOnFailure[c] /\ j \in Upstream(c)
    BY <2>1 DEF Handlers, WaitingDependents, Upstream
  <2> QED
    BY <1>10, <2>2
<1> QED
  BY <1>11, <1>12

\* The reclaim path lets the same rows go, as far as it gets.
LEMMA ReclaimLetsGo ==
    ASSUME NEW st \in [Jobs -> JobStates], NEW j \in Jobs,
           NEW c \in Jobs, c # j, st[c] = "waiting", FailedByReclaim(st, j)[c] = "pending"
    PROVE  RunOnFailure[c] /\ j \in Upstream(c)
<1> DEFINE s0       == [st EXCEPT ![j] = "failed"]
           children == WaitingChildren(s0, j)
           mid      == Move(s0, Handlers(children), children \ Handlers(children), {})
<1>1. s0[c] = "waiting"
  OBVIOUS
<1>2. FailedByReclaim(st, j) = DependentsOnFailure(mid, j)
  BY DEF FailedByReclaim
<1> HIDE DEF s0
<1>3. CASE mid[c] = "pending"
  BY <1>1, <1>3, WiringAssumption DEF Move, Handlers, WaitingChildren, Upstream
<1>4. CASE mid[c] # "pending"
  <2> HIDE DEF mid
  <2>1. c \in Handlers(WaitingDependents(mid, j))
    BY <1>2, <1>4 DEF DependentsOnFailure, Move
  <2> QED
    BY <2>1 DEF Handlers, WaitingDependents, Upstream
<1> QED
  BY <1>3, <1>4

\* The step does not force a waiting row to pending: no Requeue of it, and no
\* run_now() of it that asks for a retry, which leaves the same.
NoWaitingRowForced == \A j \in Jobs : state[j] = "waiting" => ~Requeue(j)

LEMMA StepLetsGo ==
    ASSUME DistinctMembers, OneAxis, CounterInv, [Next]_vars, CountsNewMembers, NoWaitingRowForced,
           NEW c \in Jobs, state[c] = "waiting", state'[c] = "pending"
    PROVE  IF RunOnFailure[c]
           THEN \E u \in Upstream(c) : state'[u] = "failed"
           ELSE IF Dependencies[c] = <<>> THEN state'[Parent[c]] = "done"
                ELSE \A m \in DependencySet(c) : state'[m] = "done"
<1> USE DEF CounterInv, TypeOK
<1>1. CASE UNCHANGED vars
  BY <1>1 DEF vars
<1>2. ASSUME NEW j \in Jobs, Start(j) \/ Retry(j) \/ Requeue(j)
      PROVE  FALSE
  BY <1>2 DEF Start, Retry, Requeue, NoWaitingRowForced
<1>3. ASSUME NEW j \in Jobs, Fail(j) \/ SetToFailed(j)
      PROVE  RunOnFailure[c] /\ \E u \in Upstream(c) : state'[u] = "failed"
  <2>1. state' = FailedForGood(state, j) /\ state'[j] = "failed"
    BY <1>3, FailedForGoodMoves DEF Fail, SetToFailed, MovesTo
  <2> QED
    BY <2>1, FailureLetsGo
<1>4. ASSUME NEW j \in Jobs, FailStale(j)
      PROVE  RunOnFailure[c] /\ \E u \in Upstream(c) : state'[u] = "failed"
  <2>1. state' = FailedByReclaim(state, j) /\ state'[j] = "failed"
    BY <1>4, FailedByReclaimMoves DEF FailStale, MovesTo
  <2> QED
    BY <2>1, ReclaimLetsGo
<1>5. ASSUME NEW j \in Jobs, Cancel(j)
      PROVE  FALSE
  BY <1>5 DEF Cancel, Cancelled, Move
<1>6. ASSUME NEW j \in Jobs, Finishes(j)
      PROVE  /\ ~RunOnFailure[c]
             /\ Dependencies[c] = <<>> => state'[Parent[c]] = "done"
             /\ Dependencies[c] # <<>> => \A m \in DependencySet(c) : state'[m] = "done"
  <2>1. MovesTo(state, state', j, "done")
    BY <1>6, FinishMoves
  <2>2. j # c
    BY <2>1 DEF MovesTo
  <2>3. /\ ~RunOnFailure[c]
        /\ \/ Parent[c] = j
           \/ j \in DependencySet(c) /\ count[c] - 1 <= 0 /\ count'[c] = count[c] - 1
    BY <1>6, <2>2, FinishLetsGo
  <2>4. Dependencies[c] = <<>> => state'[Parent[c]] = "done"
    BY <2>1, <2>3 DEF MovesTo, DependencySet
  <2>5. ASSUME Dependencies[c] # <<>>, NEW m \in DependencySet(c)
        PROVE  state'[m] = "done"
    <3>0. j \in DependencySet(c) /\ count[c] <= 1 /\ count'[c] # count[c]
      BY <2>3, <2>5, WiringAssumption DEF OneAxis
    <3>1. state[j] # "done"
      BY <2>1, <3>0, DependencySetType DEF CountsNewMembers, MovesTo
    <3>2. j \in Missing(state, c) /\ count[c] = Cardinality(Missing(state, c))
      BY <2>5, <3>0, <3>1 DEF Missing, CounterIsExact
    <3>3. \A i \in DependencySet(c) \ {j} : state[i] = "done"
      BY <3>0, <3>2, LastMember
    <3> QED
      BY <2>1, <3>3, DependencySetType DEF MovesTo
  <2> QED
    BY <2>3, <2>4, <2>5
<1> QED
  BY <1>1, <1>2, <1>3, <1>4, <1>5, <1>6, StepKinds

\* Workers left alone force nobody.
LEMMA AloneNothingForced ==
    ASSUME TypeOK, [AutoNext]_vars
    PROVE  NoWaitingRowForced
<1> SUFFICES ASSUME NEW j \in Jobs, Requeue(j), state[j] = "waiting"
             PROVE  FALSE
  BY DEF NoWaitingRowForced
<1>1. state' = [state EXCEPT ![j] = "pending"]
  BY DEF Requeue
<1>2. PICK i \in Jobs : LeftAlone(i)
  BY <1>1 DEF AutoNext, vars, TypeOK
<1>3. state[i] \in {"pending", "started"} /\ state'[i] # state[i]
  <2>1. CASE Start(i) \/ Retry(i)
    BY <2>1 DEF Start, Retry, TypeOK
  <2>2. CASE Succeed(i)
    BY <2>2, SucceededMoves DEF Succeed, MovesTo, TypeOK
  <2>3. CASE Fail(i) \/ FailStale(i)
    BY <2>3, FailedForGoodMoves, FailedByReclaimMoves DEF Fail, FailStale, MovesTo, TypeOK
  <2> QED
    BY <1>2, <2>1, <2>2, <2>3 DEF LeftAlone, Handled, Success
<1> QED
  BY <1>1, <1>3 DEF TypeOK

\* Callbacks are let go by the success of what they wait for, failure handlers
\* by its failure, along both axes and through every depth of a chain: left
\* alone, and whatever buttons are pressed in whatever state as long as no row
\* that is done is taken back or counted again and no row that waits is requeued
\* or left pending by run_now().
THEOREM OutcomeReleases ==
    ASSUME DistinctMembers, OneAxis
    PROVE  /\ AutoSpec => RightOutcomeReleases
           /\ Spec /\ [][DoneStays /\ CountsOnce /\ NoWaitingRowForced]_vars => RightOutcomeReleases
<1> DEFINE LetGo(j) ==
             IF RunOnFailure[j]
             THEN \E u \in Upstream(j) : state'[u] = "failed"
             ELSE IF Dependencies[j] = <<>> THEN state'[Parent[j]] = "done"
                  ELSE \A m \in DependencySet(j) : state'[m] = "done"
           Right == \A j \in Jobs : state[j] = "waiting" /\ state'[j] = "pending" => LetGo(j)
<1>1. Init => CounterInv
  BY InitExact, CountsInit DEF CounterInv
<1>2. UNCHANGED vars => DoneStays /\ CountsNewMembers /\ Right
  BY DEF vars, DoneStays, CountsNewMembers
<1>3. ASSUME CounterInv, [Next]_vars, [DoneStays /\ CountsNewMembers /\ NoWaitingRowForced]_vars
      PROVE  CounterInv' /\ [Right]_vars
  BY <1>2, <1>3, StepExact, StepLetsGo
<1>4. ASSUME CounterInv, [AutoNext]_vars
      PROVE  CounterInv' /\ [Right]_vars
  BY <1>3, <1>4, AloneDoneStays, AloneNothingForced DEF CounterInv
<1>5. AutoSpec => RightOutcomeReleases
  BY <1>1, <1>4, PTL DEF AutoSpec, RightOutcomeReleases
<1>6. Spec /\ [][DoneStays /\ CountsOnce /\ NoWaitingRowForced]_vars => RightOutcomeReleases
  <2>1. ASSUME CounterInv, [Next]_vars, [DoneStays /\ CountsOnce /\ NoWaitingRowForced]_vars
        PROVE  CounterInv' /\ [Right]_vars
    BY <1>3, <2>1, CountedOnce DEF CounterInv
  <2> QED
    BY <1>1, <2>1, PTL DEF Spec, RightOutcomeReleases
<1> QED
  BY <1>5, <1>6

\* A group callback becomes pending only in the step that completes its last
\* member, on the same terms.
THEOREM BarrierWaits ==
    ASSUME DistinctMembers, OneAxis
    PROVE  /\ AutoSpec => BarrierWaitsForAll
           /\ Spec /\ [][DoneStays /\ CountsOnce /\ NoWaitingRowForced]_vars => BarrierWaitsForAll
<1>1. RightOutcomeReleases => BarrierWaitsForAll
  <2>1. [\A j \in Jobs : state[j] = "waiting" /\ state'[j] = "pending" =>
          IF RunOnFailure[j]
          THEN \E u \in Upstream(j) : state'[u] = "failed"
          ELSE IF Dependencies[j] = <<>> THEN state'[Parent[j]] = "done"
               ELSE \A m \in DependencySet(j) : state'[m] = "done"]_vars
        => [\A d \in Jobs :
              (~RunOnFailure[d] /\ Dependencies[d] # <<>> /\ state[d] = "waiting" /\ state'[d] = "pending")
                => \A m \in DependencySet(d) : state'[m] = "done"]_vars
    OBVIOUS
  <2> QED
    BY <2>1, PTL DEF RightOutcomeReleases, BarrierWaitsForAll
<1> QED
  BY <1>1, OutcomeReleases

-----------------------------------------------------------------------------
(* Nobody is stranded. *)

\* Groups are made of jobs that do not wait themselves.
PlainMembers ==
    \A d \in Jobs : Dependencies[d] # <<>> =>
        \A m \in DependencySet(d) : Parent[m] = NoJob /\ Dependencies[m] = <<>>

\* Nor is anything chained to their callbacks and handlers
\* (MCJobGraph_cross_failure and _cleanup show what happens otherwise).
PlainGroups ==
    /\ PlainMembers
    /\ \A d \in Jobs : Dependencies[d] # <<>> => \A c \in Jobs : Parent[c] # d

\* A success lets every child go: a row that still waits has a parent that the
\* cascade did not end.
LEMMA ChildrenOnSuccessLeaves ==
    ASSUME NEW st \in [Jobs -> JobStates], NEW j \in Jobs,
           NEW c \in Jobs, ChildrenOnSuccess(st, j)[c] = "waiting", Parent[c] \in Jobs
    PROVE  /\ Parent[c] # j
           /\ ChildrenOnSuccess(st, j)[Parent[c]] \in {"pending", st[Parent[c]]}
<1> DEFINE direct    == WaitingChildren(st, j)
           dropped   == Closure(Handlers(direct), LAMBDA i : WaitingChildren(st, i))
           p         == Parent[c]
<1>1. ChildrenOnSuccess(st, j) = Move(st, direct \ Handlers(direct), {}, dropped)
  BY DEF ChildrenOnSuccess
<1>2. Handlers(direct) \subseteq dropped
  BY DEF Closure, WaitingChildren, Handlers
<1>3. \A i \in dropped : WaitingChildren(st, i) \subseteq dropped
  BY DEF Closure, WaitingChildren
<1> HIDE DEF dropped
<1>4. c \notin direct /\ c \notin dropped /\ st[c] = "waiting"
  BY <1>1, <1>2 DEF Move
<1>5. p \notin dropped
  BY <1>3, <1>4 DEF WaitingChildren
<1>6. p # j
  BY <1>4 DEF WaitingChildren
<1>7. Move(st, direct \ Handlers(direct), {}, dropped)[p] \in {"pending", st[p]}
  BY <1>5 DEF Move
<1> QED
  BY <1>1, <1>6, <1>7

\* The same of a failure.
LEMMA ChildrenOnFailureLeaves ==
    ASSUME NEW st \in [Jobs -> JobStates], NEW j \in Jobs,
           NEW c \in Jobs, ChildrenOnFailure(st, j)[c] = "waiting", Parent[c] \in Jobs
    PROVE  /\ Parent[c] # j
           /\ ChildrenOnFailure(st, j)[Parent[c]] \in {"pending", st[Parent[c]]}
<1> DEFINE callbacks(i) == WaitingChildren(st, i) \ Handlers(WaitingChildren(st, i))
           failed       == Closure(callbacks(j), callbacks)
           handlers     == UNION {Handlers(WaitingChildren(st, i)) : i \in failed \cup {j}}
           p            == Parent[c]
<1>1. ChildrenOnFailure(st, j) = Move(st, handlers, failed, {})
  BY DEF ChildrenOnFailure
<1>2. callbacks(j) \subseteq failed
  BY DEF Closure, WaitingChildren
<1>3. \A i \in failed : callbacks(i) \subseteq failed
  BY DEF Closure, WaitingChildren
<1> HIDE DEF failed
<1>4. \A i \in failed \cup {j} : WaitingChildren(st, i) \subseteq failed \cup handlers
  BY <1>2, <1>3
<1> HIDE DEF handlers
<1>5. c \notin failed /\ c \notin handlers /\ st[c] = "waiting"
  BY <1>1 DEF Move
<1>6. p \notin failed /\ p # j
  BY <1>4, <1>5 DEF WaitingChildren
<1>7. Move(st, handlers, failed, {})[p] \in {"pending", st[p]}
  BY <1>6 DEF Move
<1> QED
  BY <1>1, <1>6, <1>7

\* On the dependency axis only barriers change.
LEMMA DependentsLeave ==
    ASSUME NEW st \in [Jobs -> JobStates], NEW cnt, NEW j \in Jobs,
           NEW p \in Jobs, Dependencies[p] = <<>>
    PROVE  DependentsOnSuccess(st, cnt, j)[p] = st[p] /\ DependentsOnFailure(st, j)[p] = st[p]
<1>1. p \notin WaitingDependents(st, j)
  BY DEF WaitingDependents, DependencySet
<1> QED
  BY <1>1 DEF DependentsOnSuccess, DependentsOnFailure, Move, Handlers

\* new reaches the children of every row it ended, of j among them: where a row
\* still waits, its parent is not j and has at most been let go.
Reaches(st, new, j) ==
    \A c \in Jobs : new[c] = "waiting" /\ Parent[c] # NoJob =>
        /\ st[c] = "waiting"
        /\ Parent[c] # j
        /\ new[Parent[c]] \in {"pending", st[Parent[c]]}

\* The parent axis first, then the dependency axis, which does not move the
\* parent of anybody.
LEMMA ReachesThrough ==
    ASSUME PlainGroups, NEW st, NEW j \in Jobs, NEW s0, NEW mid, NEW new,
           s0[j] # "waiting", \A i \in Jobs \ {j} : s0[i] = st[i],
           OnlyWaitingMoves(s0, mid), OnlyWaitingMoves(mid, new),
           \A p \in Jobs : Dependencies[p] = <<>> => new[p] = mid[p],
           \A c \in Jobs : mid[c] = "waiting" /\ Parent[c] \in Jobs =>
                Parent[c] # j /\ mid[Parent[c]] \in {"pending", s0[Parent[c]]}
    PROVE  Reaches(st, new, j)
<1> SUFFICES ASSUME NEW c \in Jobs, new[c] = "waiting", Parent[c] # NoJob
             PROVE  /\ st[c] = "waiting"
                    /\ Parent[c] # j
                    /\ new[Parent[c]] \in {"pending", st[Parent[c]]}
  BY DEF Reaches
<1>1. Parent[c] \in Jobs /\ Dependencies[Parent[c]] = <<>>
  BY WiringAssumption DEF PlainGroups
<1>2. mid[c] = "waiting"
  BY DEF OnlyWaitingMoves
<1>3. c # j /\ st[c] = "waiting"
  BY <1>2 DEF OnlyWaitingMoves
<1> QED
  BY <1>1, <1>2, <1>3

LEMMA SuccessReaches ==
    ASSUME PlainGroups, NEW st \in [Jobs -> JobStates], NEW cnt, NEW j \in Jobs
    PROVE  Reaches(st, Succeeded(st, cnt, j), j)
<1> DEFINE s0  == [st EXCEPT ![j] = "done"]
           mid == ChildrenOnSuccess(s0, j)
           new == DependentsOnSuccess(mid, cnt, j)
<1>1. s0 \in [Jobs -> JobStates] /\ s0[j] # "waiting" /\ \A i \in Jobs \ {j} : s0[i] = st[i]
  BY DEF JobStates
<1>2. OnlyWaitingMoves(s0, mid)
  BY <1>1, ChildrenOnSuccessOnlyWaiting
<1>3. \A c \in Jobs : mid[c] = "waiting" /\ Parent[c] \in Jobs =>
        Parent[c] # j /\ mid[Parent[c]] \in {"pending", s0[Parent[c]]}
  BY <1>1, ChildrenOnSuccessLeaves
<1>4. Succeeded(st, cnt, j) = new
  BY DEF Succeeded
<1> HIDE DEF mid
<1>5. mid \in [Jobs -> JobStates]
  BY <1>2 DEF OnlyWaitingMoves
<1>6. OnlyWaitingMoves(mid, new)
  BY <1>5, DependentsOnSuccessOnlyWaiting
<1>7. \A p \in Jobs : Dependencies[p] = <<>> => new[p] = mid[p]
  BY <1>5, DependentsLeave
<1> HIDE DEF s0, new
<1>8. Reaches(st, new, j)
  BY <1>1, <1>2, <1>3, <1>6, <1>7, ReachesThrough
<1> QED
  BY <1>4, <1>8

LEMMA FailureReaches ==
    ASSUME PlainGroups, NEW st \in [Jobs -> JobStates], NEW j \in Jobs
    PROVE  Reaches(st, FailedForGood(st, j), j)
<1> DEFINE s0  == [st EXCEPT ![j] = "failed"]
           mid == ChildrenOnFailure(s0, j)
           new == DependentsOnFailure(mid, j)
<1>1. s0 \in [Jobs -> JobStates] /\ s0[j] # "waiting" /\ \A i \in Jobs \ {j} : s0[i] = st[i]
  BY DEF JobStates
<1>2. OnlyWaitingMoves(s0, mid)
  BY <1>1, ChildrenOnFailureOnlyWaiting
<1>3. \A c \in Jobs : mid[c] = "waiting" /\ Parent[c] \in Jobs =>
        Parent[c] # j /\ mid[Parent[c]] \in {"pending", s0[Parent[c]]}
  BY <1>1, ChildrenOnFailureLeaves
<1>4. FailedForGood(st, j) = new
  BY DEF FailedForGood
<1> HIDE DEF mid
<1>5. mid \in [Jobs -> JobStates]
  BY <1>2 DEF OnlyWaitingMoves
<1>6. OnlyWaitingMoves(mid, new)
  BY <1>5, DependentsOnFailureOnlyWaiting
<1>7. \A p \in Jobs : Dependencies[p] = <<>> => new[p] = mid[p]
  BY <1>5, DependentsLeave
<1> HIDE DEF s0, new
<1>8. Reaches(st, new, j)
  BY <1>1, <1>2, <1>3, <1>6, <1>7, ReachesThrough
<1> QED
  BY <1>4, <1>8

\* A failing child of j has a row waiting for it: further than the reclaim
\* path's SQL gets.
Grandchildren(st, j) ==
    UNION {WaitingChildren(st, i) : i \in WaitingChildren(st, j) \ Handlers(WaitingChildren(st, j))}

LEMMA ReclaimReaches ==
    ASSUME PlainGroups, NEW st \in [Jobs -> JobStates], NEW j \in Jobs,
           st[j] # "waiting", Grandchildren(st, j) = {}
    PROVE  Reaches(st, FailedByReclaim(st, j), j)
<1> DEFINE s0       == [st EXCEPT ![j] = "failed"]
           children == WaitingChildren(s0, j)
           mid      == Move(s0, Handlers(children), children \ Handlers(children), {})
           new      == DependentsOnFailure(mid, j)
<1>1. s0 \in [Jobs -> JobStates] /\ s0[j] # "waiting" /\ \A i \in Jobs \ {j} : s0[i] = st[i]
  BY DEF JobStates
<1>2. \A i : WaitingChildren(s0, i) = WaitingChildren(st, i)
  BY DEF WaitingChildren
<1>3. children \subseteq Waiting(s0) /\ Handlers(children) \subseteq children
  BY DEF WaitingChildren, Waiting, Handlers
<1>4. OnlyWaitingMoves(s0, mid)
  BY <1>1, <1>3, MoveOnlyWaiting
<1>5. ASSUME NEW c \in Jobs, mid[c] = "waiting", Parent[c] \in Jobs
      PROVE  Parent[c] # j /\ mid[Parent[c]] \in {"pending", s0[Parent[c]]}
  <2>1. s0[c] = "waiting" /\ c \notin children
    BY <1>5 DEF Move
  <2>2. Parent[c] # j
    BY <2>1 DEF WaitingChildren
  <2>3. c \in WaitingChildren(s0, Parent[c])
    BY <2>1 DEF WaitingChildren
  <2>4. Parent[c] \notin children \ Handlers(children)
    BY <1>2, <2>3 DEF Grandchildren
  <2> QED
    BY <1>5, <2>2, <2>4 DEF Move
<1>6. FailedByReclaim(st, j) = new
  BY DEF FailedByReclaim
<1> HIDE DEF mid
<1>7. mid \in [Jobs -> JobStates]
  BY <1>4 DEF OnlyWaitingMoves
<1>8. OnlyWaitingMoves(mid, new)
  BY <1>7, DependentsOnFailureOnlyWaiting
<1>9. \A p \in Jobs : Dependencies[p] = <<>> => new[p] = mid[p]
  BY <1>7, DependentsLeave
<1> HIDE DEF s0, new
<1>10. Reaches(st, new, j)
  BY <1>1, <1>4, <1>5, <1>8, <1>9, ReachesThrough
<1> QED
  BY <1>6, <1>10

\* The cancellation leaves nobody waiting for a row it cancelled, on either
\* axis.
LEMMA CancelReaches ==
    ASSUME NEW st \in [Jobs -> JobStates], NEW j \in Jobs, st[j] \notin TerminalStates,
           NEW c \in Jobs, Cancelled(st, j)[c] = "waiting"
    PROVE  /\ st[c] = "waiting"
           /\ j \notin DependencySet(c)
           /\ Parent[c] \in Jobs => /\ Parent[c] # j
                                    /\ Cancelled(st, j)[Parent[c]] = st[Parent[c]]
<1> DEFINE after    == [st EXCEPT ![j] = "cancelled"]
           wired(i) == WaitingChildren(after, i) \cup WaitingDependents(after, i)
           gone     == Closure(wired(j), wired)
<1>1. Cancelled(st, j) = Move(after, {}, {}, gone)
  BY DEF Cancelled
<1>2. wired(j) \subseteq gone
  BY DEF Closure, WaitingChildren, WaitingDependents
<1>3. \A i \in gone : wired(i) \subseteq gone
  BY DEF Closure, WaitingChildren, WaitingDependents
<1> HIDE DEF gone
<1>4. c \notin gone /\ after[c] = "waiting"
  BY <1>1 DEF Move
<1>5. c # j /\ st[c] = "waiting"
  BY <1>4
<1>6. j \notin DependencySet(c) /\ Parent[c] # j
  BY <1>2, <1>4 DEF WaitingChildren, WaitingDependents
<1>7. ASSUME Parent[c] \in Jobs
      PROVE  Move(after, {}, {}, gone)[Parent[c]] = st[Parent[c]]
  <2>1. Parent[c] \notin gone
    BY <1>3, <1>4 DEF WaitingChildren
  <2> QED
    BY <1>6, <1>7, <2>1 DEF Move
<1> QED
  BY <1>1, <1>5, <1>6, <1>7

\* A barrier that a failure leaves waiting does not have the job as a member.
LEMMA FailureLeaves ==
    ASSUME NEW st \in [Jobs -> JobStates], NEW j \in Jobs, NEW d \in Jobs,
           FailedForGood(st, j)[d] = "waiting" \/ FailedByReclaim(st, j)[d] = "waiting"
    PROVE  j \notin DependencySet(d)
<1> DEFINE s0       == [st EXCEPT ![j] = "failed"]
           children == WaitingChildren(s0, j)
           next     == Move(s0, Handlers(children), children \ Handlers(children), {})
<1>1. s0 \in [Jobs -> JobStates] /\ children \subseteq Waiting(s0) /\ Handlers(children) \subseteq children
  BY DEF JobStates, WaitingChildren, Waiting, Handlers
<1>2. ChildrenOnFailure(s0, j) \in [Jobs -> JobStates] /\ next \in [Jobs -> JobStates]
  BY <1>1, ChildrenOnFailureOnlyWaiting, MoveOnlyWaiting DEF OnlyWaitingMoves
<1>3. PICK mid \in [Jobs -> JobStates] : DependentsOnFailure(mid, j)[d] = "waiting"
  BY <1>2 DEF FailedForGood, FailedByReclaim
<1>4. mid[d] = "waiting"
  BY <1>3, DependentsOnFailureOnlyWaiting DEF OnlyWaitingMoves
<1>5. d \notin WaitingDependents(mid, j)
  BY <1>3 DEF DependentsOnFailure, Move
<1> QED
  BY <1>4, <1>5 DEF WaitingDependents

-----------------------------------------------------------------------------
(* Barriers, under every button. *)

\* What makes NoStrandedBarrier inductive: members do not wait, a barrier with a
\* failed member does not either, and its counter is at most the number of
\* members that may still end.
GroupsOpen ==
    \A d \in Jobs, m \in Jobs : m \in DependencySet(d) =>
        /\ state[m] # "waiting"
        /\ state[d] = "waiting" => state[m] # "failed"

Live(st, d) == {m \in DependencySet(d) : st[m] \notin TerminalStates}

CountsLive ==
    \A d \in Jobs : state[d] = "waiting" /\ Dependencies[d] # <<>>
        => count[d] <= Cardinality(Live(state, d))

LEMMA LiveFinite ==
    ASSUME DistinctMembers, NEW st, NEW d \in Jobs
    PROVE  IsFiniteSet(Live(st, d)) /\ Cardinality(Live(st, d)) \in Nat
<1>1. Live(st, d) \in SUBSET DependencySet(d)
  BY DEF Live
<1> QED
  BY <1>1, DependencySetSize, FS_Subset, FS_CardinalityType

\* The step moves j alone, to pending or started.
MovesAlone(j) ==
    /\ \E s \in {"pending", "started"} : state' = [state EXCEPT ![j] = s]
    /\ UNCHANGED count

\* The step cancels j, which had ended: nobody hears of it.
Relabels(j) ==
    /\ state[j] \in TerminalStates
    /\ state' = [state EXCEPT ![j] = "cancelled"]
    /\ UNCHANGED count

\* The step ends j, and no barrier goes on waiting for it.
EndsForBarriers(j) ==
    \/ Finishes(j)
    \/ /\ MovesTo(state, state', j, "failed") \/ MovesTo(state, state', j, "cancelled")
       /\ \A d \in Jobs : state'[d] = "waiting" => j \notin DependencySet(d)
       /\ UNCHANGED count

LEMMA CancelKinds ==
    ASSUME TypeOK, NEW j \in Jobs, Cancel(j)
    PROVE  \/ Relabels(j)
           \/ /\ state[j] \notin TerminalStates
              /\ MovesTo(state, state', j, "cancelled")
              /\ \A c \in Jobs : state'[c] = "waiting" =>
                    /\ state[c] = "waiting" /\ j \notin DependencySet(c)
                    /\ Parent[c] \in Jobs => Parent[c] # j /\ state'[Parent[c]] = state[Parent[c]]
<1>0. state \in [Jobs -> JobStates] /\ state' = Cancelled(state, j) /\ UNCHANGED count
  BY DEF TypeOK, Cancel
<1>1. CASE state[j] \in TerminalStates
  <2>1. state' = [state EXCEPT ![j] = "cancelled"]
    BY <1>0, <1>1 DEF Cancelled, Move
  <2> QED
    BY <1>0, <1>1, <2>1 DEF Relabels
<1>2. CASE state[j] \notin TerminalStates
  BY <1>0, <1>2, CancelledMoves, CancelReaches
<1> QED
  BY <1>1, <1>2

LEMMA BarrierKinds ==
    ASSUME TypeOK, [Next]_vars
    PROVE  UNCHANGED vars \/ \E j \in Jobs : MovesAlone(j) \/ Relabels(j) \/ EndsForBarriers(j)
<1>0. state \in [Jobs -> JobStates]
  BY DEF TypeOK
<1>1. ASSUME NEW j \in Jobs, Start(j) \/ Retry(j) \/ Requeue(j)
      PROVE  MovesAlone(j)
  BY <1>1 DEF Start, Retry, Requeue, MovesAlone
<1>2. ASSUME NEW j \in Jobs, Fail(j) \/ SetToFailed(j) \/ FailStale(j)
      PROVE  EndsForBarriers(j)
  <2>1. state' = FailedForGood(state, j) \/ state' = FailedByReclaim(state, j)
    BY <1>2 DEF Fail, SetToFailed, FailStale
  <2>2. UNCHANGED count
    BY <1>2 DEF Fail, SetToFailed, FailStale
  <2>3. MovesTo(state, state', j, "failed")
    BY <1>0, <2>1, FailedForGoodMoves, FailedByReclaimMoves
  <2>4. \A d \in Jobs : state'[d] = "waiting" => j \notin DependencySet(d)
    BY <1>0, <2>1, FailureLeaves
  <2> QED
    BY <2>2, <2>3, <2>4 DEF EndsForBarriers
<1>3. ASSUME NEW j \in Jobs, Cancel(j)
      PROVE  Relabels(j) \/ EndsForBarriers(j)
  BY <1>3, CancelKinds DEF EndsForBarriers, Cancel
<1> QED
  BY <1>1, <1>2, <1>3, StepKinds DEF EndsForBarriers

LEMMA GroupsStep ==
    ASSUME TypeOK, GroupsOpen, [Next]_vars
    PROVE  GroupsOpen'
<1> SUFFICES ASSUME NEW d \in Jobs, NEW m \in Jobs, m \in DependencySet(d)
             PROVE  /\ state'[m] # "waiting"
                    /\ state'[d] = "waiting" => state'[m] # "failed"
  BY DEF GroupsOpen, DependencySet
<1>1. /\ state[m] # "waiting"
      /\ state[d] = "waiting" => state[m] # "failed"
  BY DEF GroupsOpen
<1>2. state'[d] = "waiting" => state[d] = "waiting"
  BY MemberByMember
<1>3. CASE UNCHANGED vars
  BY <1>1, <1>3 DEF vars
<1>4. ASSUME NEW j \in Jobs, MovesAlone(j) \/ Relabels(j)
      PROVE  /\ state'[m] # "waiting"
             /\ state'[d] = "waiting" => state'[m] # "failed"
  BY <1>1, <1>2, <1>4 DEF MovesAlone, Relabels, TypeOK
<1>5. ASSUME NEW j \in Jobs, EndsForBarriers(j)
      PROVE  /\ state'[m] # "waiting"
             /\ state'[d] = "waiting" => state'[m] # "failed"
  <2>1. \/ MovesTo(state, state', j, "done")
        \/ /\ MovesTo(state, state', j, "failed") \/ MovesTo(state, state', j, "cancelled")
           /\ state'[d] = "waiting" => j # m
    BY <1>5, FinishMoves DEF EndsForBarriers, TypeOK
  <2> QED
    BY <1>1, <1>2, <2>1 DEF MovesTo
<1> QED
  BY <1>3, <1>4, <1>5, BarrierKinds

\* A set loses one element at most with j.
LEMMA OneLess ==
    ASSUME NEW S, IsFiniteSet(S), NEW j
    PROVE  /\ Cardinality(S \ {j}) \in Nat
           /\ Cardinality(S \ {j}) >= Cardinality(S) - 1
<1>1. Cardinality(S) \in Nat
  BY FS_CardinalityType
<1>2. CASE j \in S
  <2>1. IsFiniteSet(S \ {j}) /\ Cardinality(S \ {j}) = Cardinality(S) - 1
    BY <1>2, FS_RemoveElement
  <2>2. Cardinality(S \ {j}) \in Nat
    BY <2>1, FS_CardinalityType
  <2> QED
    BY <1>1, <2>1, <2>2
<1>3. CASE j \notin S
  <2>1. S \ {j} = S
    BY <1>3
  <2> QED
    BY <1>1, <2>1
<1> QED
  BY <1>2, <1>3

\* One member more or less.
LEMMA LiveStep ==
    ASSUME DistinctMembers, TypeOK, GroupsOpen, CountsLive, [Next]_vars
    PROVE  CountsLive'
<1> SUFFICES ASSUME NEW d \in Jobs, state'[d] = "waiting", Dependencies[d] # <<>>
             PROVE  count'[d] <= Cardinality(Live(state', d))
  BY DEF CountsLive, Live, DependencySet
<1>1. state[d] = "waiting"
  BY MemberByMember
<1>2. /\ count[d] \in Nat /\ count[d] <= Cardinality(Live(state, d))
      /\ IsFiniteSet(Live(state, d)) /\ IsFiniteSet(Live(state', d))
      /\ Cardinality(Live(state, d)) \in Nat /\ Cardinality(Live(state', d)) \in Nat
  BY <1>1, LiveFinite DEF CountsLive, TypeOK
<1>3. ASSUME count'[d] = count[d], Live(state, d) \subseteq Live(state', d)
      PROVE  count'[d] <= Cardinality(Live(state', d))
  <2>1. Cardinality(Live(state, d)) <= Cardinality(Live(state', d))
    BY <1>2, <1>3, FS_Subset
  <2> QED
    BY <1>2, <1>3, <2>1
<1>4. CASE UNCHANGED vars
  BY <1>3, <1>4 DEF vars
<1>5. ASSUME NEW j \in Jobs, MovesAlone(j) \/ Relabels(j)
      PROVE  count'[d] <= Cardinality(Live(state', d))
  <2>1. count'[d] = count[d]
    BY <1>5 DEF MovesAlone, Relabels
  <2>2. \A m \in DependencySet(d) : state[m] \notin TerminalStates => state'[m] \notin TerminalStates
    BY <1>5, DependencySetType DEF MovesAlone, Relabels, TypeOK, TerminalStates
  <2> QED
    BY <1>3, <2>1, <2>2 DEF Live
<1>6. ASSUME NEW j \in Jobs, EndsForBarriers(j)
      PROVE  count'[d] <= Cardinality(Live(state', d))
  <2>0. \/ MovesTo(state, state', j, "done")
        \/ MovesTo(state, state', j, "failed") \/ MovesTo(state, state', j, "cancelled")
    BY <1>6, FinishMoves DEF EndsForBarriers, TypeOK
  <2>1. \A m \in DependencySet(d) \ {j} : state'[m] = state[m]
    BY <2>0, DependencySetType DEF MovesTo, GroupsOpen
  <2>2. CASE j \notin DependencySet(d)
    <3>1. count'[d] = count[d]
      BY <1>6, <2>2 DEF EndsForBarriers, Finishes, ReleasedCount, WaitingDependents
    <3>2. Live(state, d) = Live(state', d)
      BY <2>1, <2>2 DEF Live
    <3> QED
      BY <1>3, <3>1, <3>2
  <2>3. CASE j \in DependencySet(d)
    <3>1. Finishes(j)
      BY <1>6, <2>3 DEF EndsForBarriers
    <3>2. PICK mid \in [Jobs -> JobStates] :
            state' = DependentsOnSuccess(mid, count, j) /\ count' = ReleasedCount(mid, count, j)
      BY <3>1 DEF Finishes
    <3>3. mid[d] = "waiting"
      BY <3>2, DependentsOnSuccessOnlyWaiting DEF OnlyWaitingMoves
    <3>4. count'[d] = count[d] - 1
      BY <2>3, <3>2, <3>3 DEF ReleasedCount, WaitingDependents
    <3>5. Live(state, d) \ {j} \subseteq Live(state', d)
      BY <2>1 DEF Live
    <3>6. /\ Cardinality(Live(state, d) \ {j}) \in Nat
          /\ Cardinality(Live(state, d) \ {j}) >= Cardinality(Live(state, d)) - 1
      BY <1>2, OneLess
    <3>7. Cardinality(Live(state, d) \ {j}) <= Cardinality(Live(state', d))
      BY <1>2, <3>5, FS_Subset
    <3> QED
      BY <1>2, <3>4, <3>6, <3>7
  <2> QED
    BY <2>2, <2>3
<1> QED
  BY <1>4, <1>5, <1>6, BarrierKinds

BarrierInv == TypeOK /\ CountsPositive /\ GroupsOpen /\ CountsLive

LEMMA BarrierInit == ASSUME DistinctMembers, PlainMembers, Init PROVE BarrierInv
<1>1. ASSUME NEW d \in Jobs, NEW m \in Jobs, m \in DependencySet(d)
      PROVE  state[m] = "pending"
  <2>1. Dependencies[d] # <<>>
    BY <1>1 DEF DependencySet
  <2>2. Parent[m] = NoJob /\ Dependencies[m] = <<>>
    BY <1>1, <2>1 DEF PlainMembers
  <2> QED
    BY <2>2 DEF Init, InitialState
<1>2. GroupsOpen
  BY <1>1 DEF GroupsOpen
<1>3. ASSUME NEW d \in Jobs
      PROVE  count[d] <= Cardinality(Live(state, d))
  <2>1. Live(state, d) = DependencySet(d)
    BY <1>1, DependencySetType DEF Live, TerminalStates
  <2> QED
    BY <2>1, DependencySetSize, WiringAssumption DEF Init, InitialCount
<1>4. CountsLive
  BY <1>3 DEF CountsLive
<1> QED
  BY <1>2, <1>4, CountsInit DEF BarrierInv

LEMMA BarrierStep ==
    ASSUME DistinctMembers, BarrierInv, [Next]_vars
    PROVE  BarrierInv'
BY CountsStep, GroupsStep, LiveStep DEF BarrierInv

LEMMA LiveMeansNotStranded ==
    ASSUME DistinctMembers, TypeOK, CountsPositive, CountsLive
    PROVE  NoStrandedBarrier
<1> SUFFICES ASSUME NEW d \in Jobs, state[d] = "waiting", Dependencies[d] # <<>>
             PROVE  \E m \in DependencySet(d) : state[m] \notin TerminalStates
  BY DEF NoStrandedBarrier
<1>1. Cardinality(Live(state, d)) # 0
  BY LiveFinite DEF TypeOK, CountsPositive, CountsLive
<1>2. Live(state, d) # {}
  BY <1>1, FS_EmptySet
<1> QED
  BY <1>2 DEF Live

\* A barrier over jobs that do not wait themselves is never left waiting for
\* nobody: not by a worker or its death, not by any button on a row in any
\* state, pressed once or again.  What is chained to the members, the callback
\* or the handlers does not matter to it.
THEOREM GroupsNeverStranded ==
    ASSUME DistinctMembers, PlainMembers
    PROVE  (Spec => []NoStrandedBarrier) /\ (RetentionSpec => []NoStrandedBarrier)
<1>1. Init => BarrierInv
  BY BarrierInit
<1>2. BarrierInv /\ [Next]_vars => BarrierInv'
  BY BarrierStep
<1>3. BarrierInv => NoStrandedBarrier
  BY LiveMeansNotStranded DEF BarrierInv
<1> QED
  BY <1>1, <1>2, <1>3, RetentionIsGraph, PTL DEF Spec, RetentionSpec

-----------------------------------------------------------------------------
(* Rows on both axes. *)

\* The two cascades that do not go all the way: Set to Done leaves the rows
\* chained to j waiting (button_set_to_done), and the reclaim path stops at the
\* children of j (acquire_job_lock).
CutShort(j) ==
    \/ SetToDone(j) /\ WaitingChildren(state, j) # {}
    \/ FailStale(j) /\ Grandchildren(state, j) # {}

\* Every other step.
ReachingNext ==
    \E j \in Jobs :
        \/ Handled(j) \/ Requeue(j) \/ SetToFailed(j) \/ Cancel(j) \/ RunNow(j)
        \/ SetToDone(j) /\ WaitingChildren(state, j) = {}
        \/ FailStale(j) /\ Grandchildren(state, j) = {}

\* What NoStrandedRow says along the parent axis.
ParentsOpen ==
    \A c \in Jobs : state[c] = "waiting" /\ Parent[c] # NoJob => state[Parent[c]] \notin TerminalStates

LEMMA StepsReach ==
    ASSUME PlainGroups, TypeOK, [ReachingNext]_vars
    PROVE  \/ UNCHANGED vars
           \/ \E j \in Jobs : MovesAlone(j) \/ Relabels(j) \/ Reaches(state, state', j)
<1>0. state \in [Jobs -> JobStates]
  BY DEF TypeOK
<1>1. ASSUME NEW j \in Jobs, Start(j) \/ Retry(j) \/ Requeue(j)
      PROVE  MovesAlone(j)
  BY <1>1 DEF Start, Retry, Requeue, MovesAlone
<1>2. ASSUME NEW j \in Jobs, state' = Succeeded(state, count, j)
      PROVE  Reaches(state, state', j)
  BY <1>0, <1>2, SuccessReaches
<1>3. ASSUME NEW j \in Jobs, RunNow(j)
      PROVE  MovesAlone(j) \/ Reaches(state, state', j)
  BY <1>2, <1>3 DEF RunNow, MovesAlone
<1>4. ASSUME NEW j \in Jobs, Fail(j) \/ SetToFailed(j)
      PROVE  Reaches(state, state', j)
  <2>1. state' = FailedForGood(state, j)
    BY <1>4 DEF Fail, SetToFailed
  <2> QED
    BY <1>0, <2>1, FailureReaches
<1>5. ASSUME NEW j \in Jobs, FailStale(j), Grandchildren(state, j) = {}
      PROVE  Reaches(state, state', j)
  <2>1. state' = FailedByReclaim(state, j) /\ state[j] # "waiting"
    BY <1>5 DEF FailStale
  <2> QED
    BY <1>0, <1>5, <2>1, ReclaimReaches
<1>6. ASSUME NEW j \in Jobs, Cancel(j)
      PROVE  Relabels(j) \/ Reaches(state, state', j)
  BY <1>6, CancelKinds, WiringAssumption DEF Reaches
<1>7. ASSUME NEW j \in Jobs, SetToDone(j), WaitingChildren(state, j) = {}
      PROVE  Reaches(state, state', j)
  <2> DEFINE s0 == [state EXCEPT ![j] = "done"]
  <2>1. /\ s0 \in [Jobs -> JobStates] /\ OnlyWaitingMoves(s0, s0)
        /\ s0[j] # "waiting" /\ \A i \in Jobs \ {j} : s0[i] = state[i]
    BY <1>0 DEF JobStates, OnlyWaitingMoves
  <2>2. state' = DependentsOnSuccess(s0, count, j)
    BY <1>7 DEF SetToDone
  <2>3. \A c \in Jobs : s0[c] = "waiting" /\ Parent[c] \in Jobs =>
          Parent[c] # j /\ s0[Parent[c]] \in {"pending", s0[Parent[c]]}
    BY <1>7 DEF WaitingChildren
  <2> HIDE DEF s0
  <2>4. OnlyWaitingMoves(s0, state')
    BY <2>1, <2>2, DependentsOnSuccessOnlyWaiting
  <2>5. \A p \in Jobs : Dependencies[p] = <<>> => state'[p] = s0[p]
    BY <2>1, <2>2, DependentsLeave
  <2> QED
    BY <2>1, <2>3, <2>4, <2>5, ReachesThrough
<1> QED
  BY <1>1, <1>2, <1>3, <1>4, <1>5, <1>6, <1>7 DEF ReachingNext, Handled, Success, Succeed

LEMMA ParentsStep ==
    ASSUME PlainGroups, TypeOK, ParentsOpen, [ReachingNext]_vars
    PROVE  ParentsOpen'
<1> SUFFICES ASSUME NEW c \in Jobs, state'[c] = "waiting", Parent[c] # NoJob
             PROVE  state'[Parent[c]] \notin TerminalStates
  BY DEF ParentsOpen
<1>1. Parent[c] \in Jobs
  BY WiringAssumption
<1>2. CASE UNCHANGED vars
  BY <1>2 DEF vars, ParentsOpen
<1>3. ASSUME NEW j \in Jobs, MovesAlone(j) \/ Relabels(j)
      PROVE  state'[Parent[c]] \notin TerminalStates
  BY <1>1, <1>3 DEF MovesAlone, Relabels, ParentsOpen, TypeOK, TerminalStates
<1>4. ASSUME NEW j \in Jobs, Reaches(state, state', j)
      PROVE  state'[Parent[c]] \notin TerminalStates
  BY <1>1, <1>4 DEF Reaches, ParentsOpen, TerminalStates
<1> QED
  BY <1>2, <1>3, <1>4, StepsReach

\* Only wired rows wait.
OnlyWiredWait == \A j \in Jobs : state[j] = "waiting" => Parent[j] # NoJob \/ Dependencies[j] # <<>>

OpenInv == BarrierInv /\ ParentsOpen /\ OnlyWiredWait

LEMMA OpenMeansNotStranded ==
    ASSUME DistinctMembers, OpenInv
    PROVE  NoStrandedRow /\ FailureReachesCallbacks
<1> USE DEF OpenInv, BarrierInv
<1>1. ASSUME NEW j \in Jobs, state[j] = "waiting"
      PROVE  /\ \A u \in Upstream(j) : state[u] # "failed"
             /\ \E u \in Upstream(j) : state[u] \notin TerminalStates
  <2>1. \A u \in Upstream(j) : state[u] # "failed"
    BY <1>1, DependencySetType DEF Upstream, GroupsOpen, ParentsOpen, TerminalStates
  <2>2. CASE Parent[j] # NoJob
    BY <1>1, <2>1, <2>2 DEF Upstream, ParentsOpen
  <2>3. CASE Dependencies[j] # <<>>
    BY <1>1, <2>1, <2>3, LiveMeansNotStranded DEF Upstream, NoStrandedBarrier
  <2> QED
    BY <1>1, <2>2, <2>3 DEF OnlyWiredWait
<1>2. NoStrandedRow
  BY <1>1 DEF NoStrandedRow
<1>3. FailureReachesCallbacks
  BY <1>1 DEF FailureReachesCallbacks
<1> QED
  BY <1>2, <1>3

LEMMA OpenInit == ASSUME DistinctMembers, PlainGroups, Init PROVE OpenInv
<1>1. ParentsOpen /\ OnlyWiredWait
  BY WiringAssumption DEF Init, InitialState, ParentsOpen, OnlyWiredWait, TerminalStates
<1> QED
  BY <1>1, BarrierInit DEF OpenInv, PlainGroups

LEMMA OpenStep ==
    ASSUME DistinctMembers, PlainGroups, OpenInv, [ReachingNext]_vars
    PROVE  OpenInv'
<1> USE DEF OpenInv
<1>1. [Next]_vars
  BY DEF ReachingNext, Next, LeftAlone
<1>2. BarrierInv'
  BY <1>1, BarrierStep
<1>3. OnlyWiredWait'
  BY <1>1, MemberByMember DEF OnlyWiredWait, BarrierInv
<1>4. ParentsOpen'
  BY ParentsStep DEF BarrierInv
<1> QED
  BY <1>2, <1>3, <1>4

\* A row that a step has made done has no child that still waits.
LEMMA StepReachesChildren ==
    ASSUME PlainGroups, TypeOK, [ReachingNext]_vars, NEW c \in Jobs, state[c] = "waiting",
           Parent[c] # NoJob, state[Parent[c]] # "done", state'[Parent[c]] = "done"
    PROVE  state'[c] # "waiting"
<1>1. Parent[c] \in Jobs
  BY WiringAssumption
<1>2. ASSUME NEW j \in Jobs, MovesAlone(j) \/ Relabels(j)
      PROVE  FALSE
  BY <1>1, <1>2 DEF MovesAlone, Relabels, TypeOK
<1>3. ASSUME NEW j \in Jobs, Reaches(state, state', j)
      PROVE  state'[c] # "waiting"
  BY <1>3 DEF Reaches
<1> QED
  BY <1>2, <1>3, StepsReach DEF vars

LEMMA ReachingKeepsPromises ==
    ASSUME DistinctMembers, PlainGroups
    PROVE  Init /\ [][ReachingNext]_vars =>
              []NoStrandedRow /\ []FailureReachesCallbacks /\ SuccessReachesChildren
<1>1. Init => OpenInv
  BY OpenInit
<1>2. OpenInv /\ [ReachingNext]_vars => OpenInv'
  BY OpenStep
<1>3. OpenInv => NoStrandedRow /\ FailureReachesCallbacks
  BY OpenMeansNotStranded
<1>4. OpenInv /\ [ReachingNext]_vars =>
        [\A j \in Jobs : state[j] = "waiting" /\ Parent[j] # NoJob /\ state[Parent[j]] # "done"
            /\ state'[Parent[j]] = "done" => state'[j] # "waiting"]_vars
  BY StepReachesChildren DEF OpenInv, BarrierInv
<1> QED
  BY <1>1, <1>2, <1>3, <1>4, PTL DEF SuccessReachesChildren

\* Two kinds of step strand rows, and no others do, whatever the workers do and
\* whichever buttons are pressed on rows in whatever state: Set to Done of a row
\* that others are chained to, and the reclaim of an exhausted row whose failing
\* child has children.  Without them a failure also reaches every callback and
\* a success every child (MCJobGraph_set_done and MCJobGraph_reclaim show one
\* step of each kind).
THEOREM OnlyCutCascadesStrand ==
    ASSUME DistinctMembers, PlainGroups
    PROVE  Spec /\ [][\A j \in Jobs : ~CutShort(j)]_vars
              => []NoStrandedRow /\ []FailureReachesCallbacks /\ SuccessReachesChildren
<1>1. [Next]_vars /\ [\A j \in Jobs : ~CutShort(j)]_vars => [ReachingNext]_vars
  BY DEF Next, LeftAlone, ReachingNext, CutShort
<1> QED
  BY <1>1, ReachingKeepsPromises, PTL DEF Spec

\* While every failure is handled by a worker, a waiting row has an upstream
\* row that has not ended: the walks over children and the counters together
\* reach everybody who waits.  Where chains have two links at most, this holds
\* whatever workers die.
THEOREM NoRowStranded ==
    ASSUME DistinctMembers, PlainGroups
    PROVE  /\ HandledSpec => []NoStrandedRow
           /\ (\A c \in Jobs : Parent[c] \in Jobs => Parent[Parent[c]] = NoJob)
                => (AutoSpec => []NoStrandedRow)
<1>1. [HandledNext]_vars => [ReachingNext]_vars
  BY DEF HandledNext, ReachingNext
<1>2. ASSUME \A c \in Jobs : Parent[c] \in Jobs => Parent[Parent[c]] = NoJob
      PROVE  [AutoNext]_vars => [ReachingNext]_vars
  <2>1. \A j \in Jobs : \A i \in WaitingChildren(state, j) : WaitingChildren(state, i) = {}
    BY <1>2, WiringAssumption DEF WaitingChildren
  <2>2. \A j \in Jobs : Grandchildren(state, j) = {}
    BY <2>1 DEF Grandchildren
  <2> QED
    BY <2>2 DEF AutoNext, LeftAlone, ReachingNext
<1>3. HandledSpec => []NoStrandedRow
  BY <1>1, ReachingKeepsPromises, PTL DEF HandledSpec
<1>4. ASSUME \A c \in Jobs : Parent[c] \in Jobs => Parent[Parent[c]] = NoJob
      PROVE  AutoSpec => []NoStrandedRow
  BY <1>2, <1>4, ReachingKeepsPromises, PTL DEF AutoSpec
<1> QED
  BY <1>3, <1>4

-----------------------------------------------------------------------------
(* Retention. *)

\* A row that a success cancels is a handler among the children, somebody the
\* walk finds below one, or the handler of a group that it completes.
LEMMA SuccessStamps ==
    ASSUME NEW st \in [Jobs -> JobStates], NEW cnt, NEW j \in Jobs, NEW i \in Jobs \ {j},
           st[i] # "cancelled", Succeeded(st, cnt, j)[i] = "cancelled"
    PROVE  LET done == [st EXCEPT ![j] = "done"]
           IN  i \in StampedHandlers(done, j) \cup StampedDescendants(done, j)
                        \cup StampedBarriers(ChildrenOnSuccess(done, j), cnt, j)
<1> DEFINE done   == [st EXCEPT ![j] = "done"]
           direct == WaitingChildren(done, j)
           next(k) == WaitingChildren(done, k)
           walked == Closure(Handlers(direct), next)
           mid    == ChildrenOnSuccess(done, j)
           found  == Handlers(direct) \cup UNION {next(k) : k \in walked}
<1>1. mid = Move(done, direct \ Handlers(direct), {}, walked)
  BY DEF ChildrenOnSuccess
<1>2. Handlers(direct) \subseteq walked /\ \A k \in walked : next(k) \subseteq walked
  BY DEF Closure, WaitingChildren, Handlers
<1>3. found \in SUBSET Jobs
  BY DEF WaitingChildren, Handlers
<1>4. \A k \in found : next(k) \subseteq found
  BY <1>2
<1>5. walked \subseteq found
  BY <1>3, <1>4 DEF Closure
<1>6. Succeeded(st, cnt, j) = DependentsOnSuccess(mid, cnt, j)
  BY DEF Succeeded
<1>7. StampedHandlers(done, j) = Handlers(direct)
  BY DEF StampedHandlers
<1>8. StampedDescendants(done, j) = UNION {next(k) : k \in walked}
  BY DEF StampedDescendants, StampedHandlers
<1>9. done[i] # "cancelled"
  OBVIOUS
<1> HIDE DEF walked
<1>10. CASE mid[i] = "cancelled"
  <2>1. i \in walked
    BY <1>1, <1>9, <1>10 DEF Move
  <2> QED
    BY <1>5, <1>7, <1>8, <2>1
<1>11. CASE mid[i] # "cancelled"
  <2> HIDE DEF mid
  <2>1. i \in StampedBarriers(mid, cnt, j)
    BY <1>6, <1>11 DEF DependentsOnSuccess, Move, StampedBarriers
  <2> QED
    BY <2>1 DEF mid
<1> QED
  BY <1>10, <1>11

\* A row that Set to Done cancels is the handler of a group that it completes.
LEMMA DoneStamps ==
    ASSUME NEW st, NEW cnt, NEW j \in Jobs, NEW i \in Jobs,
           st[i] # "cancelled", DependentsOnSuccess(st, cnt, j)[i] = "cancelled"
    PROVE  i \in StampedBarriers(st, cnt, j)
BY DEF DependentsOnSuccess, Move, StampedBarriers

\* A row that a cancellation takes along was reached along one of the axes.
LEMMA CancelStamps ==
    ASSUME NEW st \in [Jobs -> JobStates], NEW j \in Jobs, NEW i \in Jobs \ {j},
           st[i] # "cancelled", Cancelled(st, j)[i] = "cancelled"
    PROVE  LET after == [st EXCEPT ![j] = "cancelled"]
           IN  /\ st[j] \notin TerminalStates
               /\ i \in StampedCancelledChildren(after, j) \cup StampedCancelledDependents(after, j)
<1> DEFINE after    == [st EXCEPT ![j] = "cancelled"]
           wired(k) == WaitingChildren(after, k) \cup WaitingDependents(after, k)
           gone     == Closure(wired(j), wired)
           found    == UNION {wired(k) : k \in gone \cup {j}}
<1>1. after[i] # "cancelled"
  OBVIOUS
<1>2. st[j] \notin TerminalStates /\ i \in gone
  BY <1>1 DEF Cancelled, Move
<1>3. wired(j) \subseteq gone /\ \A k \in gone : wired(k) \subseteq gone
  BY DEF Closure, WaitingChildren, WaitingDependents
<1>4. found \in SUBSET Jobs
  BY DEF WaitingChildren, WaitingDependents
<1>5. wired(j) \subseteq found /\ \A k \in found : wired(k) \subseteq found
  BY <1>3
<1>6. gone \subseteq found
  BY <1>4, <1>5 DEF Closure
<1>7. CancelWalk(after, j) = gone \cup {j}
  BY DEF CancelWalk
<1>8. PICK k \in CancelWalk(after, j) : i \in wired(k)
  BY <1>2, <1>6, <1>7
<1> HIDE DEF gone, after
<1>9. i \in StampedCancelledChildren(after, j) \cup StampedCancelledDependents(after, j)
  BY <1>8 DEF StampedCancelledChildren, StampedCancelledDependents
<1> QED
  BY <1>2, <1>9 DEF after

\* A failure cancels nobody.
LEMMA FailureCancelsNobody ==
    ASSUME NEW st \in [Jobs -> JobStates], NEW j \in Jobs, NEW i \in Jobs,
           FailedForGood(st, j)[i] = "cancelled" \/ FailedByReclaim(st, j)[i] = "cancelled"
    PROVE  st[i] = "cancelled"
<1> DEFINE s0       == [st EXCEPT ![j] = "failed"]
           children == WaitingChildren(s0, j)
           mid      == Move(s0, Handlers(children), children \ Handlers(children), {})
<1>1. ASSUME NEW t, DependentsOnFailure(t, j)[i] = "cancelled"
      PROVE  t[i] = "cancelled"
  BY <1>1 DEF DependentsOnFailure, Move
<1>2. ChildrenOnFailure(s0, j)[i] = "cancelled" => s0[i] = "cancelled"
  BY DEF ChildrenOnFailure, Move
<1>3. mid[i] = "cancelled" => s0[i] = "cancelled"
  BY DEF Move
<1>4. s0[i] = "cancelled" => st[i] = "cancelled"
  OBVIOUS
<1> QED
  BY <1>1, <1>2, <1>3, <1>4 DEF FailedForGood, FailedByReclaim

\* Inductive: no cascade makes a row done, and each of those that cancel rows
\* stamps them all.
RetentionInv ==
    /\ state \in [Jobs -> JobStates]
    /\ DoneAndCancelledCollectable

LEMMA RetentionStep ==
    ASSUME RetentionInv, [RetentionNext]_retentionVars
    PROVE  RetentionInv'
<1> USE DEF RetentionInv, DoneAndCancelledCollectable, Collectable
<1>1. CASE UNCHANGED retentionVars
  BY <1>1 DEF retentionVars
<1>2. ASSUME NEW j \in Jobs, IsFinalized(j) \/ IsRunByHand(j)
      PROVE  RetentionInv'
  <2>1. state' = Succeeded(state, count, j)
    BY <1>2 DEF IsFinalized, Succeed, IsRunByHand, RunNow
  <2>2. MovesTo(state, state', j, "done")
    BY <2>1, SucceededMoves
  <2>3. j \in completed' /\ completed \subseteq completed' /\ cancelled \subseteq cancelled'
    BY <1>2 DEF IsFinalized, IsRunByHand, Completes
  <2>4. ASSUME NEW i \in Jobs \ {j}, state[i] # "cancelled", state'[i] = "cancelled"
        PROVE  i \in cancelled'
    BY <1>2, <2>1, <2>4, SuccessStamps DEF IsFinalized, IsRunByHand, Completes
  <2> QED
    BY <2>2, <2>3, <2>4 DEF MovesTo
<1>3. ASSUME NEW j \in Jobs, IsSetToDone(j)
      PROVE  RetentionInv'
  <2> DEFINE done == [state EXCEPT ![j] = "done"]
  <2>1. state' = DependentsOnSuccess(done, count, j)
    BY <1>3 DEF IsSetToDone, SetToDone
  <2>2. MovesTo(state, state', j, "done")
    BY <2>1, DoneMoves
  <2>3. j \in completed' /\ completed \subseteq completed' /\ cancelled \subseteq cancelled'
    BY <1>3 DEF IsSetToDone
  <2>4. ASSUME NEW i \in Jobs \ {j}, state[i] # "cancelled", state'[i] = "cancelled"
        PROVE  i \in cancelled'
    <3>1. done[i] # "cancelled"
      BY <2>4
    <3> HIDE DEF done
    <3>2. i \in StampedBarriers(done, count, j)
      BY <2>1, <2>4, <3>1, DoneStamps
    <3> QED
      BY <1>3, <3>2 DEF IsSetToDone, done
  <2> QED
    BY <2>2, <2>3, <2>4 DEF MovesTo
<1>4. ASSUME NEW j \in Jobs, IsFailed(j)
      PROVE  RetentionInv'
  <2>1. MovesTo(state, state', j, "failed")
    BY <1>4, FailedForGoodMoves, FailedByReclaimMoves DEF IsFailed, Fail, FailStale, SetToFailed
  <2>2. ASSUME NEW i \in Jobs, state'[i] = "cancelled"
        PROVE  state[i] = "cancelled"
    BY <1>4, <2>1, <2>2, FailureCancelsNobody DEF IsFailed, Fail, FailStale, SetToFailed
  <2> QED
    BY <1>4, <2>1, <2>2 DEF IsFailed, MovesTo
<1>5. ASSUME NEW j \in Jobs, IsCancelled(j)
      PROVE  RetentionInv'
  <2>1. state' = Cancelled(state, j)
    BY <1>5 DEF IsCancelled, Cancel
  <2>2. MovesTo(state, state', j, "cancelled")
    BY <2>1, CancelledMoves
  <2>3. j \in cancelled' /\ cancelled \subseteq cancelled' /\ UNCHANGED completed
    BY <1>5 DEF IsCancelled
  <2>4. ASSUME NEW i \in Jobs \ {j}, state[i] # "cancelled", state'[i] = "cancelled"
        PROVE  i \in cancelled'
    BY <1>5, <2>1, <2>4, CancelStamps DEF IsCancelled
  <2> QED
    BY <2>2, <2>3, <2>4 DEF MovesTo
<1>6. ASSUME NEW j \in Jobs, Goes(j)
      PROVE  RetentionInv'
  <2>1. state' = [state EXCEPT ![j] = "started"] \/ state' = [state EXCEPT ![j] = "pending"]
    <3>1. CASE Start(j) \/ Retry(j)
      BY <3>1 DEF Start, Retry
    <3>2. CASE RunNow(j) /\ state'[j] = "pending"
      BY <3>2, SucceededMoves DEF RunNow, MovesTo
    <3> QED
      BY <1>6, <3>1, <3>2 DEF Goes
  <2> QED
    BY <1>6, <2>1 DEF Goes, JobStates
<1>7. ASSUME NEW j \in Jobs, IsRequeued(j)
      PROVE  RetentionInv'
  BY <1>7 DEF IsRequeued, Requeue, JobStates
<1> QED
  BY <1>1, <1>2, <1>3, <1>4, <1>5, <1>6, <1>7 DEF RetentionNext

\* _gc_old_jobs() leaves no done and no cancelled row behind, whatever the
\* workers, the cascades and the operator's buttons do (it can leave failed
\* ones: MCJobRetention_failed_kept.cfg).
THEOREM RetentionHolds == RetentionSpec => []DoneAndCancelledCollectable
<1>1. RetentionInit => RetentionInv
  BY DEF RetentionInit, Init, InitialState, RetentionInv, JobStates, DoneAndCancelledCollectable,
     Collectable
<1>2. RetentionInv /\ [RetentionNext]_retentionVars => RetentionInv'
  BY RetentionStep
<1>3. RetentionInv => DoneAndCancelledCollectable
  BY DEF RetentionInv
<1> QED
  BY <1>1, <1>2, <1>3, PTL DEF RetentionSpec
=============================================================================
