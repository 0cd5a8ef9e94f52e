-------------------------- MODULE WorkerLoopProofs --------------------------
(***************************************************************************)
(* Theorems about WorkerLoop for every interval, limit and pool size:      *)
(* what the cached gate still guarantees to the jobs that are taken.       *)
(***************************************************************************)
EXTENDS WorkerLoop, TLAPS

\* The gate's last answer is as old as the change it did not see, while it is
\* cached.  An acquisition began with a cached answer.
GateInv ==
    /\ gateOpen /\ change # "none"
         => change = "unseen" /\ (probeAge < Interval => changeAge <= probeAge)
    /\ pc \in {"load", "registry", "drain", "acquire"} => gateOpen
    /\ pc = "acquire" /\ change # "none" => changeAge < Interval + acquireAge

\* A change that was seen is paid for before the drain.
ReloadInv ==
    /\ ~Starting => wasOpen = gateOpen
    /\ registry = "owed" /\ gateOpen /\ ~Starting
         => pc = "registry" /\ checkAge = RegInterval

\* A job is looked for only while a slot is free.
SlotInv == TypeOK /\ (pc = "acquire" => active < Concurrency)

LEMMA OlderIsClock ==
    ASSUME NEW limit \in Nat, NEW age \in Clock(limit)
    PROVE  Older(age, limit) \in Clock(limit)
BY LoopAssumption DEF Older, Clock

LEMMA OlderCounts ==
    ASSUME NEW limit \in Nat, NEW age \in 0..limit
    PROVE  /\ Older(age, limit) \in 0..limit
           /\ Older(age, limit) = IF age < limit THEN age + 1 ELSE limit
BY LoopAssumption DEF Older

\* One consultation of the gate: the types it leaves, and an open answer that
\* is not yet due for a new probe.
LEMMA ConsultTypes ==
    ASSUME TypeOK, Consult
    PROVE  /\ gateOpen' \in BOOLEAN /\ probeAge' \in 0..Interval
           /\ closedAge' \in Clock(Overdue) /\ change' \in Changes
<1>1. IsOpen \in BOOLEAN
  BY DEF IsOpen, TypeOK
<1>2. ClosedSince \in Clock(Overdue)
  BY LoopAssumption DEF ClosedSince, Clock, TypeOK
<1> QED
  BY <1>1, <1>2, LoopAssumption DEF Consult, TypeOK, Changes

LEMMA ConsultGate ==
    ASSUME TypeOK, GateInv, Consult, changeAge' = changeAge
    PROVE  /\ gateOpen' /\ change' # "none"
                => change' = "unseen" /\ (probeAge' < Interval => changeAge' <= probeAge')
           /\ IsOpen => gateOpen' /\ probeAge' < Interval
<1>1. CASE ProbeDue
  <2>1. probeAge' = 0 /\ gateOpen' = IsOpen
    BY <1>1 DEF Consult
  <2>2. 0 < Interval
    BY LoopAssumption
  <2>3. CASE IsOpen
    <3>1. change' = "none"
      BY <1>1, <2>3 DEF Consult, IsOpen
    <3> QED
      BY <2>1, <2>2, <2>3, <3>1
  <2>4. CASE ~IsOpen
    BY <2>1, <2>4
  <2> QED
    BY <2>3, <2>4
<1>2. CASE ~ProbeDue
  BY <1>2, LoopAssumption DEF Consult, IsOpen, ProbeDue, GateInv, TypeOK
<1> QED
  BY <1>1, <1>2

-----------------------------------------------------------------------------
\* Every variable keeps its type: no clock passes the limit it is compared
\* with, and no more jobs are active than the pool has slots.
THEOREM LoopTypeCorrect == Spec => []TypeOK
<1>1. Init => SlotInv
  BY LoopAssumption
  DEF Init, SlotInv, TypeOK, Clock, PCs, DbStates, Changes, Registries
<1>2. SlotInv /\ [Next]_vars => SlotInv'
  <2> SUFFICES ASSUME SlotInv, [Next]_vars PROVE SlotInv'
    OBVIOUS
  <2> USE LoopAssumption
  <2>1. ASSUME LoadGateFails PROVE SlotInv'
    BY <2>1
    DEF LoadGateFails, LoadFailed, SlotInv, TypeOK, world, gate, seen, errors, tries,
        Clock, PCs, DbStates, Changes, Registries
  <2>2. ASSUME WaitForGate PROVE SlotInv'
    <3>1. Consult
      BY <2>2 DEF WaitForGate
    <3>2. /\ gateOpen' \in BOOLEAN /\ probeAge' \in 0..Interval
          /\ closedAge' \in Clock(Overdue) /\ change' \in Changes
      BY <3>1, ConsultTypes DEF SlotInv
    <3>3. wasOpen' \in BOOLEAN /\ checkAge' \in 0..RegInterval
      BY <2>2, <3>2 DEF WaitForGate, Consult, seen, SlotInv, TypeOK
    <3> QED
      BY <2>2, <3>2, <3>3 DEF WaitForGate, SlotInv, TypeOK, errors, seen, tries, PCs
  <2>3. ASSUME Load PROVE SlotInv'
    BY <2>3
    DEF Load, SlotInv, TypeOK, world, gate, seen, errors, tries, Clock, PCs,
        DbStates, Changes, Registries
  <2>4. ASSUME LoadFails PROVE SlotInv'
    BY <2>4
    DEF LoadFails, LoadFailed, SlotInv, TypeOK, world, gate, seen, errors, tries,
        Clock, PCs, DbStates, Changes, Registries
  <2>5. ASSUME Listen PROVE SlotInv'
    BY <2>5
    DEF Listen, SlotInv, TypeOK, world, gate, seen, errors, tries, Clock, PCs,
        DbStates, Changes, Registries
  <2>6. ASSUME ListenFails PROVE SlotInv'
    BY <2>6
    DEF ListenFails, Raise, SlotInv, TypeOK, world, gate, seen, errors, tries, Clock,
        PCs, DbStates, Changes, Registries
  <2>7. ASSUME Top PROVE SlotInv'
    <3>1. Consult
      BY <2>7 DEF WorkerConsults, Top
    <3>2. /\ gateOpen' \in BOOLEAN /\ probeAge' \in 0..Interval
          /\ closedAge' \in Clock(Overdue) /\ change' \in Changes
      BY <3>1, ConsultTypes DEF SlotInv
    <3>3. wasOpen' \in BOOLEAN /\ checkAge' \in 0..RegInterval
      BY <2>7, <3>2 DEF Top, WorkerConsults, CheckDueAt, Consult, seen, SlotInv, TypeOK
    <3> QED
      BY <2>7, <3>2, <3>3 DEF Top, SlotInv, TypeOK, errors, seen, tries, PCs
  <2>8. ASSUME TopFails PROVE SlotInv'
    BY <2>8
    DEF TopFails, Raise, SlotInv, TypeOK, world, gate, seen, errors, tries, Clock,
        PCs, DbStates, Changes, Registries
  <2>9. ASSUME CheckRegistry PROVE SlotInv'
    BY <2>9
    DEF CheckRegistry, RegistryDue, Reload, ReloadFails, SlotInv, TypeOK,
        world, gate, seen, errors, tries, Clock, PCs, DbStates, Changes, Registries
  <2>10. ASSUME Beat PROVE SlotInv'
    BY <2>10
    DEF Beat, SlotInv, TypeOK, world, gate, seen, errors, tries, Clock, PCs,
        DbStates, Changes, Registries
  <2>11. ASSUME BeatFails PROVE SlotInv'
    BY <2>11
    DEF BeatFails, Raise, SlotInv, TypeOK, world, gate, seen, errors, tries, Clock,
        PCs, DbStates, Changes, Registries
  <2>12. ASSUME Wait PROVE SlotInv'
    BY <2>12
    DEF Wait, SlotInv, TypeOK, world, gate, seen, errors, tries, Clock, PCs,
        DbStates, Changes, Registries
  <2>13. ASSUME WaitFails PROVE SlotInv'
    BY <2>13
    DEF WaitFails, Raise, SlotInv, TypeOK, world, gate, seen, errors, tries, Clock,
        PCs, DbStates, Changes, Registries
  <2>14. ASSUME PoolFull PROVE SlotInv'
    BY <2>14
    DEF PoolFull, SlotInv, TypeOK, world, gate, seen, errors, tries, Clock, PCs,
        DbStates, Changes, Registries
  <2>15. ASSUME DrainGate PROVE SlotInv'
    <3>1. Consult
      BY <2>15 DEF WorkerConsults, DrainGate
    <3>2. /\ gateOpen' \in BOOLEAN /\ probeAge' \in 0..Interval
          /\ closedAge' \in Clock(Overdue) /\ change' \in Changes
      BY <3>1, ConsultTypes DEF SlotInv
    <3>3. wasOpen' \in BOOLEAN /\ checkAge' \in 0..RegInterval
      BY <2>15, <3>2 DEF DrainGate, WorkerConsults, CheckDueAt, Consult, seen, SlotInv, TypeOK
    <3> QED
      BY <2>15, <3>2, <3>3 DEF DrainGate, SlotInv, TypeOK, errors, seen, tries, PCs
  <2>16. ASSUME DrainGateFails PROVE SlotInv'
    BY <2>16
    DEF DrainGateFails, Raise, SlotInv, TypeOK, world, gate, seen, errors, tries,
        Clock, PCs, DbStates, Changes, Registries
  <2>17. ASSUME Take PROVE SlotInv'
    BY <2>17
    DEF Take, SlotInv, TypeOK, world, gate, seen, errors, tries, Clock, PCs,
        DbStates, Changes, Registries
  <2>18. ASSUME TakeNothing PROVE SlotInv'
    BY <2>18
    DEF TakeNothing, NothingToTake, SlotInv, TypeOK, world, gate, seen,
        errors, tries, Clock, PCs, DbStates, Changes, Registries
  <2>19. ASSUME TakeFails PROVE SlotInv'
    BY <2>19
    DEF TakeFails, Raise, SlotInv, TypeOK, world, gate, seen, errors, tries, Clock,
        PCs, DbStates, Changes, Registries
  <2>20. ASSUME BackOff PROVE SlotInv'
    BY <2>20
    DEF BackOff, SlotInv, TypeOK, world, gate, seen, errors, tries, Clock, PCs,
        DbStates, Changes, Registries
  <2>21. ASSUME NEW s \in DbStates, DbBecomes(s) PROVE SlotInv'
    BY <2>21
    DEF DbBecomes, SlotInv, TypeOK, world, gate, seen, errors, tries, Clock, PCs,
        DbStates, Changes, Registries
  <2>22. ASSUME ChangeBegins PROVE SlotInv'
    BY <2>22
    DEF ChangeBegins, SlotInv, TypeOK, world, gate, seen, errors, tries, Clock, PCs,
        DbStates, Changes, Registries
  <2>23. ASSUME ChangeSettles PROVE SlotInv'
    BY <2>23
    DEF ChangeSettles, SlotInv, TypeOK, world, gate, seen, errors, tries, Clock, PCs,
        DbStates, Changes, Registries
  <2>24. ASSUME JobArrives PROVE SlotInv'
    BY <2>24
    DEF JobArrives, SlotInv, TypeOK, world, gate, seen, errors, tries, Clock, PCs,
        DbStates, Changes, Registries
  <2>25. ASSUME JobEnds PROVE SlotInv'
    BY <2>25
    DEF JobEnds, SlotInv, TypeOK, world, gate, seen, errors, tries, Clock, PCs,
        DbStates, Changes, Registries
  <2>26. ASSUME Tick PROVE SlotInv'
    <3>1. changeAge' \in 0..(Interval + AcquireLimit)
      BY <2>26, OlderCounts DEF Tick, SlotInv, TypeOK
    <3>2. acquireAge' \in 0..AcquireLimit
      BY <2>26 DEF Tick, SlotInv, TypeOK
    <3> QED
      BY <2>26, <3>1, <3>2, OlderIsClock, OlderCounts
      DEF Tick, Starting, SlotInv, TypeOK, PCs, DbStates, Changes, Registries
  <2>27. CASE UNCHANGED vars
    BY <2>27
    DEF vars, SlotInv, TypeOK, world, gate, seen, errors, tries, Clock, PCs,
        DbStates, Changes, Registries
  <2> QED
    BY <2>1, <2>2, <2>3, <2>4, <2>5, <2>6, <2>7, <2>8, <2>9, <2>10, <2>11,
       <2>12, <2>13, <2>14, <2>15, <2>16, <2>17, <2>18, <2>19, <2>20, <2>21,
       <2>22, <2>23, <2>24, <2>25, <2>26, <2>27
    DEF Next, Thread, Loading, Cycling, Draining, World
<1> QED
  BY <1>1, <1>2, PTL DEF Spec, SlotInv

-----------------------------------------------------------------------------
LEMMA GateInvariant == Spec => []GateInv
<1>1. Init => GateInv
  BY DEF Init, GateInv
<1>2. TypeOK /\ GateInv /\ [Next]_vars => GateInv'
  <2> SUFFICES ASSUME TypeOK, GateInv, [Next]_vars PROVE GateInv'
    OBVIOUS
  <2> USE LoopAssumption
  <2>1. ASSUME LoadGateFails PROVE GateInv'
    BY <2>1
    DEF LoadGateFails, LoadFailed, GateInv, TypeOK, world, gate, seen, errors, tries,
        Clock
  <2>2. ASSUME WaitForGate PROVE GateInv'
    <3>1. Consult /\ changeAge' = changeAge
      BY <2>2 DEF WaitForGate
    <3>2. /\ gateOpen' /\ change' # "none"
                => change' = "unseen" /\ (probeAge' < Interval => changeAge' <= probeAge')
          /\ IsOpen => gateOpen' /\ probeAge' < Interval
      BY <3>1, ConsultGate
    <3> QED
      BY <2>2, <3>2 DEF WaitForGate, GateInv
  <2>3. ASSUME Load PROVE GateInv'
    BY <2>3
    DEF Load, GateInv, TypeOK, world, gate, seen, errors, tries, Clock
  <2>4. ASSUME LoadFails PROVE GateInv'
    BY <2>4
    DEF LoadFails, LoadFailed, GateInv, TypeOK, world, gate, seen, errors, tries,
        Clock
  <2>5. ASSUME Listen PROVE GateInv'
    BY <2>5
    DEF Listen, GateInv, TypeOK, world, gate, seen, errors, tries, Clock
  <2>6. ASSUME ListenFails PROVE GateInv'
    BY <2>6
    DEF ListenFails, Raise, GateInv, TypeOK, world, gate, seen, errors, tries, Clock
  <2>7. ASSUME Top PROVE GateInv'
    <3>1. Consult /\ changeAge' = changeAge
      BY <2>7 DEF WorkerConsults, Top
    <3>2. /\ gateOpen' /\ change' # "none"
                => change' = "unseen" /\ (probeAge' < Interval => changeAge' <= probeAge')
          /\ IsOpen => gateOpen' /\ probeAge' < Interval
      BY <3>1, ConsultGate
    <3> QED
      BY <2>7, <3>2 DEF Top, GateInv
  <2>8. ASSUME TopFails PROVE GateInv'
    BY <2>8
    DEF TopFails, Raise, GateInv, TypeOK, world, gate, seen, errors, tries, Clock
  <2>9. ASSUME CheckRegistry PROVE GateInv'
    BY <2>9
    DEF CheckRegistry, RegistryDue, Reload, ReloadFails, GateInv, TypeOK,
        world, gate, seen, errors, tries, Clock
  <2>10. ASSUME Beat PROVE GateInv'
    BY <2>10
    DEF Beat, GateInv, TypeOK, world, gate, seen, errors, tries, Clock
  <2>11. ASSUME BeatFails PROVE GateInv'
    BY <2>11
    DEF BeatFails, Raise, GateInv, TypeOK, world, gate, seen, errors, tries, Clock
  <2>12. ASSUME Wait PROVE GateInv'
    BY <2>12
    DEF Wait, GateInv, TypeOK, world, gate, seen, errors, tries, Clock
  <2>13. ASSUME WaitFails PROVE GateInv'
    BY <2>13
    DEF WaitFails, Raise, GateInv, TypeOK, world, gate, seen, errors, tries, Clock
  <2>14. ASSUME PoolFull PROVE GateInv'
    BY <2>14
    DEF PoolFull, GateInv, TypeOK, world, gate, seen, errors, tries, Clock
  <2>15. ASSUME DrainGate PROVE GateInv'
    <3>1. Consult /\ changeAge' = changeAge
      BY <2>15 DEF WorkerConsults, DrainGate
    <3>2. /\ gateOpen' /\ change' # "none"
                => change' = "unseen" /\ (probeAge' < Interval => changeAge' <= probeAge')
          /\ IsOpen => gateOpen' /\ probeAge' < Interval
      BY <3>1, ConsultGate
    <3>3. pc' = "acquire" => IsOpen /\ acquireAge' \in Nat
      BY <2>15 DEF DrainGate, TypeOK, tries
    <3>4. changeAge' \in Nat /\ probeAge' \in Nat
      BY <3>1 DEF Consult, TypeOK
    <3> QED
      BY <2>15, <3>2, <3>3, <3>4 DEF DrainGate, GateInv
  <2>16. ASSUME DrainGateFails PROVE GateInv'
    BY <2>16
    DEF DrainGateFails, Raise, GateInv, TypeOK, world, gate, seen, errors, tries,
        Clock
  <2>17. ASSUME Take PROVE GateInv'
    BY <2>17
    DEF Take, GateInv, TypeOK, world, gate, seen, errors, tries, Clock
  <2>18. ASSUME TakeNothing PROVE GateInv'
    BY <2>18
    DEF TakeNothing, NothingToTake, GateInv, TypeOK, world, gate, seen,
        errors, tries, Clock
  <2>19. ASSUME TakeFails PROVE GateInv'
    BY <2>19
    DEF TakeFails, Raise, GateInv, TypeOK, world, gate, seen, errors, tries, Clock
  <2>20. ASSUME BackOff PROVE GateInv'
    BY <2>20
    DEF BackOff, GateInv, TypeOK, world, gate, seen, errors, tries, Clock
  <2>21. ASSUME NEW s \in DbStates, DbBecomes(s) PROVE GateInv'
    BY <2>21
    DEF DbBecomes, GateInv, TypeOK, world, gate, seen, errors, tries, Clock
  <2>22. ASSUME ChangeBegins PROVE GateInv'
    BY <2>22
    DEF ChangeBegins, GateInv, TypeOK, world, gate, seen, errors, tries, Clock
  <2>23. ASSUME ChangeSettles PROVE GateInv'
    BY <2>23
    DEF ChangeSettles, GateInv, TypeOK, world, gate, seen, errors, tries, Clock
  <2>24. ASSUME JobArrives PROVE GateInv'
    BY <2>24
    DEF JobArrives, GateInv, TypeOK, world, gate, seen, errors, tries, Clock
  <2>25. ASSUME JobEnds PROVE GateInv'
    BY <2>25
    DEF JobEnds, GateInv, TypeOK, world, gate, seen, errors, tries, Clock
  <2>26. ASSUME Tick PROVE GateInv'
    <3>1. /\ Interval \in Nat /\ Interval + AcquireLimit \in Nat /\ acquireAge \in Nat
          /\ changeAge \in 0..(Interval + AcquireLimit) /\ probeAge \in 0..Interval
      BY LoopAssumption DEF TypeOK
    <3>2. probeAge' = (IF probeAge < Interval THEN probeAge + 1 ELSE Interval)
      BY <2>26, <3>1, OlderCounts DEF Tick
    <3>3. change # "none" => changeAge' \in Nat /\ changeAge' <= changeAge + 1
      BY <2>26, <3>1, OlderCounts DEF Tick
    <3>4. UNCHANGED <<change, gateOpen, pc>> /\ (pc = "acquire" => acquireAge' = acquireAge + 1)
      BY <2>26 DEF Tick
    <3> QED
      BY <3>1, <3>2, <3>3, <3>4 DEF GateInv
  <2>27. CASE UNCHANGED vars
    BY <2>27
    DEF vars, GateInv, TypeOK, world, gate, seen, errors, tries, Clock
  <2> QED
    BY <2>1, <2>2, <2>3, <2>4, <2>5, <2>6, <2>7, <2>8, <2>9, <2>10, <2>11,
       <2>12, <2>13, <2>14, <2>15, <2>16, <2>17, <2>18, <2>19, <2>20, <2>21,
       <2>22, <2>23, <2>24, <2>25, <2>26, <2>27
    DEF Next, Thread, Loading, Cycling, Draining, World
<1> QED
  BY <1>1, <1>2, LoopTypeCorrect, PTL DEF Spec

LEMMA ReloadInvariant == Spec => []ReloadInv
<1>1. Init => ReloadInv
  BY DEF Init, ReloadInv, Starting
<1>2. TypeOK /\ GateInv /\ ReloadInv /\ [Next]_vars => ReloadInv'
  <2> SUFFICES ASSUME TypeOK, GateInv, ReloadInv, [Next]_vars PROVE ReloadInv'
    OBVIOUS
  <2> USE LoopAssumption
  <2>1. ASSUME LoadGateFails PROVE ReloadInv'
    BY <2>1
    DEF LoadGateFails, LoadFailed, ReloadInv, GateInv, TypeOK, world, gate,
        seen, errors, tries, Starting, Clock
  <2>2. ASSUME WaitForGate PROVE ReloadInv'
    BY <2>2
    DEF WaitForGate, Consult, IsOpen, ProbeDue, ProbeFails, ClosedSince,
        ReloadInv, GateInv, TypeOK, world, gate, seen, errors, tries, Starting, Clock
  <2>3. ASSUME Load PROVE ReloadInv'
    BY <2>3
    DEF Load, ReloadInv, GateInv, TypeOK, world, gate, seen, errors, tries, Starting,
        Clock
  <2>4. ASSUME LoadFails PROVE ReloadInv'
    BY <2>4
    DEF LoadFails, LoadFailed, ReloadInv, GateInv, TypeOK, world, gate, seen,
        errors, tries, Starting, Clock
  <2>5. ASSUME Listen PROVE ReloadInv'
    BY <2>5
    DEF Listen, ReloadInv, GateInv, TypeOK, world, gate, seen, errors, tries,
        Starting, Clock
  <2>6. ASSUME ListenFails PROVE ReloadInv'
    BY <2>6
    DEF ListenFails, Raise, ReloadInv, GateInv, TypeOK, world, gate, seen,
        errors, tries, Starting, Clock
  <2>7. ASSUME Top PROVE ReloadInv'
    BY <2>7
    DEF Top, WorkerConsults, CheckDueAt, Consult, IsOpen, ProbeDue,
        ProbeFails, ClosedSince, ReloadInv, GateInv, TypeOK, world, gate,
        seen, errors, tries, Starting, Clock
  <2>8. ASSUME TopFails PROVE ReloadInv'
    BY <2>8
    DEF TopFails, Raise, ReloadInv, GateInv, TypeOK, world, gate, seen,
        errors, tries, Starting, Clock
  <2>9. ASSUME CheckRegistry PROVE ReloadInv'
    BY <2>9
    DEF CheckRegistry, RegistryDue, Reload, ReloadFails, ReloadInv, GateInv,
        TypeOK, world, gate, seen, errors, tries, Starting, Clock
  <2>10. ASSUME Beat PROVE ReloadInv'
    BY <2>10
    DEF Beat, ReloadInv, GateInv, TypeOK, world, gate, seen, errors, tries, Starting,
        Clock
  <2>11. ASSUME BeatFails PROVE ReloadInv'
    BY <2>11
    DEF BeatFails, Raise, ReloadInv, GateInv, TypeOK, world, gate, seen,
        errors, tries, Starting, Clock
  <2>12. ASSUME Wait PROVE ReloadInv'
    BY <2>12
    DEF Wait, ReloadInv, GateInv, TypeOK, world, gate, seen, errors, tries, Starting,
        Clock
  <2>13. ASSUME WaitFails PROVE ReloadInv'
    BY <2>13
    DEF WaitFails, Raise, ReloadInv, GateInv, TypeOK, world, gate, seen,
        errors, tries, Starting, Clock
  <2>14. ASSUME PoolFull PROVE ReloadInv'
    BY <2>14
    DEF PoolFull, ReloadInv, GateInv, TypeOK, world, gate, seen, errors, tries,
        Starting, Clock
  <2>15. ASSUME DrainGate PROVE ReloadInv'
    BY <2>15
    DEF DrainGate, WorkerConsults, CheckDueAt, Consult, IsOpen, ProbeDue,
        ProbeFails, ClosedSince, ReloadInv, GateInv, TypeOK, world, gate,
        seen, errors, tries, Starting, Clock
  <2>16. ASSUME DrainGateFails PROVE ReloadInv'
    BY <2>16
    DEF DrainGateFails, Raise, ReloadInv, GateInv, TypeOK, world, gate, seen,
        errors, tries, Starting, Clock
  <2>17. ASSUME Take PROVE ReloadInv'
    BY <2>17
    DEF Take, ReloadInv, GateInv, TypeOK, world, gate, seen, errors, tries, Starting,
        Clock
  <2>18. ASSUME TakeNothing PROVE ReloadInv'
    BY <2>18
    DEF TakeNothing, NothingToTake, ReloadInv, GateInv, TypeOK, world, gate,
        seen, errors, tries, Starting, Clock
  <2>19. ASSUME TakeFails PROVE ReloadInv'
    BY <2>19
    DEF TakeFails, Raise, ReloadInv, GateInv, TypeOK, world, gate, seen,
        errors, tries, Starting, Clock
  <2>20. ASSUME BackOff PROVE ReloadInv'
    BY <2>20
    DEF BackOff, ReloadInv, GateInv, TypeOK, world, gate, seen, errors, tries,
        Starting, Clock
  <2>21. ASSUME NEW s \in DbStates, DbBecomes(s) PROVE ReloadInv'
    BY <2>21
    DEF DbBecomes, ReloadInv, GateInv, TypeOK, world, gate, seen, errors, tries,
        Starting, Clock
  <2>22. ASSUME ChangeBegins PROVE ReloadInv'
    BY <2>22
    DEF ChangeBegins, ReloadInv, GateInv, TypeOK, world, gate, seen, errors, tries,
        Starting, Clock
  <2>23. ASSUME ChangeSettles PROVE ReloadInv'
    BY <2>23
    DEF ChangeSettles, ReloadInv, GateInv, TypeOK, world, gate, seen, errors, tries,
        Starting, Clock
  <2>24. ASSUME JobArrives PROVE ReloadInv'
    BY <2>24
    DEF JobArrives, ReloadInv, GateInv, TypeOK, world, gate, seen, errors, tries,
        Starting, Clock
  <2>25. ASSUME JobEnds PROVE ReloadInv'
    BY <2>25
    DEF JobEnds, ReloadInv, GateInv, TypeOK, world, gate, seen, errors, tries,
        Starting, Clock
  <2>26. ASSUME Tick PROVE ReloadInv'
    <3>1. checkAge = RegInterval => checkAge' = RegInterval
      BY <2>26, OlderCounts DEF Tick, TypeOK
    <3>2. UNCHANGED <<registry, gateOpen, wasOpen, pc>>
      BY <2>26 DEF Tick
    <3> QED
      BY <3>1, <3>2 DEF ReloadInv, Starting
  <2>27. CASE UNCHANGED vars
    BY <2>27
    DEF vars, ReloadInv, GateInv, TypeOK, world, gate, seen, errors, tries, Starting,
        Clock
  <2> QED
    BY <2>1, <2>2, <2>3, <2>4, <2>5, <2>6, <2>7, <2>8, <2>9, <2>10, <2>11,
       <2>12, <2>13, <2>14, <2>15, <2>16, <2>17, <2>18, <2>19, <2>20, <2>21,
       <2>22, <2>23, <2>24, <2>25, <2>26, <2>27
    DEF Next, Thread, Loading, Cycling, Draining, World
<1> QED
  BY <1>1, <1>2, LoopTypeCorrect, GateInvariant, PTL DEF Spec

-----------------------------------------------------------------------------
\* A step that adds to active is a Take.
LEMMA OnlyTakeAdds ==
    ASSUME TypeOK, [Next]_vars, active' > active
    PROVE  Take
<1> USE LoopAssumption
<1>1. CASE UNCHANGED vars
  BY <1>1 DEF vars, TypeOK
<1>2. CASE Tick \/ World
  BY <1>2 DEF Tick, World, DbBecomes, ChangeBegins, ChangeSettles, JobArrives, JobEnds, TypeOK
<1>3. CASE Loading \/ Cycling \/ BackOff
  BY <1>3
  DEF Loading, LoadGateFails, WaitForGate, Load, LoadFails, Cycling, Listen,
      ListenFails, Top, TopFails, CheckRegistry, Beat, BeatFails, Wait,
      WaitFails, Raise, BackOff, TypeOK
<1>4. CASE PoolFull \/ DrainGate \/ DrainGateFails \/ TakeNothing \/ TakeFails
  BY <1>4 DEF PoolFull, DrainGate, DrainGateFails, TakeNothing, TakeFails, Raise, TypeOK
<1> QED
  BY <1>1, <1>2, <1>3, <1>4 DEF Next, Thread, Draining

\* For any interval, pool and drain: during an install or upgrade a job is
\* taken only by an acquisition that began while a probe made before the change
\* was still cached, however long it blocked since.
THEOREM PausesHold == Spec => PausesForUpgrade
<1>1. TypeOK /\ GateInv /\ [Next]_vars
        => [active' > active => change = "none" \/ changeAge < Interval + AcquireLimit]_vars
  <2> SUFFICES ASSUME TypeOK, GateInv, [Next]_vars, active' > active, change # "none"
               PROVE  changeAge < Interval + AcquireLimit
    OBVIOUS
  <2>1. pc = "acquire"
    BY OnlyTakeAdds DEF Take
  <2>2. changeAge < Interval + acquireAge
    BY <2>1 DEF GateInv
  <2> QED
    BY <2>2, LoopAssumption DEF TypeOK
<1> QED
  BY <1>1, LoopTypeCorrect, GateInvariant, PTL DEF Spec, PausesForUpgrade

\* After a change that the gate saw, no job is taken before the registry was
\* reloaded or the reload was tried, whichever probe saw it and whenever the
\* gate opened again.
THEOREM ReloadsHold == Spec => ReloadsBeforeServing
<1>1. TypeOK /\ GateInv /\ ReloadInv /\ [Next]_vars
        => [active' > active => registry # "owed"]_vars
  <2> SUFFICES ASSUME TypeOK, GateInv, ReloadInv, [Next]_vars, active' > active
               PROVE  registry # "owed"
    OBVIOUS
  <2>1. pc = "acquire"
    BY OnlyTakeAdds DEF Take
  <2> QED
    BY <2>1 DEF GateInv, ReloadInv, Starting
<1> QED
  BY <1>1, LoopTypeCorrect, GateInvariant, ReloadInvariant, PTL
  DEF Spec, ReloadsBeforeServing
-----------------------------------------------------------------------------
\* A clock runs while what it times lasts: a closed gate, a registry that is not
\* loaded yet, a streak of database errors.
ClockInv ==
    /\ gateOpen <=> closedAge = None
    /\ retryAge # None => Starting
    /\ streak = 0 <=> streakAge = None

LEMMA ClockStep ==
    ASSUME TypeOK, ClockInv, [Next]_vars
    PROVE  ClockInv'
<1>0. None \notin Int
  BY LoopAssumption
<1>1. ASSUME Consult, UNCHANGED <<retryAge, errors>>, Starting' <=> Starting
      PROVE  ClockInv'
  BY <1>0, <1>1 DEF Consult, ClosedSince, ClockInv, errors
<1>2. ASSUME UNCHANGED <<gate, retryAge, errors>>, Starting => Starting'
      PROVE  ClockInv'
  BY <1>2 DEF ClockInv, gate, errors
<1>3. ASSUME Loading
      PROVE  ClockInv'
  <2>1. CASE WaitForGate /\ IsOpen
    <3>1. Consult /\ UNCHANGED <<retryAge, errors>> /\ Starting /\ pc' = "load"
      BY <2>1 DEF WaitForGate, Starting, tries
    <3>2. Starting'
      BY <3>1 DEF Starting
    <3> QED
      BY <1>1, <3>1, <3>2
  <2>2. CASE WaitForGate /\ ~IsOpen
    <3>1. Consult /\ UNCHANGED <<retryAge, errors>> /\ Starting /\ pc' = "gate"
      BY <2>2 DEF WaitForGate, Starting, tries
    <3>2. Starting'
      BY <3>1 DEF Starting
    <3> QED
      BY <1>1, <3>1, <3>2
  <2>3. CASE Load
    BY <2>3 DEF Load, ClockInv, gate, errors
  <2>4. CASE LoadGateFails \/ LoadFails
    BY <2>4 DEF LoadGateFails, LoadFails, LoadFailed, ClockInv, Starting, gate, errors
  <2> QED
    BY <1>3, <2>1, <2>2, <2>3, <2>4 DEF Loading
<1>4. CASE Top \/ DrainGate
  <2>1. Consult /\ UNCHANGED <<retryAge, errors>>
    BY <1>4 DEF Top, DrainGate, WorkerConsults, tries
  <2>2. ~Starting /\ ~Starting'
    BY <1>4 DEF Top, DrainGate, Starting
  <2> QED
    BY <1>1, <2>1, <2>2
<1>5. CASE Wait \/ BackOff
  BY <1>0, <1>5, LoopAssumption DEF Wait, BackOff, ClockInv, Starting, gate, tries, TypeOK
<1>6. CASE \/ Listen \/ ListenFails \/ TopFails \/ CheckRegistry \/ Beat \/ BeatFails \/ WaitFails
           \/ PoolFull \/ DrainGateFails \/ Take \/ TakeNothing \/ TakeFails
  <2>1. UNCHANGED <<gate, retryAge, errors>>
    BY <1>6
    DEF Listen, ListenFails, TopFails, CheckRegistry, Beat, BeatFails, WaitFails, PoolFull,
        DrainGateFails, Take, TakeNothing, NothingToTake, TakeFails, Raise, tries
  <2>2. ~Starting
    BY <1>6
    DEF Listen, ListenFails, TopFails, CheckRegistry, Beat, BeatFails, WaitFails, PoolFull,
        DrainGateFails, Take, TakeNothing, NothingToTake, TakeFails, Raise, Starting
  <2> QED
    BY <1>2, <2>1, <2>2
<1>7. CASE World \/ UNCHANGED vars
  BY <1>2, <1>7
  DEF World, DbBecomes, ChangeBegins, ChangeSettles, JobArrives, JobEnds, Starting, tries, vars
<1>8. CASE Tick
  <2>1. /\ \A age \in Clock(Overdue) : Older(age, Overdue) = None <=> age = None
        /\ \A age \in Clock(Threshold) : Older(age, Threshold) = None <=> age = None
    BY <1>0, LoopAssumption DEF Older, Clock
  <2> QED
    BY <1>8, <2>1 DEF Tick, ClockInv, Starting, TypeOK
<1> QED
  BY <1>3, <1>4, <1>5, <1>6, <1>7, <1>8 DEF Next, Thread, Cycling, Draining

\* The supervisor reports a database only while the gate is closed, the registry
\* is not loaded or a cycle has not ended since the last database error: no clock
\* outlives its trouble (seconds_closed(), _registry_load_retry_since,
\* seconds_in_database_error_recovery()).  That the clocks then stop is the
\* liveness of HealthyAgain.
THEOREM ReportsAreCurrent ==
    Spec => [](Degraded => ~gateOpen \/ Starting \/ streak > 0)
<1>1. Init => ClockInv
  BY DEF Init, ClockInv
<1>2. TypeOK /\ ClockInv => (Degraded => ~gateOpen \/ Starting \/ streak > 0)
  BY LoopAssumption DEF TypeOK, ClockInv, Degraded
<1>3. TypeOK /\ ClockInv /\ [Next]_vars => ClockInv'
  BY ClockStep
<1> QED
  BY <1>1, <1>2, <1>3, LoopTypeCorrect, PTL DEF Spec
=============================================================================
