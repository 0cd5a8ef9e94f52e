-------------------------- MODULE SupervisorProofs --------------------------
(***************************************************************************)
(* One worker per database, for every number of runner processes,          *)
(* databases and threads, with threads that hang, outlive the join or      *)
(* crash, and processes that die.                                          *)
(***************************************************************************)
EXTENDS Supervisor, TLAPS

\* Whatever may happen, with every connection of the supervisors intact.
AnyNext == LateNext \/ Troubles

\* TypeOK in three parts; its last conjunct is Registered below.
FleetTypes ==
    /\ status \in [Databases -> Statuses]
    /\ lock \in [Databases -> Processes \cup {NoProcess}]
    /\ phase \in [Processes -> {"running", "stopping", "dead"}]
    /\ registered \in [Processes -> [Databases -> Threads \cup {NoThread}]]
    /\ instance \in [Processes -> [Databases -> Threads \cup {NoThread}]]
    /\ gate \in [Processes -> [Databases -> Threads \cup {NoThread}]]
    /\ retrySince \in [Processes -> [Databases -> Clocks]]
    /\ joining \in [Processes -> Threads \cup {NoThread}]

LedgerTypes ==
    /\ failures \in [Processes -> [Databases -> Nat]]
    /\ quarantined \in [Processes -> SUBSET Databases]
    /\ counted \subseteq Threads
    /\ charged \in [Threads -> Nat]

ThreadTypes ==
    /\ at \in [Threads -> {"idle", "loading", "serving", "ending", "ended"}]
    /\ host \in [Threads -> Processes \cup {NoProcess}]
    /\ serves \in [Threads -> Databases \cup {NoDatabase}]
    /\ told \subseteq Threads /\ hung \subseteq Threads
    /\ streak \in [Threads -> Clocks] /\ pause \in [Threads -> Clocks]
    /\ \A t \in Threads : at[t] # "idle" => host[t] \in Processes /\ serves[t] \in Databases

Types == FleetTypes /\ LedgerTypes /\ ThreadTypes

LEMMA TableEntry ==
    ASSUME NEW S, NEW table \in [Processes -> [Databases -> S]],
           NEW p \in Processes, NEW d \in Databases, NEW v \in S
    PROVE  [table EXCEPT ![p][d] = v] \in [Processes -> [Databases -> S]]
OBVIOUS

LEMMA NewThreadTypes ==
    ASSUME ThreadTypes, NEW t \in Threads, NEW p \in Processes, NEW d \in Databases,
           NEW s \in {"loading", "ended"}, NewThread(t, p, d, s)
    PROVE  ThreadTypes'
BY DEF ThreadTypes, NewThread, Clocks

LEMMA RetireTypes ==
    ASSUME ThreadTypes, NEW S, Retire(S)
    PROVE  ThreadTypes'
BY DEF ThreadTypes, Retire, Clocks

LEMMA RetireLedger ==
    ASSUME LedgerTypes, NEW S, Retire(S), UNCHANGED failures, UNCHANGED quarantined
    PROVE  LedgerTypes'
BY DEF LedgerTypes, Retire

\* No step breaks a type.
LEMMA TypesStep ==
    ASSUME Types, [AnyNext \/ \E d \in Databases : LockDrops(d)]_vars
    PROVE  Types'
<1> USE SupervisorAssumption
<1>1. CASE UNCHANGED vars
  BY <1>1 DEF vars, external, fleet, ledger, thread, Types, FleetTypes, LedgerTypes, ThreadTypes
<1>2. ASSUME NEW p \in Processes, NEW d \in Databases, NEW t \in Threads, DiscoverStarts(p, d, t)
      PROVE  Types'
  <2>1. FleetTypes'
    <3>1. UNCHANGED gate \/ gate' = [gate EXCEPT ![p][d] = t]
      BY <1>2 DEF DiscoverStarts
    <3>2. UNCHANGED <<status, phase, instance, retrySince, joining>>
          /\ lock' = [lock EXCEPT ![d] = p] /\ registered' = [registered EXCEPT ![p][d] = t]
      BY <1>2 DEF DiscoverStarts
    <3> DEFINE Table == [Processes -> [Databases -> Threads \cup {NoThread}]]
    <3>3. registered' \in Table /\ gate' \in Table /\ instance' \in Table
      <4>1. registered \in Table /\ gate \in Table /\ instance \in Table
        BY DEF Types, FleetTypes
      <4>2. [registered EXCEPT ![p][d] = t] \in Table /\ [gate EXCEPT ![p][d] = t] \in Table
        BY <4>1, TableEntry
      <4> QED
        BY <3>1, <3>2, <4>1, <4>2
    <3> QED
      BY <3>2, <3>3 DEF Types, FleetTypes
  <2>2. LedgerTypes'
    BY <1>2 DEF DiscoverStarts, LedgerTypes, StillQuarantined, Types
  <2>3. ThreadTypes'
    BY <1>2, NewThreadTypes DEF DiscoverStarts, Types
  <2> QED
    BY <2>1, <2>2, <2>3 DEF Types
<1>3. ASSUME NEW p \in Processes, NEW d \in Databases, DiscoverSkips(p, d)
      PROVE  Types'
  BY <1>3 DEF DiscoverSkips, StillQuarantined, Types, FleetTypes, LedgerTypes, ThreadTypes,
     external, fleet, ledger, thread, Alive
<1>4. ASSUME NEW p \in Processes, NEW d \in Databases, DiscoverRemoves(p, d)
      PROVE  Types'
  BY <1>4 DEF DiscoverRemoves, SignalStop, StillQuarantined, Types, FleetTypes, LedgerTypes, ThreadTypes,
     external, fleet, ledger, thread, Alive
<1>5. ASSUME NEW p \in Processes, NEW d \in Databases, CleanupStops(p, d)
      PROVE  Types'
  BY <1>5 DEF CleanupStops, SignalStop, Types, FleetTypes, LedgerTypes, ThreadTypes,
     external, fleet, ledger, thread, Alive
<1>6. ASSUME NEW p \in Processes, NEW t \in Threads, JoinEnds(p, t)
      PROVE  Types'
  <2>1. FleetTypes'
    BY <1>6 DEF JoinEnds, AfterJoin, FleetTypes, ThreadTypes, Types
  <2>2. LedgerTypes'
    BY <1>6 DEF JoinEnds, AfterJoin, Retire, LedgerTypes, Types
  <2>3. ThreadTypes'
    BY <1>6, RetireTypes DEF JoinEnds, Types
  <2> QED
    BY <2>1, <2>2, <2>3 DEF Types
<1>7. ASSUME NEW p \in Processes, NEW t \in Threads, JoinTimesOut(p, t)
      PROVE  Types'
  BY <1>7 DEF JoinTimesOut, AfterJoin, Types, FleetTypes, LedgerTypes, ThreadTypes,
     external, fleet, ledger, thread, Alive
<1>8. ASSUME NEW p \in Processes, NEW d \in Databases, CheckThreadHealth(p, d)
      PROVE  Types'
  <2>0. registered[p][d] \in Threads
    BY <1>8 DEF CheckThreadHealth, Corpse, Types, FleetTypes
  <2>1. FleetTypes'
    <3>1. (UNCHANGED gate \/ gate' = [gate EXCEPT ![p][d] = registered[p][d]])
          /\ (UNCHANGED instance \/ instance' = [instance EXCEPT ![p][d] = NoThread])
          /\ UNCHANGED <<external, phase, registered, retrySince, joining>>
      BY <1>8 DEF CheckThreadHealth, Replace, fleet
    <3>2. gate' \in [Processes -> [Databases -> Threads \cup {NoThread}]]
          /\ instance' \in [Processes -> [Databases -> Threads \cup {NoThread}]]
      <4> DEFINE Table == [Processes -> [Databases -> Threads \cup {NoThread}]]
      <4>1. gate \in Table /\ instance \in Table
        BY DEF Types, FleetTypes
      <4>2. /\ [gate EXCEPT ![p][d] = registered[p][d]] \in Table
            /\ [instance EXCEPT ![p][d] = NoThread] \in Table
        BY <2>0, <4>1, TableEntry
      <4> QED
        BY <3>1, <4>1, <4>2
    <3> QED
      BY <3>1, <3>2 DEF Types, FleetTypes, external
  <2>2. LedgerTypes'
    <3>1. failures' \in [Processes -> [Databases -> Nat]]
      BY <1>8 DEF CheckThreadHealth, Types, LedgerTypes
    <3>2. quarantined' \in [Processes -> SUBSET Databases]
      BY <1>8 DEF CheckThreadHealth, Types, LedgerTypes
    <3>3. counted' \subseteq Threads /\ charged' \in [Threads -> Nat]
      <4>1. (counted' = counted \cup {registered[p][d]}
               /\ charged' = [charged EXCEPT ![registered[p][d]] = @ + 1])
            \/ (counted' = counted \ {registered[p][d]}
               /\ charged' = [charged EXCEPT ![registered[p][d]] = 0])
        BY <1>8 DEF CheckThreadHealth, Replace
      <4> QED
        BY <2>0, <4>1 DEF Types, LedgerTypes
    <3> QED
      BY <3>1, <3>2, <3>3 DEF LedgerTypes
  <2>3. ThreadTypes'
    BY <1>8, NewThreadTypes DEF CheckThreadHealth, Replace, Corpse, thread, FleetTypes, ThreadTypes, Types
  <2> QED
    BY <2>1, <2>2, <2>3 DEF Types
<1>9. ASSUME NEW p \in Processes, Exit(p)
      PROVE  Types'
  <2>1. FleetTypes'
    BY <1>9 DEF Exit, Clocks, FleetTypes, Types
  <2>2. LedgerTypes'
    BY <1>9 DEF Exit, Retire, LedgerTypes, Types
  <2>3. ThreadTypes'
    BY <1>9, RetireTypes DEF Exit, Types
  <2> QED
    BY <2>1, <2>2, <2>3 DEF Types
<1>10. ASSUME NEW t \in Threads, LoadRegistry(t)
      PROVE  Types'
  BY <1>10 DEF LoadRegistry, Clocks, Types, FleetTypes, LedgerTypes, ThreadTypes,
     external, fleet, ledger, thread, Alive
<1>11. ASSUME NEW t \in Threads, End(t)
      PROVE  Types'
  <2>1. FleetTypes'
    BY <1>11 DEF End, Clocks, external, FleetTypes, ThreadTypes, Types
  <2>2. LedgerTypes'
    BY <1>11, RetireLedger DEF End, LedgerTypes, Types
  <2>3. ThreadTypes'
    BY <1>11, RetireTypes DEF End, ThreadTypes, Types
  <2> QED
    BY <2>1, <2>2, <2>3 DEF Types
<1>12. ASSUME NEW t \in Threads, Return(t)
      PROVE  Types'
  BY <1>12 DEF Return, Types, FleetTypes, LedgerTypes, ThreadTypes,
     external, fleet, ledger, thread, Alive
<1>13. ASSUME NEW t \in Threads, Hang(t)
      PROVE  Types'
  BY <1>13 DEF Hang, Types, FleetTypes, LedgerTypes, ThreadTypes,
     external, fleet, ledger, thread, Alive
<1>14. ASSUME NEW t \in Threads, Crash(t)
      PROVE  Types'
  BY <1>14 DEF Crash, RecordFailure, Types, FleetTypes, LedgerTypes, ThreadTypes,
     external, fleet, ledger, thread, Alive
<1>15. ASSUME NEW t \in Threads, LoadFails(t)
      PROVE  Types'
  BY <1>15 DEF LoadFails, Clocks, Types, FleetTypes, LedgerTypes, ThreadTypes,
     external, fleet, ledger, thread, Alive
<1>16. ASSUME NEW t \in Threads, DatabaseError(t)
      PROVE  Types'
  <2>1. FleetTypes'
    BY <1>16 DEF DatabaseError, fleet, external, FleetTypes, Types
  <2>2. LedgerTypes'
    BY <1>16 DEF DatabaseError, ledger, LedgerTypes, Types
  <2>3. ThreadTypes'
    BY <1>16 DEF DatabaseError, ThreadTypes, Clocks, Types
  <2> QED
    BY <2>1, <2>2, <2>3 DEF Types
<1>17. ASSUME NEW t \in Threads, GateMoves(t)
      PROVE  Types'
  <2>1. FleetTypes'
    BY <1>17 DEF GateMoves, fleet, external, FleetTypes, Types
  <2>2. LedgerTypes'
    BY <1>17 DEF GateMoves, ledger, LedgerTypes, Types
  <2>3. ThreadTypes'
    BY <1>17 DEF GateMoves, ThreadTypes, Clocks, Types
  <2> QED
    BY <2>1, <2>2, <2>3 DEF Types
<1>18. ASSUME NEW t \in Threads, WorkerClocksAge(t)
      PROVE  Types'
  BY <1>18 DEF WorkerClocksAge, Clocks, Types, FleetTypes, LedgerTypes, ThreadTypes,
     external, fleet, ledger, thread, Alive
<1>19. ASSUME NEW p \in Processes, Stop(p)
      PROVE  Types'
  BY <1>19 DEF Stop, Types, FleetTypes, LedgerTypes, ThreadTypes,
     external, fleet, ledger, thread, Alive
<1>20. ASSUME NEW p \in Processes, Restart(p)
      PROVE  Types'
  BY <1>20 DEF Restart, Types, FleetTypes, LedgerTypes, ThreadTypes,
     external, fleet, ledger, thread, Alive
<1>21. ASSUME NEW d \in Databases, LockDrops(d)
      PROVE  Types'
  BY <1>21 DEF LockDrops, Types, FleetTypes, LedgerTypes, ThreadTypes,
     external, fleet, ledger, thread, Alive
<1>22. ASSUME NEW d \in Databases, NEW s \in Statuses, DatabaseBecomes(d, s)
      PROVE  Types'
  BY <1>22 DEF DatabaseBecomes, Types, FleetTypes, LedgerTypes, ThreadTypes,
     external, fleet, ledger, thread, Alive
<1>23. ASSUME NEW p \in Processes, NEW d \in Databases, StampAges(p, d)
      PROVE  Types'
  BY <1>23 DEF StampAges, Types, FleetTypes, LedgerTypes, ThreadTypes,
     external, fleet, ledger, thread, Alive
<1>24. ASSUME NEW p \in Processes, NEW d \in Databases, RetryClockAges(p, d)
      PROVE  Types'
  BY <1>24 DEF RetryClockAges, Clocks, Types, FleetTypes, LedgerTypes, ThreadTypes,
     external, fleet, ledger, thread, Alive
<1> QED
  BY <1>1, <1>2, <1>3, <1>4, <1>5, <1>6, <1>7, <1>8, <1>9, <1>10, <1>11, <1>12, <1>13, <1>14, <1>15, <1>16, <1>17, <1>18, <1>19, <1>20, <1>21, <1>22, <1>23, <1>24
     DEF AnyNext, LateNext, PromptNext, Troubles, Loop, Target, Surroundings, CheckWorkerProgress, Die

-----------------------------------------------------------------------------
(* Where the thread objects are. *)

\* A registered thread, ended or not, is one of this process and database.
Registered ==
    \A p \in Processes, d \in Databases : registered[p][d] # NoThread =>
        LET t == registered[p][d] IN host[t] = p /\ serves[t] = d /\ at[t] # "idle"

\* The thread a supervisor waits for was told to stop and has no successor yet.
Joined ==
    \A p \in Processes : joining[p] # NoThread =>
        /\ at[joining[p]] # "idle" /\ host[joining[p]] = p /\ joining[p] \in told
        /\ registered[p][serves[joining[p]]] = NoThread

\* The registered threads are those that were not told to stop.
Untold ==
    /\ \A t \in Threads : at[t] # "idle" /\ t \notin told => registered[host[t]][serves[t]] = t
    /\ \A p \in Processes, d \in Databases : registered[p][d] \notin told

Places == Registered /\ Joined /\ Untold

LEMMA PlacesKept ==
    ASSUME Types, Places, UNCHANGED <<registered, joining, host, serves, told>>,
           \A u \in Threads : at'[u] = "idle" <=> at[u] = "idle"
    PROVE  Places'
<1>1. Registered'
  BY DEF Places, Registered, Types, FleetTypes
<1>2. Joined'
  BY DEF Places, Joined, Types, FleetTypes
<1>3. Untold'
  BY DEF Places, Untold, Types, FleetTypes
<1> QED
  BY <1>1, <1>2, <1>3 DEF Places

\* What a step does to the places of threads: nothing, or one of these.
LEMMA PlacesStep ==
    ASSUME Types, Types', Places, [AnyNext \/ \E d \in Databases : LockDrops(d)]_vars
    PROVE  Places'
<1> USE SupervisorAssumption
<1>1. CASE UNCHANGED vars
  BY <1>1, PlacesKept DEF vars, fleet, thread
<1>2. ASSUME NEW p \in Processes, NEW d \in Databases, NEW t \in Threads, DiscoverStarts(p, d, t)
      PROVE  Places'
  <2>1. /\ registered' = [registered EXCEPT ![p][d] = t] /\ UNCHANGED joining
        /\ joining[p] = NoThread /\ registered[p][d] = NoThread /\ at[t] = "idle"
    BY <1>2 DEF DiscoverStarts, Looping
  <2>2. /\ host' = [host EXCEPT ![t] = p] /\ serves' = [serves EXCEPT ![t] = d]
        /\ told' = told \ {t}
        /\ at'[t] # "idle" /\ \A u \in Threads \ {t} : at'[u] = at[u]
    BY <1>2 DEF DiscoverStarts, NewThread, Types, ThreadTypes
  <2>3. Registered'
    BY <2>1, <2>2 DEF Places, Registered, Types, FleetTypes, ThreadTypes
  <2>4. Joined'
    BY <2>1, <2>2 DEF Places, Joined, Types, FleetTypes, ThreadTypes
  <2>5. Untold'
    BY <2>1, <2>2 DEF Places, Untold, Registered, Types, FleetTypes, ThreadTypes
  <2> QED
    BY <2>3, <2>4, <2>5 DEF Places
<1>3. ASSUME NEW p \in Processes, NEW d \in Databases, DiscoverRemoves(p, d) \/ CleanupStops(p, d)
      PROVE  Places'
  <2> DEFINE t == registered[p][d]
  <2>1. /\ t # NoThread /\ told' = told \cup {t}
        /\ registered' = [registered EXCEPT ![p][d] = NoThread]
        /\ joining' = [joining EXCEPT ![p] = t]
        /\ UNCHANGED <<at, host, serves>>
    BY <1>3 DEF DiscoverRemoves, CleanupStops, SignalStop
  <2>2. t \in Threads /\ host[t] = p /\ serves[t] = d /\ at[t] # "idle"
    BY <2>1 DEF Places, Registered, Types, FleetTypes
  <2> HIDE DEF t
  <2>3. Registered'
    BY <2>1, <2>2 DEF Places, Registered, Types, FleetTypes, ThreadTypes
  <2>4. Joined'
    BY <2>1, <2>2 DEF Places, Joined, Types, FleetTypes, ThreadTypes
  <2>5. \A q \in Processes, e \in Databases : registered[q][e] = t => q = p /\ e = d
    BY <2>1, <2>2 DEF Places, Registered
  <2>6. Untold'
    BY <2>1, <2>2, <2>5 DEF Places, Untold, Types, FleetTypes, ThreadTypes, t
  <2> QED
    BY <2>3, <2>4, <2>6 DEF Places
<1>4. ASSUME NEW p \in Processes, NEW t \in Threads, JoinEnds(p, t)
      PROVE  Places'
  <2>1. /\ joining[p] = t /\ joining' = [joining EXCEPT ![p] = NoThread]
        /\ UNCHANGED registered /\ Retire({t})
    BY <1>4 DEF JoinEnds, AfterJoin
  <2>2. \A q \in Processes, e \in Databases : registered[q][e] # t
    BY <2>1 DEF Places, Joined, Untold
  <2>3. \A q \in Processes \ {p} : joining[q] # t
    BY <2>1 DEF Places, Joined
  <2> QED
    BY <2>1, <2>2, <2>3 DEF Places, Registered, Joined, Untold, Retire, Types, FleetTypes, ThreadTypes
<1>5. ASSUME NEW p \in Processes, NEW t \in Threads, JoinTimesOut(p, t)
      PROVE  Places'
  BY <1>5 DEF JoinTimesOut, AfterJoin, thread, Places, Registered, Joined, Untold, Types, FleetTypes
<1>6. ASSUME NEW p \in Processes, NEW d \in Databases, CheckThreadHealth(p, d)
      PROVE  Places'
  <2> DEFINE t == registered[p][d]
  <2>1. t \in Threads /\ at[t] = "ended" /\ host[t] = p /\ serves[t] = d /\ t \notin told
    BY <1>6 DEF CheckThreadHealth, Corpse, Places, Registered, Untold, Types, FleetTypes
  <2>2. UNCHANGED <<registered, joining>>
    BY <1>6 DEF CheckThreadHealth, Replace, fleet
  <2>3. UNCHANGED thread \/ NewThread(t, p, d, "loading")
    BY <1>6 DEF CheckThreadHealth, Replace
  <2>4. /\ UNCHANGED <<host, serves, told>>
        /\ \A u \in Threads : at'[u] = "idle" <=> at[u] = "idle"
    BY <2>1, <2>3 DEF NewThread, thread, Types, ThreadTypes
  <2> QED
    BY <2>2, <2>4, PlacesKept
<1>7. ASSUME NEW p \in Processes, Exit(p)
      PROVE  Places'
  <2> DEFINE S == {t \in Threads : host[t] = p}
  <2>1. /\ registered' = [registered EXCEPT ![p] = [d \in Databases |-> NoThread]]
        /\ joining' = [joining EXCEPT ![p] = NoThread]
        /\ Retire(S)
    BY <1>7 DEF Exit
  <2>2. \A q \in Processes \ {p}, e \in Databases : registered[q][e] \notin S
    BY DEF Places, Registered
  <2>3. \A q \in Processes \ {p} : joining[q] \notin S
    BY DEF Places, Joined
  <2> HIDE DEF S
  <2>4. Registered'
    BY <2>1, <2>2 DEF Places, Registered, Retire, Types, FleetTypes, ThreadTypes
  <2>5. Joined'
    BY <2>1, <2>3 DEF Places, Joined, Retire, Types, FleetTypes, ThreadTypes
  <2>6. Untold'
    BY <2>1, <2>2 DEF Places, Untold, Retire, Types, FleetTypes, ThreadTypes, S
  <2> QED
    BY <2>4, <2>5, <2>6 DEF Places
<1>8. ASSUME NEW t \in Threads, End(t)
      PROVE  Places'
  <2>1. UNCHANGED <<registered, joining>> /\ at[t] = "ending"
    BY <1>8 DEF End
  <2>2. CASE registered[host[t]][serves[t]] = t \/ joining[host[t]] = t
    <3>1. at' = [at EXCEPT ![t] = "ended"] /\ UNCHANGED <<host, serves, told>>
      BY <1>8, <2>2 DEF End
    <3> QED
      BY <2>1, <3>1, PlacesKept DEF Types, ThreadTypes
  <2>3. CASE ~(registered[host[t]][serves[t]] = t \/ joining[host[t]] = t)
    <3>1. Retire({t})
      BY <1>8, <2>3 DEF End
    <3>2. \A q \in Processes, e \in Databases : registered[q][e] # t
      BY <2>3 DEF Places, Registered
    <3>3. \A q \in Processes : joining[q] # t
      BY <2>3 DEF Places, Joined
    <3> QED
      BY <2>1, <3>1, <3>2, <3>3
         DEF Places, Registered, Joined, Untold, Retire, Types, FleetTypes, ThreadTypes
  <2> QED
    BY <2>2, <2>3
<1>9. ASSUME NEW t \in Threads, LoadRegistry(t) \/ Return(t) \/ Crash(t) \/ Hang(t)
      PROVE  Places'
  <2>1. /\ UNCHANGED <<registered, joining, host, serves, told>>
        /\ \A u \in Threads : at'[u] = "idle" <=> at[u] = "idle"
    BY <1>9 DEF LoadRegistry, Return, Crash, Hang, fleet, Types, ThreadTypes
  <2> QED
    BY <2>1, PlacesKept
<1>10. ASSUME NEW t \in Threads, LoadFails(t) \/ DatabaseError(t) \/ GateMoves(t) \/ WorkerClocksAge(t)
       PROVE  Places'
  BY <1>10, PlacesKept DEF LoadFails, DatabaseError, GateMoves, WorkerClocksAge, fleet, thread
<1>11. ASSUME NEW p \in Processes, Stop(p) \/ Restart(p)
       PROVE  Places'
  BY <1>11, PlacesKept DEF Stop, Restart, thread
<1>12. ASSUME NEW d \in Databases, LockDrops(d) \/ \E s \in Statuses : DatabaseBecomes(d, s)
       PROVE  Places'
  BY <1>12, PlacesKept DEF LockDrops, DatabaseBecomes, fleet, thread
<1>13. ASSUME NEW p \in Processes, NEW d \in Databases,
              DiscoverSkips(p, d) \/ StampAges(p, d) \/ RetryClockAges(p, d)
       PROVE  Places'
  BY <1>13, PlacesKept DEF DiscoverSkips, StampAges, RetryClockAges, fleet, thread
<1> QED
  BY <1>1, <1>2, <1>3, <1>4, <1>5, <1>6, <1>7, <1>8, <1>9, <1>10, <1>11, <1>12, <1>13
     DEF AnyNext, LateNext, PromptNext, Troubles, Loop, Target, Surroundings, CheckWorkerProgress, Die

-----------------------------------------------------------------------------
(* One server per database, and one stamp per death. *)

\* Who has a thread for a database holds its lock.
Locked == \A p \in Processes, d \in Databases : registered[p][d] # NoThread => lock[d] = p

LEMMA LockKept ==
    ASSUME Locked, UNCHANGED <<lock, registered>>
    PROVE  Locked'
BY DEF Locked

LEMMA LockStep ==
    ASSUME Types, Places, Locked, [AnyNext]_vars
    PROVE  Locked'
<1> USE SupervisorAssumption
<1>1. CASE UNCHANGED vars
  BY <1>1, LockKept DEF vars, external, fleet
<1>2. ASSUME NEW p \in Processes, NEW d \in Databases, NEW t \in Threads, DiscoverStarts(p, d, t)
      PROVE  Locked'
  <2>1. /\ lock[d] = NoProcess /\ lock' = [lock EXCEPT ![d] = p]
        /\ registered' = [registered EXCEPT ![p][d] = t]
    BY <1>2 DEF DiscoverStarts
  <2> QED
    BY <2>1 DEF Locked, Types, FleetTypes
<1>3. ASSUME NEW p \in Processes, NEW d \in Databases, DiscoverRemoves(p, d) \/ CleanupStops(p, d)
      PROVE  Locked'
  <2>1. UNCHANGED lock /\ registered' = [registered EXCEPT ![p][d] = NoThread]
    BY <1>3 DEF DiscoverRemoves, CleanupStops, SignalStop, external
  <2> QED
    BY <2>1 DEF Locked, Types, FleetTypes
<1>4. ASSUME NEW p \in Processes, NEW t \in Threads, JoinEnds(p, t) \/ JoinTimesOut(p, t)
      PROVE  Locked'
  <2>1. /\ joining[p] = t /\ UNCHANGED registered
        /\ lock' = [lock EXCEPT ![serves[t]] = IF @ = p THEN NoProcess ELSE @]
    BY <1>4 DEF JoinEnds, JoinTimesOut, AfterJoin
  <2>2. registered[p][serves[t]] = NoThread
    BY <2>1 DEF Places, Joined
  <2> QED
    BY <2>1, <2>2 DEF Locked, Types, FleetTypes
<1>5. ASSUME NEW p \in Processes, NEW d \in Databases, CheckThreadHealth(p, d)
      PROVE  Locked'
  BY <1>5, LockKept DEF CheckThreadHealth, Replace, external, fleet
<1>6. ASSUME NEW p \in Processes, Exit(p)
      PROVE  Locked'
  <2>1. /\ lock' = [d \in Databases |-> IF lock[d] = p THEN NoProcess ELSE lock[d]]
        /\ registered' = [registered EXCEPT ![p] = [d \in Databases |-> NoThread]]
    BY <1>6 DEF Exit
  <2> QED
    BY <2>1 DEF Locked, Types, FleetTypes
<1>7. ASSUME NEW t \in Threads, Target(t) \/ Hang(t)
      PROVE  Locked'
  BY <1>7, LockKept DEF Target, LoadRegistry, Return, Crash, End, Hang, external, fleet
<1>8. ASSUME NEW t \in Threads, LoadFails(t) \/ DatabaseError(t) \/ GateMoves(t) \/ WorkerClocksAge(t)
      PROVE  Locked'
  BY <1>8, LockKept DEF LoadFails, DatabaseError, GateMoves, WorkerClocksAge, external, fleet
<1>9. ASSUME NEW p \in Processes, Stop(p) \/ Restart(p)
      PROVE  Locked'
  BY <1>9, LockKept DEF Stop, Restart, external
<1>10. ASSUME NEW d \in Databases, NEW s \in Statuses, DatabaseBecomes(d, s)
       PROVE  Locked'
  BY <1>10, LockKept DEF DatabaseBecomes, fleet
<1>11. ASSUME NEW p \in Processes, NEW d \in Databases,
              DiscoverSkips(p, d) \/ StampAges(p, d) \/ RetryClockAges(p, d)
       PROVE  Locked'
  BY <1>11, LockKept DEF DiscoverSkips, StampAges, RetryClockAges, external, fleet
<1> QED
  BY <1>1, <1>2, <1>3, <1>4, <1>5, <1>6, <1>7, <1>8, <1>9, <1>10, <1>11
     DEF AnyNext, LateNext, PromptNext, Troubles, Loop, Surroundings, CheckWorkerProgress, Die

LEMMA LockServes ==
    ASSUME Types, Places, Locked
    PROVE  OneServer
<1> SUFFICES ASSUME NEW t \in Threads, NEW u \in Threads,
                    at[t] = "serving", at[u] = "serving", serves[t] = serves[u],
                    t \notin told, u \notin told
             PROVE  t = u
  BY DEF OneServer
<1> DEFINE d == serves[t]
<1>1. /\ host[t] \in Processes /\ host[u] \in Processes /\ d \in Databases
  BY DEF Types, ThreadTypes
<1>2. registered[host[t]][d] = t /\ registered[host[u]][d] = u
  BY DEF Places, Untold
<1>3. lock[d] = host[t] /\ lock[d] = host[u]
  BY <1>1, <1>2, SupervisorAssumption DEF Locked
<1> QED
  BY <1>2, <1>3

\* A death is stamped before the thread ends or when its corpse is found; the
\* corpse of a thread that was told to stop is never looked at.
Charges ==
    \A t \in Threads :
        /\ charged[t] \in {0, 1}
        /\ at[t] \in {"idle", "loading", "serving"} => charged[t] = 0
        /\ charged[t] = 1 => t \in counted \cup told

LEMMA ChargesKept ==
    ASSUME Charges, UNCHANGED <<charged, at, told, counted>>
    PROVE  Charges'
BY DEF Charges

LEMMA ChargeStep ==
    ASSUME Types, Places, Charges, [AnyNext]_vars
    PROVE  Charges'
<1> USE SupervisorAssumption
<1>1. CASE UNCHANGED vars
  BY <1>1, ChargesKept DEF vars, ledger, thread
<1>2. ASSUME NEW p \in Processes, NEW d \in Databases, NEW t \in Threads, DiscoverStarts(p, d, t)
      PROVE  Charges'
  <2>1. /\ at[t] = "idle" /\ UNCHANGED <<counted, charged>>
        /\ told' = told \ {t} /\ \A u \in Threads \ {t} : at'[u] = at[u]
    BY <1>2 DEF DiscoverStarts, NewThread, Types, ThreadTypes
  <2> QED
    BY <2>1 DEF Charges
<1>3. ASSUME NEW p \in Processes, NEW d \in Databases, DiscoverRemoves(p, d) \/ CleanupStops(p, d)
      PROVE  Charges'
  <2>1. /\ UNCHANGED <<at, charged>>
        /\ told' = told \cup {registered[p][d]} /\ counted' = counted \ {registered[p][d]}
    BY <1>3 DEF DiscoverRemoves, CleanupStops, SignalStop
  <2> QED
    BY <2>1 DEF Charges
<1>4. ASSUME NEW p \in Processes, NEW t \in Threads, JoinEnds(p, t) \/ JoinTimesOut(p, t)
      PROVE  Charges'
  <2>1. CASE JoinEnds(p, t)
    BY <2>1 DEF JoinEnds, Retire, Charges, Types, LedgerTypes, ThreadTypes
  <2>2. CASE JoinTimesOut(p, t)
    BY <2>2, ChargesKept DEF JoinTimesOut, thread
  <2> QED
    BY <1>4, <2>1, <2>2
<1>5. ASSUME NEW p \in Processes, NEW d \in Databases, CheckThreadHealth(p, d)
      PROVE  Charges'
  <2> DEFINE t         == registered[p][d]
             condemned == t \notin counted /\ failures[p][d] + 1 >= MaxFailures
  <2>1. t \in Threads /\ at[t] = "ended" /\ t \notin told
    BY <1>5 DEF CheckThreadHealth, Corpse, Places, Untold, Types, FleetTypes
  <2>2. CASE condemned
    <3>1. /\ counted' = counted \cup {t} /\ charged' = [charged EXCEPT ![t] = @ + 1]
          /\ UNCHANGED <<at, told>>
      BY <1>5, <2>2 DEF CheckThreadHealth, thread
    <3>2. charged[t] = 0
      BY <2>1, <2>2 DEF Charges
    <3> QED
      BY <2>1, <3>1, <3>2 DEF Charges, Types, LedgerTypes
  <2>3. CASE ~condemned
    <3>1. Replace(p, d, t)
      BY <1>5, <2>3 DEF CheckThreadHealth
    <3> QED
      BY <2>1, <3>1 DEF Replace, NewThread, Charges, Types, LedgerTypes, ThreadTypes
  <2> QED
    BY <2>2, <2>3
<1>6. ASSUME NEW p \in Processes, Exit(p)
      PROVE  Charges'
  BY <1>6 DEF Exit, Retire, Charges, Types, LedgerTypes, ThreadTypes
<1>7. ASSUME NEW t \in Threads, Crash(t)
      PROVE  Charges'
  BY <1>7 DEF Crash, RecordFailure, Charges, Types, LedgerTypes, ThreadTypes
<1>8. ASSUME NEW t \in Threads, End(t)
      PROVE  Charges'
  <2>1. CASE Retire({t})
    BY <2>1 DEF Retire, Charges, Types, LedgerTypes, ThreadTypes
  <2>2. CASE at' = [at EXCEPT ![t] = "ended"] /\ UNCHANGED <<counted, charged, told>>
    BY <2>2 DEF Charges, Types, ThreadTypes
  <2> QED
    BY <1>8, <2>1, <2>2 DEF End
<1>9. ASSUME NEW t \in Threads, LoadRegistry(t) \/ Return(t)
      PROVE  Charges'
  BY <1>9 DEF LoadRegistry, Return, ledger, Charges, Types, ThreadTypes
<1>10. ASSUME NEW t \in Threads,
              Hang(t) \/ LoadFails(t) \/ DatabaseError(t) \/ GateMoves(t) \/ WorkerClocksAge(t)
       PROVE  Charges'
  BY <1>10, ChargesKept
     DEF Hang, LoadFails, DatabaseError, GateMoves, WorkerClocksAge, ledger, thread
<1>11. ASSUME NEW p \in Processes, Stop(p) \/ Restart(p)
       PROVE  Charges'
  BY <1>11, ChargesKept DEF Stop, Restart, ledger, thread
<1>12. ASSUME NEW d \in Databases, NEW s \in Statuses, DatabaseBecomes(d, s)
       PROVE  Charges'
  BY <1>12, ChargesKept DEF DatabaseBecomes, ledger, thread
<1>13. ASSUME NEW p \in Processes, NEW d \in Databases,
              DiscoverSkips(p, d) \/ StampAges(p, d) \/ RetryClockAges(p, d)
       PROVE  Charges'
  BY <1>13, ChargesKept DEF DiscoverSkips, StampAges, RetryClockAges, ledger, thread
<1> QED
  BY <1>1, <1>2, <1>3, <1>4, <1>5, <1>6, <1>7, <1>8, <1>9, <1>10, <1>11, <1>12, <1>13
     DEF AnyNext, LateNext, PromptNext, Troubles, Loop, Target, Surroundings, CheckWorkerProgress, Die

LEMMA SupervisorInit == Init => Types /\ Places /\ Locked /\ Charges
BY SupervisorAssumption
   DEF Init, Empty, Types, FleetTypes, LedgerTypes, ThreadTypes, Statuses, Clocks,
       Places, Registered, Joined, Untold, Locked, Charges

LEMMA SupervisorInvariant == Init /\ [][AnyNext]_vars => [](Types /\ Places /\ Locked /\ Charges)
<1>1. Types /\ Places /\ Locked /\ Charges /\ [AnyNext]_vars
        => (Types /\ Places /\ Locked /\ Charges)'
  BY TypesStep, PlacesStep, LockStep, ChargeStep
<1> QED
  BY <1>1, SupervisorInit, PTL

LEMMA LateSteps == [LateNext]_vars => [AnyNext]_vars
BY DEF AnyNext

LEMMA PromptSteps == [PromptNext \/ Troubles]_vars => [AnyNext]_vars
BY DEF AnyNext, LateNext

\* The dictionaries, clocks and thread objects have their types; a registered
\* thread is one of this process and database.
THEOREM SupervisorTypeCorrect == (LateSpec => []TypeOK) /\ (PromptSpec => []TypeOK)
<1>1. Types /\ Places => TypeOK
  BY DEF Types, FleetTypes, LedgerTypes, ThreadTypes, Places, Registered, TypeOK
<1> QED
  BY <1>1, SupervisorInvariant, LateSteps, PromptSteps, PTL DEF LateSpec, PromptSpec

\* The advisory lock admits one worker per database, also while threads that
\* hang or outlive their join are still about: of two workers that serve one
\* database, one has been told to stop.
THEOREM DatabaseHasOneServer == LateSpec => []OneServer
<1>1. Types /\ Places /\ Locked => OneServer
  BY LockServes
<1> QED
  BY <1>1, SupervisorInvariant, LateSteps, PTL DEF LateSpec

\* _record_failure is called once per death, by the dying thread or by the
\* supervisor that finds the corpse.
THEOREM DeathChargedOnce == LateSpec => []ChargedOnce
<1>1. Charges => ChargedOnce
  BY DEF Charges, ChargedOnce
<1> QED
  BY <1>1, SupervisorInvariant, LateSteps, PTL DEF LateSpec

-----------------------------------------------------------------------------
(* Threads that end within the join: somebody looks after each of them. *)

PromptStep == PromptNext \/ Troubles

\* Every thread object is registered or joined.
Attended ==
    \A t \in Threads : at[t] # "idle" => registered[host[t]][serves[t]] = t \/ joining[host[t]] = t

LEMMA AttendedStep ==
    ASSUME Types, Places, Attended, [PromptStep]_vars
    PROVE  Attended'
<1> USE SupervisorAssumption
<1>0. ASSUME UNCHANGED <<registered, joining, host, serves>>,
             \A u \in Threads : at'[u] # "idle" => at[u] # "idle"
      PROVE  Attended'
  BY <1>0 DEF Attended
<1>1. CASE UNCHANGED vars
  BY <1>0, <1>1 DEF vars, fleet, thread
<1>2. ASSUME NEW p \in Processes, NEW d \in Databases, NEW t \in Threads, DiscoverStarts(p, d, t)
      PROVE  Attended'
  <2>1. /\ registered' = [registered EXCEPT ![p][d] = t] /\ UNCHANGED joining
        /\ registered[p][d] = NoThread /\ at[t] = "idle"
    BY <1>2 DEF DiscoverStarts
  <2>2. /\ host' = [host EXCEPT ![t] = p] /\ serves' = [serves EXCEPT ![t] = d]
        /\ \A u \in Threads \ {t} : at'[u] = at[u]
    BY <1>2 DEF DiscoverStarts, NewThread, Types, ThreadTypes
  <2> QED
    BY <2>1, <2>2 DEF Attended, Types, FleetTypes, ThreadTypes
<1>3. ASSUME NEW p \in Processes, NEW d \in Databases, DiscoverRemoves(p, d) \/ CleanupStops(p, d)
      PROVE  Attended'
  <2>1. /\ joining[p] = NoThread
        /\ registered' = [registered EXCEPT ![p][d] = NoThread]
        /\ joining' = [joining EXCEPT ![p] = registered[p][d]]
        /\ UNCHANGED <<at, host, serves>>
    BY <1>3 DEF DiscoverRemoves, CleanupStops, SignalStop, Looping
  <2> QED
    BY <2>1 DEF Attended, Types, FleetTypes, ThreadTypes
<1>4. ASSUME NEW p \in Processes, NEW t \in Threads, JoinEnds(p, t)
      PROVE  Attended'
  <2>1. /\ joining[p] = t /\ joining' = [joining EXCEPT ![p] = NoThread]
        /\ UNCHANGED registered /\ Retire({t})
    BY <1>4 DEF JoinEnds, AfterJoin
  <2> QED
    BY <2>1 DEF Attended, Retire, Types, FleetTypes, ThreadTypes
<1>5. ASSUME NEW p \in Processes, NEW d \in Databases, CheckThreadHealth(p, d)
      PROVE  Attended'
  <2> DEFINE t == registered[p][d]
  <2>1. t \in Threads /\ at[t] = "ended" /\ host[t] = p /\ serves[t] = d
    BY <1>5 DEF CheckThreadHealth, Corpse, Places, Registered, Types, FleetTypes
  <2>2. UNCHANGED <<registered, joining>> /\ (UNCHANGED thread \/ NewThread(t, p, d, "loading"))
    BY <1>5 DEF CheckThreadHealth, Replace, fleet
  <2>3. UNCHANGED <<host, serves>> /\ \A u \in Threads : at'[u] # "idle" => at[u] # "idle"
    BY <2>1, <2>2 DEF NewThread, thread, Types, ThreadTypes
  <2> QED
    BY <1>0, <2>2, <2>3
<1>6. ASSUME NEW p \in Processes, Exit(p)
      PROVE  Attended'
  BY <1>6 DEF Exit, Retire, Attended, Types, FleetTypes, ThreadTypes
<1>7. ASSUME NEW t \in Threads, End(t)
      PROVE  Attended'
  <2>1. UNCHANGED <<registered, joining>>
        /\ at' = [at EXCEPT ![t] = "ended"] /\ UNCHANGED <<host, serves>>
    BY <1>7 DEF End, Attended, Types, ThreadTypes
  <2> QED
    BY <1>0, <1>7, <2>1 DEF End, Types, ThreadTypes
<1>8. ASSUME NEW t \in Threads, LoadRegistry(t) \/ Return(t) \/ Crash(t)
      PROVE  Attended'
  BY <1>0, <1>8 DEF LoadRegistry, Return, Crash, fleet, Types, ThreadTypes
<1>9. ASSUME NEW t \in Threads, LoadFails(t) \/ DatabaseError(t) \/ GateMoves(t) \/ WorkerClocksAge(t)
      PROVE  Attended'
  BY <1>0, <1>9 DEF LoadFails, DatabaseError, GateMoves, WorkerClocksAge, fleet, thread
<1>10. ASSUME NEW p \in Processes, Stop(p) \/ Restart(p)
       PROVE  Attended'
  BY <1>0, <1>10 DEF Stop, Restart, thread
<1>11. ASSUME NEW d \in Databases, NEW s \in Statuses, DatabaseBecomes(d, s)
       PROVE  Attended'
  BY <1>0, <1>11 DEF DatabaseBecomes, fleet, thread
<1>12. ASSUME NEW p \in Processes, NEW d \in Databases,
              DiscoverSkips(p, d) \/ StampAges(p, d) \/ RetryClockAges(p, d)
       PROVE  Attended'
  BY <1>0, <1>12 DEF DiscoverSkips, StampAges, RetryClockAges, fleet, thread
<1> QED
  BY <1>1, <1>2, <1>3, <1>4, <1>5, <1>6, <1>7, <1>8, <1>9, <1>10, <1>11, <1>12
     DEF PromptStep, PromptNext, Troubles, Loop, Target, Surroundings, CheckWorkerProgress, Die

LEMMA QuarantineStep ==
    ASSUME Types, Places, Attended, QuarantineOnlyServed, [PromptStep]_vars
    PROVE  QuarantineOnlyServed'
<1> USE SupervisorAssumption
<1>0. ASSUME UNCHANGED <<registered, joining, serves>>,
             \A q \in Processes : quarantined'[q] \subseteq quarantined[q]
      PROVE  QuarantineOnlyServed'
  BY <1>0 DEF QuarantineOnlyServed
<1>1. CASE UNCHANGED vars
  BY <1>0, <1>1 DEF vars, fleet, ledger, thread
<1>2. ASSUME NEW p \in Processes, NEW d \in Databases, NEW t \in Threads, DiscoverStarts(p, d, t)
      PROVE  QuarantineOnlyServed'
  <2>1. /\ registered' = [registered EXCEPT ![p][d] = t] /\ UNCHANGED joining
        /\ quarantined' = [quarantined EXCEPT ![p] = StillQuarantined(p)]
        /\ at[t] = "idle" /\ serves' = [serves EXCEPT ![t] = d]
    BY <1>2 DEF DiscoverStarts, NewThread
  <2>2. \A q \in Processes : joining[q] # t
    BY <2>1 DEF Places, Joined
  <2> QED
    BY <2>1, <2>2 DEF QuarantineOnlyServed, StillQuarantined, Types, FleetTypes, LedgerTypes, ThreadTypes
<1>3. ASSUME NEW p \in Processes, NEW d \in Databases, DiscoverRemoves(p, d) \/ CleanupStops(p, d)
      PROVE  QuarantineOnlyServed'
  <2> DEFINE t == registered[p][d]
  <2>1. /\ joining[p] = NoThread /\ t # NoThread
        /\ registered' = [registered EXCEPT ![p][d] = NoThread]
        /\ joining' = [joining EXCEPT ![p] = t]
        /\ UNCHANGED serves
    BY <1>3 DEF DiscoverRemoves, CleanupStops, SignalStop, Looping
  <2>2. \A q \in Processes : quarantined'[q] \subseteq quarantined[q]
    BY <1>3 DEF DiscoverRemoves, CleanupStops, StillQuarantined, Types, LedgerTypes
  <2>3. serves[t] = d
    BY <2>1 DEF Places, Registered
  <2> QED
    BY <2>1, <2>2, <2>3 DEF QuarantineOnlyServed, Types, FleetTypes, LedgerTypes
<1>4. ASSUME NEW p \in Processes, NEW t \in Threads, JoinEnds(p, t)
      PROVE  QuarantineOnlyServed'
  <2>1. /\ joining[p] = t /\ joining' = [joining EXCEPT ![p] = NoThread]
        /\ UNCHANGED registered
        /\ quarantined' = [quarantined EXCEPT ![p] = @ \ {serves[t]}]
        /\ \A u \in Threads \ {t} : serves'[u] = serves[u]
    BY <1>4 DEF JoinEnds, AfterJoin, Retire
  <2>2. \A q \in Processes \ {p} : joining[q] # NoThread => serves'[joining[q]] = serves[joining[q]]
    BY <2>1 DEF Places, Joined, Types, FleetTypes
  <2> SUFFICES ASSUME NEW q \in Processes, NEW e \in quarantined'[q], registered'[q][e] = NoThread
               PROVE  joining'[q] # NoThread /\ serves'[joining'[q]] = e
    BY DEF QuarantineOnlyServed
  <2>3. e \in quarantined[q] /\ registered[q][e] = NoThread /\ (q = p => e # serves[t])
    BY <2>1 DEF Types, LedgerTypes
  <2>4. joining[q] # NoThread /\ serves[joining[q]] = e
    BY <2>3 DEF QuarantineOnlyServed
  <2> QED
    BY <2>1, <2>2, <2>3, <2>4 DEF Types, FleetTypes
<1>5. ASSUME NEW p \in Processes, NEW d \in Databases, CheckThreadHealth(p, d)
      PROVE  QuarantineOnlyServed'
  <2> DEFINE t == registered[p][d]
  <2>1. t # NoThread /\ t \in Threads /\ serves[t] = d
    BY <1>5 DEF CheckThreadHealth, Corpse, Places, Registered, Types, FleetTypes
  <2>2. UNCHANGED <<registered, joining>> /\ (UNCHANGED thread \/ NewThread(t, p, d, "loading"))
    BY <1>5 DEF CheckThreadHealth, Replace, fleet
  <2>3. UNCHANGED serves
    BY <2>1, <2>2 DEF NewThread, thread, Types, ThreadTypes
  <2>4. \A q \in Processes : \A e \in quarantined'[q] : e \in quarantined[q] \/ (q = p /\ e = d)
    BY <1>5 DEF CheckThreadHealth, Types, LedgerTypes
  <2> QED
    BY <2>1, <2>2, <2>3, <2>4 DEF QuarantineOnlyServed
<1>6. ASSUME NEW p \in Processes, Exit(p)
      PROVE  QuarantineOnlyServed'
  <2>1. /\ registered' = [registered EXCEPT ![p] = [d \in Databases |-> NoThread]]
        /\ joining' = [joining EXCEPT ![p] = NoThread]
        /\ quarantined' = [quarantined EXCEPT ![p] = {}]
        /\ \A u \in Threads : host[u] # p => serves'[u] = serves[u]
    BY <1>6 DEF Exit, Retire
  <2>2. \A q \in Processes \ {p} : joining[q] # NoThread => serves'[joining[q]] = serves[joining[q]]
    <3> SUFFICES ASSUME NEW q \in Processes \ {p}, joining[q] # NoThread
                 PROVE  serves'[joining[q]] = serves[joining[q]]
      OBVIOUS
    <3>1. joining[q] \in Threads /\ host[joining[q]] = q
      BY DEF Places, Joined, Types, FleetTypes
    <3> QED
      BY <2>1, <3>1
  <2> SUFFICES ASSUME NEW q \in Processes, NEW e \in quarantined'[q], registered'[q][e] = NoThread
               PROVE  joining'[q] # NoThread /\ serves'[joining'[q]] = e
    BY DEF QuarantineOnlyServed
  <2>3. q # p /\ e \in quarantined[q] /\ registered[q][e] = NoThread
    BY <2>1 DEF Types, LedgerTypes, FleetTypes
  <2>4. joining[q] # NoThread /\ serves[joining[q]] = e
    BY <2>3 DEF QuarantineOnlyServed
  <2> QED
    BY <2>1, <2>2, <2>3, <2>4 DEF Types, FleetTypes
<1>7. ASSUME NEW t \in Threads, Crash(t)
      PROVE  QuarantineOnlyServed'
  <2> DEFINE p == host[t]
             d == serves[t]
  <2>1. /\ at[t] # "idle" /\ UNCHANGED <<registered, joining, serves>>
        /\ \A q \in Processes : \A e \in quarantined'[q] : e \in quarantined[q] \/ (q = p /\ e = d)
    BY <1>7 DEF Crash, RecordFailure, fleet, Types, LedgerTypes, ThreadTypes
  <2>2. registered[p][d] = t \/ joining[p] = t
    BY <2>1 DEF Attended
  <2> QED
    BY <2>1, <2>2 DEF QuarantineOnlyServed
<1>8. ASSUME NEW t \in Threads, End(t)
      PROVE  QuarantineOnlyServed'
  BY <1>0, <1>8 DEF End, Attended, Types, ThreadTypes
<1>9. ASSUME NEW t \in Threads,
             \/ LoadRegistry(t) \/ Return(t) \/ LoadFails(t) \/ DatabaseError(t)
             \/ GateMoves(t) \/ WorkerClocksAge(t)
      PROVE  QuarantineOnlyServed'
  BY <1>0, <1>9 DEF LoadRegistry, Return, LoadFails, DatabaseError, GateMoves, WorkerClocksAge,
     fleet, ledger, thread
<1>10. ASSUME NEW p \in Processes, Stop(p) \/ Restart(p)
       PROVE  QuarantineOnlyServed'
  BY <1>0, <1>10 DEF Stop, Restart, ledger, thread
<1>11. ASSUME NEW d \in Databases, NEW s \in Statuses, DatabaseBecomes(d, s)
       PROVE  QuarantineOnlyServed'
  BY <1>0, <1>11 DEF DatabaseBecomes, fleet, ledger, thread
<1>12. ASSUME NEW p \in Processes, NEW d \in Databases,
              DiscoverSkips(p, d) \/ StampAges(p, d) \/ RetryClockAges(p, d)
       PROVE  QuarantineOnlyServed'
  BY <1>0, <1>12 DEF DiscoverSkips, StillQuarantined, StampAges, RetryClockAges, fleet, ledger, thread,
     Types, LedgerTypes
<1> QED
  BY <1>1, <1>2, <1>3, <1>4, <1>5, <1>6, <1>7, <1>8, <1>9, <1>10, <1>11, <1>12
     DEF PromptStep, PromptNext, Troubles, Loop, Target, Surroundings, CheckWorkerProgress, Die

\* WatchdogSees thread by thread.
Sees ==
    \A p \in Processes, d \in Databases, u \in Threads :
        registered[p][d] = u /\ at[u] = "serving" => instance[p][d] = u

LEMMA SeesEach ==
    ASSUME FleetTypes
    PROVE  WatchdogSees <=> Sees
<1>1. \A p \in Processes, d \in Databases :
        registered[p][d] # NoThread <=> registered[p][d] \in Threads
  BY SupervisorAssumption DEF FleetTypes
<1> QED
  BY <1>1 DEF WatchdogSees, Sees

LEMMA WatchdogStep ==
    ASSUME Types, Places, Attended, Sees, [PromptStep]_vars
    PROVE  Sees'
<1> USE SupervisorAssumption
<1>0. ASSUME UNCHANGED <<registered, instance>>,
             \A u \in Threads : at'[u] = "serving" => at[u] = "serving"
      PROVE  Sees'
  BY <1>0 DEF Sees
<1>a. /\ registered \in [Processes -> [Databases -> Threads \cup {NoThread}]]
      /\ instance \in [Processes -> [Databases -> Threads \cup {NoThread}]]
      /\ at \in [Threads -> {"idle", "loading", "serving", "ending", "ended"}]
  BY DEF Types, FleetTypes, ThreadTypes
<1>1. CASE UNCHANGED vars
  BY <1>0, <1>1 DEF vars, fleet, thread
<1>2. ASSUME NEW p \in Processes, NEW d \in Databases, NEW t \in Threads, DiscoverStarts(p, d, t)
      PROVE  Sees'
  <2>1. /\ registered' = [registered EXCEPT ![p][d] = t] /\ UNCHANGED instance
        /\ at'[t] # "serving" /\ \A u \in Threads \ {t} : at'[u] = at[u]
    BY <1>2 DEF DiscoverStarts, NewThread, Types, ThreadTypes
  <2> QED
    BY <1>a, <2>1 DEF Sees
<1>3. ASSUME NEW p \in Processes, NEW d \in Databases, DiscoverRemoves(p, d) \/ CleanupStops(p, d)
      PROVE  Sees'
  <2>1. registered' = [registered EXCEPT ![p][d] = NoThread] /\ UNCHANGED <<instance, at>>
    BY <1>3 DEF DiscoverRemoves, CleanupStops, SignalStop
  <2> QED
    BY <1>a, <2>1 DEF Sees
<1>4. ASSUME NEW p \in Processes, NEW t \in Threads, JoinEnds(p, t)
      PROVE  Sees'
  <2>1. /\ joining[p] = t /\ UNCHANGED registered
        /\ instance' = [instance EXCEPT ![p][serves[t]] = NoThread]
        /\ \A u \in Threads : at'[u] = "serving" => at[u] = "serving"
    BY <1>4 DEF JoinEnds, AfterJoin, Retire
  <2>2. registered[p][serves[t]] = NoThread
    BY <2>1 DEF Places, Joined
  <2> QED
    BY <1>a, <2>1, <2>2 DEF Sees
<1>5. ASSUME NEW p \in Processes, NEW d \in Databases, CheckThreadHealth(p, d)
      PROVE  Sees'
  <2> DEFINE t == registered[p][d]
  <2>1. t \in Threads /\ at[t] = "ended"
    BY <1>5 DEF CheckThreadHealth, Corpse, Types, FleetTypes
  <2>2. UNCHANGED registered
    BY <1>5 DEF CheckThreadHealth, Replace, fleet
  <2>3. \/ UNCHANGED <<instance, at>>
        \/ /\ instance' = [instance EXCEPT ![p][d] = NoThread]
           /\ at' = [at EXCEPT ![t] = "loading"]
    BY <1>5 DEF CheckThreadHealth, Replace, NewThread, fleet, thread
  <2>4. CASE UNCHANGED <<instance, at>>
    BY <1>0, <2>2, <2>4
  <2>5. CASE /\ instance' = [instance EXCEPT ![p][d] = NoThread]
             /\ at' = [at EXCEPT ![t] = "loading"]
    <3> SUFFICES ASSUME NEW q \in Processes, NEW e \in Databases, NEW u \in Threads,
                        registered'[q][e] = u, at'[u] = "serving"
                 PROVE  instance'[q][e] = u
      BY DEF Sees
    <3>1. u # t /\ at[u] = "serving" /\ registered[q][e] = u
      BY <1>a, <2>1, <2>2, <2>5
    <3>2. instance[q][e] = u /\ ~(q = p /\ e = d)
      BY <3>1 DEF Sees
    <3> QED
      BY <1>a, <2>5, <3>2
  <2> QED
    BY <2>3, <2>4, <2>5
<1>6. ASSUME NEW p \in Processes, Exit(p)
      PROVE  Sees'
  <2>1. /\ registered' = [registered EXCEPT ![p] = [d \in Databases |-> NoThread]]
        /\ instance' = [instance EXCEPT ![p] = [d \in Databases |-> NoThread]]
        /\ \A u \in Threads : at'[u] = "serving" => at[u] = "serving"
    BY <1>6 DEF Exit, Retire
  <2> QED
    BY <1>a, <2>1 DEF Sees
<1>7. ASSUME NEW t \in Threads, LoadRegistry(t)
      PROVE  Sees'
  <2>1. /\ at[t] = "loading" /\ at' = [at EXCEPT ![t] = "serving"] /\ UNCHANGED registered
        /\ instance' = [instance EXCEPT ![host[t]][serves[t]] = t]
    BY <1>7 DEF LoadRegistry
  <2>2. \A p \in Processes, d \in Databases :
            registered[p][d] = t => p = host[t] /\ d = serves[t]
    BY DEF Places, Registered
  <2>3. registered[host[t]][serves[t]] = t \/ registered[host[t]][serves[t]] = NoThread
    BY <2>1 DEF Attended, Places, Joined, Types, ThreadTypes
  <2> QED
    BY <1>a, <2>1, <2>2, <2>3 DEF Sees
<1>8. ASSUME NEW t \in Threads, End(t)
      PROVE  Sees'
  <2>1. /\ at[t] = "ending" /\ UNCHANGED registered
        /\ instance' = [instance EXCEPT ![host[t]][serves[t]] = NoThread]
    BY <1>8 DEF End
  <2>2. \A u \in Threads : at'[u] = "serving" => at[u] = "serving"
    BY <1>8 DEF End, Retire, Types, ThreadTypes
  <2>3. registered[host[t]][serves[t]] = t \/ registered[host[t]][serves[t]] = NoThread
    BY <2>1 DEF Attended, Places, Joined, Types, ThreadTypes
  <2> QED
    BY <1>a, <2>1, <2>2, <2>3 DEF Sees
<1>9. ASSUME NEW t \in Threads, Return(t) \/ Crash(t)
      PROVE  Sees'
  BY <1>0, <1>9 DEF Return, Crash, fleet, Types, ThreadTypes
<1>10. ASSUME NEW t \in Threads,
              LoadFails(t) \/ DatabaseError(t) \/ GateMoves(t) \/ WorkerClocksAge(t)
       PROVE  Sees'
  BY <1>0, <1>10 DEF LoadFails, DatabaseError, GateMoves, WorkerClocksAge, fleet, thread
<1>11. ASSUME NEW p \in Processes, Stop(p) \/ Restart(p)
       PROVE  Sees'
  BY <1>0, <1>11 DEF Stop, Restart, thread
<1>12. ASSUME NEW d \in Databases, NEW s \in Statuses, DatabaseBecomes(d, s)
       PROVE  Sees'
  BY <1>0, <1>12 DEF DatabaseBecomes, fleet, thread
<1>13. ASSUME NEW p \in Processes, NEW d \in Databases,
              DiscoverSkips(p, d) \/ StampAges(p, d) \/ RetryClockAges(p, d)
       PROVE  Sees'
  BY <1>0, <1>13 DEF DiscoverSkips, StampAges, RetryClockAges, fleet, thread
<1> QED
  BY <1>1, <1>2, <1>3, <1>4, <1>5, <1>6, <1>7, <1>8, <1>9, <1>10, <1>11, <1>12, <1>13
     DEF PromptStep, PromptNext, Troubles, Loop, Target, Surroundings, CheckWorkerProgress, Die

\* Inductive on top of Types and Places.
PromptInv == Attended /\ QuarantineOnlyServed /\ Sees

LEMMA PromptInvariant == PromptSpec => []PromptInv
<1>1. Init => PromptInv
  BY SupervisorAssumption DEF Init, Empty, PromptInv, Attended, QuarantineOnlyServed, Sees
<1>2. /\ Types /\ Places /\ PromptInv /\ [PromptNext \/ Troubles]_vars
      => PromptInv'
  BY AttendedStep, QuarantineStep, WatchdogStep DEF PromptInv, PromptStep
<1> QED
  BY <1>1, <1>2, SupervisorInvariant, PromptSteps, PTL DEF PromptSpec

\* _stop_worker_thread drops the history with the service: a quarantined
\* database has a registered thread, or one its supervisor is still joining.
THEOREM QuarantineServed == PromptSpec => []QuarantineOnlyServed
<1>1. PromptInv => QuarantineOnlyServed
  BY DEF PromptInv
<1> QED
  BY <1>1, PromptInvariant, PTL

\* No other thread of the database takes a serving worker out of
\* _worker_instances, as long as threads end within the join.
THEOREM WatchdogCovers == PromptSpec => []WatchdogSees
<1>1. Types /\ PromptInv => WatchdogSees
  BY SeesEach DEF PromptInv, Types
<1> QED
  BY <1>1, PromptInvariant, SupervisorInvariant, PromptSteps, PTL DEF PromptSpec
=============================================================================
