------------------------- MODULE ChannelLimitsProofs -------------------------
(***************************************************************************)
(* How far a channel's limits hold, for every number of workers, rows and  *)
(* channels.  Statements that look at the same time do not see each        *)
(* other's rows, so n workers may exceed a limit, by n - 1 and no more;    *)
(* one worker keeps it.  That is for the rows whose heartbeat never        *)
(* lapsed: every row whose heartbeat came back may be one more.            *)
(***************************************************************************)
EXTENDS ChannelLimits, FiniteSetTheorems, TLAPS

Channels == {Channel[j] : j \in Jobs}

TypesOK ==
    /\ state \in [Jobs -> {"pending", "started", "done", "failed"}]
    /\ owner \in [Jobs -> Workers \cup {NoWorker}]
    /\ stale \subseteq Jobs /\ lapsed \subseteq Jobs /\ touched \subseteq Jobs /\ begun \subseteq Jobs
    /\ looking \subseteq Workers
    /\ running \in [Workers -> SUBSET Jobs]
    /\ recent \in [Workers -> SUBSET Jobs]

\* The rows that run and whose heartbeat never lapsed.
Punctual == Fresh \ lapsed

\* A stale row has lapsed; the rows that run or were written lately are
\* finitely many, and a start is a write.
FiniteTable ==
    /\ stale \subseteq lapsed
    /\ IsFiniteSet(Fresh) /\ IsFiniteSet(touched) /\ begun \subseteq touched

\* The workers whose statement is under way and may still take a row of c,
\* as far as each of the two bounds goes.
MayTake(c)  == {w \in looking : ~(Cardinality(In(running[w], c)) >= Limit[c])}
MayStart(c) == {w \in looking : ~(Cardinality(In(recent[w], c)) >= Rate[c])}

\* The starts that RateLimitHolds and LastingStartsLimited count.
LastingStarts(c) == {j \in In(begun, c) : state[j] \in {"started", "done"}}

\* Every row that runs has used up the turn of the statement that took it.
LimitInv ==
    \A c \in Channels :
        Cardinality(In(Punctual, c)) + Cardinality(MayTake(c)) <= Limit[c] + Cardinality(Workers) - 1
RateInv ==
    \A c \in Channels : Rate[c] # 0 =>
        Cardinality(LastingStarts(c)) + Cardinality(MayStart(c)) <= Rate[c] + Cardinality(Workers) - 1

\* What is no look at the table and no start.
RowStep(j) ==
    \/ Overruns(j) \/ EndUnrecorded(j) \/ GoesStale(j) \/ HeartbeatUpdate(j) \/ SecondPasses(j)
    \/ \E s \in {"done", "failed", "pending"} : End(j, s)
OtherStep ==
    \/ \E w \in Workers : Leave(w) \/ Die(w) \/ \E j \in Jobs : GiveUp(w, j)
    \/ \E j \in Jobs : RowStep(j)
    \/ UNCHANGED vars

SomeWorkers == IsFiniteSet(Workers) /\ Workers # {}

-----------------------------------------------------------------------------
LEMMA TypesStep ==
    ASSUME TypesOK, [Next]_vars
    PROVE  TypesOK'
<1>1. ASSUME NEW w \in Workers, Look(w)
      PROVE  TypesOK'
  BY <1>1 DEF Look, Fresh, TypesOK
<1>2. ASSUME NEW w \in Workers, NEW j \in Jobs, Take(w, j) \/ GiveUp(w, j)
      PROVE  TypesOK'
  BY <1>2 DEF Take, GiveUp, Close, TypesOK
<1>3. ASSUME NEW w \in Workers, Leave(w) \/ Die(w)
      PROVE  TypesOK'
  BY <1>3 DEF Leave, Die, Close, TypesOK
<1>4. ASSUME NEW j \in Jobs, NEW s \in {"done", "failed", "pending"}, End(j, s)
      PROVE  TypesOK'
  BY <1>4 DEF End, TypesOK
<1>5. ASSUME NEW j \in Jobs, \/ Overruns(j) \/ EndUnrecorded(j) \/ GoesStale(j)
                            \/ HeartbeatUpdate(j) \/ SecondPasses(j)
      PROVE  TypesOK'
  BY <1>5 DEF Overruns, EndUnrecorded, GoesStale, HeartbeatUpdate, SecondPasses, Fresh, TypesOK
<1>6. CASE UNCHANGED vars
  BY <1>6 DEF vars, TypesOK
<1> QED
  BY <1>1, <1>2, <1>3, <1>4, <1>5, <1>6 DEF Next

\* The end of a statement is the end of its turn.
LEMMA TurnEnds ==
    ASSUME TypesOK, NEW w \in Workers, Close(w), NEW c
    PROVE  MayTake(c)' = MayTake(c) \ {w} /\ MayStart(c)' = MayStart(c) \ {w}
BY DEF Close, MayTake, MayStart, In, TypesOK

\* Only a start adds to the rows that run, to the starts of the last second, or
\* lets a statement go on.
LEMMA OtherSteps ==
    ASSUME TypesOK, stale \subseteq lapsed, OtherStep,
           NEW c
    PROVE  /\ Punctual' \subseteq Punctual /\ stale' \subseteq lapsed'
           /\ LastingStarts(c)' \subseteq LastingStarts(c)
           /\ MayTake(c)' \subseteq MayTake(c)
           /\ MayStart(c)' \subseteq MayStart(c)
<1>1. ASSUME NEW w \in Workers, Leave(w) \/ Die(w)
      PROVE  /\ UNCHANGED <<state, stale, lapsed, begun>>
             /\ MayTake(c)' \subseteq MayTake(c) /\ MayStart(c)' \subseteq MayStart(c)
  BY <1>1, TurnEnds DEF Leave, Die
<1>2. ASSUME NEW w \in Workers, NEW j \in Jobs, GiveUp(w, j)
      PROVE  /\ Punctual' \subseteq Punctual /\ stale' \subseteq lapsed'
             /\ LastingStarts(c)' \subseteq LastingStarts(c)
             /\ MayTake(c)' \subseteq MayTake(c) /\ MayStart(c)' \subseteq MayStart(c)
  <2>1. MayTake(c)' \subseteq MayTake(c) /\ MayStart(c)' \subseteq MayStart(c)
    BY <1>2, TurnEnds DEF GiveUp
  <2>2. Punctual' \subseteq Punctual /\ stale' \subseteq lapsed'
    BY <1>2 DEF GiveUp, Punctual, Fresh, TypesOK
  <2>3. LastingStarts(c)' \subseteq LastingStarts(c)
    BY <1>2 DEF GiveUp, LastingStarts, In, TypesOK
  <2> QED
    BY <2>1, <2>2, <2>3
<1>3. ASSUME UNCHANGED <<looking, running, recent>>
      PROVE  MayTake(c)' = MayTake(c) /\ MayStart(c)' = MayStart(c)
  BY <1>3 DEF MayTake, MayStart
<1>4. ASSUME NEW j \in Jobs, RowStep(j)
      PROVE  /\ Punctual' \subseteq Punctual /\ stale' \subseteq lapsed'
             /\ LastingStarts(c)' \subseteq LastingStarts(c)
             /\ UNCHANGED <<looking, running, recent>>
  <2>1. UNCHANGED <<looking, running, recent>>
    BY <1>4 DEF RowStep, Overruns, EndUnrecorded, GoesStale, HeartbeatUpdate, SecondPasses, End
  <2>2. CASE \/ Overruns(j) \/ EndUnrecorded(j) \/ GoesStale(j) \/ HeartbeatUpdate(j)
             \/ SecondPasses(j)
    BY <2>1, <2>2
    DEF Overruns, EndUnrecorded, GoesStale, HeartbeatUpdate, SecondPasses,
        Punctual, Fresh, LastingStarts, In, TypesOK
  <2>3. ASSUME NEW s \in {"done", "failed", "pending"}, End(j, s)
        PROVE  /\ Punctual' \subseteq Punctual /\ stale' \subseteq lapsed'
               /\ LastingStarts(c)' \subseteq LastingStarts(c)
    BY <2>3 DEF End, Punctual, Fresh, LastingStarts, In, TypesOK
  <2> QED
    BY <1>4, <2>1, <2>2, <2>3 DEF RowStep
<1>5. ASSUME UNCHANGED <<state, stale, lapsed, begun>>
      PROVE  /\ Punctual' = Punctual /\ stale' \subseteq lapsed'
             /\ LastingStarts(c)' = LastingStarts(c)
  BY <1>5 DEF Punctual, Fresh, LastingStarts
<1> QED
  BY <1>1, <1>2, <1>3, <1>4, <1>5 DEF vars, OtherStep

LEMMA TakenRow ==
    ASSUME TypesOK, stale \subseteq lapsed, NEW w \in Workers, NEW j \in Jobs, Take(w, j)
    PROVE  /\ Punctual' = Punctual \cup {j} /\ stale' \subseteq lapsed'
           /\ touched' = touched \cup {j} /\ begun' = begun \cup {j}
BY DEF Take, Punctual, Fresh, TypesOK

LEMMA FiniteStep ==
    ASSUME TypesOK, FiniteTable, [Next]_vars
    PROVE  FiniteTable'
<1>1. ASSUME NEW w \in Workers, NEW j \in Jobs, Take(w, j)
      PROVE  FiniteTable'
  <2>1. Fresh' = Fresh \cup {j}
    BY <1>1 DEF Take, Fresh, TypesOK
  <2> QED
    BY <1>1, <2>1, TakenRow, FS_AddElement DEF FiniteTable
<1>2. ASSUME NEW w \in Workers, Look(w)
      PROVE  FiniteTable'
  BY <1>2 DEF Look, Fresh, FiniteTable
<1>3. ASSUME OtherStep
      PROVE  FiniteTable'
  <2>0. Fresh' \subseteq Fresh \/ \E j \in Jobs : Fresh' = Fresh \cup {j}
    BY <1>3 DEF OtherStep, RowStep, Leave, Die, GiveUp, End, Overruns, EndUnrecorded, GoesStale,
                HeartbeatUpdate, SecondPasses, vars, Fresh, TypesOK
  <2>1. IsFiniteSet(Fresh') /\ stale' \subseteq lapsed'
    BY <1>3, <2>0, OtherSteps, FS_Subset, FS_AddElement DEF FiniteTable
  <2>2. touched' \subseteq touched \/ \E j \in Jobs : touched' = touched \cup {j}
    BY <1>3 DEF OtherStep, RowStep, Leave, Die, GiveUp, End, Overruns, EndUnrecorded, GoesStale,
                  HeartbeatUpdate, SecondPasses, vars
  <2>3. IsFiniteSet(touched')
    BY <2>2, FS_Subset, FS_AddElement DEF FiniteTable
  <2>4. begun' \subseteq touched'
    BY <1>3 DEF OtherStep, RowStep, Leave, Die, GiveUp, End, Overruns, EndUnrecorded, GoesStale,
                  HeartbeatUpdate, SecondPasses, vars, FiniteTable
  <2> QED
    BY <2>1, <2>3, <2>4 DEF FiniteTable
<1> QED
  BY <1>1, <1>2, <1>3 DEF Next, OtherStep, RowStep

-----------------------------------------------------------------------------
LEMMA SubsetSize ==
    ASSUME NEW T, IsFiniteSet(T), NEW S, S \subseteq T
    PROVE  /\ IsFiniteSet(S)
           /\ Cardinality(S) \in Nat /\ Cardinality(T) \in Nat
           /\ Cardinality(S) <= Cardinality(T)
BY FS_Subset, FS_CardinalityType

\* Turn is one of MayTake(c) and MayStart(c), Rows what its bound is on.  A
\* statement that looks goes on only if it sees less than the bound, and one
\* that takes a row gives up its turn.
LEMMA Overshoot ==
    ASSUME SomeWorkers, NEW Bound \in Nat,
           NEW Rows, IsFiniteSet(Rows), NEW newRows,
           NEW Turn, Turn \subseteq Workers, NEW newTurn, newTurn \subseteq Workers,
           Cardinality(Rows) + Cardinality(Turn) <= Bound + Cardinality(Workers) - 1,
           \/ newRows \subseteq Rows /\ newTurn \subseteq Turn
           \/ newRows = Rows /\ Cardinality(Rows) < Bound
           \/ \E j, w : newRows \subseteq Rows \cup {j} /\ w \in Turn /\ newTurn = Turn \ {w}
    PROVE  Cardinality(newRows) + Cardinality(newTurn) <= Bound + Cardinality(Workers) - 1
<1>1. /\ IsFiniteSet(Turn) /\ IsFiniteSet(newTurn)
      /\ Cardinality(Turn) \in Nat /\ Cardinality(newTurn) \in Nat
      /\ Cardinality(newTurn) <= Cardinality(Workers)
      /\ Cardinality(Workers) \in Nat /\ Cardinality(Rows) \in Nat
  BY SubsetSize DEF SomeWorkers
<1>2. CASE newRows \subseteq Rows /\ newTurn \subseteq Turn
  <2>1. Cardinality(newRows) \in Nat /\ Cardinality(newRows) <= Cardinality(Rows)
        /\ Cardinality(newTurn) <= Cardinality(Turn)
    BY <1>1, <1>2, SubsetSize
  <2> QED
    BY <1>1, <2>1
<1>3. CASE newRows = Rows /\ Cardinality(Rows) < Bound
  BY <1>1, <1>3
<1>4. ASSUME NEW j, NEW w, newRows \subseteq Rows \cup {j}, w \in Turn, newTurn = Turn \ {w}
      PROVE  Cardinality(newRows) + Cardinality(newTurn) <= Bound + Cardinality(Workers) - 1
  <2>1. Cardinality(newTurn) = Cardinality(Turn) - 1
    BY <1>1, <1>4, FS_RemoveElement
  <2>2. IsFiniteSet(Rows \cup {j}) /\ Cardinality(Rows \cup {j}) <= Cardinality(Rows) + 1
    <3>1. /\ IsFiniteSet(Rows \cup {j})
          /\ \/ Cardinality(Rows \cup {j}) = Cardinality(Rows)
             \/ Cardinality(Rows \cup {j}) = Cardinality(Rows) + 1
      BY FS_AddElement
    <3> QED
      BY <1>1, <3>1
  <2>3. Cardinality(newRows) \in Nat /\ Cardinality(newRows) <= Cardinality(Rows \cup {j})
        /\ Cardinality(Rows \cup {j}) \in Nat
    BY <1>4, <2>2, SubsetSize
  <2> QED
    BY <1>1, <2>1, <2>2, <2>3
<1> QED
  BY <1>2, <1>3, <1>4

LEMMA LimitStep ==
    ASSUME SomeWorkers, TypesOK, FiniteTable, LimitInv, [Next]_vars
    PROVE  LimitInv'
<1> SUFFICES ASSUME NEW c \in Channels
             PROVE  Cardinality(In(Punctual', c)) + Cardinality(MayTake(c)')
                        <= Limit[c] + Cardinality(Workers) - 1
  BY DEF LimitInv, In
<1>0. /\ Limit[c] \in Nat
      /\ IsFiniteSet(In(Punctual, c)) /\ Cardinality(In(Punctual, c)) \in Nat
      /\ MayTake(c) \subseteq Workers /\ MayTake(c)' \subseteq Workers
      /\ Cardinality(In(Punctual, c)) + Cardinality(MayTake(c)) <= Limit[c] + Cardinality(Workers) - 1
  <2>1. In(Punctual, c) \subseteq Punctual
    BY DEF In
  <2>2. IsFiniteSet(Punctual)
    BY FS_Subset DEF FiniteTable, Punctual
  <2> QED
    BY <2>1, <2>2, SubsetSize, LimitAssumption, TypesStep
    DEF Channels, MayTake, TypesOK, LimitInv
<1>1. ASSUME NEW w \in Workers, Look(w)
      PROVE  \/ In(Punctual', c) \subseteq In(Punctual, c) /\ MayTake(c)' \subseteq MayTake(c)
             \/ In(Punctual', c) = In(Punctual, c) /\ Cardinality(In(Punctual, c)) < Limit[c]
  <2>1. Punctual' = Punctual
    BY <1>1 DEF Look, Punctual, Fresh
  <2>2. CASE Cardinality(In(Fresh, c)) >= Limit[c]
    BY <1>1, <2>1, <2>2 DEF Look, MayTake, TypesOK
  <2>3. CASE ~(Cardinality(In(Fresh, c)) >= Limit[c])
    <3>1. IsFiniteSet(In(Fresh, c)) /\ In(Punctual, c) \subseteq In(Fresh, c)
      BY FS_Subset DEF FiniteTable, In, Punctual
    <3> QED
      BY <1>0, <2>1, <2>3, <3>1, SubsetSize
  <2> QED
    BY <2>2, <2>3
<1>2. ASSUME NEW w \in Workers, NEW j \in Jobs, Take(w, j)
      PROVE  \/ In(Punctual', c) \subseteq In(Punctual, c) /\ MayTake(c)' \subseteq MayTake(c)
             \/ /\ In(Punctual', c) \subseteq In(Punctual, c) \cup {j}
                /\ w \in MayTake(c) /\ MayTake(c)' = MayTake(c) \ {w}
  <2>1. MayTake(c)' = MayTake(c) \ {w} /\ Punctual' = Punctual \cup {j}
    BY <1>2, TurnEnds, TakenRow DEF Take, FiniteTable
  <2>2. CASE Channel[j] = c
    <3>1. w \in MayTake(c)
      BY <1>2, <2>2 DEF Take, Throttled, MayTake
    <3> QED
      BY <2>1, <3>1 DEF In
  <2>3. CASE Channel[j] # c
    BY <2>1, <2>3 DEF In
  <2> QED
    BY <2>2, <2>3
<1>3. ASSUME OtherStep
      PROVE  In(Punctual', c) \subseteq In(Punctual, c) /\ MayTake(c)' \subseteq MayTake(c)
  BY <1>3, OtherSteps DEF In, FiniteTable
<1>4. \/ In(Punctual', c) \subseteq In(Punctual, c) /\ MayTake(c)' \subseteq MayTake(c)
      \/ In(Punctual', c) = In(Punctual, c) /\ Cardinality(In(Punctual, c)) < Limit[c]
      \/ \E j, w : /\ In(Punctual', c) \subseteq In(Punctual, c) \cup {j}
                   /\ w \in MayTake(c) /\ MayTake(c)' = MayTake(c) \ {w}
  BY <1>1, <1>2, <1>3 DEF Next, OtherStep, RowStep
<1> QED
  BY <1>0, <1>4, Overshoot

LEMMA RateStep ==
    ASSUME SomeWorkers, TypesOK, FiniteTable, RateInv, [Next]_vars
    PROVE  RateInv'
<1> SUFFICES ASSUME NEW c \in Channels, Rate[c] # 0
             PROVE  Cardinality(LastingStarts(c)') + Cardinality(MayStart(c)')
                        <= Rate[c] + Cardinality(Workers) - 1
  BY DEF RateInv
<1>0. /\ Rate[c] \in Nat
      /\ IsFiniteSet(LastingStarts(c)) /\ Cardinality(LastingStarts(c)) \in Nat
      /\ MayStart(c) \subseteq Workers /\ MayStart(c)' \subseteq Workers
      /\ Cardinality(LastingStarts(c)) + Cardinality(MayStart(c)) <= Rate[c] + Cardinality(Workers) - 1
  <2>1. LastingStarts(c) \subseteq touched
    BY DEF In, LastingStarts, FiniteTable
  <2> QED
    BY <2>1, SubsetSize, LimitAssumption, TypesStep
    DEF Channels, FiniteTable, MayStart, TypesOK, RateInv
<1>1. ASSUME NEW w \in Workers, Look(w)
      PROVE  \/ LastingStarts(c)' \subseteq LastingStarts(c) /\ MayStart(c)' \subseteq MayStart(c)
             \/ LastingStarts(c)' = LastingStarts(c) /\ Cardinality(LastingStarts(c)) < Rate[c]
  <2>1. LastingStarts(c)' = LastingStarts(c)
    BY <1>1 DEF Look, LastingStarts
  <2> DEFINE seen == In({j \in touched : state[j] \in {"started", "done"}}, c)
  <2>2. CASE Cardinality(seen) >= Rate[c]
    BY <1>1, <2>1, <2>2 DEF Look, MayStart, TypesOK
  <2>3. CASE ~(Cardinality(seen) >= Rate[c])
    <3>1. seen \subseteq touched /\ LastingStarts(c) \subseteq seen
      BY DEF In, LastingStarts, FiniteTable
    <3> HIDE DEF seen
    <3>2. IsFiniteSet(seen) /\ Cardinality(seen) \in Nat
      BY <3>1, SubsetSize DEF FiniteTable
    <3>3. Cardinality(LastingStarts(c)) <= Cardinality(seen)
      BY <3>1, <3>2, SubsetSize
    <3> QED
      BY <1>0, <2>1, <2>3, <3>2, <3>3
  <2> QED
    BY <2>2, <2>3
<1>2. ASSUME NEW w \in Workers, NEW j \in Jobs, Take(w, j)
      PROVE  \/ LastingStarts(c)' \subseteq LastingStarts(c) /\ MayStart(c)' \subseteq MayStart(c)
             \/ /\ LastingStarts(c)' \subseteq LastingStarts(c) \cup {j}
                /\ w \in MayStart(c) /\ MayStart(c)' = MayStart(c) \ {w}
  <2>1. MayStart(c)' = MayStart(c) \ {w}
    BY <1>2, TurnEnds DEF Take
  <2>2. CASE Channel[j] = c
    BY <1>2, <2>1, <2>2 DEF Take, Throttled, MayStart, LastingStarts, In, TypesOK
  <2>3. CASE Channel[j] # c
    BY <1>2, <2>1, <2>3 DEF Take, LastingStarts, In, TypesOK
  <2> QED
    BY <2>2, <2>3
<1>3. ASSUME OtherStep
      PROVE  LastingStarts(c)' \subseteq LastingStarts(c) /\ MayStart(c)' \subseteq MayStart(c)
  BY <1>3, OtherSteps DEF FiniteTable
<1>4. \/ LastingStarts(c)' \subseteq LastingStarts(c) /\ MayStart(c)' \subseteq MayStart(c)
      \/ LastingStarts(c)' = LastingStarts(c) /\ Cardinality(LastingStarts(c)) < Rate[c]
      \/ \E j, w : /\ LastingStarts(c)' \subseteq LastingStarts(c) \cup {j}
                   /\ w \in MayStart(c) /\ MayStart(c)' = MayStart(c) \ {w}
  BY <1>1, <1>2, <1>3 DEF Next, OtherStep, RowStep
<1> QED
  BY <1>0, <1>4, Overshoot

-----------------------------------------------------------------------------
LEMMA LimitsInit ==
    ASSUME SomeWorkers, Init
    PROVE  TypesOK /\ FiniteTable /\ LimitInv /\ RateInv
<1>1. Fresh = {} /\ Punctual = {} /\ touched = {} /\ begun = {}
  BY DEF Init, Fresh, Punctual
<1>2. \A c : In(Punctual, c) = {} /\ LastingStarts(c) = {} /\ MayTake(c) = {} /\ MayStart(c) = {}
  BY <1>1 DEF Init, In, LastingStarts, MayTake, MayStart
<1>3. Cardinality(Workers) \in Nat \ {0}
  BY FS_CardinalityType, FS_EmptySet DEF SomeWorkers
<1>4. \A c \in Channels : Limit[c] \in Nat /\ Rate[c] \in Nat
  BY LimitAssumption DEF Channels
<1>5. TypesOK /\ FiniteTable
  BY <1>1, FS_EmptySet DEF Init, TypesOK, FiniteTable
<1>6. Cardinality({}) = 0
  BY FS_EmptySet
<1>7. ASSUME NEW c \in Channels
      PROVE  /\ Cardinality(In(Punctual, c)) + Cardinality(MayTake(c)) = 0
             /\ Cardinality(LastingStarts(c)) + Cardinality(MayStart(c)) = 0
             /\ 0 <= Limit[c] + Cardinality(Workers) - 1
             /\ 0 <= Rate[c] + Cardinality(Workers) - 1
  <2>1. /\ Cardinality(In(Punctual, c)) = 0 /\ Cardinality(MayTake(c)) = 0
        /\ Cardinality(LastingStarts(c)) = 0 /\ Cardinality(MayStart(c)) = 0
    BY <1>2, <1>6, Zenon
  <2>2. Limit[c] \in Nat /\ Rate[c] \in Nat
    BY <1>4
  <2> QED
    BY <1>3, <2>1, <2>2
<1> QED
  BY <1>5, <1>7 DEF LimitInv, RateInv

LEMMA LimitsInvariant ==
    ASSUME SomeWorkers
    PROVE  Spec => [](TypesOK /\ FiniteTable /\ LimitInv /\ RateInv)
<1>1. Init => TypesOK /\ FiniteTable /\ LimitInv /\ RateInv
  BY LimitsInit
<1>2. TypesOK /\ FiniteTable /\ LimitInv /\ RateInv /\ [Next]_vars
        => TypesOK' /\ FiniteTable' /\ LimitInv' /\ RateInv'
  BY TypesStep, FiniteStep, LimitStep, RateStep
<1> QED
  BY <1>1, <1>2, PTL DEF Spec

\* n workers that look at the same time run at most n - 1 jobs of a channel more
\* than its limit while no heartbeat lapses, and start at most n - 1 more in a second than its rate.
LimitOvershoot ==
    \A c \in Channels : Cardinality(In(Punctual, c)) <= Limit[c] + Cardinality(Workers) - 1
RateOvershoot ==
    \A c \in Channels : Rate[c] # 0 =>
        Cardinality(LastingStarts(c)) <= Rate[c] + Cardinality(Workers) - 1

LEMMA Overshoots ==
    ASSUME SomeWorkers, TypesOK, FiniteTable, LimitInv, RateInv
    PROVE  LimitOvershoot /\ RateOvershoot
<1>1. ASSUME NEW c \in Channels
      PROVE  /\ Cardinality(In(Punctual, c)) \in Nat /\ Cardinality(LastingStarts(c)) \in Nat
             /\ Cardinality(MayTake(c)) \in Nat /\ Cardinality(MayStart(c)) \in Nat
             /\ Cardinality(Workers) \in Nat
             /\ Limit[c] \in Nat /\ Rate[c] \in Nat
  <2>1. In(Punctual, c) \subseteq Fresh /\ LastingStarts(c) \subseteq touched
        /\ MayTake(c) \subseteq Workers /\ MayStart(c) \subseteq Workers
    BY DEF In, Punctual, LastingStarts, FiniteTable, MayTake, MayStart, TypesOK
  <2> QED
    BY <2>1, SubsetSize, FS_CardinalityType, LimitAssumption DEF FiniteTable, SomeWorkers, Channels
<1> QED
  BY <1>1 DEF LimitOvershoot, RateOvershoot, LimitInv, RateInv

\* However many statements of the n workers read the table at the same time,
\* the jobs of a channel whose heartbeat never lapsed are at most n - 1 too many,
\* and so are the starts within a second (the acquire statement of _acquire_job).
THEOREM ChannelsOvershoot ==
    ASSUME SomeWorkers
    PROVE  Spec => [](LimitOvershoot /\ RateOvershoot)
BY LimitsInvariant, Overshoots, PTL

\* With one worker the overshoot is none.
LEMMA OneWorker ==
    ASSUME IsFiniteSet(Workers), Cardinality(Workers) = 1
    PROVE  Spec => [](PunctualLimitHolds /\ LastingStartsLimited)
<1>1. SomeWorkers
  BY FS_EmptySet DEF SomeWorkers
<1>2. TypesOK /\ FiniteTable /\ LimitInv /\ RateInv => PunctualLimitHolds /\ LastingStartsLimited
  <2> SUFFICES ASSUME TypesOK, FiniteTable, LimitInv, RateInv
               PROVE  PunctualLimitHolds /\ LastingStartsLimited
    OBVIOUS
  <2>1. LimitOvershoot /\ RateOvershoot
    BY <1>1, Overshoots
  <2>2. \A c \in Channels : Limit[c] \in Nat /\ Rate[c] \in Nat
    BY LimitAssumption DEF Channels
  <2>3. \A c : In(Fresh \ lapsed, c) = In(Punctual, c)
    BY DEF Punctual
  <2>4. PunctualLimitHolds
    BY <2>1, <2>2, <2>3 DEF LimitOvershoot, PunctualLimitHolds, Channels
  <2>5. LastingStartsLimited
    BY <2>1, <2>2 DEF RateOvershoot, LastingStartsLimited, LastingStarts, Channels
  <2> QED
    BY <2>4, <2>5
<1> QED
  BY <1>1, <1>2, LimitsInvariant, PTL

\* The only worker of a database never runs more rows of a channel than its
\* limit, but for those whose heartbeat lapsed since it took them (an execution
\* that overran and whose heartbeat came back, for one).
THEOREM OneWorkerKeepsLimits ==
    ASSUME IsFiniteSet(Workers), Cardinality(Workers) = 1
    PROVE  Spec => []PunctualLimitHolds
BY OneWorker, PTL

\* Nor does it start more in a second than the channel's rate, not counting the
\* starts that failed since.
THEOREM OneWorkerKeepsRates ==
    ASSUME IsFiniteSet(Workers), Cardinality(Workers) = 1
    PROVE  Spec => []LastingStartsLimited
BY OneWorker, PTL
=============================================================================
