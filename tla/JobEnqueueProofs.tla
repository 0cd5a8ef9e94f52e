-------------------------- MODULE JobEnqueueProofs --------------------------
(***************************************************************************)
(* Theorems about transactions that enqueue, for any clients, programs and *)
(* number of rows: types and keys, barriers that wait for all their        *)
(* members, and wake-ups, which are lost to other transactions' rows only. *)
(***************************************************************************)
EXTENDS JobEnqueue, FiniteSetTheorems, TLAPS

\* delay() gives a call a parent or dependencies, not both.
OneAxis ==
    \A c \in Clients : \A p \in Programs[c] : \A i \in DOMAIN p :
        p[i].parent = 0 \/ p[i].deps = <<>>

Columns == C!JobStates \cup {"absent"}
Written(r) == DOMAIN decided[r].writes

\* What TypeOK leaves open.
MoreTypes ==
    /\ DOMAIN key = Rows /\ key = [r \in Rows |-> key[r]]
    /\ DOMAIN program = Clients /\ program = [c \in Clients |-> program[c]]
    /\ \A c \in Clients : phase[c] # "idle" => program[c] \in Programs[c]
    /\ decided \in [Rows -> [step : Steps,
                             writes : UNION {[S -> {"pending", "cancelled"}] : S \in SUBSET Rows}]]

\* A row that was not inserted is nowhere, and one that is not committed has
\* not been started.
NewRows ==
    \A r \in Rows : /\ creator[r] = NoClient => state[r] = "absent" /\ writer[r] = NoClient
                    /\ writer[r] # NoClient => state[r] \in {"waiting", "pending"}

OneAxisRows == \A r \in Rows : parent[r] = NoRow \/ deps[r] = <<>>

\* An execution may be cancelled under way.  What a completion that read the
\* children is about to write hangs below its row, has not been executed, has not
\* moved except to be cancelled, and is written by no other completion.
Decisions ==
    \A r \in Rows :
        /\ decided[r].step # "none" => state[r] \in {"started", "done", "cancelled"}
        /\ decided[r].step = "read" =>
              /\ \A i \in Written(r) : /\ decided[i].step = "none"
                                       /\ state[i] \in {"waiting", "cancelled"}
                                       /\ writer[i] = NoClient
                                       /\ parent[i] \in Written(r) \cup {r}
              /\ \A s \in Rows \ {r} : decided[s].step = "read" => Written(r) \cap Written(s) = {}

Missing(d) == {m \in C!DependencySet(d) : decided[m].step # "completed"}

\* A barrier counts at least the members that have not completed.
CountsCover == \A d \in Rows : Cardinality(Missing(d)) <= count[d]

RowsInv == TypeOK /\ MoreTypes /\ NewRows /\ OneAxisRows /\ Decisions

-----------------------------------------------------------------------------
(* What the cascades do to one row. *)

\* The closure of WaitingChildren, spelt out.
Below(st, seed) ==
    {j \in Rows : \A S \in SUBSET Rows :
        (seed \subseteq S /\ \A i \in S : C!WaitingChildren(st, i) \subseteq S) => j \in S}

\* Everything in it was put there by the seed or by another member.
LEMMA BelowGrows ==
    ASSUME NEW st, NEW seed \in SUBSET Rows
    PROVE  /\ seed \subseteq Below(st, seed)
           /\ \A i \in Below(st, seed) :
                  i \in seed \/ (st[i] = "waiting" /\ parent[i] \in Below(st, seed))
<1> DEFINE Succ(i) == C!WaitingChildren(st, i)
           Cl == Below(st, seed)
           T  == seed \cup {j \in Rows : \E i \in Cl : j \in Succ(i)}
<1>1. \A i : Succ(i) \subseteq Rows
  BY DEF C!WaitingChildren
<1>2. seed \subseteq Cl /\ \A i \in Cl : Succ(i) \subseteq Cl
  BY <1>1 DEF Below
<1>3. T \subseteq Cl /\ \A i \in T : Succ(i) \subseteq T
  BY <1>1, <1>2
<1>4. Cl \subseteq T
  BY <1>1, <1>3 DEF Below
<1>5. \A i \in Cl : i \in seed \/ \E j \in Cl : i \in Succ(j)
  BY <1>4
<1> QED
  BY <1>2, <1>5 DEF C!WaitingChildren

\* The rows that the success of r moves wait, and hang below r in a tree of
\* such rows.
LEMMA ChildrenMoves ==
    ASSUME NEW st \in [Rows -> Columns], NEW r \in Rows
    PROVE  LET after == C!ChildrenOnSuccess(st, r)
               D     == {i \in Rows : after[i] # st[i]}
           IN  /\ after \in [Rows -> Columns]
               /\ \A i \in D : /\ st[i] = "waiting"
                               /\ after[i] \in {"pending", "cancelled"}
                               /\ parent[i] \in D \cup {r}
<1> DEFINE direct == C!WaitingChildren(st, r)
           Cl     == C!Closure(C!Handlers(direct), LAMBDA i : C!WaitingChildren(st, i))
           after  == C!Move(st, direct \ C!Handlers(direct), {}, Cl)
           D      == {i \in Rows : after[i] # st[i]}
<1>1. after = C!ChildrenOnSuccess(st, r)
  BY DEF C!ChildrenOnSuccess
<1>2. direct \subseteq Rows /\ \A i \in direct : st[i] = "waiting" /\ parent[i] = r
  BY DEF C!WaitingChildren
<1>3. C!Handlers(direct) \subseteq direct
  BY DEF C!Handlers
<1>a. Cl = Below(st, C!Handlers(direct))
  BY DEF C!Closure, Below
<1> HIDE DEF Cl
<1>4. Cl \subseteq Rows /\ \A i \in Cl : i \in direct \/ (st[i] = "waiting" /\ parent[i] \in Cl)
  <2>1. Cl \subseteq Rows
    BY <1>a DEF Below
  <2> QED
    BY <1>2, <1>3, <1>a, <2>1, BelowGrows
<1> HIDE DEF direct, Cl
<1>5. \A i \in Rows : after[i] = CASE i \in direct \ C!Handlers(direct) -> "pending"
                                   [] i \in Cl -> "cancelled"
                                   [] OTHER -> st[i]
  BY DEF C!Move
<1>6. after \in [Rows -> Columns]
  BY DEF C!Move, Columns, C!JobStates
<1> HIDE DEF after
<1>7. D \subseteq direct \cup Cl /\ Cl \subseteq D
  BY <1>2, <1>4, <1>5
<1>8. \A i \in D : st[i] = "waiting" /\ after[i] \in {"pending", "cancelled"} /\ parent[i] \in D \cup {r}
  BY <1>2, <1>4, <1>5, <1>7
<1> QED
  BY <1>1, <1>6, <1>8

\* What hangs below r is none of what hangs below another row s that is neither
\* waiting nor among them.
LEMMA DifferentTrees ==
    ASSUME NEW st \in [Rows -> Columns], NEW r \in Rows, NEW s \in Rows, NEW W \in SUBSET Rows,
           r # s, st[s] # "waiting", r \notin W,
           \A i \in W : parent[i] \in W \cup {s}
    PROVE  {i \in Rows : C!ChildrenOnSuccess(st, r)[i] # st[i]} \cap W = {}
<1> DEFINE direct == C!WaitingChildren(st, r)
           Succ(i) == C!WaitingChildren(st, i)
           Cl     == C!Closure(C!Handlers(direct), LAMBDA i : C!WaitingChildren(st, i))
           S      == {i \in Rows : i \notin W /\ i # s}
<1>1. \A j \in S \cup {r} : \A i \in Succ(j) : i \in S
  BY DEF C!WaitingChildren
<1>2. direct \subseteq S /\ C!Handlers(direct) \subseteq S
  BY <1>1 DEF C!Handlers
<1>3. Cl \subseteq S
  BY <1>1, <1>2 DEF C!Closure
<1> HIDE DEF direct, Cl
<1>4. \A i \in Rows : C!Move(st, direct \ C!Handlers(direct), {}, Cl)[i] # st[i] => i \in direct \cup Cl
  BY DEF C!Move
<1> QED
  BY <1>2, <1>3, <1>4 DEF C!ChildrenOnSuccess, direct, Cl

LEMMA DependentsMoves ==
    ASSUME NEW st \in [Rows -> Columns], NEW cnt, NEW r \in Rows
    PROVE  /\ C!DependentsOnSuccess(st, cnt, r) \in [Rows -> Columns]
           /\ \A i \in Rows :
                  C!DependentsOnSuccess(st, cnt, r)[i] =
                      IF st[i] = "waiting" /\ r \in C!DependencySet(i) /\ cnt[i] - 1 <= 0
                      THEN IF handler[i] THEN "cancelled" ELSE "pending"
                      ELSE st[i]
BY DEF C!DependentsOnSuccess, C!Move, C!WaitingDependents, C!Handlers, Columns, C!JobStates

\* The button moves waiting rows, and its own, to cancelled.
LEMMA CancelMoves ==
    ASSUME NEW st \in [Rows -> Columns], NEW r \in Rows
    PROVE  /\ C!Cancelled(st, r) \in [Rows -> Columns]
           /\ \A i \in Rows :
                  \/ C!Cancelled(st, r)[i] = st[i]
                  \/ C!Cancelled(st, r)[i] = "cancelled" /\ (i = r \/ st[i] = "waiting")
<1> DEFINE after     == [st EXCEPT ![r] = "cancelled"]
           wired(i)  == C!WaitingChildren(after, i) \cup C!WaitingDependents(after, i)
           cancelled == IF st[r] \in C!TerminalStates THEN {} ELSE C!Closure(wired(r), wired)
           S         == {i \in Rows : after[i] = "waiting"}
<1>1. \A i : wired(i) \subseteq S
  BY DEF C!WaitingChildren, C!WaitingDependents
<1>2. cancelled \subseteq S
  BY <1>1 DEF C!Closure
<1> HIDE DEF cancelled
<1>3. C!Cancelled(st, r) = C!Move(after, {}, {}, cancelled)
  BY DEF C!Cancelled, cancelled
<1> QED
  BY <1>2, <1>3 DEF C!Move, Columns, C!JobStates

-----------------------------------------------------------------------------
(* What a completion writes. *)

LEMMA CommittedType ==
    ASSUME TypeOK
    PROVE  Committed \in [Rows -> Columns]
BY DEF TypeOK, Committed, Columns

LEMMA DecidedType ==
    ASSUME MoreTypes, NEW r \in Rows
    PROVE  /\ Written(r) \subseteq Rows
           /\ \A i \in Written(r) : decided[r].writes[i] \in {"pending", "cancelled"}
           /\ decided[r].step \in Steps
<1>1. decided[r].writes \in UNION {[S -> {"pending", "cancelled"}] : S \in SUBSET Rows}
  BY DEF MoreTypes
<1>2. PICK S \in SUBSET Rows : decided[r].writes \in [S -> {"pending", "cancelled"}]
  BY <1>1
<1> QED
  BY <1>2 DEF MoreTypes, Written

\* The flush puts r to done, its children to what was decided, and nothing else.
LEMMA FlushedIs ==
    ASSUME RowsInv, NEW r \in Rows, decided[r].step = "read"
    PROVE  /\ Flushed(r) \in [Rows -> Columns]
           /\ r \notin Written(r)
           /\ Flushed(r)[r] = "done"
           /\ \A i \in Rows \ {r} :
                  Flushed(r)[i] = IF i \in Written(r) THEN decided[r].writes[i] ELSE Committed[i]
<1>1. /\ Written(r) \subseteq Rows
      /\ \A i \in Written(r) : decided[r].writes[i] \in {"pending", "cancelled"}
  BY DecidedType DEF RowsInv
<1>2. r \notin Written(r)
  BY DEF RowsInv, Decisions
<1>3. Committed \in [Rows -> Columns]
  BY CommittedType DEF RowsInv
<1>4. Flushed(r) = [i \in Rows |-> IF i \in Written(r) THEN decided[r].writes[i]
                                   ELSE [Committed EXCEPT ![r] = "done"][i]]
  BY <1>1, <1>3 DEF Flushed, Written
<1> QED
  BY <1>1, <1>2, <1>3, <1>4 DEF Columns, C!JobStates

\* A barrier over r that the completion counts to zero.
Released(r, i) ==
    /\ i \notin Written(r) /\ state[i] = "waiting" /\ writer[i] = NoClient
    /\ r \in C!DependencySet(i) /\ count[i] - 1 <= 0

\* Besides r, a completion moves the children it read and the barriers it
\* counts to zero.
LEMMA CompletedIs ==
    ASSUME RowsInv, NEW r \in Rows, decided[r].step = "read"
    PROVE  /\ Completed(r) \in [Rows -> Columns]
           /\ Completed(r)[r] = "done"
           /\ \A i \in Rows \ {r} :
                  /\ i \in Written(r) => Completed(r)[i] = decided[r].writes[i]
                  /\ Released(r, i) => Completed(r)[i] = IF handler[i] THEN "cancelled" ELSE "pending"
                  /\ i \notin Written(r) /\ ~Released(r, i) => Completed(r)[i] = state[i]
<1> DEFINE F == Flushed(r)
           G == C!DependentsOnSuccess(F, count, r)
<1>1. /\ F \in [Rows -> Columns] /\ r \notin Written(r) /\ F[r] = "done"
      /\ \A i \in Rows \ {r} :
            F[i] = IF i \in Written(r) THEN decided[r].writes[i] ELSE Committed[i]
  BY FlushedIs
<1>2. /\ Written(r) \subseteq Rows
      /\ \A i \in Written(r) : decided[r].writes[i] \in {"pending", "cancelled"}
  BY DecidedType DEF RowsInv
<1> HIDE DEF F
<1>3. /\ G \in [Rows -> Columns]
      /\ \A i \in Rows : G[i] = IF F[i] = "waiting" /\ r \in C!DependencySet(i) /\ count[i] - 1 <= 0
                                THEN IF handler[i] THEN "cancelled" ELSE "pending"
                                ELSE F[i]
  BY <1>1, DependentsMoves
<1> HIDE DEF G
<1>4. Completed(r) = [i \in Rows |-> IF writer[i] = NoClient THEN G[i] ELSE state[i]]
  BY DEF Completed, Merged, G, F
<1>5. writer[r] = NoClient /\ \A i \in Written(r) : writer[i] = NoClient
  BY DEF RowsInv, Decisions, NewRows
<1>6. \A i \in Rows : state[i] \in Columns /\ (writer[i] = NoClient => Committed[i] = state[i])
  BY DEF RowsInv, TypeOK, Columns, Committed
<1>7. Completed(r) \in [Rows -> Columns]
  BY <1>3, <1>4, <1>6
<1>8. Completed(r)[r] = "done"
  BY <1>1, <1>3, <1>4, <1>5
<1>9. ASSUME NEW i \in Rows \ {r}
      PROVE  /\ i \in Written(r) => Completed(r)[i] = decided[r].writes[i]
             /\ Released(r, i) => Completed(r)[i] = IF handler[i] THEN "cancelled" ELSE "pending"
             /\ i \notin Written(r) /\ ~Released(r, i) => Completed(r)[i] = state[i]
  <2>1. CASE i \in Written(r)
    BY <1>1, <1>2, <1>3, <1>4, <1>5, <2>1 DEF Released
  <2>2. CASE i \notin Written(r) /\ writer[i] # NoClient
    BY <1>4, <2>2 DEF Released
  <2>3. CASE i \notin Written(r) /\ writer[i] = NoClient
    BY <1>1, <1>3, <1>4, <1>6, <2>3 DEF Released
  <2> QED
    BY <2>1, <2>2, <2>3
<1> QED
  BY <1>7, <1>8, <1>9

LEMMA CompletedMoves ==
    ASSUME RowsInv, NEW r \in Rows, decided[r].step = "read"
    PROVE  \A i \in Rows \ {r} :
               \/ Completed(r)[i] = state[i]
               \/ Completed(r)[i] \in {"pending", "cancelled"} /\ (i \in Written(r) \/ Released(r, i))
<1>1. \A i \in Written(r) : decided[r].writes[i] \in {"pending", "cancelled"}
  BY DecidedType DEF RowsInv
<1> QED
  BY <1>1, CompletedIs

\* The barriers over r that still wait, and only they, lose one from their
\* counter.
LEMMA CompletedCounts ==
    ASSUME RowsInv, NEW r \in Rows, decided[r].step = "read"
    PROVE  /\ C!ReleasedCount(Flushed(r), count, r) \in [Rows -> Int]
           /\ \A d \in Rows :
                  C!ReleasedCount(Flushed(r), count, r)[d] =
                      IF Flushed(r)[d] = "waiting" /\ r \in C!DependencySet(d) THEN count[d] - 1 ELSE count[d]
BY DEF RowsInv, TypeOK, C!ReleasedCount, C!WaitingDependents

-----------------------------------------------------------------------------
(* The rows' invariant, one lemma per kind of step. *)

\* The row of an execution, under way or over, is committed, does not wait and
\* is nobody's child to write.
LEMMA ExecutedRows ==
    ASSUME RowsInv, NEW r \in Rows, decided[r].step # "none"
    PROVE  /\ state[r] \in {"started", "done", "cancelled"} /\ writer[r] = NoClient
           /\ Committed[r] = state[r]
           /\ \A s \in Rows : decided[s].step = "read" => r \notin Written(s)
<1>1. state[r] \in {"started", "done", "cancelled"}
  BY DEF RowsInv, Decisions
<1>2. writer[r] = NoClient
  BY <1>1 DEF RowsInv, NewRows
<1> QED
  BY <1>1, <1>2 DEF RowsInv, Decisions, Committed

LEMMA AtType ==
    ASSUME NEW k \in Steps
    PROVE  At(k) \in [step : Steps,
                      writes : UNION {[S -> {"pending", "cancelled"}] : S \in SUBSET Rows}]
<1>1. At(k).writes \in [{} -> {"pending", "cancelled"}]
  BY DEF At
<1> QED
  BY <1>1 DEF At

LEMMA DecidedKept ==
    ASSUME MoreTypes, NEW r \in Rows, NEW k \in Steps, decided' = [decided EXCEPT ![r] = At(k)]
    PROVE  /\ decided' \in [Rows -> [step : Steps,
                  writes : UNION {[S -> {"pending", "cancelled"}] : S \in SUBSET Rows}]]
           /\ decided'[r].step = k
           /\ \A s \in Rows \ {r} : decided'[s] = decided[s] /\ Written(s)' = Written(s)
<1>1. decided'[r] = At(k) /\ \A s \in Rows \ {r} : decided'[s] = decided[s]
  BY DEF MoreTypes
<1>2. At(k).step = k
  BY DEF At
<1> QED
  BY <1>1, <1>2, AtType DEF MoreTypes, Written

LEMMA RowsInit == Init => RowsInv
<1> SUFFICES ASSUME Init PROVE RowsInv
  OBVIOUS
<1>1. TypeOK
  BY EnqueueAssumption DEF Init, TypeOK, C!JobStates, Phases, NoRow
<1>2. MoreTypes
  BY AtType DEF Init, MoreTypes, Steps
<1>3. NewRows /\ OneAxisRows /\ Decisions
  BY DEF Init, NewRows, OneAxisRows, Decisions, At, NoRow
<1> QED
  BY <1>1, <1>2, <1>3 DEF RowsInv

\* The rows that are executed, or that a completion has read, change to cancelled
\* at most.
LEMMA DecisionsKept ==
    ASSUME Decisions, UNCHANGED <<decided, parent>>,
           \A r \in Rows :
               /\ decided[r].step # "none" => state'[r] \in {state[r], "cancelled"}
               /\ decided[r].step = "read" => \A i \in Written(r) : /\ state'[i] \in {state[i], "cancelled"}
                                                                    /\ writer'[i] = writer[i]
    PROVE  Decisions'
BY DEF Decisions, Written

LEMMA BeginStep ==
    ASSUME RowsInv, NEW c \in Clients, Begin(c)
    PROVE  RowsInv'
<1>1. TypeOK'
  BY DEF RowsInv, Begin, TypeOK, columns, Phases
<1>2. MoreTypes'
  <2>1. PICK p \in Programs[c] : program' = [program EXCEPT ![c] = p]
    BY DEF Begin
  <2>2. DOMAIN program' = Clients /\ program' = [d \in Clients |-> program'[d]]
    BY <2>1 DEF RowsInv, MoreTypes
  <2>3. \A d \in Clients : phase'[d] # "idle" => program'[d] \in Programs[d]
    BY <2>1 DEF RowsInv, MoreTypes, TypeOK, Begin
  <2> QED
    BY <2>2, <2>3 DEF RowsInv, Begin, MoreTypes, columns
<1>3. NewRows' /\ OneAxisRows' /\ Decisions'
  BY DEF RowsInv, Begin, NewRows, OneAxisRows, Decisions, Written, columns
<1> QED
  BY <1>1, <1>2, <1>3 DEF RowsInv

LEMMA ReturnStep ==
    ASSUME RowsInv, NEW c \in Clients, ReturnExisting(c)
    PROVE  RowsInv'
<1>1. TypeOK'
  <2>1. PICK r \in Rows : got' = [got EXCEPT ![c] = Append(@, r)]
    BY DEF ReturnExisting, Found
  <2>2. got' \in [Clients -> Seq(Rows)]
    BY <2>1 DEF RowsInv, TypeOK
  <2> QED
    BY <2>2 DEF RowsInv, ReturnExisting, TypeOK, columns
<1>2. MoreTypes'
  BY DEF RowsInv, ReturnExisting, MoreTypes, columns
<1>3. NewRows' /\ OneAxisRows' /\ Decisions'
  BY DEF RowsInv, ReturnExisting, NewRows, OneAxisRows, Decisions, Written, columns
<1> QED
  BY <1>1, <1>2, <1>3 DEF RowsInv

\* A transaction's end, one way or the other, lets go of its rows.
LEMMA RollBackStep ==
    ASSUME RowsInv, NEW c \in Clients, phase[c] = "open", RollBack(c)
    PROVE  RowsInv'
<1>1. TypeOK'
  BY DEF RowsInv, RollBack, TypeOK, Phases
<1>2. MoreTypes'
  BY DEF RowsInv, RollBack, MoreTypes, TypeOK
<1>3. NewRows' /\ OneAxisRows'
  BY EnqueueAssumption DEF RowsInv, RollBack, NewRows, OneAxisRows, TypeOK
<1>4. Decisions'
  <2>1. \A r \in Rows : decided[r].step # "none" => writer[r] = NoClient
    BY ExecutedRows
  <2>2. \A r \in Rows : decided[r].step = "read" => \A i \in Written(r) : i \in Rows /\ writer[i] = NoClient
    BY DecidedType DEF RowsInv, Decisions
  <2> QED
    BY <2>1, <2>2, EnqueueAssumption, DecisionsKept DEF RowsInv, RollBack
<1> QED
  BY <1>1, <1>2, <1>3, <1>4 DEF RowsInv

LEMMA CommitStep ==
    ASSUME RowsInv, NEW c \in Clients, Commit(c)
    PROVE  RowsInv'
<1>1. TypeOK'
  BY DEF RowsInv, Commit, TypeOK, columns, Phases
<1>2. MoreTypes'
  BY DEF RowsInv, Commit, MoreTypes, columns, TypeOK
<1>3. NewRows' /\ OneAxisRows'
  BY DEF RowsInv, Commit, NewRows, OneAxisRows, columns
<1>4. Decisions'
  <2>1. \A r \in Rows : decided[r].step = "read" => \A i \in Written(r) : i \in Rows /\ writer[i] = NoClient
    BY DecidedType DEF RowsInv, Decisions
  <2> QED
    BY <2>1, EnqueueAssumption, DecisionsKept DEF RowsInv, Commit, columns
<1> QED
  BY <1>1, <1>2, <1>3, <1>4 DEF RowsInv

\* The call at hand names only rows that the transaction has got.
LEMMA CallIs ==
    ASSUME RowsInv, NEW c \in Clients, Calling(c)
    PROVE  /\ Call(c).parent \in 0..Len(got[c])
           /\ Call(c).deps \in Seq(1..Len(got[c]))
           /\ Call(c).handler \in BOOLEAN
           /\ OneAxis => Call(c).parent = 0 \/ Call(c).deps = <<>>
<1> DEFINE i == Len(got[c]) + 1
<1>1. program[c] \in Programs[c]
  BY DEF RowsInv, MoreTypes, Calling
<1>2. Len(got[c]) \in Nat /\ Len(program[c]) \in Nat /\ DOMAIN program[c] = 1..Len(program[c])
  BY <1>1, ProgramAssumption DEF RowsInv, TypeOK
<1>3. i \in DOMAIN program[c] /\ i - 1 = Len(got[c])
  BY <1>2 DEF Calling
<1>4. /\ program[c][i].parent \in 0..(i - 1)
      /\ program[c][i].deps \in Seq(1..(i - 1))
      /\ program[c][i].handler \in BOOLEAN
  BY <1>1, <1>3, ProgramAssumption
<1>5. OneAxis => program[c][i].parent = 0 \/ program[c][i].deps = <<>>
  BY <1>1, <1>3 DEF OneAxis
<1> QED
  BY <1>3, <1>4, <1>5 DEF Call

\* What an insertion gives its row.
Inserted(c, r) ==
    LET call   == Call(c)
        Got(i) == IF i = 0 THEN NoRow ELSE got[c][i]
        wired  == call.parent # 0 \/ call.deps # <<>>
    IN  /\ creator[r] = NoClient
        /\ state'   = [state   EXCEPT ![r] = IF wired THEN "waiting" ELSE "pending"]
        /\ count'   = [count   EXCEPT ![r] = Len(call.deps)]
        /\ parent'  = [parent  EXCEPT ![r] = Got(call.parent)]
        /\ deps'    = [deps    EXCEPT ![r] = [i \in DOMAIN call.deps |-> Got(call.deps[i])]]
        /\ handler' = [handler EXCEPT ![r] = call.handler]
        /\ key'     = [key     EXCEPT ![r] = call.key]
        /\ writer'  = [writer  EXCEPT ![r] = c]
        /\ creator' = [creator EXCEPT ![r] = c]
        /\ got'     = [got     EXCEPT ![c] = Append(@, r)]

LEMMA InsertIs ==
    ASSUME NEW c \in Clients, Insert(c)
    PROVE  \E r \in Rows : Inserted(c, r)
<1>1. PICK r \in Rows :
        /\ \A s \in Rows : creator[s] = NoClient <=> s >= r
        /\ state'   = [state   EXCEPT ![r] = IF Call(c).parent # 0 \/ Call(c).deps # <<>>
                                             THEN "waiting" ELSE "pending"]
        /\ count'   = [count   EXCEPT ![r] = Len(Call(c).deps)]
        /\ parent'  = [parent  EXCEPT ![r] = IF Call(c).parent = 0 THEN NoRow ELSE got[c][Call(c).parent]]
        /\ deps'    = [deps    EXCEPT ![r] = [i \in DOMAIN Call(c).deps |->
                          IF Call(c).deps[i] = 0 THEN NoRow ELSE got[c][Call(c).deps[i]]]]
        /\ handler' = [handler EXCEPT ![r] = Call(c).handler]
        /\ key'     = [key     EXCEPT ![r] = Call(c).key]
        /\ writer'  = [writer  EXCEPT ![r] = InsertedBy(c)]
        /\ creator' = [creator EXCEPT ![r] = c]
        /\ got'     = [got     EXCEPT ![c] = Append(@, r)]
  BY DEF Insert
<1>2. r >= r
  BY DEF Rows
<1> QED
  BY <1>1, <1>2 DEF Inserted, InsertedBy

LEMMA InsertStep ==
    ASSUME OneAxis, RowsInv, NEW c \in Clients, Insert(c)
    PROVE  RowsInv'
<1> DEFINE call   == Call(c)
           Got(i) == IF i = 0 THEN NoRow ELSE got[c][i]
<1>1. PICK r \in Rows : Inserted(c, r)
  BY InsertIs
<1>2. /\ call.parent \in 0..Len(got[c]) /\ call.deps \in Seq(1..Len(got[c]))
      /\ call.handler \in BOOLEAN /\ (call.parent = 0 \/ call.deps = <<>>)
  BY CallIs DEF Insert
<1>3. /\ got[c] \in Seq(Rows) /\ Len(got[c]) \in Nat /\ \A i \in 1..Len(got[c]) : got[c][i] \in Rows
  BY DEF RowsInv, TypeOK
<1>4. Got(call.parent) \in Rows \cup {NoRow}
  BY <1>2, <1>3
<1>5. [i \in DOMAIN call.deps |-> Got(call.deps[i])] \in Seq(Rows) /\ Len(call.deps) \in Nat
  <2>1. \A i \in DOMAIN call.deps : call.deps[i] \in 1..Len(got[c])
    BY <1>2
  <2>2. \A i \in DOMAIN call.deps : Got(call.deps[i]) \in Rows
    BY <1>3, <2>1
  <2>3. DOMAIN call.deps = 1..Len(call.deps) /\ Len(call.deps) \in Nat
    BY <1>2
  <2> QED
    BY <2>2, <2>3
<1>6. /\ phase[c] = "open"
      /\ UNCHANGED <<phase, program, snapshot, decided>>
  BY DEF Insert, Calling
<1>7. TypeOK'
  <2>1. /\ state' \in [Rows -> C!JobStates \cup {"absent"}] /\ count' \in [Rows -> Int]
        /\ writer' \in [Rows -> Clients \cup {NoClient}] /\ creator' \in [Rows -> Clients \cup {NoClient}]
        /\ got' \in [Clients -> Seq(Rows)]
    BY <1>1, <1>3, <1>5 DEF Inserted, RowsInv, TypeOK, C!JobStates
  <2>2. /\ parent' \in [Rows -> Rows \cup {NoRow}] /\ deps' \in [Rows -> Seq(Rows)]
        /\ handler' \in [Rows -> BOOLEAN]
    BY <1>1, <1>2, <1>4, <1>5 DEF Inserted, RowsInv, TypeOK
  <2>3. \A s \in Rows : writer'[s] # NoClient => phase'[writer'[s]] = "open" /\ creator'[s] = writer'[s]
    BY <1>1, <1>6 DEF Inserted, RowsInv, TypeOK
  <2> QED
    BY <1>6, <2>1, <2>2, <2>3 DEF RowsInv, TypeOK
<1>8. MoreTypes'
  BY <1>1, <1>6 DEF Inserted, RowsInv, MoreTypes
<1>9. NewRows'
  BY <1>1, EnqueueAssumption DEF Inserted, RowsInv, NewRows, TypeOK
<1>10. OneAxisRows'
  <2>1. call.deps = <<>> => [i \in DOMAIN call.deps |-> Got(call.deps[i])] = <<>>
    <3> SUFFICES ASSUME call.deps = <<>>
                 PROVE  [i \in DOMAIN call.deps |-> Got(call.deps[i])] = <<>>
      OBVIOUS
    <3>1. DOMAIN call.deps = {}
      OBVIOUS
    <3> HIDE DEF call
    <3>2. [i \in DOMAIN call.deps |-> Got(call.deps[i])] \in Seq(Rows)
      BY <1>5
    <3> QED
      BY <3>1, <3>2
  <2> QED
    BY <1>1, <1>2, <2>1 DEF Inserted, RowsInv, OneAxisRows, TypeOK
<1>11. Decisions'
  <2>1. /\ state[r] = "absent" /\ writer[r] = NoClient
        /\ \A s \in Rows \ {r} : state'[s] = state[s] /\ parent'[s] = parent[s] /\ writer'[s] = writer[s]
    BY <1>1 DEF Inserted, RowsInv, NewRows, TypeOK
  <2>2. \A s \in Rows : /\ decided[s].step # "none" => s # r
                       /\ decided[s].step = "read" => r \notin Written(s) /\ Written(s) \subseteq Rows
    BY <2>1, DecidedType DEF RowsInv, Decisions
  <2>3. decided' = decided /\ \A s : Written(s)' = Written(s)
    BY <1>6 DEF Written
  <2> QED
    BY <2>1, <2>2, <2>3 DEF RowsInv, Decisions
<1> QED
  BY <1>7, <1>8, <1>9, <1>10, <1>11 DEF RowsInv

\* An execution goes on to another step than read, and its row with it: the
\* others hold as long as their rows are left alone.
LEMMA DecisionsLeft ==
    ASSUME RowsInv, NEW r \in Rows, NEW k \in Steps \ {"read"},
           decided' = [decided EXCEPT ![r] = At(k)], parent' = parent,
           k # "none" => state'[r] \in {"started", "done", "cancelled"},
           \A s \in Rows \ {r} :
               /\ decided[s].step # "none" => state'[s] = state[s]
               /\ decided[s].step = "read" =>
                      /\ r \notin Written(s)
                      /\ \A i \in Written(s) : state'[i] = state[i] /\ writer'[i] = writer[i]
    PROVE  Decisions'
<1>1. /\ decided'[r].step = k
      /\ \A s \in Rows \ {r} : decided'[s] = decided[s] /\ Written(s)' = Written(s)
  BY DecidedKept DEF RowsInv
<1>2. \A s \in Rows : Written(s) \subseteq Rows
  BY DecidedType DEF RowsInv
<1>3. ASSUME NEW s \in Rows \ {r}
      PROVE  /\ decided'[s].step # "none" => state'[s] \in {"started", "done", "cancelled"}
             /\ decided'[s].step = "read" =>
                  /\ \A i \in Written(s)' : /\ decided'[i].step = "none"
                                            /\ state'[i] \in {"waiting", "cancelled"}
                                            /\ writer'[i] = NoClient
                                            /\ parent'[i] \in Written(s)' \cup {s}
                  /\ \A t \in Rows \ {s} : decided'[t].step = "read" => Written(s)' \cap Written(t)' = {}
  BY <1>1, <1>2 DEF RowsInv, Decisions
<1> QED
  BY <1>1, <1>3 DEF Decisions

\* Start, Raises and HandleException: the execution of r, and its row, if it
\* moves, to started or pending.
LEMMA ExecutionStep ==
    ASSUME RowsInv, NEW r \in Rows, NEW k \in Steps \ {"read"},
           decided' = [decided EXCEPT ![r] = At(k)],
           UNCHANGED <<count, parent, deps, handler, key, writer, client, creator>>,
           writer[r] = NoClient, state[r] # "absent",
           \/ UNCHANGED state
           \/ state' = [state EXCEPT ![r] = "started"]
           \/ state' = [state EXCEPT ![r] = "pending"],
           k # "none" => state'[r] \in {"started", "done", "cancelled"},
           \A s \in Rows \ {r} : decided[s].step = "read" => r \notin Written(s)
    PROVE  RowsInv'
<1>1. TypeOK'
  BY DEF RowsInv, TypeOK, client, C!JobStates
<1>2. MoreTypes'
  <2>1. decided' \in [Rows -> [step : Steps,
                      writes : UNION {[S -> {"pending", "cancelled"}] : S \in SUBSET Rows}]]
    BY DecidedKept DEF RowsInv
  <2> QED
    BY <2>1 DEF RowsInv, MoreTypes, client
<1>3. /\ \A s \in Rows \ {r} : state'[s] = state[s]
      /\ state'[r] # "absent"
  BY DEF RowsInv, TypeOK
<1>4. NewRows' /\ OneAxisRows'
  BY <1>3 DEF RowsInv, NewRows, OneAxisRows
<1>5. Decisions'
  <2>1. \A s \in Rows : Written(s) \subseteq Rows
    BY DecidedType DEF RowsInv
  <2> QED
    BY <1>3, <2>1, DecisionsLeft
<1> QED
  BY <1>1, <1>2, <1>4, <1>5 DEF RowsInv

LEMMA StartStep ==
    ASSUME RowsInv, NEW r \in Rows, Start(r)
    PROVE  RowsInv'
<1>1. writer[r] = NoClient /\ state[r] = "pending"
  BY DEF Start, Committed
<1>2. \A s \in Rows : decided[s].step = "read" => r \notin Written(s)
  BY <1>1 DEF RowsInv, Decisions
<1>3. state'[r] = "started"
  BY DEF Start, RowsInv, TypeOK
<1> QED
  BY <1>1, <1>2, <1>3, ExecutionStep DEF Start, Steps

LEMMA RaisesStep ==
    ASSUME RowsInv, NEW r \in Rows, Raises(r)
    PROVE  RowsInv'
<1>1. decided[r].step # "none" /\ UNCHANGED state
  BY DEF Raises, columns
<1> QED
  BY <1>1, ExecutedRows, ExecutionStep DEF Raises, Steps, columns

LEMMA ExceptionStep ==
    ASSUME RowsInv, NEW r \in Rows, HandleException(r)
    PROVE  RowsInv'
<1>1. decided[r].step # "none"
  BY DEF HandleException
<1> QED
  BY <1>1, ExecutedRows, ExecutionStep DEF HandleException, Steps

\* The only step that opens a decision.
LEMMA ReadStep ==
    ASSUME RowsInv, NEW r \in Rows, ReadChildren(r)
    PROVE  RowsInv'
<1> DEFINE after == C!ChildrenOnSuccess(Committed, r)
           D     == {i \in Rows : after[i] # Committed[i]}
           W(s)  == Written(s)
<1>1. Committed \in [Rows -> Columns]
  BY CommittedType DEF RowsInv
<1>2. /\ after \in [Rows -> Columns]
      /\ \A i \in D : /\ Committed[i] = "waiting"
                      /\ after[i] \in {"pending", "cancelled"}
                      /\ parent[i] \in D \cup {r}
  BY <1>1, ChildrenMoves
<1>3. /\ decided[r].step = "running"
      /\ decided' = [decided EXCEPT ![r] = [step |-> "read", writes |-> [i \in D |-> after[i]]]]
      /\ UNCHANGED <<columns, writer, client, creator>>
  BY DEF ReadChildren, Restrict
<1>4. /\ writer[r] = NoClient /\ state[r] \in {"started", "done", "cancelled"} /\ Committed[r] = state[r]
      /\ \A s \in Rows : decided[s].step = "read" => r \notin Written(s)
  BY <1>3, ExecutedRows
<1>5. \A i \in D : /\ i \in Rows /\ writer[i] = NoClient /\ state[i] = "waiting"
                  /\ decided[i].step = "none" /\ i # r
  BY <1>2, <1>4 DEF Committed, RowsInv, Decisions
<1>6. ASSUME NEW s \in Rows \ {r}, decided[s].step = "read"
      PROVE  D \cap Written(s) = {}
  <2>1. r \notin Written(s) /\ \A i \in Written(s) : parent[i] \in Written(s) \cup {s}
    BY <1>4, <1>6 DEF RowsInv, Decisions
  <2>2. Committed[s] # "waiting"
    BY <1>6, ExecutedRows
  <2>3. Written(s) \subseteq Rows
    BY DecidedType DEF RowsInv
  <2> QED
    BY <1>1, <2>1, <2>2, <2>3, DifferentTrees
<1> HIDE DEF after
<1>7. TypeOK'
  BY <1>3 DEF RowsInv, TypeOK, columns, client
<1>8. MoreTypes'
  <2> DEFINE d == [step |-> "read", writes |-> [i \in D |-> after[i]]]
             T == UNION {[S -> {"pending", "cancelled"}] : S \in SUBSET Rows}
  <2>1. D \in SUBSET Rows /\ [i \in D |-> after[i]] \in [D -> {"pending", "cancelled"}]
    BY <1>2
  <2> HIDE DEF D
  <2>2. [i \in D |-> after[i]] \in T
    BY <2>1
  <2> HIDE DEF T
  <2>3. d \in [step : Steps, writes : T]
    BY <2>2 DEF Steps
  <2> HIDE DEF d
  <2>4. decided' = [decided EXCEPT ![r] = d]
    BY <1>3 DEF d, D
  <2>5. decided' \in [Rows -> [step : Steps, writes : T]]
    BY <2>3, <2>4 DEF RowsInv, MoreTypes, T
  <2> QED
    BY <1>3, <2>5 DEF RowsInv, MoreTypes, columns, client, T
<1>9. NewRows' /\ OneAxisRows'
  BY <1>3 DEF RowsInv, NewRows, OneAxisRows, columns
<1>10. Decisions'
  <2>1. \A s \in Rows \ {r} : decided'[s] = decided[s] /\ Written(s)' = Written(s)
    BY <1>3 DEF RowsInv, MoreTypes, Written
  <2>2. decided'[r].step = "read" /\ Written(r)' = D
    BY <1>3 DEF RowsInv, MoreTypes, Written
  <2> HIDE DEF D
  <2>3. UNCHANGED <<state, parent, writer>>
    BY <1>3 DEF columns
  <2>4. ASSUME NEW s \in Rows, decided'[s].step = "read"
        PROVE  /\ \A i \in Written(s)' : /\ decided'[i].step = "none"
                                         /\ state'[i] \in {"waiting", "cancelled"}
                                         /\ writer'[i] = NoClient
                                         /\ parent'[i] \in Written(s)' \cup {s}
               /\ \A t \in Rows \ {s} : decided'[t].step = "read" => Written(s)' \cap Written(t)' = {}
    <3>1. CASE s = r
      BY <1>2, <1>5, <1>6, <2>1, <2>2, <2>3, <3>1
    <3>2. CASE s # r
      <4>1. decided[s].step = "read" /\ Written(s)' = Written(s) /\ r \notin Written(s) /\ Written(s) \subseteq Rows
        BY <1>4, <2>1, <2>4, <3>2, DecidedType DEF RowsInv
      <4>2. \A i \in Written(s)' : /\ decided'[i].step = "none"
                                  /\ state'[i] \in {"waiting", "cancelled"}
                                  /\ writer'[i] = NoClient
                                  /\ parent'[i] \in Written(s)' \cup {s}
        BY <2>1, <2>3, <4>1 DEF RowsInv, Decisions
      <4>3. \A t \in Rows \ {s} : decided'[t].step = "read" => Written(s)' \cap Written(t)' = {}
        BY <1>6, <2>1, <2>2, <3>2, <4>1 DEF RowsInv, Decisions
      <4> QED
        BY <4>2, <4>3
    <3> QED
      BY <3>1, <3>2
  <2>5. \A s \in Rows : decided'[s].step # "none" => state'[s] \in {"started", "done", "cancelled"}
    BY <1>4, <2>1, <2>3 DEF RowsInv, Decisions
  <2> QED
    BY <2>4, <2>5 DEF Decisions
<1> QED
  BY <1>7, <1>8, <1>9, <1>10 DEF RowsInv

LEMMA CompleteStep ==
    ASSUME RowsInv, NEW r \in Rows, Complete(r)
    PROVE  RowsInv'
<1>1. decided[r].step = "read"
  BY DEF Complete
<1>2. /\ state' \in [Rows -> Columns] /\ state'[r] = "done"
      /\ \A i \in Rows \ {r} :
            \/ state'[i] = state[i]
            \/ state'[i] \in {"pending", "cancelled"} /\ (i \in Written(r) \/ Released(r, i))
  BY <1>1, CompletedIs, CompletedMoves DEF Complete
<1>3. /\ decided' = [decided EXCEPT ![r] = At("completed")]
      /\ UNCHANGED <<parent, deps, handler, key, writer, client, creator>>
      /\ count' \in [Rows -> Int]
  BY <1>1, CompletedCounts DEF Complete
<1>4. TypeOK'
  BY <1>2, <1>3 DEF RowsInv, TypeOK, client, Columns
<1>5. MoreTypes'
  <2>1. decided' \in [Rows -> [step : Steps,
                      writes : UNION {[S -> {"pending", "cancelled"}] : S \in SUBSET Rows}]]
    BY <1>3, DecidedKept DEF RowsInv, Steps
  <2> QED
    BY <1>3, <2>1 DEF RowsInv, MoreTypes, client
<1>6. NewRows'
  <2>1. state[r] # "absent" /\ \A i \in Written(r) : writer[i] = NoClient /\ state[i] # "absent"
    BY <1>1, ExecutedRows DEF RowsInv, Decisions
  <2>2. writer[r] = NoClient
    BY <1>1, ExecutedRows
  <2> QED
    BY <1>2, <1>3, <2>1, <2>2 DEF RowsInv, NewRows, Released
<1>7. OneAxisRows'
  BY <1>3 DEF RowsInv, OneAxisRows
<1>8. Decisions'
  <2>1. ASSUME NEW s \in Rows \ {r}, decided[s].step # "none"
        PROVE  state'[s] = state[s]
    <3>1. state[s] # "waiting" /\ s \notin Written(r)
      BY <1>1, <2>1, ExecutedRows
    <3> QED
      BY <1>2, <3>1 DEF Released
  <2>2. ASSUME NEW s \in Rows \ {r}, decided[s].step = "read", NEW i \in Written(s)
        PROVE  state'[i] = state[i] /\ writer'[i] = writer[i] /\ i # r
    <3>1. i \in Rows /\ Written(s) \subseteq Rows
      BY DecidedType DEF RowsInv
    <3>2. i \notin Written(r) /\ i # r
      BY <1>1, <2>2, ExecutedRows DEF RowsInv, Decisions
    <3>3. parent[i] # NoRow
      BY <2>2, <3>1 DEF RowsInv, Decisions, Rows, NoRow
    <3>4. r \notin C!DependencySet(i)
      BY <3>1, <3>3 DEF RowsInv, OneAxisRows, C!DependencySet
    <3> QED
      BY <1>2, <1>3, <3>1, <3>2, <3>4 DEF Released
  <2>3. "completed" \in Steps \ {"read"} /\ parent' = parent
    BY <1>3 DEF Steps
  <2> QED
    BY <1>2, <1>3, <2>1, <2>2, <2>3, DecisionsLeft
<1> QED
  BY <1>4, <1>5, <1>6, <1>7, <1>8 DEF RowsInv

\* What the button does to the rows: to cancelled, if they waited or it was
\* pressed for them.
LEMMA CancelIs ==
    ASSUME TypeOK, NEW r \in Rows, Cancel(r)
    PROVE  /\ state' \in [Rows -> Columns]
           /\ \A i \in Rows : \/ state'[i] = state[i]
                              \/ /\ writer[i] = NoClient /\ state'[i] = "cancelled"
                                 /\ state[i] # "absent"
                                 /\ i = r \/ state[i] = "waiting"
<1>1. Committed \in [Rows -> Columns]
  BY CommittedType
<1>2. /\ C!Cancelled(Committed, r) \in [Rows -> Columns]
      /\ \A i \in Rows : \/ C!Cancelled(Committed, r)[i] = Committed[i]
                         \/ C!Cancelled(Committed, r)[i] = "cancelled" /\ (i = r \/ Committed[i] = "waiting")
  BY <1>1, CancelMoves
<1>3. state' = [i \in Rows |-> IF writer[i] = NoClient THEN C!Cancelled(Committed, r)[i] ELSE state[i]]
  BY DEF Cancel, Merged
<1>4. Committed[r] # "absent" /\ \A i \in Rows : state[i] \in Columns
  BY DEF Cancel, TypeOK, Columns
<1>5. \A i \in Rows : writer[i] = NoClient => Committed[i] = state[i]
  BY DEF Committed
<1> QED
  BY <1>2, <1>3, <1>4, <1>5

LEMMA CancelStep ==
    ASSUME RowsInv, NEW r \in Rows, Cancel(r)
    PROVE  RowsInv'
<1>1. /\ state' \in [Rows -> Columns]
      /\ \A i \in Rows : \/ state'[i] = state[i]
                         \/ writer[i] = NoClient /\ state'[i] = "cancelled" /\ state[i] # "absent"
  BY CancelIs DEF RowsInv
<1>2. UNCHANGED <<count, parent, deps, handler, key, writer, client, decided, creator>>
  BY DEF Cancel
<1>3. TypeOK'
  BY <1>1, <1>2 DEF RowsInv, TypeOK, client, Columns
<1>4. MoreTypes'
  BY <1>2 DEF RowsInv, MoreTypes, client
<1>5. NewRows' /\ OneAxisRows'
  BY <1>1, <1>2 DEF RowsInv, NewRows, OneAxisRows
<1>6. Decisions'
  <2>1. \A s \in Rows : Written(s) \subseteq Rows
    BY DecidedType DEF RowsInv
  <2> QED
    BY <1>1, <1>2, <2>1, DecisionsKept DEF RowsInv
<1> QED
  BY <1>3, <1>4, <1>5, <1>6 DEF RowsInv

\* The clients' steps that take everything back.
LEMMA RollBacks ==
    ASSUME NEW c \in Clients, Refused(c) \/ CallerFails(c) \/ DeadlockVictim(c)
    PROVE  phase[c] = "open" /\ RollBack(c)
BY DEF Refused, CallerFails, DeadlockVictim, Blocked, Calling

LEMMA RowsStep == OneAxis /\ RowsInv /\ [Next]_vars => RowsInv'
<1> SUFFICES ASSUME OneAxis, RowsInv, [Next]_vars PROVE RowsInv'
  OBVIOUS
<1>1. ASSUME NEW c \in Clients, Begin(c) \/ Calls(c) \/ Ends(c) \/ DeadlockVictim(c) PROVE RowsInv'
  <2>1. Begin(c) \/ ReturnExisting(c) \/ Insert(c) \/ Commit(c) \/ Refused(c) \/ CallerFails(c) \/ DeadlockVictim(c)
    BY <1>1 DEF Calls, Ends
  <2> QED
    BY <2>1, BeginStep, ReturnStep, InsertStep, CommitStep, RollBacks, RollBackStep
<1>2. ASSUME NEW r \in Rows, Executes(r) \/ Cancel(r) PROVE RowsInv'
  BY <1>2, StartStep, ReadStep, CompleteStep, RaisesStep, ExceptionStep, CancelStep DEF Executes
<1>3. CASE UNCHANGED vars
  BY <1>3 DEF RowsInv, TypeOK, MoreTypes, NewRows, OneAxisRows, Decisions, Written, vars, columns, client
<1> QED
  BY <1>1, <1>2, <1>3 DEF Next

\* Every variable keeps its type; what an open transaction has inserted, and
\* only that, is invisible.
THEOREM EnqueueTypeCorrect ==
    ASSUME OneAxis
    PROVE  Spec => []TypeOK
<1>1. RowsInv /\ [Next]_vars => RowsInv'
  BY RowsStep
<1>2. RowsInv => TypeOK
  BY DEF RowsInv
<1> QED
  BY <1>1, <1>2, RowsInit, PTL DEF Spec

-----------------------------------------------------------------------------
(* One live job per key. *)

LEMMA KeyStep == RowsInv /\ OneLivePerKey /\ [Next]_vars => OneLivePerKey'
<1> SUFFICES ASSUME RowsInv, OneLivePerKey, [Next]_vars PROVE OneLivePerKey'
  OBVIOUS
<1> DEFINE Live(r) == state[r] \in LiveStates
\* Steps that give no row a key and make none live.
<1>1. ASSUME key' = key, \A r \in Rows : state'[r] \in LiveStates => Live(r)
      PROVE  OneLivePerKey'
  BY <1>1 DEF OneLivePerKey
<1>2. ASSUME NEW c \in Clients, Insert(c) PROVE OneLivePerKey'
  <2>1. PICK r \in Rows : Inserted(c, r)
    BY <1>2, InsertIs
  <2>2. /\ key'[r] = Call(c).key
        /\ \A s \in Rows \ {r} : key'[s] = key[s] /\ state'[s] = state[s]
    BY <2>1 DEF Inserted, RowsInv, MoreTypes, TypeOK
  <2>3. Holders(Call(c).key) = {}
    BY <1>2 DEF Insert
  <2>4. \A s \in Rows \ {r} : key'[s] = key'[r] /\ key'[r] # NoKey => state'[s] \notin LiveStates
    BY <2>2, <2>3 DEF Holders, IndexedStates, LiveStates
  <2> QED
    BY <2>2, <2>4 DEF OneLivePerKey
<1>3. ASSUME NEW c \in Clients, Begin(c) \/ ReturnExisting(c) \/ Commit(c) PROVE OneLivePerKey'
  BY <1>1, <1>3 DEF Begin, ReturnExisting, Commit, columns
<1>4. ASSUME NEW c \in Clients, RollBack(c) PROVE OneLivePerKey'
  BY <1>1, <1>4 DEF RollBack, LiveStates
<1>5. ASSUME NEW r \in Rows, Start(r) PROVE OneLivePerKey'
  <2>1. Live(r) /\ \A s \in Rows \ {r} : state'[s] = state[s]
    BY <1>5 DEF Start, Committed, LiveStates, RowsInv, TypeOK
  <2> QED
    BY <1>1, <1>5, <2>1 DEF Start
<1>6. ASSUME NEW r \in Rows, ReadChildren(r) PROVE OneLivePerKey'
  BY <1>1, <1>6 DEF ReadChildren, columns
<1>7. ASSUME NEW r \in Rows, Complete(r) PROVE OneLivePerKey'
  <2>1. state' = Completed(r) /\ key' = key /\ CollidingIn(r) = {}
    BY <1>7 DEF Complete
  <2>2. \A i \in Rows : ~(/\ key[i] # NoKey /\ state'[i] \in IndexedStates
                          /\ \E s \in Rows \ {i} : key[s] = key[i] /\ state'[s] \in IndexedStates)
    BY <2>1 DEF CollidingIn, Collides
  <2> QED
    BY <2>1, <2>2 DEF OneLivePerKey, IndexedStates, LiveStates
<1>8. ASSUME NEW r \in Rows, Raises(r) PROVE OneLivePerKey'
  BY <1>1, <1>8 DEF Raises, columns
<1>11. ASSUME NEW r \in Rows, HandleException(r) PROVE OneLivePerKey'
  <2>1. CASE UNCHANGED state
    BY <1>1, <1>11, <2>1 DEF HandleException
  <2>2. CASE Holders(key[r]) \subseteq {r} /\ state' = [state EXCEPT ![r] = "pending"]
    <3>1. /\ key' = key /\ \A s \in Rows \ {r} : state'[s] = state[s]
      BY <1>11, <2>2 DEF HandleException, RowsInv, TypeOK
    <3>2. \A s \in Rows \ {r} : key[s] = key[r] /\ key[r] # NoKey => state'[s] \notin LiveStates
      BY <2>2, <3>1 DEF Holders, IndexedStates, LiveStates
    <3> QED
      BY <3>1, <3>2 DEF OneLivePerKey
  <2> QED
    BY <1>11, <2>1, <2>2 DEF HandleException
<1>9. ASSUME NEW r \in Rows, Cancel(r) PROVE OneLivePerKey'
  <2>1. \A i \in Rows : state'[i] = state[i] \/ state'[i] = "cancelled"
    BY <1>9, CancelIs DEF RowsInv
  <2> QED
    BY <1>1, <1>9, <2>1 DEF Cancel, LiveStates
<1>10. CASE UNCHANGED vars
  BY <1>1, <1>10 DEF vars, columns
<1> QED
  BY <1>2, <1>3, <1>4, <1>5, <1>6, <1>7, <1>8, <1>9, <1>10, <1>11, RollBacks DEF Next, Calls, Ends, Executes

\* Whatever is enqueued, completed, rolled back and cancelled meanwhile, no two
\* live rows have one key: the index and the search before the insert keep it,
\* and so do a completion that writes what it decided on rows that have been
\* cancelled since, and a retry of a job that was cancelled while it ran.
THEOREM KeysStayUnique ==
    ASSUME OneAxis
    PROVE  Spec => []OneLivePerKey
<1>1. Init => OneLivePerKey
  BY DEF Init, OneLivePerKey, LiveStates
<1>2. RowsInv /\ OneLivePerKey /\ [Next]_vars => RowsInv' /\ OneLivePerKey'
  BY RowsStep, KeyStep
<1> QED
  BY <1>1, <1>2, RowsInit, PTL DEF Spec

-----------------------------------------------------------------------------
(* Barriers over rows that others have enqueued. *)

\* A list has at least as many places as members.
LEMMA PartOfList ==
    ASSUME NEW s \in Seq(Rows), NEW M \in SUBSET {s[i] : i \in DOMAIN s}
    PROVE  IsFiniteSet(M) /\ Cardinality(M) \in Nat /\ Cardinality(M) <= Len(s)
<1> DEFINE n == Len(s)
           S == {s[i] : i \in DOMAIN s}
<1>1. n \in Nat /\ DOMAIN s = 1..n
  OBVIOUS
<1>2. IsFiniteSet(1..n) /\ Cardinality(1..n) = n
  BY <1>1, FS_Interval
<1>3. s \in Surjection(1..n, S)
  BY <1>1 DEF Surjection
<1>4. M \in SUBSET S
  OBVIOUS
<1> HIDE DEF n, S
<1>5. IsFiniteSet(S) /\ Cardinality(S) <= n
  BY <1>2, <1>3, FS_Surjection
<1>6. IsFiniteSet(M) /\ Cardinality(M) <= Cardinality(S)
  BY <1>4, <1>5, FS_Subset
<1>7. Cardinality(M) \in Nat /\ Cardinality(S) \in Nat
  BY <1>5, <1>6, FS_CardinalityType
<1> QED
  BY <1>1, <1>5, <1>6, <1>7 DEF n

LEMMA MissingFinite ==
    ASSUME TypeOK, NEW d \in Rows
    PROVE  /\ IsFiniteSet(Missing(d)) /\ Cardinality(Missing(d)) \in Nat
           /\ Cardinality(Missing(d)) <= Len(deps[d])
<1>1. deps[d] \in Seq(Rows)
  BY DEF TypeOK
<1>2. Missing(d) \in SUBSET {deps[d][i] : i \in DOMAIN deps[d]}
  BY DEF Missing, C!DependencySet
<1> QED
  BY <1>1, <1>2, PartOfList

\* Steps after which the same rows have completed and no counter has changed.
LEMMA CountsKept ==
    ASSUME TypeOK, CountsCover, count' = count, deps' = deps,
           \A r \in Rows : decided'[r].step = "completed" <=> decided[r].step = "completed"
    PROVE  CountsCover'
<1>1. \A d \in Rows : C!DependencySet(d)' = C!DependencySet(d) /\ C!DependencySet(d) \subseteq Rows
  BY DEF C!DependencySet, TypeOK
<1>2. \A d \in Rows : Missing(d)' = Missing(d)
  BY <1>1 DEF Missing
<1> QED
  BY <1>2 DEF CountsCover

\* What the completion of r does to a barrier's members and counter.
LEMMA CompleteCounts ==
    ASSUME RowsInv, CountsCover, NEW r \in Rows, Complete(r), NEW d \in Rows
    PROVE  /\ Missing(d)' = Missing(d) \ {r}
           /\ Cardinality(Missing(d)') <= count'[d]
           /\ (r \in C!DependencySet(d) /\ count[d] - 1 <= 0) => Missing(d)' = {}
<1>1. decided[r].step = "read"
  BY DEF Complete
<1>2. /\ decided'[r].step = "completed"
      /\ \A i \in Rows \ {r} : decided'[i] = decided[i]
  BY DecidedKept DEF Complete, RowsInv, Steps
<1>3. C!DependencySet(d)' = C!DependencySet(d) /\ C!DependencySet(d) \subseteq Rows
  BY DEF Complete, C!DependencySet, RowsInv, TypeOK
<1>4. Missing(d)' = Missing(d) \ {r} /\ (r \in C!DependencySet(d) => r \in Missing(d))
  BY <1>1, <1>2, <1>3 DEF Missing
<1>5. IsFiniteSet(Missing(d)) /\ Cardinality(Missing(d)) \in Nat /\ count[d] \in Int
  BY MissingFinite DEF RowsInv, TypeOK
<1>6. /\ IsFiniteSet(Missing(d)')
      /\ Cardinality(Missing(d)') = IF r \in Missing(d) THEN Cardinality(Missing(d)) - 1
                                                        ELSE Cardinality(Missing(d))
  BY <1>4, <1>5, FS_RemoveElement
<1>7. Cardinality(Missing(d)) <= count[d]
  BY DEF CountsCover
<1>8. count'[d] = count[d] \/ (count'[d] = count[d] - 1 /\ r \in C!DependencySet(d))
  BY <1>1, CompletedCounts DEF Complete
<1>9. Cardinality(Missing(d)') <= count'[d]
  BY <1>4, <1>5, <1>6, <1>7, <1>8
<1>10. (r \in C!DependencySet(d) /\ count[d] - 1 <= 0) => Missing(d)' = {}
  <2> SUFFICES ASSUME r \in C!DependencySet(d), count[d] - 1 <= 0 PROVE Missing(d)' = {}
    OBVIOUS
  <2>1. Cardinality(Missing(d)') <= 0
    BY <1>4, <1>5, <1>6, <1>7
  <2>2. Cardinality(Missing(d)') \in Nat
    BY <1>6, FS_CardinalityType
  <2> QED
    BY <1>6, <2>1, <2>2, FS_EmptySet
<1> QED
  BY <1>4, <1>9, <1>10

LEMMA InsertCounts ==
    ASSUME RowsInv, CountsCover, NEW c \in Clients, Insert(c), TypeOK'
    PROVE  CountsCover'
<1>1. PICK r \in Rows : Inserted(c, r)
  BY InsertIs
<1>2. state[r] = "absent"
  BY <1>1 DEF Inserted, RowsInv, NewRows
<1>3. decided' = decided /\ \A s \in Rows : decided[s].step = "completed" => s # r
  BY <1>2 DEF Insert, RowsInv, Decisions
<1>4. ASSUME NEW d \in Rows \ {r}
      PROVE  Cardinality(Missing(d)') <= count'[d]
  <2>1. count'[d] = count[d] /\ deps'[d] = deps[d]
    BY <1>1 DEF Inserted, RowsInv, TypeOK
  <2>2. C!DependencySet(d)' = C!DependencySet(d) /\ C!DependencySet(d) \subseteq Rows
    BY <2>1 DEF C!DependencySet, RowsInv, TypeOK
  <2>3. Missing(d)' = Missing(d)
    BY <1>3, <2>2 DEF Missing
  <2> QED
    BY <2>1, <2>3 DEF CountsCover
<1>5. Cardinality(Missing(r)') <= count'[r]
  <2>1. Cardinality(Missing(r)') <= Len(deps'[r])
    <3>1. deps'[r] \in Seq(Rows)
      BY DEF TypeOK
    <3>2. Missing(r)' \in SUBSET {deps'[r][i] : i \in DOMAIN deps'[r]}
      BY DEF Missing, C!DependencySet
    <3> QED
      BY <3>1, <3>2, PartOfList
  <2>2. Call(c).deps \in Seq(1..Len(got[c]))
    BY CallIs DEF Insert
  <2>3. /\ DOMAIN Call(c).deps = 1..Len(Call(c).deps) /\ Len(Call(c).deps) \in Nat
        /\ DOMAIN deps'[r] = DOMAIN Call(c).deps
        /\ count'[r] = Len(Call(c).deps)
    BY <1>1, <2>2 DEF Inserted, RowsInv, TypeOK
  <2>4. deps'[r] \in Seq(Rows)
    BY DEF TypeOK
  <2>5. Len(deps'[r]) = count'[r]
    BY <2>3, <2>4
  <2> QED
    BY <2>1, <2>5
<1> QED
  BY <1>4, <1>5 DEF CountsCover

LEMMA CountsStep == RowsInv /\ CountsCover /\ RowsInv' /\ [Next]_vars => CountsCover'
<1> SUFFICES ASSUME RowsInv, CountsCover, RowsInv', [Next]_vars PROVE CountsCover'
  OBVIOUS
<1> USE DEF RowsInv
<1>1. ASSUME NEW c \in Clients, Begin(c) \/ ReturnExisting(c) \/ Commit(c) PROVE CountsCover'
  BY <1>1, CountsKept DEF Begin, ReturnExisting, Commit, columns
<1>2. ASSUME NEW c \in Clients, Insert(c) PROVE CountsCover'
  BY <1>2, InsertCounts
<1>3. ASSUME NEW c \in Clients, RollBack(c) PROVE CountsCover'
  BY <1>3, CountsKept DEF RollBack
<1>4. ASSUME NEW r \in Rows, Start(r) \/ Raises(r) \/ HandleException(r) PROVE CountsCover'
  <2>1. PICK k \in {"running", "failing", "none"} : decided' = [decided EXCEPT ![r] = At(k)]
    BY <1>4 DEF Start, Raises, HandleException
  <2>2. decided[r].step # "completed"
    <3>1. CASE Start(r)
      <4>1. state[r] = "pending"
        BY <3>1 DEF Start, Committed
      <4> QED
        BY <4>1 DEF Decisions
    <3> QED
      BY <1>4, <3>1 DEF Raises, HandleException
  <2>3. decided'[r].step # "completed" /\ \A s \in Rows \ {r} : decided'[s] = decided[s]
    BY <2>1, DecidedKept DEF Steps
  <2> QED
    BY <1>4, <2>2, <2>3, CountsKept DEF Start, Raises, HandleException, columns
<1>5. ASSUME NEW r \in Rows, ReadChildren(r) PROVE CountsCover'
  <2>1. /\ decided[r].step = "running" /\ decided'[r].step = "read"
        /\ \A s \in Rows \ {r} : decided'[s] = decided[s]
    BY <1>5 DEF ReadChildren, MoreTypes
  <2> QED
    BY <1>5, <2>1, CountsKept DEF ReadChildren, columns
<1>6. ASSUME NEW r \in Rows, Complete(r) PROVE CountsCover'
  BY <1>6, CompleteCounts DEF CountsCover
<1>8. ASSUME NEW r \in Rows, Cancel(r) PROVE CountsCover'
  BY <1>8, CountsKept DEF Cancel
<1>9. CASE UNCHANGED vars
  BY <1>9, CountsKept DEF vars, columns
<1> QED
  BY <1>1, <1>2, <1>3, <1>4, <1>5, <1>6, <1>8, <1>9, RollBacks DEF Next, Calls, Ends, Executes

LEMMA ReleaseStep ==
    ASSUME RowsInv, CountsCover, [Next]_vars,
           NEW d \in Rows, state[d] = "waiting", state'[d] = "pending", deps[d] # <<>>
    PROVE  \A m \in C!DependencySet(d) : decided'[m].step = "completed"
<1> USE DEF RowsInv
<1>1. ASSUME NEW r \in Rows, Complete(r)
      PROVE  \A m \in C!DependencySet(d) : decided'[m].step = "completed"
  <2>1. decided[r].step = "read" /\ r # d
    BY <1>1 DEF Complete, Decisions
  <2>2. d \notin Written(r)
    <3>1. \A i \in Written(r) : parent[i] # NoRow
      BY <2>1, DecidedType DEF Decisions, Rows, NoRow
    <3> QED
      BY <3>1 DEF OneAxisRows
  <2>3. r \in C!DependencySet(d) /\ count[d] - 1 <= 0
    BY <1>1, <2>1, <2>2, CompletedMoves DEF Complete, Released
  <2>4. Missing(d)' = {}
    BY <1>1, <2>3, CompleteCounts
  <2>5. C!DependencySet(d)' = C!DependencySet(d)
    BY <1>1 DEF Complete, C!DependencySet
  <2> QED
    BY <2>4, <2>5 DEF Missing
<1>2. ASSUME NEW c \in Clients, Insert(c) PROVE FALSE
  <2>1. PICK r \in Rows : Inserted(c, r)
    BY <1>2, InsertIs
  <2>2. state[r] = "absent"
    BY <2>1 DEF Inserted, NewRows
  <2> QED
    BY <2>1, <2>2 DEF Inserted, TypeOK
<1>3. ASSUME NEW c \in Clients, Begin(c) \/ ReturnExisting(c) \/ Commit(c) PROVE FALSE
  BY <1>3 DEF Begin, ReturnExisting, Commit, columns
<1>4. ASSUME NEW c \in Clients, RollBack(c) PROVE FALSE
  BY <1>4 DEF RollBack
<1>5. ASSUME NEW r \in Rows, Start(r) \/ ReadChildren(r) \/ Raises(r) PROVE FALSE
  BY <1>5 DEF Start, ReadChildren, Raises, columns, TypeOK
<1>6. ASSUME NEW r \in Rows, HandleException(r) PROVE FALSE
  <2>1. r # d
    BY <1>6 DEF HandleException, Decisions
  <2> QED
    BY <1>6, <2>1 DEF HandleException, TypeOK
<1>7. ASSUME NEW r \in Rows, Cancel(r) PROVE FALSE
  BY <1>7, CancelIs
<1>8. CASE UNCHANGED vars
  BY <1>8 DEF vars, columns
<1> QED
  BY <1>1, <1>2, <1>3, <1>4, <1>5, <1>6, <1>7, <1>8, RollBacks DEF Next, Calls, Ends, Executes

LEMMA CountsInit == Init => CountsCover
<1> SUFFICES ASSUME Init, NEW d \in Rows PROVE Cardinality(Missing(d)) <= count[d]
  BY DEF CountsCover
<1>1. TypeOK
  BY RowsInit DEF RowsInv
<1>2. Cardinality(Missing(d)) <= Len(deps[d])
  BY <1>1, MissingFinite
<1> QED
  BY <1>2 DEF Init

\* A group callback is let go only when every member has completed, also when
\* members were enqueued by others, are listed twice, end while it is being
\* created, or are cancelled while they run or afterwards.
THEOREM EnqueuedBarrierWaits ==
    ASSUME OneAxis
    PROVE  Spec => BarrierWaitsForAll
<1>1. Init => CountsCover
  BY CountsInit
<1>2. RowsInv /\ CountsCover /\ [Next]_vars => RowsInv' /\ CountsCover'
  BY RowsStep, CountsStep
<1>3. RowsInv /\ CountsCover /\ [Next]_vars =>
          [\A r \in Rows : (state[r] = "waiting" /\ state'[r] = "pending" /\ deps[r] # <<>>)
              => \A m \in C!DependencySet(r) : decided'[m].step = "completed"]_vars
  BY ReleaseStep
<1> QED
  BY <1>1, <1>2, <1>3, RowsInit, PTL DEF Spec, BarrierWaitsForAll

-----------------------------------------------------------------------------
(* Wake-ups. *)

\* One program uses a key once, groups are made of single jobs, each listed
\* once, and nothing is chained to a group's failure handler.
PlainPrograms ==
    \A c \in Clients : \A p \in Programs[c] : \A i \in DOMAIN p :
        /\ \A k \in DOMAIN p : p[k].key = p[i].key /\ k # i => p[i].key = NoKey
        /\ \A k \in DOMAIN p[i].deps :
               /\ p[p[i].deps[k]].parent = 0 /\ p[p[i].deps[k]].deps = <<>>
               /\ \A l \in DOMAIN p[i].deps : p[i].deps[k] = p[i].deps[l] => k = l
        /\ p[i].parent # 0 => ~(p[p[i].parent].handler /\ p[p[i].parent].deps # <<>>)

\* A client's rows are out, or gone, together.
Together ==
    \A r \in Rows : creator[r] # NoClient =>
        /\ phase[creator[r]] # "idle"
        /\ writer[r] = NoClient /\ state[r] # "absent" => phase[creator[r]] = "committed"
        /\ state[r] = "absent" => phase[creator[r]] = "aborted"

\* Somebody else's row that is there to stay.
Settled(c, r) == creator[r] \notin {c, NoClient} /\ writer[r] = NoClient /\ state[r] # "absent"

\* The i-th row that c has got is the one it inserted for its i-th call.
Own(c, i) ==
    LET r == got[c][i]
    IN  /\ creator[r] = c
        /\ key[r] = program[c][i].key /\ handler[r] = program[c][i].handler
        /\ program[c][i].parent = 0 => parent[r] = NoRow
        /\ program[c][i].deps = <<>> => deps[r] = <<>>
        /\ \A k \in DOMAIN got[c] : got[c][k] = r => k = i

\* What a transaction sees and has got: others' rows, and its own as its calls
\* asked for them.
Answers ==
    \A c \in Clients :
        /\ \A r \in snapshot[c] : Settled(c, r)
        /\ phase[c] = "idle" => got[c] = <<>>
        /\ Len(got[c]) <= Len(program[c])
        /\ \A r \in Rows : creator[r] = c => \E i \in DOMAIN got[c] : got[c][i] = r
        /\ \A i \in DOMAIN got[c] : Settled(c, got[c][i]) \/ Own(c, i)

\* How rows are wired to others of their own transaction.
PlainRows ==
    \A r \in Rows :
        /\ creator[r] = NoClient => parent[r] = NoRow /\ deps[r] = <<>>
        /\ \A u \in Upstream(r) : creator[u] = creator[r] \/ Settled(creator[r], u)
        /\ \A k \in DOMAIN deps[r] : creator[deps[r][k]] = creator[r] =>
               /\ parent[deps[r][k]] = NoRow /\ deps[deps[r][k]] = <<>>
               /\ \A l \in DOMAIN deps[r] : deps[r][k] = deps[r][l] => k = l
        /\ (parent[r] # NoRow /\ creator[parent[r]] = creator[r]) =>
               ~(handler[parent[r]] /\ deps[parent[r]] # <<>>)

\* A row that waits for a row of its transaction waits for a live one, whose
\* end, or the end of what that one hangs below, will find it.
ParentsWake ==
    \A r \in Rows : (state[r] = "waiting" /\ parent[r] # NoRow /\ creator[parent[r]] = creator[r]) =>
        /\ state[parent[r]] \in LiveStates
        /\ decided[parent[r]].step = "read" => r \in Written(parent[r])
        /\ \A s \in Rows :
               (decided[s].step = "read" /\ parent[r] \in Written(s) /\ decided[s].writes[parent[r]] = "cancelled")
                   => r \in Written(s) /\ decided[s].writes[r] = "cancelled"

LiveOrOver(m) == state[m] \in LiveStates \/ decided[m].step = "completed"

OwnGroup(r) == deps[r] # <<>> /\ \A m \in C!DependencySet(r) : creator[m] = creator[r]

\* A group of one transaction counts exactly, and its members are live or have
\* completed.
GroupsWake ==
    \A r \in Rows : (state[r] = "waiting" /\ OwnGroup(r)) =>
        /\ count[r] = Cardinality(Missing(r)) /\ Missing(r) # {}
        /\ \A m \in C!DependencySet(r) : LiveOrOver(m)

OnlyWiredWait == \A r \in Rows : state[r] = "waiting" => parent[r] # NoRow \/ deps[r] # <<>>

WakeInv ==
    /\ RowsInv /\ CountsCover /\ Together /\ Answers
    /\ PlainRows /\ ParentsWake /\ GroupsWake /\ OnlyWiredWait

-----------------------------------------------------------------------------
\* The success of r reaches every child that waits, and a cancellation on its
\* way every child of the cancelled row.
LEMMA ChildrenReached ==
    ASSUME NEW st \in [Rows -> Columns], NEW r \in Rows, st[r] # "waiting"
    PROVE  LET after == C!ChildrenOnSuccess(st, r)
           IN  /\ \A i \in Rows : st[i] = "waiting" /\ parent[i] = r => after[i] # "waiting"
               /\ \A i, k \in Rows : (/\ st[i] = "waiting" /\ after[i] = "cancelled"
                                      /\ st[k] = "waiting" /\ parent[k] = i) => after[k] = "cancelled"
<1> DEFINE direct == C!WaitingChildren(st, r)
           Succ(i) == C!WaitingChildren(st, i)
           Cl     == C!Closure(C!Handlers(direct), LAMBDA i : C!WaitingChildren(st, i))
           after  == C!Move(st, direct \ C!Handlers(direct), {}, Cl)
<1>1. Cl = Below(st, C!Handlers(direct))
  BY DEF C!Closure, Below
<1> HIDE DEF Cl
<1>2. C!Handlers(direct) \subseteq direct /\ C!Handlers(direct) \subseteq Rows
  BY DEF C!Handlers, C!WaitingChildren
<1>3. C!Handlers(direct) \subseteq Cl
  BY <1>1, <1>2, BelowGrows
<1>4. \A i \in Cl : \A k \in Rows : st[k] = "waiting" /\ parent[k] = i => k \in Cl
  <2>1. \A i \in Cl : Succ(i) \subseteq Cl
    BY <1>1 DEF Below, C!WaitingChildren
  <2> QED
    BY <2>1 DEF C!WaitingChildren
<1>5. \A i \in Rows : i \in direct <=> (st[i] = "waiting" /\ parent[i] = r)
  BY DEF C!WaitingChildren
<1> HIDE DEF direct
<1>6. \A i \in Rows : after[i] = CASE i \in direct \ C!Handlers(direct) -> "pending"
                                   [] i \in Cl -> "cancelled"
                                   [] OTHER -> st[i]
  BY DEF C!Move
<1> HIDE DEF after
<1>7. \A i \in Rows : st[i] = "waiting" /\ parent[i] = r => after[i] # "waiting"
  BY <1>3, <1>5, <1>6
<1>8. ASSUME NEW i \in Rows, NEW k \in Rows, st[i] = "waiting", after[i] = "cancelled",
             st[k] = "waiting", parent[k] = i
      PROVE  after[k] = "cancelled"
  <2>1. i \in Cl /\ i # r
    BY <1>6, <1>8
  <2>2. k \in Cl /\ k \notin direct
    BY <1>4, <1>5, <1>8, <2>1
  <2> QED
    BY <1>6, <2>2
<1>9. after = C!ChildrenOnSuccess(st, r)
  BY DEF C!ChildrenOnSuccess, after, direct, Cl
<1> QED
  BY <1>7, <1>8, <1>9

\* The button reaches whatever waits for a row that it cancels, on both axes.
LEMMA CancelReached ==
    ASSUME NEW st \in [Rows -> Columns], NEW r \in Rows,
           st[r] \in Columns \ {"absent"}
    PROVE  /\ C!Cancelled(st, r)[r] = "cancelled"
           /\ \A i, k \in Rows : (/\ C!Cancelled(st, r)[i] = "cancelled" /\ st[i] \in LiveStates
                                  /\ st[k] = "waiting"
                                  /\ parent[k] = i \/ i \in C!DependencySet(k))
                  => C!Cancelled(st, r)[k] = "cancelled"
<1> DEFINE after     == [st EXCEPT ![r] = "cancelled"]
           wired(i)  == C!WaitingChildren(after, i) \cup C!WaitingDependents(after, i)
           closure   == {j \in Rows : \A S \in SUBSET Rows :
                            (wired(r) \subseteq S /\ \A i \in S : wired(i) \subseteq S) => j \in S}
           cancelled == IF st[r] \in C!TerminalStates THEN {} ELSE closure
<1>1. C!Cancelled(st, r) = C!Move(after, {}, {}, cancelled)
  BY DEF C!Cancelled, C!Closure
<1>2. \A i : wired(i) \subseteq Rows
  BY DEF C!WaitingChildren, C!WaitingDependents
<1>3. wired(r) \subseteq closure /\ \A i \in closure : wired(i) \subseteq closure
  BY <1>2
<1>4. \A i, k \in Rows : (k # r /\ st[k] = "waiting" /\ (parent[k] = i \/ i \in C!DependencySet(k)))
          => k \in wired(i)
  BY DEF C!WaitingChildren, C!WaitingDependents
<1> HIDE DEF closure
<1>5. \A i \in Rows :
        C!Move(after, {}, {}, cancelled)[i] = IF i \in cancelled \cup {r} THEN "cancelled" ELSE st[i]
  BY DEF C!Move
<1>6. C!Cancelled(st, r)[r] = "cancelled"
  BY <1>1, <1>5
<1>7. ASSUME NEW i \in Rows, NEW k \in Rows, C!Cancelled(st, r)[i] = "cancelled",
             st[i] \in LiveStates, st[k] = "waiting", parent[k] = i \/ i \in C!DependencySet(k)
      PROVE  C!Cancelled(st, r)[k] = "cancelled"
  <2>1. i \in cancelled \cup {r}
    BY <1>1, <1>5, <1>7 DEF LiveStates
  <2>2. cancelled = closure
    BY <1>7, <2>1 DEF LiveStates, C!TerminalStates
  <2>3. k = r \/ k \in closure
    BY <1>3, <1>4, <1>7, <2>1, <2>2
  <2> QED
    BY <1>1, <1>5, <2>2, <2>3
<1> QED
  BY <1>6, <1>7

-----------------------------------------------------------------------------
\* What every step of a worker or the operator leaves alone.
LEMMA WorkerSteps ==
    ASSUME RowsInv, NEW r \in Rows, Executes(r) \/ Cancel(r)
    PROVE  /\ UNCHANGED <<parent, deps, handler, key, writer, client, creator>>
           /\ \A i \in Rows : /\ state'[i] = "absent" <=> state[i] = "absent"
                              /\ state'[i] = "waiting" => state[i] = "waiting"
<1>1. CASE Start(r)
  <2>1. state[r] = "pending"
    BY <1>1 DEF Start, Committed
  <2> QED
    BY <1>1, <2>1 DEF Start, RowsInv, TypeOK
<1>2. CASE ReadChildren(r)
  BY <1>2 DEF ReadChildren, columns
<1>3. CASE Complete(r)
  <2>1. decided[r].step = "read" /\ state[r] # "absent" /\ \A i \in Written(r) : state[i] # "absent"
    BY <1>3, ExecutedRows DEF Complete, RowsInv, Decisions
  <2>2. state'[r] = "done"
    BY <1>3, <2>1, CompletedIs DEF Complete
  <2> QED
    BY <1>3, <2>1, <2>2, CompletedMoves DEF Complete, Released
<1>4. CASE Raises(r) \/ HandleException(r)
  <2>1. state[r] # "absent"
    BY <1>4, ExecutedRows DEF Raises, HandleException
  <2> QED
    BY <1>4, <2>1 DEF Raises, HandleException, columns, RowsInv, TypeOK
<1>5. CASE Cancel(r)
  BY <1>5, CancelIs DEF Cancel, RowsInv
<1> QED
  BY <1>1, <1>2, <1>3, <1>4, <1>5 DEF Executes

\* A settled row stays settled.
LEMMA SettledStays ==
    ASSUME RowsInv, [Next]_vars, NEW c, NEW r \in Rows, Settled(c, r)
    PROVE  Settled(c, r)'
<1>1. ASSUME NEW d \in Clients, Insert(d) PROVE Settled(c, r)'
  <2>1. PICK s \in Rows : Inserted(d, s)
    BY <1>1, InsertIs
  <2> QED
    BY <2>1 DEF Inserted, Settled, RowsInv, TypeOK
<1>2. ASSUME NEW d \in Clients, Begin(d) \/ ReturnExisting(d) \/ Commit(d) PROVE Settled(c, r)'
  BY <1>2 DEF Begin, ReturnExisting, Commit, columns, Settled
<1>3. ASSUME NEW d \in Clients, RollBack(d) PROVE Settled(c, r)'
  BY <1>3, EnqueueAssumption DEF RollBack, Settled
<1>4. ASSUME NEW s \in Rows, Executes(s) \/ Cancel(s) PROVE Settled(c, r)'
  BY <1>4, WorkerSteps DEF Settled
<1>5. CASE UNCHANGED vars
  BY <1>5 DEF vars, columns, Settled
<1> QED
  BY <1>1, <1>2, <1>3, <1>4, <1>5, RollBacks DEF Next, Calls, Ends

LEMMA TogetherStep == RowsInv /\ Together /\ [Next]_vars => Together'
<1> SUFFICES ASSUME RowsInv, Together, [Next]_vars PROVE Together'
  OBVIOUS
<1> USE DEF RowsInv
<1>1. ASSUME NEW c \in Clients, Begin(c) \/ ReturnExisting(c) PROVE Together'
  BY <1>1 DEF Begin, ReturnExisting, columns, Together, TypeOK
<1>2. ASSUME NEW c \in Clients, Insert(c) PROVE Together'
  <2>1. PICK r \in Rows : Inserted(c, r)
    BY <1>2, InsertIs
  <2>2. phase' = phase /\ phase[c] = "open" /\ c # NoClient
    BY <1>2, EnqueueAssumption DEF Insert, Calling
  <2>3. /\ creator'[r] = c /\ writer'[r] = c /\ state'[r] # "absent"
        /\ \A s \in Rows \ {r} : creator'[s] = creator[s] /\ writer'[s] = writer[s] /\ state'[s] = state[s]
    BY <2>1 DEF Inserted, TypeOK
  <2> QED
    BY <2>2, <2>3 DEF Together
<1>3. ASSUME NEW c \in Clients, Commit(c) PROVE Together'
  BY <1>3 DEF Commit, columns, Together, TypeOK
<1>4. ASSUME NEW c \in Clients, phase[c] = "open", RollBack(c) PROVE Together'
  BY <1>4, EnqueueAssumption DEF RollBack, Together, TypeOK
<1>5. ASSUME NEW r \in Rows, Executes(r) \/ Cancel(r) PROVE Together'
  BY <1>5, WorkerSteps DEF client, Together
<1>6. CASE UNCHANGED vars
  BY <1>6 DEF vars, columns, client, Together
<1> QED
  BY <1>1, <1>2, <1>3, <1>4, <1>5, <1>6, RollBacks DEF Next, Calls, Ends

\* Steps that give no transaction another row and change no row's call.
LEMMA AnswersKept ==
    ASSUME TypeOK, Answers, UNCHANGED <<got, creator, key, handler, parent, deps>>,
           \A c \in Clients :
               /\ phase'[c] = "idle" => phase[c] = "idle"
               /\ \/ program'[c] = program[c]
                  \/ got[c] = <<>> /\ Len(program'[c]) \in Nat
               /\ \A r \in snapshot'[c] : r \in snapshot[c] \/ Settled(c, r)',
           \A c \in Clients, r \in Rows : Settled(c, r) => Settled(c, r)'
    PROVE  Answers'
<1> SUFFICES ASSUME NEW c \in Clients
             PROVE  /\ \A r \in snapshot'[c] : Settled(c, r)'
                    /\ phase'[c] = "idle" => got'[c] = <<>>
                    /\ Len(got'[c]) <= Len(program'[c])
                    /\ \A r \in Rows : creator'[r] = c => \E i \in DOMAIN got'[c] : got'[c][i] = r
                    /\ \A i \in DOMAIN got'[c] : Settled(c, got[c][i])' \/ Own(c, i)'
  BY DEF Answers
<1>1. got[c] \in Seq(Rows) /\ snapshot[c] \subseteq Rows
  BY DEF TypeOK
<1>2. \A r \in snapshot'[c] : Settled(c, r)'
  BY <1>1 DEF Answers
<1>3. phase'[c] = "idle" => got'[c] = <<>>
  BY DEF Answers
<1>4. \A r \in Rows : creator'[r] = c => \E i \in DOMAIN got'[c] : got'[c][i] = r
  BY DEF Answers
<1>5. CASE program'[c] = program[c]
  <2>1. Len(got'[c]) <= Len(program'[c])
    BY <1>5 DEF Answers
  <2>2. ASSUME NEW i \in DOMAIN got[c]
        PROVE  Settled(c, got[c][i])' \/ Own(c, i)'
    <3>1. got[c][i] \in Rows /\ got' = got
      BY <1>1
    <3>2. CASE Settled(c, got[c][i])
      BY <3>1, <3>2
    <3>3. CASE Own(c, i)
      BY <1>5, <3>1, <3>3 DEF Own
    <3> QED
      BY <3>2, <3>3 DEF Answers
  <2> QED
    BY <1>2, <1>3, <1>4, <2>1, <2>2
<1>6. CASE got[c] = <<>> /\ Len(program'[c]) \in Nat
  <2>1. Len(got'[c]) <= Len(program'[c]) /\ DOMAIN got'[c] = {}
    BY <1>6
  <2> QED
    BY <1>2, <1>3, <1>4, <2>1
<1> QED
  BY <1>5, <1>6

\* The answer to a call: somebody else's row, or the row that was inserted.
LEMMA AnswersGrow ==
    ASSUME RowsInv, Answers, NEW c \in Clients, NEW r \in Rows,
           Calling(c), got' = [got EXCEPT ![c] = Append(@, r)],
           UNCHANGED <<phase, program, snapshot>>,
           \A s \in Rows \ {r} : /\ creator'[s] = creator[s] /\ key'[s] = key[s]
                                 /\ handler'[s] = handler[s] /\ parent'[s] = parent[s]
                                 /\ deps'[s] = deps[s],
           \/ Settled(c, r) /\ UNCHANGED <<creator, key, handler, parent, deps>>
           \/ /\ creator[r] = NoClient /\ creator'[r] = c
              /\ key'[r] = Call(c).key /\ handler'[r] = Call(c).handler
              /\ Call(c).parent = 0 => parent'[r] = NoRow
              /\ Call(c).deps = <<>> => deps'[r] = <<>>,
           \A d \in Clients, s \in Rows : Settled(d, s) => Settled(d, s)'
    PROVE  Answers'
<1>0. PICK n \in Nat : n = Len(got[c])
  BY DEF RowsInv, TypeOK
<1>1. \A d \in Clients : got[d] \in Seq(Rows) /\ snapshot[d] \subseteq Rows
  BY DEF RowsInv, TypeOK
<1>2. c # NoClient /\ phase[c] = "open" /\ NoClient \notin Clients
  BY EnqueueAssumption DEF Calling
<1>3. /\ n \in Nat /\ DOMAIN got[c] = 1..n /\ Len(got'[c]) = n + 1 /\ DOMAIN got'[c] = 1..(n + 1)
      /\ got'[c][n + 1] = r /\ \A i \in 1..n : got'[c][i] = got[c][i]
      /\ \A d \in Clients \ {c} : got'[d] = got[d]
  BY <1>0, <1>1 DEF RowsInv, TypeOK
<1>4. Call(c) = program'[c][n + 1]
  BY <1>0 DEF Call
<1>5. Len(got'[c]) <= Len(program'[c])
  <2>1. Len(program[c]) \in Nat
    BY <1>2, ProgramAssumption DEF RowsInv, MoreTypes
  <2> QED
    BY <1>0, <1>3, <2>1 DEF Calling
<1>6. ASSUME NEW d \in Clients, NEW i \in DOMAIN got[d]
      PROVE  /\ got'[d][i] = got[d][i] /\ got[d][i] \in Rows /\ i \in DOMAIN got'[d]
             /\ creator[got[d][i]] # NoClient
             /\ Settled(d, got[d][i])' \/ Own(d, i)'
  <2>1. got'[d][i] = got[d][i] /\ i \in DOMAIN got'[d]
    <3>1. CASE d = c
      BY <1>3, <3>1
    <3>2. CASE d # c
      BY <1>3, <3>2
    <3> QED
      BY <3>1, <3>2
  <2>2. got[d][i] \in Rows
    BY <1>1
  <2>3. creator[got[d][i]] # NoClient
    BY <1>2 DEF Answers, Settled, Own
  <2>4. CASE Settled(d, got[d][i])
    BY <2>1, <2>2, <2>3, <2>4
  <2>5. CASE Own(d, i)
    <3> DEFINE s == got[d][i]
    <3>1. /\ creator[s] = d
          /\ key[s] = program[d][i].key /\ handler[s] = program[d][i].handler
          /\ program[d][i].parent = 0 => parent[s] = NoRow
          /\ program[d][i].deps = <<>> => deps[s] = <<>>
          /\ \A k \in DOMAIN got[d] : got[d][k] = s => k = i
      BY <2>5 DEF Own
    <3>2. s # r \/ UNCHANGED <<creator, key, handler, parent, deps>>
      BY <2>3
    <3>3. s \in Rows
      BY <2>2
    <3>4. d = c => s # r
      BY <2>3, <3>1 DEF Settled
    <3> HIDE DEF s
    <3>5. /\ creator'[s] = d
          /\ key'[s] = program'[d][i].key /\ handler'[s] = program'[d][i].handler
          /\ program'[d][i].parent = 0 => parent'[s] = NoRow
          /\ program'[d][i].deps = <<>> => deps'[s] = <<>>
      BY <3>1, <3>2, <3>3
    <3>6. \A k \in DOMAIN got'[d] : got'[d][k] = s => k = i
      <4>1. CASE d = c
        BY <1>3, <3>1, <3>4, <4>1
      <4>2. CASE d # c
        BY <1>3, <3>1, <4>2
      <4> QED
        BY <4>1, <4>2
    <3>7. got'[d][i] = s
      BY <2>1 DEF s
    <3>8. Own(d, i)'
      BY <3>5, <3>6, <3>7 DEF Own
    <3> QED
      BY <2>1, <2>2, <2>3, <3>8
  <2> QED
    BY <2>1, <2>2, <2>3, <2>4, <2>5 DEF Answers
<1>7. Settled(c, got[c][n + 1])' \/ Own(c, n + 1)'
  <2>1. CASE Settled(c, r)
    BY <1>3, <2>1
  <2>2. CASE ~Settled(c, r)
    <3>1. /\ creator[r] = NoClient /\ creator'[r] = c
          /\ key'[r] = Call(c).key /\ handler'[r] = Call(c).handler
          /\ Call(c).parent = 0 => parent'[r] = NoRow
          /\ Call(c).deps = <<>> => deps'[r] = <<>>
      BY <2>2
    <3>2. \A i \in 1..n : got[c][i] # r
      BY <1>3, <1>6, <3>1
    <3>3. \A k \in DOMAIN got'[c] : got'[c][k] = r => k = n + 1
      BY <1>3, <3>2
    <3> QED
      BY <1>3, <1>4, <3>1, <3>3 DEF Own
  <2> QED
    BY <2>1, <2>2
<1>8. ASSUME NEW d \in Clients
      PROVE  /\ \A s \in snapshot'[d] : Settled(d, s)'
             /\ phase'[d] = "idle" => got'[d] = <<>>
             /\ Len(got'[d]) <= Len(program'[d])
             /\ \A s \in Rows : creator'[s] = d => \E i \in DOMAIN got'[d] : got'[d][i] = s
             /\ \A i \in DOMAIN got'[d] : Settled(d, got[d][i])' \/ Own(d, i)'
  <2>1. \A s \in snapshot'[d] : Settled(d, s)'
    BY <1>1 DEF Answers
  <2>2. phase'[d] = "idle" => got'[d] = <<>>
    BY <1>2, <1>3 DEF Answers
  <2>3. Len(got'[d]) <= Len(program'[d])
    BY <1>3, <1>5 DEF Answers
  <2>4. ASSUME NEW s \in Rows, creator'[s] = d
        PROVE  \E i \in DOMAIN got'[d] : got'[d][i] = s
    <3>1. CASE creator[s] = d
      BY <1>6, <3>1 DEF Answers
    <3>2. CASE creator[s] # d
      <4>1. s = r /\ d = c
        BY <2>4, <3>2
      <4>2. n + 1 \in DOMAIN got'[c]
        BY <1>3
      <4> QED
        BY <1>3, <4>1, <4>2
    <3> QED
      BY <3>1, <3>2
  <2>5. ASSUME NEW i \in DOMAIN got'[d]
        PROVE  Settled(d, got[d][i])' \/ Own(d, i)'
    <3>1. i \in DOMAIN got[d] \/ (d = c /\ i = n + 1)
      BY <1>3
    <3> QED
      BY <1>6, <1>7, <3>1
  <2> QED
    BY <2>1, <2>2, <2>3, <2>4, <2>5
<1> QED
  BY <1>8 DEF Answers

LEMMA AnswersStep == RowsInv /\ TypeOK' /\ Together /\ Answers /\ PlainPrograms /\ [Next]_vars => Answers'
<1> SUFFICES ASSUME RowsInv, TypeOK', Together, Answers, PlainPrograms, [Next]_vars PROVE Answers'
  OBVIOUS
<1>1. \A c \in Clients, r \in Rows : Settled(c, r) => Settled(c, r)'
  BY SettledStays
<1>2. TypeOK /\ \A c \in Clients : got[c] \in Seq(Rows) /\ snapshot[c] \subseteq Rows
  BY DEF RowsInv, TypeOK
<1>3. ASSUME NEW c \in Clients, Begin(c) PROVE Answers'
  <2>1. PICK p \in Programs[c] : program' = [program EXCEPT ![c] = p]
    BY <1>3 DEF Begin
  <2>2. /\ phase[c] = "idle" /\ phase' = [phase EXCEPT ![c] = "open"]
        /\ snapshot' = [snapshot EXCEPT ![c] = {r \in Rows : Committed[r] \in LiveStates}]
        /\ UNCHANGED <<columns, writer, got, decided, creator>>
    BY <1>3 DEF Begin
  <2>3. \A r \in Rows : Committed[r] \in LiveStates => Settled(c, r)
    BY <2>2 DEF Committed, LiveStates, Settled, Together, RowsInv, NewRows
  <2>4. Len(p) \in Nat /\ got[c] = <<>>
    BY <2>2, ProgramAssumption DEF Answers
  <2>5. program'[c] = p /\ \A d \in Clients \ {c} : program'[d] = program[d]
    BY <2>1 DEF RowsInv, MoreTypes
  <2>6. phase'[c] = "open" /\ \A d \in Clients \ {c} : snapshot'[d] = snapshot[d] /\ phase'[d] = phase[d]
    BY <1>2, <2>2 DEF TypeOK
  <2>7. \A r \in snapshot'[c] : Settled(c, r)'
    BY <1>1, <1>2, <2>2, <2>3 DEF TypeOK
  <2> QED
    BY <1>1, <1>2, <2>2, <2>4, <2>5, <2>6, <2>7, AnswersKept DEF columns
<1>4. ASSUME NEW c \in Clients, ReturnExisting(c) PROVE Answers'
  <2>1. PICK r \in Found(c) : got' = [got EXCEPT ![c] = Append(@, r)]
    BY <1>4 DEF ReturnExisting
  <2>2. r \in Rows /\ Call(c).key # NoKey /\ key[r] = Call(c).key /\ (r \in snapshot[c] \/ writer[r] = c)
    BY DEF Found
  <2>3. writer[r] # c
    <3> SUFFICES ASSUME writer[r] = c PROVE FALSE
      OBVIOUS
    <3>1. creator[r] = c
      BY <1>2, <2>2, EnqueueAssumption DEF TypeOK
    <3>2. PICK i \in DOMAIN got[c] : got[c][i] = r
      BY <2>2, <3>1 DEF Answers
    <3>3. key[r] = program[c][i].key
      BY <3>1, <3>2 DEF Answers, Settled, Own
    <3>4. i \in 1..Len(got[c]) /\ Len(got[c]) \in Nat
      BY <1>2
    <3>5. program[c] \in Programs[c] /\ Len(got[c]) < Len(program[c])
      BY <1>4 DEF ReturnExisting, Calling, RowsInv, MoreTypes
    <3>6. DOMAIN program[c] = 1..Len(program[c]) /\ Len(program[c]) \in Nat
      BY <3>5, ProgramAssumption
    <3>7. i \in DOMAIN program[c] /\ Len(got[c]) + 1 \in DOMAIN program[c] /\ i # Len(got[c]) + 1
      BY <3>4, <3>5, <3>6
    <3>8. program[c][i].key = program[c][Len(got[c]) + 1].key
      BY <2>2, <3>3 DEF Call
    <3>9. program[c][Len(got[c]) + 1].key = NoKey
      BY <3>5, <3>7, <3>8 DEF PlainPrograms
    <3> QED
      BY <2>2, <3>9 DEF Call
  <2>4. Settled(c, r)
    BY <2>2, <2>3 DEF Answers
  <2> QED
    BY <1>1, <1>4, <2>1, <2>2, <2>4, AnswersGrow DEF ReturnExisting, columns
<1>5. ASSUME NEW c \in Clients, Insert(c) PROVE Answers'
  <2>1. PICK r \in Rows : Inserted(c, r)
    BY <1>5, InsertIs
  <2>2. Calling(c) /\ UNCHANGED <<phase, program, snapshot, decided>>
    BY <1>5 DEF Insert
  <2>3. /\ \A s \in Rows \ {r} : /\ creator'[s] = creator[s] /\ key'[s] = key[s]
                                 /\ handler'[s] = handler[s] /\ parent'[s] = parent[s]
                                 /\ deps'[s] = deps[s]
        /\ creator[r] = NoClient /\ creator'[r] = c
        /\ key'[r] = Call(c).key /\ handler'[r] = Call(c).handler
        /\ Call(c).parent = 0 => parent'[r] = NoRow
        /\ got' = [got EXCEPT ![c] = Append(@, r)]
    BY <2>1 DEF Inserted, RowsInv, TypeOK, MoreTypes
  <2>4. Call(c).deps = <<>> => deps'[r] = <<>>
    <3> SUFFICES ASSUME Call(c).deps = <<>> PROVE deps'[r] = <<>>
      OBVIOUS
    <3>1. DOMAIN Call(c).deps = {}
      OBVIOUS
    <3>2. DOMAIN deps'[r] = DOMAIN Call(c).deps
      BY <1>2, <2>1 DEF Inserted, TypeOK
    <3>3. deps'[r] \in Seq(Rows)
      BY DEF TypeOK
    <3>4. Len(deps'[r]) \in Nat /\ DOMAIN deps'[r] = 1..Len(deps'[r])
      BY <3>3
    <3>5. 1 \notin DOMAIN deps'[r]
      BY <3>1, <3>2
    <3>6. Len(deps'[r]) = 0
      BY <3>4, <3>5
    <3> QED
      BY <3>3, <3>6
  <2> QED
    BY <1>1, <2>2, <2>3, <2>4, AnswersGrow
<1>6. ASSUME NEW c \in Clients, Commit(c) PROVE Answers'
  BY <1>1, <1>2, <1>6, AnswersKept DEF Commit, columns, TypeOK
<1>7. ASSUME NEW c \in Clients, RollBack(c) PROVE Answers'
  BY <1>1, <1>2, <1>7, AnswersKept DEF RollBack, TypeOK
<1>8. ASSUME NEW r \in Rows, Executes(r) \/ Cancel(r) PROVE Answers'
  BY <1>1, <1>2, <1>8, AnswersKept, WorkerSteps DEF client
<1>9. CASE UNCHANGED vars
  BY <1>1, <1>2, <1>9, AnswersKept DEF vars, columns, client
<1> QED
  BY <1>3, <1>4, <1>5, <1>6, <1>7, <1>8, <1>9, RollBacks DEF Next, Calls, Ends

-----------------------------------------------------------------------------
(* How rows of one transaction are wired, and seen. *)

\* The rows of one transaction that are there are all committed or all not.
LEMMA OneTransaction ==
    ASSUME RowsInv, Together, NEW r \in Rows, NEW u \in Rows,
           creator[u] = creator[r], state[r] # "absent", state[u] # "absent"
    PROVE  writer[u] = writer[r]
<1>1. creator[r] # NoClient
  BY DEF RowsInv, NewRows
<1>2. \A i \in {r, u} : writer[i] # NoClient => phase[creator[r]] = "open" /\ writer[i] = creator[r]
  BY DEF RowsInv, TypeOK
<1>3. \A i \in {r, u} : writer[i] = NoClient => phase[creator[r]] = "committed"
  BY <1>1 DEF Together
<1> QED
  BY <1>2, <1>3

LEMMA UpstreamRows ==
    ASSUME TypeOK, NEW r \in Rows
    PROVE  /\ deps[r] \in Seq(Rows)
           /\ \A k \in DOMAIN deps[r] : deps[r][k] \in Rows /\ deps[r][k] \in Upstream(r)
           /\ C!DependencySet(r) \subseteq Rows
           /\ C!DependencySet(r) = {deps[r][k] : k \in DOMAIN deps[r]}
           /\ Upstream(r) \subseteq Rows
           /\ parent[r] # NoRow => parent[r] \in Rows /\ parent[r] \in Upstream(r)
<1>1. deps[r] \in Seq(Rows) /\ parent[r] \in Rows \cup {NoRow}
  BY DEF TypeOK
<1>2. C!DependencySet(r) = {deps[r][k] : k \in DOMAIN deps[r]}
  BY DEF C!DependencySet
<1>3. \A k \in DOMAIN deps[r] : deps[r][k] \in Rows
  BY <1>1
<1> QED
  BY <1>1, <1>2, <1>3 DEF Upstream

\* Members that differ are as many as the places.
LEMMA PlacesAreMembers ==
    ASSUME NEW s \in Seq(Rows), \A k, l \in DOMAIN s : s[k] = s[l] => k = l
    PROVE  Cardinality({s[k] : k \in DOMAIN s}) = Len(s)
<1> DEFINE n == Len(s)
           S == {s[k] : k \in DOMAIN s}
<1>1. n \in Nat /\ DOMAIN s = 1..n
  OBVIOUS
<1>2. IsFiniteSet(1..n) /\ Cardinality(1..n) = n
  BY <1>1, FS_Interval
<1>3. s \in Surjection(1..n, S)
  BY <1>1 DEF Surjection
<1>4. s \in [1..n -> S] /\ \A k, l \in 1..n : s[k] = s[l] => k = l
  BY <1>1
<1> HIDE DEF n, S
<1>5. s \in Injection(1..n, S)
  BY <1>4 DEF Injection, IsInjective
<1>6. Cardinality(S) = n
  BY <1>2, <1>3, <1>5, FS_Surjection
<1> QED
  BY <1>6 DEF n, S

\* What is wired to a row that is inserted.
LEMMA Wiring ==
    ASSUME RowsInv, TypeOK', Answers, PlainPrograms,
           NEW c \in Clients, Insert(c), NEW r \in Rows, Inserted(c, r)
    PROVE  /\ creator[r] = NoClient /\ creator'[r] = c /\ phase[c] = "open"
           /\ state[r] = "absent" /\ state'[r] \in {"waiting", "pending"}
           /\ \A s \in Rows \ {r} : /\ creator'[s] = creator[s] /\ state'[s] = state[s]
                                    /\ handler'[s] = handler[s] /\ parent'[s] = parent[s]
                                    /\ deps'[s] = deps[s] /\ count'[s] = count[s]
           /\ state'[r] = "waiting" => parent'[r] # NoRow \/ deps'[r] # <<>>
           /\ parent'[r] # NoRow =>
                  /\ parent'[r] \in Rows \ {r}
                  /\ \/ Settled(c, parent'[r])
                     \/ /\ creator[parent'[r]] = c
                        /\ ~(handler[parent'[r]] /\ deps[parent'[r]] # <<>>)
           /\ \A k \in DOMAIN deps'[r] :
                  /\ deps'[r][k] \in Rows \ {r}
                  /\ \/ Settled(c, deps'[r][k])
                     \/ /\ creator[deps'[r][k]] = c
                        /\ parent[deps'[r][k]] = NoRow /\ deps[deps'[r][k]] = <<>>
                        /\ \A l \in DOMAIN deps'[r] : deps'[r][k] = deps'[r][l] => k = l
           /\ count'[r] = Len(deps'[r])
<1> DEFINE call == Call(c)
<1>1. /\ call.parent \in 0..Len(got[c]) /\ call.deps \in Seq(1..Len(got[c]))
  BY CallIs DEF Insert
<1>2. /\ Calling(c) /\ phase[c] = "open" /\ c # NoClient /\ program[c] \in Programs[c]
      /\ Len(got[c]) \in Nat /\ DOMAIN got[c] = 1..Len(got[c])
      /\ \A i \in 1..Len(got[c]) : got[c][i] \in Rows
  BY EnqueueAssumption DEF Insert, Calling, RowsInv, TypeOK, MoreTypes
<1>3. /\ DOMAIN program[c] = 1..Len(program[c]) /\ Len(program[c]) \in Nat
      /\ Len(got[c]) + 1 \in DOMAIN program[c] /\ \A i \in 1..Len(got[c]) : i \in DOMAIN program[c]
  BY <1>2, ProgramAssumption DEF Calling
<1>4. /\ creator[r] = NoClient /\ state[r] = "absent" /\ writer[r] = NoClient
      /\ creator'[r] = c
      /\ state'[r] = IF call.parent # 0 \/ call.deps # <<>> THEN "waiting" ELSE "pending"
      /\ parent'[r] = IF call.parent = 0 THEN NoRow ELSE got[c][call.parent]
      /\ deps'[r] = [i \in DOMAIN call.deps |-> IF call.deps[i] = 0 THEN NoRow ELSE got[c][call.deps[i]]]
      /\ count'[r] = Len(call.deps)
  BY DEF Inserted, RowsInv, TypeOK, NewRows
<1>5. \A s \in Rows \ {r} : /\ creator'[s] = creator[s] /\ state'[s] = state[s]
                            /\ handler'[s] = handler[s] /\ parent'[s] = parent[s]
                            /\ deps'[s] = deps[s] /\ count'[s] = count[s]
  BY DEF Inserted, RowsInv, TypeOK
<1>6. \A i \in 1..Len(got[c]) : got[c][i] \in Rows \ {r} /\ (Settled(c, got[c][i]) \/ Own(c, i))
  BY <1>2, <1>4 DEF Answers, Settled, Own
<1>7. /\ DOMAIN call.deps = 1..Len(call.deps) /\ Len(call.deps) \in Nat
      /\ \A k \in DOMAIN call.deps : call.deps[k] \in 1..Len(got[c]) /\ call.deps[k] # 0
  BY <1>1
<1>8. DOMAIN deps'[r] = DOMAIN call.deps /\ \A k \in DOMAIN call.deps : deps'[r][k] = got[c][call.deps[k]]
  BY <1>4, <1>7
<1>9. /\ \A k \in DOMAIN call.deps :
             /\ program[c][call.deps[k]].parent = 0 /\ program[c][call.deps[k]].deps = <<>>
             /\ \A l \in DOMAIN call.deps : call.deps[k] = call.deps[l] => k = l
      /\ call.parent # 0 => ~(program[c][call.parent].handler /\ program[c][call.parent].deps # <<>>)
  BY <1>2, <1>3 DEF PlainPrograms, Call
<1> HIDE DEF call
<1>10. state'[r] = "waiting" => parent'[r] # NoRow \/ deps'[r] # <<>>
  <2>1. CASE call.parent # 0
    <3>1. parent'[r] \in Rows
      BY <1>1, <1>2, <1>4, <2>1
    <3> QED
      BY <3>1 DEF Rows, NoRow
  <2>2. CASE call.deps # <<>>
    <3>1. Len(call.deps) # 0
      BY <1>1, <2>2
    <3>2. 1 \in DOMAIN deps'[r]
      BY <1>7, <1>8, <3>1
    <3> QED
      BY <3>2
  <2> QED
    BY <1>4, <2>1, <2>2
<1>11. parent'[r] # NoRow =>
          /\ parent'[r] \in Rows \ {r}
          /\ \/ Settled(c, parent'[r])
             \/ /\ creator[parent'[r]] = c
                /\ ~(handler[parent'[r]] /\ deps[parent'[r]] # <<>>)
  <2> SUFFICES ASSUME parent'[r] # NoRow
               PROVE  /\ parent'[r] \in Rows \ {r}
                      /\ \/ Settled(c, parent'[r])
                         \/ /\ creator[parent'[r]] = c
                            /\ ~(handler[parent'[r]] /\ deps[parent'[r]] # <<>>)
    OBVIOUS
  <2>1. PICK i \in 1..Len(got[c]) : i = call.parent /\ i # 0
    BY <1>1, <1>2, <1>4
  <2>2. parent'[r] = got[c][i]
    BY <1>4, <2>1
  <2>3. CASE Own(c, i)
    BY <1>6, <1>9, <2>1, <2>2, <2>3 DEF Own
  <2> QED
    BY <1>6, <2>2, <2>3
<1>12. ASSUME NEW k \in DOMAIN deps'[r]
       PROVE  /\ deps'[r][k] \in Rows \ {r}
              /\ \/ Settled(c, deps'[r][k])
                 \/ /\ creator[deps'[r][k]] = c
                    /\ parent[deps'[r][k]] = NoRow /\ deps[deps'[r][k]] = <<>>
                    /\ \A l \in DOMAIN deps'[r] : deps'[r][k] = deps'[r][l] => k = l
  <2>1. PICK i \in 1..Len(got[c]) : i = call.deps[k]
    BY <1>7, <1>8
  <2>2. deps'[r][k] = got[c][i] /\ k \in DOMAIN call.deps
    BY <1>8, <2>1
  <2>3. CASE Own(c, i)
    <3>1. creator[got[c][i]] = c /\ parent[got[c][i]] = NoRow /\ deps[got[c][i]] = <<>>
      BY <1>9, <2>1, <2>2, <2>3 DEF Own
    <3>2. \A j \in 1..Len(got[c]) : got[c][j] = got[c][i] => j = i
      BY <1>2, <2>3 DEF Own
    <3>3. \A l \in DOMAIN deps'[r] : deps'[r][k] = deps'[r][l] => k = l
      BY <1>7, <1>8, <1>9, <2>1, <2>2, <3>2
    <3> QED
      BY <1>6, <2>2, <3>1, <3>3
  <2> QED
    BY <1>6, <2>2, <2>3
<1>13. count'[r] = Len(deps'[r])
  <2>1. deps'[r] \in Seq(Rows)
    BY DEF TypeOK
  <2> QED
    BY <1>4, <1>7, <1>8, <2>1
<1> QED
  BY <1>2, <1>4, <1>5, <1>10, <1>11, <1>12, <1>13

LEMMA PlainRowsStep ==
    ASSUME RowsInv, TypeOK', Answers, PlainPrograms, PlainRows, [Next]_vars
    PROVE  PlainRows'
<1>1. \A c, r : r \in Rows /\ Settled(c, r) => Settled(c, r)'
  BY SettledStays
<1>2. \A r \in Rows : /\ \A k \in DOMAIN deps[r] : deps[r][k] \in Rows /\ deps[r][k] \in Upstream(r)
                      /\ Upstream(r) \subseteq Rows
                      /\ parent[r] # NoRow => parent[r] \in Rows /\ parent[r] \in Upstream(r)
  BY UpstreamRows DEF RowsInv
<1>3. ASSUME UNCHANGED <<creator, parent, deps, handler>> PROVE PlainRows'
  <2> SUFFICES ASSUME NEW r \in Rows
               PROVE  /\ creator'[r] = NoClient => parent'[r] = NoRow /\ deps'[r] = <<>>
                      /\ \A u \in Upstream(r)' : creator'[u] = creator'[r] \/ Settled(creator[r], u)'
                      /\ \A k \in DOMAIN deps'[r] : creator'[deps'[r][k]] = creator'[r] =>
                             /\ parent'[deps'[r][k]] = NoRow /\ deps'[deps'[r][k]] = <<>>
                             /\ \A l \in DOMAIN deps'[r] : deps'[r][k] = deps'[r][l] => k = l
                      /\ (parent'[r] # NoRow /\ creator'[parent'[r]] = creator'[r]) =>
                             ~(handler'[parent'[r]] /\ deps'[parent'[r]] # <<>>)
    BY DEF PlainRows
  <2>1. Upstream(r)' = Upstream(r) /\ Upstream(r) \subseteq Rows
    BY <1>2, <1>3 DEF Upstream, C!DependencySet
  <2>2. \A u \in Upstream(r) : creator[u] = creator[r] \/ Settled(creator[r], u)'
    BY <1>1, <1>3, <2>1 DEF PlainRows, Settled
  <2>3. \A u \in Upstream(r)' : creator'[u] = creator'[r] \/ Settled(creator[r], u)'
    BY <1>3, <2>1, <2>2
  <2> QED
    BY <1>3, <2>3 DEF PlainRows
<1>4. ASSUME NEW c \in Clients, Insert(c) PROVE PlainRows'
  <2>1. PICK n \in Rows : Inserted(c, n)
    BY <1>4, InsertIs
  <2>2. /\ creator[n] = NoClient /\ creator'[n] = c /\ c # NoClient
        /\ \A s \in Rows \ {n} : /\ creator'[s] = creator[s]
                                 /\ handler'[s] = handler[s] /\ parent'[s] = parent[s]
                                 /\ deps'[s] = deps[s]
        /\ parent'[n] # NoRow =>
               /\ parent'[n] \in Rows \ {n}
               /\ \/ Settled(c, parent'[n])
                  \/ /\ creator[parent'[n]] = c
                     /\ ~(handler[parent'[n]] /\ deps[parent'[n]] # <<>>)
        /\ \A k \in DOMAIN deps'[n] :
               /\ deps'[n][k] \in Rows \ {n}
               /\ \/ Settled(c, deps'[n][k])
                  \/ /\ creator[deps'[n][k]] = c
                     /\ parent[deps'[n][k]] = NoRow /\ deps[deps'[n][k]] = <<>>
                     /\ \A l \in DOMAIN deps'[n] : deps'[n][k] = deps'[n][l] => k = l
    BY <1>4, <2>1, Wiring, EnqueueAssumption
  <2>3. ASSUME NEW r \in Rows \ {n}
        PROVE  \A u \in Upstream(r) : u # n /\ u \in Rows
    <3>1. CASE creator[r] = NoClient
      <4>1. C!DependencySet(r) = {}
        BY <3>1 DEF PlainRows, C!DependencySet
      <4> QED
        BY <3>1, <4>1 DEF PlainRows, Upstream
    <3>2. CASE creator[r] # NoClient
      BY <1>2, <2>2, <3>2 DEF PlainRows, Settled
    <3> QED
      BY <3>1, <3>2
  <2>4. ASSUME NEW r \in Rows, NEW u \in Upstream(r)'
        PROVE  creator'[u] = creator'[r] \/ (\A d : d = creator'[r] => Settled(d, u)')
    <3>1. CASE r = n
      <4>1. (u = parent'[n] /\ parent'[n] # NoRow) \/ \E k \in DOMAIN deps'[n] : u = deps'[n][k]
        BY <3>1 DEF Upstream, C!DependencySet
      <4>2. u \in Rows \ {n} /\ (Settled(c, u) \/ creator[u] = c)
        BY <2>2, <4>1
      <4> QED
        BY <1>1, <2>2, <3>1, <4>2
    <3>2. CASE r # n
      <4>1. u \in Upstream(r)
        BY <2>2, <3>2 DEF Upstream, C!DependencySet
      <4>2. u # n /\ u \in Rows
        BY <2>3, <3>2, <4>1
      <4>3. creator[u] = creator[r] \/ Settled(creator[r], u)
        BY <4>1 DEF PlainRows
      <4> QED
        BY <1>1, <2>2, <3>2, <4>2, <4>3
    <3> QED
      BY <3>1, <3>2
  <2>5. ASSUME NEW r \in Rows
        PROVE  creator'[r] = NoClient => parent'[r] = NoRow /\ deps'[r] = <<>>
    BY <2>2 DEF PlainRows
  <2>6. ASSUME NEW r \in Rows, NEW k \in DOMAIN deps'[r], creator'[deps'[r][k]] = creator'[r]
        PROVE  /\ parent'[deps'[r][k]] = NoRow /\ deps'[deps'[r][k]] = <<>>
               /\ \A l \in DOMAIN deps'[r] : deps'[r][k] = deps'[r][l] => k = l
    <3>1. CASE r = n
      <4>1. ~Settled(c, deps'[n][k])
        BY <2>2, <2>6, <3>1 DEF Settled
      <4> QED
        BY <2>2, <3>1, <4>1
    <3>2. CASE r # n
      <4>1. deps'[r] = deps[r] /\ deps[r][k] \in Rows \ {n}
        BY <1>2, <2>2, <2>3, <3>2
      <4> QED
        BY <2>2, <2>6, <3>2, <4>1 DEF PlainRows
    <3> QED
      BY <3>1, <3>2
  <2>7. ASSUME NEW r \in Rows, parent'[r] # NoRow, creator'[parent'[r]] = creator'[r]
        PROVE  ~(handler'[parent'[r]] /\ deps'[parent'[r]] # <<>>)
    <3>1. CASE r = n
      <4>1. ~Settled(c, parent'[n])
        BY <2>2, <2>7, <3>1 DEF Settled
      <4> QED
        BY <2>2, <2>7, <3>1, <4>1
    <3>2. CASE r # n
      <4>1. parent'[r] = parent[r] /\ parent[r] \in Rows \ {n}
        BY <1>2, <2>2, <2>3, <2>7, <3>2
      <4> QED
        BY <2>2, <2>7, <3>2, <4>1 DEF PlainRows
    <3> QED
      BY <3>1, <3>2
  <2>8. ASSUME NEW r \in Rows, NEW u \in Upstream(r)'
        PROVE  creator'[u] = creator'[r] \/ Settled(creator[r], u)'
    BY <2>4 DEF Settled
  <2> QED
    BY <2>5, <2>6, <2>7, <2>8 DEF PlainRows
<1>5. ASSUME NEW c \in Clients, Begin(c) \/ ReturnExisting(c) \/ Commit(c) \/ RollBack(c) PROVE PlainRows'
  BY <1>3, <1>5 DEF Begin, ReturnExisting, Commit, RollBack, columns
<1>6. ASSUME NEW r \in Rows, Executes(r) \/ Cancel(r) PROVE PlainRows'
  BY <1>3, <1>6, WorkerSteps
<1>7. CASE UNCHANGED vars
  BY <1>3, <1>7 DEF vars, columns
<1> QED
  BY <1>4, <1>5, <1>6, <1>7, RollBacks DEF Next, Calls, Ends

LEMMA OnlyWiredWaitStep ==
    ASSUME RowsInv, TypeOK', Answers, PlainPrograms, OnlyWiredWait, [Next]_vars
    PROVE  OnlyWiredWait'
<1>1. ASSUME UNCHANGED <<parent, deps>>, \A r \in Rows : state'[r] = "waiting" => state[r] = "waiting"
      PROVE  OnlyWiredWait'
  BY <1>1 DEF OnlyWiredWait
<1>2. ASSUME NEW c \in Clients, Insert(c) PROVE OnlyWiredWait'
  <2>1. PICK n \in Rows : Inserted(c, n)
    BY <1>2, InsertIs
  <2>2. /\ \A s \in Rows \ {n} : state'[s] = state[s] /\ parent'[s] = parent[s] /\ deps'[s] = deps[s]
        /\ state'[n] = "waiting" => parent'[n] # NoRow \/ deps'[n] # <<>>
    BY <1>2, <2>1, Wiring
  <2> QED
    BY <2>2 DEF OnlyWiredWait
<1>3. ASSUME NEW c \in Clients, Begin(c) \/ ReturnExisting(c) \/ Commit(c) \/ RollBack(c) PROVE OnlyWiredWait'
  BY <1>1, <1>3 DEF Begin, ReturnExisting, Commit, RollBack, columns
<1>4. ASSUME NEW r \in Rows, Executes(r) \/ Cancel(r) PROVE OnlyWiredWait'
  BY <1>1, <1>4, WorkerSteps
<1>5. CASE UNCHANGED vars
  BY <1>1, <1>5 DEF vars, columns
<1> QED
  BY <1>2, <1>3, <1>4, <1>5, RollBacks DEF Next, Calls, Ends

-----------------------------------------------------------------------------
(* Whoever waits is found. *)

LEMMA ParentsWakeStep ==
    ASSUME RowsInv, TypeOK', Together, Answers, PlainPrograms, PlainRows, ParentsWake, [Next]_vars
    PROVE  ParentsWake'
<1>0. \A r \in Rows : parent[r] # NoRow => parent[r] \in Rows
  BY UpstreamRows DEF RowsInv
\* Steps that make nobody wait, read nothing and end no parent.
<1>1. ASSUME UNCHANGED <<parent, creator>>,
             \A s \in Rows : decided'[s] = decided[s] \/ decided'[s].step # "read",
             \A r \in Rows : state'[r] = "waiting" => state[r] = "waiting",
             \A r \in Rows : (/\ state'[r] = "waiting" /\ parent[r] # NoRow
                              /\ creator[parent[r]] = creator[r] /\ state[parent[r]] \in LiveStates)
                                 => state'[parent[r]] \in LiveStates
      PROVE  ParentsWake'
  <2>1. \A s \in Rows : decided'[s].step = "read" =>
          decided[s].step = "read" /\ decided'[s] = decided[s] /\ Written(s)' = Written(s)
    BY <1>1 DEF Written
  <2> SUFFICES ASSUME NEW r \in Rows, state'[r] = "waiting",
                      parent'[r] # NoRow, creator'[parent'[r]] = creator'[r]
               PROVE  /\ state'[parent'[r]] \in LiveStates
                      /\ decided'[parent'[r]].step = "read" => r \in Written(parent[r])'
                      /\ \A s \in Rows :
                             (/\ decided'[s].step = "read" /\ parent'[r] \in Written(s)'
                              /\ decided'[s].writes[parent'[r]] = "cancelled")
                                 => r \in Written(s)' /\ decided'[s].writes[r] = "cancelled"
    BY DEF ParentsWake
  <2>2. /\ state[r] = "waiting" /\ parent'[r] = parent[r] /\ parent[r] # NoRow /\ parent[r] \in Rows
        /\ creator[parent[r]] = creator[r]
    BY <1>0, <1>1
  <2>3. /\ state[parent[r]] \in LiveStates
        /\ decided[parent[r]].step = "read" => r \in Written(parent[r])
        /\ \A s \in Rows :
               (decided[s].step = "read" /\ parent[r] \in Written(s) /\ decided[s].writes[parent[r]] = "cancelled")
                   => r \in Written(s) /\ decided[s].writes[r] = "cancelled"
    BY <2>2 DEF ParentsWake
  <2>4. decided'[parent[r]].step = "read" => r \in Written(parent[r])'
    <3> SUFFICES ASSUME decided'[parent[r]].step = "read" PROVE r \in Written(parent[r])'
      OBVIOUS
    <3>1. decided'[parent[r]] = decided[parent[r]] /\ decided[parent[r]].step = "read"
      BY <2>1, <2>2
    <3> QED
      BY <1>1, <2>3, <3>1 DEF Written
  <2> QED
    BY <1>1, <2>1, <2>2, <2>3, <2>4
<1>2. ASSUME NEW c \in Clients, Begin(c) \/ ReturnExisting(c) \/ Commit(c) PROVE ParentsWake'
  BY <1>1, <1>2 DEF Begin, ReturnExisting, Commit, columns
<1>3. ASSUME NEW c \in Clients, RollBack(c), phase[c] = "open" PROVE ParentsWake'
  <2>1. /\ UNCHANGED <<parent, creator, decided>>
        /\ \A r \in Rows : state'[r] = IF writer[r] = c THEN "absent" ELSE state[r]
    BY <1>3 DEF RollBack
  <2>2. \A r \in Rows : (/\ state'[r] = "waiting" /\ parent[r] # NoRow
                         /\ creator[parent[r]] = creator[r] /\ state[parent[r]] \in LiveStates)
                            => state'[parent[r]] \in LiveStates
    BY <1>0, <2>1, OneTransaction DEF LiveStates
  <2> QED
    BY <1>1, <2>1, <2>2
<1>4. ASSUME NEW s \in Rows, Start(s) \/ Raises(s) \/ HandleException(s) PROVE ParentsWake'
  <2>1. PICK k \in {"running", "failing", "none"} : decided' = [decided EXCEPT ![s] = At(k)]
    BY <1>4 DEF Start, Raises, HandleException
  <2>2. decided'[s].step # "read" /\ \A i \in Rows \ {s} : decided'[i] = decided[i]
    BY <2>1, DecidedKept DEF Steps, RowsInv
  <2>3. /\ UNCHANGED <<parent, creator>>
        /\ \A i \in Rows \ {s} : state'[i] = state[i]
        /\ state'[s] \in {state[s], "pending", "started"}
    BY <1>4 DEF Start, Raises, HandleException, columns, RowsInv, TypeOK
  <2> QED
    BY <1>0, <1>1, <2>2, <2>3 DEF LiveStates
<1>5. ASSUME NEW s \in Rows, Cancel(s) PROVE ParentsWake'
  <2>1. /\ UNCHANGED <<parent, creator, decided, writer>>
        /\ Committed[s] # "absent" /\ state' = Merged(C!Cancelled(Committed, s))
    BY <1>5 DEF Cancel
  <2>2. \A i \in Rows : \/ state'[i] = state[i]
                        \/ writer[i] = NoClient /\ state'[i] = "cancelled"
    BY <1>5, CancelIs DEF RowsInv
  <2>3. \A i \in Rows : writer[i] = NoClient =>
          state'[i] = C!Cancelled(Committed, s)[i] /\ Committed[i] = state[i]
    BY <2>1 DEF Merged, Committed
  <2>4. Committed \in [Rows -> Columns]
    BY CommittedType DEF RowsInv
  <2>5. ASSUME NEW r \in Rows, state'[r] = "waiting", parent[r] # NoRow,
               creator[parent[r]] = creator[r], state[parent[r]] \in LiveStates
        PROVE  state'[parent[r]] \in LiveStates
    <3> DEFINE p == parent[r]
    <3>1. p \in Rows /\ state[r] = "waiting" /\ writer[p] = writer[r]
      BY <1>0, <2>2, <2>5, OneTransaction DEF LiveStates
    <3>2. CASE state'[p] = state[p]
      BY <2>5, <3>2
    <3>3. CASE state'[p] # state[p]
      <4>1. writer[r] = NoClient /\ writer[p] = NoClient /\ state'[p] = "cancelled"
        BY <2>2, <3>1, <3>3
      <4>2. /\ C!Cancelled(Committed, s)[p] = "cancelled" /\ Committed[p] \in LiveStates
            /\ Committed[r] = "waiting"
        BY <2>3, <2>5, <3>1, <4>1 DEF LiveStates
      <4>3. C!Cancelled(Committed, s)[r] = "cancelled"
        BY <2>1, <2>4, <3>1, <4>2, CancelReached
      <4> QED
        BY <2>3, <2>5, <4>1, <4>3
    <3> QED
      BY <3>2, <3>3
  <2>6. \A r \in Rows : state'[r] = "waiting" => state[r] = "waiting"
    BY <2>2
  <2> QED
    BY <1>1, <2>1, <2>5, <2>6
<1>6. ASSUME NEW s \in Rows, Complete(s) PROVE ParentsWake'
  <2>1. decided[s].step = "read" /\ state[s] # "waiting" /\ s \notin Written(s)
    BY <1>6, ExecutedRows DEF Complete
  <2>2. /\ UNCHANGED <<parent, creator>> /\ state' = Completed(s)
        /\ \A i \in Rows : decided'[i] = decided[i] \/ decided'[i].step # "read"
    BY <1>6, DecidedKept DEF Complete, RowsInv, Steps
  <2>3. /\ state'[s] = "done"
        /\ \A i \in Rows \ {s} :
              /\ i \in Written(s) => state'[i] = decided[s].writes[i]
              /\ Released(s, i) => state'[i] = IF handler[i] THEN "cancelled" ELSE "pending"
              /\ i \notin Written(s) /\ ~Released(s, i) => state'[i] = state[i]
    BY <2>1, <2>2, CompletedIs
  <2>4. /\ \A i \in Written(s) : decided[s].writes[i] \in {"pending", "cancelled"}
        /\ \A i \in Rows : Released(s, i) => deps[i] # <<>>
    <3>1. \A i \in Rows : Released(s, i) => deps[i] # <<>>
      BY DEF Released, C!DependencySet
    <3> QED
      BY <3>1, DecidedType DEF RowsInv
  <2>5. \A r \in Rows : state'[r] = "waiting" => state[r] = "waiting" /\ r \notin Written(s) /\ r # s
    BY <2>3, <2>4 DEF Released
  <2>6. ASSUME NEW r \in Rows, state'[r] = "waiting", parent[r] # NoRow,
               creator[parent[r]] = creator[r], state[parent[r]] \in LiveStates
        PROVE  state'[parent[r]] \in LiveStates
    <3> DEFINE p == parent[r]
    <3>1. p \in Rows /\ state[r] = "waiting" /\ r \notin Written(s)
      BY <1>0, <2>5, <2>6
    <3>2. /\ decided[p].step = "read" => r \in Written(p)
          /\ (p \in Written(s) /\ decided[s].writes[p] = "cancelled") => r \in Written(s)
      BY <2>1, <2>6, <3>1 DEF ParentsWake
    <3>3. p # s
      BY <2>1, <3>1, <3>2
    <3>4. ~(handler[p] /\ deps[p] # <<>>)
      BY <2>6 DEF PlainRows
    <3>5. CASE p \in Written(s)
      BY <2>3, <2>4, <3>1, <3>2, <3>3, <3>5 DEF LiveStates
    <3>6. CASE Released(s, p)
      BY <2>3, <2>4, <3>1, <3>3, <3>4, <3>6 DEF LiveStates
    <3>7. CASE p \notin Written(s) /\ ~Released(s, p)
      BY <2>3, <2>6, <3>1, <3>3, <3>7
    <3> QED
      BY <3>5, <3>6, <3>7
  <2> QED
    BY <1>1, <2>2, <2>5, <2>6
<1>7. ASSUME NEW s \in Rows, ReadChildren(s) PROVE ParentsWake'
  <2> DEFINE after == C!ChildrenOnSuccess(Committed, s)
             D     == {i \in Rows : after[i] # Committed[i]}
  <2>1. /\ UNCHANGED <<state, parent, creator, writer>> /\ Committed[s] # "waiting"
        /\ writer[s] = NoClient
        /\ decided' = [decided EXCEPT ![s] = [step |-> "read", writes |-> Restrict(after, D)]]
    BY <1>7, ExecutedRows DEF ReadChildren, columns
  <2>2. Committed \in [Rows -> Columns]
    BY CommittedType DEF RowsInv
  <2>3. \A i \in D : /\ Committed[i] = "waiting"
                     /\ after[i] \in {"pending", "cancelled"}
                     /\ parent[i] \in D \cup {s}
    BY <2>2, ChildrenMoves
  <2>4. /\ \A i \in Rows : Committed[i] = "waiting" /\ parent[i] = s => after[i] # "waiting"
        /\ \A i, k \in Rows : (/\ Committed[i] = "waiting" /\ after[i] = "cancelled"
                               /\ Committed[k] = "waiting" /\ parent[k] = i) => after[k] = "cancelled"
    BY <2>1, <2>2, ChildrenReached
  <2> HIDE DEF after
  <2>5. /\ Written(s)' = D /\ \A i \in D : decided'[s].writes[i] = after[i]
        /\ \A i \in Rows \ {s} : decided'[i] = decided[i] /\ Written(i)' = Written(i)
    BY <2>1 DEF Written, Restrict, RowsInv, MoreTypes
  <2> SUFFICES ASSUME NEW r \in Rows, state'[r] = "waiting",
                      parent'[r] # NoRow, creator'[parent'[r]] = creator'[r]
               PROVE  /\ state'[parent'[r]] \in LiveStates
                      /\ decided'[parent'[r]].step = "read" => r \in Written(parent[r])'
                      /\ \A t \in Rows :
                             (/\ decided'[t].step = "read" /\ parent'[r] \in Written(t)'
                              /\ decided'[t].writes[parent'[r]] = "cancelled")
                                 => r \in Written(t)' /\ decided'[t].writes[r] = "cancelled"
    BY DEF ParentsWake
  <2>6. PICK p \in Rows : p = parent[r]
    BY <1>0, <2>1
  <2>7. state[r] = "waiting" /\ parent[r] # NoRow /\ creator[p] = creator[r]
    BY <2>1, <2>6
  <2>8. /\ state[p] \in LiveStates
        /\ decided[p].step = "read" => r \in Written(p)
        /\ \A t \in Rows : (decided[t].step = "read" /\ p \in Written(t) /\ decided[t].writes[p] = "cancelled")
               => r \in Written(t) /\ decided[t].writes[r] = "cancelled"
    BY <2>6, <2>7 DEF ParentsWake
  <2>9. writer[r] = writer[p]
    BY <2>7, <2>8, OneTransaction DEF LiveStates
  <2>10. writer[p] = NoClient => Committed[r] = "waiting"
    BY <2>7, <2>9 DEF Committed
  <2>11. decided'[p].step = "read" => r \in Written(p)'
    <3>1. CASE p = s
      <4>1. writer[p] = NoClient
        BY <2>1, <3>1
      <4>2. after[r] # Committed[r]
        BY <2>4, <2>6, <2>10, <3>1, <4>1
      <4> QED
        BY <2>5, <3>1, <4>2
    <3>2. CASE p # s
      BY <2>5, <2>8, <3>2
    <3> QED
      BY <3>1, <3>2
  <2>12. ASSUME NEW t \in Rows, decided'[t].step = "read", p \in Written(t)', decided'[t].writes[p] = "cancelled"
         PROVE  r \in Written(t)' /\ decided'[t].writes[r] = "cancelled"
    <3>1. CASE t = s
      <4>1. p \in D /\ Committed[p] = "waiting" /\ after[p] = "cancelled"
        BY <2>3, <2>5, <2>12, <3>1
      <4>2. writer[p] = NoClient
        BY <4>1 DEF Committed
      <4>3. after[r] = "cancelled" /\ Committed[r] = "waiting"
        BY <2>4, <2>6, <2>10, <4>1, <4>2
      <4> QED
        BY <2>5, <3>1, <4>3
    <3>2. CASE t # s
      BY <2>5, <2>8, <2>12, <3>2
    <3> QED
      BY <3>1, <3>2
  <2>13. r \in Written(parent[r])' <=> r \in Written(p)'
    BY <2>1, <2>6 DEF Written
  <2> QED
    BY <2>1, <2>6, <2>8, <2>11, <2>12, <2>13
<1>8. ASSUME NEW c \in Clients, Insert(c) PROVE ParentsWake'
  <2>1. PICK n \in Rows : Inserted(c, n)
    BY <1>8, InsertIs
  <2>2. /\ creator[n] = NoClient /\ creator'[n] = c /\ c # NoClient /\ phase[c] = "open"
        /\ \A s \in Rows \ {n} : /\ creator'[s] = creator[s] /\ state'[s] = state[s]
                                 /\ parent'[s] = parent[s]
        /\ parent'[n] # NoRow =>
               /\ parent'[n] \in Rows \ {n}
               /\ Settled(c, parent'[n]) \/ creator[parent'[n]] = c
    BY <1>8, <2>1, Wiring, EnqueueAssumption
  <2>3. decided' = decided /\ \A s : Written(s)' = Written(s)
    BY <1>8 DEF Insert, Written
  <2> SUFFICES ASSUME NEW r \in Rows, state'[r] = "waiting",
                      parent'[r] # NoRow, creator'[parent'[r]] = creator'[r]
               PROVE  /\ state'[parent'[r]] \in LiveStates
                      /\ decided[parent'[r]].step = "read" => r \in Written(parent'[r])
                      /\ \A t \in Rows :
                             (/\ decided[t].step = "read" /\ parent'[r] \in Written(t)
                              /\ decided[t].writes[parent'[r]] = "cancelled")
                                 => r \in Written(t) /\ decided[t].writes[r] = "cancelled"
    BY <2>3 DEF ParentsWake, Written
  <2>4. CASE r = n
    <3>1. PICK p \in Rows \ {n} : p = parent'[n]
      BY <2>2, <2>4
    <3>2. creator[p] = c
      BY <2>2, <2>4, <3>1 DEF Settled
    <3>3. writer[p] # NoClient
      BY <2>2, <3>2 DEF Together
    <3>4. state[p] \in {"waiting", "pending"}
      BY <3>3 DEF RowsInv, NewRows
    <3>5. decided[p].step # "read" /\ \A t \in Rows : decided[t].step = "read" => p \notin Written(t)
      BY <3>3, <3>4 DEF RowsInv, Decisions
    <3> QED
      BY <2>2, <2>4, <3>1, <3>4, <3>5 DEF LiveStates
  <2>5. CASE r # n
    <3>1. state[r] = "waiting" /\ parent'[r] = parent[r] /\ creator'[r] = creator[r] /\ creator[r] # NoClient
      BY <2>2, <2>5 DEF RowsInv, NewRows
    <3>2. parent[r] \in Rows /\ parent[r] \in Upstream(r)
      BY <3>1, UpstreamRows DEF RowsInv
    <3>3. parent[r] # n
      BY <2>2, <3>1, <3>2 DEF PlainRows, Settled
    <3>4. creator[parent[r]] = creator[r] /\ state'[parent[r]] = state[parent[r]]
      BY <2>2, <3>1, <3>2, <3>3
    <3> QED
      BY <3>1, <3>4 DEF ParentsWake
  <2> QED
    BY <2>4, <2>5
<1>9. CASE UNCHANGED vars
  BY <1>1, <1>9 DEF vars, columns
<1> QED
  BY <1>2, <1>3, <1>4, <1>5, <1>6, <1>7, <1>8, <1>9, RollBacks DEF Next, Calls, Ends, Executes

LEMMA GroupsWakeStep ==
    ASSUME RowsInv, RowsInv', CountsCover, Together, Answers, PlainPrograms, PlainRows, GroupsWake,
           [Next]_vars
    PROVE  GroupsWake'
<1>0. \A r \in Rows : C!DependencySet(r) \subseteq Rows
  BY UpstreamRows DEF RowsInv
\* Steps that make nobody wait and leave the groups of those who wait alone.
<1>1. ASSUME UNCHANGED <<deps, creator, count>>,
             \A r \in Rows : state'[r] = "waiting" => state[r] = "waiting",
             \A r, m \in Rows : (state'[r] = "waiting" /\ m \in C!DependencySet(r) /\ creator[m] = creator[r]
                                    /\ LiveOrOver(m))
                 => /\ decided'[m].step = "completed" <=> decided[m].step = "completed"
                    /\ LiveOrOver(m)'
      PROVE  GroupsWake'
  <2> SUFFICES ASSUME NEW r \in Rows, state'[r] = "waiting", OwnGroup(r)'
               PROVE  /\ count'[r] = Cardinality(Missing(r)') /\ Missing(r)' # {}
                      /\ \A m \in C!DependencySet(r)' : LiveOrOver(m)'
    BY DEF GroupsWake
  <2>1. C!DependencySet(r)' = C!DependencySet(r) /\ OwnGroup(r)
    BY <1>1 DEF OwnGroup, C!DependencySet
  <2>2. /\ count[r] = Cardinality(Missing(r)) /\ Missing(r) # {}
        /\ \A m \in C!DependencySet(r) : /\ LiveOrOver(m)
                                         /\ m \in Rows /\ creator[m] = creator[r]
    BY <1>0, <1>1, <2>1 DEF GroupsWake, OwnGroup
  <2>3. \A m \in C!DependencySet(r) : /\ decided'[m].step = "completed" <=> decided[m].step = "completed"
                                      /\ LiveOrOver(m)'
    BY <1>1, <2>2
  <2>4. Missing(r)' = Missing(r)
    BY <2>1, <2>3 DEF Missing
  <2> QED
    BY <1>1, <2>1, <2>2, <2>3, <2>4
<1>2. ASSUME NEW c \in Clients, Begin(c) \/ ReturnExisting(c) \/ Commit(c) PROVE GroupsWake'
  BY <1>1, <1>2 DEF Begin, ReturnExisting, Commit, columns, LiveOrOver
<1>3. ASSUME NEW c \in Clients, RollBack(c), phase[c] = "open" PROVE GroupsWake'
  <2>1. /\ UNCHANGED <<deps, creator, count, decided>>
        /\ \A r \in Rows : state'[r] = IF writer[r] = c THEN "absent" ELSE state[r]
    BY <1>3 DEF RollBack
  <2>2. ASSUME NEW r \in Rows, NEW m \in Rows, state'[r] = "waiting", creator[m] = creator[r],
               LiveOrOver(m)
        PROVE  state'[m] = state[m]
    <3>1. state[m] # "absent"
      BY <2>2, ExecutedRows DEF LiveOrOver, LiveStates
    <3> QED
      BY <2>1, <2>2, <3>1, OneTransaction
  <2> QED
    BY <1>1, <2>1, <2>2 DEF LiveOrOver
<1>4. ASSUME NEW s \in Rows, Start(s) \/ Raises(s) \/ HandleException(s) PROVE GroupsWake'
  <2>1. PICK k \in {"running", "failing", "none"} : decided' = [decided EXCEPT ![s] = At(k)]
    BY <1>4 DEF Start, Raises, HandleException
  <2>2. decided'[s].step # "completed" /\ \A i \in Rows \ {s} : decided'[i] = decided[i]
    BY <2>1, DecidedKept DEF Steps, RowsInv
  <2>3. decided[s].step # "completed"
    <3>1. CASE Start(s)
      <4>1. state[s] = "pending"
        BY <3>1 DEF Start, Committed
      <4> QED
        BY <4>1 DEF RowsInv, Decisions
    <3> QED
      BY <1>4, <3>1 DEF Raises, HandleException
  <2>4. /\ UNCHANGED <<deps, creator, count>>
        /\ \A i \in Rows \ {s} : state'[i] = state[i]
        /\ state'[s] \in {state[s], "pending", "started"}
    BY <1>4 DEF Start, Raises, HandleException, columns, RowsInv, TypeOK
  <2> QED
    BY <1>1, <2>2, <2>3, <2>4 DEF LiveOrOver, LiveStates
<1>5. ASSUME NEW s \in Rows, ReadChildren(s) PROVE GroupsWake'
  <2>1. /\ decided[s].step = "running" /\ decided'[s].step = "read"
        /\ \A i \in Rows \ {s} : decided'[i] = decided[i]
    BY <1>5 DEF ReadChildren, RowsInv, MoreTypes
  <2> QED
    BY <1>1, <1>5, <2>1 DEF ReadChildren, columns, LiveOrOver
<1>6. ASSUME NEW s \in Rows, Cancel(s) PROVE GroupsWake'
  <2>1. /\ UNCHANGED <<deps, creator, count, writer, decided>>
        /\ Committed[s] # "absent" /\ state' = Merged(C!Cancelled(Committed, s))
    BY <1>6 DEF Cancel
  <2>2. \A i \in Rows : \/ state'[i] = state[i]
                        \/ writer[i] = NoClient /\ state'[i] = "cancelled"
    BY <1>6, CancelIs DEF RowsInv
  <2>3. \A i \in Rows : writer[i] = NoClient =>
          state'[i] = C!Cancelled(Committed, s)[i] /\ Committed[i] = state[i]
    BY <2>1 DEF Merged, Committed
  <2>4. Committed \in [Rows -> Columns]
    BY CommittedType DEF RowsInv
  <2>5. ASSUME NEW r \in Rows, NEW m \in Rows, state'[r] = "waiting", m \in C!DependencySet(r),
               creator[m] = creator[r], state[m] \in LiveStates
        PROVE  state'[m] = state[m]
    <3>1. state[r] = "waiting" /\ writer[m] = writer[r]
      BY <2>2, <2>5, OneTransaction DEF LiveStates
    <3> SUFFICES ASSUME state'[m] # state[m] PROVE FALSE
      OBVIOUS
    <3>2. writer[r] = NoClient /\ writer[m] = NoClient /\ state'[m] = "cancelled"
      BY <2>2, <3>1
    <3>3. /\ C!Cancelled(Committed, s)[m] = "cancelled" /\ Committed[m] \in LiveStates
          /\ Committed[r] = "waiting"
      BY <2>3, <2>5, <3>1, <3>2
    <3>4. C!Cancelled(Committed, s)[r] = "cancelled"
      BY <2>1, <2>4, <2>5, <3>3, CancelReached
    <3> QED
      BY <2>3, <2>5, <3>2, <3>4
  <2>6. \A r \in Rows : state'[r] = "waiting" => state[r] = "waiting"
    BY <2>2
  <2> QED
    BY <1>0, <1>1, <2>1, <2>5, <2>6 DEF LiveOrOver
<1>7. ASSUME NEW s \in Rows, Complete(s) PROVE GroupsWake'
  <2>1. /\ decided[s].step = "read" /\ writer[s] = NoClient
        /\ state[s] \notin {"waiting", "absent"} /\ s \notin Written(s)
    BY <1>7, ExecutedRows DEF Complete
  <2>0. decided'[s].step = "completed" /\ \A i \in Rows \ {s} : decided'[i] = decided[i]
    BY <1>7, DecidedKept DEF Complete, RowsInv, Steps
  <2>2. /\ UNCHANGED <<deps, parent, creator, writer>> /\ state' = Completed(s)
        /\ count' = C!ReleasedCount(Flushed(s), count, s)
    BY <1>7 DEF Complete
  <2>3. /\ state'[s] = "done"
        /\ \A i \in Rows \ {s} :
              /\ i \in Written(s) => state'[i] = decided[s].writes[i]
              /\ Released(s, i) => state'[i] = IF handler[i] THEN "cancelled" ELSE "pending"
              /\ i \notin Written(s) /\ ~Released(s, i) => state'[i] = state[i]
    BY <2>1, <2>2, CompletedIs
  <2>4. \A i \in Written(s) : decided[s].writes[i] \in {"pending", "cancelled"} /\ parent[i] # NoRow
    BY <2>1, DecidedType DEF RowsInv, Decisions, Rows, NoRow
  <2> SUFFICES ASSUME NEW r \in Rows, state'[r] = "waiting", OwnGroup(r)'
               PROVE  /\ count'[r] = Cardinality(Missing(r)') /\ Missing(r)' # {}
                      /\ \A m \in C!DependencySet(r)' : LiveOrOver(m)'
    BY DEF GroupsWake
  <2>5. C!DependencySet(r)' = C!DependencySet(r) /\ OwnGroup(r)
    BY <2>2 DEF OwnGroup, C!DependencySet
  <2>6. state[r] = "waiting" /\ r # s /\ r \notin Written(s) /\ ~Released(s, r)
    BY <2>3, <2>4 DEF Released
  <2>7. /\ count[r] = Cardinality(Missing(r)) /\ Missing(r) # {}
        /\ \A m \in C!DependencySet(r) : /\ LiveOrOver(m)
                                         /\ m \in Rows /\ creator[m] = creator[r]
    BY <1>0, <2>5, <2>6 DEF GroupsWake, OwnGroup
  <2>8. ASSUME NEW m \in C!DependencySet(r)
        PROVE  LiveOrOver(m)'
    <3>1. PICK k \in DOMAIN deps[r] : m = deps[r][k]
      BY DEF C!DependencySet
    <3>2. parent[m] = NoRow /\ deps[m] = <<>>
      BY <2>7, <3>1 DEF PlainRows
    <3>3. m \notin Written(s) /\ ~Released(s, m)
      BY <2>4, <3>2 DEF Released, C!DependencySet
    <3> QED
      BY <2>0, <2>3, <2>7, <3>3 DEF LiveOrOver
  <2>9. Missing(r)' = Missing(r) \ {s}
    BY <1>7, CompleteCounts
  <2>10. /\ IsFiniteSet(Missing(r)) /\ Cardinality(Missing(r)) \in Nat
         /\ Cardinality(Missing(r) \ {s}) = IF s \in Missing(r) THEN Cardinality(Missing(r)) - 1
                                                                ELSE Cardinality(Missing(r))
    BY MissingFinite, FS_RemoveElement DEF RowsInv
  <2>11. s \in C!DependencySet(r) <=> s \in Missing(r)
    BY <2>1 DEF Missing
  <2>12. /\ Flushed(s)[r] = Committed[r]
         /\ count'[r] = IF Flushed(s)[r] = "waiting" /\ s \in C!DependencySet(r)
                     THEN count[r] - 1 ELSE count[r]
    BY <2>1, <2>2, <2>6, FlushedIs, CompletedCounts
  <2>13. CASE s \in C!DependencySet(r)
    <3>1. writer[r] = NoClient
      BY <2>1, <2>6, <2>7, <2>13, OneTransaction
    <3>2. count'[r] = count[r] - 1
      BY <2>6, <2>12, <2>13, <3>1 DEF Committed
    <3>3. ~(count[r] - 1 <= 0)
      BY <2>6, <2>13, <3>1 DEF Released
    <3>4. count'[r] = Cardinality(Missing(r)') /\ Cardinality(Missing(r)') # 0
      BY <2>7, <2>9, <2>10, <2>11, <2>13, <3>2, <3>3
    <3> QED
      BY <2>5, <2>8, <3>4, FS_EmptySet
  <2>14. CASE s \notin C!DependencySet(r)
    <3>1. Missing(r)' = Missing(r)
      BY <2>9, <2>11, <2>14
    <3> QED
      BY <2>5, <2>7, <2>8, <2>12, <2>14, <3>1
  <2> QED
    BY <2>13, <2>14
<1>8. ASSUME NEW c \in Clients, Insert(c) PROVE GroupsWake'
  <2>1. PICK n \in Rows : Inserted(c, n)
    BY <1>8, InsertIs
  <2>2. /\ creator[n] = NoClient /\ creator'[n] = c /\ c # NoClient /\ phase[c] = "open"
        /\ \A s \in Rows \ {n} : /\ creator'[s] = creator[s] /\ state'[s] = state[s]
                                 /\ deps'[s] = deps[s] /\ count'[s] = count[s]
        /\ \A k \in DOMAIN deps'[n] :
               /\ deps'[n][k] \in Rows \ {n}
               /\ \/ Settled(c, deps'[n][k])
                  \/ /\ creator[deps'[n][k]] = c
                     /\ \A l \in DOMAIN deps'[n] : deps'[n][k] = deps'[n][l] => k = l
        /\ count'[n] = Len(deps'[n])
    BY <1>8, <2>1, Wiring, EnqueueAssumption DEF RowsInv
  <2> SUFFICES ASSUME NEW r \in Rows, state'[r] = "waiting", OwnGroup(r)'
               PROVE  /\ count'[r] = Cardinality(Missing(r)') /\ Missing(r)' # {}
                      /\ \A m \in C!DependencySet(r)' : LiveOrOver(m)'
    BY DEF GroupsWake
  <2>3. CASE r # n
    <3>1. state[r] = "waiting" /\ creator'[r] = creator[r] /\ creator[r] # NoClient
      BY <2>2, <2>3 DEF RowsInv, NewRows
    <3>2. C!DependencySet(r)' = C!DependencySet(r) /\ deps'[r] = deps[r] /\ count'[r] = count[r]
      BY <2>2, <2>3 DEF C!DependencySet
    <3>3. \A m \in C!DependencySet(r) : m \in Rows \ {n}
      BY <1>0, <2>2, <3>1 DEF PlainRows, Upstream, Settled
    <3>4. OwnGroup(r)
      BY <2>2, <3>1, <3>2, <3>3 DEF OwnGroup
    <3>5. \A m \in C!DependencySet(r) : state'[m] = state[m] /\ decided'[m] = decided[m]
      BY <1>8, <2>2, <3>3 DEF Insert
    <3>6. Missing(r)' = Missing(r)
      BY <3>2, <3>5 DEF Missing
    <3> QED
      BY <3>1, <3>2, <3>4, <3>5, <3>6 DEF GroupsWake, LiveOrOver
  <2>4. CASE r = n
    <3>1. deps'[n] \in Seq(Rows) /\ deps'[n] # <<>>
      BY <2>4 DEF RowsInv, TypeOK, OwnGroup
    <3>2. \A k \in DOMAIN deps'[n] : creator'[deps'[n][k]] = c
      BY <2>2, <2>4 DEF OwnGroup, C!DependencySet
    <3>3. \A k \in DOMAIN deps'[n] :
              /\ deps'[n][k] \in Rows \ {n} /\ creator[deps'[n][k]] = c
              /\ \A l \in DOMAIN deps'[n] : deps'[n][k] = deps'[n][l] => k = l
      BY <2>2, <3>2 DEF Settled
    <3>4. \A k \in DOMAIN deps'[n] : state'[deps'[n][k]] \in {"waiting", "pending"}
      BY <2>2, <3>3 DEF Together, RowsInv, NewRows
    <3>5. C!DependencySet(n)' = {deps'[n][k] : k \in DOMAIN deps'[n]}
      BY DEF C!DependencySet
    <3>12. \A k \in DOMAIN deps'[n] : decided'[deps'[n][k]].step # "completed"
      BY <3>3, <3>4 DEF RowsInv, Decisions
    <3>6. Missing(n)' = {deps'[n][k] : k \in DOMAIN deps'[n]}
      BY <3>5, <3>12 DEF Missing
    <3>7. Cardinality({deps'[n][k] : k \in DOMAIN deps'[n]}) = Len(deps'[n])
      BY <3>1, <3>3, PlacesAreMembers
    <3>8. 1 \in DOMAIN deps'[n]
      BY <3>1
    <3>9. Missing(n)' # {}
      BY <3>6, <3>8
    <3>10. count'[n] = Cardinality(Missing(n)')
      BY <2>2, <3>6, <3>7
    <3>11. \A m \in C!DependencySet(n)' : LiveOrOver(m)'
      BY <3>4, <3>5 DEF LiveOrOver, LiveStates
    <3> QED
      BY <2>4, <3>9, <3>10, <3>11
  <2> QED
    BY <2>3, <2>4
<1>9. CASE UNCHANGED vars
  BY <1>1, <1>9 DEF vars, columns, LiveOrOver
<1> QED
  BY <1>2, <1>3, <1>4, <1>5, <1>6, <1>7, <1>8, <1>9, RollBacks DEF Next, Calls, Ends, Executes

-----------------------------------------------------------------------------

LEMMA WakeInit == Init => WakeInv
<1> SUFFICES ASSUME Init PROVE WakeInv
  OBVIOUS
<1>1. RowsInv /\ CountsCover
  BY RowsInit, CountsInit
<1>2. \A r \in Rows : /\ parent[r] = NoRow /\ deps[r] = <<>> /\ creator[r] = NoClient
                      /\ state[r] = "absent" /\ Upstream(r) = {}
  BY DEF Init, Upstream, C!DependencySet
<1>3. Together /\ PlainRows /\ ParentsWake /\ GroupsWake /\ OnlyWiredWait
  BY <1>2 DEF Together, PlainRows, ParentsWake, GroupsWake, OnlyWiredWait
<1>4. Answers
  <2>1. \A c \in Clients : got[c] = <<>> /\ program[c] = <<>> /\ snapshot[c] = {} /\ c # NoClient
    BY EnqueueAssumption DEF Init
  <2> QED
    BY <1>2, <2>1 DEF Answers
<1> QED
  BY <1>1, <1>3, <1>4 DEF WakeInv

\* A row that waits along an axis of its own transaction waits for a live one.
LEMMA WakeUpsCome == WakeInv => StrandedOnlyByDedupe
<1> SUFFICES ASSUME WakeInv, NEW r \in Rows, Committed[r] = "waiting",
                    \A u \in Upstream(r) : state[u] \in C!TerminalStates \cup {"absent"},
                    \A u \in Upstream(r) : ~(creator[u] # creator[r] /\ state[u] # "absent")
             PROVE  FALSE
  BY DEF StrandedOnlyByDedupe
<1>1. state[r] = "waiting"
  BY DEF Committed
<1>2. \A u \in Upstream(r) : creator[u] = creator[r] /\ state[u] \notin LiveStates
  BY DEF WakeInv, PlainRows, Settled, LiveStates, C!TerminalStates
<1>3. parent[r] = NoRow
  BY <1>1, <1>2, UpstreamRows DEF WakeInv, RowsInv, ParentsWake
<1>4. deps[r] # <<>>
  BY <1>1, <1>3 DEF WakeInv, OnlyWiredWait
<1>5. OwnGroup(r)
  BY <1>2, <1>4 DEF OwnGroup, Upstream
<1>6. PICK m \in Missing(r) : TRUE
  BY <1>1, <1>5 DEF WakeInv, GroupsWake
<1>7. m \in Upstream(r) /\ state[m] \in LiveStates
  BY <1>1, <1>5 DEF Missing, Upstream, WakeInv, GroupsWake, LiveOrOver
<1> QED
  BY <1>2, <1>7

\* A wake-up can be lost to another transaction's committed row only: a job that
\* waits for jobs of its own transaction is always found by the end of one of
\* them, by its cancellation or by the completion that has read already, for
\* programs as delay() makes them of jobs, chains and plain groups.
THEOREM LostWakeUpsAreOthers ==
    ASSUME OneAxis, PlainPrograms
    PROVE  Spec => []StrandedOnlyByDedupe
<1>1. WakeInv /\ [Next]_vars => WakeInv'
  <2> SUFFICES ASSUME WakeInv, [Next]_vars PROVE WakeInv'
    OBVIOUS
  <2> USE DEF WakeInv
  <2>1. RowsInv' /\ CountsCover' /\ TypeOK'
    BY RowsStep, CountsStep DEF RowsInv
  <2>2. Together' /\ Answers' /\ PlainRows'
    BY <2>1, TogetherStep, AnswersStep, PlainRowsStep
  <2>3. ParentsWake' /\ GroupsWake' /\ OnlyWiredWait'
    BY <2>1, ParentsWakeStep, GroupsWakeStep, OnlyWiredWaitStep
  <2> QED
    BY <2>1, <2>2, <2>3
<1> QED
  BY <1>1, WakeInit, WakeUpsCome, PTL DEF Spec
=============================================================================
