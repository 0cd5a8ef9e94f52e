----------------------------- MODULE MCJobQueue -----------------------------
(* Instances of JobQueue for TLC. *)
EXTENDS JobQueue, TLC

CONSTANTS j1, j2, j3, w1, w2, w3, f1, f2, f3

\* Independent rows.
NoParents  == [j \in Jobs |-> NoJob]
NoBarriers == [j \in Jobs |-> <<>>]
NoHandlers == [j \in Jobs |-> FALSE]

\* j1.on_done(j2)
ChildOfOne == [j \in Jobs |-> IF j = j1 THEN NoJob ELSE j1]

\* group(j1, j2).on_done(j3)
BarrierOfTwo == (j1 :> <<>>) @@ (j2 :> <<>>) @@ (j3 :> <<j1, j2>>)

Interchangeable == Permutations(Futures) \cup Permutations(Workers)
=============================================================================
