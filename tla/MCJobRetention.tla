--------------------------- MODULE MCJobRetention ---------------------------
(* Small graphs for JobRetention. *)
EXTENDS JobRetention, TLC

CONSTANTS a, b, c, x, y

Alone == [j \in Jobs |-> NoJob]

\* group(a, b).on_done(c).on_error(x)
PairBarriers == [j \in Jobs |-> IF j \in {c, x} THEN <<a, b>> ELSE <<>>]
PairHandlers == [j \in Jobs |-> j = x]

\* group(a.on_error(y), b).on_error(x)
AxesParent   == [j \in Jobs |-> IF j = y THEN a ELSE NoJob]
AxesBarriers == [j \in Jobs |-> IF j = x THEN <<a, b>> ELSE <<>>]
AxesHandlers == [j \in Jobs |-> j \in {x, y}]
=============================================================================
