--------------------------- MODULE MCChannelLimits ---------------------------
(* Two channels for ChannelLimits: c1 has a limit of two and two starts per *)
(* second, c2 the default limit of one and no rate limit.                   *)
EXTENDS ChannelLimits, TLC

CONSTANTS j1, j2, j3, j4, j5, w1, w2, c1, c2

TwoChannels == [j \in Jobs |-> IF j \in {j4, j5} THEN c2 ELSE c1]
Limits      == (c1 :> 2) @@ (c2 :> 1)
Rates       == (c1 :> 2) @@ (c2 :> 0)

Alike == Permutations(In(Jobs, c1)) \cup Permutations(In(Jobs, c2))
=============================================================================
