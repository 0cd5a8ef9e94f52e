----------------------------- MODULE MCJobGraph -----------------------------
(* Graphs of jobs as job_worker/delay.py wires them, for TLC. *)
EXTENDS JobGraph, TLC

CONSTANTS a, b, c, d, e, g, x, y, z

Alone == [j \in Jobs |-> NoJob]
Free  == [j \in Jobs |-> <<>>]
Never == [j \in Jobs |-> FALSE]

\* group(a.on_done(b.on_done(d).on_error(e)).on_error(x.on_done(y)), z)
\*     .on_done(c).on_error(g)
TreeParent   == [j \in Jobs |-> CASE j \in {b, x} -> a [] j \in {d, e} -> b [] j = y -> x
                                  [] OTHER -> NoJob]
TreeBarriers == [j \in Jobs |-> IF j \in {c, g} THEN <<a, z>> ELSE <<>>]
TreeHandlers == [j \in Jobs |-> j \in {e, x, g}]

\* group(a, b).on_done(c), and group(a, a').on_done(d) where a' has the identity
\* key of a: enqueue() answers with a both times.
CountedBarriers == [j \in Jobs |-> CASE j = c -> <<a, b>> [] j = d -> <<a, a>> [] OTHER -> <<>>]

\* group(a, b).on_done(chain(x, y)), with x.on_done(group(c, d).on_done(e)) too
CrossParent   == [j \in Jobs |-> IF j \in {y, c, d} THEN x ELSE NoJob]
CrossBarriers == [j \in Jobs |-> CASE j = x -> <<a, b>> [] j = e -> <<c, d>> [] OTHER -> <<>>]

\* group(a, b).on_error(x.on_done(y))
CleanupParent   == [j \in Jobs |-> IF j = y THEN x ELSE NoJob]
CleanupBarriers == [j \in Jobs |-> IF j = x THEN <<a, b>> ELSE <<>>]
CleanupHandlers == [j \in Jobs |-> j = x]

\* chain(a, b, c)
ThreeParent   == [j \in Jobs |-> CASE j = b -> a [] j = c -> b [] OTHER -> NoJob]
=============================================================================
