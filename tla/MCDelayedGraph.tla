--------------------------- MODULE MCDelayedGraph ---------------------------
(***************************************************************************)
(* All small graphs whose groups and chains have jobs as their parts       *)
(* (docs/job-graphs.md, "Chain limitation"), with every choice of the jobs *)
(* that succeed.                                                           *)
(***************************************************************************)
EXTENDS DelayedGraph

CONSTANT Size       \* the most jobs a graph has

\* Terms with the ids lo .. hi - 1, in the order in which delay() meets them,
\* whose groups and chains have at least `least` parts: jobs, lists of jobs,
\* all terms, lists of terms.
RECURSIVE JobTerms(_, _, _)
RECURSIVE JobLists(_, _, _)
RECURSIVE TermsOf(_, _, _)
RECURSIVE Lists(_, _, _)
WithCallbacks(bases, lo, hi, least) ==
    UNION {{With(b, d, e) : b \in bases, d \in Lists(lo, m, least), e \in Lists(m, hi, least)} :
               m \in lo..hi}
JobTerms(lo, hi, least) == WithCallbacks({Job(lo)}, lo + 1, hi, least)
JobLists(lo, hi, least) ==
    IF lo = hi THEN {<<>>}
    ELSE UNION {{<<t>> \o l : t \in JobTerms(lo, m, least), l \in JobLists(m, hi, least)} :
                    m \in (lo + 1)..hi}
TermsOf(lo, hi, least) ==
    LET Long(m) == {l \in JobLists(lo, m, least) : Len(l) >= least}
    IN  JobTerms(lo, hi, least)
            \cup UNION {WithCallbacks({Group(l) : l \in Long(m)} \cup {Chain(l) : l \in Long(m)},
                                      m, hi, least) : m \in (lo + 1)..hi}
Lists(lo, hi, least) ==
    IF lo = hi THEN {<<>>}
    ELSE UNION {{<<t>> \o l : t \in TermsOf(lo, m, least), l \in Lists(m, hi, least)} :
                    m \in (lo + 1)..hi}

CasesOf(n, least) == TermsOf(1, n + 1, least) \X SUBSET (1..n)
AllCases == {[term |-> c[1], succeeds |-> c[2]] :
                c \in CasesOf(Size, 2) \cup UNION {CasesOf(n, 1) : n \in 1..(Size - 1)}}

\* A chain of several steps in an on_error.
RECURSIVE ChainHandlesErrors(_)
ChainHandlesErrors(t) ==
    \/ \E i \in DOMAIN t.error : t.error[i].kind = "chain" /\ Len(t.error[i].parts) > 1
    \/ \E x \in Range(t.parts \o t.done \o t.error) : ChainHandlesErrors(x)

\* The graphs whose failures and cancellations stay on one axis.
CasesOnOneAxis == {c \in AllCases : ~Crosses(c.term, "run", c.succeeds)}
SupportedCases == {c \in CasesOnOneAxis : ~ChainHandlesErrors(c.term)}
=============================================================================
