---------------------------- MODULE MCJobEnqueue ----------------------------
EXTENDS JobEnqueue

CONSTANTS c1, k1, k2

Plain(k)         == [key |-> k, parent |-> 0, deps |-> <<>>, handler |-> FALSE]
After(k, p)      == [Plain(k) EXCEPT !.parent = p]
AfterAll(k, d)   == [Plain(k) EXCEPT !.deps = d]
OnFailureOf(p)   == [Plain(NoKey) EXCEPT !.parent = p, !.handler = TRUE]
OnFailureOfAll(d) == [AfterAll(NoKey, d) EXCEPT !.handler = TRUE]

\* k1.on_done(job)          k1, k2 in both orders
CallbackProgram == <<Plain(k1), After(NoKey, 1)>>
KeysUp          == <<Plain(k1), Plain(k2)>>
KeysDown        == <<Plain(k2), Plain(k1)>>
\* group(k1, job).on_done(k2)
BarrierProgram  == <<Plain(k1), Plain(NoKey), AfterAll(k2, <<1, 2>>)>>
\* job.on_done(k1).on_error(job)
ChildProgram    == <<Plain(NoKey), After(k1, 1), OnFailureOf(1)>>
\* group(a, b).on_done(chain(x, y))
ChainBehindBarrier == <<Plain(k1), Plain(NoKey), AfterAll(NoKey, <<1, 2>>), After(NoKey, 3)>>

\* Short transactions, and longer ones beside them.
Short == {CallbackProgram, KeysDown, ChildProgram}
Long  == {BarrierProgram, ChildProgram, KeysUp, ChainBehindBarrier}
MCPrograms == [c \in Clients |-> IF c = c1 THEN Long ELSE Short]
=============================================================================
