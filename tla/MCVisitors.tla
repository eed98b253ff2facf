------------------------------ MODULE MCVisitors -------------------------------
EXTENDS VisitorAnalytics, TLC

CONSTANTS ann, bob

E(i, p, k, t, g, d) == [id |-> i, who |-> p, kind |-> k, at |-> t, gate |-> g, dwell |-> d]

\* Ann comes and goes on the first day and is back on the second, when Bob comes.
\* The first exit carries its dwell time.
OneDayAndAnother ==
    {E(1, ann, "ENTRY", 2, 1, 0), E(2, ann, "EXIT", 3, 2, 3),
     E(3, ann, "ENTRY", 4, 2, 0), E(4, bob, "ENTRY", 5, 1, 0)}

\* All time, the first day, and the second from its first moment.
SomeRanges == {<<0, 5>>, <<0, 3>>, <<4, 5>>}

Interchangeable == Permutations(Calls)
=============================================================================
