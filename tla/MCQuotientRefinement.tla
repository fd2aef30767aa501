------------------------ MODULE MCQuotientRefinement ------------------------
\* Four states, a two-cell base encoder at most, and a grammar of three
\* predicates of which the third is the negation of the first.
EXTENDS QuotientRefinement, TLC

CONSTANTS s1, s2, s3, s4, root, late

TruthTable == (1 :> {s1, s2}) @@ (2 :> {s1, s3}) @@ (3 :> {s3, s4})
MCHolds == [p \in 1..3 |-> [s \in {s1, s2, s3, s4} |-> s \in TruthTable[p]]]
MCBasePath == [b \in {root, late} |-> IF b = late THEN {2} ELSE {}]

\* Widths are in fifths: 1 of 5 is the acceptance boundary.
MCCandidates ==
    {[pred |-> 1, reduction |-> 1, pairs |-> 0, failure |-> 0, cost |-> 2],
     [pred |-> 2, reduction |-> 0, pairs |-> 1, failure |-> 1, cost |-> 2],
     [pred |-> 2, reduction |-> 0, pairs |-> 0, failure |-> 0, cost |-> 1],
     [pred |-> 3, reduction |-> 2, pairs |-> 0, failure |-> 0, cost |-> 4]}
=============================================================================
