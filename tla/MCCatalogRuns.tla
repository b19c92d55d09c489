---------------------------- MODULE MCCatalogRuns ----------------------------
(* CatalogRuns with two dependencies of two releases each: p1 is past 1.0.0,  *)
(* p2 is at 0.1.0 and moves to 0.2.0.                                          *)
EXTENDS CatalogRuns, TLC

CONSTANTS p1, p2

BothListed == <<p1, p2>>

\* A caret admits later minors, on 0.x none; the range a 0.x caret is resolved in
\* admits them.
CaretLiteral == p1 :> <<{1, 2}, {2}>> @@ p2 :> <<{1}, {2}>>
CaretWide    == [p \in {p1, p2} |-> <<{1, 2}, {2}>>]

RangeSymmetry == Permutations(Ranges)

=============================================================================
