------------------------------ MODULE UnitSums ------------------------------
(***************************************************************************)
(* Sums of natural-number columns over sets of rows, written as            *)
(* cardinalities: row x contributes the units <<x, 1>> .. <<x, q[x]>>.     *)
(* The sum needs no recursion, so its lemmas are proved for every finite   *)
(* set of rows.                                                            *)
(***************************************************************************)
EXTENDS Naturals, FiniteSets

UnitsOf(q, S) == UNION {{x} \X (1 .. q[x]) : x \in S}
SumOf(q, S) == Cardinality(UnitsOf(q, S))
=============================================================================
