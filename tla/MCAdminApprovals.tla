-------------------------- MODULE MCAdminApprovals --------------------------
(***************************************************************************)
(* Instances of AdminApprovals for TLC.                                    *)
(***************************************************************************)
EXTENDS AdminApprovals, TLC

CONSTANTS a1, a2, a3, c1, c2

MCCheckers == {<<a1, a2>>}

Symmetry == Permutations(Calls)

=============================================================================
