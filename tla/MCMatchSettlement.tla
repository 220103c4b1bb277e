-------------------------- MODULE MCMatchSettlement --------------------------
(***************************************************************************)
(* MatchSettlement on small instances.                                     *)
(***************************************************************************)
EXTENDS MatchSettlement, TLC

\* Callers differ in nothing but their name.
Symmetry == Permutations(Callers)

\* The engine leaves the last id to the reassignment of collisions.
RoomToReassign == nextEventId <= MaxEventId

\* At most one row fails.
OneRowFails ==
  Cardinality({i \in EventIds : \/ rowRetries[i] > 0 \/ rowStatus[i] = "failed"
                                \/ \E w \in Workers : failRow[w] = i}) <= 1
==============================================================================
