--------------------------- MODULE MCEngineJournal ---------------------------
(***************************************************************************)
(* EngineJournal on a small instance.                                      *)
(***************************************************************************)
EXTENDS EngineJournal, TLC

Symmetry == Permutations(Calls) \union Permutations(Fills)
==============================================================================
