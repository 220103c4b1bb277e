----------------------------- MODULE MCOrderBook -----------------------------
(* Model checking OrderBook: users are interchangeable, order ids are not. *)
EXTENDS OrderBook, TLC

Symmetry == Permutations(Users)
=============================================================================
