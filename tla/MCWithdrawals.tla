---------------------------- MODULE MCWithdrawals ----------------------------
(* Small accounts for model checking Withdrawals. *)
EXTENDS Withdrawals

CONSTANTS w1, w2

\* One unit on each row: the second withdrawal locks the chain-less one.
OneOnEach == [r \in Rows |-> 1]
ChainFunds == [r \in Rows |-> IF r = "chain" THEN 3 ELSE 0]

\* Withdrawals are interchangeable: w1 names the one that is requested first.
RequestedInOrder == status[w2] # "none" => status[w1] # "none"
=============================================================================
