---------------------------- MODULE MCP2PEscrow ----------------------------
(* Small instances of P2PEscrow for TLC. *)
EXTENDS P2PEscrow

\* Every user starts with the same funds: an order of one unit is escrowed from
\* the row of the token's chain, one of two units from the chain-less row.
FundsOnBothRows == [u \in Users |-> [chain |-> 1, global |-> 3]]

\* Every escrow is taken from the row it is paid out of.
FundsChainless == [u \in Users |-> [chain |-> 0, global |-> 3]]
============================================================================
