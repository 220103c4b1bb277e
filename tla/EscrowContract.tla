--------------------------- MODULE EscrowContract ---------------------------
(***************************************************************************)
(* What the P2P escrow promises its users, without ads, rows, workers or   *)
(* disputes: the crypto of a deal is taken from the seller once, is held,  *)
(* and is then given, once and in full, to exactly one of the two parties. *)
(***************************************************************************)
EXTENDS Naturals

CONSTANTS Parties, Deals, Amounts

VARIABLES
  state,               \* per deal: idle, held, paid (to the buyer), returned
  from, to, amount,    \* the terms of each deal
  funds                \* what each party can spend

contractVars == <<state, from, to, amount, funds>>

Start ==
  /\ state = [d \in Deals |-> "idle"]
  /\ funds \in [Parties -> Nat]

Hold(d, s, b, q) ==
  /\ state[d] = "idle"
  /\ funds[s] >= q
  /\ state' = [state EXCEPT ![d] = "held"]
  /\ from' = [from EXCEPT ![d] = s]
  /\ to' = [to EXCEPT ![d] = b]
  /\ amount' = [amount EXCEPT ![d] = q]
  /\ funds' = [funds EXCEPT ![s] = @ - q]

Settle(d, p, outcome) ==
  /\ state[d] = "held"
  /\ state' = [state EXCEPT ![d] = outcome]
  /\ funds' = [funds EXCEPT ![p] = @ + amount[d]]
  /\ UNCHANGED <<from, to, amount>>

DealStep(d) ==
  \/ \E s, b \in Parties, q \in Amounts : s # b /\ Hold(d, s, b, q)
  \/ Settle(d, to[d], "paid")
  \/ Settle(d, from[d], "returned")

ContractSpec == Start /\ [][\E d \in Deals : DealStep(d)]_contractVars
=============================================================================
