---------------------------- MODULE MCSpotOrders ----------------------------
(***************************************************************************)
(* Instances of SpotOrders for TLC.                                        *)
(***************************************************************************)
EXTENDS SpotOrders

CONSTANTS a, b, c1

MCPortfolios == {[o \in Orders |-> IF o = a THEN k[1] ELSE k[2]] :
    k \in {<<"sell", "stop_sell">>, <<"buy", "stop_limit_buy">>, <<"market_buy", "stop_loss_buy">>}}

MCQuantity == [o \in Orders |-> IF o = a THEN 2 ELSE 1]

\* The properties are about orders that are not loose.
SomeOrderFirm == loose # Orders

\* A behaviour has one kind of fault: a restart, a second trigger of an order, or
\* placements that fail.
Restarted == restarts > 0
TriggeredAgain == \E o \in Orders : triggers[o] > 1
PlacementFailed == \E o \in Orders : placing[o] \in {"rolling_back", "refused"}
OneKindOfFault ==
    /\ ~(Restarted /\ TriggeredAgain)
    /\ ~(Restarted /\ PlacementFailed)
    /\ ~(TriggeredAgain /\ PlacementFailed)

\* The replay rounds up the remainder of the larger order only.
RoundsUpOne == replaying[b].qty <= Quantity[b]

\* Only the limit buy is filled at a better price than the worst.
FilledAtWorst ==
    \A o \in Orders : kind[o] # "buy" /\ ~IsSell(o) => \A p \in 1 .. Price - 1 : unsettled[o][p] = 0

=============================================================================
