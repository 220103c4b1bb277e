------------------------------ MODULE P2PEscrow ------------------------------
(***************************************************************************)
(* P2P trading: advertisements, orders, the escrow that holds the seller's *)
(* crypto while the buyer pays off-platform, disputes, the expiry worker   *)
(* and the SLA worker.                                                     *)
(*                                                                         *)
(* Every action is one database transaction of p2p.service.ts,             *)
(* p2p-expiry.service.ts, p2p-sla-worker.service.ts or                     *)
(* operator-controls.service.ts; a transaction that throws rolls back, so  *)
(* a guard stands for every early throw.  updateAd is the exception: it    *)
(* reads and writes in two statements and is two actions here.             *)
(*                                                                         *)
(* Each order owns exactly one escrow row, so the escrow columns are       *)
(* indexed by the order.  One token and the 'funding' account are modelled;*)
(* a user has two balance rows for it, the row of the token's chain        *)
(* (tokens.chain_id is NOT NULL) and the chain-less row (CHAIN_ID_GLOBAL). *)
(***************************************************************************)
EXTENDS UnitSums

CONSTANTS
  Users, Ads,
  Orders,                \* order ids, numbered in order of creation
  NoUser, NoAd,
  MaxAmount,             \* bound on the quantity of an ad or an order
  InitialAvailable,      \* [Users -> [Rows -> Nat]], balances before any trade
  RequirePaymentProof,   \* config.p2p.requirePaymentProof
  SlaAction,             \* config.p2p.slaAction
  MaxOpenEscrows,        \* P2P_MAX_OPEN_ESCROWS_PER_USER
  MaxEscrowTotal,        \* P2P_MAX_ESCROW_TOTAL_PER_USER
  ExpiryStatus,          \* the order status the expiry worker looks for
  ExpiryBatch            \* LIMIT of the expiry worker's query

Rows == {"chain", "global"}
Amounts == 1 .. MaxAmount

ASSUME P2PConstants ==
  /\ Orders \subseteq Nat /\ IsFiniteSet(Orders)
  /\ NoUser \notin Users /\ NoAd \notin Ads
  /\ MaxAmount \in Nat
  /\ InitialAvailable \in [Users -> [Rows -> Nat]]
  /\ RequirePaymentProof \in BOOLEAN
  /\ SlaAction \in {"release", "dispute"}
  /\ ExpiryStatus \in {"payment_pending", "awaiting_payment"}
  /\ MaxOpenEscrows \in Nat /\ MaxEscrowTotal \in Nat /\ ExpiryBatch \in Nat

VARIABLES
  available, escrowed,        \* user_balances.available_balance, .escrow_balance
  adOwner, adType, adTotal, adAvailable, adStatus, adCompleted,   \* p2p_ads
  adUpdate,                   \* the status an updateAd in progress will write
  orderAd, buyer, seller, quantity, status, verification,         \* p2p_orders
  windowOver, slaOver,        \* orders past expires_at / past the SLA age
  escrowStatus, frozen,       \* escrows.status, escrows.admin_frozen_at
  dispute                     \* p2p_disputes.status

balances == <<available, escrowed>>
ads == <<adOwner, adType, adTotal, adAvailable, adStatus, adCompleted, adUpdate>>
orderKeys == <<orderAd, buyer, seller, quantity>>
timers == <<windowOver, slaOver>>
escrows == <<escrowStatus, frozen>>
vars == <<balances, ads, orderKeys, status, verification, timers, escrows, dispute>>

OrderStatus == {"none", "payment_pending", "payment_confirmed", "disputed",
                "completed", "cancelled", "expired"}
Open == {"payment_pending", "payment_confirmed", "disputed"}

\* The orders whose quantities a balance is made of, and their sum.
LockedOf(u) == {o \in Orders : escrowStatus[o] = "locked" /\ seller[o] = u}
BoughtBy(u) == {o \in Orders : escrowStatus[o] = "released" /\ buyer[o] = u}
SoldBy(u) == {o \in Orders : escrowStatus[o] = "released" /\ seller[o] = u}
TakenFrom(a) == {o \in Orders : orderAd[o] = a /\ escrowStatus[o] \in {"locked", "released"}}
Amount(S) == SumOf(quantity, S)

Init ==
  /\ available = InitialAvailable
  /\ escrowed = [u \in Users |-> [r \in Rows |-> 0]]
  /\ adOwner = [a \in Ads |-> NoUser]
  /\ adType = [a \in Ads |-> "sell"]
  /\ adTotal = [a \in Ads |-> 0]
  /\ adAvailable = [a \in Ads |-> 0]
  /\ adStatus = [a \in Ads |-> "none"]
  /\ adCompleted = [a \in Ads |-> 0]
  /\ adUpdate = [a \in Ads |-> "none"]
  /\ orderAd = [o \in Orders |-> NoAd]
  /\ buyer = [o \in Orders |-> NoUser]
  /\ seller = [o \in Orders |-> NoUser]
  /\ quantity = [o \in Orders |-> 0]
  /\ status = [o \in Orders |-> "none"]
  /\ verification = [o \in Orders |-> "null"]
  /\ windowOver = {}
  /\ slaOver = {}
  /\ escrowStatus = [o \in Orders |-> "none"]
  /\ frozen = [o \in Orders |-> FALSE]
  /\ dispute = [o \in Orders |-> "none"]
------------------------------------------------------------------------------
(* Advertisements *)

RowFunds(u, r) == available[u][r] + escrowed[u][r]

\* Funds createAd compares with the total of a sell ad: the larger of the rows.
AdFunds(u) ==
  IF RowFunds(u, "chain") >= RowFunds(u, "global") THEN RowFunds(u, "chain")
  ELSE RowFunds(u, "global")

createAd(u, a, type, total) ==
  /\ adStatus[a] = "none"
  /\ type = "sell" => AdFunds(u) >= total
  /\ adOwner' = [adOwner EXCEPT ![a] = u]
  /\ adType' = [adType EXCEPT ![a] = type]
  /\ adTotal' = [adTotal EXCEPT ![a] = total]
  /\ adAvailable' = [adAvailable EXCEPT ![a] = total]
  /\ adStatus' = [adStatus EXCEPT ![a] = "active"]
  /\ UNCHANGED <<balances, adCompleted, adUpdate, orderKeys, status, verification,
                 timers, escrows, dispute>>

\* updateAd reads the ad without a lock ...
updateAdRead(a, s) ==
  /\ adStatus[a] \in {"active", "paused"}
  /\ adUpdate[a] = "none"
  /\ adUpdate' = [adUpdate EXCEPT ![a] = s]
  /\ UNCHANGED <<balances, adOwner, adType, adTotal, adAvailable, adStatus, adCompleted,
                 orderKeys, status, verification, timers, escrows, dispute>>

\* ... and updates it by id alone.
updateAdWrite(a) ==
  /\ adUpdate[a] # "none"
  /\ adStatus' = [adStatus EXCEPT ![a] = adUpdate[a]]
  /\ adUpdate' = [adUpdate EXCEPT ![a] = "none"]
  /\ UNCHANGED <<balances, adOwner, adType, adTotal, adAvailable, adCompleted,
                 orderKeys, status, verification, timers, escrows, dispute>>

cancelAd(a) ==
  /\ adStatus[a] \in {"active", "paused"}
  /\ \A o \in Orders : orderAd[o] = a => status[o] \notin Open
  /\ adStatus' = [adStatus EXCEPT ![a] = "cancelled"]
  /\ UNCHANGED <<balances, adOwner, adType, adTotal, adAvailable, adCompleted, adUpdate,
                 orderKeys, status, verification, timers, escrows, dispute>>
------------------------------------------------------------------------------
(* The escrow service *)

\* The row moveToEscrow debits: the token's row, else the chain-less row.
DebitRow(u, q) == IF available[u]["chain"] >= q THEN "chain" ELSE "global"

moveToEscrow(u, o, q) ==
  LET r == DebitRow(u, q) IN
  /\ available[u][r] >= q
  /\ available' = [available EXCEPT ![u][r] = @ - q]
  /\ escrowed' = [escrowed EXCEPT ![u][r] = @ + q]
  /\ escrowStatus' = [escrowStatus EXCEPT ![o] = "locked"]

\* Mutant: the seller's escrow_balance is not debited.
payOut_KeepsEscrow(o, u, outcome) ==
  /\ ~frozen[o]
  /\ escrowStatus' = [escrowStatus EXCEPT ![o] = outcome]
  /\ available' = [available EXCEPT ![u]["global"] = @ + quantity[o]]
  /\ UNCHANGED escrowed

\* Mutant: admin_frozen_at is not looked at.
payOut_IgnoresFreeze(o, u, outcome) ==
  /\ escrowed[seller[o]]["global"] >= quantity[o]
  /\ escrowStatus' = [escrowStatus EXCEPT ![o] = outcome]
  /\ escrowed' = [escrowed EXCEPT ![seller[o]]["global"] = @ - quantity[o]]
  /\ available' = [available EXCEPT ![u]["global"] = @ + quantity[o]]

\* Pays the escrow of order o out to user u, always from the seller's
\* chain-less row to the chain-less row of u.
payOut(o, u, outcome) ==
  /\ ~frozen[o]
  /\ escrowed[seller[o]]["global"] >= quantity[o]
  /\ escrowStatus' = [escrowStatus EXCEPT ![o] = outcome]
  /\ escrowed' = [escrowed EXCEPT ![seller[o]]["global"] = @ - quantity[o]]
  /\ available' = [available EXCEPT ![u]["global"] = @ + quantity[o]]

\* Mutant: the released crypto is credited to the seller.
releaseFromEscrow_ToSeller(o) ==
  IF escrowStatus[o] = "locked" THEN payOut(o, seller[o], "released")
  ELSE UNCHANGED <<balances, escrowStatus>>

\* An escrow that is no longer locked is left alone (alreadyReleased).
releaseFromEscrow(o) ==
  IF escrowStatus[o] = "locked" THEN payOut(o, buyer[o], "released")
  ELSE UNCHANGED <<balances, escrowStatus>>

\* An escrow that is no longer locked is left alone (alreadyRefunded).
refundFromEscrow(o) ==
  IF escrowStatus[o] = "locked" THEN payOut(o, seller[o], "refunded")
  ELSE UNCHANGED <<balances, escrowStatus>>

freezeEscrow(o) ==
  /\ escrowStatus[o] = "locked"
  /\ frozen' = [frozen EXCEPT ![o] = TRUE]
  /\ UNCHANGED <<balances, ads, orderKeys, status, verification, timers, escrowStatus, dispute>>

unfreezeEscrow(o) ==
  /\ frozen[o]
  /\ frozen' = [frozen EXCEPT ![o] = FALSE]
  /\ UNCHANGED <<balances, ads, orderKeys, status, verification, timers, escrowStatus, dispute>>
------------------------------------------------------------------------------
(* Orders *)

\* assertP2PEscrowCapInTransaction
EscrowCapAllows(u, q) ==
  /\ Cardinality(LockedOf(u)) < MaxOpenEscrows
  /\ Amount(LockedOf(u)) + q <= MaxEscrowTotal

AdCovers(a, q) == adAvailable[a] >= q

createOrder(u, a, o, q) ==
  LET s == IF adType[a] = "sell" THEN adOwner[a] ELSE u
      b == IF adType[a] = "sell" THEN u ELSE adOwner[a] IN
  /\ status[o] = "none"
  /\ \A p \in Orders : p < o => status[p] # "none"
  /\ adStatus[a] = "active"
  /\ adOwner[a] # u
  /\ AdCovers(a, q)
  /\ EscrowCapAllows(s, q)
  /\ moveToEscrow(s, o, q)
  /\ orderAd' = [orderAd EXCEPT ![o] = a]
  /\ buyer' = [buyer EXCEPT ![o] = b]
  /\ seller' = [seller EXCEPT ![o] = s]
  /\ quantity' = [quantity EXCEPT ![o] = q]
  /\ status' = [status EXCEPT ![o] = "payment_pending"]
  /\ adAvailable' = [adAvailable EXCEPT ![a] = @ - q]
  /\ UNCHANGED <<adOwner, adType, adTotal, adStatus, adCompleted, adUpdate, verification,
                 timers, frozen, dispute>>

confirmPayment(o) ==
  /\ status[o] = "payment_pending"
  /\ status' = [status EXCEPT ![o] = "payment_confirmed"]
  /\ verification' = IF RequirePaymentProof THEN [verification EXCEPT ![o] = "pending"]
                     ELSE verification
  /\ UNCHANGED <<balances, ads, orderKeys, timers, escrows, dispute>>

sellerVerifyPayment(o) ==
  /\ status[o] = "payment_confirmed"
  /\ verification[o] = "pending"
  /\ verification' = [verification EXCEPT ![o] = "verified"]
  /\ UNCHANGED <<balances, ads, orderKeys, status, timers, escrows, dispute>>

\* The part of releaseCrypto after its authorisation checks.
releaseConfirmed(o) ==
  /\ status[o] = "payment_confirmed"
  /\ escrowStatus[o] = "locked"
  /\ releaseFromEscrow(o)
  /\ status' = [status EXCEPT ![o] = "completed"]
  /\ adCompleted' = [adCompleted EXCEPT ![orderAd[o]] = @ + 1]
  /\ UNCHANGED <<adOwner, adType, adTotal, adAvailable, adStatus, adUpdate, orderKeys,
                 verification, timers, frozen, dispute>>

releaseCrypto(o) ==
  /\ verification[o] \notin {"pending", "rejected"}
  /\ releaseConfirmed(o)

\* Mutant: the liquidity is not given back.
restoreLiquidity_Forgotten(o) == UNCHANGED adAvailable

\* Gives the order's quantity back to its ad, refusing to exceed the ad's total.
restoreLiquidity(o) ==
  /\ adAvailable[orderAd[o]] + quantity[o] <= adTotal[orderAd[o]]
  /\ adAvailable' = [adAvailable EXCEPT ![orderAd[o]] = @ + quantity[o]]

\* Mutant: a paid order may be cancelled.
CANCELLABLE_STATUSES_Paid == {"payment_pending", "payment_confirmed"}

CANCELLABLE_STATUSES == {"payment_pending"}

cancelOrder(o) ==
  /\ status[o] \in CANCELLABLE_STATUSES
  /\ refundFromEscrow(o)
  /\ IF escrowStatus[o] = "locked" THEN restoreLiquidity(o) ELSE UNCHANGED adAvailable
  /\ status' = [status EXCEPT ![o] = "cancelled"]
  /\ UNCHANGED <<adOwner, adType, adTotal, adStatus, adCompleted, adUpdate, orderKeys,
                 verification, timers, frozen, dispute>>

openDispute(o) ==
  /\ status[o] = "payment_confirmed"
  /\ dispute[o] # "open"
  /\ dispute' = [dispute EXCEPT ![o] = "open"]
  /\ status' = [status EXCEPT ![o] = "disputed"]
  /\ verification' = IF verification[o] = "pending"
                     THEN [verification EXCEPT ![o] = "rejected"] ELSE verification
  /\ UNCHANGED <<balances, ads, orderKeys, timers, escrows>>

resolveForBuyer(o) ==
  /\ dispute[o] = "open"
  /\ releaseFromEscrow(o)
  /\ status' = [status EXCEPT ![o] = "completed"]
  /\ verification' = [verification EXCEPT ![o] = "verified"]
  /\ dispute' = [dispute EXCEPT ![o] = "resolved"]
  /\ UNCHANGED <<ads, orderKeys, timers, frozen>>

\* 'favor_seller' and 'cancelled'
resolveForSeller(o) ==
  /\ dispute[o] = "open"
  /\ refundFromEscrow(o)
  /\ IF escrowStatus[o] = "locked" THEN restoreLiquidity(o) ELSE UNCHANGED adAvailable
  /\ status' = [status EXCEPT ![o] = "cancelled"]
  /\ verification' = [verification EXCEPT ![o] = "rejected"]
  /\ dispute' = [dispute EXCEPT ![o] = "resolved"]
  /\ UNCHANGED <<adOwner, adType, adTotal, adStatus, adCompleted, adUpdate, orderKeys,
                 timers, frozen>>
------------------------------------------------------------------------------
(* Workers *)

\* Mutant: the status is not re-read under the row lock.
Overdue_Stale == {o \in Orders : status[o] # "none" /\ o \in windowOver}

\* The query of the expiry worker, re-checked under the row lock: the oldest
\* ExpiryBatch overdue orders.  The worker's constant P2P_ORDER_STATUS_PAYMENT_PENDING
\* is 'awaiting_payment', a status no order ever has; its comment, and every other
\* user of the status, says payment_pending.  ExpiryStatus is either one.
Overdue == {o \in Orders : status[o] = ExpiryStatus /\ o \in windowOver}
ExpiryPage == {o \in Overdue : Cardinality({p \in Overdue : p < o}) < ExpiryBatch}

\* Unlike cancelOrder, the restored liquidity is not compared with the total.
processExpiredOrder(o) ==
  /\ o \in ExpiryPage
  /\ refundFromEscrow(o)
  /\ status' = [status EXCEPT ![o] = "expired"]
  /\ adAvailable' = IF escrowStatus[o] = "locked"
                    THEN [adAvailable EXCEPT ![orderAd[o]] = @ + quantity[o]] ELSE adAvailable
  /\ UNCHANGED <<adOwner, adType, adTotal, adStatus, adCompleted, adUpdate, orderKeys,
                 verification, timers, frozen, dispute>>

\* Mutant: the SLA release also insists on the seller's verification.
runP2PSlaTick_NeedsProof(o) ==
  /\ o \in slaOver
  /\ IF SlaAction = "release" THEN releaseCrypto(o) ELSE openDispute(o)

runP2PSlaTick(o) ==
  /\ o \in slaOver
  /\ IF SlaAction = "release" THEN releaseConfirmed(o) ELSE openDispute(o)

\* Time passes: expires_at of an unpaid order, the SLA age of a paid one.
PaymentWindowEnds(o) ==
  /\ status[o] = "payment_pending" /\ o \notin windowOver
  /\ windowOver' = windowOver \cup {o}
  /\ UNCHANGED <<balances, ads, orderKeys, status, verification, slaOver, escrows, dispute>>

SlaWindowEnds(o) ==
  /\ status[o] = "payment_confirmed" /\ o \notin slaOver
  /\ slaOver' = slaOver \cup {o}
  /\ UNCHANGED <<balances, ads, orderKeys, status, verification, windowOver, escrows, dispute>>
------------------------------------------------------------------------------
AdStep(a) ==
  \/ \E u \in Users, type \in {"sell", "buy"}, total \in Amounts : createAd(u, a, type, total)
  \/ \E s \in {"active", "paused"} : updateAdRead(a, s)
  \/ updateAdWrite(a)
  \/ cancelAd(a)

OrderStep(o) ==
  \/ \E u \in Users, a \in Ads, q \in Amounts : createOrder(u, a, o, q)
  \/ confirmPayment(o)
  \/ sellerVerifyPayment(o)
  \/ releaseCrypto(o)
  \/ cancelOrder(o)
  \/ openDispute(o)
  \/ resolveForBuyer(o)
  \/ resolveForSeller(o)
  \/ freezeEscrow(o)
  \/ unfreezeEscrow(o)
  \/ processExpiredOrder(o)
  \/ runP2PSlaTick(o)
  \/ PaymentWindowEnds(o)
  \/ SlaWindowEnds(o)

Next == (\E a \in Ads : AdStep(a)) \/ (\E o \in Orders : OrderStep(o))

Spec == Init /\ [][Next]_vars

\* server.ts runs both workers on an interval for as long as the process lives.
WorkersRun == \A o \in Orders : WF_vars(processExpiredOrder(o)) /\ WF_vars(runP2PSlaTick(o))
FairSpec == Spec /\ WorkersRun
------------------------------------------------------------------------------
TypeOK ==
  /\ available \in [Users -> [Rows -> Nat]]
  /\ escrowed \in [Users -> [Rows -> Nat]]
  /\ adOwner \in [Ads -> Users \cup {NoUser}]
  /\ adType \in [Ads -> {"sell", "buy"}]
  /\ adTotal \in [Ads -> Nat]
  /\ adAvailable \in [Ads -> Nat]
  /\ adStatus \in [Ads -> {"none", "active", "paused", "cancelled"}]
  /\ adCompleted \in [Ads -> Nat]
  /\ adUpdate \in [Ads -> {"none", "active", "paused"}]
  /\ orderAd \in [Orders -> Ads \cup {NoAd}]
  /\ buyer \in [Orders -> Users \cup {NoUser}]
  /\ seller \in [Orders -> Users \cup {NoUser}]
  /\ quantity \in [Orders -> 0 .. MaxAmount]
  /\ status \in [Orders -> OrderStatus]
  /\ verification \in [Orders -> {"null", "pending", "verified", "rejected"}]
  /\ windowOver \subseteq Orders
  /\ slaOver \subseteq Orders
  /\ escrowStatus \in [Orders -> {"none", "locked", "released", "refunded"}]
  /\ frozen \in [Orders -> BOOLEAN]
  /\ dispute \in [Orders -> {"none", "open", "resolved"}]

\* Whatever order the users, the admins and the two workers act in, the escrow
\* of an open order is still locked, that of a completed order went to the buyer
\* and that of a cancelled or expired order went back to the seller: no path ends
\* an order on the 'already released / already refunded' answer of the escrow
\* service (releaseCrypto, cancelOrder, resolveDispute, processExpiredP2POrders).
EscrowFollowsOrder ==
  \A o \in Orders :
    /\ status[o] = "none" => escrowStatus[o] = "none"
    /\ status[o] \in Open => escrowStatus[o] = "locked"
    /\ status[o] = "completed" => escrowStatus[o] = "released"
    /\ status[o] \in {"cancelled", "expired"} => escrowStatus[o] = "refunded"

\* A seller's escrow_balance, over both rows, is the sum of the quantities of the
\* escrows still locked for that seller (moveToEscrow, releaseFromEscrow,
\* refundFromEscrow).
EscrowBacksOrders ==
  \A u \in Users : escrowed[u]["chain"] + escrowed[u]["global"] = Amount(LockedOf(u))

\* No transaction creates or destroys crypto: what a user owns, available or in
\* escrow, is the initial balance plus what was released to the user minus what
\* the user released to others.
FundsConserved ==
  \A u \in Users :
    RowFunds(u, "chain") + RowFunds(u, "global") + Amount(SoldBy(u))
      = InitialAvailable[u]["chain"] + InitialAvailable[u]["global"] + Amount(BoughtBy(u))

\* An ad's available_amount is its total less what open and completed orders took:
\* the expiry worker's unclamped restore never lifts it above the total, and the
\* clamps of cancelOrder and resolveDispute never fire.
AdLiquidity ==
  \A a \in Ads : adAvailable[a] + Amount(TakenFrom(a)) = adTotal[a]

\* The columns of created rows refer to each other: used to prove the rest.
RowsLinked ==
  /\ \A o \in Orders :
       /\ status[o] = "none" => orderAd[o] = NoAd /\ dispute[o] = "none" /\ ~frozen[o]
       /\ status[o] # "none" => /\ orderAd[o] \in Ads /\ adStatus[orderAd[o]] # "none"
                               /\ buyer[o] \in Users /\ seller[o] \in Users
       /\ dispute[o] = "open" => status[o] = "disputed"
  /\ \A a \in Ads :
       /\ adStatus[a] # "none" => adOwner[a] \in Users
       /\ adUpdate[a] # "none" => adStatus[a] # "none"

\* The inductive invariant of P2PEscrowProofs.
IndInv ==
  TypeOK /\ RowsLinked /\ EscrowFollowsOrder /\ EscrowBacksOrders /\ FundsConserved /\ AdLiquidity

\* The refinement mapping to EscrowContract: an order is a deal between its seller
\* and its buyer, and a party can spend what is available on either row.
Spendable == [u \in Users |-> available[u]["chain"] + available[u]["global"]]
DealState ==
  [o \in Orders |-> CASE escrowStatus[o] = "none" -> "idle"
                      [] escrowStatus[o] = "locked" -> "held"
                      [] escrowStatus[o] = "released" -> "paid"
                      [] escrowStatus[o] = "refunded" -> "returned"]
Contract == INSTANCE EscrowContract WITH
  Parties <- Users, Deals <- Orders, state <- DealState,
  from <- seller, to <- buyer, amount <- quantity, funds <- Spendable

\* The P2P services implement the escrow contract: whatever the users, admins and
\* workers do, each order's crypto leaves the seller once and is given once, in
\* full, to exactly one of the parties (moveToEscrow, releaseFromEscrow,
\* refundFromEscrow and every caller of them).
KeepsContract == Contract!ContractSpec

\* Once the buyer has marked an order paid its escrow goes back to the seller only
\* out of a dispute; neither cancelOrder nor a late run of the expiry worker
\* refunds it ("never cancel after buyer marks paid", p2p.service.ts:1022).
PaidRefundNeedsDispute ==
  [][\A o \in Orders :
       /\ escrowStatus[o] = "locked" /\ escrowStatus'[o] = "refunded"
       /\ status[o] # "payment_pending"
       => status[o] = "disputed" /\ dispute[o] = "open"]_vars

\* An order that ended stays as it ended, and so does its escrow: a release, a
\* cancellation, a run of the expiry or the SLA worker or the resolution of a
\* dispute that comes late changes neither.
Ended == {"completed", "cancelled", "expired"}
EndedOrderIsFinal ==
  [][\A o \in Orders : status[o] \in Ended =>
       status'[o] = status[o] /\ escrowStatus'[o] = escrowStatus[o]]_vars

\* While an operator's freeze is in place the escrow does not move
\* ("Blocks release/refund until unfreeze", operator-controls.service.ts:228).
FreezeHolds ==
  [][\A o \in Orders : frozen[o] => escrowStatus'[o] = escrowStatus[o]]_vars

\* "Process expired P2P orders: status = payment_pending and expires_at < NOW()"
\* (p2p-expiry.service.ts:18): an unpaid order past its window is eventually
\* expired, cancelled or paid, unless an operator froze its escrow.
OverdueOrderEnds ==
  \A o \in Orders :
    (o \in windowOver /\ status[o] = "payment_pending")
      ~> (status[o] # "payment_pending" \/ frozen[o])

\* "payment_confirmed orders past SLA -> auto-release or auto-dispute"
\* (p2p-sla-worker.service.ts:7): the worker gets round to every paid order past
\* the SLA age, also to one whose seller never verified the payment.  It fails for
\* two reasons only: an operator froze the escrow, or the seller's chain-less row,
\* the one releaseFromEscrow debits, does not hold what moveToEscrow took from the
\* row of the token's chain.
PayableSlaOrderEnds ==
  \A o \in Orders :
    (o \in slaOver /\ status[o] = "payment_confirmed")
      ~> \/ status[o] # "payment_confirmed"
         \/ frozen[o]
         \/ escrowed[seller[o]]["global"] < quantity[o]
==============================================================================
