------------------------------ MODULE SpotOrders ------------------------------
(***************************************************************************)
(* The life of one user's spot orders and of the balance they lock: the    *)
(* place route, the call to the matching engine it makes after its commit, *)
(* cancel and cancel-all, the stop-order trigger job, the settlement of    *)
(* fills and the replay of open orders when the API starts.                *)
(*                                                                         *)
(* The orders of a behaviour lock the same currency in the same market.    *)
(* `locked' is that trading balance's locked bucket; the available bucket  *)
(* also moves with deposits, fees and transfers, so a lock that fails for  *)
(* want of it is a request that changes nothing.  The engine's book is     *)
(* what it still holds of an order, and a fill is one unit of quantity.    *)
(***************************************************************************)
EXTENDS Integers, UnitSums

CONSTANTS
    Orders,         \* the orders the user may place
    Cancellers,     \* cancel and cancel-all requests
    Portfolios,     \* what the orders may be: a set of functions to Kinds
    Quantity,       \* the quantity of each order
    Price,          \* limit or stop price of a buy order
    Slippage,       \* what a market or stop-loss buy locks above it, per unit
    MaxPrice,       \* bound: the highest price a market order meets
    MaxTriggers,    \* bound: attempts of the trigger job on one order
    MaxRestarts,    \* bound: restarts of the API
    ReplayTries     \* REPLAY_RETRY_COUNT + 1

Sells == {"sell", "stop_sell"}
Kinds == Sells \cup {"buy", "stop_limit_buy", "market_buy", "stop_loss_buy"}

ASSUME ConstantsAssumption ==
    /\ IsFiniteSet(Orders)
    /\ Portfolios \subseteq [Orders -> Kinds]
    /\ \A k \in Portfolios : \A o, x \in Orders : k[o] \in Sells <=> k[x] \in Sells
    /\ Quantity \in [Orders -> Nat \ {0}]
    /\ {Price, ReplayTries} \subseteq Nat \ {0}
    /\ MaxPrice \in Nat /\ MaxPrice >= Price
    /\ {Slippage, MaxTriggers, MaxRestarts} \subseteq Nat

VARIABLES
    kind,       \* what each order is; fixed by its request
    row,        \* spot_orders: status, filled_quantity, type
    locked,     \* user_balances.locked_balance
    sent,       \* requests to the engine on their way, by remaining quantity
    book,       \* what the engine's book holds of the order
    unsettled,  \* fills made and not settled, by price
    placing,    \* the place request: what its caller is doing
    triggering, \* orders the trigger job has opened and awaits the engine for
    triggers,   \* how often it has opened each order
    cancelling, \* the cancel requests
    replaying,  \* the start-up replay: remaining quantity and tries left
    restarts,
    held,       \* history: locked on behalf of the order and not yet given up
    loose       \* history: orders released, or sent again, while alive elsewhere,
                \* or sent again with more than they have left

vars == <<kind, row, locked, sent, book, unsettled, placing, triggering, triggers,
          cancelling, replaying, restarts, held, loose>>

IsStop(o) == kind[o] \in {"stop_sell", "stop_limit_buy", "stop_loss_buy"}
IsSell(o) == kind[o] \in Sells
IsMarketBuy(o) == kind[o] \in {"market_buy", "stop_loss_buy"}

Prices == 1 .. MaxPrice

(***************************************************************************)
(* Amounts.  A sell locks its quantity.  A limit buy locks its limit price *)
(* per unit, a market buy the best ask with a buffer and a stop-loss buy   *)
(* its stop price with a buffer.                                           *)
(***************************************************************************)
lockAmount(o) ==
    CASE IsSell(o)      -> Quantity[o]
      [] IsMarketBuy(o) -> (Price + Slippage) * Quantity[o]
      [] OTHER          -> Price * Quantity[o]

\* Mutant: the release ignores what is filled.
unlockAmount_whole(o, filled) ==
    CASE IsSell(o)              -> Quantity[o]
      [] kind[o] = "market_buy" -> 0
      [] OTHER                  -> Price * Quantity[o]

\* Mutant: a stop order's lock is forgotten.
unlockAmount_no_stop(o, filled) ==
    CASE IsStop(o)              -> 0
      [] IsSell(o)              -> Quantity[o] - filled
      [] kind[o] = "market_buy" -> 0
      [] OTHER                  -> Price * (Quantity[o] - filled)

\* What cancel gives back: price ?? stop_price ?? 0 for each unit the row says
\* is not filled.  A market buy has neither price.
unlockAmount(o, filled) ==
    CASE IsSell(o)              -> Quantity[o] - filled
      [] kind[o] = "market_buy" -> 0
      [] OTHER                  -> Price * (Quantity[o] - filled)

\* The prices, in the locked currency, at which the engine may fill the order.
fillPrices(o) ==
    CASE IsSell(o)      -> {1}
      [] IsMarketBuy(o) -> Prices
      [] OTHER          -> 1 .. Price

\* The quantities a request may carry: what is left of the order, which the
\* start-up replay may round up.
Sizes(o) == 1 .. Quantity[o] + 1

InFlight(o) == SumOf([q \in Sizes(o) |-> q * sent[o][q]], Sizes(o))
Unsettled(o) == SumOf(unsettled[o], Prices)

\* The engine holds the order, may still receive it, or has filled some of it
\* that is not settled yet.
Alive(o) == book[o] > 0 \/ InFlight(o) > 0 \/ Unsettled(o) > 0

LiveStatuses == {"OPEN", "PARTIALLY_FILLED", "PENDING_TRIGGER"}
Live(o) == row[o].status \in LiveStatuses

NoCancel == [todo |-> {}, done |-> {}, filled |-> [o \in Orders |-> 0]]
NoReplay == [qty |-> 0, tries |-> 0]

Init ==
    /\ kind \in Portfolios
    /\ row = [o \in Orders |-> [status |-> "none", filled |-> 0, type |-> "none"]]
    /\ locked = 0
    /\ sent = [o \in Orders |-> [q \in Sizes(o) |-> 0]]
    /\ book = [o \in Orders |-> 0]
    /\ unsettled = [o \in Orders |-> [p \in Prices |-> 0]]
    /\ placing = [o \in Orders |-> "idle"]
    /\ triggering = {}
    /\ triggers = [o \in Orders |-> 0]
    /\ cancelling = [c \in Cancellers |-> NoCancel]
    /\ replaying = [o \in Orders |-> NoReplay]
    /\ restarts = 0
    /\ held = [o \in Orders |-> 0]
    /\ loose = {}

engineVars == <<sent, book, unsettled>>
callerVars == <<placing, triggering, triggers, cancelling, replaying, restarts>>

(***************************************************************************)
(* The balance.  unlockTradingBalance and the settlement's debit fail, and *)
(* with them their transaction, when the locked bucket is too small.       *)
(***************************************************************************)
lockTradingBalance(o, amount) ==
    /\ locked' = locked + amount
    /\ held' = [held EXCEPT ![o] = @ + amount]

\* Mutant: without locked_balance >= $5 in the SELECT and the UPDATE.
unlockTradingBalance_unguarded(S, amount) ==
    /\ locked' = locked - SumOf(amount, S)
    /\ held' = [o \in Orders |-> IF o \in S THEN held[o] - amount[o] ELSE held[o]]

unlockTradingBalance(S, amount) ==
    LET total == SumOf(amount, S) IN
    /\ locked >= total
    /\ locked' = locked - total
    /\ held' = [o \in Orders |-> IF o \in S THEN held[o] - amount[o] ELSE held[o]]

debitLocked(o, amount) ==
    /\ locked >= amount
    /\ locked' = locked - amount
    /\ held' = [held EXCEPT ![o] = @ - amount]

setStatus(S, status) ==
    row' = [o \in Orders |-> IF o \in S THEN [row[o] EXCEPT !.status = status] ELSE row[o]]

(***************************************************************************)
(* The place route.  One transaction locks the funds and inserts the row.  *)
(* A stop order waits for its trigger.  Any other is sent to the engine    *)
(* after the commit.  The caller gets an answer, or an error, or gives up  *)
(* after five seconds; the request may arrive all the same.                *)
(***************************************************************************)
place(o) ==
    /\ row[o].status = "none"
    /\ lockTradingBalance(o, lockAmount(o))
    /\ IF IsStop(o)
       THEN /\ row' = [row EXCEPT ![o] = [status |-> "PENDING_TRIGGER", filled |-> 0, type |-> "stop"]]
            /\ UNCHANGED <<sent, placing>>
       ELSE /\ row' = [row EXCEPT ![o] = [status |-> "OPEN", filled |-> 0, type |-> "book"]]
            /\ sent' = [sent EXCEPT ![o][Quantity[o]] = @ + 1]
            /\ placing' = [placing EXCEPT ![o] = "waiting"]
    /\ UNCHANGED <<kind, book, unsettled, triggering, triggers, cancelling, replaying, restarts, loose>>

placeAnswered(o) ==
    /\ placing[o] = "waiting"
    /\ InFlight(o) = 0
    /\ placing' = [placing EXCEPT ![o] = "idle"]
    /\ UNCHANGED <<kind, row, locked, sent, book, unsettled, triggering, triggers, cancelling,
                   replaying, restarts, held, loose>>

\* placeOrderRust throws: refused, lost, late, or stored and then failed.
placeOrderRustFails(o) ==
    /\ placing[o] = "waiting"
    /\ placing' = [placing EXCEPT ![o] = "rolling_back"]
    /\ UNCHANGED <<kind, row, locked, sent, book, unsettled, triggering, triggers, cancelling,
                   replaying, restarts, held, loose>>

\* The second transaction: the row is cancelled whatever its status and the
\* whole lock is released.  When it fails the route only logs.  Either way the
\* user is told that the balance was not used.
rollBackPlace(o) ==
    /\ placing[o] = "rolling_back"
    /\ placing' = [placing EXCEPT ![o] = "refused"]
    /\ \/ /\ unlockTradingBalance({o}, [x \in {o} |-> lockAmount(x)])
          /\ setStatus({o}, "cancelled")
          /\ loose' = loose \cup {x \in {o} : Alive(x) \/ row[x].filled > 0 \/ ~Live(x)}
       \/ UNCHANGED <<row, locked, held, loose>>
    /\ UNCHANGED <<kind, sent, book, unsettled, triggering, triggers, cancelling, replaying, restarts>>

(***************************************************************************)
(* The engine.  An order with the key of one in the book (price, second,   *)
(* id) takes its place; with another second both stay.  A fill is against  *)
(* other users' orders.                                                    *)
(***************************************************************************)
enginePlace(o) ==
    /\ \E q \in Sizes(o) :
          /\ sent[o][q] > 0
          /\ sent' = [sent EXCEPT ![o][q] = @ - 1]
          /\ \E rest \in {q, book[o] + q} : book' = [book EXCEPT ![o] = rest]
    /\ UNCHANGED <<kind, row, locked, unsettled, held, loose>>
    /\ UNCHANGED callerVars

\* The engine refuses the request, or it is lost on the way.
engineRefuses(o) ==
    /\ \E q \in Sizes(o) :
          /\ sent[o][q] > 0
          /\ sent' = [sent EXCEPT ![o][q] = @ - 1]
    /\ UNCHANGED <<kind, row, locked, book, unsettled, held, loose>>
    /\ UNCHANGED callerVars

engineFill(o) ==
    /\ book[o] > 0
    /\ book' = [book EXCEPT ![o] = @ - 1]
    /\ \E p \in fillPrices(o) : unsettled' = [unsettled EXCEPT ![o][p] = @ + 1]
    /\ UNCHANGED <<kind, row, locked, sent, held, loose>>
    /\ UNCHANGED callerVars

(***************************************************************************)
(* Settlement of one fill: the debit of the locked balance and the row's   *)
(* new filled_quantity and status, which does not look at the old status.  *)
(* A fill whose debit fails stays unsettled.                               *)
(***************************************************************************)
\* Mutant: the status changes and filled_quantity does not.
updateSpotOrdersFilledAfterMatch_status_only(o) ==
    row' = [row EXCEPT ![o].status = IF Quantity[o] - row[o].filled - 1 <= 0
                                     THEN "FILLED" ELSE "PARTIALLY_FILLED"]

updateSpotOrdersFilledAfterMatch(o) ==
    row' = [row EXCEPT ![o].filled = @ + 1,
                       ![o].status = IF Quantity[o] - row[o].filled - 1 <= 0
                                     THEN "FILLED" ELSE "PARTIALLY_FILLED"]

settleMatchEvent(o) ==
    /\ \E p \in fillPrices(o) :
          /\ unsettled[o][p] > 0
          /\ unsettled' = [unsettled EXCEPT ![o][p] = @ - 1]
          /\ debitLocked(o, p)
    /\ updateSpotOrdersFilledAfterMatch(o)
    /\ UNCHANGED <<kind, sent, book, loose>>
    /\ UNCHANGED callerVars

(***************************************************************************)
(* Cancel and cancel-all.  The rows are read without a lock; then the      *)
(* engine is asked to drop each order, which it acknowledges whether or    *)
(* not it has it; then one transaction cancels the rows and unlocks what   *)
(* the rows read had not filled.                                           *)
(***************************************************************************)
readOrders(c, S) ==
    /\ cancelling[c] = NoCancel
    /\ S # {}
    /\ cancelling' = [cancelling EXCEPT ![c] =
          [todo |-> S, done |-> {}, filled |-> [o \in Orders |-> IF o \in S THEN row[o].filled ELSE 0]]]
    /\ UNCHANGED <<kind, row, locked, placing, triggering, triggers, replaying, restarts, held, loose>>
    /\ UNCHANGED engineVars

cancelOrder(c) == \E o \in Orders : Live(o) /\ readOrders(c, {o})

cancelAll(c) == Cardinality({o \in Orders : Live(o)}) > 1 /\ readOrders(c, {o \in Orders : Live(o)})

\* A stop order is stored with match_engine_id 'node' and keeps it when it is
\* triggered, so its cancel does not reach the engine.
cancelOnMatchingEngineIfNeeded(c) ==
    /\ \E o \in cancelling[c].todo :
          /\ book' = IF IsStop(o) THEN book ELSE [book EXCEPT ![o] = 0]
          /\ cancelling' = [cancelling EXCEPT ![c].todo = @ \ {o}, ![c].done = @ \cup {o}]
    /\ UNCHANGED <<kind, row, locked, sent, unsettled, placing, triggering, triggers, replaying,
                   restarts, held, loose>>

\* The call fails, before or after the engine dropped the order.  The order is
\* left out of the transaction.
cancelOnMatchingEngineFails(c) ==
    /\ \E o \in {x \in cancelling[c].todo : ~IsStop(x)} :
          LET rest == [cancelling[c] EXCEPT !.todo = @ \ {o}, !.filled[o] = 0] IN
          /\ book' \in {book, [book EXCEPT ![o] = 0]}
          /\ cancelling' = [cancelling EXCEPT ![c] = rest]
    /\ UNCHANGED <<kind, row, locked, sent, unsettled, placing, triggering, triggers, replaying,
                   restarts, held, loose>>

commitCancel(c) ==
    LET done == cancelling[c].done
        read == cancelling[c].filled IN
    /\ cancelling[c].todo = {} /\ done # {}
    /\ cancelling' = [cancelling EXCEPT ![c] = NoCancel]
    /\ \/ /\ unlockTradingBalance(done, [o \in done |-> unlockAmount(o, read[o])])
          /\ setStatus(done, "cancelled")
          /\ loose' = loose \cup {o \in done : Alive(o) \/ row[o].filled # read[o] \/ ~Live(o)}
       \/ UNCHANGED <<row, locked, held, loose>>
    /\ UNCHANGED <<kind, placing, triggering, triggers, replaying, restarts>>
    /\ UNCHANGED engineVars

(***************************************************************************)
(* The stop-order trigger job: a row that is still PENDING_TRIGGER becomes *)
(* OPEN and is sent to the engine.  When that call fails, a row that is    *)
(* still OPEN waits for its trigger again.                                 *)
(***************************************************************************)
triggerStop(o) ==
    /\ row[o].status = "PENDING_TRIGGER"
    /\ o \notin triggering
    /\ triggers[o] < MaxTriggers
    /\ row' = [row EXCEPT ![o].status = "OPEN", ![o].type = "book"]
    /\ sent' = [sent EXCEPT ![o][Quantity[o] - row[o].filled] = @ + 1]
    /\ triggering' = triggering \cup {o}
    /\ triggers' = [triggers EXCEPT ![o] = @ + 1]
    /\ loose' = loose \cup {x \in {o} : Alive(x)}
    /\ UNCHANGED <<kind, locked, book, unsettled, placing, cancelling, replaying, restarts, held>>

triggerAnswered(o) ==
    /\ o \in triggering
    /\ InFlight(o) = 0
    /\ triggering' = triggering \ {o}
    /\ UNCHANGED <<kind, row, locked, placing, triggers, cancelling, replaying, restarts, held, loose>>
    /\ UNCHANGED engineVars

triggerFails(o) ==
    /\ o \in triggering
    /\ triggering' = triggering \ {o}
    /\ row' = IF row[o].status = "OPEN"
              THEN [row EXCEPT ![o].status = "PENDING_TRIGGER", ![o].type = "stop"]
              ELSE row
    /\ UNCHANGED <<kind, locked, placing, triggers, cancelling, replaying, restarts, held, loose>>
    /\ UNCHANGED engineVars

(***************************************************************************)
(* The API stops between any two steps of its requests, and when it starts *)
(* places every open order with quantity left once more.                   *)
(***************************************************************************)
Replayable ==
    {o \in Orders : /\ row[o].status \in {"OPEN", "PARTIALLY_FILLED"}
                    /\ row[o].type = "book"
                    /\ Quantity[o] - row[o].filled > 0}

\* What is left of the order, computed with floating-point numbers: the two
\* decimals are parsed, subtracted and printed, and the result may be too large
\* or too small by an error, which the model counts as one unit.
floatRemainder(o, error) == Quantity[o] - row[o].filled + error

restart ==
    /\ restarts < MaxRestarts
    /\ restarts' = restarts + 1
    /\ placing' = [o \in Orders |-> IF placing[o] = "refused" THEN "refused" ELSE "idle"]
    /\ triggering' = {}
    /\ cancelling' = [c \in Cancellers |-> NoCancel]
    /\ \E error \in [Replayable -> -1 .. 1] : replaying' = [o \in Orders |->
          IF o \in Replayable /\ floatRemainder(o, error[o]) > 0
          THEN [qty |-> floatRemainder(o, error[o]), tries |-> ReplayTries]
          ELSE NoReplay]
    /\ UNCHANGED <<kind, row, locked, triggers, held, loose>>
    /\ UNCHANGED engineVars

\* Mutant: the whole quantity is placed again, not what remains.
replayOpenOrdersToRustEngine_whole(o) ==
    /\ replaying[o].tries > 0
    /\ sent' = [sent EXCEPT ![o][Quantity[o]] = @ + 1]
    /\ replaying' = [replaying EXCEPT ![o] = NoReplay]
    /\ loose' = loose \cup {x \in {o} : Alive(x) \/ ~Live(x) \/ replaying[x].qty > Quantity[x] - row[x].filled}
    /\ UNCHANGED <<kind, row, locked, book, unsettled, placing, triggering, triggers, cancelling,
                   restarts, held>>

\* One try for one order: it is answered, or fails and is tried again.
replayOpenOrdersToRustEngine(o) ==
    /\ replaying[o].tries > 0
    /\ sent' = [sent EXCEPT ![o][replaying[o].qty] = @ + 1]
    /\ \E rest \in {NoReplay, [replaying[o] EXCEPT !.tries = @ - 1]} :
          replaying' = [replaying EXCEPT ![o] = IF rest.tries = 0 THEN NoReplay ELSE rest]
    /\ loose' = loose \cup {x \in {o} : Alive(x) \/ ~Live(x) \/ replaying[x].qty > Quantity[x] - row[x].filled}
    /\ UNCHANGED <<kind, row, locked, book, unsettled, placing, triggering, triggers, cancelling,
                   restarts, held>>

Next ==
    \/ \E o \in Orders :
          \/ place(o) \/ placeAnswered(o) \/ placeOrderRustFails(o) \/ rollBackPlace(o)
          \/ enginePlace(o) \/ engineRefuses(o) \/ engineFill(o) \/ settleMatchEvent(o)
          \/ triggerStop(o) \/ triggerAnswered(o) \/ triggerFails(o)
          \/ replayOpenOrdersToRustEngine(o)
    \/ \E c \in Cancellers :
          \/ cancelOrder(c) \/ cancelAll(c)
          \/ cancelOnMatchingEngineIfNeeded(c) \/ cancelOnMatchingEngineFails(c) \/ commitCancel(c)
    \/ restart

Spec == Init /\ [][Next]_vars

-----------------------------------------------------------------------------

\* Every variable has its type.
TypeOK ==
    /\ kind \in Portfolios
    /\ row \in [Orders -> [status : LiveStatuses \cup {"none", "FILLED", "cancelled"},
                           filled : Nat, type : {"none", "stop", "book"}]]
    /\ locked \in Nat
    /\ DOMAIN sent = Orders /\ \A o \in Orders : sent[o] \in [Sizes(o) -> Nat]
    /\ book \in [Orders -> Nat]
    /\ unsettled \in [Orders -> [Prices -> Nat]]
    /\ placing \in [Orders -> {"idle", "waiting", "rolling_back", "refused"}]
    /\ triggering \subseteq Orders
    /\ held \in [Orders -> Int]
    /\ loose \subseteq Orders

\* What the book, the requests under way and the fills not yet settled may
\* still take of the order's lock, at the worst price its limit allows.
Exposure(o) ==
    (IF IsSell(o) THEN 1 ELSE Price) * (book[o] + InFlight(o) + Unsettled(o))

\* Every unit of an order with a limit that can still trade, and every fill of
\* it still to be settled, is paid for by that order's own lock, unless the
\* order's row was cancelled or the order was sent again while the engine still
\* had it, or replayed with more than it had left.
FirmOrdersAreBacked ==
    \A o \in Orders \ loose : IsMarketBuy(o) \/ held[o] >= Exposure(o)

\* An order is never filled beyond its quantity, counting what is settled, made,
\* in the book and under way, however placing, triggering, restarting and
\* replaying interleave, as long as it was never released or sent again while
\* the engine had it, nor replayed with a remainder that a fill overtook or the
\* floating-point subtraction rounded up.
FirmOrdersNeverOverfill ==
    \A o \in Orders \ loose :
        row[o].filled + Unsettled(o) + book[o] + InFlight(o) <= Quantity[o]

\* The comparison of runBalanceConsistencyCheck, which suspends a user's trading
\* when it fails: the unfilled quantity of the open sell orders is locked.
OpenSellsAreLocked ==
    loose = {} =>
        LET open == {o \in Orders : IsSell(o) /\ Live(o)} IN
        SumOf([o \in open |-> Quantity[o] - row[o].filled], open) <= locked

\* A row that is cancelled or filled stays so: no fill is settled, and no cancel
\* or rollback committed, on an order that ended, unless that makes it loose.
EndedFirmOrderIsFinal ==
    [][\A o \in Orders \ loose' : row[o].status \in {"cancelled", "FILLED"} =>
          row'[o].status = row[o].status]_vars

\* No lock is left behind: once a sell order is cancelled or filled nothing of
\* the balance stays locked for it.
FinishedSellsHoldNothing ==
    \A o \in Orders \ loose :
        IsSell(o) /\ row[o].status \in {"cancelled", "FILLED"} => held[o] = 0

-----------------------------------------------------------------------------
(***************************************************************************)
(* The inductive invariant behind these properties.                        *)
(***************************************************************************)

\* Nobody works on an order before it is placed.
Idle(o) ==
    /\ placing[o] = "idle"
    /\ replaying[o].tries = 0
    /\ \A c \in Cancellers : o \notin cancelling[c].todo \cup cancelling[c].done

\* The state of the callers, which TypeOK leaves open.  A cancel works on rows
\* that were live when it read them, and so had quantity left.
CallersOK ==
    /\ cancelling \in [Cancellers -> [todo : SUBSET Orders, done : SUBSET Orders,
                                      filled : [Orders -> Nat]]]
    /\ \A c \in Cancellers : \A o \in cancelling[c].todo \cup cancelling[c].done :
          cancelling[c].filled[o] < Quantity[o]
    /\ replaying \in [Orders -> [qty : Nat, tries : Nat]]
    /\ \A o \in Orders : replaying[o].tries > 0 => replaying[o].qty \in Sizes(o)
    /\ \A o \in Orders : row[o].status = "none" => Idle(o)

\* A row's status says how much of it is filled, for loose orders too.
RowOK(o) ==
    /\ row[o].status = "none" => ~Alive(o) /\ held[o] = 0
    /\ row[o].status \in {"none", "OPEN", "PENDING_TRIGGER"} => row[o].filled = 0
    /\ row[o].status = "PARTIALLY_FILLED" => row[o].filled < Quantity[o]
    /\ row[o].status = "FILLED" => row[o].filled >= Quantity[o]

\* What is held for an order with a limit is what its row has left, at its
\* limit; nothing once a sell is cancelled.
LockOK(o) ==
    /\ row[o].status = "cancelled" => held[o] >= 0 /\ (IsSell(o) => held[o] = 0)
    /\ row[o].status \in LiveStatuses \cup {"FILLED"} =>
          IF IsSell(o) THEN held[o] = Quantity[o] - row[o].filled
          ELSE held[o] >= Price * (Quantity[o] - row[o].filled)

\* A firm order never has more than its quantity, and is gone from the engine
\* when it is cancelled.
FirmOK(o) ==
    /\ row[o].filled + Unsettled(o) + book[o] + InFlight(o) <= Quantity[o]
    /\ row[o].status = "cancelled" => ~Alive(o)
    /\ IsMarketBuy(o) \/ LockOK(o)

\* While no order is loose the balance of sells is locked for orders only.
LockedOK ==
    loose = {} /\ (\A o \in Orders : IsSell(o)) => locked = SumOf(held, Orders)

SpotInv ==
    /\ TypeOK
    /\ CallersOK
    /\ \A o \in Orders : RowOK(o)
    /\ \A o \in Orders \ loose : FirmOK(o)
    /\ LockedOK

=============================================================================
