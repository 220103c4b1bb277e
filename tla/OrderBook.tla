------------------------------ MODULE OrderBook ------------------------------
(***************************************************************************)
(* The order book of one market in the Rust matching engine: price-time    *)
(* priority matching of an incoming order, cancellation, and the match     *)
(* events they emit.                                                       *)
(*                                                                         *)
(* Placing an order holds the market's mutex for insert and match_orders.  *)
(* The loop of match_orders is one step per match here, and `incoming' is  *)
(* the order whose placement holds the mutex: it is out of the book until  *)
(* its remainder is inserted again.  created_at is set by the API node     *)
(* that took the request, in seconds, so orders may reach the engine in    *)
(* any order of created_at, and uuids break ties.  A price of None is a    *)
(* market order's; limit prices are positive, so None is 0 here and the    *)
(* zero that match_orders falls back to is the same value.                 *)
(***************************************************************************)
EXTENDS Naturals

CONSTANTS
  Orders,              \* order ids, naturals: the order of the uuids matters
  Users,
  NoOrder, NoMatch,
  MaxPrice, MaxQuantity, MaxTime   \* bounds on price, quantity and created_at

None == 0
Prices == 0 .. MaxPrice
Quantities == 1 .. MaxQuantity
OrderRecords ==
  [user: Users, side: {"BUY", "SELL"}, price: Prices, quantity: Quantities,
   created_at: 0 .. MaxTime]
Matches == [taker: Orders, maker: Orders, price: Prices, quantity: Quantities]

ASSUME OrderBookConstants ==
  /\ Orders \subseteq Nat
  /\ NoOrder \notin Orders /\ NoOrder \notin OrderRecords
  /\ NoMatch \notin Matches
  /\ MaxPrice \in Nat /\ MaxQuantity \in Nat /\ MaxTime \in Nat

VARIABLES
  order,       \* the order behind each id, NoOrder before it is placed
  remaining,   \* Order.remaining; the book holds the orders with some left
  incoming,    \* the order being matched, or NoOrder when the mutex is free
  filled,      \* quantity of each order in the match events so far
  cancelled,   \* quantity of each order that cancellation took off the book
  lastMatch    \* the last match event

vars == <<order, remaining, incoming, filled, cancelled, lastMatch>>

Resting(o) == remaining[o] > 0 /\ o # incoming

-----------------------------------------------------------------------------
(* Priority. *)

Older(a, b) ==
  \/ order[a].created_at < order[b].created_at
  \/ order[a].created_at = order[b].created_at /\ a < b

BidKey_cmp_lowest_first(a, b) ==
  LET p == order[a].price
      q == order[b].price
  IN  \/ p # None /\ (q = None \/ p < q)
      \/ p = q /\ Older(a, b)

BidKey_cmp(a, b) ==
  LET p == order[a].price
      q == order[b].price
  IN  \/ p # None /\ (q = None \/ p > q)
      \/ p = q /\ Older(a, b)

AskKey_cmp(a, b) ==
  LET p == order[a].price
      q == order[b].price
  IN  \/ p # None /\ (q = None \/ p < q)
      \/ p = q /\ Older(a, b)

Before(a, b) ==
  IF order[a].side = "BUY" THEN BidKey_cmp(a, b) ELSE AskKey_cmp(a, b)

price_buy_crosses(buy, ask) ==
  \/ order[buy].price = None
  \/ order[ask].price = None
  \/ order[buy].price >= order[ask].price

price_sell_crosses(sell, bid) ==
  \/ order[sell].price = None
  \/ order[bid].price = None
  \/ order[sell].price <= order[bid].price

Crosses(taker, maker) ==
  IF order[taker].side = "BUY"
  THEN price_buy_crosses(taker, maker)
  ELSE price_sell_crosses(taker, maker)

Candidates_own_orders_too ==
  {o \in Orders : /\ Resting(o)
                  /\ order[o].side # order[incoming].side
                  /\ Crosses(incoming, o)}

(* The resting orders that the incoming order could match. *)
Candidates ==
  {o \in Orders : /\ Resting(o)
                  /\ order[o].side # order[incoming].side
                  /\ order[o].user # order[incoming].user
                  /\ Crosses(incoming, o)}

exec_price(taker, maker) ==
  IF order[maker].price # None THEN order[maker].price ELSE order[taker].price

Smaller(m, n) == IF m <= n THEN m ELSE n

-----------------------------------------------------------------------------
Init ==
  /\ order = [o \in Orders |-> NoOrder]
  /\ remaining = [o \in Orders |-> 0]
  /\ incoming = NoOrder
  /\ filled = [o \in Orders |-> 0]
  /\ cancelled = [o \in Orders |-> 0]
  /\ lastMatch = NoMatch

(* Lock the market, insert the order and take it out again to match it. *)
place_order(o) ==
  /\ incoming = NoOrder
  /\ order[o] = NoOrder
  /\ \E r \in OrderRecords :
       /\ order' = [order EXCEPT ![o] = r]
       /\ remaining' = [remaining EXCEPT ![o] = r.quantity]
  /\ incoming' = o
  /\ UNCHANGED <<filled, cancelled, lastMatch>>

match_one_stale_maker(m) ==
  /\ incoming # NoOrder
  /\ remaining[incoming] > 0
  /\ m \in Candidates
  /\ \A l \in Candidates \ {m} : Before(m, l)
  /\ LET matched == Smaller(remaining[incoming], remaining[m])
     IN  /\ remaining' = [o \in Orders |->
              IF o = incoming \/ (o = m /\ matched = remaining[m])
              THEN remaining[o] - matched ELSE remaining[o]]
         /\ filled' = [o \in Orders |->
              IF o \in {incoming, m} THEN filled[o] + matched ELSE filled[o]]
         /\ lastMatch' = [taker |-> incoming, maker |-> m,
                          price |-> exec_price(incoming, m), quantity |-> matched]
  /\ UNCHANGED <<order, incoming, cancelled>>

(* One turn of the loop: the first candidate in the priority of its side.  *)
match_one(m) ==
  /\ incoming # NoOrder
  /\ remaining[incoming] > 0
  /\ m \in Candidates
  /\ \A l \in Candidates \ {m} : Before(m, l)
  /\ LET matched == Smaller(remaining[incoming], remaining[m])
     IN  /\ remaining' = [o \in Orders |->
              IF o \in {incoming, m} THEN remaining[o] - matched ELSE remaining[o]]
         /\ filled' = [o \in Orders |->
              IF o \in {incoming, m} THEN filled[o] + matched ELSE filled[o]]
         /\ lastMatch' = [taker |-> incoming, maker |-> m,
                          price |-> exec_price(incoming, m), quantity |-> matched]
  /\ UNCHANGED <<order, incoming, cancelled>>

match_done_after_one ==
  /\ incoming # NoOrder
  /\ \/ remaining[incoming] = 0 \/ Candidates = {}
     \/ lastMatch # NoMatch /\ lastMatch.taker = incoming
  /\ incoming' = NoOrder
  /\ UNCHANGED <<order, remaining, filled, cancelled, lastMatch>>

(* The loop is over: a remainder goes into the book, the mutex is released. *)
match_done ==
  /\ incoming # NoOrder
  /\ remaining[incoming] = 0 \/ Candidates = {}
  /\ incoming' = NoOrder
  /\ UNCHANGED <<order, remaining, filled, cancelled, lastMatch>>

cancel_order(o) ==
  /\ incoming = NoOrder
  /\ remaining[o] > 0
  /\ remaining' = [remaining EXCEPT ![o] = 0]
  /\ cancelled' = [cancelled EXCEPT ![o] = @ + remaining[o]]
  /\ UNCHANGED <<order, incoming, filled, lastMatch>>

Next ==
  \/ \E o \in Orders : place_order(o) \/ match_one(o) \/ cancel_order(o)
  \/ match_done

Spec == Init /\ [][Next]_vars

-----------------------------------------------------------------------------
(* Properties. *)

(* Every variable has its type, and only placed orders have a quantity. *)
TypeOK ==
  /\ order \in [Orders -> OrderRecords \union {NoOrder}]
  /\ remaining \in [Orders -> 0 .. MaxQuantity]
  /\ incoming \in Orders \union {NoOrder}
  /\ filled \in [Orders -> Nat]
  /\ cancelled \in [Orders -> Nat]
  /\ lastMatch \in Matches \union {NoMatch}
  /\ \A o \in Orders : remaining[o] > 0 \/ o = incoming => order[o] # NoOrder

(* The book is never left crossed: no resting buy and resting sell of two  *)
(* different users could trade with each other, market remainders, which   *)
(* match_orders inserts too, included.                                     *)
Uncrossed ==
  \A b, s \in Orders :
    Resting(b) /\ Resting(s) /\ order[b].side = "BUY" /\ order[s].side = "SELL"
      /\ order[b].user # order[s].user
    => ~ price_buy_crosses(b, s)

(* Every unit of a placed order is still open, or in a match event, or was *)
(* cancelled, and in one of them only: no fill is lost or made twice by    *)
(* removing and re-inserting the partially filled orders.                  *)
FillsAccounted ==
  \A o \in Orders :
    filled[o] + remaining[o] + cancelled[o]
      = IF order[o] = NoOrder THEN 0 ELSE order[o].quantity

(* A match is between a buy and a sell of two users, and its price is no   *)
(* worse for either than the limit that user gave.                         *)
FairTrade ==
  lastMatch # NoMatch =>
    LET t == order[lastMatch.taker]
        m == order[lastMatch.maker]
        Accepts(r) == r.price = None \/ IF r.side = "BUY"
                                        THEN lastMatch.price <= r.price
                                        ELSE lastMatch.price >= r.price
    IN  /\ t # NoOrder /\ m # NoOrder
        /\ t.side # m.side /\ t.user # m.user
        /\ Accepts(t) /\ Accepts(m)

(* While an incoming order is being matched, whatever it can still match   *)
(* comes behind its last match in the keys of the other side.              *)
WalkOrder ==
  incoming # NoOrder /\ lastMatch # NoMatch =>
    (lastMatch.taker = incoming /\ remaining[incoming] > 0 =>
       /\ lastMatch.price = exec_price(incoming, lastMatch.maker)
       /\ lastMatch.maker \in Orders
       /\ order[lastMatch.maker] # NoOrder
       /\ order[lastMatch.maker].side # order[incoming].side
       /\ \A c \in Candidates : Before(lastMatch.maker, c))

(* n comes after m for the taker of both: n's price is no better for the   *)
(* taker, and of two makers at one price the earlier one is m's.           *)
InPriority(m, n) ==
  /\ n.price # 0 => IF order[m.taker].side = "BUY"
                    THEN m.price <= n.price
                    ELSE m.price >= n.price
  /\ order[m.maker].price = order[n.maker].price =>
       order[m.maker].created_at <= order[n.maker].created_at

(* Price-time priority: the prices an incoming order gets from one match   *)
(* to the next only get worse for it, and at one price earlier makers are  *)
(* filled first, whatever was placed, matched in part or cancelled before. *)
TakerWalksBook ==
  [][lastMatch' # lastMatch /\ lastMatch # NoMatch
       /\ lastMatch'.taker = lastMatch.taker
     => InPriority(lastMatch, lastMatch')]_vars

(* The inductive invariant. *)
BookInv == TypeOK /\ Uncrossed /\ FillsAccounted /\ FairTrade /\ WalkOrder
=============================================================================
