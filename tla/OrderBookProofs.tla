--------------------------- MODULE OrderBookProofs ---------------------------
(***************************************************************************)
(* Proofs about OrderBook for any set of orders and users and any bounds.  *)
(* BookInv is inductive: Uncrossed needs that a placement only ends when   *)
(* the incoming order has no candidate left, FairTrade that the orders of  *)
(* a match were placed, WalkOrder that a maker which is not exhausted      *)
(* exhausts the taker.                                                     *)
(***************************************************************************)
EXTENDS OrderBook, TLAPS

(* The first state satisfies the invariant: no order is placed. *)
LEMMA InitInv == Init => BookInv
BY SMTT(60), Z3T(60), OrderBookConstants
   DEF Init, BookInv, TypeOK, Uncrossed, Resting, FillsAccounted, FairTrade, WalkOrder

(* What a match changes: the matched quantity is positive and no more than *)
(* either order has left, and it exhausts one of the two.                  *)
LEMMA MatchFacts ==
  ASSUME TypeOK, NEW m \in Orders, match_one(m)
  PROVE  LET q == lastMatch'.quantity
         IN  /\ incoming \in Orders /\ m # incoming
             /\ order[incoming] \in OrderRecords /\ order[m] \in OrderRecords
             /\ q \in Quantities /\ q <= remaining[incoming] /\ q <= remaining[m]
             /\ q = remaining[incoming] \/ q = remaining[m]
             /\ remaining' = [o \in Orders |-> IF o \in {incoming, m} THEN remaining[o] - q ELSE remaining[o]]
             /\ filled' = [o \in Orders |-> IF o \in {incoming, m} THEN filled[o] + q ELSE filled[o]]
             /\ lastMatch' = [taker |-> incoming, maker |-> m,
                              price |-> exec_price(incoming, m), quantity |-> q]
<1>1. incoming \in Orders /\ m \in Candidates /\ remaining[incoming] > 0
  BY ZenonT(60) DEF match_one, TypeOK
<1>2. m # incoming /\ remaining[m] > 0 /\ order[m].side # order[incoming].side
  BY ZenonT(60), <1>1 DEF Candidates, Resting
<1>3. order[incoming] \in OrderRecords /\ order[m] \in OrderRecords
  BY ZenonT(60), <1>1, <1>2 DEF TypeOK
<1>4. remaining[incoming] \in 1 .. MaxQuantity /\ remaining[m] \in 1 .. MaxQuantity
  BY SMTT(60), Z3T(60), <1>1, <1>2, OrderBookConstants DEF TypeOK
<1>5. lastMatch'.quantity = Smaller(remaining[incoming], remaining[m])
  BY ZenonT(60) DEF match_one
<1>6. QED
  BY SMTT(60), Z3T(60), <1>1, <1>2, <1>3, <1>4, <1>5, OrderBookConstants DEF match_one, Smaller, Quantities

(* Types are preserved by every step. *)
LEMMA NextType == ASSUME BookInv, [Next]_vars PROVE TypeOK'
<1> USE OrderBookConstants DEF BookInv
<1>1. ASSUME NEW o \in Orders, place_order(o) PROVE TypeOK'
  BY SMTT(60), Z3T(60), <1>1 DEF place_order, TypeOK, OrderRecords, Quantities
<1>2. ASSUME NEW m \in Orders, match_one(m) PROVE TypeOK'
  <2> DEFINE q == lastMatch'.quantity
  <2>1. exec_price(incoming, m) \in Prices
    BY ZenonT(60), <1>2, MatchFacts DEF exec_price, OrderRecords
  <2>2. lastMatch' \in Matches
    BY SMTT(60), Z3T(60), <1>2, <2>1, MatchFacts DEF Matches
  <2>a. /\ q \in Nat /\ q <= remaining[incoming] /\ q <= remaining[m]
        /\ remaining' = [o \in Orders |-> IF o \in {incoming, m} THEN remaining[o] - q ELSE remaining[o]]
        /\ filled' = [o \in Orders |-> IF o \in {incoming, m} THEN filled[o] + q ELSE filled[o]]
    BY SMTT(60), Z3T(60), <1>2, MatchFacts DEF Quantities
  <2>b. remaining \in [Orders -> 0 .. MaxQuantity] /\ filled \in [Orders -> Nat]
    BY ZenonT(60) DEF TypeOK
  <2> HIDE DEF BookInv, q
  <2>3. remaining' \in [Orders -> 0 .. MaxQuantity]
    BY SMTT(60), Z3T(60), <2>a, <2>b
  <2>4. filled' \in [Orders -> Nat]
    BY SMTT(60), Z3T(60), <2>a, <2>b
  <2>5. \A o \in Orders : remaining'[o] > 0 => remaining[o] > 0
    BY SMTT(60), Z3T(60), <2>a, <2>b
  <2> USE DEF BookInv
  <2>6. QED
    BY ZenonT(60), <1>2, <2>2, <2>3, <2>4, <2>5 DEF TypeOK, match_one
<1>3. CASE match_done
  BY ZenonT(60), <1>3 DEF match_done, TypeOK
<1>4. ASSUME NEW o \in Orders, cancel_order(o) PROVE TypeOK'
  BY SMTT(60), Z3T(60), <1>4 DEF cancel_order, TypeOK
<1>5. CASE UNCHANGED vars
  BY ZenonT(60), <1>5 DEF vars, TypeOK
<1>6. QED
  BY ZenonT(60), <1>1, <1>2, <1>3, <1>4, <1>5 DEF Next

(* The book stays uncrossed. *)
LEMMA NextUncrossed == ASSUME BookInv, [Next]_vars PROVE Uncrossed'
<1> USE OrderBookConstants DEF BookInv
<1>1. ASSUME NEW o \in Orders, place_order(o) PROVE Uncrossed'
  <2>1. \A p \in Orders : Resting(p)' => Resting(p) /\ p # o
    BY ZenonT(60), <1>1 DEF place_order, Resting, TypeOK
  <2>2. \A p \in Orders \ {o} : order'[p] = order[p]
    BY ZenonT(60), <1>1 DEF place_order, TypeOK
  <2>3. QED
    BY ZenonT(60), <2>1, <2>2 DEF Uncrossed, price_buy_crosses
<1>2. ASSUME NEW m \in Orders, match_one(m) PROVE Uncrossed'
  <2>1. \A p \in Orders : Resting(p)' => Resting(p)
    BY SMTT(60), Z3T(60), <1>2, MatchFacts DEF Resting, TypeOK, Quantities, match_one
  <2>2. QED
    BY ZenonT(60), <1>2, <2>1 DEF Uncrossed, price_buy_crosses, match_one
<1>3. CASE match_done
  <2>1. incoming \in Orders /\ order' = order /\ remaining' = remaining
    BY ZenonT(60), <1>3 DEF match_done, TypeOK
  <2>2. \A p \in Orders : Resting(p)' => Resting(p) \/ p = incoming
    BY ZenonT(60), <1>3 DEF match_done, Resting
  <2>3. SUFFICES ASSUME NEW b \in Orders, NEW s \in Orders,
                        Resting(b)', Resting(s)',
                        order[b].side = "BUY", order[s].side = "SELL",
                        order[b].user # order[s].user
                 PROVE  ~ price_buy_crosses(b, s)
    BY ZenonT(60), <2>1 DEF Uncrossed, price_buy_crosses
  <2>4. order[b] \in OrderRecords /\ order[s] \in OrderRecords
    BY ZenonT(60), <2>1, <2>3 DEF TypeOK, Resting
  <2>5. order[b].price \in Nat /\ order[s].price \in Nat
    BY SMTT(60), Z3T(60), <2>4 DEF OrderRecords, Prices
  <2>6. CASE Resting(b) /\ Resting(s)
    BY ZenonT(60), <2>3, <2>6 DEF Uncrossed
  <2>7. CASE b = incoming
    <3>1. s # incoming /\ Resting(s)
      BY ZenonT(60), <2>2, <2>3, <2>7
    <3>2. remaining[incoming] # 0
      BY SMTT(60), Z3T(60), <2>1, <2>3, <2>7 DEF Resting, TypeOK
    <3>3. Candidates = {}
      BY ZenonT(60), <1>3, <3>2 DEF match_done
    <3>4. ~ Crosses(incoming, s)
      BY ZenonT(60), <2>3, <2>7, <3>1, <3>3 DEF Candidates
    <3>5. QED
      BY ZenonT(60), <2>3, <2>7, <3>4 DEF Crosses
  <2>8. CASE s = incoming
    <3>1. b # incoming /\ Resting(b)
      BY ZenonT(60), <2>2, <2>3, <2>8
    <3>2. remaining[incoming] # 0
      BY SMTT(60), Z3T(60), <2>1, <2>3, <2>8 DEF Resting, TypeOK
    <3>3. Candidates = {}
      BY ZenonT(60), <1>3, <3>2 DEF match_done
    <3>4. ~ Crosses(incoming, b)
      BY ZenonT(60), <2>3, <2>8, <3>1, <3>3 DEF Candidates
    <3>5. ~ price_sell_crosses(s, b)
      BY ZenonT(60), <2>3, <2>8, <3>4 DEF Crosses
    <3>6. QED
      BY ZenonT(60), <2>5, <3>5 DEF price_sell_crosses, price_buy_crosses
  <2>9. QED
    BY ZenonT(60), <2>2, <2>3, <2>6, <2>7, <2>8
<1>4. ASSUME NEW o \in Orders, cancel_order(o) PROVE Uncrossed'
  <2>1. \A p \in Orders : Resting(p)' => Resting(p)
    BY ZenonT(60), <1>4 DEF Resting, TypeOK, cancel_order
  <2>2. QED
    BY ZenonT(60), <1>4, <2>1 DEF Uncrossed, price_buy_crosses, cancel_order
<1>5. CASE UNCHANGED vars
  BY ZenonT(60), <1>5 DEF vars, Uncrossed, Resting, price_buy_crosses
<1>6. QED
  BY ZenonT(60), <1>1, <1>2, <1>3, <1>4, <1>5 DEF Next

(* Every unit stays accounted for. *)
LEMMA NextFills == ASSUME BookInv, [Next]_vars PROVE FillsAccounted'
<1> USE OrderBookConstants DEF BookInv
<1>1. ASSUME NEW o \in Orders, place_order(o) PROVE FillsAccounted'
  <2>1. PICK r \in OrderRecords : /\ order' = [order EXCEPT ![o] = r]
                                  /\ remaining' = [remaining EXCEPT ![o] = r.quantity]
    BY ZenonT(60), <1>1 DEF place_order
  <2>a. r # NoOrder /\ order[o] = NoOrder
    BY ZenonT(60), <1>1 DEF place_order
  <2>b. r.quantity \in Nat
    BY SMTT(60), Z3T(60) DEF OrderRecords, Quantities
  <2>2. filled[o] = 0 /\ cancelled[o] = 0
    BY SMTT(60), Z3T(60), <2>a DEF TypeOK, FillsAccounted
  <2>3. filled' = filled /\ cancelled' = cancelled
    BY ZenonT(60), <1>1 DEF place_order
  <2>4. QED
    <3> SUFFICES ASSUME NEW p \in Orders
                 PROVE  filled'[p] + remaining'[p] + cancelled'[p]
                          = IF order'[p] = NoOrder THEN 0 ELSE order'[p].quantity
      BY ZenonT(60) DEF FillsAccounted
    <3>1. /\ order'[p] = (IF p = o THEN r ELSE order[p])
          /\ remaining'[p] = (IF p = o THEN r.quantity ELSE remaining[p])
      BY ZenonT(60), <2>1 DEF TypeOK
    <3>2. CASE p = o
      BY SMTT(60), Z3T(60), <2>a, <2>b, <2>2, <2>3, <3>1, <3>2
    <3>3. CASE p # o
      BY ZenonT(60), <2>3, <3>1, <3>3 DEF FillsAccounted
    <3> QED  BY ZenonT(60), <3>2, <3>3
<1>2. ASSUME NEW m \in Orders, match_one(m) PROVE FillsAccounted'
  <2>1. PICK q \in Nat :
          /\ q <= remaining[incoming] /\ q <= remaining[m]
          /\ remaining' = [o \in Orders |-> IF o \in {incoming, m} THEN remaining[o] - q ELSE remaining[o]]
          /\ filled' = [o \in Orders |-> IF o \in {incoming, m} THEN filled[o] + q ELSE filled[o]]
    <3>1. lastMatch'.quantity \in Nat
      BY SMTT(60), Z3T(60), <1>2, MatchFacts DEF Quantities
    <3> QED
      BY ZenonT(60), <1>2, <3>1, MatchFacts
  <2>2. order' = order /\ cancelled' = cancelled
    BY ZenonT(60), <1>2 DEF match_one
  <2> SUFFICES ASSUME NEW p \in Orders
               PROVE  filled'[p] + remaining'[p] + cancelled'[p]
                        = IF order'[p] = NoOrder THEN 0 ELSE order'[p].quantity
    BY ZenonT(60) DEF FillsAccounted
  <2>3. remaining[p] \in Nat /\ filled[p] \in Nat /\ cancelled[p] \in Nat
    BY SMTT(60), Z3T(60) DEF TypeOK
  <2>4. filled[p] + remaining[p] + cancelled[p]
          = IF order[p] = NoOrder THEN 0 ELSE order[p].quantity
    BY ZenonT(60) DEF FillsAccounted
  <2>5. filled'[p] + remaining'[p] + cancelled'[p] = filled[p] + remaining[p] + cancelled[p]
    <3>1. CASE p \in {incoming, m}
      <4>1. filled'[p] = filled[p] + q /\ remaining'[p] = remaining[p] - q /\ q <= remaining[p]
        BY ZenonT(60), <2>1, <3>1
      <4> QED
        BY SMTT(60), Z3T(60), <2>2, <2>3, <4>1
    <3>2. CASE p \notin {incoming, m}
      BY ZenonT(60), <2>1, <2>2, <3>2
    <3> QED
      BY ZenonT(60), <3>1, <3>2
  <2> QED
    BY ZenonT(60), <2>2, <2>4, <2>5
<1>3. CASE match_done
  BY ZenonT(60), <1>3 DEF match_done, FillsAccounted
<1>4. ASSUME NEW o \in Orders, cancel_order(o) PROVE FillsAccounted'
  BY SMTT(60), Z3T(60), <1>4 DEF cancel_order, FillsAccounted, TypeOK
<1>5. CASE UNCHANGED vars
  BY ZenonT(60), <1>5 DEF vars, FillsAccounted
<1>6. QED
  BY ZenonT(60), <1>1, <1>2, <1>3, <1>4, <1>5 DEF Next

(* The last match stays fair. *)
LEMMA NextFair == ASSUME BookInv, [Next]_vars PROVE FairTrade'
<1> USE OrderBookConstants DEF BookInv
<1>1. ASSUME NEW o \in Orders, place_order(o) PROVE FairTrade'
  <2>1. lastMatch' = lastMatch
    BY ZenonT(60), <1>1 DEF place_order
  <2>2. CASE lastMatch # NoMatch
    <3>1. lastMatch.taker \in Orders /\ lastMatch.maker \in Orders
      BY ZenonT(60), <2>2 DEF TypeOK, Matches
    <3>2. lastMatch.taker # o /\ lastMatch.maker # o
      BY ZenonT(60), <1>1, <2>2 DEF FairTrade, place_order
    <3>3. order'[lastMatch.taker] = order[lastMatch.taker]
            /\ order'[lastMatch.maker] = order[lastMatch.maker]
      BY ZenonT(60), <1>1, <3>1, <3>2 DEF place_order, TypeOK
    <3>4. QED
      BY ZenonT(60), <2>1, <2>2, <3>3 DEF FairTrade
  <2>3. QED
    BY ZenonT(60), <2>1, <2>2 DEF FairTrade
<1>2. ASSUME NEW m \in Orders, match_one(m) PROVE FairTrade'
  <2> DEFINE t == order[incoming]
             r == order[m]
             p == exec_price(incoming, m)
  <2>1. t \in OrderRecords /\ r \in OrderRecords /\ t # NoOrder /\ r # NoOrder
    BY ZenonT(60), <1>2, MatchFacts
  <2>2. t.side # r.side /\ t.user # r.user /\ Crosses(incoming, m)
    BY ZenonT(60), <1>2 DEF match_one, Candidates
  <2>3. lastMatch'.taker = incoming /\ lastMatch'.maker = m /\ lastMatch'.price = p /\ order' = order
    BY ZenonT(60), <1>2, MatchFacts DEF match_one
  <2>4. t.price \in Nat /\ r.price \in Nat /\ t.side \in {"BUY", "SELL"} /\ r.side \in {"BUY", "SELL"}
    BY SMTT(60), Z3T(60), <2>1 DEF OrderRecords, Prices
  <2>5. t.price = None \/ IF t.side = "BUY" THEN p <= t.price ELSE p >= t.price
    BY SMTT(60), Z3T(60), <2>2, <2>4 DEF exec_price, Crosses, price_buy_crosses, price_sell_crosses, None
  <2>6. r.price = None \/ IF r.side = "BUY" THEN p <= r.price ELSE p >= r.price
    BY SMTT(60), Z3T(60), <2>4 DEF exec_price
  <2>7. QED
    BY ZenonT(60), <2>1, <2>2, <2>3, <2>5, <2>6 DEF FairTrade
<1>3. CASE match_done
  BY ZenonT(60), <1>3 DEF match_done, FairTrade
<1>4. ASSUME NEW o \in Orders, cancel_order(o) PROVE FairTrade'
  BY ZenonT(60), <1>4 DEF cancel_order, FairTrade
<1>5. CASE UNCHANGED vars
  BY ZenonT(60), <1>5 DEF vars, FairTrade
<1>6. QED
  BY ZenonT(60), <1>1, <1>2, <1>3, <1>4, <1>5 DEF Next

(* What can still be matched stays behind the last match. *)
LEMMA NextWalk == ASSUME BookInv, [Next]_vars PROVE WalkOrder'
<1> USE OrderBookConstants DEF BookInv
<1>1. ASSUME NEW o \in Orders, place_order(o) PROVE WalkOrder'
  <2>1. lastMatch' = lastMatch /\ incoming' = o /\ order[o] = NoOrder
    BY ZenonT(60), <1>1 DEF place_order
  <2>2. lastMatch # NoMatch => lastMatch.taker # o
    BY ZenonT(60), <2>1 DEF FairTrade
  <2>3. QED
    BY ZenonT(60), <2>1, <2>2 DEF WalkOrder
<1>2. ASSUME NEW m \in Orders, match_one(m) PROVE WalkOrder'
  <2>1. /\ order' = order /\ incoming' = incoming /\ incoming \in Orders
        /\ lastMatch'.taker = incoming /\ lastMatch'.maker = m
        /\ lastMatch'.price = exec_price(incoming, m)
        /\ order[m] # NoOrder /\ order[m].side # order[incoming].side
    BY ZenonT(60), <1>2, MatchFacts DEF match_one, Candidates
  <2>2. ASSUME remaining'[incoming] > 0, NEW c \in Candidates'
        PROVE  Before(m, c)
    <3>1. remaining'[m] = 0
      BY SMTT(60), Z3T(60), <1>2, <2>2, MatchFacts DEF TypeOK, Quantities
    <3>2. c \in Orders /\ c # m
      BY SMTT(60), Z3T(60), <2>2, <3>1 DEF Candidates, Resting
    <3>3. Resting(c)' => Resting(c)
      BY SMTT(60), Z3T(60), <1>2, <2>1, <3>2, MatchFacts DEF Resting, TypeOK, Quantities
    <3>4. c \in Candidates
      BY ZenonT(60), <2>1, <2>2, <3>2, <3>3 DEF Candidates, Crosses, price_buy_crosses, price_sell_crosses
    <3>5. QED
      BY ZenonT(60), <1>2, <3>2, <3>4 DEF match_one
  <2>3. exec_price(incoming, m)' = exec_price(incoming, m)
        /\ \A c : Before(m, c)' = Before(m, c)
    BY ZenonT(60), <2>1 DEF exec_price, Before, BidKey_cmp, AskKey_cmp, Older
  <2>4. QED
    BY ZenonT(60), <2>1, <2>2, <2>3 DEF WalkOrder
<1>3. CASE match_done
  BY ZenonT(60), <1>3 DEF match_done, WalkOrder
<1>4. ASSUME NEW o \in Orders, cancel_order(o) PROVE WalkOrder'
  BY ZenonT(60), <1>4 DEF cancel_order, WalkOrder
<1>5. CASE UNCHANGED vars
  <2>1. /\ order' = order /\ remaining' = remaining /\ incoming' = incoming
        /\ lastMatch' = lastMatch
    BY ZenonT(60), <1>5 DEF vars
  <2>2. Candidates' = Candidates
    BY ZenonT(60), <2>1 DEF Candidates, Resting, Crosses, price_buy_crosses, price_sell_crosses
  <2>3. \A a, b : Before(a, b)' = Before(a, b) /\ exec_price(a, b)' = exec_price(a, b)
    <3> TAKE a, b
    <3>1. exec_price(a, b)' = exec_price(a, b)
      BY ZenonT(60), <2>1 DEF exec_price
    <3>2. Older(a, b)' = Older(a, b)
      BY ZenonT(60), <2>1 DEF Older
    <3>3. BidKey_cmp(a, b)' = BidKey_cmp(a, b) /\ AskKey_cmp(a, b)' = AskKey_cmp(a, b)
      BY ZenonT(60), <2>1, <3>2 DEF BidKey_cmp, AskKey_cmp
    <3> QED
      BY ZenonT(60), <2>1, <3>1, <3>3 DEF Before
  <2> QED
    BY ZenonT(60), <2>1, <2>2, <2>3 DEF WalkOrder
<1>6. QED
  BY ZenonT(60), <1>1, <1>2, <1>3, <1>4, <1>5 DEF Next

(* BookInv holds in every state of the engine's book. *)
THEOREM BookInvHolds == Spec => []BookInv
<1>1. BookInv /\ [Next]_vars => BookInv'
  BY ZenonT(60), NextType, NextUncrossed, NextFills, NextFair, NextWalk DEF BookInv
<1>2. QED
  BY InitInv, <1>1, PTL DEF Spec

(* Every order, remaining quantity and match keeps the type the engine     *)
(* gives it; no quantity goes below zero.                                  *)
THEOREM TypeOKHolds == Spec => []TypeOK
BY BookInvHolds, PTL DEF BookInv

(* The book is never left crossed between two users. *)
THEOREM UncrossedHolds == Spec => []Uncrossed
BY BookInvHolds, PTL DEF BookInv

(* Every unit of an order is open, matched or cancelled, and only one of them. *)
THEOREM FillsAccountedHolds == Spec => []FillsAccounted
BY BookInvHolds, PTL DEF BookInv

(* Matches respect both limits and are never between a user and themself. *)
THEOREM FairTradeHolds == Spec => []FairTrade
BY BookInvHolds, PTL DEF BookInv

(* The matches of an incoming order walk the book in price-time priority. *)
THEOREM TakerWalksBookHolds == Spec => TakerWalksBook
<1>1. ASSUME BookInv, [Next]_vars
      PROVE  [lastMatch' # lastMatch /\ lastMatch # NoMatch
                /\ lastMatch'.taker = lastMatch.taker
              => InPriority(lastMatch, lastMatch')]_vars
  <2>1. SUFFICES ASSUME lastMatch' # lastMatch, lastMatch # NoMatch,
                        lastMatch'.taker = lastMatch.taker
                 PROVE  InPriority(lastMatch, lastMatch')
    BY ZenonT(60)
  <2>2. PICK m \in Orders : match_one(m)
    BY ZenonT(60), <1>1, <2>1 DEF Next, vars, place_order, match_done, cancel_order
  <2> DEFINE t == order[incoming]
             l == lastMatch.maker
             a == order[l]
             b == order[m]
  <2>3. /\ lastMatch'.taker = incoming /\ lastMatch'.maker = m
        /\ lastMatch'.price = exec_price(incoming, m)
        /\ m \in Candidates /\ remaining[incoming] > 0 /\ incoming \in Orders
        /\ t \in OrderRecords /\ b \in OrderRecords
    BY ZenonT(60), <1>1, <2>2, MatchFacts DEF match_one, BookInv
  <2>4. /\ lastMatch.price = exec_price(incoming, l) /\ a.side # t.side
        /\ l \in Orders /\ a \in OrderRecords
        /\ Before(l, m)
    BY ZenonT(60), <1>1, <2>1, <2>3, OrderBookConstants DEF BookInv, WalkOrder, TypeOK
  <2>5. t.price = None \/ IF t.side = "BUY" THEN lastMatch.price <= t.price
                                           ELSE lastMatch.price >= t.price
    BY ZenonT(60), <1>1, <2>1, <2>3 DEF BookInv, FairTrade
  <2>6. /\ t.side \in {"BUY", "SELL"} /\ a.side \in {"BUY", "SELL"}
        /\ t.price \in Nat /\ a.price \in Nat /\ b.price \in Nat
        /\ a.created_at \in Nat /\ b.created_at \in Nat
    BY SMTT(60), Z3T(60), <2>3, <2>4, OrderBookConstants DEF OrderRecords, Prices
  <2>7. lastMatch.taker = incoming
    BY ZenonT(60), <2>1, <2>3
  <2>8. CASE t.side = "BUY"
    <3>1. \/ a.price # None /\ (b.price = None \/ a.price < b.price)
          \/ a.price = b.price /\ a.created_at <= b.created_at
      BY SMTT(60), Z3T(60), <2>4, <2>6, <2>8 DEF Before, AskKey_cmp, Older
    <3>2. QED
      BY SMTT(60), Z3T(60), <2>3, <2>4, <2>5, <2>6, <2>7, <2>8, <3>1 DEF InPriority, exec_price, None
  <2>9. CASE t.side = "SELL"
    <3>1. \/ a.price # None /\ (b.price = None \/ a.price > b.price)
          \/ a.price = b.price /\ a.created_at <= b.created_at
      BY SMTT(60), Z3T(60), <2>4, <2>6, <2>9 DEF Before, BidKey_cmp, Older
    <3>2. QED
      BY SMTT(60), Z3T(60), <2>3, <2>4, <2>5, <2>6, <2>7, <2>9, <3>1 DEF InPriority, exec_price, None
  <2>10. QED
    BY ZenonT(60), <2>6, <2>8, <2>9
<1>2. QED
  BY BookInvHolds, <1>1, PTL DEF Spec, TakerWalksBook
=============================================================================
