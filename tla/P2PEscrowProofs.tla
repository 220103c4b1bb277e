--------------------------- MODULE P2PEscrowProofs ---------------------------
(***************************************************************************)
(* Proofs about P2PEscrow for every set of users, ads and orders, every    *)
(* initial balance and every configuration: IndInv is inductive, one case  *)
(* per action, and the safety properties, the action properties and the    *)
(* refinement of EscrowContract follow from it.                            *)
(*                                                                         *)
(* First the accounting lemmas.  Only three kinds of step touch money:     *)
(* createOrder locks a quantity, a payout (payOut) releases or refunds     *)
(* one, and every other step leaves balances, escrows and order keys       *)
(* alone.  One lemma deals with each kind.                                 *)
(***************************************************************************)
EXTENDS P2PEscrow, FiniteSetTheorems, TLAPS

\* The units of a single row are as many as its value.
LEMMA BlockSize ==
  ASSUME NEW x, NEW n \in Nat
  PROVE  IsFiniteSet({x} \X (1 .. n)) /\ Cardinality({x} \X (1 .. n)) = n
<1>1. IsFiniteSet(1 .. n) /\ Cardinality(1 .. n) = n
  BY SMTT(60), Z3T(60), FS_Interval
<1>2. IsFiniteSet({x}) /\ Cardinality({x}) = 1
  BY ZenonT(60), FS_Singleton
<1>3. /\ IsFiniteSet({x} \X (1 .. n))
      /\ Cardinality({x} \X (1 .. n)) = Cardinality({x}) * Cardinality(1 .. n)
  BY ONLY <1>1, <1>2, FS_Product, ZenonT(60)
<1> QED
  BY SMTT(60), Z3T(60), <1>1, <1>2, <1>3

\* Over a finite set of rows the units are finite in number, so a sum is a
\* natural number.
LEMMA SumType ==
  ASSUME NEW S, IsFiniteSet(S), NEW q, \A x \in S : q[x] \in Nat
  PROVE  IsFiniteSet(UnitsOf(q, S)) /\ SumOf(q, S) \in Nat
<1> DEFINE Block(x) == {x} \X (1 .. q[x])
           Blocks == {Block(x) : x \in S}
<1>1. IsFiniteSet(Blocks)
  <2> DEFINE f == [x \in S |-> Block(x)]
  <2>1. f \in Surjection(S, Blocks)
    BY ZenonT(60) DEF Surjection
  <2> QED
    BY ZenonT(60), <2>1, FS_Surjection
<1>2. \A B \in Blocks : IsFiniteSet(B)
  <2> SUFFICES ASSUME NEW x \in S
               PROVE  IsFiniteSet(Block(x))
    BY ZenonT(60)
  <2>1. q[x] \in Nat
    BY ZenonT(60)
  <2> QED
    BY ZenonT(60), <2>1, BlockSize
<1>3. IsFiniteSet(UnitsOf(q, S))
  BY ZenonT(60), <1>1, <1>2, FS_UNION DEF UnitsOf
<1> QED
  BY ZenonT(60), <1>3, FS_CardinalityType DEF SumOf

\* An empty set of rows sums to zero.
LEMMA SumEmpty ==
  ASSUME NEW q
  PROVE  SumOf(q, {}) = 0
<1>1. UnitsOf(q, {}) = {}
  BY ZenonT(60) DEF UnitsOf
<1> QED
  BY ZenonT(60), <1>1, FS_EmptySet DEF SumOf

\* A row that is not yet in the set adds its value.
LEMMA SumAdd ==
  ASSUME NEW S, IsFiniteSet(S), NEW q, \A x \in S : q[x] \in Nat,
         NEW y, y \notin S, q[y] \in Nat
  PROVE  SumOf(q, S \cup {y}) = SumOf(q, S) + q[y]
<1> DEFINE B == {y} \X (1 .. q[y])
<1>1. UnitsOf(q, S \cup {y}) = UnitsOf(q, S) \cup B
  BY ZenonT(60) DEF UnitsOf
<1>2. UnitsOf(q, S) \cap B = {}
  <2> SUFFICES ASSUME NEW e \in UnitsOf(q, S), e \in B
               PROVE  FALSE
    BY ZenonT(60)
  <2>1. PICK x \in S : e \in {x} \X (1 .. q[x])
    BY ZenonT(60) DEF UnitsOf
  <2>2. e[1] = x /\ e[1] = y
    BY ZenonT(60), <2>1
  <2> QED
    BY ZenonT(60), <2>2
<1>3. IsFiniteSet(UnitsOf(q, S)) /\ SumOf(q, S) \in Nat
  BY ZenonT(60), SumType
<1>4. IsFiniteSet(B) /\ Cardinality(B) = q[y]
  BY ZenonT(60), BlockSize
<1>5. Cardinality(UnitsOf(q, S) \cap B) = 0
  BY ZenonT(60), <1>2, FS_EmptySet
<1>6. Cardinality(UnitsOf(q, S) \cup B) = Cardinality(UnitsOf(q, S)) + Cardinality(B) - 0
  BY SMTT(60), Z3T(60), <1>3, <1>4, <1>5, FS_Union
<1>7. SumOf(q, S \cup {y}) = Cardinality(UnitsOf(q, S) \cup B)
  BY ZenonT(60), <1>1 DEF SumOf
<1>8. Cardinality(UnitsOf(q, S)) = SumOf(q, S)
  BY ZenonT(60) DEF SumOf
<1> HIDE DEF B
<1> QED
  BY SMTT(60), Z3T(60), <1>3, <1>4, <1>6, <1>7, <1>8

\* A row of the set that is dropped takes its value away.
LEMMA SumRemove ==
  ASSUME NEW S, IsFiniteSet(S), NEW q, \A x \in S : q[x] \in Nat,
         NEW y \in S
  PROVE  SumOf(q, S) = SumOf(q, S \ {y}) + q[y]
<1>1. IsFiniteSet(S \ {y})
  BY ZenonT(60), FS_RemoveElement
<1>2. S = (S \ {y}) \cup {y}
  BY ZenonT(60)
<1>3. SumOf(q, (S \ {y}) \cup {y}) = SumOf(q, S \ {y}) + q[y]
  BY ZenonT(60), <1>1, SumAdd
<1> QED
  BY ZenonT(60), <1>2, <1>3

\* The sum depends only on the values of the rows it ranges over.
LEMMA SumSame ==
  ASSUME NEW S, NEW q, NEW p, \A x \in S : q[x] = p[x]
  PROVE  SumOf(q, S) = SumOf(p, S)
<1>1. UnitsOf(q, S) = UnitsOf(p, S)
  BY ZenonT(60) DEF UnitsOf
<1> QED
  BY ZenonT(60), <1>1 DEF SumOf

Accounts == EscrowBacksOrders /\ FundsConserved

\* The sets of orders the sums range over are finite and have natural values.
LEMMA OrderSetsFinite ==
  ASSUME TypeOK
  PROVE  /\ \A S \in SUBSET Orders : IsFiniteSet(S) /\ \A o \in S : quantity[o] \in Nat
         /\ \A u : LockedOf(u) \subseteq Orders /\ BoughtBy(u) \subseteq Orders
                   /\ SoldBy(u) \subseteq Orders /\ TakenFrom(u) \subseteq Orders
<1>1. \A S \in SUBSET Orders : IsFiniteSet(S)
  BY ZenonT(60), P2PConstants, FS_Subset
<1>2. \A o \in Orders : quantity[o] \in Nat
  BY SMTT(60), Z3T(60), P2PConstants DEF TypeOK
<1> QED
  BY ZenonT(60), <1>1, <1>2 DEF LockedOf, BoughtBy, SoldBy, TakenFrom

\* Amounts over orders are natural numbers.
LEMMA AmountNat ==
  ASSUME TypeOK, NEW S \in SUBSET Orders
  PROVE  Amount(S) \in Nat
BY ZenonT(60), OrderSetsFinite, SumType DEF Amount

\* The expiry worker only takes unpaid orders, whichever status it looks for.
LEMMA ExpiryTakesUnpaid ==
  ASSUME TypeOK, NEW o \in Orders, o \in ExpiryPage
  PROVE  status[o] = "payment_pending"
BY ZenonT(60), P2PConstants DEF TypeOK, OrderStatus, ExpiryPage, Overdue

\* A step that leaves balances, escrow statuses and order keys alone keeps the
\* accounts as they are.
LEMMA QuietStep ==
  ASSUME Accounts, UNCHANGED <<balances, escrowStatus, orderKeys>>
  PROVE  Accounts'
<1>1. UNCHANGED <<available, escrowed, escrowStatus, orderAd, buyer, seller, quantity>>
  BY ZenonT(60) DEF balances, orderKeys
<1>2. \A u : LockedOf(u)' = LockedOf(u) /\ BoughtBy(u)' = BoughtBy(u) /\ SoldBy(u)' = SoldBy(u)
  BY ZenonT(60), <1>1 DEF LockedOf, BoughtBy, SoldBy
<1> QED
  BY ZenonT(60), <1>1, <1>2 DEF Accounts, EscrowBacksOrders, FundsConserved, RowFunds, Amount

\* What the seller loses in escrow is counted as sold, what the buyer gains as bought.
LEMMA SaleBalances ==
  ASSUME NEW ac \in Nat, NEW ec \in Nat, NEW ag \in Nat, NEW eg \in Nat, NEW sold \in Nat,
         NEW init \in Nat, NEW bought \in Nat, NEW loss \in Nat, NEW gain \in Nat,
         ac + ec + (ag + eg) + sold = init + bought
  PROVE  ac + ec + ((ag + gain) + (eg - loss)) + (sold + loss) = init + (bought + gain)
BY SMTT(60), Z3T(60)

\* A payout moves the order's quantity out of the seller's locked orders and, when
\* it is a release, into what the buyer bought and the seller sold.
LEMMA PayOutStep ==
  ASSUME IndInv, NEW o \in Orders, escrowStatus[o] = "locked", NEW w, NEW outcome,
         \/ outcome = "released" /\ w = buyer[o]
         \/ outcome = "refunded" /\ w = seller[o],
         payOut(o, w, outcome), UNCHANGED orderKeys
  PROVE  Accounts'
<1> DEFINE s == seller[o]
           q == quantity[o]
<1>1. UNCHANGED <<orderAd, buyer, seller, quantity>>
  BY ZenonT(60) DEF orderKeys
<1>2. s \in Users /\ buyer[o] \in Users /\ w \in Users /\ q \in Nat
  <2>1. status[o] # "none"
    BY ZenonT(60) DEF IndInv, EscrowFollowsOrder
  <2> QED
    BY SMTT(60), Z3T(60), <2>1, P2PConstants DEF IndInv, RowsLinked, TypeOK
<1>3. \A u \in Users :
        /\ LockedOf(u)' = IF u = s THEN LockedOf(u) \ {o} ELSE LockedOf(u)
        /\ SoldBy(u)' = IF u = s /\ outcome = "released" THEN SoldBy(u) \cup {o} ELSE SoldBy(u)
        /\ BoughtBy(u)' = IF u = buyer[o] /\ outcome = "released"
                          THEN BoughtBy(u) \cup {o} ELSE BoughtBy(u)
  BY SMTT(60), Z3T(60), <1>1 DEF IndInv, TypeOK, payOut, LockedOf, SoldBy, BoughtBy
<1>4. o \in LockedOf(s) /\ \A u : o \notin SoldBy(u) /\ o \notin BoughtBy(u)
  BY ZenonT(60) DEF LockedOf, SoldBy, BoughtBy
<1>5. \A u \in Users :
        /\ Amount(LockedOf(u)) = SumOf(quantity, LockedOf(u))' + (IF u = s THEN q ELSE 0)
        /\ SumOf(quantity, SoldBy(u))' = Amount(SoldBy(u))
              + (IF u = s /\ outcome = "released" THEN q ELSE 0)
        /\ SumOf(quantity, BoughtBy(u))' = Amount(BoughtBy(u))
              + (IF u = buyer[o] /\ outcome = "released" THEN q ELSE 0)
  <2> SUFFICES ASSUME NEW u \in Users
               PROVE  /\ Amount(LockedOf(u)) = SumOf(quantity, LockedOf(u))' + (IF u = s THEN q ELSE 0)
                      /\ SumOf(quantity, SoldBy(u))' = Amount(SoldBy(u))
                            + (IF u = s /\ outcome = "released" THEN q ELSE 0)
                      /\ SumOf(quantity, BoughtBy(u))' = Amount(BoughtBy(u))
                            + (IF u = buyer[o] /\ outcome = "released" THEN q ELSE 0)
    BY ZenonT(60)
  <2>0. TypeOK
    BY ZenonT(60) DEF IndInv
  <2>1. /\ IsFiniteSet(LockedOf(u)) /\ IsFiniteSet(SoldBy(u)) /\ IsFiniteSet(BoughtBy(u))
        /\ \A x \in LockedOf(u) \cup SoldBy(u) \cup BoughtBy(u) : quantity[x] \in Nat
    BY ZenonT(60), <2>0, OrderSetsFinite
  <2>2. Amount(LockedOf(u)) \in Nat /\ Amount(SoldBy(u)) \in Nat /\ Amount(BoughtBy(u)) \in Nat
    BY ZenonT(60), <2>0, OrderSetsFinite, AmountNat
  <2>3. u = s => SumOf(quantity, LockedOf(u)) = SumOf(quantity, LockedOf(u) \ {o}) + q
    BY ZenonT(60), <1>4, <2>1, SumRemove
  <2>4. SumOf(quantity, SoldBy(u) \cup {o}) = SumOf(quantity, SoldBy(u)) + q
    BY SMTT(60), Z3T(60), <1>2, <1>4, <2>1, SumAdd
  <2>5. SumOf(quantity, BoughtBy(u) \cup {o}) = SumOf(quantity, BoughtBy(u)) + q
    BY SMTT(60), Z3T(60), <1>2, <1>4, <2>1, SumAdd
  <2>6. SumOf(quantity, LockedOf(u))' = SumOf(quantity, LockedOf(u)') /\
        SumOf(quantity, SoldBy(u))' = SumOf(quantity, SoldBy(u)') /\
        SumOf(quantity, BoughtBy(u))' = SumOf(quantity, BoughtBy(u)')
    BY ZenonT(60), <1>1
  <2>7. Amount(LockedOf(u)) = SumOf(quantity, LockedOf(u)') + (IF u = s THEN q ELSE 0)
    BY SMTT(60), Z3T(60), <1>3, <2>2, <2>3 DEF Amount
  <2>8. SumOf(quantity, SoldBy(u)') = Amount(SoldBy(u))
              + (IF u = s /\ outcome = "released" THEN q ELSE 0)
    <3>1. CASE u = s /\ outcome = "released"
      BY ZenonT(60), <1>3, <2>4, <3>1 DEF Amount
    <3>2. CASE ~(u = s /\ outcome = "released")
      BY SMTT(60), Z3T(60), <1>3, <2>2, <3>2 DEF Amount
    <3> QED
      BY ZenonT(60), <3>1, <3>2
  <2>9. SumOf(quantity, BoughtBy(u)') = Amount(BoughtBy(u))
              + (IF u = buyer[o] /\ outcome = "released" THEN q ELSE 0)
    BY SMTT(60), Z3T(60), <1>3, <2>2, <2>5 DEF Amount
  <2> QED
    BY ZenonT(60), <2>6, <2>7, <2>8, <2>9
<1>6. \A u \in Users :
        /\ escrowed'[u]["chain"] = escrowed[u]["chain"]
        /\ available'[u]["chain"] = available[u]["chain"]
        /\ escrowed'[u]["global"] = escrowed[u]["global"] - (IF u = s THEN q ELSE 0)
        /\ available'[u]["global"] = available[u]["global"] + (IF u = w THEN q ELSE 0)
  BY SMTT(60), Z3T(60), <1>2 DEF IndInv, TypeOK, Rows, payOut
<1>7. \A u \in Users : /\ Amount(LockedOf(u)) \in Nat /\ Amount(SoldBy(u)) \in Nat
                       /\ Amount(BoughtBy(u)) \in Nat
                       /\ SumOf(quantity, LockedOf(u))' \in Nat
  <2>1. TypeOK
    BY ZenonT(60) DEF IndInv
  <2>2. \A u \in Users : LockedOf(u)' \subseteq Orders
    BY ZenonT(60) DEF LockedOf
  <2>3. \A S \in SUBSET Orders : SumOf(quantity, S) \in Nat
    BY ZenonT(60), <2>1, OrderSetsFinite, AmountNat DEF Amount
  <2> QED
    BY ZenonT(60), <1>1, <2>1, <2>2, <2>3, OrderSetsFinite, AmountNat
<1>8. \A u \in Users : /\ escrowed[u]["chain"] \in Nat /\ escrowed[u]["global"] \in Nat
                       /\ available[u]["chain"] \in Nat /\ available[u]["global"] \in Nat
                       /\ InitialAvailable[u]["chain"] \in Nat
                       /\ InitialAvailable[u]["global"] \in Nat
  BY SMTT(60), Z3T(60), P2PConstants DEF IndInv, TypeOK, Rows
<1>9. EscrowBacksOrders'
  BY SMTT(60), Z3T(60), <1>2, <1>5, <1>6, <1>7, <1>8 DEF IndInv, EscrowBacksOrders, Amount
<1>10. FundsConserved'
  <2> SUFFICES ASSUME NEW u \in Users
               PROVE  available'[u]["chain"] + escrowed'[u]["chain"]
                        + (available'[u]["global"] + escrowed'[u]["global"]) + SumOf(quantity, SoldBy(u))'
                      = InitialAvailable[u]["chain"] + InitialAvailable[u]["global"]
                        + SumOf(quantity, BoughtBy(u))'
    BY ZenonT(60) DEF FundsConserved, RowFunds, Amount
  <2>1. available[u]["chain"] + escrowed[u]["chain"]
          + (available[u]["global"] + escrowed[u]["global"]) + Amount(SoldBy(u))
        = InitialAvailable[u]["chain"] + InitialAvailable[u]["global"] + Amount(BoughtBy(u))
    BY ZenonT(60) DEF IndInv, FundsConserved, RowFunds
  <2>4. /\ escrowed[u]["chain"] \in Nat /\ escrowed[u]["global"] \in Nat
        /\ available[u]["chain"] \in Nat /\ available[u]["global"] \in Nat
        /\ InitialAvailable[u]["chain"] \in Nat /\ InitialAvailable[u]["global"] \in Nat
        /\ Amount(SoldBy(u)) \in Nat /\ Amount(BoughtBy(u)) \in Nat
    BY ZenonT(60), <1>7, <1>8
  <2>2. CASE outcome = "released" /\ w = buyer[o]
    <3> DEFINE loss == IF u = s THEN q ELSE 0
               gain == IF u = w THEN q ELSE 0
    <3>1. /\ SumOf(quantity, SoldBy(u))' = Amount(SoldBy(u)) + loss
          /\ SumOf(quantity, BoughtBy(u))' = Amount(BoughtBy(u)) + gain
      BY ZenonT(60), <1>5, <2>2
    <3>2. /\ escrowed'[u]["chain"] = escrowed[u]["chain"]
          /\ available'[u]["chain"] = available[u]["chain"]
          /\ escrowed'[u]["global"] = escrowed[u]["global"] - loss
          /\ available'[u]["global"] = available[u]["global"] + gain
      BY ZenonT(60), <1>6
    <3>3. loss \in Nat /\ gain \in Nat
      BY ZenonT(60), <1>2
    <3> HIDE DEF loss, gain
    <3>4. InitialAvailable[u]["chain"] + InitialAvailable[u]["global"] \in Nat
      BY SMTT(60), Z3T(60), <2>4
    <3>5. available[u]["chain"] + escrowed[u]["chain"]
            + ((available[u]["global"] + gain) + (escrowed[u]["global"] - loss))
            + (Amount(SoldBy(u)) + loss)
          = InitialAvailable[u]["chain"] + InitialAvailable[u]["global"]
            + (Amount(BoughtBy(u)) + gain)
      BY SMTT(60), Z3T(60), <2>1, <2>4, <3>3, <3>4, SaleBalances
    <3> QED
      BY ZenonT(60), <3>1, <3>2, <3>5
  <2>3. CASE outcome = "refunded" /\ w = seller[o]
    <3> DEFINE back == IF u = s THEN q ELSE 0
    <3>1. /\ SumOf(quantity, SoldBy(u))' = Amount(SoldBy(u))
          /\ SumOf(quantity, BoughtBy(u))' = Amount(BoughtBy(u))
      BY SMTT(60), Z3T(60), <1>5, <1>7, <2>3
    <3>2. /\ escrowed'[u]["chain"] = escrowed[u]["chain"]
          /\ available'[u]["chain"] = available[u]["chain"]
          /\ escrowed'[u]["global"] = escrowed[u]["global"] - back
          /\ available'[u]["global"] = available[u]["global"] + back
      BY ZenonT(60), <1>6, <2>3
    <3>3. back \in Nat
      BY ZenonT(60), <1>2
    <3> HIDE DEF back
    <3> QED
      BY SMTT(60), Z3T(60), <2>4, <2>1, <3>1, <3>2, <3>3
  <2> QED
    BY ZenonT(60), <2>2, <2>3
<1> QED
  BY ZenonT(60), <1>9, <1>10 DEF Accounts

\* createOrder moves the new order's quantity from the seller's available balance
\* to escrow and from the ad's available_amount to what its orders took.
LEMMA LockStep ==
  ASSUME IndInv, NEW u \in Users, NEW a \in Ads, NEW o \in Orders, NEW q \in Amounts,
         createOrder(u, a, o, q)
  PROVE  /\ Accounts' /\ AdLiquidity'
         /\ available' \in [Users -> [Rows -> Nat]] /\ escrowed' \in [Users -> [Rows -> Nat]]
<1> DEFINE s == seller'[o]
           r == DebitRow(s, q)
<1>1. q \in Nat /\ s \in Users /\ status[o] = "none" /\ escrowStatus[o] = "none" /\ r \in Rows
  <2>1. adOwner[a] \in Users
    BY ZenonT(60) DEF IndInv, RowsLinked, createOrder
  <2>2. s \in Users /\ status[o] = "none"
    BY ZenonT(60), <2>1 DEF IndInv, TypeOK, createOrder
  <2>3. escrowStatus[o] = "none"
    BY ZenonT(60), <2>2 DEF IndInv, EscrowFollowsOrder
  <2>4. r \in Rows
    BY ZenonT(60) DEF DebitRow, Rows
  <2> QED
    BY SMTT(60), Z3T(60), <2>2, <2>3, <2>4, P2PConstants DEF Amounts
<1>2. /\ seller' = [seller EXCEPT ![o] = s]
      /\ \E b : buyer' = [buyer EXCEPT ![o] = b]
      /\ quantity' = [quantity EXCEPT ![o] = q]
      /\ orderAd' = [orderAd EXCEPT ![o] = a]
      /\ escrowStatus' = [escrowStatus EXCEPT ![o] = "locked"]
      /\ available' = [available EXCEPT ![s][r] = @ - q]
      /\ escrowed' = [escrowed EXCEPT ![s][r] = @ + q]
      /\ available[s][r] >= q
      /\ adAvailable' = [adAvailable EXCEPT ![a] = @ - q]
      /\ adAvailable[a] >= q
      /\ adTotal' = adTotal
  BY ZenonT(60) DEF IndInv, TypeOK, createOrder, moveToEscrow, AdCovers
<1> HIDE DEF s, r
<1>3. TypeOK
  BY ZenonT(60) DEF IndInv
<1>4. \A v \in Users :
        /\ LockedOf(v)' = IF v = s THEN LockedOf(v) \cup {o} ELSE LockedOf(v)
        /\ SoldBy(v)' = SoldBy(v) /\ BoughtBy(v)' = BoughtBy(v)
        /\ o \notin LockedOf(v) /\ o \notin SoldBy(v) /\ o \notin BoughtBy(v)
  BY SMTT(60), Z3T(60), <1>1, <1>2, <1>3 DEF TypeOK, LockedOf, SoldBy, BoughtBy
<1>5. \A S \in SUBSET Orders : o \notin S =>
        /\ SumOf(quantity', S) = Amount(S)
        /\ SumOf(quantity', S \cup {o}) = Amount(S) + q
  <2> SUFFICES ASSUME NEW S \in SUBSET Orders, o \notin S
               PROVE  /\ SumOf(quantity', S) = Amount(S)
                      /\ SumOf(quantity', S \cup {o}) = Amount(S) + q
    BY ZenonT(60)
  <2>1. \A x \in S : quantity'[x] = quantity[x] /\ quantity'[x] \in Nat
    BY ZenonT(60), <1>2, <1>3, OrderSetsFinite DEF TypeOK
  <2>2. quantity'[o] = q
    BY ZenonT(60), <1>2, <1>3 DEF TypeOK
  <2>3. SumOf(quantity', S) = SumOf(quantity, S)
    BY ZenonT(60), <2>1, SumSame
  <2>4. IsFiniteSet(S)
    BY SMTT(60), Z3T(60), <1>3, OrderSetsFinite
  <2>5. SumOf(quantity', S \cup {o}) = SumOf(quantity', S) + quantity'[o]
    BY SMTT(60), Z3T(60), <1>1, <2>1, <2>2, <2>4, SumAdd
  <2> QED
    BY ZenonT(60), <2>2, <2>3, <2>5 DEF Amount
<1>6. \A v \in Users :
        /\ LockedOf(v) \in SUBSET Orders /\ SoldBy(v) \in SUBSET Orders
        /\ BoughtBy(v) \in SUBSET Orders
        /\ Amount(LockedOf(v)) \in Nat /\ Amount(SoldBy(v)) \in Nat /\ Amount(BoughtBy(v)) \in Nat
  BY ZenonT(60), <1>3, OrderSetsFinite, AmountNat
<1>7. \A v \in Users :
        /\ SumOf(quantity, LockedOf(v))' = Amount(LockedOf(v)) + (IF v = s THEN q ELSE 0)
        /\ SumOf(quantity, SoldBy(v))' = Amount(SoldBy(v))
        /\ SumOf(quantity, BoughtBy(v))' = Amount(BoughtBy(v))
  <2> SUFFICES ASSUME NEW v \in Users
               PROVE  /\ SumOf(quantity', LockedOf(v)') = Amount(LockedOf(v)) + (IF v = s THEN q ELSE 0)
                      /\ SumOf(quantity', SoldBy(v)') = Amount(SoldBy(v))
                      /\ SumOf(quantity', BoughtBy(v)') = Amount(BoughtBy(v))
    BY ZenonT(60)
  <2>1. CASE v = s
    BY ZenonT(60), <1>4, <1>5, <1>6, <2>1
  <2>2. CASE v # s
    <3>1. /\ SumOf(quantity', LockedOf(v)) = Amount(LockedOf(v))
          /\ SumOf(quantity', SoldBy(v)) = Amount(SoldBy(v))
          /\ SumOf(quantity', BoughtBy(v)) = Amount(BoughtBy(v))
      BY ZenonT(60), <1>4, <1>5, <1>6
    <3>2. Amount(LockedOf(v)) \in Nat
      BY ZenonT(60), <1>6
    <3> QED
      BY SMTT(60), Z3T(60), <1>4, <2>2, <3>1, <3>2
  <2> QED
    BY ZenonT(60), <2>1, <2>2
<1>t. /\ available \in [Users -> [Rows -> Nat]] /\ escrowed \in [Users -> [Rows -> Nat]]
      /\ s \in Users /\ r \in Rows /\ q \in Nat /\ available[s][r] >= q
      /\ available' = [available EXCEPT ![s][r] = @ - q]
      /\ escrowed' = [escrowed EXCEPT ![s][r] = @ + q]
  BY ZenonT(60), <1>1, <1>2, <1>3 DEF TypeOK
<1>8. \A v \in Users, x \in Rows :
        /\ available'[v][x] = available[v][x] - (IF v = s /\ x = r THEN q ELSE 0)
        /\ escrowed'[v][x] = escrowed[v][x] + (IF v = s /\ x = r THEN q ELSE 0)
        /\ available[v][x] \in Nat /\ escrowed[v][x] \in Nat
  BY SMTT(60), Z3T(60), <1>t
<1>9. EscrowBacksOrders'
  <2> SUFFICES ASSUME NEW v \in Users
               PROVE  escrowed'[v]["chain"] + escrowed'[v]["global"] = SumOf(quantity, LockedOf(v))'
    BY ZenonT(60) DEF EscrowBacksOrders, Amount
  <2>1. escrowed[v]["chain"] + escrowed[v]["global"] = Amount(LockedOf(v))
    BY ZenonT(60) DEF IndInv, EscrowBacksOrders
  <2>2. "chain" \in Rows /\ "global" \in Rows /\ (r = "chain" \/ r = "global")
    BY ZenonT(60), <1>1 DEF Rows
  <2> QED
    BY SMTT(60), Z3T(60), <1>1, <1>6, <1>7, <1>8, <2>1, <2>2
<1>10. FundsConserved'
  <2>1. \A v \in Users, x \in Rows : RowFunds(v, x)' = RowFunds(v, x)
    BY SMTT(60), Z3T(60), <1>1, <1>8 DEF RowFunds
  <2>2. "chain" \in Rows /\ "global" \in Rows
    BY ZenonT(60) DEF Rows
  <2> QED
    BY ZenonT(60), <1>7, <2>1, <2>2 DEF IndInv, FundsConserved, Amount
<1>11. AdLiquidity'
  <2> SUFFICES ASSUME NEW b \in Ads
               PROVE  adAvailable'[b] + SumOf(quantity, TakenFrom(b))' = adTotal'[b]
    BY ZenonT(60) DEF AdLiquidity, Amount
  <2>1. TakenFrom(b)' = IF b = a THEN TakenFrom(b) \cup {o} ELSE TakenFrom(b)
    <3>1. /\ orderAd' = [orderAd EXCEPT ![o] = a] /\ orderAd \in [Orders -> Ads \cup {NoAd}]
          /\ escrowStatus' = [escrowStatus EXCEPT ![o] = "locked"]
          /\ escrowStatus \in [Orders -> {"none", "locked", "released", "refunded"}]
      BY ZenonT(60), <1>1, <1>2, <1>3 DEF TypeOK
    <3> QED  BY ZenonT(60), <1>1, <1>2, <3>1 DEF TakenFrom
  <2>2. o \notin TakenFrom(b) /\ TakenFrom(b) \in SUBSET Orders /\ Amount(TakenFrom(b)) \in Nat
    BY ZenonT(60), <1>1, <1>3, OrderSetsFinite, AmountNat DEF TakenFrom
  <2>3. SumOf(quantity, TakenFrom(b))' = Amount(TakenFrom(b)) + (IF b = a THEN q ELSE 0)
    <3>1. CASE b = a
      BY ZenonT(60), <1>5, <2>1, <2>2, <3>1
    <3>2. CASE b # a
      <4>1. SumOf(quantity', TakenFrom(b)) = Amount(TakenFrom(b))
        BY ZenonT(60), <1>5, <2>2
      <4> QED
        BY SMTT(60), Z3T(60), <2>1, <2>2, <3>2, <4>1
    <3> QED
      BY ZenonT(60), <3>1, <3>2
  <2>4. adAvailable'[b] = adAvailable[b] - (IF b = a THEN q ELSE 0) /\ adAvailable[b] \in Nat
        /\ adTotal[b] \in Nat
    BY SMTT(60), Z3T(60), <1>1, <1>2, <1>3 DEF TypeOK
  <2>5. adAvailable[b] + Amount(TakenFrom(b)) = adTotal[b]
    BY ZenonT(60) DEF IndInv, AdLiquidity
  <2> QED
    BY SMTT(60), Z3T(60), <1>1, <1>2, <2>2, <2>3, <2>4, <2>5
<1>12. available' \in [Users -> [Rows -> Nat]]
  <2>1. available[s][r] - q \in Nat
    BY SMTT(60), Z3T(60), <1>t
  <2> QED
    BY ZenonT(60), <1>t, <2>1
<1>13. escrowed' \in [Users -> [Rows -> Nat]]
  <2>1. escrowed[s][r] + q \in Nat
    BY SMTT(60), Z3T(60), <1>t
  <2> QED
    BY ZenonT(60), <1>t, <2>1
<1> QED
  BY ZenonT(60), <1>9, <1>10, <1>11, <1>12, <1>13 DEF Accounts

\* An ad keeps its liquidity when no order changes hands and its amounts stay.
LEMMA AdQuietStep ==
  ASSUME IndInv, UNCHANGED <<escrowStatus, orderKeys, adTotal, adAvailable>>
  PROVE  AdLiquidity'
<1>1. \A a : TakenFrom(a)' = TakenFrom(a)
  BY ZenonT(60) DEF TakenFrom, orderKeys
<1> QED
  BY ZenonT(60), <1>1 DEF IndInv, AdLiquidity, Amount, orderKeys

\* Releasing the escrow of an open order pays the buyer and leaves the ad alone.
LEMMA ReleaseStep ==
  ASSUME IndInv, NEW o \in Orders, status[o] \in Open, releaseFromEscrow(o),
         UNCHANGED <<orderKeys, adTotal, adAvailable>>
  PROVE  /\ Accounts' /\ AdLiquidity'
         /\ escrowStatus' = [escrowStatus EXCEPT ![o] = "released"]
         /\ available' \in [Users -> [Rows -> Nat]] /\ escrowed' \in [Users -> [Rows -> Nat]]
<1>1. escrowStatus[o] = "locked" /\ buyer[o] \in Users /\ seller[o] \in Users /\ quantity[o] \in Nat
  BY SMTT(60), Z3T(60), P2PConstants DEF IndInv, EscrowFollowsOrder, RowsLinked, TypeOK, Open
<1>2. payOut(o, buyer[o], "released")
  BY ZenonT(60), <1>1 DEF releaseFromEscrow
<1>3. Accounts'
  BY ZenonT(60), <1>1, <1>2, PayOutStep
<1>4. \A a : TakenFrom(a)' = TakenFrom(a)
  BY ZenonT(60), <1>1, <1>2 DEF IndInv, TypeOK, payOut, TakenFrom, orderKeys
<1>5. AdLiquidity'
  BY ZenonT(60), <1>4 DEF IndInv, AdLiquidity, Amount, orderKeys
<1>6. available' \in [Users -> [Rows -> Nat]] /\ escrowed' \in [Users -> [Rows -> Nat]]
  BY SMTT(60), Z3T(60), <1>1, <1>2 DEF IndInv, TypeOK, payOut, Rows
<1> QED
  BY ZenonT(60), <1>2, <1>3, <1>5, <1>6 DEF payOut

\* Refunding the escrow of an open order pays the seller back, and the ad gets the
\* quantity back without exceeding its total.
LEMMA RefundStep ==
  ASSUME IndInv, NEW o \in Orders, status[o] \in Open, refundFromEscrow(o),
         adAvailable' = [adAvailable EXCEPT ![orderAd[o]] = @ + quantity[o]],
         UNCHANGED <<orderKeys, adTotal>>
  PROVE  /\ Accounts' /\ AdLiquidity'
         /\ escrowStatus' = [escrowStatus EXCEPT ![o] = "refunded"]
         /\ available' \in [Users -> [Rows -> Nat]] /\ escrowed' \in [Users -> [Rows -> Nat]]
         /\ adAvailable' \in [Ads -> Nat]
<1>1. /\ escrowStatus[o] = "locked" /\ seller[o] \in Users /\ quantity[o] \in Nat
      /\ orderAd[o] \in Ads
  BY SMTT(60), Z3T(60), P2PConstants DEF IndInv, EscrowFollowsOrder, RowsLinked, TypeOK, Open
<1>2. payOut(o, seller[o], "refunded")
  BY ZenonT(60), <1>1 DEF refundFromEscrow
<1>3. Accounts'
  BY ZenonT(60), <1>1, <1>2, PayOutStep
<1>4. available' \in [Users -> [Rows -> Nat]] /\ escrowed' \in [Users -> [Rows -> Nat]]
  BY SMTT(60), Z3T(60), <1>1, <1>2 DEF IndInv, TypeOK, payOut, Rows
<1>5. AdLiquidity'
  <2> SUFFICES ASSUME NEW a \in Ads
               PROVE  adAvailable'[a] + SumOf(quantity', TakenFrom(a)') = adTotal'[a]
    BY ZenonT(60) DEF AdLiquidity, Amount
  <2>1. TypeOK /\ quantity' = quantity /\ adTotal' = adTotal
    BY ZenonT(60) DEF IndInv, orderKeys
  <2>2. TakenFrom(a)' = IF a = orderAd[o] THEN TakenFrom(a) \ {o} ELSE TakenFrom(a)
    BY ZenonT(60), <1>1, <1>2, <2>1 DEF TypeOK, payOut, TakenFrom, orderKeys
  <2>3. IsFiniteSet(TakenFrom(a)) /\ \A x \in TakenFrom(a) : quantity[x] \in Nat
    BY ZenonT(60), <2>1, OrderSetsFinite
  <2>4. adAvailable[a] + SumOf(quantity, TakenFrom(a)) = adTotal[a]
    BY ZenonT(60) DEF IndInv, AdLiquidity, Amount
  <2>5. CASE a = orderAd[o]
    <3>1. o \in TakenFrom(a)
      BY ZenonT(60), <1>1, <2>5 DEF TakenFrom
    <3>2. SumOf(quantity, TakenFrom(a)) = SumOf(quantity, TakenFrom(a) \ {o}) + quantity[o]
      BY ZenonT(60), <2>3, <3>1, SumRemove
    <3>3. SumOf(quantity, TakenFrom(a) \ {o}) \in Nat
      BY ZenonT(60), <2>3, SumType, FS_RemoveElement
    <3>4. adAvailable'[a] = adAvailable[a] + quantity[o] /\ adAvailable[a] \in Nat
      BY ZenonT(60), <1>1, <2>1, <2>5 DEF TypeOK
    <3> QED
      BY SMTT(60), Z3T(60), <1>1, <2>1, <2>2, <2>4, <2>5, <3>2, <3>3, <3>4
  <2>6. CASE a # orderAd[o]
    BY ZenonT(60), <2>1, <2>2, <2>4, <2>6 DEF TypeOK
  <2> QED
    BY ZenonT(60), <2>5, <2>6
<1>6. adAvailable' \in [Ads -> Nat]
  BY SMTT(60), Z3T(60), <1>1 DEF IndInv, TypeOK
<1> QED
  BY ZenonT(60), <1>2, <1>3, <1>4, <1>5, <1>6 DEF payOut

-----------------------------------------------------------------------------
(* One case per action.                                                    *)

\* Every step of the ads preserves the invariant.
LEMMA AdStepInductive ==
  ASSUME IndInv, NEW a \in Ads, AdStep(a)
  PROVE  IndInv'
<1>1. ASSUME NEW u \in Users, NEW type \in {"sell", "buy"}, NEW total \in Amounts,
             createAd(u, a, type, total)
      PROVE  IndInv'
  <2>1. Accounts'
    BY ZenonT(60), <1>1, QuietStep DEF IndInv, Accounts, createAd, escrows
  <2>2. total \in Nat
    BY SMTT(60), Z3T(60), P2PConstants DEF Amounts
  <2>3. AdLiquidity'
    <3>1. TakenFrom(a) = {}
      BY SMTT(60), Z3T(60), <1>1 DEF IndInv, RowsLinked, EscrowFollowsOrder, TakenFrom, createAd
    <3>2. \A b \in Ads : TakenFrom(b)' = TakenFrom(b)
      BY ZenonT(60), <1>1 DEF createAd, TakenFrom, orderKeys, escrows
    <3>3. quantity' = quantity
      BY ZenonT(60), <1>1 DEF createAd, orderKeys
    <3>4. SumOf(quantity, TakenFrom(a)) = 0
      BY ZenonT(60), <3>1, SumEmpty
    <3>5. adAvailable' = [adAvailable EXCEPT ![a] = total] /\ adTotal' = [adTotal EXCEPT ![a] = total]
      BY ZenonT(60), <1>1 DEF createAd
    <3> QED
      BY SMTT(60), Z3T(60), <2>2, <3>2, <3>3, <3>4, <3>5 DEF IndInv, TypeOK, AdLiquidity, Amount
  <2>4. TypeOK'
    BY ZenonT(60), <1>1, <2>2 DEF IndInv, TypeOK, createAd, balances, orderKeys, timers, escrows
  <2>5. RowsLinked' /\ EscrowFollowsOrder'
    BY SMTT(60), Z3T(60), <1>1 DEF IndInv, TypeOK, RowsLinked, EscrowFollowsOrder, createAd, balances, orderKeys, timers, escrows
  <2> QED
    BY ZenonT(60), <2>1, <2>3, <2>4, <2>5 DEF IndInv, Accounts
<1>2. ASSUME NEW st \in {"active", "paused"}, updateAdRead(a, st)
      PROVE  IndInv'
  <2>1. Accounts' /\ AdLiquidity'
    BY ZenonT(60), <1>2, QuietStep, AdQuietStep DEF IndInv, Accounts, updateAdRead, balances, orderKeys, timers, escrows
  <2>2. TypeOK'
    BY ZenonT(60), <1>2 DEF IndInv, TypeOK, updateAdRead, balances, orderKeys, timers, escrows, OrderStatus
  <2>3. RowsLinked' /\ EscrowFollowsOrder'
    BY ZenonT(60), <1>2 DEF IndInv, TypeOK, RowsLinked, EscrowFollowsOrder, Open, updateAdRead, balances, orderKeys, timers, escrows
  <2> QED
    BY ZenonT(60), <2>1, <2>2, <2>3 DEF IndInv, Accounts
<1>3. CASE updateAdWrite(a)
  <2>1. Accounts' /\ AdLiquidity'
    BY ZenonT(60), <1>3, QuietStep, AdQuietStep DEF IndInv, Accounts, updateAdWrite, balances, orderKeys, timers, escrows
  <2>2. TypeOK'
    BY ZenonT(60), <1>3 DEF IndInv, TypeOK, updateAdWrite, balances, orderKeys, timers, escrows, OrderStatus
  <2>3. RowsLinked' /\ EscrowFollowsOrder'
    BY ZenonT(60), <1>3 DEF IndInv, TypeOK, RowsLinked, EscrowFollowsOrder, Open, updateAdWrite, balances, orderKeys, timers, escrows
  <2> QED
    BY ZenonT(60), <2>1, <2>2, <2>3 DEF IndInv, Accounts
<1>4. CASE cancelAd(a)
  <2>1. Accounts' /\ AdLiquidity'
    BY ZenonT(60), <1>4, QuietStep, AdQuietStep DEF IndInv, Accounts, cancelAd, balances, orderKeys, timers, escrows
  <2>2. TypeOK'
    BY ZenonT(60), <1>4 DEF IndInv, TypeOK, cancelAd, balances, orderKeys, timers, escrows, OrderStatus
  <2>3. RowsLinked' /\ EscrowFollowsOrder'
    BY ZenonT(60), <1>4 DEF IndInv, TypeOK, RowsLinked, EscrowFollowsOrder, Open, cancelAd, balances, orderKeys, timers, escrows
  <2> QED
    BY ZenonT(60), <2>1, <2>2, <2>3 DEF IndInv, Accounts
<1> QED
  BY ZenonT(60), <1>1, <1>2, <1>3, <1>4 DEF AdStep

\* releaseCrypto, called by the seller or by the SLA worker, preserves the invariant.
LEMMA ReleaseConfirmedInductive ==
  ASSUME IndInv, NEW o \in Orders, releaseConfirmed(o)
  PROVE  IndInv'
<1>1. status[o] \in Open /\ escrowStatus[o] = "locked"
  BY ZenonT(60), P2PConstants DEF IndInv, RowsLinked, EscrowFollowsOrder, Open, releaseConfirmed
<1>0. releaseFromEscrow(o) /\ UNCHANGED <<orderKeys, adTotal, adAvailable>>
  BY ZenonT(60), <1>1 DEF releaseConfirmed
<1>2. /\ Accounts' /\ AdLiquidity'
      /\ escrowStatus' = [escrowStatus EXCEPT ![o] = "released"]
      /\ available' \in [Users -> [Rows -> Nat]] /\ escrowed' \in [Users -> [Rows -> Nat]]
  BY ZenonT(60), <1>1, <1>0, ReleaseStep
<1>3. TypeOK'
  BY SMTT(60), Z3T(60), <1>1, <1>2 DEF IndInv, TypeOK, RowsLinked, Open, releaseConfirmed, orderKeys, timers, OrderStatus
<1>4. RowsLinked' /\ EscrowFollowsOrder'
  BY SMTT(60), Z3T(60), <1>1, <1>2 DEF IndInv, TypeOK, RowsLinked, EscrowFollowsOrder, Open, releaseConfirmed, orderKeys, timers
<1> QED
  BY ZenonT(60), <1>2, <1>3, <1>4 DEF IndInv, Accounts

\* openDispute, called by a party or by the SLA worker, preserves the invariant.
LEMMA OpenDisputeInductive ==
  ASSUME IndInv, NEW o \in Orders, openDispute(o)
  PROVE  IndInv'
<1>1. Accounts' /\ AdLiquidity'
  BY ZenonT(60), QuietStep, AdQuietStep DEF IndInv, Accounts, openDispute, balances, ads, orderKeys, timers, escrows
<1>2. TypeOK'
  BY ZenonT(60), P2PConstants DEF IndInv, TypeOK, openDispute, balances, ads, orderKeys, timers, escrows, OrderStatus
<1>3. RowsLinked' /\ EscrowFollowsOrder'
  BY SMTT(60), Z3T(60), P2PConstants DEF IndInv, TypeOK, RowsLinked, EscrowFollowsOrder, Open, openDispute, balances, ads, orderKeys, timers, escrows
<1> QED
  BY ZenonT(60), <1>1, <1>2, <1>3 DEF IndInv, Accounts

\* Every step of an order preserves the invariant.
LEMMA OrderStepInductive ==
  ASSUME IndInv, NEW o \in Orders, OrderStep(o)
  PROVE  IndInv'
<1>1. ASSUME NEW u \in Users, NEW a \in Ads, NEW q \in Amounts, createOrder(u, a, o, q)
      PROVE  IndInv'
  <2>1. Accounts' /\ AdLiquidity'
    BY ZenonT(60), <1>1, LockStep
  <2>2. adOwner[a] \in Users /\ q \in Nat /\ q \in 0 .. MaxAmount
    BY SMTT(60), Z3T(60), <1>1, P2PConstants DEF IndInv, RowsLinked, createOrder, Amounts
  <2>3. available' \in [Users -> [Rows -> Nat]] /\ escrowed' \in [Users -> [Rows -> Nat]]
    BY ZenonT(60), <1>1, LockStep
  <2>4. TypeOK'
    <3>1. /\ seller' \in [Orders -> Users \cup {NoUser}] /\ buyer' \in [Orders -> Users \cup {NoUser}]
          /\ orderAd' \in [Orders -> Ads \cup {NoAd}] /\ quantity' \in [Orders -> 0 .. MaxAmount]
      BY ZenonT(60), <1>1, <2>2 DEF IndInv, TypeOK, createOrder
    <3>2. /\ status' \in [Orders -> OrderStatus]
          /\ escrowStatus' \in [Orders -> {"none", "locked", "released", "refunded"}]
      BY ZenonT(60), <1>1 DEF IndInv, TypeOK, createOrder, moveToEscrow, OrderStatus
    <3>3. adAvailable' \in [Ads -> Nat]
      BY SMTT(60), Z3T(60), <1>1, <2>2 DEF IndInv, TypeOK, createOrder, AdCovers
    <3>4. UNCHANGED <<adOwner, adType, adTotal, adStatus, adCompleted, adUpdate, verification,
                      windowOver, slaOver, frozen, dispute>>
      BY ZenonT(60), <1>1 DEF createOrder, timers
    <3> QED
      BY ZenonT(60), <2>3, <3>1, <3>2, <3>3, <3>4 DEF IndInv, TypeOK
  <2>5. RowsLinked' /\ EscrowFollowsOrder'
    BY SMTT(60), Z3T(60), <1>1, <2>2 DEF IndInv, TypeOK, RowsLinked, EscrowFollowsOrder, Open, createOrder, moveToEscrow
  <2> QED
    BY ZenonT(60), <2>1, <2>4, <2>5 DEF IndInv, Accounts
<1>2. CASE confirmPayment(o)
  <2>1. Accounts' /\ AdLiquidity'
    BY ZenonT(60), <1>2, QuietStep, AdQuietStep DEF IndInv, Accounts, confirmPayment, balances, ads, orderKeys, timers, escrows
  <2>2. TypeOK'
    BY ZenonT(60), <1>2, P2PConstants DEF IndInv, TypeOK, confirmPayment, balances, ads, orderKeys, timers, escrows, OrderStatus
  <2>3. RowsLinked' /\ EscrowFollowsOrder'
    BY SMTT(60), Z3T(60), <1>2, P2PConstants DEF IndInv, TypeOK, RowsLinked, EscrowFollowsOrder, Open, confirmPayment, balances, ads, orderKeys, timers, escrows
  <2> QED
    BY ZenonT(60), <2>1, <2>2, <2>3 DEF IndInv, Accounts
<1>3. CASE sellerVerifyPayment(o)
  <2>1. Accounts' /\ AdLiquidity'
    BY ZenonT(60), <1>3, QuietStep, AdQuietStep DEF IndInv, Accounts, sellerVerifyPayment, balances, ads, orderKeys, timers, escrows
  <2>2. TypeOK'
    BY ZenonT(60), <1>3, P2PConstants DEF IndInv, TypeOK, sellerVerifyPayment, balances, ads, orderKeys, timers, escrows, OrderStatus
  <2>3. RowsLinked' /\ EscrowFollowsOrder'
    BY ZenonT(60), <1>3, P2PConstants DEF IndInv, TypeOK, RowsLinked, EscrowFollowsOrder, Open, sellerVerifyPayment, balances, ads, orderKeys, timers, escrows
  <2> QED
    BY ZenonT(60), <2>1, <2>2, <2>3 DEF IndInv, Accounts
<1>4. CASE releaseCrypto(o)
  BY ZenonT(60), <1>4, ReleaseConfirmedInductive DEF releaseCrypto
<1>5. CASE cancelOrder(o)
  <2>1. status[o] \in Open /\ escrowStatus[o] = "locked"
    BY ZenonT(60), <1>5, P2PConstants DEF IndInv, RowsLinked, EscrowFollowsOrder, Open, cancelOrder, restoreLiquidity, CANCELLABLE_STATUSES
  <2>0. refundFromEscrow(o) /\ UNCHANGED <<orderKeys, adTotal>>
        /\ adAvailable' = [adAvailable EXCEPT ![orderAd[o]] = @ + quantity[o]]
    BY ZenonT(60), <1>5, <2>1 DEF cancelOrder, restoreLiquidity, CANCELLABLE_STATUSES
  <2>2. /\ Accounts' /\ AdLiquidity'
        /\ escrowStatus' = [escrowStatus EXCEPT ![o] = "refunded"]
        /\ available' \in [Users -> [Rows -> Nat]] /\ escrowed' \in [Users -> [Rows -> Nat]] /\ adAvailable' \in [Ads -> Nat]
    BY ZenonT(60), <2>1, <2>0, RefundStep
  <2>3. TypeOK'
    BY ZenonT(60), <1>5, <2>1, <2>2 DEF IndInv, TypeOK, RowsLinked, Open, cancelOrder, restoreLiquidity, CANCELLABLE_STATUSES, orderKeys, timers, OrderStatus
  <2>4. RowsLinked' /\ EscrowFollowsOrder'
    BY ZenonT(60), <1>5, <2>1, <2>2 DEF IndInv, TypeOK, RowsLinked, EscrowFollowsOrder, Open, cancelOrder, restoreLiquidity, CANCELLABLE_STATUSES, orderKeys, timers
  <2> QED
    BY ZenonT(60), <2>2, <2>3, <2>4 DEF IndInv, Accounts
<1>6. CASE openDispute(o)
  BY ZenonT(60), <1>6, OpenDisputeInductive
<1>7. CASE resolveForBuyer(o)
  <2>1. status[o] \in Open /\ escrowStatus[o] = "locked"
    BY ZenonT(60), <1>7, P2PConstants DEF IndInv, RowsLinked, EscrowFollowsOrder, Open, resolveForBuyer
  <2>0. releaseFromEscrow(o) /\ UNCHANGED <<orderKeys, adTotal, adAvailable>>
    BY ZenonT(60), <1>7, <2>1 DEF resolveForBuyer, ads
  <2>2. /\ Accounts' /\ AdLiquidity'
        /\ escrowStatus' = [escrowStatus EXCEPT ![o] = "released"]
        /\ available' \in [Users -> [Rows -> Nat]] /\ escrowed' \in [Users -> [Rows -> Nat]]
    BY ZenonT(60), <2>1, <2>0, ReleaseStep
  <2>3. TypeOK'
    BY ZenonT(60), <1>7, <2>1, <2>2 DEF IndInv, TypeOK, RowsLinked, Open, resolveForBuyer, ads, orderKeys, timers, OrderStatus
  <2>4. RowsLinked' /\ EscrowFollowsOrder'
    BY SMTT(60), Z3T(60), <1>7, <2>1, <2>2 DEF IndInv, TypeOK, RowsLinked, EscrowFollowsOrder, Open, resolveForBuyer, ads, orderKeys, timers
  <2> QED
    BY ZenonT(60), <2>2, <2>3, <2>4 DEF IndInv, Accounts
<1>8. CASE resolveForSeller(o)
  <2>1. status[o] \in Open /\ escrowStatus[o] = "locked"
    BY ZenonT(60), <1>8, P2PConstants DEF IndInv, RowsLinked, EscrowFollowsOrder, Open, resolveForSeller, restoreLiquidity
  <2>0. refundFromEscrow(o) /\ UNCHANGED <<orderKeys, adTotal>>
        /\ adAvailable' = [adAvailable EXCEPT ![orderAd[o]] = @ + quantity[o]]
    BY ZenonT(60), <1>8, <2>1 DEF resolveForSeller, restoreLiquidity
  <2>2. /\ Accounts' /\ AdLiquidity'
        /\ escrowStatus' = [escrowStatus EXCEPT ![o] = "refunded"]
        /\ available' \in [Users -> [Rows -> Nat]] /\ escrowed' \in [Users -> [Rows -> Nat]] /\ adAvailable' \in [Ads -> Nat]
    BY ZenonT(60), <2>1, <2>0, RefundStep
  <2>3. TypeOK'
    BY ZenonT(60), <1>8, <2>1, <2>2 DEF IndInv, TypeOK, RowsLinked, Open, resolveForSeller, restoreLiquidity, orderKeys, timers, OrderStatus
  <2>4. RowsLinked' /\ EscrowFollowsOrder'
    BY SMTT(60), Z3T(60), <1>8, <2>1, <2>2 DEF IndInv, TypeOK, RowsLinked, EscrowFollowsOrder, Open, resolveForSeller, restoreLiquidity, orderKeys, timers
  <2> QED
    BY ZenonT(60), <2>2, <2>3, <2>4 DEF IndInv, Accounts
<1>9. CASE freezeEscrow(o)
  <2>1. Accounts' /\ AdLiquidity'
    BY ZenonT(60), <1>9, QuietStep, AdQuietStep DEF IndInv, Accounts, freezeEscrow, balances, ads, orderKeys, timers
  <2>2. TypeOK'
    BY ZenonT(60), <1>9, P2PConstants DEF IndInv, TypeOK, freezeEscrow, balances, ads, orderKeys, timers, OrderStatus
  <2>3. RowsLinked' /\ EscrowFollowsOrder'
    BY SMTT(60), Z3T(60), <1>9, P2PConstants DEF IndInv, TypeOK, RowsLinked, EscrowFollowsOrder, Open, freezeEscrow, balances, ads, orderKeys, timers
  <2> QED
    BY ZenonT(60), <2>1, <2>2, <2>3 DEF IndInv, Accounts
<1>10. CASE unfreezeEscrow(o)
  <2>1. Accounts' /\ AdLiquidity'
    BY ZenonT(60), <1>10, QuietStep, AdQuietStep DEF IndInv, Accounts, unfreezeEscrow, balances, ads, orderKeys, timers
  <2>2. TypeOK'
    BY ZenonT(60), <1>10, P2PConstants DEF IndInv, TypeOK, unfreezeEscrow, balances, ads, orderKeys, timers, OrderStatus
  <2>3. RowsLinked' /\ EscrowFollowsOrder'
    BY SMTT(60), Z3T(60), <1>10, P2PConstants DEF IndInv, TypeOK, RowsLinked, EscrowFollowsOrder, Open, unfreezeEscrow, balances, ads, orderKeys, timers
  <2> QED
    BY ZenonT(60), <2>1, <2>2, <2>3 DEF IndInv, Accounts
<1>11. CASE processExpiredOrder(o)
  <2>1. status[o] = "payment_pending" /\ status[o] \in Open /\ escrowStatus[o] = "locked"
    BY ZenonT(60), <1>11, ExpiryTakesUnpaid DEF IndInv, EscrowFollowsOrder, Open, processExpiredOrder
  <2>0. refundFromEscrow(o) /\ UNCHANGED <<orderKeys, adTotal>>
        /\ adAvailable' = [adAvailable EXCEPT ![orderAd[o]] = @ + quantity[o]]
    BY ZenonT(60), <1>11, <2>1 DEF processExpiredOrder
  <2>2. /\ Accounts' /\ AdLiquidity'
        /\ escrowStatus' = [escrowStatus EXCEPT ![o] = "refunded"]
        /\ available' \in [Users -> [Rows -> Nat]] /\ escrowed' \in [Users -> [Rows -> Nat]] /\ adAvailable' \in [Ads -> Nat]
    BY ZenonT(60), <2>1, <2>0, RefundStep
  <2>3. TypeOK'
    BY ZenonT(60), <1>11, <2>1, <2>2 DEF IndInv, TypeOK, RowsLinked, Open, processExpiredOrder, orderKeys, timers, OrderStatus
  <2>4. RowsLinked' /\ EscrowFollowsOrder'
    BY ZenonT(60), <1>11, <2>1, <2>2 DEF IndInv, TypeOK, RowsLinked, EscrowFollowsOrder, Open, processExpiredOrder, orderKeys, timers
  <2> QED
    BY ZenonT(60), <2>2, <2>3, <2>4 DEF IndInv, Accounts
<1>12. CASE runP2PSlaTick(o)
  BY ZenonT(60), <1>12, ReleaseConfirmedInductive, OpenDisputeInductive DEF runP2PSlaTick
<1>13. CASE PaymentWindowEnds(o)
  <2>1. Accounts' /\ AdLiquidity'
    BY ZenonT(60), <1>13, QuietStep, AdQuietStep DEF IndInv, Accounts, PaymentWindowEnds, balances, ads, orderKeys, escrows
  <2>2. TypeOK'
    BY ZenonT(60), <1>13, P2PConstants DEF IndInv, TypeOK, PaymentWindowEnds, balances, ads, orderKeys, escrows, OrderStatus
  <2>3. RowsLinked' /\ EscrowFollowsOrder'
    BY ZenonT(60), <1>13, P2PConstants DEF IndInv, TypeOK, RowsLinked, EscrowFollowsOrder, Open, PaymentWindowEnds, balances, ads, orderKeys, escrows
  <2> QED
    BY ZenonT(60), <2>1, <2>2, <2>3 DEF IndInv, Accounts
<1>14. CASE SlaWindowEnds(o)
  <2>1. Accounts' /\ AdLiquidity'
    BY ZenonT(60), <1>14, QuietStep, AdQuietStep DEF IndInv, Accounts, SlaWindowEnds, balances, ads, orderKeys, escrows
  <2>2. TypeOK'
    BY ZenonT(60), <1>14, P2PConstants DEF IndInv, TypeOK, SlaWindowEnds, balances, ads, orderKeys, escrows, OrderStatus
  <2>3. RowsLinked' /\ EscrowFollowsOrder'
    BY ZenonT(60), <1>14, P2PConstants DEF IndInv, TypeOK, RowsLinked, EscrowFollowsOrder, Open, SlaWindowEnds, balances, ads, orderKeys, escrows
  <2> QED
    BY ZenonT(60), <2>1, <2>2, <2>3 DEF IndInv, Accounts
<1> QED
  BY ZenonT(60), <1>1, <1>2, <1>3, <1>4, <1>5, <1>6, <1>7, <1>8, <1>9, <1>10, <1>11, <1>12, <1>13, <1>14 DEF OrderStep

\* The initial state satisfies the invariant: nobody has anything in escrow.
LEMMA InitInv ==
  Init => IndInv
<1> SUFFICES ASSUME Init
             PROVE  IndInv
  BY ZenonT(60)
<1>1. TypeOK
  BY SMTT(60), Z3T(60), P2PConstants DEF Init, TypeOK, OrderStatus
<1>2. RowsLinked /\ EscrowFollowsOrder
  BY ZenonT(60) DEF Init, RowsLinked, EscrowFollowsOrder, Open
<1>3. \A x : LockedOf(x) = {} /\ SoldBy(x) = {} /\ BoughtBy(x) = {} /\ TakenFrom(x) = {}
  BY ZenonT(60) DEF Init, LockedOf, SoldBy, BoughtBy, TakenFrom
<1>4. \A x : /\ Amount(LockedOf(x)) = 0 /\ Amount(SoldBy(x)) = 0
             /\ Amount(BoughtBy(x)) = 0 /\ Amount(TakenFrom(x)) = 0
  <2>1. SumOf(quantity, {}) = 0
    BY ZenonT(60), SumEmpty
  <2> QED
    BY ZenonT(60), <1>3, <2>1 DEF Amount
<1>5. EscrowBacksOrders
  BY SMTT(60), Z3T(60), <1>4 DEF Init, EscrowBacksOrders, Rows
<1>6. FundsConserved
  <2> SUFFICES ASSUME NEW u \in Users
               PROVE  RowFunds(u, "chain") + RowFunds(u, "global") + 0
                        = InitialAvailable[u]["chain"] + InitialAvailable[u]["global"] + 0
    BY ZenonT(60), <1>4 DEF FundsConserved
  <2>1. InitialAvailable[u]["chain"] \in Nat /\ InitialAvailable[u]["global"] \in Nat
    BY ZenonT(60), P2PConstants DEF Rows
  <2>2. RowFunds(u, "chain") = InitialAvailable[u]["chain"] + 0
        /\ RowFunds(u, "global") = InitialAvailable[u]["global"] + 0
    BY ZenonT(60) DEF Init, RowFunds, Rows
  <2> QED
    BY SMTT(60), Z3T(60), <2>1, <2>2
<1>7. AdLiquidity
  BY SMTT(60), Z3T(60), <1>4 DEF Init, AdLiquidity
<1> QED
  BY ZenonT(60), <1>1, <1>2, <1>5, <1>6, <1>7 DEF IndInv

\* Stuttering preserves the invariant.
LEMMA StutterInv ==
  ASSUME IndInv, UNCHANGED vars
  PROVE  IndInv'
<1>1. Accounts' /\ AdLiquidity'
  BY ZenonT(60), QuietStep, AdQuietStep DEF IndInv, Accounts, vars, escrows, ads
<1>2. TypeOK' /\ RowsLinked' /\ EscrowFollowsOrder'
  BY ZenonT(60) DEF IndInv, TypeOK, RowsLinked, EscrowFollowsOrder, vars, balances, ads, orderKeys, timers, escrows
<1> QED
  BY ZenonT(60), <1>1, <1>2 DEF IndInv, Accounts

\* IndInv, which includes type correctness, the agreement of order and escrow, the
\* escrow and balance accounts and the ads' liquidity, holds of every reachable
\* state, for any number of users, ads and orders.
THEOREM InvariantHolds == Spec => []IndInv
<1>1. IndInv /\ [Next]_vars => IndInv'
  BY ZenonT(60), AdStepInductive, OrderStepInductive, StutterInv DEF Next
<1> QED
  BY InitInv, <1>1, PTL DEF Spec

\* Every row keeps the type of its columns: no balance, escrow or liquidity goes
\* below zero.
THEOREM TypeOKHolds == Spec => []TypeOK
BY InvariantHolds, PTL DEF IndInv

\* Completed orders paid the buyer, cancelled and expired ones the seller, and open
\* ones are still locked, whatever the interleaving of users, admins and workers.
THEOREM EscrowFollowsOrderHolds == Spec => []EscrowFollowsOrder
BY InvariantHolds, PTL DEF IndInv

\* No interleaving creates or destroys crypto: each user's funds are the initial
\* ones plus bought minus sold.
THEOREM FundsConservedHolds == Spec => []FundsConserved
BY InvariantHolds, PTL DEF IndInv

\* A seller's escrow_balance is the sum of the seller's locked escrows.
THEOREM EscrowBacksOrdersHolds == Spec => []EscrowBacksOrders
BY InvariantHolds, PTL DEF IndInv

\* An ad's available_amount never exceeds its total, although the expiry worker
\* restores liquidity without comparing.
THEOREM AdLiquidityHolds == Spec => []AdLiquidity
BY InvariantHolds, PTL DEF IndInv

\* What a step does to one escrow: it stays as it is, or it is locked by
\* createOrder, or it is paid out while it is not frozen, and a refund comes from
\* an unpaid order or from an open dispute.
LEMMA EscrowMoves ==
  ASSUME IndInv, Next, NEW o \in Orders
  PROVE  \/ escrowStatus'[o] = escrowStatus[o]
         \/ status[o] = "none" /\ escrowStatus'[o] = "locked"
         \/ ~frozen[o] /\ escrowStatus[o] = "locked" /\ escrowStatus'[o] = "released"
         \/ /\ ~frozen[o] /\ escrowStatus[o] = "locked" /\ escrowStatus'[o] = "refunded"
            /\ status[o] = "payment_pending" \/ dispute[o] = "open"
<1>1. ASSUME NEW a \in Ads, AdStep(a)
      PROVE  escrowStatus'[o] = escrowStatus[o]
  BY ZenonT(60), <1>1 DEF AdStep, createAd, updateAdRead, updateAdWrite, cancelAd, escrows
<1>2. ASSUME NEW p \in Orders, releaseFromEscrow(p)
      PROVE  \/ escrowStatus'[o] = escrowStatus[o]
             \/ ~frozen[o] /\ escrowStatus[o] = "locked" /\ escrowStatus'[o] = "released"
  BY SMTT(60), Z3T(60), <1>2 DEF IndInv, TypeOK, releaseFromEscrow, payOut
<1>3. ASSUME NEW p \in Orders, refundFromEscrow(p)
      PROVE  \/ escrowStatus'[o] = escrowStatus[o]
             \/ p = o /\ ~frozen[o] /\ escrowStatus[o] = "locked" /\ escrowStatus'[o] = "refunded"
  BY SMTT(60), Z3T(60), <1>3 DEF IndInv, TypeOK, refundFromEscrow, payOut
<1>4. ASSUME NEW p \in Orders, OrderStep(p),
             \A u \in Users, a \in Ads, q \in Amounts : ~createOrder(u, a, p, q)
      PROVE  \/ escrowStatus'[o] = escrowStatus[o]
             \/ releaseFromEscrow(p)
             \/ refundFromEscrow(p) /\ (status[p] = "payment_pending" \/ dispute[p] = "open")
  BY ZenonT(60), <1>4, ExpiryTakesUnpaid DEF IndInv, OrderStep, confirmPayment, sellerVerifyPayment, releaseCrypto, releaseConfirmed,
     cancelOrder, CANCELLABLE_STATUSES, openDispute, resolveForBuyer, resolveForSeller,
     freezeEscrow, unfreezeEscrow, processExpiredOrder, runP2PSlaTick,
     PaymentWindowEnds, SlaWindowEnds, escrows
<1>5. ASSUME NEW p \in Orders, NEW u \in Users, NEW a \in Ads, NEW q \in Amounts,
             createOrder(u, a, p, q)
      PROVE  \/ escrowStatus'[o] = escrowStatus[o]
             \/ status[o] = "none" /\ escrowStatus'[o] = "locked"
  BY ZenonT(60), <1>5 DEF IndInv, TypeOK, createOrder, moveToEscrow
<1> QED
  BY ZenonT(60), <1>1, <1>2, <1>3, <1>4, <1>5 DEF Next

\* A refund of a paid order comes out of a dispute, for every instance.
THEOREM PaidRefundNeedsDisputeHolds == Spec => PaidRefundNeedsDispute
<1> DEFINE A == \A o \in Orders :
                  /\ escrowStatus[o] = "locked" /\ escrowStatus'[o] = "refunded"
                  /\ status[o] # "payment_pending"
                  => status[o] = "disputed" /\ dispute[o] = "open"
<1>1. IndInv /\ [Next]_vars => [A]_vars
  BY ZenonT(60), EscrowMoves DEF IndInv, RowsLinked
<1>2. PaidRefundNeedsDispute <=> [][A]_vars
  BY ZenonT(60) DEF PaidRefundNeedsDispute
<1> HIDE DEF A
<1> QED
  BY <1>1, <1>2, InvariantHolds, PTL DEF Spec

\* A frozen escrow does not move, for every instance.
THEOREM FreezeHoldsAlways == Spec => FreezeHolds
<1> DEFINE A == \A o \in Orders : frozen[o] => escrowStatus'[o] = escrowStatus[o]
<1>1. IndInv /\ [Next]_vars => [A]_vars
  BY ZenonT(60), EscrowMoves DEF IndInv, RowsLinked
<1>2. FreezeHolds <=> [][A]_vars
  BY ZenonT(60) DEF FreezeHolds
<1> HIDE DEF A
<1> QED
  BY <1>1, <1>2, InvariantHolds, PTL DEF Spec

\* A payout of order o is a settlement of deal o.
LEMMA PayOutSettles ==
  ASSUME IndInv, NEW o \in Orders, status[o] \in Open, NEW w \in Users, NEW outcome, NEW result,
         \/ outcome = "released" /\ result = "paid"
         \/ outcome = "refunded" /\ result = "returned",
         payOut(o, w, outcome), UNCHANGED orderKeys
  PROVE  Contract!Settle(o, w, result)
<1>1. escrowStatus[o] = "locked" /\ quantity[o] \in Nat
  BY SMTT(60), Z3T(60), P2PConstants DEF IndInv, EscrowFollowsOrder, TypeOK, Open
<1>2. DealState[o] = "held"
  BY ZenonT(60), <1>1 DEF DealState
<1>3. DealState' = [DealState EXCEPT ![o] = result]
  BY ZenonT(60), <1>1 DEF IndInv, TypeOK, payOut, DealState
<1>4. Spendable' = [Spendable EXCEPT ![w] = @ + quantity[o]]
  <2>1. \A u \in Users : /\ available[u]["chain"] \in Nat /\ available[u]["global"] \in Nat
                         /\ available'[u]["chain"] = available[u]["chain"]
                         /\ available'[u]["global"]
                              = IF u = w THEN available[u]["global"] + quantity[o]
                                         ELSE available[u]["global"]
    BY SMTT(60), Z3T(60) DEF IndInv, TypeOK, Rows, payOut
  <2>2. \A u \in Users : Spendable'[u] = IF u = w THEN Spendable[u] + quantity[o] ELSE Spendable[u]
    BY SMTT(60), Z3T(60), <1>1, <2>1 DEF Spendable
  <2> QED
    BY ZenonT(60), <2>2 DEF Spendable
<1> QED
  BY ZenonT(60), <1>2, <1>3, <1>4 DEF Contract!Settle, orderKeys

\* createOrder holds the deal of the new order.
LEMMA CreateOrderHolds ==
  ASSUME IndInv, NEW u \in Users, NEW a \in Ads, NEW o \in Orders, NEW q \in Amounts,
         createOrder(u, a, o, q)
  PROVE  \E s, b \in Users : s # b /\ Contract!Hold(o, s, b, q)
<1> DEFINE s == seller'[o]
           b == buyer'[o]
           r == DebitRow(s, q)
<1>1. adOwner[a] \in Users /\ adOwner[a] # u /\ q \in Nat /\ escrowStatus[o] = "none" /\ r \in Rows
  <2>1. adOwner[a] \in Users /\ adOwner[a] # u /\ status[o] = "none"
    BY ZenonT(60) DEF IndInv, RowsLinked, createOrder
  <2>2. escrowStatus[o] = "none"
    BY ZenonT(60), <2>1 DEF IndInv, EscrowFollowsOrder
  <2>3. q \in Nat
    BY SMTT(60), Z3T(60), P2PConstants DEF Amounts
  <2>4. r \in Rows
    BY ZenonT(60) DEF DebitRow, Rows
  <2> QED  BY ZenonT(60), <2>4, <2>1, <2>2, <2>3
<1>2. /\ s \in Users /\ b \in Users /\ s # b
      /\ seller' = [seller EXCEPT ![o] = s] /\ buyer' = [buyer EXCEPT ![o] = b]
      /\ quantity' = [quantity EXCEPT ![o] = q]
      /\ escrowStatus' = [escrowStatus EXCEPT ![o] = "locked"]
      /\ available' = [available EXCEPT ![s][r] = @ - q] /\ available[s][r] >= q
  BY ZenonT(60), <1>1 DEF IndInv, TypeOK, createOrder, moveToEscrow
<1> HIDE DEF s, b, r
<1>3. DealState[o] = "idle" /\ DealState' = [DealState EXCEPT ![o] = "held"]
  BY ZenonT(60), <1>1, <1>2 DEF IndInv, TypeOK, DealState
<1>4. Spendable[s] >= q /\ Spendable' = [Spendable EXCEPT ![s] = @ - q]
  <2>1. \A v \in Users, x \in Rows :
          /\ available[v][x] \in Nat
          /\ available'[v][x] = IF v = s /\ x = r THEN available[v][x] - q ELSE available[v][x]
    BY ZenonT(60), <1>1, <1>2 DEF IndInv, TypeOK
  <2>2. "chain" \in Rows /\ "global" \in Rows /\ (r = "chain" \/ r = "global")
    BY ZenonT(60), <1>1 DEF Rows
  <2>3. \A v \in Users : available'[v]["chain"] + available'[v]["global"]
          = IF v = s THEN (available[v]["chain"] + available[v]["global"]) - q
                     ELSE available[v]["chain"] + available[v]["global"]
    <3> TAKE v \in Users
    <3>1. available[v]["chain"] \in Nat /\ available[v]["global"] \in Nat
      BY ZenonT(60), <2>1, <2>2
    <3>2. CASE v # s
      BY ZenonT(60), <2>1, <2>2, <3>2
    <3>3. CASE v = s /\ r = "chain"
      BY SMTT(60), Z3T(60), <1>1, <2>1, <2>2, <3>1, <3>3
    <3>4. CASE v = s /\ r = "global"
      BY SMTT(60), Z3T(60), <1>1, <2>1, <2>2, <3>1, <3>4
    <3> QED
      BY ZenonT(60), <2>2, <3>2, <3>3, <3>4
  <2>4. available[s]["chain"] + available[s]["global"] >= q
    BY SMTT(60), Z3T(60), <1>1, <1>2, <2>1, <2>2
  <2> QED
    BY ZenonT(60), <1>2, <2>3, <2>4 DEF Spendable
<1>5. Contract!Hold(o, s, b, q)
  BY ZenonT(60), <1>2, <1>3, <1>4 DEF Contract!Hold
<1> QED
  BY ZenonT(60), <1>2, <1>5

\* The P2P services implement the escrow contract for every number of users, ads
\* and orders: initial states map to initial states and every step to a step of the
\* contract or a stutter.
THEOREM KeepsContractHolds == Spec => KeepsContract
<1> DEFINE quiet == UNCHANGED <<DealState, seller, buyer, quantity, Spendable>>
           step == \E d \in Orders : Contract!DealStep(d)
<1>1. Init => Contract!Start
  BY SMTT(60), Z3T(60), P2PConstants DEF Init, Contract!Start, DealState, Spendable, Rows
<1>2. ASSUME IndInv, [Next]_vars
      PROVE  step \/ quiet
  <2>1. ASSUME UNCHANGED <<available, escrowStatus, orderKeys>>
        PROVE  quiet
    BY SMTT(60), Z3T(60), <2>1 DEF DealState, Spendable, orderKeys
  <2>2. ASSUME NEW o \in Orders, status[o] \in Open, releaseFromEscrow(o), UNCHANGED orderKeys
        PROVE  step
    <3>1. escrowStatus[o] = "locked" /\ buyer[o] \in Users
      BY ZenonT(60), <1>2, <2>2 DEF IndInv, EscrowFollowsOrder, RowsLinked, Open
    <3>2. Contract!Settle(o, buyer[o], "paid")
      BY ZenonT(60), <1>2, <2>2, <3>1, PayOutSettles DEF releaseFromEscrow
    <3> QED
      BY ZenonT(60), <3>2 DEF Contract!DealStep
  <2>3. ASSUME NEW o \in Orders, status[o] \in Open, refundFromEscrow(o), UNCHANGED orderKeys
        PROVE  step
    <3>1. escrowStatus[o] = "locked" /\ seller[o] \in Users
      BY ZenonT(60), <1>2, <2>3 DEF IndInv, EscrowFollowsOrder, RowsLinked, Open
    <3>2. Contract!Settle(o, seller[o], "returned")
      BY ZenonT(60), <1>2, <2>3, <3>1, PayOutSettles DEF refundFromEscrow
    <3> QED
      BY ZenonT(60), <3>2 DEF Contract!DealStep
  <2>4. ASSUME NEW a \in Ads, AdStep(a)
        PROVE  quiet
    BY ZenonT(60), <2>1, <2>4 DEF AdStep, createAd, updateAdRead, updateAdWrite, cancelAd, balances, escrows
  <2>5. ASSUME NEW o \in Orders, NEW u \in Users, NEW a \in Ads, NEW q \in Amounts,
               createOrder(u, a, o, q)
        PROVE  step
    BY ZenonT(60), <1>2, <2>5, CreateOrderHolds DEF Contract!DealStep
  <2>6. ASSUME NEW o \in Orders, OrderStep(o),
               \A u \in Users, a \in Ads, q \in Amounts : ~createOrder(u, a, o, q)
        PROVE  step \/ quiet
    <3>1. CASE releaseFromEscrow(o) /\ UNCHANGED orderKeys /\ status[o] \in Open
      BY ZenonT(60), <2>2, <3>1
    <3>2. CASE refundFromEscrow(o) /\ UNCHANGED orderKeys /\ status[o] \in Open
      BY ZenonT(60), <2>3, <3>2
    <3>3. CASE UNCHANGED <<available, escrowStatus, orderKeys>>
      BY ZenonT(60), <2>1, <3>3
    <3>4. /\ dispute[o] = "open" => status[o] \in Open
          /\ status[o] \in {"payment_pending", "payment_confirmed"} => status[o] \in Open
      BY ZenonT(60), <1>2 DEF IndInv, RowsLinked, Open
    <3> HIDE DEF quiet, step
    <3> QED
      BY ZenonT(60), <1>2, <2>6, <3>1, <3>2, <3>3, <3>4, ExpiryTakesUnpaid
         DEF IndInv, OrderStep, confirmPayment, sellerVerifyPayment, releaseCrypto,
             releaseConfirmed, cancelOrder, CANCELLABLE_STATUSES, openDispute, resolveForBuyer, resolveForSeller,
             freezeEscrow, unfreezeEscrow, processExpiredOrder,
             runP2PSlaTick, PaymentWindowEnds, SlaWindowEnds, balances, escrows
  <2>7. CASE UNCHANGED vars
    BY ZenonT(60), <2>1, <2>7 DEF vars, balances, escrows
  <2> HIDE DEF quiet, step
  <2> QED
    BY ZenonT(60), <1>2, <2>4, <2>5, <2>6, <2>7 DEF Next
<1>3. KeepsContract <=> Contract!Start /\ [][step]_<<DealState, seller, buyer, quantity, Spendable>>
  BY ZenonT(60) DEF KeepsContract, Contract!ContractSpec, Contract!contractVars
<1> HIDE DEF step
<1> QED
  BY <1>1, <1>2, <1>3, InvariantHolds, PTL DEF Spec

\* A step changes the status of orders that have not ended only: a dispute that is
\* open is about a disputed order, and the workers take paid or unpaid ones.
LEMMA StatusMoves ==
  ASSUME IndInv, Next
  PROVE  \/ status' = status
         \/ \E o \in Orders, s \in OrderStatus :
              status[o] \notin Ended /\ status' = [status EXCEPT ![o] = s]
<1>1. ASSUME NEW a \in Ads, AdStep(a)
      PROVE  status' = status
  BY ZenonT(60), <1>1 DEF AdStep, createAd, updateAdRead, updateAdWrite, cancelAd
<1>2. ASSUME NEW o \in Orders, OrderStep(o)
      PROVE  \/ status' = status
             \/ status[o] \notin Ended /\ \E s \in OrderStatus : status' = [status EXCEPT ![o] = s]
  <2>1. ASSUME status[o] \in {"none", "payment_pending", "payment_confirmed", "disputed"}
        PROVE  status[o] \notin Ended
    BY ZenonT(60), <2>1 DEF Ended
  <2>2. dispute[o] = "open" => status[o] = "disputed"
    BY ZenonT(60) DEF IndInv, RowsLinked
  <2>3. o \in ExpiryPage => status[o] = "payment_pending"
    BY ZenonT(60), ExpiryTakesUnpaid DEF IndInv
  <2>4. CASE (\E u \in Users, a \in Ads, q \in Amounts : createOrder(u, a, o, q))
             \/ confirmPayment(o) \/ openDispute(o) \/ releaseConfirmed(o)
    BY ZenonT(60), <2>1, <2>4 DEF createOrder, confirmPayment, openDispute, releaseConfirmed,
       OrderStatus
  <2>5. CASE cancelOrder(o) \/ processExpiredOrder(o)
    BY ZenonT(60), <2>1, <2>3, <2>5 DEF cancelOrder, CANCELLABLE_STATUSES, processExpiredOrder,
       OrderStatus
  <2>6. CASE resolveForBuyer(o) \/ resolveForSeller(o)
    BY ZenonT(60), <2>1, <2>2, <2>6 DEF resolveForBuyer, resolveForSeller, OrderStatus
  <2>7. CASE sellerVerifyPayment(o) \/ freezeEscrow(o) \/ unfreezeEscrow(o)
             \/ PaymentWindowEnds(o) \/ SlaWindowEnds(o)
    BY ZenonT(60), <2>7 DEF sellerVerifyPayment, freezeEscrow, unfreezeEscrow, PaymentWindowEnds,
       SlaWindowEnds
  <2> QED
    BY ZenonT(60), <1>2, <2>4, <2>5, <2>6, <2>7 DEF OrderStep, releaseCrypto, runP2PSlaTick
<1> QED
  BY ZenonT(60), <1>1, <1>2 DEF Next

\* An order that ended is final, and so is what became of its escrow, for every
\* instance.
THEOREM EndedOrderIsFinalHolds == Spec => EndedOrderIsFinal
<1> DEFINE A == \A o \in Orders : status[o] \in Ended =>
                  status'[o] = status[o] /\ escrowStatus'[o] = escrowStatus[o]
<1>1. IndInv /\ [Next]_vars => [A]_vars
  <2> SUFFICES ASSUME IndInv, Next, NEW o \in Orders, status[o] \in Ended
               PROVE  status'[o] = status[o] /\ escrowStatus'[o] = escrowStatus[o]
    BY ZenonT(60)
  <2>1. status'[o] = status[o]
    BY ZenonT(60), StatusMoves DEF IndInv, TypeOK
  <2>2. escrowStatus[o] # "locked" /\ status[o] # "none"
    BY ZenonT(60) DEF IndInv, EscrowFollowsOrder, Ended
  <2> QED
    BY ZenonT(60), <2>1, <2>2, EscrowMoves
<1>2. EndedOrderIsFinal <=> [][A]_vars
  BY ZenonT(60) DEF EndedOrderIsFinal
<1> HIDE DEF A
<1> QED
  BY <1>1, <1>2, InvariantHolds, PTL DEF Spec
============================================================================
