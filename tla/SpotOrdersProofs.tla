-------------------------- MODULE SpotOrdersProofs --------------------------
(***************************************************************************)
(* Proofs about SpotOrders: SpotInv is inductive for any finite set of     *)
(* orders, any portfolios, quantities and prices, and the properties of    *)
(* SpotOrders follow from it.                                              *)
(***************************************************************************)
EXTENDS SpotOrders, FiniteSetTheorems, TLAPS

\* The units of a single row are as many as its value.
LEMMA BlockSize ==
  ASSUME NEW x, NEW n \in Nat
  PROVE  IsFiniteSet({x} \X (1 .. n)) /\ Cardinality({x} \X (1 .. n)) = n
<1>1. IsFiniteSet(1 .. n) /\ Cardinality(1 .. n) = n
  BY SMTT(60), Z3T(60), FS_Interval
<1>2. IsFiniteSet({x}) /\ Cardinality({x}) = 1
  BY ZenonT(60), FS_Singleton
<1>3. /\ IsFiniteSet({x} \X (1 .. n))
      /\ Cardinality({x} \X (1 .. n)) = Cardinality({x}) * Cardinality(1 .. n)
  BY ONLY <1>1, <1>2, FS_Product, ZenonT(60)
<1> QED
  BY SMTT(60), Z3T(60), <1>1, <1>2, <1>3

\* Over a finite set of rows the units are finite in number, so a sum is a
\* natural number.
LEMMA SumType ==
  ASSUME NEW S, IsFiniteSet(S), NEW q, \A x \in S : q[x] \in Nat
  PROVE  IsFiniteSet(UnitsOf(q, S)) /\ SumOf(q, S) \in Nat
<1> DEFINE Block(x) == {x} \X (1 .. q[x])
           Blocks == {Block(x) : x \in S}
<1>1. IsFiniteSet(Blocks)
  <2> DEFINE f == [x \in S |-> Block(x)]
  <2>1. f \in Surjection(S, Blocks)
    BY ZenonT(60) DEF Surjection
  <2> QED
    BY ZenonT(60), <2>1, FS_Surjection
<1>2. \A B \in Blocks : IsFiniteSet(B)
  <2> SUFFICES ASSUME NEW x \in S
               PROVE  IsFiniteSet(Block(x))
    BY ZenonT(60)
  <2>1. q[x] \in Nat
    BY ZenonT(60)
  <2> QED
    BY ZenonT(60), <2>1, BlockSize
<1>3. IsFiniteSet(UnitsOf(q, S))
  BY ZenonT(60), <1>1, <1>2, FS_UNION DEF UnitsOf
<1> QED
  BY ZenonT(60), <1>3, FS_CardinalityType DEF SumOf

\* A row that is not yet in the set adds its value.
LEMMA SumAdd ==
  ASSUME NEW S, IsFiniteSet(S), NEW q, \A x \in S : q[x] \in Nat,
         NEW y, y \notin S, q[y] \in Nat
  PROVE  SumOf(q, S \cup {y}) = SumOf(q, S) + q[y]
<1> DEFINE B == {y} \X (1 .. q[y])
<1>1. UnitsOf(q, S \cup {y}) = UnitsOf(q, S) \cup B
  BY ZenonT(60) DEF UnitsOf
<1>2. UnitsOf(q, S) \cap B = {}
  <2> SUFFICES ASSUME NEW e \in UnitsOf(q, S), e \in B
               PROVE  FALSE
    BY ZenonT(60)
  <2>1. PICK x \in S : e \in {x} \X (1 .. q[x])
    BY ZenonT(60) DEF UnitsOf
  <2>2. e[1] = x /\ e[1] = y
    BY ZenonT(60), <2>1
  <2> QED
    BY ZenonT(60), <2>2
<1>3. IsFiniteSet(UnitsOf(q, S)) /\ SumOf(q, S) \in Nat
  BY ZenonT(60), SumType
<1>4. IsFiniteSet(B) /\ Cardinality(B) = q[y]
  BY ZenonT(60), BlockSize
<1>5. Cardinality(UnitsOf(q, S) \cap B) = 0
  BY ZenonT(60), <1>2, FS_EmptySet
<1>6. Cardinality(UnitsOf(q, S) \cup B) = Cardinality(UnitsOf(q, S)) + Cardinality(B) - 0
  BY SMTT(60), Z3T(60), <1>3, <1>4, <1>5, FS_Union
<1>7. SumOf(q, S \cup {y}) = Cardinality(UnitsOf(q, S) \cup B)
  BY ZenonT(60), <1>1 DEF SumOf
<1>8. Cardinality(UnitsOf(q, S)) = SumOf(q, S)
  BY ZenonT(60) DEF SumOf
<1> HIDE DEF B
<1> QED
  BY SMTT(60), Z3T(60), <1>3, <1>4, <1>6, <1>7, <1>8

\* A row of the set that is dropped takes its value away.
LEMMA SumRemove ==
  ASSUME NEW S, IsFiniteSet(S), NEW q, \A x \in S : q[x] \in Nat,
         NEW y \in S
  PROVE  SumOf(q, S) = SumOf(q, S \ {y}) + q[y]
<1>1. IsFiniteSet(S \ {y})
  BY ZenonT(60), FS_RemoveElement
<1>2. S = (S \ {y}) \cup {y}
  BY ZenonT(60)
<1>3. SumOf(q, (S \ {y}) \cup {y}) = SumOf(q, S \ {y}) + q[y]
  BY ZenonT(60), <1>1, SumAdd
<1> QED
  BY ZenonT(60), <1>2, <1>3

\* The sum depends only on the values of the rows it ranges over.
LEMMA SumSame ==
  ASSUME NEW S, NEW q, NEW p, \A x \in S : q[x] = p[x]
  PROVE  SumOf(q, S) = SumOf(p, S)
<1>1. UnitsOf(q, S) = UnitsOf(p, S)
  BY ZenonT(60) DEF UnitsOf
<1> QED
  BY ZenonT(60), <1>1 DEF SumOf

\* A row of the set is at most the sum.
LEMMA SumBounds ==
  ASSUME NEW S, IsFiniteSet(S), NEW q, \A x \in S : q[x] \in Nat,
         NEW y \in S
  PROVE  q[y] <= SumOf(q, S)
<1>1. SumOf(q, S) = SumOf(q, S \ {y}) + q[y]
  BY ZenonT(60), SumRemove
<1>2. IsFiniteSet(S \ {y})
  BY ZenonT(60), FS_RemoveElement
<1>3. SumOf(q, S \ {y}) \in Nat
  BY ZenonT(60), <1>2, SumType
<1> QED
  BY SMTT(60), Z3T(60), <1>1, <1>3

\* Two disjoint sets of rows sum to the sum of their sums.
LEMMA SumSplit ==
  ASSUME NEW S, NEW T, IsFiniteSet(S), IsFiniteSet(T), S \cap T = {},
         NEW q, \A x \in S \cup T : q[x] \in Nat
  PROVE  SumOf(q, S \cup T) = SumOf(q, S) + SumOf(q, T)
<1>1. UnitsOf(q, S \cup T) = UnitsOf(q, S) \cup UnitsOf(q, T)
  BY ZenonT(60) DEF UnitsOf
<1>2. UnitsOf(q, S) \cap UnitsOf(q, T) = {}
  <2> SUFFICES ASSUME NEW e \in UnitsOf(q, S), e \in UnitsOf(q, T)
               PROVE  FALSE
    BY ZenonT(60)
  <2>1. PICK x \in S : e \in {x} \X (1 .. q[x])
    BY ZenonT(60) DEF UnitsOf
  <2>2. PICK y \in T : e \in {y} \X (1 .. q[y])
    BY ZenonT(60) DEF UnitsOf
  <2>3. e[1] = x /\ e[1] = y
    BY ZenonT(60), <2>1, <2>2
  <2> QED
    BY ZenonT(60), <2>3
<1>3. /\ IsFiniteSet(UnitsOf(q, S)) /\ SumOf(q, S) \in Nat
      /\ IsFiniteSet(UnitsOf(q, T)) /\ SumOf(q, T) \in Nat
  BY ZenonT(60), SumType
<1>4. Cardinality(UnitsOf(q, S) \cap UnitsOf(q, T)) = 0
  BY ZenonT(60), <1>2, FS_EmptySet
<1>5. Cardinality(UnitsOf(q, S) \cup UnitsOf(q, T))
        = Cardinality(UnitsOf(q, S)) + Cardinality(UnitsOf(q, T)) - 0
  BY ZenonT(60), <1>3, <1>4, FS_Union
<1>6. /\ SumOf(q, S \cup T) = Cardinality(UnitsOf(q, S) \cup UnitsOf(q, T))
      /\ SumOf(q, S) = Cardinality(UnitsOf(q, S))
      /\ SumOf(q, T) = Cardinality(UnitsOf(q, T))
  BY ZenonT(60), <1>1 DEF SumOf
<1> QED
  BY SMTT(60), Z3T(60), <1>3, <1>5, <1>6

\* The sum of a single row is its value.
LEMMA SumSingle ==
  ASSUME NEW q, NEW y, q[y] \in Nat
  PROVE  SumOf(q, {y}) = q[y]
<1>1. UnitsOf(q, {y}) = {y} \X (1 .. q[y])
  BY ZenonT(60) DEF UnitsOf
<1> QED
  BY ZenonT(60), <1>1, BlockSize DEF SumOf

\* Rows that are all zero sum to zero.
LEMMA SumZero ==
  ASSUME NEW q, NEW S, \A x \in S : q[x] = 0
  PROVE  SumOf(q, S) = 0
<1>1. UnitsOf(q, S) = {}
  BY SMTT(60), Z3T(60) DEF UnitsOf
<1> QED
  BY ZenonT(60), <1>1, FS_EmptySet DEF SumOf

\* When one row changes, the sum changes by as much.
LEMMA SumExcept ==
  ASSUME NEW S, IsFiniteSet(S), NEW q \in [S -> Nat], NEW y \in S, NEW v \in Nat
  PROVE  /\ SumOf(q, S) \in Nat
         /\ SumOf([q EXCEPT ![y] = v], S) \in Nat
         /\ SumOf([q EXCEPT ![y] = v], S) + q[y] = SumOf(q, S) + v
<1> DEFINE p == [q EXCEPT ![y] = v]
<1>0. p \in [S -> Nat] /\ p[y] = v /\ \A x \in S \ {y} : p[x] = q[x]
  BY ZenonT(60)
<1> HIDE DEF p
<1>1. SumOf(q, S) = SumOf(q, S \ {y}) + q[y]
  BY ZenonT(60), SumRemove
<1>2. SumOf(p, S) = SumOf(p, S \ {y}) + p[y]
  BY SMTT(60), Z3T(60), <1>0, SumRemove
<1>3. SumOf(p, S \ {y}) = SumOf(q, S \ {y})
  BY ZenonT(60), <1>0, SumSame
<1>4. IsFiniteSet(S \ {y})
  BY ZenonT(60), FS_RemoveElement
<1>5. SumOf(q, S \ {y}) \in Nat
  BY ZenonT(60), <1>4, SumType
<1>6. q[y] \in Nat
  BY ZenonT(60)
<1>7. SumOf(q, S) \in Nat /\ SumOf(p, S) \in Nat /\ SumOf(p, S) + q[y] = SumOf(q, S) + v
  BY SMTT(60), Z3T(60), <1>0, <1>1, <1>2, <1>3, <1>5, <1>6
<1> QED
  BY ZenonT(60), <1>7 DEF p

-----------------------------------------------------------------------------

\* What the constants give for one order.
LEMMA Constants ==
  ASSUME NEW o \in Orders
  PROVE  /\ Quantity[o] \in Nat /\ Quantity[o] > 0
         /\ Price \in Nat /\ Price > 0 /\ Slippage \in Nat
         /\ MaxPrice \in Nat /\ MaxPrice >= Price
         /\ IsFiniteSet(Sizes(o)) /\ Sizes(o) \subseteq Nat /\ Quantity[o] \in Sizes(o)
         /\ IsFiniteSet(Prices)
<1>1. /\ Quantity[o] \in Nat /\ Quantity[o] > 0
      /\ Price \in Nat /\ Price > 0 /\ Slippage \in Nat
      /\ MaxPrice \in Nat /\ MaxPrice >= Price
  BY SMTT(60), Z3T(60), ConstantsAssumption
<1> QED
  BY SMTT(60), Z3T(60), <1>1, FS_Interval DEF Prices, Sizes

\* A column of which one row changes by d, or by k times d.
LEMMA ColumnChange ==
  ASSUME NEW S, IsFiniteSet(S), NEW k \in S, NEW old \in [S -> Nat], NEW new \in [S -> Nat],
         NEW e \in Int, new[k] = old[k] + e, \A x \in S \ {k} : new[x] = old[x]
  PROVE  SumOf(new, S) = SumOf(old, S) + e
<1>1. new = [old EXCEPT ![k] = new[k]] /\ new[k] \in Nat /\ old[k] \in Nat
  BY ZenonT(60)
<1>2. /\ SumOf(old, S) \in Nat /\ SumOf(new, S) \in Nat
      /\ SumOf(new, S) + old[k] = SumOf(old, S) + new[k]
  BY SMTT(60), Z3T(60), <1>1, SumExcept
<1> QED
  BY SMTT(60), Z3T(60), <1>1, <1>2

\* One request more or less of quantity k changes what is under way by k.
LEMMA WeightedChange ==
  ASSUME NEW S, IsFiniteSet(S), S \subseteq Nat, NEW k \in S, NEW s \in [S -> Nat], NEW t \in [S -> Nat],
         NEW d \in Int, t[k] = s[k] + d, \A x \in S \ {k} : t[x] = s[x]
  PROVE  SumOf([x \in S |-> x * t[x]], S) = SumOf([x \in S |-> x * s[x]], S) + k * d
<1>2. PICK old : old = [x \in S |-> x * s[x]]
  BY ZenonT(60)
<1>3. PICK new : new = [x \in S |-> x * t[x]]
  BY ZenonT(60)
<1>4. old \in [S -> Nat] /\ new \in [S -> Nat]
  BY SMTT(60), Z3T(60), <1>2, <1>3
<1>5. \A x \in S \ {k} : new[x] = old[x]
  BY ZenonT(60), <1>2, <1>3
<1>6. new[k] = old[k] + k * d /\ k * d \in Int
  BY SMTT(60), Z3T(60), <1>2, <1>3
<1>7. SumOf(new, S) = SumOf(old, S) + k * d
  BY ONLY SMTT(60), Z3T(60), IsFiniteSet(S), <1>4, <1>5, <1>6, ColumnChange
<1> QED
  BY ZenonT(60), <1>2, <1>3, <1>7

\* The quantity of the requests under way is at least that of each.
LEMMA WeightedType ==
  ASSUME NEW S, IsFiniteSet(S), S \subseteq Nat, NEW s \in [S -> Nat]
  PROVE  LET total == SumOf([q \in S |-> q * s[q]], S) IN
         total \in Nat /\ \A q \in S : s[q] > 0 => total >= q
<1>1. PICK w : w = [x \in S |-> x * s[x]]
  BY ZenonT(60)
<1>2. \A q \in S : w[q] \in Nat
  BY SMTT(60), Z3T(60), <1>1
<1>3. \A q \in S : s[q] > 0 => w[q] >= q
  BY SMTT(60), Z3T(60), <1>1
<1>4. SumOf(w, S) \in Nat /\ \A q \in S : w[q] <= SumOf(w, S)
  BY ZenonT(60), <1>2, SumType, SumBounds
<1>5. \A q \in S : s[q] > 0 => SumOf(w, S) >= q
  BY SMTT(60), Z3T(60), <1>2, <1>3, <1>4
<1> QED
  BY ZenonT(60), <1>1, <1>4, <1>5

\* What is under way and unsettled are natural numbers, at least what each
\* request and fill adds to them.
LEMMA OutType ==
  ASSUME TypeOK, NEW o \in Orders
  PROVE  /\ InFlight(o) \in Nat /\ Unsettled(o) \in Nat
         /\ \A q \in Sizes(o) : sent[o][q] > 0 => InFlight(o) >= q
         /\ \A p \in Prices : unsettled[o][p] > 0 => Unsettled(o) > 0
<1>1. sent[o] \in [Sizes(o) -> Nat] /\ unsettled[o] \in [Prices -> Nat]
  BY ZenonT(60) DEF TypeOK
<1>2. IsFiniteSet(Sizes(o)) /\ Sizes(o) \subseteq Nat /\ IsFiniteSet(Prices)
  BY SMTT(60), Z3T(60), Constants
<1>3. InFlight(o) \in Nat /\ \A q \in Sizes(o) : sent[o][q] > 0 => InFlight(o) >= q
  BY ZenonT(60), <1>1, <1>2, WeightedType DEF InFlight
<1>4. \A p \in Prices : unsettled[o][p] \in Nat
  BY ZenonT(60), <1>1
<1>5. Unsettled(o) \in Nat /\ \A p \in Prices : unsettled[o][p] <= Unsettled(o)
  BY ZenonT(60), <1>2, <1>4, SumType, SumBounds DEF Unsettled
<1>6. \A p \in Prices : unsettled[o][p] > 0 => Unsettled(o) > 0
  BY SMTT(60), Z3T(60), <1>4, <1>5
<1> QED
  BY ZenonT(60), <1>3, <1>5, <1>6

\* The same after a step.
OutIsNat == \A o \in Orders : InFlight(o) \in Nat /\ Unsettled(o) \in Nat

\* What is under way and what is not settled are natural numbers, now and after
\* a step.
LEMMA OutNat ==
  TypeOK => OutIsNat
  BY ZenonT(60), OutType DEF OutIsNat

LEMMA OutNatNext ==
  TypeOK' => OutIsNat'
  BY OutNat, PTL

\* The effect of a request that is sent, or arrives or is lost.
LEMMA SentChange ==
  ASSUME TypeOK, NEW o \in Orders, NEW k \in Sizes(o), NEW d \in {-1, 1},
         sent[o][k] + d \in Nat, sent' = [sent EXCEPT ![o][k] = sent[o][k] + d]
  PROVE  /\ DOMAIN sent' = Orders /\ \A x \in Orders : sent'[x] \in [Sizes(x) -> Nat]
         /\ \A x \in Orders \ {o} : sent'[x] = sent[x]
         /\ InFlight(o)' = InFlight(o) + k * d
<1>1. DOMAIN sent = Orders /\ \A x \in Orders : sent[x] \in [Sizes(x) -> Nat]
  BY ZenonT(60) DEF TypeOK
<1>2. /\ DOMAIN sent' = Orders
      /\ \A x \in Orders \ {o} : sent'[x] = sent[x]
      /\ sent'[o] = [sent[o] EXCEPT ![k] = sent[o][k] + d]
  BY ZenonT(60), <1>1
<1>3. IsFiniteSet(Sizes(o)) /\ Sizes(o) \subseteq Nat
  BY SMTT(60), Z3T(60), Constants
<1>4. PICK s, t, S : s = sent[o] /\ t = sent'[o] /\ S = Sizes(o)
  BY ZenonT(60)
<1>5. t = [s EXCEPT ![k] = s[k] + d] /\ s \in [S -> Nat] /\ k \in S /\ s[k] + d \in Nat
  BY ZenonT(60), <1>1, <1>2, <1>4
<1>6. /\ IsFiniteSet(S) /\ S \subseteq Nat /\ s \in [S -> Nat] /\ t \in [S -> Nat] /\ d \in Int
      /\ k \in S /\ t[k] = s[k] + d /\ \A x \in S \ {k} : t[x] = s[x]
  <2>1. IsFiniteSet(S) /\ S \subseteq Nat
    BY ZenonT(60), <1>3, <1>4
  <2>2. t \in [S -> Nat] /\ d \in Int /\ t[k] = s[k] + d /\ \A x \in S \ {k} : t[x] = s[x]
    BY ONLY SMTT(60), Z3T(60), <1>5
  <2> QED
    BY ZenonT(60), <1>5, <2>1, <2>2
<1>7. SumOf([x \in S |-> x * t[x]], S) = SumOf([x \in S |-> x * s[x]], S) + k * d
  BY ONLY ZenonT(60), <1>6, WeightedChange
<1>8. /\ sent'[o] \in [Sizes(o) -> Nat]
      /\ InFlight(o)' = InFlight(o) + k * d
  BY SMTT(60), Z3T(60), <1>4, <1>6, <1>7 DEF InFlight
<1> QED
  BY ZenonT(60), <1>1, <1>2, <1>8

\* The effect of a fill that is made or settled.
LEMMA UnsettledChange ==
  ASSUME TypeOK, NEW o \in Orders, NEW p \in Prices, NEW d \in {-1, 1},
         unsettled[o][p] + d \in Nat,
         unsettled' = [unsettled EXCEPT ![o][p] = unsettled[o][p] + d]
  PROVE  /\ unsettled' \in [Orders -> [Prices -> Nat]]
         /\ \A x \in Orders \ {o} : unsettled'[x] = unsettled[x]
         /\ Unsettled(o)' = Unsettled(o) + d
<1>1. unsettled \in [Orders -> [Prices -> Nat]]
  BY ZenonT(60) DEF TypeOK
<1>2. PICK old, new : old = unsettled[o] /\ new = unsettled'[o]
  BY ZenonT(60)
<1>3. /\ unsettled' \in [Orders -> [Prices -> Nat]]
      /\ \A x \in Orders \ {o} : unsettled'[x] = unsettled[x]
      /\ new = [old EXCEPT ![p] = old[p] + d]
      /\ old \in [Prices -> Nat] /\ old[p] + d \in Nat
  BY ZenonT(60), <1>1, <1>2
<1>4. /\ old \in [Prices -> Nat] /\ new \in [Prices -> Nat] /\ new[p] = old[p] + d /\ d \in Int
      /\ \A x \in Prices \ {p} : new[x] = old[x]
  BY SMTT(60), Z3T(60), <1>3
<1>5. IsFiniteSet(Prices)
  BY ZenonT(60), Constants
<1>6. SumOf(new, Prices) = SumOf(old, Prices) + d
  BY ONLY ZenonT(60), <1>4, <1>5, ColumnChange
<1> QED
  BY ZenonT(60), <1>2, <1>3, <1>6 DEF Unsettled

-----------------------------------------------------------------------------
(***************************************************************************)
(* What an order's part of the invariant depends on.                       *)
(***************************************************************************)

\* The step leaves order x as it was.
SameOrder(x) ==
    /\ row'[x] = row[x] /\ held'[x] = held[x] /\ book'[x] = book[x]
    /\ sent'[x] = sent[x] /\ unsettled'[x] = unsettled[x]

\* An order that a step leaves alone stays as well off.
LEMMA KeepsOrder ==
  ASSUME NEW x \in Orders, kind' = kind, SameOrder(x)
  PROVE  /\ InFlight(x)' = InFlight(x) /\ Unsettled(x)' = Unsettled(x)
         /\ RowOK(x) => RowOK(x)'
         /\ FirmOK(x) => FirmOK(x)'
<1>1. InFlight(x)' = InFlight(x) /\ Unsettled(x)' = Unsettled(x)
  BY ZenonT(60) DEF SameOrder, InFlight, Unsettled
<1>2. Alive(x)' <=> Alive(x)
  BY ZenonT(60), <1>1 DEF SameOrder, Alive
<1>3. RowOK(x) => RowOK(x)'
  BY ZenonT(60), <1>2 DEF SameOrder, RowOK
<1>4. (IsSell(x)' <=> IsSell(x)) /\ (IsMarketBuy(x)' <=> IsMarketBuy(x))
  BY ZenonT(60) DEF IsSell, IsMarketBuy
<1>5. LockOK(x) => LockOK(x)'
  BY ZenonT(60), <1>4 DEF SameOrder, LockOK
<1>6. FirmOK(x) => FirmOK(x)'
  BY ZenonT(60), <1>1, <1>2, <1>4, <1>5 DEF SameOrder, FirmOK
<1> QED
  BY ZenonT(60), <1>1, <1>3, <1>6

\* A step that changes order o only.
LEMMA OneOrder ==
  ASSUME SpotInv, NEW o \in Orders, kind' = kind, loose \subseteq loose',
         \A x \in Orders \ {o} : SameOrder(x),
         RowOK(o)', o \in loose' \/ FirmOK(o)'
  PROVE  (\A x \in Orders : RowOK(x)') /\ (\A x \in Orders \ loose' : FirmOK(x)')
<1>1. ASSUME NEW x \in Orders \ {o}
      PROVE  RowOK(x)' /\ (x \notin loose' => FirmOK(x)')
  <2>1. RowOK(x) /\ (x \notin loose => FirmOK(x))
    BY ZenonT(60) DEF SpotInv
  <2> QED
    BY ZenonT(60), <2>1, KeepsOrder
<1> QED
  BY ZenonT(60), <1>1

\* No order is loose and all are sells.
SellsFirm ==
    /\ TypeOK
    /\ \A x \in Orders : RowOK(x) /\ FirmOK(x) /\ IsSell(x)

\* What is locked for a firm sell is never negative.
LEMMA HeldNat ==
  ASSUME TypeOK, NEW x \in Orders, RowOK(x), FirmOK(x), IsSell(x)
  PROVE  held[x] \in Nat
<1>1. /\ row[x].status \in LiveStatuses \cup {"none", "FILLED", "cancelled"}
      /\ row[x].filled \in Nat /\ book[x] \in Nat /\ held[x] \in Int
  BY ZenonT(60) DEF TypeOK
<1>2. Quantity[x] \in Nat /\ InFlight(x) \in Nat /\ Unsettled(x) \in Nat
  BY ZenonT(60), Constants, OutType
<1>3. row[x].filled <= Quantity[x]
  BY SMTT(60), Z3T(60), <1>1, <1>2 DEF FirmOK
<1>4. LockOK(x)
  BY ZenonT(60) DEF FirmOK, IsSell, IsMarketBuy, Sells
<1>5. row[x].status = "none" => held[x] = 0
  BY ZenonT(60) DEF RowOK
<1> QED
  BY SMTT(60), Z3T(60), <1>1, <1>2, <1>3, <1>4, <1>5 DEF LockOK

\* While no order is loose the locks of sells are a column of numbers.
HeldIsColumn == held \in [Orders -> Nat]

\* When every order is a firm sell, what is held for each is a natural number,
\* now and after a step.
LEMMA HeldColumn ==
  SellsFirm => HeldIsColumn
<1> SUFFICES ASSUME SellsFirm
             PROVE  HeldIsColumn
  BY ZenonT(60)
<1>1. \A x \in Orders : held[x] \in Nat
  BY ZenonT(60), HeldNat DEF SellsFirm
<1>2. held \in [Orders -> Int]
  BY ZenonT(60) DEF SellsFirm, TypeOK
<1> QED
  BY ZenonT(60), <1>1, <1>2 DEF HeldIsColumn

LEMMA HeldColumnNext ==
  SellsFirm' => HeldIsColumn'
  BY HeldColumn, PTL

\* A step that moves as much in the balance as in the lock of one order.
LEMMA LockedMoves ==
  ASSUME SpotInv, NEW o \in Orders, NEW e \in Int, kind' = kind, loose \subseteq loose',
         TypeOK', \A x \in Orders : RowOK(x)', \A x \in Orders \ loose' : FirmOK(x)',
         locked' = locked + e, held'[o] = held[o] + e,
         \A x \in Orders \ {o} : held'[x] = held[x]
  PROVE  LockedOK'
<1> SUFFICES ASSUME loose' = {}, \A x \in Orders : IsSell(x)'
             PROVE  locked' = SumOf(held', Orders)
  BY ZenonT(60) DEF LockedOK
<1>1. loose = {} /\ \A x \in Orders : IsSell(x)
  BY ZenonT(60) DEF IsSell
<1>2. SellsFirm /\ SellsFirm'
  BY ZenonT(60), <1>1 DEF SellsFirm, SpotInv
<1>3. held \in [Orders -> Nat] /\ held' \in [Orders -> Nat]
  BY ZenonT(60), <1>2, HeldColumn, HeldColumnNext DEF HeldIsColumn
<1>4. locked = SumOf(held, Orders)
  BY ZenonT(60), <1>1 DEF SpotInv, LockedOK
<1>5. IsFiniteSet(Orders)
  BY ZenonT(60), ConstantsAssumption
<1>6. held'[o] = held[o] + e /\ \A x \in Orders \ {o} : held'[x] = held[x]
  BY ZenonT(60)
<1>7. SumOf(held', Orders) = SumOf(held, Orders) + e
  BY ONLY SMTT(60), Z3T(60), <1>3, <1>5, <1>6, ColumnChange
<1> QED
  BY ZenonT(60), <1>4, <1>7

\* A step that moves neither.
LEMMA LockedStays ==
  ASSUME LockedOK, kind' = kind, loose \subseteq loose', locked' = locked, held' = held
  PROVE  LockedOK'
<1> SUFFICES ASSUME loose' = {}, \A x \in Orders : IsSell(x)'
             PROVE  locked' = SumOf(held', Orders)
  BY ZenonT(60) DEF LockedOK
<1>1. loose = {} /\ \A x \in Orders : IsSell(x)
  BY ZenonT(60) DEF IsSell
<1> QED
  BY ZenonT(60), <1>1 DEF LockedOK

\* The types of one order's state.
LEMMA OrderType ==
  ASSUME TypeOK, NEW o \in Orders
  PROVE  /\ row[o] = [status |-> row[o].status, filled |-> row[o].filled, type |-> row[o].type]
         /\ row[o].status \in {"OPEN", "PARTIALLY_FILLED", "PENDING_TRIGGER", "none", "FILLED", "cancelled"}
         /\ row[o].filled \in Nat /\ book[o] \in Nat /\ held[o] \in Int /\ locked \in Nat
  BY ZenonT(60) DEF TypeOK, LiveStatuses

\* Nothing is left in the engine of an order that is not alive.
LEMMA NotAlive ==
  ASSUME TypeOK, NEW o \in Orders, ~Alive(o)
  PROVE  InFlight(o) = 0 /\ Unsettled(o) = 0 /\ book[o] = 0
<1>1. InFlight(o) \in Nat /\ Unsettled(o) \in Nat /\ book[o] \in Nat
  BY ZenonT(60), OutType, OrderType
<1> QED
  BY SMTT(60), Z3T(60), <1>1 DEF Alive

\* What the place route locks.
LEMMA LockAmount ==
  ASSUME NEW o \in Orders
  PROVE  /\ lockAmount(o) \in Nat
         /\ IsSell(o) => lockAmount(o) = Quantity[o]
         /\ ~IsSell(o) /\ ~IsMarketBuy(o) => lockAmount(o) = Price * Quantity[o]
<1>1. Quantity[o] \in Nat /\ Price \in Nat /\ Slippage \in Nat
  BY ZenonT(60), Constants
<1>2. Price * Quantity[o] \in Nat /\ (Price + Slippage) * Quantity[o] \in Nat
  BY SMTT(60), Z3T(60), <1>1
<1>3. IsSell(o) => ~IsMarketBuy(o)
  BY ZenonT(60) DEF IsSell, IsMarketBuy, Sells
<1> QED
  BY ZenonT(60), <1>1, <1>2, <1>3 DEF lockAmount

-----------------------------------------------------------------------------
(***************************************************************************)
(* One lemma for each action: it preserves the invariant.                  *)
(***************************************************************************)

\* Placing an order locks what the new row has left, and nobody had worked on it.
LEMMA PlaceStep ==
  ASSUME SpotInv, NEW o \in Orders, place(o)
  PROVE  SpotInv'
<1>0. TypeOK /\ CallersOK /\ RowOK(o)
  BY ZenonT(60) DEF SpotInv
<1>1. row[o].status = "none" /\ ~Alive(o) /\ held[o] = 0
  BY ZenonT(60), <1>0 DEF place, RowOK
<1>2. /\ Quantity[o] \in Nat /\ Quantity[o] > 0 /\ Price \in Nat /\ lockAmount(o) \in Nat
      /\ InFlight(o) = 0 /\ Unsettled(o) = 0 /\ book[o] = 0 /\ locked \in Nat
  BY ZenonT(60), <1>0, <1>1, Constants, LockAmount, NotAlive, OrderType
<1>3. /\ kind' = kind /\ book' = book /\ unsettled' = unsettled /\ loose' = loose
      /\ cancelling' = cancelling /\ replaying' = replaying /\ triggering' = triggering
      /\ locked' = locked + lockAmount(o)
      /\ held' = [held EXCEPT ![o] = held[o] + lockAmount(o)]
  BY ZenonT(60) DEF place, lockTradingBalance
<1>4. PICK s \in {"PENDING_TRIGGER", "OPEN"}, t \in {"stop", "book"} :
        row' = [row EXCEPT ![o] = [status |-> s, filled |-> 0, type |-> t]]
  BY ZenonT(60) DEF place
<1>5. /\ row' \in [Orders -> [status : LiveStatuses \cup {"none", "FILLED", "cancelled"},
                              filled : Nat, type : {"none", "stop", "book"}]]
      /\ row'[o].status = s /\ row'[o].filled = 0 /\ \A x \in Orders \ {o} : row'[x] = row[x]
  BY ZenonT(60), <1>0, <1>4 DEF TypeOK, LiveStatuses
<1>6. /\ held' \in [Orders -> Int] /\ held'[o] = held[o] + lockAmount(o)
      /\ \A x \in Orders \ {o} : held'[x] = held[x]
  BY SMTT(60), Z3T(60), <1>0, <1>2, <1>3 DEF TypeOK
<1>7. /\ DOMAIN sent' = Orders /\ \A x \in Orders : sent'[x] \in [Sizes(x) -> Nat]
      /\ \A x \in Orders \ {o} : sent'[x] = sent[x]
      /\ InFlight(o)' \in 0 .. Quantity[o]
  <2>1. CASE IsStop(o)
    <3>1. sent' = sent
      BY ZenonT(60), <2>1 DEF place
    <3> QED
      BY SMTT(60), Z3T(60), <1>0, <1>2, <3>1 DEF TypeOK, InFlight
  <2>2. CASE ~IsStop(o)
    <3>1. sent' = [sent EXCEPT ![o][Quantity[o]] = sent[o][Quantity[o]] + 1]
      BY ZenonT(60), <2>2 DEF place
    <3>2. Quantity[o] \in Sizes(o)
      BY ZenonT(60), Constants
    <3>3. sent[o][Quantity[o]] + 1 \in Nat
      BY SMTT(60), Z3T(60), <1>0, <3>2 DEF TypeOK
    <3>4. /\ DOMAIN sent' = Orders /\ \A x \in Orders : sent'[x] \in [Sizes(x) -> Nat]
          /\ \A x \in Orders \ {o} : sent'[x] = sent[x]
          /\ InFlight(o)' = InFlight(o) + Quantity[o] * 1
      BY ZenonT(60), <1>0, <3>1, <3>2, <3>3, SentChange
    <3> QED
      BY SMTT(60), Z3T(60), <1>2, <3>4
  <2> QED
    BY ZenonT(60), <2>1, <2>2
<1>8. Unsettled(o)' = 0
  BY ZenonT(60), <1>2, <1>3 DEF Unsettled
<1>9. placing' \in [Orders -> {"idle", "waiting", "rolling_back", "refused"}]
      /\ \A x \in Orders \ {o} : placing'[x] = placing[x]
  BY ZenonT(60), <1>0 DEF place, TypeOK
<1>10. TypeOK'
  BY SMTT(60), Z3T(60), <1>0, <1>2, <1>3, <1>5, <1>6, <1>7, <1>9 DEF TypeOK
<1>11. CallersOK'
  <2>1. \A x \in Orders : row'[x].status = "none" => Idle(x)'
    <3> SUFFICES ASSUME NEW x \in Orders, row'[x].status = "none"
                 PROVE  Idle(x)'
      BY ZenonT(60)
    <3>1. x # o
      BY ZenonT(60), <1>5
    <3>2. Idle(x)
      BY ZenonT(60), <1>0, <1>5, <3>1 DEF CallersOK
    <3> QED
      BY ZenonT(60), <1>3, <1>9, <3>1, <3>2 DEF Idle
  <2> QED
    BY ZenonT(60), <1>0, <1>3, <2>1 DEF CallersOK
<1>12. \A x \in Orders \ {o} : SameOrder(x)
  BY ZenonT(60), <1>3, <1>5, <1>6, <1>7 DEF SameOrder
<1>13. RowOK(o)'
  BY ZenonT(60), <1>5 DEF RowOK
<1>14. (IsSell(o)' <=> IsSell(o)) /\ (IsMarketBuy(o)' <=> IsMarketBuy(o))
  BY ZenonT(60), <1>3 DEF IsSell, IsMarketBuy
<1>15. IsMarketBuy(o)' \/ LockOK(o)'
  <2>1. held'[o] = lockAmount(o)
    BY SMTT(60), Z3T(60), <1>1, <1>2, <1>6
  <2>2. Quantity[o] - row'[o].filled = Quantity[o]
    BY SMTT(60), Z3T(60), <1>2, <1>5
  <2> QED
    BY SMTT(60), Z3T(60), <1>2, <1>5, <1>14, <2>1, <2>2, LockAmount DEF LockOK
<1>16. FirmOK(o)'
  BY SMTT(60), Z3T(60), <1>2, <1>3, <1>5, <1>7, <1>8, <1>15 DEF FirmOK
<1>17. (\A x \in Orders : RowOK(x)') /\ (\A x \in Orders \ loose' : FirmOK(x)')
  BY ZenonT(60), <1>3, <1>12, <1>13, <1>16, OneOrder
<1>18. LockedOK'
  BY SMTT(60), Z3T(60), <1>2, <1>3, <1>6, <1>10, <1>17, LockedMoves
<1> QED
  BY ZenonT(60), <1>10, <1>11, <1>17, <1>18 DEF SpotInv

\* A step of the callers that changes no order.
LEMMA OnlyCallers ==
  ASSUME SpotInv, UNCHANGED <<kind, row, locked, sent, book, unsettled, held, loose>>,
         placing' \in [Orders -> {"idle", "waiting", "rolling_back", "refused"}],
         triggering' \subseteq Orders, CallersOK'
  PROVE  SpotInv'
<1>1. TypeOK'
  BY ZenonT(60) DEF SpotInv, TypeOK
<1>2. \A x \in Orders : RowOK(x)'
  BY ZenonT(60), KeepsOrder DEF SpotInv, SameOrder
<1>3. \A x \in Orders \ loose' : FirmOK(x)'
  BY ZenonT(60), KeepsOrder DEF SpotInv, SameOrder
<1>4. LockedOK'
  BY ZenonT(60), LockedStays DEF SpotInv
<1> QED
  BY ZenonT(60), <1>1, <1>2, <1>3, <1>4 DEF SpotInv

\* Answers and failures of the engine call change only what its caller does next.
LEMMA AnswerSteps ==
  ASSUME SpotInv, NEW o \in Orders,
         placeAnswered(o) \/ placeOrderRustFails(o) \/ triggerAnswered(o)
  PROVE  SpotInv'
<1>1. TypeOK /\ CallersOK
  BY ZenonT(60) DEF SpotInv
<1>2. /\ UNCHANGED <<kind, row, locked, sent, book, unsettled, held, loose>>
      /\ cancelling' = cancelling /\ replaying' = replaying
      /\ triggering' \subseteq triggering
      /\ \/ placing' = placing
         \/ placing[o] = "waiting" /\ \E s \in {"idle", "rolling_back"} : placing' = [placing EXCEPT ![o] = s]
  BY ZenonT(60) DEF placeAnswered, placeOrderRustFails, triggerAnswered, engineVars
<1>3. /\ placing' \in [Orders -> {"idle", "waiting", "rolling_back", "refused"}]
      /\ \A x \in Orders : placing[x] = "idle" => placing'[x] = "idle"
  BY ZenonT(60), <1>1, <1>2 DEF TypeOK
<1>4. \A x \in Orders : Idle(x) => Idle(x)'
  BY ZenonT(60), <1>2, <1>3 DEF Idle
<1>5. CallersOK'
  BY ZenonT(60), <1>1, <1>2, <1>4 DEF CallersOK
<1>6. triggering' \subseteq Orders
  BY ZenonT(60), <1>1, <1>2 DEF TypeOK
<1> QED
  BY ZenonT(60), <1>2, <1>3, <1>5, <1>6, OnlyCallers

\* A step of the engine or a settlement leaves the callers alone.
LEMMA CallersStay ==
  ASSUME CallersOK, UNCHANGED callerVars,
         \A x \in Orders : row'[x].status = "none" => row[x].status = "none"
  PROVE  CallersOK'
<1>1. \A x \in Orders : Idle(x) => Idle(x)'
  BY ZenonT(60) DEF Idle, callerVars
<1> QED
  BY ZenonT(60), <1>1 DEF CallersOK, callerVars

\* A step in which the engine has, in all, no more of an order than before.
LEMMA EngineStep ==
  ASSUME SpotInv, NEW o \in Orders, UNCHANGED <<kind, row, locked, placing, triggering, held, loose>>,
         CallersOK',
         DOMAIN sent' = Orders, \A x \in Orders : sent'[x] \in [Sizes(x) -> Nat],
         book' \in [Orders -> Nat], unsettled' \in [Orders -> [Prices -> Nat]],
         \A x \in Orders \ {o} : sent'[x] = sent[x] /\ book'[x] = book[x] /\ unsettled'[x] = unsettled[x],
         Alive(o)' => Alive(o),
         Unsettled(o)' + book'[o] + InFlight(o)' <= Unsettled(o) + book[o] + InFlight(o)
  PROVE  SpotInv'
<1>1. TypeOK /\ RowOK(o) /\ (o \notin loose => FirmOK(o))
  BY ZenonT(60) DEF SpotInv
<1>2. TypeOK'
  BY ZenonT(60), <1>1 DEF TypeOK
<1>3. \A x \in Orders \ {o} : SameOrder(x)
  BY ZenonT(60) DEF SameOrder
<1>4. RowOK(o)'
  BY ZenonT(60), <1>1 DEF RowOK
<1>5. /\ row[o].filled \in Nat /\ book[o] \in Nat /\ InFlight(o) \in Nat /\ Unsettled(o) \in Nat
      /\ book'[o] \in Nat /\ InFlight(o)' \in Nat /\ Unsettled(o)' \in Nat /\ Quantity[o] \in Nat
  BY ZenonT(60), <1>1, <1>2, OrderType, OutType, Constants, OutNatNext DEF OutIsNat
<1>6. (IsSell(o)' <=> IsSell(o)) /\ (IsMarketBuy(o)' <=> IsMarketBuy(o))
  BY ZenonT(60) DEF IsSell, IsMarketBuy
<1>7. ASSUME FirmOK(o)
      PROVE  FirmOK(o)'
  <2>1. LockOK(o) => LockOK(o)'
    BY ZenonT(60), <1>6 DEF LockOK
  <2>2. row'[o].filled + Unsettled(o)' + book'[o] + InFlight(o)' <= Quantity[o]
    <3>1. row[o].filled + Unsettled(o) + book[o] + InFlight(o) <= Quantity[o]
      BY ZenonT(60), <1>7 DEF FirmOK
    <3>2. /\ row'[o].filled = row[o].filled
          /\ Unsettled(o)' + book'[o] + InFlight(o)' <= Unsettled(o) + book[o] + InFlight(o)
      BY ZenonT(60)
    <3> QED
      BY ONLY SMTT(60), Z3T(60), <1>5, <3>1, <3>2
  <2> QED
    BY ZenonT(60), <1>6, <1>7, <2>1, <2>2 DEF FirmOK
<1>8. (\A x \in Orders : RowOK(x)') /\ (\A x \in Orders \ loose' : FirmOK(x)')
  BY ZenonT(60), <1>1, <1>3, <1>4, <1>7, OneOrder
<1>9. LockedOK'
  BY ZenonT(60), LockedStays DEF SpotInv
<1> QED
  BY ZenonT(60), <1>2, <1>8, <1>9 DEF SpotInv

\* A request that arrives becomes part of the book, in place of what was there or
\* on top of it; one that is refused is gone.
LEMMA EnginePlaceStep ==
  ASSUME SpotInv, NEW o \in Orders, enginePlace(o) \/ engineRefuses(o)
  PROVE  SpotInv'
<1>1. TypeOK /\ CallersOK
  BY ZenonT(60) DEF SpotInv
<1>2. PICK q \in Sizes(o), rest \in Nat :
        /\ sent[o][q] > 0
        /\ sent' = [sent EXCEPT ![o][q] = sent[o][q] + (-1)]
        /\ rest <= book[o] + q
        /\ book' = [book EXCEPT ![o] = rest]
  <2>1. PICK q \in Sizes(o) :
          /\ sent[o][q] > 0
          /\ sent' = [sent EXCEPT ![o][q] = sent[o][q] - 1]
          /\ book' = book \/ \E rest \in {q, book[o] + q} : book' = [book EXCEPT ![o] = rest]
    BY ZenonT(60) DEF enginePlace, engineRefuses
  <2>2. sent[o][q] \in Nat /\ q \in Nat /\ book[o] \in Nat /\ book \in [Orders -> Nat]
    BY SMTT(60), Z3T(60), <1>1, Constants DEF TypeOK
  <2>3. sent[o][q] - 1 = sent[o][q] + (-1)
    BY ZenonT(60), <2>2
  <2>4. \E rest \in Nat : rest <= book[o] + q /\ book' = [book EXCEPT ![o] = rest]
    <3>1. CASE book' = book
      <4>1. book' = [book EXCEPT ![o] = book[o]]
        BY ZenonT(60), <2>2, <3>1
      <4>2. book[o] <= book[o] + q
        BY ONLY SMTT(60), Z3T(60), <2>2
      <4> QED
        BY ZenonT(60), <2>2, <4>1, <4>2
    <3>2. CASE \E rest \in {q, book[o] + q} : book' = [book EXCEPT ![o] = rest]
      <4>1. \A rest \in {q, book[o] + q} : rest \in Nat /\ rest <= book[o] + q
        BY ONLY SMTT(60), Z3T(60), <2>2
      <4> QED
        BY ZenonT(60), <3>2, <4>1
    <3> QED
      BY ZenonT(60), <2>1, <3>1, <3>2
  <2> QED
    BY ZenonT(60), <2>1, <2>3, <2>4
<1>3. /\ UNCHANGED <<kind, row, locked, held, loose>> /\ UNCHANGED callerVars
      /\ unsettled' = unsettled
  BY ZenonT(60) DEF enginePlace, engineRefuses
<1>4. sent[o][q] \in Nat /\ sent[o][q] + (-1) \in Nat
  <2>1. sent[o][q] \in Nat /\ sent[o][q] > 0
    BY ZenonT(60), <1>1, <1>2 DEF TypeOK
  <2> QED
    BY ONLY SMTT(60), Z3T(60), <2>1
<1>5. /\ DOMAIN sent' = Orders /\ \A x \in Orders : sent'[x] \in [Sizes(x) -> Nat]
      /\ \A x \in Orders \ {o} : sent'[x] = sent[x]
      /\ InFlight(o)' = InFlight(o) + q * (-1)
  BY ZenonT(60), <1>1, <1>2, <1>4, SentChange
<1>6. /\ book' \in [Orders -> Nat] /\ book'[o] = rest
      /\ \A x \in Orders \ {o} : book'[x] = book[x]
  BY ZenonT(60), <1>1, <1>2 DEF TypeOK
<1>7. Unsettled(o)' = Unsettled(o)
  BY ZenonT(60), <1>3 DEF Unsettled
<1>8. /\ InFlight(o) \in Nat /\ Unsettled(o) \in Nat /\ InFlight(o) >= q /\ book[o] \in Nat
      /\ q \in Nat /\ q > 0
  <2>1. q \in Nat /\ q > 0 /\ book[o] \in Nat
    <3>1. Quantity[o] \in Nat /\ q \in Sizes(o)
      BY ZenonT(60), Constants
    <3>2. book[o] \in Nat
      BY ZenonT(60), <1>1, OrderType
    <3> QED
      BY ONLY SMTT(60), Z3T(60), <3>1, <3>2 DEF Sizes
  <2>2. InFlight(o) \in Nat /\ Unsettled(o) \in Nat /\ InFlight(o) >= q
    BY ZenonT(60), <1>1, <1>2, OutType
  <2> QED
    BY ZenonT(60), <2>1, <2>2
<1>9. Alive(o)
  BY SMTT(60), Z3T(60), <1>8 DEF Alive
<1>10. Unsettled(o)' + book'[o] + InFlight(o)' <= Unsettled(o) + book[o] + InFlight(o)
  BY SMTT(60), Z3T(60), <1>2, <1>5, <1>7, <1>8
<1>11. CallersOK'
  BY ZenonT(60), <1>1, <1>3, CallersStay
<1>12. unsettled' \in [Orders -> [Prices -> Nat]]
  BY ZenonT(60), <1>1, <1>3 DEF TypeOK
<1> QED
  BY ZenonT(60), <1>3, <1>5, <1>6, <1>9, <1>10, <1>11, <1>12, EngineStep DEF callerVars

\* The prices at which the engine fills an order.
LEMMA FillPrices ==
  ASSUME NEW o \in Orders, NEW p \in fillPrices(o)
  PROVE  /\ p \in Prices /\ p \in Nat /\ p > 0
         /\ IsSell(o) => p = 1
         /\ ~IsSell(o) /\ ~IsMarketBuy(o) => p <= Price
<1>1. Price \in Nat /\ Price > 0 /\ MaxPrice \in Nat /\ MaxPrice >= Price
  BY ZenonT(60), Constants
<1>2. IsSell(o) => ~IsMarketBuy(o)
  BY ZenonT(60) DEF IsSell, IsMarketBuy, Sells
<1>3. CASE IsSell(o)
  <2>0. fillPrices(o) = {1}
    BY ZenonT(60), <1>2, <1>3 DEF fillPrices
  <2>1. p = 1
    BY ZenonT(60), <2>0
  <2> QED
    BY SMTT(60), Z3T(60), <1>1, <1>3, <2>1 DEF Prices
<1>4. CASE IsMarketBuy(o)
  <2>1. p \in 1 .. MaxPrice
    BY ZenonT(60), <1>2, <1>4 DEF fillPrices, Prices
  <2> QED
    BY SMTT(60), Z3T(60), <1>1, <1>2, <1>4, <2>1 DEF Prices
<1>5. CASE ~IsSell(o) /\ ~IsMarketBuy(o)
  <2>1. p \in 1 .. Price
    BY ZenonT(60), <1>5 DEF fillPrices
  <2> QED
    BY SMTT(60), Z3T(60), <1>1, <1>5, <2>1 DEF Prices
<1> QED
  BY ZenonT(60), <1>3, <1>4, <1>5

\* A fill moves a unit from the book to what is to be settled.
LEMMA EngineFillStep ==
  ASSUME SpotInv, NEW o \in Orders, engineFill(o)
  PROVE  SpotInv'
<1>1. TypeOK /\ CallersOK
  BY ZenonT(60) DEF SpotInv
<1>2. PICK p \in fillPrices(o) : unsettled' = [unsettled EXCEPT ![o][p] = unsettled[o][p] + 1]
  BY ZenonT(60) DEF engineFill
<1>3. /\ UNCHANGED <<kind, row, locked, held, loose>> /\ UNCHANGED callerVars
      /\ sent' = sent /\ book[o] > 0 /\ book' = [book EXCEPT ![o] = book[o] - 1]
  BY ZenonT(60) DEF engineFill
<1>4. p \in Prices
  BY ZenonT(60), FillPrices
<1>5. unsettled[o][p] + 1 \in Nat
  <2>1. unsettled[o][p] \in Nat
    BY SMTT(60), Z3T(60), <1>1, <1>4 DEF TypeOK
  <2> QED
    BY ONLY SMTT(60), Z3T(60), <2>1
<1>6. /\ unsettled' \in [Orders -> [Prices -> Nat]]
      /\ \A x \in Orders \ {o} : unsettled'[x] = unsettled[x]
      /\ Unsettled(o)' = Unsettled(o) + 1
  BY ZenonT(60), <1>1, <1>2, <1>4, <1>5, UnsettledChange
<1>7. /\ book' \in [Orders -> Nat] /\ book'[o] = book[o] - 1
      /\ \A x \in Orders \ {o} : book'[x] = book[x]
  <2>1. book \in [Orders -> Nat]
    BY ZenonT(60), <1>1 DEF TypeOK
  <2> QED
    BY ONLY SMTT(60), Z3T(60), <1>3, <2>1
<1>8. InFlight(o)' = InFlight(o)
  BY ZenonT(60), <1>3 DEF InFlight
<1>9. InFlight(o) \in Nat /\ Unsettled(o) \in Nat /\ book[o] \in Nat
  BY ZenonT(60), <1>1, OutType, OrderType
<1>10. Unsettled(o)' + book'[o] + InFlight(o)' <= Unsettled(o) + book[o] + InFlight(o)
  BY ONLY SMTT(60), Z3T(60), <1>6, <1>7, <1>8, <1>9
<1>11. Alive(o)
  BY ZenonT(60), <1>3 DEF Alive
<1>12. CallersOK'
  BY ZenonT(60), <1>1, <1>3, CallersStay
<1>13. DOMAIN sent' = Orders /\ \A x \in Orders : sent'[x] \in [Sizes(x) -> Nat] /\ sent'[x] = sent[x]
  BY ZenonT(60), <1>1, <1>3 DEF TypeOK
<1> QED
  BY ZenonT(60), <1>3, <1>6, <1>7, <1>10, <1>11, <1>12, <1>13, EngineStep DEF callerVars

\* A cancel request goes on to the state r.
LEMMA CancelMoves ==
  ASSUME CallersOK, NEW c \in Cancellers,
         NEW r \in [todo : SUBSET Orders, done : SUBSET Orders, filled : [Orders -> Nat]],
         \A x \in r.todo \cup r.done : r.filled[x] < Quantity[x] /\ row[x].status # "none",
         cancelling' = [cancelling EXCEPT ![c] = r], replaying' = replaying, placing' = placing,
         \A x \in Orders : row'[x].status = "none" => row[x].status = "none"
  PROVE  CallersOK'
<1>1. cancelling \in [Cancellers -> [todo : SUBSET Orders, done : SUBSET Orders, filled : [Orders -> Nat]]]
  BY ZenonT(60) DEF CallersOK
<1>2. /\ cancelling' \in [Cancellers -> [todo : SUBSET Orders, done : SUBSET Orders,
                                         filled : [Orders -> Nat]]]
      /\ cancelling'[c] = r /\ \A d \in Cancellers \ {c} : cancelling'[d] = cancelling[d]
  BY ZenonT(60), <1>1
<1>3. \A d \in Cancellers : \A x \in cancelling'[d].todo \cup cancelling'[d].done :
        cancelling'[d].filled[x] < Quantity[x]
  BY ZenonT(60), <1>2 DEF CallersOK
<1>4. \A x \in Orders : row'[x].status = "none" => Idle(x)'
  <2> SUFFICES ASSUME NEW x \in Orders, row'[x].status = "none"
               PROVE  Idle(x)'
    BY ZenonT(60)
  <2>1. row[x].status = "none" /\ Idle(x)
    BY ZenonT(60) DEF CallersOK
  <2>2. ASSUME NEW d \in Cancellers
        PROVE  x \notin cancelling'[d].todo \cup cancelling'[d].done
    BY ZenonT(60), <1>2, <2>1 DEF Idle
  <2> QED
    BY ZenonT(60), <2>1, <2>2 DEF Idle
<1> QED
  BY ZenonT(60), <1>2, <1>3, <1>4 DEF CallersOK

\* A row that a cancel reads has quantity left.
LEMMA LiveRow ==
  ASSUME TypeOK, NEW o \in Orders, RowOK(o), Live(o)
  PROVE  row[o].filled < Quantity[o] /\ row[o].status # "none"
<1>1. Quantity[o] \in Nat /\ Quantity[o] > 0 /\ row[o].filled \in Nat
  BY ZenonT(60), Constants, OrderType
<1> QED
  BY ZenonT(60), <1>1 DEF RowOK, Live, LiveStatuses

\* A cancel reads rows that are live.
LEMMA ReadStep ==
  ASSUME SpotInv, NEW c \in Cancellers, cancelOrder(c) \/ cancelAll(c)
  PROVE  SpotInv'
<1>1. TypeOK /\ CallersOK
  BY ZenonT(60) DEF SpotInv
<1>2. PICK S \in SUBSET Orders : readOrders(c, S) /\ \A o \in S : Live(o)
  <2>1. CASE cancelOrder(c)
    <3>1. PICK o \in Orders : Live(o) /\ readOrders(c, {o})
      BY ZenonT(60), <2>1 DEF cancelOrder
    <3>2. {o} \in SUBSET Orders /\ \A x \in {o} : Live(x)
      BY ZenonT(60), <3>1
    <3> QED
      BY ZenonT(60), <3>1, <3>2
  <2>2. CASE cancelAll(c)
    <3>1. readOrders(c, {o \in Orders : Live(o)})
      BY ZenonT(60), <2>2 DEF cancelAll
    <3>2. {o \in Orders : Live(o)} \in SUBSET Orders /\ \A x \in {o \in Orders : Live(o)} : Live(x)
      BY ZenonT(60)
    <3> QED
      BY ZenonT(60), <3>1, <3>2
  <2> QED
    BY ZenonT(60), <2>1, <2>2
<1> DEFINE read == [o \in Orders |-> IF o \in S THEN row[o].filled ELSE 0]
           r == [todo |-> S, done |-> {}, filled |-> read]
<1>3. \A o \in Orders : row[o].filled \in Nat
  BY ZenonT(60), <1>1, OrderType
<1>4. r \in [todo : SUBSET Orders, done : SUBSET Orders, filled : [Orders -> Nat]]
  BY ZenonT(60), <1>3
<1>5. \A x \in r.todo \cup r.done : r.filled[x] < Quantity[x] /\ row[x].status # "none"
  <2> SUFFICES ASSUME NEW x \in S
               PROVE  row[x].filled < Quantity[x] /\ row[x].status # "none"
    BY ZenonT(60)
  <2>1. RowOK(x) /\ Live(x)
    BY ZenonT(60), <1>2 DEF SpotInv
  <2> QED
    BY ZenonT(60), <1>1, <2>1, LiveRow
<1>6. /\ cancelling' = [cancelling EXCEPT ![c] = r]
      /\ UNCHANGED <<kind, row, locked, sent, book, unsettled, held, loose>>
      /\ replaying' = replaying /\ placing' = placing /\ triggering' = triggering
  BY ZenonT(60), <1>2 DEF readOrders, engineVars
<1> HIDE DEF r
<1>7. CallersOK'
  BY ZenonT(60), <1>1, <1>4, <1>5, <1>6, CancelMoves
<1>8. /\ placing' \in [Orders -> {"idle", "waiting", "rolling_back", "refused"}]
      /\ triggering' \subseteq Orders
  BY ZenonT(60), <1>1, <1>6 DEF TypeOK
<1> QED
  BY ZenonT(60), <1>6, <1>7, <1>8, OnlyCallers

\* The engine drops what it has of an order, or nothing happens to it.
LEMMA EngineDrops ==
  ASSUME SpotInv, NEW o \in Orders, book' = book \/ book' = [book EXCEPT ![o] = 0],
         UNCHANGED <<kind, row, locked, sent, unsettled, placing, triggering, held, loose>>, CallersOK'
  PROVE  SpotInv'
<1>1. TypeOK
  BY ZenonT(60) DEF SpotInv
<1>2. /\ book' \in [Orders -> Nat] /\ book'[o] <= book[o]
      /\ \A x \in Orders \ {o} : book'[x] = book[x]
  <2>1. book \in [Orders -> Nat] /\ (book' = book \/ book' = [book EXCEPT ![o] = 0])
    BY ZenonT(60), <1>1 DEF TypeOK
  <2> QED
    BY ONLY SMTT(60), Z3T(60), <2>1
<1>3. InFlight(o)' = InFlight(o) /\ Unsettled(o)' = Unsettled(o)
  BY ZenonT(60) DEF InFlight, Unsettled
<1>4. InFlight(o) \in Nat /\ Unsettled(o) \in Nat /\ book[o] \in Nat /\ book'[o] \in Nat
  BY ZenonT(60), <1>1, <1>2, OutType, OrderType
<1>5. Alive(o)' => Alive(o)
  BY SMTT(60), Z3T(60), <1>2, <1>3, <1>4 DEF Alive
<1>6. Unsettled(o)' + book'[o] + InFlight(o)' <= Unsettled(o) + book[o] + InFlight(o)
  BY ONLY SMTT(60), Z3T(60), <1>2, <1>3, <1>4
<1>7. /\ DOMAIN sent' = Orders /\ \A x \in Orders : sent'[x] \in [Sizes(x) -> Nat] /\ sent'[x] = sent[x]
      /\ unsettled' \in [Orders -> [Prices -> Nat]]
  BY ZenonT(60), <1>1 DEF TypeOK
<1> QED
  BY ZenonT(60), <1>2, <1>5, <1>6, <1>7, EngineStep

\* The rows of a cancel request were placed.
LEMMA CancelledWerePlaced ==
  ASSUME CallersOK, NEW c \in Cancellers, NEW x \in cancelling[c].todo \cup cancelling[c].done
  PROVE  /\ x \in Orders /\ row[x].status # "none" /\ cancelling[c].filled[x] < Quantity[x]
         /\ cancelling[c].filled[x] \in Nat
<1>1. x \in Orders /\ cancelling[c].filled[x] \in Nat
  BY ZenonT(60) DEF CallersOK
<1>2. cancelling[c].filled[x] < Quantity[x]
  BY ZenonT(60) DEF CallersOK
<1>3. row[x].status = "none" => Idle(x)
  BY ZenonT(60), <1>1 DEF CallersOK
<1> QED
  BY ZenonT(60), <1>1, <1>2, <1>3 DEF Idle

\* A cancel in the engine removes an order from the book, or fails.
LEMMA CancelEngineStep ==
  ASSUME SpotInv, NEW c \in Cancellers,
         cancelOnMatchingEngineIfNeeded(c) \/ cancelOnMatchingEngineFails(c)
  PROVE  SpotInv'
<1>1. TypeOK /\ CallersOK
  BY ZenonT(60) DEF SpotInv
<1>2. PICK s : s = cancelling[c]
  BY ZenonT(60)
<1>3. s \in [todo : SUBSET Orders, done : SUBSET Orders, filled : [Orders -> Nat]]
  BY ZenonT(60), <1>1, <1>2 DEF CallersOK
<1>4. \A x \in s.todo \cup s.done : s.filled[x] < Quantity[x] /\ row[x].status # "none"
  BY ZenonT(60), <1>1, <1>2, CancelledWerePlaced
<1>5. PICK o \in s.todo :
        /\ book' = book \/ book' = [book EXCEPT ![o] = 0]
        /\ \/ cancelling' = [cancelling EXCEPT ![c] = [s EXCEPT !.todo = @ \ {o}, !.done = @ \cup {o}]]
           \/ cancelling' = [cancelling EXCEPT ![c] = [s EXCEPT !.todo = @ \ {o}, !.filled[o] = 0]]
  <2>1. CASE cancelOnMatchingEngineIfNeeded(c)
    <3>1. PICK o \in s.todo :
            /\ book' = IF IsStop(o) THEN book ELSE [book EXCEPT ![o] = 0]
            /\ cancelling' = [cancelling EXCEPT ![c].todo = @ \ {o}, ![c].done = @ \cup {o}]
      BY ZenonT(60), <1>2, <2>1 DEF cancelOnMatchingEngineIfNeeded
    <3>2. cancelling' = [cancelling EXCEPT ![c] = [s EXCEPT !.todo = @ \ {o}, !.done = @ \cup {o}]]
      BY ZenonT(60), <1>2, <3>1
    <3>3. book' = book \/ book' = [book EXCEPT ![o] = 0]
      BY ZenonT(60), <3>1
    <3> QED
      BY ZenonT(60), <3>2, <3>3
  <2>2. CASE cancelOnMatchingEngineFails(c)
    <3>1. PICK o \in s.todo :
            /\ book' \in {book, [book EXCEPT ![o] = 0]}
            /\ cancelling' = [cancelling EXCEPT ![c] = [s EXCEPT !.todo = @ \ {o}, !.filled[o] = 0]]
      BY ZenonT(60), <1>2, <2>2 DEF cancelOnMatchingEngineFails
    <3> QED
      BY ZenonT(60), <3>1
  <2> QED
    BY ZenonT(60), <2>1, <2>2
<1>6. Quantity[o] > 0 /\ o \in Orders
  BY ZenonT(60), <1>3, Constants
<1>7. PICK r \in [todo : SUBSET Orders, done : SUBSET Orders, filled : [Orders -> Nat]] :
        /\ cancelling' = [cancelling EXCEPT ![c] = r]
        /\ r.todo \cup r.done \subseteq s.todo \cup s.done
        /\ \A x \in Orders \ {o} : r.filled[x] = s.filled[x]
        /\ r.filled[o] = s.filled[o] \/ r.filled[o] = 0
  <2>1. ASSUME NEW r, r = [s EXCEPT !.todo = @ \ {o}, !.done = @ \cup {o}]
        PROVE  /\ r \in [todo : SUBSET Orders, done : SUBSET Orders, filled : [Orders -> Nat]]
               /\ r.todo \cup r.done \subseteq s.todo \cup s.done
               /\ r.filled = s.filled
    BY ONLY ZenonT(60), <1>3, <1>6, <2>1
  <2>2. ASSUME NEW r, r = [s EXCEPT !.todo = @ \ {o}, !.filled[o] = 0]
        PROVE  /\ r \in [todo : SUBSET Orders, done : SUBSET Orders, filled : [Orders -> Nat]]
               /\ r.todo \cup r.done \subseteq s.todo \cup s.done
               /\ r.filled[o] = 0 /\ \A x \in Orders \ {o} : r.filled[x] = s.filled[x]
    BY ONLY ZenonT(60), <1>3, <1>6, <2>2
  <2> QED
    BY ZenonT(60), <1>5, <2>1, <2>2
<1>8. \A x \in r.todo \cup r.done : r.filled[x] < Quantity[x] /\ row[x].status # "none"
  BY ZenonT(60), <1>3, <1>4, <1>6, <1>7
<1>9. /\ UNCHANGED <<kind, row, locked, sent, unsettled, placing, triggering, held, loose>>
      /\ replaying' = replaying
  BY ZenonT(60) DEF cancelOnMatchingEngineIfNeeded, cancelOnMatchingEngineFails
<1>10. CallersOK'
  BY ZenonT(60), <1>1, <1>7, <1>8, <1>9, CancelMoves
<1> QED
  BY ZenonT(60), <1>5, <1>6, <1>9, <1>10, EngineDrops

\* Writing some columns of a row.
LEMMA RowUpdate ==
  ASSUME NEW A, NEW B, NEW v \in [status : A, filled : Nat, type : B],
         NEW s \in A, NEW n \in Nat, NEW t \in B
  PROVE  /\ \A u : u = [v EXCEPT !.filled = n, !.status = s] =>
               u \in [status : A, filled : Nat, type : B] /\ u.filled = n /\ u.status = s
         /\ \A u : u = [v EXCEPT !.status = s, !.type = t] =>
               u \in [status : A, filled : Nat, type : B] /\ u.filled = v.filled /\ u.status = s
  BY ZenonT(60)

\* The same for a row whose status alone is written.
LEMMA StatusUpdate ==
  ASSUME NEW A, NEW B, NEW v \in [status : A, filled : Nat, type : B], NEW s \in A,
         NEW u, u = [v EXCEPT !.status = s]
  PROVE  u \in [status : A, filled : Nat, type : B] /\ u.filled = v.filled /\ u.status = s
  BY ZenonT(60)

\* A settled unit leaves the lock and is added to the row.
LEMMA SettleStep ==
  ASSUME SpotInv, NEW o \in Orders, settleMatchEvent(o)
  PROVE  SpotInv'
<1>1. TypeOK /\ CallersOK /\ RowOK(o) /\ (o \notin loose => FirmOK(o))
  BY ZenonT(60) DEF SpotInv
<1>2. PICK p \in fillPrices(o) :
        /\ unsettled[o][p] > 0
        /\ unsettled' = [unsettled EXCEPT ![o][p] = unsettled[o][p] - 1]
        /\ locked >= p /\ locked' = locked - p
        /\ held' = [held EXCEPT ![o] = held[o] - p]
  BY ZenonT(60) DEF settleMatchEvent, debitLocked
<1>3. /\ UNCHANGED <<kind, sent, book, loose>> /\ UNCHANGED callerVars
      /\ row' = [row EXCEPT ![o].filled = row[o].filled + 1,
                            ![o].status = IF Quantity[o] - row[o].filled - 1 <= 0
                                          THEN "FILLED" ELSE "PARTIALLY_FILLED"]
  BY ZenonT(60) DEF settleMatchEvent, updateSpotOrdersFilledAfterMatch
<1>4. /\ p \in Prices /\ p \in Nat /\ (IsSell(o) => p = 1)
      /\ (~IsSell(o) /\ ~IsMarketBuy(o) => p <= Price)
  BY ZenonT(60), FillPrices
<1>5. /\ Quantity[o] \in Nat /\ Price \in Nat /\ locked \in Nat /\ held[o] \in Int
      /\ row[o].filled \in Nat /\ book[o] \in Nat /\ InFlight(o) \in Nat /\ Unsettled(o) \in Nat
  BY ZenonT(60), <1>1, Constants, OrderType, OutType
<1>6. /\ row' \in [Orders -> [status : LiveStatuses \cup {"none", "FILLED", "cancelled"},
                              filled : Nat, type : {"none", "stop", "book"}]]
      /\ row'[o].filled = row[o].filled + 1
      /\ row'[o].status = IF Quantity[o] - row[o].filled - 1 <= 0 THEN "FILLED" ELSE "PARTIALLY_FILLED"
      /\ \A x \in Orders \ {o} : row'[x] = row[x]
  <2>1. row \in [Orders -> [status : LiveStatuses \cup {"none", "FILLED", "cancelled"},
                            filled : Nat, type : {"none", "stop", "book"}]]
    BY ZenonT(60), <1>1 DEF TypeOK
  <2>2. PICK s : s = IF Quantity[o] - row[o].filled - 1 <= 0 THEN "FILLED" ELSE "PARTIALLY_FILLED"
    BY ZenonT(60)
  <2>3. s \in LiveStatuses \cup {"none", "FILLED", "cancelled"}
    BY ZenonT(60), <2>2 DEF LiveStatuses
  <2>4. row' = [row EXCEPT ![o].filled = row[o].filled + 1, ![o].status = s]
    BY ZenonT(60), <1>3, <2>2
  <2>5. PICK u : u = [row[o] EXCEPT !.filled = row[o].filled + 1, !.status = s]
    BY ZenonT(60)
  <2>6. /\ u \in [status : LiveStatuses \cup {"none", "FILLED", "cancelled"},
                  filled : Nat, type : {"none", "stop", "book"}]
        /\ u.filled = row[o].filled + 1 /\ u.status = s
    <3>1. row[o] \in [status : LiveStatuses \cup {"none", "FILLED", "cancelled"},
                     filled : Nat, type : {"none", "stop", "book"}]
      BY ZenonT(60), <2>1
    <3>2. row[o].filled + 1 \in Nat /\ "none" \in {"none", "stop", "book"}
      BY ONLY SMTT(60), Z3T(60), <1>5
    <3> QED
      BY ONLY ZenonT(60), <2>3, <2>5, <3>1, <3>2, RowUpdate
  <2>7. row' = [row EXCEPT ![o] = u]
    BY ONLY ZenonT(60), <2>1, <2>4, <2>5, o \in Orders
  <2>8. row'[o] = u /\ \A x \in Orders \ {o} : row'[x] = row[x]
    BY ONLY ZenonT(60), <2>1, <2>7, o \in Orders
  <2>9. row' \in [Orders -> [status : LiveStatuses \cup {"none", "FILLED", "cancelled"},
                            filled : Nat, type : {"none", "stop", "book"}]]
    BY ONLY ZenonT(60), <2>1, <2>6, <2>7, o \in Orders
  <2> QED
    BY ZenonT(60), <2>2, <2>6, <2>8, <2>9
<1>7. unsettled[o][p] \in Nat /\ unsettled[o][p] + (-1) \in Nat /\ unsettled[o][p] - 1 = unsettled[o][p] + (-1)
  <2>1. unsettled[o][p] \in Nat /\ unsettled[o][p] > 0
    BY ZenonT(60), <1>1, <1>2, <1>4 DEF TypeOK
  <2> QED
    BY ONLY SMTT(60), Z3T(60), <2>1
<1>8. /\ unsettled' \in [Orders -> [Prices -> Nat]]
      /\ \A x \in Orders \ {o} : unsettled'[x] = unsettled[x]
      /\ Unsettled(o)' = Unsettled(o) + (-1)
  <2>1. unsettled' = [unsettled EXCEPT ![o][p] = unsettled[o][p] + (-1)]
    BY ZenonT(60), <1>2, <1>7
  <2> QED
    BY ZenonT(60), <1>1, <1>4, <1>7, <2>1, UnsettledChange
<1>9. Unsettled(o) > 0 /\ Alive(o)
  BY ZenonT(60), <1>1, <1>2, <1>4, OutType DEF Alive
<1>10. /\ held' \in [Orders -> Int] /\ held'[o] = held[o] + (-p)
       /\ \A x \in Orders \ {o} : held'[x] = held[x]
  <2>1. held \in [Orders -> Int]
    BY ZenonT(60), <1>1 DEF TypeOK
  <2> QED
    BY ONLY SMTT(60), Z3T(60), <1>2, <1>4, <2>1
<1>11. locked' \in Nat /\ locked' = locked + (-p) /\ -p \in Int
  BY ONLY SMTT(60), Z3T(60), <1>2, <1>4, <1>5
<1>12. TypeOK'
  BY ZenonT(60), <1>1, <1>3, <1>6, <1>8, <1>10, <1>11 DEF TypeOK, callerVars
<1>13. CallersOK'
  BY SMTT(60), Z3T(60), <1>1, <1>3, <1>6, CallersStay
<1>14. \A x \in Orders \ {o} : SameOrder(x)
  BY ZenonT(60), <1>3, <1>6, <1>8, <1>10 DEF SameOrder
<1>15. RowOK(o)'
  BY SMTT(60), Z3T(60), <1>5, <1>6 DEF RowOK
<1>16. o \in loose' \/ FirmOK(o)'
  <2> SUFFICES ASSUME o \notin loose
               PROVE  FirmOK(o)'
    BY ZenonT(60), <1>3
  <2>1. /\ row[o].filled + Unsettled(o) + book[o] + InFlight(o) <= Quantity[o]
        /\ row[o].status # "cancelled" /\ (IsMarketBuy(o) \/ LockOK(o))
    BY ZenonT(60), <1>1, <1>9 DEF FirmOK
  <2>2. row[o].status \in LiveStatuses \cup {"FILLED"}
    BY ZenonT(60), <1>1, <1>9, <2>1, OrderType DEF RowOK, LiveStatuses
  <2>3. InFlight(o)' = InFlight(o) /\ book'[o] = book[o]
    BY ZenonT(60), <1>3 DEF InFlight
  <2>4. row'[o].filled + Unsettled(o)' + book'[o] + InFlight(o)' <= Quantity[o]
    BY ONLY SMTT(60), Z3T(60), <1>5, <1>6, <1>8, <2>1, <2>3
  <2>5. (IsSell(o)' <=> IsSell(o)) /\ (IsMarketBuy(o)' <=> IsMarketBuy(o))
    BY ZenonT(60), <1>3 DEF IsSell, IsMarketBuy
  <2>6. CASE IsSell(o)
    <3>1. held[o] = Quantity[o] - row[o].filled
      BY ZenonT(60), <2>1, <2>2, <2>6 DEF LockOK, IsSell, IsMarketBuy, Sells
    <3>2. held'[o] = Quantity[o] - row'[o].filled
      BY SMTT(60), Z3T(60), <1>4, <1>5, <1>6, <1>10, <2>6, <3>1
    <3>3. LockOK(o)'
      BY ZenonT(60), <1>6, <2>5, <2>6, <3>2 DEF LockOK
    <3> QED
      BY ZenonT(60), <1>6, <2>4, <3>3 DEF FirmOK
  <2>7. CASE ~IsSell(o) /\ ~IsMarketBuy(o)
    <3>1. held[o] >= Price * (Quantity[o] - row[o].filled)
      BY ZenonT(60), <2>1, <2>2, <2>7 DEF LockOK
    <3>2. Price * (Quantity[o] - row'[o].filled) = Price * (Quantity[o] - row[o].filled) - Price
      BY ONLY SMTT(60), Z3T(60), <1>5, <1>6
    <3>3. held'[o] >= Price * (Quantity[o] - row'[o].filled)
      <4>1. Price * (Quantity[o] - row[o].filled) \in Int
        BY ONLY SMTT(60), Z3T(60), <1>5
      <4>2. p <= Price
        BY ZenonT(60), <1>4, <2>7
      <4> QED
        BY ONLY SMTT(60), Z3T(60), <1>4, <1>5, <1>10, <3>1, <3>2, <4>1, <4>2
    <3>4. LockOK(o)'
      BY ZenonT(60), <1>6, <2>5, <2>7, <3>3 DEF LockOK
    <3> QED
      BY ZenonT(60), <1>6, <2>4, <3>4 DEF FirmOK
  <2>8. CASE IsMarketBuy(o)
    BY ZenonT(60), <1>6, <2>4, <2>5, <2>8 DEF FirmOK
  <2> QED
    BY ZenonT(60), <2>6, <2>7, <2>8
<1>17. (\A x \in Orders : RowOK(x)') /\ (\A x \in Orders \ loose' : FirmOK(x)')
  BY ZenonT(60), <1>3, <1>14, <1>15, <1>16, OneOrder
<1>18. LockedOK'
  BY ZenonT(60), <1>3, <1>10, <1>11, <1>12, <1>17, LockedMoves
<1> QED
  BY ZenonT(60), <1>12, <1>13, <1>17, <1>18 DEF SpotInv

\* A row that stays live, with as much filled, keeps its lock.
LEMMA LockStays ==
  ASSUME NEW o \in Orders, kind' = kind, held' = held, row'[o].filled = row[o].filled,
         row[o].status \in LiveStatuses, row'[o].status \in LiveStatuses,
         IsMarketBuy(o) \/ LockOK(o)
  PROVE  IsMarketBuy(o)' \/ LockOK(o)'
<1>1. (IsSell(o)' <=> IsSell(o)) /\ (IsMarketBuy(o)' <=> IsMarketBuy(o))
  BY ZenonT(60) DEF IsSell, IsMarketBuy
<1> QED
  BY ZenonT(60), <1>1 DEF LockOK, LiveStatuses

\* Only the status and the type of one row are written.
LEMMA StatusWrite ==
  ASSUME TypeOK, NEW o \in Orders, NEW s \in LiveStatuses \cup {"none", "FILLED", "cancelled"},
         NEW t \in {"none", "stop", "book"},
         row' = [row EXCEPT ![o].status = s, ![o].type = t]
  PROVE  /\ row' \in [Orders -> [status : LiveStatuses \cup {"none", "FILLED", "cancelled"},
                                 filled : Nat, type : {"none", "stop", "book"}]]
         /\ row'[o].status = s /\ row'[o].filled = row[o].filled
         /\ \A x \in Orders \ {o} : row'[x] = row[x]
<1>1. row \in [Orders -> [status : LiveStatuses \cup {"none", "FILLED", "cancelled"},
                          filled : Nat, type : {"none", "stop", "book"}]]
  BY ZenonT(60) DEF TypeOK
<1>2. PICK u : u = [row[o] EXCEPT !.status = s, !.type = t]
  BY ZenonT(60)
<1>3. row[o] \in [status : LiveStatuses \cup {"none", "FILLED", "cancelled"},
                  filled : Nat, type : {"none", "stop", "book"}]
  BY ZenonT(60), <1>1
<1>4. /\ u \in [status : LiveStatuses \cup {"none", "FILLED", "cancelled"},
                filled : Nat, type : {"none", "stop", "book"}]
      /\ u.filled = row[o].filled /\ u.status = s
  BY ONLY ZenonT(60), <1>2, <1>3, 0 \in Nat, RowUpdate
<1>5. row' = [row EXCEPT ![o] = u]
  BY ONLY ZenonT(60), <1>1, <1>2, row' = [row EXCEPT ![o].status = s, ![o].type = t]
<1> QED
  BY ONLY ZenonT(60), <1>1, <1>4, <1>5, o \in Orders

\* The trigger sends what the row has left.
LEMMA TriggerStep ==
  ASSUME SpotInv, NEW o \in Orders, triggerStop(o)
  PROVE  SpotInv'
<1>1. TypeOK /\ CallersOK /\ RowOK(o) /\ (o \notin loose => FirmOK(o))
  BY ZenonT(60) DEF SpotInv
<1>2. row[o].status = "PENDING_TRIGGER" /\ row[o].filled = 0
  BY ZenonT(60), <1>1 DEF triggerStop, RowOK
<1>3. Quantity[o] \in Nat /\ Quantity[o] > 0 /\ Quantity[o] - row[o].filled = Quantity[o]
  BY SMTT(60), Z3T(60), <1>2, Constants
<1>4. /\ UNCHANGED <<kind, locked, book, unsettled, placing, cancelling, replaying, restarts, held>>
      /\ row' = [row EXCEPT ![o].status = "OPEN", ![o].type = "book"]
      /\ sent' = [sent EXCEPT ![o][Quantity[o]] = sent[o][Quantity[o]] + 1]
      /\ triggering' = triggering \cup {o}
      /\ loose' = loose \cup {x \in {o} : Alive(x)}
  BY ZenonT(60), <1>3 DEF triggerStop
<1>5. /\ row' \in [Orders -> [status : LiveStatuses \cup {"none", "FILLED", "cancelled"},
                              filled : Nat, type : {"none", "stop", "book"}]]
      /\ row'[o].status = "OPEN" /\ row'[o].filled = 0
      /\ \A x \in Orders \ {o} : row'[x] = row[x]
  BY ZenonT(60), <1>1, <1>2, <1>4, StatusWrite DEF LiveStatuses
<1>6. Quantity[o] \in Sizes(o) /\ sent[o][Quantity[o]] + 1 \in Nat
  <2>1. Quantity[o] \in Sizes(o)
    BY ZenonT(60), Constants
  <2>2. sent[o][Quantity[o]] \in Nat
    BY ZenonT(60), <1>1, <2>1 DEF TypeOK
  <2> QED
    BY ONLY SMTT(60), Z3T(60), <2>1, <2>2
<1>7. /\ DOMAIN sent' = Orders /\ \A x \in Orders : sent'[x] \in [Sizes(x) -> Nat]
      /\ \A x \in Orders \ {o} : sent'[x] = sent[x]
      /\ InFlight(o)' = InFlight(o) + Quantity[o] * 1
  BY ZenonT(60), <1>1, <1>4, <1>6, SentChange
<1>8. TypeOK'
  <2>1. loose' \subseteq Orders /\ triggering' \subseteq Orders
    BY ZenonT(60), <1>1, <1>4 DEF TypeOK
  <2> QED
    BY ZenonT(60), <1>1, <1>4, <1>5, <1>7, <2>1 DEF TypeOK
<1>9. CallersOK'
  <2>1. \A x \in Orders : row'[x].status = "none" => Idle(x)'
    BY ZenonT(60), <1>1, <1>4, <1>5 DEF CallersOK, Idle
  <2> QED
    BY ZenonT(60), <1>1, <1>4, <2>1 DEF CallersOK
<1>10. \A x \in Orders \ {o} : SameOrder(x)
  BY ZenonT(60), <1>4, <1>5, <1>7 DEF SameOrder
<1>11. RowOK(o)'
  BY ZenonT(60), <1>5 DEF RowOK
<1>12. o \in loose' \/ FirmOK(o)'
  <2> SUFFICES ASSUME o \notin loose'
               PROVE  FirmOK(o)'
    BY ZenonT(60)
  <2>1. FirmOK(o) /\ ~Alive(o)
    BY ZenonT(60), <1>1, <1>4
  <2>2. InFlight(o) = 0 /\ Unsettled(o) = 0 /\ book[o] = 0
    BY ZenonT(60), <1>1, <2>1, NotAlive
  <2>3. Unsettled(o)' = 0 /\ book'[o] = 0
    BY ZenonT(60), <1>4, <2>2 DEF Unsettled
  <2>4. row'[o].filled + Unsettled(o)' + book'[o] + InFlight(o)' <= Quantity[o]
    BY ONLY SMTT(60), Z3T(60), <1>3, <1>5, <1>7, <2>2, <2>3
  <2>5. IsMarketBuy(o)' \/ LockOK(o)'
    BY ZenonT(60), <1>2, <1>4, <1>5, <2>1, LockStays DEF FirmOK, LiveStatuses
  <2> QED
    BY ZenonT(60), <1>5, <2>4, <2>5 DEF FirmOK
<1>13. (\A x \in Orders : RowOK(x)') /\ (\A x \in Orders \ loose' : FirmOK(x)')
  BY ZenonT(60), <1>4, <1>10, <1>11, <1>12, OneOrder
<1>14. LockedOK'
  BY ZenonT(60), <1>4, LockedStays DEF SpotInv
<1> QED
  BY ZenonT(60), <1>8, <1>9, <1>13, <1>14 DEF SpotInv

\* A failed trigger puts a row that is still open back.
LEMMA TriggerFailsStep ==
  ASSUME SpotInv, NEW o \in Orders, triggerFails(o)
  PROVE  SpotInv'
<1>1. TypeOK /\ CallersOK /\ RowOK(o) /\ (o \notin loose => FirmOK(o))
  BY ZenonT(60) DEF SpotInv
<1>2. /\ UNCHANGED <<kind, locked, placing, cancelling, replaying, held, loose, sent, book, unsettled>>
      /\ triggering' = triggering \ {o}
  BY ZenonT(60) DEF triggerFails, engineVars
<1>3. triggering' \subseteq Orders
  BY ZenonT(60), <1>1, <1>2 DEF TypeOK
<1>4. CASE row[o].status # "OPEN"
  <2>1. row' = row
    BY ZenonT(60), <1>4 DEF triggerFails
  <2>2. CallersOK'
    BY ZenonT(60), <1>1, <1>2, <2>1 DEF CallersOK, Idle
  <2>3. placing' \in [Orders -> {"idle", "waiting", "rolling_back", "refused"}]
    BY ZenonT(60), <1>1, <1>2 DEF TypeOK
  <2> QED
    BY ZenonT(60), <1>2, <1>3, <2>1, <2>2, <2>3, OnlyCallers
<1>5. CASE row[o].status = "OPEN"
  <2>1. row' = [row EXCEPT ![o].status = "PENDING_TRIGGER", ![o].type = "stop"] /\ row[o].filled = 0
    BY ZenonT(60), <1>1, <1>5 DEF triggerFails, RowOK
  <2>2. /\ row' \in [Orders -> [status : LiveStatuses \cup {"none", "FILLED", "cancelled"},
                                filled : Nat, type : {"none", "stop", "book"}]]
        /\ row'[o].status = "PENDING_TRIGGER" /\ row'[o].filled = row[o].filled
        /\ \A x \in Orders \ {o} : row'[x] = row[x]
    BY ZenonT(60), <1>1, <2>1, StatusWrite DEF LiveStatuses
  <2>3. TypeOK'
    BY ZenonT(60), <1>1, <1>2, <1>3, <2>2 DEF TypeOK
  <2>4. CallersOK'
    <3>1. \A x \in Orders : row'[x].status = "none" => Idle(x)'
      BY ZenonT(60), <1>1, <1>2, <2>2 DEF CallersOK, Idle
    <3> QED
      BY ZenonT(60), <1>1, <1>2, <3>1 DEF CallersOK
  <2>5. \A x \in Orders \ {o} : SameOrder(x)
    BY ZenonT(60), <1>2, <2>2 DEF SameOrder
  <2>6. RowOK(o)'
    BY ZenonT(60), <2>1, <2>2 DEF RowOK
  <2>7. o \in loose' \/ FirmOK(o)'
    <3> SUFFICES ASSUME o \notin loose
                 PROVE  FirmOK(o)'
      BY ZenonT(60), <1>2
    <3>1. InFlight(o)' = InFlight(o) /\ Unsettled(o)' = Unsettled(o)
      BY ZenonT(60), <1>2 DEF InFlight, Unsettled
    <3>2. IsMarketBuy(o)' \/ LockOK(o)'
      BY ZenonT(60), <1>1, <1>2, <1>5, <2>2, LockStays DEF FirmOK, LiveStatuses
    <3> QED
      BY ZenonT(60), <1>1, <1>2, <2>2, <3>1, <3>2 DEF FirmOK
  <2>8. (\A x \in Orders : RowOK(x)') /\ (\A x \in Orders \ loose' : FirmOK(x)')
    BY ZenonT(60), <1>2, <2>5, <2>6, <2>7, OneOrder
  <2>9. LockedOK'
    BY ZenonT(60), <1>2, LockedStays DEF SpotInv
  <2> QED
    BY ZenonT(60), <2>3, <2>4, <2>8, <2>9 DEF SpotInv
<1> QED
  BY ZenonT(60), <1>4, <1>5

\* A restart reads the open rows and forgets the callers.
LEMMA RestartStep ==
  ASSUME SpotInv, restart
  PROVE  SpotInv'
<1>1. TypeOK /\ CallersOK
  BY ZenonT(60) DEF SpotInv
<1>2. /\ UNCHANGED <<kind, row, locked, sent, book, unsettled, held, loose>>
      /\ placing' = [o \in Orders |-> IF placing[o] = "refused" THEN "refused" ELSE "idle"]
      /\ triggering' = {} /\ cancelling' = [c \in Cancellers |-> NoCancel]
  BY ZenonT(60) DEF restart, engineVars
<1>0. PICK error \in [Replayable -> -1 .. 1] : replaying' = [o \in Orders |->
          IF o \in Replayable /\ floatRemainder(o, error[o]) > 0
          THEN [qty |-> floatRemainder(o, error[o]), tries |-> ReplayTries]
          ELSE NoReplay]
  BY ZenonT(60) DEF restart
<1>3. ASSUME NEW o \in Orders
      PROVE  /\ replaying'[o] \in [qty : Nat, tries : Nat]
             /\ replaying'[o].tries > 0 => replaying'[o].qty \in Sizes(o)
             /\ row[o].status = "none" => replaying'[o].tries = 0
  <2>1. /\ Quantity[o] \in Nat /\ row[o].filled \in Nat /\ ReplayTries \in Nat
    BY ZenonT(60), <1>1, Constants, OrderType, ConstantsAssumption
  <2>2. CASE o \in Replayable /\ floatRemainder(o, error[o]) > 0
    <3>1. replaying'[o] = [qty |-> floatRemainder(o, error[o]), tries |-> ReplayTries]
      BY ZenonT(60), <1>0, <2>2
    <3>2. error[o] \in -1 .. 1
      BY ZenonT(60), <1>0, <2>2
    <3>3. row[o].status # "none"
      BY SMTT(60), Z3T(60), <2>2 DEF Replayable
    <3> QED
      BY SMTT(60), Z3T(60), <2>1, <2>2, <3>1, <3>2, <3>3 DEF floatRemainder, Sizes
  <2>3. CASE ~(o \in Replayable /\ floatRemainder(o, error[o]) > 0)
    <3>1. replaying'[o] = NoReplay
      BY ZenonT(60), <1>0, <2>3
    <3> QED
      BY SMTT(60), Z3T(60), <3>1 DEF NoReplay
  <2> QED
    BY ZenonT(60), <2>2, <2>3
<1>4. replaying' \in [Orders -> [qty : Nat, tries : Nat]]
  <2>1. DOMAIN replaying' = Orders /\ replaying' = [o \in Orders |-> replaying'[o]]
    BY ZenonT(60), <1>0
  <2> QED
    BY ZenonT(60), <1>3, <2>1
<1>5. NoCancel \in [todo : SUBSET Orders, done : SUBSET Orders, filled : [Orders -> Nat]]
      /\ NoCancel.todo = {} /\ NoCancel.done = {}
  BY ZenonT(60) DEF NoCancel
<1>6. /\ cancelling' \in [Cancellers -> [todo : SUBSET Orders, done : SUBSET Orders,
                                         filled : [Orders -> Nat]]]
      /\ \A c \in Cancellers : cancelling'[c].todo = {} /\ cancelling'[c].done = {}
  <2> HIDE DEF NoCancel
  <2> QED
    BY ZenonT(60), <1>2, <1>5
<1>7. \A o \in Orders : row'[o].status = "none" => Idle(o)'
  <2> SUFFICES ASSUME NEW o \in Orders, row[o].status = "none"
               PROVE  Idle(o)'
    BY ZenonT(60), <1>2
  <2>1. placing[o] = "idle"
    BY ZenonT(60), <1>1 DEF CallersOK, Idle
  <2>2. placing'[o] = "idle"
    BY ZenonT(60), <1>2, <2>1
  <2> QED
    BY ZenonT(60), <1>3, <1>6, <2>2 DEF Idle
<1>8. CallersOK'
  BY ZenonT(60), <1>3, <1>4, <1>6, <1>7 DEF CallersOK
<1>9. placing' \in [Orders -> {"idle", "waiting", "rolling_back", "refused"}] /\ triggering' \subseteq Orders
  BY ZenonT(60), <1>2
<1> QED
  BY ZenonT(60), <1>2, <1>8, <1>9, OnlyCallers

\* The replay sends what the row had left when the API started; an order that is
\* alive then is loose.
LEMMA ReplayStep ==
  ASSUME SpotInv, NEW o \in Orders, replayOpenOrdersToRustEngine(o)
  PROVE  SpotInv'
<1>1. TypeOK /\ CallersOK /\ RowOK(o) /\ (o \notin loose => FirmOK(o))
  BY ZenonT(60) DEF SpotInv
<1>2. PICK k : k = replaying[o].qty
  BY ZenonT(60)
<1>3. /\ k \in Sizes(o) /\ replaying[o].tries > 0
      /\ replaying[o] \in [qty : Nat, tries : Nat] /\ replaying \in [Orders -> [qty : Nat, tries : Nat]]
      /\ row[o].status # "none"
  <2>1. replaying[o].tries > 0 /\ replaying[o] \in [qty : Nat, tries : Nat]
        /\ replaying \in [Orders -> [qty : Nat, tries : Nat]]
    BY ZenonT(60), <1>1 DEF CallersOK, replayOpenOrdersToRustEngine
  <2>2. replaying[o].qty \in Sizes(o) /\ (row[o].status = "none" => Idle(o))
    BY ZenonT(60), <1>1, <2>1 DEF CallersOK
  <2> QED
    BY SMTT(60), Z3T(60), <1>2, <2>1, <2>2 DEF Idle
<1>4. /\ UNCHANGED <<kind, row, locked, book, unsettled, placing, triggering, cancelling, held>>
      /\ sent' = [sent EXCEPT ![o][k] = sent[o][k] + 1]
      /\ loose' = loose \cup {x \in {o} : Alive(x) \/ ~Live(x) \/ replaying[x].qty > Quantity[x] - row[x].filled}
  BY ZenonT(60), <1>2 DEF replayOpenOrdersToRustEngine
<1>5. /\ replaying' \in [Orders -> [qty : Nat, tries : Nat]]
      /\ \A x \in Orders \ {o} : replaying'[x] = replaying[x]
      /\ replaying'[o].tries > 0 => replaying'[o].qty = k
  <2>1. PICK rest \in {NoReplay, [replaying[o] EXCEPT !.tries = @ - 1]} :
          replaying' = [replaying EXCEPT ![o] = IF rest.tries = 0 THEN NoReplay ELSE rest]
    BY ZenonT(60) DEF replayOpenOrdersToRustEngine
  <2>2. PICK u : u = IF rest.tries = 0 THEN NoReplay ELSE rest
    BY ZenonT(60)
  <2>3. NoReplay \in [qty : Nat, tries : Nat] /\ NoReplay.tries = 0
    BY ZenonT(60) DEF NoReplay
  <2>4. ASSUME NEW v, v = [replaying[o] EXCEPT !.tries = @ - 1]
        PROVE  v \in [qty : Nat, tries : Nat] /\ v.qty = k
    BY ONLY SMTT(60), Z3T(60), <1>2, <1>3, <2>4
  <2>5. u \in [qty : Nat, tries : Nat] /\ (u.tries > 0 => u.qty = k)
    <3> HIDE DEF NoReplay
    <3>1. u = NoReplay \/ u = [replaying[o] EXCEPT !.tries = @ - 1]
      BY ZenonT(60), <2>1, <2>2
    <3>2. CASE u = NoReplay
      BY SMTT(60), Z3T(60), <2>3, <3>2
    <3>3. CASE u = [replaying[o] EXCEPT !.tries = @ - 1]
      BY ZenonT(60), <2>4, <3>3
    <3> QED
      BY ZenonT(60), <3>1, <3>2, <3>3
  <2>6. replaying' = [replaying EXCEPT ![o] = u]
    BY ZenonT(60), <2>1, <2>2
  <2> QED
    BY ONLY ZenonT(60), <1>3, <2>5, <2>6, o \in Orders
<1>6. sent[o][k] + 1 \in Nat
  <2>1. sent[o][k] \in Nat
    BY ZenonT(60), <1>1, <1>3 DEF TypeOK
  <2> QED
    BY ONLY SMTT(60), Z3T(60), <2>1
<1>7. /\ DOMAIN sent' = Orders /\ \A x \in Orders : sent'[x] \in [Sizes(x) -> Nat]
      /\ \A x \in Orders \ {o} : sent'[x] = sent[x]
      /\ InFlight(o)' = InFlight(o) + k * 1
  BY ZenonT(60), <1>1, <1>3, <1>4, <1>6, SentChange
<1>8. TypeOK'
  <2>1. loose' \subseteq Orders
    BY ZenonT(60), <1>1, <1>4 DEF TypeOK
  <2> QED
    BY ZenonT(60), <1>1, <1>4, <1>7, <2>1 DEF TypeOK
<1>9. CallersOK'
  <2>1. \A x \in Orders : row'[x].status = "none" => Idle(x)'
    BY ZenonT(60), <1>1, <1>3, <1>4, <1>5 DEF CallersOK, Idle
  <2>2. ASSUME NEW x \in Orders, replaying'[x].tries > 0
        PROVE  replaying'[x].qty \in Sizes(x)
    <3>1. CASE x = o
      BY ZenonT(60), <1>3, <1>5, <2>2, <3>1
    <3>2. CASE x # o
      <4>1. replaying'[x] = replaying[x]
        BY ZenonT(60), <1>5, <3>2
      <4> QED
        BY ZenonT(60), <1>1, <2>2, <4>1 DEF CallersOK
    <3> QED
      BY ZenonT(60), <3>1, <3>2
  <2> QED
    BY ZenonT(60), <1>1, <1>4, <1>5, <2>1, <2>2 DEF CallersOK
<1>10. \A x \in Orders \ {o} : SameOrder(x)
  BY ZenonT(60), <1>4, <1>7 DEF SameOrder
<1>11. RowOK(o)'
  BY ZenonT(60), <1>1, <1>3, <1>4 DEF RowOK
<1>12. o \in loose' \/ FirmOK(o)'
  <2> SUFFICES ASSUME o \notin loose'
               PROVE  FirmOK(o)'
    BY ZenonT(60)
  <2>1. FirmOK(o) /\ ~Alive(o) /\ Live(o) /\ ~(k > Quantity[o] - row[o].filled)
    BY ZenonT(60), <1>1, <1>2, <1>4
  <2>2. InFlight(o) = 0 /\ Unsettled(o) = 0 /\ book[o] = 0
    BY ZenonT(60), <1>1, <2>1, NotAlive
  <2>3. Unsettled(o)' = 0 /\ book'[o] = 0
    BY ZenonT(60), <1>4, <2>2 DEF Unsettled
  <2>4. row'[o].filled + Unsettled(o)' + book'[o] + InFlight(o)' <= Quantity[o]
    <3>1. /\ row'[o].filled = row[o].filled /\ row[o].filled \in Nat
          /\ Quantity[o] \in Nat /\ k \in Nat
      BY ZenonT(60), <1>1, <1>3, <1>4, OrderType, Constants
    <3> QED
      BY ONLY SMTT(60), Z3T(60), <1>7, <2>1, <2>2, <2>3, <3>1
  <2>5. IsMarketBuy(o)' \/ LockOK(o)'
    BY ZenonT(60), <1>4, <2>1, LockStays DEF FirmOK, Live
  <2> QED
    BY ZenonT(60), <1>4, <2>1, <2>4, <2>5 DEF FirmOK, Live, LiveStatuses
<1>13. (\A x \in Orders : RowOK(x)') /\ (\A x \in Orders \ loose' : FirmOK(x)')
  BY ZenonT(60), <1>4, <1>10, <1>11, <1>12, OneOrder
<1>14. LockedOK'
  BY ZenonT(60), <1>4, LockedStays DEF SpotInv
<1> QED
  BY ZenonT(60), <1>8, <1>9, <1>13, <1>14 DEF SpotInv

\* When orders are released that no longer trade, each for what it holds, the
\* balance gives up what the orders do.
LEMMA SumRelease ==
  ASSUME NEW T, IsFiniteSet(T), NEW S \in SUBSET T, NEW old \in [T -> Nat], NEW new \in [T -> Nat],
         NEW amount, \A x \in S : amount[x] = old[x] /\ new[x] = 0,
         \A x \in T \ S : new[x] = old[x]
  PROVE  SumOf(old, T) = SumOf(new, T) + SumOf(amount, S)
<1>1. IsFiniteSet(S) /\ IsFiniteSet(T \ S) /\ S \cap (T \ S) = {} /\ T = S \cup (T \ S)
  BY ZenonT(60), FS_Subset
<1>2. SumOf(old, T) = SumOf(old, S) + SumOf(old, T \ S)
  BY ZenonT(60), <1>1, SumSplit
<1>3. SumOf(new, T) = SumOf(new, S) + SumOf(new, T \ S)
  BY ZenonT(60), <1>1, SumSplit
<1>4. SumOf(new, S) = 0
  BY ZenonT(60), SumZero
<1>5. SumOf(new, T \ S) = SumOf(old, T \ S)
  BY ZenonT(60), SumSame
<1>6. SumOf(amount, S) = SumOf(old, S)
  BY ZenonT(60), SumSame
<1>7. SumOf(old, S) \in Nat /\ SumOf(old, T \ S) \in Nat
  BY ZenonT(60), <1>1, SumType
<1> QED
  BY SMTT(60), Z3T(60), <1>2, <1>3, <1>4, <1>5, <1>6, <1>7

\* Orders are cancelled and unlocked.  One that stays firm was live, gone from
\* the engine, and is unlocked for what its row had left.
LEMMA ReleaseStep ==
  ASSUME SpotInv, NEW S \in SUBSET Orders, NEW amount, \A x \in S : amount[x] \in Nat,
         unlockTradingBalance(S, amount), setStatus(S, "cancelled"),
         loose \subseteq loose', loose' \subseteq Orders,
         UNCHANGED <<kind, sent, book, unsettled, triggering>>,
         placing' \in [Orders -> {"idle", "waiting", "rolling_back", "refused"}], CallersOK',
         \A x \in S \ loose' :
            /\ ~Alive(x) /\ Live(x)
            /\ IsSell(x) => amount[x] = Quantity[x] - row[x].filled
            /\ ~IsSell(x) /\ ~IsMarketBuy(x) => amount[x] = Price * (Quantity[x] - row[x].filled)
  PROVE  SpotInv'
<1>1. TypeOK
  BY ZenonT(60) DEF SpotInv
<1>2. /\ locked >= SumOf(amount, S) /\ locked' = locked - SumOf(amount, S)
      /\ held' = [o \in Orders |-> IF o \in S THEN held[o] - amount[o] ELSE held[o]]
  BY ZenonT(60) DEF unlockTradingBalance
<1>3. IsFiniteSet(Orders) /\ IsFiniteSet(S)
  BY ZenonT(60), ConstantsAssumption, FS_Subset
<1>4. SumOf(amount, S) \in Nat /\ locked \in Nat
  BY ZenonT(60), <1>1, <1>3, SumType DEF TypeOK
<1>5. locked' \in Nat
  BY ONLY SMTT(60), Z3T(60), <1>2, <1>4
<1>6. /\ held' \in [Orders -> Int]
      /\ \A x \in S : held'[x] = held[x] - amount[x]
      /\ \A x \in Orders \ S : held'[x] = held[x]
  BY SMTT(60), Z3T(60), <1>1, <1>2 DEF TypeOK
<1>7. /\ row' \in [Orders -> [status : LiveStatuses \cup {"none", "FILLED", "cancelled"},
                              filled : Nat, type : {"none", "stop", "book"}]]
      /\ \A x \in S : row'[x].status = "cancelled" /\ row'[x].filled = row[x].filled
      /\ \A x \in Orders \ S : row'[x] = row[x]
  <2>1. row' = [o \in Orders |-> IF o \in S THEN [row[o] EXCEPT !.status = "cancelled"] ELSE row[o]]
    BY ZenonT(60) DEF setStatus
  <2>2. \A x \in Orders : row[x] \in [status : LiveStatuses \cup {"none", "FILLED", "cancelled"},
                                      filled : Nat, type : {"none", "stop", "book"}]
    BY ZenonT(60), <1>1 DEF TypeOK
  <2>3. ASSUME NEW x \in S
        PROVE  /\ row'[x] \in [status : LiveStatuses \cup {"none", "FILLED", "cancelled"},
                               filled : Nat, type : {"none", "stop", "book"}]
               /\ row'[x].status = "cancelled" /\ row'[x].filled = row[x].filled
    <3>1. row'[x] = [row[x] EXCEPT !.status = "cancelled"]
      BY ONLY ZenonT(60), <2>1, S \in SUBSET Orders, x \in S
    <3>2. row[x] \in [status : LiveStatuses \cup {"none", "FILLED", "cancelled"},
                      filled : Nat, type : {"none", "stop", "book"}]
      BY ZenonT(60), <2>2
    <3>3. "cancelled" \in LiveStatuses \cup {"none", "FILLED", "cancelled"}
      BY ZenonT(60)
    <3> QED
      BY ONLY ZenonT(60), <3>1, <3>2, <3>3, StatusUpdate
  <2>4. \A x \in Orders \ S : row'[x] = row[x]
    BY ONLY ZenonT(60), <2>1
  <2>5. \A x \in Orders : row'[x] \in [status : LiveStatuses \cup {"none", "FILLED", "cancelled"},
                                       filled : Nat, type : {"none", "stop", "book"}]
    BY ZenonT(60), <2>2, <2>3, <2>4
  <2>6. DOMAIN row' = Orders /\ row' = [o \in Orders |-> row'[o]]
    BY ONLY ZenonT(60), <2>1
  <2>7. row' \in [Orders -> [status : LiveStatuses \cup {"none", "FILLED", "cancelled"},
                             filled : Nat, type : {"none", "stop", "book"}]]
    BY ZenonT(60), <2>5, <2>6
  <2> QED
    BY ZenonT(60), <2>3, <2>4, <2>7
<1>8. TypeOK'
  BY ZenonT(60), <1>1, <1>5, <1>6, <1>7 DEF TypeOK
<1>9. ASSUME NEW x \in Orders \ S
      PROVE  RowOK(x)' /\ (x \notin loose' => FirmOK(x)')
  <2>1. SameOrder(x)
    BY ZenonT(60), <1>6, <1>7 DEF SameOrder
  <2>2. RowOK(x) /\ (x \notin loose => FirmOK(x))
    BY ZenonT(60) DEF SpotInv
  <2> QED
    BY ZenonT(60), <2>1, <2>2, KeepsOrder
<1>10. ASSUME NEW x \in S
       PROVE  RowOK(x)'
  BY ZenonT(60), <1>7 DEF RowOK
<1>11. ASSUME NEW x \in S, x \notin loose'
       PROVE  /\ FirmOK(x)'
              /\ IsSell(x) => held[x] = amount[x] /\ held'[x] = 0
  <2>1. FirmOK(x) /\ ~Alive(x) /\ row[x].status \in LiveStatuses
    BY ZenonT(60), <1>11 DEF SpotInv, Live
  <2>2. /\ Quantity[x] \in Nat /\ Price \in Nat /\ row[x].filled \in Nat /\ held[x] \in Int /\ amount[x] \in Nat
    BY ZenonT(60), <1>1, Constants, OrderType
  <2>3. InFlight(x)' = InFlight(x) /\ Unsettled(x)' = Unsettled(x) /\ book'[x] = book[x]
    BY ZenonT(60) DEF InFlight, Unsettled
  <2>4. ~Alive(x)'
    BY ZenonT(60), <2>1, <2>3 DEF Alive
  <2>5. row'[x].filled + Unsettled(x)' + book'[x] + InFlight(x)' <= Quantity[x]
    BY ZenonT(60), <1>7, <2>1, <2>3 DEF FirmOK
  <2>6. (IsSell(x)' <=> IsSell(x)) /\ (IsMarketBuy(x)' <=> IsMarketBuy(x))
    BY ZenonT(60) DEF IsSell, IsMarketBuy
  <2>7. IsSell(x) => held[x] = amount[x] /\ held'[x] = 0
    <3> SUFFICES ASSUME IsSell(x)
                 PROVE  held[x] = amount[x] /\ held'[x] = 0
      BY ZenonT(60)
    <3>1. held[x] = Quantity[x] - row[x].filled
      BY ZenonT(60), <2>1 DEF FirmOK, LockOK, IsSell, IsMarketBuy, Sells
    <3>2. amount[x] = Quantity[x] - row[x].filled
      BY ZenonT(60), <1>11
    <3> QED
      BY SMTT(60), Z3T(60), <1>6, <3>1, <3>2
  <2>8. ~IsSell(x) /\ ~IsMarketBuy(x) => held'[x] >= 0
    <3> SUFFICES ASSUME ~IsSell(x), ~IsMarketBuy(x)
                 PROVE  held'[x] >= 0
      BY ZenonT(60)
    <3>1. held[x] >= Price * (Quantity[x] - row[x].filled)
      BY ZenonT(60), <2>1 DEF FirmOK, LockOK
    <3>2. amount[x] = Price * (Quantity[x] - row[x].filled)
      BY ZenonT(60), <1>11
    <3>3. held[x] >= amount[x] /\ held'[x] = held[x] - amount[x]
      BY ZenonT(60), <1>6, <3>1, <3>2
    <3> QED
      BY ONLY SMTT(60), Z3T(60), <2>2, <3>3
  <2>9. IsMarketBuy(x)' \/ LockOK(x)'
    <3>1. row'[x].status = "cancelled"
      BY ZenonT(60), <1>7
    <3>2. row'[x].status \notin LiveStatuses \cup {"FILLED"}
      BY ONLY ZenonT(60), <3>1 DEF LiveStatuses
    <3>3. IsSell(x) => held'[x] = 0 /\ held'[x] >= 0
      BY ONLY SMTT(60), Z3T(60), <2>7
    <3>4. IsMarketBuy(x)' \/ (held'[x] >= 0 /\ (IsSell(x)' => held'[x] = 0))
      BY ONLY ZenonT(60), <2>6, <2>8, <3>3
    <3> QED
      BY ZenonT(60), <3>1, <3>2, <3>4 DEF LockOK
  <2> QED
    BY ZenonT(60), <2>4, <2>5, <2>7, <2>9 DEF FirmOK
<1>12. \A x \in Orders : RowOK(x)'
  BY ZenonT(60), <1>9, <1>10
<1>13. \A x \in Orders \ loose' : FirmOK(x)'
  BY ZenonT(60), <1>9, <1>11
<1>14. LockedOK'
  <2> SUFFICES ASSUME loose' = {}, \A x \in Orders : IsSell(x)'
               PROVE  locked' = SumOf(held', Orders)
    BY ZenonT(60) DEF LockedOK
  <2>1. loose = {} /\ \A x \in Orders : IsSell(x)
    BY ZenonT(60) DEF IsSell
  <2>2. SellsFirm /\ SellsFirm'
    BY ZenonT(60), <1>8, <1>12, <1>13, <2>1 DEF SellsFirm, SpotInv
  <2>3. held \in [Orders -> Nat] /\ held' \in [Orders -> Nat]
    BY ZenonT(60), <2>2, HeldColumn, HeldColumnNext DEF HeldIsColumn
  <2>4. locked = SumOf(held, Orders)
    BY ZenonT(60), <2>1 DEF SpotInv, LockedOK
  <2>5. \A x \in S : amount[x] = held[x] /\ held'[x] = 0
    BY ZenonT(60), <1>11, <2>1
  <2>6. SumOf(held, Orders) = SumOf(held', Orders) + SumOf(amount, S)
    BY ONLY SMTT(60), Z3T(60), <1>3, <1>6, <2>3, <2>5, S \in SUBSET Orders, SumRelease
  <2>7. SumOf(held', Orders) \in Nat
    BY ZenonT(60), <1>3, <2>3, SumType
  <2> QED
    BY ONLY SMTT(60), Z3T(60), <1>2, <1>4, <2>4, <2>6, <2>7
<1> QED
  BY ZenonT(60), <1>8, <1>12, <1>13, <1>14 DEF SpotInv

\* A cancel unlocks a natural number, what the row it read had left.
LEMMA UnlockAmount ==
  ASSUME NEW o \in Orders, NEW n \in Nat, n < Quantity[o]
  PROVE  /\ unlockAmount(o, n) \in Nat
         /\ IsSell(o) => unlockAmount(o, n) = Quantity[o] - n
         /\ ~IsSell(o) /\ ~IsMarketBuy(o) => unlockAmount(o, n) = Price * (Quantity[o] - n)
<1>1. Quantity[o] \in Nat /\ Price \in Nat
  BY ZenonT(60), Constants
<1>2. Quantity[o] - n \in Nat
  BY SMTT(60), Z3T(60), <1>1
<1>3. Price * (Quantity[o] - n) \in Nat
  BY SMTT(60), Z3T(60), <1>1, <1>2
<1> QED
  BY ONLY ZenonT(60), <1>1, <1>2, <1>3 DEF unlockAmount, IsMarketBuy, IsSell, Sells

\* The rollback of a placement releases the whole lock.
LEMMA RollBackStep ==
  ASSUME SpotInv, NEW o \in Orders, rollBackPlace(o)
  PROVE  SpotInv'
<1>1. TypeOK /\ CallersOK
  BY ZenonT(60) DEF SpotInv
<1>2. /\ placing[o] = "rolling_back"
      /\ placing' = [placing EXCEPT ![o] = "refused"]
      /\ UNCHANGED <<kind, sent, book, unsettled, triggering, cancelling, replaying>>
  BY ZenonT(60) DEF rollBackPlace
<1>3. /\ placing' \in [Orders -> {"idle", "waiting", "rolling_back", "refused"}]
      /\ \A x \in Orders \ {o} : placing'[x] = placing[x]
  BY ZenonT(60), <1>1, <1>2 DEF TypeOK
<1>4. row[o].status # "none"
  BY ZenonT(60), <1>1, <1>2 DEF CallersOK, Idle
<1>5. ASSUME \A x \in Orders : row'[x].status = "none" => row[x].status = "none"
      PROVE  CallersOK'
  <2>1. \A x \in Orders : row'[x].status = "none" => Idle(x)'
    BY ZenonT(60), <1>1, <1>2, <1>3, <1>4, <1>5 DEF CallersOK, Idle
  <2> QED
    BY ZenonT(60), <1>1, <1>2, <2>1 DEF CallersOK
<1>6. CASE UNCHANGED <<row, locked, held, loose>>
  <2>1. CallersOK'
    BY ZenonT(60), <1>5, <1>6
  <2>2. triggering' \subseteq Orders
    BY ZenonT(60), <1>1, <1>2 DEF TypeOK
  <2> QED
    BY ZenonT(60), <1>2, <1>3, <1>6, <2>1, <2>2, OnlyCallers
<1>7. CASE /\ unlockTradingBalance({o}, [x \in {o} |-> lockAmount(x)])
           /\ setStatus({o}, "cancelled")
           /\ loose' = loose \cup {x \in {o} : Alive(x) \/ row[x].filled > 0 \/ ~Live(x)}
  <2>1. PICK amount : amount = [x \in {o} |-> lockAmount(x)]
    BY ZenonT(60)
  <2>2. \A x \in {o} : amount[x] \in Nat /\ amount[x] = lockAmount(x)
    BY ZenonT(60), <2>1, LockAmount
  <2>3. unlockTradingBalance({o}, amount)
    BY ZenonT(60), <1>7, <2>1
  <2>4. CallersOK'
    <3>1. \A x \in Orders : row'[x].status = "none" => row[x].status = "none"
      BY SMTT(60), Z3T(60), <1>4, <1>7 DEF setStatus
    <3> QED
      BY ZenonT(60), <1>5, <3>1
  <2>5. loose \subseteq loose' /\ loose' \subseteq Orders
    BY ZenonT(60), <1>1, <1>7 DEF TypeOK
  <2>6. ASSUME NEW x \in {o} \ loose'
        PROVE  /\ ~Alive(x) /\ Live(x)
               /\ IsSell(x) => amount[x] = Quantity[x] - row[x].filled
               /\ ~IsSell(x) /\ ~IsMarketBuy(x) => amount[x] = Price * (Quantity[x] - row[x].filled)
    <3>1. x = o /\ ~Alive(o) /\ Live(o) /\ ~(row[o].filled > 0)
      BY ZenonT(60), <1>7, <2>6
    <3>2. row[o].filled \in Nat /\ Quantity[o] \in Nat
      BY ZenonT(60), <1>1, Constants, OrderType
    <3>3. row[o].filled = 0 /\ Quantity[o] - row[o].filled = Quantity[o]
      BY ONLY SMTT(60), Z3T(60), <3>1, <3>2
    <3> QED
      BY ZenonT(60), <2>2, <3>1, <3>3, LockAmount
  <2>7. {o} \in SUBSET Orders /\ \A x \in {o} : amount[x] \in Nat
    BY ZenonT(60), <2>2
  <2>8. setStatus({o}, "cancelled") /\ UNCHANGED <<kind, sent, book, unsettled, triggering>>
    BY ZenonT(60), <1>2, <1>7
  <2> QED
    BY ONLY ZenonT(60), SpotInv, <1>3, <2>3, <2>4, <2>5, <2>6, <2>7, <2>8, ReleaseStep
<1> QED
  BY ZenonT(60), <1>6, <1>7 DEF rollBackPlace

\* The commit of a cancel releases what the rows it read had left.
LEMMA CommitCancelStep ==
  ASSUME SpotInv, NEW c \in Cancellers, commitCancel(c)
  PROVE  SpotInv'
<1>1. TypeOK /\ CallersOK
  BY ZenonT(60) DEF SpotInv
<1>2. PICK done, read : done = cancelling[c].done /\ read = cancelling[c].filled
  BY ZenonT(60)
<1>3. /\ cancelling' = [cancelling EXCEPT ![c] = NoCancel]
      /\ UNCHANGED <<kind, sent, book, unsettled, triggering, placing, replaying>>
  BY ZenonT(60) DEF commitCancel, engineVars
<1>4. \A x \in done : /\ x \in Orders /\ row[x].status # "none"
                      /\ read[x] < Quantity[x] /\ read[x] \in Nat
  BY ZenonT(60), <1>1, <1>2, CancelledWerePlaced
<1>5. ASSUME \A x \in Orders : row'[x].status = "none" => row[x].status = "none"
      PROVE  CallersOK'
  <2>1. NoCancel \in [todo : SUBSET Orders, done : SUBSET Orders, filled : [Orders -> Nat]]
    BY ZenonT(60) DEF NoCancel
  <2>2. NoCancel.todo \cup NoCancel.done = {}
    BY ZenonT(60) DEF NoCancel
  <2> QED
    BY ZenonT(60), <1>1, <1>3, <1>5, <2>1, <2>2, CancelMoves
<1>6. /\ placing' \in [Orders -> {"idle", "waiting", "rolling_back", "refused"}]
      /\ triggering' \subseteq Orders
  BY ZenonT(60), <1>1, <1>3 DEF TypeOK
<1>7. CASE UNCHANGED <<row, locked, held, loose>>
  <2>1. CallersOK'
    BY ZenonT(60), <1>5, <1>7
  <2> QED
    BY ZenonT(60), <1>3, <1>6, <1>7, <2>1, OnlyCallers
<1>8. CASE /\ unlockTradingBalance(done, [o \in done |-> unlockAmount(o, read[o])])
           /\ setStatus(done, "cancelled")
           /\ loose' = loose \cup {o \in done : Alive(o) \/ row[o].filled # read[o] \/ ~Live(o)}
  <2>1. PICK amount : amount = [o \in done |-> unlockAmount(o, read[o])]
    BY ZenonT(60)
  <2>2. \A x \in done : amount[x] = unlockAmount(x, read[x])
    BY ZenonT(60), <2>1
  <2>3. unlockTradingBalance(done, amount)
    BY ZenonT(60), <1>8, <2>1
  <2>4. \A x \in done : amount[x] \in Nat
    BY ZenonT(60), <1>4, <2>2, UnlockAmount
  <2>5. CallersOK'
    <3>1. \A x \in Orders : row'[x].status = "none" => row[x].status = "none"
      BY SMTT(60), Z3T(60), <1>4, <1>8 DEF setStatus
    <3> QED
      BY ZenonT(60), <1>5, <3>1
  <2>6. loose \subseteq loose' /\ loose' \subseteq Orders
    BY ZenonT(60), <1>1, <1>4, <1>8 DEF TypeOK
  <2>7. ASSUME NEW x \in done \ loose'
        PROVE  /\ ~Alive(x) /\ Live(x)
               /\ IsSell(x) => amount[x] = Quantity[x] - row[x].filled
               /\ ~IsSell(x) /\ ~IsMarketBuy(x) => amount[x] = Price * (Quantity[x] - row[x].filled)
    <3>1. ~Alive(x) /\ Live(x) /\ row[x].filled = read[x]
      BY ZenonT(60), <1>8, <2>7
    <3> QED
      BY ZenonT(60), <1>4, <2>2, <3>1, UnlockAmount
  <2>8. /\ done \in SUBSET Orders /\ setStatus(done, "cancelled")
        /\ UNCHANGED <<kind, sent, book, unsettled, triggering>>
    BY ZenonT(60), <1>3, <1>4, <1>8
  <2> QED
    BY ONLY ZenonT(60), SpotInv, <1>6, <2>3, <2>4, <2>5, <2>6, <2>7, <2>8, ReleaseStep
<1> QED
  BY ZenonT(60), <1>2, <1>7, <1>8 DEF commitCancel

-----------------------------------------------------------------------------
(***************************************************************************)
(* The results.                                                            *)
(***************************************************************************)

\* The invariant holds before any order is placed.
LEMMA SpotInvInit ==
  ASSUME Init
  PROVE  SpotInv
<1>1. TypeOK
  BY SMTT(60), Z3T(60), ConstantsAssumption DEF Init, TypeOK, LiveStatuses
<1>2. CallersOK
  BY SMTT(60), Z3T(60) DEF Init, CallersOK, Idle, NoCancel, NoReplay
<1>3. ASSUME NEW o \in Orders
      PROVE  RowOK(o) /\ FirmOK(o)
  <2>1. row[o].status = "none" /\ row[o].filled = 0 /\ held[o] = 0 /\ book[o] = 0
    BY ZenonT(60) DEF Init
  <2>2. \A q \in Sizes(o) : [n \in Sizes(o) |-> n * sent[o][n]][q] = 0
    <3>1. \A q \in Sizes(o) : sent[o][q] = 0
      BY ZenonT(60) DEF Init
    <3>2. \A q \in Sizes(o) : q * 0 = 0
      <4>1. \A q \in Nat : q * 0 = 0
        BY ONLY SMTT(60), Z3T(60)
      <4> QED
        BY ZenonT(60), <4>1, Constants
    <3> QED
      BY ONLY ZenonT(60), <3>1, <3>2
  <2>3. InFlight(o) = 0
    BY ZenonT(60), <2>2, SumZero DEF InFlight
  <2>4. Unsettled(o) = 0
    BY ZenonT(60), SumZero DEF Unsettled, Init
  <2>5. ~Alive(o)
    BY SMTT(60), Z3T(60), <2>1, <2>3, <2>4 DEF Alive
  <2>6. Quantity[o] \in Nat
    BY ZenonT(60), Constants
  <2>7. RowOK(o)
    BY ZenonT(60), <2>1, <2>5 DEF RowOK
  <2>8. row[o].filled + Unsettled(o) + book[o] + InFlight(o) <= Quantity[o]
    BY ONLY SMTT(60), Z3T(60), <2>1, <2>3, <2>4, <2>6
  <2>9. LockOK(o)
    BY ZenonT(60), <2>1 DEF LockOK, LiveStatuses
  <2> QED
    BY ZenonT(60), <2>1, <2>5, <2>7, <2>8, <2>9 DEF FirmOK
<1>4. LockedOK
  <2>1. SumOf(held, Orders) = 0
    BY ZenonT(60), SumZero DEF Init
  <2> QED
    BY ZenonT(60), <2>1 DEF LockedOK, Init
<1> QED
  BY ZenonT(60), <1>1, <1>2, <1>3, <1>4 DEF SpotInv

\* Every step keeps the invariant: one lemma above for each action.
LEMMA SpotInvInductive ==
  ASSUME SpotInv, [Next]_vars
  PROVE  SpotInv'
<1>1. CASE UNCHANGED vars
  <2>1. TypeOK /\ CallersOK
    BY ZenonT(60) DEF SpotInv
  <2>2. \A x \in Orders : Idle(x)' <=> Idle(x)
    BY ZenonT(60), <1>1 DEF vars, Idle
  <2>3. CallersOK'
    BY ZenonT(60), <1>1, <2>1, <2>2 DEF vars, CallersOK
  <2>4. /\ UNCHANGED <<kind, row, locked, sent, book, unsettled, held, loose>>
        /\ placing' \in [Orders -> {"idle", "waiting", "rolling_back", "refused"}]
        /\ triggering' \subseteq Orders
    BY ZenonT(60), <1>1, <2>1 DEF vars, TypeOK
  <2> QED
    BY ZenonT(60), <2>3, <2>4, OnlyCallers
<1>2. ASSUME NEW o \in Orders,
             \/ place(o) \/ placeAnswered(o) \/ placeOrderRustFails(o) \/ rollBackPlace(o)
             \/ enginePlace(o) \/ engineRefuses(o) \/ engineFill(o) \/ settleMatchEvent(o)
             \/ triggerStop(o) \/ triggerAnswered(o) \/ triggerFails(o)
             \/ replayOpenOrdersToRustEngine(o)
      PROVE  SpotInv'
  BY ZenonT(60), <1>2, PlaceStep, AnswerSteps, RollBackStep, EnginePlaceStep, EngineFillStep, SettleStep,
     TriggerStep, TriggerFailsStep, ReplayStep
<1>3. ASSUME NEW c \in Cancellers,
             \/ cancelOrder(c) \/ cancelAll(c)
             \/ cancelOnMatchingEngineIfNeeded(c) \/ cancelOnMatchingEngineFails(c) \/ commitCancel(c)
      PROVE  SpotInv'
  BY ZenonT(60), <1>3, ReadStep, CancelEngineStep, CommitCancelStep
<1>4. CASE restart
  BY ZenonT(60), <1>4, RestartStep
<1> QED
  BY ZenonT(60), <1>1, <1>2, <1>3, <1>4 DEF Next

\* The inductive invariant of the order's life holds: rows, locks and what the
\* engine has of an order agree however the place route, the engine, the
\* settlement, cancels, the trigger job, restarts and the replay interleave.
THEOREM SpotInvHolds == Spec => []SpotInv
<1>1. Init => SpotInv
  BY ZenonT(60), SpotInvInit
<1>2. SpotInv /\ [Next]_vars => SpotInv'
  BY ZenonT(60), SpotInvInductive
<1> QED
  BY <1>1, <1>2, PTL DEF Spec

\* Every variable keeps its type: a balance is never unlocked below zero and a
\* request is never for less than one unit.
THEOREM TypeOKHolds == Spec => []TypeOK
<1>1. SpotInv => TypeOK
  BY ZenonT(60) DEF SpotInv
<1> QED
  BY <1>1, SpotInvHolds, PTL

\* More units at one price cost more.
LEMMA ProductGrows ==
  ASSUME NEW p \in Nat, NEW a \in Nat, NEW b \in Int, a <= b
  PROVE  p * a <= p * b
<1>1. PICK n \in Nat : b = a + n
  <2>1. b - a \in Nat /\ b = a + (b - a)
    BY SMTT(60), Z3T(60)
  <2> QED
    BY ZenonT(60), <2>1
<1>2. p * b = p * a + p * n
  BY SMTT(60), Z3T(60), <1>1
<1>3. p * a \in Nat /\ p * n \in Nat
  BY SMTT(60), Z3T(60), <1>1
<1> QED
  BY ONLY SMTT(60), Z3T(60), <1>2, <1>3

\* The lock covers the exposure, status by status.
LEMMA InvBacked ==
  ASSUME SpotInv
  PROVE  FirmOrdersAreBacked
<1>1. TypeOK
  BY ZenonT(60) DEF SpotInv
<1> SUFFICES ASSUME NEW o \in Orders \ loose, ~IsMarketBuy(o)
             PROVE  held[o] >= Exposure(o)
  BY ZenonT(60) DEF FirmOrdersAreBacked
<1>2. RowOK(o) /\ FirmOK(o) /\ LockOK(o)
  BY ZenonT(60) DEF SpotInv, FirmOK
<1>3. /\ Quantity[o] \in Nat /\ Price \in Nat /\ row[o].filled \in Nat /\ held[o] \in Int
      /\ book[o] \in Nat /\ InFlight(o) \in Nat /\ Unsettled(o) \in Nat
  BY ZenonT(60), <1>1, Constants, OrderType, OutType
<1>4. CASE row[o].status \in {"none", "cancelled"}
  <2>1. ~Alive(o) /\ held[o] >= 0
    BY SMTT(60), Z3T(60), <1>2, <1>4 DEF RowOK, FirmOK, LockOK
  <2>2. book[o] + InFlight(o) + Unsettled(o) = 0
    BY SMTT(60), Z3T(60), <1>1, <2>1, NotAlive
  <2>3. Exposure(o) = 0
    BY ONLY SMTT(60), Z3T(60), <1>3, <2>2 DEF Exposure
  <2> QED
    BY ZenonT(60), <2>1, <2>3
<1>5. CASE row[o].status \in LiveStatuses \cup {"FILLED"}
  <2>1. PICK a : a = book[o] + InFlight(o) + Unsettled(o)
    BY ZenonT(60)
  <2>2. a \in Nat /\ Quantity[o] - row[o].filled \in Int /\ a <= Quantity[o] - row[o].filled
    <3>1. row[o].filled + Unsettled(o) + book[o] + InFlight(o) <= Quantity[o]
      BY ZenonT(60), <1>2 DEF FirmOK
    <3> QED
      BY ONLY SMTT(60), Z3T(60), <1>3, <2>1, <3>1
  <2>3. CASE IsSell(o)
    <3>1. held[o] = Quantity[o] - row[o].filled
      BY ZenonT(60), <1>2, <1>5, <2>3 DEF LockOK
    <3>2. Exposure(o) = a
      BY ONLY SMTT(60), Z3T(60), <2>1, <2>2, <2>3 DEF Exposure
    <3> QED
      BY ONLY ZenonT(60), <2>2, <3>1, <3>2
  <2>4. CASE ~IsSell(o)
    <3>1. held[o] >= Price * (Quantity[o] - row[o].filled)
      BY ZenonT(60), <1>2, <1>5, <2>4 DEF LockOK
    <3>2. Exposure(o) = Price * a
      BY ONLY ZenonT(60), <2>1, <2>4 DEF Exposure
    <3>3. Price * a <= Price * (Quantity[o] - row[o].filled)
      BY ONLY ZenonT(60), <1>3, <2>2, ProductGrows
    <3>4. Price * a \in Int /\ Price * (Quantity[o] - row[o].filled) \in Int
      BY ONLY SMTT(60), Z3T(60), <1>3, <2>2
    <3> QED
      BY ONLY SMTT(60), Z3T(60), <1>3, <3>1, <3>2, <3>3, <3>4
  <2> QED
    BY ZenonT(60), <2>3, <2>4
<1> QED
  BY ZenonT(60), <1>1, <1>4, <1>5, OrderType DEF LiveStatuses

\* Each firm order with a limit is backed by its own lock, for any orders,
\* quantities and prices and any number of cancels, triggers and restarts: what
\* rollBackPlace, commitCancel and the settlement give up for an order is never
\* what another of its units still needs.
THEOREM FirmOrdersAreBackedHolds == Spec => []FirmOrdersAreBacked
<1>1. SpotInv => FirmOrdersAreBacked
  BY ZenonT(60), InvBacked
<1> QED
  BY <1>1, SpotInvHolds, PTL

\* No firm order is filled beyond its quantity, counting what is settled, made, in
\* the book and on its way.  Firm is an order the engine never held without its lock
\* or for more than its row left open: one that a replay sends while the engine may
\* have it, or with a remainder the float subtraction rounded up, is not.
THEOREM FirmOrdersNeverOverfillHolds == Spec => []FirmOrdersNeverOverfill
<1>1. SpotInv => FirmOrdersNeverOverfill
  BY ZenonT(60) DEF SpotInv, FirmOK, FirmOrdersNeverOverfill
<1> QED
  BY <1>1, SpotInvHolds, PTL

\* The open sells are part of the orders whose locks make up the balance.
LEMMA InvOpenLocked ==
  ASSUME SpotInv
  PROVE  OpenSellsAreLocked
<1>1. PICK open : open = {o \in Orders : IsSell(o) /\ Live(o)}
  BY ZenonT(60)
<1>2. PICK left : left = [o \in open |-> Quantity[o] - row[o].filled]
  BY ZenonT(60)
<1> SUFFICES ASSUME loose = {}
             PROVE  SumOf(left, open) <= locked
  BY ZenonT(60), <1>1, <1>2 DEF OpenSellsAreLocked
<1>3. TypeOK /\ locked \in Nat
  BY ZenonT(60) DEF SpotInv, TypeOK
<1>4. CASE open = {}
  <2>1. SumOf(left, open) = 0
    BY ZenonT(60), <1>4, SumZero
  <2> QED
    BY SMTT(60), Z3T(60), <1>3, <2>1
<1>5. CASE open # {}
  <2>1. PICK y \in Orders : IsSell(y)
    BY ZenonT(60), <1>1, <1>5
  <2>2. \A x \in Orders : IsSell(x)
    BY ZenonT(60), <1>3, <2>1, ConstantsAssumption DEF TypeOK, IsSell
  <2>3. SellsFirm
    BY ZenonT(60), <2>2 DEF SpotInv, SellsFirm
  <2>4. held \in [Orders -> Nat]
    BY ZenonT(60), <2>3, HeldColumn DEF HeldIsColumn
  <2>5. locked = SumOf(held, Orders)
    BY ZenonT(60), <2>2 DEF SpotInv, LockedOK
  <2>6. \A x \in open : left[x] = held[x]
    BY ZenonT(60), <1>1, <1>2, <2>2, <2>3 DEF SellsFirm, FirmOK, LockOK, Live, IsMarketBuy, IsSell, Sells
  <2>7. SumOf(left, open) = SumOf(held, open)
    BY ZenonT(60), <2>6, SumSame
  <2>8. /\ IsFiniteSet(open) /\ IsFiniteSet(Orders \ open) /\ open \cap (Orders \ open) = {}
        /\ Orders = open \cup (Orders \ open) /\ open \subseteq Orders
    BY ZenonT(60), <1>1, ConstantsAssumption, FS_Subset
  <2>9. SumOf(held, Orders) = SumOf(held, open) + SumOf(held, Orders \ open)
    BY ONLY ZenonT(60), <2>4, <2>8, SumSplit
  <2>10. SumOf(held, open) \in Nat /\ SumOf(held, Orders \ open) \in Nat
    BY ONLY ZenonT(60), <2>4, <2>8, SumType
  <2> QED
    BY ONLY SMTT(60), Z3T(60), <2>5, <2>7, <2>9, <2>10
<1> QED
  BY ZenonT(60), <1>4, <1>5

\* The comparison runBalanceConsistencyCheck makes never suspends a user by
\* mistake while no order is loose: the open sells are locked in full.
THEOREM OpenSellsAreLockedHolds == Spec => []OpenSellsAreLocked
<1>1. SpotInv => OpenSellsAreLocked
  BY ZenonT(60), InvOpenLocked
<1> QED
  BY <1>1, SpotInvHolds, PTL

\* A filled row has nothing left, so its lock is empty.
LEMMA InvFinished ==
  ASSUME SpotInv
  PROVE  FinishedSellsHoldNothing
<1> SUFFICES ASSUME NEW o \in Orders \ loose, IsSell(o), row[o].status \in {"cancelled", "FILLED"}
             PROVE  held[o] = 0
  BY ZenonT(60) DEF FinishedSellsHoldNothing
<1>1. TypeOK /\ RowOK(o) /\ FirmOK(o) /\ LockOK(o)
  BY ZenonT(60) DEF SpotInv, FirmOK, IsMarketBuy, IsSell, Sells
<1>2. CASE row[o].status = "cancelled"
  BY ZenonT(60), <1>1, <1>2 DEF LockOK
<1>3. CASE row[o].status = "FILLED"
  <2>1. held[o] = Quantity[o] - row[o].filled /\ row[o].filled >= Quantity[o]
    BY ZenonT(60), <1>1, <1>3 DEF LockOK, RowOK
  <2>2. row[o].filled + Unsettled(o) + book[o] + InFlight(o) <= Quantity[o]
    BY ZenonT(60), <1>1 DEF FirmOK
  <2>3. /\ Quantity[o] \in Nat /\ row[o].filled \in Nat /\ book[o] \in Nat
        /\ InFlight(o) \in Nat /\ Unsettled(o) \in Nat
    BY ZenonT(60), <1>1, Constants, OrderType, OutType
  <2>4. \A f, u, b, i, q \in Nat : f + u + b + i <= q /\ f >= q => f = q
    BY SMTT(60), Z3T(60)
  <2>5. row[o].filled = Quantity[o]
    BY ONLY ZenonT(60), <2>1, <2>2, <2>3, <2>4
  <2> QED
    BY SMTT(60), Z3T(60), <2>1, <2>3, <2>5
<1> QED
  BY ZenonT(60), <1>2, <1>3

\* Cancelling and filling leave no lock behind on a firm sell.
THEOREM FinishedSellsHoldNothingHolds == Spec => []FinishedSellsHoldNothing
<1>1. SpotInv => FinishedSellsHoldNothing
  BY ZenonT(60), InvFinished
<1> QED
  BY <1>1, SpotInvHolds, PTL

\* A settlement is never on a firm order that ended: such an order has no fill
\* left to settle.
LEMMA NothingToSettle ==
  ASSUME SpotInv, NEW o \in Orders \ loose, settleMatchEvent(o)
  PROVE  row[o].status \notin {"cancelled", "FILLED"}
<1>1. TypeOK /\ RowOK(o) /\ FirmOK(o)
  BY ZenonT(60) DEF SpotInv
<1>2. PICK p \in fillPrices(o) : unsettled[o][p] > 0
  BY ZenonT(60) DEF settleMatchEvent
<1>3. Unsettled(o) > 0
  BY ZenonT(60), <1>1, <1>2, FillPrices, OutType
<1>4. /\ Quantity[o] \in Nat /\ row[o].filled \in Nat /\ book[o] \in Nat
      /\ InFlight(o) \in Nat /\ Unsettled(o) \in Nat
  BY ZenonT(60), <1>1, Constants, OrderType, OutType
<1>5. row[o].filled < Quantity[o]
  <2>1. row[o].filled + Unsettled(o) + book[o] + InFlight(o) <= Quantity[o]
    BY ZenonT(60), <1>1 DEF FirmOK
  <2> QED
    BY ONLY SMTT(60), Z3T(60), <1>3, <1>4, <2>1
<1>6. row[o].status # "FILLED"
  <2>1. ~(row[o].filled >= Quantity[o])
    BY ONLY SMTT(60), Z3T(60), <1>4, <1>5
  <2> QED
    BY ZenonT(60), <1>1, <2>1 DEF RowOK
<1>7. row[o].status # "cancelled"
  BY ZenonT(60), <1>1, <1>3 DEF FirmOK, Alive
<1> QED
  BY ZenonT(60), <1>6, <1>7

\* What a step does to the row of an order that ended and does not become loose:
\* nothing.
LEMMA EndedStays ==
  ASSUME SpotInv, Next, NEW x \in Orders \ loose', row[x].status \in {"cancelled", "FILLED"}
  PROVE  row'[x] = row[x]
<1>1. row \in [Orders -> [status : LiveStatuses \cup {"none", "FILLED", "cancelled"},
                          filled : Nat, type : {"none", "stop", "book"}]]
  BY ZenonT(60) DEF SpotInv, TypeOK
<1>2. ~Live(x)
  BY ZenonT(60) DEF Live, LiveStatuses
<1>3. ASSUME NEW o \in Orders, place(o) \/ triggerStop(o) \/ triggerFails(o)
      PROVE  row'[x] = row[x]
  BY ZenonT(60), <1>1, <1>3 DEF place, triggerStop, triggerFails
<1>4. ASSUME NEW o \in Orders, settleMatchEvent(o)
      PROVE  row'[x] = row[x]
  <2>1. x \notin loose
    BY ZenonT(60), <1>4 DEF settleMatchEvent
  <2>2. o # x
    BY ZenonT(60), <1>4, <2>1, NothingToSettle
  <2> QED
    BY ZenonT(60), <1>1, <1>4, <2>2 DEF settleMatchEvent, updateSpotOrdersFilledAfterMatch
<1>5. ASSUME NEW S, setStatus(S, "cancelled"), x \notin S
      PROVE  row'[x] = row[x]
  BY ZenonT(60), <1>5 DEF setStatus
<1>6. ASSUME NEW o \in Orders, rollBackPlace(o)
      PROVE  row'[x] = row[x]
  BY ZenonT(60), <1>2, <1>5, <1>6 DEF rollBackPlace
<1>7. ASSUME NEW c \in Cancellers, commitCancel(c)
      PROVE  row'[x] = row[x]
  BY ZenonT(60), <1>2, <1>5, <1>7 DEF commitCancel
<1>8. ASSUME NEW o \in Orders,
             \/ placeAnswered(o) \/ placeOrderRustFails(o) \/ enginePlace(o) \/ engineRefuses(o)
             \/ engineFill(o) \/ triggerAnswered(o) \/ replayOpenOrdersToRustEngine(o)
      PROVE  row'[x] = row[x]
  BY ZenonT(60), <1>8 DEF placeAnswered, placeOrderRustFails, enginePlace, engineRefuses,
     engineFill, triggerAnswered, replayOpenOrdersToRustEngine
<1>9. ASSUME NEW c \in Cancellers,
             \/ cancelOrder(c) \/ cancelAll(c)
             \/ cancelOnMatchingEngineIfNeeded(c) \/ cancelOnMatchingEngineFails(c)
      PROVE  row'[x] = row[x]
  BY ZenonT(60), <1>9 DEF cancelOrder, cancelAll, readOrders, cancelOnMatchingEngineIfNeeded,
     cancelOnMatchingEngineFails
<1>10. CASE restart
  BY ZenonT(60), <1>10 DEF restart
<1> QED
  BY ZenonT(60), <1>3, <1>4, <1>6, <1>7, <1>8, <1>9, <1>10 DEF Next

\* A cancelled or filled order stays cancelled or filled as long as it is firm:
\* no late settlement, rollback, cancel, trigger or replay reopens it.
THEOREM EndedFirmOrderIsFinalHolds == Spec => EndedFirmOrderIsFinal
<1> DEFINE A == \A o \in Orders \ loose' : row[o].status \in {"cancelled", "FILLED"} =>
                  row'[o].status = row[o].status
<1>1. SpotInv /\ [Next]_vars => [A]_vars
  BY ZenonT(60), EndedStays
<1>2. EndedFirmOrderIsFinal <=> [][A]_vars
  BY ZenonT(60) DEF EndedFirmOrderIsFinal
<1> HIDE DEF A
<1> QED
  BY <1>1, <1>2, SpotInvHolds, PTL DEF Spec
=============================================================================
