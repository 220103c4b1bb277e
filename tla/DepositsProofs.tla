--------------------------- MODULE DepositsProofs ---------------------------
(***************************************************************************)
(* Proofs about Deposits for any transfers, any numbers of overlapping     *)
(* ticks and any bounds.  Rows of the table are written by many actions,   *)
(* blocks are scanned by few: each lemma first reduces the actions to      *)
(* their effect on the part of the state that it is about.                 *)
(***************************************************************************)
EXTENDS Deposits, FiniteSetTheorems, TLAPS

\* The units of a single row are as many as its value.
LEMMA BlockSize ==
  ASSUME NEW x, NEW n \in Nat
  PROVE  IsFiniteSet({x} \X (1 .. n)) /\ Cardinality({x} \X (1 .. n)) = n
<1>1. IsFiniteSet(1 .. n) /\ Cardinality(1 .. n) = n
  BY SMTT(60), Z3T(60), FS_Interval
<1>2. IsFiniteSet({x}) /\ Cardinality({x}) = 1
  BY ZenonT(60), FS_Singleton
<1>3. /\ IsFiniteSet({x} \X (1 .. n))
      /\ Cardinality({x} \X (1 .. n)) = Cardinality({x}) * Cardinality(1 .. n)
  BY ONLY <1>1, <1>2, FS_Product, ZenonT(60)
<1> QED
  BY SMTT(60), Z3T(60), <1>1, <1>2, <1>3

\* Over a finite set of rows the units are finite in number, so a sum is a
\* natural number.
LEMMA SumType ==
  ASSUME NEW S, IsFiniteSet(S), NEW q, \A x \in S : q[x] \in Nat
  PROVE  IsFiniteSet(UnitsOf(q, S)) /\ SumOf(q, S) \in Nat
<1> DEFINE Block(x) == {x} \X (1 .. q[x])
           Blocks == {Block(x) : x \in S}
<1>1. IsFiniteSet(Blocks)
  <2> DEFINE f == [x \in S |-> Block(x)]
  <2>1. f \in Surjection(S, Blocks)
    BY ZenonT(60) DEF Surjection
  <2> QED
    BY ZenonT(60), <2>1, FS_Surjection
<1>2. \A B \in Blocks : IsFiniteSet(B)
  <2> SUFFICES ASSUME NEW x \in S
               PROVE  IsFiniteSet(Block(x))
    BY ZenonT(60)
  <2>1. q[x] \in Nat
    BY ZenonT(60)
  <2> QED
    BY ZenonT(60), <2>1, BlockSize
<1>3. IsFiniteSet(UnitsOf(q, S))
  BY ZenonT(60), <1>1, <1>2, FS_UNION DEF UnitsOf
<1> QED
  BY ZenonT(60), <1>3, FS_CardinalityType DEF SumOf

\* An empty set of rows sums to zero.
LEMMA SumEmpty ==
  ASSUME NEW q
  PROVE  SumOf(q, {}) = 0
<1>1. UnitsOf(q, {}) = {}
  BY ZenonT(60) DEF UnitsOf
<1> QED
  BY ZenonT(60), <1>1, FS_EmptySet DEF SumOf

\* A row that is not yet in the set adds its value.
LEMMA SumAdd ==
  ASSUME NEW S, IsFiniteSet(S), NEW q, \A x \in S : q[x] \in Nat,
         NEW y, y \notin S, q[y] \in Nat
  PROVE  SumOf(q, S \cup {y}) = SumOf(q, S) + q[y]
<1> DEFINE B == {y} \X (1 .. q[y])
<1>1. UnitsOf(q, S \cup {y}) = UnitsOf(q, S) \cup B
  BY ZenonT(60) DEF UnitsOf
<1>2. UnitsOf(q, S) \cap B = {}
  <2> SUFFICES ASSUME NEW e \in UnitsOf(q, S), e \in B
               PROVE  FALSE
    BY ZenonT(60)
  <2>1. PICK x \in S : e \in {x} \X (1 .. q[x])
    BY ZenonT(60) DEF UnitsOf
  <2>2. e[1] = x /\ e[1] = y
    BY ZenonT(60), <2>1
  <2> QED
    BY ZenonT(60), <2>2
<1>3. IsFiniteSet(UnitsOf(q, S)) /\ SumOf(q, S) \in Nat
  BY ZenonT(60), SumType
<1>4. IsFiniteSet(B) /\ Cardinality(B) = q[y]
  BY ZenonT(60), BlockSize
<1>5. Cardinality(UnitsOf(q, S) \cap B) = 0
  BY ZenonT(60), <1>2, FS_EmptySet
<1>6. Cardinality(UnitsOf(q, S) \cup B) = Cardinality(UnitsOf(q, S)) + Cardinality(B) - 0
  BY SMTT(60), Z3T(60), <1>3, <1>4, <1>5, FS_Union
<1>7. SumOf(q, S \cup {y}) = Cardinality(UnitsOf(q, S) \cup B)
  BY ZenonT(60), <1>1 DEF SumOf
<1>8. Cardinality(UnitsOf(q, S)) = SumOf(q, S)
  BY ZenonT(60) DEF SumOf
<1> HIDE DEF B
<1> QED
  BY SMTT(60), Z3T(60), <1>3, <1>4, <1>6, <1>7, <1>8

RowStatus == {"none", "pending", "completed", "failed"}

TypeChain ==
  /\ head \in Heights /\ tip \in Heights /\ blocks \in Heights
  /\ where \in [Mined -> Heights \union {-1}]
  /\ reorgs \in Nat

TypeIndexer ==
  /\ last \in Heights /\ saved \in Heights /\ lastType \in {"number", "string"}
  /\ target \in [Scanners -> Heights] /\ scanning \in [Scanners -> Heights]
  /\ found \in [Scanners -> SUBSET Evm]
  /\ restarts \in Nat
  /\ lost \subseteq Evm /\ skipped \subseteq Heights /\ announced \subseteq Evm

TypeRows ==
  /\ status \in [Transfers -> RowStatus]
  /\ block \in [Transfers -> Heights]
  /\ conf \in [Transfers -> Int]
  /\ flagged \subseteq Transfers /\ applied \subseteq Transfers
  /\ older \in [Transfers -> SUBSET Transfers]
  /\ totalDeposited \in Nat /\ cut \subseteq applied

TypeTracker ==
  /\ listed \in [Ticks -> SUBSET Evm] /\ current \in [Ticks -> Heights]
  /\ at \in [Ticks -> Evm \union {NoTransfer}]
  /\ stage \in [Ticks -> {"list", "receipt", "fail", "credit"}]

TypeSweeper ==
  /\ sweepRow \in [Sweeps -> NonEvm \union {NoTransfer}]
  /\ sweepConf \in [Sweeps -> Nat]
  /\ sweepNew \in [Sweeps -> {"changed", "same", "credit"}]

(* Ticks and sweeps work on rows of the table. *)
WorksOnRow ==
  /\ \A k \in Ticks : \A t \in listed[k] : status[t] # "none"
  /\ \A k \in Ticks : stage[k] # "list" => at[k] \in Evm /\ status[at[k]] # "none"
  /\ \A j \in Sweeps : sweepNew[j] = "credit" => sweepRow[j] \in NonEvm

(* No transfer is in a block above the head. *)
OnChain == \A t \in Mined : where[t] <= head

Shapes ==
  TypeChain /\ TypeIndexer /\ TypeRows /\ TypeTracker /\ TypeSweeper
    /\ WorksOnRow /\ OnChain

LEMMA TypeParts ==
  Shapes => TypeOK
BY ZenonT(60) DEF Shapes, TypeOK, TypeChain, TypeIndexer, TypeRows, TypeTracker, TypeSweeper,
       RowStatus

(* What each kind of step leaves alone. *)
LEMMA ChainFrame ==
  grow \/ (\E h \in Heights : reorg(h))
    => UNCHANGED <<indexer, rows, tracker, sweeper>>
BY ZenonT(60) DEF grow, mine, reorg

LEMMA ScannerFrame ==
  ASSUME NEW s \in Scanners, scannerStep(s)
  PROVE  UNCHANGED <<chain, tracker, sweeper, balance>>
BY ZenonT(60) DEF scannerStep, pollTick, pollTickEnds, processNextBlock, processAnnouncedBlock,
       readBlock, recordDeposit, recordDepositFails, finishBlock, rows, balance

LEMMA TrackerFrame ==
  ASSUME NEW k \in Ticks, trackerStep(k)
  PROVE  UNCHANGED <<chain, indexer, block, flagged, sweeper>>
BY ZenonT(60) DEF trackerStep, tickStep, checkPendingDeposits, processChainDeposits, receiptFound,
       receiptMissing, markFailed, confirmDeposit, confirmDepositFails,
       setConfirmations, indexerCredits, backendCredits, applyBalance, rows, balance

LEMMA SweepFrame ==
  ASSUME NEW j \in Sweeps, sweepStep(j)
  PROVE  UNCHANGED <<chain, indexer, tracker, block, flagged>>
BY ZenonT(60) DEF sweepStep, fetchCurrentConfirmations, creditReadyDepositsForChain,
       creditConfirmedDeposit, sweepFails, setConfirmations, indexerCredits, backendCredits, applyBalance, rows, balance

LEMMA BackendFrame ==
  backendStep => UNCHANGED <<chain, indexer, tracker, sweeper, block, conf>>
BY ZenonT(60) DEF backendStep, creditDepositIfConfirmed, markDepositFlagged,
       applyBalanceForOneCompletedDeposit, indexerCredits, backendCredits, applyBalance

LEMMA RecordFrame ==
  ASSUME NEW t \in NonEvm, recordOrUpdateDeposit(t)
  PROVE  UNCHANGED <<chain, indexer, tracker, sweeper, balance>>
BY ZenonT(60) DEF recordOrUpdateDeposit

LEMMA RestartFrame ==
  loadLastProcessedBlock => UNCHANGED <<chain, saved, lost, announced, rows>>
BY ZenonT(60) DEF loadLastProcessedBlock

LEMMA ShapesInit ==
  Init => Shapes
<1> SUFFICES ASSUME Init PROVE Shapes
  BY ZenonT(60)
<1>1. TypeChain /\ OnChain /\ TypeIndexer
  BY SMTT(60), Z3T(60), DepositConstants DEF Init, TypeChain, OnChain, TypeIndexer, Heights
<1>2. TypeRows
  BY SMTT(60), Z3T(60), DepositConstants DEF Init, TypeRows, Heights, RowStatus
<1>3. TypeTracker /\ TypeSweeper /\ WorksOnRow
  BY SMTT(60), Z3T(60), DepositConstants DEF Init, TypeTracker, TypeSweeper, WorksOnRow, Heights
<1> QED
  BY ZenonT(60), <1>1, <1>2, <1>3 DEF Shapes

LEMMA ChainShapes ==
  ASSUME Shapes, Next
  PROVE  TypeChain' /\ OnChain'
<1> USE DEF Heights
<1>0. TypeChain /\ OnChain
  BY ZenonT(60) DEF Shapes
<1>1. ASSUME NEW S \in SUBSET Mined, mine(S) PROVE TypeChain' /\ OnChain'
  BY SMTT(60), Z3T(60), <1>0, <1>1, DepositConstants DEF mine, AtLeast, TypeChain, OnChain
<1>2. ASSUME NEW h \in Heights, reorg(h) PROVE TypeChain' /\ OnChain'
  BY SMTT(60), Z3T(60), <1>0, <1>2, DepositConstants DEF reorg, TypeChain, OnChain
<1>3. CASE UNCHANGED chain
  BY ZenonT(60), <1>0, <1>3 DEF chain, TypeChain, OnChain
<1> QED
  BY ZenonT(60), <1>1, <1>2, <1>3, ScannerFrame, TrackerFrame, SweepFrame, BackendFrame,
     RecordFrame, RestartFrame DEF Next, grow

LEMMA IndexerShapes ==
  ASSUME Shapes, Next
  PROVE  TypeIndexer'
<1> USE DEF Heights
<1>0. TypeChain /\ TypeIndexer
  BY ZenonT(60) DEF Shapes
<1>1. ASSUME NEW s \in Scanners, scannerStep(s) PROVE TypeIndexer'
  <2>1. CASE pollTick(s)
    BY SMTT(60), Z3T(60), <1>0, <2>1, DepositConstants
       DEF pollTick, pollTarget, AtLeast, history, TypeIndexer, TypeChain
  <2>2. CASE pollTickEnds(s)
    BY ZenonT(60), <1>0, <2>2, DepositConstants DEF pollTickEnds, history, TypeIndexer
  <2>3. CASE processNextBlock(s)
    BY SMTT(60), Z3T(60), <1>0, <2>3, DepositConstants
       DEF processNextBlock, readBlock, TypeIndexer, TypeChain
  <2>4. CASE processAnnouncedBlock(s)
    BY SMTT(60), Z3T(60), <1>0, <2>4, DepositConstants
       DEF processAnnouncedBlock, readBlock, TypeIndexer, TypeChain
  <2>5. ASSUME NEW t \in Evm, recordDeposit(s, t) PROVE TypeIndexer'
    BY ZenonT(60), <1>0, <2>5 DEF recordDeposit, TypeIndexer
  <2>6. ASSUME NEW t \in Evm, recordDepositFails(s, t) PROVE TypeIndexer'
    BY ZenonT(60), <1>0, <2>6 DEF recordDepositFails, TypeIndexer
  <2>7. CASE finishBlock(s)
    BY SMTT(60), Z3T(60), <1>0, <2>7, DepositConstants DEF finishBlock, history, TypeIndexer
  <2> QED
    BY ZenonT(60), <1>1, <2>1, <2>2, <2>3, <2>4, <2>5, <2>6, <2>7 DEF scannerStep
<1>2. CASE loadLastProcessedBlock
  <2>1. last' \in Heights /\ lastType' \in {"number", "string"}
    BY ZenonT(60), <1>0, <1>2 DEF loadLastProcessedBlock, TypeIndexer, TypeChain
  <2>2. last \in Nat /\ last' \in Nat /\ last' <= MaxHead /\ MaxHead \in Nat
    BY SMTT(60), Z3T(60), <1>0, <2>1, DepositConstants DEF TypeIndexer
  <2>3. last + 1 .. last' \subseteq Heights
    BY SMTT(60), Z3T(60), <2>2
  <2> QED
    BY SMTT(60), Z3T(60), <1>0, <1>2, <2>1, <2>3, DepositConstants DEF loadLastProcessedBlock, TypeIndexer
<1>3. CASE UNCHANGED indexer
  BY ZenonT(60), <1>0, <1>3 DEF indexer, history, TypeIndexer
<1> QED
  BY ZenonT(60), <1>1, <1>2, <1>3, ChainFrame, TrackerFrame, SweepFrame, BackendFrame,
     RecordFrame DEF Next

(* The effects a step can have on the deposits table. *)
Credit(t) == indexerCredits(t) \/ backendCredits(t)

Recount(t, c) ==
  /\ deposits_completed_requires_confirmations(t, status[t], c)
  /\ setConfirmations(t, c)

Record(t, b, c) ==
  /\ status[t] = "none"
  /\ status' = [status EXCEPT ![t] = "pending"]
  /\ block' = [block EXCEPT ![t] = b]
  /\ conf' = [conf EXCEPT ![t] = c]
  /\ older' = [older EXCEPT ![t] = Rows]
  /\ UNCHANGED balance

Fail(t) ==
  /\ status' = [status EXCEPT ![t] = "failed"]
  /\ UNCHANGED <<block, conf, older, balance>>

Flag(t) ==
  /\ flagged' = flagged \union {t}
  /\ UNCHANGED <<status, block, conf, older, applied, totalDeposited, cut>>

RowStep(t) ==
  \/ status[t] # "none" /\ (Credit(t) \/ Fail(t) \/ Flag(t))
  \/ t \in NonEvm /\ Credit(t)
  \/ \E c \in Int : Recount(t, c)
  \/ \E b \in Heights, c \in Int : Record(t, b, c)

LEMMA RowEffects ==
  ASSUME Shapes, Next
  PROVE  UNCHANGED rows \/ \E t \in Transfers : RowStep(t)
<1> USE DEF Heights
<1>0. /\ Evm \subseteq Transfers /\ NonEvm \subseteq Transfers /\ Mined \subseteq Transfers
      /\ TypeChain /\ OnChain /\ TypeIndexer /\ TypeRows /\ TypeTracker /\ TypeSweeper
      /\ WorksOnRow
  BY ZenonT(60) DEF Shapes, Transfers, Mined
<1>1. ASSUME NEW s \in Scanners, scannerStep(s)
      PROVE  UNCHANGED rows \/ \E t \in Transfers : RowStep(t)
  <2>1. ASSUME NEW t \in Evm, recordDeposit(s, t)
        PROVE  UNCHANGED rows \/ \E u \in Transfers : RowStep(u)
    <3>1. scanning[s] \in Heights
      BY ZenonT(60), <1>0 DEF TypeIndexer
    <3>2. CASE status[t] = "none"
      BY SMTT(60), Z3T(60), <1>0, <2>1, <3>1, <3>2 DEF recordDeposit, RowStep, Record
    <3>3. CASE status[t] # "none"
      BY ZenonT(60), <2>1, <3>3 DEF recordDeposit, rows, balance
    <3> QED
      BY ZenonT(60), <3>2, <3>3
  <2> QED
    BY ZenonT(60), <1>1, <2>1 DEF scannerStep, pollTick, pollTickEnds, processNextBlock,
       processAnnouncedBlock, readBlock, recordDepositFails, finishBlock
<1>2. ASSUME NEW k \in Ticks, trackerStep(k)
      PROVE  UNCHANGED rows \/ \E t \in Transfers : RowStep(t)
  <2>1. ASSUME NEW t \in Evm, processChainDeposits(k, t)
        PROVE  UNCHANGED rows \/ \E u \in Transfers : RowStep(u)
    <3>1. current[k] - block[t] \in Int
      BY SMTT(60), Z3T(60), <1>0, DepositConstants DEF TypeTracker, TypeRows
    <3> QED
      BY ZenonT(60), <1>0, <2>1, <3>1 DEF processChainDeposits, RowStep, Recount
  <2>2. CASE markFailed(k)
    BY ZenonT(60), <1>0, <2>2 DEF markFailed, WorksOnRow, RowStep, Fail
  <2>3. CASE confirmDeposit(k)
    BY ZenonT(60), <1>0, <2>3 DEF confirmDeposit, WorksOnRow, RowStep, Credit
  <2> QED
    BY ZenonT(60), <1>2, <2>1, <2>2, <2>3 DEF trackerStep, tickStep, checkPendingDeposits, receiptFound,
       receiptMissing, confirmDepositFails
<1>3. ASSUME NEW j \in Sweeps, sweepStep(j)
      PROVE  UNCHANGED rows \/ \E t \in Transfers : RowStep(t)
  <2>1. CASE creditReadyDepositsForChain(j)
    <3>1. sweepRow[j] \in NonEvm \union {NoTransfer} /\ sweepConf[j] \in Int
      BY SMTT(60), Z3T(60), <1>0 DEF TypeSweeper
    <3> QED
      BY ZenonT(60), <1>0, <2>1, <3>1 DEF creditReadyDepositsForChain, RowStep, Recount
  <2>2. CASE creditConfirmedDeposit(j)
    BY ZenonT(60), <1>0, <2>2 DEF creditConfirmedDeposit, WorksOnRow, RowStep, Credit
  <2> QED
    BY ZenonT(60), <1>3, <2>1, <2>2 DEF sweepStep, fetchCurrentConfirmations, sweepFails
<1>4. ASSUME NEW t \in NonEvm, recordOrUpdateDeposit(t)
      PROVE  \E u \in Transfers : RowStep(u)
  <2>1. /\ where[t] \in Heights /\ onChainConfirmations(t) \in Int
        /\ status \in [Transfers -> RowStatus] /\ block \in [Transfers -> Heights]
    BY SMTT(60), Z3T(60), <1>0, <1>4, DepositConstants
       DEF recordOrUpdateDeposit, onChainConfirmations, TypeChain, TypeRows, Mined
  <2>2. CASE status[t] = "none"
    BY ZenonT(60), <1>0, <1>4, <2>1, <2>2 DEF recordOrUpdateDeposit, RowStep, Record
  <2>3. CASE status[t] # "none"
    BY ZenonT(60), <1>0, <1>4, <2>1, <2>3 DEF recordOrUpdateDeposit, RowStep, Recount,
       setConfirmations, deposits_completed_requires_confirmations
  <2> QED
    BY ZenonT(60), <2>2, <2>3
<1>5. CASE backendStep
  BY ZenonT(60), <1>0, <1>5 DEF backendStep, creditDepositIfConfirmed, markDepositFlagged, overdue,
     applyBalanceForOneCompletedDeposit, RowStep, Credit, Flag
<1> QED
  BY ZenonT(60), <1>1, <1>2, <1>3, <1>4, <1>5, ChainFrame, RestartFrame DEF Next

LEMMA RowShapes ==
  ASSUME Shapes, Next
  PROVE  /\ TypeRows'
         /\ \A u \in Transfers : status[u] # "none" => status'[u] # "none"
<1>0. TypeRows
  BY ZenonT(60) DEF Shapes
<1>1. CASE UNCHANGED rows
  BY ZenonT(60), <1>0, <1>1 DEF rows, balance, TypeRows
<1>2. ASSUME NEW t \in Transfers, RowStep(t)
      PROVE  /\ TypeRows'
             /\ \A u \in Transfers : status[u] # "none" => status'[u] # "none"
  <2>1. CASE Credit(t)
    <3>1. Amount[t] \in Nat /\ toDecimalPlaces(t) \in Nat
      BY SMTT(60), Z3T(60), DepositConstants DEF toDecimalPlaces
    <3> QED
      BY SMTT(60), Z3T(60), <1>0, <2>1, <3>1 DEF Credit, indexerCredits, backendCredits, applyBalance, TypeRows, RowStatus
  <2>2. CASE Fail(t)
    BY ZenonT(60), <1>0, <2>2 DEF Fail, TypeRows, RowStatus, balance
  <2>3. CASE Flag(t)
    BY ZenonT(60), <1>0, <2>3 DEF Flag, TypeRows
  <2>4. ASSUME NEW c \in Int, Recount(t, c)
        PROVE  /\ TypeRows'
               /\ \A u \in Transfers : status[u] # "none" => status'[u] # "none"
    BY ZenonT(60), <1>0, <2>4 DEF Recount, setConfirmations, TypeRows, balance
  <2>5. ASSUME NEW b \in Heights, NEW c \in Int, Record(t, b, c)
        PROVE  /\ TypeRows'
               /\ \A u \in Transfers : status[u] # "none" => status'[u] # "none"
    BY ZenonT(60), <1>0, <2>5 DEF Record, Rows, TypeRows, RowStatus, balance
  <2> QED
    BY ZenonT(60), <1>2, <2>1, <2>2, <2>3, <2>4, <2>5 DEF RowStep
<1> QED
  BY ZenonT(60), <1>1, <1>2, RowEffects

(* The ticks of the tracker. *)
TickRows ==
  /\ \A k \in Ticks : \A t \in listed[k] : status[t] # "none"
  /\ \A k \in Ticks : stage[k] # "list" => at[k] \in Evm /\ status[at[k]] # "none"

LEMMA TrackerShapes ==
  ASSUME Shapes, Next
  PROVE  TypeTracker' /\ TickRows'
<1>0. /\ TypeTracker /\ TickRows /\ TypeChain /\ Evm \subseteq Transfers
      /\ \A u \in Transfers : status[u] # "none" => status'[u] # "none"
  BY ZenonT(60), RowShapes DEF Shapes, WorksOnRow, TickRows, Transfers, Mined
<1>1. ASSUME NEW k \in Ticks, trackerStep(k) PROVE TypeTracker' /\ TickRows'
  <2>1. CASE checkPendingDeposits(k)
    BY ZenonT(60), <1>0, <2>1 DEF checkPendingDeposits, Pending, TypeTracker, TickRows, TypeChain, rows, balance
  <2>2. ASSUME NEW t \in Evm, processChainDeposits(k, t) PROVE TypeTracker' /\ TickRows'
    <3> DEFINE count == IF listed'[k] = {} THEN 0 ELSE current[k]
    <3>1. t \in listed[k] /\ current' = [current EXCEPT ![k] = count]
          /\ listed' \in {[listed EXCEPT ![k] = @ \ {t}], [listed EXCEPT ![k] = {}]}
          /\ \/ UNCHANGED <<at, stage>>
             \/ at' = [at EXCEPT ![k] = t] /\ stage' = [stage EXCEPT ![k] = "receipt"]
      BY ZenonT(60), <2>2 DEF processChainDeposits
    <3>2. count \in Heights
      BY SMTT(60), Z3T(60), <1>0, DepositConstants DEF TypeTracker, Heights
    <3> HIDE DEF count
    <3> QED
      BY SMTT(60), Z3T(60), <1>0, <3>1, <3>2 DEF TypeTracker, TickRows
  <2>3. CASE receiptFound(k)
    BY ZenonT(60), <1>0, <2>3 DEF receiptFound, TypeTracker, TickRows, rows, balance
  <2>4. CASE nextRow(k)
    BY ZenonT(60), <1>0, <2>4 DEF nextRow, TypeTracker, TickRows
  <2> QED
    BY ZenonT(60), <1>1, <2>1, <2>2, <2>3, <2>4 DEF trackerStep, tickStep, receiptMissing, markFailed,
       confirmDeposit, confirmDepositFails
<1>2. CASE loadLastProcessedBlock
  BY SMTT(60), Z3T(60), <1>0, <1>2, DepositConstants
     DEF loadLastProcessedBlock, TypeTracker, TickRows, Heights
<1>3. CASE UNCHANGED tracker
  BY ZenonT(60), <1>0, <1>3 DEF tracker, TypeTracker, TickRows
<1> QED
  BY ZenonT(60), <1>1, <1>2, <1>3, ChainFrame, ScannerFrame, SweepFrame, BackendFrame,
     RecordFrame DEF Next

(* The sweeps of the Bitcoin indexer. *)
SweepRows ==
  \A j \in Sweeps : sweepNew[j] = "credit" => sweepRow[j] \in NonEvm

LEMMA SweeperShapes ==
  ASSUME Shapes, Next
  PROVE  TypeSweeper' /\ SweepRows'
<1>0. TypeSweeper /\ SweepRows /\ TypeChain /\ OnChain
  BY ZenonT(60) DEF Shapes, WorksOnRow, SweepRows
<1>1. ASSUME NEW j \in Sweeps, sweepStep(j) PROVE TypeSweeper' /\ SweepRows'
  <2>1. ASSUME NEW t \in NonEvm, fetchCurrentConfirmations(j, t)
        PROVE  TypeSweeper' /\ SweepRows'
    <3>1. onChainConfirmations(t) \in Nat
      BY SMTT(60), Z3T(60), <1>0, DepositConstants
         DEF onChainConfirmations, TypeChain, OnChain, Mined, Heights
    <3> QED
      BY ZenonT(60), <1>0, <2>1, <3>1 DEF fetchCurrentConfirmations, TypeSweeper, SweepRows
  <2>2. CASE creditReadyDepositsForChain(j)
    BY SMTT(60), Z3T(60), <1>0, <2>2 DEF creditReadyDepositsForChain, sweepEnds, TypeSweeper, SweepRows
  <2>3. CASE sweepEnds(j)
    BY ZenonT(60), <1>0, <2>3 DEF sweepEnds, TypeSweeper, SweepRows
  <2> QED
    BY ZenonT(60), <1>1, <2>1, <2>2, <2>3 DEF sweepStep, creditConfirmedDeposit, sweepFails
<1>2. CASE loadLastProcessedBlock
  BY ZenonT(60), <1>0, <1>2 DEF loadLastProcessedBlock, TypeSweeper, SweepRows
<1>3. CASE UNCHANGED sweeper
  BY ZenonT(60), <1>0, <1>3 DEF sweeper, TypeSweeper, SweepRows
<1> QED
  BY ZenonT(60), <1>1, <1>2, <1>3, ChainFrame, ScannerFrame, TrackerFrame, BackendFrame,
     RecordFrame DEF Next

LEMMA ShapesStep ==
  Shapes /\ [Next]_vars => Shapes'
<1>1. ASSUME Shapes, Next PROVE Shapes'
  BY ZenonT(60), <1>1, ChainShapes, IndexerShapes, RowShapes, TrackerShapes, SweeperShapes
     DEF Shapes, WorksOnRow, TickRows, SweepRows
<1>2. ASSUME Shapes, UNCHANGED vars PROVE Shapes'
  BY ZenonT(60), <1>2 DEF Shapes, TypeChain, TypeIndexer, TypeRows, TypeTracker, TypeSweeper,
     WorksOnRow, OnChain, vars, chain, indexer, history, rows, balance, tracker, sweeper
<1> QED
  BY ZenonT(60), <1>1, <1>2

(***************************************************************************)
(* The table and the balance.                                              *)
(***************************************************************************)
LEMMA CreditStep ==
  ASSUME Shapes, EachDepositCreditedOnce, Next
  PROVE  EachDepositCreditedOnce'
<1> DEFINE decimals == [u \in Transfers |-> Amount[u] % Grain]
<1>0. /\ cut \subseteq applied /\ applied \subseteq Transfers
      /\ IsFiniteSet(applied) /\ IsFiniteSet(cut)
      /\ \A u \in Transfers : Amount[u] \in Nat /\ decimals[u] \in Nat
      /\ totalDeposited \in Nat
  <2>1. cut \subseteq applied /\ applied \subseteq Transfers /\ totalDeposited \in Nat
    BY ZenonT(60) DEF Shapes, TypeRows
  <2>2. \A u \in Transfers : Amount[u] \in Nat /\ decimals[u] \in Nat
    BY SMTT(60), Z3T(60), DepositConstants
  <2> QED
    BY ZenonT(60), <2>1, <2>2, DepositConstants, FS_Subset
<1> HIDE DEF decimals
<1>1. CASE UNCHANGED <<applied, totalDeposited, cut>>
  BY ZenonT(60), <1>1 DEF EachDepositCreditedOnce
<1>2. ASSUME NEW t \in Transfers, Credit(t) PROVE EachDepositCreditedOnce'
  <2>1. /\ t \notin applied /\ t \notin cut /\ applied' = applied \union {t}
    BY ZenonT(60), <1>0, <1>2 DEF Credit, indexerCredits, backendCredits, applyBalance
  <2>2. /\ SumOf(Amount, applied') = SumOf(Amount, applied) + Amount[t]
        /\ SumOf(decimals, cut \union {t}) = SumOf(decimals, cut) + decimals[t]
    <3>1. /\ \A u \in applied : Amount[u] \in Nat
          /\ \A u \in cut : decimals[u] \in Nat
          /\ Amount[t] \in Nat /\ decimals[t] \in Nat
      BY ZenonT(60), <1>0
    <3> QED
      BY ZenonT(60), <1>0, <2>1, <3>1, SumAdd
  <2>3. /\ SumOf(Amount, applied) \in Nat /\ SumOf(decimals, cut) \in Nat
        /\ Amount[t] \in Nat /\ decimals[t] \in Nat
    BY ZenonT(60), <1>0, SumType
  <2>4. totalDeposited + SumOf(decimals, cut) = SumOf(Amount, applied)
    BY ZenonT(60) DEF EachDepositCreditedOnce, decimals
  <2>5. totalDeposited' + SumOf(decimals, cut') = SumOf(Amount, applied')
    <3>1. CASE indexerCredits(t)
      <4>1. totalDeposited' = totalDeposited + Amount[t] /\ cut' = cut
        BY ZenonT(60), <3>1 DEF indexerCredits, applyBalance
      <4> QED
        BY ONLY SMTT(60), Z3T(60), <1>0, <2>2, <2>3, <2>4, <4>1
    <3>2. CASE backendCredits(t)
      <4>1. totalDeposited' = totalDeposited + toDecimalPlaces(t) /\ cut' = cut \union {t}
        BY ZenonT(60), <3>2 DEF backendCredits, applyBalance
      <4>2. toDecimalPlaces(t) = Amount[t] - decimals[t]
        BY ZenonT(60) DEF toDecimalPlaces, decimals
      <4> QED
        BY ONLY SMTT(60), Z3T(60), <1>0, <2>2, <2>3, <2>4, <4>1, <4>2
    <3> QED
      BY ZenonT(60), <1>2, <3>1, <3>2 DEF Credit
  <2> QED
    BY ZenonT(60), <2>5 DEF EachDepositCreditedOnce, decimals
<1>3. ASSUME NEW t \in Transfers, RowStep(t) PROVE EachDepositCreditedOnce'
  BY ZenonT(60), <1>1, <1>2, <1>3 DEF RowStep, Fail, Flag, Recount, setConfirmations, Record, balance
<1> QED
  BY ZenonT(60), <1>1, <1>3, RowEffects DEF rows, balance

(***************************************************************************)
(* Scanned blocks.  A block at most tip - Confirmations is final: the head *)
(* never goes below it again.  Every block up to the cursor, and every     *)
(* block a scanner works on, is final or marked as skipped.                *)
(***************************************************************************)
Final(n) == n <= tip - Confirmations

HeadNearTip == head <= tip /\ tip - head <= ReorgDepth

Known(t) == status[t] # "none" \/ t \in lost \/ where[t] \in skipped

FinalOrSkipped(n) == n \in skipped \/ Final(n)

CursorInv ==
  /\ \A n \in 1 .. last : FinalOrSkipped(n)
  /\ \A t \in Evm : where[t] \in 1 .. last => Known(t)

ScannerInv(s) ==
  /\ target[s] > 0 => Final(target[s]) /\ scanning[s] <= target[s]
  /\ \A n \in 1 .. scanning[s] : FinalOrSkipped(n)
  /\ \A t \in Evm : where[t] \in 1 .. scanning[s] =>
       Known(t) \/ (where[t] = scanning[s] /\ t \in found[s])
  /\ target[s] > 0 => \A t \in found[s] : where[t] = scanning[s]
  /\ found[s] # {} => scanning[s] > 0

PolledInv ==
  \A t \in Evm \ announced :
    status[t] # "none" => where[t] = block[t] /\ block[t] > 0 /\ Final(block[t])

ScanInv ==
  /\ HeadNearTip /\ CursorInv /\ PolledInv
  /\ \A s \in Scanners : ScannerInv(s)

(* No step outside the EVM indexer makes or moves an EVM row. *)
EvmRowsKept ==
  \A t \in Evm : block'[t] = block[t] /\ (status[t] = "none" => status'[t] = "none")

LEMMA OtherSteps ==
  ASSUME Shapes,
         \/ \E k \in Ticks : trackerStep(k)
         \/ \E j \in Sweeps : sweepStep(j)
         \/ \E t \in NonEvm : recordOrUpdateDeposit(t)
         \/ backendStep
  PROVE  EvmRowsKept /\ UNCHANGED <<chain, indexer>>
<1>0. /\ TypeRows /\ WorksOnRow /\ Evm \subseteq Transfers /\ NonEvm \subseteq Transfers
      /\ Evm \intersect NonEvm = {} /\ NoTransfer \notin Transfers
  BY ZenonT(60), DepositConstants DEF Shapes, Transfers, Mined
<1>1. ASSUME NEW k \in Ticks, trackerStep(k) PROVE EvmRowsKept
  BY ZenonT(60), <1>0, <1>1, TrackerFrame DEF trackerStep, tickStep, checkPendingDeposits,
     processChainDeposits, receiptFound, receiptMissing, markFailed, confirmDeposit,
     confirmDepositFails, setConfirmations, indexerCredits, backendCredits, applyBalance, rows, balance, WorksOnRow, TypeRows,
     EvmRowsKept
<1>2. ASSUME NEW j \in Sweeps, sweepStep(j) PROVE EvmRowsKept
  <2>1. block' = block
    BY ZenonT(60), <1>2, SweepFrame
  <2>2. CASE status' = status
    BY ZenonT(60), <2>1, <2>2 DEF EvmRowsKept
  <2>3. CASE creditConfirmedDeposit(j) /\ status' # status
    BY ZenonT(60), <1>0, <2>1, <2>3 DEF creditConfirmedDeposit, indexerCredits, backendCredits, applyBalance, WorksOnRow,
       TypeRows, EvmRowsKept
  <2>4. status' = status \/ creditConfirmedDeposit(j)
    BY ZenonT(60), <1>2 DEF sweepStep, fetchCurrentConfirmations, creditReadyDepositsForChain,
       sweepFails, setConfirmations, rows, balance
  <2> QED  BY ZenonT(60), <2>2, <2>3, <2>4
<1>3. ASSUME NEW t \in NonEvm, recordOrUpdateDeposit(t) PROVE EvmRowsKept
  BY ZenonT(60), <1>0, <1>3 DEF recordOrUpdateDeposit, TypeRows, EvmRowsKept
<1>4. CASE backendStep
  BY ZenonT(60), <1>0, <1>4 DEF backendStep, creditDepositIfConfirmed, markDepositFlagged, overdue,
     applyBalanceForOneCompletedDeposit, indexerCredits, backendCredits, applyBalance, TypeRows, EvmRowsKept
<1> QED
  BY ZenonT(60), <1>1, <1>2, <1>3, <1>4, TrackerFrame, SweepFrame, RecordFrame, BackendFrame

LEMMA OtherStepsScan ==
  ASSUME Shapes, ScanInv, EvmRowsKept, UNCHANGED <<chain, indexer>>,
         \A t \in Evm : status[t] # "none" => status'[t] # "none"
  PROVE  ScanInv'
<1> USE DEF Known, Final, FinalOrSkipped, chain, indexer, history
<1>1. HeadNearTip' /\ CursorInv'
  BY ZenonT(60) DEF ScanInv, HeadNearTip, CursorInv
<1>2. PolledInv'
  BY ZenonT(60) DEF ScanInv, PolledInv, EvmRowsKept
<1>3. ASSUME NEW s \in Scanners PROVE ScannerInv(s)'
  BY ZenonT(60) DEF ScanInv, ScannerInv
<1> QED
  BY ZenonT(60), <1>1, <1>2, <1>3 DEF ScanInv

LEMMA TipGrows ==
  ASSUME NEW n \in Int, NEW a \in Int, NEW b \in Int, NEW c \in Int,
         n <= a - c, a <= b
  PROVE  n <= b - c
BY SMTT(60), Z3T(60)

LEMMA MineScan ==
  ASSUME Shapes, ScanInv, NEW S \in SUBSET Mined, mine(S)
  PROVE  ScanInv'
<1> USE DEF Known, Final, FinalOrSkipped
<1>0. /\ head \in Nat /\ tip \in Nat /\ last \in Nat /\ Evm \subseteq Mined
      /\ \A t \in Mined : where[t] \in Int
      /\ \A s \in Scanners : target[s] \in Nat /\ scanning[s] \in Nat
      /\ ReorgDepth \in Nat /\ Confirmations \in Nat /\ ReorgDepth <= Confirmations
      /\ head <= tip /\ tip - head <= ReorgDepth
  BY SMTT(60), Z3T(60), DepositConstants DEF ScanInv, HeadNearTip, Shapes, TypeChain, TypeIndexer, Heights, Mined
<1>1. /\ head' = head + 1 /\ tip' \in Nat /\ tip' >= tip /\ tip' >= head + 1
      /\ tip' \in {tip, head + 1}
      /\ \A t \in Mined : where'[t] = IF t \in S THEN head + 1 ELSE where[t]
      /\ \A t \in S : where[t] = 0
      /\ UNCHANGED <<last, target, scanning, found, lost, skipped, announced, status,
                     block>>
  BY SMTT(60), Z3T(60), <1>0 DEF mine, AtLeast, indexer, history, rows, balance
<1>2. HeadNearTip'
  <2>1. head \in Nat /\ tip \in Nat /\ ReorgDepth \in Nat /\ tip - head <= ReorgDepth
    BY ZenonT(60), <1>0
  <2>2. head' = head + 1 /\ tip' \in Nat /\ tip' >= head + 1
        /\ (tip' = tip \/ tip' = head + 1)
    BY ZenonT(60), <1>1
  <2>3. \A h, k, d \in Nat : k - h <= d => k - (h + 1) <= d /\ (h + 1) - (h + 1) <= d
    BY SMTT(60), Z3T(60)
  <2>4. head' <= tip' /\ tip' - head' <= ReorgDepth
    BY ZenonT(60), <2>1, <2>2, <2>3
  <2> QED  BY ZenonT(60), <2>4 DEF HeadNearTip
<1>3. ASSUME NEW n \in Int, FinalOrSkipped(n)
      PROVE  FinalOrSkipped(n)' /\ (n = head + 1 => n \in skipped)
  <2>1. skipped' = skipped /\ tip' \in Int /\ tip <= tip'
    BY SMTT(60), Z3T(60), <1>0, <1>1
  <2>1a. tip \in Int /\ Confirmations \in Int /\ n \in Int
    BY SMTT(60), Z3T(60), <1>0
  <2>2. CASE n \in skipped
    BY ZenonT(60), <2>1, <2>2
  <2>3. CASE n <= tip - Confirmations
    <3>1. n <= tip' - Confirmations
      BY ZenonT(60), <2>1, <2>1a, <2>3, TipGrows
    <3>2. n < head + 1
      BY SMTT(60), Z3T(60), <2>3, <1>0
    <3> QED
      BY SMTT(60), Z3T(60), <3>1, <3>2, <1>0
  <2> QED
    BY ZenonT(60), <1>3, <2>2, <2>3
<1>4. CursorInv'
  <2>1. \A n \in 1 .. last : FinalOrSkipped(n) /\ n \in Int
    BY SMTT(60), Z3T(60), <1>0 DEF ScanInv, CursorInv
  <2>2. \A n \in 1 .. last : FinalOrSkipped(n)' /\ (n = head + 1 => n \in skipped)
    BY ZenonT(60), <2>1, <1>3
  <2>3. ASSUME NEW t \in Evm, where'[t] \in 1 .. last PROVE Known(t)'
    <3>1. CASE t \in S
      BY ZenonT(60), <1>0, <1>1, <2>2, <2>3, <3>1
    <3>2. CASE t \notin S
      BY ZenonT(60), <1>0, <1>1, <2>3, <3>2 DEF ScanInv, CursorInv
    <3> QED
      BY ZenonT(60), <3>1, <3>2
  <2> QED
    BY ZenonT(60), <1>1, <2>2, <2>3 DEF CursorInv
<1>5. PolledInv'
  BY SMTT(60), Z3T(60), <1>0, <1>1 DEF ScanInv, PolledInv
<1>6. ASSUME NEW s \in Scanners PROVE ScannerInv(s)'
  <2>0. ScannerInv(s)
    BY ZenonT(60) DEF ScanInv
  <2>1. target[s] > 0 => Final(target[s])' /\ scanning[s] <= target[s]
    BY SMTT(60), Z3T(60), <2>0, <1>0, <1>1 DEF ScannerInv
  <2>2. \A n \in 1 .. scanning[s] : FinalOrSkipped(n)'
    BY SMTT(60), Z3T(60), <2>0, <1>0, <1>3 DEF ScannerInv
  <2>3. \A t \in Evm : where'[t] \in 1 .. scanning[s] =>
          Known(t)' \/ (where'[t] = scanning[s] /\ t \in found[s])
    BY SMTT(60), Z3T(60), <2>0, <1>0, <1>1, <1>3 DEF ScannerInv
  <2>4. target[s] > 0 => \A t \in found[s] : where'[t] = scanning[s]
    <3>1. found[s] \subseteq Evm
      BY ZenonT(60) DEF Shapes, TypeIndexer
    <3> QED
      BY SMTT(60), Z3T(60), <2>0, <3>1, <1>0, <1>1 DEF ScannerInv
  <2> QED
    BY ZenonT(60), <2>0, <2>1, <2>2, <2>3, <2>4, <1>1 DEF ScannerInv
<1> QED
  BY ZenonT(60), <1>2, <1>4, <1>5, <1>6 DEF ScanInv

LEMMA ReorgScan ==
  ASSUME Shapes, ScanInv, NEW h \in Heights, reorg(h)
  PROVE  ScanInv'
<1> USE DEF Known, Final, FinalOrSkipped
<1>0. /\ head \in Nat /\ tip \in Nat /\ last \in Nat /\ Evm \subseteq Mined /\ h \in Nat
      /\ \A t \in Mined : where[t] \in Int
      /\ \A s \in Scanners : /\ target[s] \in Nat /\ scanning[s] \in Nat
                             /\ found[s] \subseteq Evm
      /\ ReorgDepth \in Nat /\ Confirmations \in Nat /\ ReorgDepth <= Confirmations
  BY SMTT(60), Z3T(60), DepositConstants DEF Shapes, TypeChain, TypeIndexer, Heights, Mined
<1>1. /\ head' = h /\ h < head /\ tip - h <= ReorgDepth
      /\ \A t \in Mined : where'[t] = IF where[t] > h THEN 0 ELSE where[t]
      /\ UNCHANGED <<tip, last, target, scanning, found, lost, skipped, announced,
                     status, block>>
  BY ZenonT(60), <1>0 DEF reorg, indexer, history, rows, balance
<1>2. HeadNearTip'
  BY SMTT(60), Z3T(60), <1>0, <1>1 DEF ScanInv, HeadNearTip
<1>3. CursorInv'
  BY SMTT(60), Z3T(60), <1>0, <1>1 DEF ScanInv, CursorInv
<1>4. PolledInv'
  BY SMTT(60), Z3T(60), <1>0, <1>1 DEF ScanInv, PolledInv
<1>5. ASSUME NEW s \in Scanners PROVE ScannerInv(s)'
  BY SMTT(60), Z3T(60), <1>0, <1>1 DEF ScanInv, ScannerInv
<1> QED
  BY ZenonT(60), <1>2, <1>3, <1>4, <1>5 DEF ScanInv

(* The types the scanner's lemmas need. *)
ScanTypes ==
  /\ head \in Int /\ tip \in Int /\ last \in Int /\ saved \in Int
  /\ \A t \in Evm : where[t] \in Int
  /\ target \in [Scanners -> Int] /\ scanning \in [Scanners -> Int]
  /\ \A s \in Scanners : target[s] >= 0 /\ scanning[s] >= 0
  /\ last >= 0 /\ saved >= 0
  /\ found \in [Scanners -> SUBSET Evm]
  /\ Confirmations \in Int /\ Confirmations > 0
  /\ status \in [Transfers -> RowStatus] /\ block \in [Transfers -> Int]
  /\ Evm \subseteq Transfers

LEMMA ScanTypesHold ==
  Shapes => ScanTypes
BY SMTT(60), Z3T(60), DepositConstants DEF Shapes, ScanTypes, TypeChain, TypeIndexer, TypeRows, Heights,
   Mined, Transfers

LEMMA TickScan ==
  ASSUME Shapes, ScanInv, NEW s \in Scanners, pollTick(s) \/ pollTickEnds(s)
  PROVE  ScanInv'
<1> USE ScanTypesHold DEF Known, Final, FinalOrSkipped
<1>1. /\ UNCHANGED <<chain, last, scanning, found, history, rows>>
      /\ scanning[s] = 0
      /\ \/ target' = [target EXCEPT ![s] = pollTarget]
         \/ target' = [target EXCEPT ![s] = 0]
  BY ZenonT(60) DEF pollTick, pollTickEnds
<1>2. HeadNearTip' /\ CursorInv' /\ PolledInv'
  BY ZenonT(60), <1>1 DEF ScanInv, HeadNearTip, CursorInv, PolledInv, chain, history, rows, balance
<1>3. pollTarget > 0 => pollTarget <= tip - Confirmations
  BY SMTT(60), Z3T(60) DEF pollTarget, AtLeast, ScanInv, HeadNearTip, ScanTypes
<1>4. ASSUME NEW r \in Scanners PROVE ScannerInv(r)'
  <2>0. ScannerInv(r)
    BY ZenonT(60) DEF ScanInv
  <2>1. CASE r = s
    <3>1. found[s] = {}
      BY SMTT(60), Z3T(60), <2>0, <2>1, <1>1 DEF ScannerInv, ScanTypes
    <3>2. target'[s] > 0 => target'[s] <= tip - Confirmations
      BY SMTT(60), Z3T(60), <1>1, <1>3 DEF ScanTypes
    <3>3. target'[s] \in Int
      BY SMTT(60), Z3T(60), <1>1 DEF ScanTypes, pollTarget, AtLeast
    <3> QED
      BY SMTT(60), Z3T(60), <2>0, <2>1, <1>1, <3>1, <3>2, <3>3
         DEF ScannerInv, ScanTypes, chain, history, rows, balance
  <2>2. CASE r # s
    BY ZenonT(60), <2>0, <2>2, <1>1 DEF ScannerInv, ScanTypes, chain, history, rows, balance
  <2> QED
    BY ZenonT(60), <2>1, <2>2
<1> QED
  BY ZenonT(60), <1>2, <1>4 DEF ScanInv

LEMMA NextBlockScan ==
  ASSUME Shapes, ScanInv, NEW s \in Scanners, processNextBlock(s)
  PROVE  ScanInv'
<1> USE ScanTypesHold DEF Known, Final, FinalOrSkipped
<1>1. /\ UNCHANGED <<chain, last, target, lost, announced, skipped, rows>>
      /\ last < target[s]
      /\ scanning' = [scanning EXCEPT ![s] = last + 1]
      /\ found' = [found EXCEPT ![s] = {t \in Evm : where[t] = last + 1}]
  BY ZenonT(60) DEF processNextBlock, readBlock
<1>2. HeadNearTip' /\ CursorInv' /\ PolledInv'
  BY ZenonT(60), <1>1 DEF ScanInv, HeadNearTip, CursorInv, PolledInv, chain, rows, balance
<1>3. ASSUME NEW r \in Scanners PROVE ScannerInv(r)'
  <2>0. ScannerInv(r)
    BY ZenonT(60) DEF ScanInv
  <2>1. CASE r = s
    <3>1. scanning'[s] = last + 1 /\ found'[s] = {t \in Evm : where[t] = last + 1}
      BY ZenonT(60), <1>1 DEF ScanTypes
    <3>2. target[s] \in Int /\ last + 1 <= target[s] /\ target[s] <= tip - Confirmations
      BY SMTT(60), Z3T(60), <1>1, <2>0, <2>1 DEF ScannerInv, ScanTypes
    <3>3. \A n \in 1 .. last + 1 : n \in skipped \/ n <= tip - Confirmations
      BY SMTT(60), Z3T(60), <3>2 DEF ScanTypes
    <3>4. \A t \in Evm : where[t] \in 1 .. last + 1 =>
            Known(t) \/ where[t] = last + 1
      BY SMTT(60), Z3T(60) DEF ScanInv, CursorInv, ScanTypes
    <3> QED
      BY SMTT(60), Z3T(60), <2>1, <1>1, <3>1, <3>2, <3>3, <3>4 DEF ScannerInv, ScanTypes, chain, rows, balance
  <2>2. CASE r # s
    BY ZenonT(60), <2>0, <2>2, <1>1 DEF ScannerInv, ScanTypes, chain, rows, balance
  <2> QED
    BY ZenonT(60), <2>1, <2>2
<1> QED
  BY ZenonT(60), <1>2, <1>3 DEF ScanInv

LEMMA AnnouncedBlockScan ==
  ASSUME Shapes, ScanInv, NEW s \in Scanners, processAnnouncedBlock(s)
  PROVE  ScanInv'
<1> USE ScanTypesHold DEF Known, Final, FinalOrSkipped
<1>1. /\ UNCHANGED <<chain, last, target, lost, announced, rows>>
      /\ last < head /\ target[s] = 0
      /\ scanning' = [scanning EXCEPT ![s] = head]
      /\ found' = [found EXCEPT ![s] = {t \in Evm : where[t] = head}]
      /\ skipped' = skipped \union (last + 1 .. head)
  BY ZenonT(60) DEF processAnnouncedBlock, readBlock
<1>2. HeadNearTip' /\ CursorInv' /\ PolledInv'
  BY ZenonT(60), <1>1 DEF ScanInv, HeadNearTip, CursorInv, PolledInv, chain, rows, balance
<1>3. ASSUME NEW r \in Scanners PROVE ScannerInv(r)'
  <2>0. ScannerInv(r)
    BY ZenonT(60) DEF ScanInv
  <2>1. CASE r = s
    <3>1. scanning'[s] = head /\ found'[s] = {t \in Evm : where[t] = head}
      BY ZenonT(60), <1>1 DEF ScanTypes
    <3>2. \A n \in 1 .. head : n \in skipped' \/ n <= tip - Confirmations
      BY SMTT(60), Z3T(60), <1>1 DEF ScanInv, CursorInv, ScanTypes
    <3>3. \A t \in Evm : where[t] \in 1 .. head =>
            \/ status[t] # "none" \/ t \in lost \/ where[t] \in skipped'
            \/ where[t] = head
      BY SMTT(60), Z3T(60), <1>1 DEF ScanInv, CursorInv, ScanTypes
    <3> QED
      BY SMTT(60), Z3T(60), <2>1, <1>1, <3>1, <3>2, <3>3 DEF ScannerInv, ScanTypes, chain, rows, balance
  <2>2. CASE r # s
    BY ZenonT(60), <2>0, <2>2, <1>1 DEF ScannerInv, ScanTypes, chain, rows, balance
  <2> QED
    BY ZenonT(60), <2>1, <2>2
<1> QED
  BY ZenonT(60), <1>2, <1>3 DEF ScanInv

LEMMA RecordScan ==
  ASSUME Shapes, ScanInv, NEW s \in Scanners, NEW t \in Evm, recordDeposit(s, t)
  PROVE  ScanInv'
<1> USE ScanTypesHold DEF Known, Final, FinalOrSkipped
<1>1. /\ UNCHANGED <<chain, last, target, scanning, lost, skipped>>
      /\ t \in found[s]
      /\ found' = [found EXCEPT ![s] = found[s] \ {t}]
  BY ZenonT(60) DEF recordDeposit, ScanTypes
<1>2. status'[t] # "none"
  BY ZenonT(60) DEF recordDeposit, ScanTypes
<1>3. \A u \in Evm \ {t} : status'[u] = status[u] /\ block'[u] = block[u]
  BY ZenonT(60) DEF recordDeposit, ScanTypes
<1>4. \A u \in Evm \ {t} : u \in announced <=> u \in announced'
  BY ZenonT(60) DEF recordDeposit
<1>5. HeadNearTip' /\ CursorInv'
  BY ZenonT(60), <1>1, <1>2, <1>3 DEF ScanInv, HeadNearTip, CursorInv, chain
<1>6. PolledInv'
  <2>1. CASE status[t] = "none"
    <3>1. block'[t] = scanning[s]
      BY ZenonT(60), <2>1 DEF recordDeposit, ScanTypes
    <3>2. t \in announced' \/ target[s] > 0
      BY SMTT(60), Z3T(60), <2>1 DEF recordDeposit, ScanTypes
    <3>3. target[s] > 0 => /\ where[t] = scanning[s] /\ scanning[s] > 0
                           /\ scanning[s] <= tip - Confirmations
      BY SMTT(60), Z3T(60), <1>1 DEF ScanInv, ScannerInv, ScanTypes
    <3> QED
      BY ZenonT(60), <1>1, <1>3, <1>4, <3>1, <3>2, <3>3 DEF ScanInv, PolledInv, chain
  <2>2. CASE status[t] # "none"
    BY ZenonT(60), <1>1, <2>2 DEF recordDeposit, ScanInv, PolledInv, chain
  <2> QED
    BY ZenonT(60), <2>1, <2>2
<1>7. ASSUME NEW r \in Scanners PROVE ScannerInv(r)'
  <2>0. ScannerInv(r)
    BY ZenonT(60) DEF ScanInv
  <2>1. /\ found'[r] \subseteq found[r]
        /\ \A u \in found[r] \ {t} : u \in found'[r]
    BY ZenonT(60), <1>1 DEF ScanTypes
  <2> QED
    BY ZenonT(60), <2>0, <2>1, <1>1, <1>2, <1>3 DEF ScannerInv, chain
<1> QED
  BY ZenonT(60), <1>5, <1>6, <1>7 DEF ScanInv

LEMMA RecordFailsScan ==
  ASSUME Shapes, ScanInv, NEW s \in Scanners, NEW t \in Evm, recordDepositFails(s, t)
  PROVE  ScanInv'
<1> USE ScanTypesHold DEF Known, Final, FinalOrSkipped
<1>1. /\ UNCHANGED <<chain, last, target, scanning, skipped, announced, rows>>
      /\ found' = [found EXCEPT ![s] = found[s] \ {t}]
      /\ lost' = lost \union {t}
  BY ZenonT(60) DEF recordDepositFails, ScanTypes
<1>2. HeadNearTip' /\ CursorInv' /\ PolledInv'
  BY ZenonT(60), <1>1 DEF ScanInv, HeadNearTip, CursorInv, PolledInv, chain, rows, balance
<1>3. ASSUME NEW r \in Scanners PROVE ScannerInv(r)'
  <2>0. ScannerInv(r)
    BY ZenonT(60) DEF ScanInv
  <2>1. /\ found'[r] \subseteq found[r]
        /\ \A u \in found[r] \ {t} : u \in found'[r]
    BY ZenonT(60), <1>1 DEF ScanTypes
  <2> QED
    BY ZenonT(60), <2>0, <2>1, <1>1 DEF ScannerInv, chain, rows, balance
<1> QED
  BY ZenonT(60), <1>2, <1>3 DEF ScanInv

LEMMA FinishScan ==
  ASSUME Shapes, ScanInv, NEW s \in Scanners, finishBlock(s)
  PROVE  ScanInv'
<1> USE ScanTypesHold DEF Known, Final, FinalOrSkipped
<1>1. /\ UNCHANGED <<chain, target, found, history, rows>>
      /\ found[s] = {} /\ last' = scanning[s]
      /\ scanning' = [scanning EXCEPT ![s] = 0]
  BY ZenonT(60) DEF finishBlock
<1>2. HeadNearTip' /\ PolledInv'
  BY ZenonT(60), <1>1 DEF ScanInv, HeadNearTip, PolledInv, chain, history, rows, balance
<1>3. CursorInv'
  BY ZenonT(60), <1>1 DEF ScanInv, ScannerInv, CursorInv, chain, history, rows, balance
<1>4. ASSUME NEW r \in Scanners PROVE ScannerInv(r)'
  <2>0. ScannerInv(r)
    BY ZenonT(60) DEF ScanInv
  <2>1. CASE r = s
    BY SMTT(60), Z3T(60), <2>0, <2>1, <1>1 DEF ScannerInv, ScanTypes, chain, history, rows, balance
  <2>2. CASE r # s
    BY ZenonT(60), <2>0, <2>2, <1>1 DEF ScannerInv, ScanTypes, chain, history, rows, balance
  <2> QED
    BY ZenonT(60), <2>1, <2>2
<1> QED
  BY ZenonT(60), <1>2, <1>3, <1>4 DEF ScanInv

LEMMA RestartScan ==
  ASSUME Shapes, ScanInv, loadLastProcessedBlock
  PROVE  ScanInv'
<1> USE ScanTypesHold DEF Known, Final, FinalOrSkipped
<1>1. /\ UNCHANGED <<chain, lost, announced, rows>>
      /\ last' \in {saved, head}
      /\ skipped' = skipped \union (last + 1 .. last')
      /\ target' = [s \in Scanners |-> 0] /\ scanning' = [s \in Scanners |-> 0]
      /\ found' = [s \in Scanners |-> {}]
  BY ZenonT(60) DEF loadLastProcessedBlock
<1>2. HeadNearTip' /\ PolledInv'
  BY ZenonT(60), <1>1 DEF ScanInv, HeadNearTip, PolledInv, chain, rows, balance
<1>3. CursorInv'
  BY SMTT(60), Z3T(60), <1>1 DEF ScanInv, CursorInv, ScanTypes, chain, rows, balance
<1>4. ASSUME NEW r \in Scanners PROVE ScannerInv(r)'
  BY SMTT(60), Z3T(60), <1>1 DEF ScannerInv
<1> QED
  BY ZenonT(60), <1>2, <1>3, <1>4 DEF ScanInv

LEMMA ScanInit ==
  Init => ScanInv
<1> SUFFICES ASSUME Init PROVE ScanInv
  BY ZenonT(60)
<1>1. HeadNearTip /\ CursorInv
  <2>1. head = 0 /\ tip = 0 /\ last = 0 /\ ReorgDepth \in Int /\ 0 <= ReorgDepth
    BY SMTT(60), Z3T(60), DepositConstants DEF Init
  <2>2. 1 .. last = {}
    BY SMTT(60), Z3T(60), <2>1
  <2> QED
    BY SMTT(60), Z3T(60), <2>1, <2>2 DEF HeadNearTip, CursorInv
<1>2. PolledInv
  <2>1. Evm \subseteq Transfers /\ \A t \in Evm : t \notin Legacy
    BY ZenonT(60), DepositConstants DEF Transfers, Mined
  <2>2. \A t \in Evm : status[t] = "none"
    BY ZenonT(60), <2>1 DEF Init
  <2> QED
    BY ZenonT(60), <2>2 DEF PolledInv
<1>3. ASSUME NEW s \in Scanners PROVE ScannerInv(s)
  <2>1. target[s] = 0 /\ scanning[s] = 0 /\ found[s] = {}
    BY ZenonT(60) DEF Init
  <2>2. 1 .. scanning[s] = {}
    BY SMTT(60), Z3T(60), <2>1
  <2> QED
    BY SMTT(60), Z3T(60), <2>1, <2>2 DEF ScannerInv
<1> QED
  BY ZenonT(60), <1>1, <1>2, <1>3 DEF ScanInv

LEMMA ScanStep ==
  Shapes /\ ScanInv /\ [Next]_vars => ScanInv'
<1>1. ASSUME Shapes, ScanInv, Next PROVE ScanInv'
  <2>1. CASE grow
    BY ZenonT(60), <1>1, <2>1, MineScan DEF grow
  <2>2. ASSUME NEW h \in Heights, reorg(h) PROVE ScanInv'
    BY ZenonT(60), <1>1, <2>2, ReorgScan
  <2>3. ASSUME NEW s \in Scanners, scannerStep(s) PROVE ScanInv'
    BY ZenonT(60), <1>1, <2>3, TickScan, NextBlockScan, AnnouncedBlockScan, RecordScan,
       RecordFailsScan, FinishScan DEF scannerStep
  <2>4. CASE \/ \E k \in Ticks : trackerStep(k)
             \/ \E j \in Sweeps : sweepStep(j)
             \/ \E t \in NonEvm : recordOrUpdateDeposit(t)
             \/ backendStep
    <3>1. EvmRowsKept /\ UNCHANGED <<chain, indexer>>
      BY ZenonT(60), <1>1, <2>4, OtherSteps
    <3>2. \A t \in Evm : status[t] # "none" => status'[t] # "none"
      BY ZenonT(60), <1>1, RowShapes DEF Transfers, Mined
    <3> QED
      BY ZenonT(60), <1>1, <3>1, <3>2, OtherStepsScan
  <2>5. CASE loadLastProcessedBlock
    BY ZenonT(60), <1>1, <2>5, RestartScan
  <2> QED
    BY ZenonT(60), <1>1, <2>1, <2>2, <2>3, <2>4, <2>5 DEF Next
<1>2. ASSUME ScanInv, UNCHANGED vars PROVE ScanInv'
  BY ZenonT(60), <1>2 DEF ScanInv, HeadNearTip, CursorInv, PolledInv, ScannerInv, Known, Final,
     FinalOrSkipped, vars, chain, indexer, history, rows, balance
<1> QED
  BY ZenonT(60), <1>1, <1>2

(***************************************************************************)
(* The theorems.                                                           *)
(***************************************************************************)
LEMMA ShapesAlways ==
  Spec => []Shapes
BY ShapesInit, ShapesStep, PTL DEF Spec

(* Every variable keeps the type its column or field has, whatever the     *)
(* number of transfers, scanners, ticks and sweeps that run at once.       *)
THEOREM TypesHold ==
  Spec => []TypeOK
BY ShapesAlways, TypeParts, PTL

(* The user's total and what the backend rounded away add up to the        *)
(* deposits whose balance_applied_at is set: overlapping tracker ticks,    *)
(* the backend's credit of overdue rows, the repair of legacy rows and the *)
(* non-EVM sweep add each of them once, the indexer whole and the backend  *)
(* without its decimals beyond the eighth.                                 *)
THEOREM CreditedOnce ==
  Spec => []EachDepositCreditedOnce
<1>1. Init => EachDepositCreditedOnce
  <2> DEFINE decimals == [t \in Transfers |-> Amount[t] % Grain]
  <2>1. SumOf(decimals, {}) = 0 /\ SumOf(Amount, {}) = 0
    BY ZenonT(60), SumEmpty
  <2> HIDE DEF decimals
  <2>2. 0 + SumOf(decimals, {}) = SumOf(Amount, {})
    BY ONLY SMTT(60), Z3T(60), <2>1
  <2> QED
    BY ZenonT(60), <2>2 DEF Init, EachDepositCreditedOnce, decimals
<1>2. Shapes /\ EachDepositCreditedOnce /\ [Next]_vars => EachDepositCreditedOnce'
  BY ZenonT(60), CreditStep DEF EachDepositCreditedOnce, vars, rows, balance
<1> QED
  BY <1>1, <1>2, ShapesAlways, PTL DEF Spec

LEMMA ScanAlways ==
  Spec => []ScanInv
BY ShapesAlways, ScanInit, ScanStep, PTL DEF Spec

(* A deposit recorded by the poll, which stays Confirmations behind the    *)
(* head, is never moved to another block by a reorganisation of at most    *)
(* ReorgDepth <= Confirmations blocks.                                     *)
THEOREM PolledDepositsStay ==
  Spec => []PolledDepositStaysInItsBlock
<1>1. ScanInv => PolledDepositStaysInItsBlock
  BY ZenonT(60) DEF ScanInv, PolledInv, PolledDepositStaysInItsBlock
<1> QED
  BY <1>1, ScanAlways, PTL

(* A transfer at or below the cursor has a row, unless its insert failed   *)
(* or its block was passed over by the subscription or by a restart: two   *)
(* polls that overlap, and reorganisations, lose nothing more.             *)
THEOREM ScannedTransfersRecorded ==
  Spec => []ScannedTransferIsRecorded
<1>1. ScanInv => ScannedTransferIsRecorded
  BY ZenonT(60) DEF ScanInv, CursorInv, Known, ScannedTransferIsRecorded
<1> QED
  BY <1>1, ScanAlways, PTL

(* A tick is about to mark failed only a row whose transaction failed.      *)
FailsReverted == \A k \in Ticks : stage[k] = "fail" => at[k] \in Reverted

LEMMA FailsRevertedStep ==
  ASSUME Shapes, FailsReverted, [Next]_vars
  PROVE  FailsReverted'
<1>0. TypeTracker
  BY ZenonT(60) DEF Shapes
<1>1. ASSUME NEW k \in Ticks, trackerStep(k) PROVE FailsReverted'
  <2>1. ASSUME NEW t \in Evm, processChainDeposits(k, t) PROVE FailsReverted'
    <3>1. \/ UNCHANGED <<at, stage>>
          \/ at' = [at EXCEPT ![k] = t] /\ stage' = [stage EXCEPT ![k] = "receipt"]
      BY ZenonT(60), <2>1 DEF processChainDeposits
    <3> QED
      BY ZenonT(60), <1>0, <3>1 DEF TypeTracker, FailsReverted
  <2>2. CASE receiptFound(k)
    BY ZenonT(60), <1>0, <2>2 DEF receiptFound, TypeTracker, FailsReverted
  <2>3. CASE nextRow(k)
    BY ZenonT(60), <1>0, <2>3 DEF nextRow, TypeTracker, FailsReverted
  <2>4. CASE checkPendingDeposits(k)
    BY ZenonT(60), <2>4 DEF checkPendingDeposits, FailsReverted
  <2> QED
    BY ZenonT(60), <1>1, <2>1, <2>2, <2>3, <2>4 DEF trackerStep, tickStep, receiptMissing, markFailed,
       confirmDeposit, confirmDepositFails
<1>2. CASE loadLastProcessedBlock
  BY ZenonT(60), <1>2 DEF loadLastProcessedBlock, FailsReverted
<1>3. CASE UNCHANGED tracker
  BY ZenonT(60), <1>3 DEF tracker, FailsReverted
<1> QED
  BY ZenonT(60), <1>1, <1>2, <1>3, ChainFrame, ScannerFrame, SweepFrame, BackendFrame,
     RecordFrame DEF Next, vars

(* What a step does to the statuses and to what is credited. *)
LEMMA StatusMoves ==
  ASSUME Shapes, Next
  PROVE  \/ UNCHANGED <<status, applied>>
         \/ \E t \in Transfers : Credit(t)
         \/ \E t \in Transfers : /\ status[t] = "none"
                                 /\ status' = [status EXCEPT ![t] = "pending"]
                                 /\ UNCHANGED applied
         \/ \E k \in Ticks : markFailed(k)
<1>0. /\ Evm \subseteq Transfers /\ NonEvm \subseteq Transfers /\ Mined \subseteq Transfers
      /\ \A k \in Ticks : stage[k] # "list" => at[k] \in Evm
      /\ \A j \in Sweeps : sweepNew[j] = "credit" => sweepRow[j] \in NonEvm
  BY ZenonT(60) DEF Shapes, WorksOnRow, Transfers, Mined
<1>1. ASSUME NEW s \in Scanners, scannerStep(s)
      PROVE  \/ UNCHANGED <<status, applied>>
             \/ \E t \in Transfers : /\ status[t] = "none"
                                     /\ status' = [status EXCEPT ![t] = "pending"]
                                     /\ UNCHANGED applied
  BY ZenonT(60), <1>0, <1>1 DEF scannerStep, pollTick, pollTickEnds, processNextBlock,
     processAnnouncedBlock, readBlock, recordDeposit, recordDepositFails, finishBlock, rows, balance
<1>2. ASSUME NEW k \in Ticks, trackerStep(k)
      PROVE  \/ UNCHANGED <<status, applied>>
             \/ \E t \in Transfers : Credit(t)
             \/ markFailed(k)
  BY ZenonT(60), <1>0, <1>2 DEF trackerStep, tickStep, checkPendingDeposits, processChainDeposits,
     setConfirmations, receiptFound, receiptMissing, confirmDeposit, confirmDepositFails, rows, balance,
     Credit
<1>3. ASSUME NEW j \in Sweeps, sweepStep(j)
      PROVE  UNCHANGED <<status, applied>> \/ \E t \in Transfers : Credit(t)
  BY ZenonT(60), <1>0, <1>3 DEF sweepStep, fetchCurrentConfirmations,
     creditReadyDepositsForChain, setConfirmations, creditConfirmedDeposit, sweepFails, rows, balance,
     Credit
<1>4. ASSUME NEW t \in NonEvm, recordOrUpdateDeposit(t)
      PROVE  \/ UNCHANGED <<status, applied>>
             \/ /\ status[t] = "none" /\ status' = [status EXCEPT ![t] = "pending"]
                /\ UNCHANGED applied
  BY ZenonT(60), <1>4 DEF recordOrUpdateDeposit, balance
<1>5. CASE backendStep
  BY ZenonT(60), <1>0, <1>5 DEF backendStep, creditDepositIfConfirmed, markDepositFlagged,
     applyBalanceForOneCompletedDeposit, Credit
<1>6. CASE UNCHANGED rows
  BY ZenonT(60), <1>6 DEF rows, balance
<1> QED
  BY ZenonT(60), <1>0, <1>1, <1>2, <1>3, <1>4, <1>5, <1>6, ChainFrame, RestartFrame DEF Next

LEMMA CompletedStep ==
  ASSUME Shapes, FailsReverted, CreditedIsCompleted, [Next]_vars
  PROVE  CreditedIsCompleted'
<1>0. TypeRows
  BY ZenonT(60) DEF Shapes
<1>1. CASE UNCHANGED <<status, applied>>
  BY ZenonT(60), <1>1 DEF CreditedIsCompleted
<1>2. ASSUME NEW t \in Transfers, Credit(t) PROVE CreditedIsCompleted'
  BY ZenonT(60), <1>0, <1>2 DEF Credit, indexerCredits, backendCredits, applyBalance, TypeRows, CreditedIsCompleted
<1>3. ASSUME NEW t \in Transfers, status[t] = "none", status' = [status EXCEPT ![t] = "pending"],
             UNCHANGED applied
      PROVE  CreditedIsCompleted'
  BY ZenonT(60), <1>0, <1>3 DEF TypeRows, CreditedIsCompleted
<1>4. ASSUME NEW k \in Ticks, markFailed(k) PROVE CreditedIsCompleted'
  <2>1. at[k] \in Reverted
    BY ZenonT(60), <1>4 DEF markFailed, FailsReverted
  <2> QED
    BY ZenonT(60), <1>0, <1>4, <2>1 DEF markFailed, balance, TypeRows, CreditedIsCompleted
<1>5. CASE UNCHANGED vars
  BY ZenonT(60), <1>5 DEF vars, rows, balance, CreditedIsCompleted
<1> QED
  BY ZenonT(60), <1>1, <1>2, <1>3, <1>4, <1>5, StatusMoves

(* A deposit that was credited is completed and stays so, unless its        *)
(* transaction failed on the chain, for every instance.                     *)
THEOREM CreditedStaysCompleted ==
  Spec => []CreditedIsCompleted
<1>1. Init => FailsReverted /\ CreditedIsCompleted
  BY ZenonT(60) DEF Init, FailsReverted, CreditedIsCompleted
<1> QED
  BY <1>1, ShapesAlways, FailsRevertedStep, CompletedStep, PTL DEF Spec
=============================================================================
