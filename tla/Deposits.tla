------------------------------ MODULE Deposits ------------------------------
(***************************************************************************)
(* One user's deposits of one currency, from the chain to the balance.     *)
(* The EVM indexer scans blocks and records transfers (ChainIndexer); the  *)
(* confirmation tracker counts confirmations, checks the receipt and       *)
(* credits (ConfirmationTracker); the Bitcoin indexer records and credits  *)
(* by polling addresses (nonEvmDepositFlow); the backend credits what the  *)
(* deposits table shows as confirmed whenever the user opens the deposit   *)
(* history, and repairs completed rows that were never applied             *)
(* (deposit-credit.service).  All of them share the deposits table.        *)
(*                                                                         *)
(* A transfer stands for its key (chain_id, tx_hash, to_address).  Block   *)
(* numbers count from the indexer's first start.  Both chains advance with *)
(* one head.  Timers may start a new tick before the last one has ended,   *)
(* so ticks are processes; every await between two statements is a step    *)
(* boundary, and a database transaction is one step.  pending_balance,     *)
(* which only the user interface reads, is left out; the operator's pause  *)
(* of the backend's credits is a credit that does not happen.              *)
(***************************************************************************)
EXTENDS Integers, FiniteSets, UnitSums

CONSTANTS
  Evm, NonEvm,      \* transfers to the user's EVM and Bitcoin addresses
  Legacy,           \* rows completed before balance_applied_at existed
  Histories,        \* sets of transfers made together, and the blocks mined
  Reverted,         \* EVM transfers whose transaction fails on chain
  Amount,           \* each transfer's amount, in the chain's smallest unit
  Grain,            \* the last decimal of AMOUNT_PRECISION, in that unit
  Confirmations,    \* config.confirmations, stored in every EVM row
  Required,         \* required_confirmations of the Bitcoin rows
  Scanners,         \* poll ticks and block handlers of the EVM indexer
  CheckInstalled,   \* the migration added the CHECK constraint, or skipped it
  PageSize,         \* LIMIT of the tracker's query
  Ticks,            \* ticks of the confirmation tracker
  Sweeps,           \* ticks of the Bitcoin indexer
  MaxHead,          \* bound on the blocks of a history
  MaxReorgs, ReorgDepth,   \* bounds on the reorganisations and their depth
  MaxRestarts,      \* bound on restarts of the indexer
  NoTransfer        \* no row

Mined == Evm \union NonEvm
Transfers == Mined \union Legacy

ASSUME DepositConstants ==
  /\ IsFiniteSet(Transfers)
  /\ Evm \intersect NonEvm = {} /\ Legacy \intersect Mined = {}
  /\ Histories \subseteq [made : SUBSET Transfers, blocks : 0 .. MaxHead]
  /\ Reverted \subseteq Evm /\ NoTransfer \notin Transfers
  /\ Amount \in [Transfers -> Nat] /\ Grain \in Nat \ {0}
  /\ CheckInstalled \in BOOLEAN /\ PageSize \in Nat \ {0}
  /\ Confirmations \in Nat \ {0} /\ Required \in Nat \ {0}
  /\ MaxHead \in Nat /\ MaxReorgs \in Nat /\ MaxRestarts \in Nat
  /\ ReorgDepth \in 0 .. Confirmations

VARIABLES
  head, tip,            \* the chain's height, and the highest it has been
  where,                \* the block a transfer is in, 0: none, -1: never made
  blocks,               \* bound: the chain's length in this history
  last, saved,          \* lastProcessedBlock and indexer_state.last_block
  lastType,             \* typeof lastProcessedBlock: a BIGINT is read as a string
  target,               \* each poll tick's target, 0: no tick
  scanning, found,      \* the block a scanner works on, its transfers to record
  status, block, conf, flagged, applied,   \* the deposits table
  older,                \* by created_at: the rows before each row
  totalDeposited,       \* user_balances.total_deposited
  listed, current,      \* each tracker tick: its rows to come and currentBlock
  at, stage,            \* the row it works on, and how far it is
  sweepRow, sweepConf, sweepNew,   \* each sweep: row, confirmations, changed
  reorgs, restarts,
  cut,                  \* history: deposits credited without their last decimals,
  lost,                 \*   transfers whose recording failed,
  skipped,              \*   blocks jumped over or scanned near the head,
  announced             \*   transfers found near the head

chain == <<head, tip, where, blocks, reorgs>>
history == <<lost, skipped, announced>>
indexer == <<last, saved, lastType, target, scanning, found, restarts, history>>
balance == <<flagged, applied, totalDeposited, cut>>
rows == <<status, block, conf, older, balance>>
tracker == <<listed, current, at, stage>>
sweeper == <<sweepRow, sweepConf, sweepNew>>
vars == <<chain, indexer, rows, tracker, sweeper>>

Heights == 0 .. MaxHead

TypeOK ==
  /\ head \in Heights /\ tip \in Heights /\ blocks \in Heights
  /\ where \in [Mined -> Heights \union {-1}]
  /\ last \in Heights /\ saved \in Heights /\ lastType \in {"number", "string"}
  /\ target \in [Scanners -> Heights] /\ scanning \in [Scanners -> Heights]
  /\ found \in [Scanners -> SUBSET Evm]
  /\ status \in [Transfers -> {"none", "pending", "completed", "failed"}]
  /\ block \in [Transfers -> Heights]
  /\ conf \in [Transfers -> Int]
  /\ flagged \subseteq Transfers /\ applied \subseteq Transfers
  /\ older \in [Transfers -> SUBSET Transfers]
  /\ totalDeposited \in Nat /\ cut \subseteq applied
  /\ listed \in [Ticks -> SUBSET Evm] /\ current \in [Ticks -> Heights]
  /\ at \in [Ticks -> Evm \union {NoTransfer}]
  /\ stage \in [Ticks -> {"list", "receipt", "fail", "credit"}]
  /\ sweepRow \in [Sweeps -> NonEvm \union {NoTransfer}]
  /\ sweepConf \in [Sweeps -> Nat]
  /\ sweepNew \in [Sweeps -> {"changed", "same", "credit"}]
  /\ reorgs \in Nat /\ restarts \in Nat
  /\ lost \subseteq Evm /\ skipped \subseteq Heights /\ announced \subseteq Evm

Init ==
  /\ head = 0 /\ tip = 0
  /\ \E H \in Histories :
       /\ where = [t \in Mined |-> IF t \in H.made THEN 0 ELSE -1]
       /\ status = [t \in Transfers |-> IF t \in H.made \intersect Legacy THEN "completed"
                                       ELSE "none"]
       /\ blocks = H.blocks
  /\ last = 0 /\ saved = 0 /\ lastType = "number"
  /\ target = [s \in Scanners |-> 0] /\ scanning = [s \in Scanners |-> 0]
  /\ found = [s \in Scanners |-> {}]
  /\ block = [t \in Transfers |-> 0]
  /\ conf = [t \in Transfers |-> IF t \in Legacy THEN Confirmations ELSE 0]
  /\ flagged = {} /\ applied = {} /\ totalDeposited = 0 /\ cut = {}
  /\ older = [t \in Transfers |-> {}]
  /\ listed = [k \in Ticks |-> {}] /\ current = [k \in Ticks |-> 0]
  /\ at = [k \in Ticks |-> NoTransfer] /\ stage = [k \in Ticks |-> "list"]
  /\ sweepRow = [j \in Sweeps |-> NoTransfer]
  /\ sweepConf = [j \in Sweeps |-> 0] /\ sweepNew = [j \in Sweeps |-> "same"]
  /\ reorgs = 0 /\ restarts = 0
  /\ lost = {} /\ skipped = {} /\ announced = {}

AtLeast(m, n) == IF m >= n THEN m ELSE n

(***************************************************************************)
(* The chain: blocks are mined; a reorganisation takes back the blocks     *)
(* above h, and their transfers may be mined again or never.               *)
(***************************************************************************)
mine(S) ==
  /\ head < blocks
  /\ \A t \in S : where[t] = 0
  /\ head' = head + 1
  /\ tip' = AtLeast(tip, head + 1)
  /\ where' = [t \in Mined |-> IF t \in S THEN head + 1 ELSE where[t]]
  /\ UNCHANGED <<blocks, reorgs, indexer, rows, tracker, sweeper>>

reorg(h) ==
  /\ reorgs < MaxReorgs
  /\ h < head /\ tip - h <= ReorgDepth
  /\ head' = h
  /\ where' = [t \in Mined |-> IF where[t] > h THEN 0 ELSE where[t]]
  /\ reorgs' = reorgs + 1
  /\ UNCHANGED <<tip, blocks, indexer, rows, tracker, sweeper>>

(***************************************************************************)
(* The EVM indexer.  A poll tick first writes the heartbeat, which moves   *)
(* last_block up to the tick's target, and then scans block after block.   *)
(***************************************************************************)
\* Mutant: the poll scans up to the head.
pollTarget_head == head

pollTarget == AtLeast(0, head - Confirmations)

pollTick(s) ==
  /\ target[s] = 0 /\ scanning[s] = 0
  /\ target' = [target EXCEPT ![s] = pollTarget]
  /\ saved' = AtLeast(saved, AtLeast(last, pollTarget))
  /\ UNCHANGED <<chain, last, lastType, scanning, found, restarts, history, rows,
                 tracker, sweeper>>

\* The tick ends at its target, at MAX_PER_TICK blocks or at an error.
pollTickEnds(s) ==
  /\ target[s] > 0 /\ scanning[s] = 0
  /\ target' = [target EXCEPT ![s] = 0]
  /\ UNCHANGED <<chain, last, saved, lastType, scanning, found, restarts, history,
                 rows, tracker, sweeper>>

\* processBlock: getBlock's watched transfers and the token transfers of getLogs.
readBlock(s, n) ==
  /\ scanning[s] = 0
  /\ last < n /\ n <= head
  /\ scanning' = [scanning EXCEPT ![s] = n]
  /\ found' = [found EXCEPT ![s] = {t \in Evm : where[t] = n}]
  /\ UNCHANGED <<chain, last, saved, lastType, target, restarts, lost, announced,
                 rows, tracker, sweeper>>

\* On a string, last + 1 appends a digit, which the node takes for no block.
processNextBlock(s) ==
  /\ last < target[s] /\ lastType = "number"
  /\ readBlock(s, last + 1)
  /\ UNCHANGED skipped

\* A new head announced by the WebSocket is processed at once; the poll will
\* not go back to it, nor to the blocks before it.
processAnnouncedBlock(s) ==
  /\ target[s] = 0
  /\ readBlock(s, head)
  /\ skipped' = skipped \union (last + 1 .. head)

\* The rows of the deposits table.
Rows == {t \in Transfers : status[t] # "none"}

recordDeposit(s, t) ==
  /\ t \in found[s]
  /\ found' = [found EXCEPT ![s] = @ \ {t}]
  /\ IF status[t] = "none"
     THEN /\ status' = [status EXCEPT ![t] = "pending"]
          /\ block' = [block EXCEPT ![t] = scanning[s]]
          /\ conf' = [conf EXCEPT ![t] = 0]
          /\ older' = [older EXCEPT ![t] = Rows]
          /\ announced' = IF target[s] = 0 THEN announced \union {t} ELSE announced
     ELSE UNCHANGED <<status, block, conf, older, announced>>
  /\ UNCHANGED <<chain, last, saved, lastType, target, scanning, restarts, lost,
                 skipped, balance, tracker, sweeper>>

\* The error is logged and the block counts as processed all the same.
recordDepositFails(s, t) ==
  /\ t \in found[s]
  /\ found' = [found EXCEPT ![s] = @ \ {t}]
  /\ lost' = lost \union {t}
  /\ UNCHANGED <<chain, last, saved, lastType, target, scanning, restarts, skipped,
                 announced, rows, tracker, sweeper>>

\* Mutant: the cursor is counted up, not set to the block.
finishBlock_counts(s) ==
  /\ scanning[s] > 0 /\ found[s] = {}
  /\ last' = last + 1 /\ lastType' = "number"
  /\ saved' \in {saved, scanning[s]}
  /\ scanning' = [scanning EXCEPT ![s] = 0]
  /\ UNCHANGED <<chain, target, found, restarts, history, rows, tracker, sweeper>>

\* The write of updateLastProcessedBlock may fail, which is only logged.
finishBlock(s) ==
  /\ scanning[s] > 0 /\ found[s] = {}
  /\ last' = scanning[s] /\ lastType' = "number"
  /\ saved' \in {saved, scanning[s]}
  /\ scanning' = [scanning EXCEPT ![s] = 0]
  /\ UNCHANGED <<chain, target, found, restarts, history, rows, tracker, sweeper>>

\* A restart reads last_block, as a string, or takes the head when the read fails.
loadLastProcessedBlock ==
  /\ restarts < MaxRestarts
  /\ restarts' = restarts + 1
  /\ \/ last' = saved /\ lastType' = "string"
     \/ last' = head /\ lastType' = "number"
  /\ skipped' = skipped \union (last + 1 .. last')
  /\ target' = [s \in Scanners |-> 0] /\ scanning' = [s \in Scanners |-> 0]
  /\ found' = [s \in Scanners |-> {}]
  /\ listed' = [k \in Ticks |-> {}] /\ current' = [k \in Ticks |-> 0]
  /\ at' = [k \in Ticks |-> NoTransfer] /\ stage' = [k \in Ticks |-> "list"]
  /\ sweepRow' = [j \in Sweeps |-> NoTransfer]
  /\ sweepConf' = [j \in Sweeps |-> 0] /\ sweepNew' = [j \in Sweeps |-> "same"]
  /\ UNCHANGED <<chain, saved, lost, announced, rows>>

(***************************************************************************)
(* The deposits table.                                                     *)
(***************************************************************************)
required_confirmations(t) == IF t \in NonEvm THEN Required ELSE Confirmations

\* The CHECK constraint on a row of status st with c confirmations.
deposits_completed_requires_confirmations(t, st, c) ==
  CheckInstalled /\ st = "completed" => c >= required_confirmations(t)

setConfirmations(t, c) ==
  /\ conf' = [conf EXCEPT ![t] = c]
  /\ UNCHANGED <<status, block, older, balance>>

\* Mutant: the UPDATE does not ask for balance_applied_at IS NULL.
applyBalance_again(t, amount) ==
  /\ deposits_completed_requires_confirmations(t, "completed", conf[t])
  /\ status' = [status EXCEPT ![t] = "completed"]
  /\ applied' = applied \union {t}
  /\ totalDeposited' = totalDeposited + amount
  /\ UNCHANGED <<block, conf, older, flagged>>

\* The transaction that completes the row and credits the balance; it is
\* rolled back for a row already applied or when the constraint refuses it.
applyBalance(t, amount) ==
  /\ t \notin applied
  /\ deposits_completed_requires_confirmations(t, "completed", conf[t])
  /\ status' = [status EXCEPT ![t] = "completed"]
  /\ applied' = applied \union {t}
  /\ totalDeposited' = totalDeposited + amount
  /\ UNCHANGED <<block, conf, older, flagged>>

\* The indexer credits the amount of the row.
indexerCredits(t) ==
  /\ applyBalance(t, Amount[t])
  /\ UNCHANGED cut

\* The backend rounds it down to AMOUNT_PRECISION decimals, which the column and
\* the indexer do not.
toDecimalPlaces(t) == Amount[t] - (Amount[t] % Grain)

backendCredits(t) ==
  /\ applyBalance(t, toDecimalPlaces(t))
  /\ cut' = cut \union {t}

(***************************************************************************)
(* The confirmation tracker.  Its rows are the oldest pending ones of all  *)
(* chains; those of chains without a provider are passed over.             *)
(***************************************************************************)
Pending == {t \in Transfers : status[t] = "pending"}

\* ORDER BY created_at LIMIT: fewer than PageSize pending rows are older.
InPage(t) == Cardinality(older[t] \intersect Pending) < PageSize

\* A tick that finds no rows of the chain ends at once.
checkPendingDeposits(k) ==
  LET page == {t \in Evm \intersect Pending : InPage(t)} IN
  /\ listed[k] = {} /\ at[k] = NoTransfer
  /\ page # {}
  /\ listed' = [listed EXCEPT ![k] = page]
  /\ current' = [current EXCEPT ![k] = head]
  /\ UNCHANGED <<chain, indexer, rows, at, stage, sweeper>>

nextRow(k) ==
  /\ at' = [at EXCEPT ![k] = NoTransfer]
  /\ stage' = [stage EXCEPT ![k] = "list"]
  /\ UNCHANGED <<listed, current>>

\* The rows in their order.  A refused UPDATE ends the tick's work on the chain.
processChainDeposits(k, t) ==
  LET confirmations == current[k] - block[t] IN
  /\ at[k] = NoTransfer /\ t \in listed[k]
  /\ older[t] \intersect listed[k] = {}
  /\ UNCHANGED <<chain, indexer, sweeper>>
  /\ \/ /\ deposits_completed_requires_confirmations(t, status[t], confirmations)
        /\ setConfirmations(t, confirmations)
        /\ listed' = [listed EXCEPT ![k] = @ \ {t}]
        /\ IF confirmations >= required_confirmations(t)
           THEN /\ at' = [at EXCEPT ![k] = t]
                /\ stage' = [stage EXCEPT ![k] = "receipt"]
           ELSE UNCHANGED <<at, stage>>
     \/ /\ ~ deposits_completed_requires_confirmations(t, status[t], confirmations)
        /\ listed' = [listed EXCEPT ![k] = {}]
        /\ UNCHANGED <<at, stage, rows>>
  /\ current' = [current EXCEPT ![k] = IF listed'[k] = {} THEN 0 ELSE @]

\* getTransactionReceipt: the transaction succeeded or it failed.
receiptFound(k) ==
  /\ stage[k] = "receipt"
  /\ where[at[k]] > 0
  /\ stage' = [stage EXCEPT ![k] = IF at[k] \in Reverted THEN "fail" ELSE "credit"]
  /\ UNCHANGED <<chain, indexer, rows, listed, current, at, sweeper>>

\* Mutant: a missing receipt marks the row failed.
receiptMissing_fails(k) ==
  /\ stage[k] = "receipt"
  /\ status' = [status EXCEPT ![at[k]] = "failed"]
  /\ nextRow(k)
  /\ UNCHANGED <<chain, indexer, block, conf, older, balance, sweeper>>

\* No receipt, or an RPC error: the row stays pending for the next tick.
receiptMissing(k) ==
  /\ stage[k] = "receipt"
  /\ nextRow(k)
  /\ UNCHANGED <<chain, indexer, rows, sweeper>>

markFailed(k) ==
  /\ stage[k] = "fail"
  /\ status' = [status EXCEPT ![at[k]] = "failed"]
  /\ nextRow(k)
  /\ UNCHANGED <<chain, indexer, block, conf, older, balance, sweeper>>

confirmDeposit(k) ==
  /\ stage[k] = "credit"
  /\ indexerCredits(at[k])
  /\ nextRow(k)
  /\ UNCHANGED <<chain, indexer, sweeper>>

\* The row is applied already, or the transaction fails and is rolled back.
confirmDepositFails(k) ==
  /\ stage[k] = "credit"
  /\ nextRow(k)
  /\ UNCHANGED <<chain, indexer, rows, sweeper>>

(***************************************************************************)
(* The backend, on the user's requests.                                    *)
(***************************************************************************)
\* An amount below the last decimal is left alone, for ever pending here.
overdue(t) ==
  /\ status[t] = "pending" /\ t \notin flagged /\ t \notin applied
  /\ conf[t] >= required_confirmations(t)
  /\ toDecimalPlaces(t) > 0

creditDepositIfConfirmed(t) ==
  /\ overdue(t)
  /\ backendCredits(t)
  /\ UNCHANGED <<chain, indexer, tracker, sweeper>>

\* The sanctions check refuses; the row stays pending.
markDepositFlagged(t) ==
  /\ overdue(t)
  /\ flagged' = flagged \union {t}
  /\ UNCHANGED <<chain, indexer, status, block, conf, older, applied, totalDeposited,
                 cut, tracker, sweeper>>

\* An amount below the last decimal is marked as applied and credits nothing.
applyBalanceForOneCompletedDeposit(t) ==
  /\ status[t] = "completed" /\ Amount[t] > 0
  /\ backendCredits(t)
  /\ UNCHANGED <<chain, indexer, tracker, sweeper>>

(***************************************************************************)
(* The Bitcoin indexer: every tick records the transfers of the watched    *)
(* addresses, also unconfirmed ones, and sweeps the pending rows.          *)
(***************************************************************************)
onChainConfirmations(t) == IF where[t] = 0 THEN 0 ELSE head - where[t] + 1

recordOrUpdateDeposit(t) ==
  /\ where[t] >= 0
  /\ \/ /\ status[t] = "none"
        /\ status' = [status EXCEPT ![t] = "pending"]
        /\ block' = [block EXCEPT ![t] = where[t]]
        /\ older' = [older EXCEPT ![t] = Rows]
     \/ /\ status[t] = "pending" /\ onChainConfirmations(t) > conf[t]
        /\ UNCHANGED <<status, block, older>>
  /\ conf' = [conf EXCEPT ![t] = onChainConfirmations(t)]
  /\ UNCHANGED <<chain, indexer, balance, tracker, sweeper>>

\* The sweep's row and the confirmations fetched for it.
fetchCurrentConfirmations(j, t) ==
  /\ sweepRow[j] = NoTransfer
  /\ status[t] = "pending" /\ t \notin applied
  /\ sweepRow' = [sweepRow EXCEPT ![j] = t]
  /\ sweepConf' = [sweepConf EXCEPT ![j] = onChainConfirmations(t)]
  /\ sweepNew' = [sweepNew EXCEPT ![j] =
                    IF onChainConfirmations(t) = conf[t] THEN "same" ELSE "changed"]
  /\ UNCHANGED <<chain, indexer, rows, tracker>>

sweepEnds(j) ==
  /\ sweepRow' = [sweepRow EXCEPT ![j] = NoTransfer]
  /\ sweepConf' = [sweepConf EXCEPT ![j] = 0]
  /\ sweepNew' = [sweepNew EXCEPT ![j] = "same"]

\* Confirmations that changed are written; a refused UPDATE ends the sweep.
creditReadyDepositsForChain(j) ==
  LET t == sweepRow[j] IN
  /\ t # NoTransfer /\ sweepNew[j] # "credit"
  /\ \/ /\ sweepNew[j] = "same" /\ UNCHANGED rows
     \/ /\ sweepNew[j] = "changed"
        /\ deposits_completed_requires_confirmations(t, status[t], sweepConf[j])
        /\ setConfirmations(t, sweepConf[j])
  /\ IF sweepConf[j] >= required_confirmations(t)
     THEN /\ sweepNew' = [sweepNew EXCEPT ![j] = "credit"]
          /\ UNCHANGED <<sweepRow, sweepConf>>
     ELSE sweepEnds(j)
  /\ UNCHANGED <<chain, indexer, tracker>>

creditConfirmedDeposit(j) ==
  /\ sweepNew[j] = "credit"
  /\ indexerCredits(sweepRow[j])
  /\ sweepEnds(j)
  /\ UNCHANGED <<chain, indexer, tracker>>

\* An UPDATE is refused, the row is applied already, or a query fails.
sweepFails(j) ==
  /\ sweepRow[j] # NoTransfer
  /\ sweepEnds(j)
  /\ UNCHANGED <<chain, indexer, rows, tracker>>

scannerStep(s) ==
  \/ pollTick(s) \/ pollTickEnds(s)
  \/ processNextBlock(s) \/ processAnnouncedBlock(s)
  \/ \E t \in Evm : recordDeposit(s, t) \/ recordDepositFails(s, t)
  \/ finishBlock(s)

tickStep(k) ==
  \/ \E t \in Evm : processChainDeposits(k, t)
  \/ receiptFound(k) \/ receiptMissing(k)
  \/ markFailed(k) \/ confirmDeposit(k) \/ confirmDepositFails(k)

trackerStep(k) == checkPendingDeposits(k) \/ tickStep(k)

tickStarts == \E k \in Ticks : checkPendingDeposits(k)

sweepStep(j) ==
  \/ \E t \in NonEvm : fetchCurrentConfirmations(j, t)
  \/ creditReadyDepositsForChain(j)
  \/ creditConfirmedDeposit(j) \/ sweepFails(j)

backendStep ==
  \/ \E t \in Mined : creditDepositIfConfirmed(t) \/ markDepositFlagged(t)
  \/ \E t \in Transfers : applyBalanceForOneCompletedDeposit(t)

grow == \E S \in SUBSET Mined : mine(S)

Next ==
  \/ grow
  \/ \E h \in Heights : reorg(h)
  \/ \E s \in Scanners : scannerStep(s)
  \/ \E k \in Ticks : trackerStep(k)
  \/ \E j \in Sweeps : sweepStep(j)
  \/ \E t \in NonEvm : recordOrUpdateDeposit(t)
  \/ backendStep
  \/ loadLastProcessedBlock

\* The chain grows, the tracker's timer goes on, its ticks go on, and neither
\* the RPC node nor the database fails every time.
Fairness ==
  /\ WF_vars(grow) /\ WF_vars(tickStarts)
  /\ \A k \in Ticks :
       /\ WF_vars(tickStep(k))
       /\ SF_vars(receiptFound(k))
       /\ SF_vars(confirmDeposit(k))

Spec == Init /\ [][Next]_vars /\ Fairness

(***************************************************************************)
(* Properties.                                                             *)
(***************************************************************************)

\* total_deposited is the sum of the applied deposits, less the decimals that
\* the backend cuts off: whichever of the tracker's overlapping ticks, the
\* Bitcoin sweep, the user's requests and the repair race for a deposit, one of
\* them credits it.  (An applied deposit below the last decimal was not credited
\* at all when it was the repair that applied it.)
EachDepositCreditedOnce ==
  totalDeposited + SumOf([t \in Transfers |-> Amount[t] % Grain], cut) = SumOf(Amount, applied)

\* A credited deposit is completed and stays so, unless its transaction failed:
\* a tick marks failed only what it read a failed receipt for, whoever credits
\* the row in the meantime.
CreditedIsCompleted == \A t \in applied \ Reverted : status[t] = "completed"

\* The poll scans only blocks as deep as the confirmations: a reorganisation
\* no deeper leaves every deposit it recorded in the block that its
\* confirmations are counted from.
PolledDepositStaysInItsBlock ==
  \A t \in Evm \ announced : status[t] # "none" => where[t] = block[t]

\* A transfer in a block up to lastProcessedBlock is recorded, however the
\* poll ticks overlap, unless its recording failed, a restart jumped over the
\* block, or the WebSocket announced the block or a later one first.
ScannedTransferIsRecorded ==
  \A t \in Evm : where[t] \in 1 .. last =>
    status[t] # "none" \/ t \in lost \/ where[t] \in skipped

\* "First verify the transaction on blockchain before confirming"
\* (ConfirmationTracker): no deposit is credited whose transaction failed.
CreditedTransactionSucceeded == applied \intersect Reverted = {}

\* A deposit that the poll recorded and whose transaction succeeded is
\* credited or flagged in the end, as long as the tracker's page reaches it: a
\* missing receipt, an RPC error or a failed transaction leaves the row to the
\* next tick.
RecordedIsCredited ==
  \A t \in Evm \ Reverted :
    (status[t] = "pending" /\ t \notin announced)
      ~> (t \in applied \union flagged \/ ~InPage(t))
=============================================================================
