# Verification of the exchange

TLA+ models of the parts of the exchange that move or promise money, TLC runs
that check them on small instances, and TLAPS proofs of the main results for
every value of the constants. `PROJECT.json` lists components, runs, mutants,
findings, hazards and theorems, and maps each definition to the source lines it
stands for.

## The system and its models

The exchange is a Fastify backend (`src/apps/backend`) on Postgres and Redis, a
matching engine in Rust (`src/matching-engine`), a deposit indexer
(`src/apps/indexer`) and Next.js frontends. An order goes from the backend's
place route to the engine; the engine's matches come back by polling or through
JetStream and are settled in Postgres. Deposits come in through the indexer,
withdrawals leave through the signing queue, P2P trades hold crypto in escrow,
and sensitive admin actions pass through approvals.

| Module | What it models | Source |
|---|---|---|
| `P2PEscrow` | ads, orders, escrow, disputes, freeze, expiry and SLA workers | `p2p.service.ts`, `p2p-expiry.service.ts`, `p2p-sla-worker.service.ts`, `operator-controls.service.ts` |
| `EscrowContract` | what the escrow promises, without ads, rows, workers | abstract specification |
| `Withdrawals` | balance lock, approval, signing queue, broadcast, refund | `wallet.fastify.ts`, `withdrawal-approval.service.ts`, `withdrawal-signing.service.ts` |
| `OrderBook` | one market's book and `match_orders` | `orderbook.rs`, `engine.rs` |
| `EngineJournal` | journal, publisher, snapshot, crash and start of the engine | `engine.rs`, `main.rs`, `wal.rs`, `publish_pipeline.rs`, `persistence.rs`, `recovery.rs` |
| `MatchSettlement` | a fill from the engine's buffer to the ledger | `match-event-persistence.service.ts`, the poller, `settlement-worker.ts`, the stream consumer |
| `SpotOrders` | placing, cancelling, triggering, settling and replaying one user's orders | `spot.fastify.ts`, the trigger job, the start-up replay, settlement of fills |
| `Deposits` | EVM indexer, confirmation tracker, Bitcoin indexer, backend credit | `ChainIndexer.ts`, `ConfirmationTracker.ts`, `nonEvmDepositFlow.ts`, `deposit-credit.service.ts` |
| `AdminApprovals` | maker-checker requests and their execution | `admin-approval.service.ts`, `maker-checker-execute.service.ts`, `admin.fastify.ts` |

`MC...` modules hold the instances TLC checks, `...Proofs` modules the theorems.
`UnitSums` defines the sum of a column as the size of a set of units, which
needs no recursion; the proof modules that need its lemmas begin with them.

Variables are named after the column, field or Redis key they stand for, and
actions after the function. A database transaction, a single statement outside
one, a call to an external system, and each stretch of code under a mutex are
one step; every `await` between two of them is a step boundary. A transaction
that throws rolls back, so an early throw is a guard. Definitions with a suffix
such as `_KeepsLock`, or marked "Mutant", are mutated forms used to test the
properties; no specification uses them.

## How the models meet

`OrderBook` says which fills a placement makes, `EngineJournal` how they survive
the engine's crashes, `MatchSettlement` how each gets into the ledger once, and
`SpotOrders` that the user's lock pays for them. The interfaces are abstracted
on both sides: in `EngineJournal` a placement makes any new fills; in `MatchSettlement` a restart brings back any counter and any
buffer of made fills when the stream is used; in `SpotOrders` the engine fills
what it has at any price within the limit. `AdminApprovals` ends where
`Withdrawals` begins: the approved withdrawal and its call of
`enqueueWithdrawal`.

## The models in detail

### P2PEscrow

Each order owns one escrow row, so escrow columns are indexed by the order. A
user has two balance rows of the token, its chain's and the chain-less one.
`moveToEscrow` debits the chain's row when it covers the amount and the
chain-less one otherwise; release and refund look for the escrow on the
chain-less row only. `updateAd` reads and writes in two statements and is two actions; its race with
an order is in the model and no property forbids it.

- An escrow debited on the chain's row can therefore be neither released nor
  refunded. `PayableSlaOrderEnds` says that this and a freeze are the only reasons
  for which an overdue paid order stays.
- `ExpiryStatus = "payment_pending"` is the status the worker's comment names.
  The code's constant is `awaiting_payment`, with which the worker is idle; the
  passing run therefore has more behaviours than the code as written, and
  `p2p_expiry_status` shows what the constant does to liveness.
- Rows are taken to have the shape the queries ask for
  (`p2p-orders.integration.test.ts:115-127` mixes snake and camel case).

`EscrowContract` is the abstract specification: a deal is held once and settled
once, in full, to one party. `KeepsContract` is the refinement, with a user's
two rows mapped to one sum of spendable funds and the order's escrow status to
the state of the deal. It is checked by TLC and proved.

### Withdrawals

One user's account. A worker is one call of `processSigningQueue`; the server
starts one every five seconds without waiting for the last, so workers overlap.
The claim takes any claimable row (`SKIP LOCKED`). `treasury_stage` and audit
rows are written and never read here. The user's cancel route and the e-mail
OTP route change no status a request can have, and `retry_failed` resets rows
the claim then refuses, so none of them is an action. The caps, the signer and
the lookup of a chain may fail at every attempt. With overlapping passes and
crashes much of what one would like to say is false (see below); the properties
are what is left: the accounts, no rejected withdrawal sent, no debit without a
transaction, the stored transaction of whatever was sent, and an end of retries.

### OrderBook

Each order is placed once. The loop of `match_orders` is one step per match
under the market's mutex. `created_at` comes from the API node in seconds, so
orders may arrive in any order of it. The price `None` of a market order is 0,
the value `match_orders` falls back to, so two market orders would trade at zero
if they met; the model has this.

### EngineJournal

One market. The book is the set of match events whose fills its remaining
quantities reflect; orders and quantities are `OrderBook`'s. `mode` is the
configuration: journal and publish later, journal and publish at once, or publish
at once without a journal. A journal file is what a
scan makes of it: the last `evt` line of each id, and the ids that have an `ack`
line. A failed write leaves any part of its lines in the file and the rest in
the `BufWriter`. JetStream accepts an event or drops it for a known id, and its
answer may be lost. `place` may lose its client while it queues the events. The
snapshot reads orders, applied ids and next id in separate steps (the last read
and the rename are one). A start compacts the journal, loads the snapshot or the
API's open orders (which reflect any of the fills that were sent, with the next
id 1), applies the unacknowledged fills whose ids it does not know as applied and
republishes them. `apply_match_fill` may refuse a fill, which ends the start;
when it does depends on the orders, so it is left open.

Left out: the modes without the stream and without both journal and synchronous
publishing (they promise nothing across a crash), the passive replica, which
refuses orders, and `ENGINE_WAL_COMPACT_ON_START=false`, under which an old
`ack` line hides a later fill with the same id (`wal.rs:127` says "no later
`ack`"; the scan ignores the order of the lines).

### MatchSettlement

A row of `settlement_events` is known by its `engine_event_id`. Where the code
only delays, the model allows more: the settlement circuit, the trading halt and
the worker's ticks are left out; the stream delivers any made fill at any time,
any number of times or never; a lost response is a caller that fails; the
claim takes any claimable row; `replay_failed` works row by row. A refused
placement burns its ids, a failing publish may have sent part of its fills, and
an insert whose id is present is dropped. `settlement_poller_cursor` is never
written by the code that recovery reads, so the anchor stays 0.

### SpotOrders

One user's orders that lock one currency in one market, under the unified
schema. The available bucket, fees, validation, OCO groups and the reserve-only
`POST /orders` are left out. `held` is a history variable: what was locked on
behalf of an order and not given up. `loose` is one too: orders released, or
sent again, while the engine or a settlement still had them (a lost answer, a
cancel computed from an old row, a second trigger, a replay), or replayed for
more than the row leaves open. The replayed remainder is a difference of two
floats, so it may be off by a unit either way. The properties are about the other
orders; for loose ones the code promises nothing. A buy that
fills below its limit keeps the surplus locked, which the model shows in `held`.

### Deposits

One head stands for both chains. Scanners, tracker ticks and sweeps are
processes that may overlap. `Histories` are the transfers of a behaviour.
`SELECT` with `getBlockNumber`, `getBlock` with `getLogs`, and the reads of
`recordOrUpdateDeposit` are merged where nothing else can be seen in between.
`lost`, `skipped` and `announced` are history variables. `lastType` is there
because `last_block` is a BIGINT, which the driver reads as a string. The
migration swallows a failure to install the CHECK constraint, so it is a constant
(`CheckInstalled`) and no theorem depends on it. The tracker takes the oldest
`PageSize` pending rows; `older` is the order of `created_at`. The indexer credits
an amount as stored, the backend without its decimals beyond the eighth: amounts
are counted in a small unit, `Grain` is the unit of the eighth decimal, and `cut`
are the deposits the backend rounded. Left out: `pending_balance` and the
operator's pause.

### AdminApprovals

Maker-checker is on, so the direct routes refuse. A call is a process with a
copy of the row it read. The role policy is the constant `Checkers`. Attempt
counters, `treasury_stage` and audit rows are left out. `consent` and `forced`
record what was really decided; `disturbed` holds the requests on which two
calls overlapped, or whose `action_executed = TRUE` was lost to a failing
statement or a stop of the process.

## Runs

Each cfg is an instance of one `MC` module; the "about" text of a run in
`PROJECT.json` says what it shows.

| Run | Instance | Checks |
|---|---|---|
| `p2p_escrow` | 2 users, 1 ad, 2 orders, amounts up to 2 | escrow and balance accounts, ad liquidity, refunds of paid orders only out of disputes, freeze, refinement of `EscrowContract`, the SLA worker's liveness |
| `p2p_expiry_status` | the same, the constant as written | violation: no overdue order ends |
| `withdrawals` | 2 withdrawals, 2 passes, crashes, expiring locks, both balance rows | funds conserved, rejected never sent, only sent ones debited, what was sent is stored, retries end |
| `withdrawals_refund_after_send` | 1 withdrawal, 1 pass, failing checks | violation: a sent withdrawal is refunded |
| `order_book` | 3 orders, 2 users, 2 prices, 2 seconds | uncrossed, units accounted for, fair trades, price-time priority |
| `match_settlement` | 2 fills, 3 ids, 2 callers, 1 worker, 1 restart | settled once, ledger agrees with the rows |
| `spot_orders` | 2 orders of 3 portfolios, 1 cancel, 2 triggers, 1 restart | lock backs exposure, no overfill, open sells locked, finished sells hold nothing |
| `deposits` | 5 histories, head 2 or 3, 2 scanners, 2 ticks, a page of 1 row, 1 reorganisation, 1 restart | credited once, credited stays completed, polled ones stay, none missed, recorded ones are credited |
| `deposits_unverified` | the same | violation: a failed transaction is credited |
| `admin_approvals` | 1 request of each kind, 3 admins, 2 calls | quorum behind each effect, executed means done, an undisturbed request runs once |
| `engine_journal` | 3 fills, 2 calls, 2 ids, 2 crashes | a fill in the book is kept, synchronous publishing serves only published fills |
| `engine_journal_snapshot` | 2 fills, 2 calls, 1 crash | violation: a snapshot's ids are ahead of its orders |

`CHECK_DEADLOCK FALSE` is used where the bounded sets of orders, ids, calls or
crashes run out. `deposits` checks deadlock: its ticks never stop.

### Bounds

Two of everything that can race is the least with which two actors meet. Three
orders make a taker walk over two makers. Confirmations of 1 and a head of 2 are
enough for a reorganisation before, at and after the confirmation; a head of 3
gives two scanners blocks to overtake each other on. One restart
or crash is followed by the whole of the recovery; `engine_journal` has two, so
that it also happens during the recovery. Bounds are guards with a named
constant, or the state constraints `RoomToReassign` (an id is left for a
collision), `OneRowFails` (failures of different rows do not meet),
`SomeOrderFirm` (else the properties say nothing), `OneKindOfFault` (a
restart, a second trigger, or failing placements), `RoundsUpOne` and
`FilledAtWorst` (only the larger order's remainder is rounded up, only the limit
buy is filled below its limit) and those of `MCDeposits`, which keep
apart the overlap of scanners, the overlap of ticks and the shared page.
`RequestedInOrder` names the withdrawals in the order of their requests. A larger
instance passed as well: `MatchSettlement` without `OneRowFails` (2,069,725
states).

### Fairness

- `P2PEscrow`: weak fairness of the two workers on each order. `server.ts` runs
  them on intervals and they retry what is left. Users and admins owe nothing.
- `Withdrawals`: weak fairness of each pass, which a five-second timer starts,
  and of the lock's expiry, which Redis owes.
- `Deposits`: weak fairness of new blocks, of the timer that starts ticks and of
  the steps of each tick; strong
  fairness of finding the receipt and of the credit transaction, since each may
  fail, but a node that has the transaction does not fail for ever.

## Disagreements with comments and documents

The four violation runs: the expiry worker's status against its comment; the
refund of a withdrawal whose broadcast was accepted; the credit of a transaction
before its receipt is known; the applied ids of a snapshot taken while a placement
commits. Each finding quotes both sides.

Some statements of the repository are false in the models and are not listed as
runs. They can be reproduced by the change named.

- `P2PEscrow`: `PayableSlaOrderEnds` without its last disjunct. An escrow debited
  on the chain's row is never paid out.
- `Withdrawals`: that one pass signs a withdrawal. A pass that cannot take the
  lock requeues the row of a pass still broadcasting
  (`withdrawal-signing.service.ts:331`: "never double-sign").
- `Withdrawals`: that every queued withdrawal ends, and that every lock belongs to
  an open one. A crash leaves a queue row in `signing`, which no pass claims, or a
  failed withdrawal whose refund nothing resumes.
- `SpotOrders`: the properties without the exception for loose orders.
- `MatchSettlement`: that every fill is settled once, with restarts and without
  the stream. The engine reuses ids, and collisions get new rows
  (`match-event-persistence.service.ts:98`).
- `EngineJournal`: both properties without their exception for ids given
  twice. A replay does not advance `next_event_id`, a rebuild starts it at 1.
- `EngineJournal`: a crash between a journal line and the next snapshot can
  leave a fill no start can apply; the engine then exits at each start.
- A flagged deposit is credited by the next tick, and a block announced by the
  WebSocket moves the cursor over blocks the poll has not scanned.
- `updateAd` can make a cancelled ad active again (`p2p.service.ts:363`).

## Proofs

Every theorem is for all values of the constants under the named assumption of
its module (`P2PConstants`, `WithdrawalConstants`, ...): finite sets of rows,
positive bounds, distinct null values. The step proofs have one case for each
action. The types are part of the inductive invariants, and so are most of the
invariants the runs check.

| Module | Inductive invariant | Why the properties alone are not inductive |
|---|---|---|
| `P2PEscrowProofs` | `IndInv` | a release pays what the row says: the accounts need the links between ad, order and escrow rows |
| `WithdrawalsProofs` | `SafetyInv`, `StoredLinks` | a pass acts on what it did some steps ago: `QueueLinks` ties its step to the rows, `StoredLinks` to the stored transaction |
| `OrderBookProofs` | `BookInv` | while an order is matched, what rests must not cross what it has left; `WalkOrder` says how far it came |
| `MatchSettlementProofs` | `SettlementInv` | callers hold batches and ids from older reads; `Links`, `OwnRows` and `FirstLife` say which row a fill can own |
| `DepositsProofs` | `Shapes`, `ScanInv` | a scanner is in the middle of a block and a tick in the middle of a row when others write |
| `AdminApprovalsProofs` | `ApprovalInv`, `SerialInv` | a stale copy of a row is as well backed as the row, so whoever writes last is justified; on an undisturbed request one call at most works, and its copy is the row |
| `EngineJournalProofs` | `JournalInv`, `SyncInv` | acknowledgements are only for published ids and compaction drops only acknowledged lines; with synchronous publishing the book, a snapshot and what a call is about to commit hold published fills only |
| `SpotOrdersProofs` | `SpotInv` | a cancel or a replay acts on a row it read earlier: `CallersOK` says what such a read is worth, `RowOK` and `LockOK` tie the status, the fills and the lock of each order together |

`SpotInv` is
about any finite set of orders of one user that lock the same currency, so that
either all of them are sells or none is, and any quantities, prices and bounds.
Sums over orders are taken apart into the orders a step touches and the rest; the
balance of the sells is then the sum of what is held for each. `KeepsContract` is proved step by step: every action
of `P2PEscrow` is a step of `EscrowContract` or leaves its variables alone.

A leaf names its prover: Zenon where the facts combine without arithmetic, and
otherwise SMT followed by Z3. They are the same solver. The second is there
because tlapm gives the translation of a leaf a few seconds of real time, and late
in a long module the first attempt can run out of them; the second then succeeds.
The longest modules take about a quarter of an hour.

Three theorems say that what has ended stays ended: `EndedOrderIsFinal` (a P2P
order and its escrow), `EndedFirmOrderIsFinal` (a spot order that is not loose)
and `CreditedIsCompleted` (a credited deposit whose transaction did not fail),
the last of which a run checks too. Each needs the inductive invariant of its
module, because the late actor, be it a dispute, a settlement or a tick, must be
known to work on something that has not ended; `CreditedIsCompleted` also needs
that a tick fails only rows with a failed receipt (`FailsReverted`).

The inductive invariants are not listed among the properties of the runs,
because the proofs establish them for every instance; TLC checked each one before
it was proved, and can again when its name is added to the cfg.

Every safety invariant and action property the passing runs check is proved as
well. Only model-checked are the liveness properties (`PayableSlaOrderEnds`,
`RetriesEnd`, `RecordedIsCredited`): fairness and ENABLED are out of the prover's
reach.

## Not modelled

`PROJECT.json` names every part with its status. In short: frontends, market
data, authentication, KYC and risk checks, reports and scripts either move no
money or only refuse requests. Internal transfers and conversions are one
database transaction each. The ledger's hash chain, reconciliation and audits
read what the modelled parts wrote. The legacy in-database matching runs only
with the engine switched off. The withdrawal request's idempotency key, the
escrow cap for a seller without rows, and the hash chain's fork under two
settlements are known races that the models leave out.
