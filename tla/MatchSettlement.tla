--------------------------- MODULE MatchSettlement ---------------------------
(***************************************************************************)
(* A fill's way from the matching engine into the ledger.  The engine      *)
(* gives every fill an event id and keeps it in its buffer of match events *)
(* (place_order); the order route, the poller and the pull after a place   *)
(* write fills to settlement_events (persistEngineMatchEvents); the        *)
(* settlement worker and the JetStream consumer settle the rows.           *)
(*                                                                         *)
(* Fills are numbered in the order the engine makes them.  A row of        *)
(* settlement_events is known by its engine_event_id, the table's unique   *)
(* key for one engine.  A caller is one call of applyInlineEngineEvents,   *)
(* syncEngineMatchesAfterPlace or pollOneEngine; its statements are        *)
(* separate actions, as it opens no transaction.  A settlement             *)
(* transaction holds its row's lock and is one action.  The settlement     *)
(* circuit, the trading halt and the pauses between a worker's ticks only  *)
(* keep settlement from happening; they are left out, which leaves more    *)
(* behaviours than the code has.                                           *)
(***************************************************************************)
EXTENDS Integers, FiniteSets

CONSTANTS
  MaxFills,            \* bound on the fills the engine makes
  MaxPerPlace,         \* bound on the fills of one placed order
  MaxEventId,          \* bound on engine_event_id
  Callers, Workers,
  ReassignAttempts,    \* the 3 attempts of the reassignment loop
  MaxRetries,          \* MAX_RETRIES
  UseEventStream,      \* USE_EVENT_STREAM
  MaxRestarts          \* bound on engine restarts

Fills == 1 .. MaxFills
EventIds == 1 .. MaxEventId
NoFill == 0
NoRow == 0

IsLeast(n, S) == n \in S /\ \A m \in S : n <= m
IsGreatest(n, S) == n \in S /\ \A m \in S : m <= n

ASSUME SettlementConstants ==
  /\ MaxFills \in Nat /\ MaxPerPlace \in Nat /\ MaxEventId \in Nat
  /\ ReassignAttempts \in Nat \ {0} /\ MaxRetries \in Nat \ {0}
  /\ UseEventStream \in BOOLEAN
  /\ MaxRestarts \in Nat

VARIABLES
  made, nextEventId,        \* fills made so far; next_event_id
  eventId,                  \* each fill's event id, 0 before it is made
  placing,                  \* the fills of each place call still appending
  buffer,                   \* match_events
  pc, batch, todo,          \* each caller: next statement, events, the rest
  after, attempt, nextId,   \* afterId; attempt and nextId of the reassignment
  cursor,                   \* settlement_engine_poll_cursor.last_after_id
  rowEvent, rowStatus, rowRetries,   \* settlement_events
  ledger,                   \* rows with entries in settlement_ledger_entries
  settled,                  \* how often each fill's balances were moved
  failRow, failKind,        \* each worker: the row it rolled back, and why
  restarts

engine == <<made, nextEventId, eventId, placing, buffer, restarts>>
callers == <<pc, batch, todo, after, attempt, nextId>>
rows == <<rowEvent, rowStatus, rowRetries>>
books == <<ledger, settled>>
workers == <<failRow, failKind>>
vars == <<engine, callers, cursor, rows, books, workers>>

PcValues == {"idle", "fetch", "rewind", "insert", "readMax", "reinsert"}

TypeOK ==
  /\ made \in 0 .. MaxFills /\ nextEventId \in 1 .. MaxEventId + 1
  /\ eventId \in [Fills -> 0 .. MaxEventId]
  /\ placing \subseteq SUBSET Fills
  /\ buffer \subseteq Fills
  /\ pc \in [Callers -> PcValues]
  /\ batch \in [Callers -> SUBSET Fills] /\ todo \in [Callers -> SUBSET Fills]
  /\ after \in [Callers -> 0 .. MaxEventId]
  /\ attempt \in [Callers -> Nat]
  /\ nextId \in [Callers -> 0 .. MaxEventId + 1]
  /\ cursor \in 0 .. MaxEventId
  /\ rowEvent \in [EventIds -> 0 .. MaxFills]
  /\ rowStatus \in [EventIds -> {"none", "pending", "processed", "failed"}]
  /\ rowRetries \in [EventIds -> Nat]
  /\ ledger \subseteq EventIds /\ settled \in [Fills -> Nat]
  /\ failRow \in [Workers -> 0 .. MaxEventId]
  /\ failKind \in [Workers -> {"none", "fatal", "retry"}]
  /\ restarts \in Nat

Init ==
  /\ made = 0 /\ nextEventId = 1 /\ eventId = [f \in Fills |-> 0]
  /\ placing = {} /\ buffer = {}
  /\ pc = [c \in Callers |-> "idle"]
  /\ batch = [c \in Callers |-> {}] /\ todo = [c \in Callers |-> {}]
  /\ after = [c \in Callers |-> 0] /\ attempt = [c \in Callers |-> 0]
  /\ nextId = [c \in Callers |-> 0]
  /\ cursor = 0
  /\ rowEvent = [i \in EventIds |-> NoFill]
  /\ rowStatus = [i \in EventIds |-> "none"]
  /\ rowRetries = [i \in EventIds |-> 0]
  /\ ledger = {} /\ settled = [f \in Fills |-> 0]
  /\ failRow = [w \in Workers |-> NoRow]
  /\ failKind = [w \in Workers |-> "none"]
  /\ restarts = 0

(***************************************************************************)
(* The engine.                                                             *)
(***************************************************************************)
\* Mutant: the counter is advanced by one too few.
place_order_reuses_last(k) ==
  LET F == made + 1 .. made + k IN
  /\ made + k <= MaxFills
  /\ nextEventId + k <= MaxEventId + 1
  /\ made' = made + k
  /\ nextEventId' = nextEventId + k - 1
  /\ eventId' = [f \in Fills |-> IF f \in F THEN nextEventId + (f - made - 1)
                                 ELSE eventId[f]]
  /\ placing' = placing \union {F}
  /\ UNCHANGED <<buffer, restarts, callers, cursor, rows,
                 books, workers>>

\* An order matches k resting orders; fetch_add takes k consecutive ids.
place_order(k) ==
  LET F == made + 1 .. made + k IN
  /\ made + k <= MaxFills
  /\ nextEventId + k <= MaxEventId + 1
  /\ made' = made + k
  /\ nextEventId' = nextEventId + k
  /\ eventId' = [f \in Fills |-> IF f \in F THEN nextEventId + (f - made - 1)
                                 ELSE eventId[f]]
  /\ placing' = placing \union {F}
  /\ UNCHANGED <<buffer, restarts, callers, cursor, rows,
                 books, workers>>

\* The write-ahead log refuses the batch: the book is left as it was, and the
\* ids are lost.
placeRefused(k) ==
  /\ UseEventStream
  /\ nextEventId + k <= MaxEventId + 1
  /\ nextEventId' = nextEventId + k
  /\ UNCHANGED <<made, eventId, placing, buffer, restarts, callers,
                 cursor, rows, books, workers>>

\* JetStream refuses one of the fills (synchronous publishing): the book is
\* left as it was, but the stream may have taken the others.
publishFails(F) ==
  /\ UseEventStream
  /\ F \in placing
  /\ F \intersect buffer = {}
  /\ placing' = placing \ {F}
  /\ UNCHANGED <<made, nextEventId, eventId, buffer, restarts, callers, cursor, rows, books, workers>>

idsInBuffer == {eventId[f] : f \in buffer}

\* The fills enter the buffer one by one, lowest id first; one whose id is
\* there already is dropped.
insert_match_event_sorted(F) ==
  /\ F \in placing
  /\ \E f \in F : /\ IsLeast(f, {g \in F : eventId[g] \notin idsInBuffer})
                  /\ buffer' = buffer \union {f}
  /\ UNCHANGED <<made, nextEventId, eventId, placing, restarts, callers, cursor, rows, books, workers>>

\* The engine dies and comes back with the id counter of its last snapshot or,
\* rebuilt from the API, with an earlier one, and with the fills in its buffer
\* that the write-ahead log holds unacknowledged, one for each id.
restart ==
  /\ restarts < MaxRestarts
  /\ restarts' = restarts + 1
  /\ nextEventId' \in 1 .. nextEventId
  /\ placing' = {}
  /\ buffer' \in {B \in SUBSET (1 .. made) :
                  /\ B = {} \/ UseEventStream
                  /\ \A f, g \in B : eventId[f] = eventId[g] => f = g}
  /\ UNCHANGED <<made, eventId, callers, cursor, rows, books,
                 workers>>

(***************************************************************************)
(* The callers: from the engine's events to rows.                          *)
(***************************************************************************)
\* applyInlineEngineEvents: the place returns its fills.  A response on its way
\* is one whose caller has not begun; one that is lost, one whose caller fails.
applyInlineEngineEvents(c, F) ==
  /\ pc[c] = "idle"
  /\ F \in placing
  /\ \A f \in F : eventId[f] \in idsInBuffer
  /\ placing' = placing \ {F}
  /\ pc' = [pc EXCEPT ![c] = "insert"]
  /\ batch' = [batch EXCEPT ![c] = F]
  /\ todo' = [todo EXCEPT ![c] = F]
  /\ UNCHANGED <<made, nextEventId, eventId, buffer, restarts, after, attempt,
                 nextId, cursor, rows, books, workers>>

\* pollOneEngine, syncEngineMatchesAfterPlace: read the cursor (the poller's
\* recovery anchor is 0, as nothing writes settlement_poller_cursor) ...
getPollCursorForEngine(c) ==
  /\ pc[c] = "idle"
  /\ pc' = [pc EXCEPT ![c] = "fetch"]
  /\ after' = [after EXCEPT ![c] = cursor]
  /\ UNCHANGED <<engine, batch, todo, attempt, nextId, cursor, rows,
                 books, workers>>

\* ... and fetch the events after it.  An engine whose last id is behind the
\* cursor has restarted.
fetchMatchesForEngine(c) ==
  LET events == {f \in buffer : eventId[f] > after[c]}
      behind == buffer # {} /\ \A f \in buffer : eventId[f] < after[c]
  IN
  /\ pc[c] = "fetch"
  /\ pc' = [pc EXCEPT ![c] = CASE events # {} -> "insert"
                               [] behind -> "rewind"
                               [] OTHER -> "idle"]
  /\ batch' = [batch EXCEPT ![c] = events]
  /\ todo' = [todo EXCEPT ![c] = events]
  /\ after' = [after EXCEPT ![c] = 0]
  /\ UNCHANGED <<engine, attempt, nextId, cursor, rows, books,
                 workers>>

\* The cursor is then set to 0, whatever it has become, and the fetch repeated.
reconcilePollCursorIfEngineBehind(c) ==
  /\ pc[c] = "rewind"
  /\ pc' = [pc EXCEPT ![c] = "fetch"]
  /\ cursor' = 0
  /\ UNCHANGED <<engine, batch, todo, after, attempt, nextId, rows,
                 books, workers>>

insertRow(i, f) ==
  /\ rowEvent' = [rowEvent EXCEPT ![i] = f]
  /\ rowStatus' = [rowStatus EXCEPT ![i] = "pending"]
  /\ UNCHANGED rowRetries

\* The next event of the loop over the batch, in the order of the ids (the
\* numbers only make the order total: the ids of a batch differ).
nextEvent(c, f) ==
  /\ f \in todo[c]
  /\ \A g \in todo[c] : \/ eventId[f] < eventId[g]
                        \/ eventId[f] = eventId[g] /\ f <= g

persisted(c, f) == todo' = [todo EXCEPT ![c] = @ \ {f}]

\* Mutant: a conflict is taken for a collision without isSameMatchEvent.
persistEvent_no_compare(c, f) ==
  LET i == eventId[f] IN
  /\ pc[c] = "insert"
  /\ nextEvent(c, f)
  /\ \/ /\ rowEvent[i] = NoFill
        /\ insertRow(i, f)
        /\ persisted(c, f)
        /\ UNCHANGED pc
     \/ /\ rowEvent[i] # NoFill
        /\ pc' = [pc EXCEPT ![c] = "readMax"]
        /\ UNCHANGED <<todo, rows>>
  /\ UNCHANGED <<engine, batch, after, attempt, nextId, cursor,
                 books, workers>>

\* INSERT ... ON CONFLICT DO NOTHING; on a conflict the row's payload, which
\* no statement ever changes, is compared with the event (isSameMatchEvent).
persistEvent(c, f) ==
  LET i == eventId[f] IN
  /\ pc[c] = "insert"
  /\ nextEvent(c, f)
  /\ \/ /\ rowEvent[i] = NoFill
        /\ insertRow(i, f)
        /\ persisted(c, f)
        /\ UNCHANGED pc
     \/ /\ rowEvent[i] = f
        /\ persisted(c, f)
        /\ UNCHANGED <<pc, rows>>
     \/ /\ rowEvent[i] \notin {NoFill, f}
        /\ pc' = [pc EXCEPT ![c] = "readMax"]
        /\ UNCHANGED <<todo, rows>>
  /\ UNCHANGED <<engine, batch, after, attempt, nextId, cursor,
                 books, workers>>

usedIds == {i \in EventIds : rowEvent[i] # NoFill}

\* SELECT COALESCE(MAX(engine_event_id), 0) + 1
readNextId(c) ==
  /\ pc[c] = "readMax"
  /\ pc' = [pc EXCEPT ![c] = "reinsert"]
  /\ \E last \in usedIds \union {0} :
       /\ IsGreatest(last, usedIds \union {0})
       /\ nextId' = [nextId EXCEPT ![c] = last + 1]
  /\ UNCHANGED <<engine, batch, todo, after, attempt, cursor, rows,
                 books, workers>>

\* Insert the event under the id just read.  A conflict uses up an attempt,
\* and after the last one the event is passed over.
reassignEvent(c, f) ==
  LET i == nextId[c] IN
  /\ pc[c] = "reinsert"
  /\ nextEvent(c, f)
  /\ i \in EventIds
  /\ \/ /\ rowEvent[i] = NoFill
        /\ insertRow(i, f)
        /\ persisted(c, f)
        /\ pc' = [pc EXCEPT ![c] = "insert"]
        /\ attempt' = [attempt EXCEPT ![c] = 0]
     \/ /\ rowEvent[i] # NoFill
        /\ attempt[c] + 1 < ReassignAttempts
        /\ attempt' = [attempt EXCEPT ![c] = @ + 1]
        /\ pc' = [pc EXCEPT ![c] = "readMax"]
        /\ UNCHANGED <<todo, rows>>
     \/ /\ rowEvent[i] # NoFill
        /\ attempt[c] + 1 >= ReassignAttempts
        /\ persisted(c, f)
        /\ pc' = [pc EXCEPT ![c] = "insert"]
        /\ attempt' = [attempt EXCEPT ![c] = 0]
        /\ UNCHANGED rows
  /\ nextId' = [nextId EXCEPT ![c] = 0]
  /\ UNCHANGED <<engine, batch, after, cursor, books, workers>>

\* Every event of the batch is dealt with: the cursor moves up to the last,
\* which lies beyond the cursor the batch was fetched with.
bumpPollCursorForEngine(c) ==
  /\ pc[c] = "insert"
  /\ todo[c] = {}
  /\ \E last \in {cursor} \union {eventId[f] : f \in batch[c]} :
       /\ IsGreatest(last, {cursor} \union {eventId[f] : f \in batch[c]})
       /\ cursor' = last
  /\ pc' = [pc EXCEPT ![c] = "idle"]
  /\ batch' = [batch EXCEPT ![c] = {}]
  /\ UNCHANGED <<engine, todo, after, attempt, nextId, rows, books,
                 workers>>

\* A statement fails.  persistEngineMatchEventsWithRetry begins the batch
\* again; after its last try, and in the poller, the call gives up.
persistFails(c) ==
  /\ pc[c] # "idle"
  /\ \/ /\ pc[c] \notin {"fetch", "rewind"}
        /\ pc' = [pc EXCEPT ![c] = "insert"]
        /\ todo' = [todo EXCEPT ![c] = batch[c]]
        /\ UNCHANGED <<batch, after>>
     \/ /\ pc' = [pc EXCEPT ![c] = "idle"]
        /\ batch' = [batch EXCEPT ![c] = {}]
        /\ todo' = [todo EXCEPT ![c] = {}]
        /\ after' = [after EXCEPT ![c] = 0]
  /\ attempt' = [attempt EXCEPT ![c] = 0]
  /\ nextId' = [nextId EXCEPT ![c] = 0]
  /\ UNCHANGED <<engine, cursor, rows, books, workers>>

(***************************************************************************)
(* Settlement.                                                             *)
(***************************************************************************)
\* Mutant: without the look for ledger entries.
processSettlementEventRow_no_guard(i, f) ==
  /\ rowStatus' = [rowStatus EXCEPT ![i] = "processed"]
  /\ ledger' = ledger \union {i}
  /\ settled' = [settled EXCEPT ![f] = @ + 1]

\* processSettlementEventRow: with ledger entries already there only the
\* status is set; otherwise balances move and the entries are written.
processSettlementEventRow(i, f) ==
  /\ rowStatus' = [rowStatus EXCEPT ![i] = "processed"]
  /\ ledger' = ledger \union {i}
  /\ settled' = IF i \in ledger THEN settled
                ELSE [settled EXCEPT ![f] = @ + 1]

\* The rows processOneEvent may claim; SKIP LOCKED lets it pass over the
\* oldest, so any of them may be next.
claimable == {i \in EventIds : rowStatus[i] = "pending"
                               /\ rowRetries[i] < MaxRetries}

\* processOneEvent: claim a row, settle it, commit.
processOneEvent(w, i) ==
  /\ failRow[w] = NoRow
  /\ i \in claimable
  /\ processSettlementEventRow(i, rowEvent[i])
  /\ UNCHANGED <<engine, callers, cursor, rowEvent, rowRetries,
                 failRow, failKind>>

\* The transaction fails and is rolled back, which frees the row.
processFails(w, i, kind) ==
  /\ failRow[w] = NoRow
  /\ i \in claimable
  /\ failRow' = [failRow EXCEPT ![w] = i]
  /\ failKind' = [failKind EXCEPT ![w] = kind]
  /\ UNCHANGED <<engine, callers, cursor, rows, books>>

\* What follows runs outside any transaction, whatever the row has become.
\* An error that may pass adds one to retry_count ...
countRetry(w) ==
  LET i == failRow[w]
      last == rowRetries[i] + 1 >= MaxRetries
  IN
  /\ failKind[w] = "retry"
  /\ rowRetries' = [rowRetries EXCEPT ![i] = @ + 1]
  /\ failRow' = [failRow EXCEPT ![w] = IF last THEN i ELSE NoRow]
  /\ failKind' = [failKind EXCEPT ![w] = IF last THEN "fatal" ELSE "none"]
  /\ UNCHANGED <<engine, callers, cursor, rowEvent, rowStatus,
                 books>>

\* ... and a fatal one, or the last try, marks the row failed.
markFailed(w) ==
  /\ failKind[w] = "fatal"
  /\ rowStatus' = [rowStatus EXCEPT ![failRow[w]] = "failed"]
  /\ failRow' = [failRow EXCEPT ![w] = NoRow]
  /\ failKind' = [failKind EXCEPT ![w] = "none"]
  /\ UNCHANGED <<engine, callers, cursor, rowEvent, rowRetries,
                 books>>

\* A message of the stream: insert unless the id is taken, and settle the row
\* that is there.  JetStream delivers a message again until it sees the
\* acknowledgement, and an operator may replay a dead letter; a publisher
\* that gives up, and a consumer that fails, leave everything as it was.  So
\* each fill may be delivered at any time, any number of times, or never.
ingestAndSettleMatchEvent(f) ==
  LET i == eventId[f]
      g == IF rowEvent[i] = NoFill THEN f ELSE rowEvent[i]
  IN
  /\ UseEventStream
  /\ rowStatus[i] \in {"none", "pending"}
  /\ rowEvent' = [rowEvent EXCEPT ![i] = g]
  /\ processSettlementEventRow(i, g)
  /\ UNCHANGED <<engine, callers, cursor, rowRetries, workers>>

(***************************************************************************)
(* The operator.                                                           *)
(***************************************************************************)
\* job settlement_worker, action replay_failed: a failed row is pending
\* again, its retry_count as it was.  A call that picks several rows is
\* several steps.
replay_failed(i) ==
  /\ rowStatus[i] = "failed"
  /\ rowStatus' = [rowStatus EXCEPT ![i] = "pending"]
  /\ UNCHANGED <<engine, callers, cursor, rowEvent, rowRetries,
                 books, workers>>

Engine ==
  \/ \E k \in 1 .. MaxPerPlace : place_order(k) \/ placeRefused(k)
  \/ \E F \in placing : publishFails(F) \/ insert_match_event_sorted(F)
  \/ restart

Caller(c) ==
  \/ \E F \in placing : applyInlineEngineEvents(c, F)
  \/ getPollCursorForEngine(c) \/ fetchMatchesForEngine(c)
  \/ reconcilePollCursorIfEngineBehind(c)
  \/ \E f \in todo[c] : persistEvent(c, f) \/ reassignEvent(c, f)
  \/ readNextId(c)
  \/ bumpPollCursorForEngine(c) \/ persistFails(c)

Worker(w) ==
  \/ \E i \in EventIds : processOneEvent(w, i)
                         \/ processFails(w, i, "fatal")
                         \/ processFails(w, i, "retry")
  \/ countRetry(w) \/ markFailed(w)

Stream == \E f \in 1 .. made : ingestAndSettleMatchEvent(f)

Next ==
  \/ Engine
  \/ \E c \in Callers : Caller(c)
  \/ \E w \in Workers : Worker(w)
  \/ Stream
  \/ \E i \in EventIds : replay_failed(i)

Spec == Init /\ [][Next]_vars

------------------------------------------------------------------------------
\* A fill that holds the row of its own event id is settled at most once:
\* whatever the callers insert again, a late failure update overwrites, the
\* operator replays or the stream delivers again, the balances of the two
\* orders move once.
SettledOnceInOwnRow ==
  \A f \in 1 .. made : rowEvent[eventId[f]] = f => settled[f] <= 1

\* The ledger agrees with the rows.  A processed row has its ledger entries,
\* and a fill's balances moved exactly once for each of its rows that has
\* them, also when a failed row with entries is replayed.
LedgerMatchesRows ==
  /\ \A i \in EventIds : rowStatus[i] = "processed" => i \in ledger
  /\ \A f \in Fills :
       settled[f] = Cardinality({i \in ledger : rowEvent[i] = f})

\* Every fill is settled at most once.  The inserts' ON CONFLICT DO NOTHING
\* and the worker's replay guard are there for this.
SettledOnce == \A f \in Fills : settled[f] <= 1

\* As long as the engine has not been restarted it is, whatever is inserted,
\* retried, replayed or delivered twice: no two fills share an event id.
SettledOnceUntilRestart == restarts = 0 => SettledOnce

\* What the proofs of the above rest on.  Nothing refers to a fill that has
\* not been made, and a made fill has an event id.
Links ==
  /\ \A F \in placing : F \subseteq 1 .. made
  /\ buffer \subseteq 1 .. made
  /\ \A c \in Callers : todo[c] \union batch[c] \subseteq 1 .. made
  /\ \A f \in 1 .. made : eventId[f] \in EventIds
  /\ \A i \in EventIds : rowEvent[i] \in 0 .. made

\* Only existing rows have a status or ledger entries, or are being failed.
RowsExist ==
  /\ \A i \in EventIds : rowEvent[i] = NoFill <=> rowStatus[i] = "none"
  /\ \A i \in ledger : rowEvent[i] # NoFill
  /\ \A w \in Workers : failRow[w] = NoRow <=> failKind[w] = "none"
  /\ \A w \in Workers : failRow[w] # NoRow => rowEvent[failRow[w]] # NoFill

\* A fill that holds the row of its id holds no other, and a caller that is
\* reassigning an event found that row in another fill's hands.
OwnRows ==
  /\ \A i \in EventIds, f \in 1 .. made :
       rowEvent[i] = f => \/ eventId[f] = i
                          \/ rowEvent[eventId[f]] \notin {NoFill, f}
  /\ \A c \in Callers, f \in 1 .. made :
       pc[c] \in {"readMax", "reinsert"} /\ nextEvent(c, f)
         => rowEvent[eventId[f]] \notin {NoFill, f}

\* Before the first restart ids are unique and every row is its fill's own.
FirstLife ==
  restarts = 0 =>
    /\ \A f \in 1 .. made : eventId[f] < nextEventId
    /\ \A f, g \in 1 .. made : eventId[f] = eventId[g] => f = g
    /\ \A i \in EventIds, f \in 1 .. made : rowEvent[i] = f => eventId[f] = i

\* The inductive invariant: references, rows, the fills' own rows, the time
\* before the first restart and the ledger, together.
SettlementInv ==
  TypeOK /\ Links /\ RowsExist /\ OwnRows /\ FirstLife /\ LedgerMatchesRows
==============================================================================
