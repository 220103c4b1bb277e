---------------------------- MODULE EngineJournal ----------------------------
(***************************************************************************)
(* How the matching engine keeps its fills across a crash: the write-ahead *)
(* journal (wal.rs), the publisher to JetStream (publish_pipeline.rs), the *)
(* periodic snapshot (persistence.rs) and the start-up that puts them      *)
(* together (main.rs, recovery.rs), for one market.                        *)
(*                                                                         *)
(* Which orders an order matches is the subject of OrderBook; here a       *)
(* placement makes any new fills, and the book is the set of the events    *)
(* whose fills its remaining quantities reflect.  A placement that matches *)
(* nothing and a cancel leave that set alone.  A match event is a pair of  *)
(* an event id and a fill.  `mode' is how the engine is configured:        *)
(* journal and publish later, journal and publish at once, or publish at   *)
(* once without a journal.  The journal file is what a scan makes of it:   *)
(* the last evt line of each id and the ids with an ack line.  A statement *)
(* on the file, a publish and a change to the engine's memory are steps of *)
(* their own; a crash loses the memory.                                    *)
(***************************************************************************)
EXTENDS Integers, FiniteSets

CONSTANTS
  Fills,               \* the fills that matching makes, each of them once
  Calls,               \* place requests in progress at the same time
  Modes,               \* the configurations to consider
  MaxEventId,          \* bound on event ids
  MaxCrashes,          \* bound on crashes
  NoFill, NoSnapshot

EventIds == 1 .. MaxEventId
Events == EventIds \X Fills

Snapshots ==
  [orders : SUBSET Events, applied : SUBSET EventIds, next : 1 .. MaxEventId + 1]

ASSUME JournalConstants ==
  /\ IsFiniteSet(Fills)
  /\ Modes \subseteq {"journal", "journal_sync", "sync"}
  /\ MaxEventId \in Nat /\ MaxCrashes \in Nat
  /\ NoFill \notin Fills
  /\ NoSnapshot \notin Snapshots

VARIABLES
  mode, phase,          \* the configuration; "down", "starting" or "up"
  book,                 \* the events the remaining quantities reflect
  nextEventId,          \* next_event_id
  applied,              \* book_applied_match_event_ids
  call,                 \* the place requests in progress
  evt, acked,           \* the journal: evt line of each id, ids with an ack line
  unwritten,            \* events and acks left in the writer's buffer
  queue, unacked,       \* the publisher: events to publish, published to ack
  stream,               \* the events JetStream has accepted
  saving, snapshot,     \* the snapshot being taken, and the one on disk
  crashes,
  given, committed      \* history: events given out, events taken into the book

engine == <<book, nextEventId, applied>>
journal == <<evt, acked, unwritten>>
publisher == <<queue, unacked, stream>>
snapshots == <<saving, snapshot>>
vars == <<mode, phase, engine, call, journal, publisher, snapshots,
          crashes, given, committed>>

NoCall == [at |-> "idle", events |-> {}, todo |-> {}]
CallStates ==
  [at : {"idle", "append", "publish", "ack", "commit", "record", "enqueue"},
   events : SUBSET Events, todo : SUBSET Events]

NotSaving == [at |-> "idle", orders |-> {}, applied |-> {}]
Nothing == [events |-> {}, acks |-> {}]

EventTypes ==
  /\ call \in [Calls -> CallStates]
  /\ evt \in [EventIds -> Fills \union {NoFill}] /\ acked \subseteq EventIds
  /\ unwritten \in [events : SUBSET Events, acks : SUBSET EventIds]
  /\ queue \subseteq Events /\ unacked \subseteq Events /\ stream \subseteq Events
  /\ given \subseteq Events /\ committed \subseteq Events
  /\ nextEventId \in 1 .. MaxEventId + 1
  /\ snapshot # NoSnapshot => snapshot.next \in 1 .. MaxEventId + 1

TypeOK ==
  /\ EventTypes
  /\ mode \in Modes /\ phase \in {"down", "starting", "up"}
  /\ book \subseteq Events
  /\ applied \subseteq EventIds
  /\ saving \in [at : {"idle", "orders", "ids"}, orders : SUBSET Events,
                 applied : SUBSET EventIds]
  /\ snapshot \in Snapshots \union {NoSnapshot}
  /\ crashes \in Nat

Init ==
  /\ mode \in Modes /\ phase = "up"
  /\ book = {}
  /\ nextEventId = 1 /\ applied = {}
  /\ call = [c \in Calls |-> NoCall]
  /\ evt = [i \in EventIds |-> NoFill] /\ acked = {} /\ unwritten = Nothing
  /\ queue = {} /\ unacked = {} /\ stream = {}
  /\ saving = NotSaving /\ snapshot = NoSnapshot
  /\ crashes = 0
  /\ given = {} /\ committed = {}

IdsOf(E) == {e[1] : e \in E}
FillsOf(E) == {e[2] : e \in E}

\* A call holds the market's mutex from matching to the commit of the book.
MutexFree == \A c \in Calls : call[c].at \in {"idle", "record", "enqueue"}

-----------------------------------------------------------------------------
(* Placing an order.                                                       *)

\* What match_orders may return, when it matches: fills no earlier match made.
match_orders == {F \in SUBSET (Fills \ FillsOf(given)) : F # {}}

place(c) ==
  /\ phase = "up" /\ MutexFree /\ call[c].at = "idle"
  /\ \E F \in match_orders :
       LET n == Cardinality(F)
           ids == nextEventId .. nextEventId + n - 1
       IN /\ nextEventId + n <= MaxEventId + 1
          /\ nextEventId' = nextEventId + n
          /\ \E id \in [F -> ids] :
               LET events == {<<id[f], f>> : f \in F}
               IN /\ \A f, g \in F : id[f] = id[g] => f = g
                  /\ given' = given \union events
                  /\ call' = [call EXCEPT ![c] =
                       [at |-> IF mode = "sync" THEN "publish" ELSE "append",
                        events |-> events, todo |-> events]]
  /\ UNCHANGED <<mode, phase, book, applied, journal, publisher, snapshots, crashes, committed>>

goes(c, stage) ==
  call' = [call EXCEPT ![c].at = stage, ![c].todo = call[c].events]

refused(c) == call' = [call EXCEPT ![c] = NoCall]

\* The next event of a loop in the order of the ids.
nextOf(e, E) == e \in E /\ \A d \in E : e[1] <= d[1]

-----------------------------------------------------------------------------
(* The journal.  A write that fails leaves its lines in the file or in the *)
(* writer's buffer, from where the next write takes them along.            *)

evtLines(E) ==
  [i \in EventIds |-> IF \E f \in Fills : <<i, f>> \in E
                      THEN CHOOSE f \in Fills : <<i, f>> \in E ELSE evt[i]]

write(E, A) ==
  /\ evt' = evtLines(unwritten.events \union E)
  /\ acked' = acked \union unwritten.acks \union A
  /\ unwritten' = Nothing

writeFails(E, A) ==
  LET events == unwritten.events \union E
      acks == unwritten.acks \union A
  IN \E D \in SUBSET events, B \in SUBSET acks :
       /\ evt' = evtLines(D) /\ acked' = acked \union B
       /\ unwritten' = [events |-> events \ D, acks |-> acks \ B]

append_events_batch(c) ==
  /\ call[c].at = "append"
  /\ \/ /\ write(call[c].events, {})
        /\ goes(c, IF mode = "journal" THEN "commit" ELSE "publish")
     \/ writeFails(call[c].events, {}) /\ refused(c)
  /\ UNCHANGED <<mode, phase, engine, publisher, snapshots, crashes, given, committed>>

-----------------------------------------------------------------------------
(* Publishing.  JetStream drops a message whose id it knows, and its       *)
(* answer may be lost.                                                     *)

accepts(e) ==
  \/ stream' = stream \union {e}
  \/ (\E d \in stream : d[1] = e[1]) /\ UNCHANGED stream

publish_partitioned_sync(c, e) ==
  /\ call[c].at = "publish" /\ nextOf(e, call[c].todo)
  /\ \/ /\ accepts(e)
        /\ IF call[c].todo # {e} THEN call' = [call EXCEPT ![c].todo = @ \ {e}]
           ELSE goes(c, IF mode = "sync" THEN "commit" ELSE "ack")
     \/ (accepts(e) \/ UNCHANGED stream) /\ refused(c)
  /\ UNCHANGED <<mode, phase, engine, journal, queue, unacked, snapshots,
                 crashes, given, committed>>

append_ack(c, e) ==
  /\ call[c].at = "ack" /\ nextOf(e, call[c].todo)
  /\ \/ /\ write({}, {e[1]})
        /\ IF call[c].todo # {e} THEN call' = [call EXCEPT ![c].todo = @ \ {e}]
           ELSE goes(c, "commit")
     \/ writeFails({}, {e[1]}) /\ refused(c)
  /\ UNCHANGED <<mode, phase, engine, publisher, snapshots, crashes, given, committed>>

\* *book = trial, and the mutex is released.
commitBook(c) ==
  /\ call[c].at = "commit"
  /\ book' = book \union call[c].events
  /\ committed' = committed \union call[c].events
  /\ goes(c, "record")
  /\ UNCHANGED <<mode, phase, nextEventId, applied, journal, publisher, snapshots,
                 crashes, given>>

record_book_applied_for_event_ids(c) ==
  /\ call[c].at = "record"
  /\ applied' = applied \union IdsOf(call[c].events)
  /\ IF mode = "journal" THEN goes(c, "enqueue") ELSE refused(c)
  /\ UNCHANGED <<mode, phase, book, nextEventId, journal, publisher,
                 snapshots, crashes, given, committed>>

\* One event after the other, up to the last or until the client is gone.
enqueue(c) ==
  /\ call[c].at = "enqueue"
  /\ \E last \in {0} \union IdsOf(call[c].events) :
       queue' = queue \union {e \in call[c].events : e[1] <= last}
  /\ refused(c)
  /\ UNCHANGED <<mode, phase, engine, journal, unacked, stream, snapshots,
                 crashes, given, committed>>

\* Mutant: a start goes on when the stream refuses a replayed event.
publish_one_with_retry_goes_on(e) ==
  /\ phase # "down" /\ e \in queue
  /\ queue' = queue \ {e}
  /\ \/ accepts(e) /\ unacked' = unacked \union {e}
     \/ (accepts(e) \/ UNCHANGED stream) /\ UNCHANGED unacked
  /\ UNCHANGED <<mode, phase, engine, call, journal, snapshots, crashes, given, committed>>

\* Gives up after its retries; at start-up with ENGINE_STREAM_SYNC_PUBLISH the
\* engine then exits.
publish_one_with_retry(e) ==
  /\ phase # "down" /\ e \in queue
  /\ queue' = queue \ {e}
  /\ \/ accepts(e) /\ unacked' = unacked \union {e} /\ UNCHANGED phase
     \/ /\ accepts(e) \/ UNCHANGED stream
        /\ phase' = IF phase = "starting" THEN "down" ELSE phase
        /\ UNCHANGED unacked
  /\ UNCHANGED <<mode, engine, call, journal, snapshots, crashes, given, committed>>

ackPublished(e) ==
  /\ phase # "down" /\ e \in unacked
  /\ unacked' = unacked \ {e}
  /\ \/ write({}, {e[1]}) /\ UNCHANGED phase
     \/ /\ writeFails({}, {e[1]})
        /\ phase' = IF phase = "starting" THEN "down" ELSE phase
  /\ UNCHANGED <<mode, engine, call, queue, stream, snapshots, crashes, given, committed>>

-----------------------------------------------------------------------------
(* The snapshot: orders, applied ids and next id, read one after another.  *)

collect_all_orders ==
  /\ phase = "up" /\ MutexFree /\ saving.at = "idle"
  /\ saving' = [at |-> "orders", orders |-> book, applied |-> {}]
  /\ UNCHANGED <<mode, phase, engine, call, journal, publisher, snapshot,
                 crashes, given, committed>>

book_applied_match_ids_snapshot ==
  /\ phase = "up" /\ saving.at = "orders"
  /\ saving' = [saving EXCEPT !.at = "ids", !.applied = applied]
  /\ UNCHANGED <<mode, phase, engine, call, journal, publisher, snapshot,
                 crashes, given, committed>>

save_snapshot_to_path ==
  /\ phase = "up" /\ saving.at = "ids"
  /\ snapshot' = [orders |-> saving.orders, applied |-> saving.applied,
                  next |-> nextEventId]
  /\ saving' = NotSaving
  /\ UNCHANGED <<mode, phase, engine, call, journal, publisher,
                 crashes, given, committed>>

-----------------------------------------------------------------------------
(* Crash and start.                                                        *)

crash ==
  /\ phase # "down" /\ crashes < MaxCrashes
  /\ phase' = "down" /\ crashes' = crashes + 1
  /\ call' = [c \in Calls |-> NoCall]
  /\ unwritten' = Nothing
  /\ queue' = {} /\ unacked' = {} /\ saving' = NotSaving
  /\ UNCHANGED <<mode, engine, evt, acked, stream, snapshot, given, committed>>

scan_unacked_for_engine ==
  {<<i, evt[i]>> : i \in {j \in EventIds : evt[j] # NoFill /\ j \notin acked}}

\* Mutant: the new file is empty.
compact_journal_keeps_nothing ==
  /\ evt' = [i \in EventIds |-> NoFill]
  /\ acked' = {}

\* As by default (ENGINE_WAL_COMPACT_ON_START).
compact_journal_keep_unacked_only ==
  /\ evt' = [i \in EventIds |-> IF i \in acked THEN NoFill ELSE evt[i]]
  /\ acked' = {}

\* A new process, with an empty queue and an empty buffer.  The events whose ids are
\* not among `ids' are applied to the book one by one; it exits when apply_match_fill
\* refuses one, which is up to the orders in the book.
start(orders, next, ids) ==
  LET pending == scan_unacked_for_engine
      toApply == {e \in pending : e[1] \notin ids}
  IN /\ compact_journal_keep_unacked_only
     /\ \/ /\ book' = orders \union toApply
           /\ committed' = committed \union toApply
           /\ nextEventId' = next
           /\ applied' = ids \union IdsOf(toApply)
           /\ queue' = pending
           /\ phase' = IF mode = "journal_sync" THEN "starting" ELSE "up"
        \/ /\ toApply # {}
           /\ queue' = {} /\ UNCHANGED <<engine, phase, committed>>
     /\ unacked' = {} /\ unwritten' = Nothing
     /\ UNCHANGED <<mode, call, stream, snapshots, crashes, given>>

load_snapshot_from_path ==
  /\ phase = "down" /\ snapshot # NoSnapshot
  /\ start(snapshot.orders, snapshot.next, snapshot.applied)

\* The open orders of the API's table, which settlement may have brought up to date
\* with any event of the stream or of an answer of the engine, and the table's
\* last_engine_event_id, which nothing moves from 0.
rebuild_orderbook_from_backend ==
  /\ phase = "down" /\ snapshot = NoSnapshot
  /\ \E settled \in SUBSET (committed \union stream) : start(settled, 1, {})

\* With ENGINE_STREAM_SYNC_PUBLISH every replayed event is published and acked
\* before the engine serves.
serve ==
  /\ phase = "starting" /\ queue = {} /\ unacked = {}
  /\ phase' = "up"
  /\ UNCHANGED <<mode, engine, call, journal, publisher, snapshots, crashes,
                 given, committed>>

Next ==
  \/ \E c \in Calls : \/ place(c)
                      \/ append_events_batch(c)
                      \/ commitBook(c)
                      \/ record_book_applied_for_event_ids(c)
                      \/ enqueue(c)
  \/ \E c \in Calls : \E e \in call[c].todo :
       publish_partitioned_sync(c, e) \/ append_ack(c, e)
  \/ \E e \in queue : publish_one_with_retry(e)
  \/ \E e \in unacked : ackPublished(e)
  \/ collect_all_orders \/ book_applied_match_ids_snapshot \/ save_snapshot_to_path
  \/ crash
  \/ load_snapshot_from_path \/ rebuild_orderbook_from_backend
  \/ serve

Spec == Init /\ [][Next]_vars

-----------------------------------------------------------------------------
\* The engine gave the event's id to no other fill.
OwnId(e) == \A d \in given : d[1] = e[1] => d = e

InJournal(e) == evt[e[1]] = e[2] /\ e[1] \notin acked

(* A fill the book has taken is in the stream or in the journal, where the *)
(* next start finds it unacknowledged and hands it to the publisher again, *)
(* unless the start exits first, and then the one after it does: whatever  *)
(* crashes, failed writes and lost answers come in between, settlement can *)
(* still learn of it.  Ids that a start gives out a second time are        *)
(* excepted: the stream takes them for duplicates.                         *)
CommittedFillIsKept ==
  \A e \in committed : OwnId(e) => e \in stream \/ InJournal(e)

(* With ENGINE_STREAM_SYNC_PUBLISH, with or without a journal, an engine   *)
(* that serves requests has no fill in its book that the stream has not    *)
(* accepted: not after a refused placement whose lines are in the journal, *)
(* and not after a crash and a start from a snapshot or from the API.  Ids *)
(* given out a second time are excepted as above.                          *)
ServesOnlyPublished ==
  mode # "journal" /\ phase = "up" => \A e \in book : OwnId(e) => e \in stream

(* The ids in a snapshot are of events whose fills its orders reflect:     *)
(* "Match event ids whose fills are already reflected in `orders'          *)
(* (remaining quantities)", EnginePersistenceSnapshot.  A start skips the  *)
(* journal lines of these ids.                                             *)
SnapshotIdsAreReflected ==
  snapshot # NoSnapshot => snapshot.applied \subseteq IdsOf(snapshot.orders)

-----------------------------------------------------------------------------
(* What makes it inductive: only given events are anywhere, what is acked  *)
(* or about to be acked is in the stream, and a call reaches its commit    *)
(* with its events kept.                                                   *)

Published(e) == OwnId(e) => e \in stream
PublishedId(i) == \E e \in given : e[1] = i /\ Published(e)
Kept(e) == OwnId(e) => e \in stream \/ InJournal(e)

CallInv(c) ==
  /\ call[c].todo \subseteq call[c].events /\ call[c].events \subseteq given
  /\ call[c].at \in {"ack", "commit", "record", "enqueue"} =>
       \A e \in call[c].events : Kept(e)
  /\ call[c].at = "publish" =>
       \A e \in call[c].events \ call[c].todo : Published(e)
  /\ call[c].at = "ack" => \A e \in call[c].events : Published(e)

(* The invariant behind CommittedFillIsKept: an ack line, written or still *)
(* in the writer's buffer, is of an event the stream has.                  *)
JournalInv ==
  /\ EventTypes
  /\ queue \subseteq given /\ unacked \subseteq given /\ unwritten.events \subseteq given
  /\ stream \subseteq given /\ committed \subseteq given
  /\ \A i \in EventIds : evt[i] # NoFill => <<i, evt[i]>> \in given
  /\ \A i \in acked \union unwritten.acks : PublishedId(i)
  /\ \A e \in unacked : Published(e)
  /\ \A c \in Calls : CallInv(c)
  /\ CommittedFillIsKept

(* The invariant behind ServesOnlyPublished.  In the synchronous modes a   *)
(* call commits published events, so the book of an engine that serves,    *)
(* and every snapshot of it, reflects only these; an engine that starts    *)
(* has the others in its queue, and without a journal there are none.      *)

SyncCalls ==
  \A c \in Calls : call[c].at = "commit" => \A e \in call[c].events : Published(e)

SyncBook ==
  phase # "down" => \A e \in book : Published(e) \/ (phase = "starting" /\ e \in queue)

SyncSaved ==
  /\ \A e \in saving.orders : Published(e)
  /\ snapshot # NoSnapshot => \A e \in snapshot.orders : Published(e)

SyncFiles ==
  mode = "sync" => /\ \A i \in EventIds : evt[i] = NoFill
                   /\ unwritten.events = {}
                   /\ \A c \in Calls : call[c].at # "append"

SyncInv == mode # "journal" => SyncCalls /\ SyncBook /\ SyncSaved /\ SyncFiles

=============================================================================
