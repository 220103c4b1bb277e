------------------------ MODULE MatchSettlementProofs ------------------------
(***************************************************************************)
(* Proof that SettlementInv is an invariant of MatchSettlement, for any    *)
(* number of fills, event ids, callers and workers, and what follows from  *)
(* it for how often a fill is settled.  Steps are first reduced to their   *)
(* effect on rows and ledger; then there is one lemma for each part of the *)
(* invariant.                                                              *)
(***************************************************************************)
EXTENDS MatchSettlement, FiniteSetTheorems, TLAPS

Statuses == {"none", "pending", "processed", "failed"}

(* The four parts of the type invariant. *)
TypeEngine ==
  /\ made \in 0 .. MaxFills /\ nextEventId \in 1 .. MaxEventId + 1
  /\ eventId \in [Fills -> 0 .. MaxEventId]
  /\ placing \subseteq SUBSET Fills
  /\ buffer \subseteq Fills
  /\ restarts \in Nat

TypeCallers ==
  /\ pc \in [Callers -> PcValues]
  /\ batch \in [Callers -> SUBSET Fills] /\ todo \in [Callers -> SUBSET Fills]
  /\ after \in [Callers -> 0 .. MaxEventId]
  /\ attempt \in [Callers -> Nat]
  /\ nextId \in [Callers -> 0 .. MaxEventId + 1]
  /\ cursor \in 0 .. MaxEventId

TypeRows ==
  /\ rowEvent \in [EventIds -> 0 .. MaxFills]
  /\ rowStatus \in [EventIds -> Statuses]
  /\ rowRetries \in [EventIds -> Nat]
  /\ ledger \subseteq EventIds /\ settled \in [Fills -> Nat]

TypeWorkers ==
  /\ failRow \in [Workers -> 0 .. MaxEventId]
  /\ failKind \in [Workers -> {"none", "fatal", "retry"}]

LEMMA TypeParts ==
  /\ TypeOK <=> TypeEngine /\ TypeCallers /\ TypeRows /\ TypeWorkers
  /\ TypeOK' <=> TypeEngine' /\ TypeCallers' /\ TypeRows' /\ TypeWorkers'
BY ZenonT(60)
   DEF TypeOK, TypeEngine, TypeCallers, TypeRows, TypeWorkers, Statuses

(* The effects a step can have on the rows, the ledger and the workers. *)
Quiet == UNCHANGED <<rows, books, workers>>

Insert ==
  \E i \in EventIds, f \in 1 .. made :
    /\ rowEvent[i] = NoFill
    /\ rowEvent' = [rowEvent EXCEPT ![i] = f]
    /\ rowStatus' = [rowStatus EXCEPT ![i] = "pending"]
    /\ UNCHANGED <<rowRetries, ledger, settled, failRow, failKind>>

Settle ==
  \E i \in EventIds, f \in 1 .. made :
    /\ rowEvent[i] \in {NoFill, f}
    /\ rowEvent' = [rowEvent EXCEPT ![i] = f]
    /\ processSettlementEventRow(i, f)
    /\ UNCHANGED <<rowRetries, failRow, failKind>>

Remark ==
  /\ UNCHANGED <<rowEvent, ledger, settled>>
  /\ rowStatus' \in [EventIds -> Statuses]
  /\ rowRetries' \in [EventIds -> Nat]
  /\ failRow' \in [Workers -> 0 .. MaxEventId]
  /\ failKind' \in [Workers -> {"none", "fatal", "retry"}]
  /\ \A i \in EventIds :
       \/ rowStatus'[i] = rowStatus[i]
       \/ rowStatus[i] # "none" /\ rowStatus'[i] \in {"failed", "pending"}
  /\ \A w \in Workers :
       /\ failRow'[w] = NoRow <=> failKind'[w] = "none"
       /\ failRow'[w] # NoRow => rowEvent[failRow'[w]] # NoFill

(* Every step is one of the four. *)
LEMMA Effects ==
  ASSUME TypeOK, Links, RowsExist, Next
  PROVE  Quiet \/ Insert \/ Settle \/ Remark
<1>1. CASE Engine
  BY ZenonT(60), <1>1 DEF Engine, place_order, placeRefused, publishFails,
              insert_match_event_sorted, restart,
              Quiet, rows, books, workers
<1>2. ASSUME NEW c \in Callers, Caller(c) PROVE Quiet \/ Insert
  <2>1. CASE \E F \in placing : applyInlineEngineEvents(c, F)
    BY ZenonT(60), <2>1 DEF applyInlineEngineEvents, Quiet, rows, books, workers
  <2>2. CASE getPollCursorForEngine(c)
    BY ZenonT(60), <2>2 DEF getPollCursorForEngine, Quiet, rows, books, workers
  <2>3. CASE fetchMatchesForEngine(c)
    BY ZenonT(60), <2>3 DEF fetchMatchesForEngine, Quiet, rows, books, workers
  <2>3a. CASE reconcilePollCursorIfEngineBehind(c)
    BY ZenonT(60), <2>3a DEF reconcilePollCursorIfEngineBehind, Quiet, rows, books, workers
  <2>4. ASSUME NEW f \in todo[c], persistEvent(c, f) PROVE Quiet \/ Insert
    <3>1. f \in 1 .. made /\ eventId[f] \in EventIds
      BY ZenonT(60) DEF Links
    <3>2. QED
      BY ZenonT(60), <2>4, <3>1 DEF persistEvent, insertRow, Quiet, Insert, rows, books,
                        workers
  <2>5. ASSUME NEW f \in todo[c], reassignEvent(c, f) PROVE Quiet \/ Insert
    <3>1. f \in 1 .. made
      BY ZenonT(60) DEF Links
    <3>2. QED
      BY ZenonT(60), <2>5, <3>1 DEF reassignEvent, insertRow, Quiet, Insert, rows, books,
                        workers
  <2>6. CASE readNextId(c)
    BY ZenonT(60), <2>6 DEF readNextId, Quiet, rows, books, workers
  <2>7. CASE bumpPollCursorForEngine(c)
    BY ZenonT(60), <2>7 DEF bumpPollCursorForEngine, Quiet, rows, books, workers
  <2>8. CASE persistFails(c)
    BY ZenonT(60), <2>8 DEF persistFails, Quiet, rows, books, workers
  <2>9. QED
    BY ZenonT(60), <1>2, <2>1, <2>2, <2>3, <2>3a, <2>4, <2>5, <2>6, <2>7, <2>8 DEF Caller
<1>3. ASSUME NEW w \in Workers, Worker(w) PROVE Settle \/ Remark
  <2>0. /\ rowStatus \in [EventIds -> Statuses]
        /\ rowRetries \in [EventIds -> Nat]
        /\ failRow \in [Workers -> 0 .. MaxEventId]
        /\ failKind \in [Workers -> {"none", "fatal", "retry"}]
        /\ rowEvent \in [EventIds -> 0 .. MaxFills]
        /\ \A i \in EventIds : rowEvent[i] = NoFill <=> rowStatus[i] = "none"
        /\ \A v \in Workers : failRow[v] = NoRow <=> failKind[v] = "none"
        /\ \A v \in Workers : failRow[v] # NoRow => rowEvent[failRow[v]] # NoFill
    BY ZenonT(60) DEF TypeOK, RowsExist, Statuses
  <2>1. ASSUME NEW i \in EventIds, processOneEvent(w, i) PROVE Settle
    <3>1. rowStatus[i] # "none"
      BY ZenonT(60), <2>1 DEF processOneEvent, claimable
    <3>2. rowEvent[i] \in 1 .. made
      BY SMTT(60), Z3T(60), <3>1, <2>0 DEF Links, NoFill
    <3>3. rowEvent' = [rowEvent EXCEPT ![i] = rowEvent[i]]
      BY ZenonT(60), <2>0, <2>1 DEF processOneEvent
    <3>4. QED
      BY ZenonT(60), <2>1, <3>2, <3>3 DEF processOneEvent, Settle
  <2>2. ASSUME NEW i \in EventIds, NEW kind \in {"fatal", "retry"},
               processFails(w, i, kind)
        PROVE  Remark
    <3>1. rowStatus[i] # "none"
      BY ZenonT(60), <2>2 DEF processFails, claimable
    <3>2. rowEvent[i] # NoFill /\ i # NoRow
      BY SMTT(60), Z3T(60), <3>1, <2>0 DEF EventIds, NoRow
    <3>3. QED
      BY SMTT(60), Z3T(60), <2>0, <2>2, <3>2 DEF processFails, Remark, rows, books, EventIds
  <2>3. CASE countRetry(w)
    <3>1. failRow[w] # NoRow /\ failRow[w] \in EventIds
      BY SMTT(60), Z3T(60), <2>0, <2>3, SettlementConstants DEF countRetry, EventIds, NoRow
    <3>2. rowRetries' \in [EventIds -> Nat]
      <4>1. rowRetries[failRow[w]] + 1 \in Nat
        BY SMTT(60), Z3T(60), <2>0, <3>1
      <4>2. QED
        BY ZenonT(60), <2>0, <2>3, <3>1, <4>1 DEF countRetry
    <3>3. /\ failRow' \in [Workers -> 0 .. MaxEventId]
          /\ failKind' \in [Workers -> {"none", "fatal", "retry"}]
      BY SMTT(60), Z3T(60), <2>0, <2>3, SettlementConstants DEF countRetry, NoRow
    <3>4. \A v \in Workers :
            /\ failRow'[v] = NoRow <=> failKind'[v] = "none"
            /\ failRow'[v] # NoRow => rowEvent[failRow'[v]] # NoFill
      BY ZenonT(60), <2>0, <2>3, <3>1 DEF countRetry
    <3>5. QED
      BY ZenonT(60), <2>0, <2>3, <3>2, <3>3, <3>4 DEF countRetry, Remark, books
  <2>4. CASE markFailed(w)
    <3>1. failRow[w] # NoRow
      BY ZenonT(60), <2>0, <2>4 DEF markFailed
    <3>2. failRow[w] \in EventIds
      BY SMTT(60), Z3T(60), <2>0, <3>1 DEF EventIds, NoRow
    <3>3. rowStatus[failRow[w]] # "none"
      BY ZenonT(60), <2>0, <3>1, <3>2
    <3>4. QED
      BY SMTT(60), Z3T(60), <2>0, <2>4, <3>2, <3>3, SettlementConstants
      DEF markFailed, Remark, books, Statuses, NoRow
  <2>5. QED
    BY ZenonT(60), <1>3, <2>1, <2>2, <2>3, <2>4 DEF Worker
<1>4. ASSUME NEW f \in 1 .. made, ingestAndSettleMatchEvent(f) PROVE Settle
  <2>1. eventId[f] \in EventIds
    BY ZenonT(60) DEF Links
  <2>2. rowEvent[eventId[f]] \in 0 .. made
    BY ZenonT(60), <2>1 DEF Links
  <2>3. made \in Nat
    BY SMTT(60), Z3T(60), SettlementConstants DEF TypeOK
  <2>4. CASE rowEvent[eventId[f]] = NoFill
    BY ZenonT(60), <1>4, <2>1, <2>4 DEF ingestAndSettleMatchEvent, Settle, workers
  <2>5. CASE rowEvent[eventId[f]] # NoFill
    <3>1. rowEvent[eventId[f]] \in 1 .. made
      BY SMTT(60), Z3T(60), <2>2, <2>3, <2>5 DEF NoFill
    <3>2. QED
      BY ZenonT(60), <1>4, <2>1, <2>5, <3>1 DEF ingestAndSettleMatchEvent, Settle, workers
  <2>6. QED
    BY ZenonT(60), <2>4, <2>5
<1>5. ASSUME NEW i \in EventIds, replay_failed(i) PROVE Remark
  <2>1. TypeRows /\ TypeWorkers
    BY ZenonT(60), TypeParts
  <2>2. QED
    BY ZenonT(60), <1>5, <2>1 DEF replay_failed, Remark, RowsExist, books, workers, TypeRows,
                      TypeWorkers, Statuses
<1>6. QED
  BY ZenonT(60), <1>1, <1>2, <1>3, <1>4, <1>5 DEF Next, Stream

(* Rows, their status and what workers hold of them. *)
LEMMA RowsExistStep ==
  ASSUME TypeOK, Links, RowsExist, Next
  PROVE  RowsExist'
<1>0. /\ rowStatus \in [EventIds -> Statuses]
      /\ rowEvent \in [EventIds -> 0 .. MaxFills]
      /\ failRow \in [Workers -> 0 .. MaxEventId]
      /\ ledger \subseteq EventIds
  BY ZenonT(60) DEF TypeOK, Statuses
<1>1. CASE Quiet
  BY ZenonT(60), <1>1 DEF Quiet, RowsExist, rows, books, workers
<1>2. CASE Insert
  <2>1. PICK i \in EventIds, f \in 1 .. made :
          /\ rowEvent[i] = NoFill
          /\ rowEvent' = [rowEvent EXCEPT ![i] = f]
          /\ rowStatus' = [rowStatus EXCEPT ![i] = "pending"]
          /\ UNCHANGED <<rowRetries, ledger, settled, failRow, failKind>>
    BY ZenonT(60), <1>2 DEF Insert
  <2>2. f # NoFill
    BY SMTT(60), Z3T(60) DEF NoFill
  <2>3. \A j \in EventIds : rowEvent[j] # NoFill => rowEvent'[j] # NoFill
    BY ZenonT(60), <1>0, <2>1, <2>2
  <2>4. \A j \in EventIds : rowEvent'[j] = NoFill <=> rowStatus'[j] = "none"
    BY ZenonT(60), <1>0, <2>1, <2>2 DEF RowsExist
  <2>5. \A w \in Workers : failRow[w] # NoRow => failRow[w] \in EventIds
    BY SMTT(60), Z3T(60), <1>0 DEF EventIds, NoRow
  <2>6. QED
    BY ZenonT(60), <1>0, <2>1, <2>3, <2>4, <2>5 DEF RowsExist
<1>3. CASE Settle
  <2>1. PICK i \in EventIds, f \in 1 .. made :
          /\ rowEvent[i] \in {NoFill, f}
          /\ rowEvent' = [rowEvent EXCEPT ![i] = f]
          /\ processSettlementEventRow(i, f)
          /\ UNCHANGED <<rowRetries, failRow, failKind>>
    BY ZenonT(60), <1>3 DEF Settle
  <2>2. f # NoFill
    BY SMTT(60), Z3T(60) DEF NoFill
  <2>3. \A j \in EventIds : rowEvent[j] # NoFill => rowEvent'[j] # NoFill
    BY ZenonT(60), <1>0, <2>1, <2>2
  <2>4. \A j \in EventIds : rowEvent'[j] = NoFill <=> rowStatus'[j] = "none"
    BY ZenonT(60), <1>0, <2>1, <2>2 DEF RowsExist, processSettlementEventRow
  <2>5. \A w \in Workers : failRow[w] # NoRow => failRow[w] \in EventIds
    BY SMTT(60), Z3T(60), <1>0 DEF EventIds, NoRow
  <2>6. \A j \in ledger' : rowEvent'[j] # NoFill
    BY ZenonT(60), <1>0, <2>1, <2>2, <2>3 DEF RowsExist, processSettlementEventRow
  <2>7. QED
    BY ZenonT(60), <2>1, <2>3, <2>4, <2>5, <2>6 DEF RowsExist
<1>4. CASE Remark
  BY ZenonT(60), <1>4 DEF Remark, RowsExist
<1>5. QED
  BY ZenonT(60), <1>1, <1>2, <1>3, <1>4, Effects

(* The ledger and the count of settlements move together. *)
LEMMA LedgerStep ==
  ASSUME TypeOK, Links, RowsExist, LedgerMatchesRows, Next
  PROVE  LedgerMatchesRows'
<1> DEFINE Of(f) == {i \in ledger : rowEvent[i] = f}
<1>0. /\ rowStatus \in [EventIds -> Statuses]
      /\ rowEvent \in [EventIds -> 0 .. MaxFills]
      /\ settled \in [Fills -> Nat]
      /\ ledger \subseteq EventIds
      /\ made \in 0 .. MaxFills
      /\ \A i \in EventIds : rowStatus[i] = "processed" => i \in ledger
      /\ \A f \in Fills : settled[f] = Cardinality(Of(f))
  BY ZenonT(60) DEF TypeOK, Statuses, LedgerMatchesRows
<1>1. CASE Quiet
  BY ZenonT(60), <1>1 DEF Quiet, LedgerMatchesRows, rows, books
<1>2. CASE Insert
  <2>1. PICK i \in EventIds, f \in 1 .. made :
          /\ rowEvent[i] = NoFill
          /\ rowEvent' = [rowEvent EXCEPT ![i] = f]
          /\ rowStatus' = [rowStatus EXCEPT ![i] = "pending"]
          /\ UNCHANGED <<rowRetries, ledger, settled, failRow, failKind>>
    BY ZenonT(60), <1>2 DEF Insert
  <2>2. i \notin ledger
    BY ZenonT(60), <2>1 DEF RowsExist
  <2>3. \A g \in Fills : {j \in ledger' : rowEvent'[j] = g} = Of(g)
    BY ZenonT(60), <1>0, <2>1, <2>2
  <2>4. \A j \in EventIds : rowStatus'[j] = "processed" => j \in ledger'
    BY ZenonT(60), <1>0, <2>1
  <2>5. \A g \in Fills : settled'[g] = Cardinality({j \in ledger' : rowEvent'[j] = g})
    BY <1>0, <2>1, <2>3, ZenonT(60)
  <2>6. QED
    BY ZenonT(60), <2>4, <2>5 DEF LedgerMatchesRows
<1>3. CASE Settle
  <2>1. PICK i \in EventIds, f \in 1 .. made :
          /\ rowEvent[i] \in {NoFill, f}
          /\ rowEvent' = [rowEvent EXCEPT ![i] = f]
          /\ processSettlementEventRow(i, f)
          /\ UNCHANGED <<rowRetries, failRow, failKind>>
    BY ZenonT(60), <1>3 DEF Settle
  <2>2. f \in Fills
    BY SMTT(60), Z3T(60), <1>0, SettlementConstants DEF Fills
  <2>3. \A j \in EventIds : rowStatus'[j] = "processed" => j \in ledger'
    BY ZenonT(60), <1>0, <2>1 DEF processSettlementEventRow
  <2>4. CASE i \in ledger
    <3>1. rowEvent[i] = f
      BY ZenonT(60), <2>1, <2>4 DEF RowsExist
    <3>2. ledger' = ledger /\ settled' = settled /\ rowEvent' = rowEvent
      BY ZenonT(60), <1>0, <2>1, <2>4, <3>1 DEF processSettlementEventRow
    <3>3. QED
      BY ZenonT(60), <1>0, <2>3, <3>2 DEF LedgerMatchesRows
  <2>5. CASE i \notin ledger
    <3>1. /\ ledger' = ledger \union {i}
          /\ settled' = [settled EXCEPT ![f] = @ + 1]
      BY ZenonT(60), <2>1, <2>5 DEF processSettlementEventRow
    <3>2. {j \in ledger' : rowEvent'[j] = f} = Of(f) \union {i}
      BY ZenonT(60), <1>0, <2>1, <2>5, <3>1
    <3>3. \A g \in Fills \ {f} : {j \in ledger' : rowEvent'[j] = g} = Of(g)
      BY ZenonT(60), <1>0, <2>1, <2>5, <3>1
    <3>4. IsFiniteSet(Of(f)) /\ i \notin Of(f)
      <4>1. IsFiniteSet(EventIds)
        BY SMTT(60), Z3T(60), FS_Interval, SettlementConstants DEF EventIds
      <4>2. Of(f) \subseteq EventIds
        BY ZenonT(60), <1>0
      <4>3. QED
        BY ZenonT(60), <2>5, <4>1, <4>2, FS_Subset
    <3>5. Cardinality(Of(f) \union {i}) = Cardinality(Of(f)) + 1
      BY ZenonT(60), <3>4, FS_AddElement
    <3>6. settled'[f] = Cardinality({j \in ledger' : rowEvent'[j] = f})
      <4>1. settled'[f] = settled[f] + 1
        BY ZenonT(60), <1>0, <2>2, <3>1
      <4>2. settled[f] = Cardinality(Of(f))
        BY ZenonT(60), <1>0, <2>2
      <4> HIDE DEF Of
      <4>3. QED
        BY ZenonT(60), <3>2, <3>5, <4>1, <4>2
    <3>7. \A g \in Fills \ {f} :
            settled'[g] = Cardinality({j \in ledger' : rowEvent'[j] = g})
      <4>1. \A g \in Fills \ {f} : settled'[g] = settled[g]
        BY ZenonT(60), <1>0, <3>1
      <4>2. QED
        BY <1>0, <3>3, <4>1, ZenonT(60)
    <3>8. QED
      BY ZenonT(60), <2>3, <3>6, <3>7 DEF LedgerMatchesRows
  <2>6. QED
    BY ZenonT(60), <2>4, <2>5
<1>4. CASE Remark
  BY ZenonT(60), <1>0, <1>4 DEF Remark, LedgerMatchesRows
<1>5. QED
  BY ZenonT(60), <1>1, <1>2, <1>3, <1>4, Effects

(* What an action of the engine does to the types. *)
LEMMA EngineTypes ==
  ASSUME TypeEngine, Engine
  PROVE  TypeEngine'
<1>1. ASSUME NEW k \in 1 .. MaxPerPlace, place_order(k) PROVE TypeEngine'
  <2>1. \A f \in made + 1 .. made + k :
          nextEventId + (f - made - 1) \in 0 .. MaxEventId
    BY SMTT(60), Z3T(60), <1>1, SettlementConstants DEF place_order, TypeEngine
  <2>2. eventId' \in [Fills -> 0 .. MaxEventId]
    BY ZenonT(60), <1>1, <2>1 DEF place_order, TypeEngine
  <2>3. made + 1 .. made + k \subseteq Fills
    BY SMTT(60), Z3T(60), <1>1, SettlementConstants DEF place_order, TypeEngine, Fills
  <2>4. made' \in 0 .. MaxFills /\ nextEventId' \in 1 .. MaxEventId + 1
    BY SMTT(60), Z3T(60), <1>1, SettlementConstants DEF place_order, TypeEngine
  <2>5. QED
    BY ZenonT(60), <1>1, <2>2, <2>3, <2>4 DEF place_order, TypeEngine
<1>2. ASSUME NEW F \in placing, insert_match_event_sorted(F) PROVE TypeEngine'
  BY ZenonT(60), <1>2 DEF insert_match_event_sorted, TypeEngine, IsLeast
<1>3. ASSUME NEW F \in placing, publishFails(F) PROVE TypeEngine'
  BY ZenonT(60), <1>3 DEF publishFails, TypeEngine
<1>3a. ASSUME NEW k \in 1 .. MaxPerPlace, placeRefused(k) PROVE TypeEngine'
  BY SMTT(60), Z3T(60), <1>3a, SettlementConstants DEF placeRefused, TypeEngine
<1>4. CASE restart
  <2>1. 1 .. made \subseteq Fills
    BY SMTT(60), Z3T(60), SettlementConstants DEF TypeEngine, Fills
  <2>2. QED
    BY SMTT(60), Z3T(60), <1>4, <2>1, SettlementConstants DEF restart, TypeEngine
<1>5. QED
  BY ZenonT(60), <1>1, <1>2, <1>3, <1>3a, <1>4 DEF Engine

(* What an action of a caller does to them. *)
LEMMA CallerTypes ==
  ASSUME TypeEngine, TypeCallers, Links, NEW c \in Callers, Caller(c)
  PROVE  TypeCallers'
<1>0. \A S \in SUBSET Fills, x \in Fills : S \ {x} \in SUBSET Fills
  BY ZenonT(60)
<1>1. ASSUME NEW F \in placing, applyInlineEngineEvents(c, F) PROVE TypeCallers'
  BY ZenonT(60), <1>1 DEF applyInlineEngineEvents, TypeEngine, TypeCallers, PcValues
<1>2. CASE getPollCursorForEngine(c)
  BY ZenonT(60), <1>2 DEF getPollCursorForEngine, TypeCallers, PcValues
<1>3. CASE fetchMatchesForEngine(c)
  <2>1. 0 \in 0 .. MaxEventId
    BY SMTT(60), Z3T(60), SettlementConstants
  <2>2. {f \in buffer : eventId[f] > after[c]} \in SUBSET Fills
    BY ZenonT(60) DEF TypeEngine
  <2>3. QED
    BY ZenonT(60), <1>3, <2>1, <2>2 DEF fetchMatchesForEngine, TypeCallers, PcValues
<1>3a. CASE reconcilePollCursorIfEngineBehind(c)
  BY SMTT(60), Z3T(60), <1>3a, SettlementConstants
  DEF reconcilePollCursorIfEngineBehind, TypeCallers, PcValues
<1>4. ASSUME NEW f \in todo[c], persistEvent(c, f) PROVE TypeCallers'
  BY SMTT(60), Z3T(60), <1>0, <1>4 DEF persistEvent, persisted, TypeCallers, PcValues
<1>5. ASSUME NEW f \in todo[c], reassignEvent(c, f) PROVE TypeCallers'
  BY SMTT(60), Z3T(60), <1>0, <1>5, SettlementConstants DEF reassignEvent, persisted, TypeCallers, PcValues
<1>6. CASE readNextId(c)
  <2>1. \A last \in usedIds \union {0} : last + 1 \in 0 .. MaxEventId + 1
    BY SMTT(60), Z3T(60), SettlementConstants DEF usedIds, EventIds
  <2>2. QED
    BY ZenonT(60), <1>6, <2>1 DEF readNextId, TypeCallers, PcValues
<1>7. CASE bumpPollCursorForEngine(c)
  <2>1. \A f \in batch[c] : eventId[f] \in 0 .. MaxEventId
    BY ZenonT(60) DEF TypeEngine, TypeCallers
  <2>2. cursor' \in 0 .. MaxEventId
    BY ZenonT(60), <1>7, <2>1 DEF bumpPollCursorForEngine, TypeCallers
  <2>3. QED
    BY ZenonT(60), <1>7, <2>2 DEF bumpPollCursorForEngine, TypeCallers, PcValues
<1>8. CASE persistFails(c)
  BY SMTT(60), Z3T(60), <1>8, SettlementConstants DEF persistFails, TypeCallers, PcValues
<1>9. QED
  BY ZenonT(60), <1>1, <1>2, <1>3, <1>3a, <1>4, <1>5, <1>6, <1>7, <1>8 DEF Caller

(* The types of rows, ledger and workers follow from the effect of a step. *)
LEMMA RowTypes ==
  ASSUME TypeOK, Links, RowsExist, Next
  PROVE  TypeRows' /\ TypeWorkers'
<1>0. /\ TypeRows /\ TypeWorkers
      /\ \A f \in 1 .. made : f \in Fills /\ f \in 0 .. MaxFills
  <2>1. made \in 0 .. MaxFills
    BY ZenonT(60), TypeParts DEF TypeEngine
  <2>2. QED
    BY SMTT(60), Z3T(60), <2>1, TypeParts, SettlementConstants DEF Fills
<1>1. CASE Quiet
  BY ZenonT(60), <1>0, <1>1 DEF Quiet, TypeRows, TypeWorkers, rows, books, workers
<1>2. CASE Insert
  BY ZenonT(60), <1>0, <1>2 DEF Insert, TypeRows, TypeWorkers, Statuses
<1>3. CASE Settle
  <2>1. PICK i \in EventIds, f \in 1 .. made :
          /\ rowEvent' = [rowEvent EXCEPT ![i] = f]
          /\ processSettlementEventRow(i, f)
          /\ UNCHANGED <<rowRetries, failRow, failKind>>
    BY ZenonT(60), <1>3 DEF Settle
  <2>2. settled' \in [Fills -> Nat]
    BY SMTT(60), Z3T(60), <1>0, <2>1 DEF processSettlementEventRow, TypeRows
  <2>3. QED
    BY ZenonT(60), <1>0, <2>1, <2>2
    DEF processSettlementEventRow, TypeRows, TypeWorkers, Statuses
<1>4. CASE Remark
  BY ZenonT(60), <1>0, <1>4 DEF Remark, TypeRows, TypeWorkers
<1>5. QED
  BY ZenonT(60), <1>1, <1>2, <1>3, <1>4, Effects

(* A caller only takes a response from the engine. *)
EngineKept ==
  /\ UNCHANGED <<made, nextEventId, eventId, buffer, restarts>>
  /\ placing' \subseteq placing

(* A step is the engine's, a caller's, or leaves both alone. *)
LEMMA Actors ==
  ASSUME Next
  PROVE  \/ Engine /\ UNCHANGED <<callers, cursor>>
         \/ \E c \in Callers :
              Caller(c) /\ EngineKept
         \/ UNCHANGED <<engine, callers, cursor>>
<1>1. CASE Engine
  BY ZenonT(60), <1>1 DEF Engine, place_order, placeRefused, publishFails,
              insert_match_event_sorted, restart
<1>2. ASSUME NEW c \in Callers, Caller(c)
      PROVE  EngineKept
  BY ZenonT(60), <1>2 DEF Caller, applyInlineEngineEvents, getPollCursorForEngine,
        reconcilePollCursorIfEngineBehind, persistFails, fetchMatchesForEngine,
        persistEvent, reassignEvent, readNextId, bumpPollCursorForEngine,
        EngineKept, engine
<1>3. CASE \E w \in Workers : Worker(w)
  BY ZenonT(60), <1>3 DEF Worker, processOneEvent, processFails, countRetry, markFailed
<1>4. CASE Stream \/ \E i \in EventIds : replay_failed(i)
  BY ZenonT(60), <1>4 DEF Stream, ingestAndSettleMatchEvent, replay_failed
<1>5. QED
  BY ZenonT(60), <1>1, <1>2, <1>3, <1>4 DEF Next

(* The type invariant. *)
LEMMA TypeStep ==
  ASSUME TypeOK, Links, RowsExist, Next
  PROVE  TypeOK'
<1>0. TypeEngine /\ TypeCallers
  BY ZenonT(60), TypeParts
<1>1. CASE Engine /\ UNCHANGED <<callers, cursor>>
  <2>1. TypeEngine'
    BY ZenonT(60), <1>0, <1>1, EngineTypes
  <2>2. TypeCallers'
    BY ZenonT(60), <1>0, <1>1 DEF TypeCallers, callers
  <2>3. QED
    BY ZenonT(60), <2>1, <2>2, RowTypes, TypeParts
<1>2. ASSUME NEW c \in Callers,
             Caller(c) /\ EngineKept
      PROVE  TypeOK'
  <2>1. TypeCallers'
    BY ZenonT(60), <1>0, <1>2, CallerTypes
  <2>2. TypeEngine'
    BY ZenonT(60), <1>0, <1>2 DEF TypeEngine, EngineKept
  <2>3. QED
    BY ZenonT(60), <2>1, <2>2, RowTypes, TypeParts
<1>3. CASE UNCHANGED <<engine, callers, cursor>>
  <2>1. TypeEngine' /\ TypeCallers'
    BY ZenonT(60), <1>0, <1>3 DEF TypeEngine, TypeCallers, engine, callers
  <2>2. QED
    BY ZenonT(60), <2>1, RowTypes, TypeParts
<1>4. QED
  BY ZenonT(60), <1>1, <1>2, <1>3, Actors

(* Fills are numbered as they are made, and an event id never changes.       *)
LEMMA MadeStep ==
  ASSUME TypeOK, Next
  PROVE  /\ made \in Nat /\ made' \in Nat /\ made <= made'
         /\ \A f \in 1 .. made : f \in 1 .. made' /\ eventId'[f] = eventId[f]
<1>0. made \in Nat /\ made <= MaxFills /\ eventId \in [Fills -> 0 .. MaxEventId]
  BY SMTT(60), Z3T(60), TypeParts, SettlementConstants DEF TypeEngine
<1>1. ASSUME NEW k \in 1 .. MaxPerPlace, place_order(k)
      PROVE  /\ made' \in Nat /\ made <= made'
             /\ \A f \in 1 .. made : eventId'[f] = eventId[f]
  BY SMTT(60), Z3T(60), <1>0, <1>1, SettlementConstants DEF place_order, Fills
<1>2. CASE UNCHANGED <<made, eventId>>
  BY SMTT(60), Z3T(60), <1>0, <1>2
<1>3. (\E k \in 1 .. MaxPerPlace : place_order(k)) \/ UNCHANGED <<made, eventId>>
  <2>1. CASE Engine
    BY ZenonT(60), <2>1 DEF Engine, placeRefused, publishFails,
                insert_match_event_sorted, restart
  <2>2. CASE EngineKept
    BY ZenonT(60), <2>2 DEF EngineKept
  <2>3. QED
    BY ZenonT(60), <2>1, <2>2, Actors DEF EngineKept, engine
<1>4. QED
  BY SMTT(60), Z3T(60), <1>0, <1>1, <1>2, <1>3

(* A row is written once: its fill is never replaced by another.             *)
LEMMA RowsKeepTheirFill ==
  ASSUME TypeOK, Links, RowsExist, Next
  PROVE  \A i \in EventIds :
           /\ rowEvent'[i] \in 0 .. made
           /\ rowEvent[i] # NoFill => rowEvent'[i] = rowEvent[i]
<1>0. /\ rowEvent \in [EventIds -> 0 .. MaxFills]
      /\ \A i \in EventIds : rowEvent[i] \in 0 .. made
      /\ made \in Nat
  BY SMTT(60), Z3T(60), TypeParts, SettlementConstants DEF TypeRows, TypeEngine, Links
<1>1. CASE UNCHANGED rowEvent
  BY ZenonT(60), <1>0, <1>1
<1>2. CASE \E i \in EventIds, f \in 1 .. made :
             rowEvent[i] \in {NoFill, f} /\ rowEvent' = [rowEvent EXCEPT ![i] = f]
  BY SMTT(60), Z3T(60), <1>0, <1>2
<1>3. QED
  BY ZenonT(60), <1>1, <1>2, Effects DEF Quiet, Insert, Settle, Remark, rows

(* Nothing refers to a fill before it is made. *)
LEMMA LinksStep ==
  ASSUME TypeOK, Links, RowsExist, Next
  PROVE  Links'
<1>0. /\ made \in Nat /\ made' \in Nat /\ made <= made'
      /\ \A f \in 1 .. made : f \in 1 .. made' /\ eventId'[f] = eventId[f]
  BY ZenonT(60), MadeStep
<1>1. \A i \in EventIds : rowEvent'[i] \in 0 .. made'
  BY SMTT(60), Z3T(60), <1>0, RowsKeepTheirFill
<1>2. CASE Engine /\ UNCHANGED <<callers, cursor>>
  <2>0. UNCHANGED <<batch, todo>>
    BY ZenonT(60), <1>2 DEF callers
  <2>1. ASSUME NEW k \in 1 .. MaxPerPlace, place_order(k) PROVE Links'
    <3>0. /\ made <= MaxFills /\ nextEventId \in Nat \ {0} /\ MaxFills \in Nat
          /\ MaxEventId \in Nat
      BY SMTT(60), Z3T(60), TypeParts, SettlementConstants DEF TypeEngine
    <3>1. \A f \in 1 .. made' : eventId'[f] \in EventIds
      <4>1. \A f \in 1 .. made : eventId'[f] \in EventIds
        BY ZenonT(60), <1>0 DEF Links
      <4>2. \A f \in made + 1 .. made + k : eventId'[f] \in EventIds
        BY SMTT(60), Z3T(60), <1>0, <2>1, <3>0 DEF place_order, EventIds, Fills
      <4>3. k \in Nat /\ made' = made + k
        BY SMTT(60), Z3T(60), <2>1 DEF place_order
      <4>4. \A f \in 1 .. made + k : f \in 1 .. made \/ f \in made + 1 .. made + k
        BY SMTT(60), Z3T(60), <1>0, <4>3
      <4>5. QED
        BY ZenonT(60), <4>1, <4>2, <4>3, <4>4
    <3>2. \A F \in placing' : F \subseteq 1 .. made'
      BY SMTT(60), Z3T(60), <1>0, <2>1 DEF place_order, Links
    <3>3. buffer' \subseteq 1 .. made'
      BY ZenonT(60), <1>0, <2>1 DEF place_order, Links
    <3>4. QED
      BY ZenonT(60), <1>0, <1>1, <2>0, <3>1, <3>2, <3>3 DEF Links
  <2>2. ASSUME NEW F \in placing, insert_match_event_sorted(F) PROVE Links'
    BY ZenonT(60), <1>1, <2>0, <2>2 DEF insert_match_event_sorted, Links
  <2>3. ASSUME NEW F \in placing, publishFails(F) PROVE Links'
    BY ZenonT(60), <1>1, <2>0, <2>3 DEF publishFails, Links
  <2>3a. ASSUME NEW k \in 1 .. MaxPerPlace, placeRefused(k) PROVE Links'
    BY ZenonT(60), <1>1, <2>0, <2>3a DEF placeRefused, Links
  <2>4. CASE restart
    BY ZenonT(60), <1>1, <2>0, <2>4 DEF restart, Links
  <2>5. QED
    BY ZenonT(60), <1>2, <2>1, <2>2, <2>3, <2>3a, <2>4 DEF Engine
<1>3. ASSUME NEW c \in Callers,
             Caller(c) /\ EngineKept
      PROVE  Links'
  <2>1. todo \in [Callers -> SUBSET Fills] /\ batch \in [Callers -> SUBSET Fills]
    BY ZenonT(60), TypeParts DEF TypeCallers
  <2>2. todo'[c] \subseteq 1 .. made /\ batch'[c] \subseteq 1 .. made
    BY SMTT(60), Z3T(60), <1>3, <2>1 DEF Caller, applyInlineEngineEvents, getPollCursorForEngine,
        reconcilePollCursorIfEngineBehind, persistFails, fetchMatchesForEngine,
        persistEvent, reassignEvent, readNextId,
                bumpPollCursorForEngine, persisted, Links
  <2>3. \A d \in Callers \ {c} : todo'[d] = todo[d] /\ batch'[d] = batch[d]
    BY ZenonT(60), <1>3, <2>1 DEF Caller, applyInlineEngineEvents, getPollCursorForEngine,
        reconcilePollCursorIfEngineBehind, persistFails, fetchMatchesForEngine,
        persistEvent, reassignEvent, readNextId,
                bumpPollCursorForEngine, persisted
  <2>4. QED
    BY ZenonT(60), <1>1, <1>3, <2>2, <2>3 DEF Links, EngineKept
<1>4. CASE UNCHANGED <<engine, callers, cursor>>
  BY ZenonT(60), <1>1, <1>4 DEF Links, engine, callers
<1>5. QED
  BY ZenonT(60), <1>2, <1>3, <1>4, Actors

(* A new row is the fill's own, or its own was found in another's hands.     *)
Written ==
  \E i \in EventIds, f \in 1 .. made :
    /\ rowEvent[i] = NoFill
    /\ rowEvent' = [rowEvent EXCEPT ![i] = f]
    /\ eventId[f] = i \/ rowEvent[eventId[f]] \notin {NoFill, f}

LEMMA HowRowsAreWritten ==
  ASSUME TypeOK, Links, RowsExist, OwnRows, Next
  PROVE  UNCHANGED rowEvent \/ Written
<1>0. /\ rowEvent \in [EventIds -> 0 .. MaxFills]
      /\ \A f \in 1 .. made : eventId[f] \in EventIds
      /\ \A c \in Callers : todo[c] \subseteq 1 .. made
  BY ZenonT(60), TypeParts DEF TypeRows, Links
<1>1. CASE Engine
  BY ZenonT(60), <1>1 DEF Engine, place_order, placeRefused, publishFails,
              insert_match_event_sorted, restart, rows
<1>2. ASSUME NEW c \in Callers, Caller(c) PROVE UNCHANGED rowEvent \/ Written
  <2>1. ASSUME NEW f \in todo[c], persistEvent(c, f)
        PROVE  UNCHANGED rowEvent \/ Written
    BY ZenonT(60), <1>0, <2>1 DEF persistEvent, insertRow, Written, rows
  <2>2. ASSUME NEW f \in todo[c], reassignEvent(c, f)
        PROVE  UNCHANGED rowEvent \/ Written
    <3>1. rowEvent[eventId[f]] \notin {NoFill, f}
      BY ZenonT(60), <1>0, <2>2 DEF reassignEvent, OwnRows
    <3>2. QED
      BY ZenonT(60), <1>0, <2>2, <3>1 DEF reassignEvent, insertRow, Written, rows
  <2>3. QED
    BY ZenonT(60), <1>2, <2>1, <2>2
    DEF Caller, applyInlineEngineEvents, getPollCursorForEngine,
        reconcilePollCursorIfEngineBehind, fetchMatchesForEngine,
        readNextId, bumpPollCursorForEngine, persistFails, rows
<1>3. CASE \E w \in Workers : Worker(w)
  BY ZenonT(60), <1>3 DEF Worker, processOneEvent, processFails, countRetry, markFailed, rows
<1>4. ASSUME NEW f \in 1 .. made, ingestAndSettleMatchEvent(f)
      PROVE  UNCHANGED rowEvent \/ Written
  <2>1. CASE rowEvent[eventId[f]] = NoFill
    BY ZenonT(60), <1>0, <1>4, <2>1 DEF ingestAndSettleMatchEvent, Written
  <2>2. CASE rowEvent[eventId[f]] # NoFill
    BY ZenonT(60), <1>0, <1>4, <2>2 DEF ingestAndSettleMatchEvent
  <2>3. QED
    BY ZenonT(60), <2>1, <2>2
<1>5. CASE \E i \in EventIds : replay_failed(i)
  BY ZenonT(60), <1>5 DEF replay_failed
<1>6. QED
  BY ZenonT(60), <1>1, <1>2, <1>3, <1>4, <1>5 DEF Next, Stream

(* A caller's next event: while it is being reassigned, its own row stays    *)
(* in another fill's hands.                                                  *)
LEMMA ReassigningStep ==
  ASSUME TypeOK, Links, RowsExist, OwnRows, Next,
         NEW c \in Callers, NEW f \in 1 .. made,
         pc'[c] \in {"readMax", "reinsert"}, nextEvent(c, f)'
  PROVE  rowEvent[eventId[f]] \notin {NoFill, f}
<1>0. /\ pc \in [Callers -> PcValues]
      /\ todo \in [Callers -> SUBSET Fills]
      /\ todo[c] \subseteq 1 .. made
      /\ pc[c] \in {"readMax", "reinsert"} /\ nextEvent(c, f)
           => rowEvent[eventId[f]] \notin {NoFill, f}
  BY ZenonT(60), TypeParts DEF TypeCallers, Links, OwnRows
<1>0a. \A g \in 1 .. made : eventId'[g] = eventId[g] /\ eventId[g] \in Nat
  BY SMTT(60), Z3T(60), MadeStep DEF Links, EventIds
<1>1. CASE pc'[c] = pc[c] /\ todo'[c] = todo[c]
  BY SMTT(60), Z3T(60), <1>0, <1>0a, <1>1 DEF nextEvent
<1>2. ASSUME NEW d \in Callers, Caller(d), pc'[c] # pc[c] \/ todo'[c] # todo[c]
      PROVE  rowEvent[eventId[f]] \notin {NoFill, f}
  <2>1. c = d
    BY ZenonT(60), <1>0, <1>2 DEF Caller, applyInlineEngineEvents, getPollCursorForEngine,
        reconcilePollCursorIfEngineBehind, persistFails, fetchMatchesForEngine,
        persistEvent, reassignEvent, readNextId,
                bumpPollCursorForEngine, persisted
  <2>2. ASSUME NEW g \in todo[c], persistEvent(c, g)
        PROVE  rowEvent[eventId[f]] \notin {NoFill, f}
    <3>1. /\ pc'[c] = "readMax" /\ todo' = todo
          /\ rowEvent[eventId[g]] \notin {NoFill, g}
      BY ZenonT(60), <1>0, <2>2 DEF persistEvent, persisted
    <3>2. f = g
      <4>1. nextEvent(c, f) /\ nextEvent(c, g)
        BY ZenonT(60), <1>0, <1>0a, <2>2, <3>1 DEF persistEvent, nextEvent
      <4>2. g \in 1 .. made
        BY ZenonT(60), <1>0
      <4>3. QED
        BY SMTT(60), Z3T(60), <1>0a, <4>1, <4>2 DEF nextEvent
    <3>3. QED
      BY ZenonT(60), <3>1, <3>2
  <2>3. ASSUME NEW g \in todo[c], reassignEvent(c, g)
        PROVE  rowEvent[eventId[f]] \notin {NoFill, f}
    <3>1. pc[c] = "reinsert" /\ todo' = todo
      BY ZenonT(60), <1>0, <2>3 DEF reassignEvent, persisted
    <3>2. QED
      BY SMTT(60), Z3T(60), <1>0, <1>0a, <3>1 DEF nextEvent
  <2>4. CASE readNextId(c)
    BY ZenonT(60), <1>0, <1>0a, <2>4 DEF readNextId, nextEvent
  <2>5. QED
    BY ZenonT(60), <1>0, <1>2, <2>1, <2>2, <2>3, <2>4
    DEF Caller, applyInlineEngineEvents, getPollCursorForEngine,
        reconcilePollCursorIfEngineBehind, persistFails, fetchMatchesForEngine,
        bumpPollCursorForEngine
<1>3. QED
  BY ZenonT(60), <1>1, <1>2, Actors DEF callers

(* A fill that holds the row of its id holds no other. *)
LEMMA OwnRowsStep ==
  ASSUME TypeOK, Links, RowsExist, OwnRows, Next
  PROVE  OwnRows'
<1>0. /\ rowEvent \in [EventIds -> 0 .. MaxFills]
      /\ made \in Nat /\ made' \in Nat /\ made <= made'
      /\ \A f \in 1 .. made : eventId[f] \in EventIds /\ eventId'[f] = eventId[f]
      /\ \A i \in EventIds : rowEvent[i] # NoFill => rowEvent'[i] = rowEvent[i]
      /\ \A i \in EventIds : rowEvent'[i] \in 0 .. made
  BY ZenonT(60), TypeParts, MadeStep, RowsKeepTheirFill DEF TypeRows, Links
<1>1. ASSUME NEW i \in EventIds, NEW f \in 1 .. made', rowEvent'[i] = f
      PROVE  eventId'[f] = i \/ rowEvent'[eventId'[f]] \notin {NoFill, f}
  <2>1. f \in 1 .. made
    BY SMTT(60), Z3T(60), <1>0, <1>1
  <2>2. eventId'[f] = eventId[f] /\ eventId[f] \in EventIds
    BY ZenonT(60), <1>0, <2>1
  <2>3. CASE rowEvent[i] = f
    BY ZenonT(60), <1>0, <2>1, <2>2, <2>3 DEF OwnRows
  <2>4. CASE rowEvent[i] # f
    <3>1. Written
      BY ZenonT(60), <1>1, <2>4, HowRowsAreWritten
    <3>2. PICK j \in EventIds, g \in 1 .. made :
            /\ rowEvent' = [rowEvent EXCEPT ![j] = g]
            /\ eventId[g] = j \/ rowEvent[eventId[g]] \notin {NoFill, g}
      BY ZenonT(60), <3>1 DEF Written
    <3>3. i = j /\ f = g
      BY ZenonT(60), <1>0, <1>1, <2>4, <3>2
    <3>4. QED
      BY ZenonT(60), <1>0, <2>2, <3>2, <3>3
  <2>5. QED
    BY ZenonT(60), <2>3, <2>4
<1>2. ASSUME NEW c \in Callers, NEW f \in 1 .. made',
             pc'[c] \in {"readMax", "reinsert"}, nextEvent(c, f)'
      PROVE  rowEvent'[eventId'[f]] \notin {NoFill, f}
  <2>1. f \in 1 .. made
    <3>1. f \in todo'[c]
      BY ZenonT(60), <1>2 DEF nextEvent
    <3>2. CASE Engine /\ UNCHANGED <<callers, cursor>>
      BY ZenonT(60), <3>1, <3>2 DEF callers, Links
    <3>3. CASE EngineKept
      BY ZenonT(60), <3>3 DEF EngineKept
    <3>4. QED
      BY ZenonT(60), <3>2, <3>3, Actors DEF EngineKept, engine
  <2>2. rowEvent[eventId[f]] \notin {NoFill, f}
    BY ZenonT(60), <1>2, <2>1, ReassigningStep
  <2>3. QED
    BY ZenonT(60), <1>0, <2>1, <2>2
<1>3. QED
  BY ZenonT(60), <1>1, <1>2 DEF OwnRows

(* Before the first restart an event id names one fill, and a row is its     *)
(* fill's own.                                                               *)
LEMMA FirstLifeStep ==
  ASSUME TypeOK, Links, RowsExist, OwnRows, FirstLife, Next
  PROVE  FirstLife'
<1> SUFFICES ASSUME restarts' = 0
             PROVE  /\ \A f \in 1 .. made' : eventId'[f] < nextEventId'
                    /\ \A f, g \in 1 .. made' : eventId'[f] = eventId'[g] => f = g
                    /\ \A i \in EventIds, f \in 1 .. made' :
                         rowEvent'[i] = f => eventId'[f] = i
  BY ZenonT(60) DEF FirstLife
<1>0. /\ rowEvent \in [EventIds -> 0 .. MaxFills]
      /\ eventId \in [Fills -> 0 .. MaxEventId]
      /\ restarts \in Nat /\ nextEventId \in Nat /\ nextEventId' \in Nat
      /\ made \in Nat /\ made' \in Nat /\ made <= made'
      /\ \A f \in 1 .. made : eventId[f] \in EventIds /\ eventId'[f] = eventId[f]
      /\ \A i \in EventIds : rowEvent'[i] \in 0 .. made
      /\ \A i \in EventIds : rowEvent[i] \in 0 .. made
  BY SMTT(60), Z3T(60), TypeParts, TypeStep, MadeStep, RowsKeepTheirFill, SettlementConstants
  DEF TypeRows, TypeEngine, Links
<1>1. ~ restart
  BY SMTT(60), Z3T(60), <1>0 DEF restart
<1>2. restarts = 0
  <2>1. CASE Engine
    BY ZenonT(60), <1>1, <2>1 DEF Engine, place_order, placeRefused, publishFails,
                      insert_match_event_sorted
  <2>2. CASE EngineKept
    BY ZenonT(60), <2>2 DEF EngineKept
  <2>3. QED
    BY ZenonT(60), <2>1, <2>2, Actors DEF EngineKept, engine
<1>3. /\ \A f \in 1 .. made : eventId[f] < nextEventId
      /\ \A f, g \in 1 .. made : eventId[f] = eventId[g] => f = g
      /\ \A i \in EventIds, f \in 1 .. made : rowEvent[i] = f => eventId[f] = i
  BY ZenonT(60), <1>2 DEF FirstLife
<1>4. \A i \in EventIds, f \in 1 .. made' : rowEvent'[i] = f => eventId'[f] = i
  <2> SUFFICES ASSUME NEW i \in EventIds, NEW f \in 1 .. made', rowEvent'[i] = f
               PROVE  eventId'[f] = i
    BY ZenonT(60)
  <2>1. f \in 1 .. made /\ eventId'[f] = eventId[f]
    BY SMTT(60), Z3T(60), <1>0
  <2>2. CASE rowEvent[i] = f
    BY ZenonT(60), <1>3, <2>1, <2>2
  <2>3. CASE rowEvent[i] # f
    <3>1. eventId[f] = i \/ rowEvent[eventId[f]] \notin {NoFill, f}
      BY ZenonT(60), <1>0, <2>3, HowRowsAreWritten DEF Written
    <3>2. ASSUME rowEvent[eventId[f]] \notin {NoFill, f} PROVE FALSE
      <4> DEFINE g == rowEvent[eventId[f]]
      <4>1. g \in 1 .. made
        BY SMTT(60), Z3T(60), <1>0, <2>1, <3>2 DEF NoFill
      <4>2. eventId[g] = eventId[f]
        BY ZenonT(60), <1>0, <1>3, <2>1, <4>1
      <4>3. QED
        BY ZenonT(60), <1>3, <2>1, <3>2, <4>1, <4>2
    <3>3. QED
      BY ZenonT(60), <2>1, <3>1, <3>2
  <2>4. QED
    BY ZenonT(60), <2>2, <2>3
<1>5. ASSUME NEW k \in 1 .. MaxPerPlace, place_order(k)
      PROVE  /\ \A f \in 1 .. made' : eventId'[f] < nextEventId'
             /\ \A f, g \in 1 .. made' : eventId'[f] = eventId'[g] => f = g
  <2>1. /\ k \in Nat \ {0} /\ made' = made + k /\ nextEventId' = nextEventId + k
        /\ made + k <= MaxFills /\ MaxFills \in Nat
    BY SMTT(60), Z3T(60), <1>5, SettlementConstants DEF place_order
  <2>2. \A f \in made + 1 .. made + k : eventId'[f] = nextEventId + (f - made - 1)
    BY SMTT(60), Z3T(60), <1>0, <1>5, <2>1 DEF place_order, Fills
  <2>3. \A f \in 1 .. made : eventId'[f] \in Nat /\ eventId'[f] < nextEventId
    BY SMTT(60), Z3T(60), <1>0, <1>3 DEF EventIds
  <2>4. \A f \in 1 .. made' : f \in 1 .. made \/ f \in made + 1 .. made + k
    BY SMTT(60), Z3T(60), <1>0, <2>1
  <2>5. \A f \in 1 .. made' : eventId'[f] < nextEventId'
    BY SMTT(60), Z3T(60), <1>0, <2>1, <2>2, <2>3, <2>4
  <2>6. ASSUME NEW f \in 1 .. made', NEW g \in 1 .. made', eventId'[f] = eventId'[g]
        PROVE  f = g
    <3>1. CASE f \in 1 .. made /\ g \in 1 .. made
      BY ZenonT(60), <1>0, <1>3, <2>6, <3>1
    <3>2. CASE f \in made + 1 .. made + k /\ g \in made + 1 .. made + k
      BY SMTT(60), Z3T(60), <1>0, <2>1, <2>2, <2>6, <3>2
    <3>3. CASE f \in 1 .. made /\ g \in made + 1 .. made + k
      BY SMTT(60), Z3T(60), <1>0, <2>1, <2>2, <2>3, <2>6, <3>3
    <3>4. CASE f \in made + 1 .. made + k /\ g \in 1 .. made
      BY SMTT(60), Z3T(60), <1>0, <2>1, <2>2, <2>3, <2>6, <3>4
    <3>5. QED
      BY ZenonT(60), <2>4, <3>1, <3>2, <3>3, <3>4
  <2>7. QED
    BY ZenonT(60), <2>5, <2>6
<1>6. CASE UNCHANGED <<made, eventId>> /\ nextEventId' >= nextEventId
  <2>1. \A f \in 1 .. made' : eventId'[f] < nextEventId'
    <3>1. \A f \in 1 .. made : eventId[f] \in Nat
      BY SMTT(60), Z3T(60), <1>0 DEF EventIds
    <3>2. QED
      BY SMTT(60), Z3T(60), <1>0, <1>3, <1>6, <3>1
  <2>2. QED
    BY ZenonT(60), <1>3, <1>4, <1>6, <2>1
<1>7. QED
  <2>1. CASE Engine
    <3>1. ASSUME NEW k \in 1 .. MaxPerPlace, placeRefused(k)
          PROVE  UNCHANGED <<made, eventId>> /\ nextEventId' >= nextEventId
      BY SMTT(60), Z3T(60), <1>0, <3>1 DEF placeRefused
    <3>2. ASSUME NEW F \in placing,
                 publishFails(F) \/ insert_match_event_sorted(F)
          PROVE  UNCHANGED <<made, eventId>> /\ nextEventId' >= nextEventId
      BY SMTT(60), Z3T(60), <1>0, <3>2 DEF publishFails, insert_match_event_sorted
    <3>3. QED
      BY ZenonT(60), <1>1, <1>4, <1>5, <1>6, <2>1, <3>1, <3>2 DEF Engine
  <2>2. CASE EngineKept
    BY SMTT(60), Z3T(60), <1>0, <1>6, <2>2 DEF EngineKept
  <2>3. QED
    BY ZenonT(60), <2>1, <2>2, Actors DEF EngineKept, engine

(***************************************************************************)
(* The theorems.                                                           *)
(***************************************************************************)
LEMMA SettlementInit == Init => SettlementInv
<1> SUFFICES ASSUME Init PROVE SettlementInv
  BY ZenonT(60)
<1>1. TypeOK
  BY SMTT(60), Z3T(60), SettlementConstants DEF Init, TypeOK, PcValues, NoFill, NoRow
<1>2. made = 0 /\ 1 .. made = {}
  BY SMTT(60), Z3T(60) DEF Init
<1>3. Links /\ RowsExist
  BY SMTT(60), Z3T(60), <1>2 DEF Init, Links, RowsExist, NoFill, NoRow
<1>4. OwnRows /\ FirstLife
  BY <1>2, ZenonT(60) DEF OwnRows, FirstLife
<1>5. LedgerMatchesRows
  <2>1. \A f \in Fills : {i \in ledger : rowEvent[i] = f} = {}
    BY ZenonT(60) DEF Init
  <2>2. \A f \in Fills : settled[f] = 0
    BY ZenonT(60) DEF Init
  <2>3. Cardinality({}) = 0
    BY ZenonT(60), FS_EmptySet
  <2>4. QED
    BY ZenonT(60), <2>1, <2>2, <2>3 DEF Init, LedgerMatchesRows
<1>6. QED
  BY ZenonT(60), <1>1, <1>3, <1>4, <1>5 DEF SettlementInv

LEMMA SettlementStep == SettlementInv /\ [Next]_vars => SettlementInv'
<1>1. ASSUME SettlementInv, Next PROVE SettlementInv'
  <2>1. TypeOK /\ Links /\ RowsExist /\ OwnRows /\ FirstLife /\ LedgerMatchesRows
    BY ZenonT(60), <1>1 DEF SettlementInv
  <2>2. TypeOK' /\ Links' /\ RowsExist'
    BY ZenonT(60), <1>1, <2>1, TypeStep, LinksStep, RowsExistStep
  <2>3. OwnRows' /\ FirstLife' /\ LedgerMatchesRows'
    BY ZenonT(60), <1>1, <2>1, OwnRowsStep, FirstLifeStep, LedgerStep
  <2>4. QED
    BY ZenonT(60), <2>2, <2>3 DEF SettlementInv
<1>2. ASSUME SettlementInv, UNCHANGED vars PROVE SettlementInv'
  <2>1. UNCHANGED <<engine, callers, cursor>> /\ UNCHANGED <<rows, books, workers>>
    BY ZenonT(60), <1>2 DEF vars
  <2>2. TypeOK'
    BY ZenonT(60), <1>2, <2>1 DEF SettlementInv, TypeOK, engine, callers, rows, books, workers
  <2>3. Links' /\ RowsExist'
    BY ZenonT(60), <1>2, <2>1 DEF SettlementInv, Links, RowsExist, engine, callers, rows, books,
                      workers
  <2>4. OwnRows' /\ FirstLife'
    BY SMTT(60), Z3T(60), <1>2, <2>1 DEF SettlementInv, OwnRows, FirstLife, nextEvent, engine, callers,
                      rows
  <2>5. LedgerMatchesRows'
    BY ZenonT(60), <1>2, <2>1 DEF SettlementInv, LedgerMatchesRows, rows, books
  <2>6. QED
    BY ZenonT(60), <2>2, <2>3, <2>4, <2>5 DEF SettlementInv
<1>3. QED
  BY ZenonT(60), <1>1, <1>2

\* SettlementInv is an invariant: rows refer to fills that were made, are
\* written once and never over another fill, a fill in its own row is in no
\* other, and ledger, rows and moved balances agree.
THEOREM SettlementInvHolds == Spec => []SettlementInv
BY SettlementInit, SettlementStep, PTL DEF Spec

\* The ledger agrees with the rows: persistence, retries, late failure marks,
\* replays and the stream never move a fill's balances without entries for a
\* row of its own, nor twice for one row.
THEOREM LedgerAgrees == Spec => []LedgerMatchesRows
<1>1. SettlementInv => LedgerMatchesRows
  BY ZenonT(60) DEF SettlementInv
<1>2. QED
  BY <1>1, SettlementInvHolds, PTL

(* A fill all of whose rows are one row is settled at most once. *)
LEMMA OneRowOneSettlement ==
  ASSUME LedgerMatchesRows, NEW f \in Fills, NEW i,
         \A j \in ledger : rowEvent[j] = f => j = i
  PROVE  settled[f] <= 1
<1> DEFINE Of == {j \in ledger : rowEvent[j] = f}
<1>1. settled[f] = Cardinality(Of)
  BY ZenonT(60) DEF LedgerMatchesRows
<1>2. Of = {} \/ Of = {i}
  BY ZenonT(60)
<1>3. Cardinality({}) = 0 /\ Cardinality({i}) = 1
  BY ZenonT(60), FS_EmptySet, FS_Singleton
<1> HIDE DEF Of
<1>4. Cardinality(Of) = 0 \/ Cardinality(Of) = 1
  BY ZenonT(60), <1>2, <1>3
<1>5. QED
  BY SMTT(60), Z3T(60), <1>1, <1>4

\* A fill that holds the row of its own event id is settled at most once, for
\* any number of callers, workers, restarts, retries and deliveries.
THEOREM OwnRowSettledOnce == Spec => []SettledOnceInOwnRow
<1>1. SettlementInv => SettledOnceInOwnRow
  <2> SUFFICES ASSUME SettlementInv, NEW f \in 1 .. made, rowEvent[eventId[f]] = f
               PROVE  settled[f] <= 1
    BY ZenonT(60) DEF SettledOnceInOwnRow
  <2>1. f \in Fills /\ ledger \subseteq EventIds
    BY SMTT(60), Z3T(60), SettlementConstants DEF SettlementInv, TypeOK, Fills
  <2>2. \A j \in ledger : rowEvent[j] = f => j = eventId[f]
    BY ZenonT(60), <2>1 DEF SettlementInv, OwnRows
  <2>3. QED
    BY ZenonT(60), <2>1, <2>2, OneRowOneSettlement DEF SettlementInv
<1>2. QED
  BY <1>1, SettlementInvHolds, PTL

\* Until the engine is restarted, every fill is settled at most once: event
\* ids are then unique, so no event is ever given another id.
THEOREM FirstLifeSettledOnce == Spec => []SettledOnceUntilRestart
<1>1. SettlementInv => SettledOnceUntilRestart
  <2> SUFFICES ASSUME SettlementInv, restarts = 0, NEW f \in Fills
               PROVE  settled[f] <= 1
    BY ZenonT(60) DEF SettledOnceUntilRestart, SettledOnce
  <2>1. ledger \subseteq EventIds /\ made \in Nat
    BY SMTT(60), Z3T(60), SettlementConstants DEF SettlementInv, TypeOK
  <2>2. \A j \in ledger : rowEvent[j] = f => j = eventId[f]
    <3> SUFFICES ASSUME NEW j \in ledger, rowEvent[j] = f PROVE j = eventId[f]
      BY ZenonT(60)
    <3>1. f \in 1 .. made
      BY SMTT(60), Z3T(60), <2>1 DEF SettlementInv, Links, Fills
    <3>2. QED
      BY ZenonT(60), <2>1, <3>1 DEF SettlementInv, FirstLife
  <2>3. QED
    BY ZenonT(60), <2>2, OneRowOneSettlement DEF SettlementInv
<1>2. QED
  BY <1>1, SettlementInvHolds, PTL
==============================================================================
