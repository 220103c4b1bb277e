------------------------- MODULE EngineJournalProofs -------------------------
(***************************************************************************)
(* Proofs about EngineJournal, for every set of fills and calls, every     *)
(* configuration and any number of crashes.  JournalInv is inductive by    *)
(* itself: what a crash may lose is decided by the journal, the publisher  *)
(* and the calls alone.  SyncInv, about the book and the snapshots of the  *)
(* synchronous configurations, is inductive on top of it.                  *)
(***************************************************************************)
EXTENDS EngineJournal, FiniteSetTheorems, TLAPS

\* EventTypes and what is where, apart from the calls.
FilesInv ==
  /\ queue \subseteq given /\ unacked \subseteq given /\ unwritten.events \subseteq given
  /\ stream \subseteq given /\ committed \subseteq given
  /\ \A i \in EventIds : evt[i] # NoFill => <<i, evt[i]>> \in given

AckInv ==
  /\ \A i \in acked \union unwritten.acks : PublishedId(i)
  /\ \A e \in unacked : Published(e)

LEMMA JournalParts ==
  JournalInv <=> /\ EventTypes /\ FilesInv /\ AckInv
                 /\ \A c \in Calls : CallInv(c)
                 /\ CommittedFillIsKept
BY ZenonT(60) DEF JournalInv, FilesInv, AckInv

\* An event that is published stays so, and keeps its id to itself at most as
\* long as before, when only more is given out and more is in the stream.
LEMMA PublishedStays ==
  ASSUME given \subseteq given', stream \subseteq stream',
         NEW e, Published(e)
  PROVE  Published(e)'
BY ZenonT(60) DEF Published, OwnId

LEMMA PublishedIdStays ==
  ASSUME given \subseteq given', stream \subseteq stream',
         NEW i, PublishedId(i)
  PROVE  PublishedId(i)'
BY ZenonT(60), PublishedStays DEF PublishedId

\* An event is kept by a step that takes no line of the journal away unless it
\* acks the line's event, published by then.
LEMMA KeptStays ==
  ASSUME given \subseteq given', stream \subseteq stream',
         NEW e, Kept(e),
         OwnId(e)' /\ InJournal(e) => InJournal(e)' \/ e \in stream'
  PROVE  Kept(e)'
BY ZenonT(60) DEF Kept, OwnId

\* What a write puts on the line of an event that has its id to itself.
LEMMA LineOfOwnEvent ==
  ASSUME EventTypes, NEW E \in SUBSET Events, E \subseteq given,
         NEW e \in given, OwnId(e)
  PROVE  /\ e \in E => evtLines(E)[e[1]] = e[2]
         /\ evt[e[1]] = e[2] => evtLines(E)[e[1]] = e[2]
<1>1. e \in Events /\ e[1] \in EventIds /\ e[2] \in Fills /\ e = <<e[1], e[2]>>
  BY SMTT(60), Z3T(60) DEF EventTypes, Events
<1>2. \A f \in Fills : <<e[1], f>> \in E => f = e[2]
  <2> SUFFICES ASSUME NEW f \in Fills, <<e[1], f>> \in E PROVE f = e[2]
    BY ZenonT(60)
  <2>1. <<e[1], f>> = e
    BY ZenonT(60) DEF OwnId
  <2> QED  BY SMTT(60), Z3T(60), <1>1, <2>1
<1>3. evtLines(E)[e[1]] = IF \E f \in Fills : <<e[1], f>> \in E
                          THEN CHOOSE f \in Fills : <<e[1], f>> \in E ELSE evt[e[1]]
  BY ZenonT(60), <1>1 DEF evtLines
<1>4. ASSUME \E f \in Fills : <<e[1], f>> \in E  PROVE evtLines(E)[e[1]] = e[2]
  <2>1. PICK f \in Fills : <<e[1], f>> \in E  BY ZenonT(60), <1>4
  <2>2. (CHOOSE g \in Fills : <<e[1], g>> \in E) \in Fills
        /\ <<e[1], CHOOSE g \in Fills : <<e[1], g>> \in E>> \in E
    BY ZenonT(60), <2>1
  <2> QED  BY ZenonT(60), <1>2, <1>3, <1>4, <2>2
<1>5. e \in E => \E f \in Fills : <<e[1], f>> \in E
  BY ZenonT(60), <1>1
<1> QED  BY ZenonT(60), <1>3, <1>4, <1>5

\* The lines after a write are of given events, if those written are.
LEMMA LinesGiven ==
  ASSUME EventTypes, FilesInv, NEW E \in SUBSET Events, E \subseteq given
  PROVE  /\ evtLines(E) \in [EventIds -> Fills \union {NoFill}]
         /\ \A i \in EventIds : evtLines(E)[i] # NoFill => <<i, evtLines(E)[i]>> \in given
<1> SUFFICES ASSUME NEW i \in EventIds
             PROVE  /\ evtLines(E)[i] \in Fills \union {NoFill}
                    /\ evtLines(E)[i] # NoFill => <<i, evtLines(E)[i]>> \in given
  BY ZenonT(60) DEF evtLines
<1>1. evtLines(E)[i] = IF \E f \in Fills : <<i, f>> \in E
                       THEN CHOOSE f \in Fills : <<i, f>> \in E ELSE evt[i]
  BY ZenonT(60) DEF evtLines
<1>2. CASE \E f \in Fills : <<i, f>> \in E
  <2>1. (CHOOSE g \in Fills : <<i, g>> \in E) \in Fills
        /\ <<i, CHOOSE g \in Fills : <<i, g>> \in E>> \in E
    BY ZenonT(60), <1>2
  <2> QED  BY ZenonT(60), <1>1, <1>2, <2>1
<1>3. CASE ~ \E f \in Fills : <<i, f>> \in E
  BY ZenonT(60), <1>1, <1>3 DEF EventTypes, FilesInv
<1> QED  BY ZenonT(60), <1>2, <1>3

\* A write keeps what is kept, and acks nothing that is not published.
JournalStep ==
  /\ evt' \in [EventIds -> Fills \union {NoFill}] /\ acked' \subseteq EventIds
  /\ unwritten' \in [events : SUBSET Events, acks : SUBSET EventIds]
  /\ unwritten'.events \subseteq given
  /\ \A i \in EventIds : evt'[i] # NoFill => <<i, evt'[i]>> \in given
  /\ \A i \in acked' \union unwritten'.acks : PublishedId(i)'
  /\ \A e \in given : Kept(e) => Kept(e)'

LEMMA LinesWritten ==
  ASSUME EventTypes, FilesInv, AckInv,
         NEW D \in SUBSET Events, D \subseteq given,
         NEW X \in SUBSET Events, X \subseteq given,
         NEW B \in SUBSET EventIds, NEW Y \in SUBSET EventIds,
         \A i \in B \union Y : PublishedId(i),
         evt' = evtLines(D), acked' = acked \union B,
         unwritten' = [events |-> X, acks |-> Y],
         given' = given, stream' = stream
  PROVE  /\ JournalStep
         /\ \A e \in D : Kept(e)'
<1>1. evt' \in [EventIds -> Fills \union {NoFill}]
      /\ \A i \in EventIds : evt'[i] # NoFill => <<i, evt'[i]>> \in given
  BY ZenonT(60), LinesGiven
<1>2. \A i \in acked' \union unwritten'.acks : PublishedId(i)'
  BY ZenonT(60) DEF AckInv, PublishedId, Published, OwnId
<1>3. \A e \in given : OwnId(e)' /\ e[1] \in acked' => e \in stream'
  BY ZenonT(60), <1>2 DEF PublishedId, Published, OwnId
<1>4. ASSUME NEW e \in given, OwnId(e)', evt[e[1]] = e[2] \/ e \in D
      PROVE  evt'[e[1]] = e[2]
  <2>1. OwnId(e)  BY ZenonT(60), <1>4 DEF OwnId
  <2> QED  BY ZenonT(60), <1>4, <2>1, LineOfOwnEvent
<1>5. \A e \in given : Kept(e) => Kept(e)'
  BY ZenonT(60), <1>3, <1>4 DEF Kept, InJournal, OwnId
<1>6. \A e \in D : Kept(e)'
  BY ZenonT(60), <1>3, <1>4 DEF Kept, InJournal
<1> QED  BY ZenonT(60), <1>1, <1>2, <1>5, <1>6 DEF EventTypes, JournalStep

LEMMA WriteKeeps ==
  ASSUME EventTypes, FilesInv, AckInv,
         NEW E \in SUBSET Events, E \subseteq given, NEW A \in SUBSET EventIds,
         \A i \in A : PublishedId(i),
         write(E, A) \/ writeFails(E, A),
         given' = given, stream' = stream
  PROVE  /\ JournalStep
         /\ write(E, A) => \A e \in E : Kept(e)'
<1>1. /\ unwritten.events \in SUBSET Events /\ unwritten.events \subseteq given
      /\ unwritten.acks \in SUBSET EventIds
      /\ \A i \in unwritten.acks : PublishedId(i)
  BY ZenonT(60) DEF EventTypes, FilesInv, AckInv
<1>2. CASE write(E, A)
  <2>1. PICK D \in SUBSET Events, B \in SUBSET EventIds :
          D = unwritten.events \union E /\ B = unwritten.acks \union A
    BY ZenonT(60), <1>1
  <2>2. evt' = evtLines(D) /\ acked' = acked \union B
        /\ unwritten' = [events |-> {}, acks |-> {}]
    BY ZenonT(60), <1>2, <2>1 DEF write, Nothing
  <2>3. D \subseteq given /\ \A i \in B \union {} : PublishedId(i)
    BY ZenonT(60), <1>1, <2>1
  <2>4. JournalStep /\ \A e \in D : Kept(e)'
    BY ZenonT(60), <2>2, <2>3, LinesWritten
  <2> QED  BY ZenonT(60), <2>1, <2>4
<1>3. CASE writeFails(E, A) /\ ~ write(E, A)
  <2>1. PICK D \in SUBSET (unwritten.events \union E), B \in SUBSET (unwritten.acks \union A) :
          /\ evt' = evtLines(D) /\ acked' = acked \union B
          /\ unwritten' = [events |-> (unwritten.events \union E) \ D,
                           acks |-> (unwritten.acks \union A) \ B]
    BY ZenonT(60), <1>3 DEF writeFails
  <2>2. PICK X \in SUBSET Events, Y \in SUBSET EventIds :
          X = (unwritten.events \union E) \ D /\ Y = (unwritten.acks \union A) \ B
    BY ZenonT(60), <1>1
  <2>3. D \in SUBSET Events /\ D \subseteq given /\ B \in SUBSET EventIds /\ X \subseteq given
        /\ \A i \in B \union Y : PublishedId(i)
    BY ZenonT(60), <1>1, <2>2
  <2>4. unwritten' = [events |-> X, acks |-> Y]
    BY ZenonT(60), <2>1, <2>2
  <2>5. JournalStep
    BY ZenonT(60), <2>1, <2>3, <2>4, LinesWritten
  <2> QED  BY ZenonT(60), <1>3, <2>5
<1> QED  BY ZenonT(60), <1>2, <1>3

\* The stream either takes the event or has its id already.
LEMMA AcceptedIsPublished ==
  ASSUME FilesInv, NEW e \in given, accepts(e), given' = given
  PROVE  Published(e)' /\ stream \subseteq stream' /\ stream' \subseteq given
BY ZenonT(60) DEF accepts, Published, OwnId, FilesInv

LEMMA CallStays ==
  ASSUME NEW x \in Calls, CallInv(x), call'[x] = call[x],
         given \subseteq given', stream \subseteq stream',
         \A e \in given : Kept(e) => Kept(e)'
  PROVE  CallInv(x)'
<1>1. \A e \in given : Published(e) => Published(e)'
  BY ZenonT(60), PublishedStays
<1>2. call[x].events \subseteq given /\ call[x].todo \subseteq call[x].events
  BY ZenonT(60) DEF CallInv
<1> QED  BY ZenonT(60), <1>1, <1>2 DEF CallInv

\* What a step has to show.
LEMMA StepKeepsInv ==
  ASSUME JournalInv, EventTypes', FilesInv', AckInv',
         given \subseteq given', stream \subseteq stream',
         \A e \in given : Kept(e) => Kept(e)',
         \A x \in Calls : call'[x] = call[x] \/ CallInv(x)',
         \A e \in committed' \ committed : Kept(e)'
  PROVE  JournalInv'
<1>1. ASSUME NEW x \in Calls PROVE CallInv(x)'
  <2>1. CASE call'[x] = call[x]
    BY ZenonT(60), <2>1, CallStays DEF JournalInv
  <2> QED  BY ZenonT(60), <2>1
<1>2. CommittedFillIsKept'
  BY ZenonT(60) DEF JournalInv, CommittedFillIsKept, Kept
<1> QED  BY ZenonT(60), <1>1, <1>2 DEF JournalInv, FilesInv, AckInv

-----------------------------------------------------------------------------
(* The steps.                                                              *)

\* Steps on the book, the snapshot and the phase leave all of it alone.
LEMMA QuietSteps ==
  ASSUME JournalInv, UNCHANGED <<call, journal, publisher, given, committed>>,
         nextEventId' \in 1 .. MaxEventId + 1,
         snapshot' # NoSnapshot => snapshot'.next \in 1 .. MaxEventId + 1
  PROVE  JournalInv'
<1>1. /\ call' = call /\ evt' = evt /\ acked' = acked /\ unwritten' = unwritten
      /\ queue' = queue /\ unacked' = unacked /\ stream' = stream
      /\ given' = given /\ committed' = committed
  BY ZenonT(60) DEF journal, publisher
<1>2. EventTypes /\ FilesInv /\ AckInv
  BY ZenonT(60), JournalParts
<1>3. EventTypes'
  BY ZenonT(60), <1>1, <1>2 DEF EventTypes
<1>4. FilesInv'
  BY ZenonT(60), <1>1, <1>2 DEF FilesInv
<1>5. AckInv' /\ \A e \in given : Kept(e) => Kept(e)'
  BY ZenonT(60), <1>1, <1>2 DEF AckInv, PublishedId, Published, Kept, InJournal, OwnId
<1> QED  BY ZenonT(60), <1>1, <1>3, <1>4, <1>5, StepKeepsInv

\* A step of one call that leaves the journal and the publisher alone.
LEMMA CallStep ==
  ASSUME JournalInv, NEW c \in Calls, NEW k \in CallStates,
         call' = [call EXCEPT ![c] = k], CallInv(c)',
         UNCHANGED <<journal, unacked, stream, snapshot>>,
         given \subseteq given', given' \subseteq Events,
         queue' \subseteq given', committed' \subseteq given',
         nextEventId' \in 1 .. MaxEventId + 1,
         \A e \in committed' \ committed : Kept(e)'
  PROVE  JournalInv'
<1>1. /\ evt' = evt /\ acked' = acked /\ unwritten' = unwritten
      /\ unacked' = unacked /\ stream' = stream /\ snapshot' = snapshot
  BY ZenonT(60) DEF journal
<1>2. EventTypes /\ FilesInv /\ AckInv
  BY ZenonT(60), JournalParts
<1>3. EventTypes'
  BY <1>1, <1>2, ZenonT(60) DEF EventTypes, FilesInv
<1>4. FilesInv'
  BY <1>1, <1>2, ZenonT(60) DEF FilesInv
<1>5. AckInv' /\ \A e \in given : Kept(e) => Kept(e)'
  <2>1. \A i \in acked' \union unwritten'.acks : PublishedId(i)'
    BY ZenonT(60), <1>1, <1>2, PublishedIdStays DEF AckInv
  <2>2. \A e \in unacked' : Published(e)'
    BY ZenonT(60), <1>1, <1>2, PublishedStays DEF AckInv
  <2>3. \A e \in given : Kept(e) => Kept(e)'
    BY ZenonT(60), <1>1 DEF Kept, InJournal, OwnId
  <2> QED  BY ZenonT(60), <2>1, <2>2, <2>3 DEF AckInv
<1>6. \A x \in Calls : call'[x] = call[x] \/ CallInv(x)'
  BY ZenonT(60), <1>2 DEF EventTypes
<1> QED  BY ZenonT(60), <1>1, <1>3, <1>4, <1>5, <1>6, StepKeepsInv

\* A step that writes to the journal.
LEMMA WriteStep ==
  ASSUME JournalInv, JournalStep, call' \in [Calls -> CallStates],
         \A x \in Calls : call'[x] = call[x] \/ CallInv(x)',
         unacked' \subseteq unacked,
         UNCHANGED <<queue, stream, given, committed, nextEventId, snapshot>>
  PROVE  JournalInv'
<1>1. EventTypes /\ FilesInv /\ AckInv
  BY ZenonT(60), JournalParts
<1>2. EventTypes'
  BY <1>1, ZenonT(60) DEF EventTypes, JournalStep
<1>3. FilesInv'
  BY <1>1, ZenonT(60) DEF FilesInv, JournalStep
<1>4. \A e \in unacked' : Published(e)'
  BY ZenonT(60), <1>1 DEF AckInv, Published, OwnId
<1>5. AckInv' /\ \A e \in given : Kept(e) => Kept(e)'
  BY <1>4, ZenonT(60) DEF AckInv, JournalStep
<1> QED  BY ZenonT(60), <1>2, <1>3, <1>5, StepKeepsInv

Stages == {"idle", "append", "publish", "ack", "commit", "record", "enqueue"}

LEMMA CallMoves ==
  ASSUME EventTypes, NEW c \in Calls
  PROVE  /\ refused(c) => /\ call' \in [Calls -> CallStates]
                          /\ call'[c] = NoCall
                          /\ \A x \in Calls : x # c => call'[x] = call[x]
         /\ \A stage \in Stages : goes(c, stage) =>
              /\ call' \in [Calls -> CallStates]
              /\ call'[c] = [at |-> stage, 
                             events |-> call[c].events, todo |-> call[c].events]
              /\ \A x \in Calls : x # c => call'[x] = call[x]
         /\ \A e : call' = [call EXCEPT ![c].todo = @ \ {e}] =>
              /\ call' \in [Calls -> CallStates]
              /\ call'[c] = [at |-> call[c].at, 
                             events |-> call[c].events, todo |-> call[c].todo \ {e}]
              /\ \A x \in Calls : x # c => call'[x] = call[x]
<1>1. call \in [Calls -> CallStates] /\ call[c] \in CallStates
  BY ZenonT(60) DEF EventTypes
<1>2. NoCall \in CallStates
  BY ZenonT(60) DEF NoCall, CallStates
<1>3. refused(c) => /\ call' \in [Calls -> CallStates]
                    /\ call'[c] = NoCall
                    /\ \A x \in Calls : x # c => call'[x] = call[x]
  BY ZenonT(60), <1>1, <1>2 DEF refused
<1>4. ASSUME NEW stage \in Stages, goes(c, stage)
      PROVE  /\ call' \in [Calls -> CallStates]
             /\ call'[c] = [at |-> stage, 
                            events |-> call[c].events, todo |-> call[c].events]
             /\ \A x \in Calls : x # c => call'[x] = call[x]
  BY ZenonT(60), <1>1, <1>4 DEF goes, CallStates, Stages
<1>5. ASSUME NEW e, call' = [call EXCEPT ![c].todo = @ \ {e}]
      PROVE  /\ call' \in [Calls -> CallStates]
             /\ call'[c] = [at |-> call[c].at, 
                            events |-> call[c].events, todo |-> call[c].todo \ {e}]
             /\ \A x \in Calls : x # c => call'[x] = call[x]
  BY ZenonT(60), <1>1, <1>5 DEF CallStates
<1> QED  BY ZenonT(60), <1>3, <1>4, <1>5

LEMMA IdleCall ==
  ASSUME NEW c \in Calls, call'[c] = NoCall
  PROVE  CallInv(c)'
BY SMTT(60), Z3T(60) DEF CallInv, NoCall

\* A placement that matches gives out new events under new ids.
LEMMA PlaceFacts ==
  ASSUME EventTypes, NEW c \in Calls, place(c)
  PROVE  /\ nextEventId' \in 1 .. MaxEventId + 1
         /\ \E E \in SUBSET Events, k \in CallStates :
              /\ k = [at |-> IF mode = "sync" THEN "publish" ELSE "append",
                      events |-> E, todo |-> E]
              /\ given' = given \union E /\ call' = [call EXCEPT ![c] = k]
<1>1. PICK F \in match_orders :
        /\ nextEventId + Cardinality(F) <= MaxEventId + 1
        /\ nextEventId' = nextEventId + Cardinality(F)
        /\ \E id \in [F -> nextEventId .. nextEventId + Cardinality(F) - 1] :
             LET events == {<<id[f], f>> : f \in F}
             IN /\ given' = given \union events
                /\ call' = [call EXCEPT ![c] =
                     [at |-> IF mode = "sync" THEN "publish" ELSE "append",
                      events |-> events, todo |-> events]]
  BY ZenonT(60) DEF place
<1>2. F \subseteq Fills /\ IsFiniteSet(Fills)
  BY ZenonT(60), JournalConstants DEF match_orders
<1>3. Cardinality(F) \in Nat
  BY ZenonT(60), <1>2, FS_Subset, FS_CardinalityType
<1>4. nextEventId \in Nat /\ nextEventId >= 1 /\ MaxEventId \in Nat
  BY SMTT(60), Z3T(60), JournalConstants DEF EventTypes
<1>5. PICK id \in [F -> nextEventId .. nextEventId + Cardinality(F) - 1] :
        /\ given' = given \union {<<id[f], f>> : f \in F}
        /\ call' = [call EXCEPT ![c] =
             [at |-> IF mode = "sync" THEN "publish" ELSE "append",
              events |-> {<<id[f], f>> : f \in F}, todo |-> {<<id[f], f>> : f \in F}]]
  BY ZenonT(60), <1>1
<1>6. nextEventId' \in 1 .. MaxEventId + 1
  BY SMTT(60), Z3T(60), <1>1, <1>3, <1>4
<1>7. \A f \in F : id[f] \in EventIds
  BY SMTT(60), Z3T(60), <1>1, <1>3, <1>4, <1>5 DEF EventIds
<1>8. {<<id[f], f>> : f \in F} \in SUBSET Events
  BY SMTT(60), Z3T(60), <1>2, <1>7 DEF Events
<1>9. PICK E \in SUBSET Events : E = {<<id[f], f>> : f \in F}
  BY ZenonT(60), <1>8
<1>10. [at |-> IF mode = "sync" THEN "publish" ELSE "append", events |-> E, todo |-> E] \in CallStates
  BY ZenonT(60) DEF CallStates
<1> QED  BY ZenonT(60), <1>5, <1>6, <1>9, <1>10

LEMMA PlaceStep ==
  ASSUME JournalInv, NEW c \in Calls, place(c)
  PROVE  JournalInv'
<1>1. EventTypes /\ FilesInv /\ AckInv /\ CallInv(c)
  BY ZenonT(60), JournalParts
<1>2. /\ UNCHANGED <<journal, queue, unacked, stream, snapshot, committed>>
      /\ UNCHANGED <<journal, publisher>>
  BY ZenonT(60) DEF place, publisher, snapshots
<1>3. nextEventId' \in 1 .. MaxEventId + 1
  BY ZenonT(60), <1>1, PlaceFacts
<1>4. PICK E \in SUBSET Events, k \in CallStates :
        /\ k = [at |-> IF mode = "sync" THEN "publish" ELSE "append",
                events |-> E, todo |-> E]
        /\ given' = given \union E /\ call' = [call EXCEPT ![c] = k]
  BY ZenonT(60), <1>1, PlaceFacts
<1>5. call'[c] = k
  BY ZenonT(60), <1>1, <1>4 DEF EventTypes
<1>6. CallInv(c)'
  BY SMTT(60), Z3T(60), <1>4, <1>5 DEF CallInv
<1>7. given \subseteq given' /\ given' \subseteq Events
      /\ queue' \subseteq given' /\ committed' \subseteq given'
      /\ committed' = committed
  BY ZenonT(60), <1>1, <1>2, <1>4 DEF EventTypes, FilesInv
<1>8. UNCHANGED <<journal, unacked, stream, snapshot>>
  BY ZenonT(60), <1>2
<1> QED  BY ZenonT(60), <1>3, <1>4, <1>6, <1>7, <1>8, CallStep

LEMMA AppendStep ==
  ASSUME JournalInv, NEW c \in Calls, append_events_batch(c)
  PROVE  JournalInv'
<1>1. EventTypes /\ FilesInv /\ AckInv /\ CallInv(c)
  BY ZenonT(60), JournalParts
<1>2. /\ UNCHANGED <<queue, stream, given, committed, nextEventId, snapshot>>
      /\ unacked' = unacked /\ given' = given /\ stream' = stream
      /\ {} \in SUBSET EventIds /\ \A i \in {} : PublishedId(i)
  BY ZenonT(60) DEF append_events_batch, engine, publisher, snapshots
<1>3. PICK E \in SUBSET Events : E = call[c].events /\ E \subseteq given
  BY ZenonT(60), <1>1 DEF EventTypes, CallStates, CallInv
<1>4. CASE /\ write(E, {})
           /\ goes(c, IF mode = "journal" THEN "commit" ELSE "publish")
  <2>1. JournalStep /\ \A e \in E : Kept(e)'
    BY <1>1, <1>2, <1>3, <1>4, WriteKeeps, ZenonT(60)
  <2>2. PICK stage \in Stages : stage = IF mode = "journal" THEN "commit" ELSE "publish"
    BY ZenonT(60) DEF Stages
  <2>3. /\ call' \in [Calls -> CallStates]
        /\ call'[c] = [at |-> stage, events |-> E, todo |-> E]
        /\ \A x \in Calls : x # c => call'[x] = call[x]
    BY ZenonT(60), <1>1, <1>3, <1>4, <2>2, CallMoves
  <2>4. CallInv(c)'
    BY SMTT(60), Z3T(60), <1>2, <1>3, <2>1, <2>2, <2>3 DEF CallInv
  <2> QED  BY ZenonT(60), <1>2, <2>1, <2>3, <2>4, WriteStep
<1>5. CASE writeFails(E, {}) /\ refused(c)
  <2>1. JournalStep
    BY <1>1, <1>2, <1>3, <1>5, WriteKeeps, ZenonT(60)
  <2> QED  BY ZenonT(60), <1>1, <1>2, <1>5, <2>1, WriteStep, CallMoves, IdleCall
<1> QED  BY ZenonT(60), <1>3, <1>4, <1>5 DEF append_events_batch

\* A step that offers an event to the stream.
LEMMA StreamStep ==
  ASSUME JournalInv, NEW e \in given, accepts(e) \/ stream' = stream,
         call' \in [Calls -> CallStates],
         \A x \in Calls : call'[x] = call[x] \/ CallInv(x)',
         queue' \subseteq queue, unacked' \subseteq unacked \union {e},
         accepts(e) \/ unacked' \subseteq unacked,
         UNCHANGED <<journal, given, committed, nextEventId, snapshot>>
  PROVE  JournalInv'
<1>1. EventTypes /\ FilesInv /\ AckInv
  BY ZenonT(60), JournalParts
<1>2. /\ evt' = evt /\ acked' = acked /\ unwritten' = unwritten /\ given' = given
      /\ committed' = committed /\ nextEventId' = nextEventId /\ snapshot' = snapshot
  BY ZenonT(60) DEF journal
<1>3. stream \subseteq stream' /\ stream' \subseteq given
  BY ZenonT(60), <1>1, <1>2, AcceptedIsPublished DEF FilesInv
<1>4. EventTypes'
  BY <1>1, <1>2, <1>3, ZenonT(60) DEF EventTypes, FilesInv
<1>5. FilesInv'
  BY <1>1, <1>2, <1>3, ZenonT(60) DEF FilesInv
<1>6. \A i \in acked' \union unwritten'.acks : PublishedId(i)'
  BY ZenonT(60), <1>1, <1>2, <1>3, PublishedIdStays DEF AckInv
<1>7. \A d \in unacked' : Published(d)'
  BY ZenonT(60), <1>1, <1>2, <1>3, PublishedStays, AcceptedIsPublished DEF AckInv
<1>8. \A d \in given : Kept(d) => Kept(d)'
  BY ZenonT(60), <1>2, <1>3 DEF Kept, InJournal, OwnId
<1>9. AckInv'
  BY ZenonT(60), <1>6, <1>7 DEF AckInv
<1> QED  BY ZenonT(60), <1>2, <1>3, <1>4, <1>5, <1>8, <1>9, StepKeepsInv

LEMMA PublishedIsKept ==
  ASSUME NEW e, Published(e)
  PROVE  Kept(e)
BY ZenonT(60) DEF Published, Kept

LEMMA PublishStep ==
  ASSUME JournalInv, NEW c \in Calls, NEW e \in call[c].todo,
         publish_partitioned_sync(c, e)
  PROVE  JournalInv'
<1>1. EventTypes /\ FilesInv /\ AckInv /\ CallInv(c)
  BY ZenonT(60), JournalParts
<1>2. e \in given /\ call[c].events \subseteq given /\ call[c].todo \subseteq call[c].events
  BY ZenonT(60), <1>1 DEF CallInv
<1>3. /\ UNCHANGED <<journal, given, committed, nextEventId, snapshot>>
      /\ queue' = queue /\ unacked' = unacked /\ given' = given
  BY ZenonT(60) DEF publish_partitioned_sync, engine, snapshots
<1>4. CASE refused(c) /\ (accepts(e) \/ stream' = stream)
  BY ZenonT(60), <1>1, <1>2, <1>3, <1>4, StreamStep, CallMoves, IdleCall
<1>5. ASSUME accepts(e), call[c].at = "publish"
      PROVE  \A d \in call[c].events \ (call[c].todo \ {e}) : Published(d)'
  <2>1. Published(e)' /\ stream \subseteq stream'
    BY ZenonT(60), <1>1, <1>2, <1>3, <1>5, AcceptedIsPublished
  <2>2. \A d \in call[c].events \ call[c].todo : Published(d)'
    BY ZenonT(60), <1>1, <1>3, <1>5, <2>1, PublishedStays DEF CallInv
  <2> QED  BY ZenonT(60), <2>1, <2>2
<1>6. CASE /\ accepts(e) /\ call[c].at = "publish"
           /\ call' = [call EXCEPT ![c].todo = @ \ {e}]
  <2>1. /\ call' \in [Calls -> CallStates]
        /\ call'[c] = [at |-> call[c].at, 
                       events |-> call[c].events, todo |-> call[c].todo \ {e}]
        /\ \A x \in Calls : x # c => call'[x] = call[x]
    BY ZenonT(60), <1>1, <1>6, CallMoves
  <2>2. CallInv(c)'
    BY SMTT(60), Z3T(60), <1>2, <1>3, <1>5, <1>6, <2>1 DEF CallInv
  <2> QED  BY ZenonT(60), <1>2, <1>3, <1>6, <2>1, <2>2, StreamStep
<1>7. CASE /\ accepts(e) /\ call[c].at = "publish" /\ call[c].todo = {e}
           /\ goes(c, IF mode = "sync" THEN "commit" ELSE "ack")
  <2>1. PICK stage \in Stages : stage = IF mode = "sync" THEN "commit" ELSE "ack"
    BY ZenonT(60) DEF Stages
  <2>2. /\ call' \in [Calls -> CallStates]
        /\ call'[c] = [at |-> stage, 
                       events |-> call[c].events, todo |-> call[c].events]
        /\ \A x \in Calls : x # c => call'[x] = call[x]
    BY ZenonT(60), <1>1, <1>7, <2>1, CallMoves
  <2>3. \A d \in call[c].events : Published(d)' /\ Kept(d)'
    BY ZenonT(60), <1>5, <1>7, PublishedIsKept DEF Published, Kept
  <2>4. CallInv(c)'
    BY SMTT(60), Z3T(60), <1>2, <1>3, <2>1, <2>2, <2>3 DEF CallInv
  <2> QED  BY ZenonT(60), <1>2, <1>3, <1>7, <2>2, <2>4, StreamStep
<1> QED  BY ZenonT(60), <1>4, <1>6, <1>7 DEF publish_partitioned_sync

LEMMA AckStep ==
  ASSUME JournalInv, NEW c \in Calls, NEW e \in call[c].todo, append_ack(c, e)
  PROVE  JournalInv'
<1>1. EventTypes /\ FilesInv /\ AckInv /\ CallInv(c)
  BY ZenonT(60), JournalParts
<1>2. e \in given /\ call[c].events \subseteq given /\ call[c].todo \subseteq call[c].events
      /\ call[c].at = "ack"
  BY ZenonT(60), <1>1 DEF CallInv, append_ack
<1>3. /\ UNCHANGED <<queue, stream, given, committed, nextEventId, snapshot>>
      /\ unacked' = unacked /\ given' = given /\ stream' = stream
  BY ZenonT(60) DEF append_ack, engine, publisher, snapshots
<1>4. {e[1]} \in SUBSET EventIds /\ (\A i \in {e[1]} : PublishedId(i))
      /\ {} \in SUBSET Events /\ {} \subseteq given
  BY ZenonT(60), <1>1, <1>2 DEF EventTypes, Events, CallInv, PublishedId
<1>5. JournalStep
  BY ZenonT(60), <1>1, <1>3, <1>4, WriteKeeps DEF append_ack
<1>6. CASE refused(c)
  BY ZenonT(60), <1>1, <1>3, <1>5, <1>6, WriteStep, CallMoves, IdleCall
<1>7. \A d \in call[c].events : Published(d)' /\ Kept(d)'
  BY ZenonT(60), <1>1, <1>2, <1>3, PublishedStays, PublishedIsKept DEF CallInv, Published, Kept
<1>8. CASE call' = [call EXCEPT ![c].todo = @ \ {e}]
  <2>1. /\ call' \in [Calls -> CallStates]
        /\ call'[c] = [at |-> call[c].at, 
                       events |-> call[c].events, todo |-> call[c].todo \ {e}]
        /\ \A x \in Calls : x # c => call'[x] = call[x]
    BY ZenonT(60), <1>1, <1>8, CallMoves
  <2>2. CallInv(c)'
    BY SMTT(60), Z3T(60), <1>2, <1>3, <1>7, <2>1 DEF CallInv
  <2> QED  BY ZenonT(60), <1>3, <1>5, <2>1, <2>2, WriteStep
<1>9. CASE goes(c, "commit")
  <2>1. /\ call' \in [Calls -> CallStates]
        /\ call'[c] = [at |-> "commit", 
                       events |-> call[c].events, todo |-> call[c].events]
        /\ \A x \in Calls : x # c => call'[x] = call[x]
    BY ZenonT(60), <1>1, <1>9, CallMoves DEF Stages
  <2>2. CallInv(c)'
    BY SMTT(60), Z3T(60), <1>2, <1>3, <1>7, <2>1 DEF CallInv
  <2> QED  BY ZenonT(60), <1>3, <1>5, <2>1, <2>2, WriteStep
<1> QED  BY ZenonT(60), <1>6, <1>8, <1>9 DEF append_ack

\* From the commit on, a call only has events that are kept.
LEMMA CommitStep ==
  ASSUME JournalInv, NEW c \in Calls,
         \/ commitBook(c) \/ record_book_applied_for_event_ids(c) \/ enqueue(c)
  PROVE  JournalInv'
<1>1. EventTypes /\ FilesInv /\ AckInv /\ CallInv(c) /\ CommittedFillIsKept
  BY ZenonT(60), JournalParts
<1>2. call[c].at \in {"commit", "record", "enqueue"}
  BY ZenonT(60) DEF commitBook, record_book_applied_for_event_ids, enqueue
<1>3. /\ evt' = evt /\ acked' = acked /\ unwritten' = unwritten
      /\ unacked' = unacked /\ stream' = stream /\ snapshot' = snapshot
      /\ given' = given /\ nextEventId' = nextEventId
      /\ queue' \subseteq queue \union call[c].events
      /\ committed' \in {committed, committed \union call[c].events}
  BY ZenonT(60) DEF commitBook, record_book_applied_for_event_ids, enqueue, journal, publisher,
         snapshots, engine
<1>4. call[c].events \subseteq given /\ \A e \in call[c].events : Kept(e)
  BY ZenonT(60), <1>1, <1>2 DEF CallInv
<1>5. EventTypes /\ call[c].events \subseteq Events
  BY ZenonT(60), <1>1, <1>4 DEF EventTypes
<1>6. /\ call' \in [Calls -> CallStates]
      /\ \A x \in Calls : x # c => call'[x] = call[x]
      /\ \/ call'[c] = NoCall
         \/ /\ call'[c].at \in {"record", "enqueue"}
            /\ call'[c].events = call[c].events /\ call'[c].todo = call[c].events
  <2>1. refused(c) \/ \E stage \in {"record", "enqueue"} : goes(c, stage)
    BY ZenonT(60) DEF commitBook, record_book_applied_for_event_ids, enqueue
  <2>2. CASE refused(c)
    BY ZenonT(60), <1>1, <2>2, CallMoves
  <2>3. ASSUME NEW stage \in {"record", "enqueue"}, goes(c, stage)
        PROVE  /\ call' \in [Calls -> CallStates]
               /\ \A x \in Calls : x # c => call'[x] = call[x]
               /\ call'[c].at = stage
               /\ call'[c].events = call[c].events /\ call'[c].todo = call[c].events
    <3>1. stage \in Stages
      BY ZenonT(60) DEF Stages
    <3>2. /\ call' \in [Calls -> CallStates]
          /\ call'[c] = [at |-> stage, 
                         events |-> call[c].events, todo |-> call[c].events]
          /\ \A x \in Calls : x # c => call'[x] = call[x]
      BY ZenonT(60), <1>1, <2>3, <3>1, CallMoves
    <3> QED  BY SMTT(60), Z3T(60), <3>2
  <2> QED  BY ZenonT(60), <2>1, <2>2, <2>3
<1>7. \A e \in given : Kept(e) => Kept(e)'
  BY ZenonT(60), <1>3 DEF Kept, InJournal, OwnId
<1>8. CallInv(c)'
  BY ZenonT(60), <1>3, <1>4, <1>6, <1>7, IdleCall DEF CallInv
<1>9. EventTypes'
  BY ZenonT(60), <1>3, <1>5, <1>6 DEF EventTypes
<1>10. FilesInv'
  BY ZenonT(60), <1>1, <1>3, <1>4 DEF FilesInv
<1>11. AckInv'
  BY ZenonT(60), <1>1, <1>3 DEF AckInv, PublishedId, Published, OwnId
<1>12. \A e \in committed' \ committed : Kept(e)'
  BY ZenonT(60), <1>3, <1>4, <1>7
<1> QED  BY ZenonT(60), <1>3, <1>6, <1>7, <1>8, <1>9, <1>10, <1>11, <1>12, StepKeepsInv

LEMMA PublisherSteps ==
  ASSUME JournalInv, NEW e,
         (e \in queue /\ publish_one_with_retry(e)) \/ (e \in unacked /\ ackPublished(e))
  PROVE  JournalInv'
<1>1. EventTypes /\ FilesInv /\ AckInv
  BY ZenonT(60), JournalParts
<1>2. e \in given /\ call' = call /\ call' \in [Calls -> CallStates]
      /\ \A x \in Calls : call'[x] = call[x] \/ CallInv(x)'
  BY ZenonT(60), <1>1 DEF FilesInv, EventTypes, publish_one_with_retry, ackPublished
<1>3. CASE e \in queue /\ publish_one_with_retry(e)
  <2>1. /\ accepts(e) \/ stream' = stream
        /\ queue' \subseteq queue /\ unacked' \subseteq unacked \union {e}
        /\ accepts(e) \/ unacked' \subseteq unacked
        /\ UNCHANGED <<journal, given, committed, nextEventId, snapshot>>
    BY ZenonT(60), <1>3 DEF publish_one_with_retry, engine, snapshots
  <2> QED  BY ZenonT(60), <1>2, <2>1, StreamStep
<1>4. CASE e \in unacked /\ ackPublished(e)
  <2>1. /\ UNCHANGED <<queue, stream, given, committed, nextEventId, snapshot>>
        /\ unacked' \subseteq unacked /\ given' = given /\ stream' = stream
    BY ZenonT(60), <1>4 DEF ackPublished, engine, snapshots
  <2>2. {e[1]} \in SUBSET EventIds /\ (\A i \in {e[1]} : PublishedId(i))
        /\ {} \in SUBSET Events /\ {} \subseteq given
    BY ZenonT(60), <1>1, <1>2, <1>4 DEF EventTypes, Events, AckInv, PublishedId
  <2>3. JournalStep
    BY ZenonT(60), <1>1, <1>4, <2>1, <2>2, WriteKeeps DEF ackPublished
  <2> QED  BY ZenonT(60), <1>2, <2>1, <2>3, WriteStep
<1> QED  BY ZenonT(60), <1>3, <1>4

\* A crash loses the writer's buffer, the publisher's memory and the calls.
LEMMA CrashStep ==
  ASSUME JournalInv, crash
  PROVE  JournalInv'
<1>1. EventTypes /\ FilesInv /\ AckInv
  BY ZenonT(60), JournalParts
<1>2. /\ evt' = evt /\ acked' = acked /\ unwritten' = [events |-> {}, acks |-> {}]
      /\ queue' = {} /\ unacked' = {} /\ stream' = stream /\ snapshot' = snapshot
      /\ given' = given /\ nextEventId' = nextEventId /\ committed' = committed
      /\ call' = [c \in Calls |-> NoCall]
  BY ZenonT(60) DEF crash, engine, Nothing
<1>3. NoCall \in CallStates
  BY ZenonT(60) DEF NoCall, CallStates
<1>4. EventTypes'
  BY ZenonT(60), <1>1, <1>2, <1>3 DEF EventTypes
<1>5. FilesInv'
  BY ZenonT(60), <1>1, <1>2 DEF FilesInv
<1>6. AckInv' /\ \A e \in given : Kept(e) => Kept(e)'
  BY ZenonT(60), <1>1, <1>2 DEF AckInv, PublishedId, Published, Kept, InJournal, OwnId
<1>7. \A x \in Calls : CallInv(x)'
  BY ZenonT(60), <1>2, IdleCall
<1> QED  BY ZenonT(60), <1>2, <1>4, <1>5, <1>6, <1>7, StepKeepsInv

\* A start drops the acked lines of the journal, whose events the stream has.
LEMMA StartStep ==
  ASSUME JournalInv, NEW orders, NEW next \in 1 .. MaxEventId + 1, NEW ids,
         start(orders, next, ids)
  PROVE  JournalInv'
<1>1. EventTypes /\ FilesInv /\ AckInv
  BY ZenonT(60), JournalParts
<1>2. /\ evt' = [i \in EventIds |-> IF i \in acked THEN NoFill ELSE evt[i]]
      /\ acked' = {} /\ unwritten' = [events |-> {}, acks |-> {}]
      /\ unacked' = {} /\ stream' = stream /\ snapshot' = snapshot
      /\ given' = given /\ call' = call
      /\ committed \subseteq committed'
      /\ committed' \subseteq committed \union scan_unacked_for_engine
      /\ queue' \in {{}, scan_unacked_for_engine}
      /\ nextEventId' \in {nextEventId, next}
  BY ZenonT(60) DEF start, compact_journal_keep_unacked_only, snapshots, engine, Nothing
<1>3. scan_unacked_for_engine \subseteq given
  BY ZenonT(60), <1>1 DEF scan_unacked_for_engine, FilesInv
<1>4. EventTypes'
  BY ZenonT(60), <1>1, <1>2, <1>3 DEF EventTypes
<1>5. FilesInv'
  BY ZenonT(60), <1>1, <1>2, <1>3 DEF FilesInv, EventTypes
<1>6. AckInv'
  BY ZenonT(60), <1>2 DEF AckInv
<1>7. ASSUME NEW e \in given, Kept(e) PROVE Kept(e)'
  <2>1. e[1] \in EventIds
    BY ZenonT(60), <1>1 DEF EventTypes, Events
  <2> QED  BY ZenonT(60), <1>2, <1>7, <2>1 DEF Kept, InJournal, OwnId
<1>8. ASSUME NEW e \in scan_unacked_for_engine PROVE Kept(e)
  <2>1. PICK i \in EventIds : i \notin acked /\ e = <<i, evt[i]>>
    BY ZenonT(60) DEF scan_unacked_for_engine
  <2>2. e[1] = i /\ e[2] = evt[i]
    BY SMTT(60), Z3T(60), <2>1
  <2> QED  BY ZenonT(60), <2>1, <2>2 DEF Kept, InJournal
<1>9. \A e \in committed' \ committed : Kept(e)'
  BY ZenonT(60), <1>2, <1>3, <1>7, <1>8
<1> QED  BY ZenonT(60), <1>2, <1>4, <1>5, <1>6, <1>7, <1>9, StepKeepsInv

-----------------------------------------------------------------------------
\* Every step of the engine preserves JournalInv.
LEMMA JournalInvInductive ==
  JournalInv /\ [Next]_vars => JournalInv'
<1> SUFFICES ASSUME JournalInv, [Next]_vars PROVE JournalInv'
  BY ZenonT(60)
<1>1. EventTypes
  BY ZenonT(60), JournalParts
<1>2. CASE UNCHANGED vars
  <2>1. UNCHANGED <<call, journal, publisher, given, committed>>
        /\ nextEventId' = nextEventId /\ snapshot' = snapshot
    BY ZenonT(60), <1>2 DEF vars, engine, snapshots
  <2> QED  BY ZenonT(60), <1>1, <2>1, QuietSteps DEF EventTypes
<1>4. CASE collect_all_orders \/ book_applied_match_ids_snapshot \/ serve
  <2>1. UNCHANGED <<call, journal, publisher, given, committed>>
        /\ nextEventId' = nextEventId /\ snapshot' = snapshot
    BY ZenonT(60), <1>4 DEF collect_all_orders, book_applied_match_ids_snapshot, serve, snapshots, engine
  <2> QED  BY ZenonT(60), <1>1, <2>1, QuietSteps DEF EventTypes
<1>5. CASE save_snapshot_to_path
  <2>1. UNCHANGED <<call, journal, publisher, given, committed>>
        /\ nextEventId' = nextEventId /\ snapshot'.next = nextEventId
    BY ZenonT(60), <1>5 DEF save_snapshot_to_path, engine
  <2> QED  BY ZenonT(60), <1>1, <2>1, QuietSteps DEF EventTypes
<1>6. CASE load_snapshot_from_path
  BY ZenonT(60), <1>1, <1>6, StartStep DEF load_snapshot_from_path, EventTypes
<1>7. CASE rebuild_orderbook_from_backend
  <2>1. 1 \in 1 .. MaxEventId + 1
    BY SMTT(60), Z3T(60), JournalConstants
  <2> QED  BY ZenonT(60), <1>7, <2>1, StartStep DEF rebuild_orderbook_from_backend
<1> QED
  BY <1>2, <1>4, <1>5, <1>6, <1>7, PlaceStep, AppendStep, PublishStep, AckStep,
     CommitStep, PublisherSteps, CrashStep, ZenonT(60) DEF Next

LEMMA JournalInvInit ==
  Init => JournalInv
<1> SUFFICES ASSUME Init PROVE JournalInv
  BY ZenonT(60)
<1>1. EventTypes
  BY SMTT(60), Z3T(60), JournalConstants DEF Init, EventTypes, NoCall, CallStates, Nothing
<1>2. FilesInv /\ AckInv
  BY ZenonT(60) DEF Init, FilesInv, AckInv, Nothing
<1>3. \A c \in Calls : CallInv(c)
  BY ZenonT(60) DEF Init, CallInv, NoCall
<1>4. CommittedFillIsKept
  BY ZenonT(60) DEF Init, CommittedFillIsKept
<1> QED  BY ZenonT(60), <1>1, <1>2, <1>3, <1>4, JournalParts

(* The journal, the publisher and the calls stay consistent, for any       *)
(* number of fills, calls, event ids  and crashes and in each              *)
(* configuration of the engine.                                            *)
THEOREM JournalInvHolds == Spec => []JournalInv
BY JournalInvInit, JournalInvInductive, PTL DEF Spec

(* A fill that the order book took is in the stream, or in the journal as  *)
(* unacknowledged, where a start finds it and offers it to the stream.     *)
THEOREM CommittedKept == Spec => []CommittedFillIsKept
<1>1. JournalInv => CommittedFillIsKept
  BY ZenonT(60), JournalParts
<1> QED  BY <1>1, JournalInvHolds, PTL

-----------------------------------------------------------------------------
(* The synchronous configurations.                                         *)

\* Events are only given out and only accepted, and the configuration stays.
LEMMA OnlyMore ==
  ASSUME JournalInv, Next
  PROVE  given \subseteq given' /\ stream \subseteq stream' /\ mode' = mode
<1>1. CASE \E c \in Calls : place(c)
  <2>1. PICK c \in Calls : place(c)
    BY ZenonT(60), <1>1
  <2>2. given \subseteq given'
    BY ZenonT(60), <2>1, JournalParts, PlaceFacts
  <2> QED  BY ZenonT(60), <2>1, <2>2 DEF place, publisher
<1>2. CASE \E c \in Calls : \/ append_events_batch(c) \/ commitBook(c)
                             \/ record_book_applied_for_event_ids(c) \/ enqueue(c)
  BY ZenonT(60), <1>2 DEF append_events_batch, commitBook, record_book_applied_for_event_ids,
     enqueue, publisher
<1>3. CASE \E c \in Calls : \E e \in call[c].todo :
             publish_partitioned_sync(c, e) \/ append_ack(c, e)
  BY ZenonT(60), <1>3 DEF publish_partitioned_sync, append_ack, accepts, publisher
<1>4. CASE \/ \E e \in queue : publish_one_with_retry(e)
           \/ \E e \in unacked : ackPublished(e)
  BY ZenonT(60), <1>4 DEF publish_one_with_retry, ackPublished, accepts
<1>5. CASE \/ collect_all_orders \/ book_applied_match_ids_snapshot \/ save_snapshot_to_path
           \/ crash \/ load_snapshot_from_path \/ rebuild_orderbook_from_backend \/ serve
  BY ZenonT(60), <1>5 DEF collect_all_orders, book_applied_match_ids_snapshot,
     save_snapshot_to_path, crash, load_snapshot_from_path, rebuild_orderbook_from_backend,
     serve, start, publisher
<1> QED  BY ZenonT(60), <1>1, <1>2, <1>3, <1>4, <1>5 DEF Next

LEMMA PublishedRemains ==
  ASSUME JournalInv, Next
  PROVE  \A e : Published(e) => Published(e)'
BY ZenonT(60), OnlyMore, PublishedStays

\* A call reaches its commit from the publish, or from the ack after it.
LEMMA SyncCallsStep ==
  ASSUME JournalInv, SyncCalls, Next, mode # "journal"
  PROVE  SyncCalls'
<1>0. EventTypes /\ FilesInv /\ \A c \in Calls : CallInv(c)
  BY ZenonT(60), JournalParts
<1>a. \A e : Published(e) => Published(e)'
  BY ZenonT(60), PublishedRemains
<1>b. \A c \in Calls : call'[c] = call[c] /\ call'[c].at = "commit" =>
        \A e \in call'[c].events : Published(e)'
  BY ZenonT(60), <1>a DEF SyncCalls
<1>c. ASSUME NEW c \in Calls, \A x \in Calls : x # c => call'[x] = call[x],
             call'[c].at # "commit" \/ \A e \in call'[c].events : Published(e)'
      PROVE  SyncCalls'
  BY ZenonT(60), <1>b, <1>c DEF SyncCalls
<1>d. NoCall.at # "commit"
  BY SMTT(60), Z3T(60) DEF NoCall
<1>e. ASSUME NEW c \in Calls, refused(c) PROVE SyncCalls'
  <2>1. call'[c] = NoCall /\ \A x \in Calls : x # c => call'[x] = call[x]
    BY ZenonT(60), <1>0, <1>e, CallMoves
  <2> QED  BY ZenonT(60), <1>c, <1>d, <2>1
<1>f. ASSUME NEW c \in Calls, NEW stage \in Stages, goes(c, stage),
             stage = "commit" => \A e \in call[c].events : Published(e)'
      PROVE  SyncCalls'
  <2>1. /\ call'[c] = [at |-> stage, events |-> call[c].events, todo |-> call[c].events]
        /\ \A x \in Calls : x # c => call'[x] = call[x]
    BY ZenonT(60), <1>0, <1>f, CallMoves
  <2>2. call'[c].at = stage /\ call'[c].events = call[c].events
    BY SMTT(60), Z3T(60), <2>1
  <2> QED  BY ZenonT(60), <1>c, <1>f, <2>1, <2>2
<1>g. ASSUME NEW c \in Calls, NEW e, call[c].at # "commit",
             call' = [call EXCEPT ![c].todo = @ \ {e}]
      PROVE  SyncCalls'
  <2>1. /\ call'[c] = [at |-> call[c].at, events |-> call[c].events,
                       todo |-> call[c].todo \ {e}]
        /\ \A x \in Calls : x # c => call'[x] = call[x]
    BY ZenonT(60), <1>0, <1>g, CallMoves
  <2>2. call'[c].at = call[c].at
    BY SMTT(60), Z3T(60), <2>1
  <2> QED  BY ZenonT(60), <1>c, <1>g, <2>1, <2>2
<1>1. CASE call' = call
  BY ZenonT(60), <1>1, <1>b DEF SyncCalls
<1>2. ASSUME NEW c \in Calls, place(c) PROVE SyncCalls'
  <2>1. PICK E \in SUBSET Events, k \in CallStates :
          /\ k = [at |-> IF mode = "sync" THEN "publish" ELSE "append",
                  events |-> E, todo |-> E]
          /\ call' = [call EXCEPT ![c] = k]
    BY ZenonT(60), <1>0, <1>2, PlaceFacts
  <2>2. k.at # "commit"
    BY SMTT(60), Z3T(60), <2>1
  <2>3. call'[c] = k /\ \A x \in Calls : x # c => call'[x] = call[x]
    BY ZenonT(60), <1>0, <2>1 DEF EventTypes
  <2> QED  BY ZenonT(60), <1>c, <2>2, <2>3
<1>3. ASSUME NEW c \in Calls, append_events_batch(c) PROVE SyncCalls'
  <2>1. refused(c) \/ goes(c, "publish")
    BY ZenonT(60), <1>3 DEF append_events_batch
  <2> QED  BY ZenonT(60), <1>e, <1>f, <2>1 DEF Stages
<1>4. ASSUME NEW c \in Calls,
             commitBook(c) \/ record_book_applied_for_event_ids(c) \/ enqueue(c)
      PROVE  SyncCalls'
  <2>1. refused(c) \/ goes(c, "record") \/ goes(c, "enqueue")
    BY ZenonT(60), <1>4 DEF commitBook, record_book_applied_for_event_ids, enqueue
  <2> QED  BY ZenonT(60), <1>e, <1>f, <2>1 DEF Stages
<1>5. ASSUME NEW c \in Calls, NEW e \in call[c].todo, publish_partitioned_sync(c, e)
      PROVE  SyncCalls'
  <2>1. call[c].at = "publish"
    BY ZenonT(60), <1>5 DEF publish_partitioned_sync
  <2>2. CASE /\ accepts(e) /\ call[c].todo = {e}
             /\ goes(c, IF mode = "sync" THEN "commit" ELSE "ack")
    <3>1. e \in given /\ given' = given
      BY ZenonT(60), <1>0, <1>5 DEF CallInv, publish_partitioned_sync
    <3>2. Published(e)'
      BY ZenonT(60), <1>0, <2>2, <3>1, AcceptedIsPublished
    <3>3. \A d \in call[c].events \ {e} : Published(d)'
      BY ZenonT(60), <1>0, <1>a, <2>1, <2>2 DEF CallInv
    <3>4. PICK stage \in Stages : stage = IF mode = "sync" THEN "commit" ELSE "ack"
      BY ZenonT(60) DEF Stages
    <3> QED  BY ZenonT(60), <1>f, <2>2, <3>2, <3>3, <3>4
  <2>3. CASE refused(c)
    BY ZenonT(60), <1>e, <2>3
  <2>4. CASE call' = [call EXCEPT ![c].todo = @ \ {e}]
    BY ZenonT(60), <1>g, <2>1, <2>4
  <2> QED  BY ZenonT(60), <1>5, <2>2, <2>3, <2>4 DEF publish_partitioned_sync
<1>6. ASSUME NEW c \in Calls, NEW e \in call[c].todo, append_ack(c, e)
      PROVE  SyncCalls'
  <2>1. call[c].at = "ack"
    BY ZenonT(60), <1>6 DEF append_ack
  <2>2. \A d \in call[c].events : Published(d)'
    BY ZenonT(60), <1>0, <1>a, <2>1 DEF CallInv
  <2>3. refused(c) \/ goes(c, "commit") \/ call' = [call EXCEPT ![c].todo = @ \ {e}]
    BY ZenonT(60), <1>6 DEF append_ack
  <2> QED  BY ZenonT(60), <1>e, <1>f, <1>g, <2>1, <2>2, <2>3 DEF Stages
<1>7. CASE crash
  <2>1. \A c \in Calls : call'[c] = NoCall
    BY ZenonT(60), <1>7 DEF crash
  <2> QED  BY ZenonT(60), <1>d, <2>1 DEF SyncCalls
<1>8. CASE \/ \E e \in queue : publish_one_with_retry(e)
           \/ \E e \in unacked : ackPublished(e)
           \/ collect_all_orders \/ book_applied_match_ids_snapshot \/ save_snapshot_to_path
           \/ load_snapshot_from_path \/ rebuild_orderbook_from_backend \/ serve
  <2>1. call' = call
    BY ZenonT(60), <1>8 DEF publish_one_with_retry, ackPublished, collect_all_orders,
       book_applied_match_ids_snapshot, save_snapshot_to_path, load_snapshot_from_path,
       rebuild_orderbook_from_backend, serve, start
  <2> QED  BY ZenonT(60), <1>1, <2>1
<1> QED  BY ZenonT(60), <1>2, <1>3, <1>4, <1>5, <1>6, <1>7, <1>8 DEF Next

\* Without a journal there are no lines to replay.
LEMMA SyncFilesStep ==
  ASSUME JournalInv, SyncFiles, Next, mode = "sync"
  PROVE  SyncFiles'
<1>0. /\ EventTypes /\ \A i \in EventIds : evt[i] = NoFill
      /\ unwritten.events = {} /\ \A c \in Calls : call[c].at # "append"
  BY ZenonT(60), JournalParts DEF SyncFiles
<1>a. ASSUME NEW A, write({}, A) \/ writeFails({}, A)
      PROVE  (\A i \in EventIds : evt'[i] = NoFill) /\ unwritten'.events = {}
  <2>1. PICK X, B : unwritten' = [events |-> X, acks |-> B] /\ X = {} /\ evt' = evtLines({})
    BY ZenonT(60), <1>0, <1>a DEF write, writeFails, Nothing
  <2>2. \A i \in EventIds : evt'[i] = NoFill
    BY ZenonT(60), <1>0, <2>1 DEF evtLines
  <2> QED  BY SMTT(60), Z3T(60), <2>1, <2>2
<1>b. NoCall.at # "append" /\ Nothing.events = {}
  BY SMTT(60), Z3T(60) DEF NoCall, Nothing
<1>c. ASSUME NEW c \in Calls, \A x \in Calls : x # c => call'[x] = call[x],
             call'[c].at # "append"
      PROVE  \A x \in Calls : call'[x].at # "append"
  BY ZenonT(60), <1>0, <1>c
<1>d. ASSUME NEW c \in Calls,
             \/ refused(c)
             \/ \E stage \in Stages \ {"append"} : goes(c, stage)
             \/ \E e : call' = [call EXCEPT ![c].todo = @ \ {e}]
      PROVE  \A x \in Calls : call'[x].at # "append"
  <2>1. CASE refused(c)
    BY ZenonT(60), <1>0, <1>b, <1>c, <2>1, CallMoves
  <2>2. ASSUME NEW stage \in Stages \ {"append"}, goes(c, stage)
        PROVE  \A x \in Calls : call'[x].at # "append"
    <3>1. /\ call'[c] = [at |-> stage, events |-> call[c].events, todo |-> call[c].events]
          /\ \A x \in Calls : x # c => call'[x] = call[x]
      BY ZenonT(60), <1>0, <2>2, CallMoves
    <3>2. call'[c].at = stage
      BY SMTT(60), Z3T(60), <3>1
    <3> QED  BY ZenonT(60), <1>c, <2>2, <3>1, <3>2
  <2>3. ASSUME NEW e, call' = [call EXCEPT ![c].todo = @ \ {e}]
        PROVE  \A x \in Calls : call'[x].at # "append"
    <3>1. /\ call'[c] = [at |-> call[c].at, events |-> call[c].events,
                         todo |-> call[c].todo \ {e}]
          /\ \A x \in Calls : x # c => call'[x] = call[x]
      BY ZenonT(60), <1>0, <2>3, CallMoves
    <3>2. call'[c].at = call[c].at
      BY SMTT(60), Z3T(60), <3>1
    <3> QED  BY ZenonT(60), <1>0, <1>c, <3>1, <3>2
  <2> QED  BY ZenonT(60), <1>d, <2>1, <2>2, <2>3
<1>1. ASSUME NEW c \in Calls, place(c) PROVE SyncFiles'
  <2>1. PICK E \in SUBSET Events, k \in CallStates :
          /\ k = [at |-> IF mode = "sync" THEN "publish" ELSE "append",
                  events |-> E, todo |-> E]
          /\ call' = [call EXCEPT ![c] = k]
    BY ZenonT(60), <1>0, <1>1, PlaceFacts
  <2>2. k.at # "append"
    BY SMTT(60), Z3T(60), <2>1
  <2>3. call'[c] = k /\ \A x \in Calls : x # c => call'[x] = call[x]
    BY ZenonT(60), <1>0, <2>1 DEF EventTypes
  <2>4. evt' = evt /\ unwritten' = unwritten
    BY ZenonT(60), <1>1 DEF place, journal
  <2> QED  BY ZenonT(60), <1>0, <1>c, <2>2, <2>3, <2>4 DEF SyncFiles
<1>2. ASSUME NEW c \in Calls, append_events_batch(c) PROVE SyncFiles'
  BY ZenonT(60), <1>0, <1>2 DEF append_events_batch
<1>3. ASSUME NEW c \in Calls,
             \/ commitBook(c) \/ record_book_applied_for_event_ids(c) \/ enqueue(c)
             \/ \E e \in call[c].todo : publish_partitioned_sync(c, e)
      PROVE  SyncFiles'
  <2>1. evt' = evt /\ unwritten' = unwritten
    BY ZenonT(60), <1>3 DEF commitBook, record_book_applied_for_event_ids, enqueue,
       publish_partitioned_sync, journal
  <2>2. \/ refused(c)
        \/ \E stage \in Stages \ {"append"} : goes(c, stage)
        \/ \E e : call' = [call EXCEPT ![c].todo = @ \ {e}]
    BY ZenonT(60), <1>3 DEF commitBook, record_book_applied_for_event_ids, enqueue,
       publish_partitioned_sync, Stages
  <2> QED  BY ZenonT(60), <1>0, <1>d, <2>1, <2>2 DEF SyncFiles
<1>4. ASSUME NEW c \in Calls, NEW e \in call[c].todo, append_ack(c, e) PROVE SyncFiles'
  <2>1. write({}, {e[1]}) \/ writeFails({}, {e[1]})
    BY ZenonT(60), <1>4 DEF append_ack
  <2>2. \/ refused(c)
        \/ \E stage \in Stages \ {"append"} : goes(c, stage)
        \/ \E d : call' = [call EXCEPT ![c].todo = @ \ {d}]
    BY ZenonT(60), <1>4 DEF append_ack, Stages
  <2> QED  BY ZenonT(60), <1>a, <1>d, <2>1, <2>2 DEF SyncFiles
<1>5. ASSUME NEW e \in unacked, ackPublished(e) PROVE SyncFiles'
  <2>1. (write({}, {e[1]}) \/ writeFails({}, {e[1]})) /\ call' = call
    BY ZenonT(60), <1>5 DEF ackPublished
  <2> QED  BY ZenonT(60), <1>0, <1>a, <2>1 DEF SyncFiles
<1>6. CASE \/ \E e \in queue : publish_one_with_retry(e)
           \/ collect_all_orders \/ book_applied_match_ids_snapshot \/ save_snapshot_to_path
           \/ serve
  <2>1. evt' = evt /\ unwritten' = unwritten /\ call' = call
    BY ZenonT(60), <1>6 DEF publish_one_with_retry, collect_all_orders,
       book_applied_match_ids_snapshot, save_snapshot_to_path, serve, journal
  <2> QED  BY ZenonT(60), <1>0, <2>1 DEF SyncFiles
<1>7. CASE crash
  <2>1. evt' = evt /\ unwritten' = Nothing /\ \A c \in Calls : call'[c] = NoCall
    BY ZenonT(60), <1>7 DEF crash
  <2> QED  BY ZenonT(60), <1>0, <1>b, <2>1 DEF SyncFiles
<1>8. CASE load_snapshot_from_path \/ rebuild_orderbook_from_backend
  <2>1. /\ evt' = [i \in EventIds |-> IF i \in acked THEN NoFill ELSE evt[i]]
        /\ unwritten' = Nothing /\ call' = call
    BY ZenonT(60), <1>8 DEF load_snapshot_from_path, rebuild_orderbook_from_backend, start,
       compact_journal_keep_unacked_only
  <2> QED  BY ZenonT(60), <1>0, <1>b, <2>1 DEF SyncFiles
<1> QED  BY ZenonT(60), <1>1, <1>2, <1>3, <1>4, <1>5, <1>6, <1>7, <1>8 DEF Next

\* What a snapshot saves is the book of an engine that serves.
LEMMA SyncSavedStep ==
  ASSUME JournalInv, SyncBook, SyncSaved, Next
  PROVE  SyncSaved'
<1>a. \A e : Published(e) => Published(e)'
  BY ZenonT(60), PublishedRemains
<1>1. CASE saving' = saving /\ snapshot' = snapshot
  BY ZenonT(60), <1>1, <1>a DEF SyncSaved
<1>2. CASE collect_all_orders
  <2>1. phase = "up" /\ snapshot' = snapshot
        /\ saving' = [at |-> "orders", orders |-> book, applied |-> {}]
    BY ZenonT(60), <1>2 DEF collect_all_orders
  <2>2. saving'.orders = book
    BY SMTT(60), Z3T(60), <2>1
  <2> QED  BY ZenonT(60), <1>a, <2>1, <2>2 DEF SyncSaved, SyncBook
<1>3. CASE book_applied_match_ids_snapshot
  <2>1. snapshot' = snapshot /\ saving' = [saving EXCEPT !.at = "ids", !.applied = applied]
    BY ZenonT(60), <1>3 DEF book_applied_match_ids_snapshot
  <2>2. saving'.orders = saving.orders
    BY SMTT(60), Z3T(60), <2>1
  <2> QED  BY ZenonT(60), <1>a, <2>1, <2>2 DEF SyncSaved
<1>4. CASE save_snapshot_to_path
  <2>1. /\ snapshot' = [orders |-> saving.orders, applied |-> saving.applied, next |-> nextEventId]
        /\ saving' = [at |-> "idle", orders |-> {}, applied |-> {}]
    BY ZenonT(60), <1>4 DEF save_snapshot_to_path, NotSaving
  <2>2. snapshot'.orders = saving.orders /\ saving'.orders = {}
    BY SMTT(60), Z3T(60), <2>1
  <2> QED  BY ZenonT(60), <1>a, <2>2 DEF SyncSaved
<1>5. CASE crash
  <2>1. snapshot' = snapshot /\ saving' = [at |-> "idle", orders |-> {}, applied |-> {}]
    BY ZenonT(60), <1>5 DEF crash, NotSaving
  <2>2. saving'.orders = {}
    BY SMTT(60), Z3T(60), <2>1
  <2> QED  BY ZenonT(60), <1>a, <2>1, <2>2 DEF SyncSaved
<1>6. CASE \/ \E c \in Calls : \/ place(c) \/ append_events_batch(c) \/ commitBook(c)
                               \/ record_book_applied_for_event_ids(c) \/ enqueue(c)
           \/ \E c \in Calls : \E e \in call[c].todo :
                publish_partitioned_sync(c, e) \/ append_ack(c, e)
           \/ \E e \in queue : publish_one_with_retry(e)
           \/ \E e \in unacked : ackPublished(e)
           \/ load_snapshot_from_path \/ rebuild_orderbook_from_backend \/ serve
  <2>1. saving' = saving /\ snapshot' = snapshot
    BY ZenonT(60), <1>6 DEF place, append_events_batch, commitBook, enqueue,
       record_book_applied_for_event_ids, publish_partitioned_sync, append_ack,
       publish_one_with_retry, ackPublished, load_snapshot_from_path,
       rebuild_orderbook_from_backend, serve, start, snapshots
  <2> QED  BY ZenonT(60), <1>1, <2>1
<1> QED  BY ZenonT(60), <1>2, <1>3, <1>4, <1>5, <1>6 DEF Next

\* A start queues every line it replays, and every event it takes over from a snapshot
\* or from the API is published or has such a line.
LEMMA SyncStart ==
  ASSUME JournalInv, SyncFiles, mode \in {"journal_sync", "sync"}, phase = "down",
         NEW orders, NEW next, NEW ids, start(orders, next, ids),
         \A e \in orders : Published(e) \/ e \in scan_unacked_for_engine
  PROVE  SyncBook'
<1>0. EventTypes /\ FilesInv /\ given' = given /\ stream' = stream
  BY ZenonT(60), JournalParts DEF start
<1>a. \A e : Published(e) => Published(e)'
  BY ZenonT(60), <1>0, PublishedStays
<1>1. CASE UNCHANGED <<engine, phase>>
  BY ZenonT(60), <1>1 DEF SyncBook
<1>2. CASE /\ book' = orders \union {e \in scan_unacked_for_engine : e[1] \notin ids}
           /\ queue' = scan_unacked_for_engine
           /\ phase' = IF mode = "journal_sync" THEN "starting" ELSE "up"
  <2>1. \A e \in book' : Published(e)' \/ e \in scan_unacked_for_engine
    BY ZenonT(60), <1>2, <1>a
  <2>2. CASE mode = "journal_sync"
    BY ZenonT(60), <1>2, <2>1, <2>2 DEF SyncBook
  <2>3. CASE mode = "sync"
    <3>1. scan_unacked_for_engine = {}
      BY ZenonT(60), <2>3 DEF SyncFiles, scan_unacked_for_engine
    <3> QED  BY ZenonT(60), <2>1, <3>1 DEF SyncBook
  <2> QED  BY ZenonT(60), <2>2, <2>3
<1> QED  BY ZenonT(60), <1>1, <1>2 DEF start

LEMMA SyncBookStep ==
  ASSUME JournalInv, SyncCalls, SyncBook, SyncSaved, SyncFiles, Next,
         mode \in {"journal_sync", "sync"}
  PROVE  SyncBook'
<1>0. EventTypes /\ FilesInv /\ CommittedFillIsKept
  BY ZenonT(60), JournalParts
<1>a. \A e : Published(e) => Published(e)'
  BY ZenonT(60), PublishedRemains
<1>1. ASSUME book' = book, phase' = phase, queue \subseteq queue'
      PROVE  SyncBook'
  BY ZenonT(60), <1>1, <1>a DEF SyncBook
<1>2. CASE \/ \E c \in Calls : \/ place(c) \/ append_events_batch(c)
                               \/ record_book_applied_for_event_ids(c) \/ enqueue(c)
           \/ \E c \in Calls : \E e \in call[c].todo :
                publish_partitioned_sync(c, e) \/ append_ack(c, e)
           \/ collect_all_orders \/ book_applied_match_ids_snapshot \/ save_snapshot_to_path
  <2>1. book' = book /\ phase' = phase /\ queue \subseteq queue'
    BY ZenonT(60), <1>2 DEF place, append_events_batch, record_book_applied_for_event_ids,
       enqueue, publish_partitioned_sync, append_ack, collect_all_orders,
       book_applied_match_ids_snapshot, save_snapshot_to_path, engine, publisher
  <2> QED  BY ZenonT(60), <1>1, <2>1
<1>3. ASSUME NEW c \in Calls, commitBook(c) PROVE SyncBook'
  <2>1. /\ book' = book \union call[c].events /\ phase' = phase /\ queue' = queue
        /\ call[c].at = "commit"
    BY ZenonT(60), <1>3 DEF commitBook, publisher
  <2> QED  BY ZenonT(60), <1>a, <2>1 DEF SyncBook, SyncCalls
<1>4. ASSUME NEW e \in queue, publish_one_with_retry(e) PROVE SyncBook'
  <2>1. book' = book /\ queue' = queue \ {e} /\ given' = given
    BY ZenonT(60), <1>4 DEF publish_one_with_retry, engine
  <2>2. CASE accepts(e) /\ phase' = phase
    <3>1. Published(e)'
      BY ZenonT(60), <1>0, <2>1, <2>2, AcceptedIsPublished DEF FilesInv
    <3> QED  BY ZenonT(60), <1>a, <2>1, <2>2, <3>1 DEF SyncBook
  <2>3. CASE phase' = IF phase = "starting" THEN "down" ELSE phase
    BY ZenonT(60), <1>a, <2>1, <2>3 DEF SyncBook
  <2> QED  BY ZenonT(60), <1>4, <2>2, <2>3 DEF publish_one_with_retry
<1>5. ASSUME NEW e \in unacked, ackPublished(e) PROVE SyncBook'
  <2>1. /\ book' = book /\ queue' = queue
        /\ phase' = phase \/ phase' = IF phase = "starting" THEN "down" ELSE phase
    BY ZenonT(60), <1>5 DEF ackPublished, engine
  <2> QED  BY ZenonT(60), <1>a, <2>1 DEF SyncBook
<1>6. CASE crash
  BY ZenonT(60), <1>6 DEF crash, SyncBook
<1>7. CASE serve
  <2>1. book' = book /\ queue = {} /\ phase = "starting"
    BY ZenonT(60), <1>7 DEF serve, engine
  <2> QED  BY ZenonT(60), <1>a, <2>1 DEF SyncBook
<1>8. CASE load_snapshot_from_path
  BY ZenonT(60), <1>8, SyncStart DEF load_snapshot_from_path, SyncSaved
<1>9. CASE rebuild_orderbook_from_backend
  <2>1. PICK settled \in SUBSET (committed \union stream) :
          phase = "down" /\ start(settled, 1, {})
    BY ZenonT(60), <1>9 DEF rebuild_orderbook_from_backend
  <2>2. ASSUME NEW e \in settled PROVE Published(e) \/ e \in scan_unacked_for_engine
    <3>1. e \in Events
      BY ZenonT(60), <1>0 DEF EventTypes
    <3>2. e[1] \in EventIds /\ e[2] \in Fills /\ e = <<e[1], e[2]>>
      BY SMTT(60), Z3T(60), <3>1 DEF Events
    <3>3. InJournal(e) => e \in scan_unacked_for_engine
      BY ZenonT(60), <3>2, JournalConstants DEF InJournal, scan_unacked_for_engine
    <3> QED  BY ZenonT(60), <1>0, <3>3 DEF CommittedFillIsKept, Published
  <2> QED  BY ZenonT(60), <2>1, <2>2, SyncStart
<1> QED  BY ZenonT(60), <1>2, <1>3, <1>4, <1>5, <1>6, <1>7, <1>8, <1>9 DEF Next

Configured == mode \in Modes /\ SyncInv

\* Every step of the engine preserves SyncInv.
LEMMA SyncInvInductive ==
  JournalInv /\ Configured /\ [Next]_vars => Configured'
<1> SUFFICES ASSUME JournalInv, mode \in Modes, SyncInv, [Next]_vars
             PROVE  SyncInv' /\ mode' \in Modes
  BY ZenonT(60) DEF Configured
<1>1. CASE UNCHANGED vars
  BY ZenonT(60), <1>1 DEF vars, engine, journal, publisher, snapshots, SyncInv, SyncCalls,
     SyncBook, SyncSaved, SyncFiles, Published, OwnId
<1>2. CASE Next
  <2>1. mode' = mode
    BY ZenonT(60), <1>2, OnlyMore
  <2>2. CASE mode = "journal"
    BY ZenonT(60), <2>1, <2>2 DEF SyncInv
  <2>3. CASE mode # "journal"
    <3>1. mode \in {"journal_sync", "sync"}
      BY ZenonT(60), <2>3, JournalConstants
    <3>2. SyncCalls /\ SyncBook /\ SyncSaved /\ SyncFiles
      BY ZenonT(60), <2>3 DEF SyncInv
    <3>3. SyncFiles'
      <4>1. CASE mode = "sync"
        BY ZenonT(60), <1>2, <3>2, <4>1, SyncFilesStep
      <4>2. CASE mode # "sync"
        BY ZenonT(60), <2>1, <4>2 DEF SyncFiles
      <4> QED  BY ZenonT(60), <4>1, <4>2
    <3> QED  BY ZenonT(60), <1>2, <2>1, <2>3, <3>1, <3>2, <3>3, SyncCallsStep, SyncSavedStep,
             SyncBookStep DEF SyncInv
  <2> QED  BY ZenonT(60), <2>1, <2>2, <2>3
<1> QED  BY ZenonT(60), <1>1, <1>2

(* With ENGINE_STREAM_SYNC_PUBLISH an engine that serves requests has no   *)
(* fill in its book that the stream has not accepted, after any crashes,   *)
(* failed writes, refused placements and starts.                           *)
THEOREM ServesOnlyPublishedHolds == Spec => []ServesOnlyPublished
<1>1. Init => Configured
  <2> SUFFICES ASSUME Init PROVE mode \in Modes /\ SyncInv
    BY ZenonT(60) DEF Configured
  <2>1. /\ NoCall.at = "idle" /\ NotSaving.orders = {} /\ Nothing.events = {}
    BY SMTT(60), Z3T(60) DEF NoCall, NotSaving, Nothing
  <2> QED  BY ZenonT(60), <2>1 DEF Init, SyncInv, SyncCalls, SyncBook, SyncSaved, SyncFiles
<1>2. Configured => ServesOnlyPublished
  BY ZenonT(60) DEF Configured, SyncInv, SyncBook, ServesOnlyPublished, Published
<1> QED  BY <1>1, <1>2, SyncInvInductive, JournalInvHolds, PTL DEF Spec
=============================================================================
