\* Two passes in flight, with crashes, expiring locks and both balance rows.
SPECIFICATION FairSpec
CONSTANTS
  w1 = w1
  w2 = w2
  Withdrawals = {w1, w2}
  Workers = {k1, k2}
  NoWorker = NoWorker
  NoItem = NoItem
  MaxTotal = 1
  InitialAvailable <- OneOnEach
  MaxAttempts = 2
CONSTRAINT RequestedInOrder
INVARIANTS
  FundsConserved RejectedNeverSent DebitedWasSent SentIsStored
PROPERTIES
  RetriesEnd
CHECK_DEADLOCK FALSE
