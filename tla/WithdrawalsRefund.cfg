\* One withdrawal, one pass at a time; a cap or the signer may fail on a retry.
SPECIFICATION Spec
CONSTANTS
  w1 = w1
  w2 = w2
  Withdrawals = {w1}
  Workers = {k1}
  NoWorker = NoWorker
  NoItem = NoItem
  MaxTotal = 2
  InitialAvailable <- ChainFunds
  MaxAttempts = 3
INVARIANTS
  RefundedNeverSent
CHECK_DEADLOCK FALSE
