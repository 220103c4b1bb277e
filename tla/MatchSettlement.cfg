CONSTANTS
  MaxFills = 2
  MaxPerPlace = 2
  MaxEventId = 3
  Callers = {c1, c2}
  Workers = {w1}
  ReassignAttempts = 2
  MaxRetries = 1
  UseEventStream = TRUE
  MaxRestarts = 1
  c1 = c1
  c2 = c2
  w1 = w1
SPECIFICATION Spec
SYMMETRY Symmetry
CONSTRAINTS RoomToReassign OneRowFails
INVARIANTS
  SettledOnceInOwnRow
  SettledOnceUntilRestart
  LedgerMatchesRows
CHECK_DEADLOCK FALSE
