\* Two users, with funds on both of their rows, trading over one ad, two orders.
\* The expiry worker looks for the status its comment names.
SPECIFICATION FairSpec
CONSTANTS
  Users = {u1, u2}
  Ads = {a1}
  Orders = {1, 2}
  NoUser = NoUser
  NoAd = NoAd
  MaxAmount = 2
  InitialAvailable <- FundsOnBothRows
  RequirePaymentProof = TRUE
  SlaAction = "release"
  MaxOpenEscrows = 2
  MaxEscrowTotal = 3
  ExpiryStatus = "payment_pending"
  ExpiryBatch = 2
INVARIANTS
  EscrowFollowsOrder EscrowBacksOrders FundsConserved AdLiquidity
PROPERTIES
  PaidRefundNeedsDispute FreezeHolds KeepsContract PayableSlaOrderEnds
CHECK_DEADLOCK FALSE
