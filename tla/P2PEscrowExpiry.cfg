\* The expiry worker looking for the status its constant names.
SPECIFICATION FairSpec
CONSTANTS
  Users = {u1, u2}
  Ads = {a1}
  Orders = {1, 2}
  NoUser = NoUser
  NoAd = NoAd
  MaxAmount = 2
  InitialAvailable <- FundsChainless
  RequirePaymentProof = TRUE
  SlaAction = "release"
  MaxOpenEscrows = 2
  MaxEscrowTotal = 3
  ExpiryStatus = "awaiting_payment"
  ExpiryBatch = 2
PROPERTIES
  OverdueOrderEnds
CHECK_DEADLOCK FALSE
