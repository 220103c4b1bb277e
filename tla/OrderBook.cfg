\* Three orders of two users at two prices.
SPECIFICATION Spec
CONSTANTS
  Orders = {1, 2, 3}
  Users = {u1, u2}
  NoOrder = NoOrder
  NoMatch = NoMatch
  MaxPrice = 2
  MaxQuantity = 2
  MaxTime = 1
SYMMETRY Symmetry
INVARIANTS
  Uncrossed FillsAccounted FairTrade
PROPERTIES
  TakerWalksBook
CHECK_DEADLOCK FALSE
