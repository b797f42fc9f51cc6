SPECIFICATION CheckoutSpec
CONSTANTS
  Buyers = {b1}
  Payout = Payout
  Treasury = Treasury
  Prices = {1, 2}
  Funds = 2
  NoAccount = NoAccount
  Calls = {c1, c2}
  MaxMoves = 1
SYMMETRY CheckoutSymmetry
CHECK_DEADLOCK FALSE
PROPERTIES
  PaysShownPrice
