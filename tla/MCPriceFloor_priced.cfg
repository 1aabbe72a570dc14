CONSTANTS
  farmer = farmer
  buyer = buyer
  other = other
  Contract = Contract
  NoTerms = NoTerms
  NoPrice = NoPrice
  Account = {farmer, buyer, other}
  FloorPrices = {7}
  Notionals = {1, 2}
  Maturities = {0, 1, 5}
  Amounts = {0, 1, 3}
  Gifts = {}
  MarketPrices = {1, 3, 4}
  Opening = {3}
  UnfundedCancelGrace = 2
  SettleFailureGrace = 1
  MaxI128 = 9
  MaxU64 = 5
  MaxTime = 5
SYMMETRY AccountSymmetry
SPECIFICATION Spec
INVARIANTS PricedMeansSettleable
CHECK_DEADLOCK FALSE
