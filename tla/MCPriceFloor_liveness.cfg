CONSTANTS
  farmer = farmer
  buyer = buyer
  Contract = Contract
  NoTerms = NoTerms
  NoPrice = NoPrice
  Account = {farmer, buyer}
  FloorPrices = {2, 4}
  Notionals <- SignedNotionals
  Maturities = {0, 1, 5}
  Amounts = {0, 1, 3}
  Gifts = {1}
  MarketPrices = {1, 3, 4}
  Opening = {3}
  UnfundedCancelGrace = 2
  SettleFailureGrace = 1
  MaxI128 = 7
  MaxU64 = 5
  MaxTime = 5
SPECIFICATION FairSpec
INVARIANTS FundedIsBacked ExactlyOneExit
PROPERTIES FarmerTopUp ImplementsEscrow CollateralReleased
CHECK_DEADLOCK FALSE
