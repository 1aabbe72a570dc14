CONSTANTS
  farmer = farmer
  buyer = buyer
  other = other
  Contract = Contract
  NoTerms = NoTerms
  NoPrice = NoPrice
  NoTransaction = NoTransaction
  Account = {farmer, buyer, other}
  FloorPrices = {4}
  Notionals <- SignedNotionals
  Maturities = {1, 5}
  Amounts = {0, 1, 3}
  Gifts = {}
  MarketPrices = {1, 3, 4}
  Opening = {3}
  UnfundedCancelGrace = 2
  SettleFailureGrace = 1
  MaxI128 = 9
  MaxU64 = 5
  MaxTime = 5
SYMMETRY AccountSymmetry
SPECIFICATION ClientSpec
INVARIANTS TypeOK NoStrandedFunds ForecastHolds FinalErrors RetriesRefused
PROPERTIES ImplementsEscrow
CHECK_DEADLOCK FALSE
