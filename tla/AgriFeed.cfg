CONSTANTS
  a1 = a1
  farmer = farmer
  buyer = buyer
  cocoa = cocoa
  NoAddress = NoAddress
  Contract = Contract
  NoTerms = NoTerms
  NoPrice = NoPrice
  Address = {a1}
  Asset = {cocoa}
  Commodity = cocoa
  Prices = {1, 3}
  MaxI128 = 4
  Resolutions = {2}
  Thresholds = {1}
  Retentions = {0, 1}
  DefaultRetention = 2
  Account = {farmer, buyer}
  FloorPrices = {3}
  Notionals = {1}
  Maturities = {1, 2}
  Amounts = {1, 2}
  Gifts = {1}
  Opening = {2}
  UnfundedCancelGrace = 1
  SettleFailureGrace = 1
  MaxU64 = 3
  MaxTime = 2
SPECIFICATION FairSystemSpec
PROPERTIES ImplementsAgreement PaidByNewestRecord PricedIsSettled
CHECK_DEADLOCK FALSE
