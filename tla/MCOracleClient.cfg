CONSTANTS
  a1 = a1
  a2 = a2
  cocoa = cocoa
  NoAddress = NoAddress
  NoTransaction = NoTransaction
  Address = {a1, a2}
  Asset = {cocoa}
  Prices = {0, 1, 3}
  MaxI128 = 5
  Resolutions = {0, 2}
  Thresholds = {0, 2}
  Retentions = {0, 1}
  DefaultRetention = 1
  Records = {0, 1}
  MaxTime = 2
SYMMETRY AddressSymmetry
SPECIFICATION ClientSpec
INVARIANTS ForecastHolds FinalErrors RetriesRefused ReadsNeverGoBack
PROPERTIES MajorityBoundsPrice
CHECK_DEADLOCK FALSE
