CONSTANTS
  a1 = a1
  a2 = a2
  a3 = a3
  cocoa = cocoa
  NoAddress = NoAddress
  Address = {a1, a2, a3}
  Asset = {cocoa}
  Prices = {0, 1}
  MaxI128 = 9
  Resolutions = {0, 2, 3}
  Thresholds = {0, 1, 2}
  Retentions = {0, 1}
  DefaultRetention = 2
  MaxTime = 3
SYMMETRY AddressSymmetry
SPECIFICATION Spec
INVARIANTS TypeOK OneSubmissionPerWindow HistoryOrdered WindowLookup
PROPERTIES RetentionEnforced QuorumPerWindow ImplementsPriceFeed ClosedWindowsStayClosed
CHECK_DEADLOCK FALSE
