CONSTANTS
  a1 = a1
  a2 = a2
  cocoa = cocoa
  NoAddress = NoAddress
  Address = {a1, a2}
  Asset = {cocoa}
  Prices = {1, 2, 4}
  MaxI128 = 7
  Resolutions = {0, 2}
  Thresholds = {2}
  Retentions = {0}
  DefaultRetention = 1
  MaxTime = 2
SYMMETRY AddressSymmetry
SPECIFICATION Spec
PROPERTIES NoSoloFinalization
CHECK_DEADLOCK FALSE
