CONSTANTS
  cocoa = cocoa
  coffee = coffee
  Asset = {cocoa, coffee}
  Cadence = 2
  MaxTTL = 5
  MinTTL = 1
  MaxLedger = 8
SPECIFICATION Spec
INVARIANTS TypeOK NothingArchived
CHECK_DEADLOCK FALSE
