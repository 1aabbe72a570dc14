CONSTANTS
  Prices = {1, 2, 3, 4}
  MaxI128 = 6
  MaxSubmissions = 5
SPECIFICATION Spec
INVARIANTS TypeOK IndicesInBounds ComputesMedian
PROPERTIES Returns
CHECK_DEADLOCK FALSE
