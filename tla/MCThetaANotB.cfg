\* 15 hashes fill 16 slots up to the last free one
CONSTANTS
  MinLgK = 5
  SmallHashes = {17, 18, 33, 49}
  MaxTheta = 300
  Thetas = {33, 50, 300}
  Minuends <- MCMinuends
  Subtrahends <- MCSubtrahends
SPECIFICATION Spec
INVARIANTS
  TypeOK
  DifferenceExact
  TableHolds
CHECK_DEADLOCK FALSE
