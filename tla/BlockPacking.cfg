\* the widths whose unrolled functions differ from the others
CONSTANTS
  Widths = {13, 19, 33, 35}
SPECIFICATION Spec
INVARIANTS
  BlockRoundTrip
CHECK_DEADLOCK FALSE
