\* the rest of a packed sketch at every bit of a byte; the reader holds the
\* writer's seed, and nothing is cut
CONSTANTS
  MaxTheta = 67108864
  Thetas = {67108864}
  Lengths = {1}
  Long = {}
  PackedLengths = {1, 2, 7, 8, 9}
  Widths = {3, 8, 9}
  Patterns = {0, 1}
  Sketches <- MCSketches
  Uncut <- MCSketches
  SeedHashes = {91}
  Junk <- MCNoJunk
  CutReach = 0
SPECIFICATION WrappedSpec
INVARIANTS
  StreamComplete
CHECK_DEADLOCK FALSE
