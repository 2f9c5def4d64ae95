\* blobs are cut anywhere within 26 bytes of either end: in every field of
\* the longest preamble, in the first entry and in the last (MCJunk: what is
\* read past the end).  The packed
\* sketches have up to three blocks and every rest; widths below, at and above
\* one and two bytes, so that values start at every bit of a byte; not 13, whose
\* blocks do not survive packing (BlockPacking)
CONSTANTS
  MaxTheta = 67108864
  Thetas = {33554432, 67108864}
  Lengths = {0, 1, 2, 7, 8, 9}
  Long = {257}
  PackedLengths = {1, 2, 7, 8, 9, 15, 16, 17, 24, 25}
  Widths = {1, 2, 3, 5, 7, 8, 9, 11, 16, 17, 19}
  Patterns = {0, 1}
  Sketches <- MCSketches
  Uncut <- MCPacked
  SeedHashes = {91, 92}
  Junk <- MCJunk
  CutReach = 26
SPECIFICATION WrappedSpec
INVARIANTS
  SketchSurvives
  AcceptedExactly
  StreamInStep
  IteratorExact
  ReadsWithinData
CHECK_DEADLOCK FALSE
