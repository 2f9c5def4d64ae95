\* three hashes and nominal size 1, so that build results and unions are
\* thinned down to any theta; expressions of up to three calls; the smallest
\* union of a similarity has nominal size 1 and the largest 4, so that its
\* size and its cap matter, for sketches of up to six hashes
CONSTANTS
  Hashes = {1, 2, 3}
  MaxStored = 3
  MaxTheta = 8
  Nominal = 1
  Factor = 2
  StartSize = 2
  MinLgK = 0
  MaxLgK = 2
  OtherHash = 6
  OtherThetas = {3, 5, 8}
  Others <- MCOthers
SPECIFICATION ScalarSpec
INVARIANTS
  ResultsAreSamples
  AbortsOnlyOnNull
  SimilarityExact
CHECK_DEADLOCK FALSE
