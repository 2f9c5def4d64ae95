\* nominal size 2: a build state thins at 4 keys.  Build rows are the hashes
\* 1 .. 5 and 0; the others' are sketches of the hashes 1 .. 3, exact or
\* sampled, or the empty string, which the emptyisnull variants skip
CONSTANTS
  Kinds = {"build", "union", "intersection"}
  States = {s1, s2, s3}
  HashRows = {0, 1, 2, 3, 4, 5}
  SketchRows <- MCSketchRows
  NullRow = NullRow
  EmptyIsNull = {"union", "intersection"}
  MaxHashRows = 5
  MaxSketchRows = 3
  MaxHash = 3
  Thetas = {3, 6}
  MaxTheta = 6
  Nominal = 2
  Factor = 2
  StartSize = 2
SYMMETRY StateSymmetry
SPECIFICATION Spec
INVARIANTS
  TypeOK
  MergedIsCanonical
  ValueIsSample
  IntersectionOfRows
CHECK_DEADLOCK FALSE
