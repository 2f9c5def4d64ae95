\* 31 hashes are the fewest lg_size_from_count gives a larger table to;
\* the process stops once an error has ended it
CONSTANTS
  MaxHash = 6
  Large = 31
  MaxTheta = 34
  Thetas = {3, 5, 7, 33, 34}
  Inputs <- MCInputs
SPECIFICATION Spec
INVARIANTS
  TypeOK
  ResultExact
  ExitsOnlyUnused
PROPERTIES
  EmptyOnlyWhenKnown
CHECK_DEADLOCK FALSE
