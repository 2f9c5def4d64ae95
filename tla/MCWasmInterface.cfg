\* two states of a group, of any of the aggregates, in either variant; lists
\* of 0, 7 and 8 bytes; thetas in units of 1/200000
CONSTANTS
  Groups = {g1, g2}
  StatisticsOutcomes <- MCStatisticsOutcomes
  Units = 200000
  Counts = {0, 1, 2, 3, 60, 119, 120, 121, 4096}
SYMMETRY GroupSymmetry
SPECIFICATION Spec
INVARIANTS
  TypeOK
  MemoryBalanced
  AbortsOnlyOnArguments
CHECK_DEADLOCK FALSE
