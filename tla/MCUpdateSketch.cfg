\* lg_nom = 2, X2: the table grows 2 -> 4 -> 8 slots and is rebuilt at 8 keys
CONSTANTS
  Hash = {0, 1, 2, 3, 4, 5, 6, 7, 8, 9, 10, 11}
  MaxTheta = 11
  StartTheta = 11
  Nominal = 4
  Factor = 2
  StartSize = 2
  Sizes = {2, 4, 8}
SPECIFICATION Spec
INVARIANTS
  TypeOK
  SampleExact
  CountWithinCapacity
  ThetaKeepsNominal
  TrimmedIsCanonical
PROPERTIES
  ThetaOnlyFalls
  ImplementsSample
