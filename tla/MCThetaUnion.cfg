\* lg_nom = 1: the table grows 2 -> 4 slots and is rebuilt at 4 keys
CONSTANTS
  MaxHash = 5
  MaxEntries = 3
  MaxTheta = 6
  Thetas = {3, 5, 6}
  Nominal = 2
  Factor = 2
  StartSize = 2
  Sizes = {2, 4}
  Inputs <- MCInputs
SPECIFICATION Spec
INVARIANTS
  TypeOK
  ResultIsCanonical
  EmptyIffAllWere
PROPERTIES
  ThetasOnlyFall
