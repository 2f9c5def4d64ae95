\* MIN_LG_K scaled down to 1: the table grows 2 -> 4 -> 8 slots (X2) and is
\* rebuilt when its last slot is taken; strides differ between keys
CONSTANTS
  MinLgK = 1
  LgNom = 2
  Rf = 1
  MaxHash = 33
  StartTheta = 33
  Offers = {0, 1, 3, 9, 11, 17, 19, 25, 27, 33}
SPECIFICATION Spec
INVARIANTS
  TypeOK
  FindAlwaysEnds
  EveryKeyFindable
PROPERTIES
  ImplementsUpdateSketch
