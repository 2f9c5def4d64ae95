-------------------------- MODULE MCWasmInterface --------------------------
(* Symmetry of the groups, and the outcomes of the confidence bounds for     *)
(* WasmInterface: every count next to a threshold of binomial_bounds, with   *)
(* every theta next to one.                                                  *)
EXTENDS WasmInterface, BinomialBounds, TLC

CONSTANT Counts

Deviations == 2       \* to_string() asks for 95% confidence

GroupSymmetry == Permutations(Groups)

NextTo(theta) == {theta - 1, theta, theta + 1} \cap 1 .. Units

BoundaryThetas(n) ==
  UNION {NextTo(theta) : theta \in {1, (n * Units) \div 500, (n * Units) \div 360, Units \div 2,
                                    Units - Units \div 100000, Units}}

MCStatisticsOutcomes ==
  UNION {{BoundsExit(n, theta, Deviations) : theta \in BoundaryThetas(n)} : n \in Counts}

=============================================================================
