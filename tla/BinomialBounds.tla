--------------------------- MODULE BinomialBounds ---------------------------
(***************************************************************************)
(* The control of binomial_bounds: which approximation a confidence bound  *)
(* is computed with, and which inputs end the process on the way.  The     *)
(* values of the bounds are floating point and left out, except for the    *)
(* two quantities that are tested: n / theta, and theta to the power n.    *)
(*                                                                         *)
(* Thetas are counted in Units of the sampling probability 1.              *)
(***************************************************************************)
EXTENDS Integers

CONSTANT Units

ASSUME UnitsAssumption == Units \in 100000 .. 200000   \* theta * 1000 fits in 32 bits

LargestTabled == 120      \* the last row of the tables of equivalent deviations
TableEntries == 363

(* A positive number as a decimal of four digits, rounded down. *)
Decimal(digits, exponent) == [digits |-> digits, exponent |-> exponent]
One == Decimal(1000, -3)

(* theta / Units: shifted until it has four digits before the point. *)
Fraction(theta) ==
  LET shift == CHOOSE k \in 0 .. 9 : theta * 10^k >= Units /\ \A j \in 0 .. k - 1 : theta * 10^j < Units
  IN  Decimal((theta * 10^shift * 1000) \div Units, -3 - shift)

Times(x, y) ==
  LET product == x.digits * y.digits
  IN  IF product >= 10000000 THEN Decimal(product \div 10000, x.exponent + y.exponent + 4)
      ELSE Decimal(product \div 1000, x.exponent + y.exponent + 3)

(* pow(theta, n) *)
Power(theta, n) ==
  LET power[k \in 0 .. n] ==
        IF k = 0 THEN One
        ELSE LET half   == power[k \div 2]
                 square == Times(half, half)
             IN  IF k % 2 = 0 THEN square ELSE Times(square, Fraction(theta))
  IN  power[n]

(* <= 1e-100: the sanity check for the non-use of logarithms. *)
BelowRange(x) == x.exponent + 3 < -100 \/ x = Decimal(1000, -103)

(* n / theta >= 500: too slow, or worse. *)
TooSlow(n, theta) == n * Units >= 500 * theta

(* special_n_star(), special_n_prime_b() and special_n_prime_f() exit.     *)
NStarExits(n, theta) == TooSlow(n, theta) \/ BelowRange(Power(theta, n))
NPrimeBExits(n, theta) == BelowRange(Power(theta, n))
NPrimeFExits(n, theta) == TooSlow(n, theta) \/ NPrimeBExits(n + 1, theta)

(* Indexing lb_equiv_table or ub_equiv_table past its end. *)
OutsideTable(n, deviations) == 3 * n + deviations - 1 >= TableEntries

(* Mutant of Gaussian: a threshold where n / theta may pass 500. *)
GaussianFrom600(n, theta) == theta * 600 < n * Units

(* theta < n / 360: Gaussian with a tabled number of deviations. *)
Gaussian(n, theta) == theta * 360 < n * Units

(* theta > 1 - 1e-5 *)
NearOne(theta) == theta > Units - Units \div 100000

(* The tail the two bounds share: few samples, theta anywhere below 1. *)
FewSamples(n, theta, deviations, exits) ==
  /\ n <= LargestTabled /\ ~NearOne(theta)
  /\ IF Gaussian(n, theta) THEN OutsideTable(n, deviations) ELSE exits

(* compute_approx_binomial_lower_bound() does not return a number. *)
LowerExits(n, theta, deviations) ==
  theta # Units /\ n > 1 /\ FewSamples(n, theta, deviations, NStarExits(n, theta))

(* compute_approx_binomial_upper_bound(): a single sample is not special. *)
UpperExits(n, theta, deviations) ==
  theta # Units /\ n > 0 /\ FewSamples(n, theta, deviations, NPrimeFExits(n, theta))

(* check_theta(), check_num_std_devs() *)
ArgumentsOutside(theta, deviations) == theta \notin 0 .. Units \/ deviations \notin 1 .. 3

(* get_lower_bound() and get_upper_bound() of a sketch in estimation mode  *)
(* with n entries: the process ends.                                       *)
BoundsExit(n, theta, deviations) ==
  \/ ArgumentsOutside(theta, deviations)
  \/ LowerExits(n, theta, deviations)
  \/ UpperExits(n, theta, deviations)

=============================================================================
