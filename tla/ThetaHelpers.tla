---------------------------- MODULE ThetaHelpers ----------------------------
(***************************************************************************)
(* What the builders, the table and the set operations share: the          *)
(* table-size arithmetic, the rank of a key, and going over keys in order. *)
(***************************************************************************)
EXTENDS Integers, Sequences, FiniteSets

(* 1 << lg *)
Pow2(lg) ==
  LET power[l \in 0 .. lg] == IF l = 0 THEN 1 ELSE 2 * power[l - 1]
  IN  power[lg]

(* log2(n): position of the highest bit of n, 0 of 0. *)
Log2(n) == IF n > 1 THEN CHOOSE l \in 1 .. n : Pow2(l) <= n /\ n < Pow2(l + 1) ELSE 0

(* Mutant of LgSizeFromCount: the load factor is not looked at. *)
LgSizeNoLoad(n) == Log2(n) + 1

(* lg_size_from_count(n, REBUILD_THRESHOLD): a table that holds n keys     *)
(* without reaching 15/16 of its slots.                                    *)
LgSizeFromCount(n) ==
  Log2(n) + IF n > (15 * Pow2(Log2(n) + 1)) \div 16 THEN 2 ELSE 1

(* starting_lg_size() of the builder and of reset(). *)
StartingSubMultiple(lgTgt, lgMin, lgRf) ==
  IF lgTgt <= lgMin THEN lgMin
  ELSE IF lgRf = 0 THEN lgTgt
  ELSE ((lgTgt - lgMin) % lgRf) + lgMin

-----------------------------------------------------------------------------
MinOf(x, y) == IF x <= y THEN x ELSE y

Below(S, p) == {h \in S : h < p}

(* What std::nth_element leaves at position n (from 0) of distinct keys.   *)
NthElement(S, n) == CHOOSE p \in S : Cardinality(Below(S, p)) = n

(* std::sort of distinct keys. *)
SortedKeys(S) == [k \in 1 .. Cardinality(S) |-> NthElement(S, k - 1)]

(* The keys of S as a loop over q hands them on: those at the places of q  *)
(* that hold one, in the order of the places.                              *)
Picked(q, S) ==
  LET places == {i \in DOMAIN q : q[i] \in S}
  IN  [n \in 1 .. Cardinality(places) |-> q[NthElement(places, n - 1)]]

=============================================================================
