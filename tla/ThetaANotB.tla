----------------------------- MODULE ThetaANotB -----------------------------
(***************************************************************************)
(* theta_a_not_b: compute(a, b, ordered) removes the hashes of b from a.   *)
(* Ordered operands are merged (std::set_difference), others go through a  *)
(* hash table of b that is sized by lg_size_from_count but filled with a   *)
(* resize factor of X1: past half of its slots every insertion rehashes it *)
(* into a table of the same size.                                          *)
(*                                                                         *)
(* The state machine subtracts one sketch after another: acc is a and then *)
(* each result; table is the hash table the last compute() used.  History  *)
(* variables: start (the hashes subtracted from), removed (the hashes of   *)
(* all b), minTheta (the least theta of the operands, until the result is  *)
(* empty).                                                                 *)
(***************************************************************************)
EXTENDS SetDifference

CONSTANTS Minuends, Subtrahends,   \* the sketches given as a and as b
          MaxTheta

ASSUME OperandAssumption ==
  /\ MaxTheta \in Nat \ {0}
  /\ \A s \in Minuends \cup Subtrahends : IsSketch(s, MaxTheta)

VARIABLES acc, table, start, removed, minTheta

vars == <<acc, table, start, removed, minTheta>>

NoSlots == NewSlots(0, 0, 0, 0, TRUE)

Init ==
  /\ acc \in Minuends
  /\ table = NoSlots
  /\ start = Keys(acc) /\ removed = {} /\ minTheta = acc.theta

KeepA(b, ordered) ==
  /\ ReturnsA(acc, b)
  /\ acc' = CompactCopy(acc, ordered)
  /\ table' = NoSlots

Subtract(b, ordered) ==
  LET theta == MinOf(acc.theta, b.theta)
  IN  /\ ~ReturnsA(acc, b)
      /\ table' = IF UsesTable(acc, b) THEN TableOf(b, theta) ELSE NoSlots
      /\ acc' = Finish(acc, ordered, theta, Remaining(acc, b, table', theta), MaxTheta)

Compute(b, ordered) ==
  /\ KeepA(b, ordered) \/ Subtract(b, ordered)
  /\ removed' = removed \cup Keys(b)
  /\ minTheta' = IF acc.isEmpty THEN minTheta ELSE MinOf(minTheta, b.theta)
  /\ UNCHANGED start

Next ==
  /\ ~table.exited
  /\ \E b \in Subtrahends, ordered \in BOOLEAN : Compute(b, ordered)

Spec == Init /\ [][Next]_vars

-----------------------------------------------------------------------------
(* Type invariant: every result is a well-formed sketch, in particular one *)
(* that says it is ordered ascends: the readers that stop early rely on it *)
(* (compute, the constructors of compact_theta_sketch_alloc).              *)
TypeOK == IsSketch(acc, MaxTheta)

(* However the operands are ordered, whichever of the three ways compute() *)
(* takes, and in whatever order sketches are subtracted: the result        *)
(* retains exactly the hashes of a that no b retains, below the least      *)
(* theta of all operands.  It turns empty only when nothing was lost to    *)
(* sampling; otherwise the zero it estimates is not certain (compute).     *)
DifferenceExact ==
  /\ Keys(acc) = {h \in start \ removed : h < minTheta}
  /\ IF acc.isEmpty THEN minTheta = MaxTheta /\ start \subseteq removed
     ELSE acc.theta = minTheta

(* The hash table of b is never searched to its end: sized by              *)
(* lg_size_from_count it keeps a free slot although it never grows, and    *)
(* holds each key of b below theta once (compute, resize), although it is  *)
(* rehashed at its own size and filled past its threshold.                 *)
TableHolds ==
  /\ ~table.exited
  /\ table.num = Cardinality(KeySet(table))
  /\ table.num < Pow2(table.lgCur)

=============================================================================
