---------------------------- MODULE CompactSketch ----------------------------
(***************************************************************************)
(* Immutable sketches: compact_theta_sketch and wrapped_compact_theta_     *)
(* sketch, which the set operations read.  A sketch is a record of the     *)
(* fields of the class; its entries are a sequence, for the set operations *)
(* stop at the first hash that is not below theta when is_ordered says the *)
(* sequence ascends.                                                       *)
(***************************************************************************)
EXTENDS ThetaHelpers

Keys(s) == {s.entries[i] : i \in DOMAIN s.entries}

Ascending(q) == \A i, j \in DOMAIN q : i < j => q[i] < q[j]

Distinct(q) == \A i, j \in DOMAIN q : i # j => q[i] # q[j]

(* What every sketch the program builds satisfies, and every reader of a   *)
(* sketch relies on.                                                       *)
IsSketch(s, maxTheta) ==
  /\ s.isEmpty \in BOOLEAN /\ s.isOrdered \in BOOLEAN
  /\ s.theta \in 1 .. maxTheta
  /\ s.entries \in Seq(Nat)
  /\ \A i \in DOMAIN s.entries : 0 < s.entries[i] /\ s.entries[i] < s.theta
  /\ Distinct(s.entries)
  /\ s.isOrdered => Ascending(s.entries)
  /\ s.isEmpty => s.entries = <<>> /\ s.theta = maxTheta

(* compact_theta_sketch(is_empty, is_ordered, seed_hash, theta, entries):  *)
(* a sketch of at most one entry is ordered whatever the caller says.      *)
MakeSketch(isEmpty, isOrdered, theta, entries) ==
  [isEmpty |-> isEmpty, isOrdered |-> isOrdered \/ Len(entries) <= 1,
   theta |-> theta, entries |-> entries]

(* compact_theta_sketch(other, ordered): a copy, sorted when asked to be.  *)
CompactCopy(s, ordered) ==
  [isEmpty |-> s.isEmpty, isOrdered |-> s.isOrdered \/ ordered, theta |-> s.theta,
   entries |-> IF ordered /\ ~s.isOrdered THEN SortedKeys(Keys(s)) ELSE s.entries]

(* The entries a range-for over s meets before it stops, when the loop     *)
(* body takes those below p and breaks, if s is ordered, at the first that *)
(* is not.                                                                 *)
Scanned(s, p) ==
  {s.entries[i] : i \in {k \in DOMAIN s.entries :
       /\ s.entries[k] < p
       /\ s.isOrdered => \A j \in 1 .. k : s.entries[j] < p}}

=============================================================================
