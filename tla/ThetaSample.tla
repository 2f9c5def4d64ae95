----------------------------- MODULE ThetaSample -----------------------------
(***************************************************************************)
(* What a theta sketch promises, whatever its data structure: after any    *)
(* history of updates it retains exactly the offered hashes in (0, theta), *)
(* theta being the start value or one of the offered hashes; theta never   *)
(* rises while hashes are offered, and it is lowered only while at least K *)
(* hashes stay retained, so the estimate keeps its error bound.            *)
(***************************************************************************)
EXTENDS Integers, FiniteSets

CONSTANTS Hash,        \* the hashes that may be offered
          K,           \* the nominal number of entries
          StartTheta   \* theta of an empty sketch

VARIABLES offered, theta, retained, empty

vars == <<offered, theta, retained, empty>>

Sample(S, p) == {h \in S : 0 < h /\ h < p}

Init ==
  /\ offered = {}
  /\ theta = StartTheta
  /\ retained = {}
  /\ empty = TRUE

(* More hashes arrive (or none: a trim) and the sample may be thinned. *)
Absorb ==
  /\ offered \subseteq offered' /\ offered' \subseteq Hash
  /\ theta' \in {theta} \cup offered' /\ theta' <= theta
  /\ retained' = Sample(offered', theta')
  /\ theta' # theta => Cardinality(retained') >= K
  /\ empty' = (offered' = {})

Forget ==
  /\ offered' = {}
  /\ theta' = StartTheta
  /\ retained' = {}
  /\ empty' = TRUE

Next == Absorb \/ Forget

Spec == Init /\ [][Next]_vars

=============================================================================
