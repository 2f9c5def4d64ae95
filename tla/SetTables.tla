------------------------------ MODULE SetTables ------------------------------
(***************************************************************************)
(* What theta_union and theta_intersection do to their tables, as          *)
(* operators on a table: shared by their state machines and by             *)
(* SetOperations, where a whole call is one function.                      *)
(***************************************************************************)
EXTENDS ThetaTable, CompactSketch

(* Mutant of Kept: the union's own theta is not applied to the table. *)
KeptUnfiltered(t, unionTheta) == t.entries

(* theta_union::get_result(): the table filtered by the union's theta when *)
(* that is the lower one ...                                               *)
Kept(t, unionTheta) ==
  IF unionTheta >= t.theta THEN t.entries
  ELSE Below(t.entries, MinOf(unionTheta, t.theta))

(* ... and cut to the nominal size. *)
ResultOf(t, unionTheta) ==
  LET kept  == Kept(t, unionTheta)
      pivot == NthElement(kept, t.nom)
  IN  IF t.isEmpty THEN [isEmpty |-> TRUE, theta |-> unionTheta, keys |-> {}]
      ELSE IF Cardinality(kept) > t.nom
        THEN [isEmpty |-> FALSE, theta |-> pivot, keys |-> Below(kept, pivot)]
      ELSE [isEmpty |-> FALSE, theta |-> MinOf(unionTheta, t.theta), keys |-> kept]

-----------------------------------------------------------------------------
(* Mutant of NoTable: theta of the cleared table is not carried over. *)
NoTableThetaLost(theta, isEmpty) == NewTable(1, 1, 1, 0, isEmpty)

(* hash_table(0, 0, X1, 1, theta, ...): a single slot, never used. *)
NoTable(theta, isEmpty) == NewTable(1, 1, 1, theta, isEmpty)

(* A table sized for the keys q, with q inserted one by one. *)
Filled(theta, isEmpty, q) ==
  LET lg == LgSizeFromCount(Len(q))
      after[n \in 0 .. Len(q)] ==
        IF n = 0 THEN NewTable(Pow2(lg), Pow2(lg - 1), 1, theta, isEmpty)
        ELSE Insert(after[n - 1], q[n])
  IN  after[Len(q)]

(* Mutant of ScreenedBy: theta stays where it was when the result is empty. *)
ScreenedByKeepsTheta(t, s, maxTheta) ==
  [t EXCEPT !.isEmpty = s.isEmpty, !.theta = MinOf(t.theta, s.theta)]

(* The head of theta_intersection::update(): emptiness and theta of the    *)
(* result so far.                                                          *)
ScreenedBy(t, s, maxTheta) ==
  [t EXCEPT !.isEmpty = s.isEmpty,
            !.theta = IF s.isEmpty THEN maxTheta ELSE MinOf(t.theta, s.theta)]

(* The entries of s the loop finds in the table, below the new theta. *)
MatchesIn(t, s, p) ==
  Picked(s.entries, Scanned(s, p) \cap t.entries)

=============================================================================
