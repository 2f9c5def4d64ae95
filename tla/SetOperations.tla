--------------------------- MODULE SetOperations ---------------------------
(***************************************************************************)
(* The set operations as the callbacks of the extension use them: whole    *)
(* calls, each a function from the object, if the operation has a state,   *)
(* and its argument.  The bodies are those of SetTables, which the state   *)
(* machines ThetaUnion and ThetaIntersection are made of too.              *)
(***************************************************************************)
EXTENDS SetTables

CONSTANTS MaxTheta, Nominal, Factor, StartSize

ASSUME OperationsAssumption ==
  /\ MaxTheta \in Nat \ {0}
  /\ Nominal \in Nat \ {0} /\ Factor \in Nat \ {0}
  /\ StartSize <= Nominal => Factor >= 2
  /\ \E sizes \in SUBSET (2 .. 2 * Nominal) :
       StartSize \in sizes /\ SizesOK(sizes, Nominal, Factor)

(* An update sketch as the set operations read it: in slot order, which    *)
(* is ordered only by accident (descending here), and theta of an empty    *)
(* one is MAX_THETA.                                                       *)
AsSketch(t) ==
  [isEmpty |-> t.isEmpty, isOrdered |-> t.num <= 1,
   theta |-> IF t.isEmpty THEN MaxTheta ELSE t.theta,
   entries |-> [k \in 1 .. t.num |-> NthElement(t.entries, t.num - k)]]

NewUpdateSketch == NewTable(StartSize, Nominal, Factor, MaxTheta, TRUE)

NewUnion == [table |-> NewUpdateSketch, theta |-> MaxTheta]

(* theta_union::update: the early stop of an ordered sketch passes over    *)
(* nothing the loop body would have taken, for both thetas only fall.      *)
UnionUpdate(u, s) ==
  LET theta == MinOf(u.theta, s.theta)
      Take(t, h) == IF h < theta /\ h < t.theta /\ h \notin t.entries
                    THEN Insert(t, h) ELSE t
      after[n \in 0 .. Len(s.entries)] ==
        IF n = 0 THEN Unempty(u.table) ELSE Take(after[n - 1], s.entries[n])
      last == after[Len(s.entries)]
  IN  IF s.isEmpty THEN u
      ELSE [table |-> last, theta |-> MinOf(theta, last.theta)]

(* theta_union::get_result, ordered. *)
UnionResult(u) ==
  LET r == ResultOf(u.table, u.theta)
  IN  MakeSketch(r.isEmpty, TRUE, r.theta, SortedKeys(r.keys))

NewIntersection ==
  [table |-> NewTable(1, 1, 1, MaxTheta, FALSE), isValid |-> FALSE]

(* theta_intersection::update, case by case. *)
InterUpdate(x, s) ==
  LET seen    == ScreenedBy(x.table, s, MaxTheta)
      matches == MatchesIn(x.table, s, seen.theta)
  IN  CASE x.table.isEmpty -> x
        [] ~x.table.isEmpty /\ x.isValid /\ x.table.num = 0 ->
             [x EXCEPT !.table = seen]
        [] OTHER ->
             [isValid |-> TRUE,
              table |-> IF s.entries = <<>> THEN NoTable(seen.theta, seen.isEmpty)
                        ELSE IF ~x.isValid THEN Filled(seen.theta, seen.isEmpty, s.entries)
                        ELSE IF matches = <<>> THEN NoTable(seen.theta, seen.theta = MaxTheta)
                        ELSE Filled(seen.theta, FALSE, matches)]

(* theta_intersection::get_result, ordered, of one that was updated. *)
InterResult(x) ==
  MakeSketch(x.table.isEmpty, TRUE, x.table.theta, SortedKeys(x.table.entries))

=============================================================================
