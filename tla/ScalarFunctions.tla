-------------------------- MODULE ScalarFunctions --------------------------
(***************************************************************************)
(* The scalar functions of the extension on what queries have stored: the  *)
(* results of build aggregates, of one another, and the empty string.  A   *)
(* function call is atomic; what it returns may be stored and be given to  *)
(* the next, so that expressions of any shape arise.  The functions come   *)
(* in two variants: in the emptyisnull ones the empty string is NULL.      *)
(*                                                                         *)
(* History: each stored value carries the hashes it stands for, sampled or *)
(* not; called is the last call.                                           *)
(***************************************************************************)
EXTENDS SetOperations, SetDifference

CONSTANTS Hashes,      \* the hashes of values
          MaxStored    \* bound on the results stored

ASSUME ScalarAssumption ==
  Hashes \subseteq 1 .. MaxTheta - 1 /\ MaxStored \in Nat

VARIABLES emptyIsNull,  \* the variant installed (create_loader.sh)
          stored,       \* the results of function calls
          exited,       \* BAIL or an error ended the process
          called

scalarVars == <<emptyIsNull, stored, exited, called>>

(* theta_a_not_b::compute(a, b, ordered), ordered. *)
Difference(a, b) ==
  LET theta == MinOf(a.theta, b.theta)
      table == TableOf(b, theta)     \* looked at only if it is used
  IN  IF ReturnsA(a, b) THEN CompactCopy(a, TRUE)
      ELSE Finish(a, TRUE, theta, Remaining(a, b, table, theta), MaxTheta)

EmptyString == [empty |-> "string"]
Value(blob, hashes) == [blob |-> blob, hashes |-> hashes]
IsNull(v) == v.blob = EmptyString

(* What a build aggregate returns for rows with the hashes of q, in order. *)
Built(q) ==
  LET after[n \in 0 .. Len(q)] ==
        IF n = 0 THEN NewUpdateSketch ELSE Offer(after[n - 1], q[n])
  IN  IF q = <<>> THEN EmptyString ELSE CompactCopy(AsSketch(after[Len(q)]), TRUE)

(* The rows a build aggregate may be given, in order: an update by a hash  *)
(* that was offered before changes nothing.                                *)
RowOrders ==
  {q \in UNION {[1 .. n -> Hashes] : n \in 0 .. Cardinality(Hashes)} : Distinct(q)}

(* The empty string, and every value a build aggregate returns. *)
BuildResults ==
  {Value(Built(q), {q[k] : k \in DOMAIN q}) : q \in RowOrders}

Store(v) == stored' = stored \cup {v} /\ exited' = FALSE

Abort == exited' = TRUE /\ UNCHANGED stored

(* BAIL_IF(len < 8): a plain variant does not take the empty string. *)
Rejects(l, r) == ~emptyIsNull /\ (IsNull(l) \/ IsNull(r))

(* theta_union_update_with_bytes, for an argument that is there. *)
UnionWith(u, v) == IF IsNull(v) THEN u ELSE UnionUpdate(u, v.blob)

(* Mutant of InterWith: an argument without entries is passed over. *)
InterWithEntries(x, v) ==
  IF IsNull(v) \/ v.blob.entries = <<>> THEN x ELSE InterUpdate(x, v.blob)

(* theta_intersection_update_with_bytes, for an argument that is there. *)
InterWith(x, v) == IF IsNull(v) THEN x ELSE InterUpdate(x, v.blob)

(* extension_sketch_union and its emptyisnull form *)
SketchUnion(l, r) ==
  IF Rejects(l, r) THEN Abort
  ELSE Store(Value(UnionResult(UnionWith(UnionWith(NewUnion, l), r)),
                   l.hashes \cup r.hashes))

(* extension_sketch_intersection and its emptyisnull form: the result of   *)
(* an intersection that was given nothing is an error.                     *)
SketchIntersection(l, r) ==
  LET last == InterWith(InterWith(NewIntersection, l), r)
      hashes == IF IsNull(l) THEN r.hashes
                ELSE IF IsNull(r) THEN l.hashes ELSE l.hashes \cap r.hashes
  IN  IF Rejects(l, r) \/ ~last.isValid THEN Abort
      ELSE Store(Value(InterResult(last), hashes))

(* extension_sketch_a_not_b and its emptyisnull form, which takes no NULL. *)
SketchANotB(l, r) ==
  IF IsNull(l) \/ IsNull(r) THEN Abort
  ELSE Store(Value(Difference(l.blob, r.blob), l.hashes \ r.hashes))

ScalarInit ==
  /\ emptyIsNull \in BOOLEAN
  /\ stored = {} /\ exited = FALSE /\ called = <<>>

Call(name, l, r) ==
  /\ ~exited /\ Cardinality(stored) < MaxStored
  /\ \/ name = "union" /\ SketchUnion(l, r)
     \/ name = "intersection" /\ SketchIntersection(l, r)
     \/ name = "a_not_b" /\ SketchANotB(l, r)
  /\ called' = <<name, l, r>>
  /\ UNCHANGED emptyIsNull

Functions == {"union", "intersection", "a_not_b"}

ScalarNext ==
  \E name \in Functions : \E l, r \in BuildResults \cup stored : Call(name, l, r)

ScalarSpec == ScalarInit /\ [][ScalarNext]_scalarVars

-----------------------------------------------------------------------------
(* Whatever expression of unions, intersections and differences a query    *)
(* builds, over sketches that were thinned or not: its value is a sample   *)
(* of exactly the hashes the expression denotes.  It holds those below its *)
(* theta, all and only, in order; and it says "empty" only of nothing at   *)
(* all, on which the shortcuts of the other operations rely (compute,      *)
(* update, get_result).                                                    *)
ResultsAreSamples ==
  \A v \in stored :
    /\ IsSketch(v.blob, MaxTheta) /\ v.blob.isOrdered
    /\ Keys(v.blob) = Below(v.hashes, v.blob.theta)
    /\ v.blob.isEmpty => v.hashes = {}

(* A call ends the process exactly when no result is defined for NULL:    *)
(* always in the plain variants; in the emptyisnull ones for a difference, *)
(* and for an intersection of two NULLs.  On sketches, whatever they hold, *)
(* no call does: an intersection that was given an empty sketch, or ran    *)
(* out of hashes, still has a result (extension_sketch_union,              *)
(* _intersection, _a_not_b; get_result).                                   *)
AbortsOnlyOnNull ==
  called # <<>> =>
    LET nulls == Cardinality({k \in {2, 3} : IsNull(called[k])})
    IN  exited <=> \/ nulls > 0 /\ (~emptyIsNull \/ called[1] = "a_not_b")
                   \/ nulls = 2 /\ called[1] = "intersection"

=============================================================================
