-------------------------- MODULE ThetaANotBProofs --------------------------
(***************************************************************************)
(* The difference is exact for every pair of well-formed operands, however *)
(* they are ordered, and the hash table it is looked up in always keeps a  *)
(* free slot: it is sized for the keys of b, and a rehash at its own size  *)
(* loses none of them.                                                     *)
(***************************************************************************)
EXTENDS ThetaANotB, ThetaLemmas

(* The inductive invariant: beside the two properties of the state, that   *)
(* the result is a well-formed sketch, which decides the way the next      *)
(* compute() takes, and that no hash of a reaches the maximal theta: an    *)
(* exact result that retains nothing is then certain to be empty.          *)
IInv ==
  /\ IsSketch(acc, MaxTheta)
  /\ DifferenceExact
  /\ TableHolds
  /\ minTheta \in 1 .. MaxTheta
  /\ start \in SUBSET (1 .. MaxTheta - 1)

(* A table that was filled in the way of find() and insert() has room.     *)
LEMMA TabledHolds ==
  ASSUME NEW t, Good(t), t.num < Pow2(t.lgCur)
  PROVE  /\ ~t.exited /\ t.num = Cardinality(KeySet(t))
         /\ t.num < Pow2(t.lgCur)
<1>1. t.exited = FALSE /\ t.num = Cardinality(SlotKeys(t.entries))
  BY GoodRuns DEF Good
<1> QED
  BY <1>1 DEF KeySet, SlotKeys

(* So has the table of a compute() that needs none. *)
LEMMA NoSlotsHolds ==
  /\ ~NoSlots.exited /\ NoSlots.num = Cardinality(KeySet(NoSlots))
  /\ NoSlots.num < Pow2(NoSlots.lgCur)
<1>1. PICK z \in Nat : z = 0
  OBVIOUS
<1>2. PICK t : t = EmptyTable(z)
  OBVIOUS
<1>3. NoSlots = t
  BY <1>1, <1>2 DEF NoSlots, EmptyTable
<1>4. Good(t) /\ t.lgCur = z /\ t.num = 0
  BY <1>2, NewIsFixed DEF Fixed
<1>5. Pow2(0) = 1
  BY Pow2Doubles
<1>6. t.num < Pow2(t.lgCur)
  BY <1>1, <1>4, <1>5
<1> QED
  BY <1>3, <1>4, <1>6, TabledHolds

(* The first operand is itself what nothing was subtracted from. *)
LEMMA InitIInv == Init => IInv
<1>1. SUFFICES ASSUME Init PROVE IInv
  OBVIOUS
<1>2. IsSketch(acc, MaxTheta) /\ MaxTheta \in Nat \ {0}
  BY <1>1, OperandAssumption DEF Init
<1>3. /\ acc.theta \in 1 .. MaxTheta /\ Keys(acc) \in SUBSET (1 .. MaxTheta - 1)
      /\ \A h \in Keys(acc) : h < acc.theta
      /\ acc.isEmpty => Keys(acc) = {} /\ acc.theta = MaxTheta
  BY <1>2, SketchKeys
<1>4. start = Keys(acc) /\ removed = {} /\ minTheta = acc.theta
  BY <1>1 DEF Init
<1>5. DifferenceExact
  <2>1. Keys(acc) = {h \in start \ removed : h < minTheta}
    BY <1>3, <1>4
  <2>2. acc.isEmpty => minTheta = MaxTheta /\ start \subseteq removed
    BY <1>3, <1>4
  <2> QED
    BY <1>4, <2>1, <2>2 DEF DifferenceExact
<1>6. TableHolds
  <2>1. table = NoSlots
    BY <1>1 DEF Init
  <2> QED
    BY <2>1, NoSlotsHolds DEF TableHolds
<1> QED
  BY <1>2, <1>3, <1>4, <1>5, <1>6 DEF IInv

(* A result that is the first operand itself loses nothing: that operand   *)
(* was empty, or the second one is, and then it neither holds a hash nor   *)
(* has a theta below the maximal one.                                      *)
LEMMA KeepAIInv ==
  ASSUME IInv, NEW b, IsSketch(b, MaxTheta), NEW ordered \in BOOLEAN,
         KeepA(b, ordered), removed' = removed \cup Keys(b), start' = start,
         minTheta' = IF acc.isEmpty THEN minTheta ELSE MinOf(minTheta, b.theta)
  PROVE  IInv'
<1>1. /\ IsSketch(acc, MaxTheta) /\ MaxTheta \in Nat \ {0}
      /\ minTheta \in 1 .. MaxTheta /\ start \in SUBSET (1 .. MaxTheta - 1)
  BY OperandAssumption DEF IInv
<1>2. /\ Keys(acc) = {h \in start \ removed : h < minTheta}
      /\ acc.isEmpty => minTheta = MaxTheta /\ start \subseteq removed
      /\ ~acc.isEmpty => acc.theta = minTheta
  BY DEF IInv, DifferenceExact
<1>3. /\ IsSketch(acc', MaxTheta) /\ Keys(acc') = Keys(acc)
      /\ acc'.theta = acc.theta /\ acc'.isEmpty = acc.isEmpty
  <2>1. acc' = CompactCopy(acc, ordered)
    BY DEF KeepA
  <2> QED
    BY <1>1, <2>1, CopyIs
<1>4. minTheta' = minTheta
  <2>1. CASE acc.isEmpty
    BY <2>1
  <2>2. CASE ~acc.isEmpty
    <3>1. b.isEmpty
      BY <2>2 DEF KeepA, ReturnsA
    <3>2. b.theta = MaxTheta
      BY <1>1, <3>1, SketchKeys
    <3> QED
      BY <1>1, <2>2, <3>2 DEF MinOf
  <2> QED
    BY <2>1, <2>2
<1>5. Keys(acc) = {h \in start \ (removed \cup Keys(b)) : h < minTheta}
  <2>1. CASE acc.isEmpty
    BY <1>1, <1>2, <2>1, SketchKeys
  <2>2. CASE ~acc.isEmpty
    <3>1. b.isEmpty
      BY <2>2 DEF KeepA, ReturnsA
    <3>2. Keys(b) = {}
      BY <1>1, <3>1, SketchKeys
    <3> QED
      BY <1>2, <3>2
  <2> QED
    BY <2>1, <2>2
<1>6. DifferenceExact'
  <2>1. Keys(acc') = {h \in start' \ removed' : h < minTheta'}
    BY <1>3, <1>4, <1>5
  <2>2. acc'.isEmpty => minTheta' = MaxTheta /\ start' \subseteq removed'
    BY <1>2, <1>3, <1>4
  <2>3. ~acc'.isEmpty => acc'.theta = minTheta'
    BY <1>2, <1>3, <1>4
  <2> QED
    BY <2>1, <2>2, <2>3 DEF DifferenceExact
<1>7. TableHolds'
  <2>1. table' = NoSlots
    BY DEF KeepA
  <2> QED
    BY <2>1, NoSlotsHolds DEF TableHolds
<1> QED
  BY <1>1, <1>3, <1>4, <1>6, <1>7 DEF IInv

(* A subtraction keeps what no operand takes away, whichever of the three  *)
(* ways it goes.                                                           *)
LEMMA SubtractIInv ==
  ASSUME IInv, NEW b, IsSketch(b, MaxTheta), NEW ordered \in BOOLEAN,
         Subtract(b, ordered), removed' = removed \cup Keys(b), start' = start,
         minTheta' = IF acc.isEmpty THEN minTheta ELSE MinOf(minTheta, b.theta)
  PROVE  IInv'
<1>1. /\ IsSketch(acc, MaxTheta) /\ MaxTheta \in Nat \ {0}
      /\ minTheta \in 1 .. MaxTheta /\ start \in SUBSET (1 .. MaxTheta - 1)
  BY OperandAssumption DEF IInv
<1>2. ~acc.isEmpty
  BY DEF Subtract, ReturnsA
<1>3. /\ Keys(acc) = {h \in start \ removed : h < minTheta}
      /\ acc.theta = minTheta
  BY <1>2 DEF IInv, DifferenceExact
<1>4. b.theta \in 1 .. MaxTheta
  BY <1>1, SketchKeys
<1>5. PICK theta \in 1 .. MaxTheta : theta = MinOf(acc.theta, b.theta)
  BY <1>1, <1>3, <1>4 DEF MinOf
<1>6. theta \in Nat /\ theta <= minTheta /\ theta = minTheta'
  BY <1>1, <1>2, <1>3, <1>4, <1>5 DEF MinOf
<1>7. /\ table' = IF UsesTable(acc, b) THEN TableOf(b, theta) ELSE NoSlots
      /\ acc' = Finish(acc, ordered, theta, Remaining(acc, b, table', theta), MaxTheta)
  BY <1>5 DEF Subtract
<1>8. Tabled(b, theta, TableOf(b, theta))
  BY <1>1, <1>6, TableOfIs
<1>9. TableHolds'
  <2>1. CASE UsesTable(acc, b)
    <3>1. Good(table') /\ table'.num < Pow2(table'.lgCur)
      BY <1>7, <1>8, <2>1 DEF Tabled
    <3> QED
      BY <3>1, TabledHolds DEF TableHolds
  <2>2. CASE ~UsesTable(acc, b)
    <3>1. table' = NoSlots
      BY <1>7, <2>2
    <3> QED
      BY <3>1, NoSlotsHolds DEF TableHolds
  <2> QED
    BY <2>1, <2>2
<1>10. PICK a, t, kept : /\ a = acc /\ t = table'
                         /\ kept = Remaining(acc, b, table', theta)
  OBVIOUS
<1>11. /\ kept \in Seq(Nat) /\ Distinct(kept)
       /\ KeysOf(kept) = Below(Keys(acc) \ Keys(b), theta)
       /\ acc.isOrdered => Ascending(kept)
  <2>1. UsesTable(a, b) => Tabled(b, theta, t)
    BY <1>7, <1>8, <1>10
  <2>2. IsSketch(a, MaxTheta) /\ MaxTheta \in Nat
    BY <1>1, <1>10
  <2>3. LeftOver(a, b, theta, Remaining(a, b, t, theta))
    BY <1>6, <2>1, <2>2, RemainingIs
  <2> QED
    BY <1>10, <2>3 DEF LeftOver
<1>12. KeysOf(kept) = {h \in start' \ removed' : h < minTheta'}
  <2>1. ASSUME NEW h PROVE h \in Keys(acc) <=> h \in start /\ h \notin removed /\ h < minTheta
    BY <1>3
  <2>2. ASSUME NEW h \in start PROVE h < theta => h < minTheta
    <3>1. h \in Nat
      BY <1>1
    <3> QED
      BY <1>1, <1>6, <3>1
  <2>3. ASSUME NEW h
        PROVE  h \in Keys(acc) \ Keys(b) /\ h < theta
                 <=> h \in start \ (removed \cup Keys(b)) /\ h < theta
    BY <2>1, <2>2
  <2> QED
    BY <1>6, <1>11, <2>3 DEF Below
<1>13. \A h \in KeysOf(kept) : 0 < h /\ h < theta
  <2>1. ASSUME NEW h \in KeysOf(kept) PROVE 0 < h /\ h < theta
    <3>1. h \in start /\ h < theta
      BY <1>6, <1>12
    <3>2. h \in 1 .. MaxTheta - 1
      BY <1>1, <3>1
    <3> QED
      BY <3>1, <3>2
  <2> QED
    BY <2>1
<1>14. /\ IsSketch(acc', MaxTheta) /\ Keys(acc') = KeysOf(kept) /\ acc'.theta = theta
       /\ acc'.isEmpty <=> kept = <<>> /\ theta = MaxTheta
  <2>1. PICK r : r = Finish(acc, ordered, theta, kept, MaxTheta)
    OBVIOUS
  <2>2. acc' = r
    BY <1>7, <1>10, <2>1
  <2>3. theta \in 1 .. MaxTheta /\ MaxTheta \in Nat
    BY <1>1
  <2>4. a.isOrdered => Ascending(kept)
    BY <1>10, <1>11
  <2>5. IsSketch(a, MaxTheta) /\ ~a.isEmpty /\ r = Finish(a, ordered, theta, kept, MaxTheta)
    BY <1>1, <1>2, <1>10, <2>1
  <2>6. Finished(r, ordered, theta, kept, MaxTheta)
    BY <1>11, <1>13, <2>3, <2>4, <2>5, FinishIs
  <2> QED
    BY <2>2, <2>6 DEF Finished
<1>15. acc'.isEmpty => minTheta' = MaxTheta /\ start' \subseteq removed'
  <2>1. SUFFICES ASSUME kept = <<>>, theta = MaxTheta
                 PROVE  minTheta' = MaxTheta /\ start' \subseteq removed'
    BY <1>14
  <2>2. KeysOf(kept) = {}
    <3>1. DOMAIN <<>> = {}
      OBVIOUS
    <3> QED
      BY <2>1, <3>1 DEF KeysOf
  <2>3. \A h \in start' : h < minTheta'
    <3>1. \A h \in 1 .. MaxTheta - 1 : h < MaxTheta
      BY <1>1
    <3> QED
      BY <1>1, <1>6, <2>1, <3>1
  <2> QED
    BY <1>6, <1>12, <2>1, <2>2, <2>3
<1>16. DifferenceExact'
  <2>1. Keys(acc') = {h \in start' \ removed' : h < minTheta'}
    BY <1>12, <1>14
  <2>2. acc'.theta = minTheta'
    BY <1>6, <1>14
  <2> QED
    BY <1>15, <2>1, <2>2 DEF DifferenceExact
<1> QED
  BY <1>1, <1>6, <1>9, <1>14, <1>16 DEF IInv

(* Every step keeps the invariant. *)
LEMMA NextIInv == IInv /\ [Next]_vars => IInv'
<1>1. SUFFICES ASSUME IInv, [Next]_vars PROVE IInv'
  OBVIOUS
<1>2. CASE Next
  <2>1. PICK b \in Subtrahends, ordered \in BOOLEAN : Compute(b, ordered)
    BY <1>2 DEF Next
  <2>2. IsSketch(b, MaxTheta)
    BY OperandAssumption
  <2>3. /\ removed' = removed \cup Keys(b) /\ start' = start
        /\ minTheta' = IF acc.isEmpty THEN minTheta ELSE MinOf(minTheta, b.theta)
    BY <2>1 DEF Compute
  <2>4. CASE KeepA(b, ordered)
    BY <1>1, <2>2, <2>3, <2>4, KeepAIInv
  <2>5. CASE Subtract(b, ordered)
    BY <1>1, <2>2, <2>3, <2>5, SubtractIInv
  <2> QED
    BY <2>1, <2>4, <2>5 DEF Compute
<1>3. CASE UNCHANGED vars
  BY <1>1, <1>3 DEF vars, IInv, DifferenceExact, TableHolds
<1> QED
  BY <1>1, <1>2, <1>3

(* The invariant holds in every reachable state. *)
THEOREM Invariant == Spec => []IInv
  BY InitIInv, NextIInv, PTL DEF Spec

(* Every result of compute() is a well-formed sketch, ordered when it says *)
(* so: what the readers that stop early rely on.                           *)
THEOREM TypeCorrect == Spec => []TypeOK
<1>1. IInv => TypeOK
  BY DEF IInv, TypeOK
<1> QED
  BY <1>1, Invariant, PTL

(* Whichever of the three ways compute() takes, and in whatever order      *)
(* sketches are subtracted, the result is the exact difference below the   *)
(* least theta, and turns empty only when that is certain.                 *)
THEOREM Exact == Spec => []DifferenceExact
<1>1. IInv => DifferenceExact
  BY DEF IInv
<1> QED
  BY <1>1, Invariant, PTL

(* However many hashes b has, its hash table of fixed size is never full   *)
(* and counts each of them once, rehashed or not (compute, resize).        *)
THEOREM TableKeepsRoom == Spec => []TableHolds
<1>1. IInv => TableHolds
  BY DEF IInv
<1> QED
  BY <1>1, Invariant, PTL

=============================================================================
