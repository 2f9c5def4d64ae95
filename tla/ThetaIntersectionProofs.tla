---------------------- MODULE ThetaIntersectionProofs ----------------------
(***************************************************************************)
(* What theta_intersection promises, for every MAX_THETA and every set of  *)
(* well-formed sketches it may be given, in every order.                   *)
(***************************************************************************)
EXTENDS ThetaIntersection, ThetaLemmas

(* The fields the proof follows: the table counts its keys, all below its  *)
(* theta.                                                                  *)
TableFits(t) ==
  /\ t \in Tables(Nat)
  /\ t.theta \in 1 .. MaxTheta
  /\ t.num = Cardinality(t.entries)
  /\ \A h \in t.entries : 0 < h /\ h < t.theta
  /\ t.isEmpty => t.entries = {}

(* What the intersection knows of its inputs: nothing while it is unused;  *)
(* then its keys and its theta are those of ResultExact, and only a call   *)
(* of get_result() before the first update can have ended the process.     *)
IInv ==
  /\ TableFits(table)
  /\ isValid \in BOOLEAN /\ exited \in BOOLEAN /\ anyEmpty \in BOOLEAN
  /\ minTheta \in 1 .. MaxTheta
  /\ common \in SUBSET (1 .. MaxTheta - 1)
  /\ isValid = given
  /\ exited => ~given
  /\ ~given => /\ table = NewTable(1, 1, 1, MaxTheta, FALSE)
               /\ minTheta = MaxTheta
  /\ given =>
       /\ table.entries = Below(common, minTheta)
       /\ table.theta = IF table.isEmpty THEN MaxTheta ELSE minTheta

(* A step turns the result empty only with a reason (EmptyOnlyWhenKnown).  *)
EmptyIsKnown ==
  table'.isEmpty /\ ~table.isEmpty => anyEmpty' \/ (common' = {} /\ minTheta' = MaxTheta)

(* The smaller of two thetas. *)
LEMMA MinOfIs ==
  ASSUME NEW x \in 1 .. MaxTheta, NEW y \in 1 .. MaxTheta
  PROVE  /\ MinOf(x, y) \in 1 .. MaxTheta
         /\ MinOf(x, y) <= x /\ MinOf(x, y) <= y
         /\ MinOf(x, y) = x \/ MinOf(x, y) = y
  BY DEF MinOf

(* Once no common hash is below the least theta, none ever will be. *)
LEMMA NothingStays ==
  ASSUME NEW S \in SUBSET (1 .. MaxTheta - 1), NEW T \in SUBSET S,
         NEW x \in 1 .. MaxTheta, NEW y \in 1 .. MaxTheta, MaxTheta \in Nat,
         y <= x, Below(S, x) = {}
  PROVE  Below(T, y) = {}
<1>1. ASSUME NEW h \in Below(T, y) PROVE FALSE
  <2>1. h \in S /\ h < y /\ h \in 1 .. MaxTheta - 1
    BY <1>1 DEF Below
  <2>2. h < x
    BY <2>1
  <2>3. h \in Below(S, x)
    BY <2>1, <2>2 DEF Below
  <2> QED
    BY <2>3
<1> QED
  BY <1>1

(* What an input is: its fields, its keys and their number. *)
LEMMA InputIs ==
  ASSUME NEW s \in Inputs
  PROVE  /\ MaxTheta \in Nat \ {0}
         /\ IsSketch(s, MaxTheta)
         /\ s.isEmpty \in BOOLEAN
         /\ s.theta \in 1 .. MaxTheta
         /\ s.entries \in Seq(Nat)
         /\ Distinct(s.entries)
         /\ s.isEmpty => s.entries = <<>>
         /\ Keys(s) = KeysOf(s.entries)
         /\ Keys(s) \in SUBSET (1 .. MaxTheta - 1)
         /\ IsFiniteSet(Keys(s))
         /\ Cardinality(Keys(s)) = Len(s.entries)
         /\ \A h \in Keys(s) : 0 < h /\ h < s.theta
         /\ s.entries = <<>> => Keys(s) = {}
<1>1. MaxTheta \in Nat \ {0} /\ IsSketch(s, MaxTheta)
  BY IntersectionAssumption
<1>2. /\ s.isEmpty \in BOOLEAN
      /\ s.theta \in 1 .. MaxTheta
      /\ s.entries \in Seq(Nat)
      /\ Distinct(s.entries)
      /\ s.isEmpty => s.entries = <<>>
      /\ \A i \in DOMAIN s.entries : 0 < s.entries[i] /\ s.entries[i] < s.theta
  BY <1>1 DEF IsSketch
<1>3. Keys(s) = KeysOf(s.entries)
  BY DEF Keys, KeysOf
<1>4. Keys(s) \in SUBSET Nat /\ IsFiniteSet(Keys(s)) /\ Cardinality(Keys(s)) = Len(s.entries)
  BY <1>2, <1>3, DistinctCounts
<1>5. \A h \in Keys(s) : 0 < h /\ h < s.theta
  BY <1>2 DEF Keys
<1>6. Keys(s) \in SUBSET (1 .. MaxTheta - 1)
  BY <1>1, <1>2, <1>4, <1>5
<1>7. s.entries = <<>> => Keys(s) = {}
  BY DEF Keys
<1> QED
  BY <1>1, <1>2, <1>3, <1>4, <1>5, <1>6, <1>7

(* The head of update(): only emptiness and theta of the result move. *)
LEMMA ScreenedIs ==
  ASSUME NEW s \in Inputs, table \in Tables(Nat), table.theta \in 1 .. MaxTheta
  PROVE  /\ Screened(s) \in Tables(Nat)
         /\ Screened(s).isEmpty = s.isEmpty
         /\ Screened(s).theta = IF s.isEmpty THEN MaxTheta ELSE MinOf(table.theta, s.theta)
         /\ Screened(s).theta \in 1 .. MaxTheta
         /\ Screened(s).num = table.num
         /\ Screened(s).entries = table.entries
<1>1. PICK m : m = IF s.isEmpty THEN MaxTheta ELSE MinOf(table.theta, s.theta)
  OBVIOUS
<1>2. m \in 1 .. MaxTheta /\ m \in Nat /\ s.isEmpty \in BOOLEAN
  <2>1. MaxTheta \in Nat \ {0} /\ s.isEmpty \in BOOLEAN /\ s.theta \in 1 .. MaxTheta
    BY InputIs
  <2>2. MinOf(table.theta, s.theta) \in 1 .. MaxTheta
    BY <2>1, MinOfIs
  <2> QED
    BY <1>1, <2>1, <2>2
<1>3. Screened(s) = [table EXCEPT !.isEmpty = s.isEmpty, !.theta = m]
  BY <1>1 DEF Screened, ScreenedBy
<1> QED
  BY <1>1, <1>2, <1>3 DEF Tables

(* The cleared table. *)
LEMMA NoTableFits ==
  ASSUME NEW theta \in 1 .. MaxTheta, MaxTheta \in Nat, NEW isEmpty \in BOOLEAN
  PROVE  /\ TableFits(NoTable(theta, isEmpty))
         /\ NoTable(theta, isEmpty).isEmpty = isEmpty
         /\ NoTable(theta, isEmpty).theta = theta
         /\ NoTable(theta, isEmpty).entries = {}
<1>1. PICK t : t = NoTable(theta, isEmpty)
  OBVIOUS
<1>2. t = [isEmpty |-> isEmpty, cur |-> 1, nom |-> 1, factor |-> 1,
           num |-> 0, theta |-> theta, entries |-> {}]
  BY <1>1 DEF NoTable, NewTable
<1>3. t \in Tables(Nat)
  BY <1>2 DEF Tables
<1>4. Cardinality({}) = 0
  BY FS_EmptySet
<1> QED
  BY <1>1, <1>2, <1>3, <1>4 DEF TableFits

(* Keys a table at theta may hold. *)
Under(q, theta) == \A h \in KeysOf(q) : 0 < h /\ h < theta

(* A table filled with keys below its theta. *)
LEMMA FilledFits ==
  ASSUME NEW theta \in 1 .. MaxTheta, MaxTheta \in Nat,
         NEW q \in Seq(Nat), Distinct(q), Under(q, theta)
  PROVE  /\ TableFits(Filled(theta, FALSE, q))
         /\ Filled(theta, FALSE, q).isEmpty = FALSE
         /\ Filled(theta, FALSE, q).theta = theta
         /\ Filled(theta, FALSE, q).num = Len(q)
         /\ Filled(theta, FALSE, q).entries = KeysOf(q)
<1>1. PICK t : t = Filled(theta, FALSE, q)
  OBVIOUS
<1>2. /\ t.isEmpty = FALSE /\ t.theta = theta /\ t.num = Len(q) /\ t.entries = KeysOf(q)
      /\ t \in Tables(Nat)
  <2> DEFINE b == FALSE
  <2>1. b \in BOOLEAN /\ b = FALSE /\ t = Filled(theta, b, q)
    BY <1>1
  <2> HIDE DEF b
  <2>2. theta \in Nat
    OBVIOUS
  <2>3. /\ t.isEmpty = b /\ t.theta = theta /\ t.num = Len(q) /\ t.entries = KeysOf(q)
        /\ t \in Tables(Nat)
    BY <2>1, <2>2, FilledIs
  <2> QED
    BY <2>1, <2>3
<1>3. Cardinality(KeysOf(q)) = Len(q)
  BY DistinctCounts
<1> QED
  BY <1>1, <1>2, <1>3 DEF TableFits, Under

-----------------------------------------------------------------------------
(* The early return for an empty result. *)
LEMMA UpdateOfEmptyKeeps ==
  ASSUME IInv, ~exited, NEW s \in Inputs, Remember(s), UpdateOfEmpty(s)
  PROVE  IInv' /\ EmptyIsKnown
<1> USE DEF IInv
<1>1. /\ table.isEmpty /\ table' = table /\ isValid' = isValid /\ exited' = exited
  BY DEF UpdateOfEmpty
<1>2. given
  BY <1>1 DEF NewTable
<1>3. /\ given' = TRUE /\ common' = common \cap Keys(s)
      /\ minTheta' = MinOf(minTheta, s.theta)
      /\ anyEmpty' = (anyEmpty \/ s.isEmpty)
  BY <1>2 DEF Remember
<1>4. minTheta' \in 1 .. MaxTheta /\ minTheta' <= minTheta
  BY <1>3, InputIs, MinOfIs
<1>5. common' \in SUBSET (1 .. MaxTheta - 1) /\ common' \subseteq common
  BY <1>3
<1>6. table.entries = {} /\ table.entries = Below(common, minTheta)
  BY <1>1, <1>2 DEF TableFits
<1>7. Below(common', minTheta') = {}
  <2>1. common \in SUBSET (1 .. MaxTheta - 1) /\ minTheta \in 1 .. MaxTheta
    OBVIOUS
  <2>2. MaxTheta \in Nat /\ common' \in SUBSET common
    BY <1>5, InputIs
  <2>3. Below(common, minTheta) = {}
    BY <1>6
  <2> QED
    BY <1>4, <2>1, <2>2, <2>3, NothingStays
<1>8. anyEmpty' \in BOOLEAN
  BY <1>3, InputIs
<1> QED
  BY <1>1, <1>2, <1>3, <1>4, <1>5, <1>6, <1>7, <1>8 DEF TableFits, EmptyIsKnown

(* The early return for a result that has run out of keys: its emptiness   *)
(* and its theta still move.                                               *)
LEMMA UpdateOfNothingKeeps ==
  ASSUME IInv, ~exited, NEW s \in Inputs, Remember(s), UpdateOfNothing(s)
  PROVE  IInv' /\ EmptyIsKnown
<1> USE DEF IInv
<1>1. /\ ~table.isEmpty /\ isValid /\ table.num = 0 /\ table' = Screened(s)
      /\ isValid' = isValid /\ exited' = exited
  BY DEF UpdateOfNothing
<1>2. given /\ table \in Tables(Nat) /\ table.theta = minTheta
  BY <1>1 DEF TableFits
<1>3. /\ given' = TRUE /\ common' = common \cap Keys(s)
      /\ minTheta' = MinOf(minTheta, s.theta)
      /\ anyEmpty' = (anyEmpty \/ s.isEmpty)
  BY <1>2 DEF Remember
<1>4. minTheta' \in 1 .. MaxTheta /\ minTheta' <= minTheta
  BY <1>3, InputIs, MinOfIs
<1>5. common' \in SUBSET (1 .. MaxTheta - 1) /\ common' \subseteq common
  BY <1>3
<1>6. table.entries = Below(common, minTheta) /\ Cardinality(table.entries) = 0
  BY <1>1, <1>2 DEF TableFits
<1>7. IsFiniteSet(table.entries)
  <2>1. IsFiniteSet(1 .. MaxTheta - 1)
    BY FS_Interval, InputIs
  <2>2. table.entries \in SUBSET (1 .. MaxTheta - 1)
    BY <1>6 DEF Below
  <2> QED
    BY <2>1, <2>2, FS_Subset
<1>8. table.entries = {}
  BY <1>6, <1>7, FS_EmptySet
<1>9. Below(common', minTheta') = {}
  <2>1. common \in SUBSET (1 .. MaxTheta - 1) /\ minTheta \in 1 .. MaxTheta
    OBVIOUS
  <2>2. MaxTheta \in Nat /\ common' \in SUBSET common
    BY <1>5, InputIs
  <2>3. Below(common, minTheta) = {}
    BY <1>6, <1>8
  <2> QED
    BY <1>4, <2>1, <2>2, <2>3, NothingStays
<1>10. /\ table' \in Tables(Nat) /\ table'.isEmpty = s.isEmpty
       /\ table'.theta = IF s.isEmpty THEN MaxTheta ELSE minTheta'
       /\ table'.theta \in 1 .. MaxTheta
       /\ table'.num = 0 /\ table'.entries = {}
  BY <1>1, <1>2, <1>3, <1>8, ScreenedIs DEF TableFits
<1>11. anyEmpty' \in BOOLEAN
  BY <1>3, InputIs
<1> QED
  BY <1>1, <1>2, <1>3, <1>4, <1>5, <1>6, <1>8, <1>9, <1>10, <1>11 DEF TableFits, EmptyIsKnown

(* An input that retains nothing leaves nothing in common. *)
LEMMA UpdateByNothingKeeps ==
  ASSUME IInv, ~exited, NEW s \in Inputs, Remember(s), UpdateByNothing(s)
  PROVE  IInv' /\ EmptyIsKnown
<1> USE DEF IInv
<1> DEFINE theta == Screened(s).theta
           isEmpty == Screened(s).isEmpty
<1>1. /\ ~table.isEmpty /\ s.entries = <<>> /\ table' = NoTable(theta, isEmpty)
      /\ isValid' = TRUE /\ exited' = exited
  BY DEF UpdateByNothing, Open
<1>2. table \in Tables(Nat) /\ table.theta \in 1 .. MaxTheta /\ table.theta = minTheta
  BY <1>1 DEF TableFits, NewTable
<1>3. /\ given' = TRUE /\ common' = {}
      /\ minTheta' = MinOf(minTheta, s.theta)
      /\ anyEmpty' = (anyEmpty \/ s.isEmpty)
  BY <1>1, InputIs DEF Remember
<1>4. minTheta' \in 1 .. MaxTheta /\ minTheta' <= minTheta
  BY <1>3, InputIs, MinOfIs
<1>5. /\ isEmpty = s.isEmpty /\ theta \in 1 .. MaxTheta
      /\ theta = IF s.isEmpty THEN MaxTheta ELSE minTheta'
  BY <1>2, <1>3, ScreenedIs
<1>6. anyEmpty' \in BOOLEAN /\ isEmpty \in BOOLEAN /\ MaxTheta \in Nat
  BY <1>3, <1>5, InputIs
<1> HIDE DEF theta, isEmpty
<1>7. /\ TableFits(table') /\ table'.isEmpty = isEmpty /\ table'.theta = theta
      /\ table'.entries = {}
  BY <1>1, <1>5, <1>6, NoTableFits
<1>8. Below(common', minTheta') = {}
  BY <1>3 DEF Below
<1>9. TableFits(table)'
  BY <1>7 DEF TableFits
<1> QED
  BY <1>1, <1>3, <1>4, <1>5, <1>6, <1>7, <1>8, <1>9 DEF EmptyIsKnown

(* The first input is copied whole, and neither of the two checks for a    *)
(* corrupted one can fail.                                                 *)
LEMMA FirstUpdateKeeps ==
  ASSUME IInv, ~exited, NEW s \in Inputs, Remember(s), FirstUpdate(s)
  PROVE  IInv' /\ EmptyIsKnown
<1> USE DEF IInv
<1> DEFINE theta == Screened(s).theta
           isEmpty == Screened(s).isEmpty
           copy == Filled(theta, isEmpty, s.entries)
<1>1. /\ ~table.isEmpty /\ s.entries # <<>> /\ ~isValid /\ table' = copy
      /\ isValid' = TRUE
      /\ exited' = (~Distinct(s.entries) \/ copy.num # Len(s.entries))
  BY DEF FirstUpdate, Open
<1>2. table \in Tables(Nat) /\ table.theta = MaxTheta /\ minTheta = MaxTheta /\ ~given
  BY <1>1 DEF TableFits, NewTable
<1>3. s.isEmpty = FALSE /\ MaxTheta \in Nat \ {0} /\ s.theta \in 1 .. MaxTheta
  BY <1>1, InputIs
<1>4. MinOf(MaxTheta, s.theta) = s.theta
  BY <1>3 DEF MinOf
<1>5. /\ given' = TRUE /\ common' = Keys(s) /\ minTheta' = s.theta
      /\ anyEmpty' = anyEmpty
  BY <1>2, <1>3, <1>4 DEF Remember
<1>6. isEmpty = FALSE /\ theta = s.theta
  BY <1>2, <1>3, <1>4, ScreenedIs
<1> HIDE DEF theta, isEmpty
<1>7. Under(s.entries, theta)
  BY <1>6, InputIs DEF Under
<1>8. /\ TableFits(copy) /\ copy.isEmpty = FALSE /\ copy.theta = theta
      /\ copy.num = Len(s.entries) /\ copy.entries = KeysOf(s.entries)
  <2>1. s.entries \in Seq(Nat) /\ Distinct(s.entries)
    BY InputIs
  <2>2. copy = Filled(theta, FALSE, s.entries)
    BY <1>6
  <2> QED
    BY <1>3, <1>6, <1>7, <2>1, <2>2, FilledFits
<1> HIDE DEF copy
<1>9. exited' = FALSE
  BY <1>1, <1>8, InputIs
<1>10. Below(common', minTheta') = Keys(s)
  BY <1>5, InputIs DEF Below
<1>11. TableFits(table)'
  BY <1>1, <1>8 DEF TableFits
<1>12. table'.entries = Keys(s) /\ table'.theta = minTheta' /\ table'.isEmpty = FALSE
  BY <1>1, <1>5, <1>6, <1>8, InputIs
<1>13. common' \in SUBSET (1 .. MaxTheta - 1)
  BY <1>5, InputIs
<1> QED
  BY <1>1, <1>3, <1>5, <1>9, <1>10, <1>11, <1>12, <1>13 DEF EmptyIsKnown

(* What a later input has in common with the table: the keys all inputs    *)
(* have, below the new least theta, and no more of them than either side   *)
(* counts.                                                                 *)
LEMMA MatchesAre ==
  ASSUME NEW s \in Inputs, TableFits(table), MaxTheta \in Nat,
         common \in SUBSET (1 .. MaxTheta - 1),
         NEW x \in 1 .. MaxTheta, table.entries = Below(common, x),
         NEW p \in 1 .. MaxTheta, p <= x
  PROVE  /\ Matches(s, p) \in Seq(Nat)
         /\ Distinct(Matches(s, p))
         /\ KeysOf(Matches(s, p)) = Below(common \cap Keys(s), p)
         /\ Len(Matches(s, p)) <= table.num
         /\ Len(Matches(s, p)) <= Len(s.entries)
         /\ table.num \in Nat
<1> DEFINE S == Scanned(s, p) \cap table.entries
           m == Matches(s, p)
<1>1. /\ s.entries \in Seq(Nat) /\ Distinct(s.entries) /\ IsSketch(s, MaxTheta)
      /\ Keys(s) = KeysOf(s.entries) /\ IsFiniteSet(Keys(s))
      /\ Cardinality(Keys(s)) = Len(s.entries)
  BY InputIs
<1>2. Scanned(s, p) = Below(Keys(s), p)
  BY <1>1, ScannedIsBelow
<1>3. /\ m \in Seq(Nat) /\ Distinct(m) /\ KeysOf(m) = KeysOf(s.entries) \cap S
  BY <1>1, DistinctAnywhere, PickedIs DEF Matches, MatchesIn
<1> HIDE DEF m
<1>4. KeysOf(m) = Below(common \cap Keys(s), p)
  <2>1. ASSUME NEW h \in KeysOf(m) PROVE h \in Below(common \cap Keys(s), p)
    BY <1>1, <1>2, <1>3, <2>1 DEF Below
  <2>2. ASSUME NEW h \in Below(common \cap Keys(s), p) PROVE h \in KeysOf(m)
    <3>1. h \in common /\ h \in Keys(s) /\ h < p /\ h \in 1 .. MaxTheta - 1
      BY <2>2 DEF Below
    <3>2. h < x
      BY <3>1
    <3> QED
      BY <1>1, <1>2, <1>3, <3>1, <3>2 DEF Below
  <2> QED
    BY <2>1, <2>2
<1>5. IsFiniteSet(table.entries)
  <2>1. IsFiniteSet(1 .. MaxTheta - 1)
    BY FS_Interval
  <2>2. table.entries \in SUBSET (1 .. MaxTheta - 1)
    BY DEF Below
  <2> QED
    BY <2>1, <2>2, FS_Subset
<1>6. Cardinality(KeysOf(m)) = Len(m)
  BY <1>3, DistinctCounts
<1>7. KeysOf(m) \in SUBSET table.entries /\ KeysOf(m) \in SUBSET Keys(s)
  BY <1>1, <1>3
<1>8. /\ Cardinality(KeysOf(m)) <= Cardinality(table.entries)
      /\ Cardinality(KeysOf(m)) <= Cardinality(Keys(s))
  BY <1>1, <1>5, <1>7, FS_Subset
<1>9. Cardinality(table.entries) \in Nat
  BY <1>5, FS_CardinalityType
<1> QED
  BY <1>1, <1>3, <1>4, <1>6, <1>8, <1>9 DEF TableFits, m

(* A later input is matched against the table.  What is left is counted    *)
(* right, and is called empty only while everything is exact.              *)
LEMMA MatchUpdateKeeps ==
  ASSUME IInv, ~exited, NEW s \in Inputs, Remember(s), MatchUpdate(s)
  PROVE  IInv' /\ EmptyIsKnown
<1> USE DEF IInv
<1> DEFINE theta == Screened(s).theta
           matches == Matches(s, theta)
<1>1. /\ ~table.isEmpty /\ s.entries # <<>> /\ isValid
      /\ table' = IF matches = <<>> THEN NoTable(theta, theta = MaxTheta)
                  ELSE Filled(theta, FALSE, matches)
      /\ exited' = (Len(matches) > MinOf(table.num, Len(s.entries)))
      /\ isValid' = isValid
  BY DEF MatchUpdate, Open
<1>2. given /\ table \in Tables(Nat) /\ table.theta = minTheta
  BY <1>1 DEF TableFits
<1>3. s.isEmpty = FALSE /\ MaxTheta \in Nat \ {0} /\ s.theta \in 1 .. MaxTheta
  BY <1>1, InputIs
<1>4. /\ given' = TRUE /\ common' = common \cap Keys(s)
      /\ minTheta' = MinOf(minTheta, s.theta)
      /\ anyEmpty' = anyEmpty
  BY <1>2, <1>3 DEF Remember
<1>5. theta = minTheta'
  BY <1>2, <1>3, <1>4, ScreenedIs
<1> HIDE DEF theta
<1>6. theta \in 1 .. MaxTheta /\ theta <= minTheta /\ theta <= s.theta
  <2>1. /\ MinOf(minTheta, s.theta) \in 1 .. MaxTheta
        /\ MinOf(minTheta, s.theta) <= minTheta
        /\ MinOf(minTheta, s.theta) <= s.theta
    BY <1>3, MinOfIs
  <2> QED
    BY <1>4, <1>5, <2>1
<1>7. /\ matches \in Seq(Nat) /\ Distinct(matches)
      /\ KeysOf(matches) = Below(common', theta)
      /\ Len(matches) <= table.num /\ Len(matches) <= Len(s.entries)
  BY <1>2, <1>3, <1>4, <1>6, MatchesAre
<1> HIDE DEF matches
<1>8. exited' = FALSE
  <2>1. Len(matches) \in Nat /\ Len(s.entries) \in Nat /\ table.num \in Nat
    BY <1>2, <1>7, InputIs DEF Tables
  <2> QED
    BY <1>1, <1>7, <2>1 DEF MinOf
<1>9. common' \in SUBSET (1 .. MaxTheta - 1)
  BY <1>4
<1>10. CASE matches = <<>>
  <2>1. PICK e \in BOOLEAN : e <=> (theta = MaxTheta)
    OBVIOUS
  <2>2. table' = NoTable(theta, e)
    BY <1>1, <1>10, <2>1
  <2>3. /\ TableFits(table') /\ table'.isEmpty = e /\ table'.theta = theta
        /\ table'.entries = {}
    BY <1>3, <1>6, <2>2, NoTableFits
  <2>4. Below(common', theta) = {}
    BY <1>7, <1>10 DEF KeysOf
  <2>5. ASSUME e PROVE common' = {} /\ minTheta' = MaxTheta
    <3>1. theta = MaxTheta
      BY <2>1, <2>5
    <3>2. \A h \in common' : h \in Nat /\ h < MaxTheta
      BY <1>3, <1>9
    <3>3. \A h \in common' : h \in Below(common', theta)
      BY <3>1, <3>2 DEF Below
    <3> QED
      BY <1>5, <2>4, <3>1, <3>3
  <2>6. TableFits(table)'
    BY <2>3 DEF TableFits
  <2>7. table'.theta = IF table'.isEmpty THEN MaxTheta ELSE minTheta'
    BY <1>5, <2>3, <2>5
  <2>8. table'.entries = Below(common', minTheta')
    BY <1>5, <2>3, <2>4
  <2> QED
    BY <1>1, <1>4, <1>5, <1>6, <1>8, <1>9, <2>3, <2>5, <2>6, <2>7, <2>8 DEF EmptyIsKnown
<1>11. CASE matches # <<>>
  <2>1. table' = Filled(theta, FALSE, matches)
    BY <1>1, <1>11
  <2>2. Under(matches, theta)
    <3>1. \A h \in common' : h \in Nat /\ 0 < h
      BY <1>3, <1>9
    <3> QED
      BY <1>7, <3>1 DEF Below, Under
  <2>3. /\ TableFits(table') /\ table'.isEmpty = FALSE /\ table'.theta = theta
        /\ table'.entries = KeysOf(matches)
    <3>1. /\ theta \in 1 .. MaxTheta /\ MaxTheta \in Nat
          /\ matches \in Seq(Nat) /\ Distinct(matches) /\ Under(matches, theta)
      BY <1>3, <1>6, <1>7, <2>2
    <3> QED
      BY <2>1, <3>1, FilledFits
  <2>4. TableFits(table)'
    BY <2>3 DEF TableFits
  <2> QED
    BY <1>1, <1>4, <1>5, <1>6, <1>7, <1>8, <1>9, <2>3, <2>4 DEF EmptyIsKnown
<1> QED
  BY <1>10, <1>11

(* An unused intersection. *)
LEMMA InitOK == Init => IInv
<1>1. SUFFICES ASSUME Init PROVE IInv
  OBVIOUS
<1>2. MaxTheta \in Nat \ {0}
  BY IntersectionAssumption
<1>3. table = [isEmpty |-> FALSE, cur |-> 1, nom |-> 1, factor |-> 1,
               num |-> 0, theta |-> MaxTheta, entries |-> {}]
  BY <1>1 DEF Init, NewTable
<1>4. TableFits(table)
  BY <1>2, <1>3, FS_EmptySet DEF TableFits, Tables
<1>5. /\ isValid = FALSE /\ exited = FALSE /\ given = FALSE /\ common = {}
      /\ minTheta = MaxTheta /\ anyEmpty = FALSE
      /\ table = NewTable(1, 1, 1, MaxTheta, FALSE)
  BY <1>1 DEF Init
<1>6. /\ isValid \in BOOLEAN /\ exited \in BOOLEAN /\ anyEmpty \in BOOLEAN
      /\ minTheta \in 1 .. MaxTheta
      /\ common \in SUBSET (1 .. MaxTheta - 1)
  <2>1. isValid \in BOOLEAN /\ exited \in BOOLEAN /\ anyEmpty \in BOOLEAN
    BY <1>5
  <2>2. common \in SUBSET (1 .. MaxTheta - 1)
    BY <1>5
  <2>3. minTheta \in 1 .. MaxTheta
    BY <1>2, <1>5
  <2> QED
    BY <2>1, <2>2, <2>3
<1> QED
  BY <1>4, <1>5, <1>6 DEF IInv

(* No step leaves what the intersection knows, or forgets why it is empty. *)
LEMMA StepOK == IInv /\ [Next]_vars => IInv' /\ [EmptyIsKnown]_vars
<1>1. SUFFICES ASSUME IInv, [Next]_vars PROVE IInv' /\ [EmptyIsKnown]_vars
  OBVIOUS
<1>2. CASE UNCHANGED vars
  BY <1>1, <1>2 DEF vars, IInv, TableFits
<1>3. ASSUME ~exited, NEW s \in Inputs, Update(s) PROVE IInv' /\ EmptyIsKnown
  <2>1. Remember(s)
    BY <1>3 DEF Update
  <2>2. CASE UpdateOfEmpty(s)
    BY <1>1, <1>3, <2>1, <2>2, UpdateOfEmptyKeeps
  <2>3. CASE UpdateOfNothing(s)
    BY <1>1, <1>3, <2>1, <2>3, UpdateOfNothingKeeps
  <2>4. CASE UpdateByNothing(s)
    BY <1>1, <1>3, <2>1, <2>4, UpdateByNothingKeeps
  <2>5. CASE FirstUpdate(s)
    BY <1>1, <1>3, <2>1, <2>5, FirstUpdateKeeps
  <2>6. CASE MatchUpdate(s)
    BY <1>1, <1>3, <2>1, <2>6, MatchUpdateKeeps
  <2> QED
    BY <1>3, <2>2, <2>3, <2>4, <2>5, <2>6 DEF Update
<1>4. ASSUME ~exited, GetResult PROVE IInv' /\ EmptyIsKnown
  <2>1. /\ exited' = ~isValid /\ table' = table /\ isValid' = isValid
        /\ given' = given /\ common' = common /\ minTheta' = minTheta
        /\ anyEmpty' = anyEmpty
    BY <1>4 DEF GetResult, ghosts
  <2>2. exited' \in BOOLEAN /\ (exited' => ~given)
    BY <1>1, <2>1 DEF IInv
  <2> QED
    BY <1>1, <2>1, <2>2 DEF IInv, TableFits, EmptyIsKnown
<1> QED
  BY <1>1, <1>2, <1>3, <1>4 DEF Next

(* The invariant holds in every state a sequence of calls can reach. *)
THEOREM Invariant == Spec => []IInv
  BY InitOK, StepOK, PTL DEF Spec

(* Type correctness: the fields stay in their ranges, and the table's      *)
(* count is the number of its keys.                                        *)
THEOREM TypeCorrect == Spec => []TypeOK
<1>1. IInv => TypeOK
  BY DEF IInv, TableFits, Tables, TypeOK
<1> QED
  BY <1>1, Invariant, PTL

(* The result is the exact intersection, whatever the inputs and their     *)
(* order: no early return, no early stop and no resizing of the table      *)
(* loses a hash, keeps one too many or misplaces theta (update).           *)
THEOREM Exact == Spec => []ResultExact
<1>1. IInv => ResultExact
  BY DEF IInv, ResultExact
<1> QED
  BY <1>1, Invariant, PTL

(* No well-formed input is ever taken for a corrupted one: the process     *)
(* ends only when get_result() is called first.                            *)
THEOREM OnlyUnusedExits == Spec => []ExitsOnlyUnused
<1>1. IInv => ExitsOnlyUnused
  BY DEF IInv, ExitsOnlyUnused
<1> QED
  BY <1>1, Invariant, PTL

(* The result turns empty only when an input was empty, or the inputs are  *)
(* all exact and disjoint (update).                                        *)
THEOREM EmptyIsJustified == Spec => EmptyOnlyWhenKnown
<1>1. [EmptyIsKnown]_vars <=>
        [table'.isEmpty /\ ~table.isEmpty =>
           anyEmpty' \/ (common' = {} /\ minTheta' = MaxTheta)]_vars
  BY DEF EmptyIsKnown
<1> QED
  BY <1>1, Invariant, StepOK, PTL DEF Spec, EmptyOnlyWhenKnown

=============================================================================
