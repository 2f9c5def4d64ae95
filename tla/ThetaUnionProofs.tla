-------------------------- MODULE ThetaUnionProofs --------------------------
(***************************************************************************)
(* The union is right for every nominal size, resize factor and set of     *)
(* well-formed inputs, of any length and in any order.  The result between *)
(* two updates is not inductive alone: the table thins under the loop of   *)
(* an update, so the invariant has to say what the table and the two       *)
(* thetas hold of the entries offered so FAR, those of the sketch being    *)
(* read included.                                                          *)
(***************************************************************************)
EXTENDS ThetaUnion, ThetaLemmas

(* The entries the loop has passed: all of the earlier sketches and those  *)
(* of the current one before i.                                            *)
Offered == seen \cup {arg.entries[k] : k \in 1 .. i - 1}

(* The theta below which nothing offered may be missing. *)
Lesser == MinOf(minTheta, table.theta)

(* What is so until a sketch is given that is not empty; its flag is fed. *)
EmptyHoldsNothing ==
  /\ table.isEmpty <=> ~fed
  /\ ~fed => seen = {} /\ minTheta = MaxTheta /\ unionTheta = MaxTheta

(* The inductive invariant: the table and the lesser of the two thetas hold *)
(* exactly what was offered so far.                                         *)
IInv ==
  /\ TypeOK /\ IsFiniteSet(seen)
  /\ pc = "idle" => arg = NoSketch /\ unionTheta <= table.theta
  /\ pc = "loop" => arg \in Inputs /\ ~table.isEmpty
  /\ unionTheta <= minTheta /\ MinOf(unionTheta, table.theta) = Lesser
  /\ table.entries \subseteq Offered
  /\ Below(table.entries, Lesser) = Below(Offered, Lesser)
  /\ table.theta <= MaxTheta
  /\ table.theta # MaxTheta =>
       /\ table.theta \in Offered
       /\ Nominal <= Cardinality(Below(Offered, table.theta))
  /\ EmptyHoldsNothing

(* The assumptions about the constants, one fact each. *)
LEMMA Constants ==
  /\ MaxTheta \in Nat /\ 1 <= MaxTheta
  /\ Nominal \in Nat \ {0} /\ Factor \in Nat \ {0} /\ StartSize \in Sizes
  /\ StartSize <= Nominal => Factor >= 2
  /\ SizesOK(Sizes, Nominal, Factor)
  /\ \A s \in Inputs : IsSketch(s, MaxTheta)
BY UnionAssumption DEF UnionAssumption

(* What the union relies on in a sketch it reads. *)
LEMMA SketchFacts ==
  ASSUME NEW s \in Inputs \cup {NoSketch}
  PROVE  /\ s.theta \in 1 .. MaxTheta
         /\ s.entries \in Seq(Nat) /\ Len(s.entries) \in Nat
         /\ \A k \in 1 .. Len(s.entries) : s.entries[k] \in Nat /\ 0 < s.entries[k]
         /\ s.isOrdered => \A j, k \in 1 .. Len(s.entries) :
                             j < k => s.entries[j] < s.entries[k]
         /\ Keys(s) = {s.entries[k] : k \in 1 .. Len(s.entries)}
         /\ IsFiniteSet(Keys(s)) /\ Keys(s) \in SUBSET Nat
<1>1. IsSketch(s, MaxTheta)
  <2>1. CASE s \in Inputs
    BY <2>1, Constants
  <2>2. CASE s = NoSketch
    <3>1. /\ s.isEmpty = TRUE /\ s.isOrdered = TRUE /\ s.theta = MaxTheta
          /\ s.entries = <<>>
      BY <2>2 DEF NoSketch, MakeSketch
    <3>2. DOMAIN s.entries = {}
      BY <3>1
    <3>3. s.entries \in Seq(Nat) /\ s.theta \in 1 .. MaxTheta
      BY <3>1, Constants
    <3>4. Distinct(s.entries) /\ Ascending(s.entries)
      BY <3>2 DEF Distinct, Ascending
    <3>5. /\ s.isEmpty \in BOOLEAN /\ s.isOrdered \in BOOLEAN
          /\ \A k \in DOMAIN s.entries : 0 < s.entries[k] /\ s.entries[k] < s.theta
      BY <3>1, <3>2
    <3> QED
      BY <3>1, <3>3, <3>4, <3>5 DEF IsSketch
  <2> QED
    BY <2>1, <2>2
<1>2. /\ s.theta \in 1 .. MaxTheta /\ s.entries \in Seq(Nat)
      /\ Len(s.entries) \in Nat /\ DOMAIN s.entries = 1 .. Len(s.entries)
      /\ \A k \in DOMAIN s.entries : 0 < s.entries[k]
      /\ s.isOrdered => Ascending(s.entries)
  BY <1>1 DEF IsSketch
<1>3. Keys(s) = {s.entries[k] : k \in 1 .. Len(s.entries)}
  BY <1>2 DEF Keys
<1>4. \A k \in 1 .. Len(s.entries) : s.entries[k] \in Nat
  BY <1>2
<1>5. IsFiniteSet(Keys(s))
  <2>1. IsFiniteSet(1 .. Len(s.entries))
    BY <1>2, FS_Interval
  <2>2. s.entries \in Surjection(1 .. Len(s.entries), Keys(s))
    <3>1. s.entries \in [1 .. Len(s.entries) -> Keys(s)]
      BY <1>2, <1>3
    <3> QED
      BY <1>3, <3>1 DEF Surjection
  <2> QED
    BY <2>1, <2>2, FS_Surjection
<1> QED
  BY <1>2, <1>3, <1>4, <1>5 DEF Ascending

(* The types of the parts, wherever the invariant holds. *)
LEMMA TypesOf ==
  ASSUME IInv
  PROVE  /\ TableOK(table, Sizes) /\ table \in Tables(Sizes)
         /\ table.isEmpty \in BOOLEAN
         /\ table.nom = Nominal /\ table.factor = Factor
         /\ table.theta \in Nat /\ table.entries \in SUBSET Nat
         /\ IsFiniteSet(table.entries) /\ table.num = Cardinality(table.entries)
         /\ \A h \in table.entries : h < table.theta
         /\ unionTheta \in Nat /\ minTheta \in Nat /\ MaxTheta \in Nat
         /\ unionTheta \in 1 .. MaxTheta /\ minTheta \in 1 .. MaxTheta
         /\ Lesser \in Nat
         /\ i \in Nat \ {0} /\ i <= Len(arg.entries) + 1
         /\ Offered \in SUBSET Nat /\ IsFiniteSet(Offered)
         /\ Offered \subseteq seen \cup Keys(arg)
         /\ pc = "idle" => Offered = seen /\ i = 1
<1>1. /\ TypeOK /\ IsFiniteSet(seen) /\ seen \in SUBSET Nat
      /\ arg \in Inputs \cup {NoSketch} /\ i \in 1 .. Len(arg.entries) + 1
  BY DEF IInv, TypeOK
<1>2. /\ TableOK(table, Sizes) /\ table \in Tables(Sizes)
      /\ table.nom = Nominal /\ table.factor = Factor
      /\ IsFiniteSet(table.entries) /\ table.num = Cardinality(table.entries)
      /\ \A h \in table.entries : h < table.theta
      /\ unionTheta \in 1 .. MaxTheta /\ minTheta \in 1 .. MaxTheta
  BY <1>1 DEF TypeOK, TableOK
<1>3. /\ table.theta \in Nat /\ table.entries \in SUBSET Nat
      /\ table.isEmpty \in BOOLEAN
  BY <1>2 DEF Tables
<1>4. unionTheta \in Nat /\ minTheta \in Nat /\ MaxTheta \in Nat
  BY <1>2, Constants
<1>5. Lesser \in Nat
  BY <1>3, <1>4, MinOfBounds DEF Lesser
<1>6. Len(arg.entries) \in Nat
  BY <1>1, SketchFacts
<1>7. i \in Nat \ {0} /\ i <= Len(arg.entries) + 1
  BY <1>1, <1>6
<1>8. {arg.entries[k] : k \in 1 .. i - 1} \subseteq Keys(arg)
  BY <1>1, <1>6, <1>7, SketchFacts
<1>9. Offered \subseteq seen \cup Keys(arg)
  BY <1>8 DEF Offered
<1>10. IsFiniteSet(seen \cup Keys(arg)) /\ seen \cup Keys(arg) \in SUBSET Nat
  BY <1>1, SketchFacts, FS_Union
<1>11. Offered \in SUBSET Nat /\ IsFiniteSet(Offered)
  BY <1>9, <1>10, FS_Subset
<1>12. ASSUME pc = "idle" PROVE Offered = seen /\ i = 1
  <2>1. arg = NoSketch
    BY <1>12 DEF IInv
  <2>2. Len(arg.entries) = 0
    BY <2>1 DEF NoSketch, MakeSketch
  <2>3. i = 1
    BY <1>7, <2>2
  <2> QED
    BY <2>3 DEF Offered
<1> QED
  BY <1>2, <1>3, <1>4, <1>5, <1>7, <1>9, <1>11, <1>12

(* A new union has seen nothing. *)
LEMMA InitIInv == Init => IInv
<1> SUFFICES ASSUME Init PROVE IInv
  OBVIOUS
<1>1. TableOK(table, Sizes)
  <2>1. TRUE \in BOOLEAN /\ MaxTheta \in Nat
    BY Constants
  <2>2. TableOK(NewTable(StartSize, Nominal, Factor, MaxTheta, TRUE), Sizes)
    BY <2>1, Constants, NewTableOK, Zenon
  <2> QED
    BY <2>2 DEF Init, NewUnionTable
<1>2. /\ table.nom = Nominal /\ table.factor = Factor
      /\ table.theta = MaxTheta /\ table.entries = {} /\ table.num = 0
      /\ unionTheta = MaxTheta /\ minTheta = MaxTheta
      /\ pc = "idle" /\ arg = NoSketch /\ i = 1 /\ seen = {} /\ fed = FALSE
      /\ table.isEmpty = TRUE
  BY DEF Init, NewUnionTable, NewTable
<1>3. TypeOK
  <2>1. Len(arg.entries) \in Nat
    BY <1>2, SketchFacts
  <2>2. fed \in BOOLEAN
    BY <1>2, Zenon
  <2>3. /\ table.nom = Nominal /\ table.factor = Factor
        /\ unionTheta \in 1 .. MaxTheta /\ minTheta \in 1 .. MaxTheta
        /\ pc \in {"idle", "loop"} /\ arg \in Inputs \cup {NoSketch}
        /\ i \in 1 .. Len(arg.entries) + 1 /\ seen \in SUBSET Nat
    BY <1>2, <2>1, Constants
  <2> QED
    BY <1>1, <2>2, <2>3, Zenon DEF TypeOK
<1>4. Offered = {} /\ IsFiniteSet(seen)
  BY <1>2, FS_EmptySet DEF Offered
<1>5. MinOf(unionTheta, table.theta) = Lesser /\ unionTheta <= minTheta
      /\ table.theta <= MaxTheta
  BY <1>2, Constants DEF Lesser
<1>6. EmptyHoldsNothing
  BY <1>2 DEF EmptyHoldsNothing
<1> QED
  BY <1>2, <1>3, <1>4, <1>5, <1>6 DEF IInv

(* A step of the loop that passes one more entry: into the table, or past  *)
(* it because it is not below the lesser theta.                            *)
LEMMA PassEntry ==
  ASSUME IInv, pc = "loop", i <= Len(arg.entries)
  PROVE  /\ arg.entries[i] \in Nat /\ 0 < arg.entries[i]
         /\ seen \cup {arg.entries[k] : k \in 1 .. (i + 1) - 1}
              = Offered \cup {arg.entries[i]}
         /\ i + 1 \in 1 .. Len(arg.entries) + 1
<1>1. arg \in Inputs \cup {NoSketch} /\ i \in Nat \ {0}
  BY TypesOf DEF IInv
<1>2. Len(arg.entries) \in Nat /\ i \in 1 .. Len(arg.entries)
  BY <1>1, SketchFacts
<1>3. arg.entries[i] \in Nat /\ 0 < arg.entries[i]
  BY <1>1, <1>2, SketchFacts
<1>4. \A k : k \in 1 .. (i + 1) - 1 <=> k \in 1 .. i - 1 \/ k = i
  BY <1>1
<1> QED
  BY <1>1, <1>2, <1>3, <1>4 DEF Offered

(* The sketch's entry that is not wanted is not below the lesser theta. *)
LEMMA Unwanted ==
  ASSUME IInv, NEW h \in Nat, ~Wanted(h)
  PROVE  ~(h < Lesser)
<1>1. unionTheta \in Nat /\ table.theta \in Nat /\ MinOf(unionTheta, table.theta) = Lesser
  BY TypesOf DEF IInv
<1> QED
  BY <1>1 DEF Wanted, MinOf

(* The start of an update: the sketch given joins what is seen, its theta *)
(* lowers the theta of the union, none of its entries is taken yet.       *)
LEMMA StartIInv == ASSUME IInv, NEW s \in Inputs, StartUpdate(s) PROVE IInv'
<1>1. CASE s.isEmpty
  <2>1. /\ UNCHANGED <<table, unionTheta, pc, arg, i, seen, minTheta>>
        /\ fed' = fed
    BY <1>1 DEF StartUpdate, IInv, TypeOK
  <2> QED
    BY <2>1 DEF IInv, TypeOK, Offered, Lesser, EmptyHoldsNothing
<1>2. CASE ~s.isEmpty
  <2>1. /\ pc = "idle" /\ table' = Unempty(table)
        /\ unionTheta' = MinOf(unionTheta, s.theta)
        /\ minTheta' = MinOf(minTheta, s.theta)
        /\ pc' = "loop" /\ arg' = s /\ i' = 1 /\ seen' = seen
        /\ fed' = TRUE
    BY <1>2 DEF StartUpdate
  <2>2. /\ TableOK(table', Sizes) /\ table'.isEmpty = FALSE
        /\ table'.entries = table.entries /\ table'.theta = table.theta
        /\ table'.nom = Nominal /\ table'.factor = Factor
    BY <2>1, TypesOf, UnemptyPreserves
  <2>3. s.theta \in 1 .. MaxTheta /\ s.theta \in Nat /\ Len(s.entries) \in Nat
    BY Constants, SketchFacts
  <2>4. Offered = seen /\ Offered' = seen
    <3>1. Offered' = seen \cup {s.entries[k] : k \in 1 .. 1 - 1}
      BY <2>1 DEF Offered
    <3> QED
      BY <2>1, <3>1, TypesOf
  <2>5. /\ unionTheta' \in 1 .. MaxTheta /\ minTheta' \in 1 .. MaxTheta
        /\ unionTheta' <= minTheta'
        /\ MinOf(unionTheta', table'.theta) = Lesser'
        /\ Lesser' \in Nat /\ Lesser' <= Lesser
    <3>1. /\ unionTheta \in 1 .. MaxTheta /\ minTheta \in 1 .. MaxTheta
          /\ table.theta \in Nat /\ unionTheta <= minTheta /\ MaxTheta \in Nat
          /\ MinOf(unionTheta, table.theta) = MinOf(minTheta, table.theta)
      BY TypesOf DEF IInv, Lesser
    <3> QED
      BY <2>1, <2>2, <2>3, <3>1 DEF MinOf, Lesser
  <2>6. TypeOK'
    <3>1. i' \in 1 .. Len(arg'.entries) + 1
      BY <2>1, <2>3
    <3>2. seen \in SUBSET Nat
      BY DEF IInv, TypeOK
    <3> QED
      BY <2>1, <2>2, <2>5, <3>1, <3>2 DEF TypeOK
  <2>7. Below(table'.entries, Lesser') = Below(Offered', Lesser')
    <3>1. Below(table.entries, Lesser) = Below(Offered, Lesser)
      BY DEF IInv
    <3>2. Below(table.entries, Lesser') = Below(Offered, Lesser')
      BY <2>5, <3>1, TypesOf, BelowNarrow
    <3> QED
      BY <2>2, <2>4, <3>2
  <2>8. EmptyHoldsNothing'
    BY <2>1, <2>2 DEF EmptyHoldsNothing
  <2>9. /\ table.entries \subseteq Offered /\ table.theta <= MaxTheta
        /\ IsFiniteSet(seen)
        /\ table.theta # MaxTheta =>
             /\ table.theta \in Offered
             /\ Nominal <= Cardinality(Below(Offered, table.theta))
    BY DEF IInv
  <2> QED
    BY <2>1, <2>2, <2>4, <2>5, <2>6, <2>7, <2>8, <2>9 DEF IInv
<1> QED
  BY <1>1, <1>2

(* An entry the loop offers to the table; the table may thin and lower its *)
(* theta under the loop.                                                   *)
LEMMA TakeIInv == ASSUME IInv, TakeEntry PROVE IInv'
<1> DEFINE h == arg.entries[i]
<1>1. /\ pc = "loop" /\ i <= Len(arg.entries) /\ h < unionTheta /\ h < table.theta
      /\ table' = IF h \in table.entries THEN table ELSE Insert(table, h)
      /\ i' = i + 1
      /\ unionTheta' = unionTheta /\ pc' = pc /\ arg' = arg
      /\ seen' = seen /\ minTheta' = minTheta /\ fed' = fed
  BY DEF TakeEntry, EntriesLeft, Wanted
<1>2. /\ h \in Nat /\ 0 < h /\ Offered' = Offered \cup {h}
      /\ i' \in 1 .. Len(arg'.entries) + 1
  BY <1>1, PassEntry DEF Offered
<1> HIDE DEF h
<1>3. /\ TableOK(table', Sizes) /\ table'.theta <= table.theta
      /\ table'.entries = Below(table.entries \cup {h}, table'.theta)
      /\ table'.theta # table.theta =>
           /\ table'.theta \in table.entries \cup {h}
           /\ Cardinality(table'.entries) = Nominal
      /\ table'.nom = Nominal /\ table'.factor = Factor
      /\ table'.isEmpty = table.isEmpty
  <2>1. CASE h \in table.entries
    <3>1. table' = table /\ table.entries \cup {h} = table.entries
      BY <1>1, <2>1
    <3>2. table.entries = Below(table.entries, table.theta)
      BY TypesOf DEF Below
    <3>3. table.theta \in Nat /\ TableOK(table, Sizes)
          /\ table.nom = Nominal /\ table.factor = Factor
      BY TypesOf
    <3>4. table.theta <= table.theta
      BY <3>3
    <3> QED
      BY <3>1, <3>2, <3>3, <3>4
  <2>2. CASE h \notin table.entries
    <3>1. TableOK(table, Sizes) /\ table.nom = Nominal /\ table.factor = Factor
      BY TypesOf
    <3>2. table' = Insert(table, h) /\ h < table.theta
      BY <1>1, <2>2
    <3>3. /\ TableOK(Insert(table, h), Sizes)
          /\ Insert(table, h).theta <= table.theta
          /\ Insert(table, h).entries
               = Below(table.entries \cup {h}, Insert(table, h).theta)
          /\ Insert(table, h).theta # table.theta =>
               /\ Insert(table, h).theta \in table.entries \cup {h}
               /\ Cardinality(Insert(table, h).entries) = table.nom
          /\ Insert(table, h).nom = table.nom /\ Insert(table, h).factor = table.factor
          /\ Insert(table, h).isEmpty = table.isEmpty
      BY <1>2, <2>2, <3>1, <3>2, InsertPreserves, Zenon
    <3> QED
      BY <3>1, <3>2, <3>3
  <2> QED
    BY <2>1, <2>2
<1>4. table'.theta \in Nat /\ table'.entries \in SUBSET Nat
  BY <1>3 DEF TableOK, Tables
<1>5. TypeOK'
  BY <1>1, <1>2, <1>3 DEF IInv, TypeOK
<1>6. /\ unionTheta' <= minTheta' /\ MinOf(unionTheta', table'.theta) = Lesser'
      /\ Lesser' \in Nat /\ Lesser' <= Lesser /\ Lesser' <= table'.theta
  <2>1. /\ unionTheta \in Nat /\ minTheta \in Nat /\ table.theta \in Nat
        /\ unionTheta <= minTheta
        /\ MinOf(unionTheta, table.theta) = MinOf(minTheta, table.theta)
    BY TypesOf DEF IInv, Lesser
  <2> QED
    BY <1>1, <1>3, <1>4, <2>1 DEF MinOf, Lesser
<1>7. table.entries \subseteq Offered /\ Offered \in SUBSET Nat
      /\ IsFiniteSet(Offered) /\ Lesser \in Nat /\ table.entries \in SUBSET Nat
  BY TypesOf DEF IInv
<1>8. table'.entries \subseteq Offered'
  BY <1>2, <1>3, <1>7 DEF Below
<1>9. Below(table'.entries, Lesser') = Below(Offered', Lesser')
  <2>1. Below(table.entries, Lesser') = Below(Offered, Lesser')
    <3>1. Below(table.entries, Lesser) = Below(Offered, Lesser)
      BY DEF IInv
    <3> QED
      BY <1>6, <1>7, <3>1, BelowNarrow
  <2>2. \A x \in Nat : x < Lesser' => x < table'.theta
    BY <1>4, <1>6
  <2>3. Below(table'.entries, Lesser') = Below(table.entries \cup {h}, Lesser')
    BY <1>2, <1>3, <1>7, <2>2 DEF Below
  <2> QED
    BY <1>2, <2>1, <2>3 DEF Below
<1>10. table'.theta <= MaxTheta
  <2>1. table.theta <= MaxTheta /\ table.theta \in Nat /\ MaxTheta \in Nat
    BY TypesOf DEF IInv
  <2> QED
    BY <1>3, <1>4, <2>1
<1>11. table'.theta # MaxTheta =>
         /\ table'.theta \in Offered'
         /\ Nominal <= Cardinality(Below(Offered', table'.theta))
  <2>1. Offered' \in SUBSET Nat /\ IsFiniteSet(Offered')
    BY <1>2, <1>7, FS_AddElement
  <2>2. IsFiniteSet(Below(Offered', table'.theta))
    BY <1>4, <2>1, BelowFinite
  <2>3. Nominal \in Nat /\ Cardinality(Below(Offered', table'.theta)) \in Nat
    BY <2>2, Constants, FS_CardinalityType
  <2>4. CASE table'.theta = table.theta
    <3>1. Below(Offered, table.theta) \in SUBSET Below(Offered', table'.theta)
      BY <1>2, <2>4 DEF Below
    <3>2. /\ Cardinality(Below(Offered, table.theta))
               <= Cardinality(Below(Offered', table'.theta))
          /\ Cardinality(Below(Offered, table.theta)) \in Nat
      BY <2>2, <3>1, FS_Subset, FS_CardinalityType
    <3>3. table.theta # MaxTheta =>
            /\ table.theta \in Offered
            /\ Nominal <= Cardinality(Below(Offered, table.theta))
      BY DEF IInv
    <3> QED
      BY <1>2, <2>3, <2>4, <3>2, <3>3
  <2>5. CASE table'.theta # table.theta
    <3>1. table'.entries \in SUBSET Below(Offered', table'.theta)
      BY <1>3, <1>8 DEF Below
    <3>2. Cardinality(table'.entries) <= Cardinality(Below(Offered', table'.theta))
      BY <2>2, <3>1, FS_Subset
    <3> QED
      BY <1>2, <1>3, <1>7, <2>5, <3>2
  <2> QED
    BY <2>4, <2>5
<1>12. EmptyHoldsNothing'
  BY <1>1, <1>3 DEF IInv, EmptyHoldsNothing
<1>13. IsFiniteSet(seen') /\ (pc' = "loop" => arg' \in Inputs /\ ~table'.isEmpty)
  BY <1>1, <1>3 DEF IInv
<1> QED
  BY <1>1, <1>5, <1>6, <1>8, <1>9, <1>10, <1>11, <1>12, <1>13 DEF IInv

(* An entry the loop passes over: it is not below the lesser theta. *)
LEMMA SkipIInv == ASSUME IInv, SkipEntry PROVE IInv'
<1> DEFINE h == arg.entries[i]
<1>1. /\ pc = "loop" /\ i <= Len(arg.entries) /\ ~Wanted(h)
      /\ i' = i + 1 /\ table' = table
      /\ unionTheta' = unionTheta /\ pc' = pc /\ arg' = arg
      /\ seen' = seen /\ minTheta' = minTheta /\ fed' = fed
  BY DEF SkipEntry, EntriesLeft
<1>2. /\ h \in Nat /\ Offered' = Offered \cup {h}
      /\ i' \in 1 .. Len(arg'.entries) + 1
  BY <1>1, PassEntry DEF Offered
<1> HIDE DEF h
<1>3. ~(h < Lesser) /\ Lesser' = Lesser
  BY <1>1, <1>2, Unwanted DEF Lesser
<1>4. Below(Offered', Lesser) = Below(Offered, Lesser)
  BY <1>2, <1>3 DEF Below
<1>5. TypeOK'
  BY <1>1, <1>2 DEF IInv, TypeOK
<1>6. table.theta # MaxTheta =>
        /\ table.theta \in Offered'
        /\ Nominal <= Cardinality(Below(Offered', table.theta))
  <2>1. /\ Offered \in SUBSET Nat /\ IsFiniteSet(Offered) /\ table.theta \in Nat
        /\ Offered' \in SUBSET Nat /\ IsFiniteSet(Offered')
    BY <1>2, TypesOf, FS_AddElement
  <2>2. Below(Offered, table.theta) \in SUBSET Below(Offered', table.theta)
    BY <1>2 DEF Below
  <2>3. /\ Cardinality(Below(Offered, table.theta))
             <= Cardinality(Below(Offered', table.theta))
        /\ Cardinality(Below(Offered, table.theta)) \in Nat
        /\ Cardinality(Below(Offered', table.theta)) \in Nat
    BY <2>1, <2>2, BelowFinite, FS_Subset
  <2> QED
    BY <1>2, <2>3, Constants DEF IInv
<1>7. EmptyHoldsNothing'
  BY <1>1 DEF IInv, EmptyHoldsNothing
<1>8. MinOf(unionTheta', table'.theta) = Lesser' /\ unionTheta' <= minTheta'
  BY <1>1, <1>3 DEF IInv
<1>9. table'.entries \subseteq Offered'
      /\ Below(table'.entries, Lesser') = Below(Offered', Lesser')
  BY <1>1, <1>2, <1>3, <1>4 DEF IInv
<1> QED
  BY <1>1, <1>5, <1>6, <1>7, <1>8, <1>9 DEF IInv

(* An early stop loses nothing: what is left of an ordered sketch is not   *)
(* below the lesser theta either.                                          *)
LEMMA EarlyStop ==
  ASSUME IInv, pc = "loop", LoopOver
  PROVE  Below(seen \cup Keys(arg), Lesser) = Below(Offered, Lesser)
<1>1. /\ arg \in Inputs \cup {NoSketch} /\ i \in Nat \ {0} /\ Lesser \in Nat
      /\ Offered \subseteq seen \cup Keys(arg)
  BY TypesOf DEF IInv
<1>2. /\ Len(arg.entries) \in Nat
      /\ \A k \in 1 .. Len(arg.entries) : arg.entries[k] \in Nat
      /\ Keys(arg) = {arg.entries[k] : k \in 1 .. Len(arg.entries)}
  BY <1>1, SketchFacts
<1>3. ASSUME NEW k \in 1 .. Len(arg.entries), arg.entries[k] < Lesser
      PROVE  arg.entries[k] \in Offered
  <2>1. CASE k \in 1 .. i - 1
    BY <2>1 DEF Offered
  <2>2. CASE k \notin 1 .. i - 1
    <3>1. i <= k /\ i \in 1 .. Len(arg.entries)
      BY <1>1, <1>2, <2>2
    <3>2. ~Wanted(arg.entries[i]) /\ arg.isOrdered
      BY <3>1 DEF LoopOver, EntriesLeft
    <3>3. ~(arg.entries[i] < Lesser)
      BY <1>2, <3>1, <3>2, Unwanted
    <3>4. k = i \/ arg.entries[i] < arg.entries[k]
      <4>1. k = i \/ i < k
        BY <1>1, <3>1
      <4>2. \A j, l \in 1 .. Len(arg.entries) :
              j < l => arg.entries[j] < arg.entries[l]
        BY <1>1, <3>2, SketchFacts
      <4> QED
        BY <3>1, <4>1, <4>2
    <3>5. arg.entries[i] \in Nat /\ arg.entries[k] \in Nat
      BY <1>2, <3>1
    <3> QED
      BY <1>1, <1>3, <3>3, <3>4, <3>5
  <2> QED
    BY <2>1, <2>2
<1>4. \A x \in seen \cup Keys(arg) : x < Lesser => x \in Offered
  BY <1>2, <1>3 DEF Offered
<1> QED
  BY <1>1, <1>4 DEF Below

(* The end of an update: the lesser theta becomes that of the union. *)
LEMMA FinishIInv == ASSUME IInv, FinishUpdate PROVE IInv'
<1>1. /\ pc = "loop" /\ LoopOver
      /\ unionTheta' = MinOf(unionTheta, table.theta)
      /\ seen' = seen \cup Keys(arg)
      /\ pc' = "idle" /\ arg' = NoSketch /\ i' = 1
      /\ table' = table /\ minTheta' = minTheta /\ fed' = fed
  BY DEF FinishUpdate
<1>2. Offered' = seen \cup Keys(arg)
  <2>1. Offered' = seen' \cup {NoSketch.entries[k] : k \in 1 .. 1 - 1}
    BY <1>1 DEF Offered
  <2> QED
    BY <1>1, <2>1
<1>3. /\ arg \in Inputs \cup {NoSketch} /\ seen \in SUBSET Nat /\ IsFiniteSet(seen)
      /\ Offered \subseteq Offered'
  BY <1>2, TypesOf DEF IInv, TypeOK
<1>4. Offered' \in SUBSET Nat /\ IsFiniteSet(Offered')
  BY <1>2, <1>3, SketchFacts, FS_Union
<1>5. Below(Offered', Lesser) = Below(Offered, Lesser) /\ Lesser' = Lesser
  BY <1>1, <1>2, EarlyStop DEF Lesser
<1>6. /\ unionTheta \in 1 .. MaxTheta /\ table.theta \in Nat /\ minTheta \in Nat
      /\ MaxTheta \in Nat /\ unionTheta <= minTheta
      /\ MinOf(unionTheta, table.theta) = Lesser
  BY TypesOf DEF IInv
<1>7. /\ unionTheta' \in 1 .. MaxTheta /\ unionTheta' <= minTheta'
      /\ unionTheta' <= table'.theta /\ MinOf(unionTheta', table'.theta) = Lesser'
  <2>1. unionTheta' = Lesser /\ Lesser \in Nat /\ Lesser <= table.theta
        /\ Lesser <= minTheta /\ Lesser <= unionTheta
    <3>1. /\ Lesser \in Nat /\ Lesser <= unionTheta /\ Lesser <= table.theta
          /\ MinOf(minTheta, table.theta) <= minTheta
      BY <1>6, MinOfBounds
    <3> QED
      BY <1>1, <1>6, <3>1 DEF Lesser
  <2>2. 1 <= Lesser
    <3>1. Lesser = unionTheta \/ Lesser = table.theta
      BY <1>6, MinOfBounds
    <3>2. CASE Lesser = unionTheta
      BY <1>6, <3>2
    <3>3. CASE Lesser = table.theta
      <4>1. CASE table.theta = MaxTheta
        BY <3>3, <4>1, Constants
      <4>2. CASE table.theta # MaxTheta
        <5>1. table.theta \in Offered /\ Nominal <= Cardinality(Below(Offered, table.theta))
          BY <4>2 DEF IInv
        <5>2. Below(Offered, table.theta) # {}
          BY <5>1, Constants, FS_EmptySet
        <5> QED
          BY <1>6, <3>3, <5>2, TypesOf DEF Below
      <4> QED
        BY <4>1, <4>2
    <3> QED
      BY <3>1, <3>2, <3>3
  <2> QED
    BY <1>1, <1>5, <1>6, <2>1, <2>2 DEF MinOf
<1>8. TypeOK'
  <2>1. i' \in 1 .. Len(arg'.entries) + 1
    <3>1. Len(NoSketch.entries) \in Nat
      BY SketchFacts
    <3> QED
      BY <1>1, <3>1
  <2>2. seen' \in SUBSET Nat
    BY <1>1, <1>3, SketchFacts
  <2> QED
    BY <1>1, <1>7, <2>1, <2>2 DEF IInv, TypeOK
<1>9. table.theta # MaxTheta =>
        /\ table.theta \in Offered'
        /\ Nominal <= Cardinality(Below(Offered', table.theta))
  <2>1. Below(Offered, table.theta) \in SUBSET Below(Offered', table.theta)
    BY <1>3 DEF Below
  <2>2. /\ Cardinality(Below(Offered, table.theta))
             <= Cardinality(Below(Offered', table.theta))
        /\ Cardinality(Below(Offered, table.theta)) \in Nat
        /\ Cardinality(Below(Offered', table.theta)) \in Nat
    BY <1>4, <1>6, <2>1, TypesOf, BelowFinite, FS_Subset
  <2> QED
    BY <1>3, <2>2, Constants DEF IInv
<1>10. EmptyHoldsNothing'
  BY <1>1 DEF IInv, EmptyHoldsNothing
<1>11. /\ table'.entries \subseteq Offered' /\ table'.theta <= MaxTheta
       /\ Below(table'.entries, Lesser') = Below(Offered', Lesser')
  BY <1>1, <1>3, <1>5 DEF IInv
<1>12. IsFiniteSet(seen')
  BY <1>1, <1>2, <1>4
<1> QED
  BY <1>1, <1>7, <1>8, <1>9, <1>10, <1>11, <1>12 DEF IInv

(* reset() forgets everything seen. *)
LEMMA ResetIInv == ASSUME IInv, ResetUnion PROVE IInv'
<1>1. /\ pc = "idle" /\ table' = NewUnionTable
      /\ unionTheta' = MaxTheta /\ seen' = {} /\ minTheta' = MaxTheta
      /\ fed' = FALSE
      /\ pc' = pc /\ arg' = arg /\ i' = i
  BY DEF ResetUnion
<1>2. pc' = "idle" /\ arg' = NoSketch /\ i' = 1
  BY <1>1, TypesOf DEF IInv
<1>3. Init'
  BY <1>1, <1>2 DEF Init, NewUnionTable
<1> QED
  BY <1>3, InitIInv, PTL

(* Every step keeps the invariant. *)
LEMMA NextIInv == IInv /\ [Next]_vars => IInv'
<1> SUFFICES ASSUME IInv, [Next]_vars PROVE IInv'
  OBVIOUS
<1>1. CASE UNCHANGED vars
  BY <1>1 DEF vars, IInv, TypeOK, Offered, Lesser, EmptyHoldsNothing
<1> QED
  BY <1>1, StartIInv, TakeIInv, SkipIInv, FinishIInv, ResetIInv DEF Next

(* The inductive invariant holds in every state the union can reach. *)
THEOREM Invariance == Spec => []IInv
<1> QED
  BY InitIInv, NextIInv, PTL DEF Spec

-----------------------------------------------------------------------------
(* The table is well formed inside the loop of update() as between two     *)
(* updates, and both thetas stay within (0, MAX_THETA].                    *)
THEOREM TypeCorrect == Spec => []TypeOK
<1>1. IInv => TypeOK
  BY DEF IInv
<1> QED
  BY <1>1, Invariance, PTL

(* A union is empty exactly when every sketch it was given was, one that   *)
(* retains nothing without being empty included, and so is its result.     *)
THEOREM EmptyCorrect == Spec => []EmptyIffAllWere
<1>1. IInv => EmptyIffAllWere
  <2> SUFFICES ASSUME IInv PROVE EmptyIffAllWere
    OBVIOUS
  <2>1. /\ table.isEmpty <=> ~fed
        /\ ~fed => unionTheta = MaxTheta
    BY DEF IInv, EmptyHoldsNothing
  <2>2. Result.isEmpty <=> table.isEmpty
    BY DEF Result, ResultOf
  <2>3. table.isEmpty => Result.theta = unionTheta /\ Result.keys = {}
    BY DEF Result, ResultOf
  <2> QED
    BY <2>1, <2>2, <2>3 DEF EmptyIffAllWere
<1> QED
  BY <1>1, Invariance, PTL

(* Between updates the keys of the result before the cut are the hashes    *)
(* seen below the lesser theta, whichever theta that is.                   *)
LEMMA KeptIsBelow ==
  ASSUME IInv, pc = "idle"
  PROVE  /\ unionTheta = Lesser /\ MinOf(unionTheta, table.theta) = Lesser
         /\ Kept(table, unionTheta) = Below(seen, Lesser)
<1>1. /\ unionTheta \in Nat /\ table.theta \in Nat /\ unionTheta <= table.theta
      /\ MinOf(unionTheta, table.theta) = Lesser
      /\ \A h \in table.entries : h < table.theta
      /\ Offered = seen /\ Below(table.entries, Lesser) = Below(Offered, Lesser)
  BY TypesOf DEF IInv
<1>2. unionTheta = Lesser
  BY <1>1 DEF MinOf
<1>3. CASE unionTheta >= table.theta
  <2>1. table.theta = Lesser
    BY <1>1, <1>2, <1>3
  <2>2. Kept(table, unionTheta) = table.entries /\ table.entries = Below(table.entries, Lesser)
    BY <1>1, <1>3, <2>1 DEF Kept, Below
  <2> QED
    BY <1>1, <1>2, <2>2
<1>4. CASE ~(unionTheta >= table.theta)
  <2>1. Kept(table, unionTheta) = Below(table.entries, Lesser)
    BY <1>1, <1>4 DEF Kept
  <2> QED
    BY <1>1, <1>2, <2>1
<1> QED
  BY <1>3, <1>4

(* The result of a union is a function of the set of hashes it was given   *)
(* and of their least theta: neither the order of the sketches nor how     *)
(* often the table thinned under the loop can be told from it.             *)
THEOREM ResultCanonical == Spec => []ResultIsCanonical
<1>1. IInv => ResultIsCanonical
  <2> SUFFICES ASSUME IInv, pc = "idle"
               PROVE  /\ Result.theta = IF Cardinality(Union) <= Nominal THEN minTheta
                                        ELSE NthElement(Union, Nominal)
                      /\ Result.keys = Below(Union, Result.theta)
    BY DEF ResultIsCanonical
  <2>1. /\ seen \in SUBSET Nat /\ IsFiniteSet(seen) /\ Lesser \in Nat
        /\ minTheta \in Nat /\ table.theta \in Nat /\ table.nom = Nominal
        /\ Nominal \in Nat /\ minTheta <= MaxTheta /\ MaxTheta \in Nat
        /\ Lesser = MinOf(minTheta, table.theta) /\ Offered = seen
    BY TypesOf, Constants DEF IInv, TypeOK, Lesser
  <2>2. /\ Lesser <= minTheta /\ Lesser <= table.theta
        /\ Lesser = minTheta \/ (Lesser = table.theta /\ Lesser < minTheta)
    BY <2>1 DEF MinOf
  <2> DEFINE K == Below(seen, Lesser)
  <2>3. /\ K \in SUBSET Nat /\ IsFiniteSet(K) /\ Cardinality(K) \in Nat
        /\ Union \in SUBSET Nat /\ IsFiniteSet(Union) /\ Cardinality(Union) \in Nat
        /\ Union \in SUBSET seen
    <3>1. /\ Below(seen, Lesser) \in SUBSET seen /\ IsFiniteSet(Below(seen, Lesser))
          /\ Cardinality(Below(seen, Lesser)) \in Nat
      BY <2>1, BelowFinite
    <3>2. /\ Below(seen, minTheta) \in SUBSET seen /\ IsFiniteSet(Below(seen, minTheta))
          /\ Cardinality(Below(seen, minTheta)) \in Nat
      BY <2>1, BelowFinite
    <3> QED
      BY <2>1, <3>1, <3>2 DEF Union
  <2>4. K = Below(Union, Lesser)
    <3>1. \A h \in Nat : h < Lesser => h < minTheta
      BY <2>1, <2>2
    <3> QED
      BY <2>1, <3>1, Zenon DEF Below, Union
  <2> HIDE DEF K
  <2>5. ASSUME NEW p \in Nat, p <= Lesser PROVE Below(K, p) = Below(Union, p)
    <3>1. \A h \in Nat : h < p => h < Lesser
      BY <2>1, <2>5
    <3> QED
      BY <2>3, <2>4, <3>1, Zenon DEF Below
  <2>6. Lesser # minTheta => Lesser \in Union /\ Nominal <= Cardinality(K)
    <3> SUFFICES ASSUME Lesser # minTheta
                 PROVE  Lesser \in Union /\ Nominal <= Cardinality(K)
      OBVIOUS
    <3>1. Lesser = table.theta /\ Lesser < minTheta /\ table.theta # MaxTheta
      BY <2>1, <2>2
    <3>2. /\ table.theta \in seen
          /\ Nominal <= Cardinality(Below(seen, table.theta))
      BY <2>1, <3>1 DEF IInv
    <3> QED
      BY <3>1, <3>2 DEF Below, Union, K
  <2>7. CASE table.isEmpty
    <3>1. Result.theta = unionTheta /\ Result.keys = {}
      BY <2>7 DEF Result, ResultOf
    <3>2. seen = {} /\ minTheta = MaxTheta /\ unionTheta = MaxTheta
      BY <2>7 DEF IInv, EmptyHoldsNothing
    <3>3. Union = {} /\ Below(Union, Result.theta) = {}
      BY <3>2 DEF Union, Below
    <3>4. Cardinality(Union) = 0
      BY <3>3, FS_EmptySet
    <3> QED
      BY <2>1, <3>1, <3>2, <3>3, <3>4
  <2>8. CASE ~table.isEmpty
    <3>1. MinOf(unionTheta, table.theta) = Lesser /\ Kept(table, unionTheta) = K
      BY KeptIsBelow DEF K
    <3>2. CASE Cardinality(K) > Nominal
      <4> DEFINE p == NthElement(K, Nominal)
      <4>1. Result.theta = p /\ Result.keys = Below(K, p)
        BY <2>1, <2>8, <3>1, <3>2 DEF Result, ResultOf
      <4>2. p \in K /\ Cardinality(Below(K, p)) = Nominal
        BY <2>1, <2>3, <3>2, NthElementRank
      <4>3. p \in Nat /\ p \in Union /\ p <= Lesser
        BY <2>1, <2>3, <2>4, <4>2 DEF Below
      <4>4. Below(K, p) = Below(Union, p)
        BY <2>5, <4>3
      <4>5. Nominal < Cardinality(Union)
        <5>1. Cardinality(K) <= Cardinality(Union)
          BY <2>1, <2>3, <2>4, BelowFinite
        <5> QED
          BY <2>1, <2>3, <3>2, <5>1
      <4>6. p = NthElement(Union, Nominal)
        BY <2>1, <2>3, <4>2, <4>3, <4>4, <4>5, NthElementRank
      <4> QED
        BY <2>1, <2>3, <4>1, <4>4, <4>5, <4>6
    <3>3. CASE ~(Cardinality(K) > Nominal)
      <4>1. Result.theta = Lesser /\ Result.keys = K
        BY <2>1, <2>8, <3>1, <3>3 DEF Result, ResultOf
      <4>2. CASE Lesser = minTheta
        <5>1. K = Union
          BY <4>2 DEF K, Union
        <5> QED
          BY <2>1, <2>3, <2>4, <3>3, <4>1, <4>2, <5>1
      <4>3. CASE Lesser # minTheta
        <5>1. Lesser \in Union /\ Cardinality(Below(Union, Lesser)) = Nominal
          BY <2>1, <2>3, <2>4, <2>6, <3>3, <4>3
        <5>2. Nominal < Cardinality(Union)
          BY <2>1, <2>3, <5>1, BelowFinite
        <5>3. Lesser = NthElement(Union, Nominal)
          BY <2>1, <2>3, <5>1, <5>2, NthElementRank
        <5> QED
          BY <2>1, <2>3, <2>4, <4>1, <5>2, <5>3
      <4> QED
        BY <4>2, <4>3
    <3> QED
      BY <3>2, <3>3
  <2> QED
    BY <2>7, <2>8
<1> QED
  BY <1>1, Invariance, PTL

(* Inside an update and between two, both thetas only fall. *)
THEOREM ThetasMonotone == Spec => ThetasOnlyFall
<1>1. IInv /\ [Next]_vars =>
        [\/ unionTheta' <= unionTheta /\ table'.theta <= table.theta
         \/ table' = NewUnionTable]_vars
  <2> SUFFICES ASSUME IInv, [Next]_vars
               PROVE  \/ unionTheta' <= unionTheta /\ table'.theta <= table.theta
                      \/ table' = NewUnionTable
    OBVIOUS
  <2>1. /\ TableOK(table, Sizes) /\ unionTheta \in Nat /\ table.theta \in Nat
        /\ unionTheta <= unionTheta /\ table.theta <= table.theta
    BY TypesOf
  <2>2. ASSUME NEW s \in Inputs, StartUpdate(s)
        PROVE  unionTheta' <= unionTheta /\ table'.theta <= table.theta
    <3>1. CASE s.isEmpty
      BY <2>1, <2>2, <3>1 DEF StartUpdate, vars
    <3>2. CASE ~s.isEmpty
      <4>1. s.theta \in Nat
        <5>1. s.theta \in 1 .. MaxTheta
          BY SketchFacts
        <5> QED
          BY <5>1, Constants
      <4>2. unionTheta' = MinOf(unionTheta, s.theta) /\ table' = Unempty(table)
        BY <2>2, <3>2 DEF StartUpdate
      <4> QED
        BY <2>1, <4>1, <4>2, MinOfBounds, UnemptyPreserves
    <3> QED
      BY <3>1, <3>2
  <2>3. ASSUME TakeEntry
        PROVE  unionTheta' <= unionTheta /\ table'.theta <= table.theta
    <3> DEFINE h == arg.entries[i]
    <3>1. /\ unionTheta' = unionTheta /\ h < table.theta
          /\ table' = IF h \in table.entries THEN table ELSE Insert(table, h)
      BY <2>3 DEF TakeEntry, Wanted
    <3>2. h \in Nat /\ 0 < h
      BY <2>3, PassEntry DEF TakeEntry, EntriesLeft
    <3> HIDE DEF h
    <3>3. CASE h \in table.entries
      BY <2>1, <3>1, <3>3
    <3>4. CASE h \notin table.entries
      <4>1. Insert(table, h).theta <= table.theta
        BY <2>1, <3>1, <3>2, <3>4, InsertPreserves, Zenon
      <4> QED
        BY <2>1, <3>1, <3>4, <4>1
    <3> QED
      BY <3>3, <3>4
  <2>4. CASE SkipEntry
    BY <2>1, <2>4 DEF SkipEntry
  <2>5. CASE FinishUpdate
    BY <2>1, <2>5, MinOfBounds DEF FinishUpdate
  <2>6. CASE ResetUnion
    BY <2>6 DEF ResetUnion
  <2>7. CASE UNCHANGED vars
    BY <2>1, <2>7 DEF vars
  <2> QED
    BY <2>2, <2>3, <2>4, <2>5, <2>6, <2>7 DEF Next
<1> QED
  BY <1>1, Invariance, PTL DEF Spec, ThetasOnlyFall

=============================================================================
