------------------------- MODULE UpdateSketchProofs -------------------------
(***************************************************************************)
(* The update sketch is right for every nominal size, resize factor and    *)
(* start value of theta.  The inductive invariant IInv adds to the         *)
(* properties that the table is well formed between operations, that theta *)
(* is at most its start value and that a sketch is empty exactly while     *)
(* nothing was offered; none of the safety properties is inductive alone,  *)
(* for what an insertion may do depends on the capacity left.              *)
(***************************************************************************)
EXTENDS UpdateSketch, ThetaLemmas

(* The assumptions about the constants, one fact each. *)
LEMMA Constants ==
  /\ Hash \in SUBSET Nat /\ IsFiniteSet(Hash) /\ MaxTheta \in Nat
  /\ StartTheta \in Nat /\ 1 <= StartTheta /\ StartTheta <= MaxTheta
  /\ Nominal \in Nat \ {0} /\ Factor \in Nat \ {0} /\ StartSize \in Sizes
  /\ StartSize <= Nominal => Factor >= 2
  /\ SizesOK(Sizes, Nominal, Factor)
BY BuilderAssumption DEF BuilderAssumption

(* The inductive invariant: TypeOK, the settings as built, and what the *)
(* sketch holds of what was offered.                                    *)
IInv ==
  /\ TableOK(table, Sizes)
  /\ offered \in SUBSET Hash
  /\ table.nom = Nominal /\ table.factor = Factor
  /\ table.theta \in 1 .. StartTheta
  /\ SampleExact
  /\ ThetaKeepsNominal
  /\ table.isEmpty = (offered = {})

(* A new sketch. *)
LEMMA InitIInv == Init => IInv
<1> SUFFICES ASSUME Init PROVE IInv
  OBVIOUS
<1>1. TableOK(table, Sizes)
  <2>1. TRUE \in BOOLEAN
    OBVIOUS
  <2>2. TableOK(NewTable(StartSize, Nominal, Factor, StartTheta, TRUE), Sizes)
    BY <2>1, Constants, NewTableOK, Zenon
  <2> QED
    BY <2>2 DEF Init
<1>2. /\ table.nom = Nominal /\ table.factor = Factor
      /\ table.theta = StartTheta /\ table.entries = {}
      /\ table.isEmpty = TRUE /\ offered = {}
  BY DEF Init, NewTable
<1>3. StartTheta \in 1 .. StartTheta
  BY Constants
<1> QED
  BY <1>1, <1>2, <1>3 DEF IInv, SampleExact, ThetaKeepsNominal, Below

(* A set of hashes is finite. *)
LEMMA HashesFinite ==
  ASSUME NEW S \in SUBSET Hash
  PROVE  IsFiniteSet(S) /\ S \in SUBSET Nat
<1>1. IsFiniteSet(S)
  BY Constants, FS_Subset
<1> QED
  BY <1>1, Constants

(* Every operation that absorbs hashes keeps the invariant. *)
LEMMA AbsorbIInv ==
  ASSUME IInv, NEW N \in SUBSET Hash, offered' = offered \cup N,
         TableOK(table', Sizes), Absorbs(table, table', N \ {0}),
         table'.isEmpty = (table.isEmpty /\ N = {})
  PROVE  IInv'
<1>1. TableOK(table, Sizes) /\ table \in Tables(Sizes) /\ table' \in Tables(Sizes)
  BY DEF IInv, TableOK
<1>2. /\ table.theta \in Nat /\ table'.theta \in Nat
      /\ table.theta \in 1 .. StartTheta /\ StartTheta \in Nat
      /\ Nominal \in Nat
      /\ table.entries \in SUBSET Nat /\ table'.entries \in SUBSET Nat
      /\ \A h \in table.entries : 0 < h /\ h < table.theta
  BY <1>1, Constants DEF IInv, TableOK, Tables
<1>3. offered \in SUBSET Hash /\ offered' \in SUBSET Hash
  BY DEF IInv
<1>4. table'.theta <= table.theta
      /\ table'.entries = Below(table.entries \cup (N \ {0}), table'.theta)
  BY DEF Absorbs
<1>5. SampleExact'
  <2>1. table.entries = Below(offered \ {0}, table.theta)
    BY DEF IInv, SampleExact
  <2>2. \A h \in offered' : h \in Nat
    BY <1>3, Constants
  <2>3. \A h \in Nat : h < table'.theta => h < table.theta
    BY <1>2, <1>4
  <2>4. Below(table.entries \cup (N \ {0}), table'.theta)
          = Below(offered' \ {0}, table'.theta)
    BY <2>1, <2>2, <2>3 DEF Below
  <2> QED
    BY <1>4, <2>4 DEF SampleExact
<1>6. Sampled \in SUBSET Hash /\ Sampled' \in SUBSET Hash /\ Sampled \subseteq Sampled'
  BY <1>3 DEF Sampled
<1>7. table'.theta \in 1 .. StartTheta /\ ThetaKeepsNominal'
  <2>1. CASE table'.theta = table.theta
    <3>1. Below(Sampled, table.theta) \in SUBSET Below(Sampled', table'.theta)
      BY <1>6, <2>1 DEF Below
    <3>2. IsFiniteSet(Sampled) /\ IsFiniteSet(Sampled')
          /\ Sampled \in SUBSET Nat /\ Sampled' \in SUBSET Nat
      BY <1>6, HashesFinite
    <3>3. /\ IsFiniteSet(Below(Sampled', table'.theta))
          /\ Cardinality(Below(Sampled', table'.theta)) \in Nat
          /\ Cardinality(Below(Sampled, table.theta)) \in Nat
      BY <1>2, <3>2, BelowFinite
    <3>4. Cardinality(Below(Sampled, table.theta))
            <= Cardinality(Below(Sampled', table'.theta))
      BY <3>1, <3>3, FS_Subset
    <3>5. ThetaKeepsNominal
      BY DEF IInv
    <3> QED
      BY <1>2, <1>6, <2>1, <3>3, <3>4, <3>5 DEF ThetaKeepsNominal
  <2>2. CASE table'.theta # table.theta
    <3>1. /\ table'.theta \in table.entries \cup (N \ {0})
          /\ Cardinality(table'.entries) = table.nom
      BY <2>2 DEF Absorbs
    <3>2. table'.theta < table.theta /\ table'.theta < StartTheta
      BY <1>2, <1>4, <2>2
    <3>3. table.entries \subseteq offered \ {0}
      BY DEF IInv, SampleExact, Below
    <3>4. table'.theta \in offered' \ {0}
      BY <3>1, <3>3
    <3>5. 0 < table'.theta
      BY <1>2, <3>4
    <3>6. table'.theta \in Sampled'
      BY <3>2, <3>4, <3>5 DEF Sampled
    <3>7. Below(offered' \ {0}, table'.theta) = Below(Sampled', table'.theta)
      <4>1. ASSUME NEW h \in offered', h # 0, h < table'.theta
            PROVE  0 < h /\ h < StartTheta
        <5>1. h \in Nat
          BY <1>3, Constants
        <5> QED
          BY <1>2, <3>2, <4>1, <5>1
      <4>2. ~(0 < 0)
        OBVIOUS
      <4> QED
        BY <4>1, <4>2 DEF Below, Sampled
    <3>8. Cardinality(Below(Sampled', table'.theta)) = Nominal
      BY <1>5, <3>1, <3>7 DEF SampleExact, IInv
    <3> QED
      BY <1>2, <3>2, <3>5, <3>6, <3>8 DEF ThetaKeepsNominal
  <2> QED
    BY <2>1, <2>2
<1>8. table'.isEmpty = (offered' = {})
  BY DEF IInv
<1>9. table'.nom = Nominal /\ table'.factor = Factor
  BY DEF IInv, Absorbs
<1> QED
  BY <1>3, <1>5, <1>7, <1>8, <1>9 DEF IInv

(* Every operation keeps the invariant. *)
LEMMA NextIInv == IInv /\ [Next]_vars => IInv'
<1> SUFFICES ASSUME IInv, [Next]_vars PROVE IInv'
  OBVIOUS
<1>0. TableOK(table, Sizes)
  BY DEF IInv
<1>1. ASSUME NEW h \in Hash, table' = Offer(table, h), offered' = offered \cup {h}
      PROVE  IInv'
  <2>1. h \in Nat
    BY Constants
  <2>2. /\ TableOK(table', Sizes) /\ Absorbs(table, table', {h} \ {0})
        /\ table'.isEmpty = FALSE
    BY <1>0, <1>1, <2>1, OfferPreserves
  <2> QED
    BY <1>1, <2>2, AbsorbIInv
<1>2. ASSUME TrimSketch PROVE IInv'
  <2>1. /\ TableOK(table', Sizes) /\ Absorbs(table, table', {})
        /\ table'.isEmpty = table.isEmpty
    BY <1>0, <1>2, TrimPreserves DEF TrimSketch
  <2>2. table.isEmpty \in BOOLEAN
    BY <1>0 DEF TableOK, Tables
  <2>3. offered' = offered \cup {} /\ {} \ {0} = {}
    BY <1>2 DEF TrimSketch
  <2> QED
    BY <2>1, <2>2, <2>3, AbsorbIInv
<1>3. ASSUME ResetSketch PROVE IInv'
  <2>1. table.nom = Nominal /\ table.factor = Factor
    BY DEF IInv
  <2>0. TRUE \in BOOLEAN
    OBVIOUS
  <2>4. StartTheta \in 1 .. StartTheta
    BY Constants
  <2>2. TableOK(table', Sizes)
    <3>1. TableOK(NewTable(StartSize, Nominal, Factor, StartTheta, TRUE), Sizes)
      BY <2>0, Constants, NewTableOK, Zenon
    <3> QED
      BY <1>3, <2>1, <3>1 DEF ResetSketch
  <2>3. /\ table'.nom = Nominal /\ table'.factor = Factor
        /\ table'.theta = StartTheta /\ table'.entries = {}
        /\ table'.isEmpty = TRUE /\ offered' = {}
    BY <1>3, <2>1 DEF ResetSketch, NewTable
  <2> QED
    BY <2>2, <2>3, <2>4 DEF IInv, SampleExact, ThetaKeepsNominal, Below
<1>4. CASE UNCHANGED vars
  BY <1>4 DEF vars, IInv, SampleExact, ThetaKeepsNominal, Sampled
<1> QED
  BY <1>1, <1>2, <1>3, <1>4 DEF Next, UpdateData, UpdateByHash

(* The inductive invariant holds in every state the sketch can reach. *)
THEOREM Invariance == Spec => []IInv
<1> QED
  BY InitIInv, NextIInv, PTL DEF Spec

-----------------------------------------------------------------------------
(* Every reachable sketch has the types of theta_update_sketch_base's      *)
(* fields, theta within (0, MAX_THETA] and no retained hash 0.             *)
THEOREM TypeCorrect == Spec => []TypeOK
<1>1. IInv => TypeOK
  <2> SUFFICES ASSUME IInv PROVE TypeOK
    OBVIOUS
  <2>1. /\ table \in Tables(Sizes) /\ table.nom = Nominal /\ table.factor = Factor
        /\ table.theta \in 1 .. StartTheta /\ offered \in SUBSET Hash
    BY DEF IInv, TableOK
  <2>2. \A s \in Sizes : s \in Nat
    BY Constants DEF SizesOK
  <2>3. table.theta \in 1 .. MaxTheta
    BY <2>1, Constants
  <2>4. table.entries \in SUBSET (Hash \ {0})
    BY <2>1 DEF IInv, SampleExact, Below
  <2>5. table = [isEmpty |-> table.isEmpty, cur |-> table.cur, nom |-> table.nom,
                 factor |-> table.factor, num |-> table.num,
                 theta |-> table.theta, entries |-> table.entries]
    BY <2>1 DEF Tables
  <2>6. table.isEmpty \in BOOLEAN /\ table.cur \in Nat /\ table.num \in Nat
    BY <2>1, <2>2 DEF Tables
  <2>7. table \in TableType
    BY <2>1, <2>3, <2>4, <2>5, <2>6 DEF TableType
  <2> QED
    BY <2>1, <2>7 DEF TypeOK
<1> QED
  BY <1>1, Invariance, PTL

(* The update sketch is a threshold sample of everything offered to it. *)
THEOREM SampleIsExact == Spec => []SampleExact
<1>1. IInv => SampleExact
  BY DEF IInv
<1> QED
  BY <1>1, Invariance, PTL

(* The counter agrees with the keys and an empty slot is always left. *)
THEOREM CountCorrect == Spec => []CountWithinCapacity
<1>1. IInv => CountWithinCapacity
  <2> SUFFICES ASSUME IInv PROVE CountWithinCapacity
    OBVIOUS
  <2>1. /\ table.cur \in Sizes /\ table.num \in Nat /\ table.nom = Nominal
        /\ table.num = Cardinality(table.entries)
        /\ table.num <= Capacity(table.cur, table.nom)
    BY DEF IInv, TableOK, Tables
  <2>2. table.cur \in 2 .. 2 * Nominal
    BY <2>1, Constants DEF SizesOK
  <2>3. Capacity(table.cur, table.nom) < table.cur
        /\ Capacity(table.cur, table.nom) \in Int
    BY <2>2, Constants DEF Capacity
  <2>4. table.num < table.cur /\ table.cur <= 2 * table.nom
    BY <2>1, <2>2, <2>3, Constants
  <2> QED
    BY <2>1, <2>4 DEF CountWithinCapacity
<1> QED
  BY <1>1, Invariance, PTL

(* theta is lowered only onto an offered hash with nominal hashes below. *)
THEOREM ThetaAccurate == Spec => []ThetaKeepsNominal
<1>1. IInv => ThetaKeepsNominal
  BY DEF IInv
<1> QED
  BY <1>1, Invariance, PTL

(* A sketch with at most nominal entries depends on the set of offered     *)
(* hashes alone: two sketches fed the same rows in different orders, with  *)
(* different sizes and resizes on the way, are equal once trimmed.         *)
THEOREM TrimCanonical == Spec => []TrimmedIsCanonical
<1>1. IInv => TrimmedIsCanonical
  <2> SUFFICES ASSUME IInv, table.num <= Nominal
               PROVE  table.theta = IF Cardinality(Sampled) <= Nominal
                                      THEN StartTheta
                                      ELSE NthElement(Sampled, Nominal)
    BY DEF TrimmedIsCanonical
  <2>1. /\ table.num = Cardinality(table.entries) /\ table.num \in Nat
        /\ table.theta \in Nat /\ table.theta <= StartTheta
        /\ offered \in SUBSET Hash
    BY Constants DEF IInv, TableOK, Tables
  <2>2. table.entries = Below(Sampled, table.theta)
    <3>1. \A h \in offered : h \in Nat
      BY <2>1, Constants
    <3>2. \A h \in Nat : h # 0 /\ h < table.theta => 0 < h /\ h < StartTheta
      BY <2>1, Constants
    <3>3. ~(0 < 0)
      OBVIOUS
    <3>4. table.entries = Below(offered \ {0}, table.theta)
      BY DEF IInv, SampleExact
    <3> QED
      BY <3>1, <3>2, <3>3, <3>4 DEF Below, Sampled
  <2>3. Sampled \in SUBSET Nat /\ IsFiniteSet(Sampled)
    <3>1. Sampled \in SUBSET Hash
      BY <2>1 DEF Sampled
    <3> QED
      BY <3>1, HashesFinite
  <2>4. Cardinality(Sampled) \in Nat
    BY <2>3, FS_CardinalityType
  <2>5. CASE table.theta = StartTheta
    <3>1. Below(Sampled, table.theta) = Sampled
      BY <2>5 DEF Below, Sampled
    <3> QED
      BY <2>1, <2>2, <2>5, <3>1
  <2>6. CASE table.theta # StartTheta
    <3>1. table.theta \in Sampled /\ Cardinality(Below(Sampled, table.theta)) >= Nominal
      BY <2>6 DEF IInv, ThetaKeepsNominal
    <3>2. Cardinality(Below(Sampled, table.theta)) = Nominal
      BY <2>1, <2>2, <3>1, Constants
    <3>3. Nominal < Cardinality(Sampled)
      BY <2>1, <2>3, <3>1, <3>2, BelowFinite
    <3>4. table.theta = NthElement(Sampled, Nominal)
      <4>1. Nominal \in Nat
        BY Constants
      <4>2. \A p \in Sampled : Cardinality(Below(Sampled, p)) = Nominal
                                 => p = NthElement(Sampled, Nominal)
        BY <2>3, <3>3, <4>1, NthElementRank
      <4> QED
        BY <3>1, <3>2, <4>2
    <3> QED
      BY <2>4, <3>3, <3>4, Constants
  <2> QED
    BY <2>5, <2>6
<1> QED
  BY <1>1, Invariance, PTL

(* What a step does to the sketch: it absorbs hashes, or starts afresh.    *)
LEMMA StepAbsorbs ==
  ASSUME IInv, [Next]_vars
  PROVE  \/ /\ table'.theta \in Nat /\ table.theta \in Nat
            /\ table'.theta <= table.theta
            /\ Below(table.entries, table'.theta) \subseteq table'.entries
            /\ table'.theta \in {table.theta} \cup offered'
            /\ offered \subseteq offered'
            /\ table'.theta # table.theta =>
                 Cardinality(table'.entries) >= Nominal
         \/ /\ table' = NewTable(StartSize, Nominal, Factor, StartTheta, TRUE)
            /\ offered' = {}
<1>1. IInv'
  BY NextIInv
<1>2. TableOK(table, Sizes) /\ TableOK(table', Sizes)
  BY <1>1 DEF IInv
<1>3. /\ table.theta \in Nat /\ table'.theta \in Nat /\ table.nom = Nominal
      /\ table.factor = Factor /\ Nominal \in Nat
      /\ table.entries \subseteq offered
      /\ \A h \in table.entries : h \in Nat /\ h < table.theta
  BY <1>2, Constants DEF IInv, TableOK, Tables, SampleExact, Below
<1>4. ASSUME NEW N, Absorbs(table, table', N), N \subseteq offered',
             offered \subseteq offered'
      PROVE  /\ table'.theta <= table.theta
             /\ Below(table.entries, table'.theta) \subseteq table'.entries
             /\ table'.theta \in {table.theta} \cup offered'
             /\ table'.theta # table.theta =>
                  Cardinality(table'.entries) >= Nominal
  BY <1>3, <1>4 DEF Absorbs, Below
<1>5. ASSUME NEW h \in Hash, table' = Offer(table, h), offered' = offered \cup {h}
      PROVE  Absorbs(table, table', {h} \ {0})
  <2>1. h \in Nat
    BY Constants
  <2>2. Absorbs(table, Offer(table, h), {h} \ {0})
    BY <1>2, <2>1, OfferPreserves
  <2> QED
    BY <1>5, <2>2
<1>6. ASSUME NEW h \in Hash, UpdateData(h) \/ UpdateByHash(h)
      PROVE  \E N : /\ Absorbs(table, table', N) /\ N \subseteq offered'
                    /\ offered \subseteq offered'
  <2>1. table' = Offer(table, h) /\ offered' = offered \cup {h}
    BY <1>6 DEF UpdateData, UpdateByHash
  <2> QED
    BY <1>5, <2>1
<1>7. ASSUME TrimSketch
      PROVE  \E N : /\ Absorbs(table, table', N) /\ N \subseteq offered'
                    /\ offered \subseteq offered'
  <2>1. Absorbs(table, table', {}) /\ offered' = offered
    BY <1>2, <1>7, TrimPreserves DEF TrimSketch
  <2> QED
    BY <2>1
<1>8. CASE ResetSketch
  BY <1>3, <1>8 DEF ResetSketch
<1>9. CASE UNCHANGED vars
  <2>1. table' = table /\ offered' = offered
    BY <1>9 DEF vars
  <2>2. Below(table.entries, table.theta) \subseteq table.entries
    BY DEF Below
  <2>3. /\ table'.theta = table.theta /\ table'.entries = table.entries
        /\ offered \subseteq offered'
    BY <2>1
  <2>4. table'.theta <= table.theta
    BY <1>3, <2>3
  <2>5. Below(table.entries, table'.theta) \subseteq table'.entries
    BY <2>2, <2>3
  <2> QED
    BY <1>3, <2>3, <2>4, <2>5
<1> QED
  BY <1>3, <1>4, <1>6, <1>7, <1>8, <1>9 DEF Next

(* theta never rises, and nothing below it is lost, except by reset. *)
THEOREM ThetaMonotone == Spec => ThetaOnlyFalls
<1>1. IInv /\ [Next]_vars =>
        [\/ /\ table'.theta <= table.theta
            /\ Below(table.entries, table'.theta) \subseteq table'.entries
         \/ table' = NewTable(StartSize, Nominal, Factor, StartTheta, TRUE)]_vars
  BY StepAbsorbs
<1> QED
  BY <1>1, Invariance, PTL DEF Spec, ThetaOnlyFalls

-----------------------------------------------------------------------------
(* Every update sketch implements the abstract threshold sample. *)
THEOREM Refinement == Spec => ImplementsSample
<1>1. Init => Abs!Init
  BY DEF Init, NewTable, Abs!Init
<1>2. IInv /\ [Next]_vars => [Abs!Next]_(Abs!vars)
  <2> SUFFICES ASSUME IInv, [Next]_vars PROVE [Abs!Next]_(Abs!vars)
    OBVIOUS
  <2>1. IInv'
    BY NextIInv
  <2>2. CASE /\ table' = NewTable(StartSize, Nominal, Factor, StartTheta, TRUE)
             /\ offered' = {}
    BY <2>2 DEF Abs!Next, Abs!Forget, NewTable
  <2>3. CASE /\ table'.theta \in Nat /\ table.theta \in Nat
             /\ table'.theta <= table.theta
             /\ table'.theta \in {table.theta} \cup offered'
             /\ offered \subseteq offered'
             /\ table'.theta # table.theta =>
                  Cardinality(table'.entries) >= Nominal
    <3>1. offered' \subseteq Hash /\ table'.isEmpty = (offered' = {})
      BY <2>1 DEF IInv
    <3>2. table'.entries = Abs!Sample(offered', table'.theta)
      <4>1. \A h \in offered' : h \in Nat /\ (h # 0 <=> 0 < h)
        BY <3>1, Constants
      <4>2. table'.entries = Below(offered' \ {0}, table'.theta)
        BY <2>1 DEF IInv, SampleExact
      <4> QED
        BY <4>1, <4>2 DEF Below, Abs!Sample
    <3>3. Abs!Absorb
      BY <2>3, <3>1, <3>2 DEF Abs!Absorb, Cardinality, Abs!Cardinality
    <3> QED
      BY <3>3 DEF Abs!Next
  <2> QED
    BY <2>2, <2>3, StepAbsorbs
<1> QED
  BY <1>1, <1>2, Invariance, PTL DEF Spec, ImplementsSample, Abs!Spec

=============================================================================
