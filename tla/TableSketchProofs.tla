-------------------------- MODULE TableSketchProofs --------------------------
(***************************************************************************)
(* The update sketch on its slots carries out UpdateSketch, for every      *)
(* table size, resize factor and set of hashes: find() always ends, every  *)
(* stored key is found, and the keys in the slots are at every moment the  *)
(* set UpdateSketch keeps, so all that UpdateSketchProofs proves holds of  *)
(* the slots too.                                                          *)
(***************************************************************************)
EXTENDS TableSketch, ThetaLemmas

(* What TableAssumption says of the constants. *)
LEMMA Constants ==
  /\ MaxHash \in Nat /\ StartTheta \in Nat /\ 1 <= StartTheta
  /\ MinLgK \in Nat /\ 1 <= MinLgK /\ LgNom \in Nat /\ 1 <= LgNom
  /\ Rf \in Nat /\ MinLgK <= LgNom
  /\ Offers \in SUBSET (0 .. MaxHash) /\ Offers \in SUBSET Nat
BY TableAssumption DEF TableAssumption

(* The sizes a table may have. *)
Sizes == {Pow2(lg) : lg \in 1 .. LgNom + 1}

(* The powers of two up to twice the nominal size are a set of sizes as    *)
(* the table needs them (resize: by 2^rf, at most to lg_nom + 1).          *)
LEMMA PowersAreSizes == SizesOK(Sizes, Pow2(LgNom), Pow2(Rf))
<1>1. PICK n \in Nat \ {0}, f \in Nat \ {0} : n = Pow2(LgNom) /\ f = Pow2(Rf)
  BY Constants, Pow2Type
<1>2. Pow2(LgNom + 1) = 2 * n
  BY <1>1, Constants, Pow2Doubles
<1>3. LgNom + 1 \in Nat /\ LgNom + 1 \in 1 .. LgNom + 1
  BY Constants
<1>4. ASSUME NEW s \in Sizes
      PROVE  /\ s \in 2 .. 2 * n
             /\ s <= n \/ s = 2 * n
             /\ s <= n => s * f \in Sizes \/ s * f > 2 * n
  <2>1. PICK lg \in 1 .. LgNom + 1 : s = Pow2(lg)
    BY DEF Sizes
  <2>2. lg \in Nat /\ 1 <= lg /\ lg <= LgNom + 1 /\ lg - 1 \in Nat
    BY <2>1, Constants
  <2>3. s \in Nat /\ s <= 2 * n
    BY <1>2, <1>3, <2>1, <2>2, Pow2Orders, Pow2Type
  <2>4. 2 <= s
    <3>1. Pow2((lg - 1) + 1) = 2 * Pow2(lg - 1) /\ Pow2(lg - 1) \in Nat \ {0}
      BY <2>2, Pow2Doubles, Pow2Type
    <3>2. (lg - 1) + 1 = lg
      BY <2>2
    <3> QED
      BY <2>1, <3>1, <3>2
  <2>5. s <= n \/ s = 2 * n
    <3>1. CASE lg = LgNom + 1
      BY <1>2, <2>1, <3>1
    <3>2. CASE lg # LgNom + 1
      <4>1. lg <= LgNom
        BY <2>2, <3>2, Constants
      <4> QED
        BY <1>1, <2>1, <2>2, <4>1, Constants, Pow2Orders
    <3> QED
      BY <3>1, <3>2
  <2>6. s * f \in Sizes \/ s * f > 2 * n
    <3>1. Pow2(lg + Rf) = s * f
      BY <1>1, <2>1, <2>2, Constants, Pow2Sum
    <3>2. CASE lg + Rf <= LgNom + 1
      <4>1. lg + Rf \in 1 .. LgNom + 1
        BY <2>2, <3>2, Constants
      <4> QED
        BY <3>1, <4>1 DEF Sizes
    <3>3. CASE ~(lg + Rf <= LgNom + 1)
      <4>1. lg + Rf \in Nat /\ LgNom + 1 < lg + Rf
        BY <2>2, <3>3, Constants
      <4>2. Pow2(LgNom + 1) < Pow2(lg + Rf)
        BY <1>3, <4>1, Pow2Orders
      <4>3. 2 * n < s * f /\ s * f \in Nat
        BY <1>2, <2>3, <3>1, <4>2
      <4> QED
        BY <4>3
    <3> QED
      BY <3>2, <3>3
  <2> QED
    BY <2>3, <2>4, <2>5, <2>6
<1>5. Sizes \in SUBSET (2 .. 2 * n) /\ 2 * n \in Sizes
  BY <1>2, <1>3, <1>4 DEF Sizes
<1> QED
  BY <1>1, <1>4, <1>5 DEF SizesOK

(* The size a table starts with: at least MIN_LG_K, at most one above the  *)
(* nominal, and that one when it may not grow (starting_sub_multiple).     *)
LEMMA StartingSize ==
  /\ StartLg \in Nat /\ MinLgK <= StartLg /\ StartLg <= LgNom + 1
  /\ Pow2(StartLg) \in Sizes
  /\ Pow2(StartLg) <= Pow2(LgNom) => Pow2(Rf) >= 2
<1>1. StartLg = IF Rf = 0 THEN LgNom + 1 ELSE ((LgNom + 1 - MinLgK) % Rf) + MinLgK
  BY Constants DEF StartLg, StartingSubMultiple
<1>2. CASE Rf = 0
  <2>1. StartLg = LgNom + 1 /\ LgNom + 1 \in 1 .. LgNom + 1
    BY <1>1, <1>2, Constants
  <2>2. ~(Pow2(LgNom + 1) <= Pow2(LgNom))
    <3>1. LgNom + 1 \in Nat /\ ~(LgNom + 1 <= LgNom)
      BY Constants
    <3> QED
      BY <3>1, Constants, Pow2Orders
  <2> QED
    BY <2>1, <2>2, Constants DEF Sizes
<1>3. CASE Rf # 0
  <2>1. PICK x \in Nat, r \in Nat \ {0} : x = LgNom + 1 - MinLgK /\ r = Rf
    BY <1>3, Constants
  <2>2. x % r \in Nat /\ x % r <= x
    <3>1. /\ \A y \in Nat : y = r * (y \div r) + (y % r) /\ y \div r \in Nat
          /\ \A y \in Nat : y % r \in Nat
      OBVIOUS
    <3>2. x \div r \in Nat /\ x % r \in Nat /\ x = r * (x \div r) + (x % r)
      BY <3>1
    <3>3. r * (x \div r) \in Nat
      BY <3>2
    <3> QED
      BY <3>2, <3>3
  <2>3. StartLg = (x % r) + MinLgK
    BY <1>1, <1>3, <2>1
  <2>4. StartLg \in Nat /\ MinLgK <= StartLg /\ StartLg <= LgNom + 1
    BY <2>1, <2>2, <2>3, Constants
  <2>5. StartLg \in 1 .. LgNom + 1
    BY <2>4, Constants
  <2>6. Pow2(Rf) >= 2
    <3>1. 1 \in Nat /\ 1 <= Rf /\ Pow2(0 + 1) = 2 * Pow2(0) /\ Pow2(0) = 1
      BY <1>3, Constants, Pow2Doubles
    <3>2. Pow2(1) <= Pow2(Rf) /\ Pow2(Rf) \in Nat
      BY <3>1, Constants, Pow2Orders, Pow2Type
    <3>3. Pow2(1) = 2
      BY <3>1
    <3> QED
      BY <3>2, <3>3
  <2> QED
    BY <2>4, <2>5, <2>6 DEF Sizes
<1> QED
  BY <1>2, <1>3

(* The slot table is built as UpdateSketch assumes: BuilderAssumption, with *)
(* what TableSketch puts for its constants, so that what is proved of      *)
(* UpdateSketch holds of the keys in the slots.                            *)
LEMMA BuiltAsAssumed ==
  /\ Offers \in SUBSET Nat /\ IsFiniteSet(Offers)
  /\ StartTheta \in Nat /\ StartTheta \in 1 .. StartTheta
  /\ Pow2(LgNom) \in Nat \ {0} /\ Pow2(Rf) \in Nat \ {0}
  /\ Pow2(StartLg) \in Sizes
  /\ Pow2(StartLg) <= Pow2(LgNom) => Pow2(Rf) >= 2
  /\ SizesOK(Sizes, Pow2(LgNom), Pow2(Rf))
<1>1. IsFiniteSet(Offers)
  <2>1. IsFiniteSet(0 .. MaxHash)
    BY Constants, FS_Interval
  <2> QED
    BY <2>1, Constants, FS_Subset
<1>2. StartTheta \in 1 .. StartTheta /\ Pow2(LgNom) \in Nat \ {0} /\ Pow2(Rf) \in Nat \ {0}
  BY Constants, Pow2Type
<1> QED
  BY <1>1, <1>2, Constants, PowersAreSizes, StartingSize

-----------------------------------------------------------------------------
(* The inductive invariant: the slots are sound, and what UpdateSketch     *)
(* sees of them is one of its tables.  Neither would do alone: that find() *)
(* ends rests on the capacity, and that the capacity is kept rests on no   *)
(* key having been put in twice.                                           *)
IInv ==
  /\ Good(table)
  /\ table.lgNom = LgNom /\ table.rf = Rf
  /\ MinLgK <= table.lgCur
  /\ TableOK(KeyView(table), Sizes)
  /\ table.theta \in 1 .. StartTheta
  /\ SlotKeys(table.entries) \in SUBSET Offers
  /\ offered \in SUBSET Offers

(* What the key-level table says of the fields of the slot table. *)
LEMMA ViewFields ==
  ASSUME NEW t
  PROVE  /\ KeyView(t).theta = t.theta /\ KeyView(t).num = t.num
         /\ KeyView(t).isEmpty = t.isEmpty
         /\ KeyView(t).entries = SlotKeys(t.entries)
         /\ KeyView(t).nom = Pow2(t.lgNom)
BY DEF KeyView, KeySet, SlotKeys

(* A cleared table (the constructor, reset) satisfies the invariant. *)
LEMMA ClearIInv ==
  ASSUME NEW t, t = SlotTable(TRUE, StartLg, LgNom, Rf, 0, StartTheta, AllEmpty(StartLg))
  PROVE  /\ Good(t) /\ t.lgNom = LgNom /\ t.rf = Rf /\ MinLgK <= t.lgCur
         /\ TableOK(KeyView(t), Sizes)
         /\ t.theta \in 1 .. StartTheta
         /\ SlotKeys(t.entries) = {}
         /\ KeyView(t) = NewTable(Pow2(StartLg), Pow2(LgNom), Pow2(Rf), StartTheta, TRUE)
<1>1. StartLg \in Nat /\ LgNom \in Nat /\ Rf \in Nat /\ StartTheta \in Nat
  BY StartingSize, Constants
<1>2. /\ Good(t)
      /\ KeyView(t) = NewTable(Pow2(StartLg), Pow2(LgNom), Pow2(Rf), StartTheta, TRUE)
  BY <1>1, ClearGood
<1>3. /\ t.lgNom = LgNom /\ t.rf = Rf /\ t.lgCur = StartLg /\ t.theta = StartTheta
      /\ t.entries = AllEmpty(StartLg)
  BY DEF SlotTable
<1>4. TableOK(KeyView(t), Sizes)
  <2>1. Pow2(LgNom) \in Nat \ {0} /\ Pow2(Rf) \in Nat \ {0}
    BY <1>1, Pow2Type
  <2>2. PICK b \in BOOLEAN : b = TRUE
    OBVIOUS
  <2>3. TableOK(NewTable(Pow2(StartLg), Pow2(LgNom), Pow2(Rf), StartTheta, b), Sizes)
    BY <1>1, <2>1, PowersAreSizes, StartingSize, NewTableOK
  <2> QED
    BY <1>2, <2>2, <2>3
<1>5. SlotKeys(t.entries) = {}
  BY <1>1, <1>3, EmptySound
<1>6. MinLgK <= t.lgCur
  BY <1>3, StartingSize
<1>7. t.theta \in 1 .. StartTheta
  <2>1. StartTheta \in 1 .. StartTheta
    BY Constants
  <2> QED
    BY <1>3, <2>1
<1> QED
  BY <1>2, <1>3, <1>4, <1>5, <1>6, <1>7

(* The sketch as built. *)
LEMMA InitIInv == Init => IInv
<1> SUFFICES ASSUME Init PROVE IInv
  OBVIOUS
<1>1. table = SlotTable(TRUE, StartLg, LgNom, Rf, 0, StartTheta, AllEmpty(StartLg))
  BY DEF Init, NewSlots, SlotTable
<1> QED
  BY <1>1, ClearIInv DEF IInv, Init

(* An operation that absorbs offered hashes keeps the invariant. *)
LEMMA AbsorbIInv ==
  ASSUME IInv, NEW N \in SUBSET Offers,
         Good(table'), table'.lgNom = table.lgNom, table'.rf = table.rf,
         table.lgCur <= table'.lgCur,
         TableOK(KeyView(table'), Sizes),
         Absorbs(KeyView(table), KeyView(table'), N \ {0}),
         offered' = offered \cup N
  PROVE  IInv'
<1>1. /\ table.theta \in 1 .. StartTheta /\ SlotKeys(table.entries) \in SUBSET Offers
      /\ MinLgK <= table.lgCur /\ table.lgNom = LgNom /\ table.rf = Rf
      /\ Good(table) /\ offered \in SUBSET Offers
  BY DEF IInv
<1>2. PICK p, q, S, R : /\ p = table.theta /\ q = table'.theta
                        /\ S = SlotKeys(table.entries) /\ R = SlotKeys(table'.entries)
  OBVIOUS
<1>3. /\ KeyView(table).theta = p /\ KeyView(table').theta = q
      /\ KeyView(table).entries = S /\ KeyView(table').entries = R
  BY <1>2, ViewFields
<1>4. /\ q <= p /\ R = Below(S \cup (N \ {0}), q)
      /\ q # p => q \in S \cup (N \ {0})
  BY <1>3 DEF Absorbs
<1>5. R \in SUBSET Offers
  <2>1. S \in SUBSET Offers
    BY <1>1, <1>2
  <2> QED
    BY <1>4, <2>1 DEF Below
<1>6. q \in 1 .. StartTheta
  <2>1. p \in Nat /\ 1 <= p /\ p <= StartTheta /\ StartTheta \in Nat
    BY <1>1, <1>2, Constants
  <2>2. S \in SUBSET (Nat \ {0})
    BY <1>1, <1>2, SoundCounts DEF Good
  <2>3. CASE q = p
    BY <2>1, <2>3
  <2>4. CASE q # p
    <3>1. q \in Nat \ {0}
      BY <1>4, <2>2, <2>4, Constants
    <3> QED
      BY <1>4, <2>1, <3>1
  <2> QED
    BY <2>3, <2>4
<1>7. MinLgK <= table'.lgCur
  <2>1. table.lgCur \in Nat /\ table'.lgCur \in Nat
    BY <1>1 DEF Good
  <2> QED
    BY <1>1, <2>1, Constants
<1> QED
  BY <1>1, <1>2, <1>5, <1>6, <1>7 DEF IInv

(* The room the invariant guarantees: a free slot, and a table at most one *)
(* doubling above the nominal size.                                        *)
LEMMA Room ==
  ASSUME IInv
  PROVE  /\ table.num \in Nat /\ table.num < Pow2(table.lgCur)
         /\ table.lgCur \in Nat /\ table.lgCur <= table.lgNom + 1
<1>1. Good(table) /\ TableOK(KeyView(table), Sizes) /\ table.lgNom = LgNom
  BY DEF IInv
<1>2. /\ table.num \in Nat /\ table.num < Pow2(table.lgCur)
      /\ Pow2(table.lgCur) \in Sizes
  BY <1>1, RoomLeft
<1>3. table.lgCur \in Nat
  BY <1>1 DEF Good
<1>4. PICK lg \in 1 .. LgNom + 1 : Pow2(table.lgCur) = Pow2(lg)
  BY <1>2 DEF Sizes
<1>5. lg \in Nat /\ lg <= LgNom + 1
  BY <1>4, Constants
<1>6. table.lgCur = lg
  BY <1>3, <1>4, <1>5, Pow2Orders
<1> QED
  BY <1>1, <1>2, <1>3, <1>5, <1>6

(* What a step does, seen through the keys: the step UpdateSketch takes.   *)
LEMMA StepOf ==
  ASSUME IInv, Next
  PROVE  /\ IInv'
         /\ \/ \E h \in Offers : /\ KeyView(table') = Offer(KeyView(table), h)
                                 /\ offered' = offered \cup {h}
            \/ KeyView(table') = Trim(KeyView(table)) /\ offered' = offered
            \/ /\ KeyView(table') = NewTable(Pow2(StartLg), KeyView(table).nom,
                                             KeyView(table).factor, StartTheta, TRUE)
               /\ offered' = {}
<1>1. /\ Good(table) /\ TableOK(KeyView(table), Sizes) /\ offered \in SUBSET Offers
      /\ table.lgNom = LgNom /\ table.rf = Rf
  BY DEF IInv
<1>2. ASSUME NEW h \in Offers, UpdateByHash(h)
      PROVE  /\ IInv'
             /\ KeyView(table') = Offer(KeyView(table), h)
             /\ offered' = offered \cup {h}
  <2>1. h \in Nat /\ table' \in OfferSlots(table, h) /\ offered' = offered \cup {h}
    BY <1>2, Constants DEF UpdateByHash
  <2>2. /\ Good(table') /\ KeyView(table') = Offer(KeyView(table), h)
        /\ table'.lgNom = table.lgNom /\ table'.rf = table.rf
        /\ table.lgCur <= table'.lgCur
    BY <1>1, <2>1, Room, OfferGood
  <2>3. /\ TableOK(KeyView(table'), Sizes)
        /\ Absorbs(KeyView(table), KeyView(table'), {h} \ {0})
    BY <1>1, <2>1, <2>2, OfferPreserves
  <2>4. PICK N \in SUBSET Offers : N = {h}
    OBVIOUS
  <2>5. Absorbs(KeyView(table), KeyView(table'), N \ {0}) /\ offered' = offered \cup N
    BY <2>1, <2>3, <2>4
  <2>6. IInv'
    BY <2>2, <2>3, <2>5, AbsorbIInv
  <2> QED
    BY <2>1, <2>2, <2>6
<1>3. ASSUME TrimSketch
      PROVE  IInv' /\ KeyView(table') = Trim(KeyView(table)) /\ offered' = offered
  <2>1. table' \in TrimSlots(table) /\ offered' = offered
    BY <1>3 DEF TrimSketch
  <2>2. /\ Good(table') /\ KeyView(table') = Trim(KeyView(table))
        /\ table'.lgNom = table.lgNom /\ table'.rf = table.rf
        /\ table.lgCur <= table'.lgCur
    BY <1>1, <2>1, TrimGood
  <2>3. /\ TableOK(KeyView(table'), Sizes)
        /\ Absorbs(KeyView(table), KeyView(table'), {})
    BY <1>1, <2>2, TrimPreserves
  <2>4. PICK N \in SUBSET Offers : N = {}
    OBVIOUS
  <2>5. Absorbs(KeyView(table), KeyView(table'), N \ {0}) /\ offered' = offered \cup N
    BY <2>1, <2>3, <2>4
  <2>6. IInv'
    BY <2>2, <2>3, <2>5, AbsorbIInv
  <2> QED
    BY <2>1, <2>2, <2>6
<1>4. ASSUME ResetSketch
      PROVE  /\ IInv'
             /\ KeyView(table') = NewTable(Pow2(StartLg), KeyView(table).nom,
                                           KeyView(table).factor, StartTheta, TRUE)
             /\ offered' = {}
  <2>1. table' = ResetSlots(table, StartTheta) /\ offered' = {}
    BY <1>4 DEF ResetSketch
  <2>2. table' = SlotTable(TRUE, StartLg, LgNom, Rf, 0, StartTheta, AllEmpty(StartLg))
    <3>1. ResetSlots(table, StartTheta) =
            Cleared(table, StartTheta, StartLg, AllEmpty(StartLg))
      BY <1>1 DEF ResetSlots, Cleared, StartLg
    <3> QED
      BY <1>1, <2>1, <3>1, ClearedIs
  <2>3. IInv'
    BY <2>1, <2>2, ClearIInv DEF IInv
  <2>4. KeyView(table).nom = Pow2(LgNom) /\ KeyView(table).factor = Pow2(Rf)
    BY <1>1 DEF KeyView
  <2> QED
    BY <2>1, <2>2, <2>3, <2>4, ClearIInv
<1> QED
  BY <1>2, <1>3, <1>4 DEF Next

(* Every operation keeps the invariant. *)
LEMMA NextIInv == IInv /\ [Next]_vars => IInv'
<1>1. ASSUME IInv, vars' = vars PROVE IInv'
  BY <1>1 DEF IInv, vars
<1> QED
  BY <1>1, StepOf

(* The invariant holds of every reachable slot table. *)
THEOREM Invariance == Spec => []IInv
<1> QED
  BY InitIInv, NextIInv, PTL DEF Spec

-----------------------------------------------------------------------------
(* The fields of the class are what they are declared to be: one slot for  *)
(* each index of 2^lg_cur_size_, a size between MIN_LG_K and one doubling  *)
(* above the nominal, a count the table can hold (theta_update_sketch_base).*)
THEOREM TypeCorrect == Spec => []TypeOK
<1>1. IInv => TypeOK
  <2> SUFFICES ASSUME IInv PROVE TypeOK
    OBVIOUS
  <2>1. /\ Good(table) /\ table.lgNom = LgNom /\ MinLgK <= table.lgCur
        /\ table.theta \in 1 .. StartTheta /\ offered \in SUBSET Offers
        /\ SlotKeys(table.entries) \in SUBSET Offers
    BY DEF IInv
  <2>3. table.isEmpty \in BOOLEAN /\ Sound(table.entries, table.lgCur)
    BY <2>1 DEF Good
  <2>4. table.exited \in BOOLEAN
    BY <2>1, GoodRuns
  <2>5. table.lgCur \in MinLgK .. LgNom + 1
    BY <2>1, Room, Constants
  <2>6. table.num \in 0 .. Pow2(table.lgCur)
    <3>1. Pow2(table.lgCur) \in Nat
      BY Room, Pow2Type
    <3> QED
      BY <3>1, Room
  <2>7. table.entries \in [Slots(table.lgCur) -> 0 .. MaxHash]
    <3>1. PICK e, D : e = table.entries /\ D = Slots(table.lgCur)
      OBVIOUS
    <3>2. e \in [D -> Nat] /\ SlotKeys(e) \in SUBSET (0 .. MaxHash)
      BY <2>1, <2>3, <3>1, Constants DEF Sound
    <3>3. 0 \in 0 .. MaxHash
      BY Constants
    <3>4. \A i \in D : e[i] \in 0 .. MaxHash
      BY <3>2, <3>3 DEF SlotKeys
    <3> QED
      BY <3>1, <3>2, <3>4
  <2> QED
    BY <2>1, <2>3, <2>4, <2>5, <2>6, <2>7 DEF TypeOK
<1> QED
  BY <1>1, Invariance, PTL

(* "key not found and no empty slots!" is never thrown, whatever hash the  *)
(* table is searched for next (find).                                      *)
THEOREM FindEndsAlways == Spec => []FindAlwaysEnds
<1>1. IInv => FindAlwaysEnds
  <2> SUFFICES ASSUME IInv PROVE FindAlwaysEnds
    OBVIOUS
  <2>1. Good(table)
    BY DEF IInv
  <2>3. /\ Sound(table.entries, table.lgCur) /\ table.lgCur \in Nat
        /\ Cardinality(SlotKeys(table.entries)) < Pow2(table.lgCur)
    BY <2>1, Room DEF Good
  <2>4. ~table.exited
    BY <2>1, GoodRuns
  <2>5. ASSUME NEW h \in Offers \ {0}
        PROVE  Find(table.entries, table.lgCur, h) # NoSlot
    <3>1. h \in Nat \ {0}
      BY Constants
    <3> QED
      BY <2>3, <3>1, FindKey
  <2> QED
    BY <2>4, <2>5 DEF FindAlwaysEnds
<1> QED
  BY <1>1, Invariance, PTL

(* No insertion, rehash or rebuild hides a key from find() or stores one   *)
(* twice, and num_entries_ counts the slots in use (insert, resize,        *)
(* rebuild).                                                               *)
THEOREM KeysFindable == Spec => []EveryKeyFindable
<1>1. IInv => EveryKeyFindable
  <2> SUFFICES ASSUME IInv PROVE EveryKeyFindable
    OBVIOUS
  <2>0. PICK e, lg : e = table.entries /\ lg = table.lgCur
    OBVIOUS
  <2>1. lg \in Nat /\ Sound(e, lg) /\ table.num = Cardinality(SlotKeys(e))
    BY <2>0 DEF IInv, Good
  <2>2. DOMAIN e = Slots(lg)
    BY <2>1 DEF Sound
  <2>3. \A i \in DOMAIN e : e[i] # 0 => Find(e, lg, e[i]) = i
    BY <2>1, <2>2, StoredFound
  <2>4. table.num = Cardinality({i \in DOMAIN e : e[i] # 0})
    <3>1. Occupied(e, lg) = {i \in DOMAIN e : e[i] # 0}
      BY <2>2 DEF Occupied
    <3>2. Cardinality(SlotKeys(e)) = Cardinality(Occupied(e, lg))
      BY <2>1, SoundCounts
    <3> QED
      BY <2>1, <3>1, <3>2
  <2> QED
    BY <2>0, <2>3, <2>4 DEF EveryKeyFindable
<1> QED
  BY <1>1, Invariance, PTL

-----------------------------------------------------------------------------
(* The operators of UpdateSketch, as TableSketch instantiates it, are      *)
(* those of the theorems about tables.                                     *)
LEMMA SameOperators ==
  /\ \A cur, nom, factor, theta, isEmpty :
       KeyLevel!NewTable(cur, nom, factor, theta, isEmpty) =
         NewTable(cur, nom, factor, theta, isEmpty)
  /\ \A t, h : KeyLevel!Offer(t, h) = Offer(t, h)
  /\ \A t : KeyLevel!Trim(t) = Trim(t)
<1>1. \A S, n : KeyLevel!NthElement(S, n) = NthElement(S, n)
  BY DEF KeyLevel!NthElement, KeyLevel!Below, NthElement, Below,
         KeyLevel!Cardinality, Cardinality
<1>2. \A t : KeyLevel!Rebuild(t) = Rebuild(t)
  BY <1>1 DEF KeyLevel!Rebuild, Rebuild, KeyLevel!Below, Below
<1>3. \A t : KeyLevel!Resize(t) = Resize(t)
  BY DEF KeyLevel!Resize, Resize
<1>4. \A cur, nom : KeyLevel!Capacity(cur, nom) = Capacity(cur, nom)
  BY DEF KeyLevel!Capacity, Capacity
<1>5. \A t, h : KeyLevel!Insert(t, h) = Insert(t, h)
  BY <1>2, <1>3, <1>4 DEF KeyLevel!Insert, Insert
<1>6. \A t : KeyLevel!Unempty(t) = Unempty(t)
  BY DEF KeyLevel!Unempty, Unempty
<1>7. \A t, h : KeyLevel!Passes(t, h) = Passes(t, h)
  BY DEF KeyLevel!Passes, Passes
<1>8. \A t, h : KeyLevel!Offer(t, h) = Offer(t, h)
  BY <1>5, <1>6, <1>7 DEF KeyLevel!Offer, Offer
<1>9. \A t : KeyLevel!Trim(t) = Trim(t)
  BY <1>2 DEF KeyLevel!Trim, Trim
<1>10. \A cur, nom, factor, theta, isEmpty :
         KeyLevel!NewTable(cur, nom, factor, theta, isEmpty) =
           NewTable(cur, nom, factor, theta, isEmpty)
  BY DEF KeyLevel!NewTable, NewTable
<1> QED
  BY <1>8, <1>9, <1>10

(* Probing, growing by rehash and thinning through nth_element do to the   *)
(* keys exactly what UpdateSketch says, for every size, factor and order   *)
(* of the rehashes: the slot table implements the key-level sketch.        *)
THEOREM Refinement == Spec => ImplementsUpdateSketch
<1>1. Init => KeyLevel!Init
  <2> SUFFICES ASSUME Init PROVE KeyLevel!Init
    OBVIOUS
  <2>1. table = SlotTable(TRUE, StartLg, LgNom, Rf, 0, StartTheta, AllEmpty(StartLg))
    BY DEF Init, NewSlots, SlotTable
  <2>2. KeyView(table) =
          KeyLevel!NewTable(Pow2(StartLg), Pow2(LgNom), Pow2(Rf), StartTheta, TRUE)
    BY <2>1, ClearIInv, SameOperators
  <2> QED
    BY <2>2 DEF Init, KeyLevel!Init, KeyView
<1>2. IInv /\ [Next]_vars => [KeyLevel!Next]_(KeyLevel!vars)
  <2> SUFFICES ASSUME IInv, [Next]_vars PROVE [KeyLevel!Next]_(KeyLevel!vars)
    OBVIOUS
  <2>1. CASE vars' = vars
    BY <2>1 DEF vars, KeyLevel!vars
  <2>2. ASSUME NEW h \in Offers, KeyView(table') = Offer(KeyView(table), h),
               offered' = offered \cup {h}
        PROVE  KeyLevel!Next
    <3>1. KeyView(table') = KeyLevel!Offer(KeyView(table), h)
      BY <2>2, SameOperators
    <3>2. KeyLevel!UpdateByHash(h)
      BY <2>2, <3>1 DEF KeyLevel!UpdateByHash, KeyView
    <3> QED
      BY <3>2 DEF KeyLevel!Next
  <2>3. ASSUME KeyView(table') = Trim(KeyView(table)), offered' = offered
        PROVE  KeyLevel!Next
    <3>1. KeyView(table') = KeyLevel!Trim(KeyView(table))
      BY <2>3, SameOperators
    <3>2. KeyLevel!TrimSketch
      BY <2>3, <3>1 DEF KeyLevel!TrimSketch, KeyView
    <3> QED
      BY <3>2 DEF KeyLevel!Next
  <2>4. ASSUME KeyView(table') = NewTable(Pow2(StartLg), KeyView(table).nom,
                                          KeyView(table).factor, StartTheta, TRUE),
               offered' = {}
        PROVE  KeyLevel!Next
    <3>1. KeyView(table') = KeyLevel!NewTable(Pow2(StartLg), KeyView(table).nom,
                                              KeyView(table).factor, StartTheta, TRUE)
      BY <2>4, SameOperators
    <3>2. KeyLevel!ResetSketch
      BY <2>4, <3>1 DEF KeyLevel!ResetSketch, KeyView
    <3> QED
      BY <3>2 DEF KeyLevel!Next
  <2> QED
    BY <2>1, <2>2, <2>3, <2>4, StepOf
<1> QED
  BY <1>1, <1>2, Invariance, PTL DEF Spec, ImplementsUpdateSketch, KeyLevel!Spec

=============================================================================
