---------------------------- MODULE ThetaLemmas ----------------------------
(***************************************************************************)
(* What the components that own a table or read a sketch share: lemmas     *)
(* about operators, for tables of every size and sketches of every length. *)
(*   - what the table operations preserve (ThetaTable);                    *)
(*   - the table-size arithmetic of ThetaHelpers, and the ways a loop goes *)
(*     over the entries of a sketch (CompactSketch);                       *)
(*   - open addressing (HashSlots): an odd stride visits every slot of a   *)
(*     table whose size is a power of two, so find() ends as long as one   *)
(*     slot is free, and a key put where find() says stays where find()    *)
(*     will look for it, whatever is put in later;                         *)
(*   - the difference of two sketches (SetDifference), and the table an    *)
(*     intersection fills (SetTables).                                     *)
(* Powers of two, logarithms and loops are defined by recursion or by      *)
(* choice; the proofs replace induction by the least element of a set of   *)
(* naturals (Least).                                                       *)
(***************************************************************************)
EXTENDS SetTables, SetDifference, FiniteSetTheorems, FunctionTheorems,
        SequenceTheorems, TLAPS

(* A set of hashes below p loses nothing but what is not below p, and has  *)
(* fewer elements than the set when p is one of them.                      *)
LEMMA BelowFinite ==
  ASSUME NEW S \in SUBSET Nat, IsFiniteSet(S), NEW p \in Nat
  PROVE  /\ Below(S, p) \in SUBSET S
         /\ IsFiniteSet(Below(S, p))
         /\ Cardinality(Below(S, p)) \in Nat
         /\ Cardinality(Below(S, p)) <= Cardinality(S)
         /\ p \in S => Cardinality(Below(S, p)) < Cardinality(S)
<1>1. Below(S, p) \in SUBSET S
  BY DEF Below
<1>2. IsFiniteSet(Below(S, p)) /\ Cardinality(Below(S, p)) <= Cardinality(S)
  BY <1>1, FS_Subset
<1>3. Cardinality(Below(S, p)) \in Nat /\ Cardinality(S) \in Nat
  BY <1>2, FS_CardinalityType
<1>4. ASSUME p \in S PROVE Cardinality(Below(S, p)) # Cardinality(S)
  <2>1. p \notin Below(S, p)
    BY DEF Below
  <2>2. Below(S, p) # S
    BY <1>4, <2>1
  <2> QED
    BY <1>1, <2>2, FS_Subset
<1> QED
  BY <1>1, <1>2, <1>3, <1>4

(* The rank of a key among the retained keys grows strictly with the key,  *)
(* so two keys never have the same rank.                                   *)
LEMMA RankStrict ==
  ASSUME NEW S \in SUBSET Nat, IsFiniteSet(S),
         NEW x \in S, NEW y \in S, x < y
  PROVE  Cardinality(Below(S, x)) < Cardinality(Below(S, y))
<1>1. Below(S, x) \in SUBSET Below(S, y)
  <2>1. ASSUME NEW h \in S, h < x PROVE h < y
    <3>1. h \in Nat /\ x \in Nat /\ y \in Nat
      OBVIOUS
    <3> QED
      BY <2>1, <3>1
  <2> QED
    BY <2>1 DEF Below
<1>2. x \in Below(S, y) /\ x \notin Below(S, x)
  BY DEF Below
<1>3. IsFiniteSet(Below(S, x)) /\ IsFiniteSet(Below(S, y))
  BY BelowFinite
<1>4. Cardinality(Below(S, x)) \in Nat /\ Cardinality(Below(S, y)) \in Nat
  BY BelowFinite
<1>5. Cardinality(Below(S, x)) <= Cardinality(Below(S, y))
  BY <1>1, <1>3, FS_Subset
<1>6. Cardinality(Below(S, x)) # Cardinality(Below(S, y))
  BY <1>1, <1>2, <1>3, FS_Subset
<1> QED
  BY <1>4, <1>5, <1>6

(* nth_element finds its element: some key has exactly n smaller ones      *)
(* whenever there are more than n keys.                                    *)
LEMMA NthElementExists ==
  ASSUME NEW S \in SUBSET Nat, IsFiniteSet(S),
         NEW n \in Nat, n < Cardinality(S)
  PROVE  \E p \in S : Cardinality(Below(S, p)) = n
<1> DEFINE rank == [p \in S |-> Cardinality(Below(S, p))]
           ranks == 0 .. Cardinality(S) - 1
<1>1. Cardinality(S) \in Nat
  BY FS_CardinalityType
<1>2. rank \in [S -> ranks]
  <2>1. ASSUME NEW p \in S PROVE Cardinality(Below(S, p)) \in ranks
    <3>1. p \in Nat
      OBVIOUS
    <3> QED
      BY <1>1, <3>1, BelowFinite
  <2> QED
    BY <2>1
<1>3. ASSUME NEW x \in S, NEW y \in S, x # y PROVE rank[x] # rank[y]
  <2>1. x \in Nat /\ y \in Nat
    OBVIOUS
  <2>2. rank[x] = Cardinality(Below(S, x)) /\ rank[y] = Cardinality(Below(S, y))
    OBVIOUS
  <2>3. rank[x] \in Nat /\ rank[y] \in Nat
    BY <2>1, <2>2, BelowFinite
  <2>4. CASE x < y
    BY <2>2, <2>3, <2>4, RankStrict
  <2>5. CASE y < x
    BY <2>2, <2>3, <2>5, RankStrict
  <2> QED
    BY <1>3, <2>1, <2>4, <2>5
<1>4. rank \in Injection(S, ranks)
  <2> HIDE DEF rank, ranks
  <2> QED
    BY <1>2, <1>3, Zenon DEF Injection, IsInjective
<1>5. IsFiniteSet(ranks) /\ Cardinality(ranks) = Cardinality(S)
  <2>1. 0 \in Int /\ Cardinality(S) - 1 \in Int
    BY <1>1
  <2> QED
    BY <1>1, <2>1, FS_Interval
<1>6. rank \in Surjection(S, ranks)
  <2> HIDE DEF rank, ranks
  <2> QED
    BY <1>4, <1>5, FS_Injection
<1>7. n \in ranks
  BY <1>1
<1>8. PICK p \in S : rank[p] = n
  BY <1>6, <1>7 DEF Surjection
<1> QED
  BY <1>8

(* ... and NthElement is that key, the only one with n smaller keys.       *)
LEMMA NthElementRank ==
  ASSUME NEW S \in SUBSET Nat, IsFiniteSet(S),
         NEW n \in Nat, n < Cardinality(S)
  PROVE  /\ NthElement(S, n) \in S
         /\ Cardinality(Below(S, NthElement(S, n))) = n
         /\ \A p \in S : Cardinality(Below(S, p)) = n => p = NthElement(S, n)
<1>1. \E p \in S : Cardinality(Below(S, p)) = n
  BY NthElementExists
<1>2. /\ NthElement(S, n) \in S
      /\ Cardinality(Below(S, NthElement(S, n))) = n
  BY <1>1 DEF NthElement
<1>3. ASSUME NEW p \in S, Cardinality(Below(S, p)) = n
      PROVE  p = NthElement(S, n)
  <2>1. p \in Nat /\ NthElement(S, n) \in Nat
    BY <1>2
  <2>2. ~(p < NthElement(S, n))
    BY <1>2, <1>3, <2>1, RankStrict
  <2>3. ~(NthElement(S, n) < p)
    BY <1>2, <1>3, <2>1, RankStrict
  <2> QED
    BY <2>1, <2>2, <2>3
<1> QED
  BY <1>2, <1>3

(* Thinning a table that holds more than the nominal number of keys: it    *)
(* keeps exactly the keys below the new theta, nominal many of them.       *)
LEMMA RebuildPreserves ==
  ASSUME NEW sizes, NEW t,
         t \in Tables(sizes),
         SizesOK(sizes, t.nom, t.factor), t.cur = 2 * t.nom,
         IsFiniteSet(t.entries), t.nom < Cardinality(t.entries),
         \A h \in t.entries : 0 < h /\ h < t.theta
  PROVE  /\ TableOK(Rebuild(t), sizes)
         /\ Rebuild(t).theta \in t.entries
         /\ Rebuild(t).theta < t.theta
         /\ Rebuild(t).entries = Below(t.entries, Rebuild(t).theta)
         /\ Cardinality(Rebuild(t).entries) = t.nom
         /\ Rebuild(t).nom = t.nom /\ Rebuild(t).factor = t.factor
         /\ Rebuild(t).cur = t.cur /\ Rebuild(t).isEmpty = t.isEmpty
<1> DEFINE p == NthElement(t.entries, t.nom)
<1>0. /\ t.entries \in SUBSET Nat /\ t.nom \in Nat \ {0} /\ t.theta \in Nat
      /\ t.cur \in sizes
  BY DEF Tables
<1>1. p \in t.entries /\ Cardinality(Below(t.entries, p)) = t.nom
  BY <1>0, NthElementRank
<1>2. /\ Rebuild(t).theta = p /\ Rebuild(t).entries = Below(t.entries, p)
      /\ Rebuild(t).num = t.nom /\ Rebuild(t).nom = t.nom
      /\ Rebuild(t).factor = t.factor /\ Rebuild(t).cur = t.cur
      /\ Rebuild(t).isEmpty = t.isEmpty
  BY DEF Rebuild, Tables
<1>3. p \in Nat /\ p < t.theta
  BY <1>0, <1>1
<1>4. IsFiniteSet(Below(t.entries, p)) /\ Below(t.entries, p) \in SUBSET t.entries
  BY <1>0, <1>3, BelowFinite
<1>5. t.nom <= Capacity(t.cur, t.nom)
  BY <1>0 DEF Capacity
<1>6. \A h \in Below(t.entries, p) : 0 < h /\ h < p
  BY DEF Below
<1>7. Rebuild(t) \in Tables(sizes)
  <2> HIDE DEF p
  <2>1. Rebuild(t) = [t EXCEPT !.theta = p, !.entries = Below(t.entries, p),
                               !.num = t.nom]
    BY DEF Rebuild, p
  <2> QED
    BY <1>3, <1>4, <2>1 DEF Tables
<1>8. TableOK(Rebuild(t), sizes)
  <2> HIDE DEF p
  <2> QED
    BY <1>0, <1>1, <1>2, <1>4, <1>5, <1>6, <1>7 DEF TableOK
<1> QED
  BY <1>1, <1>2, <1>3, <1>8

(* Growing a full table makes room for the key just placed. *)
LEMMA ResizePreserves ==
  ASSUME NEW sizes, NEW t,
         t \in Tables(sizes),
         SizesOK(sizes, t.nom, t.factor),
         t.cur <= t.nom, t.factor >= 2,
         IsFiniteSet(t.entries), t.num = Cardinality(t.entries),
         t.num <= Capacity(t.cur, t.nom) + 1,
         \A h \in t.entries : 0 < h /\ h < t.theta
  PROVE  /\ TableOK(Resize(t), sizes)
         /\ Resize(t).theta = t.theta /\ Resize(t).entries = t.entries
         /\ Resize(t).num = t.num
         /\ Resize(t).nom = t.nom /\ Resize(t).factor = t.factor
         /\ Resize(t).isEmpty = t.isEmpty
<1> DEFINE c == Resize(t).cur
<1>1. /\ Resize(t).theta = t.theta /\ Resize(t).entries = t.entries
      /\ Resize(t).num = t.num
      /\ Resize(t).nom = t.nom /\ Resize(t).factor = t.factor
      /\ Resize(t).isEmpty = t.isEmpty
  BY DEF Resize, Tables
<1>2. c = IF t.cur * t.factor <= 2 * t.nom THEN t.cur * t.factor ELSE 2 * t.nom
  BY DEF Resize, Tables
<1>3. /\ t.cur \in Nat /\ 2 <= t.cur /\ t.nom \in Nat /\ t.factor \in Nat
      /\ t.cur \in sizes /\ t.num \in Nat
  <2>1. t.cur \in sizes /\ t.nom \in Nat /\ t.factor \in Nat /\ t.num \in Nat
    BY DEF Tables
  <2>2. \A s \in sizes : s \in 2 .. 2 * t.nom
    BY DEF SizesOK
  <2> QED
    BY <2>1, <2>2
<1>4. t.cur * t.factor \in Nat /\ 2 * t.cur <= t.cur * t.factor
  BY <1>3
<1>5. c \in sizes /\ (2 * t.cur <= c \/ c = 2 * t.nom)
  <2> HIDE DEF c
  <2>1. 2 * t.nom \in sizes
    BY DEF SizesOK
  <2>2. t.cur * t.factor \in sizes \/ t.cur * t.factor > 2 * t.nom
    BY <1>3 DEF SizesOK
  <2> QED
    BY <1>2, <1>3, <1>4, <2>1, <2>2
<1>6. c <= t.nom \/ c = 2 * t.nom
  BY <1>5 DEF SizesOK
<1>7. t.num <= Capacity(c, t.nom)
  <2> HIDE DEF c
  <2>1. c \in Nat
    BY <1>5 DEF SizesOK
  <2>2. t.num <= (t.cur \div 2) + 1
    BY DEF Capacity
  <2>3. CASE c = 2 * t.nom
    <3>1. Capacity(c, t.nom) = (15 * c) \div 16
      BY <1>3, <2>3 DEF Capacity
    <3> QED
      BY <1>3, <2>1, <2>2, <2>3, <3>1
  <2>4. CASE c <= t.nom /\ 2 * t.cur <= c
    <3>1. Capacity(c, t.nom) = c \div 2
      BY <2>4 DEF Capacity
    <3> QED
      BY <1>3, <2>1, <2>2, <2>4, <3>1
  <2> QED
    BY <1>5, <1>6, <2>3, <2>4
<1>8. Resize(t) \in Tables(sizes)
  <2>1. Resize(t) = [t EXCEPT !.cur = c]
    BY DEF Resize
  <2> HIDE DEF c
  <2> QED
    BY <1>5, <2>1 DEF Tables
<1>9. TableOK(Resize(t), sizes)
  BY <1>1, <1>7, <1>8 DEF TableOK
<1> QED
  BY <1>1, <1>9

(* insert(): the table stays well formed, theta moves only down, only onto *)
(* a key of the table, and only leaving nominal keys below it, and exactly *)
(* the keys below theta stay.                                              *)
LEMMA InsertPreserves ==
  ASSUME NEW sizes, NEW t, TableOK(t, sizes),
         NEW h \in Nat, 0 < h, h < t.theta, h \notin t.entries
  PROVE  /\ TableOK(Insert(t, h), sizes)
         /\ Insert(t, h).theta <= t.theta
         /\ Insert(t, h).entries = Below(t.entries \cup {h}, Insert(t, h).theta)
         /\ Insert(t, h).theta # t.theta =>
               /\ Insert(t, h).theta \in t.entries \cup {h}
               /\ Cardinality(Insert(t, h).entries) = t.nom
         /\ Insert(t, h).nom = t.nom /\ Insert(t, h).factor = t.factor
         /\ Insert(t, h).isEmpty = t.isEmpty
<1> DEFINE S == t.entries \cup {h}
           u == [t EXCEPT !.entries = S, !.num = t.num + 1]
<1>1. /\ u.entries = S /\ u.num = t.num + 1 /\ u.cur = t.cur /\ u.nom = t.nom
      /\ u.factor = t.factor /\ u.theta = t.theta /\ u.isEmpty = t.isEmpty
      /\ u \in Tables(sizes)
  <2>1. t \in Tables(sizes)
    BY DEF TableOK
  <2>2. S \in SUBSET Nat /\ t.num + 1 \in Nat
    BY <2>1 DEF Tables
  <2> HIDE DEF S
  <2> QED
    BY <2>1, <2>2 DEF Tables
<1>2. IsFiniteSet(S) /\ u.num = Cardinality(S)
  BY <1>1, FS_AddElement DEF TableOK
<1>3. \A x \in S : 0 < x /\ x < t.theta
  BY DEF TableOK
<1>4. S = Below(S, t.theta)
  BY <1>3 DEF Below
<1>5. /\ SizesOK(sizes, t.nom, t.factor) /\ (t.cur <= t.nom => t.factor >= 2)
      /\ t.num <= Capacity(t.cur, t.nom) /\ t.cur \in sizes /\ t.nom \in Nat \ {0}
      /\ t.cur \in Nat /\ t.num \in Nat /\ t.theta \in Nat
  <2>1. /\ t.cur \in sizes /\ t.nom \in Nat \ {0} /\ t.num \in Nat
        /\ t.theta \in Nat
    BY DEF TableOK, Tables
  <2>2. \A s \in sizes : s \in 2 .. 2 * t.nom
    BY DEF TableOK, SizesOK
  <2> QED
    BY <2>1, <2>2 DEF TableOK
<1>6. Insert(t, h) = IF u.num <= Capacity(u.cur, u.nom) THEN u
                     ELSE IF u.cur <= u.nom THEN Resize(u) ELSE Rebuild(u)
  BY DEF Insert
<1> HIDE DEF u, S
<1>7. CASE u.num <= Capacity(u.cur, u.nom)
  <2>1. Insert(t, h) = u
    BY <1>6, <1>7
  <2>2. TableOK(u, sizes)
    BY <1>1, <1>2, <1>3, <1>5, <1>7 DEF TableOK
  <2> QED
    BY <1>1, <1>4, <1>5, <2>1, <2>2 DEF S
<1>8. CASE ~(u.num <= Capacity(u.cur, u.nom)) /\ u.cur <= u.nom
  <2>1. Insert(t, h) = Resize(u)
    BY <1>6, <1>8
  <2>2. u.num <= Capacity(u.cur, u.nom) + 1
    BY <1>1, <1>5 DEF Capacity
  <2>3. /\ TableOK(Resize(u), sizes)
        /\ Resize(u).theta = u.theta /\ Resize(u).entries = u.entries
        /\ Resize(u).num = u.num
        /\ Resize(u).nom = u.nom /\ Resize(u).factor = u.factor
        /\ Resize(u).isEmpty = u.isEmpty
    BY <1>1, <1>2, <1>3, <1>5, <1>8, <2>2, ResizePreserves
  <2>4. /\ Insert(t, h).theta = t.theta /\ Insert(t, h).entries = S
        /\ Insert(t, h).nom = t.nom /\ Insert(t, h).factor = t.factor
        /\ Insert(t, h).isEmpty = t.isEmpty /\ TableOK(Insert(t, h), sizes)
    BY <1>1, <2>1, <2>3
  <2>5. Insert(t, h).entries = Below(S, Insert(t, h).theta)
    BY <1>4, <2>4
  <2> QED
    BY <1>5, <2>4, <2>5 DEF S
<1>9. CASE ~(u.num <= Capacity(u.cur, u.nom)) /\ ~(u.cur <= u.nom)
  <2>1. Insert(t, h) = Rebuild(u)
    BY <1>6, <1>9
  <2>2. u.cur = 2 * u.nom
    BY <1>1, <1>5, <1>9 DEF SizesOK
  <2>3. u.nom < Cardinality(u.entries)
    BY <1>1, <1>2, <1>5, <1>9, <2>2 DEF Capacity
  <2>4. /\ TableOK(Rebuild(u), sizes)
        /\ Rebuild(u).theta \in u.entries
        /\ Rebuild(u).theta < u.theta
        /\ Rebuild(u).entries = Below(u.entries, Rebuild(u).theta)
        /\ Cardinality(Rebuild(u).entries) = u.nom
        /\ Rebuild(u).nom = u.nom /\ Rebuild(u).factor = u.factor
        /\ Rebuild(u).isEmpty = u.isEmpty
    BY <1>1, <1>2, <1>3, <1>5, <2>2, <2>3, RebuildPreserves
  <2>5. Rebuild(u).theta \in Nat
    BY <2>4 DEF TableOK, Tables
  <2> QED
    BY <1>1, <1>5, <2>1, <2>4, <2>5 DEF S
<1> QED
  BY <1>7, <1>8, <1>9

(* Two sets that agree below p agree below every smaller theta. *)
LEMMA BelowNarrow ==
  ASSUME NEW S \in SUBSET Nat, NEW Q \in SUBSET Nat, NEW p \in Nat, NEW q \in Nat,
         q <= p, Below(S, p) = Below(Q, p)
  PROVE  Below(S, q) = Below(Q, q)
<1>1. \A h \in Nat : h < q => h < p
  OBVIOUS
<1> QED
  BY <1>1 DEF Below

(* The smaller of two thetas is one of them and at most both. *)
LEMMA MinOfBounds ==
  ASSUME NEW x \in Nat, NEW y \in Nat
  PROVE  /\ MinOf(x, y) \in {x, y} /\ MinOf(x, y) \in Nat
         /\ MinOf(x, y) <= x /\ MinOf(x, y) <= y
BY DEF MinOf

(* screen() leaves all but the empty flag alone. *)
LEMMA UnemptyPreserves ==
  ASSUME NEW sizes, NEW t, TableOK(t, sizes)
  PROVE  /\ TableOK(Unempty(t), sizes)
         /\ Unempty(t).isEmpty = FALSE
         /\ Unempty(t).entries = t.entries /\ Unempty(t).theta = t.theta
         /\ Unempty(t).nom = t.nom /\ Unempty(t).factor = t.factor
<1>1. t \in Tables(sizes)
  BY DEF TableOK
<1>2. /\ Unempty(t).entries = t.entries /\ Unempty(t).num = t.num
      /\ Unempty(t).cur = t.cur /\ Unempty(t).nom = t.nom
      /\ Unempty(t).factor = t.factor /\ Unempty(t).theta = t.theta
      /\ Unempty(t).isEmpty = FALSE /\ Unempty(t) \in Tables(sizes)
  BY <1>1 DEF Unempty, Tables
<1> QED
  BY <1>2 DEF TableOK

(* What an operation that offers the keys N may do to a table: theta moves *)
(* only down, onto a key and leaving nominal keys, and exactly the keys    *)
(* below theta are held.                                                   *)
Absorbs(t, u, N) ==
  /\ u.theta <= t.theta
  /\ u.entries = Below(t.entries \cup N, u.theta)
  /\ u.theta # t.theta =>
        /\ u.theta \in t.entries \cup N
        /\ Cardinality(u.entries) = t.nom
  /\ u.nom = t.nom /\ u.factor = t.factor

(* update() / update_by_hash(): whatever the hash, the table stays well    *)
(* formed and has absorbed it; only 0 is never a key.                      *)
LEMMA OfferPreserves ==
  ASSUME NEW sizes, NEW t, TableOK(t, sizes), NEW h \in Nat
  PROVE  /\ TableOK(Offer(t, h), sizes)
         /\ Absorbs(t, Offer(t, h), {h} \ {0})
         /\ Offer(t, h).isEmpty = FALSE
<1> DEFINE u == Unempty(t)
<1>1. t \in Tables(sizes)
  BY DEF TableOK
<1>2. /\ u.entries = t.entries /\ u.num = t.num /\ u.cur = t.cur
      /\ u.nom = t.nom /\ u.factor = t.factor /\ u.theta = t.theta
      /\ u.isEmpty = FALSE /\ u \in Tables(sizes)
  BY <1>1 DEF Unempty, Tables
<1>3. t.theta \in Nat /\ \A x \in t.entries : x \in Nat /\ 0 < x /\ x < t.theta
  BY <1>1 DEF TableOK, Tables
<1>4. Offer(t, h) = IF Passes(u, h) /\ h \notin u.entries THEN Insert(u, h) ELSE u
  BY DEF Offer
<1> HIDE DEF u
<1>5. TableOK(u, sizes)
  BY <1>2 DEF TableOK
<1>6. CASE Passes(u, h) /\ h \notin u.entries
  <2>1. 0 < h /\ h < u.theta
    BY <1>6 DEF Passes
  <2>2. /\ TableOK(Insert(u, h), sizes)
        /\ Insert(u, h).theta <= u.theta
        /\ Insert(u, h).entries = Below(u.entries \cup {h}, Insert(u, h).theta)
        /\ Insert(u, h).theta # u.theta =>
              /\ Insert(u, h).theta \in u.entries \cup {h}
              /\ Cardinality(Insert(u, h).entries) = u.nom
        /\ Insert(u, h).nom = u.nom /\ Insert(u, h).factor = u.factor
        /\ Insert(u, h).isEmpty = u.isEmpty
    BY <1>5, <1>6, <2>1, InsertPreserves
  <2>3. {h} \ {0} = {h}
    BY <2>1
  <2> QED
    BY <1>2, <1>4, <1>6, <2>2, <2>3 DEF Absorbs
<1>7. CASE ~(Passes(u, h) /\ h \notin u.entries)
  <2>1. Offer(t, h) = u
    BY <1>4, <1>7
  <2>2. h = 0 \/ ~(h < t.theta) \/ h \in t.entries
    BY <1>2, <1>7 DEF Passes
  <2>3. t.entries = Below(t.entries \cup ({h} \ {0}), t.theta)
    BY <1>3, <2>2 DEF Below
  <2> QED
    BY <1>2, <1>3, <1>5, <2>1, <2>3 DEF Absorbs
<1> QED
  BY <1>6, <1>7

(* trim() thins the table to nominal keys, or leaves it alone. *)
LEMMA TrimPreserves ==
  ASSUME NEW sizes, NEW t, TableOK(t, sizes)
  PROVE  /\ TableOK(Trim(t), sizes)
         /\ Absorbs(t, Trim(t), {})
         /\ Trim(t).isEmpty = t.isEmpty
         /\ Trim(t).num <= t.nom
<1>1. t \in Tables(sizes)
  BY DEF TableOK
<1>2. /\ t.theta \in Nat /\ \A x \in t.entries : x \in Nat /\ 0 < x /\ x < t.theta
      /\ t.cur \in sizes /\ t.nom \in Nat \ {0} /\ t.num \in Nat
  BY <1>1 DEF TableOK, Tables
<1>3. CASE t.num > t.nom
  <2>1. Trim(t) = Rebuild(t)
    BY <1>3 DEF Trim
  <2>2. t.cur = 2 * t.nom
    <3>1. t.cur \in Nat /\ (t.cur <= t.nom \/ t.cur = 2 * t.nom)
      <4>1. \A s \in sizes : s \in 2 .. 2 * t.nom
        BY DEF TableOK, SizesOK
      <4> QED
        BY <1>2, <4>1 DEF TableOK, SizesOK
    <3>2. t.num <= Capacity(t.cur, t.nom)
      BY DEF TableOK
    <3>3. t.cur <= t.nom => Capacity(t.cur, t.nom) <= t.nom
      BY <1>2, <3>1 DEF Capacity
    <3>4. t.cur <= t.nom => Capacity(t.cur, t.nom) \in Nat
      BY <1>2, <3>1 DEF Capacity
    <3> QED
      BY <1>2, <1>3, <3>1, <3>2, <3>3, <3>4
  <2>3. /\ SizesOK(sizes, t.nom, t.factor) /\ IsFiniteSet(t.entries)
        /\ t.nom < Cardinality(t.entries)
        /\ \A h \in t.entries : 0 < h /\ h < t.theta
    BY <1>2, <1>3 DEF TableOK
  <2>4. /\ TableOK(Rebuild(t), sizes)
        /\ Rebuild(t).theta \in t.entries
        /\ Rebuild(t).theta < t.theta
        /\ Rebuild(t).entries = Below(t.entries, Rebuild(t).theta)
        /\ Cardinality(Rebuild(t).entries) = t.nom
        /\ Rebuild(t).nom = t.nom /\ Rebuild(t).factor = t.factor
        /\ Rebuild(t).cur = t.cur /\ Rebuild(t).isEmpty = t.isEmpty
    BY <1>1, <2>2, <2>3, RebuildPreserves
  <2>5. t.entries \cup {} = t.entries
    OBVIOUS
  <2>6. Rebuild(t).num = t.nom
    BY <2>4 DEF TableOK
  <2> QED
    BY <1>2, <2>1, <2>4, <2>5, <2>6 DEF Absorbs
<1>4. CASE ~(t.num > t.nom)
  <2>1. Trim(t) = t
    BY <1>4 DEF Trim
  <2>2. t.entries = Below(t.entries \cup {}, t.theta)
    BY <1>2 DEF Below
  <2> QED
    BY <1>2, <1>4, <2>1, <2>2 DEF Absorbs
<1> QED
  BY <1>3, <1>4

(* A new table is well formed. *)
LEMMA NewTableOK ==
  ASSUME NEW sizes, NEW cur \in sizes, NEW nom \in Nat \ {0},
         NEW factor \in Nat \ {0}, NEW theta \in Nat, NEW isEmpty \in BOOLEAN,
         SizesOK(sizes, nom, factor), cur <= nom => factor >= 2
  PROVE  TableOK(NewTable(cur, nom, factor, theta, isEmpty), sizes)
<1> DEFINE t == NewTable(cur, nom, factor, theta, isEmpty)
<1>1. t \in Tables(sizes)
  BY DEF NewTable, Tables
<1>2. /\ t.cur = cur /\ t.nom = nom /\ t.factor = factor
      /\ t.num = 0 /\ t.entries = {}
  BY DEF NewTable
<1>3. cur \in 2 .. 2 * nom
  BY DEF SizesOK
<1>4. 0 <= Capacity(cur, nom)
  BY <1>3 DEF Capacity
<1> HIDE DEF t
<1>5. TableOK(t, sizes)
  BY <1>1, <1>2, <1>4, FS_EmptySet DEF TableOK
<1> QED
  BY <1>5 DEF t

-----------------------------------------------------------------------------
(* A set of naturals that is not empty has a least element. *)
LEMMA Least ==
  ASSUME NEW S \in SUBSET Nat, S # {}
  PROVE  \E m \in S : \A k \in S : m <= k
<1>1. PICK n \in S : n \in Nat
  OBVIOUS
<1> DEFINE B == S \cap 0 .. n
<1>2. B \in SUBSET Nat /\ n \in B
  BY <1>1
<1>3. IsFiniteSet(0 .. n)
  BY <1>1, FS_Interval
<1>4. IsFiniteSet(B)
  BY <1>3, FS_Subset
<1>5. Cardinality(B) \in Nat /\ 0 < Cardinality(B)
  <2>1. B # {}
    BY <1>2
  <2> HIDE DEF B
  <2>2. Cardinality(B) \in Nat
    BY <1>4, FS_CardinalityType
  <2>3. Cardinality(B) # 0
    BY <1>4, <2>1, FS_EmptySet
  <2> QED
    BY <2>2, <2>3
<1>6. PICK m \in B : Cardinality(Below(B, m)) = 0
  BY <1>2, <1>4, <1>5, NthElementExists
<1>7. IsFiniteSet(Below(B, m))
  BY <1>2, <1>4, BelowFinite
<1>8. Below(B, m) = {}
  BY <1>6, <1>7, FS_EmptySet
<1>9. ASSUME NEW k \in S PROVE m <= k
  <2>1. CASE k <= n
    <3>1. k \in B /\ k \notin Below(B, m)
      BY <2>1, <1>8
    <3>2. ~(k < m)
      BY <3>1 DEF Below
    <3> QED
      BY <3>2, <1>2
  <2>2. CASE ~(k <= n)
    BY <2>2, <1>1, <1>6
  <2> QED
    BY <2>1, <2>2
<1> QED
  BY <1>6, <1>9

-----------------------------------------------------------------------------
(* f holds the powers of two up to 2^m: what the recursion of Pow2 asks.   *)
Powers(f, m) == f = [l \in 0 .. m |-> IF l = 0 THEN 1 ELSE 2 * f[l - 1]]

(* One more power. *)
LEMMA PowersGrow ==
  ASSUME NEW m \in Nat, NEW f, Powers(f, m)
  PROVE  Powers([l \in 0 .. m + 1 |-> IF l <= m THEN f[l] ELSE 2 * f[m]], m + 1)
<1> DEFINE g == [l \in 0 .. m + 1 |-> IF l <= m THEN f[l] ELSE 2 * f[m]]
           h == [l \in 0 .. m + 1 |-> IF l = 0 THEN 1 ELSE 2 * g[l - 1]]
<1>1. \A l \in 0 .. m : f[l] = IF l = 0 THEN 1 ELSE 2 * f[l - 1]
  BY DEF Powers
<1>2. ASSUME NEW l \in 0 .. m + 1 PROVE g[l] = h[l]
  <2>1. CASE l = 0
    BY <2>1, <1>1
  <2>2. CASE l # 0 /\ l <= m
    <3>1. l \in 0 .. m /\ l - 1 \in 0 .. m + 1 /\ l - 1 <= m
      BY <2>2
    <3>2. g[l] = f[l] /\ g[l - 1] = f[l - 1] /\ h[l] = 2 * g[l - 1]
      BY <2>2, <3>1
    <3> QED
      BY <3>1, <3>2, <1>1, <2>2
  <2>3. CASE ~(l <= m)
    <3>1. l = m + 1 /\ l - 1 = m /\ l # 0 /\ m \in 0 .. m + 1
      BY <2>3
    <3>2. g[l] = 2 * f[m] /\ g[m] = f[m] /\ h[l] = 2 * g[l - 1]
      BY <2>3, <3>1
    <3> QED
      BY <3>1, <3>2
  <2> QED
    BY <2>1, <2>2, <2>3
<1>3. g = h
  BY <1>2
<1> HIDE DEF g
<1> QED
  BY <1>3 DEF Powers, g

(* The recursion of Pow2 has a solution, whatever its bound. *)
LEMMA PowersExist ==
  ASSUME NEW m \in Nat
  PROVE  \E f : Powers(f, m)
<1> DEFINE Failing == {k \in Nat : ~\E f : Powers(f, k)}
<1>1. SUFFICES ASSUME Failing # {} PROVE FALSE
  OBVIOUS
<1>2. PICK k \in Failing : \A j \in Failing : k <= j
  BY <1>1, Least
<1>3. CASE k = 0
  <2>1. Powers([l \in 0 .. 0 |-> 1], 0)
    BY DEF Powers
  <2> QED
    BY <2>1, <1>3
<1>4. CASE k # 0
  <2>1. k - 1 \in Nat /\ k - 1 \notin Failing /\ k = (k - 1) + 1
    BY <1>2, <1>4
  <2>2. PICK f : Powers(f, k - 1)
    BY <2>1
  <2>3. \E g : Powers(g, (k - 1) + 1)
    BY <2>1, <2>2, PowersGrow
  <2> QED
    BY <2>1, <2>3
<1> QED
  BY <1>3, <1>4

(* Its solutions agree where both are defined. *)
LEMMA PowersAgree ==
  ASSUME NEW m \in Nat, NEW n \in Nat, NEW f, NEW g,
         Powers(f, m), Powers(g, n), NEW k \in Nat, k <= m, k <= n
  PROVE  f[k] = g[k]
<1> DEFINE Failing == {j \in Nat : j <= m /\ j <= n /\ f[j] # g[j]}
<1>1. SUFFICES ASSUME Failing # {} PROVE FALSE
  OBVIOUS
<1>2. PICK j \in Failing : \A i \in Failing : j <= i
  BY <1>1, Least
<1>3. /\ \A l \in 0 .. m : f[l] = IF l = 0 THEN 1 ELSE 2 * f[l - 1]
      /\ \A l \in 0 .. n : g[l] = IF l = 0 THEN 1 ELSE 2 * g[l - 1]
  BY DEF Powers
<1>4. j # 0
  BY <1>2, <1>3
<1>5. j - 1 \in Nat /\ j - 1 \notin Failing
  BY <1>2, <1>4
<1>6. f[j - 1] = g[j - 1]
  BY <1>5, <1>2
<1> QED
  BY <1>2, <1>3, <1>4, <1>6

(* Pow2 doubles from one size to the next (1 << lg). *)
LEMMA Pow2Doubles ==
  ASSUME NEW m \in Nat
  PROVE  /\ Pow2(0) = 1
         /\ Pow2(m + 1) = 2 * Pow2(m)
<1> DEFINE F(n) == CHOOSE f : Powers(f, n)
<1>1. \A n \in Nat : Powers(F(n), n)
  BY PowersExist
<1>2. \A n \in Nat : Pow2(n) = F(n)[n]
  BY DEF Pow2, Powers
<1>3. \A n \in Nat : \A l \in 0 .. n : F(n)[l] = IF l = 0 THEN 1 ELSE 2 * F(n)[l - 1]
  BY ZenonT(40), <1>1 DEF Powers
<1> HIDE DEF F
<1>4. Pow2(0) = 1
  BY <1>2, <1>3
<1>5. F(m + 1)[m + 1] = 2 * F(m + 1)[m]
  BY <1>3
<1>6. F(m + 1)[m] = F(m)[m]
  BY <1>1, PowersAgree
<1> QED
  BY <1>2, <1>4, <1>5, <1>6

(* Sizes are positive and larger than their logarithms. *)
LEMMA Pow2Type ==
  ASSUME NEW m \in Nat
  PROVE  Pow2(m) \in Nat /\ m < Pow2(m)
<1> DEFINE Failing == {k \in Nat : ~(Pow2(k) \in Nat /\ k < Pow2(k))}
<1>1. SUFFICES ASSUME Failing # {} PROVE FALSE
  OBVIOUS
<1>2. PICK k \in Failing : \A j \in Failing : k <= j
  BY <1>1, Least
<1>3. CASE k = 0
  BY <1>2, <1>3, Pow2Doubles
<1>4. CASE k # 0
  <2>1. k - 1 \in Nat /\ k - 1 \notin Failing /\ k = (k - 1) + 1
    BY <1>2, <1>4
  <2>2. Pow2(k - 1) \in Nat /\ k - 1 < Pow2(k - 1)
    BY <2>1
  <2>3. Pow2((k - 1) + 1) = 2 * Pow2(k - 1)
    BY <2>1, Pow2Doubles
  <2>4. Pow2(k) \in Nat /\ k < Pow2(k)
    BY <2>1, <2>2, <2>3
  <2> QED
    BY <2>4, <1>2
<1> QED
  BY <1>3, <1>4

(* The sum of two logarithms is that of the product (1 << (lg + rf)). *)
LEMMA Pow2Sum ==
  ASSUME NEW a \in Nat, NEW b \in Nat
  PROVE  Pow2(a + b) = Pow2(a) * Pow2(b)
<1> DEFINE Failing == {k \in Nat : Pow2(a + k) # Pow2(a) * Pow2(k)}
<1>1. SUFFICES ASSUME Failing # {} PROVE FALSE
  OBVIOUS
<1>2. PICK k \in Failing : \A j \in Failing : k <= j
  BY <1>1, Least
<1>3. PICK x \in Nat : x = Pow2(a)
  BY Pow2Type
<1>4. CASE k = 0
  <2>1. Pow2(a + k) = x /\ Pow2(k) = 1
    BY <1>3, <1>4, Pow2Doubles
  <2> QED
    BY <1>2, <1>3, <2>1
<1>5. CASE k # 0
  <2>1. k - 1 \in Nat /\ k - 1 \notin Failing /\ k = (k - 1) + 1
    BY <1>2, <1>5
  <2>2. a + (k - 1) \in Nat /\ a + k = (a + (k - 1)) + 1
    BY <2>1
  <2>3. PICK y \in Nat, z \in Nat : y = Pow2(k - 1) /\ z = Pow2(a + (k - 1))
    BY <2>1, <2>2, Pow2Type
  <2>4. z = x * y
    BY <1>3, <2>1, <2>3
  <2>5. Pow2((k - 1) + 1) = 2 * y /\ Pow2((a + (k - 1)) + 1) = 2 * z
    BY <2>1, <2>2, <2>3, Pow2Doubles
  <2>6. Pow2(k) = 2 * y /\ Pow2(a + k) = 2 * z
    BY <2>1, <2>2, <2>5
  <2>7. 2 * z = x * (2 * y)
    BY <2>4
  <2> QED
    BY <1>2, <1>3, <2>6, <2>7
<1> QED
  BY <1>4, <1>5

(* Sizes compare as their logarithms do. *)
LEMMA Pow2Orders ==
  ASSUME NEW a \in Nat, NEW b \in Nat
  PROVE  /\ a < b <=> Pow2(a) < Pow2(b)
         /\ a <= b <=> Pow2(a) <= Pow2(b)
         /\ a = b <=> Pow2(a) = Pow2(b)
<1>1. ASSUME NEW c \in Nat, NEW d \in Nat, c < d
      PROVE  Pow2(c) < Pow2(d)
  <2>1. PICK e \in Nat : d = c + (e + 1)
    <3>1. d - c - 1 \in Nat /\ d = c + ((d - c - 1) + 1)
      BY <1>1
    <3> QED
      BY <3>1
  <2>2. PICK x \in Nat, y \in Nat : x = Pow2(c) /\ y = Pow2(e + 1) /\ 0 < x /\ 1 < y
    <3>1. e + 1 \in Nat
      OBVIOUS
    <3>2. Pow2(c) \in Nat /\ c < Pow2(c) /\ Pow2(e + 1) \in Nat /\ e + 1 < Pow2(e + 1)
      BY <3>1, Pow2Type
    <3> QED
      BY <3>2
  <2>3. Pow2(d) = x * y
    BY <2>1, <2>2, Pow2Sum
  <2>4. x * y >= x * 2
    BY <2>2
  <2> QED
    BY <2>2, <2>3, <2>4
<1>2. Pow2(a) \in Nat /\ Pow2(b) \in Nat
  BY Pow2Type
<1>3. CASE a < b
  BY <1>1, <1>2, <1>3
<1>4. CASE b < a
  BY <1>1, <1>2, <1>4
<1>5. CASE a = b
  BY <1>2, <1>5
<1> QED
  BY <1>3, <1>4, <1>5

(* log2() finds the highest bit: the count fits under the next power. *)
LEMMA Log2Bounds ==
  ASSUME NEW n \in Nat
  PROVE  /\ Log2(n) \in Nat
         /\ n < Pow2(Log2(n) + 1)
         /\ n # 0 => Pow2(Log2(n)) <= n
<1>1. Pow2(0) = 1 /\ Pow2(0 + 1) = 2
  BY Pow2Doubles
<1>2. CASE n <= 1
  <2>1. Log2(n) = 0
    BY <1>2 DEF Log2
  <2> QED
    BY <1>1, <1>2, <2>1
<1>3. CASE ~(n <= 1)
  <2> DEFINE S == {l \in Nat : n < Pow2(l + 1)}
  <2>1. n \in S
    BY Pow2Type
  <2>2. PICK l \in S : \A k \in S : l <= k
    BY <2>1, Least
  <2>3. l # 0
    BY <1>1, <1>3, <2>2
  <2>4. l - 1 \in Nat /\ l - 1 \notin S /\ l = (l - 1) + 1
    BY <2>2, <2>3
  <2>5. Pow2(l) \in Nat /\ l < Pow2(l) /\ ~(n < Pow2(l))
    BY <2>2, <2>4, Pow2Type
  <2>6. l \in 1 .. n /\ Pow2(l) <= n /\ n < Pow2(l + 1)
    BY <2>2, <2>3, <2>5
  <2>7. Log2(n) = CHOOSE k \in 1 .. n : Pow2(k) <= n /\ n < Pow2(k + 1)
    BY <1>3 DEF Log2
  <2>8. Log2(n) \in 1 .. n /\ Pow2(Log2(n)) <= n /\ n < Pow2(Log2(n) + 1)
    BY <2>6, <2>7
  <2> QED
    BY <2>8
<1> QED
  BY <1>2, <1>3

(* lg_size_from_count(): the table it sizes for n keys has twice its       *)
(* nominal size, and n does not exceed its capacity of 15/16.              *)
LEMMA LgSizeHolds ==
  ASSUME NEW n \in Nat
  PROVE  LET lg == LgSizeFromCount(n)
         IN  /\ lg \in Nat \ {0}
             /\ Pow2(lg) = 2 * Pow2(lg - 1)
             /\ Pow2(lg) \in Nat /\ Pow2(lg - 1) \in Nat \ {0}
             /\ n <= (15 * Pow2(lg)) \div 16
<1> DEFINE b == Log2(n)
           p == Pow2(b + 1)
           lg == LgSizeFromCount(n)
<1>1. b \in Nat /\ n < p
  BY Log2Bounds
<1>2. b + 1 \in Nat /\ p \in Nat /\ Pow2(b) \in Nat /\ 0 < Pow2(b)
  BY <1>1, Pow2Type
<1>3. p = 2 * Pow2(b) /\ Pow2((b + 1) + 1) = 2 * p
  BY <1>1, <1>2, Pow2Doubles
<1>4. lg = b + IF n > (15 * p) \div 16 THEN 2 ELSE 1
  BY DEF LgSizeFromCount
<1> HIDE DEF b, p, lg
<1>5. CASE n > (15 * p) \div 16
  <2>1. lg = (b + 1) + 1 /\ lg - 1 = b + 1
    BY <1>1, <1>4, <1>5
  <2>2. Pow2(lg) = 2 * p /\ Pow2(lg - 1) = p
    BY <2>1, <1>3 DEF p
  <2>3. n <= (15 * (2 * p)) \div 16
    BY <1>1, <1>2
  <2> QED
    BY <2>1, <2>2, <2>3, <1>1, <1>2, <1>3 DEF lg
<1>6. CASE ~(n > (15 * p) \div 16)
  <2>1. lg = b + 1 /\ lg - 1 = b
    BY <1>1, <1>4, <1>6
  <2>2. Pow2(lg) = p /\ Pow2(lg - 1) = Pow2(b)
    BY <2>1 DEF p
  <2>3. n <= (15 * p) \div 16
    BY <1>2, <1>6
  <2> QED
    BY <2>1, <2>2, <2>3, <1>1, <1>2, <1>3 DEF lg
<1> QED
  BY <1>5, <1>6

-----------------------------------------------------------------------------
(* The keys of a sequence. *)
KeysOf(q) == {q[i] : i \in DOMAIN q}

(* An interval from 1 has as many elements as it says. *)
LEMMA IntervalCounts ==
  ASSUME NEW n \in Nat
  PROVE  IsFiniteSet(1 .. n) /\ Cardinality(1 .. n) = n
<1>1. /\ IsFiniteSet(1 .. n)
      /\ Cardinality(1 .. n) = IF 1 > n THEN 0 ELSE n - 1 + 1
  BY FS_Interval
<1> QED
  BY <1>1

(* A sequence without duplicates has as many keys as entries: what the     *)
(* first update of an intersection checks.                                 *)
LEMMA DistinctCounts ==
  ASSUME NEW q \in Seq(Nat), Distinct(q)
  PROVE  /\ KeysOf(q) \in SUBSET Nat
         /\ IsFiniteSet(KeysOf(q))
         /\ Cardinality(KeysOf(q)) = Len(q)
<1>1. DOMAIN q = 1 .. Len(q) /\ Len(q) \in Nat /\ q \in [1 .. Len(q) -> Nat]
  OBVIOUS
<1>2. IsFiniteSet(1 .. Len(q)) /\ Cardinality(1 .. Len(q)) = Len(q)
  BY <1>1, IntervalCounts
<1>3. KeysOf(q) \in SUBSET Nat
  BY <1>1 DEF KeysOf
<1>4. q \in [1 .. Len(q) -> KeysOf(q)]
  BY <1>1 DEF KeysOf
<1>5. q \in Surjection(1 .. Len(q), KeysOf(q))
  BY <1>1, <1>4 DEF Surjection, KeysOf
<1>6. q \in Injection(1 .. Len(q), KeysOf(q))
  BY <1>1, <1>4 DEF Injection, IsInjective, Distinct
<1> QED
  BY <1>2, <1>3, <1>5, <1>6, FS_Surjection

(* A loop that stops at the first key of an ordered sketch that is not     *)
(* below p passes over no key below p.                                     *)
LEMMA ScannedIsBelow ==
  ASSUME NEW M, NEW s, IsSketch(s, M), NEW p \in Nat
  PROVE  Scanned(s, p) = Below(Keys(s), p)
<1> DEFINE q == s.entries
<1>1. /\ q \in Seq(Nat) /\ DOMAIN q = 1 .. Len(q) /\ Len(q) \in Nat
      /\ \A i \in 1 .. Len(q) : q[i] \in Nat
      /\ s.isOrdered => Ascending(q)
  BY DEF IsSketch
<1>2. Scanned(s, p) \subseteq Below(Keys(s), p)
  BY DEF Scanned, Below, Keys
<1>3. ASSUME NEW h \in Below(Keys(s), p) PROVE h \in Scanned(s, p)
  <2>1. PICK k \in DOMAIN q : q[k] = h /\ h < p
    BY DEF Below, Keys
  <2>2. ASSUME s.isOrdered, NEW j \in 1 .. k PROVE q[j] < p
    <3>1. j \in 1 .. Len(q) /\ k \in 1 .. Len(q) /\ (j = k \/ j < k)
      BY <1>1, <2>1
    <3>2. j < k => q[j] < q[k]
      BY <3>1, <2>2, <1>1 DEF Ascending
    <3>3. q[j] \in Nat /\ q[k] \in Nat
      BY <3>1, <1>1
    <3> QED
      BY <3>1, <3>2, <3>3, <2>1
  <2> QED
    BY <2>1, <2>2 DEF Scanned
<1> QED
  BY <1>2, <1>3

(* No key of S occurs twice in q; other keys may. *)
DistinctIn(q, S) ==
  \A i, j \in DOMAIN q : i # j /\ q[i] \in S /\ q[j] \in S => q[i] # q[j]

(* In a sequence without repetition no key of any set occurs twice. *)
LEMMA DistinctAnywhere ==
  ASSUME NEW q, Distinct(q), NEW S
  PROVE  DistinctIn(q, S)
  BY DEF Distinct, DistinctIn

(* What a loop picks from a sequence that holds the keys wanted once: each *)
(* of them once, in an order that still ascends if it did.                 *)
LEMMA PickedIs ==
  ASSUME NEW q \in Seq(Nat), NEW S, DistinctIn(q, S)
  PROVE  /\ Picked(q, S) \in Seq(Nat)
         /\ KeysOf(Picked(q, S)) = KeysOf(q) \cap S
         /\ Distinct(Picked(q, S))
         /\ Ascending(q) => Ascending(Picked(q, S))
<1> DEFINE places == {i \in DOMAIN q : q[i] \in S}
           c == Cardinality(places)
           Nth(n) == NthElement(places, n - 1)
           r == Picked(q, S)
<1>1. DOMAIN q = 1 .. Len(q) /\ Len(q) \in Nat /\ \A i \in 1 .. Len(q) : q[i] \in Nat
  OBVIOUS
<1>2. places \in SUBSET Nat /\ places \in SUBSET (1 .. Len(q))
  BY <1>1
<1>3. IsFiniteSet(1 .. Len(q))
  BY <1>1, FS_Interval
<1>4. IsFiniteSet(places) /\ c \in Nat
  BY <1>2, <1>3, FS_Subset, FS_CardinalityType
<1>5. r = [n \in 1 .. c |-> q[Nth(n)]]
  BY DEF Picked, NthElement, Below
<1>p. \A i : i \in places <=> i \in 1 .. Len(q) /\ q[i] \in S
  BY <1>1
<1>q. \A i \in places : i \in Nat
  BY <1>2
<1> HIDE DEF places, c, r
<1>6. ASSUME NEW n \in 1 .. c
      PROVE  Nth(n) \in places /\ Cardinality(Below(places, Nth(n))) = n - 1
  <2>1. n - 1 \in Nat /\ n - 1 < c
    BY <1>4
  <2> QED
    BY <2>1, <1>2, <1>4, NthElementRank DEF c
<1>7. ASSUME NEW i \in places
      PROVE  \E n \in 1 .. c : Nth(n) = i
  <2> DEFINE k == Cardinality(Below(places, i))
  <2>1. i \in Nat
    BY <1>2
  <2>2. k \in Nat /\ k < c
    BY <2>1, <1>2, <1>4, BelowFinite DEF c
  <2>3. i = NthElement(places, k)
    BY <2>2, <1>2, <1>4, NthElementRank DEF c
  <2>4. k + 1 \in 1 .. c /\ (k + 1) - 1 = k
    BY <2>2, <1>4
  <2> HIDE DEF k
  <2> QED
    BY <2>3, <2>4
<1>8. ASSUME NEW m \in 1 .. c, NEW n \in 1 .. c, m < n
      PROVE  Nth(m) < Nth(n)
  <2>1. Nth(m) \in places /\ Nth(n) \in places /\ Nth(m) \in Nat /\ Nth(n) \in Nat
    BY <1>2, <1>6
  <2>2. CASE Nth(n) < Nth(m)
    <3>1. Cardinality(Below(places, Nth(n))) < Cardinality(Below(places, Nth(m)))
      BY <2>1, <2>2, <1>2, <1>4, RankStrict
    <3> QED
      BY <3>1, <1>6, <1>8, <1>4
  <2>3. CASE Nth(n) = Nth(m)
    BY <2>3, <1>6, <1>8, <1>4
  <2> QED
    BY <2>1, <2>2, <2>3
<1> HIDE DEF Nth
<1>9. r \in Seq(Nat) /\ DOMAIN r = 1 .. c /\ Len(r) = c
  BY <1>1, <1>4, <1>5, <1>6, <1>p
<1>10. \A n \in 1 .. c : r[n] = q[Nth(n)]
  BY <1>5
<1>11. KeysOf(r) = KeysOf(q) \cap S
  <2>1. ASSUME NEW h \in KeysOf(r) PROVE h \in KeysOf(q) \cap S
    BY <1>1, <1>6, <1>9, <1>10, <1>p DEF KeysOf
  <2>2. ASSUME NEW h \in KeysOf(q) \cap S PROVE h \in KeysOf(r)
    <3>1. PICK i \in 1 .. Len(q) : q[i] = h
      BY <1>1 DEF KeysOf
    <3>2. i \in places
      BY <3>1, <1>p
    <3>3. PICK n \in 1 .. c : Nth(n) = i
      BY <3>2, <1>7
    <3> QED
      BY <3>1, <3>3, <1>9, <1>10 DEF KeysOf
  <2> QED
    BY <2>1, <2>2
<1>12. Distinct(r)
  <2>1. ASSUME NEW m \in 1 .. c, NEW n \in 1 .. c, m # n PROVE r[m] # r[n]
    <3>1. m < n \/ n < m
      BY <2>1, <1>4
    <3>2. /\ Nth(m) # Nth(n) /\ Nth(m) \in 1 .. Len(q) /\ Nth(n) \in 1 .. Len(q)
          /\ q[Nth(m)] \in S /\ q[Nth(n)] \in S
      BY <3>1, <1>1, <1>6, <1>8, <1>p
    <3> QED
      BY <3>2, <1>1, <1>10 DEF DistinctIn
  <2> QED
    BY <2>1, <1>9 DEF Distinct
<1>13. ASSUME Ascending(q) PROVE Ascending(r)
  <2>1. ASSUME NEW m \in 1 .. c, NEW n \in 1 .. c, m < n PROVE r[m] < r[n]
    <3>1. Nth(m) < Nth(n) /\ Nth(m) \in 1 .. Len(q) /\ Nth(n) \in 1 .. Len(q)
      BY <2>1, <1>6, <1>8, <1>p
    <3> QED
      BY <3>1, <1>1, <1>10, <1>13 DEF Ascending
  <2> QED
    BY <2>1, <1>9 DEF Ascending
<1> QED
  BY <1>9, <1>11, <1>12, <1>13 DEF r

(* std::sort of distinct keys: all of them once, ascending. *)
LEMMA SortedKeysIs ==
  ASSUME NEW S \in SUBSET Nat, IsFiniteSet(S)
  PROVE  /\ SortedKeys(S) \in Seq(Nat)
         /\ KeysOf(SortedKeys(S)) = S
         /\ Distinct(SortedKeys(S)) /\ Ascending(SortedKeys(S))
<1> DEFINE c == Cardinality(S)
           Nth(n) == NthElement(S, n - 1)
           r == SortedKeys(S)
<1>1. c \in Nat
  BY FS_CardinalityType
<1>2. r = [n \in 1 .. c |-> Nth(n)]
  BY DEF SortedKeys
<1> HIDE DEF c, r
<1>3. ASSUME NEW n \in 1 .. c
      PROVE  Nth(n) \in S /\ Cardinality(Below(S, Nth(n))) = n - 1
  <2>1. n - 1 \in Nat /\ n - 1 < c
    BY <1>1
  <2> QED
    BY <2>1, NthElementRank DEF c
<1>4. ASSUME NEW h \in S
      PROVE  \E n \in 1 .. c : Nth(n) = h
  <2> DEFINE k == Cardinality(Below(S, h))
  <2>1. h \in Nat
    OBVIOUS
  <2>2. k \in Nat /\ k < c
    BY <2>1, BelowFinite DEF c
  <2>3. h = NthElement(S, k)
    BY <2>2, NthElementRank DEF c
  <2>4. k + 1 \in 1 .. c /\ (k + 1) - 1 = k
    BY <2>2, <1>1
  <2> HIDE DEF k
  <2> QED
    BY <2>3, <2>4
<1>5. ASSUME NEW m \in 1 .. c, NEW n \in 1 .. c, m < n
      PROVE  Nth(m) < Nth(n)
  <2>1. Nth(m) \in S /\ Nth(n) \in S /\ Nth(m) \in Nat /\ Nth(n) \in Nat
    BY <1>3
  <2>2. CASE Nth(n) < Nth(m)
    <3>1. Cardinality(Below(S, Nth(n))) < Cardinality(Below(S, Nth(m)))
      BY <2>1, <2>2, RankStrict
    <3> QED
      BY <3>1, <1>1, <1>3, <1>5
  <2>3. CASE Nth(n) = Nth(m)
    BY <2>3, <1>1, <1>3, <1>5
  <2> QED
    BY <2>1, <2>2, <2>3
<1> HIDE DEF Nth
<1>6. r \in Seq(Nat) /\ DOMAIN r = 1 .. c /\ \A n \in 1 .. c : r[n] = Nth(n)
  <2>1. \A n \in 1 .. c : Nth(n) \in Nat
    BY <1>3
  <2> QED
    BY <1>1, <1>2, <2>1
<1>7. KeysOf(r) = S
  <2>1. \A h \in KeysOf(r) : h \in S
    BY <1>3, <1>6 DEF KeysOf
  <2>2. \A h \in S : h \in KeysOf(r)
    BY <1>4, <1>6 DEF KeysOf
  <2> QED
    BY <2>1, <2>2
<1>8. Ascending(r)
  BY <1>5, <1>6 DEF Ascending
<1>9. Distinct(r)
  <2>1. ASSUME NEW m \in 1 .. c, NEW n \in 1 .. c, m # n PROVE r[m] # r[n]
    <3>1. m < n \/ n < m
      BY <2>1, <1>1
    <3>2. Nth(m) \in Nat /\ Nth(n) \in Nat
      BY <1>3
    <3> QED
      BY <3>1, <3>2, <1>5, <1>6
  <2> QED
    BY <2>1, <1>6 DEF Distinct
<1> QED
  BY <1>6, <1>7, <1>8, <1>9 DEF r

-----------------------------------------------------------------------------
(* An odd number of d's is a number of 2^l's. *)
OddMultiple(r, l, d, q) == (2 * r + 1) * d = Pow2(l) * q

(* An odd factor of a multiple of a power of two is of no help. *)
LEMMA OddDivides ==
  ASSUME NEW r \in Int, NEW l \in Nat, NEW d \in Int, NEW q \in Int,
         OddMultiple(r, l, d, q)
  PROVE  \E m \in Int : d = Pow2(l) * m
<1> DEFINE Divides(n) == \A e \in Int, p \in Int :
             (2 * r + 1) * e = Pow2(n) * p => \E m \in Int : e = Pow2(n) * m
           Failing == {n \in Nat : ~Divides(n)}
<1>1. SUFFICES ASSUME Failing # {} PROVE FALSE
  BY DEF OddMultiple
<1>2. PICK n \in Failing : \A k \in Failing : n <= k
  BY <1>1, Least
<1>3. PICK e \in Int, p \in Int : /\ (2 * r + 1) * e = Pow2(n) * p
                                  /\ ~\E m \in Int : e = Pow2(n) * m
  BY <1>2
<1>4. CASE n = 0
  <2>1. Pow2(n) = 1
    BY <1>4, Pow2Doubles
  <2>2. e = Pow2(n) * e
    BY <2>1
  <2> QED
    BY <2>2, <1>3
<1>5. CASE n # 0
  <2>1. n - 1 \in Nat /\ n - 1 \notin Failing /\ n = (n - 1) + 1
    BY <1>2, <1>5
  <2>2. Divides(n - 1)
    BY <2>1
  <2>3. PICK x \in Nat : x = Pow2(n - 1) /\ Pow2(n) = 2 * x
    <3>1. Pow2((n - 1) + 1) = 2 * Pow2(n - 1) /\ Pow2(n - 1) \in Nat
      BY <2>1, Pow2Doubles, Pow2Type
    <3>2. Pow2(n) = 2 * Pow2(n - 1)
      BY <2>1, <3>1
    <3> QED
      BY <3>1, <3>2
  <2>4. (2 * r + 1) * e = 2 * (x * p)
    <3>1. (2 * r + 1) * e = (2 * x) * p
      BY <1>3, <2>3
    <3> QED
      BY <3>1
  <2>5. e = 2 * (x * p - r * e)
    <3>1. (2 * r + 1) * e = 2 * (r * e) + e
      OBVIOUS
    <3> QED
      BY <2>4, <3>1
  <2>6. PICK f \in Int : e = 2 * f
    <3>1. x * p - r * e \in Int
      BY <2>3
    <3> QED
      BY <2>5, <3>1
  <2>7. (2 * r + 1) * f = x * p
    <3>1. (2 * r + 1) * e = 2 * ((2 * r + 1) * f)
      BY <2>6
    <3> QED
      BY <2>4, <3>1
  <2>8. PICK m \in Int : f = x * m
    BY <2>2, <2>3, <2>7
  <2>9. e = Pow2(n) * m
    BY <2>3, <2>6, <2>8
  <2> QED
    BY <2>9, <1>3
<1> QED
  BY <1>4, <1>5

(* The slots of a table. *)
LEMMA SlotsAre ==
  ASSUME NEW lg \in Nat
  PROVE  /\ Pow2(lg) \in Nat \ {0}
         /\ IsFiniteSet(Slots(lg))
         /\ Cardinality(Slots(lg)) = Pow2(lg)
         /\ \A i : i \in Slots(lg) <=> i \in Nat /\ i < Pow2(lg)
<1>1. PICK n \in Nat \ {0} : n = Pow2(lg)
  BY Pow2Type
<1>2. Slots(lg) = 0 .. n - 1
  BY <1>1 DEF Slots
<1>3. IsFiniteSet(0 .. n - 1) /\ Cardinality(0 .. n - 1) = n
  <2>1. /\ IsFiniteSet(0 .. n - 1)
        /\ Cardinality(0 .. n - 1) = IF 0 > n - 1 THEN 0 ELSE n - 1 - 0 + 1
    BY FS_Interval
  <2> QED
    BY <2>1
<1> QED
  BY <1>1, <1>2, <1>3

(* The stride is odd (get_stride). *)
LEMMA StrideOdd ==
  ASSUME NEW key \in Nat, NEW lg \in Nat
  PROVE  \E r \in Nat : Stride(key, lg) = 2 * r + 1
<1>1. PICK n \in Nat \ {0} : n = Pow2(lg)
  BY Pow2Type
<1>2. key \div n \in Nat
  OBVIOUS
<1>3. (key \div n) % 128 \in Nat
  BY <1>2
<1> QED
  BY <1>1, <1>3 DEF Stride

(* The probe path never leaves the table and meets no slot twice. *)
LEMMA ProbeMeetsOnce ==
  ASSUME NEW key \in Nat, NEW lg \in Nat
  PROVE  /\ \A k \in Nat : Probe(key, lg, k) \in Slots(lg)
         /\ \A j, k \in Slots(lg) : Probe(key, lg, j) = Probe(key, lg, k) => j = k
<1>1. PICK n \in Nat \ {0} : n = Pow2(lg)
  BY Pow2Type
<1>2. PICK r \in Nat : Stride(key, lg) = 2 * r + 1
  BY StrideOdd
<1> DEFINE s == 2 * r + 1
<1>3. \A k : Probe(key, lg, k) = (key + k * s) % n
  BY <1>1, <1>2 DEF Probe
<1>4. ASSUME NEW k \in Nat PROVE Probe(key, lg, k) \in Slots(lg)
  <2>1. key + k * s \in Nat
    OBVIOUS
  <2>2. \A x \in Nat : x % n \in Nat /\ x % n < n
    OBVIOUS
  <2> QED
    BY <1>1, <1>3, <2>1, <2>2, SlotsAre
<1>5. ASSUME NEW j \in Slots(lg), NEW k \in Slots(lg),
             Probe(key, lg, j) = Probe(key, lg, k)
      PROVE  j = k
  <2>1. j \in Nat /\ k \in Nat /\ j < n /\ k < n
    BY <1>1, SlotsAre
  <2>2. (key + j * s) % n = (key + k * s) % n
    BY <1>3, <1>5
  <2>3. \A x \in Nat : x = n * (x \div n) + (x % n) /\ x \div n \in Nat
    OBVIOUS
  <2>4. key + j * s \in Nat /\ key + k * s \in Nat
    BY <2>1
  <2>5. PICK a \in Nat, b \in Nat, c \in Nat :
          key + j * s = n * a + c /\ key + k * s = n * b + c
    <3>1. PICK x \in Nat, y \in Nat : x = key + j * s /\ y = key + k * s
      BY <2>4
    <3>2. x % n = y % n
      BY <2>2, <3>1
    <3>3. x % n \in Nat /\ x \div n \in Nat /\ y \div n \in Nat
      BY <2>3
    <3>4. x = n * (x \div n) + (x % n) /\ y = n * (y \div n) + (y % n)
      BY <2>3
    <3> QED
      BY ZenonT(40), <3>1, <3>2, <3>3, <3>4
  <2>6. j * s - k * s = n * a - n * b
    BY <2>1, <2>5
  <2>7. s * (j - k) = n * (a - b)
    <3>1. s * (j - k) = j * s - k * s
      BY <2>1
    <3>2. n * (a - b) = n * a - n * b
      OBVIOUS
    <3> QED
      BY <2>6, <3>1, <3>2
  <2>8. PICK m \in Int : j - k = n * m
    <3>1. j - k \in Int /\ a - b \in Int /\ r \in Int
      BY <2>1
    <3>2. OddMultiple(r, lg, j - k, a - b)
      BY <1>1, <2>7 DEF OddMultiple
    <3>3. \E m \in Int : j - k = Pow2(lg) * m
      BY <3>1, <3>2, OddDivides
    <3> QED
      BY <1>1, <3>3
  <2>9. CASE m = 0
    BY <2>1, <2>8, <2>9
  <2>10. CASE m >= 1
    <3>1. n * m >= n
      BY <2>10
    <3> QED
      BY <2>1, <2>8, <3>1
  <2>11. CASE m <= -1
    <3>1. n * m <= -n
      BY <2>11
    <3> QED
      BY <2>1, <2>8, <3>1
  <2> QED
    BY <2>9, <2>10, <2>11
<1> QED
  BY <1>4, <1>5

(* It meets every slot of the table. *)
LEMMA ProbeMeetsAll ==
  ASSUME NEW key \in Nat, NEW lg \in Nat, NEW i \in Slots(lg)
  PROVE  \E k \in Slots(lg) : Probe(key, lg, k) = i
<1> DEFINE S == Slots(lg)
           f == [k \in S |-> Probe(key, lg, k)]
<1>1. \A k \in S : k \in Nat
  BY SlotsAre
<1>2. f \in Injection(S, S)
  BY <1>1, ProbeMeetsOnce DEF Injection, IsInjective
<1>3. IsFiniteSet(S)
  BY SlotsAre
<1>4. f \in Surjection(S, S)
  <2> HIDE DEF f, S
  <2> QED
    BY <1>2, <1>3, FS_Injection
<1> QED
  BY <1>4 DEF Surjection

-----------------------------------------------------------------------------
(* The probe path of the key leads to slot i: every slot before it is      *)
(* taken, by other keys.                                                   *)
Reaches(entries, lg, key, i) ==
  \E k \in Slots(lg) :
    /\ Probe(key, lg, k) = i
    /\ \A j \in 0 .. k - 1 : entries[Probe(key, lg, j)] \notin {0, key}

(* A slot find() may stop at. *)
Stops(entries, key, i) == entries[i] \in {0, key}

(* find() stops at the first slot of the path that is free or holds the    *)
(* key; it has not come back to its start by then.                         *)
LEMMA FindOf ==
  ASSUME NEW entries, NEW lg \in Nat, NEW key \in Nat, NEW i,
         Reaches(entries, lg, key, i), Stops(entries, key, i)
  PROVE  Find(entries, lg, key) = i /\ i \in Slots(lg)
<1> DEFINE hits == {k \in Slots(lg) : entries[Probe(key, lg, k)] \in {0, key}}
           first == CHOOSE k \in hits : \A j \in hits : k <= j
<1>1. PICK k \in Slots(lg) :
        /\ Probe(key, lg, k) = i
        /\ \A j \in 0 .. k - 1 : entries[Probe(key, lg, j)] \notin {0, key}
  BY DEF Reaches
<1>2. k \in hits
  BY <1>1 DEF Stops
<1>3. \A j \in Slots(lg) : j \in Nat
  BY SlotsAre
<1>4. \A j \in hits : k <= j
  <2>1. ASSUME NEW j \in hits, j < k PROVE FALSE
    <3>1. j \in 0 .. k - 1
      BY <1>3, <2>1
    <3> QED
      BY <1>1, <3>1
  <2> QED
    BY <1>3, <2>1
<1>5. \A m \in hits : m \in Nat
  BY <1>3
<1> HIDE DEF hits
<1>6. first = k
  <2>1. \A m \in hits : (\A j \in hits : m <= j) => m = k
    BY <1>2, <1>4, <1>5
  <2> QED
    BY <1>2, <1>4, <2>1
<1>7. ~\E j \in 1 .. k : Probe(key, lg, j) = Probe(key, lg, 0)
  <2>1. ASSUME NEW j \in 1 .. k, Probe(key, lg, j) = Probe(key, lg, 0) PROVE FALSE
    <3>1. j \in Slots(lg) /\ 0 \in Slots(lg)
      <4>1. k \in Nat /\ k < Pow2(lg) /\ Pow2(lg) \in Nat
        BY SlotsAre
      <4>2. j \in Nat /\ j < Pow2(lg) /\ 0 < Pow2(lg)
        BY <4>1
      <4> QED
        BY <4>2, SlotsAre
    <3>2. j = 0
      BY <2>1, <3>1, ProbeMeetsOnce
    <3> QED
      BY <3>2
  <2> QED
    BY <2>1
<1>8. hits # {}
  BY <1>2
<1>9. Find(entries, lg, key) =
        IF hits = {} THEN NoSlot
        ELSE IF \E j \in 1 .. first : Probe(key, lg, j) = Probe(key, lg, 0) THEN NoSlot
        ELSE Probe(key, lg, first)
  BY DEF Find, hits
<1>10. i \in Slots(lg)
  BY <1>1, <1>3, ProbeMeetsOnce
<1> HIDE DEF first
<1> QED
  BY <1>1, <1>6, <1>7, <1>8, <1>9, <1>10

(* find() ends whenever some slot is free or holds the key. *)
LEMMA FindEnds ==
  ASSUME NEW entries, NEW lg \in Nat, NEW key \in Nat, NEW i \in Slots(lg),
         Stops(entries, key, i)
  PROVE  /\ Find(entries, lg, key) \in Slots(lg)
         /\ Reaches(entries, lg, key, Find(entries, lg, key))
         /\ Stops(entries, key, Find(entries, lg, key))
<1> DEFINE hits == {k \in Slots(lg) : Stops(entries, key, Probe(key, lg, k))}
<1>1. \A j \in Slots(lg) : j \in Nat
  BY SlotsAre
<1>2. hits \in SUBSET Nat
  BY <1>1
<1>3. hits # {}
  BY ProbeMeetsAll
<1>4. PICK k \in hits : \A j \in hits : k <= j
  BY <1>2, <1>3, Least
<1>5. k \in Slots(lg) /\ k \in Nat /\ k < Pow2(lg) /\ Pow2(lg) \in Nat
  BY <1>1, <1>4, SlotsAre
<1>6. ASSUME NEW j \in 0 .. k - 1
      PROVE  entries[Probe(key, lg, j)] \notin {0, key}
  <2>1. j \in Nat /\ j < Pow2(lg) /\ j < k
    BY <1>5
  <2>2. j \in Slots(lg)
    BY <2>1, SlotsAre
  <2>3. j \notin hits
    BY <1>2, <1>4, <2>1
  <2> QED
    BY <2>2, <2>3 DEF Stops
<1>7. Reaches(entries, lg, key, Probe(key, lg, k))
  BY <1>5, <1>6 DEF Reaches
<1>8. Stops(entries, key, Probe(key, lg, k))
  BY <1>4
<1> QED
  BY <1>7, <1>8, FindOf

-----------------------------------------------------------------------------
(* Every key is where find() looks for it. *)
Sound(entries, lg) ==
  /\ entries \in [Slots(lg) -> Nat]
  /\ \A i \in Slots(lg) : entries[i] # 0 => Reaches(entries, lg, entries[i], i)

(* The slots that hold a key. *)
Occupied(entries, lg) == {i \in Slots(lg) : entries[i] # 0}

(* The keys the slots hold. *)
SlotKeys(entries) == {entries[i] : i \in DOMAIN entries} \ {0}

(* A table of empty slots. *)
LEMMA EmptySound ==
  ASSUME NEW lg \in Nat
  PROVE  Sound(AllEmpty(lg), lg) /\ SlotKeys(AllEmpty(lg)) = {}
<1>1. DOMAIN AllEmpty(lg) = Slots(lg) /\ \A i \in Slots(lg) : AllEmpty(lg)[i] = 0
  BY DEF AllEmpty
<1>2. AllEmpty(lg) \in [Slots(lg) -> Nat]
  BY DEF AllEmpty
<1> QED
  BY <1>1, <1>2 DEF Sound, SlotKeys

(* A key that is stored is found at its slot. *)
LEMMA StoredFound ==
  ASSUME NEW entries, NEW lg \in Nat, Sound(entries, lg),
         NEW i \in Slots(lg), entries[i] # 0
  PROVE  /\ Find(entries, lg, entries[i]) = i
         /\ entries[i] \in Nat \ {0}
         /\ entries[i] \in SlotKeys(entries)
<1>1. entries[i] \in Nat /\ DOMAIN entries = Slots(lg) /\ Reaches(entries, lg, entries[i], i)
  BY DEF Sound
<1>2. Stops(entries, entries[i], i)
  BY DEF Stops
<1> QED
  BY <1>1, <1>2, FindOf DEF SlotKeys

(* No key is stored twice: there are as many keys as slots in use. *)
LEMMA SoundCounts ==
  ASSUME NEW entries, NEW lg \in Nat, Sound(entries, lg)
  PROVE  /\ SlotKeys(entries) \in SUBSET (Nat \ {0})
         /\ IsFiniteSet(SlotKeys(entries)) /\ Cardinality(SlotKeys(entries)) \in Nat
         /\ IsFiniteSet(Occupied(entries, lg))
         /\ Cardinality(SlotKeys(entries)) = Cardinality(Occupied(entries, lg))
         /\ Cardinality(SlotKeys(entries)) <= Pow2(lg)
<1> DEFINE O == Occupied(entries, lg)
           K == SlotKeys(entries)
           f == [i \in O |-> entries[i]]
<1>1. DOMAIN entries = Slots(lg) /\ \A i \in Slots(lg) : entries[i] \in Nat
  BY DEF Sound
<1>2. O \in SUBSET Slots(lg) /\ \A i \in O : entries[i] # 0
  BY DEF Occupied
<1>3. IsFiniteSet(Slots(lg)) /\ Cardinality(Slots(lg)) = Pow2(lg)
  BY SlotsAre
<1>4. IsFiniteSet(O) /\ Cardinality(O) <= Pow2(lg)
  BY <1>2, <1>3, FS_Subset
<1>5. f \in Injection(O, K)
  <2>1. \A i \in O : entries[i] \in K
    BY <1>2, StoredFound
  <2>2. \A i, j \in O : entries[i] = entries[j] => i = j
    <3>1. \A i \in O : Find(entries, lg, entries[i]) = i
      BY <1>2, StoredFound
    <3> QED
      BY <3>1
  <2> QED
    BY <2>1, <2>2 DEF Injection, IsInjective
<1>6. f \in Surjection(O, K)
  <2>1. \A k \in K : \E i \in O : entries[i] = k
    BY <1>1 DEF SlotKeys, Occupied
  <2> QED
    BY <1>5, <2>1 DEF Injection, Surjection
<1>7. K \in SUBSET (Nat \ {0})
  BY <1>1 DEF SlotKeys
<1> HIDE DEF f, O, K
<1>8. IsFiniteSet(K) /\ Cardinality(K) = Cardinality(O)
  BY <1>4, <1>5, <1>6, FS_Surjection
<1>9. Cardinality(K) \in Nat
  BY <1>8, FS_CardinalityType
<1> QED
  BY <1>4, <1>7, <1>8, <1>9 DEF O, K

(* With fewer keys than slots there is a free slot. *)
LEMMA FreeSlot ==
  ASSUME NEW entries, NEW lg \in Nat, Sound(entries, lg),
         Cardinality(SlotKeys(entries)) < Pow2(lg)
  PROVE  \E i \in Slots(lg) : entries[i] = 0
<1>1. SUFFICES ASSUME \A i \in Slots(lg) : entries[i] # 0 PROVE FALSE
  OBVIOUS
<1>2. Occupied(entries, lg) = Slots(lg)
  BY <1>1 DEF Occupied
<1>3. /\ Cardinality(SlotKeys(entries)) = Cardinality(Slots(lg))
      /\ Cardinality(Slots(lg)) = Pow2(lg) /\ Pow2(lg) \in Nat
  BY <1>2, SoundCounts, SlotsAre
<1> QED
  BY <1>3

(* find() in a table that has a free slot: the slot of the key, if it is   *)
(* stored, else a free one its path leads to.                              *)
LEMMA FindKey ==
  ASSUME NEW entries, NEW lg \in Nat, NEW key \in Nat \ {0}, Sound(entries, lg),
         Cardinality(SlotKeys(entries)) < Pow2(lg)
  PROVE  /\ Find(entries, lg, key) \in Slots(lg)
         /\ Find(entries, lg, key) # NoSlot
         /\ Reaches(entries, lg, key, Find(entries, lg, key))
         /\ key \in SlotKeys(entries) => entries[Find(entries, lg, key)] = key
         /\ key \notin SlotKeys(entries) => entries[Find(entries, lg, key)] = 0
<1> DEFINE i == Find(entries, lg, key)
<1>1. PICK j \in Slots(lg) : entries[j] = 0
  BY FreeSlot
<1>2. Stops(entries, key, j)
  BY <1>1 DEF Stops
<1>3. i \in Slots(lg) /\ Reaches(entries, lg, key, i) /\ Stops(entries, key, i)
  BY <1>2, FindEnds
<1>4. i # NoSlot
  <2>1. i \in Nat
    BY <1>3, SlotsAre
  <2> HIDE DEF i
  <2> QED
    BY <2>1 DEF NoSlot
<1>5. DOMAIN entries = Slots(lg)
  BY DEF Sound
<1>6. ASSUME key \in SlotKeys(entries) PROVE entries[i] = key
  <2>1. PICK m \in Slots(lg) : entries[m] = key
    BY <1>5, <1>6 DEF SlotKeys
  <2>2. Find(entries, lg, entries[m]) = m
    BY <2>1, StoredFound
  <2> QED
    BY <2>1, <2>2
<1>7. ASSUME key \notin SlotKeys(entries) PROVE entries[i] = 0
  <2>1. entries[i] # key
    BY <1>3, <1>5, <1>7 DEF SlotKeys
  <2> QED
    BY <1>3, <2>1 DEF Stops
<1> QED
  BY <1>3, <1>4, <1>6, <1>7

(* The assignment of a key to a slot. *)
PutAt(entries, i, key) == [entries EXCEPT ![i] = key]

(* Putting a new key where find() stopped hides no other key: no path runs *)
(* through a slot that was free.                                           *)
LEMMA PutSound ==
  ASSUME NEW entries, NEW lg \in Nat, NEW key \in Nat \ {0}, NEW i \in Slots(lg),
         Sound(entries, lg), Reaches(entries, lg, key, i), entries[i] = 0
  PROVE  /\ Sound(PutAt(entries, i, key), lg)
         /\ SlotKeys(PutAt(entries, i, key)) = SlotKeys(entries) \cup {key}
<1> DEFINE e == PutAt(entries, i, key)
<1>1. entries \in [Slots(lg) -> Nat] /\ DOMAIN entries = Slots(lg)
  BY DEF Sound
<1>2. /\ e \in [Slots(lg) -> Nat] /\ DOMAIN e = Slots(lg) /\ e[i] = key
      /\ \A j \in Slots(lg) : j # i => e[j] = entries[j]
  BY <1>1 DEF PutAt
<1> HIDE DEF e
<1>p. \A m \in Slots(lg) : m \in Nat /\ m < Pow2(lg) /\ Pow2(lg) \in Nat
  BY SlotsAre
<1>q. ASSUME NEW m \in Slots(lg), NEW j \in 0 .. m - 1
      PROVE  j \in Slots(lg) /\ j \in Nat /\ j # m
  <2>1. j \in Nat /\ j < Pow2(lg) /\ j # m
    BY <1>p
  <2> QED
    BY <2>1, SlotsAre
<1>3. ASSUME NEW m \in Slots(lg), e[m] # 0
      PROVE  Reaches(e, lg, e[m], m)
  <2>1. CASE m = i
    <3>1. PICK k \in Slots(lg) :
            /\ Probe(key, lg, k) = i
            /\ \A j \in 0 .. k - 1 : entries[Probe(key, lg, j)] \notin {0, key}
      BY DEF Reaches
    <3>2. ASSUME NEW j \in 0 .. k - 1 PROVE e[Probe(key, lg, j)] \notin {0, key}
      <4>1. j \in Slots(lg) /\ j \in Nat /\ j # k
        BY <1>q
      <4>2. Probe(key, lg, j) # i /\ Probe(key, lg, j) \in Slots(lg)
        BY <3>1, <4>1, ProbeMeetsOnce
      <4> QED
        BY <1>2, <3>1, <4>2
    <3> QED
      BY <1>2, <2>1, <3>1, <3>2 DEF Reaches
  <2>2. CASE m # i
    <3>1. e[m] = entries[m] /\ entries[m] # 0 /\ entries[m] \in Nat
      BY <1>1, <1>2, <1>3, <2>2
    <3>2. PICK k \in Slots(lg) :
            /\ Probe(entries[m], lg, k) = m
            /\ \A j \in 0 .. k - 1 :
                 entries[Probe(entries[m], lg, j)] \notin {0, entries[m]}
      BY <3>1 DEF Reaches, Sound
    <3>3. ASSUME NEW j \in 0 .. k - 1
          PROVE  e[Probe(entries[m], lg, j)] \notin {0, entries[m]}
      <4>1. j \in Nat
        BY <1>q
      <4>2. Probe(entries[m], lg, j) \in Slots(lg)
        BY <3>1, <4>1, ProbeMeetsOnce
      <4>3. Probe(entries[m], lg, j) # i
        BY <3>2
      <4> QED
        BY <1>2, <3>2, <4>2, <4>3
    <3> QED
      BY <3>1, <3>2, <3>3 DEF Reaches
  <2> QED
    BY <2>1, <2>2
<1>4. SlotKeys(e) = SlotKeys(entries) \cup {key}
  <2>1. ASSUME NEW h \in SlotKeys(e) PROVE h \in SlotKeys(entries) \cup {key}
    BY <1>1, <1>2 DEF SlotKeys
  <2>2. ASSUME NEW h \in SlotKeys(entries) PROVE h \in SlotKeys(e)
    <3>1. PICK j \in Slots(lg) : entries[j] = h /\ h # 0
      BY <1>1 DEF SlotKeys
    <3>2. j # i
      BY <3>1
    <3> QED
      BY <1>2, <3>1, <3>2 DEF SlotKeys
  <2>3. key \in SlotKeys(e)
    BY <1>2 DEF SlotKeys
  <2> QED
    BY <2>1, <2>2, <2>3
<1> QED
  BY <1>2, <1>3, <1>4 DEF Sound, e

(* One step of a rehash. *)
LEMMA PlaceSound ==
  ASSUME NEW entries, NEW lg \in Nat, NEW key \in Nat \ {0}, Sound(entries, lg),
         key \notin SlotKeys(entries), Cardinality(SlotKeys(entries)) < Pow2(lg)
  PROVE  /\ Sound(Place(entries, lg, key), lg)
         /\ SlotKeys(Place(entries, lg, key)) = SlotKeys(entries) \cup {key}
<1> DEFINE i == Find(entries, lg, key)
<1>1. /\ i \in Slots(lg) /\ i # NoSlot /\ Reaches(entries, lg, key, i)
      /\ entries[i] = 0
  BY FindKey
<1>2. entries # <<>>
  <2>1. DOMAIN entries = Slots(lg)
    BY DEF Sound
  <2>2. DOMAIN <<>> = {}
    OBVIOUS
  <2> QED
    BY <1>1, <2>1, <2>2
<1>3. Place(entries, lg, key) = PutAt(entries, i, key)
  BY <1>1, <1>2 DEF Place, PutAt
<1> HIDE DEF i
<1>4. /\ Sound(PutAt(entries, i, key), lg)
      /\ SlotKeys(PutAt(entries, i, key)) = SlotKeys(entries) \cup {key}
  BY <1>1, PutSound
<1> QED
  BY <1>3, <1>4

(* f holds the table after each of the first m steps of a rehash: what the *)
(* recursion of PlaceAll asks.                                             *)
Placed(f, lg, keys, m) ==
  f = [n \in 0 .. m |-> IF n = 0 THEN AllEmpty(lg) ELSE Place(f[n - 1], lg, keys[n])]

(* One more step of a rehash is the table after the step before it, with *)
(* the next key placed.                                                  *)
LEMMA PlacedGrow ==
  ASSUME NEW lg, NEW keys, NEW m \in Nat, NEW f, Placed(f, lg, keys, m)
  PROVE  Placed([n \in 0 .. m + 1 |-> IF n <= m THEN f[n]
                                      ELSE Place(f[m], lg, keys[m + 1])],
                lg, keys, m + 1)
<1> DEFINE g == [n \in 0 .. m + 1 |-> IF n <= m THEN f[n]
                                      ELSE Place(f[m], lg, keys[m + 1])]
           h == [n \in 0 .. m + 1 |-> IF n = 0 THEN AllEmpty(lg)
                                      ELSE Place(g[n - 1], lg, keys[n])]
<1>1. \A n \in 0 .. m : f[n] = IF n = 0 THEN AllEmpty(lg) ELSE Place(f[n - 1], lg, keys[n])
  BY DEF Placed
<1>2. ASSUME NEW n \in 0 .. m + 1 PROVE g[n] = h[n]
  <2>1. CASE n = 0
    BY <2>1, <1>1
  <2>2. CASE n # 0 /\ n <= m
    <3>1. n \in 0 .. m /\ n - 1 \in 0 .. m + 1 /\ n - 1 <= m
      BY <2>2
    <3>2. g[n] = f[n] /\ g[n - 1] = f[n - 1] /\ h[n] = Place(g[n - 1], lg, keys[n])
      BY <2>2, <3>1
    <3> QED
      BY <3>1, <3>2, <1>1, <2>2
  <2>3. CASE ~(n <= m)
    <3>1. n = m + 1 /\ n - 1 = m /\ n # 0 /\ m \in 0 .. m + 1
      BY <2>3
    <3>2. /\ g[n] = Place(f[m], lg, keys[m + 1]) /\ g[m] = f[m]
          /\ h[n] = Place(g[n - 1], lg, keys[n])
      BY <2>3, <3>1
    <3> QED
      BY <3>1, <3>2
  <2> QED
    BY <2>1, <2>2, <2>3
<1>3. g = h
  BY <1>2
<1> HIDE DEF g
<1> QED
  BY <1>3 DEF Placed, g

(* A rehash can be carried out, however many keys it has. *)
LEMMA PlacedExist ==
  ASSUME NEW lg, NEW keys, NEW m \in Nat
  PROVE  \E f : Placed(f, lg, keys, m)
<1> DEFINE Failing == {k \in Nat : ~\E f : Placed(f, lg, keys, k)}
<1>1. SUFFICES ASSUME Failing # {} PROVE FALSE
  OBVIOUS
<1>2. PICK k \in Failing : \A j \in Failing : k <= j
  BY <1>1, Least
<1>3. CASE k = 0
  <2> DEFINE f == [n \in 0 .. 0 |-> AllEmpty(lg)]
             g == [n \in 0 .. 0 |-> IF n = 0 THEN AllEmpty(lg)
                                    ELSE Place(f[n - 1], lg, keys[n])]
  <2>1. \A n \in 0 .. 0 : f[n] = g[n]
    OBVIOUS
  <2>2. f = g
    BY <2>1
  <2>3. Placed(f, lg, keys, 0)
    BY <2>2 DEF Placed
  <2> QED
    BY <2>3, <1>3
<1>4. CASE k # 0
  <2>1. k - 1 \in Nat /\ k - 1 \notin Failing /\ k = (k - 1) + 1
    BY <1>2, <1>4
  <2>2. PICK f : Placed(f, lg, keys, k - 1)
    BY <2>1
  <2>3. \E g : Placed(g, lg, keys, (k - 1) + 1)
    BY <2>1, <2>2, PlacedGrow
  <2> QED
    BY <2>1, <2>3
<1> QED
  BY <1>3, <1>4

(* A rehash of distinct keys into a table with more slots than keys puts   *)
(* every key where find() will look for it, and nothing else (the loops of *)
(* resize and rebuild).                                                    *)
LEMMA PlaceAllSound ==
  ASSUME NEW lg \in Nat, NEW keys \in Seq(Nat \ {0}), Distinct(keys),
         Len(keys) <= Pow2(lg)
  PROVE  /\ Sound(PlaceAll(lg, keys), lg)
         /\ SlotKeys(PlaceAll(lg, keys)) = KeysOf(keys)
<1>0. Pow2(lg) \in Nat
  BY Pow2Type
<1>1. Len(keys) \in Nat /\ DOMAIN keys = 1 .. Len(keys) /\ Pow2(lg) \in Nat
      /\ \A i \in 1 .. Len(keys) : keys[i] \in Nat \ {0}
  BY <1>0
<1> DEFINE F == CHOOSE f : Placed(f, lg, keys, Len(keys))
           Upto(n) == {keys[i] : i \in 1 .. n}
           Right(n) == Sound(F[n], lg) /\ SlotKeys(F[n]) = Upto(n)
           Failing == {n \in Nat : n <= Len(keys) /\ ~Right(n)}
<1>2. Placed(F, lg, keys, Len(keys))
  BY <1>1, PlacedExist
<1>3. PlaceAll(lg, keys) = F[Len(keys)]
  BY DEF PlaceAll, Placed
<1>4. \A n \in 0 .. Len(keys) :
        F[n] = IF n = 0 THEN AllEmpty(lg) ELSE Place(F[n - 1], lg, keys[n])
  BY <1>2 DEF Placed
<1> HIDE DEF F
<1>5. Right(0)
  <2>1. F[0] = AllEmpty(lg)
    BY <1>1, <1>4
  <2>2. Upto(0) = {}
    OBVIOUS
  <2> QED
    BY <2>1, <2>2, EmptySound
<1>6. ASSUME NEW n \in 1 .. Len(keys), Right(n - 1)
      PROVE  Right(n)
  <2>1. /\ n \in Nat /\ n - 1 \in Nat /\ n # 0 /\ n \in 0 .. Len(keys) /\ n - 1 < n
        /\ n <= Len(keys)
    BY <1>1
  <2>2. F[n] = Place(F[n - 1], lg, keys[n])
    BY <1>4, <2>1
  <2>3. keys[n] \in Nat \ {0} /\ keys[n] \notin Upto(n - 1)
    <3>1. \A i \in 1 .. n - 1 : i \in DOMAIN keys /\ i # n /\ n \in DOMAIN keys
      BY <1>1, <2>1
    <3>2. \A i \in 1 .. n - 1 : keys[i] # keys[n]
      BY <3>1 DEF Distinct
    <3> QED
      BY <1>1, <3>2
  <2>4. Cardinality(Upto(n - 1)) < Pow2(lg)
    <3> DEFINE g == [i \in 1 .. n - 1 |-> keys[i]]
    <3>1. g \in Surjection(1 .. n - 1, Upto(n - 1))
      BY DEF Surjection
    <3>2. IsFiniteSet(1 .. n - 1) /\ Cardinality(1 .. n - 1) = n - 1
      BY <2>1, IntervalCounts
    <3> HIDE DEF g, Upto
    <3>3. IsFiniteSet(Upto(n - 1)) /\ Cardinality(Upto(n - 1)) <= n - 1
      BY <3>1, <3>2, FS_Surjection
    <3>4. Cardinality(Upto(n - 1)) \in Nat
      BY <3>3, FS_CardinalityType
    <3> QED
      BY <1>1, <2>1, <3>3, <3>4
  <2>5. Upto(n) = Upto(n - 1) \cup {keys[n]}
    <3>1. \A i : i \in 1 .. n <=> (i \in 1 .. n - 1 \/ i = n)
      BY <2>1
    <3> QED
      BY <3>1
  <2> HIDE DEF Upto
  <2> QED
    BY <1>6, <2>2, <2>3, <2>4, <2>5, PlaceSound
<1> HIDE DEF Right
<1>7. Right(Len(keys))
  <2>1. SUFFICES ASSUME Failing # {} PROVE FALSE
    BY <1>1
  <2>2. PICK n \in Failing : \A k \in Failing : n <= k
    BY <2>1, Least
  <2>3. n # 0
    BY <1>5, <2>2
  <2>4. n - 1 \in Nat /\ n - 1 \notin Failing /\ n - 1 <= Len(keys) /\ n \in 1 .. Len(keys)
    BY <1>1, <2>2, <2>3
  <2>5. Right(n - 1)
    BY <2>4
  <2> QED
    BY <1>6, <2>2, <2>4, <2>5
<1> QED
  BY <1>1, <1>3, <1>7 DEF KeysOf, Right

-----------------------------------------------------------------------------
(* A table of slots with its fields, its process still running. *)
SlotTable(isEmpty, lgCur, lgNom, rf, num, theta, entries) ==
  [isEmpty |-> isEmpty, lgCur |-> lgCur, lgNom |-> lgNom, rf |-> rf,
   num |-> num, theta |-> theta, entries |-> entries, exited |-> FALSE]

(* The table between two operations, and between the steps of one: every   *)
(* key where find() looks for it, and counted.                             *)
Good(t) ==
  /\ t = SlotTable(t.isEmpty, t.lgCur, t.lgNom, t.rf, t.num, t.theta, t.entries)
  /\ t.isEmpty \in BOOLEAN /\ t.theta \in Nat
  /\ t.lgCur \in Nat /\ t.lgNom \in Nat /\ t.rf \in Nat
  /\ Sound(t.entries, t.lgCur)
  /\ t.num = Cardinality(SlotKeys(t.entries))

(* What UpdateSketch sees of a table of slots. *)
KeyView(t) ==
  [isEmpty |-> t.isEmpty, cur |-> Pow2(t.lgCur), nom |-> Pow2(t.lgNom),
   factor |-> Pow2(t.rf), num |-> t.num, theta |-> t.theta, entries |-> KeySet(t)]

(* A record of UpdateSketch with its fields. *)
KeyTable(isEmpty, cur, nom, factor, num, theta, keys) ==
  [isEmpty |-> isEmpty, cur |-> cur, nom |-> nom, factor |-> factor,
   num |-> num, theta |-> theta, entries |-> keys]

(* A table with its keys in place and counted is good, and is seen with    *)
(* those keys (the state every operation of the class leaves behind).      *)
LEMMA GoodMade ==
  ASSUME NEW isEmpty \in BOOLEAN, NEW lgCur \in Nat, NEW lgNom \in Nat, NEW rf \in Nat,
         NEW num, NEW theta \in Nat, NEW entries,
         Sound(entries, lgCur), num = Cardinality(SlotKeys(entries))
  PROVE  /\ Good(SlotTable(isEmpty, lgCur, lgNom, rf, num, theta, entries))
         /\ KeyView(SlotTable(isEmpty, lgCur, lgNom, rf, num, theta, entries)) =
              KeyTable(isEmpty, Pow2(lgCur), Pow2(lgNom), Pow2(rf),
                       num, theta, SlotKeys(entries))
<1>1. PICK t : t = SlotTable(isEmpty, lgCur, lgNom, rf, num, theta, entries)
  OBVIOUS
<1>2. /\ t.isEmpty = isEmpty /\ t.lgCur = lgCur /\ t.lgNom = lgNom /\ t.rf = rf
      /\ t.num = num /\ t.theta = theta /\ t.entries = entries
  BY <1>1 DEF SlotTable
<1>3. KeySet(t) = SlotKeys(entries)
  BY <1>2 DEF KeySet, SlotKeys
<1>4. Good(t)
  BY <1>1, <1>2 DEF Good
<1>5. KeyView(t) = KeyTable(isEmpty, Pow2(lgCur), Pow2(lgNom), Pow2(rf),
                            num, theta, SlotKeys(entries))
  BY <1>2, <1>3 DEF KeyView, KeyTable
<1> QED
  BY <1>1, <1>4, <1>5

(* A process with a good table is running. *)
LEMMA GoodRuns ==
  ASSUME NEW t, Good(t)
  PROVE  t.exited = FALSE
<1>1. PICK a, b, c, d, e, f, g : t = SlotTable(a, b, c, d, e, f, g)
  BY DEF Good
<1> QED
  BY <1>1 DEF SlotTable

(* A good table is seen with its own keys. *)
LEMMA GoodSeen ==
  ASSUME NEW t, Good(t)
  PROVE  KeyView(t) = KeyTable(t.isEmpty, Pow2(t.lgCur), Pow2(t.lgNom), Pow2(t.rf),
                               t.num, t.theta, SlotKeys(t.entries))
BY DEF KeyView, KeyTable, KeySet, SlotKeys

(* The assignments of resize(), rebuild(), insert(), hash_and_screen() and *)
(* reset().                                                                *)
Sized(t, lg) == [t EXCEPT !.lgCur = lg]
Holding(t, entries) == [t EXCEPT !.entries = entries]
Thinned(t, theta, num) == [t EXCEPT !.theta = theta, !.num = num]
Unemptied(t) == [t EXCEPT !.isEmpty = FALSE]
Joined(t, i, key) == [t EXCEPT !.entries[i] = key, !.num = t.num + 1]
Cleared(t, theta, lg, entries) ==
  [t EXCEPT !.isEmpty = TRUE, !.num = 0, !.theta = theta, !.lgCur = lg,
            !.entries = entries]

(* Each of them leaves the other fields as they were. *)
LEMMA SizedIs ==
  ASSUME NEW isEmpty, NEW lgCur, NEW lgNom, NEW rf, NEW num, NEW theta, NEW entries,
         NEW lg
  PROVE  Sized(SlotTable(isEmpty, lgCur, lgNom, rf, num, theta, entries), lg) =
           SlotTable(isEmpty, lg, lgNom, rf, num, theta, entries)
<1>1. PICK t, u : t = SlotTable(isEmpty, lgCur, lgNom, rf, num, theta, entries)
                  /\ u = Sized(t, lg)
  OBVIOUS
<1>2. u = SlotTable(isEmpty, lg, lgNom, rf, num, theta, entries)
  BY <1>1 DEF SlotTable, Sized
<1> QED
  BY <1>1, <1>2

(* Other entries in the same array: no other field moves. *)
LEMMA HoldingIs ==
  ASSUME NEW isEmpty, NEW lgCur, NEW lgNom, NEW rf, NEW num, NEW theta, NEW entries,
         NEW e
  PROVE  Holding(SlotTable(isEmpty, lgCur, lgNom, rf, num, theta, entries), e) =
           SlotTable(isEmpty, lgCur, lgNom, rf, num, theta, e)
<1>1. PICK t, u : t = SlotTable(isEmpty, lgCur, lgNom, rf, num, theta, entries)
                  /\ u = Holding(t, e)
  OBVIOUS
<1>2. u = SlotTable(isEmpty, lgCur, lgNom, rf, num, theta, e)
  BY <1>1 DEF SlotTable, Holding
<1> QED
  BY <1>1, <1>2

(* rebuild(): the new theta and the new count, no other field. *)
LEMMA ThinnedIs ==
  ASSUME NEW isEmpty, NEW lgCur, NEW lgNom, NEW rf, NEW num, NEW theta, NEW entries,
         NEW p, NEW n
  PROVE  Thinned(SlotTable(isEmpty, lgCur, lgNom, rf, num, theta, entries), p, n) =
           SlotTable(isEmpty, lgCur, lgNom, rf, n, p, entries)
<1>1. PICK t, u : t = SlotTable(isEmpty, lgCur, lgNom, rf, num, theta, entries)
                  /\ u = Thinned(t, p, n)
  OBVIOUS
<1>2. u = SlotTable(isEmpty, lgCur, lgNom, rf, n, p, entries)
  BY <1>1 DEF SlotTable, Thinned
<1> QED
  BY <1>1, <1>2

(* hash_and_screen(): the table is no longer empty, and that is all. *)
LEMMA UnemptiedIs ==
  ASSUME NEW t, Good(t)
  PROVE  Unemptied(t) =
           SlotTable(FALSE, t.lgCur, t.lgNom, t.rf, t.num, t.theta, t.entries)
<1>1. PICK isEmpty, lgCur, lgNom, rf, num, theta, entries :
        /\ isEmpty = t.isEmpty /\ lgCur = t.lgCur /\ lgNom = t.lgNom /\ rf = t.rf
        /\ num = t.num /\ theta = t.theta /\ entries = t.entries
  OBVIOUS
<1>2. t = SlotTable(isEmpty, lgCur, lgNom, rf, num, theta, entries)
  BY <1>1 DEF Good
<1>3. ASSUME NEW u, u = Unemptied(t)
      PROVE  u = SlotTable(FALSE, lgCur, lgNom, rf, num, theta, entries)
  BY <1>2, <1>3 DEF SlotTable, Unemptied
<1> QED
  BY <1>1, <1>3

(* insert(): one slot is written and one key counted. *)
LEMMA JoinedIs ==
  ASSUME NEW isEmpty, NEW lgCur, NEW lgNom, NEW rf, NEW num, NEW theta, NEW entries,
         NEW i, NEW key
  PROVE  Joined(SlotTable(isEmpty, lgCur, lgNom, rf, num, theta, entries), i, key) =
           SlotTable(isEmpty, lgCur, lgNom, rf, num + 1, theta, PutAt(entries, i, key))
<1>1. PICK t, u : t = SlotTable(isEmpty, lgCur, lgNom, rf, num, theta, entries)
                  /\ u = Joined(t, i, key)
  OBVIOUS
<1>2. u = SlotTable(isEmpty, lgCur, lgNom, rf, num + 1, theta, PutAt(entries, i, key))
  BY <1>1 DEF SlotTable, PutAt, Joined
<1> QED
  BY <1>1, <1>2

(* reset(): what it sets, and the two settings it leaves alone. *)
LEMMA ClearedIs ==
  ASSUME NEW t, Good(t), NEW p, NEW lg, NEW e
  PROVE  Cleared(t, p, lg, e) =
           SlotTable(TRUE, lg, t.lgNom, t.rf, 0, p, e)
<1>1. PICK isEmpty, lgCur, lgNom, rf, num, theta, entries :
        /\ isEmpty = t.isEmpty /\ lgCur = t.lgCur /\ lgNom = t.lgNom /\ rf = t.rf
        /\ num = t.num /\ theta = t.theta /\ entries = t.entries
  OBVIOUS
<1>2. t = SlotTable(isEmpty, lgCur, lgNom, rf, num, theta, entries)
  BY <1>1 DEF Good
<1>3. ASSUME NEW u, u = Cleared(t, p, lg, e)
      PROVE  u = SlotTable(TRUE, lg, lgNom, rf, 0, p, e)
  BY <1>2, <1>3 DEF SlotTable, Cleared
<1> QED
  BY <1>1, <1>3

(* Resize of UpdateSketch, field by field. *)
LEMMA KeyResize ==
  ASSUME NEW isEmpty, NEW cur, NEW nom, NEW factor, NEW num, NEW theta, NEW keys
  PROVE  Resize(KeyTable(isEmpty, cur, nom, factor, num, theta, keys)) =
           KeyTable(isEmpty, IF cur * factor <= 2 * nom THEN cur * factor ELSE 2 * nom,
                    nom, factor, num, theta, keys)
<1>1. PICK c : c = IF cur * factor <= 2 * nom THEN cur * factor ELSE 2 * nom
  OBVIOUS
<1>2. PICK t : t = KeyTable(isEmpty, cur, nom, factor, num, theta, keys)
  OBVIOUS
<1>3. t.cur = cur /\ t.nom = nom /\ t.factor = factor
  BY <1>2 DEF KeyTable
<1>4. Resize(t) = [t EXCEPT !.cur = c]
  BY <1>1, <1>3 DEF Resize
<1>5. ASSUME NEW u, u = [t EXCEPT !.cur = c]
      PROVE  u = KeyTable(isEmpty, c, nom, factor, num, theta, keys)
  BY <1>2, <1>5 DEF KeyTable
<1> QED
  BY <1>1, <1>2, <1>4, <1>5

(* Rebuild of UpdateSketch, field by field. *)
LEMMA KeyRebuild ==
  ASSUME NEW isEmpty, NEW cur, NEW nom, NEW factor, NEW num, NEW theta, NEW keys
  PROVE  Rebuild(KeyTable(isEmpty, cur, nom, factor, num, theta, keys)) =
           KeyTable(isEmpty, cur, nom, factor, nom, NthElement(keys, nom),
                    Below(keys, NthElement(keys, nom)))
<1>1. PICK p : p = NthElement(keys, nom)
  OBVIOUS
<1>2. PICK t : t = KeyTable(isEmpty, cur, nom, factor, num, theta, keys)
  OBVIOUS
<1>3. t.entries = keys /\ t.nom = nom
  BY <1>2 DEF KeyTable
<1>4. Rebuild(t) = [t EXCEPT !.theta = p, !.entries = Below(keys, p), !.num = nom]
  BY <1>1, <1>3 DEF Rebuild
<1>5. ASSUME NEW u, NEW b, u = [t EXCEPT !.theta = p, !.entries = b, !.num = nom]
      PROVE  u = KeyTable(isEmpty, cur, nom, factor, nom, p, b)
  BY <1>2, <1>5 DEF KeyTable
<1> QED
  BY <1>1, <1>2, <1>4, <1>5

(* Insert of UpdateSketch, field by field. *)
LEMMA KeyInsert ==
  ASSUME NEW isEmpty, NEW cur, NEW nom, NEW factor, NEW num, NEW theta, NEW keys, NEW h
  PROVE  Insert(KeyTable(isEmpty, cur, nom, factor, num, theta, keys), h) =
           LET u == KeyTable(isEmpty, cur, nom, factor, num + 1, theta, keys \cup {h})
           IN  IF num + 1 <= Capacity(cur, nom) THEN u
               ELSE IF cur <= nom THEN Resize(u) ELSE Rebuild(u)
<1>1. PICK S, n : S = keys \cup {h} /\ n = num + 1
  OBVIOUS
<1>2. PICK t : t = KeyTable(isEmpty, cur, nom, factor, num, theta, keys)
  OBVIOUS
<1>3. t.entries = keys /\ t.num = num
  BY <1>2 DEF KeyTable
<1>4. PICK u : u = [t EXCEPT !.entries = S, !.num = n]
  OBVIOUS
<1>5. u = KeyTable(isEmpty, cur, nom, factor, n, theta, S)
  BY <1>2, <1>4 DEF KeyTable
<1>6. u.num = n /\ u.cur = cur /\ u.nom = nom
  BY <1>5 DEF KeyTable
<1>7. Insert(t, h) = IF u.num <= Capacity(u.cur, u.nom) THEN u
                     ELSE IF u.cur <= u.nom THEN Resize(u) ELSE Rebuild(u)
  BY <1>1, <1>3, <1>4 DEF Insert
<1> QED
  BY <1>1, <1>2, <1>5, <1>6, <1>7

(* Going over a table slot by slot meets every key once. *)
LEMMA KeysInOrderIs ==
  ASSUME NEW t, Good(t)
  PROVE  /\ KeysInOrder(t) \in Seq(Nat \ {0})
         /\ Distinct(KeysInOrder(t))
         /\ KeysOf(KeysInOrder(t)) = SlotKeys(t.entries)
         /\ Len(KeysInOrder(t)) = t.num
         /\ t.num \in Nat /\ t.num <= Pow2(t.lgCur)
<1>0. PICK e : e = t.entries
  OBVIOUS
<1>1. PICK lg \in Nat : /\ lg = t.lgCur /\ e = t.entries /\ Sound(e, lg)
                        /\ t.num = Cardinality(SlotKeys(e))
  BY <1>0 DEF Good
<1>2. PICK n \in Nat : n = Pow2(lg)
  BY Pow2Type
<1> DEFINE q == [i \in 1 .. n |-> e[i - 1]]
           S == SlotKeys(e)
           r == Picked(q, S)
<1>3. KeySet(t) = S /\ KeysInOrder(t) = r
  BY <1>1, <1>2 DEF KeysInOrder, KeySet, SlotKeys
<1>4. DOMAIN e = Slots(lg) /\ \A i \in Slots(lg) : e[i] \in Nat
  BY <1>1 DEF Sound
<1>5. \A i \in 1 .. n : i - 1 \in Slots(lg) /\ i \in Nat
  BY <1>2, SlotsAre
<1>6. q \in Seq(Nat) /\ DOMAIN q = 1 .. n
  BY <1>4, <1>5
<1>7. KeysOf(q) \cap S = S
  <2>1. ASSUME NEW h \in S PROVE h \in KeysOf(q)
    <3>1. PICK i \in Slots(lg) : e[i] = h
      BY <1>4 DEF SlotKeys
    <3>2. i + 1 \in 1 .. n /\ (i + 1) - 1 = i
      BY <1>2, SlotsAre
    <3>3. q[i + 1] = h
      BY <3>1, <3>2
    <3> QED
      BY <1>6, <3>2, <3>3 DEF KeysOf
  <2> QED
    BY <2>1
<1>8. DistinctIn(q, S)
  <2>1. SUFFICES ASSUME NEW i \in 1 .. n, NEW j \in 1 .. n, q[i] \in S, q[i] = q[j]
                 PROVE  i = j
    BY <1>6 DEF DistinctIn
  <2>2. PICK x \in Slots(lg), y \in Slots(lg) : x = i - 1 /\ y = j - 1
    BY <1>5
  <2>3. e[x] = e[y] /\ e[x] # 0
    <3>1. e[x] = q[i] /\ e[y] = q[j]
      BY <2>2
    <3> QED
      BY <2>1, <3>1 DEF SlotKeys
  <2>4. Find(e, lg, e[x]) = x /\ Find(e, lg, e[y]) = y
    BY <1>1, <2>3, StoredFound
  <2>5. x = y
    BY <2>3, <2>4
  <2> QED
    BY <2>2, <2>5, <1>5
<1> HIDE DEF q, S
<1>9. /\ r \in Seq(Nat) /\ KeysOf(r) = S /\ Distinct(r)
  BY <1>6, <1>7, <1>8, PickedIs
<1> HIDE DEF r
<1>10. S \in SUBSET (Nat \ {0}) /\ Cardinality(S) <= Pow2(lg) /\ Cardinality(S) \in Nat
  BY <1>1, SoundCounts DEF S
<1>11. Len(r) = Cardinality(S)
  BY <1>9, DistinctCounts
<1>12. r \in Seq(Nat \ {0})
  <2>1. DOMAIN r = 1 .. Len(r) /\ Len(r) \in Nat
    BY <1>9
  <2>2. \A i \in 1 .. Len(r) : r[i] \in Nat \ {0}
    BY <1>9, <1>10, <2>1 DEF KeysOf
  <2>3. r = [i \in 1 .. Len(r) |-> r[i]]
    BY <1>9
  <2> QED
    BY <2>1, <2>2, <2>3
<1> QED
  BY <1>1, <1>3, <1>9, <1>10, <1>11, <1>12 DEF S

(* An order nth_element may leave distinct keys in has the same keys, each *)
(* once.                                                                   *)
LEMMA OrderIs ==
  ASSUME NEW keys \in Seq(Nat \ {0}), Distinct(keys), NEW s \in Orders(keys)
  PROVE  /\ s \in Seq(Nat \ {0}) /\ Distinct(s)
         /\ KeysOf(s) = KeysOf(keys) /\ Len(s) = Len(keys)
<1> DEFINE D == DOMAIN keys
           K == KeysOf(keys)
<1>1. D = 1 .. Len(keys) /\ Len(keys) \in Nat /\ \A i \in D : keys[i] \in Nat \ {0}
  OBVIOUS
<1>2. s \in [D -> K] /\ \A h \in K : \E i \in D : s[i] = h
  BY DEF Orders, KeysOf
<1>3. K \in SUBSET (Nat \ {0})
  BY <1>1 DEF KeysOf
<1>4. s \in Surjection(D, K)
  BY <1>2 DEF Surjection
<1>5. IsFiniteSet(D) /\ Cardinality(D) = Cardinality(K)
  <2>1. keys \in Seq(Nat)
    BY <1>1
  <2> QED
    BY <1>1, <2>1, IntervalCounts, DistinctCounts
<1> HIDE DEF D, K
<1>6. s \in Injection(D, K)
  BY <1>4, <1>5, FS_Surjection
<1>7. DOMAIN s = D /\ KeysOf(s) = K
  <2>1. DOMAIN s = D
    BY <1>2
  <2>2. \A i \in D : s[i] \in K
    BY <1>2
  <2> QED
    BY <1>2, <2>1, <2>2 DEF KeysOf
<1>8. Distinct(s)
  BY <1>6, <1>7 DEF Injection, IsInjective, Distinct
<1>9. s \in Seq(Nat \ {0}) /\ Len(s) = Len(keys)
  <2>1. s \in [1 .. Len(keys) -> Nat \ {0}]
    BY <1>1, <1>2, <1>3
  <2> QED
    BY <1>1, <2>1
<1> QED
  BY <1>7, <1>8, <1>9 DEF K

(* A rehash that has worked: the new slots are the table's. *)
LEMMA WithEntriesIs ==
  ASSUME NEW t, NEW lg \in Nat, NEW e, Sound(e, lg)
  PROVE  WithEntries(t, e) = Holding(t, e)
<1>1. e # <<>>
  <2>1. DOMAIN e = Slots(lg) /\ 0 \in Slots(lg)
    BY SlotsAre DEF Sound
  <2>2. DOMAIN <<>> = {}
    OBVIOUS
  <2> QED
    BY <2>1, <2>2
<1> QED
  BY <1>1 DEF WithEntries, Holding

(* The logarithm resize() computes. *)
LgGrown(t) == IF t.lgCur + t.rf <= t.lgNom + 1 THEN t.lgCur + t.rf ELSE t.lgNom + 1

(* It is that of the size Resize computes. *)
LEMMA ResizeLg ==
  ASSUME NEW t, Good(t), t.lgCur <= t.lgNom
  PROVE  /\ LgGrown(t) \in Nat /\ t.lgCur <= LgGrown(t)
         /\ Pow2(LgGrown(t)) =
              IF Pow2(t.lgCur) * Pow2(t.rf) <= 2 * Pow2(t.lgNom)
                THEN Pow2(t.lgCur) * Pow2(t.rf) ELSE 2 * Pow2(t.lgNom)
<1>1. PICK c \in Nat, n \in Nat, r \in Nat : c = t.lgCur /\ n = t.lgNom /\ r = t.rf
  BY DEF Good
<1>2. Pow2(n + 1) = 2 * Pow2(n) /\ Pow2(c + r) = Pow2(c) * Pow2(r)
  BY Pow2Doubles, Pow2Sum
<1>3. c + r \in Nat /\ n + 1 \in Nat
  OBVIOUS
<1>4. c + r <= n + 1 <=> Pow2(c + r) <= Pow2(n + 1)
  BY <1>3, Pow2Orders
<1>5. LgGrown(t) = IF c + r <= n + 1 THEN c + r ELSE n + 1
  BY <1>1 DEF LgGrown
<1>6. LgGrown(t) \in Nat /\ c <= LgGrown(t)
  BY <1>1, <1>5
<1> QED
  BY <1>1, <1>2, <1>4, <1>5, <1>6

(* The capacity the slots are tested against is the one Capacity says. *)
LEMMA SlotCapacityIs ==
  ASSUME NEW lgCur \in Nat, NEW lgNom \in Nat
  PROVE  /\ SlotCapacity(lgCur, lgNom) = Capacity(Pow2(lgCur), Pow2(lgNom))
         /\ lgCur <= lgNom <=> Pow2(lgCur) <= Pow2(lgNom)
BY Pow2Orders DEF SlotCapacity, Capacity

(* resize(): all keys rehashed into the larger table, none lost, none      *)
(* hidden; what UpdateSketch says of the keys.                             *)
LEMMA ResizeGood ==
  ASSUME NEW t, Good(t), t.lgCur <= t.lgNom
  PROVE  /\ Good(ResizeSlots(t))
         /\ KeyView(ResizeSlots(t)) = Resize(KeyView(t))
         /\ ResizeSlots(t).lgNom = t.lgNom /\ ResizeSlots(t).rf = t.rf
         /\ t.lgCur <= ResizeSlots(t).lgCur
<1>1. PICK lg : lg = LgGrown(t)
  OBVIOUS
<1>2. PICK keys, e : keys = KeysInOrder(t) /\ e = PlaceAll(lg, keys)
  OBVIOUS
<1>3. ResizeSlots(t) = WithEntries(Sized(t, lg), e)
  BY <1>1, <1>2 DEF ResizeSlots, LgGrown, Sized
<1>4. lg \in Nat /\ t.lgCur <= lg
  BY <1>1, ResizeLg
<1>5. t.lgCur \in Nat
  BY DEF Good
<1>6. Pow2(t.lgCur) \in Nat /\ Pow2(lg) \in Nat /\ Pow2(t.lgCur) <= Pow2(lg)
  BY <1>4, <1>5, Pow2Orders, Pow2Type
<1>7. /\ keys \in Seq(Nat \ {0}) /\ Distinct(keys) /\ KeysOf(keys) = SlotKeys(t.entries)
      /\ Len(keys) <= Pow2(lg)
  <2>1. /\ keys \in Seq(Nat \ {0}) /\ Distinct(keys)
        /\ KeysOf(keys) = SlotKeys(t.entries)
        /\ Len(keys) = t.num /\ t.num \in Nat /\ t.num <= Pow2(t.lgCur)
    BY <1>2, KeysInOrderIs
  <2> QED
    BY <2>1, <1>6
<1>8. Sound(e, lg) /\ SlotKeys(e) = SlotKeys(t.entries)
  BY <1>2, <1>4, <1>7, PlaceAllSound
<1>9. ResizeSlots(t) = SlotTable(t.isEmpty, lg, t.lgNom, t.rf, t.num, t.theta, e)
  <2>1. t = SlotTable(t.isEmpty, t.lgCur, t.lgNom, t.rf, t.num, t.theta, t.entries)
    BY DEF Good
  <2>2. Sized(t, lg) =
          SlotTable(t.isEmpty, lg, t.lgNom, t.rf, t.num, t.theta, t.entries)
    BY <2>1, SizedIs
  <2>3. Holding(Sized(t, lg), e) =
          SlotTable(t.isEmpty, lg, t.lgNom, t.rf, t.num, t.theta, e)
    BY <2>2, HoldingIs
  <2> QED
    BY <1>3, <1>4, <1>8, <2>3, WithEntriesIs
<1>10. /\ t.isEmpty \in BOOLEAN /\ t.lgNom \in Nat /\ t.rf \in Nat /\ t.theta \in Nat
       /\ t.num = Cardinality(SlotKeys(e))
  BY <1>8 DEF Good
<1>11. /\ Good(ResizeSlots(t))
       /\ KeyView(ResizeSlots(t)) =
            KeyTable(t.isEmpty, Pow2(lg), Pow2(t.lgNom), Pow2(t.rf), t.num, t.theta,
                     SlotKeys(e))
  BY <1>4, <1>8, <1>9, <1>10, GoodMade
<1>12. KeyView(ResizeSlots(t)) = Resize(KeyView(t))
  BY <1>1, <1>8, <1>11, GoodSeen, KeyResize, ResizeLg
<1>13. /\ ResizeSlots(t).lgNom = t.lgNom /\ ResizeSlots(t).rf = t.rf
       /\ ResizeSlots(t).lgCur = lg
  BY <1>9 DEF SlotTable
<1> QED
  BY <1>4, <1>11, <1>12, <1>13

(* A sequence of keys among which 0, the mark of a free slot, is not. *)
LEMMA NoMark ==
  ASSUME NEW q \in Seq(Nat), 0 \notin KeysOf(q)
  PROVE  q \in Seq(Nat \ {0})
<1>1. DOMAIN q = 1 .. Len(q) /\ Len(q) \in Nat /\ q = [i \in 1 .. Len(q) |-> q[i]]
  OBVIOUS
<1>2. \A i \in 1 .. Len(q) : q[i] \in Nat \ {0}
  BY <1>1 DEF KeysOf
<1> QED
  BY <1>1, <1>2

(* rebuild(): whatever order nth_element leaves the kept keys in, they are *)
(* the nominal smallest, each where find() will look for it.               *)
LEMMA RebuildGood ==
  ASSUME NEW t, Good(t), Pow2(t.lgNom) < t.num, NEW v \in RebuildSlots(t)
  PROVE  /\ Good(v)
         /\ KeyView(v) = Rebuild(KeyView(t))
         /\ v.lgNom = t.lgNom /\ v.rf = t.rf /\ t.lgCur <= v.lgCur
<1>1. PICK nom, S : nom = Pow2(t.lgNom) /\ S = SlotKeys(t.entries)
  OBVIOUS
<1>2. PICK p, B : p = NthElement(S, nom) /\ B = Below(S, p)
  OBVIOUS
<1>3. PICK keys, kept : keys = KeysInOrder(t) /\ kept = Picked(keys, B)
  OBVIOUS
<1>4. /\ keys \in Seq(Nat \ {0}) /\ Distinct(keys) /\ KeysOf(keys) = S
      /\ Len(keys) = t.num /\ t.num \in Nat /\ t.num <= Pow2(t.lgCur)
  BY <1>1, <1>3, KeysInOrderIs
<1>5. /\ t.isEmpty \in BOOLEAN /\ t.lgCur \in Nat /\ t.lgNom \in Nat /\ t.rf \in Nat
      /\ t.theta \in Nat /\ t.num = Cardinality(S) /\ Sound(t.entries, t.lgCur)
  BY <1>1 DEF Good
<1>6. /\ nom \in Nat /\ nom < Cardinality(S) /\ IsFiniteSet(S)
      /\ S \in SUBSET (Nat \ {0})
  BY <1>1, <1>5, Pow2Type, SoundCounts
<1>7. p \in S /\ p \in Nat /\ Cardinality(B) = nom /\ B \in SUBSET S
  <2>1. S \in SUBSET Nat
    BY <1>6
  <2>2. p \in S /\ Cardinality(B) = nom
    BY <1>2, <1>6, <2>1, NthElementRank
  <2> QED
    BY <1>2, <2>1, <2>2 DEF Below
<1>8. Consolidate(t) = keys
  BY <1>3, <1>4, SubSeqFull DEF Consolidate
<1>9. KeySet(t) = S
  BY <1>1 DEF KeySet, SlotKeys
<1>10. PICK s \in Orders(kept) : v = WithEntries(Thinned(t, p, nom), PlaceAll(t.lgCur, s))
  BY <1>1, <1>2, <1>3, <1>8, <1>9 DEF RebuildSlots, Thinned
<1>11. kept \in Seq(Nat \ {0}) /\ Distinct(kept) /\ KeysOf(kept) = B /\ Len(kept) = nom
  <2>1. keys \in Seq(Nat) /\ DistinctIn(keys, B)
    BY <1>4, DistinctAnywhere
  <2>2. kept \in Seq(Nat) /\ KeysOf(kept) = KeysOf(keys) \cap B /\ Distinct(kept)
    BY <1>3, <2>1, PickedIs
  <2>3. KeysOf(kept) = B
    BY <1>4, <1>7, <2>2
  <2>4. 0 \notin KeysOf(kept)
    BY <1>6, <1>7, <2>3
  <2>5. Len(kept) = Cardinality(B)
    BY <2>2, <2>3, DistinctCounts
  <2> QED
    BY <1>7, <2>2, <2>3, <2>4, <2>5, NoMark
<1>12. s \in Seq(Nat \ {0}) /\ Distinct(s) /\ KeysOf(s) = B /\ Len(s) = nom
  BY <1>10, <1>11, OrderIs
<1>13. PICK e : e = PlaceAll(t.lgCur, s)
  OBVIOUS
<1>14. Sound(e, t.lgCur) /\ SlotKeys(e) = B
  <2>1. Pow2(t.lgCur) \in Nat
    BY <1>5, Pow2Type
  <2>2. Len(s) <= Pow2(t.lgCur)
    BY <1>4, <1>5, <1>6, <1>12, <2>1
  <2> QED
    BY <1>5, <1>12, <1>13, <2>2, PlaceAllSound
<1>15. v = SlotTable(t.isEmpty, t.lgCur, t.lgNom, t.rf, nom, p, e)
  <2>1. t = SlotTable(t.isEmpty, t.lgCur, t.lgNom, t.rf, t.num, t.theta, t.entries)
    BY DEF Good
  <2>2. Thinned(t, p, nom) =
          SlotTable(t.isEmpty, t.lgCur, t.lgNom, t.rf, nom, p, t.entries)
    BY <2>1, ThinnedIs
  <2>3. Holding(Thinned(t, p, nom), e) =
          SlotTable(t.isEmpty, t.lgCur, t.lgNom, t.rf, nom, p, e)
    BY <2>2, HoldingIs
  <2> QED
    BY <1>5, <1>10, <1>13, <1>14, <2>3, WithEntriesIs
<1>16. /\ Good(v)
       /\ KeyView(v) = KeyTable(t.isEmpty, Pow2(t.lgCur), Pow2(t.lgNom), Pow2(t.rf),
                                nom, p, SlotKeys(e))
  BY <1>5, <1>7, <1>14, <1>15, GoodMade
<1>17. Rebuild(KeyView(t)) =
         KeyTable(t.isEmpty, Pow2(t.lgCur), Pow2(t.lgNom), Pow2(t.rf), nom, p, B)
  BY <1>1, <1>2, GoodSeen, KeyRebuild
<1>18. v.lgNom = t.lgNom /\ v.rf = t.rf /\ v.lgCur = t.lgCur
  BY <1>15 DEF SlotTable
<1> QED
  BY <1>5, <1>14, <1>16, <1>17, <1>18

(* insert(): the key put where find() stopped, then the table grown or     *)
(* thinned; what UpdateSketch says of the keys.                            *)
LEMMA InsertGood ==
  ASSUME NEW t, Good(t), NEW key \in Nat \ {0}, key \notin SlotKeys(t.entries),
         t.num < Pow2(t.lgCur), t.lgCur <= t.lgNom + 1,
         NEW v \in InsertSlots(t, Find(t.entries, t.lgCur, key), key)
  PROVE  /\ Good(v)
         /\ KeyView(v) = Insert(KeyView(t), key)
         /\ v.lgNom = t.lgNom /\ v.rf = t.rf /\ t.lgCur <= v.lgCur
<1>1. PICK i, e, n, S :
        /\ i = Find(t.entries, t.lgCur, key) /\ e = PutAt(t.entries, i, key)
        /\ n = t.num + 1 /\ S = SlotKeys(t.entries)
  OBVIOUS
<1>2. /\ t.isEmpty \in BOOLEAN /\ t.lgCur \in Nat /\ t.lgNom \in Nat /\ t.rf \in Nat
      /\ t.theta \in Nat /\ t.num = Cardinality(S) /\ Sound(t.entries, t.lgCur)
  BY <1>1 DEF Good
<1>3. /\ i \in Slots(t.lgCur) /\ Reaches(t.entries, t.lgCur, key, i)
      /\ t.entries[i] = 0
  BY <1>1, <1>2, FindKey
<1>4. Sound(e, t.lgCur) /\ SlotKeys(e) = S \cup {key}
  BY <1>1, <1>2, <1>3, PutSound
<1>5. n = Cardinality(S \cup {key}) /\ n \in Nat
  <2>1. IsFiniteSet(S) /\ Cardinality(S) \in Nat
    BY <1>1, <1>2, SoundCounts
  <2>2. Cardinality(S \cup {key}) = Cardinality(S) + 1
    BY <1>1, <2>1, FS_AddElement
  <2> QED
    BY <1>1, <1>2, <2>1, <2>2
<1>6. PICK u : u = Joined(t, i, key)
  OBVIOUS
<1>7. u = SlotTable(t.isEmpty, t.lgCur, t.lgNom, t.rf, n, t.theta, e)
  <2>1. t = SlotTable(t.isEmpty, t.lgCur, t.lgNom, t.rf, t.num, t.theta, t.entries)
    BY DEF Good
  <2> QED
    BY <1>1, <1>6, <2>1, JoinedIs
<1>8. u.num = n /\ u.lgCur = t.lgCur /\ u.lgNom = t.lgNom /\ u.rf = t.rf
  BY <1>7 DEF SlotTable
<1>9. v \in IF n <= SlotCapacity(t.lgCur, t.lgNom) THEN {u}
            ELSE IF t.lgCur <= t.lgNom THEN {ResizeSlots(u)}
            ELSE RebuildSlots(u)
  BY <1>1, <1>6, <1>8 DEF InsertSlots, Joined
<1>10. /\ Good(u)
       /\ KeyView(u) = KeyTable(t.isEmpty, Pow2(t.lgCur), Pow2(t.lgNom), Pow2(t.rf),
                                n, t.theta, S \cup {key})
  <2>1. n = Cardinality(SlotKeys(e))
    BY <1>4, <1>5
  <2>2. /\ Good(u)
        /\ KeyView(u) = KeyTable(t.isEmpty, Pow2(t.lgCur), Pow2(t.lgNom), Pow2(t.rf),
                                 n, t.theta, SlotKeys(e))
    <3>1. /\ t.isEmpty \in BOOLEAN /\ t.lgCur \in Nat /\ t.lgNom \in Nat
          /\ t.rf \in Nat /\ t.theta \in Nat /\ Sound(e, t.lgCur)
      BY <1>2, <1>4
    <3> QED
      BY <3>1, <1>7, <2>1, GoodMade
  <2> QED
    BY <1>4, <2>2
<1>11. Insert(KeyView(t), key) =
         IF n <= Capacity(Pow2(t.lgCur), Pow2(t.lgNom)) THEN KeyView(u)
         ELSE IF Pow2(t.lgCur) <= Pow2(t.lgNom) THEN Resize(KeyView(u))
         ELSE Rebuild(KeyView(u))
  <2>1. KeyView(t) = KeyTable(t.isEmpty, Pow2(t.lgCur), Pow2(t.lgNom), Pow2(t.rf),
                              t.num, t.theta, S)
    BY <1>1, GoodSeen
  <2> QED
    BY <1>1, <1>10, <2>1, KeyInsert
<1>12. /\ SlotCapacity(t.lgCur, t.lgNom) = Capacity(Pow2(t.lgCur), Pow2(t.lgNom))
       /\ t.lgCur <= t.lgNom <=> Pow2(t.lgCur) <= Pow2(t.lgNom)
  BY <1>2, SlotCapacityIs
<1>13. CASE n <= SlotCapacity(t.lgCur, t.lgNom)
  BY <1>2, <1>8, <1>9, <1>10, <1>11, <1>12, <1>13
<1>14. CASE ~(n <= SlotCapacity(t.lgCur, t.lgNom)) /\ t.lgCur <= t.lgNom
  <2>1. v = ResizeSlots(u) /\ u.lgCur <= u.lgNom
    BY <1>8, <1>9, <1>14
  <2>2. /\ Good(v) /\ KeyView(v) = Resize(KeyView(u))
        /\ v.lgNom = u.lgNom /\ v.rf = u.rf /\ u.lgCur <= v.lgCur
    BY <1>10, <2>1, ResizeGood
  <2> QED
    BY <1>8, <1>11, <1>12, <1>14, <2>2
<1>15. CASE ~(n <= SlotCapacity(t.lgCur, t.lgNom)) /\ ~(t.lgCur <= t.lgNom)
  <2>1. v \in RebuildSlots(u)
    BY <1>9, <1>15
  <2>2. Pow2(u.lgNom) < u.num
    <3>1. PICK m \in Nat \ {0} : m = Pow2(t.lgNom)
      BY <1>2, Pow2Type
    <3>2. t.lgCur = t.lgNom + 1
      BY <1>2, <1>15
    <3>3. Pow2(t.lgCur) = 2 * m
      BY <1>2, <3>1, <3>2, Pow2Doubles
    <3>4. SlotCapacity(t.lgCur, t.lgNom) = (15 * (2 * m)) \div 16
      BY <1>15, <3>3 DEF SlotCapacity
    <3>5. m <= (15 * (2 * m)) \div 16
      BY <3>1
    <3>6. ~(n <= (15 * (2 * m)) \div 16)
      BY <1>15, <3>4
    <3>7. m < n
      BY <1>5, <3>1, <3>5, <3>6
    <3> QED
      BY <1>8, <3>1, <3>7
  <2>3. /\ Good(v) /\ KeyView(v) = Rebuild(KeyView(u))
        /\ v.lgNom = u.lgNom /\ v.rf = u.rf /\ u.lgCur <= v.lgCur
    BY <1>10, <2>1, <2>2, RebuildGood
  <2> QED
    BY <1>8, <1>11, <1>12, <1>15, <2>3
<1> QED
  BY <1>13, <1>14, <1>15

(* update() and update_by_hash() on the slots: find() ends, and the keys   *)
(* change as UpdateSketch says.                                            *)
LEMMA OfferGood ==
  ASSUME NEW t, Good(t), t.num < Pow2(t.lgCur), t.lgCur <= t.lgNom + 1,
         NEW h \in Nat, NEW v \in OfferSlots(t, h)
  PROVE  /\ Good(v)
         /\ KeyView(v) = Offer(KeyView(t), h)
         /\ v.lgNom = t.lgNom /\ v.rf = t.rf /\ t.lgCur <= v.lgCur
<1>1. PICK S, b : S = SlotKeys(t.entries) /\ b = FALSE
  OBVIOUS
<1>2. /\ t.isEmpty \in BOOLEAN /\ t.lgCur \in Nat /\ t.lgNom \in Nat /\ t.rf \in Nat
      /\ t.theta \in Nat /\ t.num = Cardinality(SlotKeys(t.entries))
      /\ Sound(t.entries, t.lgCur) /\ b \in BOOLEAN
  BY <1>1 DEF Good
<1>3. PICK u : u = Unemptied(t)
  OBVIOUS
<1>4. u = SlotTable(b, t.lgCur, t.lgNom, t.rf, t.num, t.theta, t.entries)
  BY <1>1, <1>3, UnemptiedIs
<1>5. /\ u.num = t.num /\ u.lgCur = t.lgCur /\ u.lgNom = t.lgNom /\ u.rf = t.rf
      /\ u.theta = t.theta /\ u.entries = t.entries
  BY <1>4 DEF SlotTable
<1>6. /\ Good(u)
      /\ KeyView(u) = KeyTable(b, Pow2(t.lgCur), Pow2(t.lgNom), Pow2(t.rf),
                               t.num, t.theta, SlotKeys(t.entries))
  BY <1>2, <1>4, GoodMade
<1>7. Unempty(KeyView(t)) = KeyView(u)
  <2>1. PICK w : w = KeyView(t)
    OBVIOUS
  <2>2. w = KeyTable(t.isEmpty, Pow2(t.lgCur), Pow2(t.lgNom), Pow2(t.rf),
                     t.num, t.theta, SlotKeys(t.entries))
    BY <2>1, GoodSeen
  <2>3. ASSUME NEW x, x = Unempty(w)
        PROVE  x = KeyTable(b, Pow2(t.lgCur), Pow2(t.lgNom), Pow2(t.rf),
                            t.num, t.theta, SlotKeys(t.entries))
    BY <1>1, <2>2, <2>3 DEF KeyTable, Unempty
  <2> QED
    BY <1>6, <2>1, <2>3
<1>8. KeyView(u).theta = t.theta /\ KeyView(u).entries = S
  BY <1>1, <1>6 DEF KeyTable
<1>9. Offer(KeyView(t), h) = IF h # 0 /\ h < t.theta /\ h \notin S
                               THEN Insert(KeyView(u), h) ELSE KeyView(u)
  BY <1>7, <1>8 DEF Offer, Passes
<1>10. v \in IF h = 0 \/ h >= t.theta THEN {u} ELSE FindInsert(u, h)
  BY <1>3, <1>5 DEF OfferSlots, Unemptied
<1>11. CASE h = 0 \/ h >= t.theta
  <2>1. ~(h # 0 /\ h < t.theta)
    BY <1>2, <1>11
  <2> QED
    BY <1>2, <1>5, <1>6, <1>9, <1>10, <1>11, <2>1
<1>12. CASE ~(h = 0 \/ h >= t.theta)
  <2>1. PICK i : i = Find(t.entries, t.lgCur, h)
    OBVIOUS
  <2>2. h \in Nat \ {0} /\ h < t.theta
    BY <1>2, <1>12
  <2>3. Cardinality(SlotKeys(t.entries)) < Pow2(t.lgCur)
    BY <1>2
  <2>4. /\ i # NoSlot
        /\ h \in S => t.entries[i] = h
        /\ h \notin S => t.entries[i] = 0
    BY <1>1, <1>2, <2>1, <2>2, <2>3, FindKey
  <2>5. v \in IF t.entries[i] = h THEN {u} ELSE InsertSlots(u, i, h)
    BY <1>5, <1>10, <1>12, <2>1, <2>4 DEF FindInsert
  <2>6. CASE h \in S
    <3>1. v = u
      BY <2>4, <2>5, <2>6
    <3> QED
      BY <1>2, <1>5, <1>6, <1>9, <2>6, <3>1
  <2>7. CASE h \notin S
    <3>1. t.entries[i] # h
      BY <2>2, <2>4, <2>7
    <3>2. v \in InsertSlots(u, Find(u.entries, u.lgCur, h), h)
      BY <1>5, <2>1, <2>5, <3>1
    <3>3. h \notin SlotKeys(u.entries) /\ u.num < Pow2(u.lgCur) /\ u.lgCur <= u.lgNom + 1
      BY <1>1, <1>5, <2>7
    <3>4. /\ Good(v) /\ KeyView(v) = Insert(KeyView(u), h)
          /\ v.lgNom = u.lgNom /\ v.rf = u.rf /\ u.lgCur <= v.lgCur
      BY <1>6, <2>2, <3>2, <3>3, InsertGood
    <3> QED
      BY <1>5, <1>9, <2>2, <2>7, <3>4
  <2> QED
    BY <2>6, <2>7
<1> QED
  BY <1>11, <1>12

(* trim() on the slots. *)
LEMMA TrimGood ==
  ASSUME NEW t, Good(t), NEW v \in TrimSlots(t)
  PROVE  /\ Good(v)
         /\ KeyView(v) = Trim(KeyView(t))
         /\ v.lgNom = t.lgNom /\ v.rf = t.rf /\ t.lgCur <= v.lgCur
<1>1. KeyView(t).num = t.num /\ KeyView(t).nom = Pow2(t.lgNom)
  BY DEF KeyView
<1>2. Trim(KeyView(t)) = IF t.num > Pow2(t.lgNom) THEN Rebuild(KeyView(t)) ELSE KeyView(t)
  BY <1>1 DEF Trim
<1>3. t.num \in Nat /\ Pow2(t.lgNom) \in Nat
  BY KeysInOrderIs, Pow2Type DEF Good
<1>4. CASE t.num > Pow2(t.lgNom)
  <2>1. v \in RebuildSlots(t) /\ Pow2(t.lgNom) < t.num
    BY <1>3, <1>4 DEF TrimSlots
  <2> QED
    BY <1>2, <1>4, <2>1, RebuildGood
<1>5. CASE ~(t.num > Pow2(t.lgNom))
  <2>1. v = t /\ t.lgCur \in Nat
    BY <1>5 DEF TrimSlots, Good
  <2> QED
    BY <1>2, <1>5, <2>1
<1> QED
  BY <1>4, <1>5

(* A table of lg slots, all free: what the builder makes and what reset()  *)
(* leaves.                                                                 *)
LEMMA ClearGood ==
  ASSUME NEW lg \in Nat, NEW lgNom \in Nat, NEW rf \in Nat, NEW theta \in Nat
  PROVE  /\ Good(SlotTable(TRUE, lg, lgNom, rf, 0, theta, AllEmpty(lg)))
         /\ KeyView(SlotTable(TRUE, lg, lgNom, rf, 0, theta, AllEmpty(lg))) =
              NewTable(Pow2(lg), Pow2(lgNom), Pow2(rf), theta, TRUE)
<1>1. PICK b, n, e : b = TRUE /\ n = 0 /\ e = AllEmpty(lg)
  OBVIOUS
<1>2. b \in BOOLEAN /\ Sound(e, lg) /\ SlotKeys(e) = {}
  BY <1>1, EmptySound
<1>3. n = Cardinality(SlotKeys(e))
  BY <1>1, <1>2, FS_EmptySet
<1>4. /\ Good(SlotTable(b, lg, lgNom, rf, n, theta, e))
      /\ KeyView(SlotTable(b, lg, lgNom, rf, n, theta, e)) =
           KeyTable(b, Pow2(lg), Pow2(lgNom), Pow2(rf), n, theta, SlotKeys(e))
  BY <1>2, <1>3, GoodMade
<1>5. KeyTable(b, Pow2(lg), Pow2(lgNom), Pow2(rf), n, theta, {}) =
        NewTable(Pow2(lg), Pow2(lgNom), Pow2(rf), theta, TRUE)
  BY <1>1 DEF KeyTable, NewTable
<1> QED
  BY <1>1, <1>2, <1>4, <1>5

(* reset(): the table as it was built, with the start theta. *)
LEMMA ResetGood ==
  ASSUME NEW t, Good(t), NEW theta \in Nat,
         NEW lg \in Nat, lg = StartingSubMultiple(t.lgNom + 1, MinLgK, t.rf)
  PROVE  /\ Good(ResetSlots(t, theta))
         /\ KeyView(ResetSlots(t, theta)) =
              NewTable(Pow2(lg), Pow2(t.lgNom), Pow2(t.rf), theta, TRUE)
         /\ ResetSlots(t, theta).lgNom = t.lgNom /\ ResetSlots(t, theta).rf = t.rf
<1>1. t.lgNom \in Nat /\ t.rf \in Nat
  BY DEF Good
<1>2. ResetSlots(t, theta) = Cleared(t, theta, lg, AllEmpty(lg))
  BY DEF ResetSlots, Cleared
<1>3. ResetSlots(t, theta) = SlotTable(TRUE, lg, t.lgNom, t.rf, 0, theta, AllEmpty(lg))
  BY <1>2, ClearedIs
<1>4. ResetSlots(t, theta).lgNom = t.lgNom /\ ResetSlots(t, theta).rf = t.rf
  BY <1>3 DEF SlotTable
<1> QED
  BY ZenonT(40), <1>1, <1>3, <1>4, ClearGood

(* Between operations a slot is free: the capacity is below the size. *)
LEMMA RoomLeft ==
  ASSUME NEW t, Good(t), NEW sizes, TableOK(KeyView(t), sizes)
  PROVE  /\ t.num \in Nat /\ t.num < Pow2(t.lgCur)
         /\ Pow2(t.lgCur) \in sizes
<1>1. PICK k, c, n : /\ k = KeyView(t) /\ c = Pow2(t.lgCur) /\ n = Pow2(t.lgNom)
  OBVIOUS
<1>2. k.cur = c /\ k.nom = n /\ k.num = t.num
  BY <1>1 DEF KeyView
<1>3. k.cur \in sizes /\ k.num \in Nat /\ k.nom \in Nat /\ sizes \in SUBSET (2 .. 2 * k.nom)
  BY <1>1 DEF TableOK, Tables, SizesOK
<1>4. c \in sizes /\ t.num \in Nat /\ c \in Nat /\ c >= 2
  <2>1. c \in sizes /\ t.num \in Nat
    BY <1>2, <1>3
  <2>2. c \in 2 .. 2 * k.nom /\ k.nom \in Nat
    BY <1>3, <2>1
  <2> QED
    BY <2>1, <2>2
<1>5. t.num <= Capacity(c, n)
  BY <1>1, <1>2 DEF TableOK
<1>6. Capacity(c, n) < c /\ Capacity(c, n) \in Nat
  BY <1>4 DEF Capacity
<1> QED
  BY <1>1, <1>4, <1>5, <1>6

-----------------------------------------------------------------------------
(* The table a compute() starts with. *)
EmptyTable(lg) == NewSlots(lg, lg, 0, 0, TRUE)

(* The hash table of b while it is filled: nominal and current size are    *)
(* the same and it cannot grow (resize_factor::X1).                        *)
Fixed(t, lg) == Good(t) /\ t.lgCur = lg /\ t.lgNom = lg /\ t.rf = 0

(* It is well-formed and empty. *)
LEMMA NewIsFixed ==
  ASSUME NEW lg \in Nat
  PROVE  /\ Fixed(EmptyTable(lg), lg)
         /\ SlotKeys(EmptyTable(lg).entries) = {} /\ EmptyTable(lg).num = 0
<1>1. PICK t, n, b : t = EmptyTable(lg) /\ n = 0 /\ b = TRUE
  OBVIOUS
<1>2. t = SlotTable(b, lg, lg, n, n, n, AllEmpty(lg))
  BY <1>1 DEF EmptyTable, NewSlots, SlotTable
<1>3. Good(t)
  <2>1. Good(SlotTable(TRUE, lg, lg, 0, 0, 0, AllEmpty(lg)))
    BY ClearGood
  <2> QED
    BY <1>1, <1>2, <2>1
<1>4. t.lgCur = lg /\ t.lgNom = lg /\ t.rf = 0 /\ t.num = 0 /\ t.entries = AllEmpty(lg)
  BY <1>1 DEF EmptyTable, NewSlots
<1> QED
  BY <1>1, <1>3, <1>4, EmptySound DEF Fixed

(* table.insert(table.find(hash).first, hash): while there is room the key *)
(* joins the others and the table keeps its size, rehashed or not.         *)
LEMMA InsertFoundIs ==
  ASSUME NEW lg \in Nat, NEW t, Fixed(t, lg), NEW key \in Nat \ {0},
         key \notin SlotKeys(t.entries), t.num < Pow2(lg)
  PROVE  /\ Fixed(InsertFound(t, key), lg)
         /\ SlotKeys(InsertFound(t, key).entries) = SlotKeys(t.entries) \cup {key}
         /\ InsertFound(t, key).num = t.num + 1
<1>1. PICK i, v, S, c : /\ i = Find(t.entries, t.lgCur, key)
                        /\ v = InsertFound(t, key)
                        /\ S = SlotKeys(t.entries) /\ c = Pow2(lg)
  OBVIOUS
<1>2. /\ Good(t) /\ t.lgCur = lg /\ t.lgNom = lg /\ t.rf = 0
      /\ Sound(t.entries, lg) /\ t.num = Cardinality(S) /\ t.exited = FALSE
  BY <1>1, GoodRuns DEF Fixed, Good
<1>3. i # NoSlot
  BY <1>1, <1>2, FindKey
<1>4. v = CHOOSE u \in InsertSlots(t, i, key) : TRUE
  BY <1>1, <1>2, <1>3 DEF InsertFound
<1>5. InsertSlots(t, i, key) # {}
  <2>1. PICK u : u = Joined(t, i, key)
    OBVIOUS
  <2>2. t = SlotTable(t.isEmpty, t.lgCur, t.lgNom, t.rf, t.num, t.theta, t.entries)
    BY <1>2 DEF Good
  <2>3. u = SlotTable(t.isEmpty, t.lgCur, t.lgNom, t.rf, t.num + 1, t.theta,
                      PutAt(t.entries, i, key))
    BY <2>1, <2>2, JoinedIs
  <2>4. u.lgCur = lg /\ u.lgNom = lg
    BY <1>2, <2>3 DEF SlotTable
  <2>5. InsertSlots(t, i, key) = IF u.num <= SlotCapacity(u.lgCur, u.lgNom) THEN {u}
                                 ELSE IF u.lgCur <= u.lgNom THEN {ResizeSlots(u)}
                                 ELSE RebuildSlots(u)
    BY <2>1 DEF InsertSlots, Joined
  <2> QED
    BY <2>4, <2>5
<1>6. v \in InsertSlots(t, i, key)
  BY <1>4, <1>5
<1>7. Good(v) /\ KeyView(v) = Insert(KeyView(t), key) /\ v.lgNom = lg /\ v.rf = 0
  <2>1. t.lgCur <= t.lgNom + 1 /\ t.num < Pow2(t.lgCur)
    BY <1>2
  <2> QED
    BY <1>1, <1>2, <1>6, <2>1, InsertGood
<1>8. PICK b, n, p : b = t.isEmpty /\ n = t.num /\ p = t.theta
  OBVIOUS
<1>9. KeyView(t) = KeyTable(b, c, c, 1, n, p, S)
  <2>1. Pow2(0) = 1
    BY Pow2Doubles
  <2> QED
    BY <1>1, <1>2, <1>8, <2>1, GoodSeen
<1>10. c \in Nat
  BY <1>1, Pow2Type
<1>11. KeyView(v) = KeyTable(b, c, c, 1, n + 1, p, S \cup {key})
  <2>1. PICK u : u = KeyTable(b, c, c, 1, n + 1, p, S \cup {key})
    OBVIOUS
  <2>2. Insert(KeyTable(b, c, c, 1, n, p, S), key) =
          IF n + 1 <= Capacity(c, c) THEN u ELSE IF c <= c THEN Resize(u) ELSE Rebuild(u)
    BY <2>1, KeyInsert
  <2>3. Resize(u) = KeyTable(b, IF c * 1 <= 2 * c THEN c * 1 ELSE 2 * c, c, 1, n + 1, p,
                             S \cup {key})
    BY <2>1, KeyResize
  <2>4. c * 1 = c /\ c <= 2 * c /\ c <= c
    BY <1>10
  <2> QED
    BY <1>7, <1>9, <2>1, <2>2, <2>3, <2>4
<1>12. /\ Pow2(v.lgCur) = c /\ v.num = n + 1 /\ SlotKeys(v.entries) = S \cup {key}
  <2>1. KeyView(v) = KeyTable(v.isEmpty, Pow2(v.lgCur), Pow2(v.lgNom), Pow2(v.rf),
                              v.num, v.theta, SlotKeys(v.entries))
    BY <1>7, GoodSeen
  <2> QED
    BY <1>11, <2>1 DEF KeyTable
<1>13. v.lgCur = lg
  <2>1. v.lgCur \in Nat
    BY <1>7 DEF Good
  <2> QED
    BY <1>1, <1>12, <2>1, Pow2Orders
<1> QED
  BY <1>1, <1>7, <1>8, <1>12, <1>13 DEF Fixed

-----------------------------------------------------------------------------
(* f holds the table after each of the first m insertions: what the        *)
(* recursion of TableOf asks.                                              *)
Inserted(f, lg, keys, m) ==
  f = [n \in 0 .. m |-> IF n = 0 THEN EmptyTable(lg)
                        ELSE InsertFound(f[n - 1], keys[n])]

(* One more insertion. *)
LEMMA InsertedGrow ==
  ASSUME NEW lg, NEW keys, NEW m \in Nat, NEW f, Inserted(f, lg, keys, m)
  PROVE  Inserted([n \in 0 .. m + 1 |-> IF n <= m THEN f[n]
                                        ELSE InsertFound(f[m], keys[m + 1])],
                  lg, keys, m + 1)
<1> DEFINE g == [n \in 0 .. m + 1 |-> IF n <= m THEN f[n]
                                      ELSE InsertFound(f[m], keys[m + 1])]
           h == [n \in 0 .. m + 1 |-> IF n = 0 THEN EmptyTable(lg)
                                      ELSE InsertFound(g[n - 1], keys[n])]
<1>1. \A n \in 0 .. m : f[n] = IF n = 0 THEN EmptyTable(lg)
                               ELSE InsertFound(f[n - 1], keys[n])
  BY DEF Inserted
<1>2. ASSUME NEW n \in 0 .. m + 1 PROVE g[n] = h[n]
  <2>1. CASE n = 0
    BY <2>1, <1>1
  <2>2. CASE n # 0 /\ n <= m
    <3>1. n \in 0 .. m /\ n - 1 \in 0 .. m + 1 /\ n - 1 <= m
      BY <2>2
    <3>2. g[n] = f[n] /\ g[n - 1] = f[n - 1] /\ h[n] = InsertFound(g[n - 1], keys[n])
      BY <2>2, <3>1
    <3> QED
      BY <3>1, <3>2, <1>1, <2>2
  <2>3. CASE ~(n <= m)
    <3>1. n = m + 1 /\ n - 1 = m /\ n # 0 /\ m \in 0 .. m + 1
      BY <2>3
    <3>2. /\ g[n] = InsertFound(f[m], keys[m + 1]) /\ g[m] = f[m]
          /\ h[n] = InsertFound(g[n - 1], keys[n])
      BY <2>3, <3>1
    <3> QED
      BY <3>1, <3>2
  <2> QED
    BY <2>1, <2>2, <2>3
<1>3. g = h
  BY <1>2
<1> HIDE DEF g
<1> QED
  BY <1>3 DEF Inserted, g

(* The table of b can be filled, however many keys it has. *)
LEMMA InsertedExist ==
  ASSUME NEW lg, NEW keys, NEW m \in Nat
  PROVE  \E f : Inserted(f, lg, keys, m)
<1> DEFINE Failing == {k \in Nat : ~\E f : Inserted(f, lg, keys, k)}
<1>1. SUFFICES ASSUME Failing # {} PROVE FALSE
  OBVIOUS
<1>2. PICK k \in Failing : \A j \in Failing : k <= j
  BY <1>1, Least
<1>3. CASE k = 0
  <2> DEFINE f == [n \in 0 .. 0 |-> EmptyTable(lg)]
             g == [n \in 0 .. 0 |-> IF n = 0 THEN EmptyTable(lg)
                                    ELSE InsertFound(f[n - 1], keys[n])]
  <2>1. \A n \in 0 .. 0 : f[n] = g[n]
    OBVIOUS
  <2>2. f = g
    BY <2>1
  <2>3. Inserted(f, lg, keys, 0)
    BY <2>2 DEF Inserted
  <2> QED
    BY <2>3, <1>3
<1>4. CASE k # 0
  <2>1. k - 1 \in Nat /\ k - 1 \notin Failing /\ k = (k - 1) + 1
    BY <1>2, <1>4
  <2>2. PICK f : Inserted(f, lg, keys, k - 1)
    BY <2>1
  <2>3. \E g : Inserted(g, lg, keys, (k - 1) + 1)
    BY <2>1, <2>2, InsertedGrow
  <2> QED
    BY <2>1, <2>3
<1> QED
  BY <1>3, <1>4

(* The loop over distinct keys, fewer than the table has slots, puts each  *)
(* of them where find() will look for it.                                  *)
LEMMA LoopFills ==
  ASSUME NEW lg \in Nat, NEW keys \in Seq(Nat \ {0}), Distinct(keys),
         Len(keys) < Pow2(lg), NEW f, Inserted(f, lg, keys, Len(keys))
  PROVE  /\ Fixed(f[Len(keys)], lg)
         /\ SlotKeys(f[Len(keys)].entries) = KeysOf(keys)
         /\ f[Len(keys)].num = Len(keys)
<1>0. Pow2(lg) \in Nat
  BY Pow2Type
<1>1. Len(keys) \in Nat /\ DOMAIN keys = 1 .. Len(keys) /\ Pow2(lg) \in Nat
      /\ \A i \in 1 .. Len(keys) : keys[i] \in Nat \ {0}
  BY <1>0
<1> DEFINE Upto(n) == {keys[i] : i \in 1 .. n}
           Right(n) == /\ Fixed(f[n], lg) /\ SlotKeys(f[n].entries) = Upto(n)
                       /\ f[n].num = n
           Failing == {n \in Nat : n <= Len(keys) /\ ~Right(n)}
<1>2. \A n \in 0 .. Len(keys) : f[n] = IF n = 0 THEN EmptyTable(lg)
                                       ELSE InsertFound(f[n - 1], keys[n])
  BY DEF Inserted
<1>3. Right(0)
  <2>1. f[0] = EmptyTable(lg)
    BY <1>1, <1>2
  <2>2. Upto(0) = {}
    OBVIOUS
  <2> QED
    BY <2>1, <2>2, NewIsFixed
<1>4. ASSUME NEW n \in 1 .. Len(keys), Right(n - 1)
      PROVE  Right(n)
  <2>1. /\ n \in Nat /\ n - 1 \in Nat /\ n # 0 /\ n \in 0 .. Len(keys)
        /\ n - 1 < Pow2(lg) /\ (n - 1) + 1 = n
    BY <1>1
  <2>2. f[n] = InsertFound(f[n - 1], keys[n])
    BY <1>2, <2>1
  <2>3. keys[n] \in Nat \ {0} /\ keys[n] \notin Upto(n - 1)
    <3>1. \A i \in 1 .. n - 1 : i \in DOMAIN keys /\ i # n /\ n \in DOMAIN keys
      BY <1>1, <2>1
    <3>2. \A i \in 1 .. n - 1 : keys[i] # keys[n]
      BY <3>1 DEF Distinct
    <3> QED
      BY <1>1, <3>2
  <2>4. Upto(n) = Upto(n - 1) \cup {keys[n]}
    <3>1. \A i : i \in 1 .. n <=> (i \in 1 .. n - 1 \/ i = n)
      BY <2>1
    <3> QED
      BY <3>1
  <2> HIDE DEF Upto
  <2> QED
    BY SMTT(30), <1>4, <2>1, <2>2, <2>3, <2>4, InsertFoundIs
<1> HIDE DEF Right
<1>5. Right(Len(keys))
  <2>1. SUFFICES ASSUME Failing # {} PROVE FALSE
    BY <1>1
  <2>2. PICK n \in Failing : \A k \in Failing : n <= k
    BY <2>1, Least
  <2>3. n # 0
    BY <1>3, <2>2
  <2>4. n - 1 \in Nat /\ n - 1 \notin Failing /\ n - 1 <= Len(keys) /\ n \in 1 .. Len(keys)
    BY <1>1, <2>2, <2>3
  <2>5. Right(n - 1)
    BY <2>4
  <2> QED
    BY <1>4, <2>2, <2>4, <2>5
<1> QED
  BY <1>1, <1>5 DEF KeysOf, Right

-----------------------------------------------------------------------------
(* What a well-formed sketch holds. *)
LEMMA SketchKeys ==
  ASSUME NEW M \in Nat, NEW s, IsSketch(s, M)
  PROVE  /\ s.entries \in Seq(Nat) /\ Distinct(s.entries)
         /\ s.isOrdered => Ascending(s.entries)
         /\ KeysOf(s.entries) = Keys(s)
         /\ Keys(s) \in SUBSET (1 .. M - 1) /\ IsFiniteSet(Keys(s))
         /\ Cardinality(Keys(s)) = Len(s.entries)
         /\ s.theta \in 1 .. M
         /\ \A h \in Keys(s) : 0 < h /\ h < s.theta
         /\ s.isEmpty => Keys(s) = {} /\ s.theta = M
         /\ s.isEmpty \in BOOLEAN /\ s.isOrdered \in BOOLEAN
<1>1. /\ s.entries \in Seq(Nat) /\ Distinct(s.entries)
      /\ s.isOrdered => Ascending(s.entries)
      /\ s.theta \in 1 .. M
      /\ \A i \in DOMAIN s.entries : 0 < s.entries[i] /\ s.entries[i] < s.theta
      /\ s.isEmpty => s.entries = <<>> /\ s.theta = M
      /\ s.isEmpty \in BOOLEAN /\ s.isOrdered \in BOOLEAN
  BY DEF IsSketch
<1>2. KeysOf(s.entries) = Keys(s)
  BY DEF Keys, KeysOf
<1>3. /\ Keys(s) \in SUBSET Nat /\ IsFiniteSet(Keys(s))
      /\ Cardinality(Keys(s)) = Len(s.entries)
  BY <1>1, <1>2, DistinctCounts
<1>4. \A h \in Keys(s) : 0 < h /\ h < s.theta
  BY <1>1 DEF Keys
<1>5. Keys(s) \in SUBSET (1 .. M - 1)
  <2>1. ASSUME NEW h \in Keys(s) PROVE h \in 1 .. M - 1
    <3>1. h \in Nat /\ 0 < h /\ h < s.theta
      BY <1>3, <1>4
    <3> QED
      BY <1>1, <3>1
  <2> QED
    BY <2>1
<1>6. s.isEmpty => Keys(s) = {}
  <2>1. DOMAIN <<>> = {}
    OBVIOUS
  <2> QED
    BY <1>1, <2>1 DEF Keys
<1> QED
  BY <1>1, <1>2, <1>3, <1>4, <1>5, <1>6

(* The loop over b hands on each key below theta once. *)
LEMMA UpToIs ==
  ASSUME NEW M \in Nat, NEW b, IsSketch(b, M), NEW theta \in Nat
  PROVE  /\ UpTo(b, theta) \in Seq(Nat \ {0}) /\ Distinct(UpTo(b, theta))
         /\ KeysOf(UpTo(b, theta)) = Below(Keys(b), theta)
         /\ Len(UpTo(b, theta)) \in Nat /\ Len(UpTo(b, theta)) <= Len(b.entries)
<1>1. PICK q, S, r : q = b.entries /\ S = Scanned(b, theta) /\ r = UpTo(b, theta)
  OBVIOUS
<1>2. /\ q \in Seq(Nat) /\ Distinct(q) /\ KeysOf(q) = Keys(b)
      /\ IsFiniteSet(Keys(b)) /\ Cardinality(Keys(b)) = Len(q)
      /\ \A h \in Keys(b) : 0 < h
  BY <1>1, SketchKeys
<1>3. S = Below(Keys(b), theta)
  BY <1>1, ScannedIsBelow
<1>4. r = Picked(q, S)
  BY <1>1 DEF UpTo
<1>5. r \in Seq(Nat) /\ KeysOf(r) = Keys(b) \cap S /\ Distinct(r)
  BY <1>2, <1>4, DistinctAnywhere, PickedIs
<1>6. KeysOf(r) = Below(Keys(b), theta) /\ KeysOf(r) \in SUBSET Keys(b)
  BY <1>3, <1>5 DEF Below
<1>7. 0 \notin KeysOf(r)
  BY <1>2, <1>6
<1>8. r \in Seq(Nat \ {0})
  BY <1>5, <1>7, NoMark
<1>9. Len(r) = Cardinality(KeysOf(r)) /\ Len(r) \in Nat /\ Len(q) \in Nat
  <2>1. r \in Seq(Nat) /\ Distinct(r) /\ q \in Seq(Nat)
    BY <1>2, <1>5
  <2>2. Cardinality(KeysOf(r)) = Len(r)
    BY <2>1, DistinctCounts
  <2>3. Len(r) \in Nat /\ Len(q) \in Nat
    BY <2>1
  <2> QED
    BY <2>2, <2>3
<1>10. Cardinality(KeysOf(r)) <= Cardinality(Keys(b))
  BY <1>2, <1>6, FS_Subset
<1> QED
  BY <1>1, <1>2, <1>5, <1>6, <1>8, <1>9, <1>10

(* The hash table of b holds its keys below theta, each where find() will  *)
(* look for it, and a slot is free.                                        *)
Tabled(b, theta, t) ==
  /\ Good(t) /\ t.num < Pow2(t.lgCur)
  /\ SlotKeys(t.entries) = Below(Keys(b), theta)

(* The loop over b leaves such a table. *)
LEMMA TableOfIs ==
  ASSUME NEW M \in Nat, NEW b, IsSketch(b, M), NEW theta \in Nat
  PROVE  Tabled(b, theta, TableOf(b, theta))
<1>1. PICK keys, m, lg : /\ keys = UpTo(b, theta) /\ m = Len(keys)
                         /\ lg = LgSizeFromCount(Len(b.entries))
  OBVIOUS
<1>2. PICK n \in Nat : n = Len(b.entries)
  BY SketchKeys
<1>3. /\ keys \in Seq(Nat \ {0}) /\ Distinct(keys) /\ m \in Nat /\ m <= n
      /\ KeysOf(keys) = Below(Keys(b), theta)
  BY <1>1, <1>2, UpToIs
<1>4. lg \in Nat /\ m < Pow2(lg)
  <2>1. /\ lg \in Nat \ {0} /\ Pow2(lg) = 2 * Pow2(lg - 1) /\ Pow2(lg) \in Nat
        /\ Pow2(lg - 1) \in Nat \ {0} /\ n <= (15 * Pow2(lg)) \div 16
    BY <1>1, <1>2, LgSizeHolds
  <2>2. \A p \in Nat : 0 < p => (15 * p) \div 16 < p
    OBVIOUS
  <2> QED
    BY SMTT(30), <1>3, <2>1, <2>2
<1>5. TableOf(b, theta) = (CHOOSE f : Inserted(f, lg, keys, m))[m]
  BY <1>1 DEF TableOf, Inserted, EmptyTable
<1>6. PICK f : f = CHOOSE g : Inserted(g, lg, keys, m)
  OBVIOUS
<1>7. Inserted(f, lg, keys, m)
  BY <1>3, <1>6, InsertedExist
<1>8. /\ Fixed(f[m], lg) /\ SlotKeys(f[m].entries) = KeysOf(keys) /\ f[m].num = m
  BY <1>1, <1>3, <1>4, <1>7, LoopFills
<1> QED
  BY <1>3, <1>4, <1>5, <1>6, <1>8 DEF Tabled, Fixed

(* find() finds exactly the keys in the slots. *)
LEMMA FoundIs ==
  ASSUME NEW t, Good(t), t.num < Pow2(t.lgCur), NEW key \in Nat \ {0}
  PROVE  Found(t.entries, t.lgCur, key) <=> key \in SlotKeys(t.entries)
<1>1. /\ t.lgCur \in Nat /\ Sound(t.entries, t.lgCur)
      /\ Cardinality(SlotKeys(t.entries)) < Pow2(t.lgCur)
  BY DEF Good
<1>2. PICK i : i = Find(t.entries, t.lgCur, key)
  OBVIOUS
<1>3. /\ i # NoSlot
      /\ key \in SlotKeys(t.entries) => t.entries[i] = key
      /\ key \notin SlotKeys(t.entries) => t.entries[i] = 0
  BY <1>1, <1>2, FindKey
<1> QED
  BY <1>2, <1>3 DEF Found

(* r holds the keys of a below theta that b has not, in the order a has    *)
(* them in.                                                                *)
LeftOver(a, b, theta, r) ==
  /\ r \in Seq(Nat) /\ Distinct(r)
  /\ KeysOf(r) = Below(Keys(a) \ Keys(b), theta)
  /\ a.isOrdered => Ascending(r)

(* That is what the copy, the merge and the lookup all keep. *)
LEMMA RemainingIs ==
  ASSUME NEW M \in Nat, NEW a, IsSketch(a, M), NEW b, IsSketch(b, M),
         NEW theta \in Nat, NEW t,
         UsesTable(a, b) => Tabled(b, theta, t)
  PROVE  LeftOver(a, b, theta, Remaining(a, b, t, theta))
<1>1. PICK q, K, L, B, r : /\ q = a.entries /\ K = Keys(a) /\ L = Keys(b)
                           /\ B = Below(K \ L, theta) /\ r = Remaining(a, b, t, theta)
  OBVIOUS
<1>2. /\ q \in Seq(Nat) /\ Distinct(q) /\ KeysOf(q) = K /\ K \in SUBSET Nat
      /\ \A h \in K : 0 < h
      /\ a.isOrdered => Ascending(q)
  BY <1>1, SketchKeys
<1>3. ASSUME NEW X, r = Picked(q, X), K \cap X = B
      PROVE  LeftOver(a, b, theta, Remaining(a, b, t, theta))
  <2>1. DistinctIn(q, X)
    BY <1>2, DistinctAnywhere
  <2>2. r \in Seq(Nat) /\ Distinct(r) /\ KeysOf(r) = B /\ (a.isOrdered => Ascending(r))
    BY <1>2, <1>3, <2>1, PickedIs
  <2> QED
    BY <1>1, <2>2 DEF LeftOver
<1>4. B \in SUBSET K /\ B = {h \in K : h < theta /\ h \notin L}
  BY <1>1 DEF Below
<1>5. CASE b.entries = <<>>
  <2>1. r = Picked(q, Below(K, theta))
    BY <1>1, <1>5 DEF Remaining
  <2>2. L = {}
    <3>1. DOMAIN <<>> = {}
      OBVIOUS
    <3> QED
      BY <1>1, <1>5, <3>1 DEF Keys
  <2>3. K \cap Below(K, theta) = B
    BY <1>4, <2>2 DEF Below
  <2> QED
    BY <1>1, <1>3, <2>1, <2>3
<1>6. CASE b.entries # <<>> /\ Merges(a, b)
  <2>1. r = Picked(q, B)
    BY <1>1, <1>6 DEF Remaining, ByMerge
  <2>2. K \cap B = B
    BY <1>4
  <2> QED
    BY <1>1, <1>3, <2>1, <2>2
<1>7. CASE b.entries # <<>> /\ ~Merges(a, b)
  <2>1. PICK X : X = {h \in Scanned(a, theta) : ~Found(t.entries, t.lgCur, h)}
    OBVIOUS
  <2>2. r = Picked(q, X)
    BY <1>1, <1>7, <2>1 DEF Remaining, ByTable
  <2>3. Scanned(a, theta) = Below(K, theta)
    BY <1>1, ScannedIsBelow
  <2>4. Tabled(b, theta, t)
    BY <1>7 DEF UsesTable
  <2>5. ASSUME NEW h \in K, h < theta
        PROVE  Found(t.entries, t.lgCur, h) <=> h \in L
    <3>1. h \in Nat \ {0}
      BY <1>2
    <3>2. Found(t.entries, t.lgCur, h) <=> h \in SlotKeys(t.entries)
      BY <2>4, <3>1, FoundIs DEF Tabled
    <3>3. SlotKeys(t.entries) = Below(L, theta)
      BY <1>1, <2>4 DEF Tabled
    <3> QED
      BY <2>5, <3>2, <3>3 DEF Below
  <2>6. K \cap X = B
    BY <1>4, <2>1, <2>3, <2>5 DEF Below
  <2> QED
    BY <1>1, <1>3, <2>2, <2>6
<1> QED
  BY <1>5, <1>6, <1>7

-----------------------------------------------------------------------------
(* A sequence, sorted when asked for. *)
Sorting(sorts, q) == IF sorts THEN SortedKeys(KeysOf(q)) ELSE q

(* It keeps the keys. *)
LEMMA SortingIs ==
  ASSUME NEW sorts \in BOOLEAN, NEW q \in Seq(Nat), Distinct(q)
  PROVE  /\ Sorting(sorts, q) \in Seq(Nat) /\ Distinct(Sorting(sorts, q))
         /\ KeysOf(Sorting(sorts, q)) = KeysOf(q)
         /\ sorts \/ Ascending(q) => Ascending(Sorting(sorts, q))
         /\ Len(Sorting(sorts, q)) <= 1 => Ascending(Sorting(sorts, q))
         /\ q = <<>> => Sorting(sorts, q) = <<>>
<1>1. PICK e : e = Sorting(sorts, q)
  OBVIOUS
<1>2. KeysOf(q) \in SUBSET Nat /\ IsFiniteSet(KeysOf(q))
  BY DistinctCounts
<1>3. /\ e \in Seq(Nat) /\ Distinct(e) /\ KeysOf(e) = KeysOf(q)
      /\ sorts \/ Ascending(q) => Ascending(e)
  <2>1. CASE sorts
    BY <1>1, <1>2, <2>1, SortedKeysIs DEF Sorting
  <2>2. CASE ~sorts
    BY <1>1, <2>2 DEF Sorting
  <2> QED
    BY <2>1, <2>2
<1>4. Len(e) <= 1 => Ascending(e)
  <2>1. DOMAIN e = 1 .. Len(e) /\ Len(e) \in Nat
    BY <1>3
  <2> QED
    BY <2>1 DEF Ascending
<1>5. q = <<>> => e = <<>>
  <2>1. SUFFICES ASSUME q = <<>> PROVE e = <<>>
    OBVIOUS
  <2>2. Len(q) = 0 /\ Len(e) = Cardinality(KeysOf(e)) /\ Len(q) = Cardinality(KeysOf(q))
    BY <1>3, <2>1, DistinctCounts
  <2>3. Len(e) = 0
    BY <1>3, <2>2
  <2> QED
    BY <1>3, <2>3
<1> QED
  BY <1>1, <1>3, <1>4, <1>5

(* A sketch with its fields. *)
Sketch(isEmpty, isOrdered, theta, entries) ==
  [isEmpty |-> isEmpty, isOrdered |-> isOrdered, theta |-> theta, entries |-> entries]

(* r is a record of the four fields of a sketch. *)
Shaped(r) == r = Sketch(r.isEmpty, r.isOrdered, r.theta, r.entries)

(* r is the well-formed sketch of the keys that are left, empty only of    *)
(* nothing with nothing lost to sampling.                                  *)
Finished(r, ordered, theta, kept, M) ==
  /\ IsSketch(r, M) /\ Keys(r) = KeysOf(kept) /\ r.theta = theta
  /\ r.isEmpty <=> kept = <<>> /\ theta = M
  /\ ordered => r.isOrdered
  /\ Shaped(r)

(* The tail of compute() makes a well-formed sketch of what is left, and   *)
(* an empty one only of nothing with nothing lost to sampling.             *)
LEMMA FinishIs ==
  ASSUME NEW M \in Nat, NEW a, IsSketch(a, M), ~a.isEmpty,
         NEW ordered \in BOOLEAN, NEW theta \in 1 .. M,
         NEW kept \in Seq(Nat), Distinct(kept), a.isOrdered => Ascending(kept),
         \A h \in KeysOf(kept) : 0 < h /\ h < theta
  PROVE  Finished(Finish(a, ordered, theta, kept, M), ordered, theta, kept, M)
<1>1. a.isEmpty = FALSE /\ a.isOrdered \in BOOLEAN
  BY SketchKeys
<1>2. PICK sorts \in BOOLEAN : sorts = (ordered /\ ~a.isOrdered)
  BY <1>1
<1>3. PICK e : e = Sorting(sorts, kept)
  OBVIOUS
<1>4. /\ e \in Seq(Nat) /\ Distinct(e) /\ KeysOf(e) = KeysOf(kept)
      /\ sorts \/ Ascending(kept) => Ascending(e)
      /\ Len(e) <= 1 => Ascending(e)
      /\ kept = <<>> => e = <<>>
  BY <1>3, SortingIs
<1>5. PICK isEmpty \in BOOLEAN, isOrdered \in BOOLEAN :
        /\ isEmpty = (kept = <<>> /\ theta = M)
        /\ isOrdered = (a.isOrdered \/ ordered \/ Len(e) <= 1)
  BY <1>1
<1>6. PICK r : r = Finish(a, ordered, theta, kept, M)
  OBVIOUS
<1>7. r = Sketch(isEmpty, isOrdered, theta, e)
  BY <1>1, <1>2, <1>3, <1>5, <1>6 DEF Finish, MakeSketch, Sketch, Sorting, KeysOf
<1>8. r.isEmpty = isEmpty /\ r.isOrdered = isOrdered /\ r.theta = theta /\ r.entries = e
  BY <1>7 DEF Sketch
<1>9. Keys(r) = KeysOf(kept)
  BY <1>4, <1>8 DEF Keys, KeysOf
<1>10. \A i \in DOMAIN e : 0 < e[i] /\ e[i] < theta
  BY <1>4 DEF KeysOf
<1>11. isOrdered => Ascending(e)
  BY <1>2, <1>4, <1>5
<1>12. isEmpty => e = <<>> /\ theta = M
  BY <1>4, <1>5
<1>13. IsSketch(r, M)
  BY <1>4, <1>8, <1>10, <1>11, <1>12 DEF IsSketch
<1>14. Shaped(r)
  BY <1>7, <1>8 DEF Shaped
<1>15. ordered => r.isOrdered
  BY <1>5, <1>8
<1> QED
  BY <1>5, <1>6, <1>8, <1>9, <1>13, <1>14, <1>15 DEF Finished

(* A copy is the same sketch, sorted or not. *)
LEMMA CopyIs ==
  ASSUME NEW M \in Nat, NEW s, IsSketch(s, M), NEW ordered \in BOOLEAN
  PROVE  /\ IsSketch(CompactCopy(s, ordered), M)
         /\ Keys(CompactCopy(s, ordered)) = Keys(s)
         /\ CompactCopy(s, ordered).theta = s.theta
         /\ CompactCopy(s, ordered).isEmpty = s.isEmpty
         /\ ordered => CompactCopy(s, ordered).isOrdered
         /\ Shaped(CompactCopy(s, ordered))
<1>1. /\ s.isEmpty \in BOOLEAN /\ s.isOrdered \in BOOLEAN /\ s.theta \in 1 .. M
      /\ s.entries \in Seq(Nat) /\ Distinct(s.entries)
      /\ s.isOrdered => Ascending(s.entries)
      /\ KeysOf(s.entries) = Keys(s) /\ \A h \in Keys(s) : 0 < h /\ h < s.theta
      /\ s.isEmpty => s.entries = <<>> /\ s.theta = M
  <2>1. s.isEmpty => s.entries = <<>> /\ s.theta = M
    BY DEF IsSketch
  <2> QED
    BY <2>1, SketchKeys
<1>2. PICK sorts \in BOOLEAN : sorts = (ordered /\ ~s.isOrdered)
  BY <1>1
<1>3. PICK e : e = Sorting(sorts, s.entries)
  OBVIOUS
<1>4. /\ e \in Seq(Nat) /\ Distinct(e) /\ KeysOf(e) = Keys(s)
      /\ sorts \/ Ascending(s.entries) => Ascending(e)
      /\ s.entries = <<>> => e = <<>>
  BY <1>1, <1>3, SortingIs
<1>5. PICK isOrdered \in BOOLEAN : isOrdered = (s.isOrdered \/ ordered)
  BY <1>1
<1>6. PICK r : r = CompactCopy(s, ordered)
  OBVIOUS
<1>7. r = Sketch(s.isEmpty, isOrdered, s.theta, e)
  BY <1>1, <1>2, <1>3, <1>5, <1>6 DEF CompactCopy, Sketch, Sorting
<1>8. r.isEmpty = s.isEmpty /\ r.isOrdered = isOrdered /\ r.theta = s.theta /\ r.entries = e
  BY <1>7 DEF Sketch
<1>9. Keys(r) = Keys(s)
  BY <1>4, <1>8 DEF Keys, KeysOf
<1>10. \A i \in DOMAIN e : 0 < e[i] /\ e[i] < s.theta
  BY <1>1, <1>4 DEF KeysOf
<1>11. isOrdered => Ascending(e)
  BY <1>1, <1>2, <1>4, <1>5
<1>12. IsSketch(r, M)
  BY <1>1, <1>4, <1>8, <1>10, <1>11 DEF IsSketch
<1>13. Shaped(r)
  BY <1>7, <1>8 DEF Shaped
<1>14. ordered => r.isOrdered
  BY <1>5, <1>8
<1> QED
  BY <1>6, <1>8, <1>9, <1>12, <1>13, <1>14

-----------------------------------------------------------------------------
(* A table filled by Filled after n insertions. *)
FilledWith(theta, isEmpty, q, lg, n) ==
  [isEmpty |-> isEmpty, cur |-> Pow2(lg), nom |-> Pow2(lg - 1), factor |-> 1,
   num |-> n, theta |-> theta, entries |-> {q[i] : i \in 1 .. n}]

(* Putting a key in and counting it changes nothing else of a table        *)
(* (insert).                                                               *)
LEMMA TableNext ==
  ASSUME NEW isEmpty, NEW cur, NEW nom, NEW factor, NEW num, NEW theta, NEW entries,
         NEW l, NEW d, NEW t, NEW u,
         t = [isEmpty |-> isEmpty, cur |-> cur, nom |-> nom, factor |-> factor,
              num |-> num, theta |-> theta, entries |-> entries],
         u = [t EXCEPT !.entries = d, !.num = l]
  PROVE  u = [isEmpty |-> isEmpty, cur |-> cur, nom |-> nom, factor |-> factor,
              num |-> l, theta |-> theta, entries |-> d]
  OBVIOUS

(* One insertion leaves the table as it is but for the key, as long as the *)
(* count stays within the capacity (insert).                               *)
LEMMA InsertFits ==
  ASSUME NEW theta, NEW isEmpty, NEW q \in Seq(Nat), NEW lg, NEW n \in 1 .. Len(q),
         Pow2(lg) = 2 * Pow2(lg - 1), Pow2(lg - 1) \in Nat \ {0},
         Len(q) <= (15 * Pow2(lg)) \div 16
  PROVE  Insert(FilledWith(theta, isEmpty, q, lg, n - 1), q[n]) =
           FilledWith(theta, isEmpty, q, lg, n)
<1> DEFINE t == FilledWith(theta, isEmpty, q, lg, n - 1)
           u == [t EXCEPT !.entries = t.entries \cup {q[n]}, !.num = t.num + 1]
<1>1. {q[i] : i \in 1 .. n - 1} \cup {q[n]} = {q[i] : i \in 1 .. n}
  <2>1. \A i : i \in 1 .. n <=> (i \in 1 .. n - 1 \/ i = n)
    OBVIOUS
  <2> QED
    BY <2>1
<1>2. /\ t.entries = {q[i] : i \in 1 .. n - 1} /\ t.num = n - 1
      /\ t.isEmpty = isEmpty /\ t.cur = Pow2(lg) /\ t.nom = Pow2(lg - 1)
      /\ t.factor = 1 /\ t.theta = theta
  BY DEF FilledWith
<1>3. u = FilledWith(theta, isEmpty, q, lg, n)
  <2>1. t.entries \cup {q[n]} = {q[i] : i \in 1 .. n} /\ t.num + 1 = n
    <3> HIDE DEF t
    <3>1. t.num + 1 = n
      BY <1>2
    <3> QED
      BY <1>1, <1>2, <3>1, Zenon
  <2>2. t = [isEmpty |-> isEmpty, cur |-> Pow2(lg), nom |-> Pow2(lg - 1), factor |-> 1,
             num |-> n - 1, theta |-> theta, entries |-> {q[i] : i \in 1 .. n - 1}]
    BY DEF FilledWith
  <2>3. PICK k, d : k = t.num + 1 /\ d = t.entries \cup {q[n]}
    OBVIOUS
  <2>4. u = [t EXCEPT !.entries = d, !.num = k]
    BY <2>3
  <2> HIDE DEF u, t
  <2>5. u = [isEmpty |-> isEmpty, cur |-> Pow2(lg), nom |-> Pow2(lg - 1), factor |-> 1,
             num |-> k, theta |-> theta, entries |-> d]
    BY <2>2, <2>4, TableNext
  <2> QED
    BY <2>1, <2>3, <2>5 DEF FilledWith
<1>4. u.num = n /\ u.cur = Pow2(lg) /\ u.nom = Pow2(lg - 1)
  BY <1>3 DEF FilledWith
<1>5. u.num <= Capacity(u.cur, u.nom)
  <2>1. Capacity(u.cur, u.nom) = (15 * Pow2(lg)) \div 16
    BY <1>4 DEF Capacity
  <2> QED
    BY <1>4, <2>1
<1>6. Insert(t, q[n]) = u
  BY <1>5 DEF Insert
<1> QED
  BY <1>3, <1>6

(* A table sized by lg_size_from_count for the keys it is about to get     *)
(* neither grows nor thins itself: it ends up with exactly those keys, its *)
(* theta untouched (update).                                               *)
LEMMA FilledIs ==
  ASSUME NEW theta \in Nat, NEW isEmpty \in BOOLEAN, NEW q \in Seq(Nat)
  PROVE  /\ Filled(theta, isEmpty, q) \in Tables(Nat)
         /\ Filled(theta, isEmpty, q).isEmpty = isEmpty
         /\ Filled(theta, isEmpty, q).theta = theta
         /\ Filled(theta, isEmpty, q).num = Len(q)
         /\ Filled(theta, isEmpty, q).entries = KeysOf(q)
<1> DEFINE lg == LgSizeFromCount(Len(q))
           New == NewTable(Pow2(lg), Pow2(lg - 1), 1, theta, isEmpty)
           Fills(f) == f = [n \in 0 .. Len(q) |->
                              IF n = 0 THEN New ELSE Insert(f[n - 1], q[n])]
           With(n) == FilledWith(theta, isEmpty, q, lg, n)
           w == [n \in 0 .. Len(q) |-> With(n)]
           f == CHOOSE f : Fills(f)
<1>1. Len(q) \in Nat /\ DOMAIN q = 1 .. Len(q)
  OBVIOUS
<1>2. Pow2(lg) = 2 * Pow2(lg - 1) /\ Pow2(lg - 1) \in Nat \ {0}
      /\ Len(q) <= (15 * Pow2(lg)) \div 16
  BY <1>1, LgSizeHolds
<1>3. Filled(theta, isEmpty, q) = f[Len(q)]
  BY DEF Filled
<1> HIDE DEF lg
<1>4. New = With(0)
  <2>1. {q[i] : i \in 1 .. 0} = {}
    OBVIOUS
  <2> QED
    BY <2>1 DEF NewTable, FilledWith
<1>5. \A n \in 1 .. Len(q) : Insert(With(n - 1), q[n]) = With(n)
  BY <1>2, InsertFits
<1> HIDE DEF New, With
<1>6. Fills(w)
  <2> DEFINE v == [n \in 0 .. Len(q) |-> IF n = 0 THEN New ELSE Insert(w[n - 1], q[n])]
  <2>1. ASSUME NEW n \in 0 .. Len(q) PROVE v[n] = w[n]
    <3>1. CASE n = 0
      BY <3>1, <1>4
    <3>2. CASE n # 0
      <4>1. n \in 1 .. Len(q) /\ n - 1 \in 0 .. Len(q)
        BY <3>2, <1>1
      <4>2. v[n] = Insert(With(n - 1), q[n])
        BY <4>1, <3>2
      <4> QED
        BY <4>1, <4>2, <1>5
    <3> QED
      BY <3>1, <3>2
  <2>2. v = w
    BY <2>1
  <2> QED
    BY <2>2
<1>7. Fills(f)
  BY <1>6
<1>8. \A n \in 0 .. Len(q) : f[n] = IF n = 0 THEN New ELSE Insert(f[n - 1], q[n])
  BY <1>7
<1> HIDE DEF f
<1>9. f[Len(q)] = With(Len(q))
  <2> DEFINE Failing == {n \in Nat : n <= Len(q) /\ f[n] # With(n)}
  <2>1. SUFFICES ASSUME Failing # {} PROVE FALSE
    BY <1>1
  <2>2. PICK n \in Failing : \A k \in Failing : n <= k
    BY <2>1, Least
  <2>3. n # 0
    BY <2>2, <1>1, <1>4, <1>8
  <2>4. n - 1 \in Nat /\ n - 1 \notin Failing /\ n - 1 <= Len(q) /\ n \in 1 .. Len(q)
    BY <2>2, <2>3, <1>1
  <2>5. f[n - 1] = With(n - 1)
    BY <2>4
  <2>6. f[n] = Insert(f[n - 1], q[n])
    BY <2>3, <2>4, <1>8
  <2> QED
    BY <2>2, <2>4, <2>5, <2>6, <1>5
<1>10. KeysOf(q) = {q[i] : i \in 1 .. Len(q)} /\ KeysOf(q) \in SUBSET Nat
  BY <1>1 DEF KeysOf
<1>11. PICK c, d : c = Pow2(lg) /\ d = Pow2(lg - 1)
  OBVIOUS
<1>12. c \in Nat /\ d \in Nat \ {0}
  BY <1>2, <1>11
<1>13. Filled(theta, isEmpty, q) =
         [isEmpty |-> isEmpty, cur |-> c, nom |-> d, factor |-> 1,
          num |-> Len(q), theta |-> theta, entries |-> KeysOf(q)]
  BY <1>3, <1>9, <1>10, <1>11 DEF With, FilledWith
<1> QED
  BY <1>1, <1>10, <1>12, <1>13 DEF Tables

=============================================================================
