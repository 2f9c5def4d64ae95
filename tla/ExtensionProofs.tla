-------------------------- MODULE ExtensionProofs --------------------------
(***************************************************************************)
(* The aggregates and the scalar functions are right for every nominal     *)
(* size, every number of partial states and every set of rows, however     *)
(* the engine splits, ships and merges the states.                         *)
(*                                                                         *)
(* The first part is about the set operations as whole calls: what an      *)
(* object of each class stands for, given what it was fed, and that every  *)
(* call keeps it so.  The second is the inductive invariant of the         *)
(* aggregates: one owner per object, and behind every handle and in every  *)
(* blob an object that stands for the rows of its state.  The third is     *)
(* about the scalar functions.                                             *)
(***************************************************************************)
EXTENDS SketchAggregate, ScalarFunctions, ThetaLemmas

(* The table sizes there are. *)
Sizes ==
  CHOOSE sizes \in SUBSET (2 .. 2 * Nominal) :
    StartSize \in sizes /\ SizesOK(sizes, Nominal, Factor)

(* A finite set of hashes, none of them the mark of an empty slot. *)
HashSet(S) == S \in SUBSET Nat /\ IsFiniteSet(S) /\ 0 \notin S

(* A theta that was m before hashes of S lowered it: it is still m, or one *)
(* of those hashes that has nominal many of them below it.                 *)
Lowered(S, p, m) ==
  /\ p \in 1 .. MaxTheta /\ p <= m
  /\ p # m => p \in S /\ Nominal <= Cardinality(Below(S, p))

(* The sketch v stands for the hashes of S, none of them sampled away      *)
(* before it was given them, but those that are not below m.               *)
Represents(v, S, m) ==
  /\ IsSketch(v, MaxTheta)
  /\ Keys(v) = Below(S, v.theta)
  /\ Lowered(S, v.theta, m)
  /\ v.isEmpty => S = {} /\ m = MaxTheta

(* The table of an update sketch that was offered S. *)
Builds(t, S) ==
  /\ TableOK(t, Sizes) /\ t.nom = Nominal /\ t.factor = Factor
  /\ t.entries = Below(S, t.theta)
  /\ Lowered(S, t.theta, MaxTheta)

(* The table under the loop of an update of a union, where L is the lesser *)
(* of the thetas: of S it was offered T so far.                            *)
Loops(t, L, T, S, m) ==
  /\ TableOK(t, Sizes) /\ t.nom = Nominal /\ t.factor = Factor
  /\ Below(t.entries, MinOf(L, t.theta)) = Below(T, MinOf(L, t.theta))
  /\ Lowered(S, MinOf(L, t.theta), m)
  /\ t.isEmpty = FALSE

(* A union of sketches that stand for S below the least theta m. *)
Unites(u, S, m) ==
  /\ u = [table |-> u.table, theta |-> u.theta]
  /\ TableOK(u.table, Sizes) /\ u.table.nom = Nominal /\ u.table.factor = Factor
  /\ u.theta <= u.table.theta
  /\ Below(u.table.entries, u.theta) = Below(S, u.theta)
  /\ Lowered(S, u.theta, m)
  /\ u.table.isEmpty => S = {} /\ m = MaxTheta

(* The sketch v holds the hashes of C below the least theta m, which it    *)
(* has, unless it says it is empty.                                        *)
Shares(v, C, m) ==
  /\ IsSketch(v, MaxTheta)
  /\ Keys(v) = Below(C, m)
  /\ v.isEmpty => C = {}
  /\ ~v.isEmpty => v.theta = m

(* The table of an intersection that was fed sketches with the hashes of C *)
(* in common and the least theta m.                                        *)
Common(t, C, m) ==
  /\ t \in Tables(Nat)
  /\ IsFiniteSet(t.entries) /\ t.num = Cardinality(t.entries)
  /\ t.entries = Below(C, m)
  /\ t.theta = IF t.isEmpty THEN MaxTheta ELSE m
  /\ t.isEmpty => C = {}

(* An intersection that was fed. *)
Intersects(x, C, m) ==
  /\ x = [table |-> x.table, isValid |-> TRUE]
  /\ Common(x.table, C, m)

(* One entry in the loop of an update of a union. *)
Take(L, t, h) ==
  IF h < L /\ h < t.theta /\ h \notin t.entries THEN Insert(t, h) ELSE t

-----------------------------------------------------------------------------
(* The assumptions about the constants, one fact each. *)
LEMMA Constants ==
  /\ MaxTheta \in Nat /\ 1 <= MaxTheta
  /\ Nominal \in Nat \ {0} /\ Factor \in Nat \ {0}
  /\ StartSize <= Nominal => Factor >= 2
  /\ StartSize \in Sizes /\ SizesOK(Sizes, Nominal, Factor)
<1>1. /\ MaxTheta \in Nat \ {0}
      /\ Nominal \in Nat \ {0} /\ Factor \in Nat \ {0}
      /\ StartSize <= Nominal => Factor >= 2
  BY OperationsAssumption DEF OperationsAssumption
<1>2. StartSize \in Sizes /\ SizesOK(Sizes, Nominal, Factor)
  BY OperationsAssumption DEF OperationsAssumption, Sizes
<1> QED
  BY <1>1, <1>2

(* The hashes below a theta are finitely many. *)
LEMMA BelowHashes ==
  ASSUME NEW S, HashSet(S), NEW p \in Nat
  PROVE  /\ HashSet(Below(S, p)) /\ Below(S, p) \subseteq S
         /\ Cardinality(Below(S, p)) \in Nat
<1>1. Below(S, p) \in SUBSET S /\ IsFiniteSet(Below(S, p))
  BY BelowFinite DEF HashSet
<1> QED
  BY <1>1, FS_CardinalityType DEF HashSet

(* A theta that was lowered for hashes of S stays so when there are more.  *)
LEMMA LoweredGrows ==
  ASSUME NEW S, HashSet(S), NEW T, HashSet(T), S \subseteq T,
         NEW p, NEW m, Lowered(S, p, m)
  PROVE  Lowered(T, p, m)
<1>1. p \in Nat
  BY Constants DEF Lowered
<1>2. Below(S, p) \in SUBSET Below(T, p)
  BY DEF Below
<1>3. IsFiniteSet(Below(T, p)) /\ Cardinality(Below(T, p)) \in Nat
      /\ Cardinality(Below(S, p)) \in Nat
  BY <1>1, BelowHashes DEF HashSet
<1>4. Cardinality(Below(S, p)) <= Cardinality(Below(T, p))
  BY <1>2, <1>3, FS_Subset
<1>5. p # m => Nominal <= Cardinality(Below(T, p))
  BY <1>3, <1>4, Constants DEF Lowered
<1> QED
  BY <1>5 DEF Lowered

(* The lesser of two thetas was lowered from the lesser of two bounds. *)
LEMMA LoweredBoth ==
  ASSUME NEW S, HashSet(S), NEW T, HashSet(T), NEW p, NEW q,
         NEW m \in Nat, NEW n \in Nat, Lowered(S, p, m), Lowered(T, q, n)
  PROVE  Lowered(S \cup T, MinOf(p, q), MinOf(m, n))
<1>1. HashSet(S \cup T)
  BY FS_Union DEF HashSet
<1>2. Lowered(S \cup T, p, m) /\ Lowered(S \cup T, q, n)
  BY <1>1, LoweredGrows
<1>3. p \in Nat /\ q \in Nat /\ p <= m /\ q <= n
  BY Constants DEF Lowered
<1>4. \/ MinOf(p, q) = p /\ (p # MinOf(m, n) => p # m) /\ p <= MinOf(m, n)
      \/ MinOf(p, q) = q /\ (q # MinOf(m, n) => q # n) /\ q <= MinOf(m, n)
  BY <1>3 DEF MinOf
<1> QED
  BY <1>2, <1>4 DEF Lowered

(* Two sets that agree below p agree below a theta of a table that was     *)
(* not above p.                                                            *)
LEMMA TakeLoops ==
  ASSUME NEW t, NEW L \in 1 .. MaxTheta, NEW S, HashSet(S), NEW T \in SUBSET S,
         NEW m \in Nat, NEW h \in S, Loops(t, L, T, S, m)
  PROVE  Loops(Take(L, t, h), L, T \cup {h}, S, m)
<1>1. PICK v : v = Take(L, t, h)
  OBVIOUS
<1>2. /\ TableOK(t, Sizes) /\ t.theta \in Nat /\ t.entries \in SUBSET Nat
      /\ t.nom = Nominal /\ t.factor = Factor /\ t.isEmpty = FALSE
      /\ \A x \in t.entries : x < t.theta
  BY DEF Loops, TableOK, Tables
<1>3. PICK p \in Nat : p = MinOf(L, t.theta)
  <2>1. L \in Nat
    BY Constants
  <2> QED
    BY <1>2, <2>1, MinOfBounds
<1>4. /\ Below(t.entries, p) = Below(T, p) /\ Lowered(S, p, m)
      /\ p <= L /\ p <= t.theta /\ p \in {L, t.theta} /\ L \in Nat
      /\ T \in SUBSET Nat
  <2>1. L \in Nat /\ T \in SUBSET Nat
    BY Constants DEF HashSet
  <2>2. p <= L /\ p <= t.theta /\ p \in {L, t.theta}
    BY <1>2, <1>3, <2>1, MinOfBounds
  <2> QED
    BY <1>3, <2>1, <2>2 DEF Loops
<1>5. h \in Nat /\ 0 < h
  BY DEF HashSet
<1>6. CASE h < L /\ h < t.theta /\ h \notin t.entries
  <2>1. v = Insert(t, h)
    BY <1>1, <1>6 DEF Take
  <2>2. /\ TableOK(v, Sizes) /\ v.theta <= t.theta
        /\ v.entries = Below(t.entries \cup {h}, v.theta)
        /\ v.theta # t.theta =>
             v.theta \in t.entries \cup {h} /\ Cardinality(v.entries) = t.nom
        /\ v.nom = t.nom /\ v.factor = t.factor /\ v.isEmpty = t.isEmpty
    <3>1. /\ TableOK(Insert(t, h), Sizes) /\ Insert(t, h).theta <= t.theta
          /\ Insert(t, h).entries = Below(t.entries \cup {h}, Insert(t, h).theta)
          /\ Insert(t, h).theta # t.theta =>
               /\ Insert(t, h).theta \in t.entries \cup {h}
               /\ Cardinality(Insert(t, h).entries) = t.nom
          /\ Insert(t, h).nom = t.nom /\ Insert(t, h).factor = t.factor
          /\ Insert(t, h).isEmpty = t.isEmpty
      BY <1>2, <1>5, <1>6, InsertPreserves
    <3> QED
      BY <2>1, <3>1
  <2>3. v.theta \in Nat
    BY <2>2 DEF TableOK, Tables
  <2>4. PICK r \in Nat : r = MinOf(L, v.theta)
    BY <1>4, <2>3, MinOfBounds
  <2>5. r <= p /\ r <= v.theta /\ r \in {L, v.theta} /\ r <= L
    BY <1>2, <1>3, <1>4, <2>2, <2>3, <2>4 DEF MinOf
  <2>6. Below(t.entries, r) = Below(T, r)
    BY <1>2, <1>4, <2>5, BelowNarrow
  <2>7. Below(v.entries, r) = Below(T \cup {h}, r)
    <3>1. \A x \in Nat : x < r => x < v.theta
      BY <2>3, <2>5
    <3>2. Below(v.entries, r) = Below(t.entries \cup {h}, r)
      BY <1>2, <1>5, <2>2, <3>1 DEF Below
    <3> QED
      BY <2>6, <3>2 DEF Below
  <2>8. Lowered(S, r, m)
    <3>1. CASE r = p
      BY <3>1, <1>4
    <3>2. CASE r # p
      <4>1. r = v.theta /\ v.theta # t.theta /\ r < p /\ r < L
        BY <1>2, <1>3, <1>4, <2>3, <2>4, <2>5, <3>2 DEF MinOf
      <4>2. r \in Below(t.entries \cup {h}, p)
        BY <2>2, <4>1 DEF Below
      <4>3. r \in S
        BY <1>4, <4>2 DEF Below
      <4>4. v.entries \in SUBSET Below(S, r)
        <5>1. v.entries = Below(v.entries, r)
          BY <2>2, <4>1 DEF Below
        <5>2. Below(v.entries, r) = Below(T \cup {h}, r)
          BY <2>7
        <5> QED
          BY <5>1, <5>2 DEF Below
      <4>5. IsFiniteSet(Below(S, r)) /\ Cardinality(Below(S, r)) \in Nat
        BY BelowHashes DEF HashSet
      <4>6. Cardinality(v.entries) <= Cardinality(Below(S, r))
        BY <4>4, <4>5, FS_Subset
      <4>7. r \in 1 .. MaxTheta /\ r <= m
        <5>1. r # 0 /\ r \in Nat
          BY <4>3 DEF HashSet
        <5> QED
          BY <1>4, <4>1, <5>1, Constants DEF Lowered
      <4> QED
        BY <1>2, <2>2, <4>1, <4>3, <4>6, <4>7 DEF Lowered
    <3> QED
      BY <3>1, <3>2
  <2>9. Loops(v, L, T \cup {h}, S, m)
    BY <1>2, <2>2, <2>4, <2>7, <2>8 DEF Loops
  <2> QED
    BY <1>1, <2>9
<1>7. CASE ~(h < L /\ h < t.theta /\ h \notin t.entries)
  <2>1. v = t
    BY <1>1, <1>7 DEF Take
  <2>2. h \in t.entries \/ ~(h < p)
    BY <1>2, <1>4, <1>5, <1>7
  <2>3. Below(t.entries, p) = Below(T \cup {h}, p)
    BY <1>4, <2>2 DEF Below
  <2> QED
    BY <1>1, <1>3, <2>1, <2>3 DEF Loops
<1> QED
  BY <1>6, <1>7

(* f holds the table after each of the first m entries of q: what the      *)
(* recursion of UnionUpdate asks.                                          *)
Taken(f, t, L, q, m) ==
  f = [n \in 0 .. m |-> IF n = 0 THEN Unempty(t) ELSE Take(L, f[n - 1], q[n])]

(* One more entry. *)
LEMMA TakenGrow ==
  ASSUME NEW t, NEW L, NEW q, NEW m \in Nat, NEW f, Taken(f, t, L, q, m)
  PROVE  Taken([n \in 0 .. m + 1 |-> IF n <= m THEN f[n]
                                     ELSE Take(L, f[m], q[m + 1])],
               t, L, q, m + 1)
<1> DEFINE g == [n \in 0 .. m + 1 |-> IF n <= m THEN f[n]
                                      ELSE Take(L, f[m], q[m + 1])]
           h == [n \in 0 .. m + 1 |-> IF n = 0 THEN Unempty(t)
                                      ELSE Take(L, g[n - 1], q[n])]
<1>1. \A n \in 0 .. m : f[n] = IF n = 0 THEN Unempty(t)
                               ELSE Take(L, f[n - 1], q[n])
  BY DEF Taken
<1>2. ASSUME NEW n \in 0 .. m + 1 PROVE g[n] = h[n]
  <2>1. CASE n = 0
    BY <2>1, <1>1
  <2>2. CASE n # 0 /\ n <= m
    <3>1. n \in 0 .. m /\ n - 1 \in 0 .. m + 1 /\ n - 1 <= m
      BY <2>2
    <3>2. g[n] = f[n] /\ g[n - 1] = f[n - 1] /\ h[n] = Take(L, g[n - 1], q[n])
      BY <2>2, <3>1
    <3> QED
      BY <3>1, <3>2, <1>1, <2>2
  <2>3. CASE ~(n <= m)
    <3>1. n = m + 1 /\ n - 1 = m /\ n # 0 /\ m \in 0 .. m + 1
      BY <2>3
    <3>2. /\ g[n] = Take(L, f[m], q[m + 1]) /\ g[m] = f[m]
          /\ h[n] = Take(L, g[n - 1], q[n])
      BY <2>3, <3>1
    <3> QED
      BY <3>1, <3>2
  <2> QED
    BY <2>1, <2>2, <2>3
<1>3. g = h
  BY <1>2
<1> HIDE DEF g
<1> QED
  BY <1>3 DEF Taken, g

(* The loop of an update can be run, however many entries there are. *)
LEMMA TakenExist ==
  ASSUME NEW t, NEW L, NEW q, NEW m \in Nat
  PROVE  \E f : Taken(f, t, L, q, m)
<1> DEFINE Failing == {k \in Nat : ~\E f : Taken(f, t, L, q, k)}
<1>1. SUFFICES ASSUME Failing # {} PROVE FALSE
  OBVIOUS
<1>2. PICK k \in Failing : \A j \in Failing : k <= j
  BY <1>1, Least
<1>3. CASE k = 0
  <2> DEFINE f == [n \in 0 .. 0 |-> Unempty(t)]
             g == [n \in 0 .. 0 |-> IF n = 0 THEN Unempty(t)
                                    ELSE Take(L, f[n - 1], q[n])]
  <2>1. \A n \in 0 .. 0 : f[n] = g[n]
    OBVIOUS
  <2>2. f = g
    BY <2>1
  <2>3. Taken(f, t, L, q, 0)
    BY <2>2 DEF Taken
  <2> QED
    BY <2>3, <1>3
<1>4. CASE k # 0
  <2>1. k - 1 \in Nat /\ k - 1 \notin Failing /\ k = (k - 1) + 1
    BY <1>2, <1>4
  <2>2. PICK f : Taken(f, t, L, q, k - 1)
    BY <2>1
  <2>3. \E g : Taken(g, t, L, q, (k - 1) + 1)
    BY <2>1, <2>2, TakenGrow
  <2> QED
    BY <2>1, <2>3
<1> QED
  BY <1>3, <1>4

(* After the loop the table has absorbed every entry. *)
LEMMA LoopTakes ==
  ASSUME NEW t, NEW L \in 1 .. MaxTheta, NEW T, NEW S, HashSet(S), NEW m \in Nat,
         Loops(Unempty(t), L, T, S, m),
         NEW q \in Seq(Nat), T \cup KeysOf(q) \subseteq S,
         NEW f, Taken(f, t, L, q, Len(q))
  PROVE  Loops(f[Len(q)], L, T \cup KeysOf(q), S, m)
<1> DEFINE Upto(n) == T \cup {q[i] : i \in 1 .. n}
           Right(n) == Loops(f[n], L, Upto(n), S, m)
           Failing == {n \in Nat : n <= Len(q) /\ ~Right(n)}
<1>1. Len(q) \in Nat /\ DOMAIN q = 1 .. Len(q)
  OBVIOUS
<1>2. \A n \in 0 .. Len(q) : f[n] = IF n = 0 THEN Unempty(t)
                                    ELSE Take(L, f[n - 1], q[n])
  BY DEF Taken
<1>3. Right(0)
  <2>1. f[0] = Unempty(t) /\ Upto(0) = T
    BY <1>1, <1>2
  <2> HIDE DEF Upto
  <2> QED
    BY <2>1
<1>4. ASSUME NEW n \in 1 .. Len(q), Right(n - 1) PROVE Right(n)
  <2>1. n # 0 /\ n \in 0 .. Len(q) /\ n \in DOMAIN q /\ n - 1 \in Nat
    BY <1>1
  <2>2. f[n] = Take(L, f[n - 1], q[n])
    BY <1>2, <2>1
  <2>3. q[n] \in S /\ Upto(n - 1) \in SUBSET S
    BY <1>1, <2>1 DEF KeysOf
  <2>4. Upto(n) = Upto(n - 1) \cup {q[n]}
    <3>1. \A i : i \in 1 .. n <=> (i \in 1 .. n - 1 \/ i = n)
      BY <2>1
    <3> QED
      BY <3>1
  <2> HIDE DEF Upto
  <2>5. Loops(Take(L, f[n - 1], q[n]), L, Upto(n - 1) \cup {q[n]}, S, m)
    BY <1>4, <2>3, TakeLoops
  <2> QED
    BY <2>2, <2>4, <2>5
<1> HIDE DEF Right
<1>5. Right(Len(q))
  <2>1. SUFFICES ASSUME Failing # {} PROVE FALSE
    BY <1>1
  <2>2. PICK n \in Failing : \A k \in Failing : n <= k
    BY <2>1, Least
  <2>3. n # 0
    BY <1>3, <2>2
  <2>4. n - 1 \in Nat /\ n - 1 \notin Failing /\ n - 1 <= Len(q) /\ n \in 1 .. Len(q)
    BY <1>1, <2>2, <2>3
  <2>5. Right(n - 1)
    BY <2>4
  <2> QED
    BY <1>4, <2>2, <2>4, <2>5
<1> QED
  BY <1>1, <1>5 DEF KeysOf, Right

-----------------------------------------------------------------------------
(* The keys of a sketch are hashes. *)
LEMMA KeysAreHashes ==
  ASSUME NEW s, IsSketch(s, MaxTheta)
  PROVE  /\ HashSet(Keys(s)) /\ Keys(s) \in SUBSET (1 .. MaxTheta - 1)
         /\ s.theta \in 1 .. MaxTheta /\ s.theta \in Nat
         /\ s.isEmpty \in BOOLEAN /\ s.isOrdered \in BOOLEAN
         /\ s.entries \in Seq(Nat) /\ KeysOf(s.entries) = Keys(s)
         /\ \A h \in Keys(s) : 0 < h /\ h < s.theta
         /\ s.isEmpty => Keys(s) = {} /\ s.theta = MaxTheta
<1>1. /\ IsFiniteSet(Keys(s)) /\ Keys(s) \in SUBSET (1 .. MaxTheta - 1)
      /\ s.theta \in 1 .. MaxTheta
      /\ s.isEmpty \in BOOLEAN /\ s.isOrdered \in BOOLEAN
      /\ s.entries \in Seq(Nat) /\ KeysOf(s.entries) = Keys(s)
      /\ \A h \in Keys(s) : 0 < h /\ h < s.theta
      /\ s.isEmpty => Keys(s) = {} /\ s.theta = MaxTheta
  BY Constants, SketchKeys
<1>2. HashSet(Keys(s))
  BY <1>1 DEF HashSet
<1> QED
  BY <1>1, <1>2

(* r is an ordered sketch with these fields and keys. *)
OrderedSketch(r, isEmpty, theta, K) ==
  /\ IsSketch(r, MaxTheta) /\ Shaped(r)
  /\ Keys(r) = K /\ r.theta = theta /\ r.isEmpty = isEmpty /\ r.isOrdered

(* Sorted keys below theta make one. *)
LEMMA SortedSketch ==
  ASSUME NEW isEmpty \in BOOLEAN, NEW theta \in 1 .. MaxTheta, NEW K, HashSet(K),
         \A h \in K : h < theta, isEmpty => K = {} /\ theta = MaxTheta,
         NEW r, r = MakeSketch(isEmpty, TRUE, theta, SortedKeys(K))
  PROVE  OrderedSketch(r, isEmpty, theta, K)
<1>1. PICK e : e = SortedKeys(K)
  OBVIOUS
<1>2. e \in Seq(Nat) /\ KeysOf(e) = K /\ Distinct(e) /\ Ascending(e)
  BY <1>1, SortedKeysIs DEF HashSet
<1>3. PICK b \in BOOLEAN : b = (TRUE \/ Len(e) <= 1)
  OBVIOUS
<1>4. r = Sketch(isEmpty, b, theta, e)
  BY <1>1, <1>3 DEF MakeSketch, Sketch
<1>5. r.isEmpty = isEmpty /\ r.isOrdered = b /\ r.theta = theta /\ r.entries = e
  BY ONLY <1>4 DEF Sketch
<1>6. Keys(r) = K
  BY <1>2, <1>5 DEF Keys, KeysOf
<1>7. \A i \in DOMAIN e : 0 < e[i] /\ e[i] < theta
  <2>1. ASSUME NEW i \in DOMAIN e PROVE 0 < e[i] /\ e[i] < theta
    <3>1. e[i] \in K /\ e[i] \in Nat /\ e[i] # 0
      BY <1>2 DEF KeysOf, HashSet
    <3> QED
      BY <3>1
  <2> QED
    BY <2>1
<1>8. isEmpty => e = <<>>
  <2>1. ASSUME K = {} PROVE e = <<>>
    <3>1. Len(e) = Cardinality(KeysOf(e)) /\ Cardinality({}) = 0
      BY <1>2, DistinctCounts, FS_EmptySet
    <3> QED
      BY <1>2, <2>1, <3>1
  <2> QED
    BY <2>1
<1>9. IsSketch(r, MaxTheta)
  BY <1>2, <1>5, <1>7, <1>8 DEF IsSketch
<1> QED
  BY <1>3, <1>4, <1>5, <1>6, <1>9 DEF Shaped, OrderedSketch

(* A new union stands for nothing. *)
LEMMA NewUnites ==
  /\ Unites(NewUnion, {}, MaxTheta) /\ Builds(NewUpdateSketch, {})
<1>1. PICK t, u : t = NewUpdateSketch /\ u = NewUnion
  OBVIOUS
<1>2. TableOK(t, Sizes)
  <2>1. TRUE \in BOOLEAN /\ MaxTheta \in Nat
    BY Constants
  <2>2. TableOK(NewTable(StartSize, Nominal, Factor, MaxTheta, TRUE), Sizes)
    BY <2>1, Constants, NewTableOK, Zenon
  <2> QED
    BY <1>1, <2>2 DEF NewUpdateSketch
<1>3. /\ t.theta = MaxTheta /\ t.entries = {} /\ t.nom = Nominal /\ t.factor = Factor
  BY <1>1 DEF NewUpdateSketch, NewTable
<1>4. u = [table |-> t, theta |-> MaxTheta]
  BY <1>1 DEF NewUnion
<1>5. u = [table |-> u.table, theta |-> u.theta] /\ u.table = t /\ u.theta = MaxTheta
  BY <1>4
<1>6. Lowered({}, MaxTheta, MaxTheta)
  BY Constants DEF Lowered
<1>7. Builds(t, {})
  BY <1>2, <1>3, <1>6 DEF Builds, Below
<1>8. Unites(u, {}, MaxTheta)
  BY <1>2, <1>3, <1>5, <1>6, Constants DEF Unites
<1> QED
  BY <1>1, <1>7, <1>8

(* An update of a union, of any length, in any order, with any table size: *)
(* the union then stands for the hashes of both.                           *)
LEMMA UpdateUnites ==
  ASSUME NEW u, NEW S, HashSet(S), NEW m \in 1 .. MaxTheta, Unites(u, S, m),
         NEW s, NEW Q, HashSet(Q), NEW n \in 1 .. MaxTheta, Represents(s, Q, n)
  PROVE  /\ Unites(UnionUpdate(u, s), S \cup Q, MinOf(m, n))
         /\ UnionUpdate(u, s).table.isEmpty <=> u.table.isEmpty /\ s.isEmpty
<1>0. m \in Nat /\ n \in Nat /\ m <= MaxTheta /\ MaxTheta \in Nat
  BY Constants
<1>1. CASE s.isEmpty
  <2>1. UnionUpdate(u, s) = u
    BY <1>1 DEF UnionUpdate
  <2>2. Q = {} /\ n = MaxTheta
    BY <1>1 DEF Represents
  <2>3. S \cup Q = S /\ MinOf(m, n) = m
    BY <1>0, <2>2 DEF MinOf
  <2> QED
    BY <1>1, <2>1, <2>3
<1>2. CASE ~s.isEmpty
  <2>1. /\ IsSketch(s, MaxTheta) /\ Keys(s) = Below(Q, s.theta)
        /\ Lowered(Q, s.theta, n)
    BY DEF Represents
  <2>2. /\ s.entries \in Seq(Nat) /\ KeysOf(s.entries) = Keys(s)
        /\ s.theta \in 1 .. MaxTheta
    BY <2>1, KeysAreHashes
  <2>3. u.theta \in 1 .. MaxTheta /\ Lowered(S, u.theta, m)
    BY DEF Unites, Lowered
  <2>4. PICK L \in 1 .. MaxTheta : L = MinOf(u.theta, s.theta)
    BY <2>2, <2>3 DEF MinOf
  <2>5. L \in Nat /\ u.theta \in Nat /\ s.theta \in Nat /\ L <= u.theta /\ L <= s.theta
    BY <1>0, <2>2, <2>3, <2>4 DEF MinOf
  <2>6. PICK t, q, k, r : /\ t = u.table /\ q = s.entries /\ k = Len(q)
                          /\ r = UnionUpdate(u, s)
    OBVIOUS
  <2>7. PICK f : f = CHOOSE g : Taken(g, t, L, q, k)
    OBVIOUS
  <2>8. r = [table |-> f[k], theta |-> MinOf(L, f[k].theta)]
    BY <1>2, <2>4, <2>6, <2>7 DEF UnionUpdate, Taken, Take
  <2>9. Taken(f, t, L, q, k)
    <3>1. k \in Nat
      BY <2>2, <2>6
    <3> QED
      BY <2>7, <3>1, TakenExist
  <2>10. PICK A, M : A = S \cup Q /\ M = MinOf(m, n)
    OBVIOUS
  <2>11. HashSet(A) /\ M \in Nat
    BY <1>0, <2>10, FS_Union, MinOfBounds DEF HashSet
  <2>12. Loops(Unempty(t), L, S, A, M)
    <3>1. /\ TableOK(t, Sizes) /\ t.nom = Nominal /\ t.factor = Factor
          /\ u.theta <= t.theta /\ Below(t.entries, u.theta) = Below(S, u.theta)
      BY <2>6 DEF Unites
    <3>2. t.theta \in Nat /\ t.entries \in SUBSET Nat
      BY <3>1 DEF TableOK, Tables
    <3>3. PICK v : v = Unempty(t)
      OBVIOUS
    <3>4. /\ TableOK(v, Sizes) /\ v.isEmpty = FALSE /\ v.entries = t.entries
          /\ v.theta = t.theta /\ v.nom = t.nom /\ v.factor = t.factor
      BY <3>1, <3>3, UnemptyPreserves
    <3>5. MinOf(L, v.theta) = L
      BY <2>5, <3>1, <3>2, <3>4 DEF MinOf
    <3>6. Below(t.entries, L) = Below(S, L)
      BY <2>5, <3>1, <3>2, BelowNarrow DEF HashSet
    <3>7. Lowered(A, L, M)
      BY <1>0, <2>1, <2>3, <2>4, <2>10, LoweredBoth
    <3> QED
      BY <3>1, <3>3, <3>4, <3>5, <3>6, <3>7 DEF Loops
  <2>13. S \cup KeysOf(q) \subseteq A
    BY <2>1, <2>2, <2>6, <2>10 DEF Below
  <2>14. Loops(f[k], L, S \cup KeysOf(q), A, M)
    BY <2>2, <2>6, <2>9, <2>11, <2>12, <2>13, LoopTakes
  <2>15. PICK v, p : v = f[k] /\ p = MinOf(L, v.theta)
    OBVIOUS
  <2>16. /\ TableOK(v, Sizes) /\ v.nom = Nominal /\ v.factor = Factor
         /\ Below(v.entries, p) = Below(S \cup KeysOf(q), p)
         /\ Lowered(A, p, M) /\ v.isEmpty = FALSE
    BY <2>14, <2>15 DEF Loops
  <2>17. v.theta \in Nat
    BY <2>16 DEF TableOK, Tables
  <2>18. p \in Nat /\ p <= v.theta /\ p <= L
    BY <2>5, <2>15, <2>17, MinOfBounds
  <2>19. Below(v.entries, p) = Below(A, p)
    <3>1. \A h \in Nat : h < p => h < s.theta
      BY <2>5, <2>18
    <3>2. \A h \in Q : h < p => h \in KeysOf(q)
      BY <2>1, <2>2, <2>6, <3>1 DEF Below, HashSet
    <3>3. \A h : h \in A /\ h < p <=> h \in S \cup KeysOf(q) /\ h < p
      BY <2>10, <2>13, <3>2
    <3> QED
      BY <2>16, <3>3 DEF Below
  <2>20. r = [table |-> v, theta |-> p]
    BY <2>8, <2>15
  <2>21. r.table = v /\ r.theta = p
    BY <2>20
  <2>22. Unites(r, A, M)
    BY <2>16, <2>18, <2>19, <2>20, <2>21 DEF Unites
  <2>23. ~r.table.isEmpty
    BY <2>16, <2>21
  <2> QED
    BY <1>2, <2>6, <2>10, <2>22, <2>23
<1> QED
  BY <1>1, <1>2

(* The result of a union stands for what the union stands for, cut to the  *)
(* nominal size and ordered.                                               *)
LEMMA ResultUnites ==
  ASSUME NEW u, NEW S, HashSet(S), NEW m \in Nat, Unites(u, S, m),
         NEW r, r = UnionResult(u)
  PROVE  /\ Represents(r, S, m) /\ Shaped(r) /\ r.isOrdered
         /\ Cardinality(Keys(r)) <= Nominal /\ r.isEmpty = u.table.isEmpty
<1>1. PICK t, p, K : t = u.table /\ p = u.theta /\ K = Below(S, p)
  OBVIOUS
<1>2. /\ TableOK(t, Sizes) /\ t.nom = Nominal /\ p <= t.theta
      /\ Below(t.entries, p) = K /\ Lowered(S, p, m)
      /\ t.isEmpty => S = {} /\ m = MaxTheta
      /\ p \in 1 .. MaxTheta
  BY <1>1 DEF Unites, Lowered
<1>3. /\ t.theta \in Nat /\ t.entries \in SUBSET Nat /\ t.isEmpty \in BOOLEAN
      /\ p \in Nat /\ \A h \in t.entries : h < t.theta
  BY <1>2, Constants DEF TableOK, Tables
<1>4. HashSet(K) /\ K \subseteq S /\ Cardinality(K) \in Nat /\ \A h \in K : h < p
  BY <1>1, <1>3, BelowHashes DEF Below
<1>5. MinOf(p, t.theta) = p
  BY <1>2, <1>3 DEF MinOf
<1>6. Kept(t, p) = K
  <2>1. CASE p >= t.theta
    <3>1. p = t.theta
      BY <1>2, <1>3, <2>1
    <3>2. Kept(t, p) = t.entries /\ t.entries = Below(t.entries, p)
      BY <1>3, <2>1, <3>1 DEF Kept, Below
    <3> QED
      BY <1>2, <3>2
  <2>2. CASE ~(p >= t.theta)
    BY <1>2, <1>5, <2>2 DEF Kept
  <2> QED
    BY <2>1, <2>2
<1>7. PICK R : R = ResultOf(t, p)
  OBVIOUS
<1>8. r = MakeSketch(R.isEmpty, TRUE, R.theta, SortedKeys(R.keys))
  BY <1>1, <1>7 DEF UnionResult
<1>9. ASSUME NEW b \in BOOLEAN, NEW q \in 1 .. MaxTheta, NEW J, HashSet(J),
             J = Below(S, q), Lowered(S, q, m), b = t.isEmpty,
             Cardinality(J) <= Nominal,
             R.isEmpty = b, R.theta = q, R.keys = J
      PROVE  /\ Represents(r, S, m) /\ Shaped(r) /\ r.isOrdered
             /\ Cardinality(Keys(r)) <= Nominal /\ r.isEmpty = u.table.isEmpty
  <2>1. r = MakeSketch(b, TRUE, q, SortedKeys(J))
    BY <1>8, <1>9
  <2>2. \A h \in J : h < q
    BY <1>9 DEF Below
  <2>3. b => J = {} /\ q = MaxTheta
    BY <1>2, <1>9 DEF Below, Lowered
  <2>4. OrderedSketch(r, b, q, J)
    BY <1>9, <2>1, <2>2, <2>3, SortedSketch
  <2> QED
    BY <1>1, <1>2, <1>9, <2>4 DEF Represents, OrderedSketch
<1>10. CASE t.isEmpty
  <2>1. R = [isEmpty |-> TRUE, theta |-> p, keys |-> {}]
    BY <1>7, <1>10 DEF ResultOf
  <2>2. S = {} /\ K = {}
    BY <1>2, <1>4, <1>10
  <2>3. Cardinality({}) <= Nominal
    BY FS_EmptySet, Constants
  <2>4. PICK b \in BOOLEAN : b = TRUE
    OBVIOUS
  <2>5. R.isEmpty = b /\ R.theta = p /\ R.keys = K
    BY <2>1, <2>2, <2>4
  <2>6. b = t.isEmpty
    BY <1>3, <1>10, <2>4
  <2> QED
    BY <1>1, <1>2, <1>4, <1>9, <2>2, <2>3, <2>5, <2>6
<1>11. CASE ~t.isEmpty /\ Cardinality(K) > Nominal
  <2>1. PICK q : q = NthElement(K, Nominal)
    OBVIOUS
  <2>2. R = [isEmpty |-> FALSE, theta |-> q, keys |-> Below(K, q)]
    BY <1>2, <1>6, <1>7, <1>11, <2>1 DEF ResultOf
  <2>3. q \in K /\ Cardinality(Below(K, q)) = Nominal
    BY <1>4, <1>11, <2>1, Constants, NthElementRank DEF HashSet
  <2>4. q \in Nat /\ q < p /\ q # 0 /\ q \in S
    BY <1>4, <2>3 DEF HashSet
  <2>5. Below(K, q) = Below(S, q)
    <3>1. \A h \in Nat : h < q => h < p
      BY <1>3, <2>4
    <3> QED
      BY <1>1, <3>1 DEF Below, HashSet
  <2>6. q \in 1 .. MaxTheta /\ q <= m
    <3>1. p <= m /\ p <= MaxTheta /\ m \in Int
      BY <1>2, Constants DEF Lowered
    <3> QED
      BY <1>3, <2>4, <3>1, Constants
  <2>7. Lowered(S, q, m)
    BY <2>3, <2>4, <2>5, <2>6, Constants DEF Lowered
  <2>8. HashSet(Below(S, q))
    BY <2>4, BelowHashes
  <2>9. PICK b \in BOOLEAN : b = FALSE
    OBVIOUS
  <2>10. R.isEmpty = b /\ R.theta = q /\ R.keys = Below(S, q)
    BY <2>2, <2>5, <2>9
  <2>11. Cardinality(Below(S, q)) <= Nominal
    BY <2>3, <2>5, Constants
  <2> QED
    BY <1>3, <1>9, <1>11, <2>6, <2>7, <2>8, <2>9, <2>10, <2>11
<1>12. CASE ~t.isEmpty /\ ~(Cardinality(K) > Nominal)
  <2>1. R = [isEmpty |-> FALSE, theta |-> p, keys |-> K]
    BY <1>2, <1>5, <1>6, <1>7, <1>12 DEF ResultOf
  <2>2. PICK b \in BOOLEAN : b = FALSE
    OBVIOUS
  <2>3. R.isEmpty = b /\ R.theta = p /\ R.keys = K
    BY <2>1, <2>2
  <2>4. Cardinality(K) <= Nominal /\ b = t.isEmpty
    BY <1>3, <1>4, <1>12, <2>2, Constants
  <2> QED
    BY <1>1, <1>2, <1>4, <1>9, <2>3, <2>4
<1> QED
  BY <1>10, <1>11, <1>12

(* A sketch cut to the nominal size is determined by the hashes it stands  *)
(* for: theta is the (nominal + 1)-th smallest if there are so many.       *)
LEMMA CutIsCanonical ==
  ASSUME NEW r, NEW S, HashSet(S), NEW m \in Nat, Represents(r, S, m),
         Cardinality(Keys(r)) <= Nominal,
         NEW all, all = Below(S, m)
  PROVE  /\ r.theta = IF Cardinality(all) <= Nominal THEN m ELSE NthElement(all, Nominal)
         /\ Keys(r) = Below(all, r.theta)
<1>1. PICK p : p = r.theta
  OBVIOUS
<1>2. Keys(r) = Below(S, p) /\ Lowered(S, p, m) /\ p \in Nat /\ p <= m
  BY <1>1, Constants DEF Represents, Lowered
<1>3. HashSet(all) /\ Cardinality(all) \in Nat
  BY BelowHashes
<1>4. Below(S, p) = Below(all, p)
  <2>1. \A h \in Nat : h < p => h < m
    BY <1>2
  <2> QED
    BY <2>1 DEF Below, HashSet
<1>5. CASE p = m
  <2>1. Cardinality(all) <= Nominal
    BY <1>2, <1>5
  <2> QED
    BY <1>1, <1>2, <1>4, <1>5, <2>1
<1>6. CASE p # m
  <2>1. p \in S /\ Nominal <= Cardinality(Below(S, p)) /\ p < m
    BY <1>2, <1>6 DEF Lowered
  <2>2. Cardinality(Below(S, p)) \in Nat
    BY <1>2, BelowHashes
  <2>3. Cardinality(Below(all, p)) = Nominal /\ p \in all
    BY <1>2, <1>4, <2>1, <2>2, Constants DEF Below
  <2>4. Nominal < Cardinality(all)
    BY <1>2, <1>3, <2>3, BelowFinite DEF HashSet
  <2>5. p = NthElement(all, Nominal)
    BY <1>3, <2>3, <2>4, Constants, NthElementRank DEF HashSet
  <2> QED
    BY <1>1, <1>2, <1>3, <1>4, <2>4, <2>5, Constants
<1> QED
  BY <1>5, <1>6

-----------------------------------------------------------------------------
(* An update sketch that is offered one more hash, or 0, which is screened *)
(* out.                                                                    *)
LEMMA OfferBuilds ==
  ASSUME NEW t, NEW S, HashSet(S), Builds(t, S), NEW h \in Nat,
         NEW A, A = S \cup ({h} \ {0})
  PROVE  Builds(Offer(t, h), A) /\ Offer(t, h).isEmpty = FALSE
<1>1. PICK v, N : v = Offer(t, h) /\ N = {h} \ {0}
  OBVIOUS
<1>2. /\ TableOK(t, Sizes) /\ t.nom = Nominal /\ t.factor = Factor
      /\ t.entries = Below(S, t.theta) /\ Lowered(S, t.theta, MaxTheta)
  BY DEF Builds
<1>3. /\ TableOK(v, Sizes) /\ Absorbs(t, v, N) /\ v.isEmpty = FALSE
  BY <1>1, <1>2, OfferPreserves
<1>4. /\ v.theta <= t.theta /\ v.entries = Below(t.entries \cup N, v.theta)
      /\ v.theta # t.theta =>
           v.theta \in t.entries \cup N /\ Cardinality(v.entries) = Nominal
      /\ v.nom = Nominal /\ v.factor = Factor
  BY <1>2, <1>3 DEF Absorbs
<1>5. v.theta \in Nat /\ t.theta \in Nat /\ t.theta \in 1 .. MaxTheta
  BY <1>2, <1>3 DEF TableOK, Tables, Lowered
<1>6. HashSet(A) /\ A = S \cup N
  <2>1. IsFiniteSet(N)
    BY <1>1, FS_Singleton, FS_Subset
  <2> QED
    BY <1>1, <2>1, FS_Union DEF HashSet
<1>7. v.entries = Below(A, v.theta)
  <2>1. \A x \in Nat : x < v.theta => x < t.theta
    BY <1>4, <1>5
  <2> QED
    BY <1>2, <1>4, <1>6, <2>1 DEF Below, HashSet
<1>8. Lowered(A, v.theta, MaxTheta)
  <2>1. CASE v.theta = t.theta
    BY <1>2, <1>6, <2>1, LoweredGrows
  <2>2. CASE v.theta # t.theta
    <3>1. v.theta \in A
      BY <1>2, <1>4, <1>6, <2>2 DEF Below
    <3>2. v.theta # 0
      BY <1>6, <3>1 DEF HashSet
    <3>3. v.theta \in 1 .. MaxTheta /\ v.theta <= MaxTheta
      BY <1>4, <1>5, <3>2, Constants
    <3>4. Nominal <= Cardinality(Below(A, v.theta))
      BY <1>4, <1>7, <2>2, Constants
    <3> QED
      BY <3>1, <3>3, <3>4 DEF Lowered
  <2> QED
    BY <2>1, <2>2
<1>9. Builds(v, A)
  BY <1>3, <1>4, <1>7, <1>8 DEF Builds
<1> QED
  BY <1>1, <1>3, <1>9

(* A sequence of keys of E of which the k-th is the one of rank c - k: each *)
(* key of E once.                                                          *)
LEMMA RankedIs ==
  ASSUME NEW E \in SUBSET Nat, IsFiniteSet(E), NEW c \in Nat, c = Cardinality(E),
         NEW e, e = [k \in 1 .. c |-> e[k]],
         \A k \in 1 .. c : e[k] \in E /\ Cardinality(Below(E, e[k])) = c - k
  PROVE  /\ e \in Seq(Nat) /\ Len(e) = c /\ KeysOf(e) = E /\ Distinct(e)
         /\ c <= 1 => Ascending(e)
<1>1. \A k \in 1 .. c : e[k] \in Nat
  OBVIOUS
<1>2. e \in [1 .. c -> Nat]
  BY <1>1
<1>3. e \in Seq(Nat) /\ Len(e) = c /\ DOMAIN e = 1 .. c
  BY <1>2
<1>4. ASSUME NEW h \in E PROVE \E k \in 1 .. c : e[k] = h
  <2>1. PICK n : n = Cardinality(Below(E, h))
    OBVIOUS
  <2>2. h \in Nat /\ n \in Nat /\ n < c
    BY <2>1, BelowFinite
  <2>3. PICK k \in 1 .. c : k = c - n
    BY <2>2
  <2>4. c - k = n
    BY <2>2, <2>3
  <2>5. h = NthElement(E, n) /\ e[k] = NthElement(E, n)
    <3>1. e[k] \in E /\ Cardinality(Below(E, e[k])) = n
      BY <2>4
    <3> QED
      BY <2>1, <2>2, <3>1, NthElementRank
  <2> QED
    BY <2>5
<1>5. KeysOf(e) = E
  BY <1>3, <1>4 DEF KeysOf
<1>6. Distinct(e)
  <2>1. ASSUME NEW i \in 1 .. c, NEW j \in 1 .. c, i # j PROVE e[i] # e[j]
    <3>1. c - i # c - j
      BY <2>1
    <3> QED
      BY <3>1
  <2> QED
    BY <1>3, <2>1 DEF Distinct
<1>7. c <= 1 => Ascending(e)
  BY <1>3 DEF Ascending
<1> QED
  BY <1>3, <1>5, <1>6, <1>7

(* The keys of a table, read from the slots in any order: each of them     *)
(* once.                                                                   *)
LEMMA DescendingIs ==
  ASSUME NEW E \in SUBSET Nat, IsFiniteSet(E), NEW c \in Nat, c = Cardinality(E),
         NEW e, e = [k \in 1 .. c |-> NthElement(E, c - k)]
  PROVE  /\ e \in Seq(Nat) /\ Len(e) = c /\ KeysOf(e) = E /\ Distinct(e)
         /\ c <= 1 => Ascending(e)
<1>1. ASSUME NEW k \in 1 .. c
      PROVE  e[k] \in E /\ Cardinality(Below(E, e[k])) = c - k
  <2>1. c - k \in Nat /\ c - k < c
    OBVIOUS
  <2>2. PICK n \in Nat : n = c - k
    BY <2>1
  <2>3. e[k] = NthElement(E, n)
    BY <2>2
  <2> QED
    BY <2>1, <2>2, <2>3, NthElementRank
<1>2. e = [k \in 1 .. c |-> e[k]]
  OBVIOUS
<1> QED
  BY ONLY <1>1, <1>2, RankedIs, E \in SUBSET Nat, IsFiniteSet(E), c \in Nat,
          c = Cardinality(E)

(* An update sketch that was offered anything, read as a sketch. *)
LEMMA BuiltSketch ==
  ASSUME NEW t, NEW S, HashSet(S), Builds(t, S), t.isEmpty = FALSE,
         NEW v, v = AsSketch(t)
  PROVE  Represents(v, S, MaxTheta) /\ Shaped(v) /\ ~v.isEmpty
<1>1. /\ TableOK(t, Sizes) /\ t.entries = Below(S, t.theta)
      /\ Lowered(S, t.theta, MaxTheta) /\ t.theta \in 1 .. MaxTheta
  BY DEF Builds, Lowered
<1>2. PICK E, c, e, p : /\ E = t.entries /\ c = t.num /\ p = t.theta
                        /\ e = [k \in 1 .. c |-> NthElement(E, c - k)]
  OBVIOUS
<1>3. /\ E \in SUBSET Nat /\ IsFiniteSet(E) /\ c = Cardinality(E) /\ c \in Nat
      /\ \A h \in E : 0 < h /\ h < p
  BY <1>1, <1>2 DEF TableOK, Tables
<1>4. /\ e \in Seq(Nat) /\ Len(e) = c /\ KeysOf(e) = E /\ Distinct(e)
      /\ c <= 1 => Ascending(e)
  BY <1>2, <1>3, DescendingIs
<1>5. PICK b \in BOOLEAN : b = FALSE
  OBVIOUS
<1>6. v = [isEmpty |-> b, isOrdered |-> c <= 1, theta |-> p, entries |-> e]
  BY <1>2, <1>5 DEF AsSketch
<1>7. /\ v.isEmpty = b /\ v.theta = p /\ v.entries = e
      /\ v.isOrdered = (c <= 1) /\ v.isOrdered \in BOOLEAN
      /\ v = Sketch(v.isEmpty, v.isOrdered, v.theta, v.entries)
  BY ONLY <1>6 DEF Sketch
<1>8. Keys(v) = E
  BY <1>4, <1>7 DEF Keys, KeysOf
<1>9. \A i \in DOMAIN e : 0 < e[i] /\ e[i] < p
  BY <1>3, <1>4 DEF KeysOf
<1>10. IsSketch(v, MaxTheta)
  BY <1>1, <1>2, <1>4, <1>5, <1>7, <1>9 DEF IsSketch
<1> QED
  BY <1>1, <1>2, <1>5, <1>6, <1>7, <1>8, <1>10 DEF Represents, Shaped

-----------------------------------------------------------------------------
(* The cleared table of an intersection, with nothing left in common. *)
LEMMA NothingCommon ==
  ASSUME NEW C, NEW m, Below(C, m) = {}, NEW b \in BOOLEAN, NEW theta \in Nat,
         theta = IF b THEN MaxTheta ELSE m, b => C = {}
  PROVE  Common(NoTable(theta, b), C, m) /\ NoTable(theta, b).isEmpty = b
<1>1. PICK t : t = NoTable(theta, b)
  OBVIOUS
<1>2. t = [isEmpty |-> b, cur |-> 1, nom |-> 1, factor |-> 1,
           num |-> 0, theta |-> theta, entries |-> {}]
  BY <1>1 DEF NoTable, NewTable
<1>3. t \in Tables(Nat) /\ t.isEmpty = b /\ t.num = 0 /\ t.theta = theta /\ t.entries = {}
  BY <1>2 DEF Tables
<1>4. IsFiniteSet({}) /\ Cardinality({}) = 0
  BY FS_EmptySet
<1> QED
  BY <1>1, <1>3, <1>4 DEF Common

(* The table filled with the common keys. *)
LEMMA FilledCommon ==
  ASSUME NEW C, NEW m \in Nat, NEW q \in Seq(Nat), Distinct(q),
         KeysOf(q) = Below(C, m), NEW b \in BOOLEAN, ~b
  PROVE  Common(Filled(m, b, q), C, m) /\ Filled(m, b, q).isEmpty = b
<1>1. PICK t : t = Filled(m, b, q)
  OBVIOUS
<1>2. /\ t \in Tables(Nat) /\ t.isEmpty = b /\ t.theta = m /\ t.num = Len(q)
      /\ t.entries = KeysOf(q)
  BY <1>1, FilledIs
<1>3. IsFiniteSet(KeysOf(q)) /\ Cardinality(KeysOf(q)) = Len(q)
  BY DistinctCounts
<1> QED
  BY <1>1, <1>2, <1>3 DEF Common

(* Nothing below theta is left in common for good. *)
LEMMA NothingStays ==
  ASSUME NEW C \in SUBSET Nat, NEW D \in SUBSET C, NEW m \in Nat, NEW p \in Nat,
         p <= m, Below(C, m) = {}
  PROVE  Below(D, p) = {}
<1>1. \A h \in Nat : h < p => h < m
  OBVIOUS
<1> QED
  BY <1>1 DEF Below

(* The sketches an intersection may be fed. *)
LEMMA SharesFacts ==
  ASSUME NEW s, NEW D, NEW n \in 1 .. MaxTheta, Shares(s, D, n)
  PROVE  /\ IsSketch(s, MaxTheta) /\ s.isEmpty \in BOOLEAN
         /\ s.entries \in Seq(Nat) /\ Distinct(s.entries)
         /\ KeysOf(s.entries) = Keys(s) /\ Keys(s) = Below(D, n)
         /\ s.theta \in 1 .. MaxTheta /\ n \in Nat /\ MaxTheta \in Nat
         /\ s.isEmpty => D = {} /\ s.theta = MaxTheta /\ s.entries = <<>>
         /\ ~s.isEmpty => s.theta = n
         /\ s.entries = <<>> => Keys(s) = {}
<1>1. IsSketch(s, MaxTheta)
  BY DEF Shares
<1>2. Distinct(s.entries) /\ (s.isEmpty => s.entries = <<>>)
  BY <1>1 DEF IsSketch
<1>3. s.entries = <<>> => Keys(s) = {}
  <2>1. DOMAIN <<>> = {}
    OBVIOUS
  <2> QED
    BY <2>1 DEF Keys
<1> QED
  BY <1>1, <1>2, <1>3, KeysAreHashes, Constants DEF Shares

(* The first update of an intersection copies the sketch. *)
LEMMA FirstIntersects ==
  ASSUME NEW s, NEW D, NEW n \in 1 .. MaxTheta, Shares(s, D, n)
  PROVE  /\ Intersects(InterUpdate(NewIntersection, s), D, n)
         /\ InterUpdate(NewIntersection, s).table.isEmpty = s.isEmpty
<1>1. PICK x, t, r : /\ x = NewIntersection /\ t = x.table
                     /\ r = InterUpdate(x, s)
  OBVIOUS
<1>2. /\ t.isEmpty = FALSE /\ t.theta = MaxTheta /\ t.num = 0 /\ t.entries = {}
      /\ x.isValid = FALSE /\ t \in Tables(Nat)
  <2>1. t = NewTable(1, 1, 1, MaxTheta, FALSE) /\ x.isValid = FALSE
    BY <1>1 DEF NewIntersection
  <2> QED
    BY <2>1, Constants DEF NewTable, Tables
<1>3. PICK b, p : b = s.isEmpty /\ p = IF b THEN MaxTheta ELSE n
  OBVIOUS
<1>4. b \in BOOLEAN /\ p \in Nat
  BY <1>3, SharesFacts
<1>5. ScreenedBy(t, s, MaxTheta).isEmpty = b /\ ScreenedBy(t, s, MaxTheta).theta = p
  <2>1. MinOf(MaxTheta, s.theta) = s.theta
    BY SharesFacts DEF MinOf
  <2>2. p = IF b THEN MaxTheta ELSE MinOf(t.theta, s.theta)
    BY <1>2, <1>3, <2>1, SharesFacts
  <2>3. ScreenedBy(t, s, MaxTheta) = [t EXCEPT !.isEmpty = b, !.theta = p]
    BY <1>3, <2>2 DEF ScreenedBy
  <2> QED
    BY <1>2, <1>4, <2>3 DEF Tables
<1>6. r = [isValid |-> TRUE,
           table |-> IF s.entries = <<>> THEN NoTable(p, b) ELSE Filled(p, b, s.entries)]
  BY <1>1, <1>2, <1>5 DEF InterUpdate
<1>7. Common(r.table, D, n) /\ r.table.isEmpty = b
  <2>1. CASE s.entries = <<>>
    <3>1. r.table = NoTable(p, b) /\ Below(D, n) = {} /\ (b => D = {})
      BY <1>3, <1>6, <2>1, SharesFacts
    <3> QED
      BY <1>3, <1>4, <3>1, NothingCommon
  <2>2. CASE s.entries # <<>>
    <3>1. ~b /\ p = n /\ r.table = Filled(n, b, s.entries)
      BY <1>3, <1>6, <2>2, SharesFacts
    <3> QED
      BY <1>4, <3>1, SharesFacts, FilledCommon
  <2> QED
    BY <2>1, <2>2
<1>8. r = [table |-> r.table, isValid |-> TRUE]
  BY <1>6
<1> QED
  BY <1>1, <1>3, <1>7, <1>8 DEF Intersects

(* A later update leaves what all have in common; it makes the result      *)
(* empty if the sketch is, or if the exact sketches have nothing in common.*)
LEMMA UpdateIntersects ==
  ASSUME NEW x, NEW C \in SUBSET (1 .. MaxTheta - 1), NEW m \in 1 .. MaxTheta,
         Intersects(x, C, m),
         NEW s, NEW D \in SUBSET (1 .. MaxTheta - 1), NEW n \in 1 .. MaxTheta,
         Shares(s, D, n)
  PROVE  /\ Intersects(InterUpdate(x, s), C \cap D, MinOf(m, n))
         /\ x.table.isEmpty \/ s.isEmpty => InterUpdate(x, s).table.isEmpty
         /\ InterUpdate(x, s).table.isEmpty =>
              x.table.isEmpty \/ s.isEmpty \/ MinOf(m, n) = MaxTheta
<1>1. PICK t, r, A, p : /\ t = x.table /\ r = InterUpdate(x, s)
                        /\ A = C \cap D /\ p = MinOf(m, n)
  OBVIOUS
<1>2. x = [table |-> t, isValid |-> TRUE] /\ x.isValid = TRUE /\ Common(t, C, m)
  BY <1>1 DEF Intersects
<1>3. /\ t \in Tables(Nat) /\ IsFiniteSet(t.entries) /\ t.num = Cardinality(t.entries)
      /\ t.entries = Below(C, m) /\ t.isEmpty \in BOOLEAN
      /\ t.theta = (IF t.isEmpty THEN MaxTheta ELSE m) /\ (t.isEmpty => C = {})
  BY <1>2 DEF Common, Tables
<1>4. /\ m \in Nat /\ n \in Nat /\ p \in Nat /\ p <= m /\ p <= n /\ p <= MaxTheta
      /\ p \in 1 .. MaxTheta /\ C \in SUBSET Nat /\ D \in SUBSET Nat
      /\ A \in SUBSET C /\ A \in SUBSET D
  <2>1. m \in Nat /\ n \in Nat /\ MaxTheta \in Nat
    BY Constants
  <2>2. p \in Nat /\ p <= m /\ p <= n /\ p <= MaxTheta /\ p \in 1 .. MaxTheta
    BY <1>1, <2>1 DEF MinOf
  <2> QED
    BY <1>1, <2>1, <2>2
<1>5. PICK u : u = ScreenedBy(t, s, MaxTheta)
  OBVIOUS
<1>6. PICK b, q : b = s.isEmpty /\ q = IF b THEN MaxTheta ELSE MinOf(t.theta, s.theta)
  OBVIOUS
<1>7. b \in BOOLEAN /\ q \in Nat
  <2>1. s.isEmpty \in BOOLEAN /\ MaxTheta \in Nat /\ s.theta \in Nat
    BY SharesFacts
  <2>2. t.theta \in Nat
    BY <1>3 DEF Tables
  <2> QED
    BY <1>6, <2>1, <2>2, MinOfBounds
<1>8. /\ u.isEmpty = b /\ u.theta = q /\ u.num = t.num /\ u.entries = t.entries
      /\ u \in Tables(Nat)
  <2>1. u = [t EXCEPT !.isEmpty = b, !.theta = q]
    BY <1>5, <1>6 DEF ScreenedBy
  <2> QED
    BY <1>3, <1>7, <2>1 DEF Tables
<1>9. ~t.isEmpty => q = IF b THEN MaxTheta ELSE p
  BY <1>1, <1>3, <1>6, SharesFacts
<1>10. CASE t.isEmpty
  <2>1. r = x
    BY <1>1, <1>10 DEF InterUpdate
  <2>2. C = {} /\ A = {} /\ Below(A, p) = {} /\ Below(C, m) = {}
    BY <1>1, <1>3, <1>10 DEF Below
  <2>3. Common(t, A, p)
    BY <1>3, <1>10, <2>2 DEF Common
  <2> QED
    BY <1>1, <1>2, <1>10, <2>1, <2>3 DEF Intersects
<1>11. CASE ~t.isEmpty /\ t.num = 0
  <2>1. r = [x EXCEPT !.table = u]
    BY <1>1, <1>2, <1>5, <1>11 DEF InterUpdate
  <2>2. r = [table |-> u, isValid |-> TRUE]
    BY <1>2, <2>1
  <2>3. t.entries = {}
    BY <1>3, <1>11, FS_EmptySet
  <2>4. Below(A, p) = {}
    BY <1>3, <1>4, <2>3, NothingStays
  <2>5. b => A = {}
    BY <1>1, <1>6, SharesFacts
  <2>6. Common(u, A, p)
    BY <1>3, <1>8, <1>9, <1>11, <2>3, <2>4, <2>5 DEF Common
  <2>7. r.table = u
    BY <2>2
  <2> QED
    BY <1>1, <1>6, <1>8, <1>11, <2>2, <2>6, <2>7 DEF Intersects
<1>12. CASE ~t.isEmpty /\ t.num # 0
  <2>1. PICK M : M = MatchesIn(t, s, q)
    OBVIOUS
  <2>2. r = [isValid |-> TRUE,
             table |-> IF s.entries = <<>> THEN NoTable(q, b)
                       ELSE IF M = <<>> THEN NoTable(q, q = MaxTheta)
                       ELSE Filled(q, FALSE, M)]
    BY <1>1, <1>2, <1>5, <1>8, <1>12, <2>1 DEF InterUpdate
  <2>3. r = [table |-> r.table, isValid |-> TRUE]
    BY <2>2
  <2>4. CASE s.entries = <<>>
    <3>1. r.table = NoTable(q, b)
      BY <2>2, <2>4
    <3>2. Below(D, n) = {} /\ (b => D = {})
      BY <1>6, <2>4, SharesFacts
    <3>3. Below(A, p) = {} /\ (b => A = {})
      BY <1>1, <1>4, <3>2, NothingStays
    <3>4. Common(NoTable(q, b), A, p) /\ NoTable(q, b).isEmpty = b
      BY <1>7, <1>9, <1>12, <3>3, NothingCommon
    <3> QED
      BY <1>1, <1>6, <1>12, <2>3, <3>1, <3>4 DEF Intersects
  <2>5. CASE s.entries # <<>>
    <3>1. ~b /\ q = p
      BY <1>6, <1>9, <1>12, <2>5, SharesFacts
    <3>2. /\ M \in Seq(Nat) /\ Distinct(M)
          /\ KeysOf(M) = Keys(s) \cap (Scanned(s, p) \cap t.entries)
      <4>1. PICK X, e : X = Scanned(s, p) \cap t.entries /\ e = s.entries
        OBVIOUS
      <4>2. e \in Seq(Nat) /\ Distinct(e) /\ KeysOf(e) = Keys(s)
        BY <4>1, SharesFacts
      <4>3. M = Picked(e, X)
        BY <2>1, <3>1, <4>1 DEF MatchesIn
      <4>4. DistinctIn(e, X)
        BY <4>2, DistinctAnywhere
      <4>5. M \in Seq(Nat) /\ Distinct(M) /\ KeysOf(M) = KeysOf(e) \cap X
        BY <4>2, <4>3, <4>4, PickedIs
      <4> QED
        BY <4>1, <4>2, <4>5
    <3>3. KeysOf(M) = Below(A, p)
      <4>1. Scanned(s, p) = Below(Keys(s), p) /\ Keys(s) = Below(D, n)
        BY <1>4, SharesFacts, ScannedIsBelow
      <4>2. \A h \in Nat : h < p => h < m /\ h < n
        BY <1>4
      <4> QED
        BY <1>1, <1>3, <1>4, <3>2, <4>1, <4>2 DEF Below
    <3>4. CASE M = <<>>
      <4>1. PICK c \in BOOLEAN : c = (q = MaxTheta)
        OBVIOUS
      <4>2. r.table = NoTable(q, c)
        BY <2>2, <2>5, <3>4, <4>1
      <4>3. KeysOf(M) = {}
        <5>1. DOMAIN <<>> = {}
          OBVIOUS
        <5> QED
          BY <3>4, <5>1 DEF KeysOf
      <4>4. c => A = {}
        <5>1. \A h \in 1 .. MaxTheta - 1 : h < MaxTheta
          BY Constants
        <5> QED
          BY <1>1, <3>1, <3>3, <4>1, <4>3, <5>1 DEF Below
      <4>5. Common(NoTable(q, c), A, p) /\ NoTable(q, c).isEmpty = c
        BY <1>7, <3>1, <3>3, <4>1, <4>3, <4>4, NothingCommon
      <4> QED
        BY <1>1, <1>6, <1>12, <2>3, <3>1, <4>1, <4>2, <4>5 DEF Intersects
    <3>5. CASE M # <<>>
      <4>1. PICK c \in BOOLEAN : c = FALSE
        OBVIOUS
      <4>2. r.table = Filled(q, c, M)
        BY <2>2, <2>5, <3>5, <4>1
      <4>3. Common(Filled(q, c, M), A, p) /\ Filled(q, c, M).isEmpty = c
        BY <1>4, <3>1, <3>2, <3>3, <4>1, FilledCommon
      <4> QED
        BY <1>1, <1>6, <1>12, <2>3, <3>1, <4>1, <4>2, <4>3 DEF Intersects
    <3> QED
      BY <3>4, <3>5
  <2> QED
    BY <2>4, <2>5
<1> QED
  BY <1>10, <1>11, <1>12

(* The result of an intersection. *)
LEMMA ResultIntersects ==
  ASSUME NEW x, NEW C \in SUBSET (1 .. MaxTheta - 1), NEW m \in 1 .. MaxTheta,
         Intersects(x, C, m), NEW r, r = InterResult(x)
  PROVE  Shares(r, C, m) /\ Shaped(r) /\ r.isOrdered /\ r.isEmpty = x.table.isEmpty
<1>1. PICK t, b, p, K : /\ t = x.table /\ b = t.isEmpty /\ p = t.theta /\ K = t.entries
  OBVIOUS
<1>2. /\ IsFiniteSet(K) /\ K = Below(C, m) /\ b \in BOOLEAN
      /\ p = (IF b THEN MaxTheta ELSE m) /\ (b => C = {})
  BY <1>1 DEF Intersects, Common, Tables
<1>3. HashSet(K) /\ \A h \in K : h < m
  <2>1. K \in SUBSET (1 .. MaxTheta - 1)
    BY <1>2 DEF Below
  <2>2. K \in SUBSET Nat /\ 0 \notin K
    BY <2>1, Constants
  <2> QED
    BY <1>2, <2>2 DEF HashSet, Below
<1>4. p \in 1 .. MaxTheta /\ (b => K = {} /\ p = MaxTheta) /\ \A h \in K : h < p
  <2>1. p \in 1 .. MaxTheta
    BY <1>2, Constants
  <2>2. b => K = {} /\ p = MaxTheta
    BY <1>2 DEF Below
  <2>3. \A h \in K : h < p
    <3>1. CASE b
      BY <2>2, <3>1
    <3>2. CASE ~b
      BY <1>2, <1>3, <3>2
    <3> QED
      BY <3>1, <3>2
  <2> QED
    BY <2>1, <2>2, <2>3
<1>5. r = MakeSketch(b, TRUE, p, SortedKeys(K))
  BY <1>1 DEF InterResult
<1>6. OrderedSketch(r, b, p, K)
  BY <1>2, <1>3, <1>4, <1>5, SortedSketch
<1> QED
  BY <1>1, <1>2, <1>6 DEF OrderedSketch, Shares

-----------------------------------------------------------------------------
(* The hashes, the least theta and the common hashes of rows. *)
HashesOf(k, R) ==
  (IF k = "build" THEN R ELSE UNION {Keys(r) : r \in R}) \ {0}

LeastOf(k, R) ==
  IF k = "build" THEN MaxTheta
  ELSE CHOOSE p \in {r.theta : r \in R} : \A r \in R : p <= r.theta

CommonOf(R) == {h \in UNION {Keys(r) : r \in R} : \A r \in R : h \in Keys(r)}

(* A finite set of rows the aggregate k can be given. *)
RowSet(k, R) ==
  /\ IsFiniteSet(R)
  /\ IF k = "build" THEN R \in SUBSET Nat
     ELSE \A r \in R : IsSketch(r, MaxTheta)

(* The flag of emptiness e is right for the rows R: a build is never       *)
(* empty, a union is if all rows are, an intersection if one is, and else  *)
(* only if the exact rows have nothing in common.                          *)
EmptyOK(k, e, R) ==
  /\ k = "build" => ~e
  /\ k = "union" => (e <=> \A r \in R : r.isEmpty)
  /\ k = "intersection" =>
       /\ (\E r \in R : r.isEmpty) => e
       /\ e => (\E r \in R : r.isEmpty) \/ NoneInExact(R)

(* The sketch v is a right value of the aggregate k for the rows R. *)
ValueOK(k, v, R) ==
  /\ Shaped(v)
  /\ IF k = "intersection" THEN Shares(v, CommonOf(R), LeastOf(k, R))
     ELSE Represents(v, HashesOf(k, R), LeastOf(k, R))
  /\ k = "union" => Cardinality(Keys(v)) <= Nominal
  /\ EmptyOK(k, v.isEmpty, R)

(* The object obj stands for the rows R. *)
ObjectOK(k, obj, R) ==
  /\ obj.tag \in Tags
  /\ obj.tag = "MUTABLE_SKETCH" =>
       k = "build" /\ Builds(obj.data, HashesOf(k, R)) /\ obj.data.isEmpty = FALSE
  /\ obj.tag = "UNION" =>
       /\ k # "intersection" /\ Unites(obj.data, HashesOf(k, R), LeastOf(k, R))
       /\ EmptyOK(k, obj.data.table.isEmpty, R)
  /\ obj.tag = "INTERSECTION" =>
       /\ k = "intersection" /\ Intersects(obj.data, CommonOf(R), LeastOf(k, R))
       /\ EmptyOK(k, obj.data.table.isEmpty, R)
  /\ obj.tag = "IMMUTABLE_SKETCH" => ValueOK(k, obj.data, R) /\ obj.data.isOrdered

(* The tag of the objects the ITERATE callback of k casts to. *)
IterateTag(k) ==
  CASE k = "build" -> "MUTABLE_SKETCH" [] k = "union" -> "UNION"
    [] k = "intersection" -> "INTERSECTION"

(* A partial state: the object or the blob it holds, if it had rows,       *)
(* stands for them.                                                        *)
StateOK(k, ph, hd, bl, obj, R) ==
  /\ RowSet(k, R)
  /\ R # {} <=> hd # NoHandle \/ bl # NoBlob
  /\ hd # NoHandle =>
       /\ ph \in {"iterate", "partial"} /\ ObjectOK(k, obj, R)
       /\ ph = "iterate" => obj.tag = IterateTag(k)
  /\ bl # NoBlob =>
       ph \in {"blob", "final"} /\ ValueOK(k, bl, R) /\ bl.isOrdered

(* The sketch a state stands for. *)
Held(hd, bl, obj) == IF hd # NoHandle THEN GetResult(obj) ELSE bl

(* It has been cut to the nominal number of entries. *)
Cut(ph, hd, bl, obj) ==
  /\ ph # "iterate" /\ (hd # NoHandle \/ bl # NoBlob)
  /\ Cardinality(Keys(Held(hd, bl, obj))) <= Nominal

Phases == {"iterate", "partial", "blob", "gone", "final"}

(* Every object in the heap has one owner. *)
Owned ==
  /\ DOMAIN heap = {handle[s] : s \in States} \ {NoHandle}
  /\ \A s, t \in States : handle[s] = handle[t] /\ handle[s] # NoHandle => s = t

(* The inductive invariant of the aggregates. *)
IInv ==
  /\ kind \in Kinds
  /\ phase \in [States -> Phases]
  /\ handle \in [States -> Addresses \cup {NoHandle}]
  /\ DOMAIN blob = States /\ DOMAIN rows = States
  /\ Owned
  /\ \A s \in States :
       StateOK(kind, phase[s], handle[s], blob[s], heap[handle[s]], rows[s])
  /\ \A s, t \in States : phase[s] = "final" /\ s # t => phase[t] = "gone"
  /\ merged /\ kind # "intersection" =>
       \E s \in States : Cut(phase[s], handle[s], blob[s], heap[handle[s]])


(* What the callbacks make, update and return, kind by kind. *)
LEMMA KindCases ==
  ASSUME kind \in {"build", "union", "intersection"}
  PROVE  /\ kind = "build" => AccumTag = "MUTABLE_SKETCH" /\ NewState = NewUpdateSketch
         /\ kind = "union" => AccumTag = "UNION" /\ NewState = NewUnion
         /\ kind = "intersection" => AccumTag = "INTERSECTION" /\ NewState = NewIntersection
         /\ AccumTag = IterateTag(kind) /\ AccumTag \in Tags
  BY DEF AccumTag, NewState, IterateTag, Tags

(* The ITERATE callback of each kind. *)
LEMMA AccumulateCases ==
  ASSUME kind \in {"build", "union", "intersection"}, NEW d, NEW row
  PROVE  /\ kind = "build" => Accumulate(d, row) = Offer(d, row)
         /\ kind = "union" => Accumulate(d, row) = UnionUpdate(d, row)
         /\ kind = "intersection" => Accumulate(d, row) = InterUpdate(d, row)
  BY DEF Accumulate

(* The result behind each tag. *)
LEMMA ResultCases ==
  ASSUME NEW obj
  PROVE  /\ obj.tag = "UNION" => GetResult(obj) = UnionResult(obj.data)
         /\ obj.tag = "INTERSECTION" => GetResult(obj) = InterResult(obj.data)
         /\ obj.tag = "MUTABLE_SKETCH" => GetResult(obj) = AsSketch(obj.data)
         /\ obj.tag = "IMMUTABLE_SKETCH" => GetResult(obj) = obj.data
  BY DEF GetResult

-----------------------------------------------------------------------------
(* The rows of an aggregate of sketches: their least theta is theirs.      *)
LEMMA LeastRow ==
  ASSUME NEW k, k # "build", NEW R, RowSet(k, R), R # {}
  PROVE  /\ \E r \in R : LeastOf(k, R) = r.theta
         /\ \A r \in R : LeastOf(k, R) <= r.theta
         /\ \A p : (\E r \in R : p = r.theta) /\ (\A r \in R : p <= r.theta)
                     => p = LeastOf(k, R)
<1>1. \A r \in R : r.theta \in Nat
  BY KeysAreHashes DEF RowSet
<1>2. PICK T : T = {r.theta : r \in R}
  OBVIOUS
<1>3. T \in SUBSET Nat /\ T # {}
  BY <1>1, <1>2
<1>4. \E p \in T : \A q \in T : p <= q
  BY <1>3, Least
<1>5. LeastOf(k, R) = CHOOSE p \in T : \A r \in R : p <= r.theta
  BY <1>2 DEF LeastOf
<1>6. LeastOf(k, R) \in T /\ \A r \in R : LeastOf(k, R) <= r.theta
  <2>1. \E p \in T : \A r \in R : p <= r.theta
    BY <1>2, <1>4
  <2> QED
    BY <1>5, <2>1
<1>7. ASSUME NEW p, p \in T, \A r \in R : p <= r.theta PROVE p = LeastOf(k, R)
  <2>1. PICK l \in Nat : l = LeastOf(k, R)
    BY <1>3, <1>6
  <2>2. p \in Nat /\ l \in T
    BY <1>3, <1>6, <1>7, <2>1
  <2>3. p <= l
    BY <1>2, <1>7, <2>2
  <2>4. l <= p
    BY <1>2, <1>6, <1>7, <2>1
  <2> QED
    BY <2>1, <2>2, <2>3, <2>4
<1> QED
  BY <1>2, <1>6, <1>7

(* What the rows of an aggregate stand for. *)
LEMMA RowFacts ==
  ASSUME NEW k, NEW R, RowSet(k, R), R # {}
  PROVE  /\ HashSet(HashesOf(k, R))
         /\ LeastOf(k, R) \in 1 .. MaxTheta /\ LeastOf(k, R) \in Nat
         /\ k # "build" => CommonOf(R) \in SUBSET (1 .. MaxTheta - 1)
<1>1. CASE k = "build"
  <2>1. HashesOf(k, R) = R \ {0} /\ LeastOf(k, R) = MaxTheta
    BY <1>1 DEF HashesOf, LeastOf
  <2>2. R \in SUBSET Nat /\ IsFiniteSet(R)
    BY <1>1 DEF RowSet
  <2>3. IsFiniteSet(R \ {0})
    BY <2>2, FS_Subset
  <2>4. HashSet(R \ {0})
    BY <2>2, <2>3 DEF HashSet
  <2>5. MaxTheta \in 1 .. MaxTheta /\ MaxTheta \in Nat
    BY Constants
  <2> QED
    BY <1>1, <2>1, <2>4, <2>5
<1>2. CASE k # "build"
  <2>1. \A r \in R : Keys(r) \in SUBSET (1 .. MaxTheta - 1) /\ r.theta \in 1 .. MaxTheta
    BY <1>2, KeysAreHashes DEF RowSet
  <2>2. HashesOf(k, R) \in SUBSET (1 .. MaxTheta - 1)
    BY <1>2, <2>1 DEF HashesOf
  <2>3. HashSet(HashesOf(k, R))
    <3>1. HashesOf(k, R) \in SUBSET Nat /\ 0 \notin HashesOf(k, R)
          /\ \A h \in HashesOf(k, R) : h <= MaxTheta
      BY <2>2, Constants
    <3> QED
      BY <3>1, Constants, FS_BoundedSetOfNaturals DEF HashSet
  <2>4. CommonOf(R) \in SUBSET (1 .. MaxTheta - 1)
    BY <2>1 DEF CommonOf
  <2>5. LeastOf(k, R) \in 1 .. MaxTheta
    BY <1>2, <2>1, LeastRow
  <2> QED
    BY <2>3, <2>4, <2>5, Constants
<1> QED
  BY <1>1, <1>2

(* One row. *)
LEMMA RowAlone ==
  ASSUME NEW k, NEW r, RowSet(k, {r})
  PROVE  /\ k = "build" => r \in Nat /\ HashesOf(k, {r}) = {r} \ {0}
                           /\ LeastOf(k, {r}) = MaxTheta
         /\ k # "build" => /\ HashesOf(k, {r}) = Keys(r) /\ CommonOf({r}) = Keys(r)
                           /\ LeastOf(k, {r}) = r.theta
                           /\ Represents(r, Keys(r), r.theta)
                           /\ Shares(r, Keys(r), r.theta)
<1>1. CASE k = "build"
  BY <1>1 DEF RowSet, HashesOf, LeastOf
<1>2. CASE k # "build"
  <2>1. IsSketch(r, MaxTheta)
    BY <1>2 DEF RowSet
  <2>2. /\ Keys(r) \in SUBSET Nat /\ 0 \notin Keys(r)
        /\ r.theta \in 1 .. MaxTheta /\ r.theta \in Nat
        /\ \A h \in Keys(r) : 0 < h /\ h < r.theta
        /\ r.isEmpty => Keys(r) = {} /\ r.theta = MaxTheta
    BY <2>1, KeysAreHashes DEF HashSet
  <2>3. HashesOf(k, {r}) = Keys(r) /\ CommonOf({r}) = Keys(r)
    BY <1>2, <2>2 DEF HashesOf, CommonOf
  <2>4. LeastOf(k, {r}) = r.theta
    BY <1>2, LeastRow
  <2>5. Keys(r) = Below(Keys(r), r.theta)
    BY <2>2 DEF Below
  <2>6. Lowered(Keys(r), r.theta, r.theta)
    BY <2>2 DEF Lowered
  <2> QED
    BY <1>2, <2>1, <2>2, <2>3, <2>4, <2>5, <2>6 DEF Represents, Shares
<1> QED
  BY <1>1, <1>2

(* The rows A of two states, those of R and those of Q, stand for what     *)
(* both stand for.                                                         *)
Joins(k, R, Q, A) ==
  /\ HashesOf(k, A) = HashesOf(k, R) \cup HashesOf(k, Q)
  /\ LeastOf(k, A) = MinOf(LeastOf(k, R), LeastOf(k, Q))
  /\ CommonOf(A) = CommonOf(R) \cap CommonOf(Q)

(* The rows of two states, together. *)
LEMMA RowsJoin ==
  ASSUME NEW k, NEW R, RowSet(k, R), NEW Q, RowSet(k, Q), NEW A, A = R \cup Q
  PROVE  /\ RowSet(k, A)
         /\ R # {} /\ Q # {} => Joins(k, R, Q, A)
<1>1. RowSet(k, R \cup Q)
  BY FS_Union DEF RowSet
<1>2. ASSUME R # {}, Q # {}
      PROVE  /\ HashesOf(k, R \cup Q) = HashesOf(k, R) \cup HashesOf(k, Q)
             /\ LeastOf(k, R \cup Q) = MinOf(LeastOf(k, R), LeastOf(k, Q))
             /\ CommonOf(R \cup Q) = CommonOf(R) \cap CommonOf(Q)
  <2>1. HashesOf(k, R \cup Q) = HashesOf(k, R) \cup HashesOf(k, Q)
    <3>1. UNION {Keys(r) : r \in R \cup Q} =
            (UNION {Keys(r) : r \in R}) \cup (UNION {Keys(r) : r \in Q})
      OBVIOUS
    <3> QED
      BY <3>1 DEF HashesOf
  <2>2. CommonOf(R \cup Q) = CommonOf(R) \cap CommonOf(Q)
    BY <1>2 DEF CommonOf
  <2>3. CASE k = "build"
    BY <2>1, <2>2, <2>3, Constants DEF LeastOf, MinOf
  <2>4. CASE k # "build"
    <3>1. PICK x, y : x = LeastOf(k, R) /\ y = LeastOf(k, Q)
      OBVIOUS
    <3>2. x \in Nat /\ y \in Nat
      BY <1>2, <3>1, RowFacts
    <3>3. /\ \E r \in R : x = r.theta
          /\ \E r \in Q : y = r.theta
          /\ \A r \in R : x <= r.theta
          /\ \A r \in Q : y <= r.theta
      BY <1>2, <2>4, <3>1, LeastRow
    <3>4. \A r \in R \cup Q : r.theta \in Nat
      BY <2>4, <1>1, KeysAreHashes DEF RowSet
    <3>5. \A r \in R \cup Q : MinOf(x, y) <= r.theta
      BY <3>2, <3>3, <3>4 DEF MinOf
    <3>6. \E r \in R \cup Q : MinOf(x, y) = r.theta
      BY <3>3 DEF MinOf
    <3>7. MinOf(x, y) = LeastOf(k, R \cup Q)
      BY <1>1, <1>2, <2>4, <3>5, <3>6, LeastRow
    <3> QED
      BY <2>1, <2>2, <3>1, <3>7
  <2> QED
    BY <2>3, <2>4
<1> QED
  BY <1>1, <1>2 DEF Joins

(* The flag of one row is right for it. *)
LEMMA EmptyAlone ==
  ASSUME NEW k \in {"union", "intersection"}, NEW r
  PROVE  EmptyOK(k, r.isEmpty, {r})
  BY DEF EmptyOK

(* More rows take nothing from what the exact ones show. *)
LEMMA NoneInMore ==
  ASSUME NEW R, NEW A, R \subseteq A, NoneInExact(R)
  PROVE  NoneInExact(A)
<1>1. PICK X, Y : X = {r \in R : r.theta = MaxTheta} /\ Y = {r \in A : r.theta = MaxTheta}
  OBVIOUS
<1>2. X \subseteq Y /\ X # {} /\ ~\E h \in UNION {Keys(r) : r \in X} : \A r \in X : h \in Keys(r)
  BY <1>1 DEF NoneInExact
<1>3. ASSUME NEW h, \A r \in Y : h \in Keys(r)
      PROVE  FALSE
  <2>1. PICK r \in X : TRUE
    BY <1>2
  <2>2. \A x \in X : h \in Keys(x)
    BY <1>2, <1>3
  <2>3. h \in UNION {Keys(x) : x \in X}
    BY <2>1, <2>2
  <2> QED
    BY <1>2, <2>2, <2>3
<1>4. Y # {} /\ ~\E h \in UNION {Keys(r) : r \in Y} : \A r \in Y : h \in Keys(r)
  BY <1>2, <1>3
<1> QED
  BY <1>1, <1>4 DEF NoneInExact

(* Rows of which none is below MAX_THETA and that have nothing in common.  *)
LEMMA AllExact ==
  ASSUME NEW A, RowSet("intersection", A), A # {},
         LeastOf("intersection", A) = MaxTheta, CommonOf(A) = {}
  PROVE  NoneInExact(A)
<1>1. \A r \in A : MaxTheta <= r.theta /\ r.theta \in 1 .. MaxTheta
  BY LeastRow, KeysAreHashes DEF RowSet
<1>2. A = {r \in A : r.theta = MaxTheta}
  BY <1>1, Constants
<1>3. PICK X : X = {r \in A : r.theta = MaxTheta}
  OBVIOUS
<1>4. ~\E h \in UNION {Keys(r) : r \in X} : \A r \in X : h \in Keys(r)
  BY <1>2, <1>3 DEF CommonOf
<1> QED
  BY <1>2, <1>3, <1>4 DEF NoneInExact

(* The flag of what stands for the rows of two states, or for one row more.*)
LEMMA EmptyJoins ==
  ASSUME NEW k \in {"build", "union", "intersection"},
         NEW R, NEW T, NEW A, A = R \cup T, RowSet(k, A), A # {},
         NEW d, NEW e, NEW f, EmptyOK(k, d, R), EmptyOK(k, e, T),
         k # "intersection" => (f <=> d /\ e),
         k = "intersection" =>
           /\ d \/ e => f
           /\ f => d \/ e \/ (LeastOf(k, A) = MaxTheta /\ CommonOf(A) = {})
  PROVE  EmptyOK(k, f, A)
<1>1. CASE k = "build"
  BY <1>1 DEF EmptyOK
<1>2. CASE k = "union"
  BY <1>2 DEF EmptyOK
<1>3. CASE k = "intersection"
  <2>1. (\E r \in A : r.isEmpty) => f
    BY <1>3 DEF EmptyOK
  <2>2. ASSUME f PROVE (\E r \in A : r.isEmpty) \/ NoneInExact(A)
    <3>1. CASE d
      BY <1>3, <3>1, NoneInMore DEF EmptyOK
    <3>2. CASE e
      BY <1>3, <3>2, NoneInMore DEF EmptyOK
    <3>3. CASE ~d /\ ~e
      BY <1>3, <2>2, <3>3, AllExact
    <3> QED
      BY <3>1, <3>2, <3>3
  <2> QED
    BY <1>3, <2>1, <2>2 DEF EmptyOK
<1> QED
  BY <1>1, <1>2, <1>3

-----------------------------------------------------------------------------
(* A sketch is neither the empty string nor no blob. *)
LEMMA ShapedIsNoString ==
  ASSUME NEW v, Shaped(v)
  PROVE  v # NoBlob /\ v # EmptyString
<1>1. "isEmpty" \in DOMAIN v
  BY DEF Shaped, Sketch
<1>2. "isEmpty" \notin DOMAIN NoBlob /\ "isEmpty" \notin DOMAIN EmptyString
  BY DEF NoBlob, EmptyString
<1> QED
  BY <1>1, <1>2

(* theta_data_get_result(): the right value of the object's rows. *)
LEMMA ResultOK ==
  ASSUME NEW k, NEW obj, NEW R, RowSet(k, R), R # {}, ObjectOK(k, obj, R),
         NEW v, v = GetResult(obj)
  PROVE  /\ ValueOK(k, v, R)
         /\ obj.tag = "UNION" => Cardinality(Keys(v)) <= Nominal
<1>1. PICK S, C, m : S = HashesOf(k, R) /\ C = CommonOf(R) /\ m = LeastOf(k, R)
  OBVIOUS
<1>2. /\ HashSet(S) /\ m \in 1 .. MaxTheta /\ m \in Nat
      /\ k # "build" => C \in SUBSET (1 .. MaxTheta - 1)
  BY <1>1, RowFacts
<1>3. CASE obj.tag = "MUTABLE_SKETCH"
  <2>1. /\ k = "build" /\ Builds(obj.data, S) /\ obj.data.isEmpty = FALSE
        /\ v = AsSketch(obj.data)
    BY <1>1, <1>3, ResultCases DEF ObjectOK
  <2>2. m = MaxTheta
    BY <1>1, <2>1 DEF LeastOf
  <2>3. Represents(v, S, m) /\ Shaped(v) /\ ~v.isEmpty
    BY <1>2, <2>1, <2>2, BuiltSketch
  <2>4. EmptyOK(k, v.isEmpty, R)
    BY <2>1, <2>3 DEF EmptyOK
  <2> QED
    BY <1>1, <1>3, <2>1, <2>3, <2>4 DEF ValueOK
<1>4. CASE obj.tag = "UNION"
  <2>1. /\ k # "intersection" /\ Unites(obj.data, S, m)
        /\ EmptyOK(k, obj.data.table.isEmpty, R)
        /\ v = UnionResult(obj.data)
    BY <1>1, <1>4, ResultCases DEF ObjectOK
  <2>2. /\ Represents(v, S, m) /\ Shaped(v) /\ Cardinality(Keys(v)) <= Nominal
        /\ v.isEmpty = obj.data.table.isEmpty
    BY <1>2, <2>1, ResultUnites
  <2> QED
    BY <1>1, <1>4, <2>1, <2>2 DEF ValueOK
<1>5. CASE obj.tag = "INTERSECTION"
  <2>1. /\ k = "intersection" /\ Intersects(obj.data, C, m) /\ v = InterResult(obj.data)
        /\ EmptyOK(k, obj.data.table.isEmpty, R)
    BY <1>1, <1>5, ResultCases DEF ObjectOK
  <2>2. Shares(v, C, m) /\ Shaped(v) /\ v.isEmpty = obj.data.table.isEmpty
    BY <1>2, <2>1, ResultIntersects
  <2> QED
    BY <1>1, <1>5, <2>1, <2>2 DEF ValueOK
<1>6. CASE obj.tag = "IMMUTABLE_SKETCH"
  BY <1>6, ResultCases DEF ObjectOK
<1>7. obj.tag \in {"MUTABLE_SKETCH", "IMMUTABLE_SKETCH", "UNION", "INTERSECTION"}
  BY DEF ObjectOK, Tags
<1> QED
  BY <1>3, <1>4, <1>5, <1>6, <1>7

(* An ordered copy of a right value is one. *)
LEMMA CopyOK ==
  ASSUME NEW k, NEW v, NEW R, ValueOK(k, v, R),
         NEW w, w = CompactCopy(v, TRUE)
  PROVE  /\ ValueOK(k, w, R) /\ w.isOrdered /\ w # NoBlob
         /\ Keys(w) = Keys(v)
<1>1. IsSketch(v, MaxTheta)
  BY DEF ValueOK, Shares, Represents
<1>2. PICK b \in BOOLEAN : b = TRUE
  OBVIOUS
<1>3. w = CompactCopy(v, b)
  BY <1>2
<1>4. /\ IsSketch(w, MaxTheta) /\ Keys(w) = Keys(v) /\ w.theta = v.theta
      /\ w.isEmpty = v.isEmpty /\ w.isOrdered /\ Shaped(w)
  <2>1. /\ IsSketch(CompactCopy(v, b), MaxTheta) /\ Keys(CompactCopy(v, b)) = Keys(v)
        /\ CompactCopy(v, b).theta = v.theta /\ CompactCopy(v, b).isEmpty = v.isEmpty
        /\ b => CompactCopy(v, b).isOrdered
        /\ Shaped(CompactCopy(v, b))
    BY <1>1, CopyIs, Constants
  <2> QED
    BY <1>2, <1>3, <2>1
<1>5. ASSUME NEW S, NEW m, Represents(v, S, m) PROVE Represents(w, S, m)
  BY <1>4, <1>5 DEF Represents
<1>6. ASSUME NEW S, NEW m, Shares(v, S, m) PROVE Shares(w, S, m)
  BY <1>4, <1>6 DEF Shares
<1>7. w # NoBlob
  BY <1>4, ShapedIsNoString
<1> QED
  BY <1>4, <1>5, <1>6, <1>7 DEF ValueOK

-----------------------------------------------------------------------------
(* The first row of a state. *)
LEMMA FirstRowOK ==
  ASSUME kind \in {"build", "union", "intersection"}, NEW row, RowSet(kind, {row}),
         NEW obj, obj = Object(AccumTag, Accumulate(NewState, row))
  PROVE  ObjectOK(kind, obj, {row}) /\ obj.tag = IterateTag(kind)
<1>1. /\ obj.tag = AccumTag /\ obj.tag = IterateTag(kind) /\ obj.tag \in Tags
      /\ obj.data = Accumulate(NewState, row)
  BY KindCases DEF Object
<1>2. PICK S, m : S = HashesOf(kind, {row}) /\ m = LeastOf(kind, {row})
  OBVIOUS
<1>3. HashSet(S) /\ m \in 1 .. MaxTheta /\ m \in Nat
  BY <1>2, RowFacts
<1>4. HashSet({})
  BY FS_EmptySet DEF HashSet
<1>5. CASE kind = "build"
  <2>1. obj.tag = "MUTABLE_SKETCH" /\ obj.data = Offer(NewUpdateSketch, row)
    BY <1>1, <1>5, KindCases, AccumulateCases
  <2>2. row \in Nat /\ S = {} \cup ({row} \ {0})
    BY <1>2, <1>5, RowAlone
  <2>3. Builds(obj.data, S) /\ obj.data.isEmpty = FALSE
    <3>1. PICK t, e : t = NewUpdateSketch /\ e = {}
      OBVIOUS
    <3>2. HashSet(e) /\ Builds(t, e) /\ S = e \cup ({row} \ {0})
      BY <1>4, <2>2, <3>1, NewUnites
    <3>3. Builds(Offer(t, row), S) /\ Offer(t, row).isEmpty = FALSE
      BY <2>2, <3>2, OfferBuilds
    <3> QED
      BY <2>1, <3>1, <3>3
  <2> QED
    BY <1>1, <1>2, <1>5, <2>1, <2>3 DEF ObjectOK
<1>6. CASE kind = "union"
  <2>1. obj.tag = "UNION" /\ obj.data = UnionUpdate(NewUnion, row)
    BY <1>1, <1>6, KindCases, AccumulateCases
  <2>2. Represents(row, S, m)
    BY <1>2, <1>6, RowAlone
  <2>3. /\ Unites(obj.data, {} \cup S, MinOf(MaxTheta, m))
        /\ obj.data.table.isEmpty <=> row.isEmpty
    <3>1. MaxTheta \in 1 .. MaxTheta
      BY Constants
    <3>2. NewUnion.table.isEmpty
      BY DEF NewUnion, NewUpdateSketch, NewTable
    <3> QED
      BY <1>3, <1>4, <2>1, <2>2, <3>1, <3>2, NewUnites, UpdateUnites
  <2>4. {} \cup S = S /\ MinOf(MaxTheta, m) = m
    BY <1>3, Constants DEF MinOf
  <2>5. EmptyOK(kind, obj.data.table.isEmpty, {row})
    BY <1>6, <2>3, EmptyAlone DEF EmptyOK
  <2> QED
    BY <1>1, <1>2, <1>6, <2>1, <2>3, <2>4, <2>5 DEF ObjectOK
<1>7. CASE kind = "intersection"
  <2>1. obj.tag = "INTERSECTION" /\ obj.data = InterUpdate(NewIntersection, row)
    BY <1>1, <1>7, KindCases, AccumulateCases
  <2>2. Shares(row, CommonOf({row}), m)
    BY <1>2, <1>7, RowAlone
  <2>3. Intersects(obj.data, CommonOf({row}), m) /\ obj.data.table.isEmpty = row.isEmpty
    BY <1>3, <2>1, <2>2, FirstIntersects
  <2>4. EmptyOK(kind, obj.data.table.isEmpty, {row})
    BY <1>7, <2>3, EmptyAlone
  <2> QED
    BY <1>1, <1>2, <1>7, <2>1, <2>3, <2>4 DEF ObjectOK
<1> QED
  BY <1>5, <1>6, <1>7

(* A later row. *)
LEMMA NextRowOK ==
  ASSUME kind \in {"build", "union", "intersection"}, NEW R, RowSet(kind, R), R # {},
         NEW row, RowSet(kind, {row}), NEW old, ObjectOK(kind, old, R),
         old.tag = IterateTag(kind),
         NEW obj, obj = Object(AccumTag, Accumulate(old.data, row))
  PROVE  ObjectOK(kind, obj, R \cup {row}) /\ obj.tag = IterateTag(kind)
<1>1. /\ obj.tag = AccumTag /\ obj.tag = IterateTag(kind) /\ obj.tag \in Tags
      /\ old.tag = AccumTag /\ obj.data = Accumulate(old.data, row)
  BY KindCases DEF Object
<1>0. RowSet(kind, R \cup {row}) /\ R \cup {row} # {}
  <2>1. PICK T : T = {row}
    OBVIOUS
  <2> QED
    BY <2>1, RowsJoin
<1>2. PICK S, m, Q, n, d :
        /\ S = HashesOf(kind, R) /\ m = LeastOf(kind, R)
        /\ Q = HashesOf(kind, {row}) /\ n = LeastOf(kind, {row}) /\ d = old.data
  OBVIOUS
<1>3. /\ HashSet(S) /\ m \in 1 .. MaxTheta /\ m \in Nat
      /\ HashSet(Q) /\ n \in 1 .. MaxTheta /\ n \in Nat
      /\ kind # "build" => CommonOf(R) \in SUBSET (1 .. MaxTheta - 1)
                           /\ CommonOf({row}) \in SUBSET (1 .. MaxTheta - 1)
  BY <1>2, RowFacts
<1>4. /\ HashesOf(kind, R \cup {row}) = S \cup Q
      /\ LeastOf(kind, R \cup {row}) = MinOf(m, n)
      /\ CommonOf(R \cup {row}) = CommonOf(R) \cap CommonOf({row})
  <2>1. PICK T : T = {row}
    OBVIOUS
  <2>2. RowSet(kind, T) /\ T # {}
    BY <2>1
  <2>3. Joins(kind, R, T, R \cup T)
    BY <2>2, RowsJoin
  <2> QED
    BY <1>2, <2>1, <2>3 DEF Joins
<1>5. CASE kind = "build"
  <2>1. /\ obj.tag = "MUTABLE_SKETCH" /\ obj.data = Offer(d, row)
        /\ Builds(d, S)
    BY <1>1, <1>2, <1>5, KindCases, AccumulateCases DEF ObjectOK
  <2>2. row \in Nat /\ Q = {row} \ {0}
    BY <1>2, <1>5, RowAlone
  <2>3. Builds(obj.data, S \cup Q) /\ obj.data.isEmpty = FALSE
    <3>1. PICK A : A = S \cup Q
      OBVIOUS
    <3>2. A = S \cup ({row} \ {0})
      BY <2>2, <3>1
    <3>3. Builds(Offer(d, row), A) /\ Offer(d, row).isEmpty = FALSE
      BY <1>3, <2>1, <2>2, <3>2, OfferBuilds
    <3> QED
      BY <2>1, <3>1, <3>3
  <2> QED
    BY <1>1, <1>4, <1>5, <2>1, <2>3 DEF ObjectOK
<1>6. CASE kind = "union"
  <2>1. /\ obj.tag = "UNION" /\ obj.data = UnionUpdate(d, row) /\ Unites(d, S, m)
        /\ EmptyOK(kind, d.table.isEmpty, R)
    BY <1>1, <1>2, <1>6, KindCases, AccumulateCases DEF ObjectOK
  <2>2. Represents(row, Q, n)
    <3>1. /\ HashesOf(kind, {row}) = Keys(row) /\ LeastOf(kind, {row}) = row.theta
          /\ Represents(row, Keys(row), row.theta)
      BY <1>2, <1>6, RowAlone
    <3> QED
      BY <1>2, <3>1
  <2>3. /\ Unites(obj.data, S \cup Q, MinOf(m, n))
        /\ obj.data.table.isEmpty <=> d.table.isEmpty /\ row.isEmpty
    <3>1. /\ Unites(UnionUpdate(d, row), S \cup Q, MinOf(m, n))
          /\ UnionUpdate(d, row).table.isEmpty <=> d.table.isEmpty /\ row.isEmpty
      BY <1>3, <2>1, <2>2, UpdateUnites
    <3> QED
      BY <2>1, <3>1
  <2>4. EmptyOK(kind, row.isEmpty, {row})
    BY <1>6, EmptyAlone
  <2>5. EmptyOK(kind, obj.data.table.isEmpty, R \cup {row})
    BY <1>0, <1>6, <2>1, <2>3, <2>4, EmptyJoins
  <2> QED
    BY <1>1, <1>4, <1>6, <2>1, <2>3, <2>5 DEF ObjectOK
<1>7. CASE kind = "intersection"
  <2>1. /\ obj.tag = "INTERSECTION" /\ obj.data = InterUpdate(d, row)
        /\ Intersects(d, CommonOf(R), m) /\ EmptyOK(kind, d.table.isEmpty, R)
    BY <1>1, <1>2, <1>7, KindCases, AccumulateCases DEF ObjectOK
  <2>2. Shares(row, CommonOf({row}), n)
    <3>1. /\ CommonOf({row}) = Keys(row) /\ LeastOf(kind, {row}) = row.theta
          /\ Shares(row, Keys(row), row.theta)
      BY <1>7, RowAlone
    <3> QED
      BY <1>2, <3>1
  <2>3. /\ Intersects(obj.data, CommonOf(R) \cap CommonOf({row}), MinOf(m, n))
        /\ d.table.isEmpty \/ row.isEmpty => obj.data.table.isEmpty
        /\ obj.data.table.isEmpty =>
             d.table.isEmpty \/ row.isEmpty \/ MinOf(m, n) = MaxTheta
    BY <1>3, <1>7, <2>1, <2>2, UpdateIntersects
  <2>4. EmptyOK(kind, row.isEmpty, {row})
    BY <1>7, EmptyAlone
  <2>5. obj.data.table.isEmpty => CommonOf(R) \cap CommonOf({row}) = {}
    BY <2>3 DEF Intersects, Common
  <2>6. EmptyOK(kind, obj.data.table.isEmpty, R \cup {row})
    <3>1. PICK b, c, f, T, A :
            /\ b = d.table.isEmpty /\ c = row.isEmpty /\ f = obj.data.table.isEmpty
            /\ T = {row} /\ A = R \cup T
      OBVIOUS
    <3>2. EmptyOK(kind, b, R) /\ EmptyOK(kind, c, T) /\ RowSet(kind, A) /\ A # {}
      BY <1>0, <2>1, <2>4, <3>1
    <3>3. /\ b \/ c => f
          /\ f => b \/ c \/ (LeastOf(kind, A) = MaxTheta /\ CommonOf(A) = {})
      BY <1>4, <2>3, <2>5, <3>1
    <3>4. EmptyOK(kind, f, A)
      BY <1>7, <3>1, <3>2, <3>3, EmptyJoins
    <3> QED
      BY <3>1, <3>4
  <2> QED
    BY <1>1, <1>4, <1>7, <2>1, <2>3, <2>6 DEF ObjectOK
<1> QED
  BY <1>5, <1>6, <1>7

-----------------------------------------------------------------------------
(* The merged object, by which of the two states have one. *)
LEMMA MergedCases ==
  ASSUME NEW l \in States, NEW r \in States, l # r,
         NEW v, v = GetResult(heap[handle[l]]), NEW w, w = GetResult(heap[handle[r]])
  PROVE  /\ handle[l] # NoHandle /\ handle[r] # NoHandle => MergedData(l, r) =
              IF kind = "intersection" THEN InterUpdate(InterUpdate(NewIntersection, v), w)
              ELSE UnionUpdate(UnionUpdate(NewUnion, v), w)
         /\ handle[l] # NoHandle /\ handle[r] = NoHandle => MergedData(l, r) =
              IF kind = "intersection" THEN InterUpdate(NewIntersection, v)
              ELSE UnionUpdate(NewUnion, v)
         /\ handle[l] = NoHandle /\ handle[r] # NoHandle => MergedData(l, r) =
              IF kind = "intersection" THEN InterUpdate(NewIntersection, w)
              ELSE UnionUpdate(NewUnion, w)
<1>1. PICK given : given = ResultsOf(l, r)
  OBVIOUS
<1>2. /\ l \in DOMAIN given <=> handle[l] # NoHandle
      /\ r \in DOMAIN given <=> handle[r] # NoHandle
      /\ handle[l] # NoHandle => given[l] = v
      /\ handle[r] # NoHandle => given[r] = w
  BY <1>1 DEF ResultsOf
<1>3. CASE kind = "intersection"
  BY <1>1, <1>2, <1>3 DEF MergedData
<1>4. CASE kind # "intersection"
  BY <1>1, <1>2, <1>4 DEF MergedData
<1> QED
  BY <1>3, <1>4

(* The value a merge gives for the values of its states. *)
MergedOfBoth(k, v, w) ==
  IF k = "intersection" THEN InterUpdate(InterUpdate(NewIntersection, v), w)
  ELSE UnionUpdate(UnionUpdate(NewUnion, v), w)

(* The merge of one state that has rows with one that has not. *)
MergedOfOne(k, v) ==
  IF k = "intersection" THEN InterUpdate(NewIntersection, v) ELSE UnionUpdate(NewUnion, v)

(* A merge that is given one object stands for its rows. *)
LEMMA AloneOK ==
  ASSUME NEW k \in {"build", "union", "intersection"},
         NEW R, RowSet(k, R), R # {}, NEW v, ValueOK(k, v, R),
         NEW tag, tag = IF k = "intersection" THEN "INTERSECTION" ELSE "UNION",
         NEW obj, obj = Object(tag, MergedOfOne(k, v))
  PROVE  ObjectOK(k, obj, R) /\ obj.tag # "MUTABLE_SKETCH" /\ obj.tag # "IMMUTABLE_SKETCH"
<1>1. obj.tag = tag /\ obj.data = MergedOfOne(k, v) /\ obj.tag \in Tags
  BY DEF Object, Tags
<1>2. PICK S, m : S = HashesOf(k, R) /\ m = LeastOf(k, R)
  OBVIOUS
<1>3. HashSet(S) /\ m \in 1 .. MaxTheta /\ m \in Nat
  BY <1>2, RowFacts
<1>4. CASE k = "intersection"
  <2>1. Shares(v, CommonOf(R), m)
    BY <1>2, <1>4 DEF ValueOK
  <2>2. Intersects(obj.data, CommonOf(R), m) /\ obj.data.table.isEmpty = v.isEmpty
    BY <1>1, <1>3, <1>4, <2>1, FirstIntersects DEF MergedOfOne
  <2>3. EmptyOK(k, obj.data.table.isEmpty, R)
    BY <2>2 DEF ValueOK
  <2> QED
    BY <1>1, <1>2, <1>4, <2>2, <2>3 DEF ObjectOK
<1>5. CASE k # "intersection"
  <2>1. Represents(v, S, m) /\ EmptyOK(k, v.isEmpty, R)
    BY <1>2, <1>5 DEF ValueOK
  <2>2. PICK u, e, x : u = NewUnion /\ e = {} /\ x = UnionUpdate(u, v)
    OBVIOUS
  <2>3. HashSet(e) /\ Unites(u, e, MaxTheta) /\ MaxTheta \in 1 .. MaxTheta
    BY <2>2, FS_EmptySet, NewUnites, Constants DEF HashSet
  <2>4. Unites(x, e \cup S, MinOf(MaxTheta, m)) /\ (x.table.isEmpty <=> v.isEmpty)
    <3>1. u.table.isEmpty
      BY <2>2 DEF NewUnion, NewUpdateSketch, NewTable
    <3> QED
      BY <1>3, <2>1, <2>2, <2>3, <3>1, UpdateUnites
  <2>5. e \cup S = S /\ MinOf(MaxTheta, m) = m
    BY <1>3, <2>2, Constants DEF MinOf
  <2>6. Unites(x, S, m) /\ obj.data = x
    BY <1>1, <1>5, <2>2, <2>4, <2>5 DEF MergedOfOne
  <2>7. EmptyOK(k, x.table.isEmpty, R)
    BY <2>1, <2>4 DEF EmptyOK
  <2> QED
    BY <1>1, <1>2, <1>5, <2>6, <2>7 DEF ObjectOK
<1> QED
  BY <1>4, <1>5

(* A merge that is given two objects stands for the rows of both. *)
LEMMA JoinedOK ==
  ASSUME NEW k \in {"build", "union", "intersection"},
         NEW R, RowSet(k, R), R # {}, NEW v, ValueOK(k, v, R),
         NEW T, RowSet(k, T), T # {}, NEW w, ValueOK(k, w, T),
         NEW tag, tag = IF k = "intersection" THEN "INTERSECTION" ELSE "UNION",
         NEW obj, obj = Object(tag, MergedOfBoth(k, v, w))
  PROVE  /\ ObjectOK(k, obj, R \cup T)
         /\ obj.tag # "MUTABLE_SKETCH" /\ obj.tag # "IMMUTABLE_SKETCH"
<1>1. obj.tag = tag /\ obj.data = MergedOfBoth(k, v, w) /\ obj.tag \in Tags
  BY DEF Object, Tags
<1>0. RowSet(k, R \cup T) /\ R \cup T # {}
  BY RowsJoin
<1>2. PICK S, m, Q, n, x, first :
        /\ S = HashesOf(k, R) /\ m = LeastOf(k, R)
        /\ Q = HashesOf(k, T) /\ n = LeastOf(k, T)
        /\ x = MergedOfOne(k, v) /\ first = Object(tag, x)
  OBVIOUS
<1>3. /\ HashSet(S) /\ m \in 1 .. MaxTheta /\ m \in Nat
      /\ HashSet(Q) /\ n \in 1 .. MaxTheta /\ n \in Nat
      /\ k # "build" => /\ CommonOf(R) \in SUBSET (1 .. MaxTheta - 1)
                        /\ CommonOf(T) \in SUBSET (1 .. MaxTheta - 1)
  BY <1>2, RowFacts
<1>4. /\ HashesOf(k, R \cup T) = S \cup Q
      /\ LeastOf(k, R \cup T) = MinOf(m, n)
      /\ CommonOf(R \cup T) = CommonOf(R) \cap CommonOf(T)
  <2>1. Joins(k, R, T, R \cup T)
    BY RowsJoin
  <2> QED
    BY <1>2, <2>1 DEF Joins
<1>5. ObjectOK(k, first, R) /\ first.tag = tag /\ first.data = x
  <2>1. ObjectOK(k, first, R)
    BY <1>2, AloneOK
  <2> QED
    BY <1>2, <2>1 DEF Object
<1>6. CASE k = "intersection"
  <2>1. Intersects(x, CommonOf(R), m) /\ EmptyOK(k, x.table.isEmpty, R)
    BY <1>2, <1>5, <1>6 DEF ObjectOK
  <2>2. Shares(w, CommonOf(T), n) /\ EmptyOK(k, w.isEmpty, T)
    BY <1>2, <1>6 DEF ValueOK
  <2>3. obj.data = InterUpdate(x, w)
    BY <1>1, <1>2, <1>6 DEF MergedOfBoth, MergedOfOne
  <2>4. /\ Intersects(obj.data, CommonOf(R) \cap CommonOf(T), MinOf(m, n))
        /\ x.table.isEmpty \/ w.isEmpty => obj.data.table.isEmpty
        /\ obj.data.table.isEmpty =>
             x.table.isEmpty \/ w.isEmpty \/ MinOf(m, n) = MaxTheta
    BY <1>3, <1>6, <2>1, <2>2, <2>3, UpdateIntersects
  <2>5. obj.data.table.isEmpty => CommonOf(R) \cap CommonOf(T) = {}
    BY <2>4 DEF Intersects, Common
  <2>6. EmptyOK(k, obj.data.table.isEmpty, R \cup T)
    <3>1. PICK b, c, f, A :
            /\ b = x.table.isEmpty /\ c = w.isEmpty /\ f = obj.data.table.isEmpty
            /\ A = R \cup T
      OBVIOUS
    <3>2. EmptyOK(k, b, R) /\ EmptyOK(k, c, T) /\ RowSet(k, A) /\ A # {}
      BY <1>0, <2>1, <2>2, <3>1
    <3>3. /\ b \/ c => f
          /\ f => b \/ c \/ (LeastOf(k, A) = MaxTheta /\ CommonOf(A) = {})
      BY <1>4, <2>4, <2>5, <3>1
    <3>4. EmptyOK(k, f, A)
      BY <1>6, <3>1, <3>2, <3>3, EmptyJoins
    <3> QED
      BY <3>1, <3>4
  <2> QED
    BY <1>1, <1>4, <1>6, <2>4, <2>6 DEF ObjectOK
<1>7. CASE k # "intersection"
  <2>1. Unites(x, S, m) /\ EmptyOK(k, x.table.isEmpty, R)
    BY <1>2, <1>5, <1>7 DEF ObjectOK
  <2>2. Represents(w, Q, n) /\ EmptyOK(k, w.isEmpty, T)
    BY <1>2, <1>7 DEF ValueOK
  <2>3. obj.data = UnionUpdate(x, w)
    BY <1>1, <1>2, <1>7 DEF MergedOfBoth, MergedOfOne
  <2>4. /\ Unites(obj.data, S \cup Q, MinOf(m, n))
        /\ obj.data.table.isEmpty <=> x.table.isEmpty /\ w.isEmpty
    BY <1>3, <2>1, <2>2, <2>3, UpdateUnites
  <2>5. EmptyOK(k, obj.data.table.isEmpty, R \cup T)
    BY <1>0, <1>7, <2>1, <2>2, <2>4, EmptyJoins
  <2> QED
    BY <1>1, <1>4, <1>7, <2>4, <2>5 DEF ObjectOK
<1> QED
  BY <1>6, <1>7

-----------------------------------------------------------------------------
(* operator new finds a free address: there are more than states, and each *)
(* state owns at most one.                                                 *)
LEMMA AddressFree ==
  ASSUME Owned
  PROVE  FreeAddress(heap) \in Addresses \ DOMAIN heap
<1>1. PICK n \in Nat : n = Cardinality(States)
  BY AggregateAssumption, FS_CardinalityType DEF AggregateAssumption
<1>2. /\ IsFiniteSet(States)
      /\ Addresses = 1 .. 2 * n + 2 /\ IsFiniteSet(Addresses)
      /\ Cardinality(Addresses) = 2 * n + 2
  <2>1. PICK b \in Int : b = 2 * n + 2 /\ 1 <= b
    OBVIOUS
  <2>2. IsFiniteSet(1 .. b) /\ Cardinality(1 .. b) = b
    BY <2>1, FS_Interval
  <2> QED
    BY <1>1, <2>1, <2>2, AggregateAssumption DEF Addresses, AggregateAssumption
<1>3. Cardinality(States) < Cardinality(Addresses)
  BY <1>1, <1>2
<1>4. ASSUME Addresses \subseteq DOMAIN heap PROVE FALSE
  <2>1. \A a \in Addresses : \E s \in States : handle[s] = a
    BY <1>4 DEF Owned
  <2>2. PICK g : g = [a \in Addresses |-> CHOOSE s \in States : handle[s] = a]
    OBVIOUS
  <2>3. \A a \in Addresses : g[a] \in States /\ handle[g[a]] = a
    BY <2>1, <2>2
  <2>4. g \in [Addresses -> States]
    BY <2>2, <2>3
  <2>5. \E x, y \in Addresses : x # y /\ g[x] = g[y]
    BY <1>2, <1>3, <2>4, FS_PigeonHole
  <2> QED
    BY <2>3, <2>5
<1>5. \E a : a \in Addresses \ DOMAIN heap
  BY <1>4
<1> QED
  BY <1>5 DEF FreeAddress

(* What the invariant says of one state. *)
LEMMA StateFacts ==
  ASSUME IInv, NEW s \in States
  PROVE  /\ kind \in {"build", "union", "intersection"}
         /\ phase[s] \in Phases /\ handle[s] \in Addresses \cup {NoHandle}
         /\ RowSet(kind, rows[s])
         /\ rows[s] # {} <=> handle[s] # NoHandle \/ blob[s] # NoBlob
         /\ handle[s] # NoHandle =>
              /\ phase[s] \in {"iterate", "partial"} /\ handle[s] \in DOMAIN heap
              /\ ObjectOK(kind, heap[handle[s]], rows[s])
              /\ phase[s] = "iterate" => heap[handle[s]].tag = IterateTag(kind)
         /\ blob[s] # NoBlob =>
              /\ phase[s] \in {"blob", "final"}
              /\ ValueOK(kind, blob[s], rows[s]) /\ blob[s].isOrdered
         /\ Live(s) => blob[s] = NoBlob
         /\ phase[s] \notin {"iterate", "partial"} => handle[s] = NoHandle
<1>1. StateOK(kind, phase[s], handle[s], blob[s], heap[handle[s]], rows[s])
  BY DEF IInv
<1>2. kind \in {"build", "union", "intersection"}
  BY AggregateAssumption DEF IInv, AggregateAssumption
<1>3. handle[s] # NoHandle => handle[s] \in DOMAIN heap
  BY DEF IInv, Owned
<1>4. phase[s] \in Phases /\ handle[s] \in Addresses \cup {NoHandle}
  BY DEF IInv
<1> QED
  BY <1>1, <1>2, <1>3, <1>4 DEF StateOK, Live

(* A state a step does not touch. *)
Untouched(t) ==
  /\ phase'[t] = phase[t] /\ handle'[t] = handle[t] /\ blob'[t] = blob[t]
  /\ rows'[t] = rows[t]
  /\ handle[t] # NoHandle => heap'[handle[t]] = heap[handle[t]]

(* It stays as good as it was, and as cut. *)
LEMMA UntouchedOK ==
  ASSUME IInv, NEW t \in States, Untouched(t), kind' = kind
  PROVE  /\ StateOK(kind', phase'[t], handle'[t], blob'[t], heap'[handle'[t]], rows'[t])
         /\ Cut(phase[t], handle[t], blob[t], heap[handle[t]]) =>
              Cut(phase'[t], handle'[t], blob'[t], heap'[handle'[t]])
<1>1. PICK obj : obj = heap'[handle[t]]
  OBVIOUS
<1>2. handle[t] # NoHandle => obj = heap[handle[t]]
  BY <1>1 DEF Untouched
<1>3. StateOK(kind, phase[t], handle[t], blob[t], heap[handle[t]], rows[t])
  BY DEF IInv
<1>4. StateOK(kind, phase[t], handle[t], blob[t], obj, rows[t])
  BY <1>2, <1>3 DEF StateOK
<1>5. Cut(phase[t], handle[t], blob[t], heap[handle[t]]) =>
        Cut(phase[t], handle[t], blob[t], obj)
  BY <1>2 DEF Cut, Held
<1> QED
  BY <1>1, <1>4, <1>5 DEF Untouched

-----------------------------------------------------------------------------
(* A row the aggregate is given. *)
LEMMA GivenRow ==
  ASSUME IInv, NEW s \in States, NEW row \in Rows, IterateRow(s, row)
  PROVE  RowSet(kind, {row})
<1>1. IsFiniteSet({row})
  BY FS_Singleton
<1>2. CASE kind = "build"
  BY <1>1, <1>2, AggregateAssumption DEF RowSet, Rows, AggregateAssumption
<1>3. CASE kind # "build"
  <2>1. row \in SketchRows
    BY <1>3 DEF Rows
  <2>2. row # NullRow
    <3>1. ~(kind \in EmptyIsNull /\ row = NullRow)
      BY DEF IterateRow
    <3>2. kind \in Kinds
      BY DEF IInv
    <3> QED
      BY <1>3, <2>1, <3>1, <3>2, AggregateAssumption DEF AggregateAssumption
  <2>3. IsSketch(row, MaxTheta)
    BY <2>1, <2>2, AggregateAssumption DEF AggregateAssumption
  <2> QED
    BY <1>1, <1>3, <2>3 DEF RowSet
<1> QED
  BY <1>2, <1>3

(* The callbacks of one state keep the invariant, if what they leave in it *)
(* is right and the others are not touched.                                *)
LEMMA OneStateKeeps ==
  ASSUME IInv, kind' = kind, NEW s \in States, phase[s] \in Phases \ {"final"},
         phase'[s] \in Phases, handle'[s] \in Addresses \cup {NoHandle},
         phase' = [phase EXCEPT ![s] = phase'[s]],
         handle' = [handle EXCEPT ![s] = handle'[s]],
         DOMAIN blob' = States, DOMAIN rows' = States,
         \A t \in States \ {s} : Untouched(t),
         DOMAIN heap' = (DOMAIN heap \ {handle[s]}) \cup ({handle'[s]} \ {NoHandle}),
         handle'[s] \notin DOMAIN heap \ {handle[s]},
         StateOK(kind', phase'[s], handle'[s], blob'[s], heap'[handle'[s]], rows'[s]),
         phase[s] # "gone",
         phase'[s] = "final" => \A t \in States \ {s} : phase[t] = "gone",
         merged' = merged,
         Cut(phase[s], handle[s], blob[s], heap[handle[s]]) =>
           kind = "intersection" \/
           Cut(phase'[s], handle'[s], blob'[s], heap'[handle'[s]])
  PROVE  IInv'
<1>1. kind' \in Kinds /\ phase \in [States -> Phases]
      /\ handle \in [States -> Addresses \cup {NoHandle}]
  BY DEF IInv
<1>2. /\ phase' \in [States -> Phases]
      /\ handle' \in [States -> Addresses \cup {NoHandle}]
  BY <1>1
<1>3. Owned'
  <2>1. /\ DOMAIN heap = {handle[t] : t \in States} \ {NoHandle}
        /\ \A t, v \in States : handle[t] = handle[v] /\ handle[t] # NoHandle => t = v
    BY DEF IInv, Owned
  <2>2. \A t \in States \ {s} : handle'[t] = handle[t]
    BY DEF Untouched
  <2>3. DOMAIN heap' = {handle'[t] : t \in States} \ {NoHandle}
    <3>1. {handle'[t] : t \in States} = {handle[t] : t \in States \ {s}} \cup {handle'[s]}
      BY <2>2
    <3>2. DOMAIN heap \ {handle[s]} = {handle[t] : t \in States \ {s}} \ {NoHandle}
      BY <2>1
    <3> QED
      BY <3>1, <3>2
  <2>4. ASSUME NEW t \in States, NEW v \in States,
               handle'[t] = handle'[v], handle'[t] # NoHandle
        PROVE  t = v
    <3>1. \A x \in States \ {s} : handle[x] # NoHandle => handle[x] \in DOMAIN heap \ {handle[s]}
      BY <2>1
    <3>2. \A x \in States \ {s} : handle[x] # NoHandle => handle[x] # handle'[s]
      BY <3>1
    <3> QED
      BY <2>1, <2>2, <2>4, <3>2
  <2> QED
    BY <2>3, <2>4 DEF Owned
<1>4. \A t \in States :
        StateOK(kind', phase'[t], handle'[t], blob'[t], heap'[handle'[t]], rows'[t])
  BY UntouchedOK
<1>5. ASSUME NEW t \in States, NEW v \in States, phase'[t] = "final", t # v
      PROVE  phase'[v] = "gone"
  <2>1. \A x, y \in States : phase[x] = "final" /\ x # y => phase[y] = "gone"
    BY DEF IInv
  <2>2. \A x \in States \ {s} : phase'[x] = phase[x]
    BY DEF Untouched
  <2>3. CASE t = s
    BY <1>5, <2>2, <2>3
  <2>4. CASE t # s
    BY <1>5, <2>1, <2>2, <2>4
  <2> QED
    BY <2>3, <2>4
<1>6. ASSUME merged', kind' # "intersection"
      PROVE  \E t \in States : Cut(phase'[t], handle'[t], blob'[t], heap'[handle'[t]])
  <2>1. PICK t \in States : Cut(phase[t], handle[t], blob[t], heap[handle[t]])
    BY <1>6 DEF IInv
  <2>2. CASE t = s
    BY <1>6, <2>1, <2>2
  <2>3. CASE t # s
    BY <2>1, <2>3, UntouchedOK
  <2> QED
    BY <2>2, <2>3
<1> QED
  BY <1>1, <1>2, <1>3, <1>4, <1>5, <1>6 DEF IInv

(* ITERATE *)
LEMMA IterateKeeps ==
  ASSUME IInv, NEW s \in States, NEW row \in Rows, IterateRow(s, row)
  PROVE  IInv'
<1>1. PICK a, state, obj :
        /\ a = IF handle[s] = NoHandle THEN FreeAddress(heap) ELSE handle[s]
        /\ state = IF handle[s] = NoHandle THEN NewState ELSE heap[a].data
        /\ obj = Object(AccumTag, Accumulate(state, row))
  OBVIOUS
<1>2. /\ phase[s] = "iterate"
      /\ handle' = [handle EXCEPT ![s] = a] /\ heap' = Put(heap, a, obj)
      /\ rows' = [rows EXCEPT ![s] = rows[s] \cup {row}]
      /\ kind' = kind /\ phase' = phase /\ blob' = blob /\ merged' = merged
  BY <1>1 DEF IterateRow
<1>3. RowSet(kind, {row})
  BY GivenRow
<1>4. Owned /\ DOMAIN rows = States /\ DOMAIN blob = States /\ phase \in [States -> Phases]
      /\ handle \in [States -> Addresses \cup {NoHandle}]
  BY DEF IInv
<1>5. blob[s] = NoBlob /\ kind \in {"build", "union", "intersection"}
      /\ RowSet(kind, rows[s])
  BY <1>2, StateFacts DEF Live
<1>6. PICK R : R = rows[s] \cup {row}
  OBVIOUS
<1>7. RowSet(kind, R) /\ R # {}
  BY <1>3, <1>5, <1>6, RowsJoin
<1>8. ObjectOK(kind, obj, R) /\ obj.tag = IterateTag(kind)
  <2>1. CASE handle[s] = NoHandle
    <3>1. rows[s] = {}
      BY <1>5, <2>1, StateFacts
    <3>2. R = {row} /\ obj = Object(AccumTag, Accumulate(NewState, row))
      BY <1>1, <1>6, <2>1, <3>1
    <3> QED
      BY <1>3, <1>5, <3>2, FirstRowOK
  <2>2. CASE handle[s] # NoHandle
    <3>1. PICK old : old = heap[handle[s]]
      OBVIOUS
    <3>2. /\ rows[s] # {} /\ ObjectOK(kind, old, rows[s]) /\ old.tag = IterateTag(kind)
          /\ obj = Object(AccumTag, Accumulate(old.data, row))
      BY <1>1, <1>2, <2>2, <3>1, StateFacts
    <3> QED
      BY <1>3, <1>5, <1>6, <3>2, NextRowOK
  <2> QED
    BY <2>1, <2>2
<1>9. /\ a \in Addresses /\ a # NoHandle
      /\ a \notin DOMAIN heap \ {handle[s]}
      /\ (DOMAIN heap) \cup {a} = (DOMAIN heap \ {handle[s]}) \cup {a}
  <2>1. 0 \notin Addresses
    BY DEF Addresses
  <2>2. CASE handle[s] = NoHandle
    <3>1. a \in Addresses \ DOMAIN heap /\ NoHandle \notin DOMAIN heap
      BY <1>1, <1>4, <2>2, AddressFree DEF Owned
    <3> QED
      BY <2>1, <2>2, <3>1 DEF NoHandle
  <2>3. CASE handle[s] # NoHandle
    BY <1>1, <1>4, <2>1, <2>3
  <2> QED
    BY <2>2, <2>3
<1>10. /\ handle'[s] = a /\ phase'[s] = "iterate" /\ blob'[s] = NoBlob /\ rows'[s] = R
       /\ heap'[a] = obj /\ DOMAIN heap' = DOMAIN heap \cup {a}
       /\ DOMAIN rows' = States /\ DOMAIN blob' = States
  <2>1. PICK hp : hp = Put(heap, a, obj)
    OBVIOUS
  <2>2. DOMAIN hp = DOMAIN heap \cup {a} /\ hp[a] = obj
    BY <2>1 DEF Put
  <2>3. heap'[a] = obj /\ DOMAIN heap' = DOMAIN heap \cup {a}
    BY <1>2, <2>1, <2>2
  <2>4. rows'[s] = R /\ DOMAIN rows' = States
    BY <1>2, <1>4, <1>6
  <2>5. handle'[s] = a
    BY <1>2, <1>4
  <2> QED
    BY <1>2, <1>4, <1>5, <2>3, <2>4, <2>5
<1>11. ASSUME NEW t \in States \ {s} PROVE Untouched(t)
  <2>1. handle[t] # NoHandle => handle[t] \in DOMAIN heap /\ handle[t] # a
    BY <1>4, <1>9 DEF Owned
  <2>2. handle[t] # NoHandle => heap'[handle[t]] = heap[handle[t]]
    <3>1. PICK b, hp : b = handle[t] /\ hp = Put(heap, a, obj)
      OBVIOUS
    <3>2. handle[t] # NoHandle => hp[b] = heap[b]
      BY <2>1, <3>1 DEF Put
    <3> QED
      BY <1>2, <3>1, <3>2
  <2> QED
    BY <1>2, <1>4, <2>2 DEF Untouched
<1>12. StateOK(kind', phase'[s], handle'[s], blob'[s], heap'[handle'[s]], rows'[s])
  BY <1>2, <1>7, <1>8, <1>9, <1>10 DEF StateOK
<1>13. ~Cut(phase[s], handle[s], blob[s], heap[handle[s]])
  BY <1>2 DEF Cut
<1>14. phase' = [phase EXCEPT ![s] = phase'[s]] /\ handle' = [handle EXCEPT ![s] = handle'[s]]
  BY <1>2, <1>4, <1>10
<1>15. /\ phase[s] \in Phases \ {"final"} /\ phase'[s] \in Phases /\ phase[s] # "gone"
       /\ phase'[s] # "final" /\ handle'[s] \in Addresses \cup {NoHandle}
       /\ DOMAIN heap' = (DOMAIN heap \ {handle[s]}) \cup ({handle'[s]} \ {NoHandle})
       /\ handle'[s] \notin DOMAIN heap \ {handle[s]}
  BY <1>2, <1>9, <1>10 DEF Phases
<1> QED
  BY <1>2, <1>10, <1>11, <1>12, <1>13, <1>14, <1>15, OneStateKeeps

(* handle_serialize(), as SERIALIZE or as TERMINATE *)
LEMMA SerializeKeeps ==
  ASSUME IInv, NEW s \in States, NEW next \in {"blob", "final"}, Serialize(s, next),
         next = "final" => \A t \in States \ {s} : phase[t] = "gone"
  PROVE  IInv'
<1>1. PICK a, obj, v, w :
        a = handle[s] /\ obj = heap[a] /\ v = GetResult(obj) /\ w = Serialized(s)
  OBVIOUS
<1>2. /\ phase[s] \in {"iterate", "partial"} /\ blob' = [blob EXCEPT ![s] = w]
      /\ heap' = Drop(heap, {a}) /\ handle' = [handle EXCEPT ![s] = NoHandle]
      /\ phase' = [phase EXCEPT ![s] = next]
      /\ kind' = kind /\ rows' = rows /\ merged' = merged
  BY <1>1 DEF Serialize, Live
<1>3. Owned /\ DOMAIN rows = States /\ DOMAIN blob = States /\ phase \in [States -> Phases]
      /\ handle \in [States -> Addresses \cup {NoHandle}]
  BY DEF IInv
<1>4. blob[s] = NoBlob /\ RowSet(kind, rows[s])
  BY <1>2, StateFacts DEF Live
<1>5. a = NoHandle => w = NoBlob /\ rows[s] = {}
  BY <1>1, <1>4, StateFacts DEF Serialized
<1>6. a # NoHandle =>
        /\ rows[s] # {} /\ ValueOK(kind, w, rows[s]) /\ w.isOrdered /\ w # NoBlob
        /\ Keys(w) = Keys(v)
  <2>1. SUFFICES ASSUME a # NoHandle
                 PROVE  /\ rows[s] # {} /\ ValueOK(kind, w, rows[s]) /\ w.isOrdered
                        /\ w # NoBlob /\ Keys(w) = Keys(v)
    OBVIOUS
  <2>2. rows[s] # {} /\ ObjectOK(kind, obj, rows[s])
    BY <1>1, <2>1, StateFacts
  <2>3. ValueOK(kind, v, rows[s])
    BY <1>1, <1>4, <2>2, ResultOK
  <2>4. w = CompactCopy(v, TRUE)
    BY <1>1, <2>1 DEF Serialized
  <2> QED
    BY <2>2, <2>3, <2>4, CopyOK
<1>7. /\ handle'[s] = NoHandle /\ phase'[s] = next /\ blob'[s] = w /\ rows'[s] = rows[s]
      /\ DOMAIN rows' = States /\ DOMAIN blob' = States
  <2>1. handle'[s] = NoHandle /\ phase'[s] = next
    BY <1>2, <1>3
  <2>2. blob'[s] = w /\ DOMAIN blob' = States
    BY <1>2, <1>3
  <2> QED
    BY <1>2, <1>3, <2>1, <2>2
<1>8. DOMAIN heap' = DOMAIN heap \ {a}
  BY <1>2 DEF Drop
<1>9. ASSUME NEW t \in States \ {s} PROVE Untouched(t)
  <2>1. PICK b, hp : b = handle[t] /\ hp = Drop(heap, {a})
    OBVIOUS
  <2>2. handle[t] # NoHandle => b \in DOMAIN heap /\ b \notin {a}
    BY <1>1, <1>3, <2>1 DEF Owned
  <2>3. handle[t] # NoHandle => hp[b] = heap[b]
    BY <2>1, <2>2 DEF Drop
  <2>4. handle[t] # NoHandle => heap'[handle[t]] = heap[handle[t]]
    BY <1>2, <2>1, <2>3
  <2>5. phase'[t] = phase[t] /\ handle'[t] = handle[t] /\ blob'[t] = blob[t]
    BY <1>2, <1>3
  <2> QED
    BY <1>2, <2>4, <2>5 DEF Untouched
<1>10. StateOK(kind', phase'[s], handle'[s], blob'[s], heap'[handle'[s]], rows'[s])
  <2>1. PICK o : o = heap'[handle'[s]]
    OBVIOUS
  <2>2. StateOK(kind, next, NoHandle, w, o, rows[s])
    BY <1>4, <1>5, <1>6 DEF StateOK
  <2> QED
    BY <1>2, <1>7, <2>1, <2>2
<1>11. Cut(phase[s], handle[s], blob[s], heap[handle[s]]) =>
         Cut(phase'[s], handle'[s], blob'[s], heap'[handle'[s]])
  <2>1. PICK o : o = heap'[handle'[s]]
    OBVIOUS
  <2>2. Cut(phase[s], a, NoBlob, obj) => Cut(next, NoHandle, w, o)
    <3>1. Cut(phase[s], a, NoBlob, obj) => a # NoHandle
      BY DEF Cut
    <3>2. a # NoHandle => Held(a, NoBlob, obj) = v /\ Held(NoHandle, w, o) = w
      BY <1>1 DEF Held
    <3> QED
      BY <1>6, <3>1, <3>2 DEF Cut
  <2> QED
    BY <1>1, <1>4, <1>7, <2>1, <2>2
<1>12. phase' = [phase EXCEPT ![s] = phase'[s]] /\ handle' = [handle EXCEPT ![s] = handle'[s]]
  BY <1>2, <1>7
<1>13. /\ phase[s] \in Phases \ {"final"} /\ phase'[s] \in Phases /\ phase[s] # "gone"
       /\ handle'[s] \in Addresses \cup {NoHandle}
       /\ DOMAIN heap' = (DOMAIN heap \ {handle[s]}) \cup ({handle'[s]} \ {NoHandle})
       /\ handle'[s] \notin DOMAIN heap \ {handle[s]}
       /\ phase'[s] = "final" => \A t \in States \ {s} : phase[t] = "gone"
  <2>1. NoHandle \notin DOMAIN heap
    BY <1>3 DEF Owned
  <2> QED
    BY <1>1, <1>2, <1>7, <1>8, <2>1 DEF Phases
<1> QED
  BY <1>2, <1>7, <1>9, <1>10, <1>11, <1>12, <1>13, OneStateKeeps

(* handle_deserialize() *)
LEMMA DeserializeKeeps ==
  ASSUME IInv, NEW s \in States, Deserialize(s)
  PROVE  IInv'
<1>1. PICK v, obj, a : v = blob[s] /\ obj = Object("IMMUTABLE_SKETCH", v)
                       /\ a = IF v = NoBlob THEN NoHandle ELSE FreeAddress(heap)
  OBVIOUS
<1>2. /\ phase[s] = "blob" /\ phase' = [phase EXCEPT ![s] = "partial"]
      /\ blob' = [blob EXCEPT ![s] = NoBlob]
      /\ kind' = kind /\ rows' = rows /\ merged' = merged
      /\ v = NoBlob => heap' = heap /\ handle' = handle
      /\ v # NoBlob => heap' = Put(heap, a, obj) /\ handle' = [handle EXCEPT ![s] = a]
  BY <1>1 DEF Deserialize
<1>3. Owned /\ DOMAIN rows = States /\ DOMAIN blob = States /\ phase \in [States -> Phases]
      /\ handle \in [States -> Addresses \cup {NoHandle}]
  BY DEF IInv
<1>4. /\ handle[s] = NoHandle /\ RowSet(kind, rows[s])
      /\ v = NoBlob => rows[s] = {}
      /\ v # NoBlob => rows[s] # {} /\ ValueOK(kind, v, rows[s]) /\ v.isOrdered
  BY <1>1, <1>2, StateFacts
<1>5. obj.tag = "IMMUTABLE_SKETCH" /\ obj.data = v
  BY <1>1 DEF Object
<1>6. v # NoBlob => a \in Addresses \ DOMAIN heap /\ a # NoHandle
  <2>1. 0 \notin Addresses
    BY DEF Addresses
  <2> QED
    BY <1>1, <1>3, <2>1, AddressFree DEF NoHandle
<1>7. /\ handle'[s] = a /\ phase'[s] = "partial" /\ blob'[s] = NoBlob
      /\ rows'[s] = rows[s] /\ DOMAIN rows' = States /\ DOMAIN blob' = States
      /\ handle' = [handle EXCEPT ![s] = a]
  <2>1. handle' = [handle EXCEPT ![s] = a]
    BY <1>1, <1>2, <1>3, <1>4
  <2>2. handle'[s] = a
    BY <1>3, <2>1
  <2>3. blob'[s] = NoBlob /\ DOMAIN blob' = States
    BY <1>2, <1>3
  <2> QED
    BY <1>2, <1>3, <2>1, <2>2, <2>3
<1>8. /\ DOMAIN heap' = DOMAIN heap \cup ({a} \ {NoHandle})
      /\ v # NoBlob => heap'[a] = obj
  <2>1. CASE v = NoBlob
    BY <1>1, <1>2, <2>1
  <2>2. CASE v # NoBlob
    <3>1. PICK hp : hp = Put(heap, a, obj)
      OBVIOUS
    <3>2. DOMAIN hp = DOMAIN heap \cup {a} /\ hp[a] = obj
      BY <3>1 DEF Put
    <3> QED
      BY <1>2, <1>6, <2>2, <3>1, <3>2
  <2> QED
    BY <2>1, <2>2
<1>9. ASSUME NEW t \in States \ {s} PROVE Untouched(t)
  <2>1. PICK b, hp : b = handle[t] /\ hp = Put(heap, a, obj)
    OBVIOUS
  <2>2. handle[t] # NoHandle => b \in DOMAIN heap
    BY <1>3, <2>1 DEF Owned
  <2>3. handle[t] # NoHandle /\ v # NoBlob => hp[b] = heap[b]
    BY <1>6, <2>1, <2>2 DEF Put
  <2>4. handle[t] # NoHandle => heap'[handle[t]] = heap[handle[t]]
    BY <1>2, <2>1, <2>3
  <2>5. phase'[t] = phase[t] /\ blob'[t] = blob[t]
    BY <1>2, <1>3
  <2>6. handle'[t] = handle[t]
    BY <1>3, <1>7
  <2> QED
    BY <1>2, <2>4, <2>5, <2>6 DEF Untouched
<1>10. StateOK(kind', phase'[s], handle'[s], blob'[s], heap'[handle'[s]], rows'[s])
  <2>1. PICK o : o = heap'[a]
    OBVIOUS
  <2>2. v # NoBlob => ObjectOK(kind, obj, rows[s])
    BY <1>4, <1>5 DEF ObjectOK, Tags
  <2>3. StateOK(kind, "partial", a, NoBlob, o, rows[s])
    BY <1>1, <1>4, <1>6, <1>8, <2>1, <2>2 DEF StateOK
  <2> QED
    BY <1>2, <1>7, <2>1, <2>3
<1>11. Cut(phase[s], handle[s], blob[s], heap[handle[s]]) =>
         Cut(phase'[s], handle'[s], blob'[s], heap'[handle'[s]])
  <2>1. PICK o, p : o = heap'[a] /\ p = heap[handle[s]]
    OBVIOUS
  <2>2. Cut("blob", NoHandle, v, p) => Cut("partial", a, NoBlob, o)
    <3>1. Cut("blob", NoHandle, v, p) => v # NoBlob
      BY DEF Cut
    <3>2. v # NoBlob => Held(NoHandle, v, p) = v /\ Held(a, NoBlob, o) = v
      BY <1>5, <1>6, <1>8, <2>1, ResultCases DEF Held
    <3> QED
      BY <1>6, <3>1, <3>2 DEF Cut
  <2> QED
    BY <1>1, <1>2, <1>4, <1>7, <2>1, <2>2
<1>12. phase' = [phase EXCEPT ![s] = phase'[s]] /\ handle' = [handle EXCEPT ![s] = handle'[s]]
  BY <1>2, <1>7
<1>13. /\ phase[s] \in Phases \ {"final"} /\ phase'[s] \in Phases /\ phase[s] # "gone"
       /\ handle'[s] \in Addresses \cup {NoHandle}
       /\ DOMAIN heap' = (DOMAIN heap \ {handle[s]}) \cup ({handle'[s]} \ {NoHandle})
       /\ handle'[s] \notin DOMAIN heap \ {handle[s]}
       /\ phase'[s] # "final"
  <2>1. NoHandle \notin DOMAIN heap
    BY <1>3 DEF Owned
  <2> QED
    BY <1>1, <1>2, <1>4, <1>6, <1>7, <1>8, <2>1 DEF Phases
<1> QED
  BY <1>2, <1>7, <1>9, <1>10, <1>11, <1>12, <1>13, OneStateKeeps

(* The object a MERGE makes stands for the rows of both states. *)
LEMMA MergedOK ==
  ASSUME IInv, NEW l \in States, NEW r \in States, l # r, Live(l), Live(r),
         handle[l] # NoHandle \/ handle[r] # NoHandle,
         NEW R, R = rows[l] \cup rows[r],
         NEW obj, obj = Object(MergeTag, MergedData(l, r))
  PROVE  /\ RowSet(kind, R) /\ R # {}
         /\ ObjectOK(kind, obj, R)
         /\ kind # "intersection" => obj.tag = "UNION"
<1>1. PICK k, v, w, A, B, tag :
        /\ k = kind /\ v = GetResult(heap[handle[l]]) /\ w = GetResult(heap[handle[r]])
        /\ A = rows[l] /\ B = rows[r]
        /\ tag = IF k = "intersection" THEN "INTERSECTION" ELSE "UNION"
  OBVIOUS
<1>2. /\ k \in {"build", "union", "intersection"} /\ RowSet(k, A) /\ RowSet(k, B)
      /\ MergeTag = tag /\ R = A \cup B
  BY <1>1, StateFacts DEF MergeTag
<1>3. RowSet(k, R)
  BY <1>2, RowsJoin
<1>4. /\ A # {} <=> handle[l] # NoHandle
      /\ B # {} <=> handle[r] # NoHandle
      /\ handle[l] # NoHandle => ObjectOK(k, heap[handle[l]], A)
      /\ handle[r] # NoHandle => ObjectOK(k, heap[handle[r]], B)
  BY <1>1, StateFacts
<1>5. /\ handle[l] # NoHandle => ValueOK(k, v, A)
      /\ handle[r] # NoHandle => ValueOK(k, w, B)
  BY <1>1, <1>2, <1>4, ResultOK
<1>6. obj.tag = tag
  BY <1>2 DEF Object
<1>7. ObjectOK(k, obj, R)
  <2>1. CASE handle[l] # NoHandle /\ handle[r] # NoHandle
    <3>1. MergedData(l, r) = MergedOfBoth(k, v, w)
      BY <1>1, <2>1, MergedCases DEF MergedOfBoth
    <3>2. obj = Object(tag, MergedOfBoth(k, v, w))
      BY <1>2, <3>1
    <3>3. ObjectOK(k, obj, A \cup B)
      BY <1>1, <1>2, <1>4, <1>5, <2>1, <3>2, JoinedOK
    <3> QED
      BY <1>2, <3>3
  <2>2. CASE handle[l] # NoHandle /\ handle[r] = NoHandle
    <3>1. MergedData(l, r) = MergedOfOne(k, v)
      BY <1>1, <2>2, MergedCases DEF MergedOfOne
    <3>2. obj = Object(tag, MergedOfOne(k, v)) /\ R = A
      BY <1>2, <1>4, <2>2, <3>1
    <3> QED
      BY <1>1, <1>2, <1>4, <1>5, <2>2, <3>2, AloneOK
  <2>3. CASE handle[l] = NoHandle /\ handle[r] # NoHandle
    <3>1. MergedData(l, r) = MergedOfOne(k, w)
      BY <1>1, <2>3, MergedCases DEF MergedOfOne
    <3>2. obj = Object(tag, MergedOfOne(k, w)) /\ R = B
      BY <1>2, <1>4, <2>3, <3>1
    <3> QED
      BY <1>1, <1>2, <1>4, <1>5, <2>3, <3>2, AloneOK
  <2> QED
    BY <2>1, <2>2, <2>3
<1> QED
  BY <1>1, <1>2, <1>3, <1>4, <1>6, <1>7

(* MERGE *)
LEMMA MergeKeeps ==
  ASSUME IInv, NEW l \in States, NEW r \in States, MergeStates(l, r)
  PROVE  IInv'
<1>1. PICK used, R, obj :
        /\ used = {handle[l], handle[r]} \ {NoHandle}
        /\ R = rows[l] \cup rows[r] /\ obj = Object(MergeTag, MergedData(l, r))
  OBVIOUS
<1>2. PICK a : a = IF used = {} THEN NoHandle ELSE FreeAddress(heap)
  OBVIOUS
<1>3. /\ l # r /\ Live(l) /\ Live(r)
      /\ used = {} => heap' = heap /\ handle' = handle /\ merged' = merged
      /\ used # {} => /\ heap' = Put(Drop(heap, used), a, obj)
                      /\ handle' = [handle EXCEPT ![l] = a, ![r] = NoHandle]
                      /\ merged' = TRUE
      /\ phase' = [phase EXCEPT ![l] = "partial", ![r] = "gone"]
      /\ rows' = [rows EXCEPT ![l] = rows[l] \cup rows[r], ![r] = {}]
      /\ kind' = kind /\ blob' = blob
  BY <1>1, <1>2 DEF MergeStates
<1>4. /\ Owned /\ DOMAIN rows = States /\ DOMAIN blob = States
      /\ phase \in [States -> Phases]
      /\ handle \in [States -> Addresses \cup {NoHandle}]
      /\ kind \in Kinds
  BY DEF IInv
<1>5. /\ blob[l] = NoBlob /\ blob[r] = NoBlob
      /\ RowSet(kind, rows[l]) /\ RowSet(kind, rows[r])
      /\ rows[l] # {} <=> handle[l] # NoHandle
      /\ rows[r] # {} <=> handle[r] # NoHandle
      /\ phase[l] \in {"iterate", "partial"} /\ phase[r] \in {"iterate", "partial"}
  BY <1>3, StateFacts DEF Live
<1>6. used # {} => a \in Addresses \ DOMAIN heap /\ a # NoHandle
  <2>1. 0 \notin Addresses
    BY DEF Addresses
  <2> QED
    BY <1>2, <1>4, <2>1, AddressFree DEF NoHandle
<1>7. handle' = [handle EXCEPT ![l] = a, ![r] = NoHandle]
  <2>1. CASE used = {}
    <3>1. handle[l] = NoHandle /\ handle[r] = NoHandle /\ a = NoHandle
      BY <1>1, <1>2, <2>1
    <3> QED
      BY <1>3, <1>4, <2>1, <3>1
  <2> QED
    BY <1>3, <2>1
<1>8. /\ handle'[l] = a /\ handle'[r] = NoHandle
      /\ \A t \in States \ {l, r} : handle'[t] = handle[t]
  BY <1>3, <1>4, <1>7
<1>9. /\ phase'[l] = "partial" /\ phase'[r] = "gone"
      /\ \A t \in States \ {l, r} : phase'[t] = phase[t]
  BY <1>3, <1>4
<1>10. /\ rows'[l] = R /\ rows'[r] = {} /\ DOMAIN rows' = States
       /\ \A t \in States \ {l, r} : rows'[t] = rows[t]
  BY <1>1, <1>3, <1>4
<1>11. /\ DOMAIN heap' = (DOMAIN heap \ used) \cup ({a} \ {NoHandle})
       /\ used # {} => heap'[a] = obj
       /\ \A b \in DOMAIN heap \ used : heap'[b] = heap[b]
  <2>1. CASE used = {}
    BY <1>2, <1>3, <2>1
  <2>2. CASE used # {}
    <3>1. PICK hp : hp = Drop(heap, used)
      OBVIOUS
    <3>2. DOMAIN hp = DOMAIN heap \ used /\ \A b \in DOMAIN heap \ used : hp[b] = heap[b]
      BY <3>1 DEF Drop
    <3>3. PICK hq : hq = Put(hp, a, obj)
      OBVIOUS
    <3>4. /\ DOMAIN hq = DOMAIN hp \cup {a} /\ hq[a] = obj
          /\ \A b \in DOMAIN hp : b # a => hq[b] = hp[b]
      BY <3>3 DEF Put
    <3>5. heap' = hq
      BY <1>3, <2>2, <3>1, <3>3
    <3> QED
      BY <1>6, <2>2, <3>2, <3>4, <3>5
  <2> QED
    BY <2>1, <2>2
<1>12. ASSUME NEW t \in States \ {l, r} PROVE Untouched(t)
  <2>1. handle[t] # NoHandle => handle[t] \in DOMAIN heap \ used
    BY <1>1, <1>4 DEF Owned
  <2> QED
    BY <1>3, <1>8, <1>9, <1>10, <1>11, <2>1 DEF Untouched
<1>13. used # {} => /\ RowSet(kind, R) /\ R # {} /\ ObjectOK(kind, obj, R)
                    /\ kind # "intersection" => obj.tag = "UNION"
  <2>1. SUFFICES ASSUME used # {}
                 PROVE  /\ RowSet(kind, R) /\ R # {} /\ ObjectOK(kind, obj, R)
                        /\ kind # "intersection" => obj.tag = "UNION"
    OBVIOUS
  <2>2. handle[l] # NoHandle \/ handle[r] # NoHandle
    BY <1>1, <2>1
  <2> QED
    BY <1>1, <1>3, <2>2, MergedOK
<1>14. used = {} => R = {} /\ a = NoHandle
  BY <1>1, <1>2, <1>5
<1>15. RowSet(kind, R) /\ RowSet(kind, {})
  <2>1. RowSet(kind, R)
    BY <1>1, <1>5, RowsJoin
  <2>2. RowSet(kind, {})
    BY FS_EmptySet DEF RowSet
  <2> QED
    BY <2>1, <2>2
<1>16. ASSUME NEW t \in States
       PROVE  StateOK(kind', phase'[t], handle'[t], blob'[t], heap'[handle'[t]], rows'[t])
  <2>1. PICK o : o = heap'[handle'[t]]
    OBVIOUS
  <2>2. CASE t = l
    <3>1. StateOK(kind, "partial", a, NoBlob, o, R)
      BY <1>6, <1>8, <1>11, <1>13, <1>14, <1>15, <2>1, <2>2 DEF StateOK
    <3> QED
      BY <1>3, <1>5, <1>8, <1>9, <1>10, <2>1, <2>2, <3>1
  <2>3. CASE t = r
    <3>1. StateOK(kind, "gone", NoHandle, NoBlob, o, {})
      BY <1>15 DEF StateOK
    <3> QED
      BY <1>3, <1>5, <1>8, <1>9, <1>10, <2>1, <2>3, <3>1
  <2>4. CASE t \notin {l, r}
    BY <1>3, <1>12, <2>4, UntouchedOK
  <2> QED
    BY <2>2, <2>3, <2>4
<1>17. Owned'
  <2>1. DOMAIN heap' = {handle'[t] : t \in States} \ {NoHandle}
    <3>1. {handle'[t] : t \in States} = {handle[t] : t \in States \ {l, r}} \cup {a, NoHandle}
      BY <1>8
    <3>2. DOMAIN heap \ used = {handle[t] : t \in States \ {l, r}} \ {NoHandle}
      BY <1>1, <1>4 DEF Owned
    <3> QED
      BY <1>11, <3>1, <3>2
  <2>2. ASSUME NEW t \in States, NEW v \in States,
               handle'[t] = handle'[v], handle'[t] # NoHandle
        PROVE  t = v
    <3>1. \A x \in States \ {l, r} : handle[x] # NoHandle => handle[x] # a
      BY <1>4, <1>6, <1>14 DEF Owned
    <3>2. \A x, y \in States : handle[x] = handle[y] /\ handle[x] # NoHandle => x = y
      BY <1>4 DEF Owned
    <3> QED
      BY <1>8, <2>2, <3>1, <3>2
  <2> QED
    BY <2>1, <2>2 DEF Owned
<1>18. ASSUME NEW t \in States, NEW v \in States, phase'[t] = "final", t # v
       PROVE  phase'[v] = "gone"
  <2>1. \A x, y \in States : phase[x] = "final" /\ x # y => phase[y] = "gone"
    BY DEF IInv
  <2>2. t \notin {l, r}
    BY <1>9, <1>18
  <2> QED
    BY <1>5, <1>9, <1>18, <2>1, <2>2
<1>19. ASSUME merged', kind' # "intersection"
       PROVE  \E t \in States : Cut(phase'[t], handle'[t], blob'[t], heap'[handle'[t]])
  <2>1. CASE used = {}
    <3>1. PICK t \in States : Cut(phase[t], handle[t], blob[t], heap[handle[t]])
      BY <1>3, <1>19, <2>1 DEF IInv
    <3>2. handle[l] = NoHandle /\ handle[r] = NoHandle
      BY <1>1, <2>1
    <3>3. t \notin {l, r}
      BY <1>5, <3>1, <3>2 DEF Cut
    <3> QED
      BY <1>3, <1>12, <3>1, <3>3, UntouchedOK
  <2>2. CASE used # {}
    <3>1. PICK v : v = GetResult(obj)
      OBVIOUS
    <3>2. obj.tag = "UNION" /\ Cardinality(Keys(v)) <= Nominal
      BY <1>3, <1>13, <1>19, <2>2, <3>1, ResultOK
    <3>3. Cut("partial", a, NoBlob, obj)
      BY <1>6, <2>2, <3>1, <3>2 DEF Cut, Held
    <3> QED
      BY <1>3, <1>5, <1>8, <1>9, <1>11, <2>2, <3>3
  <2> QED
    BY <2>1, <2>2
<1>20. phase' \in [States -> Phases] /\ handle' \in [States -> Addresses \cup {NoHandle}]
  <2>1. a \in Addresses \cup {NoHandle}
    BY <1>6, <1>14
  <2> QED
    BY <1>3, <1>4, <1>7, <2>1 DEF Phases
<1> QED
  BY <1>3, <1>4, <1>10, <1>16, <1>17, <1>18, <1>19, <1>20 DEF IInv

(* The first state. *)
LEMMA InitIInv ==
  ASSUME Init
  PROVE  IInv
<1>1. PICK used : phase = [s \in States |-> IF s \in used THEN "iterate" ELSE "gone"]
  BY DEF Init
<1>2. /\ handle = [s \in States |-> NoHandle] /\ blob = [s \in States |-> NoBlob]
      /\ heap = <<>> /\ rows = [s \in States |-> {}] /\ merged = FALSE /\ kind \in Kinds
  BY DEF Init
<1>3. DOMAIN heap = {}
  <2>1. DOMAIN <<>> = {}
    OBVIOUS
  <2> QED
    BY <1>2, <2>1
<1>4. RowSet(kind, {})
  BY FS_EmptySet DEF RowSet
<1>5. Owned
  BY <1>2, <1>3 DEF Owned
<1>6. \A s \in States :
        StateOK(kind, phase[s], handle[s], blob[s], heap[handle[s]], rows[s])
  BY <1>2, <1>4 DEF StateOK
<1>7. phase \in [States -> Phases] /\ \A s \in States : phase[s] # "final"
  BY <1>1 DEF Phases
<1> QED
  BY <1>2, <1>5, <1>6, <1>7 DEF IInv

(* Every callback keeps the invariant. *)
LEMMA NextKeeps ==
  ASSUME IInv, [Next]_vars
  PROVE  IInv'
<1>1. ASSUME UNCHANGED vars PROVE IInv'
  BY <1>1 DEF vars, IInv, Owned
<1>2. ASSUME NEW s \in States, SkipRow(s) PROVE IInv'
  BY <1>1, <1>2 DEF SkipRow
<1>3. ASSUME NEW s \in States, NEW row \in Rows, IterateRow(s, row) PROVE IInv'
  BY <1>3, IterateKeeps
<1>4. ASSUME NEW s \in States, NEW t \in States, MergeStates(s, t) PROVE IInv'
  BY <1>4, MergeKeeps
<1>5. ASSUME NEW s \in States, ShipState(s) PROVE IInv'
  BY <1>5, SerializeKeeps DEF ShipState
<1>6. ASSUME NEW s \in States, Deserialize(s) PROVE IInv'
  BY <1>6, DeserializeKeeps
<1>7. ASSUME NEW s \in States, Terminate(s) PROVE IInv'
  BY <1>7, SerializeKeeps DEF Terminate
<1> QED
  BY <1>1, <1>2, <1>3, <1>4, <1>5, <1>6, <1>7 DEF Next

(* One owner per object, and behind every handle and in every blob a       *)
(* sketch, table or operator that stands for the rows of its state,        *)
(* whatever the engine did with the states (accum, handle_serialize,       *)
(* handle_deserialize, union_merge, intersection_merge).                   *)
THEOREM AggregateInvariance == Spec => []IInv
<1>1. Init => IInv
  BY InitIInv
<1>2. IInv /\ [Next]_vars => IInv'
  BY NextKeeps
<1> QED
  BY <1>1, <1>2, PTL DEF Spec

(* The tag of an object is one of the four, and what was deserialized is a *)
(* well-formed sketch (theta_data, handle_deserialize).                    *)
THEOREM AggregateTyped == Spec => []TypeOK
<1>1. IInv => TypeOK
  <2>1. SUFFICES ASSUME IInv PROVE TypeOK
    OBVIOUS
  <2>2. /\ kind \in Kinds /\ phase \in [States -> Phases]
        /\ handle \in [States -> Addresses \cup {NoHandle}]
        /\ DOMAIN heap = {handle[s] : s \in States} \ {NoHandle}
    BY <2>1 DEF IInv, Owned
  <2>3. DOMAIN heap \subseteq Addresses
    BY <2>2
  <2>4. ASSUME NEW a \in DOMAIN heap
        PROVE  /\ heap[a].tag \in Tags
               /\ heap[a].tag = "IMMUTABLE_SKETCH" =>
                    heap[a].data # NoBlob /\ IsSketch(heap[a].data, MaxTheta)
    <3>1. PICK s \in States : a = handle[s] /\ handle[s] # NoHandle
      BY <2>2
    <3>2. ObjectOK(kind, heap[a], rows[s])
      BY <2>1, <3>1, StateFacts
    <3>3. PICK v : v = heap[a].data
      OBVIOUS
    <3>4. ValueOK(kind, v, rows[s]) => IsSketch(v, MaxTheta) /\ v # NoBlob
      BY ShapedIsNoString DEF ValueOK, Shares, Represents
    <3> QED
      BY <3>2, <3>3, <3>4 DEF ObjectOK
  <2> QED
    BY <2>2, <2>3, <2>4 DEF TypeOK, Phases
<1> QED
  BY <1>1, AggregateInvariance, PTL

(* The value of a group with rows. *)
LEMMA FinalFacts ==
  ASSUME IInv, NEW s \in States, Final(s)
  PROVE  /\ blob[s] = NoBlob <=> rows[s] = {}
         /\ rows[s] # {} => ValueOK(kind, blob[s], rows[s]) /\ blob[s].isOrdered
         /\ Offered(s) = HashesOf(kind, rows[s])
         /\ LeastTheta(s) = LeastOf(kind, rows[s])
         /\ rows[s] # {} /\ merged /\ kind # "intersection" =>
              Cardinality(Keys(blob[s])) <= Nominal
<1>1. phase[s] = "final" /\ handle[s] = NoHandle
  BY StateFacts DEF Final
<1>2. /\ blob[s] = NoBlob <=> rows[s] = {}
      /\ rows[s] # {} => ValueOK(kind, blob[s], rows[s]) /\ blob[s].isOrdered
  BY <1>1, StateFacts
<1>3. /\ Offered(s) = HashesOf(kind, rows[s])
      /\ LeastTheta(s) = LeastOf(kind, rows[s])
  BY DEF Offered, HashesOf, LeastTheta, LeastOf
<1>4. ASSUME rows[s] # {}, merged, kind # "intersection"
      PROVE  Cardinality(Keys(blob[s])) <= Nominal
  <2>1. PICK t \in States : Cut(phase[t], handle[t], blob[t], heap[handle[t]])
    BY <1>4 DEF IInv
  <2>2. t # s => phase[t] = "gone"
    BY <1>1 DEF IInv
  <2>3. handle[t] # NoHandle \/ blob[t] # NoBlob
    BY <2>1 DEF Cut
  <2>4. phase[t] # "gone"
    BY <2>3, StateFacts
  <2>5. t = s
    BY <2>2, <2>4
  <2> QED
    BY <1>1, <2>1, <2>5 DEF Cut, Held
<1> QED
  BY <1>2, <1>3, <1>4

(* However the engine split the rows over states, shipped the states and   *)
(* merged them: theta is the (nominal + 1)-th smallest hash offered, if    *)
(* there are so many, and every hash below it is kept (union_merge,        *)
(* handle_serialize, handle_deserialize, theta_union::get_result).         *)
THEOREM AggregateCanonical == Spec => []MergedIsCanonical
<1>1. IInv => MergedIsCanonical
  <2>1. SUFFICES ASSUME IInv, kind # "intersection", NEW s \in States, Final(s)
                 PROVE  /\ blob[s] = NoBlob <=> rows[s] = {}
                        /\ rows[s] # {} /\ (merged \/ kind = "union") =>
                             LET least == LeastTheta(s)
                                 all   == Below(Offered(s), least)
                             IN  /\ blob[s].theta =
                                      IF Cardinality(all) <= Nominal THEN least
                                      ELSE NthElement(all, Nominal)
                                 /\ Keys(blob[s]) = Below(all, blob[s].theta)
    BY DEF MergedIsCanonical
  <2>2. SUFFICES ASSUME rows[s] # {}, merged \/ kind = "union",
                        NEW least, least = LeastTheta(s),
                        NEW all, all = Below(Offered(s), least)
                 PROVE  /\ blob[s].theta = IF Cardinality(all) <= Nominal THEN least
                                           ELSE NthElement(all, Nominal)
                        /\ Keys(blob[s]) = Below(all, blob[s].theta)
    BY <2>1, FinalFacts
  <2>3. PICK r, S : r = blob[s] /\ S = HashesOf(kind, rows[s])
    OBVIOUS
  <2>4. /\ ValueOK(kind, r, rows[s]) /\ least = LeastOf(kind, rows[s])
        /\ all = Below(S, least) /\ RowSet(kind, rows[s])
    BY <2>1, <2>2, <2>3, FinalFacts, StateFacts
  <2>5. HashSet(S) /\ least \in Nat
    BY <2>2, <2>3, <2>4, RowFacts
  <2>6. Represents(r, S, least)
    BY <2>1, <2>3, <2>4 DEF ValueOK
  <2>7. Cardinality(Keys(r)) <= Nominal
    BY <2>1, <2>2, <2>3, <2>4, FinalFacts DEF ValueOK
  <2> QED
    BY <2>3, <2>4, <2>5, <2>6, <2>7, CutIsCanonical
<1> QED
  BY <1>1, AggregateInvariance, PTL

(* Every value an aggregate returns, merged or not, is a well-formed       *)
(* ordered sketch, of exactly the offered hashes below its theta if it is  *)
(* a build or a union, and says it is empty when it should be and never    *)
(* else (handle_serialize as TERMINATE, the two merges, theta_union and    *)
(* theta_intersection update and get_result).                              *)
THEOREM AggregateSamples == Spec => []ValueIsSample
<1>1. IInv => ValueIsSample
  <2>1. ASSUME IInv, NEW s \in States, Final(s), rows[s] # {}
        PROVE  /\ IsSketch(blob[s], MaxTheta) /\ blob[s].isOrdered
               /\ kind # "intersection" =>
                    Keys(blob[s]) = Below(Offered(s), blob[s].theta)
               /\ EmptyOK(kind, blob[s].isEmpty, rows[s])
    <3>1. /\ ValueOK(kind, blob[s], rows[s]) /\ blob[s].isOrdered
          /\ Offered(s) = HashesOf(kind, rows[s])
      BY <2>1, FinalFacts
    <3> QED
      BY <3>1 DEF ValueOK, Represents, Shares
  <2> QED
    BY <2>1 DEF ValueIsSample, EmptyOK
<1> QED
  BY <1>1, AggregateInvariance, PTL

(* An intersection aggregate returns the hashes of every row below the     *)
(* least theta, for every split and merge tree (intersection_merge,        *)
(* theta_intersection::update).                                            *)
THEOREM AggregateIntersects == Spec => []IntersectionOfRows
<1>1. IInv => IntersectionOfRows
  <2>1. SUFFICES ASSUME IInv, kind = "intersection",
                        NEW s \in States, Final(s), rows[s] # {},
                        NEW common,
                        common = {h \in UNION {Keys(r) : r \in rows[s]} :
                                    \A r \in rows[s] : h \in Keys(r)}
                 PROVE  /\ Keys(blob[s]) = Below(common, LeastTheta(s))
                        /\ ~blob[s].isEmpty => blob[s].theta = LeastTheta(s)
    BY DEF IntersectionOfRows
  <2>2. common = CommonOf(rows[s])
    BY <2>1 DEF CommonOf
  <2>3. /\ ValueOK(kind, blob[s], rows[s])
        /\ LeastTheta(s) = LeastOf(kind, rows[s])
    BY <2>1, FinalFacts
  <2> QED
    BY <2>1, <2>2, <2>3 DEF ValueOK, Shares
<1> QED
  BY <1>1, AggregateInvariance, PTL

-----------------------------------------------------------------------------
(* f holds the update sketch after each of the first m rows of q: what the *)
(* recursion of Built asks.                                                *)
Offerings(f, q, m) ==
  f = [n \in 0 .. m |-> IF n = 0 THEN NewUpdateSketch ELSE Offer(f[n - 1], q[n])]

(* One more row. *)
LEMMA OfferingsGrow ==
  ASSUME NEW q, NEW m \in Nat, NEW f, Offerings(f, q, m)
  PROVE  Offerings([n \in 0 .. m + 1 |-> IF n <= m THEN f[n] ELSE Offer(f[m], q[m + 1])],
                   q, m + 1)
<1> DEFINE g == [n \in 0 .. m + 1 |-> IF n <= m THEN f[n] ELSE Offer(f[m], q[m + 1])]
           h == [n \in 0 .. m + 1 |-> IF n = 0 THEN NewUpdateSketch
                                      ELSE Offer(g[n - 1], q[n])]
<1>1. \A n \in 0 .. m : f[n] = IF n = 0 THEN NewUpdateSketch ELSE Offer(f[n - 1], q[n])
  BY DEF Offerings
<1>2. ASSUME NEW n \in 0 .. m + 1 PROVE g[n] = h[n]
  <2>1. CASE n = 0
    BY <2>1, <1>1
  <2>2. CASE n # 0 /\ n <= m
    <3>1. n \in 0 .. m /\ n - 1 \in 0 .. m + 1 /\ n - 1 <= m
      BY <2>2
    <3>2. g[n] = f[n] /\ g[n - 1] = f[n - 1] /\ h[n] = Offer(g[n - 1], q[n])
      BY <2>2, <3>1
    <3> QED
      BY <3>1, <3>2, <1>1, <2>2
  <2>3. CASE ~(n <= m)
    <3>1. n = m + 1 /\ n - 1 = m /\ n # 0 /\ m \in 0 .. m + 1
      BY <2>3
    <3>2. /\ g[n] = Offer(f[m], q[m + 1]) /\ g[m] = f[m]
          /\ h[n] = Offer(g[n - 1], q[n])
      BY <2>3, <3>1
    <3> QED
      BY <3>1, <3>2
  <2> QED
    BY <2>1, <2>2, <2>3
<1>3. g = h
  BY <1>2
<1> HIDE DEF g
<1> QED
  BY <1>3 DEF Offerings, g

(* Any number of rows can be offered. *)
LEMMA OfferingsExist ==
  ASSUME NEW q, NEW m \in Nat
  PROVE  \E f : Offerings(f, q, m)
<1> DEFINE Failing == {k \in Nat : ~\E f : Offerings(f, q, k)}
<1>1. SUFFICES ASSUME Failing # {} PROVE FALSE
  OBVIOUS
<1>2. PICK k \in Failing : \A j \in Failing : k <= j
  BY <1>1, Least
<1>3. CASE k = 0
  <2> DEFINE f == [n \in 0 .. 0 |-> NewUpdateSketch]
             g == [n \in 0 .. 0 |-> IF n = 0 THEN NewUpdateSketch
                                    ELSE Offer(f[n - 1], q[n])]
  <2>1. \A n \in 0 .. 0 : f[n] = g[n]
    OBVIOUS
  <2>2. f = g
    BY <2>1
  <2>3. Offerings(f, q, 0)
    BY <2>2 DEF Offerings
  <2> QED
    BY <2>3, <1>3
<1>4. CASE k # 0
  <2>1. k - 1 \in Nat /\ k - 1 \notin Failing /\ k = (k - 1) + 1
    BY <1>2, <1>4
  <2>2. PICK f : Offerings(f, q, k - 1)
    BY <2>1
  <2>3. \E g : Offerings(g, q, (k - 1) + 1)
    BY <2>1, <2>2, OfferingsGrow
  <2> QED
    BY <2>1, <2>3
<1> QED
  BY <1>3, <1>4

(* The rows q, all offered, are what the table was built from. *)
LEMMA OfferingsBuild ==
  ASSUME NEW q \in Seq(Nat \ {0}), NEW f, Offerings(f, q, Len(q))
  PROVE  /\ Builds(f[Len(q)], KeysOf(q)) /\ HashSet(KeysOf(q))
         /\ q # <<>> => f[Len(q)].isEmpty = FALSE
<1> DEFINE Upto(n) == {q[i] : i \in 1 .. n}
           Right(n) == /\ Builds(f[n], Upto(n)) /\ HashSet(Upto(n))
                       /\ n # 0 => f[n].isEmpty = FALSE
           Failing == {n \in Nat : n <= Len(q) /\ ~Right(n)}
<1>1. /\ Len(q) \in Nat /\ DOMAIN q = 1 .. Len(q)
      /\ \A i \in 1 .. Len(q) : q[i] \in Nat /\ q[i] # 0
  OBVIOUS
<1>2. \A n \in 0 .. Len(q) : f[n] = IF n = 0 THEN NewUpdateSketch
                                    ELSE Offer(f[n - 1], q[n])
  BY DEF Offerings
<1>3. Right(0)
  <2>1. f[0] = NewUpdateSketch /\ Upto(0) = {}
    BY <1>1, <1>2
  <2>2. HashSet({})
    BY FS_EmptySet DEF HashSet
  <2> HIDE DEF Upto
  <2> QED
    BY <2>1, <2>2, NewUnites
<1>4. ASSUME NEW n \in 1 .. Len(q), Right(n - 1) PROVE Right(n)
  <2>1. n # 0 /\ n \in 0 .. Len(q) /\ n - 1 \in Nat /\ q[n] \in Nat /\ q[n] # 0
    BY <1>1
  <2>2. f[n] = Offer(f[n - 1], q[n])
    BY <1>2, <2>1
  <2>3. Upto(n) = Upto(n - 1) \cup {q[n]}
    <3>1. \A i : i \in 1 .. n <=> (i \in 1 .. n - 1 \/ i = n)
      BY <2>1
    <3> QED
      BY <3>1
  <2> HIDE DEF Upto
  <2>4. PICK t, S, A, h : t = f[n - 1] /\ S = Upto(n - 1) /\ A = Upto(n) /\ h = q[n]
    OBVIOUS
  <2>5. A = S \cup ({h} \ {0}) /\ h \in Nat /\ HashSet(S) /\ Builds(t, S)
    BY <1>4, <2>1, <2>3, <2>4
  <2>6. Builds(Offer(t, h), A) /\ Offer(t, h).isEmpty = FALSE
    BY <2>5, OfferBuilds
  <2>7. HashSet(A)
    <3>1. A = S \cup {h} /\ h # 0
      BY <2>1, <2>3, <2>4
    <3>2. IsFiniteSet(S)
      BY <2>5 DEF HashSet
    <3>3. IsFiniteSet(S \cup {h})
      BY <3>2, FS_AddElement
    <3> QED
      BY <2>5, <3>1, <3>3 DEF HashSet
  <2> QED
    BY <2>2, <2>4, <2>6, <2>7
<1> HIDE DEF Right
<1>5. Right(Len(q))
  <2>1. SUFFICES ASSUME Failing # {} PROVE FALSE
    BY <1>1
  <2>2. PICK n \in Failing : \A k \in Failing : n <= k
    BY <2>1, Least
  <2>3. n # 0
    BY <1>3, <2>2
  <2>4. n - 1 \in Nat /\ n - 1 \notin Failing /\ n - 1 <= Len(q) /\ n \in 1 .. Len(q)
    BY <1>1, <2>2, <2>3
  <2>5. Right(n - 1)
    BY <2>4
  <2> QED
    BY <1>4, <2>2, <2>4, <2>5
<1>6. Upto(Len(q)) = KeysOf(q)
  BY <1>1 DEF KeysOf
<1>7. q # <<>> => Len(q) # 0
  OBVIOUS
<1> QED
  BY <1>5, <1>6, <1>7 DEF Right

-----------------------------------------------------------------------------
(* The ordered sketch b is a sample of the hashes H. *)
Samples(b, H) ==
  /\ IsSketch(b, MaxTheta) /\ b.isOrdered
  /\ Keys(b) = Below(H, b.theta)
  /\ b.isEmpty => H = {}

(* A value a function may be given. *)
ArgumentOK(v) ==
  /\ v.hashes \in SUBSET (1 .. MaxTheta - 1)
  /\ IF IsNull(v) THEN v.hashes = {} ELSE Samples(v.blob, v.hashes)

(* A value a function has returned. *)
ReturnOK(v) ==
  /\ v.hashes \in SUBSET (1 .. MaxTheta - 1)
  /\ ~IsNull(v) /\ Samples(v.blob, v.hashes)

(* The inductive invariant of the scalar functions. *)
StoredOK == \A v \in stored : ReturnOK(v)

(* What a build aggregate returns. *)
LEMMA BuiltIs ==
  ASSUME NEW q \in Seq(Nat \ {0}), q # <<>>
  PROVE  Shaped(Built(q)) /\ Samples(Built(q), KeysOf(q))
<1>1. PICK k \in Nat : k = Len(q)
  OBVIOUS
<1>2. PICK f : f = CHOOSE g : Offerings(g, q, k)
  OBVIOUS
<1>3. PICK t, v, w : t = f[k] /\ v = AsSketch(t) /\ w = CompactCopy(v, TRUE)
  OBVIOUS
<1>4. Built(q) = w
  BY <1>1, <1>2, <1>3 DEF Built, Offerings
<1>5. Offerings(f, q, k)
  BY <1>2, OfferingsExist
<1>6. Builds(t, KeysOf(q)) /\ HashSet(KeysOf(q)) /\ t.isEmpty = FALSE
  BY <1>1, <1>3, <1>5, OfferingsBuild
<1>7. Represents(v, KeysOf(q), MaxTheta) /\ Shaped(v) /\ ~v.isEmpty
  BY <1>3, <1>6, BuiltSketch
<1>8. IsSketch(v, MaxTheta) /\ Keys(v) = Below(KeysOf(q), v.theta)
  BY <1>7 DEF Represents
<1>9. PICK b \in BOOLEAN : b = TRUE
  OBVIOUS
<1>10. /\ IsSketch(CompactCopy(v, b), MaxTheta) /\ Keys(CompactCopy(v, b)) = Keys(v)
       /\ CompactCopy(v, b).theta = v.theta /\ CompactCopy(v, b).isEmpty = v.isEmpty
       /\ b => CompactCopy(v, b).isOrdered
       /\ Shaped(CompactCopy(v, b))
  BY <1>8, CopyIs, Constants
<1> QED
  BY <1>3, <1>4, <1>7, <1>8, <1>9, <1>10 DEF Samples

(* The values of build aggregates. *)
LEMMA BuildResultsOK ==
  ASSUME NEW v \in BuildResults
  PROVE  ArgumentOK(v)
<1>1. PICK q \in RowOrders : v = Value(Built(q), {q[k] : k \in DOMAIN q})
  BY DEF BuildResults
<1>2. PICK n \in Nat : q \in [1 .. n -> Hashes]
  BY <1>1 DEF RowOrders
<1>3. /\ q \in Seq(Nat \ {0}) /\ KeysOf(q) \in SUBSET (1 .. MaxTheta - 1)
      /\ DOMAIN q = 1 .. n
  <2>1. Hashes \in SUBSET (1 .. MaxTheta - 1)
    BY ScalarAssumption DEF ScalarAssumption
  <2>2. Hashes \in SUBSET (Nat \ {0})
    BY <2>1, Constants
  <2>3. DOMAIN q = 1 .. n /\ \A i \in 1 .. n : q[i] \in Hashes
    BY <1>2
  <2>4. q \in [1 .. n -> Nat \ {0}]
    BY <1>2, <2>2
  <2>5. q \in Seq(Nat \ {0})
    BY <2>4
  <2>6. KeysOf(q) \in SUBSET (1 .. MaxTheta - 1)
    BY <2>1, <2>3 DEF KeysOf
  <2> QED
    BY <2>3, <2>5, <2>6
<1>4. v.blob = Built(q) /\ v.hashes = KeysOf(q)
  BY <1>1 DEF Value, KeysOf
<1>5. CASE q = <<>>
  <2>1. v.blob = EmptyString
    BY <1>4, <1>5 DEF Built
  <2>2. DOMAIN <<>> = {}
    OBVIOUS
  <2>3. KeysOf(q) = {}
    BY <1>5, <2>2 DEF KeysOf
  <2> QED
    BY <1>3, <1>4, <2>1, <2>3 DEF ArgumentOK, IsNull
<1>6. CASE q # <<>>
  <2>1. Shaped(Built(q)) /\ Samples(Built(q), KeysOf(q))
    BY <1>3, <1>6, BuiltIs
  <2> QED
    BY <1>3, <1>4, <2>1, ShapedIsNoString DEF ArgumentOK, IsNull
<1> QED
  BY <1>5, <1>6

(* Every argument a function may be given. *)
LEMMA ArgumentsOK ==
  ASSUME StoredOK, NEW v \in BuildResults \cup stored
  PROVE  ArgumentOK(v)
<1>1. v \in stored => ReturnOK(v)
  BY DEF StoredOK
<1> QED
  BY <1>1, BuildResultsOK DEF ReturnOK, ArgumentOK

-----------------------------------------------------------------------------
(* Of a sample, the hashes below a lesser theta are those of the hashes it *)
(* stands for.                                                             *)
LEMMA SampleFacts ==
  ASSUME NEW b, NEW H \in SUBSET (1 .. MaxTheta - 1), Samples(b, H)
  PROVE  /\ IsSketch(b, MaxTheta) /\ b.theta \in 1 .. MaxTheta /\ b.theta \in Nat
         /\ HashSet(Keys(b)) /\ HashSet(H)
         /\ Represents(b, Keys(b), b.theta) /\ Shares(b, H, b.theta)
         /\ \A p \in Nat : p <= b.theta => Below(Keys(b), p) = Below(H, p)
         /\ b.theta = MaxTheta => Keys(b) = H
<1>1. IsSketch(b, MaxTheta) /\ Keys(b) = Below(H, b.theta) /\ (b.isEmpty => H = {})
  BY DEF Samples
<1>2. /\ HashSet(Keys(b)) /\ b.theta \in 1 .. MaxTheta /\ b.theta \in Nat
      /\ MaxTheta \in Nat
  BY <1>1, KeysAreHashes, Constants
<1>3. H \in SUBSET Nat /\ 0 \notin H /\ \A h \in H : h <= MaxTheta /\ h < MaxTheta
  BY <1>2
<1>4. HashSet(H)
  BY <1>2, <1>3, FS_BoundedSetOfNaturals DEF HashSet
<1>5. Represents(b, Keys(b), b.theta)
  <2>1. PICK k : k # "build" /\ RowSet(k, {b})
    <3>1. "union" # "build" /\ RowSet("union", {b})
      BY <1>1, FS_Singleton DEF RowSet
    <3> QED
      BY <3>1
  <2> QED
    BY <2>1, RowAlone
<1>6. Shares(b, H, b.theta)
  BY <1>1 DEF Shares
<1>7. ASSUME NEW p \in Nat, p <= b.theta PROVE Below(Keys(b), p) = Below(H, p)
  <2>1. \A h \in H : h < p => h < b.theta
    BY <1>2, <1>3, <1>7
  <2> QED
    BY <1>1, <2>1 DEF Below
<1>8. b.theta = MaxTheta => Keys(b) = H
  BY <1>1, <1>3 DEF Below
<1> QED
  BY <1>1, <1>2, <1>4, <1>5, <1>6, <1>7, <1>8

(* A union given values that stand for S, of which it knows K: all below   *)
(* the least theta m.                                                      *)
UnitesSample(u, K, H, m) ==
  /\ Unites(u, K, m) /\ HashSet(K) /\ m \in 1 .. MaxTheta
  /\ H \in SUBSET (1 .. MaxTheta - 1)
  /\ Below(K, m) = Below(H, m)
  /\ m = MaxTheta => K = H

(* One argument of the union function. *)
LEMMA UnionTakes ==
  ASSUME NEW u, NEW K, NEW H, NEW m, UnitesSample(u, K, H, m),
         NEW v, ArgumentOK(v), NEW G, G = H \cup v.hashes
  PROVE  \E L, n : UnitesSample(UnionWith(u, v), L, G, n)
<1>1. CASE IsNull(v)
  <2>1. UnionWith(u, v) = u /\ G = H
    BY <1>1 DEF UnionWith, ArgumentOK
  <2> QED
    BY <2>1
<1>2. CASE ~IsNull(v)
  <2>1. PICK b, J, L, n : /\ b = v.blob /\ J = v.hashes /\ L = K \cup Keys(b)
                          /\ n = MinOf(m, b.theta)
    OBVIOUS
  <2>2. Samples(b, J) /\ J \in SUBSET (1 .. MaxTheta - 1)
    BY <1>2, <2>1 DEF ArgumentOK
  <2>3. /\ HashSet(Keys(b)) /\ Represents(b, Keys(b), b.theta)
        /\ b.theta \in 1 .. MaxTheta /\ b.theta \in Nat
        /\ \A p \in Nat : p <= b.theta => Below(Keys(b), p) = Below(J, p)
        /\ b.theta = MaxTheta => Keys(b) = J
    BY <2>2, SampleFacts
  <2>4. /\ Unites(u, K, m) /\ HashSet(K) /\ m \in 1 .. MaxTheta
        /\ H \in SUBSET (1 .. MaxTheta - 1)
        /\ Below(K, m) = Below(H, m) /\ (m = MaxTheta => K = H)
    BY DEF UnitesSample
  <2>5. UnionWith(u, v) = UnionUpdate(u, b)
    BY <1>2, <2>1 DEF UnionWith
  <2>6. Unites(UnionUpdate(u, b), L, n)
    BY <2>1, <2>3, <2>4, UpdateUnites
  <2>7. HashSet(L)
    BY <2>1, <2>3, <2>4, FS_Union DEF HashSet
  <2>8. /\ n \in Nat /\ n <= m /\ n <= b.theta /\ n \in 1 .. MaxTheta /\ m \in Nat
        /\ n = MaxTheta => m = MaxTheta /\ b.theta = MaxTheta
    BY <2>1, <2>3, <2>4, Constants DEF MinOf
  <2>9. Below(L, n) = Below(G, n)
    <3>1. Below(K, n) = Below(H, n)
      <4>1. K \in SUBSET Nat /\ H \in SUBSET Nat
        BY <2>4, Constants DEF HashSet
      <4> QED
        BY <2>4, <2>8, <4>1, BelowNarrow
    <3>2. Below(Keys(b), n) = Below(J, n)
      BY <2>3, <2>8
    <3>3. Below(L, n) = Below(K, n) \cup Below(Keys(b), n)
      BY <2>1 DEF Below
    <3>4. Below(G, n) = Below(H, n) \cup Below(J, n)
      BY <2>1 DEF Below
    <3> QED
      BY <3>1, <3>2, <3>3, <3>4
  <2>10. n = MaxTheta => L = G
    BY <2>1, <2>3, <2>4, <2>8
  <2>11. G \in SUBSET (1 .. MaxTheta - 1)
    BY <2>1, <2>2, <2>4
  <2> QED
    BY <2>5, <2>6, <2>7, <2>8, <2>9, <2>10, <2>11 DEF UnitesSample
<1> QED
  BY <1>1, <1>2

(* What the union function returns. *)
LEMMA UnionReturns ==
  ASSUME NEW l, ArgumentOK(l), NEW r, ArgumentOK(r),
         NEW H, H = l.hashes \cup r.hashes,
         NEW b, b = UnionResult(UnionWith(UnionWith(NewUnion, l), r))
  PROVE  Shaped(b) /\ Samples(b, H)
<1>1. PICK u, E, x, y : /\ u = NewUnion /\ E = {} /\ x = UnionWith(u, l)
                        /\ y = UnionWith(x, r)
  OBVIOUS
<1>2. UnitesSample(u, E, E, MaxTheta)
  <2>1. Unites(u, E, MaxTheta) /\ HashSet(E) /\ MaxTheta \in 1 .. MaxTheta
    BY <1>1, NewUnites, Constants, FS_EmptySet DEF HashSet
  <2> QED
    BY <1>1, <2>1 DEF UnitesSample
<1>3. PICK G : G = l.hashes
  OBVIOUS
<1>4. G = E \cup l.hashes /\ H = G \cup r.hashes
  BY <1>1, <1>3
<1>5. \E K, m : UnitesSample(x, K, G, m)
  BY <1>1, <1>2, <1>4, UnionTakes
<1>6. \E K, m : UnitesSample(y, K, H, m)
  BY <1>1, <1>4, <1>5, UnionTakes
<1>7. PICK K, m : UnitesSample(y, K, H, m)
  BY <1>6
<1>8. /\ Unites(y, K, m) /\ HashSet(K) /\ m \in 1 .. MaxTheta /\ m \in Nat
      /\ H \in SUBSET (1 .. MaxTheta - 1)
      /\ Below(K, m) = Below(H, m) /\ (m = MaxTheta => K = H)
  BY <1>7, Constants DEF UnitesSample
<1>9. b = UnionResult(y)
  BY <1>1
<1>10. Represents(b, K, m) /\ Shaped(b) /\ b.isOrdered
  BY <1>8, <1>9, ResultUnites
<1>11. /\ IsSketch(b, MaxTheta) /\ Keys(b) = Below(K, b.theta)
       /\ b.theta \in Nat /\ b.theta <= m /\ (b.isEmpty => K = {} /\ m = MaxTheta)
  BY <1>10, Constants DEF Represents, Lowered
<1>12. Below(K, b.theta) = Below(H, b.theta)
  <2>1. K \in SUBSET Nat /\ H \in SUBSET Nat
    BY <1>8, Constants DEF HashSet
  <2> QED
    BY <1>8, <1>11, <2>1, BelowNarrow
<1> QED
  BY <1>8, <1>10, <1>11, <1>12 DEF Samples

-----------------------------------------------------------------------------
(* What the intersection function returns, of arguments that are not both  *)
(* NULL.                                                                   *)
LEMMA IntersectionReturns ==
  ASSUME NEW l, ArgumentOK(l), NEW r, ArgumentOK(r), ~(IsNull(l) /\ IsNull(r)),
         NEW H, H = IF IsNull(l) THEN r.hashes
                    ELSE IF IsNull(r) THEN l.hashes ELSE l.hashes \cap r.hashes,
         NEW b, b = InterResult(InterWith(InterWith(NewIntersection, l), r))
  PROVE  Shaped(b) /\ Samples(b, H) /\ H \in SUBSET (1 .. MaxTheta - 1)
<1>1. ASSUME NEW x, NEW C \in SUBSET (1 .. MaxTheta - 1), NEW m \in 1 .. MaxTheta,
             Intersects(x, C, m), NEW c, c = InterResult(x)
      PROVE  Shaped(c) /\ Samples(c, C)
  <2>1. Shares(c, C, m) /\ Shaped(c) /\ c.isOrdered
    BY <1>1, ResultIntersects
  <2>2. IsSketch(c, MaxTheta) /\ c.isEmpty \in BOOLEAN
    BY <2>1, SharesFacts
  <2>3. Keys(c) = Below(C, c.theta)
    <3>1. CASE c.isEmpty
      BY <2>1, <3>1 DEF Shares, Below
    <3>2. CASE ~c.isEmpty
      BY <2>1, <3>2 DEF Shares
    <3> QED
      BY <3>1, <3>2
  <2> QED
    BY <2>1, <2>2, <2>3 DEF Samples, Shares
<1>2. PICK x, y : /\ x = InterWith(NewIntersection, l)
                  /\ y = InterWith(x, r)
  OBVIOUS
<1>3. ASSUME NEW v, ArgumentOK(v), ~IsNull(v)
      PROVE  /\ v.hashes \in SUBSET (1 .. MaxTheta - 1)
             /\ Shares(v.blob, v.hashes, v.blob.theta)
             /\ v.blob.theta \in 1 .. MaxTheta
  BY <1>3, SampleFacts DEF ArgumentOK
<1>4. CASE IsNull(l)
  <2>1. x = NewIntersection /\ y = InterUpdate(NewIntersection, r.blob) /\ H = r.hashes
    BY <1>2, <1>4 DEF InterWith
  <2>2. Intersects(y, H, r.blob.theta)
    BY <1>3, <1>4, <2>1, FirstIntersects
  <2> QED
    BY <1>1, <1>2, <1>3, <1>4, <2>1, <2>2
<1>5. CASE ~IsNull(l) /\ IsNull(r)
  <2>1. y = x /\ x = InterUpdate(NewIntersection, l.blob) /\ H = l.hashes
    BY <1>2, <1>5 DEF InterWith
  <2>2. Intersects(y, H, l.blob.theta)
    BY <1>3, <1>5, <2>1, FirstIntersects
  <2> QED
    BY <1>1, <1>2, <1>3, <1>5, <2>1, <2>2
<1>6. CASE ~IsNull(l) /\ ~IsNull(r)
  <2>1. PICK C, D, m, n, a, c : /\ C = l.hashes /\ D = r.hashes
                                /\ m = l.blob.theta /\ n = r.blob.theta
                                /\ a = l.blob /\ c = r.blob
    OBVIOUS
  <2>2. /\ x = InterUpdate(NewIntersection, a) /\ y = InterUpdate(x, c)
        /\ H = C \cap D
    BY <1>2, <1>6, <2>1 DEF InterWith
  <2>3. /\ C \in SUBSET (1 .. MaxTheta - 1) /\ D \in SUBSET (1 .. MaxTheta - 1)
        /\ m \in 1 .. MaxTheta /\ n \in 1 .. MaxTheta
        /\ Shares(a, C, m) /\ Shares(c, D, n)
    BY <1>3, <1>6, <2>1
  <2>4. Intersects(x, C, m)
    BY <2>2, <2>3, FirstIntersects
  <2>5. Intersects(y, H, MinOf(m, n))
    BY <2>2, <2>3, <2>4, UpdateIntersects
  <2>6. MinOf(m, n) \in 1 .. MaxTheta /\ H \in SUBSET (1 .. MaxTheta - 1)
    BY <2>2, <2>3 DEF MinOf
  <2> QED
    BY <1>1, <1>2, <2>5, <2>6
<1> QED
  BY <1>4, <1>5, <1>6

(* What the difference function returns. *)
LEMMA DifferenceReturns ==
  ASSUME NEW a, NEW A \in SUBSET (1 .. MaxTheta - 1), Samples(a, A),
         NEW c, NEW C \in SUBSET (1 .. MaxTheta - 1), Samples(c, C),
         NEW b, b = Difference(a, c)
  PROVE  Shaped(b) /\ Samples(b, A \ C)
<1>1. PICK theta, H : theta = MinOf(a.theta, c.theta) /\ H = A \ C
  OBVIOUS
<1>2. /\ IsSketch(a, MaxTheta) /\ IsSketch(c, MaxTheta)
      /\ Keys(a) = Below(A, a.theta) /\ Keys(c) = Below(C, c.theta)
      /\ (a.isEmpty => A = {}) /\ (c.isEmpty => C = {}) /\ a.isOrdered
  BY DEF Samples
<1>3. /\ a.theta \in 1 .. MaxTheta /\ c.theta \in 1 .. MaxTheta
      /\ a.theta \in Nat /\ c.theta \in Nat /\ MaxTheta \in Nat
  BY <1>2, KeysAreHashes, Constants
<1>4. /\ theta \in 1 .. MaxTheta /\ theta \in Nat /\ theta <= a.theta /\ theta <= c.theta
  BY <1>1, <1>3 DEF MinOf
<1>5. PICK yes \in BOOLEAN : yes = TRUE
  OBVIOUS
<1>6. CASE ReturnsA(a, c)
  <2>1. /\ IsSketch(CompactCopy(a, yes), MaxTheta) /\ Keys(CompactCopy(a, yes)) = Keys(a)
        /\ CompactCopy(a, yes).theta = a.theta
        /\ CompactCopy(a, yes).isEmpty = a.isEmpty
        /\ yes => CompactCopy(a, yes).isOrdered
        /\ Shaped(CompactCopy(a, yes))
    BY <1>2, CopyIs, Constants
  <2>2. b = CompactCopy(a, yes)
    BY <1>5, <1>6 DEF Difference
  <2>3. A \ C = A
    BY <1>2, <1>6 DEF ReturnsA
  <2> QED
    BY <1>2, <1>5, <2>1, <2>2, <2>3 DEF Samples
<1>7. CASE ~ReturnsA(a, c)
  <2>1. PICK t, kept : t = TableOf(c, theta) /\ kept = Remaining(a, c, t, theta)
    OBVIOUS
  <2>2. b = Finish(a, yes, theta, kept, MaxTheta)
    BY <1>1, <1>5, <1>7, <2>1 DEF Difference
  <2>3. Tabled(c, theta, t)
    BY <1>2, <1>3, <1>4, <2>1, TableOfIs
  <2>4. LeftOver(a, c, theta, kept)
    BY <1>2, <1>3, <1>4, <2>1, <2>3, RemainingIs
  <2>5. /\ kept \in Seq(Nat) /\ Distinct(kept) /\ (a.isOrdered => Ascending(kept))
        /\ KeysOf(kept) = Below(Keys(a) \ Keys(c), theta)
    BY <2>4 DEF LeftOver
  <2>6. KeysOf(kept) = Below(H, theta)
    <3>1. \A h \in Nat : h < theta => h < a.theta /\ h < c.theta
      BY <1>3, <1>4
    <3>2. A \in SUBSET Nat /\ C \in SUBSET Nat
      BY Constants
    <3> QED
      BY <1>1, <1>2, <2>5, <3>1, <3>2 DEF Below
  <2>7. ~a.isEmpty
    BY <1>7 DEF ReturnsA
  <2>8. \A h \in KeysOf(kept) : 0 < h /\ h < theta
    <3>1. \A h \in H : 0 < h
      BY <1>1, <1>3
    <3> QED
      BY <2>6, <3>1 DEF Below
  <2>9. Finished(Finish(a, yes, theta, kept, MaxTheta), yes, theta, kept, MaxTheta)
    BY <1>2, <1>3, <1>4, <2>5, <2>7, <2>8, FinishIs
  <2>10. Finished(b, yes, theta, kept, MaxTheta)
    BY <2>2, <2>9
  <2>11. /\ IsSketch(b, MaxTheta) /\ Keys(b) = KeysOf(kept) /\ b.theta = theta
         /\ (b.isEmpty <=> kept = <<>> /\ theta = MaxTheta)
         /\ b.isOrdered /\ Shaped(b)
    BY <1>5, <2>10 DEF Finished
  <2>12. b.isEmpty => H = {}
    <3>1. kept = <<>> => KeysOf(kept) = {}
      <4>1. DOMAIN <<>> = {}
        OBVIOUS
      <4> QED
        BY <4>1 DEF KeysOf
    <3>2. \A h \in H : h < MaxTheta
      BY <1>1, Constants
    <3> QED
      BY <2>6, <2>11, <3>1, <3>2 DEF Below
  <2> QED
    BY <1>1, <2>6, <2>11, <2>12 DEF Samples
<1> QED
  BY <1>6, <1>7

-----------------------------------------------------------------------------
(* The value a call stores is right. *)
LEMMA ValueReturned ==
  ASSUME NEW b, NEW H \in SUBSET (1 .. MaxTheta - 1), Shaped(b), Samples(b, H)
  PROVE  ReturnOK(Value(b, H))
<1>1. PICK v : v = Value(b, H)
  OBVIOUS
<1>2. v.blob = b /\ v.hashes = H
  BY <1>1 DEF Value
<1>3. b # EmptyString
  BY ShapedIsNoString
<1> QED
  BY <1>1, <1>2, <1>3 DEF ReturnOK, IsNull

(* An intersection that was given a sketch is valid. *)
LEMMA ValidOnceGiven ==
  ASSUME NEW l, NEW r
  PROVE  InterWith(InterWith(NewIntersection, l), r).isValid <=>
           ~(IsNull(l) /\ IsNull(r))
<1>1. NewIntersection.isValid = FALSE /\ NewIntersection.table.isEmpty = FALSE
  BY DEF NewIntersection, NewTable
<1>2. ASSUME NEW s, NEW x, x = InterUpdate(NewIntersection, s)
      PROVE  x.isValid = TRUE /\ "isValid" \in DOMAIN x
  BY <1>1, <1>2 DEF InterUpdate
<1>3. ASSUME NEW x, NEW s, x.isValid = TRUE, "isValid" \in DOMAIN x
      PROVE  InterUpdate(x, s).isValid = TRUE
  BY <1>3 DEF InterUpdate
<1>4. PICK x, y : x = InterWith(NewIntersection, l) /\ y = InterWith(x, r)
  OBVIOUS
<1>5. CASE IsNull(l)
  <2>1. x = NewIntersection
    BY <1>4, <1>5 DEF InterWith
  <2>2. CASE IsNull(r)
    BY <1>1, <1>4, <1>5, <2>1, <2>2 DEF InterWith
  <2>3. CASE ~IsNull(r)
    <3>1. y = InterUpdate(NewIntersection, r.blob)
      BY <1>4, <2>1, <2>3 DEF InterWith
    <3> QED
      BY <1>2, <1>4, <2>3, <3>1
  <2> QED
    BY <2>2, <2>3
<1>6. CASE ~IsNull(l)
  <2>1. x = InterUpdate(NewIntersection, l.blob)
    BY <1>4, <1>6 DEF InterWith
  <2>2. x.isValid = TRUE /\ "isValid" \in DOMAIN x
    BY <1>2, <2>1
  <2>3. y = x \/ y = InterUpdate(x, r.blob)
    BY <1>4 DEF InterWith
  <2>4. y.isValid = TRUE
    BY <1>3, <2>2, <2>3
  <2> QED
    BY <1>4, <1>6, <2>4
<1> QED
  BY <1>5, <1>6

(* Every call leaves values that are right, and ends the process as the    *)
(* property says.                                                          *)
LEMMA CallKeeps ==
  ASSUME StoredOK, NEW name \in Functions,
         NEW l \in BuildResults \cup stored, NEW r \in BuildResults \cup stored,
         Call(name, l, r)
  PROVE  StoredOK' /\ AbortsOnlyOnNull'
<1>1. ArgumentOK(l) /\ ArgumentOK(r)
  BY ArgumentsOK
<1>2. /\ l.hashes \in SUBSET (1 .. MaxTheta - 1) /\ r.hashes \in SUBSET (1 .. MaxTheta - 1)
      /\ emptyIsNull' = emptyIsNull /\ called' = <<name, l, r>>
  BY <1>1 DEF ArgumentOK, Call
<1>3. ASSUME NEW v, ReturnOK(v), Store(v) PROVE StoredOK'
  BY <1>3 DEF Store, StoredOK
<1>4. ASSUME Abort PROVE StoredOK'
  BY <1>4 DEF Abort, StoredOK
<1>5. PICK nulls : nulls = Cardinality({k \in {2, 3} : IsNull(called'[k])})
  OBVIOUS
<1>6. /\ nulls \in Nat
      /\ nulls > 0 <=> IsNull(l) \/ IsNull(r)
      /\ nulls = 2 <=> IsNull(l) /\ IsNull(r)
  <2>1. {k \in {2, 3} : IsNull(called'[k])} =
          (IF IsNull(l) THEN {2} ELSE {}) \cup (IF IsNull(r) THEN {3} ELSE {})
    BY <1>2
  <2>2. Cardinality({}) = 0 /\ Cardinality({2}) = 1 /\ Cardinality({3}) = 1
    BY FS_EmptySet, FS_Singleton
  <2>3. Cardinality({2} \cup {3}) = 2
    <3>1. PICK two, three : two = 2 /\ three = 3
      OBVIOUS
    <3>2. IsFiniteSet({two}) /\ Cardinality({two}) = 1
      BY FS_Singleton
    <3>3. three \notin {two}
      BY <3>1
    <3>4. Cardinality({two} \cup {three}) = 1 + 1
      BY <3>2, <3>3, FS_AddElement
    <3> QED
      BY <3>1, <3>4
  <2> QED
    BY <1>5, <2>1, <2>2, <2>3
<1>7. AbortsOnlyOnNull' <=>
        (exited' <=> \/ nulls > 0 /\ (~emptyIsNull \/ name = "a_not_b")
                     \/ nulls = 2 /\ name = "intersection")
  BY <1>2, <1>5 DEF AbortsOnlyOnNull
<1>8. CASE name = "union"
  <2>1. SketchUnion(l, r)
    BY <1>8 DEF Call
  <2>2. CASE Rejects(l, r)
    <3>1. Abort
      BY <2>1, <2>2 DEF SketchUnion
    <3>2. exited' = TRUE /\ ~emptyIsNull /\ nulls > 0
      BY <1>6, <2>2, <3>1 DEF Abort, Rejects
    <3> QED
      BY <1>4, <1>7, <3>1, <3>2
  <2>3. CASE ~Rejects(l, r)
    <3>1. PICK H, b : /\ H = l.hashes \cup r.hashes
                      /\ b = UnionResult(UnionWith(UnionWith(NewUnion, l), r))
      OBVIOUS
    <3>2. Store(Value(b, H))
      BY <2>1, <2>3, <3>1 DEF SketchUnion
    <3>3. Shaped(b) /\ Samples(b, H)
      BY <1>1, <3>1, UnionReturns
    <3>4. ReturnOK(Value(b, H))
      BY <1>2, <3>1, <3>3, ValueReturned
    <3>5. exited' = FALSE /\ (emptyIsNull \/ ~(nulls > 0)) /\ name # "a_not_b"
          /\ name # "intersection"
      BY <1>6, <1>8, <2>3, <3>2 DEF Store, Rejects
    <3> QED
      BY <1>3, <1>7, <3>2, <3>4, <3>5
  <2> QED
    BY <2>2, <2>3
<1>9. CASE name = "intersection"
  <2>1. SketchIntersection(l, r)
    BY <1>9 DEF Call
  <2>2. PICK H, last : /\ H = IF IsNull(l) THEN r.hashes
                               ELSE IF IsNull(r) THEN l.hashes
                               ELSE l.hashes \cap r.hashes
                       /\ last = InterWith(InterWith(NewIntersection, l), r)
    OBVIOUS
  <2>3. last.isValid <=> ~(IsNull(l) /\ IsNull(r))
    BY <2>2, ValidOnceGiven
  <2>4. CASE Rejects(l, r) \/ ~last.isValid
    <3>1. Abort
      BY <2>1, <2>2, <2>4 DEF SketchIntersection
    <3>2. exited' = TRUE /\ ((nulls > 0 /\ ~emptyIsNull) \/ nulls = 2)
      BY <1>6, <2>3, <2>4, <3>1 DEF Abort, Rejects
    <3> QED
      BY <1>4, <1>7, <1>9, <3>1, <3>2
  <2>5. CASE ~(Rejects(l, r) \/ ~last.isValid)
    <3>1. PICK b : b = InterResult(last)
      OBVIOUS
    <3>2. Store(Value(b, H))
      BY <2>1, <2>2, <2>5, <3>1 DEF SketchIntersection
    <3>3. Shaped(b) /\ Samples(b, H) /\ H \in SUBSET (1 .. MaxTheta - 1)
      BY <1>1, <2>2, <2>3, <2>5, <3>1, IntersectionReturns
    <3>4. ReturnOK(Value(b, H))
      BY <3>3, ValueReturned
    <3>5. exited' = FALSE /\ (emptyIsNull \/ ~(nulls > 0)) /\ name # "a_not_b"
          /\ ~(nulls = 2)
      BY <1>6, <1>9, <2>3, <2>5, <3>2 DEF Store, Rejects
    <3> QED
      BY <1>3, <1>7, <3>2, <3>4, <3>5
  <2> QED
    BY <2>4, <2>5
<1>10. CASE name = "a_not_b"
  <2>1. SketchANotB(l, r)
    BY <1>10 DEF Call
  <2>2. CASE IsNull(l) \/ IsNull(r)
    <3>1. Abort
      BY <2>1, <2>2 DEF SketchANotB
    <3>2. exited' = TRUE /\ nulls > 0
      BY <1>6, <2>2, <3>1 DEF Abort
    <3> QED
      BY <1>4, <1>7, <1>10, <3>1, <3>2
  <2>3. CASE ~(IsNull(l) \/ IsNull(r))
    <3>1. PICK a, c, A, C, b : /\ a = l.blob /\ c = r.blob /\ A = l.hashes /\ C = r.hashes
                               /\ b = Difference(a, c)
      OBVIOUS
    <3>2. Store(Value(b, A \ C))
      BY <2>1, <2>3, <3>1 DEF SketchANotB
    <3>3. Samples(a, A) /\ Samples(c, C)
      BY <1>1, <2>3, <3>1 DEF ArgumentOK
    <3>4. Shaped(b) /\ Samples(b, A \ C)
      BY <1>2, <3>1, <3>3, DifferenceReturns
    <3>5. ReturnOK(Value(b, A \ C))
      BY <1>2, <3>1, <3>4, ValueReturned
    <3>6. exited' = FALSE /\ ~(nulls > 0) /\ ~(nulls = 2)
      BY <1>6, <2>3, <3>2 DEF Store
    <3> QED
      BY <1>3, <1>7, <3>2, <3>5, <3>6
  <2> QED
    BY <2>2, <2>3
<1> QED
  BY <1>8, <1>9, <1>10 DEF Functions

(* Whatever expression of unions, intersections and differences a query    *)
(* builds, over sketches thinned or not, its value is an ordered sample of *)
(* exactly the hashes the expression denotes (extension_sketch_union,      *)
(* _intersection and _a_not_b).                                            *)
THEOREM ExpressionsAreSamples == ScalarSpec => []ResultsAreSamples
<1>1. ScalarInit => StoredOK
  BY DEF ScalarInit, StoredOK
<1>2. StoredOK /\ [ScalarNext]_scalarVars => StoredOK'
  <2>1. ASSUME StoredOK, ScalarNext PROVE StoredOK'
    BY <2>1, CallKeeps DEF ScalarNext
  <2>2. ASSUME StoredOK, UNCHANGED scalarVars PROVE StoredOK'
    BY <2>2 DEF scalarVars, StoredOK
  <2> QED
    BY <2>1, <2>2
<1>3. StoredOK => ResultsAreSamples
  BY DEF StoredOK, ReturnOK, Samples, ResultsAreSamples
<1> QED
  BY <1>1, <1>2, <1>3, PTL DEF ScalarSpec

(* A call ends the process exactly when no result is defined for NULL      *)
(* (BAIL_IF, theta_intersection::get_result).                              *)
THEOREM OnlyNullAborts == ScalarSpec => []AbortsOnlyOnNull
<1>1. ScalarInit => StoredOK /\ AbortsOnlyOnNull
  BY DEF ScalarInit, StoredOK, AbortsOnlyOnNull
<1>2. StoredOK /\ AbortsOnlyOnNull /\ [ScalarNext]_scalarVars =>
        (StoredOK /\ AbortsOnlyOnNull)'
  <2>1. ASSUME StoredOK, ScalarNext PROVE StoredOK' /\ AbortsOnlyOnNull'
    BY <2>1, CallKeeps DEF ScalarNext
  <2>2. ASSUME StoredOK, AbortsOnlyOnNull, UNCHANGED scalarVars
        PROVE  StoredOK' /\ AbortsOnlyOnNull'
    BY <2>2 DEF scalarVars, StoredOK, AbortsOnlyOnNull
  <2> QED
    BY <2>1, <2>2
<1> QED
  BY <1>1, <1>2, PTL DEF ScalarSpec
=============================================================================
