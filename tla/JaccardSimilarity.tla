------------------------- MODULE JaccardSimilarity -------------------------
(***************************************************************************)
(* The similarity of two sketches: theta_jaccard_similarity, a composition *)
(* of a union sized for its arguments, an intersection and a ratio of      *)
(* counts.  It keeps no state; it is looked at on the sketches that the    *)
(* queries of ScalarFunctions give each other.  A ratio is a pair of       *)
(* counts; a bound that comes from the binomial approximation is a value   *)
(* of its own.                                                             *)
(***************************************************************************)
EXTENDS ScalarFunctions

LOCAL INSTANCE SequencesExt

CONSTANTS MaxLgK,   \* theta_constants, as MinLgK
          Others    \* sketches of other sizes, compared with each other

Approximate == <<"bounds_binomial_proportions">>
Exit == <<"exit">>
One  == <<1, 1>>
Zero == <<0, 1>>
Half == <<1, 2>>

(* ceiling_power_of_2(): of 0 it wraps around to 0. *)
CeilingPowerOf2(n) ==
  IF n = 0 THEN 0
  ELSE CHOOSE p \in {Pow2(lg) : lg \in 0 .. n} : n <= p /\ p < 2 * n

(* Mutant of UnionLgK: sized for the larger sketch. *)
UnionLgKOfLarger(countA, countB) ==
  LET lg == Log2(CeilingPowerOf2(IF countA > countB THEN countA ELSE countB))
  IN  MinOf(IF lg > MinLgK THEN lg ELSE MinLgK, MaxLgK)

UnionLgK(countA, countB) ==
  LET lg == Log2(CeilingPowerOf2(countA + countB))
  IN  MinOf(IF lg > MinLgK THEN lg ELSE MinLgK, MaxLgK)

(* get_result(false): in slot order, here the reverse of ascending. *)
UnorderedResult(u) ==
  LET r == ResultOf(u.table, u.theta)
  IN  MakeSketch(r.isEmpty, FALSE, r.theta, Reverse(SortedKeys(r.keys)))

(* compute_union() *)
UnionOf(a, b) ==
  LET lg    == UnionLgK(Len(a.entries), Len(b.entries))
      size  == Pow2(StartingSubMultiple(lg + 1, MinLgK, 3))
      start == [table |-> NewTable(size, Pow2(lg), 8, MaxTheta, TRUE), theta |-> MaxTheta]
  IN  UnorderedResult(UnionUpdate(UnionUpdate(start, a), b))

(* identical_sets() *)
IdenticalSets(a, b, u) ==
  \A s \in {a, b} : Len(u.entries) = Len(s.entries) /\ u.theta = s.theta

(* The intersection of both with their union. *)
Common(a, b, u) ==
  LET x == InterUpdate(InterUpdate(InterUpdate(NewIntersection, a), b), u)
  IN  MakeSketch(x.table.isEmpty, FALSE, x.table.theta, Reverse(SortedKeys(x.table.entries)))

(* approximate_lower_bound_on_p() and approximate_upper_bound_on_p(), of k *)
(* successes in n > 0 trials: certain at the ends, approximate between.    *)
LowerBoundOnP(n, k) == IF k = 0 THEN Zero ELSE Approximate
UpperBoundOnP(n, k) == IF k = n THEN One ELSE Approximate

(* Lower bound, estimate and upper bound of |b| / |a|, for a b that is a   *)
(* part of a: by the hashes of a below the theta of b.                     *)
RatioBOverA(a, b) ==
  LET countB == Len(b.entries)
      countA == IF a.theta = b.theta THEN Len(a.entries)
                ELSE Cardinality({k \in DOMAIN a.entries : a.entries[k] < b.theta})
      ratio  == <<countB, countA>>
  IN  CASE b.theta > a.theta -> Exit
        [] countA = 0 -> <<Zero, Half, One>>
        [] countA < countB -> Exit
        [] OTHER -> IF b.theta = MaxTheta THEN <<ratio, ratio, ratio>>
                    ELSE <<LowerBoundOnP(countA, countB), ratio, UpperBoundOnP(countA, countB)>>

(* jaccard(); "one" says that both arguments are the same object. *)
Jaccard(a, b, one) ==
  LET u == UnionOf(a, b)
  IN  CASE one \/ (a.isEmpty /\ b.isEmpty) -> <<One, One, One>>
        [] a.isEmpty # b.isEmpty /\ ~one -> <<Zero, Zero, Zero>>
        [] OTHER -> IF IdenticalSets(a, b, u) THEN <<One, One, One>>
                    ELSE RatioBOverA(u, Common(a, b, u))

(* exactly_equal() *)
ExactlyEqual(a, b, one) ==
  one \/ IF a.isEmpty \/ b.isEmpty THEN a.isEmpty /\ b.isEmpty
         ELSE IdenticalSets(a, b, UnionOf(a, b))

-----------------------------------------------------------------------------
(* What the sketches given to the last call are to each other; before any  *)
(* call, what the Others are.                                              *)
Compared ==
  IF called = <<>> THEN Others \X Others
  ELSE {<<called[2].blob, called[3].blob>>}

(* A pair of counts is the ratio of the sizes of S and T. *)
SameRatio(ratio, S, T) ==
  Len(ratio) = 2 /\ ratio[1] * Cardinality(T) = ratio[2] * Cardinality(S)

(* All hashes of a and b below the lesser theta, and the common ones. *)
Either(a, b) == Below(Keys(a) \cup Keys(b), MinOf(a.theta, b.theta))
Both(a, b)   == Below(Keys(a) \cap Keys(b), MinOf(a.theta, b.theta))

(* The largest union holds them: MAX_LG_K is where its size is capped.     *)
Fits(a, b) == Cardinality(Either(a, b)) <= Pow2(MaxLgK)

(* Both have entries and are exact, and no hash is in both. *)
ExactAndDisjoint(a, b) ==
  /\ a.entries # <<>> /\ b.entries # <<>>
  /\ MinOf(a.theta, b.theta) = MaxTheta /\ Both(a, b) = {}

(* The answers to a and b are the ones the sketches allow. *)
Similar(a, b, one) ==
  LET j      == Jaccard(a, b, one)
      theta  == MinOf(a.theta, b.theta)
      either == Either(a, b)
      both   == Both(a, b)
  IN  /\ ExactlyEqual(a, b, one) <=> a = b
      /\ CASE a = b -> j = <<One, One, One>>
           [] a.isEmpty # b.isEmpty -> j = <<Zero, Zero, Zero>>
           [] a # b /\ a.isEmpty = b.isEmpty /\ either = {} -> j = <<Zero, Half, One>>
           [] OTHER ->
                /\ SameRatio(j[2], both, either)
                /\ theta = MaxTheta \/ both = {} => SameRatio(j[1], both, either)
                /\ theta = MaxTheta \/ both = either => SameRatio(j[3], both, either)

(* No pair of sketches is called exactly equal but if both hold the same   *)
(* hashes up to the same theta, although only counts are compared.  If     *)
(* their hashes fit into the largest union, equal sketches are found to    *)
(* be, the process does not end, and the estimate of the similarity is the *)
(* ratio of the common hashes to all of them below the lesser theta, and   *)
(* so are its bounds where they can be known: the union was sized so as    *)
(* not to thin what it must count.  Past the cap it does thin, nothing is  *)
(* promised of the numbers, and one kind of pair ends the process: exact   *)
(* sketches with nothing in common, whose intersection is empty before the *)
(* union lowers its theta (compute_union, identical_sets, check_thetas;    *)
(* the note on very large pairs at jaccard).                               *)
SimilarityExact ==
  \A pair \in Compared :
    EmptyString \notin {pair[1], pair[2]} =>
      \A one \in {FALSE, pair[1] = pair[2]} :
        LET a == pair[1]
            b == pair[2]
        IN  /\ ExactlyEqual(a, b, one) => a = b
            /\ Fits(a, b) => Similar(a, b, one)
            /\ Jaccard(a, b, one) = Exit <=>
                 ~Fits(a, b) /\ ExactAndDisjoint(a, b)

=============================================================================
