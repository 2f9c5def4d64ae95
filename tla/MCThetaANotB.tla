---------------------------- MODULE MCThetaANotB ----------------------------
(* Operands for ThetaANotB: samples of hashes that share slots, at each of  *)
(* the Thetas, ordered and not, and 15 hashes that start at one slot of 16. *)
EXTENDS ThetaANotB

CONSTANTS SmallHashes, Thetas

Reversed(q) == [k \in DOMAIN q |-> q[Len(q) + 1 - k]]

AscendingSeq(S) == CHOOSE q \in [1 .. Cardinality(S) -> S] : Ascending(q)

Samples(thetas) ==
  UNION {UNION {{MakeSketch(FALSE, TRUE, p, AscendingSeq(S)),
                 MakeSketch(FALSE, FALSE, p, Reversed(AscendingSeq(S)))} :
                S \in {T \in SUBSET SmallHashes : \A h \in T : h < p}} :
         p \in thetas}

EmptySketch == MakeSketch(TRUE, TRUE, MaxTheta, <<>>)

Column == [k \in 1 .. 15 |-> 16 * k + 1]

MCMinuends ==
  Samples(Thetas) \cup
  {EmptySketch, MakeSketch(FALSE, FALSE, MaxTheta, Reversed(Column))}

MCSubtrahends ==
  Samples(Thetas) \cup
  {EmptySketch, MakeSketch(FALSE, TRUE, MaxTheta, Column),
   MakeSketch(FALSE, FALSE, MaxTheta, Reversed(Column))}

=============================================================================
