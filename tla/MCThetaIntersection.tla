------------------------ MODULE MCThetaIntersection ------------------------
(* Inputs for ThetaIntersection: the samples of a few small hashes at each  *)
(* of the Thetas, ordered and not; a sketch that retains nothing, empty or  *)
(* not; and Large hashes in a row, which fill a table of 32 slots to more   *)
(* than 15/16.                                                              *)
EXTENDS ThetaIntersection

CONSTANTS MaxHash, Large, Thetas

Row(a, b) == [k \in 1 .. b - a + 1 |-> a + k - 1]

Reversed(q) == [k \in DOMAIN q |-> q[Len(q) + 1 - k]]

AscendingSeq(S) == CHOOSE q \in [1 .. Cardinality(S) -> S] : Ascending(q)

SamplesAt(p) == {S \in SUBSET (1 .. MaxHash) : \A h \in S : h < p}

MCInputs ==
  {MakeSketch(TRUE, TRUE, MaxTheta, <<>>),
   MakeSketch(FALSE, TRUE, MaxTheta, Row(1, Large)),
   MakeSketch(FALSE, FALSE, MaxTheta, Reversed(Row(2, Large + 1))),
   MakeSketch(FALSE, TRUE, MaxTheta - 1, Row(1, Large + 1))} \cup
  UNION {UNION {{MakeSketch(FALSE, TRUE, p, AscendingSeq(S)),
                 MakeSketch(FALSE, FALSE, p, Reversed(AscendingSeq(S)))} :
                S \in SamplesAt(p)} : p \in Thetas}

=============================================================================
