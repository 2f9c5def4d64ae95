---------------------------- MODULE MCThetaUnion ----------------------------
(* Inputs for ThetaUnion: every threshold sample of the hashes 1 .. MaxHash *)
(* with one of the Thetas and up to MaxEntries entries, ascending and       *)
(* marked ordered, or descending and not.                                   *)
EXTENDS ThetaUnion

CONSTANTS MaxHash, MaxEntries, Thetas

AscendingSeq(S) ==
  CHOOSE q \in [1 .. Cardinality(S) -> S] : Ascending(q)

Reversed(q) == [k \in DOMAIN q |-> q[Len(q) + 1 - k]]

SamplesAt(p) ==
  {S \in SUBSET (1 .. MaxHash) : Cardinality(S) <= MaxEntries /\ \A h \in S : h < p}

MCInputs ==
  {NoSketch} \cup
  UNION {UNION {{MakeSketch(FALSE, TRUE, p, AscendingSeq(S)),
                 MakeSketch(FALSE, FALSE, p, Reversed(AscendingSeq(S)))} :
                S \in SamplesAt(p)} : p \in Thetas}

=============================================================================
