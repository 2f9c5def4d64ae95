------------------------ MODULE MCJaccardSimilarity ------------------------
(* Sketches to compare besides those of the queries: all whose hashes are   *)
(* among 1 .. OtherHash and whose theta is one of OtherThetas.              *)
EXTENDS JaccardSimilarity

CONSTANTS OtherHash, OtherThetas

MCOthers ==
  {MakeSketch(TRUE, TRUE, MaxTheta, <<>>)} \cup
  UNION {{MakeSketch(FALSE, TRUE, p, SortedKeys(S)) :
            S \in {T \in SUBSET (1 .. OtherHash) : \A h \in T : h < p}} : p \in OtherThetas}

=============================================================================
