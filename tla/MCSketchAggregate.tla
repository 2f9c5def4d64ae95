------------------------- MODULE MCSketchAggregate -------------------------
(* Rows and symmetry for SketchAggregate: the partial states of a group are *)
(* interchangeable.  The rows of the set aggregates are sketches of hashes    *)
(* 1 .. MaxHash whose theta is one of the Thetas, besides the empty string. *)
EXTENDS SketchAggregate, TLC

CONSTANTS MaxHash, Thetas

StateSymmetry == Permutations(States)

MCSketchRows ==
  {NullRow, MakeSketch(TRUE, TRUE, MaxTheta, <<>>)} \cup
  UNION {{MakeSketch(FALSE, TRUE, p, SortedKeys(S)) :
            S \in {T \in SUBSET (1 .. MaxHash) : \A h \in T : h < p}} : p \in Thetas}

=============================================================================
