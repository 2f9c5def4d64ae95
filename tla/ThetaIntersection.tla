------------------------- MODULE ThetaIntersection -------------------------
(***************************************************************************)
(* theta_intersection: the state behind theta_sketch_intersect and the     *)
(* intersection aggregate.  The table is thrown away and built anew by     *)
(* every update, just large enough for what is left, so it must never thin *)
(* itself while it is filled.  update() is one step: nothing it reads      *)
(* changes under its loops.                                                *)
(*                                                                         *)
(* History variables: given (update was called), common (the hashes all    *)
(* inputs retain), minTheta (their least theta), anyEmpty (one was empty). *)
(***************************************************************************)
EXTENDS SetTables

CONSTANTS Inputs,    \* the sketches update() may be given
          MaxTheta

ASSUME IntersectionAssumption ==
  /\ MaxTheta \in Nat \ {0}
  /\ \A s \in Inputs : IsSketch(s, MaxTheta)

VARIABLES table, isValid,             \* the members of theta_intersection_base
          exited,                     \* an error ended the process
          given, common, minTheta, anyEmpty

ghosts == <<given, common, minTheta, anyEmpty>>
vars == <<table, isValid, exited, given, common, minTheta, anyEmpty>>

Init ==
  /\ table = NewTable(1, 1, 1, MaxTheta, FALSE)
  /\ isValid = FALSE /\ exited = FALSE
  /\ given = FALSE /\ common = {} /\ minTheta = MaxTheta /\ anyEmpty = FALSE

(* The head of update(), and its match loop. *)
Screened(s) == ScreenedBy(table, s, MaxTheta)
Matches(s, p) == MatchesIn(table, s, p)

Remember(s) ==
  /\ given' = TRUE
  /\ common' = IF given THEN common \cap Keys(s) ELSE Keys(s)
  /\ minTheta' = MinOf(minTheta, s.theta)
  /\ anyEmpty' = (anyEmpty \/ s.isEmpty)

(* "if (table_.is_empty_) return" *)
UpdateOfEmpty(s) ==
  /\ table.isEmpty
  /\ UNCHANGED <<table, isValid, exited>>

(* "if (is_valid_ && table_.num_entries_ == 0) return" *)
UpdateOfNothing(s) ==
  /\ ~table.isEmpty /\ isValid /\ table.num = 0
  /\ table' = Screened(s)
  /\ UNCHANGED <<isValid, exited>>

Open == ~table.isEmpty /\ ~(isValid /\ table.num = 0)

(* The incoming sketch retains nothing. *)
UpdateByNothing(s) ==
  /\ Open /\ s.entries = <<>>
  /\ table' = NoTable(Screened(s).theta, Screened(s).isEmpty)
  /\ isValid' = TRUE
  /\ UNCHANGED exited

(* The first sketch is copied; a duplicate or a lost key ends the process. *)
FirstUpdate(s) ==
  LET copy == Filled(Screened(s).theta, Screened(s).isEmpty, s.entries)
  IN  /\ Open /\ s.entries # <<>> /\ ~isValid
      /\ table' = copy
      /\ isValid' = TRUE
      /\ exited' = (~Distinct(s.entries) \/ copy.num # Len(s.entries))

(* Mutant of MatchUpdate: a disjoint result is declared empty whatever its *)
(* theta.                                                                  *)
MatchUpdateAlwaysEmpty(s) ==
  LET theta   == Screened(s).theta
      matches == Matches(s, theta)
  IN  /\ Open /\ s.entries # <<>> /\ isValid
      /\ table' = IF matches = <<>> THEN NoTable(theta, TRUE)
                  ELSE Filled(theta, FALSE, matches)
      /\ exited' = (Len(matches) > MinOf(table.num, Len(s.entries)))
      /\ UNCHANGED isValid

(* Later sketches are matched against the table.  An empty match is an     *)
(* empty result only while everything is exact.  The loop counts its keys  *)
(* and exits if they are not as many as the sketch says; here a sketch is  *)
(* a sequence, which has no other count to differ from.                    *)
MatchUpdate(s) ==
  LET theta   == Screened(s).theta
      matches == Matches(s, theta)
  IN  /\ Open /\ s.entries # <<>> /\ isValid
      /\ table' = IF matches = <<>> THEN NoTable(theta, theta = MaxTheta)
                  ELSE Filled(theta, FALSE, matches)
      /\ exited' = (Len(matches) > MinOf(table.num, Len(s.entries)))
      /\ UNCHANGED isValid

(* get_result() of an intersection that was given nothing is an error. *)
GetResult ==
  /\ exited' = ~isValid
  /\ UNCHANGED <<table, isValid, ghosts>>

Update(s) ==
  /\ Remember(s)
  /\ \/ UpdateOfEmpty(s)
     \/ UpdateOfNothing(s)
     \/ UpdateByNothing(s)
     \/ FirstUpdate(s)
     \/ MatchUpdate(s)

Next ==
  /\ ~exited
  /\ \/ \E s \in Inputs : Update(s)
     \/ GetResult

Spec == Init /\ [][Next]_vars

-----------------------------------------------------------------------------
(* Type invariant: a table between operations, as large as it counts. *)
TypeOK ==
  /\ table.isEmpty \in BOOLEAN
  /\ table.theta \in 1 .. MaxTheta
  /\ table.num = Cardinality(table.entries)
  /\ \A h \in table.entries : 0 < h /\ h < table.theta
  /\ isValid \in BOOLEAN /\ exited \in BOOLEAN
  /\ minTheta \in 1 .. MaxTheta

(* The result is the exact intersection of its inputs, seen through the    *)
(* least of their thetas: a hash is retained iff every input retains it    *)
(* and all of them would have, had it been there.  Neither the early       *)
(* returns, nor the early stop, nor the order of the inputs can lose or    *)
(* invent a hash, and theta is that least theta unless the result is empty *)
(* (update).                                                               *)
ResultExact ==
  isValid /\ ~exited =>
    /\ table.entries = Below(common, minTheta)
    /\ table.theta = IF table.isEmpty THEN MaxTheta ELSE minTheta

(* The result turns empty only when it is known to be: an input was empty, *)
(* or the inputs so far are all exact and have no hash in common.          *)
(* Estimation never turns "none seen below theta" into "empty" (update).   *)
(* It does not always turn empty then: an exact input without entries that *)
(* is not empty leaves a result of that kind.                              *)
EmptyOnlyWhenKnown ==
  [][table'.isEmpty /\ ~table.isEmpty =>
       anyEmpty' \/ (common' = {} /\ minTheta' = MaxTheta)]_vars

(* Well-formed inputs are never taken for corrupted ones: the sizing of    *)
(* the new table leaves room for every key, so no count can mismatch.  The *)
(* one error left is get_result() before the first update (update,         *)
(* get_result).                                                            *)
ExitsOnlyUnused == exited => ~given

=============================================================================
