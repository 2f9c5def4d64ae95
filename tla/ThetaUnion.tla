----------------------------- MODULE ThetaUnion -----------------------------
(***************************************************************************)
(* theta_union: the gadget behind theta_sketch_union, the union aggregate  *)
(* and every merge of partial aggregates.  update() is a loop over the     *)
(* entries of the incoming sketch whose body inserts into the table and    *)
(* may thus lower the table's theta under the loop; it is modelled one     *)
(* entry per step.  Nothing else runs between the steps of a loop.         *)
(*                                                                         *)
(* History variables: "seen", the entries of all sketches given so far,    *)
(* "minTheta", the least theta among them, and "fed": whether one of them  *)
(* was not empty (a sketch may be so without retaining an entry).          *)
(***************************************************************************)
EXTENDS SetTables

CONSTANTS Inputs,       \* the sketches update() may be given
          MaxTheta,     \* MAX_THETA
          Nominal, Factor, StartSize, Sizes

ASSUME UnionAssumption ==
  /\ MaxTheta \in Nat \ {0}
  /\ Nominal \in Nat \ {0} /\ Factor \in Nat \ {0}
  /\ StartSize \in Sizes
  /\ StartSize <= Nominal => Factor >= 2
  /\ SizesOK(Sizes, Nominal, Factor)
  /\ \A s \in Inputs : IsSketch(s, MaxTheta)

VARIABLES table, unionTheta,    \* the two members of theta_union_base
          pc,                   \* "idle" or "loop", inside update()
          arg, i,               \* the sketch being read and the next entry
          seen, minTheta, fed

vars == <<table, unionTheta, pc, arg, i, seen, minTheta, fed>>

NoSketch == MakeSketch(TRUE, TRUE, MaxTheta, <<>>)

(* The builder's table; the extension leaves p at 1, so theta starts at MAX_THETA. *)
NewUnionTable == NewTable(StartSize, Nominal, Factor, MaxTheta, TRUE)

Init ==
  /\ table = NewUnionTable
  /\ unionTheta = MaxTheta
  /\ pc = "idle" /\ arg = NoSketch /\ i = 1
  /\ seen = {} /\ minTheta = MaxTheta /\ fed = FALSE

(* Mutant of StartUpdate: the early return takes a sketch that retains nothing *)
(* and is not estimating for an empty one.                                     *)
StartUpdateSkipsEntryless(s) ==
  /\ pc = "idle"
  /\ fed' = (fed \/ ~s.isEmpty)
  /\ IF s.isEmpty \/ (s.entries = <<>> /\ s.theta = MaxTheta)
       THEN UNCHANGED <<table, unionTheta, pc, arg, i, seen, minTheta>>
     ELSE /\ table' = Unempty(table)
          /\ unionTheta' = MinOf(unionTheta, s.theta)
          /\ pc' = "loop" /\ arg' = s /\ i' = 1
          /\ minTheta' = MinOf(minTheta, s.theta)
          /\ UNCHANGED seen

(* update() up to the loop; an empty sketch changes nothing. *)
StartUpdate(s) ==
  /\ pc = "idle"
  /\ fed' = (fed \/ ~s.isEmpty)
  /\ IF s.isEmpty THEN UNCHANGED <<table, unionTheta, pc, arg, i, seen, minTheta>>
     ELSE /\ table' = Unempty(table)
          /\ unionTheta' = MinOf(unionTheta, s.theta)
          /\ pc' = "loop" /\ arg' = s /\ i' = 1
          /\ minTheta' = MinOf(minTheta, s.theta)
          /\ UNCHANGED seen

EntriesLeft == i <= Len(arg.entries)

(* Mutant of Wanted: the loop trusts the union's theta alone. *)
WantedByUnionTheta(h) == h < unionTheta

(* The screen of the loop body: both thetas, the table's as it is NOW. *)
Wanted(h) == h < unionTheta /\ h < table.theta

TakeEntry ==
  /\ pc = "loop" /\ EntriesLeft
  /\ Wanted(arg.entries[i])
  /\ table' = IF arg.entries[i] \in table.entries THEN table
              ELSE Insert(table, arg.entries[i])
  /\ i' = i + 1
  /\ UNCHANGED <<unionTheta, pc, arg, seen, minTheta, fed>>

SkipEntry ==
  /\ pc = "loop" /\ EntriesLeft
  /\ ~Wanted(arg.entries[i]) /\ ~arg.isOrdered
  /\ i' = i + 1
  /\ UNCHANGED <<table, unionTheta, pc, arg, seen, minTheta, fed>>

(* The loop is over at the end, or at an early stop of an ordered sketch.  *)
LoopOver == EntriesLeft => ~Wanted(arg.entries[i]) /\ arg.isOrdered

(* Mutant of FinishUpdate: the union takes over the table's theta. *)
FinishTakesTableTheta ==
  /\ pc = "loop" /\ LoopOver
  /\ unionTheta' = table.theta
  /\ seen' = seen \cup Keys(arg)
  /\ pc' = "idle" /\ arg' = NoSketch /\ i' = 1
  /\ UNCHANGED <<table, minTheta, fed>>

FinishUpdate ==
  /\ pc = "loop" /\ LoopOver
  /\ unionTheta' = MinOf(unionTheta, table.theta)
  /\ seen' = seen \cup Keys(arg)
  /\ pc' = "idle" /\ arg' = NoSketch /\ i' = 1
  /\ UNCHANGED <<table, minTheta, fed>>

ResetUnion ==
  /\ pc = "idle"
  /\ table' = NewUnionTable
  /\ unionTheta' = MaxTheta
  /\ seen' = {} /\ minTheta' = MaxTheta /\ fed' = FALSE
  /\ UNCHANGED <<pc, arg, i>>

Next ==
  \/ \E s \in Inputs : StartUpdate(s)
  \/ TakeEntry
  \/ SkipEntry
  \/ FinishUpdate
  \/ ResetUnion

Spec == Init /\ [][Next]_vars

-----------------------------------------------------------------------------
(* get_result() *)
Result == ResultOf(table, unionTheta)

-----------------------------------------------------------------------------
(* Type invariant: a well-formed table and an entry index inside the loop. *)
TypeOK ==
  /\ TableOK(table, Sizes)
  /\ table.nom = Nominal /\ table.factor = Factor
  /\ unionTheta \in 1 .. MaxTheta /\ minTheta \in 1 .. MaxTheta
  /\ pc \in {"idle", "loop"}
  /\ arg \in Inputs \cup {NoSketch}
  /\ i \in 1 .. Len(arg.entries) + 1
  /\ seen \in SUBSET Nat /\ fed \in BOOLEAN

(* The union of the inputs, cut at their least theta. *)
Union == Below(seen, minTheta)

(* The result of a union is a function of the SET of hashes its inputs     *)
(* hold and of their least theta: theta is that least theta when all the   *)
(* hashes fit, else the (nominal + 1)-th smallest, and every hash below it *)
(* is there.  So the order of the inputs, how they were split over partial *)
(* unions, and the point at which the table thinned under the loop cannot  *)
(* be told from the result (update, get_result).                           *)
ResultIsCanonical ==
  pc = "idle" =>
    /\ Result.theta = IF Cardinality(Union) <= Nominal THEN minTheta
                      ELSE NthElement(Union, Nominal)
    /\ Result.keys = Below(Union, Result.theta)

(* A union is empty exactly when every sketch it was given was: one that   *)
(* retains nothing but is not empty (its theta fell, or only the hash 0    *)
(* was offered to it) makes the union and its result non-empty, however    *)
(* many empty ones come before or after; and an empty result is exact.     *)
EmptyIffAllWere ==
  /\ table.isEmpty <=> ~fed
  /\ pc = "idle" => (Result.isEmpty <=> ~fed)
  /\ pc = "idle" /\ ~fed => Result.theta = MaxTheta /\ Result.keys = {}

(* The thetas of a union only fall, except by reset. *)
ThetasOnlyFall ==
  [][\/ unionTheta' <= unionTheta /\ table'.theta <= table.theta
     \/ table' = NewUnionTable]_vars

=============================================================================
