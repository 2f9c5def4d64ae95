---------------------------- MODULE SetDifference ----------------------------
(***************************************************************************)
(* The parts of theta_a_not_b::compute() as operators on its operands:     *)
(* shared by the state machine ThetaANotB and by the scalar function.      *)
(***************************************************************************)
EXTENDS HashSlots, CompactSketch

(* The keys a loop over s hands on before it stops at theta. *)
UpTo(s, theta) == Picked(s.entries, Scanned(s, theta))

(* Mutant of InsertFound: the key goes where the probe starts. *)
InsertAtStart(t, h) ==
  CHOOSE u \in InsertSlots(t, Probe(h, t.lgCur, 0), h) : TRUE

(* table.insert(table.find(hash).first, hash); with lg_nom = lg_cur it can *)
(* only resize.                                                            *)
InsertFound(t, h) ==
  LET i == Find(t.entries, t.lgCur, h)
  IN  IF t.exited THEN t
      ELSE IF i = NoSlot THEN [t EXCEPT !.exited = TRUE]
      ELSE CHOOSE u \in InsertSlots(t, i, h) : TRUE

(* The hash table of b. *)
TableOf(b, theta) ==
  LET lg   == LgSizeFromCount(Len(b.entries))
      keys == UpTo(b, theta)
      after[n \in 0 .. Len(keys)] ==
        IF n = 0 THEN NewSlots(lg, lg, 0, 0, TRUE)
        ELSE InsertFound(after[n - 1], keys[n])
  IN  after[Len(keys)]

(* Mutant of ByMerge: keys of a at or above theta of b survive the merge. *)
ByMergeAboveTheta(a, b, theta) ==
  Picked(a.entries, Keys(a) \ Keys(b))

(* Sort-based: both operands ordered, results below theta. *)
ByMerge(a, b, theta) ==
  Picked(a.entries, Below(Keys(a) \ Keys(b), theta))

(* Hash-based: scan a, look up in the table of b. *)
ByTable(a, t, theta) ==
  Picked(a.entries, {h \in Scanned(a, theta) : ~Found(t.entries, t.lgCur, h)})

Merges(a, b) == a.isOrdered /\ b.isOrdered

UsesTable(a, b) == b.entries # <<>> /\ ~Merges(a, b)

Remaining(a, b, t, theta) ==
  IF b.entries = <<>> THEN Picked(a.entries, Below(Keys(a), theta))
  ELSE IF Merges(a, b) THEN ByMerge(a, b, theta)
  ELSE ByTable(a, t, theta)

(* Mutant of Finish: the result is never sorted. *)
FinishUnsorted(a, ordered, theta, kept, maxTheta) ==
  MakeSketch(a.isEmpty \/ (kept = <<>> /\ theta = maxTheta),
             a.isOrdered \/ ordered, theta, kept)

(* The tail of compute(): emptiness, order and theta of the result. *)
Finish(a, ordered, theta, kept, maxTheta) ==
  MakeSketch(a.isEmpty \/ (kept = <<>> /\ theta = maxTheta),
             a.isOrdered \/ ordered, theta,
             IF ordered /\ ~a.isOrdered THEN SortedKeys({kept[i] : i \in DOMAIN kept}) ELSE kept)

(* "a is empty, or keeps something and b is empty": the result is a. *)
ReturnsA(a, b) == a.isEmpty \/ (a.entries # <<>> /\ b.isEmpty)

=============================================================================
