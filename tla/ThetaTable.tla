----------------------------- MODULE ThetaTable -----------------------------
(***************************************************************************)
(* The resizable table every mutable theta structure is built on           *)
(* (theta_update_sketch_base), seen through its KEYS: which hashes it      *)
(* holds, how many it counts, where its theta stands and how large it is.  *)
(* The slots and the probing are the subject of TableSketch, which         *)
(* implements the state machine written with these operators.              *)
(*                                                                         *)
(* Table sizes are the numbers 2^lg themselves and the resize factor is    *)
(* 2^rf, so that "lg_cur_size_ + rf_" reads cur * factor.                  *)
(***************************************************************************)
EXTENDS ThetaHelpers

(* A freshly constructed table: all slots empty. *)
NewTable(cur, nom, factor, theta, isEmpty) ==
  [isEmpty |-> isEmpty, cur |-> cur, nom |-> nom, factor |-> factor,
   num |-> 0, theta |-> theta, entries |-> {}]

(* Number of entries above which an insertion grows or thins the table:    *)
(* RESIZE_THRESHOLD = 1/2 while it can grow, REBUILD_THRESHOLD = 15/16.    *)
Capacity(cur, nom) ==
  IF cur <= nom THEN cur \div 2 ELSE (15 * cur) \div 16

(* All the facts about powers of two the table relies on: sizes are at     *)
(* least 2, one that is not yet the final size 2 * nom is at most nom, and *)
(* growing by the factor yields a size again or reaches the final size.    *)
SizesOK(sizes, nom, factor) ==
  /\ sizes \subseteq 2 .. 2 * nom /\ 2 * nom \in sizes
  /\ \A s \in sizes : s <= nom \/ s = 2 * nom
  /\ \A s \in sizes : s <= nom => s * factor \in sizes \/ s * factor > 2 * nom

(* Mutant of Resize: the last key moved is lost. *)
ResizeLosesKey(t) ==
  [t EXCEPT !.cur = 2 * t.cur,
            !.entries = t.entries \ {CHOOSE x \in t.entries : TRUE}]

(* resize(): by the factor, at most to twice the nominal size. *)
Resize(t) ==
  [t EXCEPT !.cur = IF t.cur * t.factor <= 2 * t.nom
                      THEN t.cur * t.factor ELSE 2 * t.nom]

(* Mutants of Rebuild: the pivot itself stays a key; the pivot is one rank *)
(* too low or too high.                                                    *)
RebuildKeepsPivot(t) ==
  LET pivot == NthElement(t.entries, t.nom)
  IN  [t EXCEPT !.theta = pivot,
                !.entries = Below(t.entries, pivot) \cup {pivot},
                !.num = t.nom]

RebuildTooLow(t) ==
  LET pivot == NthElement(t.entries, t.nom - 1)
  IN  [t EXCEPT !.theta = pivot,
                !.entries = Below(t.entries, pivot),
                !.num = t.nom - 1]

RebuildTooHigh(t) ==
  LET pivot == NthElement(t.entries, IF t.num > t.nom + 1 THEN t.nom + 1 ELSE t.nom)
  IN  [t EXCEPT !.theta = pivot,
                !.entries = Below(t.entries, pivot),
                !.num = t.nom]

(* rebuild(): keeps the nom smallest keys; the next one becomes theta. *)
Rebuild(t) ==
  LET pivot == NthElement(t.entries, t.nom)
  IN  [t EXCEPT !.theta = pivot,
                !.entries = Below(t.entries, pivot),
                !.num = t.nom]

Tables(sizes) ==
  [isEmpty : BOOLEAN, cur : sizes, nom : Nat \ {0}, factor : Nat \ {0},
   num : Nat, theta : Nat, entries : SUBSET Nat]

(* The table between two operations: the counter the code tests agrees     *)
(* with the slots in use and is within the capacity, so an empty slot is   *)
(* left, and no key is 0 (the mark of an empty slot) or at theta or above. *)
TableOK(t, sizes) ==
  /\ t \in Tables(sizes)
  /\ SizesOK(sizes, t.nom, t.factor)
  /\ t.cur <= t.nom => t.factor >= 2
  /\ IsFiniteSet(t.entries)
  /\ t.num = Cardinality(t.entries)
  /\ t.num <= Capacity(t.cur, t.nom)
  /\ \A h \in t.entries : 0 < h /\ h < t.theta

(* Insertion of a key that find() did not find. *)
Insert(t, h) ==
  LET u == [t EXCEPT !.entries = t.entries \cup {h}, !.num = t.num + 1]
  IN  IF u.num <= Capacity(u.cur, u.nom) THEN u
      ELSE IF u.cur <= u.nom THEN Resize(u)
      ELSE Rebuild(u)

(* Mutant of Unempty: is_empty_ is not cleared. *)
StaysEmpty(t) == t

(* hash_and_screen / screen: the sketch stops being empty even when the    *)
(* hash is then turned away (0 marks an empty slot).                       *)
Unempty(t) == [t EXCEPT !.isEmpty = FALSE]

(* Mutant of Passes: the reserved hash 0 gets through. *)
PassesZero(t, h) == h < t.theta

Passes(t, h) == h # 0 /\ h < t.theta

(* update() and update_by_hash(): screen, find, insert when not found. *)
Offer(t, h) ==
  LET u == Unempty(t)
  IN  IF Passes(u, h) /\ h \notin u.entries THEN Insert(u, h) ELSE u

Trim(t) == IF t.num > t.nom THEN Rebuild(t) ELSE t

=============================================================================
