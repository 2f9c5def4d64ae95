------------------------------ MODULE HashSlots ------------------------------
(***************************************************************************)
(* theta_update_sketch_base slot by slot: open addressing with an odd      *)
(* stride, linear growth by rehashing, thinning by nth_element.  A table   *)
(* is a record with the fields of the class; "exited" records that find()  *)
(* ran out of slots, which ends the process (THROW_LOGIC_ERR).             *)
(*                                                                         *)
(* nth_element leaves the kept keys in an order of its own and they are    *)
(* rehashed in that order, so the operations return the SET of tables the  *)
(* build may produce.                                                      *)
(***************************************************************************)
EXTENDS ThetaHelpers

CONSTANT MinLgK   \* theta_constants::MIN_LG_K, 5 in the build

Slots(lg) == 0 .. Pow2(lg) - 1
NoSlot == -1

AllEmpty(lg) == [i \in Slots(lg) |-> 0]

NewSlots(lgCur, lgNom, rf, theta, isEmpty) ==
  [isEmpty |-> isEmpty, lgCur |-> lgCur, lgNom |-> lgNom, rf |-> rf,
   num |-> 0, theta |-> theta, entries |-> AllEmpty(lgCur), exited |-> FALSE]

(* Mutant of Stride: an even stride visits only half of the slots. *)
EvenStride(key, lg) == 2 * ((key \div Pow2(lg)) % 128) + 2

(* get_stride(): odd, from seven key bits the index does not use. *)
Stride(key, lg) == 2 * ((key \div Pow2(lg)) % 128) + 1

Probe(key, lg, k) == (key + k * Stride(key, lg)) % Pow2(lg)

(* find(): the first slot on the key's probe path that is empty or holds   *)
(* the key; NoSlot when the path returns to its start without one.         *)
Find(entries, lg, key) ==
  LET hits   == {k \in Slots(lg) : entries[Probe(key, lg, k)] \in {0, key}}
      first  == CHOOSE k \in hits : \A j \in hits : k <= j
  IN  IF hits = {} THEN NoSlot
      ELSE IF \E j \in 1 .. first : Probe(key, lg, j) = Probe(key, lg, 0) THEN NoSlot
      ELSE Probe(key, lg, first)

Found(entries, lg, key) ==
  LET i == Find(entries, lg, key) IN i # NoSlot /\ entries[i] = key

(* Placing one key of a rehash: entries, or <<>> once a find() has failed. *)
Place(entries, lg, key) ==
  IF entries = <<>> THEN <<>>
  ELSE LET i == Find(entries, lg, key)
       IN  IF i = NoSlot THEN <<>> ELSE [entries EXCEPT ![i] = key]

PlaceAll(lg, keys) ==
  LET after[n \in 0 .. Len(keys)] ==
        IF n = 0 THEN AllEmpty(lg) ELSE Place(after[n - 1], lg, keys[n])
  IN  after[Len(keys)]

KeySet(t) == {t.entries[i] : i \in DOMAIN t.entries} \ {0}

(* The keys in slot order: how every loop over the table meets them. *)
KeysInOrder(t) ==
  Picked([i \in 1 .. Pow2(t.lgCur) |-> t.entries[i - 1]], KeySet(t))

WithEntries(t, entries) ==
  IF entries = <<>> THEN [t EXCEPT !.exited = TRUE]
  ELSE [t EXCEPT !.entries = entries]

(* get_capacity(): floor(fraction * 2^lg_cur). *)
SlotCapacity(lgCur, lgNom) ==
  IF lgCur <= lgNom THEN Pow2(lgCur) \div 2 ELSE (15 * Pow2(lgCur)) \div 16

(* Mutant of ResizeSlots: the new table is searched with the old size, as  *)
(* find(key) would before entries_ and lg_cur_size_ are swapped.           *)
ResizeOldMask(t) ==
  LET lgNew == IF t.lgCur + t.rf <= t.lgNom + 1 THEN t.lgCur + t.rf ELSE t.lgNom + 1
      old   == PlaceAll(t.lgCur, KeysInOrder(t))
  IN  [t EXCEPT !.lgCur = lgNew,
                !.entries = [i \in Slots(lgNew) |->
                               IF i \in Slots(t.lgCur) THEN old[i] ELSE 0]]

(* resize() *)
ResizeSlots(t) ==
  LET lgNew == IF t.lgCur + t.rf <= t.lgNom + 1 THEN t.lgCur + t.rf ELSE t.lgNom + 1
  IN  WithEntries([t EXCEPT !.lgCur = lgNew], PlaceAll(lgNew, KeysInOrder(t)))

(* consolidate_non_empty(): the keys moved to the front, num of them. *)
Consolidate(t) == SubSeq(KeysInOrder(t), 1, t.num)

(* The orders nth_element may leave a sequence of distinct keys in. *)
Orders(keys) ==
  LET held == {keys[i] : i \in DOMAIN keys}
  IN  {s \in [DOMAIN keys -> held] : \A h \in held : \E i \in DOMAIN keys : s[i] = h}

(* Mutant of RebuildSlots: one key too many is carried over. *)
RebuildSlotsKeepsPivot(t) ==
  LET keys  == Consolidate(t)
      nom   == Pow2(t.lgNom)
      pivot == NthElement(KeySet(t), nom)
      kept  == Picked(keys, Below(KeySet(t), pivot) \cup {pivot})
  IN  {WithEntries([t EXCEPT !.theta = pivot, !.num = nom], PlaceAll(t.lgCur, s)) :
         s \in Orders(kept)}

(* rebuild(): assumes more than nominal keys; a new table of the same size *)
(* gets the nominal smallest, in whatever order nth_element left them.     *)
RebuildSlots(t) ==
  LET keys  == Consolidate(t)
      nom   == Pow2(t.lgNom)
      pivot == NthElement(KeySet(t), nom)
      kept  == Picked(keys, Below(KeySet(t), pivot))
  IN  {WithEntries([t EXCEPT !.theta = pivot, !.num = nom], PlaceAll(t.lgCur, s)) :
         s \in Orders(kept)}

(* insert(): at the slot find() returned. *)
InsertSlots(t, i, key) ==
  LET u == [t EXCEPT !.entries[i] = key, !.num = t.num + 1]
  IN  IF u.num <= SlotCapacity(u.lgCur, u.lgNom) THEN {u}
      ELSE IF u.lgCur <= u.lgNom THEN {ResizeSlots(u)}
      ELSE RebuildSlots(u)

(* find() then insert() unless found, of a screened key. *)
FindInsert(t, key) ==
  LET i == Find(t.entries, t.lgCur, key)
  IN  IF i = NoSlot THEN {[t EXCEPT !.exited = TRUE]}
      ELSE IF t.entries[i] = key THEN {t}
      ELSE InsertSlots(t, i, key)

(* update() and update_by_hash() *)
OfferSlots(t, h) ==
  LET u == [t EXCEPT !.isEmpty = FALSE]
  IN  IF h = 0 \/ h >= u.theta THEN {u} ELSE FindInsert(u, h)

TrimSlots(t) == IF t.num > Pow2(t.lgNom) THEN RebuildSlots(t) ELSE {t}

(* Mutant of ResetSlots: the old slots are kept although the size changed. *)
ResetKeepsBuffer(t, theta) ==
  LET lg == StartingSubMultiple(t.lgNom + 1, MinLgK, t.rf)
  IN  [t EXCEPT !.isEmpty = TRUE, !.num = 0, !.theta = theta, !.lgCur = lg,
                !.entries = AllEmpty(t.lgCur)]

(* reset(): every slot emptied, the table back at its starting size. *)
ResetSlots(t, theta) ==
  LET lg == StartingSubMultiple(t.lgNom + 1, MinLgK, t.rf)
  IN  [t EXCEPT !.isEmpty = TRUE, !.num = 0, !.theta = theta, !.lgCur = lg,
                !.entries = AllEmpty(lg)]

=============================================================================
