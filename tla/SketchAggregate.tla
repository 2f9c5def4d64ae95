-------------------------- MODULE SketchAggregate --------------------------
(***************************************************************************)
(* The user-defined aggregates of the extension: a group's state lives in  *)
(* the module's heap and the engine holds a HANDLE to it, NO_HANDLE until  *)
(* the first row.  Every callback that is given a handle consumes it: the  *)
(* object behind it is updated in place, or replaced and freed.  Objects   *)
(* are void pointers with a type tag, and each callback casts according to *)
(* the tag or to what the aggregate's ITERATE created.                     *)
(*                                                                         *)
(* The engine (external) runs the callbacks on any number of partial       *)
(* states: it iterates rows into a fresh state, ships states as blobs      *)
(* (SERIALIZE, DESERIALIZE), merges them in any order and shape, and       *)
(* terminates the last one.  History variables: rows (the rows each state  *)
(* stands for), merged (a MERGE made some object), iterated (how many rows *)
(* there were).                                                            *)
(***************************************************************************)
EXTENDS SetOperations

CONSTANTS Kinds,        \* which of the aggregates there are
          States,       \* partial states of one group
          HashRows,     \* the rows of a build aggregate: hashes
          SketchRows,   \* the rows of the others: sketches
          NullRow,      \* the row that is the empty string
          EmptyIsNull,  \* the kinds taken in the variant that skips NullRow
          MaxHashRows,  \* bounds on the rows iterated
          MaxSketchRows

ASSUME AggregateAssumption ==
  /\ Kinds \subseteq {"build", "union", "intersection"}
  /\ EmptyIsNull \subseteq Kinds /\ MaxHashRows \in Nat /\ MaxSketchRows \in Nat
  /\ NullRow \in SketchRows => Kinds \ {"build"} \subseteq EmptyIsNull  \* wrap() exits
  /\ IsFiniteSet(States) /\ States # {}
  /\ HashRows \subseteq Nat
  /\ \A r \in SketchRows \ {NullRow} : IsSketch(r, MaxTheta)

VARIABLES kind,     \* the aggregate of this group
          phase,    \* per state: "iterate", "partial", "blob", "gone", "final"
          handle,   \* per state: NO_HANDLE or an address
          blob,     \* per state: the serialized state
          heap,     \* the objects allocated, by address
          rows, merged, iterated

vars == <<kind, phase, handle, blob, heap, rows, merged, iterated>>

NoHandle == 0
NoBlob == [empty |-> "string"]     \* ptr = nullptr, len = 0
Addresses == 1 .. 2 * Cardinality(States) + 2

Rows == IF kind = "build" THEN HashRows ELSE SketchRows
RowBound == IF kind = "build" THEN MaxHashRows ELSE MaxSketchRows

(* operator new: some free address. *)
FreeAddress(hp) == CHOOSE a \in Addresses \ DOMAIN hp : TRUE

(* Assigning at or dropping an address of the heap. *)
Put(hp, a, obj) == [b \in DOMAIN hp \cup {a} |-> IF b = a THEN obj ELSE hp[b]]
Drop(hp, as) == [b \in DOMAIN hp \ as |-> hp[b]]

Object(tag, data) == [tag |-> tag, data |-> data]

AccumTag == CASE kind = "build" -> "MUTABLE_SKETCH"
              [] kind = "union" -> "UNION"
              [] kind = "intersection" -> "INTERSECTION"

NewState == CASE kind = "build" -> NewUpdateSketch
              [] kind = "union" -> NewUnion
              [] kind = "intersection" -> NewIntersection

(* What the ITERATE callback does to the state it casts the handle to. *)
Accumulate(data, row) ==
  CASE kind = "build" -> Offer(data, row)
    [] kind = "union" -> UnionUpdate(data, row)
    [] kind = "intersection" -> InterUpdate(data, row)

(* Mutant of GetResult: the tag decides, and a union is taken as it is.    *)
GetResultOfTable(obj) ==
  CASE obj.tag = "UNION" -> AsSketch(obj.data.table)
    [] obj.tag = "INTERSECTION" -> InterResult(obj.data)
    [] obj.tag = "MUTABLE_SKETCH" -> AsSketch(obj.data)
    [] obj.tag = "IMMUTABLE_SKETCH" -> obj.data

(* theta_data_get_result(): the sketch the tagged object stands for. *)
GetResult(obj) ==
  CASE obj.tag = "UNION" -> UnionResult(obj.data)
    [] obj.tag = "INTERSECTION" -> InterResult(obj.data)
    [] obj.tag = "MUTABLE_SKETCH" -> AsSketch(obj.data)
    [] obj.tag = "IMMUTABLE_SKETCH" -> obj.data

-----------------------------------------------------------------------------
Init ==
  /\ kind \in Kinds
  /\ \E used \in SUBSET States \ {{}} :   \* how many states the engine opens
       phase = [s \in States |-> IF s \in used THEN "iterate" ELSE "gone"]
  /\ handle = [s \in States |-> NoHandle]       \* handle_init()
  /\ blob = [s \in States |-> NoBlob]
  /\ heap = <<>>
  /\ rows = [s \in States |-> {}]
  /\ merged = FALSE /\ iterated = 0

(* *_accum_emptyisnull of an empty row: the handle is given back. *)
SkipRow(s) ==
  /\ phase[s] = "iterate" /\ kind \in EmptyIsNull /\ NullRow \in Rows
  /\ UNCHANGED vars

(* *_accum: the first row creates the state. *)
IterateRow(s, row) ==
  LET a     == IF handle[s] = NoHandle THEN FreeAddress(heap) ELSE handle[s]
      state == IF handle[s] = NoHandle THEN NewState ELSE heap[a].data
  IN  /\ phase[s] = "iterate" /\ iterated < RowBound
      /\ ~(kind \in EmptyIsNull /\ row = NullRow)
      /\ handle' = [handle EXCEPT ![s] = a]
      /\ heap' = Put(heap, a, Object(AccumTag, Accumulate(state, row)))
      /\ rows' = [rows EXCEPT ![s] = @ \cup {row}]
      /\ iterated' = iterated + 1
      /\ UNCHANGED <<kind, phase, blob, merged>>

Live(s) == phase[s] \in {"iterate", "partial"}

ResultsOf(l, r) ==
  [k \in {x \in {l, r} : handle[x] # NoHandle} |-> GetResult(heap[handle[k]])]

MergeTag == IF kind = "intersection" THEN "INTERSECTION" ELSE "UNION"

(* Mutant of MergedData: a state without rows counts as an empty sketch. *)
MergedDataEmptyForNone(l, r) ==
  LET Update(data, s) == IF kind = "intersection" THEN InterUpdate(data, s)
                         ELSE UnionUpdate(data, s)
      new == IF kind = "intersection" THEN NewIntersection ELSE NewUnion
      Given(x) == IF handle[x] # NoHandle THEN GetResult(heap[handle[x]])
                  ELSE MakeSketch(TRUE, TRUE, MaxTheta, <<>>)
  IN  Update(Update(new, Given(l)), Given(r))

(* The merged object: left then right, those that have a handle. *)
MergedData(l, r) ==
  LET Update(data, s) == IF kind = "intersection" THEN InterUpdate(data, s)
                         ELSE UnionUpdate(data, s)
      new   == IF kind = "intersection" THEN NewIntersection ELSE NewUnion
      given == ResultsOf(l, r)
      first == IF l \in DOMAIN given THEN Update(new, given[l]) ELSE new
  IN  IF r \in DOMAIN given THEN Update(first, given[r]) ELSE first

(* union_merge, intersection_merge: both states are consumed. *)
MergeStates(l, r) ==
  LET used == {handle[l], handle[r]} \ {NoHandle}
      a    == FreeAddress(heap)
  IN  /\ l # r /\ Live(l) /\ Live(r)
      /\ IF used = {} THEN UNCHANGED <<heap, handle, merged>>
         ELSE /\ heap' = Put(Drop(heap, used), a, Object(MergeTag, MergedData(l, r)))
              /\ handle' = [handle EXCEPT ![l] = a, ![r] = NoHandle]
              /\ merged' = TRUE
      /\ phase' = [phase EXCEPT ![l] = "partial", ![r] = "gone"]
      /\ rows' = [rows EXCEPT ![l] = rows[l] \cup rows[r], ![r] = {}]
      /\ UNCHANGED <<kind, blob, iterated>>

(* Mutant of Serialized: a mutable sketch is written as it is. *)
SerializedUncompacted(s) ==
  IF handle[s] = NoHandle THEN NoBlob ELSE GetResult(heap[handle[s]])

(* What handle_serialize() writes: the empty string without a handle; a    *)
(* mutable sketch is compacted, which sorts it.                            *)
Serialized(s) ==
  IF handle[s] = NoHandle THEN NoBlob
  ELSE CompactCopy(GetResult(heap[handle[s]]), TRUE)

(* handle_serialize() as SERIALIZE (or TERMINATE, for the last state); the *)
(* object is freed.                                                        *)
Serialize(s, next) ==
  /\ Live(s)
  /\ blob' = [blob EXCEPT ![s] = Serialized(s)]
  /\ heap' = Drop(heap, {handle[s]})
  /\ handle' = [handle EXCEPT ![s] = NoHandle]
  /\ phase' = [phase EXCEPT ![s] = next]
  /\ UNCHANGED <<kind, rows, merged, iterated>>

ShipState(s) ==
  /\ \E t \in States \ {s} : phase[t] # "gone"
  /\ Serialize(s, "blob")

Terminate(s) ==
  /\ \A t \in States \ {s} : phase[t] = "gone"
  /\ Serialize(s, "final")

(* Mutant of Deserialize: the length is not looked at. *)
DeserializeAnything(s) ==
  LET a == FreeAddress(heap)
  IN  /\ phase[s] = "blob"
      /\ heap' = Put(heap, a, Object("IMMUTABLE_SKETCH", blob[s]))
      /\ handle' = [handle EXCEPT ![s] = a]
      /\ phase' = [phase EXCEPT ![s] = "partial"]
      /\ blob' = [blob EXCEPT ![s] = NoBlob]
      /\ UNCHANGED <<kind, rows, merged, iterated>>

(* handle_deserialize() *)
Deserialize(s) ==
  LET a == FreeAddress(heap)
  IN  /\ phase[s] = "blob"
      /\ IF blob[s] = NoBlob THEN UNCHANGED <<heap, handle>>
         ELSE /\ heap' = Put(heap, a, Object("IMMUTABLE_SKETCH", blob[s]))
              /\ handle' = [handle EXCEPT ![s] = a]
      /\ phase' = [phase EXCEPT ![s] = "partial"]
      /\ blob' = [blob EXCEPT ![s] = NoBlob]
      /\ UNCHANGED <<kind, rows, merged, iterated>>

Next ==
  \/ \E s \in States :
       \/ SkipRow(s)
       \/ \E row \in Rows : IterateRow(s, row)
       \/ \E t \in States : MergeStates(s, t)
       \/ ShipState(s)
       \/ Deserialize(s)
       \/ Terminate(s)

Spec == Init /\ [][Next]_vars

-----------------------------------------------------------------------------
Tags == {"MUTABLE_SKETCH", "IMMUTABLE_SKETCH", "UNION", "INTERSECTION"}

(* Type invariant: states, and tagged objects at addresses in use; what was *)
(* deserialized is a well-formed sketch.                                   *)
TypeOK ==
  /\ kind \in Kinds
  /\ phase \in [States -> {"iterate", "partial", "blob", "gone", "final"}]
  /\ handle \in [States -> Addresses \cup {NoHandle}]
  /\ DOMAIN heap \subseteq Addresses
  /\ \A a \in DOMAIN heap :
       /\ heap[a].tag \in Tags
       /\ heap[a].tag = "IMMUTABLE_SKETCH" =>
            heap[a].data # NoBlob /\ IsSketch(heap[a].data, MaxTheta)

Final(s) == phase[s] = "final"

(* What the rows of a build or union aggregate offer. *)
Offered(s) ==
  (IF kind = "build" THEN rows[s] ELSE UNION {Keys(r) : r \in rows[s]}) \ {0}

LeastTheta(s) ==
  IF kind = "build" THEN MaxTheta
  ELSE CHOOSE p \in {r.theta : r \in rows[s]} : \A r \in rows[s] : p <= r.theta

(* The final value of a build or union aggregate that was merged is a      *)
(* function of the SET of rows: however the engine split them over states, *)
(* shipped the states and merged them, theta is the (nominal + 1)-th       *)
(* smallest hash if there are so many, and every hash below it is kept.    *)
(* The empty string is the value exactly when there was no row (union_     *)
(* merge, serialize, deserialize).                                         *)
MergedIsCanonical ==
  kind # "intersection" => \A s \in States : Final(s) =>
    /\ blob[s] = NoBlob <=> rows[s] = {}
    /\ rows[s] # {} /\ (merged \/ kind = "union") =>
         LET least == LeastTheta(s)
             all   == Below(Offered(s), least)
         IN  /\ blob[s].theta = IF Cardinality(all) <= Nominal THEN least
                                ELSE NthElement(all, Nominal)
             /\ Keys(blob[s]) = Below(all, blob[s].theta)

(* The exact rows, and whether they alone show that no hash is common.     *)
NoneInExact(R) ==
  LET exact == {r \in R : r.theta = MaxTheta}
  IN  exact # {} /\ ~\E h \in UNION {Keys(r) : r \in exact} : \A r \in exact : h \in Keys(r)

(* Every value the aggregate returns, merged or not, shipped or not, is a  *)
(* well-formed ordered sketch; that of a build or union holds exactly the  *)
(* offered hashes below its theta.  It says "empty" when it should and     *)
(* never else: a build never, a union just if all rows were (one that saw  *)
(* a sketch without entries that is not empty must say so), an             *)
(* intersection if a row was, and otherwise only if the exact rows have no *)
(* hash in common (serialize, deserialize, the merges, the get_result's).  *)
ValueIsSample ==
  \A s \in States : Final(s) /\ rows[s] # {} =>
    /\ IsSketch(blob[s], MaxTheta) /\ blob[s].isOrdered
    /\ kind # "intersection" => Keys(blob[s]) = Below(Offered(s), blob[s].theta)
    /\ kind = "build" => ~blob[s].isEmpty
    /\ kind = "union" => (blob[s].isEmpty <=> \A r \in rows[s] : r.isEmpty)
    /\ kind = "intersection" =>
         /\ (\E r \in rows[s] : r.isEmpty) => blob[s].isEmpty
         /\ blob[s].isEmpty => (\E r \in rows[s] : r.isEmpty) \/ NoneInExact(rows[s])

(* The final value of an intersection aggregate: the hashes in every row's *)
(* sketch, below the least theta, for every split and every merge tree;    *)
(* states without rows do not count as empty sketches (intersection_merge, *)
(* serialize).                                                             *)
IntersectionOfRows ==
  kind = "intersection" => \A s \in States : Final(s) /\ rows[s] # {} =>
    LET common == {h \in UNION {Keys(r) : r \in rows[s]} :
                     \A r \in rows[s] : h \in Keys(r)}
    IN  /\ Keys(blob[s]) = Below(common, LeastTheta(s))
        /\ ~blob[s].isEmpty => blob[s].theta = LeastTheta(s)

=============================================================================
