---------------------------- MODULE WasmInterface ----------------------------
(***************************************************************************)
(* Every function the Wasm module exports, from the arguments the host     *)
(* puts in its memory to the result it takes out: who allocates, reads and *)
(* frees what, which calls end the process, and what is left of memory     *)
(* between two calls.  The contents of sketches are abstracted: a list of  *)
(* bytes is known by its length, and a sketch may hold anything.           *)
(*                                                                         *)
(* The host (external) lowers list arguments into blocks it gets from      *)
(* canonical_abi_realloc, which the function then owns; a list result is   *)
(* named by RET_AREA, and the host frees it once read.  The engine         *)
(* (external) calls the functions as create_loader.sh declares them.       *)
(***************************************************************************)
EXTENDS WasmMemory

CONSTANTS Groups,             \* the aggregate states the engine has at a time
          StatisticsOutcomes  \* TRUE: some sketch has no confidence bounds

ASSUME InterfaceAssumption == StatisticsOutcomes \subseteq BOOLEAN /\ Groups # {}

VARIABLES emptyIsNull,  \* the variant the engine installed
          memory,
          engine,       \* per group: the aggregate, its stage, the handle
          unread,       \* the list in RET_AREA the host has yet to read
          called,       \* the last call: its name and argument lengths
          faulted       \* it used memory that is not what it takes it for

vars == <<emptyIsNull, memory, engine, unread, called, faulted>>

Kinds == {"build", "union", "intersection"}
NoHandle == -1

(* Lists: none, too short for a sketch, as short as a sketch can be. *)
EmptyLength == 0
ShortLength == 7
SketchLength == 8
Lengths == {EmptyLength, ShortLength, SketchLength}

List(ptr, len) == [ptr |-> ptr, len |-> len]
NullList == List(Null, EmptyLength)     \* nullptr, and a list of no bytes

Result(m, value) == [memory |-> m, value |-> value]

(* canonical_abi_realloc() for an argument of the call. *)
Lower(m, len) == Result(New(m, "bytes"), List(Fresh(m), len))

(* extension_list_u8_free() *)
FreeList(m, list) == Delete(m, list.ptr, {"bytes"})

(* Mutant of EmptyIsNull: the list is freed, and handed on all the same. *)
FreedAndHandedOn(m, list) ==
  IF emptyIsNull /\ list.len = EmptyLength THEN Result(FreeList(m, list), list)
  ELSE Result(m, list)

(* What the emptyisnull functions do first. *)
EmptyIsNull(m, list) ==
  IF emptyIsNull /\ list.len = EmptyLength THEN Result(FreeList(m, list), NullList)
  ELSE Result(m, list)

-----------------------------------------------------------------------------
(* Objects: what the static helpers of extension_impl_handle.cpp do.       *)

ClassOf(kind) == CASE kind = "build" -> "update"
                   [] kind = "union" -> "union"
                   [] kind = "intersection" -> "intersection"
TagOf(kind) == CASE kind = "build" -> "MUTABLE_SKETCH"
                 [] kind = "union" -> "UNION"
                 [] kind = "intersection" -> "INTERSECTION"

(* theta_union_get_result(), theta_intersection_get_result(): a new sketch, *)
(* and the object is deleted; an intersection that saw nothing has none.    *)
ResultOf(m, a, class) ==
  LET used  == Cast(m, a, {class})
      given == EndIf(used, ~used.fault /\ ~used.ended /\ ~used.blocks[a].isValid)
  IN  Result(Delete(New(given, "compact"), a, {class}), Fresh(given))

(* theta_data_get_result(): the tag decides what the pointer points to. *)
DataResult(m, a) ==
  CASE TagAt(m, a) = "UNION" -> ResultOf(m, a, "union")
    [] TagAt(m, a) = "INTERSECTION" -> ResultOf(m, a, "intersection")
    [] OTHER -> Result(m, a)

(* update() of a set operation, whose argument it has read. *)
UpdateObject(m, a, class) ==
  LET used == Cast(m, a, {class})
  IN  IF used.fault \/ used.ended THEN used ELSE [used EXCEPT !.blocks[a].isValid = TRUE]

(* *_update_with_bytes(): a sketch is wrapped around the caller's list and *)
(* read from it; wrap() exits when the list is too short.                  *)
UpdateWithBytes(m, a, class, list) ==
  UpdateObject(EndIf(Cast(m, list.ptr, {"bytes"}), list.len < SketchLength), a, class)

UpdateWithSketch(m, a, class, sketch) ==
  UpdateObject(Cast(m, sketch, Sketches), a, class)

(* theta_sketch_compact() *)
Compact(m, a) ==
  Result(Delete(New(Cast(m, a, {"update"}), "compact"), a, {"update"}), Fresh(m))

(* theta_sketch_serialize(), into a list of the callee's making. *)
SerializeSketch(m, a) ==
  Result(New(Cast(m, a, {"compact"}), "bytes"), List(Fresh(m), SketchLength))

(* theta_sketch_deserialize(): the list is copied. *)
DeserializeList(m, list) ==
  LET read == EndIf(Cast(m, list.ptr, {"bytes"}), list.len < SketchLength)
  IN  Result(New(read, "compact"), Fresh(read))

-----------------------------------------------------------------------------
(* The scalar functions: each gives memory and the list it returns.        *)

UpdateGiven(m, a, class, list) ==
  IF list = NullList THEN m ELSE UpdateWithBytes(m, a, class, list)

(* extension_sketch_union(), extension_sketch_intersection() *)
SetFunction(m, class, left, right) ==
  LET object == Fresh(m)
      seen   == UpdateGiven(UpdateGiven(New(m, class), object, class, left),
                            object, class, right)
      result == ResultOf(seen, object, class)
      output == SerializeSketch(result.memory, result.value)
      freed  == FreeList(FreeList(output.memory, left), right)
  IN  Result(Delete(freed, result.value, Sketches), output.value)

(* extension_sketch_a_not_b() *)
DifferenceFunction(m, left, right) ==
  LET given  == EndIf(m, \/ left = NullList \/ right = NullList
                         \/ left.len < SketchLength \/ right.len < SketchLength)
      read   == Cast(Cast(given, left.ptr, {"bytes"}), right.ptr, {"bytes"})
      sketch == Fresh(read)
      output == SerializeSketch(New(read, "compact"), sketch)
      freed  == FreeList(FreeList(output.memory, left), right)
  IN  Result(Delete(freed, sketch, Sketches), output.value)

(* extension_sketch_get_estimate(): given nullptr, it passes it on to        *)
(* extension_list_u8_free, which reads the list through it.  What is there   *)
(* is undefined; the call goes on, or traps.                                 *)
EstimateFunction(m, list, traps) ==
  LET sketch == DeserializeList(EndIf(m, list.len < SketchLength), list)
  IN  IF list = NullList THEN Result(EndIf(Cast(m, list.ptr, {"bytes"}), traps), NullList)
      ELSE Result(FreeList(Delete(sketch.memory, sketch.value, Sketches), list), NullList)

(* extension_sketch_to_string(): prints the confidence bounds too. *)
ToStringFunction(m, list, noBounds) ==
  LET sketch == DeserializeList(m, list)
      text   == EndIf(sketch.memory, noBounds)
      string == List(Fresh(text), SketchLength)
      freed  == Delete(New(text, "bytes"), sketch.value, Sketches)
  IN  IF list = NullList THEN Result(m, NullList) ELSE Result(FreeList(freed, list), string)

(* extension_sketch_hash() *)
HashFunction(m, list) ==
  IF list = NullList THEN Result(m, NullList)
  ELSE Result(FreeList(Cast(m, list.ptr, {"bytes"}), list), NullList)

-----------------------------------------------------------------------------
(* The callbacks of the aggregates: each gives memory and the handle.      *)

Created(m, kind) == SetType(New(m, ClassOf(kind)), Fresh(m), TagOf(kind))

(* build_accum(): the first row creates the state. *)
AccumulateValue(m, handle, list) ==
  LET state == IF handle = NoHandle THEN Fresh(m) ELSE handle
      there == IF handle = NoHandle THEN Created(m, "build") ELSE m
      used  == Cast(Cast(there, list.ptr, {"bytes"}), state, {"update"})
  IN  IF list = NullList THEN Result(m, handle) ELSE Result(FreeList(used, list), state)

(* union_accum(), intersection_accum() *)
AccumulateSketch(m, kind, handle, list) ==
  LET state == IF handle = NoHandle THEN Fresh(m) ELSE handle
      there == IF handle = NoHandle THEN Created(m, kind) ELSE m
      used  == UpdateWithBytes(there, state, ClassOf(kind), list)
  IN  IF list = NullList THEN Result(m, handle) ELSE Result(FreeList(used, list), state)

(* build_accum_by_hash(): no list; 0 counts as NULL in the emptyisnull form. *)
AccumulateHash(m, handle, isZero) ==
  LET state == IF handle = NoHandle THEN Fresh(m) ELSE handle
      there == IF handle = NoHandle THEN Created(m, "build") ELSE m
  IN  IF emptyIsNull /\ isZero THEN Result(m, handle)
      ELSE Result(Cast(there, state, {"update"}), state)

(* A state of union_merge(), intersection_merge(): read, then deleted. *)
MergeInto(m, a, class, handle) ==
  LET sketch == DataResult(m, handle)
  IN  IF handle = NoHandle THEN m
      ELSE Delete(UpdateWithSketch(sketch.memory, a, class, sketch.value),
                  sketch.value, Sketches)

MergeKind(kind) == IF kind = "intersection" THEN "intersection" ELSE "union"

(* union_merge(), intersection_merge() *)
Merge(m, kind, left, right) ==
  LET into == MergeKind(kind)
      new  == Created(m, into)
  IN  IF left = NoHandle /\ right = NoHandle THEN Result(m, NoHandle)
      ELSE Result(MergeInto(MergeInto(new, Fresh(m), ClassOf(into), left),
                            Fresh(m), ClassOf(into), right), Fresh(m))

(* handle_serialize() *)
SerializeState(m, handle) ==
  LET sketch == IF TagAt(m, handle) = "MUTABLE_SKETCH" THEN Compact(m, handle)
                ELSE DataResult(m, handle)
      output == SerializeSketch(sketch.memory, sketch.value)
  IN  IF handle = NoHandle THEN Result(m, NullList)
      ELSE Result(Delete(output.memory, sketch.value, Sketches), output.value)

(* Mutant of DeserializeState: the sketch keeps the tag of its constructor. *)
DeserializeUntagged(m, list) ==
  LET sketch == DeserializeList(m, list)
  IN  IF list.len = EmptyLength THEN Result(FreeList(m, list), NoHandle)
      ELSE Result(FreeList(sketch.memory, list), sketch.value)

(* handle_deserialize() *)
DeserializeState(m, list) ==
  LET sketch == DeserializeList(m, list)
      tagged == SetType(sketch.memory, sketch.value, "IMMUTABLE_SKETCH")
  IN  IF list.len = EmptyLength THEN Result(FreeList(m, list), NoHandle)
      ELSE Result(FreeList(tagged, list), sketch.value)

-----------------------------------------------------------------------------
NoState == [kind |-> "none", stage |-> "none", handle |-> NoHandle, shipped |-> EmptyLength]

Init ==
  /\ emptyIsNull \in BOOLEAN
  /\ memory = EmptyMemory
  /\ engine = [g \in Groups |-> NoState]
  /\ unread = NullList
  /\ called = <<"none">> /\ faulted = FALSE

(* Calls come one at a time, and not before the last result was read. *)
Ready == ~memory.ended /\ unread = NullList

(* A function of one list, or of two, returning a list. *)
Lowered(len) == LET list == Lower(memory, len) IN EmptyIsNull(list.memory, list.value)

(* A call came back: what it did wrong is told of it alone. *)
CameBack(m) == memory' = [m EXCEPT !.fault = FALSE] /\ faulted' = m.fault

(* A scalar function came back: the list it returned is named by RET_AREA. *)
Return(call, result) ==
  /\ CameBack(result.memory)
  /\ unread' = IF result.memory.ended THEN NullList ELSE result.value
  /\ called' = call
  /\ UNCHANGED <<emptyIsNull, engine>>

CallGetEstimate(len) ==
  LET list == Lowered(len)
  IN  /\ Ready
      /\ \E traps \in BOOLEAN :
           Return(<<"get_estimate", len>>, EstimateFunction(list.memory, list.value, traps))

CallToString(len) ==
  LET list == Lowered(len)
  IN  /\ Ready
      /\ \E noBounds \in StatisticsOutcomes :
           Return(<<"to_string", len>>, ToStringFunction(list.memory, list.value, noBounds))

CallHash(len) ==
  LET list == Lowered(len)
  IN  Ready /\ Return(<<"hash", len>>, HashFunction(list.memory, list.value))

(* Both lists are in memory before the function sees the first. *)
CallSetFunction(name, len1, len2) ==
  LET first  == Lower(memory, len1)
      second == Lower(first.memory, len2)
      left   == EmptyIsNull(second.memory, first.value)
      right  == EmptyIsNull(left.memory, second.value)
  IN  /\ Ready
      /\ Return(<<name, len1, len2>>,
                IF name = "a_not_b" THEN DifferenceFunction(right.memory, left.value, right.value)
                ELSE SetFunction(right.memory, name, left.value, right.value))

(* The host has read a list result, and frees it: canonical_abi_free(). *)
HostReads ==
  /\ ~memory.ended /\ unread # NullList
  /\ CameBack(FreeList(memory, unread))
  /\ unread' = NullList
  /\ called' = <<"canonical_abi_free">>
  /\ UNCHANGED <<emptyIsNull, engine>>

(* An aggregate callback came back with a handle for g. *)
Returned(call, g, kind, stage, result) ==
  /\ CameBack(result.memory)
  /\ engine' = [engine EXCEPT ![g] = [kind |-> kind, stage |-> stage, shipped |-> EmptyLength,
                                      handle |-> IF result.memory.ended THEN NoHandle
                                                 ELSE result.value]]
  /\ called' = call
  /\ UNCHANGED <<emptyIsNull, unread>>

(* handle_init() *)
Initialize(g, kind) ==
  /\ Ready /\ engine[g].stage = "none"
  /\ Returned(<<"init">>, g, kind, "iterate", Result(memory, NoHandle))

Iterate(g, len) ==
  LET list == Lowered(len)
      kind == engine[g].kind
  IN  /\ Ready /\ engine[g].stage = "iterate"
      /\ Returned(<<"accum", kind, len>>, g, kind, "iterate",
                  IF kind = "build"
                  THEN AccumulateValue(list.memory, engine[g].handle, list.value)
                  ELSE AccumulateSketch(list.memory, kind, engine[g].handle, list.value))

IterateHash(g, isZero) ==
  /\ Ready /\ engine[g].stage = "iterate" /\ engine[g].kind = "build"
  /\ Returned(<<"accum_by_hash">>, g, "build", "iterate",
              AccumulateHash(memory, engine[g].handle, isZero))

Live(g) == engine[g].stage \in {"iterate", "partial"}

MergeStates(g, h) ==
  LET result == Merge(memory, engine[g].kind, engine[g].handle, engine[h].handle)
  IN  /\ Ready /\ g # h /\ Live(g) /\ Live(h) /\ engine[g].kind = engine[h].kind
      /\ CameBack(result.memory)
      /\ engine' = [engine EXCEPT ![g].stage = "partial", ![g].handle = result.value,
                                  ![h] = NoState]
      /\ called' = <<"merge">>
      /\ UNCHANGED <<emptyIsNull, unread>>

(* SERIALIZE, or TERMINATE, of g: the engine keeps the bytes of the former. *)
Serialize(g, stage) ==
  LET result == SerializeState(memory, engine[g].handle)
  IN  /\ Ready /\ Live(g)
      /\ CameBack(result.memory)
      /\ unread' = result.value
      /\ engine' = [engine EXCEPT ![g] =
           IF stage = "shipped" THEN [@ EXCEPT !.stage = stage, !.handle = NoHandle,
                                               !.shipped = result.value.len]
           ELSE NoState]
      /\ called' = <<"serialize">>
      /\ UNCHANGED emptyIsNull

Deserialize(g) ==
  LET list == Lower(memory, engine[g].shipped)
  IN  /\ Ready /\ engine[g].stage = "shipped"
      /\ Returned(<<"deserialize">>, g, engine[g].kind, "partial",
                  DeserializeState(list.memory, list.value))

ScalarCall ==
  \/ \E len \in Lengths : CallGetEstimate(len) \/ CallToString(len) \/ CallHash(len)
  \/ \E name \in {"union", "intersection", "a_not_b"} : \E len1, len2 \in Lengths :
       CallSetFunction(name, len1, len2)

AggregateCall ==
  \E g \in Groups :
    \/ \E kind \in Kinds : Initialize(g, kind)
    \/ \E len \in Lengths : Iterate(g, len)
    \/ \E isZero \in BOOLEAN : IterateHash(g, isZero)
    \/ \E h \in Groups : MergeStates(g, h)
    \/ \E stage \in {"shipped", "none"} : Serialize(g, stage)
    \/ Deserialize(g)

Next == ScalarCall \/ AggregateCall \/ HostReads

Spec == Init /\ [][Next]_vars

-----------------------------------------------------------------------------
(* What the tag of an object promises the casts that follow it. *)
TaggedAs(block) ==
  CASE block.tag = "MUTABLE_SKETCH" -> block.class = "update"
    [] block.tag = "IMMUTABLE_SKETCH" -> block.class = "compact"
    [] block.tag = "UNION" -> block.class = "union"
    [] block.tag = "INTERSECTION" -> block.class = "intersection" /\ block.isValid

Held == {engine[g].handle : g \in Groups} \ {NoHandle}

(* Type invariant.  Every handle the engine can hand to a callback points  *)
(* to an object of the class its tag names, and before the first merge or  *)
(* deserialization to what the ITERATE callback casts it to                *)
(* (build_accum, union_accum, intersection_accum).                         *)
TypeOK ==
  /\ unread.len \in Lengths
  /\ \A g \in Groups :
       /\ engine[g].stage \in {"none", "iterate", "partial", "shipped"}
       /\ engine[g].shipped \in Lengths
       /\ engine[g].handle # NoHandle =>
            LET block == memory.blocks[engine[g].handle]
            IN  /\ Live(g) /\ TaggedAs(block)
                /\ engine[g].stage = "iterate" => block.class = ClassOf(engine[g].kind)

(* Memory between two calls, on every path through every function and      *)
(* through any history of aggregates merged, shipped and terminated: no    *)
(* call reads or frees what is freed, casts an object to a class it is not *)
(* of, or leaves anything behind, but for one: get_estimate of NULL, in    *)
(* the emptyisnull form, reads a list through nullptr.  What is allocated  *)
(* is what the engine holds handles to, each once, and the one list it has *)
(* yet to read (extension_list_u8_free, theta_sketch_delete, *_get_result, *)
(* RET_AREA).                                                              *)
MemoryBalanced ==
  /\ faulted <=> emptyIsNull /\ called = <<"get_estimate", EmptyLength>>
  /\ ~memory.ended =>
       /\ DOMAIN memory.blocks = Held \cup ({unread.ptr} \ {Null})
       /\ unread.ptr \notin Held
       /\ \A g, h \in Groups : g # h /\ engine[g].handle # NoHandle =>
            engine[g].handle # engine[h].handle

(* The arguments of the last call, if it takes sketches. *)
SketchArguments ==
  CASE called[1] \in {"get_estimate", "to_string"} -> {called[2]}
    [] called[1] \in {"union", "intersection", "a_not_b"} -> {called[2], called[3]}
    [] called[1] = "accum" /\ called[2] # "build" -> {called[3]}
    [] OTHER -> {}

(* Functions for which NULL arguments have no result. *)
RefusesNull ==
  \/ called[1] = "a_not_b" /\ EmptyLength \in SketchArguments
  \/ called[1] = "intersection" /\ SketchArguments = {EmptyLength}

(* The process ends only in a call that is given a list too short to be a  *)
(* sketch, or NULL where no result is defined for it, or get_estimate of   *)
(* NULL, the call that faults (MemoryBalanced).  On sketches it never ends, whatever  *)
(* they hold and however far they were sampled down; no callback ends it   *)
(* on a state another one left (BAIL_IF, wrap, deserialize, get_result,    *)
(* special_n_star, special_n_prime_f).                                     *)
AbortsOnlyOnArguments ==
  LET refused == \/ ShortLength \in SketchArguments
                 \/ ~emptyIsNull /\ EmptyLength \in SketchArguments
                 \/ emptyIsNull /\ RefusesNull
      undefined == emptyIsNull /\ called = <<"get_estimate", EmptyLength>>
  IN  ~undefined => (memory.ended <=> refused)

=============================================================================
