----------------------------- MODULE WasmMemory -----------------------------
(***************************************************************************)
(* The linear memory of the Wasm instance as the extension uses it: blocks *)
(* from malloc, realloc and operator new (external), each holding bytes or *)
(* an object of one class, with the type tag of theta_data where the class *)
(* has one.  Everything is a function from memory to memory; an access     *)
(* outside a block, or through a cast to another class, is a fault.  When  *)
(* the process has ended (abort, exit), nothing more happens to memory.    *)
(***************************************************************************)
EXTENDS Integers, Sequences, FiniteSets

Classes == {"bytes", "update", "compact", "union", "intersection"}
Tags == {"MUTABLE_SKETCH", "IMMUTABLE_SKETCH", "UNION", "INTERSECTION"}
Sketches == {"update", "compact"}     \* the classes derived from theta_sketch

Null == 0
EmptyMemory == [blocks |-> <<>>, fault |-> FALSE, ended |-> FALSE]

(* The address the next allocation returns: any that is free will do. *)
Fresh(m) ==
  CHOOSE a \in 1 .. Cardinality(DOMAIN m.blocks) + 1 : a \notin DOMAIN m.blocks

(* malloc, realloc of NULL, or operator new.  theta_data() tags what it is *)
(* a base of MUTABLE_SKETCH; an intersection has seen nothing yet.         *)
New(m, class) ==
  LET a == Fresh(m)
      block == [class |-> class, tag |-> "MUTABLE_SKETCH", isValid |-> class # "intersection"]
  IN  IF m.ended THEN m
      ELSE [m EXCEPT !.blocks = [b \in DOMAIN @ \cup {a} |-> IF b = a THEN block ELSE @[b]]]

(* Using what is at a as an object of one of the classes. *)
Cast(m, a, classes) ==
  IF m.ended \/ (a \in DOMAIN m.blocks /\ m.blocks[a].class \in classes) THEN m
  ELSE [m EXCEPT !.fault = TRUE]

(* free() *)
Free(m, a) ==
  IF m.ended \/ a = Null THEN m
  ELSE IF a \notin DOMAIN m.blocks THEN [m EXCEPT !.fault = TRUE]
  ELSE [m EXCEPT !.blocks = [b \in DOMAIN @ \ {a} |-> @[b]]]

(* update_theta_sketch_delete(), theta_sketch_delete(), theta_union_delete(), *)
(* theta_intersection_delete()                                                *)
Delete(m, a, classes) == IF a = Null THEN m ELSE Free(Cast(m, a, classes), a)

(* BAIL_IF(), and an error that exits. *)
EndIf(m, condition) == IF condition THEN [m EXCEPT !.ended = TRUE] ELSE m

(* theta_data_set_type() *)
SetType(m, a, tag) ==
  IF m.ended \/ a \notin DOMAIN m.blocks THEN m ELSE [m EXCEPT !.blocks[a].tag = tag]

(* theta_data_get_type() *)
TagAt(m, a) == IF a \in DOMAIN m.blocks THEN m.blocks[a].tag ELSE "MUTABLE_SKETCH"

=============================================================================
