------------------------- MODULE WasmInterfaceProofs -------------------------
(***************************************************************************)
(* The balance of the Wasm module's memory, for every sequence of calls    *)
(* the engine may make and any number of groups: nothing leaks, nothing is *)
(* freed twice or used after it is gone, every handle names an object      *)
(* tagged as what it is, and the process ends only on refused arguments.   *)
(*                                                                         *)
(* Each function is summed up by Turns: it takes the blocks "out" of       *)
(* memory, leaves the blocks "in" new, and touches no other.  The sums of  *)
(* the helpers add up to those of the exported functions, and these keep   *)
(* the invariant.                                                          *)
(***************************************************************************)
EXTENDS WasmInterface, FiniteSetTheorems, TLAPS

(* The objects of the handle library: one that is not an intersection      *)
(* always holds a valid sketch; an intersection may still be undefined.    *)
Block == {b \in [class : Classes, tag : Tags, isValid : BOOLEAN] :
            b.class # "intersection" => b.isValid}

(* Fields under a name, so that a fact can speak of them.                  *)
Ended(m) == m.ended
Allocated(m) == DOMAIN m.blocks
TagIn(m, a) == m.blocks[a].tag
Mem(r) == r.memory
Val(r) == r.value
Valid(m, a) == m.blocks[a].isValid

(* A memory as malloc and the objects leave it. *)
MemoryOK(m) ==
  /\ m = [blocks |-> m.blocks, fault |-> m.fault, ended |-> m.ended]
  /\ m.fault \in BOOLEAN /\ Ended(m) \in BOOLEAN
  /\ m.blocks = [a \in DOMAIN m.blocks |-> m.blocks[a]]
  /\ DOMAIN m.blocks \subseteq Nat \ {Null} /\ IsFiniteSet(DOMAIN m.blocks)
  /\ \A a \in DOMAIN m.blocks : m.blocks[a] \in Block

(* Running: nothing has gone wrong or ended. *)
Running(m) == MemoryOK(m) /\ ~m.fault /\ ~Ended(m)

(* At a there is an object of the class.                                   *)
Holds(m, a, class) == a \in DOMAIN m.blocks /\ m.blocks[a].class = class

(* An address that is free exists whatever is allocated. *)
LEMMA FreshIsFree ==
  ASSUME NEW m, MemoryOK(m)
  PROVE  Fresh(m) \in Nat \ {Null} /\ Fresh(m) \notin DOMAIN m.blocks
<1> DEFINE D == DOMAIN m.blocks
           R == 1 .. Cardinality(D) + 1
<1>1. IsFiniteSet(D) /\ Cardinality(D) \in Nat
  BY FS_CardinalityType DEF MemoryOK
<1>2. IsFiniteSet(R) /\ Cardinality(R) = Cardinality(D) + 1
  BY <1>1, FS_Interval
<1>3. \E a \in R : a \notin D
  <2>1. ~(R \in SUBSET D)
    <3> HIDE DEF R, D
    <3>1. ~(Cardinality(R) <= Cardinality(D))
      BY <1>1, <1>2
    <3> QED
      BY <1>1, <1>2, <3>1, FS_Subset
  <2> QED
    BY <2>1
<1>4. Fresh(m) \in R /\ Fresh(m) \notin D
  BY <1>3 DEF Fresh
<1> QED
  BY <1>1, <1>4 DEF Null

(* Memory with one block more, or one less. *)
With(m, a, block) ==
  [m EXCEPT !.blocks = [b \in DOMAIN @ \cup {a} |-> IF b = a THEN block ELSE @[b]]]
Without(m, a) == [m EXCEPT !.blocks = [b \in DOMAIN @ \ {a} |-> @[b]]]

(* malloc() and the constructors: a block more leaves a memory, with the   *)
(* other blocks as they were.                                              *)
LEMMA WithOK ==
  ASSUME NEW m, MemoryOK(m), NEW a \in Nat \ {Null}, NEW block \in Block
  PROVE  /\ MemoryOK(With(m, a, block))
         /\ With(m, a, block).fault = m.fault /\ Ended(With(m, a, block)) = Ended(m)
         /\ DOMAIN With(m, a, block).blocks = DOMAIN m.blocks \cup {a}
         /\ With(m, a, block).blocks[a] = block
         /\ \A b \in DOMAIN m.blocks \ {a} : With(m, a, block).blocks[b] = m.blocks[b]
<1> DEFINE n == With(m, a, block)
<1>1. n = [blocks |-> [b \in DOMAIN m.blocks \cup {a} |-> IF b = a THEN block ELSE m.blocks[b]],
           fault |-> m.fault, ended |-> m.ended]
  BY DEF With, MemoryOK
<1>2. IsFiniteSet(DOMAIN m.blocks \cup {a})
  BY FS_AddElement DEF MemoryOK
<1>3. DOMAIN m.blocks \cup {a} \subseteq Nat \ {Null}
  BY DEF MemoryOK
<1> QED
  BY <1>1, <1>2, <1>3 DEF MemoryOK, Ended

(* free() and the destructors: a block less leaves a memory, with the      *)
(* other blocks as they were.                                              *)
LEMMA WithoutOK ==
  ASSUME NEW m, MemoryOK(m), NEW a
  PROVE  /\ MemoryOK(Without(m, a))
         /\ Without(m, a).fault = m.fault /\ Ended(Without(m, a)) = Ended(m)
         /\ DOMAIN Without(m, a).blocks = DOMAIN m.blocks \ {a}
         /\ \A b \in DOMAIN m.blocks \ {a} : Without(m, a).blocks[b] = m.blocks[b]
<1> DEFINE n == Without(m, a)
<1>1. n = [blocks |-> [b \in DOMAIN m.blocks \ {a} |-> m.blocks[b]],
           fault |-> m.fault, ended |-> m.ended]
  BY DEF Without, MemoryOK
<1>2. IsFiniteSet(DOMAIN m.blocks \ {a})
  BY FS_RemoveElement DEF MemoryOK
<1>3. DOMAIN m.blocks \ {a} \subseteq Nat \ {Null}
  BY DEF MemoryOK
<1> QED
  BY <1>1, <1>2, <1>3 DEF MemoryOK, Ended

(* What a constructor leaves in a block.                                   *)
NewBlock(class) ==
  [class |-> class, tag |-> "MUTABLE_SKETCH", isValid |-> class # "intersection"]

(* A constructor that the process reaches puts its object in a free block. *)
LEMMA NewIs ==
  ASSUME NEW m, MemoryOK(m), ~Ended(m), NEW class \in Classes
  PROVE  /\ New(m, class) = With(m, Fresh(m), NewBlock(class))
         /\ NewBlock(class) \in Block
BY DEF New, With, NewBlock, Block, Classes, Tags, Ended

(* Using and freeing what is there is no fault. *)
LEMMA UseIs ==
  ASSUME NEW m, MemoryOK(m), NEW a, NEW classes,
         Ended(m) \/ (a \in DOMAIN m.blocks /\ m.blocks[a].class \in classes)
  PROVE  /\ Cast(m, a, classes) = m
         /\ Delete(m, a, classes) = IF Ended(m) THEN m ELSE Without(m, a)
BY DEF Cast, Delete, Free, Without, MemoryOK, Ended

(* Once the process has ended nothing more happens to memory. *)
LEMMA EndedStays ==
  ASSUME NEW m, Ended(m), NEW a, NEW class, NEW classes, NEW tag
  PROVE  /\ New(m, class) = m /\ Cast(m, a, classes) = m
         /\ Delete(m, a, classes) = m /\ SetType(m, a, tag) = m
         /\ UpdateObject(m, a, class) = m
BY DEF New, Cast, Delete, Free, SetType, UpdateObject, Ended

(* THROW / abort(): the process ends when the condition holds, and memory  *)
(* is otherwise untouched.                                                 *)
LEMMA EndIfIs ==
  ASSUME NEW m, MemoryOK(m), NEW condition \in BOOLEAN
  PROVE  /\ MemoryOK(EndIf(m, condition))
         /\ EndIf(m, condition).blocks = m.blocks
         /\ EndIf(m, condition).fault = m.fault
         /\ Ended(EndIf(m, condition)) = (Ended(m) \/ condition)
         /\ ~condition => EndIf(m, condition) = m
BY DEF EndIf, MemoryOK, Ended

(* n is what a call made of m: the blocks at out are gone, or changed, and *)
(* those at in are new, or changed; nothing else was touched, even when    *)
(* the call ended the process half way.                                    *)
Turns(m, n, out, in) ==
  /\ MemoryOK(n) /\ ~n.fault
  /\ \A b \in DOMAIN m.blocks \ out : b \in DOMAIN n.blocks /\ n.blocks[b] = m.blocks[b]
  /\ ~Ended(n) => /\ DOMAIN n.blocks = (DOMAIN m.blocks \ out) \cup in
                  /\ in \cap (DOMAIN m.blocks \ out) = {}

(* What n and k have in common but for the block at a. *)
Others(n, k, a) ==
  \A b \in DOMAIN n.blocks \ {a} : b \in DOMAIN k.blocks /\ k.blocks[b] = n.blocks[b]

(* Sets of addresses with one more, or less, and with those of a list. *)
Plus(S, a) == S \cup {a}
Minus(S, a) == S \ {a}
Join(S, T) == S \cup T
Less(S, T) == S \ T

(* A function that does nothing.                                           *)
LEMMA TurnsNothing ==
  ASSUME NEW m, MemoryOK(m), ~m.fault
  PROVE  Turns(m, m, {}, {})
BY DEF Turns

(* One object more: a new, a malloc().                                     *)
LEMMA TurnsNew ==
  ASSUME NEW m, NEW n, NEW out, NEW in, NEW class, NEW k, NEW a, k = New(n, class),
         a = Fresh(n), Turns(m, n, out, in), class \in Classes
  PROVE  /\ Turns(m, k, out, Plus(in, a)) /\ Ended(k) = Ended(n)
         /\ a \in Nat \ {Null} /\ a \notin DOMAIN n.blocks
         /\ Others(n, k, a)
         /\ ~Ended(n) => a \in DOMAIN k.blocks /\ k.blocks[a] = NewBlock(class)
<1>0. MemoryOK(n) /\ ~n.fault
  BY DEF Turns
<1>1. a \in Nat \ {Null} /\ a \notin DOMAIN n.blocks
  BY <1>0, FreshIsFree
<1>2. CASE Ended(n)
  <2>1. k = n
    BY <1>2, EndedStays
  <2> QED
    BY <1>1, <1>2, <2>1 DEF Turns, Others
<1>3. CASE ~Ended(n)
  <2>1. /\ MemoryOK(k) /\ k.fault = n.fault /\ Ended(k) = Ended(n)
        /\ DOMAIN k.blocks = DOMAIN n.blocks \cup {a}
        /\ k.blocks[a] = NewBlock(class)
        /\ \A b \in DOMAIN n.blocks \ {a} : k.blocks[b] = n.blocks[b]
    BY <1>0, <1>1, <1>3, NewIs, WithOK
  <2> QED
    BY <1>0, <1>1, <1>3, <2>1 DEF Turns, Plus, Others
<1> QED
  BY <1>2, <1>3

(* Reading through a cast to a class the object has changes nothing.       *)
LEMMA TurnsCast ==
  ASSUME NEW m, NEW n, NEW out, NEW in, NEW a, NEW classes, Turns(m, n, out, in),
         Ended(n) \/ (a \in DOMAIN n.blocks /\ n.blocks[a].class \in classes)
  PROVE  Cast(n, a, classes) = n
BY UseIs DEF Turns

(* One object less: delete through the class it has (theta_sketch_delete() *)
(* and its like).                                                          *)
LEMMA TurnsDelete ==
  ASSUME NEW m, NEW n, NEW out, NEW in, NEW a, NEW classes, NEW k,
         k = Delete(n, a, classes), Turns(m, n, out, in),
         Ended(n) \/ (a \in DOMAIN n.blocks /\ n.blocks[a].class \in classes)
  PROVE  /\ Turns(m, k, Plus(out, a), Minus(in, a)) /\ Ended(k) = Ended(n)
         /\ Others(n, k, a)
<1>0. MemoryOK(n) /\ ~n.fault
  BY DEF Turns
<1>1. CASE Ended(n)
  <2>1. k = n
    BY <1>1, EndedStays
  <2> QED
    BY <1>1, <2>1 DEF Turns, Plus, Others
<1>2. CASE ~Ended(n)
  <2>1. /\ MemoryOK(k) /\ k.fault = n.fault /\ Ended(k) = Ended(n)
        /\ DOMAIN k.blocks = DOMAIN n.blocks \ {a}
        /\ \A b \in DOMAIN n.blocks \ {a} : k.blocks[b] = n.blocks[b]
    BY <1>0, <1>2, UseIs, WithoutOK
  <2> QED
    BY <1>0, <1>2, <2>1 DEF Turns, Plus, Minus, Others
<1> QED
  BY <1>1, <1>2

(* A check that may end the process (deserialize, get_result of an         *)
(* undefined intersection).                                                *)
LEMMA TurnsEndIf ==
  ASSUME NEW m, NEW n, NEW out, NEW in, NEW condition, NEW k, k = EndIf(n, condition),
         Turns(m, n, out, in), condition \in BOOLEAN
  PROVE  /\ Turns(m, k, out, in) /\ k.blocks = n.blocks
         /\ Ended(k) = (Ended(n) \/ condition)
         /\ ~condition => k = n
<1>0. MemoryOK(n) /\ ~n.fault
  BY DEF Turns
<1> QED
  BY <1>0, EndIfIs DEF Turns

(* A block that is deleted where it was new leaves no trace. *)
LEMMA TurnsForget ==
  ASSUME NEW m, NEW n, NEW out, NEW in, NEW a, Turns(m, n, Plus(out, a), in),
         a \notin DOMAIN m.blocks \ out
  PROVE  Turns(m, n, out, in)
<1>1. DOMAIN m.blocks \ Plus(out, a) = DOMAIN m.blocks \ out
  BY DEF Plus
<1> QED
  BY <1>1 DEF Turns
-----------------------------------------------------------------------------
(* Changing an object in place. *)
LEMMA TurnsChange ==
  ASSUME NEW m, NEW n, NEW out, NEW in, NEW a, NEW block, NEW k,
         k = [n EXCEPT !.blocks[a] = block], Turns(m, n, out, in), ~Ended(n),
         a \in DOMAIN n.blocks, block \in Block
  PROVE  /\ Turns(m, k, Plus(out, a), Plus(in, a)) /\ Ended(k) = Ended(n)
         /\ Allocated(k) = Allocated(n) /\ k.blocks[a] = block
         /\ Others(n, k, a)
<1>1. MemoryOK(n) /\ ~n.fault
  BY DEF Turns
<1>2. k = [blocks |-> [b \in DOMAIN n.blocks |-> IF b = a THEN block ELSE n.blocks[b]],
           fault |-> n.fault, ended |-> n.ended]
  BY <1>1 DEF MemoryOK
<1>3. MemoryOK(k) /\ ~k.fault
  BY <1>1, <1>2 DEF MemoryOK, Ended
<1>4. /\ Ended(k) = Ended(n) /\ Allocated(k) = Allocated(n) /\ k.blocks[a] = block
      /\ \A b \in DOMAIN n.blocks \ {a} : k.blocks[b] = n.blocks[b]
  BY <1>2 DEF Ended, Allocated
<1> QED
  BY <1>3, <1>4 DEF Turns, Plus, Others

(* update() of a union, an intersection or an update sketch: the object    *)
(* keeps class and tag.                                                    *)
LEMMA TurnsUpdate ==
  ASSUME NEW m, NEW n, NEW out, NEW in, NEW a, NEW class, NEW k,
         k = UpdateObject(n, a, class), Turns(m, n, out, in),
         Ended(n) \/ Holds(n, a, class)
  PROVE  /\ Turns(m, k, Plus(out, a), Plus(in, a)) /\ Ended(k) = Ended(n)
         /\ Allocated(k) = Allocated(n) /\ Others(n, k, a)
         /\ ~Ended(n) => /\ Holds(k, a, class) /\ Valid(k, a)
                         /\ TagIn(k, a) = TagIn(n, a)
<1>1. CASE Ended(n)
  <2>1. k = n
    BY <1>1, EndedStays
  <2> QED
    BY <1>1, <2>1 DEF Turns, Plus, Others
<1>2. CASE ~Ended(n)
  <2> DEFINE block == [n.blocks[a] EXCEPT !.isValid = TRUE]
  <2>1. a \in DOMAIN n.blocks /\ n.blocks[a] \in Block /\ n.blocks[a].class = class
    BY <1>2 DEF Holds, Turns, MemoryOK
  <2>2. /\ block \in Block /\ block.class = class /\ block.isValid
        /\ block.tag = n.blocks[a].tag
    BY <2>1 DEF Block
  <2>3. Cast(n, a, {class}) = n
    BY <2>1, TurnsCast
  <2>4. ~n.fault
    BY DEF Turns
  <2>5. k = [n EXCEPT !.blocks[a] = block]
    BY <1>2, <2>1, <2>3, <2>4 DEF UpdateObject, Ended
  <2> HIDE DEF block
  <2>6. /\ Turns(m, k, Plus(out, a), Plus(in, a)) /\ Ended(k) = Ended(n)
        /\ Allocated(k) = Allocated(n) /\ k.blocks[a] = block
        /\ Others(n, k, a)
    BY <1>2, <2>1, <2>2, <2>5, TurnsChange
  <2> QED
    BY <2>1, <2>2, <2>6 DEF Holds, Allocated, Valid, TagIn
<1> QED
  BY <1>1, <1>2

(* theta_data::set_type(): the object keeps its class and validity.        *)
LEMMA TurnsSetType ==
  ASSUME NEW m, NEW n, NEW out, NEW in, NEW a, NEW tag, NEW k, k = SetType(n, a, tag),
         Turns(m, n, out, in), tag \in Tags, Ended(n) \/ a \in DOMAIN n.blocks
  PROVE  /\ Turns(m, k, Plus(out, a), Plus(in, a)) /\ Ended(k) = Ended(n)
         /\ Allocated(k) = Allocated(n) /\ Others(n, k, a)
         /\ ~Ended(n) => /\ TagIn(k, a) = tag /\ Valid(k, a) = Valid(n, a)
                         /\ \A class : Holds(n, a, class) => Holds(k, a, class)
<1>1. CASE Ended(n)
  <2>1. k = n
    BY <1>1, EndedStays
  <2> QED
    BY <1>1, <2>1 DEF Turns, Plus, Others
<1>2. CASE ~Ended(n)
  <2> DEFINE block == [n.blocks[a] EXCEPT !.tag = tag]
  <2>1. a \in DOMAIN n.blocks /\ n.blocks[a] \in Block
    BY <1>2 DEF Turns, MemoryOK
  <2>2. /\ block \in Block /\ block.tag = tag /\ block.class = n.blocks[a].class
        /\ block.isValid = Valid(n, a)
    BY <2>1 DEF Block, Valid
  <2>3. k = [n EXCEPT !.blocks[a] = block]
    BY <1>2, <2>1 DEF SetType, Ended
  <2> HIDE DEF block
  <2>4. /\ Turns(m, k, Plus(out, a), Plus(in, a)) /\ Ended(k) = Ended(n)
        /\ Allocated(k) = Allocated(n) /\ k.blocks[a] = block
        /\ Others(n, k, a)
    BY <1>2, <2>1, <2>2, <2>3, TurnsChange
  <2> QED
    BY <2>1, <2>2, <2>4 DEF Allocated, Valid, TagIn, Holds
<1> QED
  BY <1>1, <1>2

(* theta_union_get_result(), theta_intersection_get_result() *)
LEMMA TurnsResult ==
  ASSUME NEW m, NEW n, NEW out, NEW in, NEW a, NEW class, NEW r,
         r = ResultOf(n, a, class), Turns(m, n, out, in),
         Ended(n) \/ Holds(n, a, class)
  PROVE  /\ Turns(m, Mem(r), Plus(out, a), Minus(Plus(in, Val(r)), a))
         /\ Ended(Mem(r)) = (Ended(n) \/ ~Valid(n, a))
         /\ Val(r) \in Nat \ {Null} /\ Val(r) \notin DOMAIN n.blocks
         /\ Others(n, Mem(r), a)
         /\ ~Ended(Mem(r)) => Holds(Mem(r), Val(r), "compact")
<1>a. PICK ends \in BOOLEAN : ends = (~n.fault /\ ~Ended(n) /\ ~Valid(n, a))
  OBVIOUS
<1>0. PICK given : given = EndIf(n, ends)
  OBVIOUS
<1>1. PICK new : new = New(given, "compact")
  OBVIOUS
<1>2. PICK v : v = Fresh(given)
  OBVIOUS
<1>3. PICK k : k = Delete(new, a, {class})
  OBVIOUS
<1>4. MemoryOK(n) /\ ~n.fault /\ Ended(n) \in BOOLEAN
  BY DEF Turns, MemoryOK
<1>5. r = Result(k, v)
  <2>1. Cast(n, a, {class}) = n
    BY TurnsCast DEF Holds
  <2> QED
    BY <1>a, <1>0, <1>1, <1>2, <1>3, <2>1 DEF ResultOf, Valid, Ended
<1>6. /\ Turns(m, given, out, in) /\ given.blocks = n.blocks
      /\ Ended(given) = (Ended(n) \/ ~Valid(n, a))
  <2>1. /\ Turns(m, given, out, in) /\ given.blocks = n.blocks
        /\ Ended(given) = (Ended(n) \/ ends)
    BY <1>0, TurnsEndIf
  <2>2. CASE Ended(n)
    BY <2>1, <2>2
  <2>3. CASE ~Ended(n)
    <3>1. n.blocks[a] \in Block
      BY <1>4, <2>3 DEF Holds, MemoryOK
    <3>2. Valid(n, a) \in BOOLEAN
      BY <3>1 DEF Block, Valid
    <3> QED
      BY <1>a, <1>4, <2>1, <2>3, <3>2
  <2> QED
    BY <2>2, <2>3
<1>7. /\ Turns(m, new, out, Plus(in, v)) /\ Ended(new) = Ended(given)
      /\ v \in Nat \ {Null} /\ v \notin DOMAIN n.blocks
      /\ Others(n, new, v)
      /\ ~Ended(given) => v \in DOMAIN new.blocks /\ new.blocks[v] = NewBlock("compact")
  <2>1. "compact" \in Classes
    BY DEF Classes
  <2>2. /\ Turns(m, new, out, Plus(in, v)) /\ Ended(new) = Ended(given)
        /\ v \in Nat \ {Null} /\ v \notin DOMAIN given.blocks
        /\ Others(given, new, v)
        /\ ~Ended(given) => v \in DOMAIN new.blocks /\ new.blocks[v] = NewBlock("compact")
    BY <1>1, <1>2, <1>6, <2>1, TurnsNew
  <2> QED
    BY <1>6, <2>2 DEF Others
<1>8. Ended(new) \/ (a \in DOMAIN new.blocks /\ new.blocks[a].class \in {class})
  BY <1>6, <1>7 DEF Holds, Others
<1>9. /\ Turns(m, k, Plus(out, a), Minus(Plus(in, v), a)) /\ Ended(k) = Ended(new)
      /\ Others(new, k, a)
  BY <1>3, <1>7, <1>8, TurnsDelete
<1>10. Others(n, k, a)
  BY <1>7, <1>9 DEF Others
<1>11. ~Ended(k) => Holds(k, v, "compact")
  <2> SUFFICES ASSUME ~Ended(k) PROVE Holds(k, v, "compact")
    OBVIOUS
  <2>1. a # v
    BY <1>6, <1>7, <1>9 DEF Holds
  <2> QED
    BY <1>6, <1>7, <1>9, <2>1 DEF Holds, NewBlock, Others
<1> QED
  BY <1>5, <1>6, <1>7, <1>9, <1>10, <1>11 DEF Result, Mem, Val


-----------------------------------------------------------------------------
(* Lists: where they are, and what the helpers on them do. *)
Ptr(list) == list.ptr
Ptrs(list) == {Ptr(list)} \ {Null}

(* The lengths the model tells apart.                                      *)
ProperLength(list) == list.len \in Lengths

(* A list that is none, or whose bytes are there.                          *)
ListIn(m, list) ==
  /\ list = List(Ptr(list), list.len) /\ ProperLength(list)
  /\ list = NullList \/ Holds(m, Ptr(list), "bytes")

(* Too short to be parsed as a sketch; Short also says that there is a     *)
(* list.                                                                   *)
TooShort(list) == list.len < SketchLength
Short(list) == list # NullList /\ TooShort(list)

(* Whether a list is too short is a matter of its length alone.            *)
LEMMA TooShortOrNot ==
  ASSUME NEW list, ProperLength(list)
  PROVE  TooShort(list) \in BOOLEAN
BY DEF TooShort, ProperLength, Lengths, EmptyLength, ShortLength, SketchLength

(* A list is still there when another object has come, gone or changed.    *)
LEMMA ListInStays ==
  ASSUME NEW n, NEW k, NEW a, NEW list, Others(n, k, a), ListIn(n, list),
         Ptr(list) # a
  PROVE  ListIn(k, list)
BY DEF ListIn, Others, Holds

(* An object is still there when another has come, gone or changed.        *)
LEMMA HoldsStays ==
  ASSUME NEW n, NEW k, NEW a, NEW b, NEW class, Others(n, k, a), Holds(n, b, class),
         b # a
  PROVE  Holds(k, b, class) /\ k.blocks[b] = n.blocks[b]
BY DEF Others, Holds

(* extension_list_u8_free(): the bytes are gone; of a null list nothing    *)
(* is.                                                                     *)
LEMMA TurnsFreeList ==
  ASSUME NEW m, NEW n, NEW out, NEW in, NEW list, NEW k, k = FreeList(n, list),
         Turns(m, n, out, in),
         Ptr(list) = Null \/ Ended(n) \/ Holds(n, Ptr(list), "bytes")
  PROVE  /\ Turns(m, k, Join(out, Ptrs(list)), Less(in, Ptrs(list))) /\ Ended(k) = Ended(n)
         /\ Others(n, k, Ptr(list))
<1>1. CASE Ptr(list) = Null
  <2>1. k = n /\ Ptrs(list) = {}
    BY <1>1 DEF FreeList, Delete, Ptrs, Ptr
  <2>2. Join(out, Ptrs(list)) = out /\ Less(in, Ptrs(list)) = in
    BY <2>1 DEF Join, Less
  <2> QED
    BY <2>1, <2>2 DEF Others
<1>2. CASE Ptr(list) # Null
  <2>1. Ptrs(list) = {Ptr(list)}
    BY <1>2 DEF Ptrs
  <2>2. k = Delete(n, Ptr(list), {"bytes"})
    BY DEF FreeList, Ptr
  <2>3. Ended(n) \/ (Ptr(list) \in DOMAIN n.blocks /\ n.blocks[Ptr(list)].class \in {"bytes"})
    BY <1>2 DEF Holds
  <2>4. /\ Turns(m, k, Plus(out, Ptr(list)), Minus(in, Ptr(list))) /\ Ended(k) = Ended(n)
        /\ Others(n, k, Ptr(list))
    BY <2>2, <2>3, TurnsDelete
  <2>5. Plus(out, Ptr(list)) = Join(out, Ptrs(list)) /\ Minus(in, Ptr(list)) = Less(in, Ptrs(list))
    BY <2>1 DEF Plus, Join, Minus, Less
  <2> QED
    BY <2>4, <2>5
<1> QED
  BY <1>1, <1>2

(* theta_sketch_serialize(): the bytes are new, the sketch is left as it   *)
(* was.                                                                    *)
LEMMA TurnsSerialize ==
  ASSUME NEW m, NEW n, NEW out, NEW in, NEW a, NEW r, r = SerializeSketch(n, a),
         Turns(m, n, out, in), Ended(n) \/ Holds(n, a, "compact")
  PROVE  /\ Turns(m, Mem(r), out, Plus(in, Ptr(Val(r)))) /\ Ended(Mem(r)) = Ended(n)
         /\ Val(r) = List(Ptr(Val(r)), SketchLength)
         /\ Ptr(Val(r)) \in Nat \ {Null} /\ Ptr(Val(r)) \notin DOMAIN n.blocks
         /\ Others(n, Mem(r), Ptr(Val(r)))
         /\ ~Ended(n) => Holds(Mem(r), Ptr(Val(r)), "bytes")
<1>1. PICK p : p = Fresh(n)
  OBVIOUS
<1>2. PICK k : k = New(n, "bytes")
  OBVIOUS
<1>3. Cast(n, a, {"compact"}) = n
  BY TurnsCast DEF Holds
<1>4. r = Result(k, List(p, SketchLength))
  BY <1>1, <1>2, <1>3 DEF SerializeSketch
<1>5. "bytes" \in Classes
  BY DEF Classes
<1>6. /\ Turns(m, k, out, Plus(in, p)) /\ Ended(k) = Ended(n)
      /\ p \in Nat \ {Null} /\ p \notin DOMAIN n.blocks
      /\ Others(n, k, p)
      /\ ~Ended(n) => p \in DOMAIN k.blocks /\ k.blocks[p] = NewBlock("bytes")
  BY <1>1, <1>2, <1>5, TurnsNew
<1> QED
  BY <1>4, <1>6 DEF Result, List, Holds, NewBlock, Ptr, Mem, Val

(* theta_sketch_deserialize(): a new sketch, or the process ends because   *)
(* the bytes are too few.                                                  *)
LEMMA TurnsDeserialize ==
  ASSUME NEW m, NEW n, NEW out, NEW in, NEW list, NEW r, r = DeserializeList(n, list),
         Turns(m, n, out, in), Ended(n) \/ Holds(n, Ptr(list), "bytes"),
         ProperLength(list)
  PROVE  /\ Turns(m, Mem(r), out, Plus(in, Val(r)))
         /\ Ended(Mem(r)) = (Ended(n) \/ TooShort(list))
         /\ Val(r) \in Nat \ {Null} /\ Val(r) \notin DOMAIN n.blocks
         /\ Others(n, Mem(r), Val(r))
         /\ ~Ended(Mem(r)) => Holds(Mem(r), Val(r), "compact")
<1>1. PICK short \in BOOLEAN : short = TooShort(list)
  BY TooShortOrNot
<1>2. PICK read : read = EndIf(n, short)
  OBVIOUS
<1>3. PICK v : v = Fresh(read)
  OBVIOUS
<1>4. PICK k : k = New(read, "compact")
  OBVIOUS
<1>5. Cast(n, Ptr(list), {"bytes"}) = n
  BY TurnsCast DEF Holds
<1>6. r = Result(k, v)
  BY <1>1, <1>2, <1>3, <1>4, <1>5 DEF DeserializeList, TooShort, Ptr
<1>7. /\ Turns(m, read, out, in) /\ read.blocks = n.blocks
      /\ Ended(read) = (Ended(n) \/ short)
  BY <1>2, TurnsEndIf
<1>8. "compact" \in Classes
  BY DEF Classes
<1>9. /\ Turns(m, k, out, Plus(in, v)) /\ Ended(k) = Ended(read)
      /\ v \in Nat \ {Null} /\ v \notin DOMAIN read.blocks
      /\ Others(read, k, v)
      /\ ~Ended(read) => v \in DOMAIN k.blocks /\ k.blocks[v] = NewBlock("compact")
  BY <1>3, <1>4, <1>7, <1>8, TurnsNew
<1> QED
  <2>1. Ended(k) = (Ended(n) \/ TooShort(list))
    BY <1>1, <1>7, <1>9
  <2>2. Mem(r) = k /\ Val(r) = v
    BY <1>6 DEF Result, Mem, Val
  <2> QED
    BY <1>7, <1>9, <2>1, <2>2 DEF Holds, NewBlock, Others

(* *_update_with_bytes() *)
LEMMA TurnsBytes ==
  ASSUME NEW m, NEW n, NEW out, NEW in, NEW a, NEW class, NEW list, NEW k,
         k = UpdateWithBytes(n, a, class, list), Turns(m, n, out, in),
         Ended(n) \/ Holds(n, a, class), ProperLength(list),
         Ended(n) \/ Holds(n, Ptr(list), "bytes")
  PROVE  /\ Turns(m, k, Plus(out, a), Plus(in, a))
         /\ Ended(k) = (Ended(n) \/ TooShort(list))
         /\ Allocated(k) = Allocated(n) /\ Others(n, k, a)
         /\ ~Ended(k) => /\ Holds(k, a, class) /\ Valid(k, a)
                         /\ TagIn(k, a) = TagIn(n, a)
<1>1. PICK short \in BOOLEAN : short = TooShort(list)
  BY TooShortOrNot
<1>2. PICK read : read = EndIf(n, short)
  OBVIOUS
<1>3. Cast(n, Ptr(list), {"bytes"}) = n
  BY TurnsCast DEF Holds
<1>4. k = UpdateObject(read, a, class)
  BY <1>1, <1>2, <1>3 DEF UpdateWithBytes, TooShort, Ptr
<1>5. /\ Turns(m, read, out, in) /\ read.blocks = n.blocks
      /\ Ended(read) = (Ended(n) \/ short)
  BY <1>2, TurnsEndIf
<1>6. Ended(read) \/ Holds(read, a, class)
  BY <1>5 DEF Holds
<1>7. /\ Turns(m, k, Plus(out, a), Plus(in, a)) /\ Ended(k) = Ended(read)
      /\ Allocated(k) = Allocated(read) /\ Others(read, k, a)
      /\ ~Ended(read) => /\ Holds(k, a, class) /\ Valid(k, a)
                         /\ TagIn(k, a) = TagIn(read, a)
  BY <1>4, <1>5, <1>6, TurnsUpdate
<1> QED
  <2>1. Ended(k) = (Ended(n) \/ TooShort(list))
    BY <1>1, <1>5, <1>7
  <2> QED
    BY <1>5, <1>7, <2>1 DEF Others, Allocated, TagIn

(* An argument given to a union or intersection: a null list is skipped.   *)
LEMMA TurnsGiven ==
  ASSUME NEW m, NEW n, NEW out, NEW in, NEW a, NEW class, NEW list, NEW k,
         k = UpdateGiven(n, a, class, list), Turns(m, n, out, in),
         Ended(n) \/ Holds(n, a, class), Ended(n) \/ ListIn(n, list),
         ProperLength(list)
  PROVE  /\ Turns(m, k, Plus(out, a), Plus(in, a))
         /\ Ended(k) = (Ended(n) \/ Short(list))
         /\ Allocated(k) = Allocated(n) /\ Others(n, k, a)
         /\ ~Ended(k) => /\ Holds(k, a, class)
                         /\ IF list = NullList THEN k = n ELSE Valid(k, a)
<1>1. CASE list = NullList
  <2>1. k = n
    BY <1>1 DEF UpdateGiven
  <2> QED
    BY <1>1, <2>1 DEF Turns, Plus, Holds, Others, Short, MemoryOK
<1>2. CASE list # NullList
  <2>1. k = UpdateWithBytes(n, a, class, list)
    BY <1>2 DEF UpdateGiven
  <2>2. Ended(n) \/ Holds(n, Ptr(list), "bytes")
    BY <1>2 DEF ListIn
  <2>3. /\ Turns(m, k, Plus(out, a), Plus(in, a))
        /\ Ended(k) = (Ended(n) \/ TooShort(list))
        /\ Allocated(k) = Allocated(n) /\ Others(n, k, a)
        /\ ~Ended(k) => /\ Holds(k, a, class) /\ Valid(k, a)
    BY <2>1, <2>2, TurnsBytes
  <2> QED
    BY <1>2, <2>3 DEF Short
<1> QED
  BY <1>1, <1>2

-----------------------------------------------------------------------------
(* The scalar functions.  Each answers with a list of its own, frees those *)
(* it was given, and ends the process exactly when it refuses them.        *)
Answers(m, r, owned, refuses) ==
  /\ Turns(m, Mem(r), owned, Ptrs(Val(r)))
  /\ Val(r) = List(Ptr(Val(r)), Val(r).len) /\ ProperLength(Val(r))
  /\ Ended(Mem(r)) \/ ListIn(Mem(r), Val(r))
  /\ Ended(Mem(r)) = refuses

(* The null list needs nothing in memory.                                  *)
LEMMA NullListIs ==
  /\ Ptrs(NullList) = {} /\ Ptr(NullList) = Null /\ ProperLength(NullList)
  /\ NullList = List(Ptr(NullList), NullList.len)
  /\ \A m : ListIn(m, NullList)
BY DEF Ptrs, NullList, List, ListIn, Lengths, Ptr, ProperLength

(* A list that is not null has its bytes in memory.                        *)
LEMMA ListInMemory ==
  ASSUME NEW m, NEW list, MemoryOK(m), ListIn(m, list), list # NullList
  PROVE  /\ Holds(m, Ptr(list), "bytes") /\ Ptr(list) \in DOMAIN m.blocks
         /\ Ptrs(list) = {Ptr(list)} /\ Ptr(list) # Null
BY DEF ListIn, Holds, MemoryOK, Ptrs

(* Memory once a call has come back: as it left it, but for the fault.     *)
Settled(m) == [m EXCEPT !.fault = FALSE]

(* A memory without a fault stays as it is. *)
LEMMA SettledIs ==
  ASSUME NEW m, MemoryOK(m), ~m.fault
  PROVE  Settled(m) = m
BY DEF Settled, MemoryOK

(* extension_sketch_get_estimate() of the null list: it faults, and leaves *)
(* memory as it was; it ends the process only where the read traps.        *)
LEMMA EstimateOfNullIs ==
  ASSUME NEW m, NEW traps, NEW r, r = EstimateFunction(m, NullList, traps),
         Running(m), traps \in BOOLEAN
  PROVE  /\ Mem(r).fault = TRUE
         /\ Answers(m, Result(Settled(Mem(r)), NullList), {}, traps)
         /\ Ended(Mem(r)) = traps /\ Val(r) = NullList
<1>1. Turns(m, m, {}, {}) /\ ~Ended(m) /\ MemoryOK(m) /\ Null \notin DOMAIN m.blocks
  BY TurnsNothing DEF Running, MemoryOK
<1>2. PICK k : k = EndIf(m, traps)
  OBVIOUS
<1>3. PICK read : read = [m EXCEPT !.fault = TRUE]
  OBVIOUS
<1>4. Mem(r) = EndIf(read, traps) /\ Val(r) = NullList
  BY <1>1, <1>3 DEF EstimateFunction, Result, Mem, Val, Cast, NullList, List, Ended
<1>5. PICK b : b = m.blocks
  OBVIOUS
<1>6. m = [blocks |-> b, fault |-> FALSE, ended |-> FALSE]
  <2>1. PICK f \in BOOLEAN : f = m.fault
    BY DEF Running, MemoryOK
  <2>2. PICK e \in BOOLEAN : e = m.ended
    BY DEF Running, MemoryOK, Ended
  <2>3. m = [blocks |-> b, fault |-> f, ended |-> e]
    BY <1>5, <2>1, <2>2 DEF Running, MemoryOK
  <2>4. f = FALSE /\ e = FALSE
    BY <2>1, <2>2 DEF Running, Ended
  <2> QED
    BY <2>3, <2>4
<1>7. PICK mem : mem = Mem(r)
  OBVIOUS
<1>8. /\ mem = [blocks |-> b, fault |-> TRUE, ended |-> traps]
      /\ k = [blocks |-> b, fault |-> FALSE, ended |-> traps]
  <2>1. read = [blocks |-> b, fault |-> TRUE, ended |-> FALSE]
    BY <1>3, <1>6
  <2>2. CASE traps = TRUE
    <3>1. mem = [read EXCEPT !.ended = TRUE] /\ k = [m EXCEPT !.ended = TRUE]
      BY <1>2, <1>4, <1>7, <2>2 DEF EndIf
    <3> QED
      BY ONLY <1>6, <2>1, <2>2, <3>1
  <2>3. CASE traps = FALSE
    <3>1. mem = read /\ k = m
      BY <1>2, <1>4, <1>7, <2>3 DEF EndIf
    <3> QED
      BY ONLY <1>6, <2>1, <2>3, <3>1
  <2> QED
    BY <2>2, <2>3
<1>9. Settled(mem) = k /\ mem.fault = TRUE /\ Ended(mem) = traps
  <2>0. PICK settled : settled = [mem EXCEPT !.fault = FALSE]
    OBVIOUS
  <2>0a. mem = [blocks |-> b, fault |-> TRUE, ended |-> traps]
    BY <1>8
  <2>0b. settled = [blocks |-> b, fault |-> FALSE, ended |-> traps]
    BY ONLY <2>0, <2>0a
  <2>1. [mem EXCEPT !.fault = FALSE] = k
    BY <1>8, <2>0, <2>0b
  <2>2. mem.fault = TRUE
    BY ONLY <1>8
  <2>3. mem.ended = traps
    BY ONLY <1>8
  <2> QED
    BY <2>1, <2>2, <2>3 DEF Settled, Ended
<1>10. Turns(m, k, {}, {}) /\ Ended(k) = traps
  BY <1>1, <1>2, TurnsEndIf
<1>11. PICK result : result = Result(k, NullList)
  OBVIOUS
<1>12. Mem(result) = k /\ Val(result) = NullList
  BY <1>11 DEF Result, Mem, Val
<1>13. Answers(m, result, {}, traps)
  BY <1>10, <1>12, NullListIs DEF Answers
<1> QED
  BY <1>4, <1>7, <1>9, <1>11, <1>13

(* Of any other list it frees the argument, and ends the process if it is  *)
(* too short.                                                              *)
LEMMA EstimateIs ==
  ASSUME NEW m, NEW list, NEW traps, NEW r, r = EstimateFunction(m, list, traps),
         Running(m), ListIn(m, list), list # NullList
  PROVE  Answers(m, r, Ptrs(list), TooShort(list))
<1>1. Turns(m, m, {}, {}) /\ ~Ended(m) /\ MemoryOK(m)
  BY TurnsNothing DEF Running
<1>2. ProperLength(list) /\ Holds(m, Ptr(list), "bytes")
  BY DEF ListIn
<1>3. PICK short \in BOOLEAN : short = TooShort(list)
  BY <1>2, TooShortOrNot
<1>4. PICK given : given = EndIf(m, short)
  OBVIOUS
<1>5. PICK sketch : sketch = DeserializeList(given, list)
  OBVIOUS
<1>a. PICK s : s = Mem(sketch)
  OBVIOUS
<1>b. PICK v : v = Val(sketch)
  OBVIOUS
<1>6. PICK n : n = Delete(s, v, Sketches)
  OBVIOUS
<1>7. PICK k : k = FreeList(n, list)
  OBVIOUS
<1>8. Mem(r) = k /\ Val(r) = NullList
  BY <1>3, <1>4, <1>5, <1>a, <1>b, <1>6, <1>7 DEF EstimateFunction, TooShort, Result, Mem, Val
<1>9. Turns(m, given, {}, {}) /\ given.blocks = m.blocks /\ Ended(given) = short
  BY <1>1, <1>4, TurnsEndIf
<1>10. Holds(given, Ptr(list), "bytes")
  BY <1>2, <1>9 DEF Holds
<1>11. /\ Turns(m, s, {}, Plus({}, v))
       /\ Ended(s) = (Ended(given) \/ TooShort(list))
       /\ v \in Nat \ {Null} /\ v \notin DOMAIN given.blocks
       /\ Others(given, s, v)
       /\ ~Ended(s) => Holds(s, v, "compact")
  BY <1>2, <1>5, <1>a, <1>b, <1>9, <1>10, TurnsDeserialize
<1>12. Ended(s) = short /\ v # Ptr(list) /\ v \notin DOMAIN m.blocks
  BY <1>3, <1>9, <1>10, <1>11 DEF Holds
<1>13. Holds(s, Ptr(list), "bytes")
  BY <1>10, <1>11, <1>12, HoldsStays
<1>14. Ended(s) \/ (v \in DOMAIN s.blocks /\ s.blocks[v].class \in Sketches)
  BY <1>11 DEF Holds, Sketches
<1>16. /\ Turns(m, n, Plus({}, v), Minus(Plus({}, v), v)) /\ Ended(n) = Ended(s)
       /\ Others(s, n, v)
  BY <1>6, <1>11, <1>14, TurnsDelete
<1>17. Turns(m, n, {}, {})
  <2>1. v \notin DOMAIN m.blocks \ {}
    BY <1>12
  <2>2. Minus(Plus({}, v), v) = {}
    BY DEF Plus, Minus
  <2> QED
    BY <1>16, <2>1, <2>2, TurnsForget
<1>18. Holds(n, Ptr(list), "bytes")
  BY <1>12, <1>13, <1>16, HoldsStays
<1>19. Turns(m, k, Join({}, Ptrs(list)), Less({}, Ptrs(list))) /\ Ended(k) = Ended(n)
  BY <1>7, <1>17, <1>18, TurnsFreeList
<1>20. Join({}, Ptrs(list)) = Ptrs(list) /\ Less({}, Ptrs(list)) = {}
  BY DEF Join, Less
<1>21. Ended(k) = TooShort(list)
  BY <1>3, <1>12, <1>16, <1>19
<1> QED
  BY <1>8, <1>19, <1>20, <1>21, NullListIs DEF Answers

(* extension_sketch_hash(): frees its argument and never ends the          *)
(* process.                                                                *)
LEMMA HashIs ==
  ASSUME NEW m, NEW list, NEW r, r = HashFunction(m, list), Running(m),
         ListIn(m, list)
  PROVE  Answers(m, r, Ptrs(list), FALSE)
<1>0. Turns(m, m, {}, {}) /\ ~Ended(m) /\ MemoryOK(m)
  BY TurnsNothing DEF Running
<1>1. CASE list = NullList
  <2>1. Mem(r) = m /\ Val(r) = NullList
    BY <1>1 DEF HashFunction, Result, Mem, Val
  <2> QED
    BY <1>0, <1>1, <2>1, NullListIs DEF Answers
<1>2. CASE list # NullList
  <2>0. Holds(m, Ptr(list), "bytes")
    BY <1>2 DEF ListIn
  <2>1. PICK k : k = FreeList(m, list)
    OBVIOUS
  <2>2. Cast(m, Ptr(list), {"bytes"}) = m
    BY <1>0, <2>0, TurnsCast DEF Holds
  <2>3. Mem(r) = k /\ Val(r) = NullList
    BY <1>2, <2>1, <2>2 DEF HashFunction, Result, Ptr, Mem, Val
  <2>4. Turns(m, k, Join({}, Ptrs(list)), Less({}, Ptrs(list))) /\ Ended(k) = Ended(m)
    BY <1>0, <2>0, <2>1, TurnsFreeList
  <2>5. Join({}, Ptrs(list)) = Ptrs(list) /\ Less({}, Ptrs(list)) = {}
    BY DEF Join, Less
  <2>6. Ended(k) = FALSE
    BY <1>0, <2>4
  <2> QED
    BY <2>3, <2>4, <2>5, <2>6, NullListIs DEF Answers
<1> QED
  BY <1>1, <1>2

(* extension_sketch_to_string(): frees its argument; ends the              *)
(* process for a list too short, or a sketch without confidence bounds.    *)
LEMMA ToStringIs ==
  ASSUME NEW m, NEW list, NEW noBounds, NEW r,
         r = ToStringFunction(m, list, noBounds), Running(m), ListIn(m, list),
         noBounds \in BOOLEAN
  PROVE  Answers(m, r, Ptrs(list), list # NullList /\ (TooShort(list) \/ noBounds))
<1>0. Turns(m, m, {}, {}) /\ ~Ended(m) /\ MemoryOK(m)
  BY TurnsNothing DEF Running
<1>1. CASE list = NullList
  <2>1. Mem(r) = m /\ Val(r) = NullList
    BY <1>1 DEF ToStringFunction, Result, Mem, Val
  <2> QED
    BY <1>0, <1>1, <2>1, NullListIs DEF Answers, MemoryOK
<1>2. CASE list # NullList
  <2>0. ProperLength(list) /\ Holds(m, Ptr(list), "bytes")
    BY <1>2 DEF ListIn
  <2>1. PICK short \in BOOLEAN : short = TooShort(list)
    BY <2>0, TooShortOrNot
  <2>2. PICK sketch : sketch = DeserializeList(m, list)
    OBVIOUS
  <2>3. PICK s : s = Mem(sketch)
    OBVIOUS
  <2>4. PICK v : v = Val(sketch)
    OBVIOUS
  <2>5. PICK text : text = EndIf(s, noBounds)
    OBVIOUS
  <2>6. PICK p : p = Fresh(text)
    OBVIOUS
  <2>7. PICK n : n = New(text, "bytes")
    OBVIOUS
  <2>8. PICK f : f = Delete(n, v, Sketches)
    OBVIOUS
  <2>9. PICK k : k = FreeList(f, list)
    OBVIOUS
  <2>10. Mem(r) = k /\ Val(r) = List(p, SketchLength)
    BY <1>2, <2>2, <2>3, <2>4, <2>5, <2>6, <2>7, <2>8, <2>9 DEF ToStringFunction, Result, Mem, Val
  <2>11. /\ Turns(m, s, {}, Plus({}, v)) /\ Ended(s) = (Ended(m) \/ TooShort(list))
         /\ v \in Nat \ {Null} /\ v \notin DOMAIN m.blocks
         /\ Others(m, s, v)
         /\ ~Ended(s) => Holds(s, v, "compact")
    BY <1>0, <2>0, <2>2, <2>3, <2>4, TurnsDeserialize
  <2>12. /\ Turns(m, text, {}, Plus({}, v)) /\ text.blocks = s.blocks
         /\ Ended(text) = (Ended(s) \/ noBounds)
    BY <2>5, <2>11, TurnsEndIf
  <2>13. "bytes" \in Classes
    BY DEF Classes
  <2>14. /\ Turns(m, n, {}, Plus(Plus({}, v), p)) /\ Ended(n) = Ended(text)
         /\ p \in Nat \ {Null} /\ p \notin DOMAIN text.blocks /\ Others(text, n, p)
         /\ ~Ended(text) => p \in DOMAIN n.blocks /\ n.blocks[p] = NewBlock("bytes")
    BY <2>6, <2>7, <2>12, <2>13, TurnsNew
  <2>15. Ptr(list) # v /\ Ptr(list) # p /\ Ptr(list) \in DOMAIN m.blocks
    BY <2>0, <2>11, <2>12, <2>14 DEF Holds, Others
  <2>16. Holds(n, Ptr(list), "bytes")
    BY <2>0, <2>11, <2>12, <2>14, <2>15 DEF Holds, Others
  <2>17. PICK i : i = Plus(Plus({}, v), p)
    OBVIOUS
  <2>18. ~Ended(n) => v # p /\ Holds(n, v, "compact") /\ Holds(n, p, "bytes")
    BY <2>11, <2>12, <2>14 DEF Holds, Others, NewBlock
  <2>19. Ended(n) \/ (v \in DOMAIN n.blocks /\ n.blocks[v].class \in Sketches)
    BY <2>18 DEF Holds, Sketches
  <2>20. /\ Turns(m, f, Plus({}, v), Minus(i, v)) /\ Ended(f) = Ended(n)
         /\ Others(n, f, v)
    BY <2>8, <2>14, <2>17, <2>19, TurnsDelete
  <2>21. Turns(m, f, {}, Minus(i, v))
    <3>1. v \notin DOMAIN m.blocks \ {}
      BY <2>11
    <3> QED
      BY <2>20, <3>1, TurnsForget
  <2>22. Holds(f, Ptr(list), "bytes")
    BY <2>15, <2>16, <2>20, HoldsStays
  <2>23. /\ Turns(m, k, Join({}, Ptrs(list)), Less(Minus(i, v), Ptrs(list)))
         /\ Ended(k) = Ended(f) /\ Others(f, k, Ptr(list))
    BY <2>9, <2>21, <2>22, TurnsFreeList
  <2>24. ~Ended(k) => Holds(k, p, "bytes")
    BY <2>15, <2>18, <2>20, <2>23, HoldsStays
  <2>25. Turns(m, k, Ptrs(list), {p})
    <3>1. CASE Ended(k)
      BY <2>23, <3>1 DEF Turns, Join
    <3>2. CASE ~Ended(k)
      <4>1. v # p /\ v \notin Ptrs(list) /\ p \notin Ptrs(list)
        BY <2>15, <2>18, <2>20, <2>23, <3>2 DEF Ptrs
      <4>2. Less(Minus(i, v), Ptrs(list)) = {p}
        BY <2>17, <4>1 DEF Plus, Minus, Less
      <4>3. Join({}, Ptrs(list)) = Ptrs(list)
        BY DEF Join
      <4> QED
        BY <2>23, <4>2, <4>3
    <3> QED
      BY <3>1, <3>2
  <2>26. Ended(k) = (list # NullList /\ (TooShort(list) \/ noBounds))
    BY <1>0, <1>2, <2>1, <2>11, <2>12, <2>14, <2>20, <2>23
  <2>27. {p} = Ptrs(Val(r)) /\ Ptr(Val(r)) = p /\ Val(r).len = SketchLength
    BY <2>10, <2>14 DEF Ptrs, List, Ptr
  <2> QED
    BY <2>10, <2>24, <2>25, <2>26, <2>27 DEF Answers, ListIn, List, Lengths, ProperLength
<1> QED
  BY <1>1, <1>2

(* The end of the functions of two lists: the result is serialized, the *)
(* lists and the result are freed.                                      *)
LEMMA OutputIs ==
  ASSUME NEW m, NEW n, NEW v, NEW left, NEW right, NEW output, NEW r,
         output = SerializeSketch(n, v),
         r = Result(Delete(FreeList(FreeList(Mem(output), left), right), v, Sketches),
                           Val(output)),
         MemoryOK(m), Turns(m, n, {}, Plus({}, v)), v # Null,
         v \notin DOMAIN m.blocks, Ended(n) \/ Holds(n, v, "compact"),
         ListIn(m, left), ListIn(m, right), Ptr(left) = Ptr(right) => Ptr(left) = Null
  PROVE  Answers(m, r, Join(Ptrs(left), Ptrs(right)), Ended(n))
<1>1. PICK s : s = Mem(output)
  OBVIOUS
<1>2. PICK p : p = Ptr(Val(output))
  OBVIOUS
<1>3. PICK f : f = FreeList(s, left)
  OBVIOUS
<1>4. PICK g : g = FreeList(f, right)
  OBVIOUS
<1>5. PICK k : k = Delete(g, v, Sketches)
  OBVIOUS
<1>6. /\ Turns(m, s, {}, Plus(Plus({}, v), p)) /\ Ended(s) = Ended(n)
      /\ Val(output) = List(p, SketchLength)
      /\ p \in Nat \ {Null} /\ p \notin DOMAIN n.blocks
      /\ Others(n, s, p)
      /\ ~Ended(n) => Holds(s, p, "bytes")
  BY <1>1, <1>2, TurnsSerialize
<1>7. Mem(r) = k /\ Val(r) = List(p, SketchLength)
  BY <1>1, <1>3, <1>4, <1>5, <1>6 DEF Result, Mem, Val
<1>8. ASSUME NEW list, ListIn(m, list)
      PROVE  /\ Ptr(list) # v /\ Ptr(list) # p
             /\ ListIn(n, list) /\ ListIn(s, list)
             /\ Ptr(list) = Null \/ Holds(s, Ptr(list), "bytes")
  <2>1. CASE list = NullList
    BY <1>6, <2>1, NullListIs
  <2>2. CASE list # NullList
    <3>1. Ptr(list) \in DOMAIN m.blocks /\ Holds(m, Ptr(list), "bytes")
      BY <1>8, <2>2 DEF ListIn, Holds
    <3>2. Holds(n, Ptr(list), "bytes")
      BY <3>1 DEF Turns, Holds
    <3>3. Ptr(list) # v /\ Ptr(list) # p
      BY <1>6, <3>1, <3>2 DEF Holds
    <3>4. Holds(s, Ptr(list), "bytes")
      BY <1>6, <3>2, <3>3, HoldsStays
    <3> QED
      BY <1>8, <3>2, <3>3, <3>4 DEF ListIn
  <2> QED
    BY <2>1, <2>2
<1>9. Ended(s) \/ (Holds(s, v, "compact") /\ v # p)
  <2> SUFFICES ASSUME ~Ended(s) PROVE Holds(s, v, "compact") /\ v # p
    OBVIOUS
  <2>1. ~Ended(n)
    BY <1>6
  <2>2. Holds(n, v, "compact")
    BY <2>1
  <2>3. v # p
    BY <1>6, <2>2 DEF Holds
  <2> QED
    BY <1>6, <2>2, <2>3, HoldsStays
<1>10. PICK o : o = Plus(Plus({}, v), p)
  OBVIOUS
<1>11. Ptr(left) = Null \/ Ended(s) \/ Holds(s, Ptr(left), "bytes")
  BY <1>8
<1>12. /\ Turns(m, f, Join({}, Ptrs(left)), Less(o, Ptrs(left))) /\ Ended(f) = Ended(s)
       /\ Others(s, f, Ptr(left))
  BY <1>3, <1>6, <1>10, <1>11, TurnsFreeList
<1>13. Ptr(right) = Null \/ Ended(f) \/ Holds(f, Ptr(right), "bytes")
  BY <1>8, <1>12, HoldsStays
<1>14. /\ Turns(m, g, Join(Join({}, Ptrs(left)), Ptrs(right)), Less(Less(o, Ptrs(left)), Ptrs(right)))
       /\ Ended(g) = Ended(f) /\ Others(f, g, Ptr(right))
  BY <1>4, <1>12, <1>13, TurnsFreeList
<1>15. ~Ended(g) => Holds(g, v, "compact") /\ Holds(g, p, "bytes")
  <2> SUFFICES ASSUME ~Ended(g) PROVE Holds(g, v, "compact") /\ Holds(g, p, "bytes")
    OBVIOUS
  <2>0. ~Ended(f) /\ ~Ended(s) /\ ~Ended(n)
    BY <1>6, <1>12, <1>14
  <2>1. Holds(s, v, "compact") /\ Holds(s, p, "bytes")
    BY <1>6, <1>9, <2>0
  <2>2. Ptr(left) # v /\ Ptr(left) # p /\ Ptr(right) # v /\ Ptr(right) # p
    BY <1>8
  <2>3. Holds(f, v, "compact") /\ Holds(f, p, "bytes")
    BY <1>12, <2>1, <2>2, HoldsStays
  <2> QED
    BY <1>14, <2>2, <2>3, HoldsStays
<1>16. PICK owned : owned = Join(Ptrs(left), Ptrs(right))
  OBVIOUS
<1>17. PICK i : i = Less(Less(o, Ptrs(left)), Ptrs(right))
  OBVIOUS
<1>18. Turns(m, g, owned, i)
  <2>1. Join(Join({}, Ptrs(left)), Ptrs(right)) = owned
    BY <1>16 DEF Join
  <2> QED
    BY <1>14, <1>17, <2>1
<1>19. Ended(g) \/ (v \in DOMAIN g.blocks /\ g.blocks[v].class \in Sketches)
  BY <1>15 DEF Holds, Sketches
<1>20. Turns(m, k, Plus(owned, v), Minus(i, v)) /\ Ended(k) = Ended(g) /\ Others(g, k, v)
  BY <1>5, <1>18, <1>19, TurnsDelete
<1>21. Turns(m, k, owned, Minus(i, v))
  BY <1>20, TurnsForget
<1>22. ~Ended(k) => Holds(k, p, "bytes")
  BY <1>9, <1>12, <1>14, <1>15, <1>20, HoldsStays
<1>23. Turns(m, k, owned, {p})
  <2>1. CASE Ended(k)
    BY <1>21, <2>1 DEF Turns
  <2>2. CASE ~Ended(k)
    <3>1. /\ v # p /\ v \notin Ptrs(left) /\ v \notin Ptrs(right)
          /\ p \notin Ptrs(left) /\ p \notin Ptrs(right)
      BY <1>8, <1>9, <1>12, <1>14, <1>20, <2>2 DEF Ptrs
    <3>2. Minus(i, v) = {p}
      BY <1>10, <1>17, <3>1 DEF Plus, Minus, Less
    <3> QED
      BY <1>21, <3>2
  <2> QED
    BY <2>1, <2>2
<1>24. Ended(k) = Ended(n)
  BY <1>6, <1>12, <1>14, <1>20
<1>25. {p} = Ptrs(Val(r)) /\ Ptr(Val(r)) = p /\ Val(r).len = SketchLength
  BY <1>6, <1>7 DEF Ptrs, List, Ptr
<1> QED
  BY <1>7, <1>16, <1>22, <1>23, <1>24, <1>25 DEF Answers, ListIn, List, Lengths, ProperLength

(* extension_sketch_union(), _intersection(): both arguments and the       *)
(* two temporaries are freed, the result is a list of its own; the process *)
(* ends for a list too short, or for the intersection of two NULLs, whose  *)
(* result is undefined.                                                    *)
LEMMA SetIs ==
  ASSUME NEW m, NEW class, NEW left, NEW right, NEW r,
         r = SetFunction(m, class, left, right), Running(m),
         class \in {"union", "intersection"}, ListIn(m, left), ListIn(m, right),
         Ptr(left) = Ptr(right) => Ptr(left) = Null
  PROVE  Answers(m, r, Join(Ptrs(left), Ptrs(right)),
                 \/ Short(left) \/ Short(right)
                 \/ class = "intersection" /\ left = NullList /\ right = NullList)
<1>0. Turns(m, m, {}, {}) /\ ~Ended(m) /\ MemoryOK(m)
  BY TurnsNothing DEF Running
<1>1. PICK a : a = Fresh(m)
  OBVIOUS
<1>2. PICK m1 : m1 = New(m, class)
  OBVIOUS
<1>3. PICK m2 : m2 = UpdateGiven(m1, a, class, left)
  OBVIOUS
<1>4. PICK m3 : m3 = UpdateGiven(m2, a, class, right)
  OBVIOUS
<1>5. PICK result : result = ResultOf(m3, a, class)
  OBVIOUS
<1>6. PICK n : n = Mem(result)
  OBVIOUS
<1>7. PICK v : v = Val(result)
  OBVIOUS
<1>8. PICK output : output = SerializeSketch(n, v)
  OBVIOUS
<1>9. r = Result(Delete(FreeList(FreeList(Mem(output), left), right), v, Sketches),
                 Val(output))
  BY <1>1, <1>2, <1>3, <1>4, <1>5, <1>6, <1>7, <1>8 DEF SetFunction, Mem, Val
<1>10. class \in Classes
  BY DEF Classes
<1>11. /\ Turns(m, m1, {}, Plus({}, a)) /\ Ended(m1) = Ended(m)
       /\ a \in Nat \ {Null} /\ a \notin DOMAIN m.blocks
       /\ Others(m, m1, a)
       /\ ~Ended(m) => a \in DOMAIN m1.blocks /\ m1.blocks[a] = NewBlock(class)
  BY <1>0, <1>1, <1>2, <1>10, TurnsNew
<1>12. PICK one : one = Plus({}, a)
  OBVIOUS
<1>13. Holds(m1, a, class) /\ Valid(m1, a) = (class # "intersection")
  BY <1>0, <1>11 DEF Holds, NewBlock, Valid
<1>14. ASSUME NEW list, ListIn(m, list)
       PROVE  Ptr(list) # a /\ ListIn(m1, list) /\ ProperLength(list)
  <2>1. Ptr(list) # a
    BY <1>0, <1>11, <1>14, ListInMemory, NullListIs
  <2> QED
    BY <1>11, <1>14, <2>1, ListInStays DEF ListIn
<1>a. /\ Ended(m1) \/ Holds(m1, a, class)
      /\ Ended(m1) \/ ListIn(m1, left)
      /\ ProperLength(left)
  BY <1>13, <1>14
<1>15. /\ Turns(m, m2, Plus({}, a), Plus(one, a)) /\ Ended(m2) = (Ended(m1) \/ Short(left))
       /\ Allocated(m2) = Allocated(m1) /\ Others(m1, m2, a)
       /\ ~Ended(m2) => /\ Holds(m2, a, class)
                        /\ IF left = NullList THEN m2 = m1 ELSE Valid(m2, a)
  BY <1>3, <1>11, <1>12, <1>a, TurnsGiven
<1>16. Turns(m, m2, one, one)
  <2>1. Plus(one, a) = one
    BY <1>12 DEF Plus
  <2> QED
    BY <1>12, <1>15, <2>1
<1>17. /\ Ended(m2) \/ Holds(m2, a, class)
       /\ Ended(m2) \/ ListIn(m2, right)
       /\ ProperLength(right)
  BY <1>14, <1>15, ListInStays
<1>18. /\ Turns(m, m3, Plus(one, a), Plus(one, a)) /\ Ended(m3) = (Ended(m2) \/ Short(right))
       /\ Allocated(m3) = Allocated(m2) /\ Others(m2, m3, a)
       /\ ~Ended(m3) => /\ Holds(m3, a, class)
                        /\ IF right = NullList THEN m3 = m2 ELSE Valid(m3, a)
  BY <1>4, <1>16, <1>17, TurnsGiven
<1>19. Turns(m, m3, one, one)
  <2>1. Plus(one, a) = one
    BY <1>12 DEF Plus
  <2> QED
    BY <1>18, <2>1
<1>20. Ended(m3) \/ Holds(m3, a, class)
  BY <1>18
<1>b. /\ Turns(m, Mem(result), Plus(one, a), Minus(Plus(one, Val(result)), a))
      /\ Ended(Mem(result)) = (Ended(m3) \/ ~Valid(m3, a))
      /\ Val(result) \in Nat \ {Null} /\ Val(result) \notin DOMAIN m3.blocks
      /\ Others(m3, Mem(result), a)
      /\ ~Ended(Mem(result)) => Holds(Mem(result), Val(result), "compact")
  BY <1>5, <1>19, <1>20, TurnsResult
<1>21. /\ Turns(m, n, Plus(one, a), Minus(Plus(one, v), a))
       /\ Ended(n) = (Ended(m3) \/ ~Valid(m3, a))
       /\ v \in Nat \ {Null} /\ v \notin DOMAIN m3.blocks
       /\ Others(m3, n, a)
       /\ ~Ended(n) => Holds(n, v, "compact")
  BY <1>6, <1>7, <1>b
<1>22. v # a /\ v \notin DOMAIN m.blocks
  BY <1>0, <1>11, <1>15, <1>18, <1>21 DEF Others, Allocated
<1>23. Turns(m, n, {}, Plus({}, v))
  <2>1. Plus(one, a) = Plus({}, a) /\ Minus(Plus(one, v), a) = Plus({}, v)
    BY <1>12, <1>22 DEF Plus, Minus
  <2>2. Turns(m, n, Plus({}, a), Plus({}, v)) /\ a \notin DOMAIN m.blocks \ {}
    BY <1>11, <1>21, <2>1
  <2> QED
    BY <2>2, TurnsForget
<1>24. Ended(n) = (\/ Short(left) \/ Short(right)
                   \/ class = "intersection" /\ left = NullList /\ right = NullList)
  <2>1. CASE Short(left) \/ Short(right)
    BY <1>15, <1>18, <1>21, <2>1
  <2>2. CASE ~Short(left) /\ ~Short(right)
    <3>1. ~Ended(m2) /\ ~Ended(m3) /\ Ended(n) = (~Valid(m3, a))
      BY <1>0, <1>11, <1>15, <1>18, <1>21, <2>2
    <3>2. CASE right # NullList
      BY <1>18, <2>2, <3>1, <3>2
    <3>3. CASE right = NullList
      <4>1. Ended(n) = (~Valid(m2, a))
        BY <1>18, <3>1, <3>3
      <4>2. CASE left # NullList
        BY <1>15, <2>2, <3>1, <4>1, <4>2
      <4>3. CASE left = NullList
        <5>1. Ended(n) = (class = "intersection")
          BY <1>13, <1>15, <3>1, <4>1, <4>3
        <5> QED
          BY <2>2, <3>3, <4>3, <5>1
      <4> QED
        BY <4>2, <4>3
    <3> QED
      BY <3>2, <3>3
  <2> QED
    BY <2>1, <2>2
<1>25. Answers(m, r, Join(Ptrs(left), Ptrs(right)), Ended(n))
  BY <1>0, <1>8, <1>9, <1>21, <1>22, <1>23, OutputIs
<1> QED
  BY <1>24, <1>25

(* extension_sketch_a_not_b(): both arguments are freed; the process       *)
(* ends unless both are sketches.                                          *)
LEMMA DifferenceIs ==
  ASSUME NEW m, NEW left, NEW right, NEW r, r = DifferenceFunction(m, left, right),
         Running(m), ListIn(m, left), ListIn(m, right),
         Ptr(left) = Ptr(right) => Ptr(left) = Null
  PROVE  Answers(m, r, Join(Ptrs(left), Ptrs(right)),
                 \/ left = NullList \/ right = NullList
                 \/ TooShort(left) \/ TooShort(right))
<1>0. Turns(m, m, {}, {}) /\ ~Ended(m) /\ MemoryOK(m)
  BY TurnsNothing DEF Running
<1>1. PICK refused \in BOOLEAN :
        refused = (\/ left = NullList \/ right = NullList
                   \/ TooShort(left) \/ TooShort(right))
  OBVIOUS
<1>2. PICK given : given = EndIf(m, refused)
  OBVIOUS
<1>3. PICK v : v = Fresh(given)
  OBVIOUS
<1>4. PICK n : n = New(given, "compact")
  OBVIOUS
<1>5. PICK output : output = SerializeSketch(n, v)
  OBVIOUS
<1>6. /\ Turns(m, given, {}, {}) /\ given.blocks = m.blocks
      /\ Ended(given) = (Ended(m) \/ refused)
  BY <1>0, <1>2, TurnsEndIf
<1>7. ASSUME NEW list, ListIn(m, list), list # NullList \/ Ended(given)
      PROVE  Cast(given, Ptr(list), {"bytes"}) = given
  <2>1. Ended(given) \/ Holds(given, Ptr(list), "bytes")
    BY <1>6, <1>7 DEF ListIn, Holds
  <2> QED
    BY <1>6, <2>1, TurnsCast DEF Holds
<1>8. /\ Cast(given, Ptr(left), {"bytes"}) = given
      /\ Cast(given, Ptr(right), {"bytes"}) = given
  BY <1>1, <1>6, <1>7
<1>9. r = Result(Delete(FreeList(FreeList(Mem(output), left), right), v, Sketches),
                 Val(output))
  BY <1>1, <1>2, <1>3, <1>4, <1>5, <1>8 DEF DifferenceFunction, TooShort, Ptr, Mem, Val
<1>10. "compact" \in Classes
  BY DEF Classes
<1>11. /\ Turns(m, n, {}, Plus({}, v)) /\ Ended(n) = Ended(given)
       /\ v \in Nat \ {Null} /\ v \notin DOMAIN given.blocks
       /\ Others(given, n, v)
       /\ ~Ended(given) => v \in DOMAIN n.blocks /\ n.blocks[v] = NewBlock("compact")
  BY <1>3, <1>4, <1>6, <1>10, TurnsNew
<1>13. Ended(n) \/ Holds(n, v, "compact")
  BY <1>11 DEF Holds, NewBlock
<1>14. v # Null /\ v \notin DOMAIN m.blocks
  BY <1>6, <1>11
<1>15. Answers(m, r, Join(Ptrs(left), Ptrs(right)), Ended(n))
  BY <1>0, <1>5, <1>9, <1>11, <1>13, <1>14, OutputIs
<1>16. Ended(n) = (\/ left = NullList \/ right = NullList
                   \/ TooShort(left) \/ TooShort(right))
  BY <1>0, <1>1, <1>6, <1>11
<1> QED
  BY <1>15, <1>16

-----------------------------------------------------------------------------
(* The callbacks.  A state of the engine's is tagged as what it is.        *)
StateAt(m, a) == a \in DOMAIN m.blocks /\ TaggedAs(m.blocks[a])
StateOf(m, a, kind) == StateAt(m, a) /\ Holds(m, a, ClassOf(kind))
Handle(h) == {h} \ {NoHandle}

(* What each aggregate keeps its state in, and how it tags it.             *)
LEMMA KindIs ==
  ASSUME NEW kind \in Kinds
  PROVE  /\ ClassOf(kind) \in Classes /\ TagOf(kind) \in Tags
         /\ ClassOf(kind) = "intersection" <=> kind = "intersection"
         /\ kind = "build" => ClassOf(kind) = "update" /\ TagOf(kind) = "MUTABLE_SKETCH"
         /\ kind = "union" => ClassOf(kind) = "union" /\ TagOf(kind) = "UNION"
         /\ kind = "intersection" => /\ ClassOf(kind) = "intersection"
                                     /\ TagOf(kind) = "INTERSECTION"
BY DEF Kinds, Classes, Tags, ClassOf, TagOf

(* An object of the aggregate's class, with its tag and valid, is a state  *)
(* of it.                                                                  *)
LEMMA StateIsTagged ==
  ASSUME NEW m, NEW a, NEW kind, kind \in Kinds, Holds(m, a, ClassOf(kind)),
         TagIn(m, a) = TagOf(kind), kind = "intersection" => Valid(m, a)
  PROVE  StateOf(m, a, kind) /\ StateAt(m, a)
BY KindIs DEF Kinds, Holds, StateOf, StateAt, TaggedAs, TagIn, Valid

(* A state of an aggregate carries its tag and is valid.                   *)
LEMMA TagOfState ==
  ASSUME NEW m, NEW a, NEW kind, MemoryOK(m), kind \in Kinds, StateOf(m, a, kind)
  PROVE  /\ TagIn(m, a) = TagOf(kind) /\ Valid(m, a)
         /\ Holds(m, a, ClassOf(kind)) /\ a \in Nat \ {Null}
<1>1. a \in DOMAIN m.blocks /\ m.blocks[a] \in Block /\ a \in Nat \ {Null}
  BY DEF MemoryOK, StateOf, StateAt
<1>2. m.blocks[a].tag \in Tags /\ m.blocks[a].isValid \in BOOLEAN
      /\ (m.blocks[a].class # "intersection" => m.blocks[a].isValid)
  BY <1>1 DEF Block
<1>3. m.blocks[a].class = ClassOf(kind) /\ TaggedAs(m.blocks[a])
  BY DEF StateOf, StateAt, Holds
<1>4. m.blocks[a].tag = TagOf(kind)
  BY <1>2, <1>3, KindIs DEF Kinds, TaggedAs, Tags
<1>5. m.blocks[a].isValid
  BY <1>2, <1>3, <1>4, KindIs DEF Kinds, TaggedAs
<1> QED
  BY <1>1, <1>4, <1>5 DEF TagIn, Valid, StateOf

(* *_new_default(), then set_type(): an object tagged as what it is. *)
LEMMA CreatedIs ==
  ASSUME NEW m, NEW kind, NEW k, NEW a, k = Created(m, kind), a = Fresh(m),
         kind \in Kinds, Running(m)
  PROVE  /\ Turns(m, k, {}, Plus({}, a)) /\ ~Ended(k) /\ Others(m, k, a)
         /\ a \in Nat \ {Null} /\ a \notin DOMAIN m.blocks
         /\ Holds(k, a, ClassOf(kind)) /\ TagIn(k, a) = TagOf(kind)
<1>0. Turns(m, m, {}, {}) /\ ~Ended(m) /\ MemoryOK(m)
  BY TurnsNothing DEF Running
<1>1. ClassOf(kind) \in Classes /\ TagOf(kind) \in Tags
  BY KindIs
<1>2. PICK class : class = ClassOf(kind)
  OBVIOUS
<1>3. PICK tag : tag = TagOf(kind)
  OBVIOUS
<1>4. PICK n : n = New(m, class)
  OBVIOUS
<1>5. k = SetType(n, a, tag) /\ class \in Classes /\ tag \in Tags
  BY <1>1, <1>2, <1>3, <1>4 DEF Created
<1>6. /\ Turns(m, n, {}, Plus({}, a)) /\ Ended(n) = Ended(m)
      /\ a \in Nat \ {Null} /\ a \notin DOMAIN m.blocks /\ Others(m, n, a)
  BY <1>0, <1>4, <1>5, TurnsNew
<1>7. ~Ended(n) /\ a \in DOMAIN n.blocks /\ n.blocks[a] = NewBlock(class)
  BY <1>0, <1>4, <1>5, TurnsNew
<1>9. Holds(n, a, class)
  BY <1>7 DEF Holds, NewBlock
<1>8. /\ Turns(m, k, Plus({}, a), Plus(Plus({}, a), a)) /\ Ended(k) = Ended(n)
      /\ Allocated(k) = Allocated(n) /\ Others(n, k, a)
      /\ TagIn(k, a) = tag /\ \A c : Holds(n, a, c) => Holds(k, a, c)
  BY <1>5, <1>6, <1>7, TurnsSetType
<1>10. Holds(k, a, class) /\ TagIn(k, a) = tag
  BY <1>8, <1>9
<1>11. Turns(m, k, {}, Plus({}, a))
  <2>1. Plus(Plus({}, a), a) = Plus({}, a)
    BY DEF Plus
  <2>2. a \notin DOMAIN m.blocks \ {}
    BY <1>6
  <2> QED
    BY <1>8, <2>1, <2>2, TurnsForget
<1>12. Others(m, k, a)
  BY <1>6, <1>8 DEF Others
<1> QED
  BY <1>2, <1>3, <1>6, <1>7, <1>8, <1>10, <1>11, <1>12

(* The state a callback works on: the handle's, or a new one. *)
LEMMA StateThere ==
  ASSUME NEW m, NEW kind, NEW handle, NEW state, NEW there,
         state = (IF handle = NoHandle THEN Fresh(m) ELSE handle),
         there = (IF handle = NoHandle THEN Created(m, kind) ELSE m),
         kind \in Kinds, Running(m), handle = NoHandle \/ StateOf(m, handle, kind)
  PROVE  /\ Turns(m, there, Handle(handle), Plus({}, state)) /\ ~Ended(there)
         /\ Others(m, there, state) /\ state \in Nat \ {Null}
         /\ state = handle \/ state \notin DOMAIN m.blocks
         /\ Holds(there, state, ClassOf(kind)) /\ TagIn(there, state) = TagOf(kind)
<1>0. Turns(m, m, {}, {}) /\ ~Ended(m) /\ MemoryOK(m)
  BY TurnsNothing DEF Running
<1>1. CASE handle = NoHandle
  <2>1. state = Fresh(m) /\ there = Created(m, kind)
    BY <1>1
  <2>2. Handle(handle) = {}
    BY <1>1 DEF Handle
  <2> QED
    BY <2>1, <2>2, CreatedIs
<1>2. CASE handle # NoHandle
  <2>1. state = handle /\ there = m /\ StateOf(m, handle, kind)
    BY <1>2
  <2>2. /\ TagIn(m, handle) = TagOf(kind) /\ Holds(m, handle, ClassOf(kind))
        /\ handle \in Nat \ {Null}
    BY <1>0, <2>1, TagOfState
  <2>3. Turns(m, m, Handle(handle), Plus({}, handle))
    BY <1>0, <1>2, <2>2 DEF Turns, Handle, Plus, Holds
  <2> QED
    BY <1>0, <2>1, <2>2, <2>3 DEF Others
<1> QED
  BY <1>1, <1>2

(* What a callback that returns a handle does: the handle and the list it  *)
(* was given are gone, what it returns is a state of its kind.             *)
Hands(m, r, owned, refuses) ==
  /\ Turns(m, Mem(r), owned, Handle(Val(r)))
  /\ Val(r) = NoHandle \/ Val(r) \in Nat \ {Null}
  /\ Ended(Mem(r)) \/ Val(r) = NoHandle \/ StateAt(Mem(r), Val(r))
  /\ Ended(Mem(r)) = refuses

(* What a callback returns is a state of the aggregate itself.             *)
HandsState(r, kind) ==
  Ended(Mem(r)) \/ Val(r) = NoHandle \/ StateOf(Mem(r), Val(r), kind)

(* A handle that is not the null handle stands for one block.              *)
LEMMA HandleIs ==
  ASSUME NEW h, h \in Nat \ {Null}
  PROVE  Handle(h) = {h} /\ Handle(h) = Plus({}, h)
BY DEF Handle, Plus, NoHandle

(* A callback that returns the handle it was given.                        *)
LEMMA HandsBack ==
  ASSUME NEW m, NEW kind, NEW handle, NEW r, kind \in Kinds, Running(m),
         handle = NoHandle \/ StateOf(m, handle, kind), Mem(r) = m, Val(r) = handle
  PROVE  Hands(m, r, Handle(handle), FALSE) /\ HandsState(r, kind)
<1>0. Turns(m, m, {}, {}) /\ ~Ended(m) /\ MemoryOK(m) /\ Ended(m) \in BOOLEAN
  BY TurnsNothing DEF Running, MemoryOK
<1>1. CASE handle = NoHandle
  <2>1. Handle(handle) = {}
    BY <1>1 DEF Handle
  <2> QED
    BY <1>0, <1>1, <2>1 DEF Hands, HandsState
<1>2. CASE handle # NoHandle
  <2>1. handle \in Nat \ {Null} /\ handle \in DOMAIN m.blocks /\ StateAt(m, handle)
    BY <1>0, <1>2, TagOfState DEF StateOf, StateAt
  <2>2. Turns(m, m, Handle(handle), Handle(handle))
    BY <1>0, <2>1, HandleIs DEF Turns
  <2> QED
    BY <1>0, <1>2, <2>1, <2>2 DEF Hands, HandsState
<1> QED
  BY <1>1, <1>2

(* build_accum(): the bytes are freed, the state made at the first value   *)
(* is kept; the process never ends.                                        *)
LEMMA ValueIs ==
  ASSUME NEW m, NEW handle, NEW list, NEW r, r = AccumulateValue(m, handle, list),
         Running(m), handle = NoHandle \/ StateOf(m, handle, "build"),
         ListIn(m, list), Ptr(list) # handle
  PROVE  /\ Hands(m, r, Join(Handle(handle), Ptrs(list)), FALSE)
         /\ HandsState(r, "build")
<1>0. /\ Turns(m, m, {}, {}) /\ ~Ended(m) /\ MemoryOK(m)
      /\ "build" \in Kinds /\ ClassOf("build") = "update"
  BY TurnsNothing DEF Running, Kinds, ClassOf
<1>1. CASE list = NullList
  <2>1. Mem(r) = m /\ Val(r) = handle
    BY <1>1 DEF AccumulateValue, Result, Mem, Val
  <2>2. Hands(m, r, Handle(handle), FALSE) /\ HandsState(r, "build")
    BY <1>0, <2>1, HandsBack
  <2>3. Join(Handle(handle), Ptrs(list)) = Handle(handle)
    BY <1>1, NullListIs DEF Join
  <2> QED
    BY <2>2, <2>3
<1>2. CASE list # NullList
  <2>1. PICK state : state = (IF handle = NoHandle THEN Fresh(m) ELSE handle)
    OBVIOUS
  <2>2. PICK there : there = (IF handle = NoHandle THEN Created(m, "build") ELSE m)
    OBVIOUS
  <2>3. /\ Turns(m, there, Handle(handle), Plus({}, state)) /\ ~Ended(there)
        /\ Others(m, there, state) /\ state \in Nat \ {Null}
        /\ state = handle \/ state \notin DOMAIN m.blocks
        /\ Holds(there, state, ClassOf("build"))
        /\ TagIn(there, state) = TagOf("build")
    BY <1>0, <2>1, <2>2, StateThere
  <2>4. Holds(m, Ptr(list), "bytes") /\ Ptr(list) \in DOMAIN m.blocks
        /\ Ptrs(list) = {Ptr(list)}
    BY <1>0, <1>2, ListInMemory
  <2>5. Ptr(list) # state
    BY <2>3, <2>4
  <2>6. Holds(there, Ptr(list), "bytes")
    BY <2>3, <2>4, <2>5, HoldsStays
  <2>7. Cast(there, Ptr(list), {"bytes"}) = there /\ Cast(there, state, {"update"}) = there
    BY <1>0, <2>3, <2>6, TurnsCast DEF Holds
  <2>8. PICK k : k = FreeList(there, list)
    OBVIOUS
  <2>9. Mem(r) = k /\ Val(r) = state
    BY <1>2, <2>1, <2>2, <2>7, <2>8 DEF AccumulateValue, Result, Mem, Val, Ptr
  <2>10. /\ Turns(m, k, Join(Handle(handle), Ptrs(list)), Less(Plus({}, state), Ptrs(list)))
         /\ Ended(k) = Ended(there) /\ Others(there, k, Ptr(list))
    BY <2>3, <2>6, <2>8, TurnsFreeList
  <2>11. Less(Plus({}, state), Ptrs(list)) = Handle(state)
    BY <2>3, <2>4, <2>5, HandleIs DEF Less
  <2>12. Holds(k, state, ClassOf("build")) /\ k.blocks[state] = there.blocks[state]
    BY <2>3, <2>5, <2>10, HoldsStays
  <2>13. StateOf(k, state, "build") /\ StateAt(k, state)
    <3>1. TagIn(k, state) = TagOf("build")
      BY <2>3, <2>12 DEF TagIn
    <3> QED
      BY <1>0, <2>12, <3>1, StateIsTagged
  <2>14. Ended(k) = FALSE
    BY <2>3, <2>10
  <2> QED
    BY <2>3, <2>9, <2>10, <2>11, <2>13, <2>14 DEF Hands, HandsState
<1> QED
  BY <1>1, <1>2

(* build_accum_by_hash(): the same of a hash; the process never ends.      *)
LEMMA HashValueIs ==
  ASSUME NEW m, NEW handle, NEW isZero, NEW r, r = AccumulateHash(m, handle, isZero),
         Running(m), handle = NoHandle \/ StateOf(m, handle, "build")
  PROVE  Hands(m, r, Handle(handle), FALSE) /\ HandsState(r, "build")
<1>0. /\ Turns(m, m, {}, {}) /\ ~Ended(m) /\ MemoryOK(m)
      /\ "build" \in Kinds /\ ClassOf("build") = "update"
  BY TurnsNothing DEF Running, Kinds, ClassOf
<1>1. CASE emptyIsNull /\ isZero
  <2>1. Mem(r) = m /\ Val(r) = handle
    BY <1>1 DEF AccumulateHash, Result, Mem, Val
  <2> QED
    BY <1>0, <2>1, HandsBack
<1>2. CASE ~(emptyIsNull /\ isZero)
  <2>1. PICK state : state = (IF handle = NoHandle THEN Fresh(m) ELSE handle)
    OBVIOUS
  <2>2. PICK there : there = (IF handle = NoHandle THEN Created(m, "build") ELSE m)
    OBVIOUS
  <2>3. /\ Turns(m, there, Handle(handle), Plus({}, state)) /\ ~Ended(there)
        /\ Others(m, there, state) /\ state \in Nat \ {Null}
        /\ state = handle \/ state \notin DOMAIN m.blocks
        /\ Holds(there, state, ClassOf("build"))
        /\ TagIn(there, state) = TagOf("build")
    BY <1>0, <2>1, <2>2, StateThere
  <2>4. Cast(there, state, {"update"}) = there
    BY <1>0, <2>3, TurnsCast DEF Holds
  <2>5. Mem(r) = there /\ Val(r) = state
    BY <1>2, <2>1, <2>2, <2>4 DEF AccumulateHash, Result, Mem, Val
  <2>6. StateOf(there, state, "build") /\ StateAt(there, state)
    BY <1>0, <2>3, StateIsTagged
  <2>7. Ended(there) = FALSE /\ Handle(state) = Plus({}, state)
    BY <2>3, HandleIs
  <2> QED
    BY <2>3, <2>5, <2>6, <2>7 DEF Hands, HandsState
<1> QED
  BY <1>1, <1>2

(* union_accum(), intersection_accum(): the bytes are freed, and the       *)
(* process ends exactly for a list too short to be a sketch.               *)
LEMMA SketchIs ==
  ASSUME NEW m, NEW kind, NEW handle, NEW list, NEW r,
         r = AccumulateSketch(m, kind, handle, list), kind \in Kinds,
         Running(m), handle = NoHandle \/ StateOf(m, handle, kind),
         ListIn(m, list), Ptr(list) # handle
  PROVE  /\ Hands(m, r, Join(Handle(handle), Ptrs(list)), Short(list))
         /\ HandsState(r, kind)
<1>0. Turns(m, m, {}, {}) /\ ~Ended(m) /\ MemoryOK(m)
  BY TurnsNothing DEF Running
<1>1. CASE list = NullList
  <2>1. Mem(r) = m /\ Val(r) = handle
    BY <1>1 DEF AccumulateSketch, Result, Mem, Val
  <2>2. Hands(m, r, Handle(handle), FALSE) /\ HandsState(r, kind)
    BY <2>1, HandsBack
  <2>3. Join(Handle(handle), Ptrs(list)) = Handle(handle) /\ Short(list) = FALSE
    BY <1>1, NullListIs DEF Join, Short
  <2> QED
    BY <2>2, <2>3
<1>2. CASE list # NullList
  <2>1. PICK state : state = (IF handle = NoHandle THEN Fresh(m) ELSE handle)
    OBVIOUS
  <2>2. PICK there : there = (IF handle = NoHandle THEN Created(m, kind) ELSE m)
    OBVIOUS
  <2>a. PICK class : class = ClassOf(kind)
    OBVIOUS
  <2>3. /\ Turns(m, there, Handle(handle), Plus({}, state)) /\ ~Ended(there)
        /\ Others(m, there, state) /\ state \in Nat \ {Null}
        /\ state = handle \/ state \notin DOMAIN m.blocks
        /\ Holds(there, state, ClassOf(kind))
        /\ TagIn(there, state) = TagOf(kind)
    BY <2>1, <2>2, StateThere
  <2>4. Holds(m, Ptr(list), "bytes") /\ Ptr(list) \in DOMAIN m.blocks
        /\ Ptrs(list) = {Ptr(list)} /\ ProperLength(list)
    BY <1>0, <1>2, ListInMemory DEF ListIn
  <2>5. Ptr(list) # state
    BY <2>3, <2>4
  <2>6. Holds(there, Ptr(list), "bytes")
    BY <2>3, <2>4, <2>5, HoldsStays
  <2>7. PICK n : n = UpdateWithBytes(there, state, class, list)
    OBVIOUS
  <2>8. PICK k : k = FreeList(n, list)
    OBVIOUS
  <2>9. Mem(r) = k /\ Val(r) = state
    BY <1>2, <2>1, <2>2, <2>a, <2>7, <2>8 DEF AccumulateSketch, Result, Mem, Val
  <2>10. /\ Turns(m, n, Plus(Handle(handle), state), Plus(Plus({}, state), state))
         /\ Ended(n) = (Ended(there) \/ TooShort(list))
         /\ Allocated(n) = Allocated(there) /\ Others(there, n, state)
         /\ ~Ended(n) => /\ Holds(n, state, class) /\ Valid(n, state)
                         /\ TagIn(n, state) = TagIn(there, state)
    BY <2>a, <2>3, <2>4, <2>6, <2>7, TurnsBytes
  <2>11. Turns(m, n, Handle(handle), Plus({}, state))
    <3>1. Plus(Plus({}, state), state) = Plus({}, state)
      BY DEF Plus
    <3>2. state \notin DOMAIN m.blocks \ Handle(handle)
      BY <2>3 DEF Handle, NoHandle
    <3> QED
      BY <2>10, <3>1, <3>2, TurnsForget
  <2>12. Holds(n, Ptr(list), "bytes")
    BY <2>5, <2>6, <2>10, HoldsStays
  <2>13. /\ Turns(m, k, Join(Handle(handle), Ptrs(list)), Less(Plus({}, state), Ptrs(list)))
         /\ Ended(k) = Ended(n) /\ Others(n, k, Ptr(list))
    BY <2>8, <2>11, <2>12, TurnsFreeList
  <2>14. Less(Plus({}, state), Ptrs(list)) = Handle(state)
    BY <2>3, <2>4, <2>5, HandleIs DEF Less
  <2>15. Ended(k) \/ (StateOf(k, state, kind) /\ StateAt(k, state))
    <3> SUFFICES ASSUME ~Ended(k) PROVE StateOf(k, state, kind) /\ StateAt(k, state)
      OBVIOUS
    <3>1. /\ Holds(n, state, ClassOf(kind)) /\ Valid(n, state)
          /\ TagIn(n, state) = TagOf(kind)
      BY <2>a, <2>3, <2>10, <2>13
    <3>2. Holds(k, state, ClassOf(kind)) /\ k.blocks[state] = n.blocks[state]
      BY <2>5, <2>13, <3>1, HoldsStays
    <3>3. Valid(k, state) /\ TagIn(k, state) = TagOf(kind)
      BY <3>1, <3>2 DEF Valid, TagIn
    <3> QED
      BY <3>2, <3>3, StateIsTagged
  <2>16. Ended(k) = Short(list)
    <3>1. TooShort(list) \in BOOLEAN
      BY <2>4, TooShortOrNot
    <3> QED
      BY <1>2, <2>3, <2>10, <2>13, <3>1 DEF Short
  <2> QED
    BY <2>3, <2>9, <2>13, <2>14, <2>15, <2>16 DEF Hands, HandsState
<1> QED
  BY <1>1, <1>2

(* theta_data_get_result(): what the tag names is what is there. *)
LEMMA DataResultIs ==
  ASSUME NEW m, NEW n, NEW out, NEW in, NEW h, NEW r, r = DataResult(n, h),
         Turns(m, n, out, in), ~Ended(n), StateAt(n, h)
  PROVE  /\ Turns(m, Mem(r), Plus(out, h), Plus(Minus(in, h), Val(r))) /\ ~Ended(Mem(r))
         /\ Val(r) \in DOMAIN Mem(r).blocks /\ Val(r) \in Nat \ {Null}
         /\ Val(r) = h \/ Val(r) \notin DOMAIN n.blocks
         /\ Others(n, Mem(r), h)
         /\ \/ Holds(Mem(r), Val(r), "compact")
            \/ Holds(Mem(r), Val(r), "update") /\ TagIn(n, h) = "MUTABLE_SKETCH"
<1>0. /\ MemoryOK(n) /\ h \in DOMAIN n.blocks /\ h \in Nat \ {Null}
      /\ n.blocks[h] \in Block /\ TaggedAs(n.blocks[h])
  BY DEF Turns, StateAt, MemoryOK
<1>1. /\ n.blocks[h].tag \in Tags /\ TagAt(n, h) = n.blocks[h].tag
      /\ n.blocks[h].isValid \in BOOLEAN
      /\ (n.blocks[h].class # "intersection" => n.blocks[h].isValid)
  BY <1>0 DEF Block, TagAt
<1>2. ASSUME NEW class, Holds(n, h, class), Valid(n, h), r = ResultOf(n, h, class)
      PROVE  /\ Turns(m, Mem(r), Plus(out, h), Plus(Minus(in, h), Val(r))) /\ ~Ended(Mem(r))
             /\ Val(r) \in DOMAIN Mem(r).blocks /\ Val(r) \in Nat \ {Null}
             /\ Val(r) \notin DOMAIN n.blocks
             /\ Others(n, Mem(r), h) /\ Holds(Mem(r), Val(r), "compact")
  <2>1. /\ Turns(m, Mem(r), Plus(out, h), Minus(Plus(in, Val(r)), h))
        /\ Ended(Mem(r)) = (Ended(n) \/ ~Valid(n, h))
        /\ Val(r) \in Nat \ {Null} /\ Val(r) \notin DOMAIN n.blocks
        /\ Others(n, Mem(r), h)
        /\ ~Ended(Mem(r)) => Holds(Mem(r), Val(r), "compact")
    BY <1>2, TurnsResult
  <2>2. ~Ended(Mem(r)) /\ Val(r) # h
    BY <1>0, <1>2, <2>1
  <2>3. Minus(Plus(in, Val(r)), h) = Plus(Minus(in, h), Val(r))
    BY <2>2 DEF Plus, Minus
  <2> QED
    BY <2>1, <2>2, <2>3 DEF Holds
<1>3. CASE n.blocks[h].tag = "UNION"
  <2>1. Holds(n, h, "union") /\ Valid(n, h) /\ r = ResultOf(n, h, "union")
    BY <1>0, <1>1, <1>3 DEF TaggedAs, Holds, Valid, DataResult
  <2> QED
    BY <1>2, <2>1
<1>4. CASE n.blocks[h].tag = "INTERSECTION"
  <2>1. Holds(n, h, "intersection") /\ Valid(n, h) /\ r = ResultOf(n, h, "intersection")
    BY <1>0, <1>1, <1>4 DEF TaggedAs, Holds, Valid, DataResult
  <2> QED
    BY <1>2, <2>1
<1>5. CASE n.blocks[h].tag \in {"MUTABLE_SKETCH", "IMMUTABLE_SKETCH"}
  <2>1. r = Result(n, h)
    BY <1>1, <1>5 DEF DataResult
  <2>2. Mem(r) = n /\ Val(r) = h
    BY <2>1 DEF Result, Mem, Val
  <2>3. \/ Holds(n, h, "compact")
        \/ Holds(n, h, "update") /\ TagIn(n, h) = "MUTABLE_SKETCH"
    BY <1>0, <1>5 DEF TaggedAs, Holds, TagIn
  <2>4. Turns(m, n, Plus(out, h), Plus(Minus(in, h), h))
    BY <1>0 DEF Turns, Plus, Minus
  <2> QED
    BY <1>0, <2>2, <2>3, <2>4 DEF Others
<1> QED
  BY <1>1, <1>3, <1>4, <1>5 DEF Tags

(* k has the blocks of n, but for those at a and h.                        *)
AllBut(n, k, a, h) ==
  \A b \in DOMAIN n.blocks : b # a /\ b # h =>
    b \in DOMAIN k.blocks /\ k.blocks[b] = n.blocks[b]

(* union_merge(), intersection_merge(): one of the two states. *)
LEMMA MergeIntoIs ==
  ASSUME NEW m, NEW n, NEW out, NEW in, NEW a, NEW class, NEW handle, NEW k,
         k = MergeInto(n, a, class, handle), Turns(m, n, out, in), ~Ended(n),
         Holds(n, a, class), handle # NoHandle, StateAt(n, handle), handle # a
  PROVE  /\ Turns(m, k, Plus(Plus(out, handle), a), Plus(Minus(in, handle), a))
         /\ ~Ended(k)
         /\ AllBut(n, k, a, handle)
         /\ Holds(k, a, class) /\ TagIn(k, a) = TagIn(n, a) /\ Valid(k, a)
<1>1. PICK sketch : sketch = DataResult(n, handle)
  OBVIOUS
<1>2. PICK s : s = Mem(sketch)
  OBVIOUS
<1>3. PICK v : v = Val(sketch)
  OBVIOUS
<1>4. PICK f : f = UpdateObject(s, a, class)
  OBVIOUS
<1>5. /\ Turns(m, Mem(sketch), Plus(out, handle), Plus(Minus(in, handle), Val(sketch)))
      /\ ~Ended(Mem(sketch))
      /\ Val(sketch) \in DOMAIN Mem(sketch).blocks /\ Val(sketch) \in Nat \ {Null}
      /\ Val(sketch) = handle \/ Val(sketch) \notin DOMAIN n.blocks
      /\ Others(n, Mem(sketch), handle)
      /\ \/ Holds(Mem(sketch), Val(sketch), "compact")
         \/ Holds(Mem(sketch), Val(sketch), "update") /\ TagIn(n, handle) = "MUTABLE_SKETCH"
  BY <1>1, DataResultIs
<1>6. /\ Turns(m, s, Plus(out, handle), Plus(Minus(in, handle), v)) /\ ~Ended(s)
      /\ v \in DOMAIN s.blocks
      /\ v = handle \/ v \notin DOMAIN n.blocks
      /\ Others(n, s, handle)
      /\ s.blocks[v].class \in Sketches
  BY <1>2, <1>3, <1>5 DEF Holds, Sketches
<1>7. k = Delete(f, v, Sketches)
  <2>1. Cast(s, v, Sketches) = s
    BY <1>6, TurnsCast
  <2> QED
    BY <1>1, <1>2, <1>3, <1>4, <2>1 DEF MergeInto, UpdateWithSketch, Mem, Val
<1>8. Holds(s, a, class) /\ s.blocks[a] = n.blocks[a] /\ v # a
  <2>1. Holds(s, a, class) /\ s.blocks[a] = n.blocks[a]
    BY <1>6, HoldsStays
  <2>2. v # a
    BY <1>6 DEF Holds
  <2> QED
    BY <2>1, <2>2
<1>9. /\ Turns(m, f, Plus(Plus(out, handle), a), Plus(Plus(Minus(in, handle), v), a))
      /\ Ended(f) = Ended(s) /\ Allocated(f) = Allocated(s) /\ Others(s, f, a)
      /\ ~Ended(s) => /\ Holds(f, a, class) /\ Valid(f, a)
                      /\ TagIn(f, a) = TagIn(s, a)
  BY <1>4, <1>6, <1>8, TurnsUpdate
<1>10. v \in DOMAIN f.blocks /\ f.blocks[v].class \in Sketches
  BY <1>6, <1>8, <1>9 DEF Others
<1>11. /\ Turns(m, k, Plus(Plus(Plus(out, handle), a), v),
                Minus(Plus(Plus(Minus(in, handle), v), a), v))
       /\ Ended(k) = Ended(f) /\ Others(f, k, v)
  BY <1>7, <1>9, <1>10, TurnsDelete
<1>12. Turns(m, k, Plus(Plus(out, handle), a), Plus(Minus(in, handle), a))
  <2>1. CASE v = handle
    <3>1. Plus(Plus(Plus(out, handle), a), v) = Plus(Plus(out, handle), a)
      BY <2>1 DEF Plus
    <3>2. Minus(Plus(Plus(Minus(in, handle), v), a), v) = Plus(Minus(in, handle), a)
      BY <1>8, <2>1 DEF Plus, Minus
    <3> QED
      BY <1>11, <3>1, <3>2
  <2>2. CASE v # handle
    <3>1. v \notin DOMAIN n.blocks
      BY <1>6, <2>2
    <3>2. v \notin in /\ v \notin DOMAIN m.blocks \ Plus(Plus(out, handle), a)
      BY <3>1 DEF Turns, Plus
    <3>3. Minus(Plus(Plus(Minus(in, handle), v), a), v) = Plus(Minus(in, handle), a)
      BY <1>8, <3>2 DEF Plus, Minus
    <3> QED
      BY <1>11, <3>2, <3>3, TurnsForget
  <2> QED
    BY <2>1, <2>2
<1>13. Holds(k, a, class) /\ k.blocks[a] = f.blocks[a]
  BY <1>6, <1>8, <1>9, <1>11, HoldsStays
<1>14. TagIn(k, a) = TagIn(n, a) /\ Valid(k, a)
  BY <1>6, <1>8, <1>9, <1>13 DEF TagIn, Valid
<1>15. ASSUME NEW b \in DOMAIN n.blocks, b # a, b # handle
       PROVE  b \in DOMAIN k.blocks /\ k.blocks[b] = n.blocks[b]
  <2>1. v # b
    BY <1>6, <1>15
  <2> QED
    BY <1>6, <1>9, <1>11, <1>15, <2>1 DEF Others
<1> QED
  BY <1>6, <1>9, <1>11, <1>12, <1>13, <1>14, <1>15 DEF AllBut

(* The same of a handle that there may be none of. *)
LEMMA MergedIs ==
  ASSUME NEW m, NEW n, NEW out, NEW a, NEW class, NEW handle, NEW k,
         k = MergeInto(n, a, class, handle), Turns(m, n, out, Plus({}, a)), ~Ended(n),
         a \notin DOMAIN m.blocks, Holds(n, a, class),
         handle = NoHandle \/ StateAt(n, handle), handle # a
  PROVE  /\ Turns(m, k, Join(out, Handle(handle)), Plus({}, a)) /\ ~Ended(k)
         /\ AllBut(n, k, a, handle)
         /\ Holds(k, a, class) /\ TagIn(k, a) = TagIn(n, a)
         /\ IF handle = NoHandle THEN k = n ELSE Valid(k, a)
<1>1. CASE handle = NoHandle
  <2>1. k = n /\ Join(out, Handle(handle)) = out
    BY <1>1 DEF MergeInto, Handle, Join
  <2> QED
    BY <1>1, <2>1 DEF AllBut
<1>2. CASE handle # NoHandle
  <2>1. PICK in : in = Plus({}, a)
    OBVIOUS
  <2>2. /\ Turns(m, k, Plus(Plus(out, handle), a), Plus(Minus(in, handle), a))
        /\ ~Ended(k)
        /\ AllBut(n, k, a, handle)
        /\ Holds(k, a, class) /\ TagIn(k, a) = TagIn(n, a) /\ Valid(k, a)
    BY <1>2, <2>1, MergeIntoIs
  <2>3. Plus(Minus(in, handle), a) = Plus({}, a)
    BY <2>1 DEF Plus, Minus
  <2>4. Plus(out, handle) = Join(out, Handle(handle))
    BY <1>2 DEF Plus, Join, Handle
  <2>5. Turns(m, k, Join(out, Handle(handle)), Plus({}, a))
    BY <2>2, <2>3, <2>4, TurnsForget
  <2> QED
    BY <1>2, <2>2, <2>5
<1> QED
  BY <1>1, <1>2

(* The three merge callbacks: both states are freed but for the one that   *)
(* is returned, whatever their tags; the process never ends.               *)
LEMMA MergeIs ==
  ASSUME NEW m, NEW kind, NEW left, NEW right, NEW r,
         r = Merge(m, kind, left, right), kind \in Kinds, Running(m),
         left = NoHandle \/ StateAt(m, left), right = NoHandle \/ StateAt(m, right),
         left = right => left = NoHandle
  PROVE  Hands(m, r, Join(Handle(left), Handle(right)), FALSE)
<1>0. /\ Turns(m, m, {}, {}) /\ ~Ended(m) /\ MemoryOK(m)
      /\ MergeKind(kind) \in Kinds
  BY TurnsNothing DEF Running, MergeKind, Kinds
<1>1. CASE left = NoHandle /\ right = NoHandle
  <2>1. Mem(r) = m /\ Val(r) = NoHandle
    BY <1>1 DEF Merge, Result, Mem, Val
  <2>2. Join(Handle(left), Handle(right)) = {} /\ Handle(NoHandle) = {}
    BY <1>1 DEF Join, Handle
  <2>3. Ended(m) = FALSE
    BY <1>0
  <2> QED
    BY <1>0, <2>1, <2>2, <2>3 DEF Hands
<1>2. CASE left # NoHandle \/ right # NoHandle
  <2>1. PICK a : a = Fresh(m)
    OBVIOUS
  <2>2. PICK into : into = MergeKind(kind)
    OBVIOUS
  <2>3. PICK class : class = ClassOf(into)
    OBVIOUS
  <2>4. PICK new : new = Created(m, into)
    OBVIOUS
  <2>5. PICK n : n = MergeInto(new, a, class, left)
    OBVIOUS
  <2>6. PICK k : k = MergeInto(n, a, class, right)
    OBVIOUS
  <2>7. Mem(r) = k /\ Val(r) = a
    BY <1>2, <2>1, <2>2, <2>3, <2>4, <2>5, <2>6 DEF Merge, Result, Mem, Val
  <2>8. /\ Turns(m, new, {}, Plus({}, a)) /\ ~Ended(new) /\ Others(m, new, a)
        /\ a \in Nat \ {Null} /\ a \notin DOMAIN m.blocks
        /\ Holds(new, a, ClassOf(into)) /\ TagIn(new, a) = TagOf(into)
    BY <1>0, <2>1, <2>2, <2>4, CreatedIs
  <2>9. ASSUME NEW h, StateAt(m, h)
        PROVE  StateAt(new, h) /\ h # a
    BY <2>8, <2>9 DEF StateAt, Others
  <2>10. /\ left = NoHandle \/ StateAt(new, left)
         /\ right = NoHandle \/ StateAt(new, right)
         /\ left # a /\ right # a
    BY <2>8, <2>9 DEF NoHandle
  <2>11. /\ Turns(m, n, Join({}, Handle(left)), Plus({}, a)) /\ ~Ended(n)
         /\ AllBut(new, n, a, left)
         /\ Holds(n, a, class) /\ TagIn(n, a) = TagIn(new, a)
         /\ IF left = NoHandle THEN n = new ELSE Valid(n, a)
    BY <2>3, <2>5, <2>8, <2>10, MergedIs
  <2>12. right = NoHandle \/ StateAt(n, right)
    <3> SUFFICES ASSUME right # NoHandle PROVE StateAt(n, right)
      OBVIOUS
    <3>1. StateAt(new, right) /\ right # a /\ right # left
      BY <2>10
    <3> QED
      BY <2>11, <3>1 DEF StateAt, AllBut
  <2>13. /\ Turns(m, k, Join(Join({}, Handle(left)), Handle(right)), Plus({}, a)) /\ ~Ended(k)
         /\ AllBut(n, k, a, right)
         /\ Holds(k, a, class) /\ TagIn(k, a) = TagIn(n, a)
         /\ IF right = NoHandle THEN k = n ELSE Valid(k, a)
    BY <2>6, <2>8, <2>10, <2>11, <2>12, MergedIs
  <2>14. Valid(k, a)
    BY <1>2, <2>11, <2>13
  <2>15. StateAt(k, a)
    BY <1>0, <2>2, <2>3, <2>8, <2>11, <2>13, <2>14, StateIsTagged
  <2>16. Join(Join({}, Handle(left)), Handle(right)) = Join(Handle(left), Handle(right))
    BY DEF Join
  <2>17. Handle(a) = Plus({}, a)
    BY <2>8, HandleIs
  <2>18. Ended(k) = FALSE
    BY <2>13
  <2> QED
    BY <2>7, <2>8, <2>13, <2>15, <2>16, <2>17, <2>18 DEF Hands
<1> QED
  BY <1>1, <1>2

(* theta_sketch_compact(), or theta_data_get_result(), of a state. *)
LEMMA SketchOfState ==
  ASSUME NEW m, NEW h, NEW sketch,
         sketch = (IF TagAt(m, h) = "MUTABLE_SKETCH" THEN Compact(m, h) ELSE DataResult(m, h)),
         Running(m), StateAt(m, h)
  PROVE  /\ Turns(m, Mem(sketch), Plus({}, h), Plus({}, Val(sketch)))
         /\ ~Ended(Mem(sketch)) /\ Holds(Mem(sketch), Val(sketch), "compact")
         /\ Val(sketch) = h \/ Val(sketch) \notin DOMAIN m.blocks
         /\ Val(sketch) \in Nat \ {Null}
<1>0. /\ Turns(m, m, {}, {}) /\ ~Ended(m) /\ MemoryOK(m)
      /\ h \in DOMAIN m.blocks /\ TaggedAs(m.blocks[h])
  BY TurnsNothing DEF Running, StateAt
<1>1. CASE m.blocks[h].tag = "MUTABLE_SKETCH"
  <2>1. PICK v : v = Fresh(m)
    OBVIOUS
  <2>2. PICK n : n = New(m, "compact")
    OBVIOUS
  <2>3. PICK k : k = Delete(n, h, {"update"})
    OBVIOUS
  <2>4. m.blocks[h].class = "update" /\ "compact" \in Classes
    BY <1>0, <1>1 DEF TaggedAs, Classes
  <2>5. Cast(m, h, {"update"}) = m
    BY <1>0, <2>4, TurnsCast
  <2>6. Mem(sketch) = k /\ Val(sketch) = v
    BY <1>0, <1>1, <2>1, <2>2, <2>3, <2>5 DEF TagAt, Compact, Result, Mem, Val
  <2>7. /\ Turns(m, n, {}, Plus({}, v)) /\ Ended(n) = Ended(m)
        /\ v \in Nat \ {Null} /\ v \notin DOMAIN m.blocks
        /\ Others(m, n, v)
        /\ ~Ended(m) => v \in DOMAIN n.blocks /\ n.blocks[v] = NewBlock("compact")
    BY <1>0, <2>1, <2>2, <2>4, TurnsNew
  <2>8. h # v
    BY <1>0, <2>7
  <2>9. Ended(n) \/ (h \in DOMAIN n.blocks /\ n.blocks[h].class \in {"update"})
    BY <1>0, <2>4, <2>7, <2>8 DEF Others
  <2>10. /\ Turns(m, k, Plus({}, h), Minus(Plus({}, v), h)) /\ Ended(k) = Ended(n)
         /\ Others(n, k, h)
    BY <2>3, <2>7, <2>9, TurnsDelete
  <2>11. Minus(Plus({}, v), h) = Plus({}, v)
    BY <2>8 DEF Plus, Minus
  <2>12. Holds(n, v, "compact")
    BY <1>0, <2>7 DEF Holds, NewBlock
  <2>13. Holds(k, v, "compact")
    BY <2>8, <2>10, <2>12, HoldsStays
  <2> QED
    BY <1>0, <2>6, <2>7, <2>10, <2>11, <2>13
<1>2. CASE m.blocks[h].tag # "MUTABLE_SKETCH"
  <2>1. sketch = DataResult(m, h)
    BY <1>0, <1>2 DEF TagAt
  <2>2. /\ Turns(m, Mem(sketch), Plus({}, h), Plus(Minus({}, h), Val(sketch)))
        /\ ~Ended(Mem(sketch))
        /\ Val(sketch) \in DOMAIN Mem(sketch).blocks /\ Val(sketch) \in Nat \ {Null}
        /\ Val(sketch) = h \/ Val(sketch) \notin DOMAIN m.blocks
        /\ Others(m, Mem(sketch), h)
        /\ \/ Holds(Mem(sketch), Val(sketch), "compact")
           \/ Holds(Mem(sketch), Val(sketch), "update") /\ TagIn(m, h) = "MUTABLE_SKETCH"
    BY <1>0, <2>1, DataResultIs
  <2>3. Minus({}, h) = {} /\ TagIn(m, h) # "MUTABLE_SKETCH"
    BY <1>2 DEF Minus, TagIn
  <2> QED
    BY <2>2, <2>3
<1> QED
  BY <1>1, <1>2

(* handle_serialize(): the state is freed, whatever it is; the bytes are a *)
(* sketch's, or none for the null handle.                                  *)
LEMMA SerializeStateIs ==
  ASSUME NEW m, NEW handle, NEW r, r = SerializeState(m, handle), Running(m),
         handle = NoHandle \/ StateAt(m, handle)
  PROVE  /\ Answers(m, r, Handle(handle), FALSE)
         /\ Val(r).len \in {EmptyLength, SketchLength}
<1>0. Turns(m, m, {}, {}) /\ ~Ended(m) /\ MemoryOK(m)
  BY TurnsNothing DEF Running
<1>1. CASE handle = NoHandle
  <2>1. Mem(r) = m /\ Val(r) = NullList
    BY <1>1 DEF SerializeState, Result, Mem, Val
  <2>2. Handle(handle) = {} /\ Ended(m) = FALSE /\ NullList.len = EmptyLength
    BY <1>0, <1>1 DEF Handle, NullList, List
  <2> QED
    BY <1>0, <2>1, <2>2, NullListIs DEF Answers
<1>2. CASE handle # NoHandle
  <2>1. PICK sketch : sketch = (IF TagAt(m, handle) = "MUTABLE_SKETCH" THEN Compact(m, handle)
                                ELSE DataResult(m, handle))
    OBVIOUS
  <2>2. PICK s : s = Mem(sketch)
    OBVIOUS
  <2>3. PICK v : v = Val(sketch)
    OBVIOUS
  <2>4. PICK output : output = SerializeSketch(s, v)
    OBVIOUS
  <2>5. PICK n : n = Mem(output)
    OBVIOUS
  <2>6. PICK p : p = Ptr(Val(output))
    OBVIOUS
  <2>7. PICK k : k = Delete(n, v, Sketches)
    OBVIOUS
  <2>8. Mem(r) = k /\ Val(r) = Val(output)
    BY <1>2, <2>1, <2>2, <2>3, <2>4, <2>5, <2>7 DEF SerializeState, Result, Mem, Val
  <2>9. /\ Turns(m, Mem(sketch), Plus({}, handle), Plus({}, Val(sketch)))
        /\ ~Ended(Mem(sketch)) /\ Holds(Mem(sketch), Val(sketch), "compact")
        /\ Val(sketch) = handle \/ Val(sketch) \notin DOMAIN m.blocks
        /\ Val(sketch) \in Nat \ {Null}
    BY <1>2, <2>1, SketchOfState
  <2>10. /\ Turns(m, s, Plus({}, handle), Plus({}, v)) /\ ~Ended(s)
         /\ Holds(s, v, "compact")
         /\ v = handle \/ v \notin DOMAIN m.blocks
    BY <2>2, <2>3, <2>9
  <2>11. PICK o : o = Plus({}, handle)
    OBVIOUS
  <2>12. PICK one : one = Plus({}, v)
    OBVIOUS
  <2>13. Turns(m, s, o, one) /\ (Ended(s) \/ Holds(s, v, "compact"))
    BY <2>10, <2>11, <2>12
  <2>14. /\ Turns(m, Mem(output), o, Plus(one, Ptr(Val(output)))) /\ Ended(Mem(output)) = Ended(s)
         /\ Val(output) = List(Ptr(Val(output)), SketchLength)
         /\ Ptr(Val(output)) \in Nat \ {Null} /\ Ptr(Val(output)) \notin DOMAIN s.blocks
         /\ Others(s, Mem(output), Ptr(Val(output)))
         /\ ~Ended(s) => Holds(Mem(output), Ptr(Val(output)), "bytes")
    BY <2>4, <2>13, TurnsSerialize
  <2>15. PICK i : i = Plus(one, p)
    OBVIOUS
  <2>16. /\ Turns(m, n, o, i) /\ ~Ended(n) /\ Val(output) = List(p, SketchLength)
         /\ p \in Nat \ {Null} /\ p \notin DOMAIN s.blocks /\ Others(s, n, p)
         /\ Holds(n, p, "bytes")
    BY <2>5, <2>6, <2>10, <2>14, <2>15
  <2>17. v # p
    BY <2>10, <2>16 DEF Holds
  <2>18. Holds(n, v, "compact")
    BY <2>10, <2>16, <2>17, HoldsStays
  <2>19. v \in DOMAIN n.blocks /\ n.blocks[v].class \in Sketches
    BY <2>18 DEF Holds, Sketches
  <2>20. Turns(m, k, Plus(o, v), Minus(i, v)) /\ Ended(k) = Ended(n) /\ Others(n, k, v)
    BY <2>7, <2>16, <2>19, TurnsDelete
  <2>21. Turns(m, k, o, Minus(i, v))
    <3>1. CASE v = handle
      <4>1. Plus(o, v) = o
        BY <2>11, <3>1 DEF Plus
      <4> QED
        BY <2>20, <4>1
    <3>2. CASE v # handle
      <4>1. v \notin DOMAIN m.blocks \ o
        BY <2>10, <3>2
      <4> QED
        BY <2>20, <4>1, TurnsForget
    <3> QED
      BY <3>1, <3>2
  <2>22. Minus(i, v) = {p} /\ o = Handle(handle)
    BY <1>2, <2>11, <2>12, <2>15, <2>17 DEF Plus, Minus, Handle
  <2>23. Holds(k, p, "bytes")
    BY <2>16, <2>17, <2>20, HoldsStays
  <2>24. Ended(k) = FALSE
    BY <2>16, <2>20
  <2>25. {p} = Ptrs(Val(r)) /\ Ptr(Val(r)) = p /\ Val(r).len = SketchLength
    BY <2>8, <2>16 DEF Ptrs, List, Ptr
  <2> QED
    BY <2>8, <2>16, <2>21, <2>22, <2>23, <2>24, <2>25 DEF Answers, ListIn, List, Lengths, ProperLength
<1> QED
  BY <1>1, <1>2

(* handle_deserialize(): the bytes are freed; the process never ends on    *)
(* what handle_serialize() wrote.                                          *)
LEMMA DeserializeStateIs ==
  ASSUME NEW m, NEW list, NEW r, r = DeserializeState(m, list), Running(m),
         ListIn(m, list), list # NullList, list.len \in {EmptyLength, SketchLength}
  PROVE  Hands(m, r, Ptrs(list), FALSE)
<1>0. /\ Turns(m, m, {}, {}) /\ ~Ended(m) /\ MemoryOK(m)
      /\ Holds(m, Ptr(list), "bytes") /\ Ptr(list) \in DOMAIN m.blocks
      /\ Ptrs(list) = {Ptr(list)} /\ ProperLength(list)
  BY TurnsNothing, ListInMemory DEF Running, ListIn
<1>1. CASE list.len = EmptyLength
  <2>1. PICK k : k = FreeList(m, list)
    OBVIOUS
  <2>2. Mem(r) = k /\ Val(r) = NoHandle
    BY <1>1, <2>1 DEF DeserializeState, Result, Mem, Val
  <2>3. /\ Turns(m, k, Join({}, Ptrs(list)), Less({}, Ptrs(list))) /\ Ended(k) = Ended(m)
        /\ Others(m, k, Ptr(list))
    BY <1>0, <2>1, TurnsFreeList
  <2>4. Join({}, Ptrs(list)) = Ptrs(list) /\ Less({}, Ptrs(list)) = Handle(NoHandle)
    BY DEF Join, Less, Handle
  <2>5. Ended(k) = FALSE
    BY <1>0, <2>3
  <2> QED
    BY <2>2, <2>3, <2>4, <2>5 DEF Hands
<1>2. CASE list.len = SketchLength
  <2>0. list.len # EmptyLength /\ ~TooShort(list)
    BY <1>2 DEF TooShort, EmptyLength, SketchLength
  <2>1. PICK sketch : sketch = DeserializeList(m, list)
    OBVIOUS
  <2>2. PICK s : s = Mem(sketch)
    OBVIOUS
  <2>3. PICK v : v = Val(sketch)
    OBVIOUS
  <2>4. PICK t : t = SetType(s, v, "IMMUTABLE_SKETCH")
    OBVIOUS
  <2>5. PICK k : k = FreeList(t, list)
    OBVIOUS
  <2>6. Mem(r) = k /\ Val(r) = v
    BY <2>0, <2>1, <2>2, <2>3, <2>4, <2>5 DEF DeserializeState, Result, Mem, Val
  <2>7. /\ Turns(m, Mem(sketch), {}, Plus({}, Val(sketch)))
        /\ Ended(Mem(sketch)) = (Ended(m) \/ TooShort(list))
        /\ Val(sketch) \in Nat \ {Null} /\ Val(sketch) \notin DOMAIN m.blocks
        /\ Others(m, Mem(sketch), Val(sketch))
        /\ ~Ended(Mem(sketch)) => Holds(Mem(sketch), Val(sketch), "compact")
    BY <1>0, <2>1, TurnsDeserialize
  <2>8. /\ Turns(m, s, {}, Plus({}, v)) /\ ~Ended(s)
        /\ v \in Nat \ {Null} /\ v \notin DOMAIN m.blocks
        /\ Others(m, s, v) /\ Holds(s, v, "compact") /\ v \in DOMAIN s.blocks
    BY <1>0, <2>0, <2>2, <2>3, <2>7 DEF Holds
  <2>9. "IMMUTABLE_SKETCH" \in Tags
    BY DEF Tags
  <2>10. /\ Turns(m, t, Plus({}, v), Plus(Plus({}, v), v)) /\ Ended(t) = Ended(s)
         /\ Allocated(t) = Allocated(s) /\ Others(s, t, v)
         /\ TagIn(t, v) = "IMMUTABLE_SKETCH"
         /\ \A class : Holds(s, v, class) => Holds(t, v, class)
    BY <2>4, <2>8, <2>9, TurnsSetType
  <2>11. Holds(t, v, "compact")
    BY <2>8, <2>10
  <2>12. Turns(m, t, {}, Plus({}, v))
    <3>1. Plus(Plus({}, v), v) = Plus({}, v) /\ v \notin DOMAIN m.blocks \ {}
      BY <2>8 DEF Plus
    <3> QED
      BY <2>10, <3>1, TurnsForget
  <2>13. Ptr(list) # v
    BY <1>0, <2>8
  <2>14. Holds(t, Ptr(list), "bytes")
    BY <1>0, <2>8, <2>10, <2>13, HoldsStays
  <2>15. /\ Turns(m, k, Join({}, Ptrs(list)), Less(Plus({}, v), Ptrs(list)))
         /\ Ended(k) = Ended(t) /\ Others(t, k, Ptr(list))
    BY <2>5, <2>12, <2>14, TurnsFreeList
  <2>16. Join({}, Ptrs(list)) = Ptrs(list) /\ Less(Plus({}, v), Ptrs(list)) = Handle(v)
    BY <1>0, <2>8, <2>13, HandleIs DEF Join, Less
  <2>17. Holds(k, v, "compact") /\ k.blocks[v] = t.blocks[v]
    BY <2>11, <2>13, <2>15, HoldsStays
  <2>18. StateAt(k, v)
    BY <2>10, <2>17 DEF StateAt, Holds, TagIn, TaggedAs
  <2>19. Ended(k) = FALSE
    BY <2>8, <2>10, <2>15
  <2> QED
    BY <2>6, <2>8, <2>15, <2>16, <2>18, <2>19 DEF Hands
<1> QED
  BY <1>1, <1>2

-----------------------------------------------------------------------------
(* Lowering arguments: each list gets a block, which the emptyisnull form  *)
(* gives back when the list is empty.                                      *)
Took(list, len) ==
  list.len = len /\ (list = NullList <=> emptyIsNull /\ len = EmptyLength)

(* What is left of in when list is what was made of the one at p. *)
Kept(in, p, list) == Less(in, Less({p}, Ptrs(list)))
At(list, p) == Ptrs(list) = {} \/ Ptrs(list) = {p}

(* The host puts the bytes of an argument in memory.                       *)
LEMMA LowerIs ==
  ASSUME NEW m, NEW n, NEW in, NEW len, NEW r, r = Lower(n, len), Turns(m, n, {}, in),
         ~Ended(n)
  PROVE  /\ Turns(m, Mem(r), {}, Plus(in, Ptr(Val(r)))) /\ ~Ended(Mem(r))
         /\ Val(r) = List(Ptr(Val(r)), len)
         /\ Ptr(Val(r)) \in Nat \ {Null} /\ Ptr(Val(r)) \notin DOMAIN n.blocks
         /\ Others(n, Mem(r), Ptr(Val(r))) /\ Holds(Mem(r), Ptr(Val(r)), "bytes")
<1>1. PICK p : p = Fresh(n)
  OBVIOUS
<1>2. PICK k : k = New(n, "bytes")
  OBVIOUS
<1>3. Mem(r) = k /\ Val(r) = List(p, len) /\ Ptr(Val(r)) = p
  BY <1>1, <1>2 DEF Lower, Result, Mem, Val, List, Ptr
<1>4. "bytes" \in Classes
  BY DEF Classes
<1>5. /\ Turns(m, k, {}, Plus(in, p)) /\ Ended(k) = Ended(n)
      /\ p \in Nat \ {Null} /\ p \notin DOMAIN n.blocks
      /\ Others(n, k, p)
      /\ ~Ended(n) => p \in DOMAIN k.blocks /\ k.blocks[p] = NewBlock("bytes")
  BY <1>1, <1>2, <1>4, TurnsNew
<1>6. Holds(k, p, "bytes")
  BY <1>5 DEF Holds, NewBlock
<1> QED
  BY <1>3, <1>5, <1>6

(* The emptyisnull variants: a list of no bytes is freed and becomes the   *)
(* null list, any other stays.                                             *)
LEMMA NulledIs ==
  ASSUME NEW m, NEW n, NEW in, NEW list, NEW p, NEW len, NEW r, r = EmptyIsNull(n, list),
         list = List(p, len), Turns(m, n, {}, in), ~Ended(n), Holds(n, p, "bytes"),
         p \in Nat \ {Null}, p \notin DOMAIN m.blocks, len \in Lengths,
         emptyIsNull \in BOOLEAN
  PROVE  /\ Turns(m, Mem(r), {}, Kept(in, p, Val(r))) /\ ~Ended(Mem(r))
         /\ Others(n, Mem(r), p) /\ Took(Val(r), len)
         /\ Val(r) = NullList \/ (Val(r) = list /\ Mem(r) = n)
         /\ ListIn(Mem(r), Val(r)) /\ At(Val(r), p)
<1>0. /\ Ptr(list) = p /\ Ptrs(list) = {p} /\ list.len = len /\ list # NullList
      /\ ListIn(n, list)
  BY DEF List, NullList, Ptr, Ptrs, Null, ListIn, ProperLength
<1>1. CASE emptyIsNull /\ len = EmptyLength
  <2>1. PICK k : k = FreeList(n, list)
    OBVIOUS
  <2>2. Mem(r) = k /\ Val(r) = NullList
    BY <1>0, <1>1, <2>1 DEF EmptyIsNull, Result, Mem, Val
  <2>3. Ptr(list) = Null \/ Ended(n) \/ Holds(n, Ptr(list), "bytes")
    BY <1>0
  <2>4. /\ Turns(m, k, Join({}, Ptrs(list)), Less(in, Ptrs(list))) /\ Ended(k) = Ended(n)
        /\ Others(n, k, Ptr(list))
    BY <2>1, <2>3, TurnsFreeList
  <2>5. /\ Join({}, Ptrs(list)) = Plus({}, p)
        /\ Less(in, Ptrs(list)) = Kept(in, p, NullList)
    BY <1>0, NullListIs DEF Join, Plus, Less, Kept
  <2>6. Turns(m, k, {}, Kept(in, p, NullList))
    <3>1. p \notin DOMAIN m.blocks \ {}
      OBVIOUS
    <3> QED
      BY <2>4, <2>5, <3>1, TurnsForget
  <2>7. Took(NullList, len)
    BY <1>1 DEF Took, NullList, List
  <2> QED
    BY <1>0, <2>2, <2>4, <2>6, <2>7, NullListIs DEF At
<1>2. CASE ~(emptyIsNull /\ len = EmptyLength)
  <2>1. Mem(r) = n /\ Val(r) = list
    BY <1>0, <1>2 DEF EmptyIsNull, Result, Mem, Val
  <2>2. Kept(in, p, list) = in
    BY <1>0 DEF Less, Kept
  <2>3. Took(list, len)
    BY <1>0, <1>2 DEF Took
  <2> QED
    BY <1>0, <2>1, <2>2, <2>3 DEF Others, At
<1> QED
  BY <1>1, <1>2

(* The argument of a function of one list. *)
LEMMA LoweredIs ==
  ASSUME NEW m, NEW len, NEW lower, NEW r, lower = Lower(m, len),
         r = EmptyIsNull(Mem(lower), Val(lower)), Running(m), len \in Lengths,
         emptyIsNull \in BOOLEAN
  PROVE  /\ Turns(m, Mem(r), {}, Ptrs(Val(r))) /\ Running(Mem(r))
         /\ ListIn(Mem(r), Val(r)) /\ Took(Val(r), len)
<1>0. Turns(m, m, {}, {}) /\ ~Ended(m) /\ MemoryOK(m)
  BY TurnsNothing DEF Running
<1>1. PICK p : p = Ptr(Val(lower))
  OBVIOUS
<1>2. PICK n : n = Mem(lower)
  OBVIOUS
<1>3. PICK list : list = Val(lower)
  OBVIOUS
<1>4. /\ Turns(m, Mem(lower), {}, Plus({}, Ptr(Val(lower)))) /\ ~Ended(Mem(lower))
      /\ Val(lower) = List(Ptr(Val(lower)), len)
      /\ Ptr(Val(lower)) \in Nat \ {Null} /\ Ptr(Val(lower)) \notin DOMAIN m.blocks
      /\ Others(m, Mem(lower), Ptr(Val(lower)))
      /\ Holds(Mem(lower), Ptr(Val(lower)), "bytes")
  BY <1>0, LowerIs
<1>5. PICK in : in = Plus({}, p)
  OBVIOUS
<1>6. /\ r = EmptyIsNull(n, list) /\ list = List(p, len) /\ Turns(m, n, {}, in)
      /\ ~Ended(n) /\ Holds(n, p, "bytes") /\ p \in Nat \ {Null} /\ p \notin DOMAIN m.blocks
  BY <1>1, <1>2, <1>3, <1>4, <1>5
<1>7. /\ Turns(m, Mem(r), {}, Kept(in, p, Val(r))) /\ ~Ended(Mem(r))
      /\ Others(n, Mem(r), p) /\ Took(Val(r), len)
      /\ Val(r) = NullList \/ (Val(r) = list /\ Mem(r) = n)
      /\ ListIn(Mem(r), Val(r)) /\ At(Val(r), p)
  BY <1>6, NulledIs
<1>8. Kept(in, p, Val(r)) = Ptrs(Val(r))
  BY <1>5, <1>7 DEF Plus, Less, Kept, At
<1>9. Running(Mem(r))
  BY <1>7 DEF Turns, Running
<1> QED
  BY <1>7, <1>8, <1>9

(* The arguments of a function of two lists. *)
LEMMA BothLoweredIs ==
  ASSUME NEW m, NEW len1, NEW len2, NEW first, NEW second, NEW left, NEW right,
         first = Lower(m, len1), second = Lower(Mem(first), len2),
         left = EmptyIsNull(Mem(second), Val(first)),
         right = EmptyIsNull(Mem(left), Val(second)),
         Running(m), len1 \in Lengths, len2 \in Lengths, emptyIsNull \in BOOLEAN
  PROVE  /\ Turns(m, Mem(right), {}, Join(Ptrs(Val(left)), Ptrs(Val(right))))
         /\ Running(Mem(right))
         /\ ListIn(Mem(right), Val(left)) /\ ListIn(Mem(right), Val(right))
         /\ Took(Val(left), len1) /\ Took(Val(right), len2)
         /\ Ptr(Val(left)) = Ptr(Val(right)) => Ptr(Val(left)) = Null
<1>0. Turns(m, m, {}, {}) /\ ~Ended(m) /\ MemoryOK(m)
  BY TurnsNothing DEF Running
<1>1. PICK p : p = Ptr(Val(first))
  OBVIOUS
<1>2. PICK q : q = Ptr(Val(second))
  OBVIOUS
<1>3. PICK n1 : n1 = Mem(first)
  OBVIOUS
<1>4. PICK n2 : n2 = Mem(second)
  OBVIOUS
<1>5. PICK n3 : n3 = Mem(left)
  OBVIOUS
<1>6. PICK list1 : list1 = Val(first)
  OBVIOUS
<1>7. PICK list2 : list2 = Val(second)
  OBVIOUS
<1>8. PICK i1 : i1 = Plus({}, p)
  OBVIOUS
<1>9. PICK i2 : i2 = Plus(i1, q)
  OBVIOUS
<1>10. /\ Turns(m, Mem(first), {}, Plus({}, Ptr(Val(first)))) /\ ~Ended(Mem(first))
       /\ Val(first) = List(Ptr(Val(first)), len1)
       /\ Ptr(Val(first)) \in Nat \ {Null} /\ Ptr(Val(first)) \notin DOMAIN m.blocks
       /\ Others(m, Mem(first), Ptr(Val(first)))
       /\ Holds(Mem(first), Ptr(Val(first)), "bytes")
  BY <1>0, LowerIs
<1>11. /\ second = Lower(n1, len2) /\ Turns(m, n1, {}, i1) /\ ~Ended(n1)
       /\ list1 = List(p, len1) /\ p \in Nat \ {Null} /\ p \notin DOMAIN m.blocks
       /\ Others(m, n1, p) /\ Holds(n1, p, "bytes")
  BY <1>1, <1>3, <1>6, <1>8, <1>10
<1>12. /\ Turns(m, Mem(second), {}, Plus(i1, Ptr(Val(second)))) /\ ~Ended(Mem(second))
       /\ Val(second) = List(Ptr(Val(second)), len2)
       /\ Ptr(Val(second)) \in Nat \ {Null} /\ Ptr(Val(second)) \notin DOMAIN n1.blocks
       /\ Others(n1, Mem(second), Ptr(Val(second)))
       /\ Holds(Mem(second), Ptr(Val(second)), "bytes")
  BY <1>11, LowerIs
<1>13. /\ Turns(m, n2, {}, i2) /\ ~Ended(n2) /\ list2 = List(q, len2)
       /\ q \in Nat \ {Null} /\ q \notin DOMAIN n1.blocks /\ Others(n1, n2, q)
       /\ Holds(n2, q, "bytes")
  BY <1>2, <1>4, <1>7, <1>9, <1>12
<1>14. p # q /\ q \notin DOMAIN m.blocks
  BY <1>0, <1>11, <1>13 DEF Holds, Turns
<1>15. /\ left = EmptyIsNull(n2, list1) /\ Holds(n2, p, "bytes")
  BY <1>4, <1>6, <1>11, <1>13, <1>14, HoldsStays
<1>16. /\ Turns(m, Mem(left), {}, Kept(i2, p, Val(left))) /\ ~Ended(Mem(left))
       /\ Others(n2, Mem(left), p) /\ Took(Val(left), len1)
       /\ Val(left) = NullList \/ (Val(left) = list1 /\ Mem(left) = n2)
       /\ ListIn(Mem(left), Val(left)) /\ At(Val(left), p)
  <2>1. /\ left = EmptyIsNull(n2, list1) /\ list1 = List(p, len1) /\ Turns(m, n2, {}, i2)
        /\ ~Ended(n2) /\ Holds(n2, p, "bytes")
        /\ p \in Nat \ {Null} /\ p \notin DOMAIN m.blocks
    BY <1>11, <1>13, <1>15
  <2> QED
    BY <2>1, NulledIs
<1>17. PICK i3 : i3 = Kept(i2, p, Val(left))
  OBVIOUS
<1>18. Holds(n3, q, "bytes")
  <2>1. Others(n2, n3, p)
    BY <1>5, <1>16
  <2> QED
    BY <1>13, <1>14, <2>1, HoldsStays
<1>19. right = EmptyIsNull(n3, list2) /\ Turns(m, n3, {}, i3) /\ ~Ended(n3)
  BY <1>5, <1>7, <1>16, <1>17
<1>20. /\ Turns(m, Mem(right), {}, Kept(i3, q, Val(right))) /\ ~Ended(Mem(right))
       /\ Others(n3, Mem(right), q) /\ Took(Val(right), len2)
       /\ Val(right) = NullList \/ (Val(right) = list2 /\ Mem(right) = n3)
       /\ ListIn(Mem(right), Val(right)) /\ At(Val(right), q)
  BY <1>13, <1>14, <1>18, <1>19, NulledIs
<1>21. Kept(i3, q, Val(right)) = Join(Ptrs(Val(left)), Ptrs(Val(right)))
  BY <1>8, <1>9, <1>14, <1>16, <1>17, <1>20 DEF Plus, Less, Join, Kept, At
<1>22. Ptr(Val(left)) = Null \/ Ptr(Val(left)) = p
  BY <1>16, NullListIs DEF Ptrs, At
<1>23. Ptr(Val(right)) = Null \/ Ptr(Val(right)) = q
  BY <1>20, NullListIs DEF Ptrs, At
<1>24. ListIn(Mem(right), Val(left))
  <2>1. ListIn(n3, Val(left)) /\ Ptr(Val(left)) # q
    BY <1>5, <1>13, <1>14, <1>16, <1>22
  <2> QED
    BY <1>20, <2>1, ListInStays
<1>25. Running(Mem(right))
  BY <1>20 DEF Turns, Running
<1> QED
  BY <1>14, <1>16, <1>20, <1>21, <1>22, <1>23, <1>24, <1>25

-----------------------------------------------------------------------------
(* What the engine knows of a group. *)
GroupState ==
  {s \in [kind : Kinds \cup {"none"}, stage : {"none", "iterate", "partial", "shipped"},
          handle : Nat \cup {NoHandle}, shipped : Lengths] :
     /\ s.stage # "none" => s.kind \in Kinds
     /\ s.stage = "shipped" => s.shipped # ShortLength
     /\ s.handle # NoHandle => s.stage \in {"iterate", "partial"}}

(* The handle of a group points to a state, of its aggregate before the    *)
(* first merge or deserialization.                                         *)
Points(m, s) ==
  s.handle # NoHandle =>
    StateAt(m, s.handle) /\ (s.stage = "iterate" => Holds(m, s.handle, ClassOf(s.kind)))

(* The handles of the groups in S, and that no two of these groups share   *)
(* one.                                                                    *)
HandlesOf(e, S) == {e[g].handle : g \in S} \ {NoHandle}
Distinct(e, S) ==
  \A g, h \in S : g # h /\ e[g].handle # NoHandle => e[g].handle # e[h].handle

(* The inductive invariant. *)
IInv ==
  /\ emptyIsNull \in BOOLEAN
  /\ MemoryOK(memory) /\ ~memory.fault
  /\ engine \in [Groups -> GroupState]
  /\ \A g \in Groups : Points(memory, engine[g])
  /\ ListIn(memory, unread)
  /\ ~Ended(memory) =>
       /\ DOMAIN memory.blocks = Join(HandlesOf(engine, Groups), Ptrs(unread))
       /\ Ptr(unread) \notin HandlesOf(engine, Groups)
       /\ Distinct(engine, Groups)

(* Between two calls, the result read.                                     *)
Quiet == ~Ended(memory) /\ unread = NullList

(* A call on the groups in S alone, that frees what they and the unread    *)
(* list held and leaves what they and the new unread list hold.            *)
LEMMA StepKeeps ==
  ASSUME IInv, ~Ended(memory), NEW S \in SUBSET Groups, emptyIsNull' = emptyIsNull,
         engine' \in [Groups -> GroupState], \A g \in Groups \ S : engine'[g] = engine[g],
         Turns(memory, memory', Join(HandlesOf(engine, S), Ptrs(unread)),
               Join(HandlesOf(engine', S), Ptrs(unread'))),
         ListIn(memory', unread'), \A g \in S : Points(memory', engine'[g]),
         Ended(memory') \/ (Distinct(engine', S) /\ Ptr(unread') \notin HandlesOf(engine', S))
  PROVE  IInv'
<1>1. PICK out : out = Join(HandlesOf(engine, S), Ptrs(unread))
  OBVIOUS
<1>2. PICK in : in = Join(HandlesOf(engine', S), Ptrs(unread'))
  OBVIOUS
<1>3. /\ MemoryOK(memory') /\ ~memory'.fault
      /\ \A b \in DOMAIN memory.blocks \ out :
           b \in DOMAIN memory'.blocks /\ memory'.blocks[b] = memory.blocks[b]
      /\ ~Ended(memory') => /\ DOMAIN memory'.blocks = (DOMAIN memory.blocks \ out) \cup in
                            /\ in \cap (DOMAIN memory.blocks \ out) = {}
  BY <1>1, <1>2 DEF Turns
<1>4. ASSUME NEW g \in Groups \ S, engine[g].handle # NoHandle
      PROVE  engine[g].handle \in DOMAIN memory.blocks \ out
  <2>1. engine[g].handle \in HandlesOf(engine, Groups)
    BY <1>4 DEF HandlesOf
  <2>2. engine[g].handle \in DOMAIN memory.blocks
    BY <2>1 DEF IInv, Join
  <2>3. engine[g].handle \notin HandlesOf(engine, S)
    BY <1>4 DEF HandlesOf, IInv, Distinct
  <2>4. engine[g].handle \notin Ptrs(unread)
    BY <2>1 DEF IInv, Ptrs
  <2> QED
    BY <1>1, <2>2, <2>3, <2>4 DEF Join
<1>5. ASSUME NEW g \in Groups PROVE Points(memory', engine'[g])
  <2>1. CASE g \in S
    BY <2>1
  <2>2. CASE g \notin S
    <3>1. engine'[g] = engine[g] /\ Points(memory, engine[g])
      BY <2>2 DEF IInv
    <3> SUFFICES ASSUME engine[g].handle # NoHandle
                 PROVE  Points(memory', engine[g])
      BY <3>1 DEF Points
    <3>2. /\ engine[g].handle \in DOMAIN memory'.blocks
          /\ memory'.blocks[engine[g].handle] = memory.blocks[engine[g].handle]
      BY <1>3, <1>4, <2>2
    <3> QED
      BY <3>1, <3>2 DEF Points, StateAt, Holds
  <2> QED
    BY <2>1, <2>2
<1>6. ASSUME ~Ended(memory')
      PROVE  /\ DOMAIN memory'.blocks = Join(HandlesOf(engine', Groups), Ptrs(unread'))
             /\ Ptr(unread') \notin HandlesOf(engine', Groups)
             /\ Distinct(engine', Groups)
  <2>1. /\ DOMAIN memory'.blocks = (DOMAIN memory.blocks \ out) \cup in
        /\ in \cap (DOMAIN memory.blocks \ out) = {}
        /\ Distinct(engine', S) /\ Ptr(unread') \notin HandlesOf(engine', S)
    BY <1>3, <1>6
  <2>2. HandlesOf(engine', Groups \ S) = DOMAIN memory.blocks \ out
    <3>1. HandlesOf(engine', Groups \ S) = HandlesOf(engine, Groups \ S)
      BY DEF HandlesOf
    <3>2. HandlesOf(engine, Groups \ S) \subseteq DOMAIN memory.blocks \ out
      BY <1>4 DEF HandlesOf
    <3>3. DOMAIN memory.blocks = Join(HandlesOf(engine, Groups), Ptrs(unread))
      BY DEF IInv
    <3>4. HandlesOf(engine, Groups) = HandlesOf(engine, S) \cup HandlesOf(engine, Groups \ S)
      BY DEF HandlesOf
    <3> QED
      BY <1>1, <3>1, <3>2, <3>3, <3>4 DEF Join
  <2>3. HandlesOf(engine', Groups) = HandlesOf(engine', S) \cup HandlesOf(engine', Groups \ S)
    BY DEF HandlesOf
  <2>4. DOMAIN memory'.blocks = Join(HandlesOf(engine', Groups), Ptrs(unread'))
    BY <1>2, <2>1, <2>2, <2>3 DEF Join
  <2>5. Ptr(unread') \notin HandlesOf(engine', Groups)
    <3>1. Null \notin DOMAIN memory.blocks
      BY DEF IInv, MemoryOK
    <3>2. Ptr(unread') = Null \/ Ptr(unread') \in in
      BY <1>2 DEF Join, Ptrs
    <3> QED
      BY <2>1, <2>2, <2>3, <3>1, <3>2
  <2>6. ASSUME NEW g \in Groups, NEW h \in Groups, g # h, engine'[g].handle # NoHandle,
               engine'[g].handle = engine'[h].handle
        PROVE  FALSE
    <3>1. ASSUME NEW i \in S, NEW j \in Groups \ S, engine'[i].handle # NoHandle
          PROVE  engine'[i].handle # engine'[j].handle
      <4>1. engine'[i].handle \in in
        BY <1>2, <3>1 DEF Join, HandlesOf
      <4>2. engine'[j].handle = engine[j].handle
        OBVIOUS
      <4> QED
        BY <1>4, <2>1, <3>1, <4>1, <4>2
    <3>2. CASE g \in S /\ h \in S
      BY <2>1, <2>6, <3>2 DEF Distinct
    <3>3. CASE g \notin S /\ h \notin S
      <4>1. engine'[g] = engine[g] /\ engine'[h] = engine[h]
        BY <3>3
      <4> QED
        BY <2>6, <4>1 DEF IInv, Distinct
    <3>4. CASE (g \in S) # (h \in S)
      BY <2>6, <3>1, <3>4
    <3> QED
      BY <3>2, <3>3, <3>4
  <2>7. Distinct(engine', Groups)
    BY <2>6 DEF Distinct
  <2> QED
    BY <2>4, <2>5, <2>7
<1> QED
  BY <1>3, <1>5, <1>6 DEF IInv

-----------------------------------------------------------------------------
(* Calls: lowering, then the function.                                     *)
LEMMA TurnsOwning ==
  ASSUME NEW m, NEW n, NEW k, NEW lowered, NEW owned, NEW out, NEW in,
         owned = Join(out, lowered), Turns(m, n, {}, lowered), ~Ended(n),
         Turns(n, k, owned, in)
  PROVE  Turns(m, k, out, in)
<1>1. /\ DOMAIN n.blocks = DOMAIN m.blocks \cup lowered
      /\ lowered \cap DOMAIN m.blocks = {}
      /\ \A b \in DOMAIN m.blocks : n.blocks[b] = m.blocks[b]
  BY DEF Turns
<1>2. DOMAIN n.blocks \ owned = DOMAIN m.blocks \ out
  BY <1>1 DEF Join
<1> QED
  BY <1>1, <1>2 DEF Turns

(* A state is still there when arguments have been lowered.                *)
LEMMA StateStays ==
  ASSUME NEW m, NEW n, NEW in, NEW h, NEW kind, Turns(m, n, {}, in), StateOf(m, h, kind)
  PROVE  StateOf(n, h, kind)
BY DEF Turns, StateOf, StateAt, Holds

(* Which lists a function refuses, by the lengths of its arguments. *)
LEMMA TookIs ==
  ASSUME NEW list, NEW len, Took(list, len), len \in Lengths
  PROVE  /\ TooShort(list) = (len \in {EmptyLength, ShortLength})
         /\ list = NullList <=> emptyIsNull /\ len = EmptyLength
         /\ Short(list) <=> len = ShortLength \/ (~emptyIsNull /\ len = EmptyLength)
BY DEF Took, TooShort, Short, Lengths, EmptyLength, ShortLength, SketchLength

(* AbortsOnlyOnArguments, when every sketch has its confidence bounds.     *)
Aborts == TRUE \notin StatisticsOutcomes => AbortsOnlyOnArguments

(* The one call that faults. *)
Faults == faulted <=> emptyIsNull /\ called = <<"get_estimate", EmptyLength>>

(* What a call that did not fault leaves. *)
LEMMA CameBackIs ==
  ASSUME NEW m, CameBack(m), MemoryOK(m), ~m.fault
  PROVE  memory' = m /\ faulted' = FALSE
BY SettledIs DEF CameBack, Settled, MemoryOK

(* A call starts with every block a group's state.                         *)
LEMMA QuietIs ==
  ASSUME IInv, Ready
  PROVE  /\ Quiet /\ Running(memory) /\ Ptrs(unread) = {} /\ emptyIsNull \in BOOLEAN
         /\ DOMAIN memory.blocks = HandlesOf(engine, Groups)
BY NullListIs DEF IInv, Ready, Quiet, Running, Ended, Join

(* A scalar function came back, and left memory as it says in r. *)
LEMMA ScalarKeeps ==
  ASSUME IInv, Ready, NEW n, NEW r, NEW owned, NEW refuses,
         memory' = Mem(r), unread' = (IF Ended(Mem(r)) THEN NullList ELSE Val(r)),
         emptyIsNull' = emptyIsNull, engine' = engine,
         Turns(memory, n, {}, owned), ~Ended(n), Answers(n, r, owned, refuses)
  PROVE  IInv' /\ Ended(memory') = refuses
<1>1. /\ memory' = Mem(r) /\ unread' = (IF Ended(Mem(r)) THEN NullList ELSE Val(r))
      /\ emptyIsNull' = emptyIsNull /\ engine' = engine
  OBVIOUS
<1>2. Ended(memory') = refuses
  BY <1>1 DEF Answers
<1>3. Turns(memory, memory', {}, Ptrs(Val(r)))
  <2>1. owned = Join({}, owned) /\ Turns(n, Mem(r), owned, Ptrs(Val(r)))
    BY DEF Answers, Join
  <2> QED
    BY <1>1, <2>1, TurnsOwning
<1>4. ListIn(memory', unread')
  BY <1>1, NullListIs DEF Answers
<1>5. Turns(memory, memory', {}, Ptrs(unread'))
  BY <1>1, <1>3 DEF Turns
<1>6. PICK S \in SUBSET Groups : S = {}
  OBVIOUS
<1>7. HandlesOf(engine, S) = {} /\ HandlesOf(engine', S) = {}
  BY <1>6 DEF HandlesOf
<1>8. /\ Join(HandlesOf(engine, S), Ptrs(unread)) = {}
      /\ Join(HandlesOf(engine', S), Ptrs(unread')) = Ptrs(unread')
  BY <1>7, QuietIs DEF Join
<1>9. /\ ~Ended(memory) /\ engine' \in [Groups -> GroupState]
      /\ \A g \in Groups \ S : engine'[g] = engine[g]
  BY <1>1, QuietIs DEF IInv, Quiet
<1>10. Distinct(engine', S) /\ Ptr(unread') \notin HandlesOf(engine', S)
       /\ \A g \in S : Points(memory', engine'[g])
  BY <1>6, <1>7 DEF Distinct
<1>11. IInv'
  BY <1>1, <1>4, <1>5, <1>8, <1>9, <1>10, StepKeeps
<1> QED
  BY <1>2, <1>11

(* A scalar function that did not fault came back. *)
LEMMA ReturnKeeps ==
  ASSUME IInv, Ready, NEW call, NEW n, NEW r, NEW owned, NEW refuses, Return(call, r),
         Turns(memory, n, {}, owned), ~Ended(n), Answers(n, r, owned, refuses)
  PROVE  /\ IInv' /\ Ended(memory') = refuses /\ called' = call
         /\ emptyIsNull' = emptyIsNull /\ faulted' = FALSE
<1>1. /\ CameBack(Mem(r)) /\ unread' = (IF Ended(Mem(r)) THEN NullList ELSE Val(r))
      /\ called' = call /\ emptyIsNull' = emptyIsNull /\ engine' = engine
  BY DEF Return, Mem, Val, Ended
<1>2. MemoryOK(Mem(r)) /\ ~Mem(r).fault
  BY DEF Answers, Turns
<1>3. memory' = Mem(r) /\ faulted' = FALSE
  BY <1>1, <1>2, CameBackIs
<1>4. IInv' /\ Ended(memory') = refuses
  BY <1>1, <1>3, ScalarKeeps
<1> QED
  BY <1>1, <1>3, <1>4

(* A call of theta_sketch_get_estimate keeps the invariant.                *)
LEMMA EstimateKeeps ==
  ASSUME IInv, NEW len \in Lengths, CallGetEstimate(len)
  PROVE  IInv' /\ Aborts' /\ Faults'
<1>1. Ready /\ Running(memory) /\ emptyIsNull \in BOOLEAN
  BY QuietIs DEF CallGetEstimate
<1>2. PICK lower : lower = Lower(memory, len)
  OBVIOUS
<1>3. PICK arg : arg = EmptyIsNull(Mem(lower), Val(lower))
  OBVIOUS
<1>4. PICK n : n = Mem(arg)
  OBVIOUS
<1>5. PICK list : list = Val(arg)
  OBVIOUS
<1>5a. PICK traps \in BOOLEAN :
         Return(<<"get_estimate", len>>, EstimateFunction(n, list, traps))
  BY <1>2, <1>3, <1>4, <1>5 DEF CallGetEstimate, Lowered, Mem, Val
<1>6. PICK r : /\ r = EstimateFunction(n, list, traps)
               /\ Return(<<"get_estimate", len>>, r)
  BY <1>5a
<1>7. /\ Turns(memory, Mem(arg), {}, Ptrs(Val(arg))) /\ Running(Mem(arg))
      /\ ListIn(Mem(arg), Val(arg)) /\ Took(Val(arg), len)
  BY <1>1, <1>2, <1>3, LoweredIs
<1>8. /\ Turns(memory, n, {}, Ptrs(list)) /\ Running(n) /\ ~Ended(n)
      /\ ListIn(n, list) /\ Took(list, len)
  BY <1>4, <1>5, <1>7 DEF Running
<1>9. CASE list = NullList
  <2>1. emptyIsNull /\ len = EmptyLength /\ Ptrs(list) = {}
    BY <1>8, <1>9, TookIs, NullListIs
  <2>2. /\ Mem(r).fault = TRUE /\ Ended(Mem(r)) = traps /\ Val(r) = NullList
        /\ Answers(n, Result(Settled(Mem(r)), NullList), {}, traps)
    BY <1>6, <1>8, <1>9, EstimateOfNullIs
  <2>3. PICK settled : settled = Result(Settled(Mem(r)), NullList)
    OBVIOUS
  <2>4. /\ Mem(settled) = Settled(Mem(r)) /\ Val(settled) = NullList
        /\ Answers(n, settled, {}, traps)
    BY <2>2, <2>3 DEF Result, Mem, Val
  <2>5. /\ memory' = Mem(settled) /\ faulted' = TRUE /\ unread' = NullList
        /\ called' = <<"get_estimate", len>> /\ emptyIsNull' = emptyIsNull
        /\ engine' = engine
    BY <1>6, <2>2, <2>4 DEF Return, CameBack, Settled, Mem, Val
  <2>6. Turns(memory, n, {}, {}) /\ ~Ended(n)
    BY <1>8, <2>1
  <2>7. IInv'
    BY <1>1, <2>4, <2>5, <2>6, ScalarKeeps
  <2>8. Aborts' /\ Faults'
    BY <2>1, <2>5 DEF Aborts, Faults, AbortsOnlyOnArguments
  <2> QED
    BY <2>7, <2>8
<1>10. CASE list # NullList
  <2>1. PICK refuses : refuses = TooShort(list)
    OBVIOUS
  <2>2. Answers(n, r, Ptrs(list), refuses)
    BY <1>6, <1>8, <1>10, <2>1, EstimateIs
  <2>3. /\ IInv' /\ Ended(memory') = refuses /\ called' = <<"get_estimate", len>>
        /\ emptyIsNull' = emptyIsNull /\ faulted' = FALSE
    BY <1>1, <1>6, <1>8, <2>2, ReturnKeeps
  <2>4. /\ refuses <=> len = ShortLength \/ (~emptyIsNull /\ len = EmptyLength)
        /\ ~(emptyIsNull /\ len = EmptyLength)
    <3>1. refuses <=> Short(list)
      BY <1>10, <2>1 DEF Short
    <3> QED
      BY <1>8, <1>10, <3>1, TookIs
  <2>5. Faults'
    BY <2>3, <2>4 DEF Faults
  <2>6. AbortsOnlyOnArguments'
    BY <1>1, <2>3, <2>4
    DEF AbortsOnlyOnArguments, SketchArguments, RefusesNull, Ended, Lengths, EmptyLength,
        ShortLength, SketchLength
  <2> QED
    BY <2>3, <2>5, <2>6 DEF Aborts
<1> QED
  BY <1>9, <1>10

(* A call of theta_sketch_to_string keeps it.                              *)
LEMMA ToStringKeeps ==
  ASSUME IInv, NEW len \in Lengths, CallToString(len)
  PROVE  IInv' /\ Aborts' /\ Faults'
<1>1. Ready /\ Running(memory) /\ emptyIsNull \in BOOLEAN
  BY QuietIs DEF CallToString
<1>2. PICK lower : lower = Lower(memory, len)
  OBVIOUS
<1>3. PICK arg : arg = EmptyIsNull(Mem(lower), Val(lower))
  OBVIOUS
<1>4. PICK n : n = Mem(arg)
  OBVIOUS
<1>5. PICK list : list = Val(arg)
  OBVIOUS
<1>5a. PICK noBounds \in StatisticsOutcomes :
         Return(<<"to_string", len>>, ToStringFunction(n, list, noBounds))
  BY <1>2, <1>3, <1>4, <1>5 DEF CallToString, Lowered, Mem, Val
<1>6. PICK r : /\ r = ToStringFunction(n, list, noBounds)
               /\ Return(<<"to_string", len>>, r)
  BY <1>5a
<1>7. /\ Turns(memory, Mem(arg), {}, Ptrs(Val(arg))) /\ Running(Mem(arg))
      /\ ListIn(Mem(arg), Val(arg)) /\ Took(Val(arg), len)
  BY <1>1, <1>2, <1>3, LoweredIs
<1>8. /\ Turns(memory, n, {}, Ptrs(list)) /\ Running(n) /\ ~Ended(n)
      /\ ListIn(n, list) /\ Took(list, len)
  BY <1>4, <1>5, <1>7 DEF Running
<1>9. PICK refuses : refuses = (list # NullList /\ (TooShort(list) \/ noBounds))
  OBVIOUS
<1>10. noBounds \in BOOLEAN
  BY <1>6, InterfaceAssumption
<1>11. Answers(n, r, Ptrs(list), refuses)
  BY <1>6, <1>8, <1>9, <1>10, ToStringIs
<1>12. /\ IInv' /\ Ended(memory') = refuses /\ called' = <<"to_string", len>>
       /\ emptyIsNull' = emptyIsNull /\ faulted' = FALSE
  BY <1>1, <1>6, <1>8, <1>11, ReturnKeeps
<1>13. ASSUME TRUE \notin StatisticsOutcomes PROVE AbortsOnlyOnArguments'
  <2>1. noBounds = FALSE
    BY <1>6, <1>10, <1>13
  <2>2. refuses <=> list # NullList /\ TooShort(list)
    BY <1>9, <2>1
  <2>3. refuses <=> len = ShortLength \/ (~emptyIsNull /\ len = EmptyLength)
    BY <1>8, <2>2, TookIs DEF Short
  <2> QED
    BY <1>1, <1>12, <2>3
    DEF AbortsOnlyOnArguments, SketchArguments, RefusesNull, Ended, Lengths, EmptyLength,
        ShortLength, SketchLength
<1> QED
  BY <1>12, <1>13 DEF Aborts, Faults

(* A call of theta_sketch_hash keeps it.                                   *)
LEMMA HashKeeps ==
  ASSUME IInv, NEW len \in Lengths, CallHash(len)
  PROVE  IInv' /\ Aborts' /\ Faults'
<1>1. Ready /\ Running(memory) /\ emptyIsNull \in BOOLEAN
  BY QuietIs DEF CallHash
<1>2. PICK lower : lower = Lower(memory, len)
  OBVIOUS
<1>3. PICK arg : arg = EmptyIsNull(Mem(lower), Val(lower))
  OBVIOUS
<1>4. PICK n : n = Mem(arg)
  OBVIOUS
<1>5. PICK list : list = Val(arg)
  OBVIOUS
<1>6. PICK r : r = HashFunction(n, list) /\ Return(<<"hash", len>>, r)
  BY <1>2, <1>3, <1>4, <1>5 DEF CallHash, Lowered, Mem, Val
<1>7. /\ Turns(memory, Mem(arg), {}, Ptrs(Val(arg))) /\ Running(Mem(arg))
      /\ ListIn(Mem(arg), Val(arg)) /\ Took(Val(arg), len)
  BY <1>1, <1>2, <1>3, LoweredIs
<1>8. /\ Turns(memory, n, {}, Ptrs(list)) /\ Running(n) /\ ~Ended(n)
      /\ ListIn(n, list) /\ Took(list, len)
  BY <1>4, <1>5, <1>7 DEF Running
<1>9. Answers(n, r, Ptrs(list), FALSE)
  BY <1>6, <1>8, HashIs
<1>10. /\ IInv' /\ Ended(memory') = FALSE /\ called' = <<"hash", len>>
       /\ emptyIsNull' = emptyIsNull /\ faulted' = FALSE
  BY <1>1, <1>6, <1>8, <1>9, ReturnKeeps
<1>11. AbortsOnlyOnArguments'
  BY <1>1, <1>10 DEF AbortsOnlyOnArguments, SketchArguments, RefusesNull, Ended
<1> QED
  BY <1>10, <1>11 DEF Aborts, Faults

(* A call of theta_sketch_union, _intersect or _anotb keeps it.            *)
LEMMA SetFunctionKeeps ==
  ASSUME IInv, NEW name \in {"union", "intersection", "a_not_b"}, NEW len1 \in Lengths,
         NEW len2 \in Lengths, CallSetFunction(name, len1, len2)
  PROVE  IInv' /\ Aborts' /\ Faults'
<1>1. Ready /\ Running(memory) /\ emptyIsNull \in BOOLEAN
  BY QuietIs DEF CallSetFunction
<1>2. PICK first : first = Lower(memory, len1)
  OBVIOUS
<1>3. PICK second : second = Lower(Mem(first), len2)
  OBVIOUS
<1>4. PICK one : one = EmptyIsNull(Mem(second), Val(first))
  OBVIOUS
<1>5. PICK two : two = EmptyIsNull(Mem(one), Val(second))
  OBVIOUS
<1>6. PICK n : n = Mem(two)
  OBVIOUS
<1>7. PICK left : left = Val(one)
  OBVIOUS
<1>8. PICK right : right = Val(two)
  OBVIOUS
<1>9. PICK r : /\ r = (IF name = "a_not_b" THEN DifferenceFunction(n, left, right)
                       ELSE SetFunction(n, name, left, right))
               /\ Return(<<name, len1, len2>>, r)
  BY <1>2, <1>3, <1>4, <1>5, <1>6, <1>7, <1>8 DEF CallSetFunction, Mem, Val
<1>10. /\ Turns(memory, Mem(two), {}, Join(Ptrs(Val(one)), Ptrs(Val(two))))
       /\ Running(Mem(two))
       /\ ListIn(Mem(two), Val(one)) /\ ListIn(Mem(two), Val(two))
       /\ Took(Val(one), len1) /\ Took(Val(two), len2)
       /\ Ptr(Val(one)) = Ptr(Val(two)) => Ptr(Val(one)) = Null
  BY <1>1, <1>2, <1>3, <1>4, <1>5, BothLoweredIs
<1>11. /\ Turns(memory, n, {}, Join(Ptrs(left), Ptrs(right))) /\ Running(n) /\ ~Ended(n)
       /\ ListIn(n, left) /\ ListIn(n, right) /\ Took(left, len1) /\ Took(right, len2)
       /\ (Ptr(left) = Ptr(right) => Ptr(left) = Null)
  BY <1>6, <1>7, <1>8, <1>10 DEF Running
<1>12. CASE name = "a_not_b"
  <2>1. PICK refuses : refuses = (\/ left = NullList \/ right = NullList
                                  \/ TooShort(left) \/ TooShort(right))
    OBVIOUS
  <2>2. r = DifferenceFunction(n, left, right)
    BY <1>9, <1>12
  <2>3. Answers(n, r, Join(Ptrs(left), Ptrs(right)), refuses)
    BY <1>11, <2>1, <2>2, DifferenceIs
  <2>4. /\ IInv' /\ Ended(memory') = refuses /\ called' = <<name, len1, len2>>
        /\ emptyIsNull' = emptyIsNull /\ faulted' = FALSE
    BY <1>1, <1>9, <1>11, <2>3, ReturnKeeps
  <2>5. AbortsOnlyOnArguments'
    BY ZenonT(40), <1>1, <1>11, <1>12, <2>1, <2>4, TookIs
    DEF AbortsOnlyOnArguments, SketchArguments, RefusesNull, Ended, Lengths, EmptyLength,
        ShortLength, SketchLength
  <2>6. Faults'
    BY <1>12, <2>4 DEF Faults
  <2> QED
    BY <2>4, <2>5, <2>6 DEF Aborts
<1>13. CASE name # "a_not_b"
  <2>1. PICK refuses : refuses = (\/ Short(left) \/ Short(right)
                                  \/ name = "intersection" /\ left = NullList /\ right = NullList)
    OBVIOUS
  <2>2. r = SetFunction(n, name, left, right) /\ name \in {"union", "intersection"}
    BY <1>9, <1>13
  <2>3. Answers(n, r, Join(Ptrs(left), Ptrs(right)), refuses)
    BY <1>11, <2>1, <2>2, SetIs
  <2>4. /\ IInv' /\ Ended(memory') = refuses /\ called' = <<name, len1, len2>>
        /\ emptyIsNull' = emptyIsNull /\ faulted' = FALSE
    BY <1>1, <1>9, <1>11, <2>3, ReturnKeeps
  <2>5. AbortsOnlyOnArguments'
    BY <1>1, <1>11, <1>13, <2>1, <2>2, <2>4, TookIs
    DEF AbortsOnlyOnArguments, SketchArguments, RefusesNull, Ended, Lengths, EmptyLength,
        ShortLength, SketchLength
  <2>6. Faults'
    BY <1>13, <2>4 DEF Faults
  <2> QED
    BY <2>4, <2>5, <2>6 DEF Aborts
<1> QED
  BY <1>12, <1>13

(* A call that took no list neither ended the process nor faulted, so      *)
(* nothing needs excusing.                                                 *)
LEMMA NoArguments ==
  ASSUME Ended(memory') = FALSE, faulted' = FALSE,
         called' \in {<<"canonical_abi_free">>, <<"init">>, <<"accum_by_hash">>, <<"merge">>,
                      <<"serialize">>, <<"deserialize">>}
  PROVE  Aborts' /\ Faults'
<1>1. called'[1] # "get_estimate"
  OBVIOUS
<1>2. Faults'
  BY <1>1 DEF Faults
<1>3. AbortsOnlyOnArguments'
  BY DEF AbortsOnlyOnArguments, SketchArguments, RefusesNull, Ended
<1> QED
  BY <1>2, <1>3 DEF Aborts

(* The host has read the list a call returned. *)
LEMMA HostReadsKeeps ==
  ASSUME IInv, HostReads
  PROVE  IInv' /\ Aborts' /\ Faults'
<1>0. /\ ~Ended(memory) /\ unread # NullList /\ CameBack(FreeList(memory, unread))
      /\ unread' = NullList /\ emptyIsNull' = emptyIsNull /\ engine' = engine
      /\ called' = <<"canonical_abi_free">>
  BY DEF HostReads, Ended
<1>2. /\ Turns(memory, memory, {}, {}) /\ MemoryOK(memory)
      /\ ListIn(memory, unread)
  BY TurnsNothing DEF IInv
<1>3. Holds(memory, Ptr(unread), "bytes") /\ Ptrs(unread) = {Ptr(unread)}
  BY <1>0, <1>2, ListInMemory
<1>3a. PICK k : k = FreeList(memory, unread)
  OBVIOUS
<1>3b. /\ Turns(memory, k, Join({}, Ptrs(unread)), Less({}, Ptrs(unread)))
       /\ Ended(k) = Ended(memory)
  BY <1>2, <1>3, <1>3a, TurnsFreeList
<1>3c. MemoryOK(k) /\ ~k.fault
  BY <1>3b DEF Turns
<1>1. /\ ~Ended(memory) /\ unread # NullList /\ memory' = k /\ faulted' = FALSE
      /\ unread' = NullList /\ emptyIsNull' = emptyIsNull /\ engine' = engine
      /\ called' = <<"canonical_abi_free">>
  BY <1>0, <1>3a, <1>3c, CameBackIs
<1>4. /\ Turns(memory, memory', Join({}, Ptrs(unread)), Less({}, Ptrs(unread)))
      /\ Ended(memory') = Ended(memory)
  BY <1>1, <1>3b
<1>5. PICK S \in SUBSET Groups : S = {}
  OBVIOUS
<1>6. HandlesOf(engine, S) = {} /\ HandlesOf(engine', S) = {}
  BY <1>5 DEF HandlesOf
<1>7. /\ Join(HandlesOf(engine, S), Ptrs(unread)) = Join({}, Ptrs(unread))
      /\ Join(HandlesOf(engine', S), Ptrs(unread')) = Less({}, Ptrs(unread))
  BY <1>1, <1>6, NullListIs DEF Join, Less
<1>8. /\ engine' \in [Groups -> GroupState] /\ \A g \in Groups \ S : engine'[g] = engine[g]
      /\ Distinct(engine', S) /\ Ptr(unread') \notin HandlesOf(engine', S)
      /\ \A g \in S : Points(memory', engine'[g])
  BY <1>1, <1>5, <1>6 DEF Distinct, IInv
<1>9. ListIn(memory', unread')
  BY <1>1, NullListIs
<1>10. IInv'
  BY <1>1, <1>4, <1>7, <1>8, <1>9, StepKeeps
<1>11. Ended(memory') = FALSE
  BY <1>1, <1>2, <1>4 DEF MemoryOK
<1> QED
  BY <1>1, <1>10, <1>11, NoArguments

-----------------------------------------------------------------------------
(* A callback on one group came back. *)
LEMMA GroupKeeps ==
  ASSUME IInv, Ready, NEW g \in Groups, NEW s \in GroupState,
         engine' = [engine EXCEPT ![g] = s], emptyIsNull' = emptyIsNull,
         Turns(memory, memory', Handle(engine[g].handle), Join(Handle(s.handle), Ptrs(unread'))),
         ListIn(memory', unread'), Points(memory', s),
         Ended(memory') \/ Ptr(unread') \notin Handle(s.handle)
  PROVE  IInv'
<1>1. PICK S \in SUBSET Groups : S = {g}
  OBVIOUS
<1>2. /\ engine \in [Groups -> GroupState] /\ engine' \in [Groups -> GroupState]
      /\ engine'[g] = s /\ \A h \in Groups \ S : engine'[h] = engine[h]
  BY <1>1 DEF IInv
<1>3. /\ HandlesOf(engine, S) = Handle(engine[g].handle)
      /\ HandlesOf(engine', S) = Handle(s.handle)
  BY <1>1, <1>2 DEF HandlesOf, Handle
<1>4. /\ Join(HandlesOf(engine, S), Ptrs(unread)) = Handle(engine[g].handle)
      /\ Join(HandlesOf(engine', S), Ptrs(unread')) = Join(Handle(s.handle), Ptrs(unread'))
  BY <1>3, QuietIs DEF Join
<1>5. Distinct(engine', S) /\ \A h \in S : Points(memory', engine'[h])
  BY <1>1, <1>2 DEF Distinct
<1>6. /\ ~Ended(memory)
      /\ Turns(memory, memory', Join(HandlesOf(engine, S), Ptrs(unread)),
               Join(HandlesOf(engine', S), Ptrs(unread')))
      /\ Ended(memory') \/ (Distinct(engine', S) /\ Ptr(unread') \notin HandlesOf(engine', S))
  <2>1. ~Ended(memory)
    BY QuietIs DEF Quiet
  <2>2. Ended(memory') \/ (Distinct(engine', S) /\ Ptr(unread') \notin HandlesOf(engine', S))
    BY <1>3, <1>5
  <2> QED
    BY <1>4, <2>1, <2>2
<1> QED
  BY <1>2, <1>5, <1>6, StepKeeps

(* A callback that returned a handle keeps it.                             *)
LEMMA ReturnedKeeps ==
  ASSUME IInv, Ready, NEW g \in Groups, NEW call, NEW kind \in Kinds,
         NEW stage \in {"iterate", "partial"}, NEW r, Returned(call, g, kind, stage, r),
         Turns(memory, Mem(r), Handle(engine[g].handle), Handle(Val(r))),
         Val(r) = NoHandle \/ Val(r) \in Nat \ {Null},
         Ended(Mem(r)) \/ Val(r) = NoHandle \/ StateAt(Mem(r), Val(r)),
         stage = "iterate" => HandsState(r, kind)
  PROVE  /\ IInv' /\ Ended(memory') = Ended(Mem(r))
         /\ called' = call /\ emptyIsNull' = emptyIsNull /\ faulted' = FALSE
<1>0. MemoryOK(Mem(r)) /\ ~Mem(r).fault
  BY DEF Turns
<1>1. PICK h : h = (IF Ended(Mem(r)) THEN NoHandle ELSE Val(r))
  OBVIOUS
<1>2. PICK s : s = [kind |-> kind, stage |-> stage, shipped |-> EmptyLength, handle |-> h]
  OBVIOUS
<1>2a. /\ CameBack(Mem(r)) /\ engine' = [engine EXCEPT ![g] = s] /\ called' = call
       /\ emptyIsNull' = emptyIsNull /\ unread' = unread
  BY <1>1, <1>2 DEF Returned, Mem, Val, Ended
<1>3. /\ memory' = Mem(r) /\ engine' = [engine EXCEPT ![g] = s] /\ called' = call
      /\ emptyIsNull' = emptyIsNull /\ unread' = unread /\ faulted' = FALSE
  BY <1>0, <1>2a, CameBackIs
<1>4. s \in GroupState
  <2>1. h \in Nat \cup {NoHandle}
    BY <1>1
  <2>2. s \in [kind : Kinds \cup {"none"}, stage : {"none", "iterate", "partial", "shipped"},
               handle : Nat \cup {NoHandle}, shipped : Lengths]
    BY <1>2, <2>1 DEF Lengths
  <2> QED
    BY <1>2, <2>2 DEF GroupState
<1>5. Points(memory', s)
  <2> SUFFICES ASSUME h # NoHandle
               PROVE  StateAt(Mem(r), h) /\ (stage = "iterate" => Holds(Mem(r), h, ClassOf(kind)))
    BY <1>2, <1>3 DEF Points
  <2> QED
    BY <1>1 DEF HandsState, StateOf
<1>6. /\ Ptrs(unread') = {} /\ ListIn(memory', unread') /\ Ptr(unread') = Null
  BY <1>3, QuietIs, NullListIs DEF Quiet
<1>7. Turns(memory, memory', Handle(engine[g].handle), Join(Handle(s.handle), Ptrs(unread')))
  <2>1. CASE Ended(Mem(r))
    BY <1>3, <2>1 DEF Turns
  <2>2. CASE ~Ended(Mem(r))
    <3>1. Join(Handle(s.handle), Ptrs(unread')) = Handle(Val(r))
      BY <1>1, <1>2, <1>6, <2>2 DEF Join
    <3> QED
      BY <1>3, <3>1
  <2> QED
    BY <2>1, <2>2
<1>8. Ptr(unread') \notin Handle(s.handle)
  BY <1>1, <1>2, <1>6 DEF Handle, NoHandle, Null
<1>9. IInv'
  BY <1>3, <1>4, <1>5, <1>6, <1>7, <1>8, GroupKeeps
<1> QED
  BY <1>3, <1>9

(* What IInv says of the state of a group. *)
LEMMA GroupIs ==
  ASSUME IInv, NEW g \in Groups
  PROVE  /\ engine[g].handle # NoHandle =>
              /\ StateAt(memory, engine[g].handle)
              /\ engine[g].stage = "iterate" => StateOf(memory, engine[g].handle, engine[g].kind)
              /\ engine[g].stage \in {"iterate", "partial"}
         /\ engine[g].stage # "none" => engine[g].kind \in Kinds
         /\ engine[g].stage = "shipped" => engine[g].shipped \in {EmptyLength, SketchLength}
         /\ engine[g].kind \in Kinds \cup {"none"} /\ engine[g].shipped \in Lengths
<1>1. engine[g] \in GroupState /\ Points(memory, engine[g])
  BY DEF IInv
<1> QED
  BY <1>1 DEF GroupState, Points, StateOf, Lengths

(* handle_init() for a group keeps the invariant.                          *)
LEMMA InitializeKeeps ==
  ASSUME IInv, NEW g \in Groups, NEW kind \in Kinds, Initialize(g, kind)
  PROVE  IInv' /\ Aborts' /\ Faults'
<1>1. Ready /\ Running(memory) /\ engine[g].handle = NoHandle
  BY QuietIs, GroupIs DEF Initialize
<1>2. PICK r : r = Result(memory, NoHandle)
  OBVIOUS
<1>3. /\ Returned(<<"init">>, g, kind, "iterate", r) /\ Mem(r) = memory /\ Val(r) = NoHandle
      /\ HandsState(r, kind)
  BY <1>2 DEF Initialize, Result, Mem, Val, HandsState
<1>4. Handle(NoHandle) = {} /\ Turns(memory, memory, {}, {})
  BY <1>1, TurnsNothing DEF Handle, Running
<1>5. Turns(memory, Mem(r), Handle(engine[g].handle), Handle(Val(r)))
  BY <1>1, <1>3, <1>4
<1>6. IInv' /\ Ended(memory') = Ended(Mem(r)) /\ called' = <<"init">> /\ faulted' = FALSE
  BY <1>1, <1>3, <1>5, ReturnedKeeps
<1>7. Ended(memory') = FALSE
  BY <1>1, <1>3, <1>6 DEF Running
<1> QED
  BY <1>6, <1>7, NoArguments

(* A hash accumulated into a group keeps it.                               *)
LEMMA IterateHashKeeps ==
  ASSUME IInv, NEW g \in Groups, NEW isZero \in BOOLEAN, IterateHash(g, isZero)
  PROVE  IInv' /\ Aborts' /\ Faults'
<1>1. /\ Ready /\ Running(memory) /\ engine[g].stage = "iterate" /\ engine[g].kind = "build"
      /\ "build" \in Kinds
  BY QuietIs DEF IterateHash, Kinds
<1>2. PICK handle : handle = engine[g].handle
  OBVIOUS
<1>3. PICK r : /\ r = AccumulateHash(memory, handle, isZero)
               /\ Returned(<<"accum_by_hash">>, g, "build", "iterate", r)
  BY <1>2 DEF IterateHash
<1>4. handle = NoHandle \/ StateOf(memory, handle, "build")
  BY <1>1, <1>2, GroupIs
<1>5. Hands(memory, r, Handle(handle), FALSE) /\ HandsState(r, "build")
  BY <1>1, <1>3, <1>4, HashValueIs
<1>6. /\ Turns(memory, Mem(r), Handle(engine[g].handle), Handle(Val(r)))
      /\ Val(r) = NoHandle \/ Val(r) \in Nat \ {Null}
      /\ Ended(Mem(r)) \/ Val(r) = NoHandle \/ StateAt(Mem(r), Val(r))
      /\ Ended(Mem(r)) = FALSE
  BY <1>2, <1>5 DEF Hands
<1>7. IInv' /\ Ended(memory') = Ended(Mem(r)) /\ called' = <<"accum_by_hash">> /\ faulted' = FALSE
  BY <1>1, <1>3, <1>5, <1>6, ReturnedKeeps
<1> QED
  BY <1>6, <1>7, NoArguments

(* A value or sketch accumulated into a group keeps it.                    *)
LEMMA IterateKeeps ==
  ASSUME IInv, NEW g \in Groups, NEW len \in Lengths, Iterate(g, len)
  PROVE  IInv' /\ Aborts' /\ Faults'
<1>1. /\ Ready /\ Running(memory) /\ emptyIsNull \in BOOLEAN /\ engine[g].stage = "iterate"
      /\ DOMAIN memory.blocks = HandlesOf(engine, Groups)
  BY QuietIs DEF Iterate
<1>2. PICK handle : handle = engine[g].handle
  OBVIOUS
<1>3. PICK kind : kind = engine[g].kind
  OBVIOUS
<1>4. PICK lower : lower = Lower(memory, len)
  OBVIOUS
<1>5. PICK arg : arg = EmptyIsNull(Mem(lower), Val(lower))
  OBVIOUS
<1>6. PICK n : n = Mem(arg)
  OBVIOUS
<1>7. PICK list : list = Val(arg)
  OBVIOUS
<1>8. PICK r : /\ r = (IF kind = "build" THEN AccumulateValue(n, handle, list)
                       ELSE AccumulateSketch(n, kind, handle, list))
               /\ Returned(<<"accum", kind, len>>, g, kind, "iterate", r)
  BY <1>2, <1>3, <1>4, <1>5, <1>6, <1>7 DEF Iterate, Lowered, Mem, Val
<1>9. /\ kind \in Kinds /\ (handle = NoHandle \/ StateOf(memory, handle, kind))
  BY <1>1, <1>2, <1>3, GroupIs
<1>10. /\ Turns(memory, Mem(arg), {}, Ptrs(Val(arg))) /\ Running(Mem(arg))
       /\ ListIn(Mem(arg), Val(arg)) /\ Took(Val(arg), len)
  BY <1>1, <1>4, <1>5, LoweredIs
<1>11. /\ Turns(memory, n, {}, Ptrs(list)) /\ Running(n) /\ ~Ended(n)
       /\ ListIn(n, list) /\ Took(list, len)
  BY <1>6, <1>7, <1>10 DEF Running
<1>12. handle = NoHandle \/ StateOf(n, handle, kind)
  BY <1>9, <1>11, StateStays
<1>13. Ptr(list) # handle
  <2>1. CASE list = NullList
    <3>1. handle # Null
      BY <1>1, <1>9 DEF StateOf, StateAt, Running, MemoryOK, NoHandle, Null
    <3> QED
      BY <2>1, <3>1, NullListIs
  <2>2. CASE list # NullList
    <3>1. Ptr(list) \in Nat /\ Ptrs(list) = {Ptr(list)}
      BY <1>11, <2>2, ListInMemory DEF Running, MemoryOK
    <3>2. Ptr(list) \notin DOMAIN memory.blocks
      BY <1>11, <3>1 DEF Turns
    <3> QED
      BY <1>9, <3>1, <3>2 DEF StateOf, StateAt, NoHandle
  <2> QED
    BY <2>1, <2>2
<1>14. PICK refuses : refuses = (IF kind = "build" THEN FALSE ELSE Short(list))
  OBVIOUS
<1>15. PICK owned : owned = Join(Handle(handle), Ptrs(list))
  OBVIOUS
<1>16. Hands(n, r, owned, refuses) /\ HandsState(r, kind)
  <2>1. CASE kind = "build"
    <3>1. r = AccumulateValue(n, handle, list) /\ (handle = NoHandle \/ StateOf(n, handle, "build"))
      BY <1>8, <1>12, <2>1
    <3>2. Hands(n, r, Join(Handle(handle), Ptrs(list)), FALSE) /\ HandsState(r, "build")
      BY <1>11, <1>13, <3>1, ValueIs
    <3> QED
      BY <1>14, <1>15, <2>1, <3>2
  <2>2. CASE kind # "build"
    <3>1. r = AccumulateSketch(n, kind, handle, list)
      BY <1>8, <2>2
    <3>2. Hands(n, r, Join(Handle(handle), Ptrs(list)), Short(list)) /\ HandsState(r, kind)
      BY <1>9, <1>11, <1>12, <1>13, <3>1, SketchIs
    <3> QED
      BY <1>14, <1>15, <2>2, <3>2
  <2> QED
    BY <2>1, <2>2
<1>17. Turns(memory, Mem(r), Handle(engine[g].handle), Handle(Val(r)))
  <2>1. Turns(n, Mem(r), owned, Handle(Val(r)))
    BY <1>16 DEF Hands
  <2>2. Turns(memory, Mem(r), Handle(handle), Handle(Val(r)))
    BY <1>11, <1>15, <2>1, TurnsOwning
  <2> QED
    BY <1>2, <2>2
<1>18. /\ Val(r) = NoHandle \/ Val(r) \in Nat \ {Null}
       /\ Ended(Mem(r)) \/ Val(r) = NoHandle \/ StateAt(Mem(r), Val(r))
       /\ Ended(Mem(r)) = refuses
  BY <1>16 DEF Hands
<1>19. /\ IInv' /\ Ended(memory') = Ended(Mem(r)) /\ called' = <<"accum", kind, len>>
       /\ emptyIsNull' = emptyIsNull /\ faulted' = FALSE
  BY <1>1, <1>8, <1>9, <1>16, <1>17, <1>18, ReturnedKeeps
<1>20. AbortsOnlyOnArguments'
  <2>1. CASE kind = "build"
    <3>1. Ended(memory') = FALSE
      BY <1>14, <1>18, <1>19, <2>1
    <3> QED
      BY <1>19, <2>1, <3>1 DEF AbortsOnlyOnArguments, SketchArguments, RefusesNull, Ended
  <2>2. CASE kind # "build"
    <3>1. Ended(memory') <=> len = ShortLength \/ (~emptyIsNull /\ len = EmptyLength)
      BY <1>11, <1>14, <1>18, <1>19, <2>2, TookIs
    <3> QED
      BY <1>1, <1>19, <2>2, <3>1
      DEF AbortsOnlyOnArguments, SketchArguments, RefusesNull, Ended, Lengths, EmptyLength,
          ShortLength, SketchLength
  <2> QED
    BY <2>1, <2>2
<1>21. Faults'
  BY <1>19 DEF Faults
<1> QED
  BY <1>19, <1>20, <1>21 DEF Aborts

(* A state that arrives from another node keeps it.                        *)
LEMMA DeserializeKeeps ==
  ASSUME IInv, NEW g \in Groups, Deserialize(g)
  PROVE  IInv' /\ Aborts' /\ Faults'
<1>1. /\ Ready /\ Running(memory) /\ engine[g].stage = "shipped"
  BY QuietIs DEF Deserialize
<1>2. PICK kind : kind = engine[g].kind
  OBVIOUS
<1>3. PICK len : len = engine[g].shipped
  OBVIOUS
<1>4. PICK lower : lower = Lower(memory, len)
  OBVIOUS
<1>5. PICK n : n = Mem(lower)
  OBVIOUS
<1>6. PICK list : list = Val(lower)
  OBVIOUS
<1>7. PICK r : /\ r = DeserializeState(n, list)
               /\ Returned(<<"deserialize">>, g, kind, "partial", r)
  BY <1>2, <1>3, <1>4, <1>5, <1>6 DEF Deserialize, Mem, Val
<1>8. /\ kind \in Kinds /\ len \in {EmptyLength, SketchLength} /\ engine[g].handle = NoHandle
  BY <1>1, <1>2, <1>3, GroupIs
<1>9. Turns(memory, memory, {}, {}) /\ ~Ended(memory)
  BY <1>1, TurnsNothing DEF Running
<1>10. /\ Turns(memory, Mem(lower), {}, Plus({}, Ptr(Val(lower)))) /\ ~Ended(Mem(lower))
       /\ Val(lower) = List(Ptr(Val(lower)), len)
       /\ Ptr(Val(lower)) \in Nat \ {Null} /\ Ptr(Val(lower)) \notin DOMAIN memory.blocks
       /\ Others(memory, Mem(lower), Ptr(Val(lower)))
       /\ Holds(Mem(lower), Ptr(Val(lower)), "bytes")
  BY <1>4, <1>9, LowerIs
<1>11. PICK p : p = Ptr(list)
  OBVIOUS
<1>12. /\ Turns(memory, n, {}, Plus({}, p)) /\ ~Ended(n) /\ list = List(p, len)
       /\ p \in Nat \ {Null} /\ Holds(n, p, "bytes")
  BY <1>5, <1>6, <1>10, <1>11
<1>13. /\ ListIn(n, list) /\ list # NullList /\ list.len \in {EmptyLength, SketchLength}
       /\ Ptrs(list) = Plus({}, p)
  BY <1>8, <1>11, <1>12 DEF ListIn, List, NullList, Ptrs, Plus, ProperLength, Lengths, Null
<1>14. Running(n)
  BY <1>12 DEF Turns, Running
<1>15. Hands(n, r, Ptrs(list), FALSE)
  BY <1>7, <1>13, <1>14, DeserializeStateIs
<1>16. /\ Val(r) = NoHandle \/ Val(r) \in Nat \ {Null}
       /\ Ended(Mem(r)) \/ Val(r) = NoHandle \/ StateAt(Mem(r), Val(r))
       /\ Ended(Mem(r)) = FALSE /\ Turns(n, Mem(r), Ptrs(list), Handle(Val(r)))
  BY <1>15 DEF Hands
<1>17. Turns(memory, Mem(r), Handle(engine[g].handle), Handle(Val(r)))
  <2>1. Handle(engine[g].handle) = {} /\ Ptrs(list) = Join({}, Ptrs(list))
    BY <1>8 DEF Handle, Join
  <2>2. Turns(memory, n, {}, Ptrs(list))
    BY <1>12, <1>13
  <2>3. Turns(memory, Mem(r), {}, Handle(Val(r)))
    BY <1>12, <1>16, <2>1, <2>2, TurnsOwning
  <2> QED
    BY <2>1, <2>3
<1>18. IInv' /\ Ended(memory') = Ended(Mem(r)) /\ called' = <<"deserialize">> /\ faulted' = FALSE
  BY <1>1, <1>7, <1>8, <1>16, <1>17, ReturnedKeeps
<1> QED
  BY <1>16, <1>18, NoArguments

(* A state serialized, to be shipped or as the result, keeps it.           *)
LEMMA SerializeKeeps ==
  ASSUME IInv, NEW g \in Groups, NEW stage \in {"shipped", "none"}, Serialize(g, stage)
  PROVE  IInv' /\ Aborts' /\ Faults'
<1>1. /\ Ready /\ Running(memory) /\ engine[g].stage \in {"iterate", "partial"}
  BY QuietIs DEF Serialize, Live
<1>2. PICK handle : handle = engine[g].handle
  OBVIOUS
<1>3. PICK r : r = SerializeState(memory, handle)
  OBVIOUS
<1>4. PICK s : s = (IF stage = "shipped"
                    THEN [engine[g] EXCEPT !.stage = stage, !.handle = NoHandle,
                                           !.shipped = Val(r).len]
                    ELSE NoState)
  OBVIOUS
<1>4a. /\ CameBack(Mem(r)) /\ unread' = Val(r) /\ engine' = [engine EXCEPT ![g] = s]
       /\ called' = <<"serialize">> /\ emptyIsNull' = emptyIsNull
  BY <1>2, <1>3, <1>4 DEF Serialize, Mem, Val, IInv
<1>6. handle = NoHandle \/ StateAt(memory, handle)
  BY <1>2, GroupIs
<1>7. /\ Answers(memory, r, Handle(handle), FALSE)
      /\ Val(r).len \in {EmptyLength, SketchLength}
  BY <1>1, <1>3, <1>6, SerializeStateIs
<1>7a. MemoryOK(Mem(r)) /\ ~Mem(r).fault
  BY <1>7 DEF Answers, Turns
<1>5. /\ memory' = Mem(r) /\ unread' = Val(r) /\ engine' = [engine EXCEPT ![g] = s]
      /\ called' = <<"serialize">> /\ emptyIsNull' = emptyIsNull /\ faulted' = FALSE
  BY <1>4a, <1>7a, CameBackIs
<1>8. s \in GroupState /\ s.handle = NoHandle
  <2>1. engine[g] \in GroupState /\ engine[g].kind \in Kinds
    BY <1>1, GroupIs DEF IInv
  <2>2. CASE stage = "shipped"
    <3>1. PICK kind : kind = engine[g].kind
      OBVIOUS
    <3>2. PICK len : len = Val(r).len
      OBVIOUS
    <3>3. s = [kind |-> kind, stage |-> "shipped", handle |-> NoHandle, shipped |-> len]
      BY <1>4, <2>1, <2>2, <3>1, <3>2 DEF GroupState
    <3> QED
      BY <1>7, <2>1, <3>1, <3>2, <3>3
      DEF GroupState, Lengths, EmptyLength, ShortLength, SketchLength
  <2>3. CASE stage = "none"
    <3>1. s = NoState
      BY <1>4, <2>3
    <3> QED
      BY <3>1 DEF GroupState, NoState, Lengths
  <2> QED
    BY <2>2, <2>3
<1>9. Points(memory', s)
  BY <1>8 DEF Points
<1>10. /\ Turns(memory, Mem(r), Handle(handle), Ptrs(Val(r)))
       /\ Ended(Mem(r)) = FALSE /\ ListIn(Mem(r), Val(r))
  BY <1>7 DEF Answers
<1>11. Handle(s.handle) = {} /\ Join(Handle(s.handle), Ptrs(unread')) = Ptrs(Val(r))
  BY <1>5, <1>8 DEF Handle, Join
<1>12. Turns(memory, memory', Handle(engine[g].handle), Join(Handle(s.handle), Ptrs(unread')))
  BY <1>2, <1>5, <1>10, <1>11
<1>13. ListIn(memory', unread') /\ Ptr(unread') \notin Handle(s.handle)
  BY <1>5, <1>10, <1>11
<1>14. IInv'
  BY <1>1, <1>5, <1>8, <1>9, <1>12, <1>13, GroupKeeps
<1> QED
  BY <1>5, <1>10, <1>14, NoArguments

(* Two states merged keep it.                                              *)
LEMMA MergeKeeps ==
  ASSUME IInv, NEW g \in Groups, NEW h \in Groups, MergeStates(g, h)
  PROVE  IInv' /\ Aborts' /\ Faults'
<1>1. /\ Ready /\ Running(memory) /\ g # h /\ engine[g].stage \in {"iterate", "partial"}
      /\ Ptrs(unread) = {}
  BY QuietIs DEF MergeStates, Live
<1>2. PICK left : left = engine[g].handle
  OBVIOUS
<1>3. PICK right : right = engine[h].handle
  OBVIOUS
<1>4. PICK kind : kind = engine[g].kind
  OBVIOUS
<1>5. PICK r : r = Merge(memory, kind, left, right)
  OBVIOUS
<1>6. PICK s : s = [engine[g] EXCEPT !.stage = "partial", !.handle = Val(r)]
  OBVIOUS
<1>7. engine \in [Groups -> GroupState] /\ engine[g] \in GroupState /\ kind \in Kinds
  BY <1>1, <1>4, GroupIs DEF IInv
<1>7a. /\ CameBack(Mem(r)) /\ unread' = unread /\ emptyIsNull' = emptyIsNull
       /\ called' = <<"merge">>
       /\ engine' = [engine EXCEPT ![g] = s, ![h] = NoState]
  BY <1>1, <1>2, <1>3, <1>4, <1>5, <1>6, <1>7 DEF MergeStates, Mem, Val
<1>9. /\ left = NoHandle \/ StateAt(memory, left)
      /\ right = NoHandle \/ StateAt(memory, right)
  BY <1>2, <1>3, GroupIs
<1>10. left = right => left = NoHandle
  BY <1>1, <1>2, <1>3 DEF IInv, Distinct, Running
<1>11. Hands(memory, r, Join(Handle(left), Handle(right)), FALSE)
  BY <1>1, <1>5, <1>7, <1>9, <1>10, MergeIs
<1>12. /\ Turns(memory, Mem(r), Join(Handle(left), Handle(right)), Handle(Val(r)))
       /\ Val(r) = NoHandle \/ Val(r) \in Nat \ {Null}
       /\ Ended(Mem(r)) \/ Val(r) = NoHandle \/ StateAt(Mem(r), Val(r))
       /\ Ended(Mem(r)) = FALSE
  BY <1>11 DEF Hands
<1>12a. MemoryOK(Mem(r)) /\ ~Mem(r).fault
  BY <1>12 DEF Turns
<1>8. /\ memory' = Mem(r) /\ unread' = unread /\ emptyIsNull' = emptyIsNull
      /\ called' = <<"merge">> /\ faulted' = FALSE
      /\ engine' = [engine EXCEPT ![g] = s, ![h] = NoState]
  BY <1>7a, <1>12a, CameBackIs
<1>13. s \in GroupState /\ s.handle = Val(r) /\ s.stage = "partial" /\ NoState \in GroupState
  <2>1. PICK len : len = engine[g].shipped
    OBVIOUS
  <2>2. PICK v : v = Val(r)
    OBVIOUS
  <2>3. len \in Lengths /\ v \in Nat \cup {NoHandle}
    BY <1>7, <1>12, <2>1, <2>2 DEF GroupState
  <2>4. s = [kind |-> kind, stage |-> "partial", handle |-> v, shipped |-> len]
    BY <1>4, <1>6, <1>7, <2>1, <2>2 DEF GroupState
  <2>5. s \in GroupState /\ s.handle = v /\ s.stage = "partial"
    BY <1>7, <2>3, <2>4 DEF GroupState
  <2>6. NoState \in GroupState
    BY DEF GroupState, NoState, Lengths
  <2> QED
    BY <2>2, <2>5, <2>6
<1>14. PICK S \in SUBSET Groups : S = {g, h}
  OBVIOUS
<1>15. /\ engine' \in [Groups -> GroupState] /\ engine'[g] = s /\ engine'[h] = NoState
       /\ \A i \in Groups \ S : engine'[i] = engine[i]
  BY <1>1, <1>7, <1>8, <1>13, <1>14
<1>16. NoState.handle = NoHandle
  BY DEF NoState
<1>17. /\ HandlesOf(engine, S) = Join(Handle(left), Handle(right))
       /\ HandlesOf(engine', S) = Handle(Val(r))
  BY <1>2, <1>3, <1>13, <1>14, <1>15, <1>16 DEF HandlesOf, Handle, Join
<1>18. /\ Join(HandlesOf(engine, S), Ptrs(unread)) = Join(Handle(left), Handle(right))
       /\ Join(HandlesOf(engine', S), Ptrs(unread')) = Handle(Val(r))
  BY <1>1, <1>8, <1>17 DEF Join
<1>19. Turns(memory, memory', Join(HandlesOf(engine, S), Ptrs(unread)),
             Join(HandlesOf(engine', S), Ptrs(unread')))
  BY <1>8, <1>12, <1>18
<1>20. Points(memory', s) /\ Points(memory', NoState)
  BY <1>8, <1>12, <1>13, <1>16 DEF Points
<1>21. \A i \in S : Points(memory', engine'[i])
  BY <1>14, <1>15, <1>20
<1>22. Distinct(engine', S)
  <2>1. NoState.handle = NoHandle
    BY <1>16
  <2>2. ASSUME NEW i \in S, NEW j \in S, i # j, engine'[i].handle # NoHandle
        PROVE  engine'[i].handle # engine'[j].handle
    <3>1. i = g /\ j = h
      BY <1>14, <1>15, <1>16, <2>2
    <3> QED
      BY <1>15, <1>16, <2>2, <3>1
  <2> QED
    BY <2>2 DEF Distinct
<1>23. /\ ListIn(memory', unread') /\ Ptr(unread') \notin HandlesOf(engine', S)
       /\ ~Ended(memory)
  <2>1. unread' = NullList /\ Ptr(unread') = Null
    BY <1>1, <1>8, QuietIs, NullListIs DEF Quiet
  <2>2. Null \notin Handle(Val(r))
    BY <1>12 DEF Handle, Null, NoHandle
  <2> QED
    BY <1>1, <1>17, <2>1, <2>2, NullListIs DEF Running
<1>24. IInv'
  BY <1>8, <1>15, <1>19, <1>21, <1>22, <1>23, StepKeeps
<1> QED
  BY <1>8, <1>12, <1>24, NoArguments

-----------------------------------------------------------------------------
(* Memory starts empty.                                                    *)
LEMMA InitOK == Init => IInv /\ Aborts /\ Faults
<1> SUFFICES ASSUME Init PROVE IInv /\ Aborts /\ Faults
  OBVIOUS
<1>1. /\ memory = [blocks |-> <<>>, fault |-> FALSE, ended |-> FALSE]
      /\ DOMAIN memory.blocks = {} /\ memory.blocks = [a \in {} |-> memory.blocks[a]]
  BY DEF Init, EmptyMemory
<1>2. MemoryOK(memory) /\ ~memory.fault /\ ~Ended(memory)
  BY <1>1, FS_EmptySet DEF MemoryOK, Ended
<1>3. NoState \in GroupState /\ NoState.handle = NoHandle
  BY DEF GroupState, NoState, Lengths
<1>4. engine \in [Groups -> GroupState] /\ \A g \in Groups : engine[g].handle = NoHandle
  BY <1>3 DEF Init
<1>5. HandlesOf(engine, Groups) = {} /\ Distinct(engine, Groups)
  BY <1>4 DEF HandlesOf, Distinct
<1>6. /\ ListIn(memory, unread) /\ Ptrs(unread) = {}
  BY NullListIs DEF Init
<1>7. IInv
  <2>1. DOMAIN memory.blocks = Join(HandlesOf(engine, Groups), Ptrs(unread))
    BY <1>1, <1>5, <1>6 DEF Join
  <2>2. \A g \in Groups : Points(memory, engine[g])
    BY <1>4 DEF Points
  <2> QED
    BY <1>2, <1>4, <1>5, <1>6, <2>1, <2>2 DEF IInv, Init
<1>8. Aborts
  <2>1. called = <<"none">> /\ memory.ended = FALSE
    BY <1>1 DEF Init
  <2> QED
    BY <2>1 DEF Aborts, AbortsOnlyOnArguments, SketchArguments, RefusesNull
<1>9. Faults
  <2>1. called = <<"none">> /\ faulted = FALSE
    BY DEF Init
  <2> QED
    BY <2>1 DEF Faults
<1> QED
  BY <1>7, <1>8, <1>9

(* Every call, of a function or a callback, keeps the invariant and ends   *)
(* the process only when it may.                                           *)
LEMMA StepOK == IInv /\ Aborts /\ Faults /\ [Next]_vars => IInv' /\ Aborts' /\ Faults'
<1> SUFFICES ASSUME IInv, Aborts, Faults, [Next]_vars PROVE IInv' /\ Aborts' /\ Faults'
  OBVIOUS
<1>1. ASSUME NEW len \in Lengths, CallGetEstimate(len) PROVE IInv' /\ Aborts' /\ Faults'
  BY <1>1, EstimateKeeps
<1>2. ASSUME NEW len \in Lengths, CallToString(len) PROVE IInv' /\ Aborts' /\ Faults'
  BY <1>2, ToStringKeeps
<1>3. ASSUME NEW len \in Lengths, CallHash(len) PROVE IInv' /\ Aborts' /\ Faults'
  BY <1>3, HashKeeps
<1>4. ASSUME NEW name \in {"union", "intersection", "a_not_b"}, NEW len1 \in Lengths,
             NEW len2 \in Lengths, CallSetFunction(name, len1, len2)
      PROVE  IInv' /\ Aborts' /\ Faults'
  BY <1>4, SetFunctionKeeps
<1>5. ASSUME NEW g \in Groups, NEW kind \in Kinds, Initialize(g, kind)
      PROVE  IInv' /\ Aborts' /\ Faults'
  BY <1>5, InitializeKeeps
<1>6. ASSUME NEW g \in Groups, NEW len \in Lengths, Iterate(g, len) PROVE IInv' /\ Aborts' /\ Faults'
  BY <1>6, IterateKeeps
<1>7. ASSUME NEW g \in Groups, NEW isZero \in BOOLEAN, IterateHash(g, isZero)
      PROVE  IInv' /\ Aborts' /\ Faults'
  BY <1>7, IterateHashKeeps
<1>8. ASSUME NEW g \in Groups, NEW h \in Groups, MergeStates(g, h) PROVE IInv' /\ Aborts' /\ Faults'
  BY <1>8, MergeKeeps
<1>9. ASSUME NEW g \in Groups, NEW stage \in {"shipped", "none"}, Serialize(g, stage)
      PROVE  IInv' /\ Aborts' /\ Faults'
  BY <1>9, SerializeKeeps
<1>10. ASSUME NEW g \in Groups, Deserialize(g) PROVE IInv' /\ Aborts' /\ Faults'
  BY <1>10, DeserializeKeeps
<1>11. ASSUME HostReads PROVE IInv' /\ Aborts' /\ Faults'
  BY <1>11, HostReadsKeeps
<1>12. ASSUME UNCHANGED vars PROVE IInv' /\ Aborts' /\ Faults'
  <2>1. /\ emptyIsNull' = emptyIsNull /\ memory' = memory /\ engine' = engine
        /\ unread' = unread /\ called' = called /\ faulted' = faulted
    BY <1>12 DEF vars
  <2>2. IInv'
    BY <2>1 DEF IInv
  <2>3. Aborts'
    BY <2>1 DEF Aborts, AbortsOnlyOnArguments, SketchArguments, RefusesNull
  <2>4. Faults'
    BY <2>1 DEF Faults
  <2> QED
    BY <2>2, <2>3, <2>4
<1> QED
  BY <1>1, <1>2, <1>3, <1>4, <1>5, <1>6, <1>7, <1>8, <1>9, <1>10, <1>11, <1>12
  DEF Next, ScalarCall, AggregateCall

(* The invariant holds whenever the process is between two calls: what is  *)
(* allocated is what the groups' handles and the unread result name, each  *)
(* once, and each handle names an object tagged as what it is.             *)
THEOREM Invariant == Spec => [](IInv /\ Aborts /\ Faults)
<1>1. Init => IInv /\ Aborts /\ Faults
  BY InitOK
<1>2. (IInv /\ Aborts /\ Faults) /\ [Next]_vars => (IInv /\ Aborts /\ Faults)'
  BY StepOK
<1> QED
  BY <1>1, <1>2, PTL DEF Spec

(* Every live handle names an object of its aggregate's class with the tag *)
(* the casts of extension_impl_handle.cpp go by, whichever calls came      *)
(* before.                                                                 *)
THEOREM TypeCorrect == Spec => []TypeOK
<1>1. IInv => TypeOK
  <2> SUFFICES ASSUME IInv PROVE TypeOK
    OBVIOUS
  <2>1. unread.len \in Lengths
    BY DEF IInv, ListIn, ProperLength
  <2>2. ASSUME NEW g \in Groups
        PROVE  /\ engine[g].stage \in {"none", "iterate", "partial", "shipped"}
               /\ engine[g].shipped \in Lengths
    BY DEF IInv, GroupState
  <2>3. ASSUME NEW g \in Groups, engine[g].handle # NoHandle
        PROVE  /\ Live(g) /\ TaggedAs(memory.blocks[engine[g].handle])
               /\ engine[g].stage = "iterate" =>
                    memory.blocks[engine[g].handle].class = ClassOf(engine[g].kind)
    BY <2>3, GroupIs DEF Live, StateAt, StateOf, Holds
  <2> QED
    BY <2>1, <2>2, <2>3 DEF TypeOK
<1> QED
  BY <1>1, Invariant, PTL

(* No call leaks a block, frees one twice or uses one that is gone, but    *)
(* for the read through nullptr by get_estimate of NULL: between two calls *)
(* exactly the states of the groups and the unread result are allocated,   *)
(* and no two groups share a state                                         *)
(* (extension_list_u8_free, the *_delete functions, the merge callbacks,   *)
(* handle_serialize).                                                      *)
THEOREM Balanced == Spec => []MemoryBalanced
<1>1. IInv /\ Faults => MemoryBalanced
  <2> SUFFICES ASSUME IInv, Faults PROVE MemoryBalanced
    OBVIOUS
  <2>1. Held = HandlesOf(engine, Groups) /\ Ptrs(unread) = {unread.ptr} \ {Null}
    BY DEF Held, HandlesOf, Ptrs, Ptr
  <2>2. faulted <=> emptyIsNull /\ called = <<"get_estimate", EmptyLength>>
    BY DEF Faults
  <2>3. ASSUME ~memory.ended
        PROVE  /\ DOMAIN memory.blocks = Held \cup ({unread.ptr} \ {Null})
               /\ unread.ptr \notin Held
               /\ \A g, h \in Groups : g # h /\ engine[g].handle # NoHandle =>
                    engine[g].handle # engine[h].handle
    BY <2>1, <2>3 DEF IInv, Ended, Join, Ptr, Distinct
  <2> QED
    BY <2>2, <2>3 DEF MemoryBalanced
<1> QED
  BY <1>1, Invariant, PTL

(* A call ends the process only on an argument it refuses: a list too      *)
(* short for a sketch, a NULL where one is not allowed, the intersection   *)
(* of two NULLs.  That the confidence bounds always exist is the           *)
(* hypothesis, which TLC evaluates for BinomialBounds.                     *)
THEOREM AbortsJustified ==
  TRUE \notin StatisticsOutcomes => (Spec => []AbortsOnlyOnArguments)
<1> SUFFICES ASSUME TRUE \notin StatisticsOutcomes
             PROVE  Spec => []AbortsOnlyOnArguments
  OBVIOUS
<1>1. IInv /\ Aborts => AbortsOnlyOnArguments
  BY DEF Aborts
<1> QED
  BY <1>1, Invariant, PTL

=============================================================================
