----------------------------- MODULE TableSketch -----------------------------
(***************************************************************************)
(* The update sketch on its slots: the state machine of UpdateSketch       *)
(* carried out by the open-addressing table of HashSlots.  It implements   *)
(* UpdateSketch, the keys of the slots being the set UpdateSketch keeps.   *)
(***************************************************************************)
EXTENDS HashSlots

CONSTANTS MaxHash, StartTheta, LgNom, Rf,
          Offers   \* the hashes offered, a sample of 0 .. MaxHash whose
                   \* probe paths collide

ASSUME TableAssumption ==
  /\ MaxHash \in Nat /\ StartTheta \in Nat \ {0}
  /\ MinLgK \in Nat \ {0} /\ LgNom \in Nat \ {0} /\ Rf \in 0 .. 3
  /\ MinLgK <= LgNom /\ Offers \subseteq 0 .. MaxHash

VARIABLES table, offered

vars == <<table, offered>>

StartLg == StartingSubMultiple(LgNom + 1, MinLgK, Rf)

Init ==
  /\ table = NewSlots(StartLg, LgNom, Rf, StartTheta, TRUE)
  /\ offered = {}

Running == ~table.exited

UpdateByHash(h) ==
  /\ Running
  /\ table' \in OfferSlots(table, h)
  /\ offered' = offered \cup {h}

TrimSketch ==
  /\ Running
  /\ table' \in TrimSlots(table)
  /\ UNCHANGED offered

ResetSketch ==
  /\ Running
  /\ table' = ResetSlots(table, StartTheta)
  /\ offered' = {}

Next ==
  \/ \E h \in Offers : UpdateByHash(h)
  \/ TrimSketch
  \/ ResetSketch

Spec == Init /\ [][Next]_vars

-----------------------------------------------------------------------------
(* Type invariant: the fields of the class, one slot per index of 2^lg_cur.*)
TypeOK ==
  /\ table.isEmpty \in BOOLEAN /\ table.exited \in BOOLEAN
  /\ table.lgCur \in MinLgK .. LgNom + 1
  /\ table.num \in 0 .. Pow2(table.lgCur)
  /\ table.theta \in 1 .. StartTheta
  /\ table.entries \in [Slots(table.lgCur) -> 0 .. MaxHash]
  /\ offered \subseteq Offers

(* find() never runs out of slots, whatever key it is asked for next: the  *)
(* "key not found and no empty slots!" exit is unreachable.                *)
FindAlwaysEnds ==
  /\ ~table.exited
  /\ \A h \in Offers \ {0} : Find(table.entries, table.lgCur, h) # NoSlot

(* Every stored key is found at its own slot: no insertion, rehash to a    *)
(* larger table or rebuild leaves a key behind a gap of its probe path, or *)
(* twice in the table.                                                     *)
EveryKeyFindable ==
  /\ \A i \in DOMAIN table.entries :
       table.entries[i] # 0 =>
         Find(table.entries, table.lgCur, table.entries[i]) = i
  /\ table.num = Cardinality({i \in DOMAIN table.entries : table.entries[i] # 0})

(* The slot table carries out the key-level sketch. *)
KeyLevel == INSTANCE UpdateSketch
          WITH Hash <- Offers, MaxTheta <- StartTheta, StartTheta <- StartTheta,
               Nominal <- Pow2(LgNom), Factor <- Pow2(Rf), StartSize <- Pow2(StartLg),
               Sizes <- {Pow2(lg) : lg \in 1 .. LgNom + 1},
               table <- [isEmpty |-> table.isEmpty, cur |-> Pow2(table.lgCur),
                         nom |-> Pow2(table.lgNom), factor |-> Pow2(table.rf),
                         num |-> table.num, theta |-> table.theta,
                         entries |-> KeySet(table)]

(* Probing, growing by rehash and thinning through nth_element do to the   *)
(* set of keys exactly what UpdateSketch says, so all that is proved of    *)
(* UpdateSketch holds of the slots.                                        *)
ImplementsUpdateSketch == KeyLevel!Spec

=============================================================================
