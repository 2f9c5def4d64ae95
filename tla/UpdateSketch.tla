---------------------------- MODULE UpdateSketch ----------------------------
(***************************************************************************)
(* update_theta_sketch: the sketch that rows are fed into.  One action per *)
(* public operation that changes it: update, update_by_hash, trim, reset.  *)
(* Its state is the table; "offered" is a history variable, the hashes     *)
(* given to the sketch since it was built or last reset.                   *)
(***************************************************************************)
EXTENDS ThetaTable

CONSTANTS Hash,         \* the hashes that may be offered; update_by_hash
                        \* takes any 64-bit number, 0 included
          MaxTheta,     \* MAX_THETA, the largest hash update() can compute
          StartTheta,   \* starting_theta_from_p(p): MaxTheta when p = 1
          Nominal,      \* 2^lg_nom_size
          Factor,       \* 2^rf
          StartSize,    \* 2^starting_lg_size
          Sizes         \* the powers of two from 2 to 2 * Nominal

(* What the builder guarantees: starting_sub_multiple never exceeds        *)
(* lg_nom + 1, and a table that starts smaller than that (so has to grow)  *)
(* has a resize factor above X1.                                           *)
ASSUME BuilderAssumption ==
  /\ Hash \in SUBSET Nat /\ IsFiniteSet(Hash)
  /\ MaxTheta \in Nat
  /\ StartTheta \in 1 .. MaxTheta
  /\ Nominal \in Nat \ {0} /\ Factor \in Nat \ {0}
  /\ StartSize \in Sizes
  /\ StartSize <= Nominal => Factor >= 2
  /\ SizesOK(Sizes, Nominal, Factor)

VARIABLES table, offered

vars == <<table, offered>>

Init ==
  /\ table = NewTable(StartSize, Nominal, Factor, StartTheta, TRUE)
  /\ offered = {}

(* update(data, length) with the hash MurmurHash3 gives the data. *)
UpdateData(h) ==
  /\ h <= MaxTheta
  /\ table' = Offer(table, h)
  /\ offered' = offered \cup {h}

UpdateByHash(h) ==
  /\ table' = Offer(table, h)
  /\ offered' = offered \cup {h}

TrimSketch ==
  /\ table' = Trim(table)
  /\ UNCHANGED offered

ResetSketch ==
  /\ table' = NewTable(StartSize, table.nom, table.factor, StartTheta, TRUE)
  /\ offered' = {}

Next ==
  \/ \E h \in Hash : UpdateData(h) \/ UpdateByHash(h)
  \/ TrimSketch
  \/ ResetSketch

Spec == Init /\ [][Next]_vars

-----------------------------------------------------------------------------
TableType ==
  [isEmpty : BOOLEAN, cur : Nat, nom : {Nominal}, factor : {Factor},
   num : Nat, theta : 1 .. MaxTheta, entries : SUBSET (Hash \ {0})]

(* Type invariant: the fields of theta_update_sketch_base. *)
TypeOK == table \in TableType /\ offered \subseteq Hash

(* The hashes that could ever be retained. *)
Sampled == {h \in offered : 0 < h /\ h < StartTheta}

(* The sketch is a threshold sample: it retains every offered hash below   *)
(* theta and no other.  A hash accepted while theta was high must be gone  *)
(* after theta fell below it, and none below theta may have been lost by   *)
(* the resizes and rebuilds in between (update_by_hash, insert, rebuild).  *)
SampleExact == table.entries = Below(offered \ {0}, table.theta)

(* The counter num_entries_ that the code tests agrees with the slots in   *)
(* use, and between operations stays within get_capacity(), so the next    *)
(* find() meets an empty slot and never "key not found and no empty slots".*)
CountWithinCapacity ==
  /\ table.num = Cardinality(table.entries)
  /\ table.num <= Capacity(table.cur, table.nom)
  /\ table.num < table.cur
  /\ table.cur <= 2 * table.nom

(* Estimation mode keeps its accuracy: theta is lowered only onto an       *)
(* offered hash that leaves at least nominal entries below it (rebuild).   *)
ThetaKeepsNominal ==
  table.theta # StartTheta =>
    /\ table.theta \in Sampled
    /\ Cardinality(Below(Sampled, table.theta)) >= Nominal

(* Once trimmed to at most nominal entries, the sketch is a function of    *)
(* the SET of offered hashes, not of the order in which they came nor of   *)
(* when the resizes and rebuilds fell: theta is the start value if all     *)
(* hashes fit, else the (nominal + 1)-th smallest of them (trim).          *)
TrimmedIsCanonical ==
  table.num <= Nominal =>
    table.theta = IF Cardinality(Sampled) <= Nominal THEN StartTheta
                  ELSE NthElement(Sampled, Nominal)

(* theta never rises and no retained hash below the new theta is dropped,  *)
(* except by reset (update, trim).                                         *)
ThetaOnlyFalls ==
  [][\/ /\ table'.theta <= table.theta
        /\ Below(table.entries, table'.theta) \subseteq table'.entries
     \/ table' = NewTable(StartSize, Nominal, Factor, StartTheta, TRUE)]_vars

(* The update sketch implements the abstract sample. *)
Abs == INSTANCE ThetaSample
         WITH Hash <- Hash, K <- Nominal, StartTheta <- StartTheta,
              offered <- offered, theta <- table.theta,
              retained <- table.entries, empty <- table.isEmpty

(* Every operation of update_theta_sketch is a step the promise of         *)
(* ThetaSample allows: the refinement checked by TLC and proved in         *)
(* UpdateSketchProofs.                                                     *)
ImplementsSample == Abs!Spec

=============================================================================
