-------------------------- MODULE MCWrappedSketch --------------------------
(* Sketches for WrappedSketch: empty, without entries and exact, without    *)
(* entries and sampled, single ones, ordered and unordered ones whose       *)
(* lengths end within, at and after a block of eight; a Long one that needs *)
(* two bytes for the count; and ordered ones of each of the PackedLengths   *)
(* and delta Widths, with deltas in several patterns.                       *)
EXTENDS WrappedSketch

CONSTANTS Lengths, Long, Thetas, PackedLengths, Widths, Patterns

Spread(n) == [k \in 1 .. n |-> (5 * k) + (k % 3)]

(* The n-th pattern's k-th delta: at least 1, at most 2^w - 1, which the    *)
(* first or the last delta reaches.                                         *)
DeltaOf(n, w, len, k) ==
  IF k = (IF n % 2 = 0 THEN len ELSE 1) THEN Pow(w) - 1
  ELSE 1 + ((k * (2 * n + 1) * 37 + n * 11) % (Pow(w) - 1))

EntriesOf(n, w, len) ==
  LET sum[k \in 0 .. len] == IF k = 0 THEN 0 ELSE sum[k - 1] + DeltaOf(n, w, len, k)
  IN  [k \in 1 .. len |-> sum[k]]

(* The widths and lengths pair up with one theta each. *)
MCPacked ==
  {MakeSketch(FALSE, TRUE, IF len % 2 = 1 THEN MaxTheta \div 2 ELSE MaxTheta,
              EntriesOf(n, w, len)) : n \in Patterns, w \in Widths, len \in PackedLengths}

MCSketches ==
  {MakeSketch(TRUE, TRUE, MaxTheta, <<>>)}
  \cup {MakeSketch(FALSE, TRUE, p, Spread(n)) : n \in Lengths, p \in Thetas}
  \cup {MakeSketch(FALSE, FALSE, p, Reverse(Spread(n))) : n \in {2, 3}, p \in Thetas}
  \cup {MakeSketch(FALSE, TRUE, MaxTheta \div 2, Spread(n)) : n \in Long}
  \cup MCPacked

(* Junk may look like nothing, or like a version, type, flag or small       *)
(* number, the seed hash of a reader, a count that is zero, small, or so    *)
(* large that the size of two or three words more wraps around, and a theta *)
(* that is sampled or MAX_THETA.                                            *)
JunkOf(one, two, four, eight) ==
  [width \in {1, 2, 4, 8} |->
     CASE width = 1 -> one [] width = 2 -> two [] width = 4 -> four [] width = 8 -> eight]

MCJunk ==
  {JunkOf(0, 0, 0, 0), JunkOf(1, 91, 0, MaxTheta), JunkOf(3, 91, 1, 1),
   JunkOf(4, 91, Pow(29) - 2, MaxTheta), JunkOf(3, 92, Pow(30) - 3, MaxTheta \div 2)}

MCNoJunk == {Zeroes}

=============================================================================
