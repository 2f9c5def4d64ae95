---------------------------- MODULE DeltaCoding ----------------------------
(***************************************************************************)
(* The packed deltas of serial version 4: the ascending hashes of a sketch *)
(* as differences, in blocks of eight and a rest packed one by one, all at *)
(* the width of the widest.  Two writers (to a vector of bytes and to a    *)
(* stream) and the reader that takes everything at once.                   *)
(***************************************************************************)
EXTENDS BitPacking, FiniteSetsExt, SequencesExt

WholeBytes(bits) == (bits \div 8) + (IF bits % 8 > 0 THEN 1 ELSE 0)

Delta(q, k) == IF k = 1 THEN q[1] ELSE q[k] - q[k - 1]

(* byte_leading_zeros_table *)
ByteLeadingZeros ==
  [b \in 0 .. 255 |-> CHOOSE z \in 0 .. 8 : b < Pow(8 - z) /\ (z < 8 => b >= Pow(7 - z))]

(* count_leading_zeros_in_u64() and _u32(): of a number of so many bytes,  *)
(* by the first byte that is not zero.                                     *)
CountLeadingZeros(x, bytes) ==
  LET first == CHOOSE k \in 0 .. 3 : /\ x \div Pow(8 * k) <= 255
                                     /\ k > 0 => x \div Pow(8 * (k - 1)) > 255
  IN  (8 * (bytes - 1 - first)) + ByteLeadingZeros[x \div Pow(8 * first)]

(* All the deltas ORed. *)
Ored(q) == MapThenSumSet(Pow, {b \in 0 .. 30 : \E k \in DOMAIN q : BitOf(Delta(q, k), b) = 1})

(* compute_min_leading_zeros() *)
MinLeadingZeros(q) == CountLeadingZeros(Ored(q), 8)

EntryBits(q) == 64 - MinLeadingZeros(q)

Blocks(q) == Len(q) \div 8

Block(q, n) == [j \in 1 .. 8 |-> Delta(q, 8 * (n - 1) + j)]

NoBytes(bits) == [b \in 1 .. bits |-> 0]

(* pack_bits_block8 for every full block of deltas, into fresh bytes. *)
PackedBlocks(q) ==
  LET bits == EntryBits(q)
  IN  FlattenSeq([n \in 1 .. Blocks(q) |-> PackBlock8(Block(q, n), bits, NoBytes(bits))])

(* The loop that packs the deltas left over, into the bytes "buffer".      *)
PackedRest(q, buffer) ==
  LET first == 8 * Blocks(q)
      bits  == EntryBits(q)
      after[n \in 0 .. Len(q) - first] ==
        IF n = 0 THEN [mem |-> buffer, pos |-> 1, offset |-> 0]
        ELSE LET c == after[n - 1]
             IN  PackBits(Delta(q, first + n), bits, c.mem, c.pos, c.offset)
  IN  after[Len(q) - first]

RestBytes(q) == WholeBytes(EntryBits(q) * (Len(q) % 8))

(* serialize_version_4(header_size_bytes): what follows the header. *)
VectorBytes(q) == PackedBlocks(q) \o PackedRest(q, NoBytes(RestBytes(q))).mem

(* serialize_version_4(std::ostream&): blocks and rest go through one      *)
(* buffer of entry_bits bytes, which holds the block before; of the rest   *)
(* ptr - buffer.data() bytes are written.                                  *)
StreamBytes(q) ==
  LET buffer[n \in 0 .. Blocks(q)] ==
        IF n = 0 THEN NoBytes(EntryBits(q))
        ELSE PackBlock8(Block(q, n), EntryBits(q), buffer[n - 1])
      rest == PackedRest(q, buffer[Blocks(q)])
  IN  FlattenSeq([n \in 1 .. Blocks(q) |-> buffer[n]]) \o SubSeq(rest.mem, 1, rest.pos - 1)

(* Adding the previous value to each delta in turn: value k is the sum of  *)
(* what precedes and the deltas 1 .. k, summed by halves.                  *)
UndoDeltas(deltas, previous) ==
  LET sum[a \in DOMAIN deltas, b \in DOMAIN deltas] ==
        IF a = b THEN deltas[a]
        ELSE LET mid == (a + b) \div 2 IN sum[a, mid] + sum[mid + 1, b]
  IN  [k \in DOMAIN deltas |-> previous + sum[1, k]]

(* deserialize(bytes): blocks, rest, then the deltas undone. *)
Decoded(n, bits, mem) ==
  LET blocks == FlattenSeq([b \in 1 .. n \div 8 |->
                              UnpackBlock8(bits, mem, (b - 1) * bits + 1)])
      rest[k \in 0 .. n % 8] ==
        IF k = 0 THEN [value |-> 0, pos |-> (n \div 8) * bits + 1, offset |-> 0]
        ELSE LET c == rest[k - 1] IN UnpackBits(bits, mem, c.pos, c.offset)
  IN  UndoDeltas(blocks \o [k \in 1 .. n % 8 |-> rest[k].value], 0)

=============================================================================
