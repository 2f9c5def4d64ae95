---------------------------- MODULE SketchFormat ----------------------------
(***************************************************************************)
(* The bytes of a serialized compact sketch: what each writer lays down    *)
(* and what the two readers make of it, the parser of a byte array (under  *)
(* deserialize and wrap) and the reader of a stream.  A blob is a sequence *)
(* of bytes <<v, i>>, "the i-th byte of a field of value v", so that a     *)
(* field is got back only by reading its bytes at its width.  What is      *)
(* read beyond the end, or was never written, is some "junk": a value per  *)
(* width, 1, 2, 4 or 8 bytes, and in one call the same wherever it is met. *)
(***************************************************************************)
EXTENDS DeltaCoding, CompactSketch

CONSTANT MaxTheta

SketchType == 3
IsReadOnly == 1     \* enum flags
IsEmpty    == 2
IsCompact  == 3
IsOrdered  == 4

IsEstimation(s) == s.theta < MaxTheta /\ ~s.isEmpty

Field(v, width) == [k \in 1 .. width |-> <<v, k>>]

Zeroes == [width \in {1, 2, 4, 8} |-> 0]

(* The lowest bytes of v, and above them those of w. *)
LowOf(v, bytes, w) ==
  LET above == Pow(8 * bytes)
  IN  (v % above) + (w - (w % above))

(* A field the blob ends in keeps its lowest bytes; a word of eight, whose *)
(* values are not told apart byte by byte, is junk as a whole.             *)
ReadField(mem, at, width, junk) ==
  LET found == {k \in 1 .. width : at + k <= Len(mem) /\ mem[at + k] = <<mem[at + 1][1], k>>}
  IN  IF found = 1 .. width THEN mem[at + 1][1]
      ELSE IF width = 8 \/ 1 \notin found THEN junk[width]
      ELSE LowOf(mem[at + 1][1], Cardinality(found), junk[width])

HasFlag(flags, f) == BitOf(flags, f) = 1

Flags(s) == Pow(IsCompact) + Pow(IsReadOnly)
            + (IF s.isEmpty THEN Pow(IsEmpty) ELSE 0)
            + (IF s.isOrdered THEN Pow(IsOrdered) ELSE 0)

EntryFields(q) ==
  [b \in 1 .. 8 * Len(q) |-> Field(q[((b - 1) \div 8) + 1], 8)[((b - 1) % 8) + 1]]

(* Bytes as fields of one byte. *)
ByteFields(q) == [k \in DOMAIN q |-> <<q[k], 1>>]

-----------------------------------------------------------------------------
(* Writers *)

(* Mutant of PreambleLongs: a single entry is taken for an exact sketch. *)
PreambleShort(s) ==
  IF s.isEmpty \/ Len(s.entries) = 1 THEN 1 ELSE IF IsEstimation(s) THEN 3 ELSE 2

PreambleLongs(s) ==
  IF IsEstimation(s) THEN 3 ELSE IF s.isEmpty \/ Len(s.entries) = 1 THEN 1 ELSE 2

(* serialize(), to a vector or a stream, and serialize2(), whose buffer    *)
(* comes from malloc: the unused bytes are zero, or the junk that was there.*)
Uncompressed(s, seedHash, unused) ==
  LET pre == PreambleLongs(s)
  IN  Field(pre, 1) \o Field(3, 1) \o Field(SketchType, 1) \o Field(unused[2], 2)
      \o Field(Flags(s), 1) \o Field(seedHash, 2)
      \o (IF pre > 1 THEN Field(Len(s.entries), 4) \o Field(unused[4], 4) ELSE <<>>)
      \o (IF IsEstimation(s) THEN Field(s.theta, 8) ELSE <<>>)
      \o EntryFields(s.entries)

IsSuitableForCompression(s) ==
  /\ s.isOrdered
  /\ Len(s.entries) > 1 \/ (Len(s.entries) = 1 /\ IsEstimation(s))

(* The entry count in as many bytes as it needs, the lowest first. *)
CountBytes(n) == WholeBytes(32 - CountLeadingZeros(n, 4))

Version4(s, seedHash) ==
  LET nb == CountBytes(Len(s.entries))
  IN  Field(IF IsEstimation(s) THEN 2 ELSE 1, 1) \o Field(4, 1) \o Field(SketchType, 1)
      \o Field(EntryBits(s.entries), 1) \o Field(nb, 1)
      \o Field(Pow(IsCompact) + Pow(IsReadOnly) + Pow(IsOrdered), 1) \o Field(seedHash, 2)
      \o (IF IsEstimation(s) THEN Field(s.theta, 8) ELSE <<>>)
      \o ByteFields([k \in 1 .. nb |-> Byte(Len(s.entries) \div Pow(8 * (k - 1)))])
      \o ByteFields(VectorBytes(s.entries))

(* serialize_compressed(header_size_bytes) *)
Compressed(s, seedHash) ==
  IF IsSuitableForCompression(s) THEN Version4(s, seedHash) ELSE Uncompressed(s, seedHash, Zeroes)

(* Versions 1 and 2 come from earlier libraries, always ordered: as the    *)
(* readers take them.  Version 1 has no seed hash, and a preamble of three *)
(* longs; an empty sketch of version 2 may have any of the three.          *)
OldHeader(pre, version, seedHash) ==
  Field(pre, 1) \o Field(version, 1) \o Field(SketchType, 1) \o Field(0, 1)
  \o Field(0, 2) \o Field(seedHash, 2)

OldVersion(s, pre, version, seedHash) ==
  OldHeader(pre, version, IF version = 1 THEN 0 ELSE seedHash)
  \o (IF pre > 1 THEN Field(Len(s.entries), 4) \o Field(0, 4) ELSE <<>>)
  \o (IF pre > 2 THEN Field(s.theta, 8) ELSE <<>>)
  \o EntryFields(s.entries)

OldPreambles(s, version) ==
  CASE version = 1 -> {3}
    [] version = 2 /\ s.isEmpty -> {1, 2, 3}
    [] version = 2 /\ IsEstimation(s) -> {3}
    [] OTHER -> {2, 3}

-----------------------------------------------------------------------------
(* Readers.  What a reader returns: refused (the process exits), or the    *)
(* sketch, its seed hash and the number of bytes taken.                    *)
Refused == [ok |-> FALSE]

Accepted(isEmpty, isOrdered, theta, entries, seedHash, taken) ==
  [ok |-> TRUE, sketch |-> MakeSketch(isEmpty, isOrdered, theta, entries),
   seedHash |-> seedHash, taken |-> taken]

EmptyTaken(seedHash, taken) == Accepted(TRUE, TRUE, MaxTheta, <<>>, seedHash, taken)

Entries(mem, at, n, junk) == [k \in 1 .. n |-> ReadField(mem, at + (8 * (k - 1)), 8, junk)]

(* The bytes from position "at" on as numbers, for unpacking. *)
BytesFrom(mem, at) == [k \in 1 .. Len(mem) - at |-> mem[at + k][1]]

CountOf(mem, at, nb, junk) ==
  LET Part(k) == Pow(8 * k) * ReadField(mem, at + k, 1, junk)
  IN  MapThenSumSet(Part, 0 .. nb - 1)

(* compact_theta_sketch_data: the header, where the n entries start, how   *)
(* many bits each has (64: they are not packed) and the size asked for.    *)
Parsed(isOrdered, theta, seedHash, n, start, bits, taken) ==
  [ok |-> TRUE, isEmpty |-> FALSE, isOrdered |-> isOrdered, theta |-> theta,
   seedHash |-> seedHash, n |-> n, start |-> start, bits |-> bits, taken |-> taken]

ParsedEmpty(seedHash, taken) ==
  [Parsed(TRUE, MaxTheta, seedHash, 0, 0, 64, taken) EXCEPT !.isEmpty = TRUE]

(* expected_size_bytes of n words after the first ones, in words: it is    *)
(* computed in 32 bits, those of size_t on wasm32 (and, for version 2, of  *)
(* num_entries on any platform).                                           *)
SizeInWords(first, n) == (first + n) % Pow(29)

(* The bytes reach so far. *)
HasWords(mem, words) == words <= Len(mem) \div 8

(* The n words of entries, of which the size asked for says they are there.*)
ParsedWords(mem, isOrdered, theta, seedHash, first, n) ==
  LET words == SizeInWords(first, n)
  IN  IF HasWords(mem, words)
        THEN Parsed(isOrdered, theta, seedHash, n, 8 * first, 64, 8 * words)
      ELSE Refused

(* compact_theta_sketch_parser::parse(), one operator per serial version;  *)
(* it leaves the entries where they are.  The product of version 4 has 32  *)
(* bits too, but its count is checked to be there, and no sketch of the    *)
(* formats written here reaches them.                                      *)
ParseVersion4(mem, seedHash, junk) ==
  LET U(at, width) == ReadField(mem, at, width, junk)
      hasTheta == U(0, 1) > 1
      countAt  == IF hasTheta THEN 16 ELSE 8
      dataAt   == countAt + U(4, 1)
      n        == CountOf(mem, countAt, U(4, 1), junk)
      size     == dataAt + WholeBytes(U(3, 1) * n)
  IN  IF U(6, 2) # seedHash \/ Len(mem) < dataAt \/ Len(mem) < size THEN Refused
      ELSE Parsed(TRUE, IF hasTheta THEN U(8, 8) ELSE MaxTheta, U(6, 2), n, dataAt, U(3, 1), size)

ParseVersion3(mem, seedHash, junk) ==
  LET U(at, width) == ReadField(mem, at, width, junk)
      hasTheta == U(0, 1) > 2
      theta    == IF hasTheta THEN U(16, 8) ELSE MaxTheta
  IN  IF HasFlag(U(5, 1), IsEmpty) THEN ParsedEmpty(U(6, 2), 8)
      ELSE IF U(6, 2) # seedHash \/ (hasTheta /\ Len(mem) < 24) THEN Refused
      ELSE IF U(0, 1) = 1 THEN ParsedWords(mem, TRUE, theta, U(6, 2), 1, 1)
      ELSE ParsedWords(mem, HasFlag(U(5, 1), IsOrdered), theta, U(6, 2),
                       IF hasTheta THEN 3 ELSE 2, U(8, 4))

(* What versions 1 and 2 have in common: three longs, then the entries.    *)
(* The count and theta are read before any size is checked.                *)
ParseThreeLongs(mem, seedHash, junk) ==
  LET U(at, width) == ReadField(mem, at, width, junk)
  IN  IF U(8, 4) = 0 /\ U(16, 8) = MaxTheta THEN ParsedEmpty(seedHash, 24)
      ELSE ParsedWords(mem, TRUE, U(16, 8), seedHash, 3, U(8, 4))

ParseVersion2(mem, seedHash, junk) ==
  LET U(at, width) == ReadField(mem, at, width, junk)
      TwoLongs ==
        IF U(8, 4) = 0 THEN ParsedEmpty(seedHash, 16)
        ELSE ParsedWords(mem, TRUE, MaxTheta, seedHash, 2, U(8, 4))
  IN  IF U(6, 2) # seedHash THEN Refused
      ELSE CASE U(0, 1) = 1 -> ParsedEmpty(seedHash, 8)
             [] U(0, 1) = 2 -> TwoLongs
             [] U(0, 1) = 3 -> ParseThreeLongs(mem, seedHash, junk)
             [] OTHER -> Refused

Parse(mem, seedHash, junk) ==
  LET version == ReadField(mem, 1, 1, junk)
  IN  IF Len(mem) < 8 \/ ReadField(mem, 2, 1, junk) # SketchType THEN Refused
      ELSE CASE version = 4 -> ParseVersion4(mem, seedHash, junk)
             [] version = 3 -> ParseVersion3(mem, seedHash, junk)
             [] version = 2 -> ParseVersion2(mem, seedHash, junk)
             [] version = 1 -> ParseThreeLongs(mem, seedHash, junk)
             [] OTHER -> Refused

(* The end of n words seems to lie before their start, in 32 bits: there   *)
(* is no vector of them.                                                   *)
TooMany(n) == n % Pow(29) >= Pow(28)

(* deserialize(bytes, size, seed) *)
ReadBytes(mem, seedHash, junk) ==
  LET p == Parse(mem, seedHash, junk)
  IN  IF ~p.ok \/ TooMany(p.n) THEN Refused
      ELSE Accepted(p.isEmpty, p.isOrdered, p.theta,
                    IF p.bits = 64 THEN Entries(mem, p.start, p.n % Pow(29), junk)
                    ELSE Decoded(p.n, p.bits, BytesFrom(mem, p.start)),
                    p.seedHash, p.taken)

-----------------------------------------------------------------------------
(* Mutant of Good: the stream is asked before the last word is read. *)
GoodTooEarly(mem, bytes, words) ==
  bytes - 8 <= Len(mem) /\ words <= (Len(mem) + 8 - bytes) \div 8

(* deserialize(std::istream&, seed): the cursor moves by what is read, and *)
(* a read past the end leaves junk in its variable and the stream not good *)
(* any more, which is looked at once, before the sketch is made.  A count  *)
(* no vector can have ends the process too.                                *)
Good(mem, bytes, words) ==
  bytes <= Len(mem) /\ words <= (Len(mem) - bytes) \div 8

ReadVersion1(mem, seedHash, junk) ==
  LET U(at, width) == ReadField(mem, at, width, junk)
      isEmpty == U(8, 4) = 0 /\ U(16, 8) = MaxTheta
      n       == U(8, 4)
  IN  IF ~Good(mem, 24, n) THEN Refused
      ELSE Accepted(isEmpty, TRUE, U(16, 8), Entries(mem, 24, n, junk), seedHash, 24 + (8 * n))

ReadVersion2(mem, seedHash, junk) ==
  LET U(at, width) == ReadField(mem, at, width, junk)
      theta == IF U(0, 1) = 3 THEN U(16, 8) ELSE MaxTheta
      n     == IF U(0, 1) = 1 THEN 0 ELSE U(8, 4)
      start == 8 * U(0, 1)
  IN  IF U(6, 2) # seedHash \/ U(0, 1) \notin 1 .. 3 THEN Refused
      ELSE IF U(0, 1) = 2 /\ n = 0 THEN EmptyTaken(seedHash, 16)
      ELSE IF ~Good(mem, start, n) THEN Refused
      ELSE Accepted(n = 0 /\ theta = MaxTheta, TRUE, theta,
                    Entries(mem, start, n, junk), seedHash, start + (8 * n))

(* Mutant of LongsRead: the theta of a sampled sketch stays in the stream. *)
LongsBeforeTheta(pre, isEmpty) == IF isEmpty \/ pre = 1 THEN 1 ELSE 2

(* How many longs deserialize_v3 reads before the entries. *)
LongsRead(pre, isEmpty) ==
  IF isEmpty \/ pre = 1 THEN 1 ELSE IF pre > 2 THEN 3 ELSE 2

ReadVersion3(mem, seedHash, junk) ==
  LET U(at, width) == ReadField(mem, at, width, junk)
      isEmpty == HasFlag(U(5, 1), IsEmpty)
      start   == 8 * LongsRead(U(0, 1), isEmpty)
      n       == IF isEmpty THEN 0 ELSE IF U(0, 1) = 1 THEN 1 ELSE U(8, 4)
      theta   == IF ~isEmpty /\ U(0, 1) > 2 THEN U(16, 8) ELSE MaxTheta
  IN  IF (~isEmpty /\ U(6, 2) # seedHash) \/ ~Good(mem, start, n) THEN Refused
      ELSE Accepted(isEmpty, HasFlag(U(5, 1), IsOrdered), theta,
                    Entries(mem, start, n, junk), U(6, 2), start + (8 * n))

ReadVersion4(mem, seedHash, junk) ==
  LET U(at, width) == ReadField(mem, at, width, junk)
      isEmpty == HasFlag(U(5, 1), IsEmpty)
      countAt == IF U(0, 1) > 1 THEN 16 ELSE 8
      dataAt  == countAt + U(4, 1)
      n       == CountOf(mem, countAt, U(4, 1), junk)
      read    == dataAt + ((n \div 8) * U(3, 1)) + WholeBytes((n % 8) * U(3, 1))
  IN  IF (~isEmpty /\ U(6, 2) # seedHash) \/ ~Good(mem, read, 0) THEN Refused
      ELSE Accepted(isEmpty, HasFlag(U(5, 1), IsOrdered),
                    IF U(0, 1) > 1 THEN U(8, 8) ELSE MaxTheta,
                    Decoded(n, U(3, 1), BytesFrom(mem, dataAt)), U(6, 2), read)

ReadStream(mem, seedHash, junk) ==
  LET version == ReadField(mem, 1, 1, junk)
  IN  IF ReadField(mem, 2, 1, junk) # SketchType THEN Refused
      ELSE CASE version = 4 -> ReadVersion4(mem, seedHash, junk)
             [] version = 3 -> ReadVersion3(mem, seedHash, junk)
             [] version = 1 -> ReadVersion1(mem, seedHash, junk)
             [] version = 2 -> ReadVersion2(mem, seedHash, junk)
             [] OTHER -> Refused

=============================================================================
