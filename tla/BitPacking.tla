----------------------------- MODULE BitPacking -----------------------------
(***************************************************************************)
(* bit_packing.hpp: values of a given width in bits, most significant bit  *)
(* first, in consecutive bytes.  A memory is a sequence of bytes, a cursor *)
(* a position in it and the number of bits of that byte already taken.     *)
(* Widths are bounded by TLC's 32-bit integers.                            *)
(***************************************************************************)
EXTENDS Integers, Sequences, Bitwise

Pow(n) == 2^n
Byte(x) == x % 256

(* The whole bytes and the last partial byte of the low "bits" bits of v,  *)
(* from position pos on: the while loop of pack_bits and what follows it.  *)
PackRest(v, bits, mem, pos) ==
  LET whole == bits \div 8
      tail  == bits % 8
      Stored(p) ==
        CASE p \in pos .. pos + whole - 1 -> Byte(v \div Pow(bits - 8 * (p - pos + 1)))
          [] p = pos + whole /\ tail > 0 -> Byte(v * Pow(8 - tail))
          [] OTHER -> mem[p]
  IN  [mem |-> [p \in DOMAIN mem |-> Stored(p)], pos |-> pos + whole, offset |-> tail]

(* Mutant of PackBits: the bits stored in the current byte are not taken   *)
(* off what the rest stores.                                               *)
PackBitsWholeRest(v, bits, mem, pos, offset) ==
  LET chunk == 8 - offset
  IN  IF offset = 0 THEN PackRest(v, bits, mem, pos)
      ELSE IF bits < chunk
        THEN [mem |-> [mem EXCEPT ![pos] = @ | ((v * Pow(chunk - bits)) % Pow(chunk))],
              pos |-> pos, offset |-> offset + bits]
      ELSE PackRest(v, bits,
             [mem EXCEPT ![pos] = @ | ((v \div Pow(bits - chunk)) % Pow(chunk))], pos + 1)

(* pack_bits(): the free bits of the current byte first. *)
PackBits(v, bits, mem, pos, offset) ==
  LET chunk == 8 - offset
  IN  IF offset = 0 THEN PackRest(v, bits, mem, pos)
      ELSE IF bits < chunk
        THEN [mem |-> [mem EXCEPT ![pos] = @ | ((v * Pow(chunk - bits)) % Pow(chunk))],
              pos |-> pos, offset |-> offset + bits]
      ELSE PackRest(v, bits - chunk,
             [mem EXCEPT ![pos] = @ | ((v \div Pow(bits - chunk)) % Pow(chunk))], pos + 1)

(* The byte at p; past the end is memory of something else, 0 here. *)
ByteAt(mem, p) == IF p \in DOMAIN mem THEN mem[p] ELSE 0

(* unpack_bits(): the value, the cursor after it and the last byte read.   *)
UnpackBits(bits, mem, pos, offset) ==
  LET avail == 8 - offset
      chunk == IF avail <= bits THEN avail ELSE bits
      next  == IF chunk = avail THEN pos + 1 ELSE pos
      whole == (bits - chunk) \div 8
      tail  == (bits - chunk) % 8
      after[n \in 0 .. whole] ==
        IF n = 0 THEN (ByteAt(mem, pos) \div Pow(avail - chunk)) % Pow(chunk)
        ELSE after[n - 1] * 256 + ByteAt(mem, next + n - 1)
  IN  IF tail > 0
        THEN [value |-> (after[whole] * Pow(tail)) + (ByteAt(mem, next + whole) \div Pow(8 - tail)),
              pos |-> next + whole, offset |-> tail, last |-> next + whole]
      ELSE [value |-> after[whole], pos |-> next + whole,
            offset |-> (offset + chunk) % 8,
            last |-> IF bits = chunk THEN pos ELSE next + whole - 1]

-----------------------------------------------------------------------------
(* Blocks of eight values.  Bit k of value j is the pair <<j, k>>, bit 0    *)
(* the least significant; bit q of the packed block is numbered from the   *)
(* most significant bit of its first byte.                                 *)

OldBit(q) == <<8, q>>   \* what was in bit q of the memory packed into

(* pack_bits_N: the bits ORed into bit q: the N-bit fields side by side.   *)
(* Byte 6 of pack_bits_13 starts with values[3] >> 4 (the others shift     *)
(* left what starts a byte), and byte 10 of pack_bits_19 is ORed, not      *)
(* assigned.                                                               *)
PackedFrom(bits, q) ==
  LET field == <<q \div bits, bits - 1 - (q % bits)>>
  IN  CASE bits = 13 /\ q \in 48 .. 55 ->
             {<<3, 59 - q>>} \cup (IF field[1] = 4 THEN {field} ELSE {})
        [] bits = 19 /\ q \in 80 .. 87 -> {field, OldBit(q)}
        [] OTHER -> {field}

(* unpack_bits_N: the packed bits ORed into bit k of value j.  In          *)
(* unpack_bits_33 the 24-bit shift of a byte of values[7] is an int and    *)
(* its sign reaches the bits above; unpack_bits_35 masks the first byte    *)
(* of values[2], two bits wide, with 2.                                    *)
UnpackedFrom(bits, j, k) ==
  LET At(b) == (j * bits) + bits - 1 - b
      own   == IF k < bits THEN {At(k)} ELSE {}
  IN  CASE bits = 33 /\ j = 7 /\ k >= 32 -> own \cup {At(31)}
        [] bits = 35 /\ j = 2 /\ k = 33  -> {}
        [] OTHER -> own

BitOf(x, k) == (x \div Pow(k)) % 2

(* Bit q of a memory, from position pos on. *)
BitAt(mem, pos, q) == BitOf(ByteAt(mem, pos + (q \div 8)), 7 - (q % 8))

(* pack_bits_block8 on numbers, into the bytes "old". *)
PackBlock8(values, bits, old) ==
  LET One(q) == \E s \in PackedFrom(bits, q) :
                  IF s = OldBit(q) THEN BitAt(old, 1, q) = 1
                  ELSE BitOf(values[s[1] + 1], s[2]) = 1
      part(b, n) == IF One((8 * (b - 1)) + n) THEN Pow(7 - n) ELSE 0
  IN  [b \in 1 .. bits |-> part(b, 0) + part(b, 1) + part(b, 2) + part(b, 3)
                           + part(b, 4) + part(b, 5) + part(b, 6) + part(b, 7)]

(* unpack_bits_block8 on bytes. *)
UnpackBlock8(bits, mem, pos) ==
  LET value[j \in 0 .. 7, n \in 0 .. bits] ==
        IF n = 0 THEN 0
        ELSE (2 * value[j, n - 1]) +
             (IF \E q \in UnpackedFrom(bits, j, bits - n) : BitAt(mem, pos, q) = 1
                THEN 1 ELSE 0)
  IN  [j \in 1 .. 8 |-> value[j - 1, bits]]

=============================================================================
