---------------------------- MODULE BlockPacking ----------------------------
(***************************************************************************)
(* The functions behind pack_bits_block8 and unpack_bits_block8, one for   *)
(* each width and direction, written out as assignments and ORs of shifted *)
(* bytes.  A statement is a step here: it moves as many bits as fit, of    *)
(* value j, into or out of the byte at ptr.  What is moved is followed bit *)
(* by bit, as the set of bits ORed into each bit, so that one behaviour    *)
(* stands for all blocks of a width, over any old contents of the memory.  *)
(***************************************************************************)
EXTENDS BitPacking

CONSTANTS Widths    \* the widths tried, of 1 .. 63

ASSUME WidthsAssumption == Widths \subseteq 1 .. 63

VARIABLES bits,    \* the width
          phase,   \* "pack", "unpack" or "done"
          j,       \* the value worked on, of 0 .. 7
          left,    \* how many of its bits are still to be moved
          ptr,     \* the byte worked on, of 0 .. bits - 1
          taken,   \* how many of its bits are done
          mem,     \* the packed bytes: for bit q, the bits ORed into it
          values   \* the values read: for bit k of each, the bits ORed into it

vars == <<bits, phase, j, left, ptr, taken, mem, values>>

Room == 8 - taken
Moved == IF left <= Room THEN left ELSE Room

(* Distance to the right from bits of the value to bits of the byte. *)
Shift == left - Room

(* The bits of *ptr, as bits of the block. *)
InByte(q) == q \div 8 = ptr
PackedBit(b) == (8 * ptr) + 7 - b

(* Where the next statement works. *)
AfterStatement(end) ==
  /\ left' = IF Moved = left THEN bits ELSE left - Moved
  /\ j' = IF Moved = left THEN (j + 1) % 8 ELSE j
  /\ phase' = IF Moved = left /\ j = 7 THEN end ELSE phase
  /\ ptr' = IF phase' # phase THEN 0 ELSE IF taken + Moved = 8 THEN ptr + 1 ELSE ptr
  /\ taken' = IF phase' # phase THEN 0 ELSE (taken + Moved) % 8

Init ==
  /\ bits \in Widths
  /\ phase = "pack" /\ j = 0 /\ left = bits /\ ptr = 0 /\ taken = 0
  /\ mem = [q \in 0 .. (8 * bits) - 1 |-> {OldBit(q)}]
  /\ values = [jk \in (0 .. 7) \X (0 .. 63) |-> {<<8, 0>>}]

-----------------------------------------------------------------------------
(* Packing.  Mutant of ByteStarted: only a value's first byte is assigned. *)
ByteStartedOrContinued == taken > 0 \/ left < bits

(* The first statement of a byte assigns it, the others OR into it. *)
ByteStarted == taken > 0

(* uint8_t(values[j] >> shift), a shift to the left if it is negative: the *)
(* bits of the value in bit b of it.  Those above the width are zeros.     *)
ShiftedValue(b, shift) ==
  IF b + shift \in 0 .. bits - 1 THEN {<<j, b + shift>>} ELSE {}

(* "*ptr |= values[j] >> shift", or with "=" if nothing is kept.           *)
PackStatement(width, shift, kept) ==
  /\ phase = "pack" /\ bits \in width
  /\ mem' = [q \in DOMAIN mem |->
               IF InByte(q)
                 THEN ShiftedValue(7 - (q % 8), shift) \cup (IF kept THEN mem[q] ELSE {})
               ELSE mem[q]]
  /\ AfterStatement("unpack")
  /\ UNCHANGED <<bits, values>>

(* pack_bits_13 shifts right where the rest of values[3] starts a byte. *)
RestOfValue3 == bits = 13 /\ j = 3 /\ left < 8

(* pack_bits_19 ORs into byte 10 what starts it. *)
StartOfByte10 == bits = 19 /\ ptr = 10

(* pack_bits_N: one action for each number of bytes an N-bit value fills. *)
PackBits1To8   == PackStatement(1 .. 8, Shift, ByteStarted)
PackBits9To16  == PackStatement(9 .. 16, IF RestOfValue3 THEN 4 ELSE Shift, ByteStarted)
PackBits17To24 == PackStatement(17 .. 24, Shift, ByteStarted \/ StartOfByte10)
PackBits25To32 == PackStatement(25 .. 32, Shift, ByteStarted)
PackBits33To40 == PackStatement(33 .. 40, Shift, ByteStarted)
PackBits41To48 == PackStatement(41 .. 48, Shift, ByteStarted)
PackBits49To56 == PackStatement(49 .. 56, Shift, ByteStarted)
PackBits57To63 == PackStatement(57 .. 63, Shift, ByteStarted)

-----------------------------------------------------------------------------
(* Unpacking.  Mutant of InMask: a value that starts within a byte is not  *)
(* masked.                                                                 *)
NoMask(b) == TRUE

(* The mask keeps what is left of the byte. *)
InMask(b) == b < Room

(* The byte, masked and shifted: what is in each bit of it. *)
Read ==
  [k \in 0 .. 63 |->
     IF k - Shift \in 0 .. 7 /\ InMask(k - Shift) THEN mem[PackedBit(k - Shift)] ELSE {}]

(* unpack_bits_33 does not cast a byte of values[7] before it is shifted   *)
(* by 24: it reaches the sign of an int.                                   *)
ReadSigned ==
  [k \in 0 .. 63 |-> Read[IF j = 7 /\ Shift = 24 /\ k > 31 THEN 31 ELSE k]]

(* unpack_bits_35 masks the two bits values[2] starts with by 2. *)
ReadUpperBit == IF j = 2 /\ left = bits THEN [Read EXCEPT ![Shift] = {}] ELSE Read

(* "values[j] |= *ptr << Shift", or with "=" where the value starts.       *)
UnpackStatement(width, read) ==
  /\ phase = "unpack" /\ bits \in width
  /\ values' = [jk \in DOMAIN values |->
                  IF jk[1] = j THEN read[jk[2]] \cup (IF left < bits THEN values[jk] ELSE {})
                  ELSE values[jk]]
  /\ AfterStatement("done")
  /\ UNCHANGED <<bits, mem>>

(* unpack_bits_N, likewise. *)
UnpackBits1To8   == UnpackStatement(1 .. 8, Read)
UnpackBits9To16  == UnpackStatement(9 .. 16, Read)
UnpackBits17To24 == UnpackStatement(17 .. 24, Read)
UnpackBits25To32 == UnpackStatement(25 .. 32, Read)
UnpackBits33To40 ==
  UnpackStatement(33 .. 40, CASE bits = 33 -> ReadSigned
                              [] bits = 35 -> ReadUpperBit
                              [] OTHER -> Read)
UnpackBits41To48 == UnpackStatement(41 .. 48, Read)
UnpackBits49To56 == UnpackStatement(49 .. 56, Read)
UnpackBits57To63 == UnpackStatement(57 .. 63, Read)

(* The dispatchers pick the function of the width. *)
PackBitsBlock8 ==
  \/ PackBits1To8   \/ PackBits9To16  \/ PackBits17To24 \/ PackBits25To32
  \/ PackBits33To40 \/ PackBits41To48 \/ PackBits49To56 \/ PackBits57To63

UnpackBitsBlock8 ==
  \/ UnpackBits1To8   \/ UnpackBits9To16  \/ UnpackBits17To24 \/ UnpackBits25To32
  \/ UnpackBits33To40 \/ UnpackBits41To48 \/ UnpackBits49To56 \/ UnpackBits57To63

Next == PackBitsBlock8 \/ UnpackBitsBlock8

Spec == Init /\ [][Next]_vars

-----------------------------------------------------------------------------
(* The widths whose functions lose or add bits; all others are exact. *)
Inexact == {13, 19, 33, 35}

Expected(k) == IF k[2] < bits THEN {k} ELSE {}

(* "pack given number of bits from a block of 8 64-bit values into bytes"  *)
(* (bit_packing.hpp): what is unpacked from a packed block is the block,   *)
(* and nothing of what the memory held before.                             *)
BlockRoundTrip ==
  phase = "done" => \A k \in DOMAIN values : values[k] = Expected(k)

(* But for those widths, the functions agree: every value comes back.      *)
OthersRoundTrip == bits \notin Inexact => BlockRoundTrip

(* The statements of each of the 126 functions stay in the block, which is *)
(* "bits" bytes long, leave no byte of it unwritten, and add up to the     *)
(* closed form: the fields side by side, most significant bit first, as    *)
(* pack_bits and unpack_bits lay them out one by one; for the four widths, *)
(* what is left of that.                                                   *)
StatementsAddUp ==
  /\ ptr < bits
  /\ phase # "pack" => \A q \in DOMAIN mem : mem[q] = PackedFrom(bits, q)
  /\ phase = "done" =>
       \A k \in DOMAIN values :
         values[k] = UNION {mem[q] : q \in UnpackedFrom(bits, k[1], k[2])}

=============================================================================
