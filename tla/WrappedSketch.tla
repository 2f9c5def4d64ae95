--------------------------- MODULE WrappedSketch ---------------------------
(***************************************************************************)
(* wrapped_compact_theta_sketch: a sketch read in place, out of the bytes  *)
(* SketchCodec sends.  The parser reads the header; the iterator fetches   *)
(* an entry when ++ needs it: a word of versions 1 to 3, a packed delta of *)
(* version 4, in blocks of eight while they last.  The range-for over the  *)
(* sketch may stop early, and the bytes can be wrapped or read again.      *)
(***************************************************************************)
EXTENDS SketchCodec

VARIABLES data,   \* data_: the parsed header
          it      \* the iterator; pos counts from 1 at data.start

wrappedVars == <<sketch, seedHash, phase, blob, whole, original, reading, data, it>>

NoData == [ok |-> FALSE]
NoIterator == [index |-> 0]

Packed == BytesFrom(blob.bytes, data.start)

-----------------------------------------------------------------------------
(* The iterator i after unpacking a block at its cursor. *)
ReadBlock(i, mem, bits) ==
  LET block == UndoDeltas(UnpackBlock8(bits, mem, i.pos), i.previous)
  IN  [i EXCEPT !.buffer = block, !.previous = block[8], !.bufI = 0,
                !.pos = i.pos + bits, !.last = i.pos + bits - 1]

(* The iterator i after unpacking one delta at its cursor. *)
ReadSingle(i, mem, bits) ==
  LET u == UnpackBits(bits, mem, i.pos, i.offset)
  IN  [i EXCEPT !.buffer = <<u.value + i.previous>>, !.previous = u.value + i.previous,
                !.bufI = 0, !.pos = u.pos, !.offset = u.offset, !.last = u.last]

(* begin() over the header d and the bytes mem; a word that is not packed  *)
(* is looked at where it is, and needs to be there only when asked for.    *)
Begin(d, mem) ==
  LET start == [index |-> 0, blockMode |-> d.n >= 8, buffer |-> <<>>, bufI |-> 0,
                previous |-> 0, pos |-> 1, offset |-> 0, last |-> 0]
  IN  IF d.bits = 64 \/ d.n = 0 THEN start
      ELSE IF start.blockMode THEN ReadBlock(start, mem, d.bits)
      ELSE ReadSingle(start, mem, d.bits)

(* How many entries the iterator has left behind. *)
Place == IF data.bits = 64 THEN (it.pos - 1) \div 8 ELSE it.index

AtEnd == Place = data.n

(* operator* *)
Current == IF data.bits = 64 THEN ReadField(blob.bytes, data.start + it.pos - 1, 8, Zeroes)
           ELSE it.buffer[it.bufI + 1]

-----------------------------------------------------------------------------
WrappedInit == Init /\ data = NoData /\ it = NoIterator

(* wrap() and begin() *)
Wrap ==
  /\ phase = "blob"
  /\ \E seed \in SeedHashes, junk \in Junk :
       LET result == Parse(blob.bytes, seed, junk)
       IN  /\ reading' = [by |-> "wrap", seed |-> seed, written |-> seedHash, whole |-> whole,
                          version |-> blob.version, length |-> Len(blob.bytes),
                          result |-> result]
           /\ phase' = IF result.ok THEN "wrapped" ELSE "exited"
           /\ data' = result
           /\ it' = IF result.ok THEN Begin(result, BytesFrom(blob.bytes, result.start))
                    ELSE NoIterator
  /\ UNCHANGED <<sketch, seedHash, blob, whole, original>>

(* The reader is done with the wrapped sketch, perhaps before its end. *)
Unwrap ==
  /\ phase = "wrapped"
  /\ phase' = "blob" /\ reading' = NoReading /\ data' = NoData /\ it' = NoIterator
  /\ UNCHANGED <<sketch, seedHash, blob, whole, original>>

(* operator++ on the next entry, or past the last *)
Advance(i) ==
  /\ phase = "wrapped" /\ ~AtEnd
  /\ it' = i
  /\ UNCHANGED <<sketch, seedHash, phase, blob, whole, original, reading, data>>

(* Where a count without a header to it leads to is not followed: bound.   *)
NextWord ==
  /\ phase = "wrapped" /\ data.bits = 64 /\ ~TooMany(data.n)
  /\ Advance([it EXCEPT !.pos = @ + 8])

Unpacking == phase = "wrapped" /\ data.bits # 64
More == it.index + 1 < data.n
Step == [it EXCEPT !.index = @ + 1]

ReachEnd == Unpacking /\ ~More /\ Advance(Step)

(* Inside a block. *)
NextInBlock ==
  Unpacking /\ More /\ it.blockMode /\ it.bufI < 7 /\ Advance([Step EXCEPT !.bufI = @ + 1])

(* Mutant of NextBlock: one entry more is taken for a whole block. *)
NextBlockTooFew ==
  /\ Unpacking /\ More /\ it.blockMode /\ it.bufI = 7
  /\ Advance(IF Step.index + 7 <= data.n THEN ReadBlock(Step, Packed, data.bits)
             ELSE ReadSingle([Step EXCEPT !.blockMode = FALSE], Packed, data.bits))

(* At the end of a block: the next block while MORE than eight entries are *)
(* left, else one entry at a time from here on.                            *)
NextBlock ==
  /\ Unpacking /\ More /\ it.blockMode /\ it.bufI = 7
  /\ Advance(IF Step.index + 8 < data.n THEN ReadBlock(Step, Packed, data.bits)
             ELSE ReadSingle([Step EXCEPT !.blockMode = FALSE], Packed, data.bits))

(* Mutant of NextSingle: the cursor forgets the bits it has consumed. *)
NextSingleRealigned ==
  Unpacking /\ More /\ ~it.blockMode
  /\ Advance(ReadSingle([Step EXCEPT !.offset = 0], Packed, data.bits))

(* Outside a block. *)
NextSingle ==
  Unpacking /\ More /\ ~it.blockMode /\ Advance(ReadSingle(Step, Packed, data.bits))

WrappedNext ==
  \/ Next /\ UNCHANGED <<data, it>>
  \/ Wrap
  \/ Unwrap
  \/ NextWord
  \/ ReachEnd
  \/ NextInBlock
  \/ NextBlock
  \/ NextSingle

WrappedSpec == WrappedInit /\ [][WrappedNext]_wrappedVars

-----------------------------------------------------------------------------
(* A sketch wrapped around a blob that kept its end is the sketch it was:  *)
(* its header, and at each place the iterator comes to the entry there, in *)
(* all four versions and across the ends of blocks and of bytes and the    *)
(* switch from blocks to single deltas (parse, const_iterator).            *)
IteratorExact ==
  phase = "wrapped" /\ whole =>
    /\ MakeSketch(data.isEmpty, data.isOrdered, data.theta, original.entries) = original
    /\ data.n = Len(original.entries)
    /\ ~AtEnd => Current = original.entries[Place + 1]

(* The iterator reads no byte past the blob, although it unpacks a whole   *)
(* block ahead of the entry asked for, and although it trusts the header,  *)
(* unless the count was lost and the size of what stands there for it      *)
(* wraps around (parse, operator++, operator* ).                           *)
ReadsWithinData ==
  phase = "wrapped" /\ ~TooMany(data.n) =>
    /\ data.start + it.last <= Len(blob.bytes)
    /\ data.bits = 64 /\ ~AtEnd => data.start + it.pos + 7 <= Len(blob.bytes)

=============================================================================
