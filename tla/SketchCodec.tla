---------------------------- MODULE SketchCodec ----------------------------
(***************************************************************************)
(* A sketch goes through bytes again and again: it is written in some      *)
(* format, the blob may lose its end on the way, and it is read by either  *)
(* reader, which holds its own seed.  The bytes of earlier versions come   *)
(* from other libraries.  A reader that refuses ends the process.          *)
(***************************************************************************)
EXTENDS SketchFormat

CONSTANTS Sketches,    \* compact sketches
          SeedHashes,  \* hashes of the seeds in use
          Junk,        \* what is read but was never written, by width
          CutReach,    \* bound: a blob is cut within this many bytes of an end
          Uncut        \* bound: sketches whose blobs keep their end

ASSUME CodecAssumption ==
  /\ \A s \in Sketches : IsSketch(s, MaxTheta)
  /\ SeedHashes # {} /\ SeedHashes \subseteq Nat /\ Junk # {}
  /\ \A junk \in Junk : junk \in [{1, 2, 4, 8} -> Nat]
  /\ CutReach \in Nat

VARIABLES sketch,    \* the sketch in memory
          seedHash,  \* its seed hash
          phase,     \* "sketch", "blob", "wrapped" (WrappedSketch) or "exited"
          blob,      \* [bytes, version], while it is on its way
          whole,     \* history: the blob has not lost its end
          original,  \* history: the sketch this all began with, or the one that
                     \* was made of a blob without its end
          reading    \* history: how the last blob was read

vars == <<sketch, seedHash, phase, blob, whole, original, reading>>

NoBlob == [bytes |-> <<>>, version |-> 0]
NoReading == [by |-> "none"]

Init ==
  /\ sketch \in Sketches /\ original = sketch
  /\ seedHash \in SeedHashes
  /\ phase = "sketch" /\ blob = NoBlob /\ whole = TRUE
  /\ reading = NoReading

Send(bytes, version) ==
  /\ phase = "sketch"
  /\ blob' = [bytes |-> bytes, version |-> version]
  /\ phase' = "blob" /\ whole' = TRUE /\ reading' = NoReading
  /\ UNCHANGED <<sketch, seedHash, original>>

(* serialize(), serialize2() *)
Serialize == \E unused \in Junk : Send(Uncompressed(sketch, seedHash, unused), 3)

(* serialize_compressed() *)
SerializeCompressed ==
  Send(Compressed(sketch, seedHash), IF IsSuitableForCompression(sketch) THEN 4 ELSE 3)

(* Another library wrote the same sketch, if its format can tell it. *)
ArriveInOldVersion ==
  /\ sketch.isOrdered /\ (sketch.entries = <<>> /\ sketch.theta = MaxTheta => sketch.isEmpty)
  /\ \E version \in {1, 2} : \E pre \in OldPreambles(sketch, version) :
       Send(OldVersion(sketch, pre, version, seedHash), version)

(* The end of a blob is lost. *)
CutShort ==
  /\ phase = "blob" /\ whole /\ sketch \notin Uncut
  /\ \E n \in 0 .. Len(blob.bytes) - 1 :
       /\ n <= CutReach \/ n >= Len(blob.bytes) - CutReach
       /\ blob' = [blob EXCEPT !.bytes = SubSeq(@, 1, n)]
  /\ whole' = FALSE
  /\ UNCHANGED <<sketch, seedHash, phase, original, reading>>

(* A reader is done with the blob. *)
Take(by, seed, result) ==
  /\ reading' = [by |-> by, seed |-> seed, written |-> seedHash, whole |-> whole,
                 version |-> blob.version, length |-> Len(blob.bytes), result |-> result]
  /\ phase' = IF result.ok THEN "sketch" ELSE "exited"
  /\ sketch' = IF result.ok THEN result.sketch ELSE sketch
  /\ seedHash' = IF result.ok THEN result.seedHash ELSE seedHash
  /\ blob' = NoBlob /\ whole' = TRUE
  /\ original' = IF result.ok /\ ~whole THEN result.sketch ELSE original

(* deserialize() of a byte array *)
Deserialize ==
  /\ phase = "blob"
  /\ \E seed \in SeedHashes, junk \in Junk :
       Take("bytes", seed, ReadBytes(blob.bytes, seed, junk))

(* deserialize() of a stream *)
DeserializeStream ==
  /\ phase = "blob"
  /\ \E seed \in SeedHashes, junk \in Junk :
       Take("stream", seed, ReadStream(blob.bytes, seed, junk))

Next ==
  \/ Serialize
  \/ SerializeCompressed
  \/ ArriveInOldVersion
  \/ CutShort
  \/ Deserialize
  \/ DeserializeStream

Spec == Init /\ [][Next]_vars

-----------------------------------------------------------------------------
(* Whatever formats and readers a sketch has gone through, it is the one   *)
(* it was: entries in the same order, theta, empty and ordered; and its    *)
(* seed hash is the writer's, except that version 1 has none and takes the *)
(* reader's (deserialize, parse).  What was made of a blob without its end *)
(* (AcceptedExactly) is a sketch from then on, of which the same holds.    *)
SketchSurvives ==
  /\ phase = "sketch" => sketch = original
  /\ phase = "sketch" /\ reading # NoReading /\ reading.whole /\ reading.version # 1 =>
       seedHash = reading.written

(* The reader r looked at a field of the header before it knew that the    *)
(* bytes, or the stream, reach so far: the count of entries, and in the    *)
(* parser's versions 1 and 2 theta.                                        *)
HeaderLost(r) ==
  \/ r.version = 1 /\ r.by # "stream" /\ r.length < 24
  \/ r.version = 2 /\ r.by # "stream" /\ r.length < 24
  \/ r.version = 2 /\ r.by = "stream" /\ r.length < 16
  \/ r.version = 3 /\ r.by = "wrap" /\ r.length < 12

(* Of the blobs that kept their end, a reader accepts exactly those that   *)
(* were written under its seed, but for the formats that cannot tell:      *)
(* version 1, and an empty sketch of version 3, any seed may read.  A lost *)
(* end is noticed although the stream is asked once, and although fields   *)
(* are read before the size is known to reach them, unless it took a part  *)
(* of the header: then a blob of version 1 or 2 may pass for an empty      *)
(* sketch, and wrap() may find a count whose size wraps around, but no     *)
(* reader makes entries of what is not there (parse, deserialize_v2).      *)
AcceptedExactly ==
  phase # "blob" /\ reading # NoReading =>
    /\ reading.whole =>
         (reading.result.ok <=>
            \/ reading.seed = reading.written
            \/ reading.version = 1
            \/ reading.version = 3 /\ original.isEmpty)
    /\ ~reading.whole /\ reading.result.ok =>
         /\ HeaderLost(reading)
         /\ IF reading.by = "wrap" THEN reading.result.isEmpty \/ TooMany(reading.result.n)
            ELSE reading.result.sketch = MakeSketch(TRUE, TRUE, MaxTheta, <<>>)

(* Sketches written one after the other into a stream can be read back one *)
(* after the other: the reader takes a sketch's bytes and no more, in all  *)
(* versions and all forms of a preamble (deserialize_v1 to deserialize_v4),*)
(* and the parser asks for no less than that many (expected_size_bytes).   *)
StreamInStep ==
  phase \in {"sketch", "wrapped"} /\ reading # NoReading /\ reading.whole =>
    reading.result.taken = reading.length

(* "This method serializes the sketch into a given stream in a compressed  *)
(* binary form": the stream holds the bytes the other serialize_compressed *)
(* hands out, and the readers of the same version ask for.                 *)
StreamComplete ==
  phase = "sketch" /\ IsSuitableForCompression(sketch) =>
    StreamBytes(sketch.entries) = VectorBytes(sketch.entries)

=============================================================================
