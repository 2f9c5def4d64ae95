# Theta sketches in SingleStoreDB: a verification project

The extension adds theta sketches to a database: a value is hashed, the hash is
kept if it is below a threshold *theta*, and the number of kept hashes divided by
theta estimates the number of distinct values. Rows are fed into sketches by
user-defined aggregates, and sketches are combined by union, intersection and
difference. Everything runs in a single-threaded Wasm instance; what is hard is
not concurrency but that

- theta moves *while* hashes are inserted, so that what was right to keep a moment
  ago must go, and nothing else may;
- the engine splits the rows of a group over partial states as it likes, ships
  them as bytes and merges them in any order, and the answer must not show it;
- the state of an aggregate is a raw pointer whose type is a tag;
- the compressed format is packed by 126 hand-unrolled functions, one per width
  and direction.

The modules are written from the sources under `src/`; `PROJECT.json` maps every
definition to its lines.

## The system's parts

| part | state | operations | interacts with | correct when |
|---|---|---|---|---|
| `theta_update_sketch_base` (table) | slots, `num_entries_`, `theta_`, `is_empty_`, `lg_cur_size_`, `lg_nom_size_`, `rf_` | `find`, `insert`, `resize`, `rebuild`, `trim`, `reset`, `screen` | is a member of update sketch, union, intersection; a local of the difference | every key is found where it is, a slot is always free, keys are below theta |
| `update_theta_sketch` | a table | `update`, `update_by_hash`, `trim`, `reset`, `compact` | the build aggregates own one per group | it is an exact threshold sample of what was offered |
| `compact_theta_sketch`, `wrapped_compact_theta_sketch` | immutable entries, `theta_`, `is_empty_`, `is_ordered_` | constructors, iteration, `serialize*`, `deserialize`, `wrap` | argument and result of every set operation; the form shipped | an ordered one ascends; empty means theta = MAX and no entries |
| `theta_union` | a table and `union_theta_` | `update`, `get_result`, `reset` | union aggregate, all merges but the intersection's | result depends on the set of hashes and the least theta only |
| `theta_intersection` | a table and `is_valid_` | `update`, `get_result` | intersection aggregate and merge | common hashes below the least theta; "empty" only when certain |
| `theta_a_not_b` | none | `compute` | scalar function | the hashes of a not in b below the least theta |
| aggregate callbacks (`extension_impl_handle.cpp`) | the heap objects behind the engine's handles, with a type tag | `handle_init`, `*_accum*`, `*_merge`, `handle_serialize`, `handle_deserialize` | called by the engine as `create_loader.sh` declares them | each state is owned once; the value depends on the rows only |
| bit packing | none | `pack_bits`, `unpack_bits`, 126 block functions behind two dispatchers | serial version 4 | a block comes back as it was, whatever the memory held |
| serial version 4 | the wrapped iterator keeps a cursor, a bit offset and a block | `serialize_version_4`, `deserialize`, `operator++` | `union`/`intersection` read wrapped bytes | what is written is read back, by both readers |
| serial formats and parser | a byte array, or a stream's cursor | `serialize`, `serialize2`, `serialize_compressed`, `parse`, `deserialize` of bytes and of streams | aggregates and scalar functions ship sketches as bytes | a sketch survives its bytes; what is cut short is refused as far as its header is there, and so is another seed; a stream stays in step |
| scalar functions (`extension_impl_handle.cpp`) | none; their arguments and results are stored by the queries | `sketch_union`, `sketch_intersection`, `sketch_a_not_b` and `emptyisnull` forms | call the set operations on bytes | a nested expression has the value it denotes; no abort but for want of an argument |
| Wasm interface (`extension.cpp`, `extension_impl_handle.cpp`) | the linear memory: blocks, a return area per function, the handles the engine holds | every exported function and its post-return | the engine lowers lists, calls, lifts the result and frees it | nothing is leaked, freed twice, used after it was freed or cast to the wrong class; a call on sketches never ends the process |
| binomial bounds (`binomial_bounds.hpp`) | none | `get_lower_bound`, `get_upper_bound` | `to_string` | every number of samples and theta finds a branch whose arithmetic stays in its domain |
| Jaccard similarity | none | `jaccard`, `exactly_equal` | unions and intersections of its own, ratios of counts | equal exactly for equal sketches; the ratio of the common hashes |

## Modules

| module | models | notes |
|---|---|---|
| `ThetaSample` | the abstract specification: what any theta sketch promises | `Absorb`, `Forget` |
| `ThetaTable` | the table seen through its *set of keys* | operators only; sizes are 2^lg, the resize factor 2^rf |
| `UpdateSketch` | the update sketch on `ThetaTable` | refines `ThetaSample` (`ImplementsSample`) |
| `ThetaHelpers` | `log2`, `lg_size_from_count`, `starting_sub_multiple`, `nth_element`, sorting, and the keys a loop picks | the powers of two are a recursive *function*, so that proofs can use it |
| `HashSlots` | the table *slot by slot*: probing, rehashing, `nth_element` | operations return the set of tables the build may produce |
| `TableSketch` | the update sketch on `HashSlots` | refines `UpdateSketch` (`ImplementsUpdateSketch`) |
| `CompactSketch` | immutable sketches as records, and how a loop with an early stop scans one | |
| `SetTables` | what union and intersection do to their tables: filter and cut a result, fill a table, match entries | operators on a table, shared by the state machines and the whole calls |
| `ThetaUnion` | `theta_union_base`, its loop one entry per step | |
| `ThetaIntersection` | `theta_intersection_base`, one action per way out of `update` | |
| `SetDifference` | the parts of `theta_set_difference_base::compute`: the table of b, the merge, the lookup, the result | operators on two operands, on slot-level tables |
| `ThetaANotB` | `compute` as a state machine | subtracts sketch after sketch |
| `SetOperations` | updates and results of unions and intersections as whole calls on objects | functions of the object and its argument |
| `SketchAggregate` | the handle callbacks, the heap and the engine | composes everything above |
| `ScalarFunctions` | the scalar functions on stored results, in both variants, and the difference as one call | expressions of any shape |
| `BitPacking` | `pack_bits`, `unpack_bits`, and the closed form of the block functions | the four functions that differ from the rest included |
| `BlockPacking` | the 126 block functions, one statement per step; an action for the functions whose values fill the same number of bytes | bits followed as sets, so that one behaviour stands for every block of a width |
| `DeltaCoding` | the packed deltas of serial version 4: two writers, one reader | |
| `SketchFormat` | header fields of versions 1 to 4: three writers, the parser, the readers of bytes and streams | a byte is a field's value and its place in the field |
| `SketchCodec` | a sketch written, cut short and read, again and again | garbage wherever nothing was written |
| `WrappedSketch` | the sketch wrapped around the bytes of any version, and its lazy iterator | composes `SketchCodec` with the iterator; the loop over it may stop at any entry |
| `BinomialBounds` | which branch the confidence bounds take and where they exit | decimals rounded down to `Units`; the loops over binomial tails are followed |
| `WasmMemory` | the memory of the instance: blocks with an owner and a class | a fault is a free, cast or read that should not have been |
| `WasmInterface` | every exported function over that memory, and the engine between the calls | the emptyisnull forms and post-returns included |
| `JaccardSimilarity` | `jaccard`, `exactly_equal`, the ratios and when their bounds are certain | looked at on the sketches queries pass around |
| `MC*` | inputs for TLC | |
| `ThetaLemmas` | lemmas: what each operation does to a well-formed table, over keys and over slots; powers of two, ranks, sorted and picked keys, table sizes | no theorem of a specification |
| `UpdateSketchProofs`, `TableSketchProofs`, `ThetaUnionProofs`, `ThetaIntersectionProofs`, `ThetaANotBProofs`, `WasmInterfaceProofs` | the theorems about each specification | |
| `ExtensionProofs` | the theorems about `SketchAggregate` and `ScalarFunctions` | whole calls first, then the aggregates, then the scalar functions |

How state and actions correspond to the code: a record `table` has the fields of
the class (`cur` is `2^lg_cur_size_`, `num` is `num_entries_`, `entries` the keys
in use or the array); each action is one public call with everything it calls,
except in `ThetaUnion`, where the body of the loop is a step because `insert`
changes what the loop tests. Variables that the code does not have are history
variables (`offered`, `seen`, `minTheta`, `common`, `given`, `rows`, `called`, ...): they
are written, never read, by the actions. (`faulted` of `WasmInterface` says whether
the last call used memory that is not what the call took it for.) An error that ends the process (the
`THROW_*` macros exit) is a flag `exited`, after which nothing happens.

`BlockPacking` generates the statements of a function from its width. Each of the
4,736 statements in `bit_packing.hpp` (operator, index, shift, mask, cast, advance
of the pointer) was compared with what the module generates; they differ in the
four places named there, which the module has as the code has them, in the action
of the functions they belong to. (The last statement of three functions also
advances a pointer nobody uses again.)

Two layers share the table. `TableSketch` shows that probing, rehashing and the
unspecified order `nth_element` leaves do to the set of keys exactly what
`ThetaTable` says, so everything else may be written, and proved, over sets.

## What the runs check

| run | question | bounds |
|---|---|---|
| `update_sketch` | is the sketch an exact, accurate, canonical sample? | 12 hashes with 0 and MAX_THETA, nominal size 4, table 2 to 8 slots: it grows twice and is thinned again and again |
| `table_sketch` | do the slots do it? does `find()` ever run out of slots? | `MIN_LG_K` scaled to 1, 10 hashes with colliding paths and different strides, 2 to 8 slots |
| `theta_union` | is the result a function of the *set* of inputs? is it empty exactly when all were? | samples of 5 hashes at three thetas, up to 3 entries each, ordered and not; nominal 2: the table thins inside a loop |
| `theta_intersection` | exact through all early returns? exits unreachable? | samples of 6 hashes at five thetas, and rows of 31 and 32 hashes, the edge of `lg_size_from_count` |
| `a_not_b` | do copy, merge and lookup agree? does the table keep a free slot? | 4 hashes that share slots, and 15 that all start at one slot of 16 |
| `sketch_aggregate` | is the value a function of the set of rows? | build, union and intersection; 3 partial states; 5 rows of 6 hashes, or 3 rows that are sketches, or NULL; nominal 2 |
| `scalar_functions` | has every nested expression the value it denotes? which calls abort? is the similarity of the arguments exact? | results of all orders of up to 3 hashes at nominal size 1, and NULL; up to three calls; besides, all pairs of sketches of up to 6 hashes at three thetas, the union capped at 4 (`MaxLgK`) |
| `wrapped_sketch` | does a sketch survive its bytes, read whole or in place? which blobs that lost their end are accepted? does an iterator stay within the bytes? | 18 sketches of 0 to 257 entries, exact, sampled, unordered, whose blobs, of all four versions, are cut within 26 bytes of an end, so in every field of a header; five kinds of junk beyond it, with counts of zero, small, and so large that the size wraps around in 32 bits; 220 packed ones of 1 to 25 entries (three blocks and a rest) and 11 widths up to 19 bits; two seeds |
| `wasm_interface` | is anything leaked, freed twice, used after it was freed or cast to the wrong class? can a call on sketches end the process? | every function, any order; 2 groups of an aggregate at a time; lists that are empty, too short, sketches at the thresholds of the bounds, of 0 to 3, 60, 119 to 121 and 4096 samples, among them |
| `block_functions` | do the functions of all widths keep to the block and to their closed form? | widths 1 to 63, all of them |
| `compressed_stream`, `block_packing` | the code against what it says of itself | see *Findings* |

Why the bounds are enough. Everything the table does depends on the order of the
hashes and on `num` against the capacity and the nominal size, so that small
nominal sizes reach every branch: growth to an intermediate and to the final size,
the rebuild at 15/16, a trim that does nothing and one that thins, and a second
rebuild after theta fell. A union needs three thetas for its own theta to be
below, at and above the table's. Partial states matter up to two on each side of a
merge, with one that saw no row. Packing repeats after eight values and eight
bits. The memory of the instance is empty again after every call and its
post-return but for the handles the engine holds, so that two groups show all a
merge can do. The similarity's union has a nominal size of at least 32 in the
code and of at least 1 in the run (`MinLgK`), so that six hashes are enough to
make it thin if it were too small, and of at most 2^26 in the code and 2^2 in the
run (`MaxLgK`), so that five are enough to pass the cap. The runs' sizes are not a proof; where a theorem is listed below, the
nominal size, resize factor and hashes are arbitrary.

Fairness. No specification states any, and no property is a liveness property.
Sketches are passive, the engine may stop calling at any time, and everything runs
in one thread: each loop of the code goes over a fixed range, and the one loop that
might not end, the search for a free slot, is the safety property `FindAlwaysEnds`.

Deadlock is checked where the system is always ready (`update_sketch`,
`table_sketch`, `theta_union`). Elsewhere the runs really end: an aggregate
terminates, an iterator reaches its end, an exit ends the process.

## What is proved

`UpdateSketchProofs` proves, for every set of hashes, every nominal size, resize
factor and starting size the builder can produce (`BuilderAssumption`):

- `TypeCorrect`, `SampleIsExact`, `CountCorrect`, `ThetaAccurate`,
  `TrimCanonical`: the invariants of the run `update_sketch`;
- `ThetaMonotone`: the action property `ThetaOnlyFalls`;
- `Refinement`: `UpdateSketch` implements `ThetaSample`.

The argument. None of the invariants is inductive: what `insert` may do depends on
the room left. `IInv` adds that the table is well formed between operations
(`TableOK`: the counter is the cardinality, it is within the capacity, no key is
0 or reaches theta), that theta is at most its start value and that the sketch is
empty exactly while nothing was offered. `ThetaLemmas` states once what each
operator does to a well-formed table: `Offer` and `Trim` *absorb* (`Absorbs`: theta
only falls, the keys are those below it of the old keys and the new hash, and if
theta fell the nominal number of keys is left), and the pivot of `Rebuild` exists
and has the rank `nth_element` promises (`NthElementExists`, by induction over
finite sets). One lemma, `AbsorbIInv`, then covers every action but the reset.

`ThetaUnionProofs` proves, for every nominal size, resize factor and set of
well-formed inputs of any length (`UnionAssumption`):

- `TypeCorrect`, `ResultCanonical`, `EmptyCorrect`: the invariants of the run
  `theta_union`, the last for inputs without entries too (`fed` is the history
  of whether any input was not empty);
- `ThetasMonotone`: the action property `ThetasOnlyFall`.

The argument. `ResultIsCanonical` speaks of the moments between two updates, but
the table may be rebuilt in the middle of one. `IInv` therefore counts the entries
the loop has passed among the hashes seen (`Offered`: `seen` and the prefix of
`arg` before `i`) and says that the table holds every one of them below the lesser
of `minTheta` and the table's theta (`Lesser`), that `unionTheta`, which lags
behind until the loop ends, gives the same lesser theta, and that a table theta
that was lowered is an offered hash with the nominal number of others below it.
`TakeIInv` rests on `InsertPreserves`; `EarlyStop` shows that leaving an ordered
sketch early drops nothing below `Lesser`; `ResultCanonical` then follows by
cases on which of the two thetas is the lesser and whether the keys fit.

`TableSketchProofs` proves, for every `MIN_LG_K`, nominal size, resize factor,
starting theta and set of hashes (`TableAssumption`):

- `TypeCorrect`, `FindEndsAlways`, `KeysFindable`: the invariants of the run
  `table_sketch`;
- `Refinement`: `TableSketch` implements `UpdateSketch`, and with the theorem
  of the same name about that one, `ThetaSample`.

The argument has three layers. *Probing*: `ProbeMeetsAll` of `ThetaLemmas`
says that a path with an odd stride visits each of the 2^lg slots (an odd factor
cannot make a multiple of a power of two, `OddDivides`; an injection of the slots
into themselves reaches all), so `find` ends while a slot is free, and a free slot
is what the capacity leaves. *Placing*: `Sound` says that every stored key is
reached on its own path before an empty slot; putting a new key where `find`
stopped keeps that for all others, since no path ran through that slot. A rehash
repeats this, whatever the order of the keys. *Operations*: `Good` says what a table
is between two calls, and each operator of `HashSlots` is shown to keep it and to
do to the keys (`KeyView`) exactly what the operator of `ThetaTable` does
(`ResizeGood`, `RebuildGood`, `InsertGood`, `OfferGood`, `TrimGood`, `ResetGood`).
`IInv` is `Good` of the table together with `TableOK` of its keys, the bounds of
theta and that only offered hashes are stored; it is needed because a slot table
alone says nothing of the load that leaves a slot free. `PowersAreSizes` and
`BuiltAsAssumed` prove that the powers of two satisfy `SizesOK` and the whole of
`BuilderAssumption`, which the theorems of `UpdateSketchProofs` assume.

`ThetaIntersectionProofs` proves, for every set of well-formed inputs
(`IntersectionAssumption`):

- `TypeCorrect`, `Exact`, `OnlyUnusedExits`: the invariants of the run
  `theta_intersection`;
- `EmptyIsJustified`: the action property `EmptyOnlyWhenKnown`.

The argument. The result speaks of `common`, the hashes all inputs hold, and of the
least theta; `IInv` says that the table holds exactly those of them below it, that
an empty table has theta MAX and no keys, and that an unused object is as built.
The load of the tables (`LgSizeHolds`, `InsertFits`) is what keeps the fill loop from
growing or thinning its own table: `lg_size_from_count` of n is a power of two of
which n is at most 15/16, so `insert` never passes the capacity and no count
mismatches. An early stop passes only over keys that are not below theta.

`ThetaANotBProofs` proves, for every set of well-formed minuends and subtrahends
(`OperandAssumption`), subtracted one after another in any order:

- `TypeCorrect`, `Exact`, `TableKeepsRoom`: the invariants of the run `a_not_b`.

The argument. `compute` goes one of three ways, by the order of the operands; the
lemma `RemainingIs` shows that the copy, the merge and the lookup all keep the same
sequence (`LeftOver`), the keys of a below theta that b has not, in the order of a.
The lookup rests on `TableOfIs`: `lg_size_from_count` leaves more slots than b has
keys, every insertion keeps the table good and at its size although past half of
its slots it is rehashed each time (`InsertFoundIs`), and in a good table with a
free slot `find` finds exactly the keys stored (`FoundIs`). `IInv` adds to the
properties that no hash of a reaches the maximal theta: a result that retains nothing and
lost nothing to sampling is then empty because every hash was subtracted.

`WasmInterfaceProofs` proves, for any number of groups (`InterfaceAssumption`):

- `TypeCorrect`, `Balanced`, `AbortsJustified`: the invariants of the run
  `wasm_interface`. The last has the hypothesis that the confidence bounds never
  exit (`TRUE \notin StatisticsOutcomes`); `MCWasmInterface` derives the outcomes
  from `BinomialBounds`, and TLC evaluates them for the sketches of the run.

The argument. Each exported function is a composition of allocations, frees,
constructors and casts. `Turns(m, n, out, in)` says of a piece of it that the
memory n it leaves has no leak and no fault: the blocks `out` are gone, the
blocks `in` are new, everything else is as it was. One lemma per primitive
(`TurnsNew`, `TurnsDelete`, `TurnsFreeList`, ...) and one per function compose to what the
call takes and gives; `IInv` adds to `MemoryBalanced` that every handle points to an
object whose class and tag are those the stage of its group requires, without
which the casts of the next call could not be shown to be right, and that a
state survives until its group is terminated. `StepKeeps` lifts a call that touches
the groups in a set S to the invariant of all.

`ExtensionProofs` proves, for every nominal size, resize factor and starting size,
every number of partial states, every finite set of well-formed rows
(`OperationsAssumption`, `AggregateAssumption`), and every set of hashes
(`ScalarAssumption`):

- `AggregateTyped`, `AggregateCanonical`, `AggregateSamples`,
  `AggregateIntersects`: the invariants of the run `sketch_aggregate`, all from
  the inductive invariant of `AggregateInvariance`;
- `ExpressionsAreSamples`, `OnlyNullAborts`: the first two invariants of the run
  `scalar_functions`.

The argument has three parts. *Whole calls*: a predicate for each class says what
an object stands for (`Represents` a sketch, `Builds` an update sketch's table,
`Unites` a union, `Intersects` an intersection and `Shares` its result, each with
the set of hashes and the least theta), and one lemma per call says what becomes of
it (`UpdateUnites`, `ResultUnites`, `OfferBuilds`, `UpdateIntersects`,
`ResultIntersects`). The loop inside an update is followed by `Loops`. What makes
unions of unions right is `Lowered`: a theta below that of the inputs is itself one
of the hashes, with the nominal number of others below it, so that no result was
ever thinned further than the final one would be; `CutIsCanonical` concludes that a
result of at most the nominal size is the one and only one. *Aggregates*: `IInv`
says that the heap holds exactly the objects the handles name, one owner each
(`Owned`; that `operator new` finds a free address is a pigeonhole argument,
`AddressFree`), that object or blob of a state stands for its rows (`StateOK`, with
the tag `ITERATE` casts by), that at most one state is left at the end, and that once
two states of a build were merged some state holds a sketch already cut to the
nominal size (`Cut`), which no `SERIALIZE` or further merge undoes. `ValueIsSample`
and `MergedIsCanonical` speak of final values only and are not inductive without
it. `JoinedOK` and `AloneOK` are the merge of two states with rows, and of one with
rows and one without. *Scalar functions*: `Samples` says that a blob is an ordered
sample of a set of hashes and *empty* only of none; each function keeps that
(`UnionReturns`, `IntersectionReturns`, and `DifferenceReturns` from `RemainingIs`),
and only a missing argument makes one end the process (`ValidOnceGiven`).

Assumptions: only the named ones about constants, which TLC evaluates in the
runs. `SizesOK` collects what the key-level proofs rely on of powers of two;
`TableSketchProofs` discharges it for the powers themselves. What an invariant of
a loop says of a recursive function (a rehash, the fill loop of an intersection or
of a difference, a power) is proved for each input by a least counterexample: the first step at
which it fails has a step before it at which it held.

Model-checked only:

- `BlockPacking`, `SketchCodec`, `WrappedSketch`: they compute bit by bit with
  `BitPacking`, whose operators are outside what the provers accept;
- `SimilarityExact` of `JaccardSimilarity`, a statement about whole calls on pairs
  of sketches. Up to the cap of the union at 2^MAX_LG_K entries it says that the
  answers are exact. Past the cap the union thins what it is to count and the
  numbers are unpredictable, as the note at `theta_jaccard_similarity_base.hpp:45`
  says of pairs of that size; what is left is that different sketches are never
  found equal, and that only two exact sketches with no hash in common end the
  process: the intersection returns early and keeps the maximal theta, and the ratio
  refuses a part with a higher theta than its whole.

Liveness under fairness and ENABLED are beyond the provers.

## Findings

- `pack_bits_13` shifts the fourth value the wrong way, `unpack_bits_35` masks a
  bit of the third value away, and `unpack_bits_33` extends the sign of a byte of
  the last value over the bits above it; `pack_bits_19` ORs a byte it should
  assign (run `block_packing`, whose `Widths` hold the four; TLC refutes each
  alone, and run `block_functions` shows the other 59 exact). The first three
  differ for some blocks always; the fourth only when the memory is not zeroed,
  as in the stream writer from the second block on. The extension writes
  uncompressed sketches but reads version 4 ones, so the two unpacking errors are
  reachable with sketches from elsewhere.
- The stream writer of version 4 drops the last, partly filled byte
  (run `compressed_stream`).

The comment in `resize()` that a rehash goes into "a larger table" is not true of
the set difference, whose table is rehashed at its own size once it is past its
threshold; `TableHolds` of run `a_not_b` shows that a slot is free all the same.

More remarks, none a disagreement with the repository's own words a run could
refute. A blob that lost a part of its header is not always refused
(`AcceptedExactly` says when): the parser of versions 1 and 2 and the stream reader
of version 2 look at the count, and the parser at theta, before anything tells them
that the bytes reach so far, and take what they find for an empty sketch if it is a
zero (and the maximal theta); and `wrap()` of any version but 4 adds the header to
the count in 32 bits on wasm32 and accepts a sum that wraps around, over whose
words the iterator would then go. `deserialize` of bytes does not survive such a
count, since it makes a vector of it first. `get_estimate` of NULL, in the emptyisnull form, passes
the null pointer on to be freed; `MemoryBalanced` says that it is the only call that
uses memory for what it is not. `README.md:46` says
that the scalar functions take the blobs of the aggregates, but an aggregate that
saw no row yields the empty string, which the plain functions refuse by ending the
process and which only the emptyisnull forms take for NULL. And the comment at
`binomial_bounds.hpp:427`, "at this point we know 2 <= num_samples", is not true
of the upper bound of one sample; the branch it guards has a value for it all the
same.

## Not modelled, and why

- Hash values are arbitrary (MurmurHash3 is a function into `Hash`).
- The numbers behind estimates and bounds: `BinomialBounds` follows which branch
  is taken, with powers rounded down to a few digits, and `JaccardSimilarity`
  knows a bound only where the code returns 0, 1 or the ratio itself; the normal
  and beta approximations (`bounds_binomial_proportions.hpp`, the tables of
  `binomial_bounds.hpp`) are floating-point analysis. `similarity_test` and
  `dissimilarity_test` compare such a number with a threshold.
- Seed-hash mismatches inside the set operations: an exit; all sketches of the
  extension have the default seed. The readers' seed check is in `SketchFormat`.
- Bytes that no writer produces: blobs of all versions are whole or have lost their
  end, and what is read beyond it is junk; a blob that was changed in the middle is
  left out. A count of version 4 is checked to be there before it is used, so that
  the 32-bit product with the width, which the code forms too, cannot wrap for a
  blob of these formats. The prefix of `header_size_bytes` a caller may ask for is
  left out, and so is the compressed stream, which is incomplete (see *Findings*).
- What `get_estimate`, `to_string` and `hash` return: their calls, exits and
  memory are in `WasmInterface`, the digits and the text are not.
- The builder's sampling probability `p`: the extension's builders leave it at 1,
  so that a table starts at the maximal theta in `ThetaUnion`.
- An engine that iterates into a state it merged or deserialized: `ITERATE` casts
  the handle to the class of its own making and checks no tag; `WasmInterface`
  takes it as the engine's protocol that this does not happen.
- The plain (not `emptyisnull`) union and intersection aggregates given the empty
  string: `wrap()` exits on fewer than eight bytes, excluded by an assumption.
- Allocation failure (`canonical_abi_realloc` aborts), native drivers, headers
  nothing uses.
- `theta_intersection` is not derived from `theta_data` although its tag is
  written as if it were: an object-layout question, listed as a hazard.

## Plan

Done, in this order: the update sketch and its proofs, its slots, union,
intersection, difference, the aggregates, the compressed format, the packing
functions statement by statement, the serial formats, the scalar functions, the
Wasm interface over its memory, the control of the binomial bounds, wrapped
sketches of every version, the Jaccard similarity, the proofs about the union, the
slots, the intersection, the difference and the memory of the Wasm interface, the
aggregates for any number of states and rows, and the scalar functions for any
expression.

Left: a proof about the packed formats needs bits as functions instead of bitwise
operators on numbers, and the four functions the run `block_packing` refutes
corrected first.
