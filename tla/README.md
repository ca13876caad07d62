# TLA+ models of nimble / alpha

This directory holds TLA+ models of parts of the columnar file format library
under `src/`, TLC configurations that model-check them on small instances,
and TLAPS proofs of their main invariants for every value of the constants.
`PROJECT.json` lists the components, runs, mutants, the map from every
definition to the source lines it models, the findings, the hazards and the
theorems.

## The system and its parts

The library writes and reads a columnar format. A table is split into
stripes. Each stripe holds one stream per physical descriptor of the schema.
A stream is a sequence of chunks, and each chunk is an encoded payload
(trivial, RLE, dictionary and so on).

The code under `src/` covers these parts:

| part | source | what it does | state | operations |
|---|---|---|---|---|
| RLE encoding | `src/alpha/encodings/RleEncoding.h`, `src/dwio/nimble/encodings/RleEncoding.cpp` | encodes a column as runs; decodes it lazily | two cursors over the nested run-length and run-value streams, `copiesRemaining_`, `currentValue_`, and `initialValue_`/`value_` for bool | `encode`, constructor, `reset`, `skip(n)`, `materialize(n)` |
| Buffer growth policy | `src/dwio/nimble/velox/BufferGrowthPolicy.cpp` | decides how far a buffer grows | a min capacity and threshold → factor ranges (immutable); the buffer's capacity | `getExtendedCapacity(newSize, capacity)` |
| Flush policy | `src/dwio/nimble/velox/FlushPolicy.cpp` | decides when the writer closes a stripe | none | `shouldFlush`, `onClose` |
| Flat-map layout planner | `src/dwio/alpha/velox/FlatMapLayoutPlanner.cpp` | orders a stripe's streams for the writer | the configuration (immutable); the schema, resolved at each call | constructor, `getLayout(streams)` |
| Encoding layout tree | `src/dwio/alpha/velox/EncodingLayoutTree.cpp` | a serialisable tree of the chosen encodings | the tree | `create`, `serialize` |
| Encoding layout trainer | `src/dwio/alpha/tools/EncodingLayoutTrainer.cpp` | trains encodings per stream in parallel and builds the tree | per-node layout maps under a mutex, a barrier | `train`, the training tasks, `toEncodingLayoutTree` |
| Dump tool | `src/dwio/nimble/tools/NimbleDumpLib.cpp` | prints file contents | none beyond the tablet | `traverseTablet` and `emit*` |
| Table verifier | `src/dwio/alpha/tools/TableVerifier.cpp` | checks that every file of every partition has the partition's declared format | per partition: a bounded thread pool, two atomic counters | `main` |
| Metrics logger | `src/dwio/nimble/common/DefaultMetricsLogger.cpp` | logging | none | `log*` |

The tests under `src/` cover parts whose code is not under `src/`:
`VectorTests.cpp` covers the typed buffer and `VeloxReaderTests.cpp` covers
the reader's seek, skip, next and range reads.

The parts interact as follows. The writer asks the growth policy for room as
it gathers values, and asks the flush policy whether to close a stripe. At a
flush it encodes each stream (RLE among others), optionally seeded by an
encoding layout tree, and hands the stripe's streams to the layout planner.
The reader decodes the chunks with the same encodings.

## What is modelled

### `RleDecoder`: RLE decoding, numeric and bool

**What the state is.**
- The payload is fixed in `Init` and is ghost state as far as the decoder is concerned:
  - `ends`, the last row of each run;
  - `runLengths`, their differences, as `encode` writes them;
  - `runValues`, adjacent values distinct, as `rle::computeRuns` produces them;
  - `initialValue`, the bool payload's byte.
- The decoder's own state:
  - `lenCursor` and `valCursor`, the positions of the two `BufferedEncoding`s;
  - `boolValue`, which is `value_`;
  - `copiesRemaining` and `currentValue`.
- The call in progress:
  - `pc` and `rowsLeft` model the `while (rowsLeft)` loops one iteration per step;
  - `pos` and `out` are ghosts: the rows consumed, and what `materialize` wrote to each row.

**What the actions are.**
- `Reset` is `reset()`. It rewinds both nested streams, then fetches the first run.
- `Call(kind, n)` is the entry of `skip(n)` or `materialize(n)`.
- `SkipStep` and `MaterializeStep` are one iteration of the two loops. Each has two disjuncts: the early `return`, and taking the next run.
- `FetchRun` is lines 69-70 / 87-88.
- `NextValue` dispatches to the numeric `values_.nextValue()` or to the bool toggle.

**Reading past the end.** A `BufferedEncoding` read past the end of its stream returns whatever is there, and nothing checks it. The model lets such a read yield any run length in `0..MaxRows` and any value.

**Outside the model.** `encode` is abstracted to the payloads it can produce. The byte layout of the nested encodings is left out.

### `RleCursor`: what an encoding promises its reader

- Spec section 4.1 states the contract without runs: the chunk is a column of values (`rows`), and `reset()`, `skip(n)` and `materialize(n)` move a cursor `pos` over it. `materialize` writes the next `n` values of the column to `out`.
- A call is carried out in pieces. `Consume(m)` consumes `m` of the rows the call still owes (`rowsLeft`), and the call returns when it owes none. A caller may ask for up to `Overrun` rows past the end. Each of those slots gets some value of the type, and nothing more is promised.
- `RleDecoder` implements it: `ImplementsCursor == Cursor!Spec`, with `Cursor == INSTANCE RleCursor WITH rows <- [p \in 1..Rows |-> RowAt(p)]`. The column is the rows the runs encode. Each loop iteration of `skip` or `materialize` is one `Consume`. `FetchRun` and `NextValue` are stutters.

### `BufferGrowth`: the buffer growth policy

The buffer starts empty. It asks for `n` rows of room and replaces its capacity with the answer.

**State.**
- `capacity`, the buffer's capacity.
- `factor`, the factor of the running call.
- `extNum` and `extDen`, which hold `extendedCapacity` as the exact fraction `extNum / extDen`. Factors 2.0 and 1.5 are exact in a double, so `floor` is integer division.
- `maxRequested` and `oldCapacity` are ghosts.

**Actions.**
- `Request(n)` is lines 9-31. It has three disjuncts: the short circuit, the `minCapacity_` return, and the loop's start.
- `GrowStep` is one iteration of the multiply loop.
- `Finish` is line 35.

Zero is kept as 0/1, so that a loop stuck at 0.0 repeats a state.

### `FlatMapLayoutPlanner`: the layout planner

**The schema.** A schema is a function from node ids to records. Each record has four fields:
- `kind`;
- `desc`, the node's own stream offsets in the order `appendAllNestedStreams` reads them;
- `kids`;
- `names`.

**Definitions.**
- `Nested` is `appendAllNestedStreams`.
- `OrderedFlatMapOffsets` is the configuration loop. It includes the `ALPHA_CHECK`s (`ConfigValid`) and the lookup of feature ids by their decimal name (`FeatureOrdinals`, with `FeatureName` as `folly::to<std::string>`).
- `AppendStreams` is `tryAppendStream` with its erase.
- `PlanOrder` is the three append passes.
- `GetLayout` is the whole of `getLayout`, with three outcomes:
  - `"badColumn"`, when an `ALPHA_CHECK` throws;
  - `"mismatch"`, when the final `ALPHA_ASSERT` fires;
  - `"ok"` otherwise.

**The writer.** The writer side is spec-modelled:
- `StripeStreams` gives the streams of a stripe: the schema's own, at most `MaxMissing` of them absent.
- `NextStripe` moves the writer to the next stripe.

**Calls.** The planner is built once with a configuration. Each call may see a different schema, because flat maps gain features as keys appear.

These definitions are recursive, so this module is for TLC only.

### `EncodingLayoutTree`: serialize and create

- A tree is a record with these fields:
  - a kind byte;
  - a name, as a byte sequence;
  - its layouts, as `<<identifier, layout>>` pairs in the `unordered_map`'s iteration order;
  - its children.
- An `EncodingLayout` is opaque. It is given by the bytes its own `serialize` writes (`LayoutBytes`).
- `serialize` becomes `SerEvents`. This is the list, in program order, of its bounds checks (`Check`) and writes (`Write`), each with the offset it reaches. The first event past the buffer size decides the result:
  - a check ends in `checkFailed` (the `ALPHA_CHECK` throws);
  - a write ends in `overflow`.
- `create` is `Parse`. It reads the serialized bytes with little-endian widths, recursing over the children. A read past the end is an over-read: the only unchecked one, the children count of line 66, takes its bytes from a nondeterministic tail `g` of `Garbage` bytes (0 or 1 in the MC), sets `overread`, and parsing goes on with the count it found, as the code does.
- Actions:
  - `Serialize(t, sz)` serializes a tree into a buffer of size `sz`;
  - `Create(k)` reads back the first `k` bytes, so that truncated input is covered.
- The definitions are recursive, so the module is for TLC only.

### `DumpTraversal`: the dump tool's walks

- `traverseTablet` and the commands built on it (`stripes`, `streams`, `histogram`, `content`) and `binary` are modelled from `NimbleDumpLib.cpp`.
- A file is a sequence of stripes. Each stripe is a sequence of streams: TRUE where `load` returns data, FALSE where it returns null.
- Actions:
  - `Start` sets the loop bounds;
  - `VisitStripe` is one iteration of the loop, with the running command's visitor;
  - `EndWalk` ends the loop;
  - `Binary` reads one stream directly.
- `uint32_t` is kept as arithmetic modulo `2^IndexBits`. TLC runs it with `IndexBits = 16`: the wraparound is the same at any width, and TLC cannot enumerate 2^32.
- `content`'s uninitialised `maxStreamCount` is a choice from `Garbage`. In the MC, that is 0 and the largest value.

### `Trainer`: the encoding layout trainer

- The main thread walks the schema and adds one task per stream (`Submit`, in the preorder `Order`).
- Up to `Threads` tasks run at a time. Each one goes through four steps:
  - `Run`: it takes a thread;
  - `Train`: it trains, or throws;
  - `Lock`: it takes its node's mutex and reads the map;
  - `Unlock`: it writes the map back with its identifier and releases the mutex.
- `WaitAll` returns once every task has run. It rethrows if one threw, and otherwise moves the maps into the result.
- The map insert is split into a read and a write. Without the mutex, a lost update would therefore show up.
- `ExecutorBarrier` is a Velox class. It is modelled from its contract.

### `TrainerAbstract`: what `train` promises

- It has the same walk (`Submit`, `EndBuild`) and the same `WaitAll` as `Trainer`, but no threads and no mutex.
- Each added task does one of two things in a single step:
  - `Insert`: it adds its identifier to its node's map;
  - `Throw`: it throws.
- `Trainer` implements it under the refinement mapping `AbsTask`. A task that is running, trained or locked maps to `queued`. Every other status maps to itself.
- Under this mapping, `Run`, `Train`-to-trained and `Lock` are stutters. `Train`-to-threw is `Throw`, and `Unlock` is `Insert`.
- The refinement holds only because the mutex makes the read and write of the map behave as one insert. The run checks it as the property `ImplementsAbstract`. The mutant `LockNoMutex`, which lets two tasks of one node interleave, breaks it.

### `TableVerifier`: the table verifier

- `main` is `pc`. The actions follow its code:
  - `Start` covers lines 88-96;
  - `CheckMetadata` covers lines 117-146;
  - `List` covers lines 148-171;
  - `Submit` is one iteration of the loop at line 173;
  - `EndSubmit` ends the loop;
  - `Report` covers the join and lines 229-267.
- Each `PRINT_ERROR` becomes an `outcome` and a return from `main`.
- A file is abstracted to two things:
  - whether it is hidden;
  - its kind: `alpha` (magic number), `orc`, or `bad` (any failure that ends in `LOG(FATAL)`).
- The pool has `Concurrency` threads. Its queue holds `Concurrency` tasks and blocks `add` when full.
- `Take` and `Verify` are the pool threads. The `std::atomic` increments are single steps.
- A `bad` file aborts the whole process.
- The print-only listing and the default filter only print, and are left out.
- `Report` is an IF/ELSE chain in the code's order: mismatch, then wrong files, then the last partition, else the next partition. The arms overlap (a partition can both mismatch and hold wrong files), so the order decides the outcome; a CASE would leave it unspecified.

### `TableVerifierAbstract`: the verifier's contract

- It has no threads. `Decide` sets the outcome, once, to `Verdict(catalog)`.
- `Verdict` follows the order of `main`'s checks:
  - no table;
  - no partitions;
  - otherwise the first partition in catalog order that is not `Good` decides: bad metadata, a failed listing, a visible unreadable file (`fatal`), or a visible file of the other format (`invalid`);
  - `ok` when every partition is good.
- `TableVerifier` implements it with the identity mapping (`ImplementsVerdict`). Every step except the one that ends `main` or aborts the process leaves `outcome` at `none`, and so is a stutter.
- The property does more than `VerdictSound`. It fixes which failure is reported when a partition has several. It also requires that a failing partition is never skipped: whatever order the threads verify files in, `main` never reaches `ok` or a later partition past it.

## Runs

| run | cfg | checks | shows |
|---|---|---|---|
| `rle_numeric` | `RleDecoderNumeric.cfg` | `TypeOK`, `RoundTrip`, `CallsReturn`, `ImplementsCursor` | every row `materialize` writes holds that row's value, across any interleaving of reset, skip and materialize; every call returns; and the decoder implements the cursor contract (2 values, up to 4 rows: 10,654 states) |
| `rle_bool` | `RleDecoderBool.cfg` | `TypeOK`, `RoundTrip`, `ImplementsCursor` | the same for the bool toggle, with calls allowed one row past the end (`Overrun` = 1: 104,232 states) |
| `rle_overrun` | `RleDecoderOverrun.cfg` | `NoReadPastEnd` (violation) | a request for one row more than remain is accepted and reads past the end |
| `growth_valid` | `BufferGrowthValid.cfg` | `CapacityCoversRequests`, `CapacityNeverShrinks`, `CallsReturn` | min capacity 4, ranges {2: ×2, 8: ×1.5}, requests 1..20 in any order (1,185 states). This is a `ValidConfig` configuration; see Findings for the others |
| `flatmap_planner` | `FlatMapLayoutPlanner.cfg` | `LayoutIsPermutation`, `RequestedFirst`, `LeftoversContiguous` | see below (4,752 states) |
| `tree_roundtrip` | `EncodingLayoutTree.cfg` | `RoundTrip`, `TruncationOnlyByOverread` | four trees with 0-2 layouts per node, buffers of 8, 12, 16 and 64 bytes, and zero or non-zero memory past a buffer (142 states). Reading back a whole serialized buffer gives the same tree, layout order aside. A truncated buffer is rejected by `createInternal`'s checks wherever the cut falls, except through the unchecked read of line 66: when it finds a zero count, `create` returns a tree from the truncated bytes, and the run reaches that state (a single-column tree cut to 15 of its 19 bytes) |
| `tree_overflow` | `EncodingLayoutTreeOverflow.cfg` | `NoOverflow` (violation) | `serialize` writes past a buffer that passed its only size check |
| `tree_overread` | `EncodingLayoutTreeOverread.cfg` | `NoOverread` (violation) | `create` reads the children count past the end of a truncated buffer, and carries on with it |
| `dump_walks` | `DumpTraversal.cfg` | `VisitsAsRequested` | every walk of two files, for every stripe restriction and the stream ids 0, 2 and 3, visits exactly the requested stripes and streams, in file order and once each (239 states) |
| `dump_empty` | `DumpTraversalEmpty.cfg` | `NoBadStripe` (violation) | on a file with no stripes, `stripeCount() - 1` wraps and the walk asks for stripe 0 |
| `trainer` | `Trainer.cfg` | `TreeComplete`, `TrainingEnds`, `ImplementsAbstract` | 5 tasks on 4 nodes (two share an `ArrayWithOffsets` node), 2 threads (9,293 states) |
| `table_verifier` | `TableVerifier.cfg` | `CountsAgree`, `VerdictSound`, `VerifierEnds`, `ImplementsVerdict` | 7 catalogs, covering these cases: valid partitions of both formats with a dot file of the other format; an Alpha partition with an ORC file; an unreadable file; bad metadata; a failed listing; no partitions; no table. 2 threads (137 states) |

**`flatmap_planner` setup.**
- Two schemas with the builder kinds Row, Scalar, Map, FlatMap and ArrayWithOffsets (plain Array, whose case is the same one-child descent as ArrayWithOffsets without the offsets stream, is not in them). The second adds a feature to each flat map, so the schema grows between stripes.
- Six configurations:
  - empty;
  - a repeated feature and an absent feature;
  - a column listed twice;
  - two flat maps, in an order other than schema order;
  - a scalar column;
  - an out-of-range column.
- Stripes lacking up to 3 streams.

**Bounds.**
- The decoder runs cover the following cases:
  - empty payloads;
  - one run, and runs of lengths 1-4;
  - calls that end inside a run and exactly at a run's end;
  - reset in the middle of a call sequence;
  - with `Overrun` = 1, reads past the end.
- The growth runs reach the following cases:
  - both early returns;
  - loops of several iterations with each factor;
  - repeated requests.
- The planner's instance has repeated, absent and invalid configuration entries, two schema stages, and leftover features next to requested ones.

Every property of a passing run has a mutant in `PROJECT.json`. Each mutant is a plausible bug in a mapped definition, and TLC finds it under the run's own configuration:
- a skip that keeps the old value;
- an off-by-one fill;
- a loop that stops one short;
- a materialize loop that does not return after ending inside a run;
- a short circuit that returns the request;
- a loop started without `minCapacity_`;
- a `tryAppendStream` that does not erase;
- leftovers laid out first;
- in-map streams listed apart from their values;
- a child parser that does not advance, or stops one child short;
- a walk that stops one stripe early;
- a lock that skips the mutex, and an unlock that keeps it;
- a join that returns once the queue is empty;
- a submit loop that does not skip dot files;
- a partition loop that does not advance;
- `printResult` given the count of the partition's own format instead of the other one (breaks `ImplementsVerdict`).

**Bounds of the newer runs.**
- The tree buffers sit at `serialize`'s minimum (8), between its check and each tree's need (12, 16), and above every tree's need (64). `Create` then tries every prefix of the output.
- The dump files have 1-3 streams per stripe, absent streams, and a stream id (3) that no stripe has.
- Two threads are enough for two tasks of one node to race for the mutex while a third waits. They are also enough for the verifier's queue to fill and block `add`.

## Fairness

**`RleDecoder`.** The loop steps are weakly fair: `WF` of `SkipStep` and `MaterializeStep`. A call runs on the caller's thread and never blocks, so once it starts, only its own loop can run.

**`BufferGrowth`.** The same reasoning gives `WF` of `GrowStep` and `Finish`.

**`DumpTraversal`.** `WF` of `VisitStripe` and `EndWalk`: the tool is one thread that nothing blocks.

**`Trainer` and `TableVerifier`.** Every action is weakly fair. The executor's threads take queued work whenever one is idle, and the main thread runs whenever it is not waiting. Both runs set `CHECK_DEADLOCK FALSE` because the programs really end: `train` returns and `main` exits. A real hang would violate `TrainingEnds` or `VerifierEnds` instead.

**Calls themselves.** No fairness is assumed for them. Liveness is only "a started call returns".

## Findings

**`rle_overrun`.** `skip` and `materialize` (`RleEncoding.h:60-91`) do not check the rows left. Spec §4.1 says both fail when fewer than `n` rows remain. TLC shows that a request one row too long succeeds and moves the decoder past the last row. The extra row gets a garbage run length and value.

**Growth configurations with a gap** (`BufferGrowthPolicy.cpp:19`). `getExtendedCapacity` returns `minCapacity_` for a request below every threshold, without comparing it with the request. Spec §8 requires `new_capacity >= requested_size`. This holds only when the lowest threshold is at most `minCapacity_ + 1` (`ValidConfig`, the assumption of the proofs). With `minCapacity_` 4 and a lowest threshold of 6, a request for 5 gets 4. Nothing under `src/` rejects such a configuration. This is recorded as a hazard rather than as a run.

**`tree_overflow`** (`EncodingLayoutTree.cpp:122`). `serialize` checks only the name against the buffer (line 101), then writes the layouts and the 4-byte children count unchecked. A 12-byte buffer passes the check and is overrun.

**`tree_overread`** (`EncodingLayoutTree.cpp:66`). `create` reads the 4-byte children count with no check that 4 bytes remain. It then goes on with whatever it read: if the bytes past the end are zero, a node cut before its count is returned as a childless node, so a truncated buffer yields a tree.

**`dump_empty`** (`NimbleDumpLib.cpp:155`). `endStripe = stripeCount() - 1` wraps to `2^32 - 1` for a tablet with no stripes.

**Uninitialised `maxStreamCount`** (`NimbleDumpLib.cpp:537`). `maxStreamCount` is read by `std::max` before any assignment, so the bound `content` prints for a missing stream may be garbage. `DumpTraversal` models the garbage, but no run judges the printed bound. It is recorded as a hazard.

## Proofs

**`RleDecoderProofs`.**
- `TypeCorrect: Spec => []TypeOK` holds for every `Value`, `IsBool`, `MaxRows` and `Overrun` allowed by the module's assumptions.
- `TypeOK` alone is not inductive. The position `pos` stays within `0..MaxPos` only because a call never asks past `Rows + Overrun` (`CallWithinLimit`). Run lengths are in `1..MaxRows` only because the run-length stream is the differences of strictly increasing ends (`PayloadOK`).
- The inductive invariant is `TypeInv == TypeOK /\ PayloadOK /\ CallWithinLimit`. The proof is one step per action, with a sub-step per disjunct.
- Lemmas:
  - `RowsBound` and `LengthsType` cover the payload.
  - `ReadsTyped` and `FetchRunTyped` show that reads past the end stay typed.
  - `FillTyped` covers the output.
  - `PayloadStable` shows that a step leaving the payload alone preserves its part of the invariant.

**`BufferGrowthProofs`.** These hold under `ValidConfig` and `ConfigAssumption`, for any thresholds, factors and minimum capacity:
- `CoversRequests` proves `Spec => []CapacityCoversRequests`.
- `NeverShrinks` proves `Spec => CapacityNeverShrinks`.
- `TypeCorrect` proves type correctness.

The inductive invariant `CallInvariant` says three things:
- while idle, the capacity covers the largest request and the last call's argument;
- while looping, the request being served is the largest one so far and exceeds the old capacity;
- while looping, the capacity is still that old capacity.

`Finish` rests on the lemma `DivBound`: `a >= b*d` implies `a \div d >= b`.

**`TrainerProofs`.** These hold under `TrainerAssumption`, for any nodes, streams, task order and number of threads:
- `TrainedTreeComplete` proves `Spec => []TreeComplete`.
- `TypeCorrect` proves `Spec => []TypeOK`.

The inductive invariant `IInv` strengthens `TypeOK` with four conjuncts:
- `SubmittedPrefix`: exactly the first `submitted` tasks of `Order` have been added.
- `MapsFinished`: each node's map holds exactly its finished tasks' identifiers. This is the conjunct `TreeComplete` needs.
- `MutexHeld`: at most one task per node is between `Lock` and `Unlock`, it is the holder, and its snapshot equals the current map. This is what keeps `MapsFinished` true across `Unlock`.
- `Returned`: `done` implies every task finished and `result = layouts`.

`NextIInv` has one step per action. The lemma `QuietStep` serves the three actions that change one task's status without touching the maps.

- `Refinement` proves `Spec => ImplementsAbstract`: `Trainer` implements `TrainerAbstract` under `AbsTask`. The proof has two parts:
  - `InitRefines` maps the initial state to the abstract one.
  - `NextRefines` takes each step from a state satisfying `IInv` to an abstract step or a stutter. It has one case per action.
- The `Unlock` case needs `MutexHeld`: the snapshot the task writes back equals the current map. That makes the write an abstract `Insert`.

**`TableVerifierProofs`.** `CountsAgreeHolds` proves `Spec => []CountsAgree` for every catalog and every `Concurrency`: the mismatch at `TableVerifier.cpp:235` is never reported. `CountsAgree` is not inductive on its own, so `IInv` adds these conjuncts:
- `TypeOK`, where the partition index and the file cursor are in range while `main` is in the loop. `AtStart` (`part = 1` at start) is needed for `Start`.
- `ExitedOutcome`: `main` has exited exactly when it has an outcome. Once a task aborts the process, no other step is taken.
- `PoolIdle`: outside the submit loop and join, the queue and the running set are empty. With it, `List` can reset the counters.
- `Numbered`: each running task carries a number among the files already taken. This keeps the running set finite, and it means a newly taken task is new, so the running set's cardinality grows by exactly one.
- `Accounted`: in the loop and at join, `processedFileCount` equals the Alpha count, plus the other count, plus the queued tasks, plus the running tasks. This is the conjunct `CountsAgree` needs. At `Report`, `Joined` empties the last two terms, so the mismatch arm is never taken.

There is one lemma per action group: `MainStartIInv`, `ListIInv`, `SubmitIInv`, `TakeIInv`, `VerifyIInv` and `ReportIInv`. `NextIInv` combines them.

`VerdictSoundHolds` proves `Spec => []VerdictSound` for every catalog and every `Concurrency`: `main` returns 0 after the last partition (falling out of the loop that ends at line 267) only if every partition was read and every visible file in it was opened and was of the format its extension names, and the wrong-format message (line 261) only if the current partition holds such a file. It rests on `IInv` and on `VInv`, which adds:
- `AtJoin`: at join, every file of the partition has been taken, so `WrongCount = 0` covers all of them.
- `Passed`: every partition before the current one was good, and the current one's metadata (and, from `submit` on, its listing) were read.
- `Sourced`: every queued or running task, and every non-zero counter, comes from a visible file already taken of that kind. This is what makes a non-zero wrong count point at a wrong file.
- `Witnessed`: every visible file already taken is counted, or is still queued or running, under its kind. At `Report`, `Joined` empties the queue and the running set, so a `bad` file is impossible and an `orc` file forces `WrongCount > 0`.
There is one lemma per action again (`ListVInv`, `SubmitVInv`, `TakeVInv`, `VerifyVInv`, `ReportVInv`); `SeenGrows` says what taking one more file adds to `SeenKind`, and `JoinedGood` turns the four conjuncts into `Good(Partition)` at the join.

**`RleRoundTripProofs`.** `RoundTripHolds` proves `Spec => []RoundTrip` for every `Value`, `IsBool`, `MaxRows` and `Overrun`: whatever reset, skip and materialize calls are made, a row `materialize` writes inside the chunk is the row the writer encoded there. `RoundTrip` is not inductive; the inductive invariant is `RInv == TypeInv /\ ValuesOK /\ InStep /\ RoundTrip`:
- `ValuesOK`: the run values are what `computeRuns` produced (adjacent runs differ), and the bool payload's first byte is the first run's value.
- `InStep`: while `pos < Rows`, the decoder is in run `lenCursor` (`InRun`): `RunStart(lenCursor) <= pos < ends[lenCursor]`, `copiesRemaining_` is what is left of that run, `currentValue_` is its value, the numeric value cursor is at the same run, and for bool `value_` already holds the negation, which is the next run's value because bool runs alternate (`BoolAlternates`).
- With `InStep`, `std::fill` over rows `pos+1 .. pos+n` with `n <= copiesRemaining_` writes each row's own value (`FillRight`, using `RunOfIn`: the runs partition the rows).
Each loop branch has a lemma: `WithinRun` (the call ends inside the run) and `EndOfRun` (the run is used up and `FetchRun` hands out the next, `FetchNextRun`). `ResetRInv`, `SkipRInv` and `MaterializeRInv` apply them per action, and `NextRInv` combines them. Once `pos` reaches `Rows` only reads past the end remain; `InStep` then says nothing, and `RoundTrip` does not judge rows past `Rows`, until `reset()` starts again at row 0. TLC checked `RInv` as an invariant on the three decoder instances before the proof.

**`RleCursorProofs`.** `CursorRefinement` proves `Spec => ImplementsCursor` for every `Value`, `IsBool`, `MaxRows` and `Overrun`. The RLE decoder implements the cursor contract of spec section 4.1 under the mapping `Column == [p \in 1..Rows |-> RowAt(p)]`. It rests on `RInv` from `RleRoundTripProofs`:
- `InitRefines`: the initial column is a sequence of at most `MaxRows` values (`ColumnTyped`).
- `NextRefines`:
  - `Reset` and `Call` map to themselves;
  - `FetchRun` and `NextValue` are stutters, because the payload, and with it the column, is unchanged (`ColumnKept`);
  - `LoopRefines` maps each loop iteration to `Consume(m)`. `m` is `rowsLeft` when the call ends inside the run, and `copiesRemaining_` otherwise. `ConsumeStep` shows the output is what `Written` allows. Inside the column this comes from `InStep` and `FillRight`. Past it, only the type of a filled value is known.
- `RunExists`: every row `1..Rows` lies in some run `RunOf(p)`. It is proved from the least element of the set of runs ending at or after `p`. The lemma `NatMin` derives that least element from the well-foundedness of `<` on `Nat` (`WellFoundedInduction`'s `WFMin`). No operator-parameter induction is used.

**`TableVerdictProofs`.** `VerdictRefinement` proves `Spec => ImplementsVerdict` for every catalog and every `Concurrency`. It rests on `IInv` and `VInv` above, plus `TableExists`: once past its first step, `main` looks at a table that exists. TLC checked the three together before the proof. The steps:
- `CatalogKept`: no step changes the catalog.
- `FirstBadIs`: `Passed` makes every earlier partition good, so a partition that fails while `main` is at it is the abstract `FirstBad`. `GoodAgrees` shows the two readings of "good" agree.
- `FailingVerdict`: from that, the abstract verdict of a failing partition.
- The three deciding steps, each mapped to `Decide`:
  - `CheckStep`: metadata or listing;
  - `FatalStep`: a thread reads an unreadable file. `Sourced` places that file in the listing;
  - `ReportStep`: `ok` or `invalid`. It uses `VerdictSound` in the next state, `JoinedNoBad`, and `CountsAgree`, which rules out the mismatch arm.
- `NextRefines`: every other step leaves `outcome` alone and so is a stutter.

**Only model-checked.**
- Liveness (`CallsReturn` in `RleDecoder` and `BufferGrowth`, `TrainingEnds`, `VerifierEnds`) needs fairness and `ENABLED`, which TLAPS does not handle here.
- `DumpTraversal`'s `VisitsAsRequested` is stated through `SelectSeq`, a recursive operator over sequences. Proving what it returns for every input is induction over data, which the installed provers cannot do with the library's operator-parameter induction theorems.
- `EncodingLayoutTree` is recursive, and so is everything in `FlatMapLayoutPlanner`. TLAPS loses its SMT backend in a module with `RECURSIVE` operators, so `RoundTrip`, `TruncationOnlyByOverread`, `LayoutIsPermutation`, `RequestedFirst` and `LeftoversContiguous` stay with TLC.

## Not modelled, and the plan

**Not modelled.**
- `FlushPolicy` is a single comparison.
- `DefaultMetricsLogger` does logging.
- `VectorTests` tests single-threaded value semantics of a class not under `src/`.
- The dump tool's output formatting, and the verifier's print-only listing.

**Planned next.**
1. The reader's seek, skip, next and range reads, spec-modelled from `VeloxReaderTests.cpp`, with a refinement to an abstract row cursor.
2. A proof of `NoReadPastEnd`'s guarded counterpart: with a caller that never asks past `Rows`, no read leaves the payload (from `RInv`).
3. Refinement of `BufferGrowth` to "capacity is the least value of the policy's sequence covering the largest request".
