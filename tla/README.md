# Cordage: TLA+ models and proofs

Cordage computes group-by aggregates over large delimited files, on one machine
(`cordage run`) or on several (`cordage coordinator` and `cordage worker`, over
gRPC). This directory models the parts of it in which several goroutines,
processes or byte ranges have to agree, and the path of a query from its text to
the printed answer; checks them with TLC on small instances; and proves with
TLAPS what matters most about nine of them for instances of any size.

## The system

| part | state it keeps | operations | talks to |
|---|---|---|---|
| chunk planner (`ingest/chunk.go`) | running start offset, chunks aligned so far | `PlanChunks`, `AlignChunks`, `findNextNewline` | the file (sized twice, probed in windows), which others may append to |
| ingestion (`ingest/ingest.go`, `batch.go`) | one goroutine, or one per chunk; batch pool; error channels; a cancellation context | `Ingest`, `runSingle`, `runChunks`, `drainChunk`, `get`/`Release` | consumers, over one unbuffered channel of batches |
| row parser, sources, schema (`parser.go`, `source.go`, `schema.go`) | line number, header flag, scratch buffers | `next`, `readLine`, `splitFields*`, `resolveSchema` | called by `drainChunk` |
| aggregator (`aggregate/aggregator.go`, `grouptable.go`, `accumulator.go`, `state.go`) | hash table of groups, accumulators per measure | `Add`, `Merge`, `MergeState`, `ExportState`, `Result` | called by workers |
| local run (`aggregate/parallel.go`, `cmd/cordage/run_cmd.go`) | private aggregators, row counts, first error | `RunParallel`, `runRun` | `Ingest` upstream; cancels it on an error |
| shard worker (`distribute/worker_server.go`) | one handler per RPC | `RunShard` | `Ingest`; the coordinator |
| coordinator (`distribute/coordinator.go`, `coordinator_server.go`) | results per shard, first error, shared context | `Query`, `PlanShards`, `RunDistributed` | workers, over gRPC; the query's client |
| query language (`query/query.go`, `aggregate/spec.go`) | tokens and a position | `Parse`, `ParseAggFunc` | `cordage query`; the specs of all others |
| wire conversion (`distribute/convert.go`) | - | `*ToProto`, `protoTo*` | client, coordinator and worker, on both sides of each call |
| sketches (`hyperloglog.go`, `tdigest.go`) | registers; centroids and a buffer | `add`, `merge`, `estimate`; `Add`, `Merge`, `Quantile` | one per measure and group |
| commands (`cmd/cordage`) | flags | `run`, `coordinator`, `worker`, `query`, `ingest` | the user |

What is hard here: batches change hands between goroutines and are reused; any
of them may fail, and the others must stop without blocking on a channel that
nobody serves, and without their partial work being taken for a result; byte
ranges are cut where lines end in a file that may be growing; workers crash,
hang and lose responses; a query is parsed, sent, checked, sent on, checked
again, answered in parts and put together, by functions that each know only their
own half of a convention.

What makes each part right: the planner loses and doubles no row; ingestion
hands over every good row once or reports an error; a batch has one owner; a
run ends, with the answer to the whole input or with an error that is a cause;
a shard reply is whole; a query is all of its shards or an error, it means what
the grammar says, and whoever is told that a request is wrong sent a wrong one; a
digest stands for all the values it was given.

## Modules

`ChunkPlan` - the planner, one action per statement group of `AlignChunks` and
per iteration of `findNextNewline`. A file is its size and the set of its
newline offsets. `GrowFile` (any append, at any moment) is the environment.
`caller` says whether `ingest()` or `PlanShards` asked. `parts` is what the
readers get. `LinesOf` says which lines `lineReader` finds in a byte range, and
`RowsOf` what is left of them after the header is skipped. The names of its
specification begin with `Plan` (`PlanInit`, `PlanNext`, `PlanSpec`).

`Ingest` - the producing goroutines. `igpc` is the goroutine `Ingest` starts,
`cpc[c]` the one of chunk `c` (in `runSingle`, the call of `drainChunk`). `buf`
is what a batch contains and `pool` how often it is in the `sync.Pool`, so that
a double release is visible. `errCh`/`chunkDone` are `runChunks`' channel and
derived context, `parentDone` the caller's context. A line is "good", "bad" (its
row does not parse) or "io" (reading it fails). `skipped++` is two steps.

`RunLocal` - `Ingest` with the workers of `RunParallel` and `runRun`. An
aggregator is how often each row was folded in. `Receive` joins a sender and a
receiver, as an unbuffered channel does.

`RunShard` - `Ingest` with the RPC handler, whose caller may cancel at any
moment (`CallerGone`) and which may close the file under the reading goroutine
(`ReadClosed`).

`Distribute` - one query on the coordinator, with one goroutine and one RPC per
shard. gRPC and worker processes are external: a call ends with the response,
with Unavailable (worker down, connection lost) or with Canceled as soon as its
context is done. What a worker does for a call is what `RunShard` is shown to
do. `results` is the set of shards whose response was stored, and the merge loop reads
it: of a `results[i]` that is still nil it would merge no groups, without an
error, and the answer would lack the shard (`WholeOrNothing`). The conversion of the
result may fail, too (`ConvertFails`; `Finish` of `RunShard` has the same exit).

`Job` - the abstract specification: a run ends once, with the answer to the
whole input or with an error, and with no answer when the input calls for an
error. `RunLocal`, `RunShard` and `Distribute` are each checked to implement it
(`IsJob`, by refinement), and `Distribute` uses of its workers only what `Job`
says of `RunShard`.

`GroupTable` - the open-addressing table of groups, a step per iteration of a
probe or rehash loop. `hashOf` is any function from keys to `Hash`, so that keys
collide in every way; `hash & mask` is `% capacity`, which is the same for the powers of two
`grow` keeps. `GroupMap` is what it promises, a partial map from keys to groups,
and `IsGroupMap` the refinement.

`Aggregation` - the accumulators. Rows of one measure column (int64 modulo a
small width, float64 with NaN and the infinities, or string) are dealt to
aggregators, exported as states and merged in any order. Registers of a sketch
are cells of a heap, so that an aliased slice would show; `Merge` and
`BeginMergeState` keep groups apart by environment guards that no row is in both
sides, as the callers do. `MergeState` is a call with its local variables: an
iteration of its first loop validates one state and builds an accumulator of it
(`StateToGroupAccum`) or refuses the whole call (`MergeStateFails`), one of its second
loop merges or inserts one of them (`MergeIntoGroup`, `InsertGroup`), and other
goroutines work on other aggregators in between. Any nonempty set of an exported
state's groups may arrive in a shape that does not fit (`Misshape`). The order
in which a state's groups are taken is any. The refusal of percentiles, before
the loops, is in `Engine`, which knows functions.

`RowParser` - one reader's lines turned into rows: schema inference, the two
field splitters, typed parsing and both error policies. `Scan` is the quote
scanner as a state machine; `Readings` declares the format independently of it,
as joins of bare and quoted fields, by recursion on where the last of them begins.

`TDigest` - digests of several workers, fed, read (which flushes the buffer) and
merged in every order. A centroid is the sum and number of its points, so that
means are exact fractions; `sort.Slice` may leave equal means in any order; the
scale function is a table, `Scale[n][i]` for `i / n`. The names of its
specification begin with `Digest`. `Knots` is the curve
`Quantile` interpolates, its three formulas being three kinds of segment.

`QueryPath` - one query with its data, end to end, in three forms: a text typed
to `cordage query`, a message from another client of the service, the flags of a
one-shot coordinator. It composes `Query` (scanner, parser, `ParseAggFunc`),
`Convert` (every conversion, both ways) and `Engine` (names against a schema, rows
to groups, states, results), and adds discovery, the cut of the file into parts,
the worker's handler and the merge. A call is one step here, because how calls
overlap is `Distribute`'s subject; it may be lost or cancelled. `Grammar` declares
what a text means from the grammar above `query.Parse`, with no scanner and no
position. `Fallible` has operators for Go's `(value, err)`: an operation
yields the set of its result, and the empty set is an error.

A text is a sequence of pieces: a word is one piece, digits, dots, blanks and marks are
others, so that `p99.9` is an identifier of five. What `strconv.ParseFloat` makes of a
text is external: the constant `Floats` gives the texts it accepts and their values, in
units of `1 / Percent`. `Grammar` has its own account of which characters make an
identifier, taken from the comment above `isIdentPart`. A key is the rank of
its string in byte order. Averages are fractions; the estimate of a distinct count
is exact, and NaN is left to `Aggregation`.

`MC*` modules give the constants their values. `<Module>Proofs` has the proofs about
`<Module>`; `IngestProofs` is the part `RunLocalProofs` and `RunShardProofs` share,
`CoordinatorProofs` is about `ChunkPlan` and `Distribute`, `AggregateProofs` about
`GroupTable` and `TDigest`.
Operators introduced by a comment "Mutated form" are wrong versions of the
definition that follows them; no specification uses them. They show, for every
property, a plausible bug that the property catches.

## Runs

| run | instance | shows |
|---|---|---|
| `ChunkPlan.cfg` | files of 0..6 bytes with every placement of newlines, windows of 2 bytes, 0, 1, 2, 3 or 7 chunks wanted | rows exactly once (`RowsOnce`), nothing missed while the file grows, the naive ranges are a partition, a range once cut stays and the next starts where it ended (`CutsAreFinal`), planning ends |
| `RunLocal.cfg` | 2 chunks of up to 2 lines, 3 lines in all, or `runSingle`; batches of 1, 2 workers | whole results only, one owner per batch, root causes, nothing left running; `Job`, so it ends, whatever fails |
| `RunLocalSkipRace.cfg` | 2 chunks, 1 line each | `SkippedExact` is violated: see Findings |
| `RunShard.cfg` | up to 3 lines, batches of 2 | whole replies, only a caller that cancelled is told so, no goroutine left, `Job` |
| `Distribute.cfg` | up to 2 shards, 2 crashes | all or nothing, root cause, an abort ends the query even if workers hang; `Job` |
| `GroupTable.cfg` | 4 keys, 2 rows each, every choice of hashes from {0, 7, 11}, capacity 2 growing twice | findable and unique groups, a free slot at every probe, a map |
| `Aggregation.cfg` | 3 rows, 2 groups, 2 aggregators, 1 exported state, 1 call of `MergeState`, each column type | exact accumulators, registers never shared, and a `MergeState` that returns has put in all of its states or left its aggregator as it was (`MergedOrUntouched`) |
| `AggregationNaN.cfg` | 2 float rows | `NaNPoisons` is violated: see Findings |
| `RowParser.cfg` | every line of up to 5 characters of {quote, delimiter, digit, other}; files of 2 or 3 of 6 sample lines; 4 schemas, both policies | the batch is the well-formed lines in order, columns aligned, other lines reported |
| `TDigest.cfg` | 2 digests, up to 6 of the values 0, 1, 4 and NaN, buffers of 2, compression 5 | nothing is lost, quantiles are between the extremes and never decrease, a cluster stays within its unit and none is left that could have grown |
| `QueryPath.cfg` | 1908 requests, 1 or 2 workers, files of up to 4 lines cut in every way | texts mean what the grammar says (`Parsed`), answers are whole and sorted (`Answers`), a request is refused exactly when it is wrong (`RequestBlamed`), and "Internal" is for data or a world that failed (`WorldBlamed`) |
| `RowParserHeader.cfg` | up to 2 sample lines, no columns given | `QuotedFileIsRead` is violated: see Findings |

Bounds. Six bytes and two-byte windows give boundaries on, before and after a
newline, windows without one, lines longer than two naive chunks, and more chunks
than bytes; the theorems remove the bound. Two chunks and two workers are enough
for every pairwise interaction of siblings (report/cancel, send/receive, reuse of
a batch); a third adds only more of the same pairs; `MaxRows` leaves out only the case that
both chunks have two lines. A chunk goroutine and a worker hold at most one batch
each, so four are enough there and an allocation never waits for the bound. In `RunShard`, three
lines with batches of two give a full and a partial batch. `Distribute` allows a
crash per shard, so that every shard may be lost. Hashes 7 and 11 have the
same home slot, the last one, up to capacity 4 and part at 8, so that chains wrap
around the end and are cut by `grow`; 0 is where they wrap to. Three rows over two aggregators and two groups
give every combination of a set and an unset extreme on both sides of a merge, a
`MergeState` of two groups of which one is merged and the other inserted, or one
fits and the other does not, and a merge after it. Five characters are enough for a doubled quote inside
a quoted field, with a delimiter on either side of it. Six points with buffers of
two give three generations of clusters, and with compression 5 clusters of one, two
and more points. `QueryPath` reads seven texts and each with one piece dropped, doubled
or replaced by one of twelve others, on a file of two lines; three full queries on
all files of up to two lines of six kinds (bad, short, a negative zero, not UTF-8),
with and without a header, under both policies; and four schemas with something odd
about them (no columns, a name twice, a type the wire does not know). Every file is
cut in every way one or two workers can be given it.

Fairness. The Go scheduler runs what can run: weak fairness of each goroutine.
Nothing is assumed of the environment: nobody has to append, cancel, crash or
restart, and in `Distribute.cfg` a worker may hang forever: `AbortEndsQuery` holds
nevertheless. That a query ends needs workers that serve the calls they receive,
since `RunDistributed` sets no deadline, so `Distribute!IsJob` says that under
`FairWorkers` the query ends; without it a query whose worker hangs does not, as in
the code. `TDigest` and `QueryPath` have no fairness: their properties are of safety.
`CHECK_DEADLOCK FALSE`
is said where the system stops without a step of its own: the planner has
returned and the file is at its bound, all rows are in and merged, the table has
its last row, the reader is at the end, the
digests are merged and have their last value.

## Proofs

Every theorem is about `Spec` and every value of the constants that satisfies the
module's assumptions. In each module `Invariance` proves an inductive `IInv`; the
others rest on it. `IInv` was checked with TLC on the instance of the module's run
before it was proved.

| module | theorems (property) |
|---|---|
| `CoordinatorProofs`, on `ChunkPlan` | `PlanTypeCorrect` (`PlanTypeOK`), `NaiveCorrect` (`NaivePartition`), `RowsCorrect` (`RowsOnce`), `NoneMissed` (`NothingMissed`), `CutsStay` (`CutsAreFinal`) |
| `RunLocalProofs` | `TypeCorrect`, `OwnerIsOne` (`OneOwner`), `ResultIsComplete` (`Complete`), `CauseReported` (`RootCause`), `AllReturned` (`NothingLeft`), `ImplementsJob` |
| `RunShardProofs` | `TypeCorrect`, `ResultIsComplete` (`ReplyComplete`), `CanceledByCaller` (`CanceledIsTheCallers`), `ImplementsJob` |
| `CoordinatorProofs`, on `Distribute` | `TypeCorrect`, `AllOrNothing` (`WholeOrNothing`), `CauseReported` (`RootCause`), `NoneOpen` (`NothingOpen`), `ImplementsJob` |
| `AggregateProofs`, on `GroupTable` | `TypeCorrect`, `GroupsAreFound` (`Reachable`), `ProbesEnd` (`RoomLeft`), `ImplementsMap` |
| `AggregateProofs`, on `TDigest` | `DigestTypeCorrect` (`DigestTypeOK`), `ValuesConserved` (`Conserved`), `QuantilesOrdered` (`Quantiles`), `DigestClustered` (`Clustered`) |
| `AggregationProofs` | `TypeCorrect`, `TotalsAreExact` (`Exact`), `SketchesAreOwned` (`Unshared`), `MergeIsAllOrNothing` (`MergedOrUntouched`) |
| `RowParserProofs` | `TypeCorrect`, `ColumnsAligned`, `SplitReads`, `LinesAccounted`, `RowsCorrect` (`RowsAreTheLines`) |
| `QueryPathProofs` | `ParseMeans`, `SpecTrips`, `TextsAreUnderstood` (`Parsed`), `RequestsJudged` (`RequestBlamed`) |

Planner. `RowsOnce` speaks only of the end and is not inductive. `IInv` says what holds
on the way: the ranges cut so far follow each other from offset 0 to `start` (`Cut`), which
is the end of the last of them whenever the next is about to be cut, a
line of the file ends at `start` (`Boundary`), the lines of the ranges together are the
lines of `[0, start)`, the probe has passed no newline since the naive boundary
(`Probing`) and the naive ranges have the shape `PlanChunks` gives them (`NaiveShape`).
`LinesSplit` carries it: reading `[0, mid)` and `[mid, hi)` apart yields the lines of
`[0, hi)` when a line ends at `mid`. `LinesStable` says that appending changes no line
before. Assumed: natural sizes, a positive window.

Local run and shard worker. `IngestProofs` has the half of the invariant that is about
producers, and a lemma per step of theirs: where each goroutine is (`Control`), whose a
batch is (`Owned`), what of a chunk was read and is in its batch (`Progress`), which
errors were reported and why (`Errs`, `Outcome`), and that `errCh` has an error per
goroutine that reported one (`Room`), which is why none blocks. The consumers add that
their batches are theirs (`WorkersOwn`, `HandlerOwns`), and `Flow`: as long as nobody has
failed, each good row that was read is in exactly one place, the batch of the goroutine
that read it, the batch of one worker, or one aggregator not yet merged. `Complete` is
`Flow` at the end. It cannot be stated without the guard on failure (a batch is
dropped when its send is cancelled), so `Blamed` must say that whoever dropped one has
left an error that turns the result into none. For the shard, `Skips` lets the count be
one behind while the row is being skipped. Assumed: at least one chunk, one worker and
one row per batch.

Coordinator. `Merged` ties the merge loop to the shards, `Resulted` a result to a
response its worker sent, `Gathered` the start of the loop to the end of all goroutines.
`AllOrNothing` needs all three: without an error every goroutine has stored its
result, and the loop adds to a shard only what is stored.
`Blamed` carries the root cause: the derived context is done only after a failure, so
the first error is a cancellation only if the client's context was done before it.
Assumed: at least one shard, a bound on crashes (any).

Group table. `Reachable` is inductive only with what a probe has passed (`Probed`), with
what is left of the old table during a grow (`OldGroups`), and with `Counted`, which
counts both tables. `RoomLeft` follows from the load factor by cardinality: not every
slot can be full. Nothing is assumed of `hashOf` but its range.

Accumulators. Aggregators, exported states and calls of `MergeState` (with the
accumulators they have built) are looked at alike, as boxes. `Separate`
says that no register set has two holders, `Sketched` that each group has one, and
`Totalled` that each group is what its rows make of it: for the sum of an int64 column, a
number in range that differs from the integer sum by a multiple of the word (`IsSum`),
for a float column the three special cases, and for an extreme that it is one of the
values (or the NaN that stands for them) and none is beyond it. These relations are closed
under union of disjoint sets of rows (`SumOfUnion`, `LeastOfUnion`, `GreatestOfUnion`,
`HllMergeIs`), whatever the order, and determine the result (`SumIs`, `LeastIs`,
`GreatestIs`, `RegsAre`). `Unread` keeps a row from being folded in twice. An
action that adds or moves groups gives them to one box and may take them from others;
`OneBoxChanges` does the part of the proof they have in common. `Calling` is what makes
`MergedOrUntouched` provable: as long as a call has a state to validate, its
aggregator is what it was when the call began (registers included, which takes
`Separate`: what others write to is not its own), the misshapen groups are among those to
validate, and the rows in the aggregator are those it had and those of the states
that are neither to be validated nor waiting to be applied (`CalledAt`, `Left`); no two
calls have the same aggregator or the same states (`Alone`), and a call's aggregator is used by no
one else, since the goroutine that owns it is in the call (`Busy`). Assumed: finite sets of
rows, keys, aggregators, states and calls;
special floats that are no integers; and `HeapAssumption`, by which there is always
memory for the sketches of one more box. `Fresh` chooses among the free ones, and
`FreeSketches` proves by counting that enough are free. The integer sum of a set of rows
is written as a difference of cardinalities (`TrueSum`), which can be reasoned about
where a fold cannot.

t-digest. `DigestIInv` says of each live digest that it stands for the values it was
given (`StandsFor`: the numbers and sums of its points, its extremes, no NaN) and that
its centroids are in order, of positive weight and within the extremes (`WellFormed`).
A value given is one point of `taken`, the ghost that counts values, so that `Conserved`
is a consequence. The greedy pass of `compress` is described by the lengths of its
prefixes: the clusters are the images of consecutive ranges of the sorted points
(`GatherRuns`), from which follow that weights and sums add up (`GatherKeeps`), that the
order is kept (`GatherOrders`) and that each cluster is within its unit while none could
have taken in the next (`GatherSpaces`, which is `Clustered`). `SortedArranges` is about the
sort: whichever arrangement it picks has the same points. For `Quantiles`, `KnotsClimb`
shows that the knots are never decreasing in rank nor value, and `QuantilesClimb` that
interpolation between such knots is not either. Fractions are compared by products of
integers (`Leq`), so this is arithmetic of integers all the way. Assumed: a buffer
capacity, values that are integers or NaN, and a scale table that does not decrease.

Row parser. Two things are shown and put together. `SplitReads`: whichever way the
parser splits fields, it refuses the lines of which the declared format has no reading
and yields the only reading of every other line. The scanner's state is related to
the piece of the line it is in, position by position: what a piece that is not over yet can
still stand for (`KnownTexts`), when quotes have made it nothing (`Hopeless`, which
`HopelessStays` says is for good), and that pieces end at the delimiters outside quotes
(`PiecesAre`). `LinesAccounted`: there is a strictly increasing list of data lines, one per
row, such that row r is what line `src[r]` was split into; under "skip" the reports
are, in order, all other lines; under "fail" there is no other line but the last.
`RowsCorrect` draws from both what the run checks: row n is in the place of the n-th
well-formed line (`PlacesAre`, by counting), and its texts are those of the reading.
The columns are settled by the time a row is read (`Settled`).

Query path. `SpecTrips`: a spec that can be sent arrives as it was sent, through the
tables of `convert.go` in both directions, and so do a schema (`SchemaTrips`) and a
policy. `IInv` says that from discovery on the coordinator works with a spec that it has
accepted: one that can be sent, of columns the schema has, with functions whose states
merge. A worker therefore repeats checks that succeed, on a schema that differs in
`hasHeader` only (`SameNew`, `NotRefused`), and never answers `InvalidArgument`
(`NoneRefuses`). `RequestsJudged` adds the asker: by `Judged`, what is on its way to the
coordinator is what was asked for, and what it accepts is what it must answer
(`AcceptableIs`), so that "Usage" and "InvalidArgument" are for wrong requests and for all
of them.

Query language. `ParseMeans`: for every text the code's pipeline (scanner, one-token
lookahead parser, spec builder) yields what `Grammar` divides the text into, and no text
has two meanings. The two are written differently on purpose: the parser moves a position
forwards, the grammar only says where a text can be divided. The argument has four
parts. The scanner (dots and digits continue an identifier and do not begin one): after n
characters its tokens are those the grammar finds in the
first n, the last one possibly unfinished (`LexIs`). The lists: from the last
token backwards, a list read from position p consists of the pieces between the commas
after p, each an element (select item or column), and it ends where no comma follows.
The spec: after n items the measures are, in the order of their first mention, the
columns of the function items, each with its functions in order. The text: the position
where the select list stops is the only place at which the grammar can divide it.
`TextsAreUnderstood` puts `SpecTrips` after it: what the coordinator decodes is
the meaning of what was typed.

Assumed: schemas have the shape of `ingest.Schema`, texts are sequences of strings,
no letter is also a digit, dot, blank or punctuation mark, and `Floats` gives
integers or NaN (`QueryAssumption`).
`NilIsNoMessage` is a hypothesis of the theorems about the wire: the model value for
what is absent is none of the records and strings the conversions build. It ranges over
all values, so that no ASSUME which TLC evaluates can state it.

Induction over data. The theorems about folds and recursive functions are by induction
on a natural number or on a finite set. No rule with an operator for a parameter is
used: the property is a set, of the numbers or subsets that have it, and the well-founded
order of the naturals gives the least one outside it (`LeastNatural`,
`NaturalsByInduction`, `FiniteSetsByInduction`, `PositionsByInduction`). What a recursive
function computes follows from its defining equation, which is proved in the same way
(`SubsetRecursion`, `PositionRecursion`), and so does the sum of a function over a set
(`SumAdds`, `SumChanges`, `SumSplits`).

Out of the prover's reach, and so only model-checked:

- liveness: `PlanningEnds`, `NoGoroutineLeft`, `AbortEndsQuery`, and the part of `IsJob`
  and `IsGroupMap` that says that a run ends. `ImplementsJob` and `ImplementsMap` state the
  other part, `Safety` of `Job` and of `GroupMap`.

Not proved, and so only model-checked: `Answers` and `WorldBlamed`. They need the engine
of `QueryPath` as a function of all rows and all divisions into shards.

## Findings

`cmd/cordage/run_cmd.go:70` (and `ingest_cmd.go:52`) counts skipped rows with a
plain `skipped++` in `OnSkippedRow`, which `ingest.go:57-61` says "may be called
concurrently from multiple chunk goroutines" and "is called for every row
dropped". `RunLocalSkipRace.cfg` shows two chunks dropping one row each and the
command printing `skipped=1`.

`accumulator.go:15-18` says a NaN "poisons the running min/max regardless of when
it arrives". `math.Min(-Inf, NaN)` is -Inf, so it does not when the group has the
infinity (`AggregationNaN.cfg`). The result is independent of the order, which is
what merging needs, and `Exact` shows it.

`ingest.go:163` and `:197` infer columns with `splitFields` even when the schema is
quote-aware, whose doc (`schema.go:73-75`) promises quoted fields with embedded
delimiters. With such a header the column count is wrong and all rows are dropped
(`RowParserHeader.cfg`).

Noted while modelling, without a run of their own:

- `result.go:81-86` promises deterministic output, but two groups whose float keys
  are -0 and 0 compare as equal, the table's order is seeded at random and
  `sort.Slice` is not stable: they may be printed either way round (`Results` has
  both orders, and `Answers` asks for no more than ascending keys).
- `ParseAggFunc` (`spec.go:132`) is documented to take p<0-100> and takes `pnan`.
  The measure differs from itself in `specsEqual`, so `cordage run` reads the file
  and then fails in `Merge` when it has more than one worker.
- An infinite value makes a NaN mean in the t-digest (`tdigest.go:118`), where
  `tdigest.go:44-49` only excludes NaN itself.
- A string key that is not UTF-8 works in `cordage run` and fails the whole query in
  distributed mode, when the worker's response is marshalled.
- `common.proto` says that "Columns is always fully populated on the wire", since the
  schema is "already resolved via ingest.LoadSchemaFile"; that function resolves
  nothing, and a schema without columns is sent as it is. Such a query is answered
  only if the file is nothing but a header and one worker reads it; `schema.go:79-82`
  calls inferred columns "enough for count-style queries", which `Aggregator.Add`
  refuses for a file with rows ("batch has n columns, schema has 0").
- A global group over no rows prints nothing, not `count=0`.

Also: `schema.go:73-75` also promises embedded
newlines, `parser.go:80-84` rejects them; `ingest.go:57-61` says skipped line
numbers are relative to the chunk, but a header line is not counted;
`schema.go:107` writes a delimiter above 0x7f as two bytes, which `:119` refuses to
read back; `ingest.go:190` blames the probe window for a file that is only a header
without a newline; `accumulator.go:94-96` calls merging exact, which rounding of
float sums is not (`:103`), and int64 sums wrap (`:61`).

## Not modelled

Flag parsing, formatting of numbers, file and network input/output as such, the JSON
form of a schema, generated code, `gen1brc`, `cordage ingest` (`Ingest` with one
consumer that counts); the truncation of a file while it is read (only growth is); a
failing `ChunkReader` (a `FileSource`'s never fails); `Merge` fails in `RunLocal` as it
does in the code only for specs that differ from themselves (a NaN percentile).

Finite floats are exact in `Aggregation`, `TDigest` and `Engine`: rounding is beyond the
models' integers, and so are infinities in a digest. The estimate of HyperLogLog is
floating-point arithmetic over logarithms; its registers are modelled. `QueryPath` has
no percentiles past the checks that refuse them, and runs the columns of a row without
quoting, which `RowParser` has.

How accurate a quantile is has no property: the distance of an interpolated rank from
the true one is not bounded by the scale function alone when clusters of merged
digests overlap.

## Plan

The order was: what moves rows between goroutines and processes first, then what
happens to a row on the way, then the pure parts and the path through all of them.
Every module of it is written, and every safety invariant the runs check is proved but
two of `QueryPath`. What could be added:

- `QueryPath`: `WorldBlamed`, from the shape of the groups that workers export, which
  always fit the coordinator's aggregator.
- `QueryPath`: `Answers`, from the folds of `Engine` over the rows of a part and over
  the parts, with the relations `Aggregation` uses.
