# A verification project for Dattaniddhi

TLA+ models of the vector database in `src/`, TLC configurations that check
them on small instances, and TLAPS proofs of what matters most. Paths of code
below are relative to `src/internal/` unless they start with `src/`.

## 1. The system

| Part | Code | State | Operations |
|---|---|---|---|
| Write-ahead log | `store/wal/wal.go`, `segment.go` | segment files; `lsn`, `segID`, `activeSegment` under `wal.mu`; `done`, `wg`, `closeOnce` | `NewWAL`, `AppendInsert`, `AppendDelete`, `rotateSegment`, `backgroundSync`, `Close` |
| Log recovery | `store/wal/recovery.go`, `scanner.go` | none of its own | `getAllSegment`, `Recover`, `scanSegmentFile` |
| Log codec | `store/wal/record.go`, `payload_ops.go`, `decoder.go` | none | encode and decode headers, payloads, checksums |
| Collection | `collection/collection.go`, `recovery.go` | `idCounter`, `extToInt`, `intToExt`, `payload` under `c.mu`; the index; the log | `Insert`, `Delete`, `Search`, `Get`, `Close`, `LoadState` |
| Creation and configuration | `collection/collection.go`, `config.go` | `config.json`, the log directory | `CreateCollection`, `OpenCollection`, `saveConfig`, `loadConfig` |
| Linear index | `index/linear.go` | `vectors` under `li.mu` | `Add`, `Delete`, `Get`, `Search`, `Size`, `Dimension` |
| Index configuration, factory | `index/config.go`, `factory.go` | none | validation; `CreateIndex`, which panics for HNSW, IVF and PQ |
| Vectors | `vector/` | none | validation, normalization, similarity in floating point |
| Registry, ingest, embedder | `ingest/`, `embedder/` | a cache of indexes | nobody calls them |
| Command | `src/cmd/vectordb/main.go` | none | create or open with `SyncOS`, wait for a signal, `Close` |

**How they interact.** A client calls the collection. `Insert` and `Delete` hold
`c.mu` for writing, append to the log (which takes `wal.mu`), then change the
index (which takes `li.mu`), then the maps. `Search` and `Get` hold `c.mu` for
reading; `Search` holds `li.mu` for reading and takes it again up to four times.
`backgroundSync` takes `wal.mu` once a second. `Close` takes neither `c.mu` nor
`li.mu`: it closes `done`, waits for the goroutine, and then takes `wal.mu`.
`OpenCollection` reads `config.json`, makes an empty index, opens the log with
`NewWAL` and replays what `Recover` returns into memory.

**What is hard.**

* *Crashes.* Only the log and `config.json` survive. A process may die between
  any two file operations, or inside a `write(2)`; the machine may lose power
  and with it whatever was not fsynced. Rotation, the first segment, the torn
  record at the end and the order in which `CreateCollection` writes its files
  all matter, and one bad segment makes the whole log unreadable.
* *Partial failure.* A write or an fsync may fail after the record is in the
  file; a rotation may fail in any of its three steps and leave a closed file.
* *Ordering and identity.* LSNs, segment ids and internal ids are counted in
  memory and rebuilt from the log; a wrong rebuild shows after several restarts.
* *Concurrency.* Three locks, a goroutine, a `sync.Once` and a `WaitGroup`, and
  read locks taken twice.

**What makes each part correct.** The log: what was acknowledged comes back, in
order, once, after any failure. The collection: what is served is in the log,
the maps and the index agree, ids are never used twice, and clients see a map
that changes only by their operations. Locking: no call waits for ever, and a
Close that met no error leaves nothing unsynced in the active segment. Creation: what exists can be opened,
with the configuration it was created with. The codec: what a scan returns was
written, in that order, whatever is torn or damaged. The index: a search returns
the best vectors there are, and stored vectors never change.

## 2. Modules

| Module | Models |
|---|---|
| `WAL` | the log: appends, rotation, fsync policies, crashes, power loss, reopening and recovery |
| `Segment` | the codec and one segment file, word by word: torn, cut and damaged. Instantiates `WAL` to show that its view of a segment agrees |
| `Collection` | the collection above a log that is a sequence of records |
| `VectorStore` | what a collection promises: a map from ids to items. `Collection` instantiates it (`Store == INSTANCE VectorStore WITH ...`) and implements it |
| `CollectionWAL` | a collection on its segment files: instantiates `WAL` and `Collection`, joins their steps, and implements `Collection` |
| `RWMutex` | `sync.RWMutex`, as operators on a lock's value |
| `Concurrency` | the goroutines, the three locks, `backgroundSync` and `Close`; uses two `RWMutex`es |
| `Lifecycle` | `CreateCollection`, `OpenCollection` and the command that calls them, file operation by file operation |
| `LinearIndex` | vectors, their normalization, the metrics, and the linear index's `Search` |
| `MCWAL`, `MCSegment`, `MCCollection`, `MCCollectionWAL`, `MCConcurrency`, `MCLifecycle`, `MCLinearIndex` | the instances TLC checks |
| `WALProofs` | theorems about `WAL`: what is durable; what is read back and in which order |
| `CollectionProofs`, `FaultProofs` | theorems about `Collection`: consistency and the refinement of `VectorStore`; what holds under all faults |
| `CompositionProofs` | theorems about `CollectionWAL`: the refinement of `Collection`, and through it of `VectorStore` |
| `SegmentProofs`, `ConcurrencyProofs`, `LifecycleProofs`, `LinearIndexProofs` | theorems about the module each is named for |

Three layers answer for the log: `Segment` says what bytes mean, `WAL` builds on
that with chunks and many segments, `Collection` on a plain sequence. The two
steps between them are `Segment!ChunksSuffice` and
`CollectionWAL!ImplementsCollection`, checked and proved.

A definition `Bug_X` stands before some definitions `X`: it is `X` as a plausible
mistake would have it. Replacing `X` by it must violate the property
`PROJECT.json` names beside it, which shows that the property can fail.

### WAL

Sizes are counted in cells of 16 bytes: a segment header is one cell, a record
header two, the shortest record (36 bytes) three. A segment file is its size and
the set of the chunks written to it: a chunk is a record, whole or torn, and the
offset it starts at. What a scan sees follows from that: `EndsInside` says when
`scanSegmentFile` takes a torn record for the end of the file and when it reads
the bytes that were written behind it as the rest of it.

One append is `AppendInsert` or `AppendDelete` (the LSN and the roll-over test)
and then a step per file operation: `SealSegment` (Chmod, Close, `segID++`),
`CreateSegment`, `WriteSegmentHeader`, `WriteRecord`, `SyncRecord`; the steps
`SealUnusable` and `WriteUnusable` are the errors a closed file gives. `wal.mu`
is held throughout, so `stage` says where the one append is. Every file
operation may fail (`IOErrors`). `Close` and `BackgroundSync` need `wal.mu`.
`Stop` and `StopInWrite` are the death of the process at the points
`CrashPoints` names; with `PowerLoss` the machine may stop with it, and
`LoseTail` cuts files behind their last fsync before `PowerOn`. `OpenExisting`,
`CreateFirst`, `FirstHeader` are the two cases of `NewWAL`, and `Recover` the
first thing `OpenCollection` does with the log.

Assumed of the file system: a file that was created or made read-only stays so
across a power failure; what a file loses is its end, cut at a multiple of 16
bytes, and what is left when the power returns is stable; an fsync that failed
leaves data that a later fsync may still write. The process does not run as
root, so a read-only file cannot be opened for writing. Segment ids in
directory entries parse, as the program writes them. When more bytes follow a
torn segment or record header they are taken to spoil it. `Segment` checks this
against the words: it fails only for a header torn after 16 bytes behind which a
record is written whose length happens to have 1, 2 or 3 as its lowest byte, so
that it reads as the operation type that is missing. The mixed record is then
refused by its checksum, or taken for a torn end.

History variables: `acked` is what returned nil; `promised` is what the code has
told its caller to be on the disk: each append under `SyncAlways`, and
everything acknowledged before a `Close` that returned nil.

### Segment

A word is 8 bytes and holds one field of a header, a length mark, an id, a number
or the checksum. `encode` and its parts write words, `decodeRecordHeader`,
`decodeInsert` and `decodeDelete` read them with the code's bounds checks, `scan`
is the loop of `scanSegmentFile` as a recursive function of the offset, and `walk`
that of `getLatestLSN`. The file is appended to whole (`AppendRecord`) or in part
(`TornAppend`, after which the process dies or goes on), loses its end
(`PowerLoss`), or has one word damaged (`Damage`), and is opened again if it scans.
The checksum is the sequence of the words it covers, so that no other words have
the same; how bytes of one field read as another (behind a torn header) is given
by the operators `AsMagic`, `AsLength`, `AsOp` and `AsLsn`.

### Collection

`Insert`, `Delete` and `LoadState` hold `c.mu` throughout, so one that completes
is one step: `InsertOK`, `InsertFails`, `InsertCompensated`, `InsertClosed`,
`DeleteOK`, `DeleteFails`. A stop between an append and the change of memory is
a step of its own. A failing append leaves no record, or (`LogFaults` contains
"present") leaves it: that is an fsync error in module WAL. `LossyStop` lets a
stop lose the end of the log. `LoadState` is a step per record. Validation that
fails changes nothing and is left out; so are `Search` and `Get`, which change
nothing, and whose answers the properties speak about. Payloads turn into JSON
trees when they are replayed, and vectors are normalized on both paths (`JSON`,
`Unit`).

### CollectionWAL

The variables of both modules, and `contents`: what the n-th append was to write.
`Insert` and `Delete` begin an append with what the collection's memory says, its
steps are `WAL!CallStep`, and the one that ends it changes memory
(`AppendReturnsNil`) or not (`AppendFails`); a `Stop` takes both parts down. `Open`
is `NewWAL` and `Recover`; the replay reads `Log`, the records that `Recover` finds
in the segments. `Log` is also what Collection's variable `log` is mapped to, so
that `ImplementsCollection` says: whatever happens between two file operations, the
segments read back are a sequence to which the record is appended whole or not at
all, at the moment Collection says. Memory that `Finish` overwrites without looking
would be noticed, too: Collection has no step in which `index.Add` refuses an id
here. An append that fails leaves its record only if what failed is the fsync behind
the write (`AppendFaults`). The machine keeps its power in this module and no write is torn, since the
departures `WAL_torn_append` and `WAL!ReopenScans` start there; an empty or
headerless segment, a read-only one, and every error but that of `write(2)` are in.

### Concurrency

A step is what a goroutine does between two operations on locks. `RWMutex` has
what a deadlock depends on: a writer that waits keeps new readers out, and a
goroutine that reads twice counts twice. `Close` is `StartClose` (`once`,
`done`), `AwaitBackground` (`wg.Wait`, then `wal.mu`), `Flush`; a second caller
waits in `CloseAgain` until the first is over. With `ThroughCollection = FALSE`
goroutines call the index itself, as `index/linear_test.go` does. `Peek` stands for
`GetIdCounter`, `IDCounter`, `ExtToInt` and `IntToExt`, which take no lock.

An append may find the segment full, whatever its size, and then seals it: `sealed`
has the records that rotation closed without an fsync. An fsync reaches the records of
the active segment (`Active`) and no others, in an append under `SyncAlways`, in the
tick and in `Close`. The fsync of a tick may fail, and nobody is told. That of `Close`
may fail too, and so may the closing of the file behind it; the file is nil after
either, and the error is what this `Close` answers. A later `Close` answers nil in any
case, since `closeOnce` is over. `closed` has the answers given, and `flushed` says that
the fsync succeeded: an fsync that succeeds is taken to bring the whole of its file to
the disk, one that failed before it notwithstanding. Errors of an append or of its
rotation are left to WAL.

### Lifecycle

`config.json` is absent, torn or a configuration: `os.WriteFile` truncates
(`TruncateConfig`) and writes (`SaveConfig`). The log is its first segment and
the number of headers in it. A caller's program counter walks through
`CreateCollection` or `OpenCollection`; `FileError` and `Stop` may end it before
any file operation, `Panic` is the factory's for an index type without
implementation. `Main` is the command: a create that turns into an open when
there is something already. Callers run beside each other; the history variable
`raced` says that two calls overlapped before the collection was first returned,
the only case in which `CreatedOpens` and `SchemaLocked` promise nothing. Power
loss is left to WAL.

### LinearIndex

A float is an integer number of `1/One`, and the vectors are such that every
division of a normalization comes out even (`ExactAssumption`): what is checked
does not depend on rounding. Numbers beyond `MaxFloat` are infinite, as `float32`
is. A heap gives each slice its values, so that a slice that is shared instead of
copied can be written through; the caller has one buffer that it fills, passes and
reuses. `Search` follows the code's order of checks (an empty index before the
arguments), and ranks in any order that the sort may produce from any order of a
map's iteration.

## 3. What is checked

Runs that pass:

| Run | Properties | What it shows |
|---|---|---|
| `WAL_durable` | `TypeOK`, `PromisedDurable`, `RecoveredInOrder`, `SegmentLsnAscending`, `TornTailDiscarded` | `SyncAlways`, every crash point, power loss, every I/O error: nothing promised is lost, nothing is reordered, and a torn record that nothing was written behind costs no acknowledged record |
| `WAL_restart` | `RecoversEveryAck`, `LsnAscending`, `SegmentBound`, `ReopenAppends`, `ActiveEventuallySynced` | `SyncEverySec`: a process that dies with whole records and whole segments on the disk goes on where it ended; the ticker reaches every acknowledged record of a segment that is not sealed |
| `Segment_scan` | `TypeOK`, `NoForgery`, `TornTailDiscarded`, `DamageRefused`, `LsnFresh`, `ChunksSuffice` | a scan returns a prefix of what was written and nothing else, gives every whole record back when only the end is torn, refuses a damaged record (its length field excepted), and the LSN goes on behind what it finds; WAL's chunks say the same as the words |
| `Collection_store` | `MapsAgree`, `CounterCoversLog`, `IdsUnique`, `OpenSucceeds`, `AckedServed`, `ImplementsStore` | the collection refines `VectorStore`; the maps agree at every step of a replay, no internal id is used twice, every log replays; nothing acknowledged is lost, nothing deleted returns |
| `Collection_faulty` | `TypeOK`, `WriteAhead`, `OwnVector` | even with failing fsyncs, repeated `LoadState`s and stops that lose the end of the log nothing is served that the log lacks, and each document under its own vector |
| `CollectionWAL_compose` | `TypeOK`, `AckedOnDisk`, `ImplementsCollection` | on its segments, with rotations, deaths and errors between any two file operations, a collection behaves as on a sequence; what it acknowledged is on the disk also while the log cannot be opened |
| `Concurrency_calls` | `TypeOK`, `SearchTranslates`, `ClosedDurable`, `EveryCallReturns` | two goroutines and the ticker: `Search` never reports corruption; when a `Close` has returned, the file and the goroutine are gone and, if its fsync succeeded, every acknowledged record is fsynced or in a segment sealed by rotation; and nobody waits for ever for `c.mu`, `li.mu`, `wal.mu`, `wg` or `once` |
| `Lifecycle_create` | `TypeOK`, `CreatedOpens`, `SchemaLocked` | two callers, deaths and errors anywhere: a collection that was returned opens ever after with the same schema, unless calls overlapped its creation |
| `LinearIndex_search` | `TypeOK`, `BestK`, `ClosestFirst`, `MetricsAgree`, `Immutable` | whatever the ties and the lengths of the vectors passed, `Search` returns min(k, size) best ones, best first, under each metric the same ranking; a stored vector never changes |

Runs in which the code departs from what a comment, a doc or a test says; each
checks one property, and the departure is the counterexample:

| Run | Property | What happens |
|---|---|---|
| `WAL_torn_append` | `RecoversEveryAck` | torn record, restart, append behind it: the log cannot be read any more (`recovery_test.go:147`) |
| `Collection_failed_sync` | `OpenSucceeds` | an insert with a failed fsync, another insert: two records with one id, and the log does not replay (`collection.go:177`) |
| `Concurrency_getters` | `NoRace` | `GetIdCounter` or `ExtToInt` beside an Insert about to change the counter and the maps (`DESIGN.md:49`). Without the getters `NoRace` holds for the same calls |

**How the two kinds fit together.** The passing runs of WAL say what holds in
spite of the departures. `WAL_durable` includes every crash point: its
properties are about what is on the disk, and about logs in which tears are at
the ends and every segment has its header. `WAL_restart` leaves out the crash
points "tear", "create", "header" and "write", from which the departures start,
and so shows that there are no others.

**Further departures.** The code does not have these properties either, which
the modules state. No run is kept for them; each has a short counterexample in the
instance given here (other constants as in `WAL_torn_append`, `Collection_faulty`,
`Concurrency_calls`, `Lifecycle_create` and the one run of each other module):

| Property | Instance | What happens |
|---|---|---|
| `WAL!PromisedDurable` | `SyncPolicy = "SyncOS"`, `PowerLoss`, `CrashPoints = {"idle"}`, no I/O errors | Close does not fsync the segments that rotation sealed (`wal.go:344`) |
| `WAL!ReopenAppends` | `CrashPoints = {"create"}` | a stop between Chmod and the next segment leaves a read-only latest segment; NewWAL fails from then on (`segment.go:71`) |
| `WAL!ReopenScans` | `CrashPoints = {"header"}`, or `InsertSizes = {9}` with `{"idle"}` | a segment without header, or a record longer than a segment (`decoder.go:58`): Recover fails from then on |
| `WAL!LsnAscending` | `CrashPoints = {"write"}` | a stop between the header of a new segment and its first record: the LSNs start over at 1 (`recovery_test.go:195`) |
| `CollectionWAL!AckedOnDisk` | `IOErrors` with `"write"` | as `WAL_torn_append`: an append goes behind a torn record, and what follows is not read back |
| `CollectionWAL!Col!ImplementsStore` | as `CollectionWAL_compose` | as `Collection_failed_sync`, on segments: an operation that returned an fsync error takes effect at the next restart (`wal.go:240`). It holds with `SyncEverySec`, and without `"sync"` in `IOErrors` |
| `WAL!EveryAckSynced` | `FairSpec`, `SyncEverySec`, `CrashPoints = {}` | nothing fsyncs a segment that was sealed before the next tick (`wal.go:362`) |
| `Segment!LengthDamageRefused` | as `Segment_scan` | a damaged length that points behind the end of the file is taken for a torn record: it and all behind it are dropped without an error (`scanner.go:68` against `recovery_test.go:127`) |
| `Collection!ReloadSucceeds` | as `Collection_faulty` | a second LoadState meets its own index (`collection/recovery.go:18`) |
| `Concurrency!SearchesReturn` | `FairSpec`, `ThroughCollection = FALSE`, `Calls = {"insert", "delete", "search"}`, three calls | a writer waits between two read locks of one Search on the bare index: deadlock (`linear.go:81` against `DESIGN.md:48`) |
| `Concurrency!NilMeansFlushed` | as `Concurrency_calls` | the fsync of a `Close` fails; the second `Close` answers nil, though acknowledged records are not on the disk (`wal.go:332` against the comment at `wal.go:347`: "we return the sync error so the caller knows the disk failed") |
| `Lifecycle!CreatedOpens` | one caller, `DataTypes = {"Text", "unset"}` | a collection without data type is created and cannot be opened (`collection.go:42` against `src/README.md:18`) |
| `Lifecycle!ExistsOpens` | as `Lifecycle_create` | a config.json with no collection behind it that opens (`collection/config.go:16`) |
| `Lifecycle!OneHeader` | as `Lifecycle_create` | both callers pass the Stat, and segment 1 gets two headers (`wal.go:94`) |
| `Lifecycle!SchemaLockedInRaces` | as `Lifecycle_create` | the slower of two creators overwrites the schema of a collection that the other one was given |
| `LinearIndex!ClosestFirst` | `MaxFloat = 9` | a vector of finite numbers whose magnitude is none becomes the zero vector, which a search in its own direction does not find (`normalize.go:16` against `DESIGN.md:31`) |

**Bounds.** In `WAL_durable` a segment holds 10 cells: a header, an insert (6) and
a delete (3) fill it exactly, two inserts rotate, and a delete written behind the
torn header of an insert may end inside that insert. In `WAL_restart` it holds 8,
and inserts of 4 and 5 meet the roll-over test at its boundary and on both sides of
it. Four appends over five segments, two stops and two errors are enough for a
rotation that fails, a stop in the next one, and an append and a stop after that;
each departure above needs at most three appends and two stops.
`CollectionWAL_compose` has the same four appends and two stops, one error and three
ids: insert, rotation, delete, a failure, restart, and an insert after it.
`Segment_scan` has three appends of two inserts and a delete of different lengths,
one of them torn at any word, one lost tail and one damaged word, before or after a
restart. Collections have three ids, two items, a log of five records, two stops
and one fault: insert, delete, a failed operation, loss, replay, and the operations
after it. Concurrency has two goroutines beside
`backgroundSync` and four calls: a reader inside and a writer that waits, an
insert in flight while the log is closed, two Closes at once, a rotation between two
appends, an fsync that fails, and calls after them. A delete names a document of a
call begun so far, or none. Larger instances give the same answer: the invariants with three goroutines
and four calls, liveness with three goroutines and three inserts, searches or closes.
Lifecycle has two callers, two dimensions, so that a schema can change, and three
stops. `LinearIndex_search` has three ids and vectors of four directions and three
lengths, two of which tie, the zero vector, an infinite one, one of another
dimension, and k from 0 to one more than the index can hold. Ids and items
are interchangeable, and `Collection_faulty` and `Collection_failed_sync` use that
symmetry; runs with a temporal property use none.

`CHECK_DEADLOCK FALSE` is set because bounded clients come to an end, and
because a process that is down may stay down; that no call waits for ever is
checked as a liveness property.

**Fairness.** `WAL!FairSpec`: a call that was begun runs on (the goroutine is
scheduled), and `BackgroundSync` gets `wal.mu` although appenders keep taking it:
a Go mutex hands itself to a waiter that starved for a millisecond, hence strong
fairness. No new call, close or stop is assumed to happen.
`Concurrency!FairSpec`: the same for every client's steps; weak fairness for the
goroutine's steps under the lock; strong fairness for `BackgroundStop`, since
`select` chooses uniformly among cases that are ready. The ticker itself is not
fair: nothing depends on it there.

## 4. What is proved

Every property of the passing runs that does not speak of fairness is a theorem. All
proofs are for every value of the constants that the named assumptions of the
modules allow, so for any number of appends, stops, faults, goroutines and
documents. A hypothesis of a theorem (in the third column) excludes behaviour the code
does have: without it TLC finds the property violated, in a run above, in a row of
the table of further departures, or on an instance like `WAL_restart` with the
fault in question. Three are wider than needed as far as TLC can see: with
`CrashPoints = {"idle", "tear"}` `LsnAscending` holds on that instance, and the
theorem excludes tears; with `IOErrors = {"write"}` `TypeOK` and `AckedServed` hold
on the instance of `CollectionWAL_compose` (a log that a torn record spoils is not
opened), whereas `ImplementsCollection`, `AckedOnDisk` and `ImplementsStore` do not.

| Theorem | Property | Hypothesis |
|---|---|---|
| `WALProofs!TypeCorrect` | `TypeOK` | |
| `WALProofs!Durable` | `PromisedDurable` | `SyncAlways` |
| `WALProofs!InOrder` | `RecoveredInOrder` | |
| `WALProofs!LsnsAscend` | `SegmentLsnAscending` | |
| `WALProofs!Reopens` | `ReopenAppends` | no death, failed close or failed create between a seal and the next segment |
| `WALProofs!SizeBounded` | `SegmentBound` | no write fails |
| `WALProofs!TornTail` | `TornTailDiscarded` | records fit a segment; `SyncAlways` or no power loss |
| `WALProofs!AcksRecovered` | `RecoversEveryAck` | no torn record, no segment left without header; records fit |
| `WALProofs!LsnsAscendAcross` | `LsnAscending` | no torn record, no death between a new segment's header and its first record |
| `CollectionProofs!TypeCorrect` | `TypeOK` | |
| `CollectionProofs!MapsStayAgreed`, `CounterStaysAhead`, `IdsStayUnique`, `ReplaySucceeds` | `MapsAgree`, `CounterCoversLog`, `IdsUnique`, `OpenSucceeds` | `CleanFaults` |
| `CollectionProofs!Implements` | `ImplementsStore` | `CleanFaults`, stops lose nothing of the log |
| `FaultProofs!LogAhead` | `WriteAhead` | |
| `FaultProofs!KeepsOwnVector` | `OwnVector` | |
| `FaultProofs!AcksKept` | `AckedServed` | no second LoadState, stops lose nothing of the log (`KeepsLog`) |
| `CompositionProofs!Implements` | `ImplementsCollection` | no write of a record fails half way (`NoTornWrite`) |
| `CompositionProofs!TypeCorrect`, `AcksStayOnDisk` | `TypeOK`, `AckedOnDisk` | the same |
| `CompositionProofs!ServesAcks` | `Collection!AckedServed`, on segments | the same |
| `CompositionProofs!ServesStore` | `Collection!ImplementsStore`, on segments | the same, and no fsync of an append fails |
| `SegmentProofs!InvariantHolds` | what the other six rest on | |
| `SegmentProofs!TypeCorrect`, `NothingForged`, `TornTailIsDiscarded` | `TypeOK`, `NoForgery`, `TornTailDiscarded` | |
| `SegmentProofs!DamageIsRefused`, `LsnIsFresh`, `ChunksAreEnough` | `DamageRefused`, `LsnFresh`, `ChunksSuffice` | |
| `ConcurrencyProofs!TypeCorrect` | `TypeOK` | |
| `ConcurrencyProofs!TranslatesAlways` | `SearchTranslates` | |
| `ConcurrencyProofs!DurableOnceClosed` | `ClosedDurable`, which excepts sealed segments and a failed fsync | |
| `ConcurrencyProofs!OnlyGettersRace` | `NoRace` | no getters that take no lock |
| `LifecycleProofs!TypeCorrect` | `TypeOK` | |
| `LifecycleProofs!OpensEverAfter` | `CreatedOpens` | every configuration has a data type |
| `LifecycleProofs!SchemaKept` | `SchemaLocked` | |
| `LinearIndexProofs!TypeCorrect` | `TypeOK` | |
| `LinearIndexProofs!VectorsKept` | `Immutable` | |
| `LinearIndexProofs!SearchIsBest` | `BestK` | |
| `LinearIndexProofs!AnyMetricRanks` | `MetricsAgree` | no magnitude overflows (`FiniteMagnitudes`) |
| `LinearIndexProofs!SameDirectionFirst` | `ClosestFirst` | the same |

Hardly any of these properties is inductive as it stands. The arguments:

**Durable.** The record of the append that is about to be fsynced must be in the
active segment, whole, behind what was synced before; an fsync covers all of its
file; what an append acknowledged is whole and synced already, so that a Close adds
nothing that is not on the disk; and a power failure cuts no file before its last
fsync. The invariant says each of these, and the proof has one step per action.

**The order of the log** (`WALProofs`). In every file the chunks lie end to end
behind the header (`Layout`), and what `stage` says of the one append agrees with
the files (`ControlInv`). A step then does one of two things to the disk: it writes
one chunk behind everything in the latest segment, or it leaves of every file a
prefix. That the tags and the LSNs ascend (`TagsInv`, `LsnInv`) is kept by both,
whatever the fault, which is why `InOrder` and `LsnsAscend` need no hypothesis; the
LSN of a new process is computed from the file and covers all that is whole in it.
The other five need a further invariant each: a read-only segment has another
behind it, but for the moment between its seal and the next one's creation
(`ReopenInv`); `currentSize` is the size of the file (`BoundInv`); the whole record
of every acknowledged append is in some segment (`KeptInv`); no file holds a torn
record and each has its header (`WholeInv`, `HeadersInv`); LSNs ascend over the
segments, `wal.lsn` is behind none of them, and the latest segment, by which
`getLatestLSN` goes, is not left empty (`AcrossInv`). A failed `close` or `create`
after the seal has the effect of a death there, a failed header that of a death
before the header, and a failed write leaves bytes that `currentSize` does not count
(`segment.go:109`): hence the hypotheses on `IOErrors`.

**The collection.** `CleanFaults` says that failing appends leave no record and
that LoadState is not called on a loaded collection. Then `MapsAgree`,
`CounterCoversLog` and `IdsUnique` are inductive only together and with two
more: whatever the maps serve has its insert among the records memory has seen
(`InsertSeen`), and memory is empty while the process is down, and has seen no more
than `cursor` records while it loads (`PhaseOK`). That internal ids are not reused
rests on the counter, that the counter is right rests on the replay, and that the
replay gets to the end rests on the ids. `Collection_failed_sync` and
`ReloadSucceeds` show that neither half of `CleanFaults` can be dropped.

**The refinement** (`CollectionProofs`). The documents of the abstract store are a
function of the log alone: the inserts that no later record deletes (`Live`).
Memory serves what the part of the log it has seen says (`Serves`), so a replay
step, a stop and an open change nothing a client sees, and each Insert, Delete or
cut-off append maps to a step of `VectorStore`. `ItemAssumption` (an item is not the
JSON tree of one) keeps the payloads of the two kinds apart.

**Under all faults** (`FaultProofs`). An append that failed but left its record
lets the next insert log the same id again, and a second LoadState replays over an
index in use, so that ids are not unique and the maps and the index do not agree.
Still nothing is served that the log lacks, because such a log is never replayed
past the second insert of an id in use, and a collection whose reload failed at an
id it holds already can insert no more.

That acknowledgements are kept (`AcksKept`) is inductive with what failed appends do
to log and memory (`AckInv`): the two may disagree only about documents on which an
operation failed or was cut off. A failed delete that left its record cancels its own
document and no other, since ids in memory are injective both ways and the counter
has reached every id of the index; a failed insert that left its record shares its id
at most with the next insert, and a delete of that id in the log is a delete of a
document that memory holds. The theorem needs no more than that the log is not
shortened and not replayed over an index in use.

**On segment files** (`CompositionProofs`). The tags of the chunks order them as
`Before` does, so that `Log` is the contents of the appends that landed. A step of the
append writes one chunk behind all others, which makes the record the next of `Log` at
the moment the append ends (or the process dies while it waits for the fsync), or it
leaves what is read back alone; everything else a step does to the disk (seals,
headers, new files, syncs) is invisible in `Log`. The invariant `Together` has four
parts: what the theorems about `WAL` know of the files; that every chunk's content was
noted; `AckInv` for the collection on `Log`; and `Linked`, that both parts are up, down
and closed together and that the append in progress writes what memory still says.
From it each action maps to one of `Collection` or a stutter, and the invariants of
`Collection` hold of `Log` because its steps are steps of `Collection`. Then the
theorems about `Collection` apply as they stand: `ServesAcks` and `ServesStore` follow
from `Implements`, `FaultProofs!AcksKept` and `CollectionProofs!Implements`, and lead
from the file operations to what a client sees.

**The words of a segment** (`SegmentProofs`). The invariant says of every word of the
file which append wrote it, or that it is the damaged one: chunks lie end to end behind
the header, whole or torn, and those that nothing torn or damaged stands before are
numbered through. `scan` and `walk` are recursive functions of the offset; what holds
at every offset they come to is proved by the smallest or largest number at which it
would fail, in the place of an induction. The core is `Checked`: a checksum that is
right was written as such, so where the scan finds a record, a whole one stands, and
nothing else is ever returned, not even when bytes behind a torn record are read as the
rest of it. Conversely an undamaged whole record passes all checks and leads to the next
chunk, so that the scan returns all records before the first that is torn or damaged;
there the length, the magic, the checksum or the decoder stops it, or the end of the
file does. `ChunksSuffice` compares words with cells of two: where all lengths are even
a cut falls into the same chunk on both sides.

**Goroutines** (`ConcurrencyProofs`). Who holds `c.mu`, `li.mu` and `wal.mu`
follows from where each goroutine is; so the index is a subset of the map that
translates its ids while anyone reads them. What is acknowledged is in the log, and
after the work of `Close` nothing is appended or sealed; so its fsync, if it succeeds,
leaves no acknowledged record unsynced outside the sealed segments, also of calls that
return after it. The theorem says nothing of those segments: under `SyncEverySec` and
`SyncOS` they hold acknowledged records that no `Close` fsyncs, the row of
`WAL!PromisedDurable` above.
`ClientAssumption` says that the background goroutine is none of the callers.

**Creation** (`LifecycleProofs`). What each caller knows of the disk at each
program counter; that segment 1 exists once anyone writes its header; and, as long as
calls did not overlap, that there is one configuration on the disk and it is the
one of the caller at work. `BoundAssumption` says that the callers are finitely
many.

**Search** (`LinearIndexProofs`). `Sum` folds over the subsets of a function's
domain; what it computes is proved with the smallest subset for which it would be
wrong (`SmallestSubset`), which takes the place of an induction. From that: sums are
integers, linear, and not less than a term when no term is negative. Every vector on
the heap keeps an integer magnitude that divides it (`Exact`), so scores are
numbers that compare; the ranking is a bijection of positions and ids, and `BestK`
counts. For the other two, all stored vectors and queries are unit vectors: then
the Euclidean score is `2 (u.q) - 2`, no unit vector is closer to one than itself,
and two vectors have the same normalization exactly if they are parallel. With
a magnitude beyond `MaxFloat` a stored vector is zero, and both fail.

**Assumptions on constants** are those that TLC checks in every run: sizes, policies
and fault names are of the kinds the code has; in `Segment` a segment has room for its
header, there are fewer records than the number that magic bytes give when they are
read as an LSN, and a payload is what one of the two encoders takes
(`PayloadAssumption`); `CollectionWAL` repeats those of `WAL` and of `Collection`
(`LogAssumption`, `ItemAssumption`).

**Only model-checked.** Liveness under fairness (`ActiveEventuallySynced`,
`EveryCallReturns`), which is beyond the proof system used here.

## 5. What is not modelled

* CRC collisions and the values of single bytes: `Segment` has an ideal checksum
  and words that hold one field. More than one damaged word.
* Rounding of floating point, and the numerical effect of `float32` storage:
  `LinearIndex` computes with vectors for which everything is exact.
* Power loss and torn writes under a collection: in `WAL` and `Segment`, and as the
  lost end of the log in `Collection`, but not in `CollectionWAL`.
* A caller that changes a payload it passed to Insert or got from Get: the code
  keeps the caller's own value (`collection.go:205`), which is opaque here.
* The registry (a cache that nobody constructs), the embedder and the ingest
  interface (without implementation), the id generator in `collection/id.go`, and
  the constants of `types/`.
* Tests, benchmarks and docs, except as the text properties are held against.

## 6. Plan

Done: the log, its codec, the collection above it, the composition of both and the
abstract promise, locking, creation and the command, vectors and the index, and the
theorems of section 4, which state every safety property of the passing runs. What
could be added:

1. power loss and torn writes in `CollectionWAL`, with a collection whose log may lose
   its end (`LossyStop`);
2. several callers of a collection on its segments, which needs the locks of
   `Concurrency` in `CollectionWAL`.
