# A TLA+ verification of LumoDB

LumoDB (`src/`) is an embedded exact-key store: append-only value files, memory-mapped open-addressing
indexes, no deletion, no transactions. This directory holds TLA+ models of its parts, the TLC runs that
check them on small instances, and TLAPS proofs, for every instance, of the row path (structure,
counters, reads and the refinement of an abstract map), of the object path through failures, crashes and
rebuilds, of the row files across sessions, and of Open, Flush and Close. Line numbers refer to
`src/src/lumodb/database.cpp` unless another file is named, `README.md` to `src/README.md`.

## 1. Inventory

| Component | State | Operations | Hard because | Correct when |
|---|---|---|---|---|
| Row path | row index buckets (`state`, identity, offset, size), `itemCount`, `nextSequence`, `rowPendingInsertCount_`, one append offset per shard, shard files | `PutRowStructs`, `PutRowStruct`, `GetRowStruct` | any number of threads, no lock, retries, torn snapshots, errors between reservation and publication | no row twice, every row reachable, reads return what was there, slots come back, calls return |
| Row block | key table, keys and values inside a block | `BuildRowBlockLayout`, `WriteVAllAt`, `FindValueInRowBlockAt`, `DecodeRowBlockEntries`, the merge of `PutRowStruct` | collisions, repeated and empty keys, partial writes across vectors | a key finds its last value, a listing sees the same row |
| Row recovery | shard files, row index file between sessions | `OpenRowValueFiles`, `OpenRowIndexFile`, `RebuildRowIndexFromValues`, `ResizeRowIndex` | holes and cut blocks of parallel writers, shard order, changed options, a rebuild that fails half way | acknowledged rows read back, sequences are not reused |
| Object path | `values.lumov`, `index.lumoi`, `appendOffset_` | `PutStruct(s)`, `PutUniqueStructs`, `GetStruct`, `EnsureCapacityForInsert`, `ResizeIndex` | batches fail half way; the index is resized in place | acknowledged objects read back; the index names records of its hashes |
| Object recovery | the same files between sessions | `Open`, `OpenIndexFile`, `RebuildIndexFromValues`, `Close` | process death between two stores, a missing or half-built index, a cut tail | reopening answers what was acknowledged |
| Migration | temporary file, value file, index file | `MigrateLegacyValueFile` | crash between copy, rename and removal | old objects survive |
| Lifecycle and durability | descriptors, mappings, page cache against disk | `Open`, `OpenReadOnly`, `Flush`, `Close` | calls that fail half way, retries, loss of power | nothing half open; what a Flush through all files reported stays in the data files, and in the indexes but where a filling is cut; values reach the disk before the index |
| Diagnostics | none of their own | `Dump`, `DumpColumn`, `GetColumnStats`, `GetMany` | they go through buckets, lookups probe | both tell the same story |
| Hashing, benchmark, schema | none | `HashString`, `MixHashes` | | |

Row and object path share only the `Database` object and its directory; they touch different files, so
their models are composed in one place only, where they meet: `Lifecycle` has all files, with a record
count for the content of a data file and the set of records that it names for that of an index.
Row calls of distinct rows may run in parallel and calls that write one row are serialized by the caller
(`README.md:201-203`); object calls are serial (`README.md:149`).

## 2. Modules

| Module | What it is |
|---|---|
| `RowIndex` | the row path of an open database, one action per atomic access |
| `RowMap` | the abstract specification of the row API: a map, written at one instant |
| `RowIndexProofs` | `RowIndex`: buckets, walks, blocks, insert slots and counters |
| `RowReadProofs` | `RowIndex`: what a read answers |
| `RowMapProofs` | `RowIndex` implements `RowMap` |
| `LifecycleProofs` | `Lifecycle`: open files, filling of indexes, durability, read-only sessions |
| `RowRecoveryProofs` | `RowRecovery`: sequence numbers, what a rebuild rejects |
| `RowLookupProofs` | `RowRecovery`: what the index names, what is dumped, what survives |
| `ObjectStoreProofs` | `ObjectStore`: types, where records lie, counted buckets, room in the index |
| `ObjectReadProofs` | `ObjectStore`: what the index names, what is read and dumped, what survives |
| `RowBlock` | the bytes of a row block: layout, partial writes, lookup, listing, merge |
| `RowRecovery` | the row files across sessions: parallel writers cut down to the steps a file can be left behind in, crashes, rebuilds, changed options |
| `ObjectStore` | the object path, its recovery, migration, read-only sessions, I/O errors and process death |
| `Lifecycle` | Open, Flush and Close over all files, the indexes filled in place, with page cache and loss of power |
| `MCRowIndex`, `MCRowBlock`, `MCRowRecovery`, `MCObjectStore`, `MCLifecycle` | constants for TLC |

`RowIndex` takes a block as a map from keys to values; `RowBlock` shows that the bytes in the file are
one. `RowRecovery` takes the insertion of a bucket as claim, publish and count; `RowIndex` shows what
happens between these.

Operators whose name has a suffix (`ClaimFilled_Store`) are mutants: a plausible bug in the definition
they are named after. Each property of each passing run has one that breaks it (`PROJECT.json`).

### RowIndex

Each thread has a `pc` and the locals of the running call. Shared are the buckets, the counters, the
append offsets and `file`, the set of complete blocks. A (column, rowId) pair is a `Row`; what a bucket
stores of it (column hash and row id) is its `Ident`, and two rows may have one identity. The hash is any
function: `StartOf` gives the first bucket, `ShardOf` the shard.

| Code | Actions |
|---|---|
| `ReserveRowIndexInsertSlot` 2056-2074 | `LoadItemCount`, `LoadPending`, `ReserveSlot`, `ReserveRetry` |
| `WriteRowStructs` 463-545 | `NextRowSequence`, `ReserveOffset`, `WriteBlock`, `WriteBlockFails`, `IncrementRowItemCount`, `Return` |
| `LoadRowBucketSnapshot` 2080-2112 | `LoadFilled`, `LoadIdent`, `LoadOffset`, `LoadSize`, `RecheckFilled`, `SeeWriting` |
| `FindRowBucket` 2233-2282, `LoadRowEntries` 1706-1740 | `MissRow`, `MissRowForPut`, `PassForeignIdent`, `MatchRow`, `MatchForeignColumn`, `LoadRowEntries` |
| `RowBlockMatches`, `DecodeRowBlockEntries`, `FindValueInRowBlockAt` | `Matching`, `ReadCorruption`, `ReadFails`, `ReadValue` |
| `InsertOrUpdateRowBucket` 2161-2231 | `InsertSeesEmpty`, `ClaimEmpty`, `ClaimFilled`, `ClaimFails`, `StoreIdent`, `StoreOffset`, `StoreSize`, `PublishBucket` |

Folded together: the loads and stores of `shardId`, `columnHash` and `rowId` (one identity, never changed
once a bucket is claimed), the stored `sequence` (read by nothing on this path), and reading a block (its
range is written once, before any bucket names it). "row index table is full" is the status `TableFull`.
`reserved` is released at `Return` on every path, as each early return of `WriteRowStructs` does. The
argument checks that change nothing (not open, read-only, oversized column) are left out.

Memory is sequentially consistent. The code reads bucket fields with relaxed loads, so a field may be
seen later than its place in the program; the effect, a snapshot with fields of two publications, already
occurs here when a whole replacement falls between two loads.

History variables, read by no guard: `holds` (the row a bucket was claimed for), `seen` (contents of the
call's row during the call), `disturbed` (a row of the same identity was replaced during the call).

### RowMap

A row is a content; a write takes effect once between call and return; a read returns a content of its
row during the call; a failed call changes nothing. `RowIndex!ImplementsRowMap` maps a row to the block of
its bucket, or to the content of the thread that has claimed the bucket: the claim is the point where a
write takes effect, since no reader can see the old block any more from there on.

### RowBlock

One row, one thread. The shard file is a sequence of cells: a block header, one cell per key bucket, and
bytes. Keys and values are sequences of bytes. `PutRowStructs` and `PutRowStruct` start a layout,
`PlaceEntry` places one entry (1764-1806), `FinishLayout` orders the values, makes the header and reserves
the range (1808-1836, 500-513), `PWriteV` is one `pwritev` that writes any number of bytes from one up
(`file.cpp` 236-264), `FinishWrite` makes the row's bucket name offset and size of the block. The smallest
table is `MinBuckets` instead of 16, so that it fills up. History: `expected`, the row as a function from
keys to values.

Reads are operators over the file and answer a status too: `RowBlockMatches` (2284-2318), `FindValue`
(1838-1905) and `DecodeRowBlockEntries` (1635-1704) are Corruption where the code's checks make them so: a
read past the end of the file, an invalid header or one of another row or size, other column bytes, a
bucket state that is neither empty nor filled, a key or value outside its bytes (`InBlock`, exact for an
empty key that begins where the key bytes end), an item count that is not the number of filled buckets.
`GetRowStruct` passes such an answer on; `PutRowStruct` (425-434) then writes no block and `FinishWrite`
(2205-2208) names none. `LookupAgrees` and `DecodeAgrees` say that it never comes to that.
A cell that is no key bucket reads as a bucket in an invalid state, one that was never written as zeros.
The mapped reads of a read-only session, which check offsets against the mapping (999-1004), are left out.

### RowRecovery

A shard file is a sequence of cells, a block is three of them (header; key table and column; keys and
values), so that a cut may fall into each part; what was never written in front of something that was
reads as a hole. The value of a block is the number of the call that wrote it. Threads run
`PutRowStructs` (slot, sequence, range), `WritePiece`, `WriteBlock` or `WriteBlockFails`, `ClaimBucket`,
`PublishBucket`, `FinishWrite`. `Open` is `OpenRowValueFiles` 1230-1297 and `OpenRowIndexFile` 1299-1341
with any options of a set; a rebuild is `ClearIndex`, `CreateEmptyRowIndex`, then `ScanBlock` per block,
with `ScanGrows` and `PlaceExistingRowBucket` where the index doubles (1978-2029), and `ScanFails`. Two
errors are left out, since they leave the files as a process death at the same place does: a failed
`ftruncate` or `mmap` in `CreateEmptyRowIndex` (1384-1391), and a failed read of the old block in
`InsertOrUpdateRowBucket` (2205-2208), with the new block whole in the file and unnamed. A
bucket and its count are one step there: a process that dies between the two leaves an index that is
rejected and rebuilt. `ftruncate` and `memset` are one step too, for the same reason.

History: `acked` and `maybe` as below, `used` and `drift` (the shard counts that blocks were written
under), `suspect` (the index comes from a build that was cut, that failed, or that scanned a torn file).

### ObjectStore

The value file is a sequence of cells: a file header, then per record a head (header, column, key) and as
many cells as the value takes; in the legacy format the head is two cells. A cut append leaves some cells
and perhaps a fragment. The index is a header flag, `bucketCount`, `itemCount` and slots; the number of
slots is the file's size, which `ftruncate` changes before the header does. Process death may fall between
any two of: each record of an append, `ftruncate`, the zeroing, the header, each bucket store, each count,
each record of a migration, the rename, the removal of the index. What it wrote survives.

| Code | Definitions |
|---|---|
| `WriteStructs` 285-378 | `PutStructs`, `PutUniqueStructs`, `AppendRecord`, `AppendFails`, `StoreEntry`, `CountEntry`, `FindFails`, `FinishWrite` |
| `FindBucket` 2325-2357, `GetStruct` 380-413 | operators `FindBucket`, `Found`, `FindErrs`, `GetStruct` |
| `EnsureCapacityForInsert`, `ResizeIndex`, `CreateEmptyIndex` | `StartResize`, `EnsureCapacityForInsert`, `Truncate`, `Zero`, `StoreHeader`, `MapFails`, `PlaceExistingBucket`, `CountPlaced`, `Built` |
| `OpenValueFile`, `OpenIndexFile`, `RebuildIndexFromValues`, `OpenReadOnly` | `OpenValueFile`, `UseIndex`, `StartRebuild`, `ScanGrows`, `ScanRecord`, `CountScanned`, `ScanFails`, `ScanEnds`, `OpenReadOnly` |
| `MigrateLegacyValueFile` 1084-1184 | `CopyRecord`, `CopyFails`, `RenameMigrated`, `RemoveStaleIndex` |
| `Dump`, `GetColumnStats` | operators `Dump`, `ObjectCount` |
| a call on the index after its mapping was lost | `UseUnmapped`: the process dies |
| `Close`, process death, a removed index file (`tests/rebuild_test.cpp:19`) | `Close`, `Crash`, `DeleteIndex` |

`GetStruct` changes nothing and is an operator; `ObjectsReadable` asks it for every object whenever the
database is open and idle. History: `acked` (value of the last acknowledged write), `maybe` (values of
later writes that failed or were cut), `suspect` (the index comes from a build that was cut or that
scanned a torn value file). The caller's promise for `PutUniqueStructs` (`README.md:163-164`) is a guard,
`New`; it asks for a little more than the promise, that a key is not one of a `PutUniqueStructs` that
failed, so the retry of such a call is left out.
Left out: a value file header that is cut, and the `nextSequence` field of the object index, which nothing
reads.

### Lifecycle

The content of a data file is the number of its records, that of an index the set of records that it names;
both exist in the page cache and on disk. Every write is of a new object or row and appends one record, so
what a record replaces is left to the other modules.

| Code | Definitions |
|---|---|
| `OpenInternal` 142-200 | `CallOpen`, `StartOpen`, `OpenFile` (one file, in the order of 170-195), `OpenFails`, `OpenEnds` |
| `OpenIndexFile` 1186-1228, `OpenRowIndexFile` 1299-1341 | `StartRebuild` for an index that is missing or invalid |
| `CreateEmptyIndex` 1495-1515, the loops of `RebuildIndexFromValues` and `ResizeIndex` | `Empty`, `StoreHeader`, `PlaceBucket` (a bucket and its count), `FillEnds` |
| `EnsureCapacityForInsert` 1907-1938, called at 305 | `Grow`, `GrowFails` (the index loses its mapping, 1500-1508) |
| `WriteStructs`, `WriteRowStructs` | `AppendRecord`, `AppendFails` (a part of the record is in the file), `StoreBucket` |
| `Flush` 213-253, `Close` 202-211 | `CallFlush`, `CallClose`, `FlushSkipped`, `SyncFile` (one fsync or msync, in the order of 221-251), `SyncFails`, `FlushEnds`, `FlushReturns` (to the caller, to `Close`, or to the `Open` that closes a database first) |
| process death; the kernel writing dirty pages whenever it likes, record by record for an index; loss of power | `Crash`; `WriteBack`; `PowerLoss` |

Growth and rebuild are what they are in the code: the file is truncated and zeroed in place (`Empty`; it is
`torn`, no valid index, until `StoreHeader`), then filled bucket by bucket from `copy`, the old buckets or
what the scan finds. Once the header is there, a half-filled index passes for a whole one. So a process
death, a failed Open or a loss of power in the middle leaves an index, valid and incomplete, that misses
objects flushed long before, and the next Open uses it. `cut` remembers such an index until it is built
again from whole files. `rewritten` are the indexes that were emptied and filled since they were synced: on
disk an old bucket may go before the new one is there.

`damaged` are the data files with a hole or a cut record. A rebuild over one of them (`Misled`) may stop
there, with an error or not, and miss records; the index it leaves is `cut`. A later write may cover the
damage, which `damaged` does not notice: the model then allows more than the code does.

The order in which a filling goes through its records is left open, and when an index grows is left to
chance, since sizes are not modelled; when it grows in the middle of a rebuild, its contents are again
those with which the rebuild began. Where a bucket lies, and that a mixture of pages may be an index that
Open takes although its buckets are not in their places, is not modelled: an index on disk names what it
names. A failed fsync leaves its pages dirty, so that a repeated Flush writes them; a kernel that drops
them would weaken `FlushedSurvives`. Flush runs without writers: the repository's README allows parallel
row calls only.

`FlushedSurvives` speaks of the records acknowledged before a Flush or Close that went through all files.
In the data files on disk they stay for good, without exception. The indexes name them, in the page cache
and on disk, unless the index is being filled, is in `cut`, or (on disk) was filled since it was last
synced. A Flush or Close of a database whose object index lost its mapping answers OK without syncing
anything (217), although "`Close` synchronizes value files before index files" (`README.md:207`); the
property does not count it.

## 3. Runs

| Run | Bounds | Shows |
|---|---|---|
| `row_index` | 2 threads, 4 buckets, limit 1, 3 rows (two of one identity), 3 calls, failing I/O | `UniqueRows`, `ProbePath`, `ExclusiveWriter`, `PublishedComplete`, `InsertsReserved`, `BlocksDisjoint`, `LayoutValidAtRest`, `OvershootBound`, `ReadsCurrent`, `CorruptionOnlyIfDisturbed`, with unserialized callers |
| `row_map` | 2 threads, serialized writers, 4 buckets, limit 2 (so that `RoomForAll` of section 4 holds), 2 rows of one identity, 2 keys | `ImplementsRowMap`, `RebuildAgrees` |
| `row_progress` | 2 threads, 2 buckets, 3 calls, fair | `CallsReturn`, `TypeOK` |
| `row_overfull` | 3 threads, 4 buckets, limit 1, 4 calls | `CapacityRespected` is violated |
| `row_block` | 4 keys (three of one hash, two of these of one length, one empty), 2 values, batches of 2 and 5, 2 writes, 2 vectors per `pwritev`, failing writes | `TypeOK`, `LookupAgrees`, `DecodeAgrees`, `TableNeverFull` |
| `row_recovery` | 2 threads, 2 rows, 2 writes, 2 to 4 shards, 2 or 4 buckets, one death, all faults | `TypeOK`, `RowLossNeedsTornBuild`, `SequencesAhead`, `RowDumpAgrees`, `RebuildRejectsOnlyTorn` |
| `row_parallel_crash` | 2 threads, 1 shard, 3 writes, one death | `RowsReadable` is violated |
| `object_rebuild` | 3 objects (2 of one hash), values of 2 sizes, 3 writes of 1 or 2 entries, 2 buckets at first; new, legacy and cut legacy files | `TypeOK`, `ObjectsReadable`, `DumpAgrees`, `RebuildSucceeds` through growth, migration and index removal |
| `object_faults` | 2 objects of one hash, 2 writes of one object or of a unique pair, one death, failing appends, reads and mappings | `LossNeedsCutBuild`, `LayoutValid`, `BucketsNameRecords` |
| `object_batch_error` | failing reads, batches of 2 | `BucketsNameRecords` is violated |
| `object_resize_crash` | one death, index growing from 2 buckets | `ObjectsReadable` is violated |
| `lifecycle` | 1 shard file, 2 writes, 2 failures of any kind (cut appends included), any number of growths | `TypeOK`, `AllFilesOrNone`, `FlushedSurvives`, `AheadOnlyByKernel`, `ReadOnlyHarmless` |

Why the bounds are enough to meet the interesting cases: two threads suffice for every race on a bucket,
since each step involves one bucket and its owner; three calls let a row be inserted, replaced and read
(or replaced twice, which is what tears a snapshot). Two rows of one identity make every probe a collision. A
limit of one is reached after one insert, and three rows pass it; three threads show that the overshoot grows with the
threads. For objects, three writes give an acknowledged value, a replacement and a value after a rebuild;
two value sizes let a later record cover a cut one only partly; starting with two buckets makes the index
grow twice. For row recovery, two writes give an older and a newer block of a row under two shard counts,
or a block behind a hole, and the loss of a row in the half-built index needs one death. `object_faults`
puts one object per call, because a failed read in the middle of a batch is what `object_batch_error` is
about. In `lifecycle` two failures give a failed Flush and a loss of power after its repetition, a cut append and
a death, or a death in a growth and a loss of power after that; with two writes the data files and the index
differ between page cache and disk, and an index is cut between two buckets. `MaxCalls`, `MaxWrites`,
`MaxCrashes` and `MaxFails` are the only bounds on behaviours.

Fairness (`row_progress`): a thread inside a call goes on (`WF` of its steps), which is the operating
system's scheduling; and a weak compare-exchange that could succeed again and again does not fail
spuriously for ever (`SF` of `ReserveSlot`). Nothing is assumed of who wins a race. Of the callers it is
assumed that they stop: `CallsReturn` says that, once no more calls begin (`NoMoreCalls`), every running
call returns, so the retry loops cannot keep each other busy. Without that it is false of the code: a reader
starts over whenever it meets a bucket in state Writing (2277-2281), and can do so for ever while other
threads keep replacing a row on its path. `MaxCalls` makes every behaviour of the run one in which no
more calls begin.

### What the violated properties mean

* `row_overfull`: `itemCount` is loaded before `rowPendingInsertCount_`. A writer that counts its row and
  returns its slot between the two loads is counted in neither, so the load limit that `README.md:101-103`
  describes can be passed. `OvershootBound` gives the most: one row for each other thread.
* `object_batch_error`: `WriteStructs` returns at line 368 with earlier entries of the batch in the index
  and `appendOffset_` in front of their records. The next write overwrites them, although the value file
  is append-only (`README.md:75`).
* `object_resize_crash`: `ResizeIndex` refills the index file in place and counts as it goes, so after a
  crash between two buckets the file satisfies `HasValidIndexLayout`; `Open` does not rebuild it
  (`README.md:129-130`) and the objects not yet copied answer NotFound. `RebuildIndexFromValues` fills the
  index the same way, so a crash there, or an Open that fails in the scan, does the same.
* `row_parallel_crash`: two writers reserve ranges, the second one's block is written and acknowledged, the
  process dies before the first one's is. The index holds a bucket in state Writing or an uncounted one, so
  the next Open rebuilds it, meets the hole and returns Corruption, with the new index filled up to there.
  That index is valid, so the Open after it succeeds, and the rows behind the hole are not found.

`RowLossNeedsTornBuild`, and for `PutStructs` of one object at a time `LossNeedsCutBuild`, say that nothing
else loses an acknowledged value than an index that was cut or failed while it was built, or was built over
a torn file. They hold with every fault of the models enabled. For batches of several objects
`object_batch_error` is one more way.

## 4. Proofs

All theorems hold for every value of the constants that the named assumptions allow: any number of
threads, rows, buckets, shards and calls, any hash functions, any block sizes, with or without I/O
errors. The assumptions are those of `RowIndex` (a nonempty set of threads, a nonempty table whose load
limit is below its size, distinct "none" values, total hash and size functions, blocks of positive size),
of `Lifecycle` (the shard files are a finite list, and none of them is one of the other files), of
`RowRecovery` (each set of options has a positive shard count and a power of two as bucket count) and of
`ObjectStore` (hashes are positive, batches are nonempty, a load factor below one, a power of two as
bucket count; the first Open finds no files, or a value file of the preceding format, perhaps cut, whose
cells are in their places, with any file as index). TLC evaluates them in every run. TLC
also checked each inductive invariant on the instance of its run before it was proved.

| Module | Theorems | Hypotheses |
|---|---|---|
| `RowIndexProofs` | `TypeCorrect`, `StructureHolds`, `RowsAreUnique`, `RowsAreReachable`, `WritersExclude`, `PublishedIsComplete`, `BlocksKeepApart`, `LedgerHolds`, `InsertsAreReserved`, `RestingLayoutIsValid`, `OvershootIsBounded` | none |
| `RowReadProofs` | `ReadInvHolds`, `ReadsAreCurrent`, `CorruptionNeedsDisturbance` | none |
| `RowMapProofs` | `MapInvHolds`, `RebuildPicksLast`, `RowIndexImplementsRowMap` | `CallerSerializes`; the last one also `RoomForAll` |
| `LifecycleProofs` | `LifeInvHolds`, `LifecycleTypes`, `NoFileIsLeaked`, `FlushIsDurable`, `DataBeforeIndexOnDisk`, `ReadOnlyChangesNothing` | none |
| `RowRecoveryProofs` | `RecoveryInvHolds`, `RecoveryTypes`, `SequencesStayAhead`, `OnlyTornFilesRejected` | none |
| `RowLookupProofs` | `LookupInvHolds`, `RowDumpsAgree`, `RowsLostToTornBuilds` | none |
| `ObjectStoreProofs` | `StoreInvariant`, `ObjectTypeOK`, `ObjectLayoutValid` | none |
| `ObjectReadProofs` | `ObjectBucketsNameRecords`, `ObjectDumpAgrees` | `SafeErrors`, `NoOldIndex` |
| | `ObjectLossNeedsCutBuild` | also `SafeAppends` |
| | `ObjectObjectsReadable`, `ObjectRebuildSucceeds` | `NoFaults` |

The hypotheses on `ObjectStore` are about the constant `Faults` and the inputs, and each excludes what would
make the statement false:

* `SafeErrors`: if record reads may fail, `PutStructs` is called with one object at a time. Otherwise an
  entry of a failed batch stays in the index and its record is overwritten (run `object_batch_error`).
* `NoOldIndex`: if the process may die, the legacy file comes without an index file. A process that dies
  between the rename and the removal that end a migration leaves the old index, whose offsets mean other
  records, beside the new value file.
* `SafeAppends`: if appends may fail, a batch has at most two entries. The second of two whole records that
  a failed write of three leaves behind `appendOffset_` can outlive an acknowledged write over the first
  one, if that write is just as long, and wins in a later rebuild.
* `NoFaults`: nothing fails, but the index file may be removed. With any other fault added the statement is
  false: a death in a resize (`object_resize_crash`), a cut record that stops a rebuild, a failed read or
  mapping in a rebuild that leaves a half-filled index.

`object_faults` satisfies the first three with every fault enabled, `object_rebuild` the last one.

### Structure (`RowIndexProofs`)

`UniqueRows` is not inductive: whether a thread may claim the empty bucket it stands at depends on what
it met on its way. `StructureInv` therefore also says

* `AppendInv`: blocks and ranges reserved for a block being written lie below the append offset and do
  not overlap, so an offset names at most one block (`OneBlock`);
* `ReaderInv`: once a bucket was seen Filled it stays `Good` for ever: its identity is its row's and its
  offset, old or new, names a block of its row. Hence a snapshot, torn or not, leads to a block of the
  bucket's row or to Corruption, never to another row (`SnapshotRow`);
* `InsertInv`: every bucket that an inserting thread passed holds another row;
* `StoreInv`, `OneWriter`, `WritingOwned`: a bucket in state Writing has one owner, and the fields the
  owner has stored so far are its own.

`RowIsNew` is the heart: a bucket that already held the row would lie before the empty bucket on the
probe path, where the walk would have met it, or behind it, which `ProbePath` excludes. Steps are
classified once (`StepKinds`: aside, walk, shared); `OtherThread` carries every unmoved thread's invariant
over a step; `QuietStep` and `OwnerStep` are the two shapes of a step.

### Counters (`RowIndexProofs`, second part)

The counters are sums over threads, so `LedgerInv` relates them to sets of threads: `pending` is the
number of threads with a slot, and the buckets in use are those that `itemCount` counts and those of the
threads that inserted and have not counted yet. `SlotInv` says at which places a thread may hold a slot, and that a
thread that inserts without one (`PutRowStruct` on a row that it found) has seen the row's bucket, which
is never given back: `InsertsReserved`.

`OvershootBound` needs more, because `LoadItemCount` and `LoadPending` read two counters at two instants.
`Committed` are the threads whose slot may still become, or has just become, a bucket; `Admitted` those
that have loaded an item count below the limit, however long ago, and have not reserved yet. The items,
the committed and the admitted threads together exceed the limit by less than the number of threads: when
a thread is admitted, the item count is below the limit and no more than all threads are committed or
admitted; reserving, inserting and counting then only move it from one term of the sum to the next.

### Reads (`RowReadProofs`)

`ReadsCurrent` is about the history variable `seen`, the contents of the row during the call. `ReadInv`
adds to the ledger, for each thread: `BlockInv` (a block about to be named is the one the thread wrote),
`FindInv` (a walk has passed only buckets of other rows), `SeenInv` (whatever block the snapshot can lead
to holds a content that was `seen`), `StillInv` (an undisturbed snapshot is one of a bucket that has not
changed since) and `ResultInv` (the answer fits what was `seen`). The case that matters is the torn
snapshot: its offset alone decides which block is read, so it leads to a content of the row during the
call, or its size does not match, and then a replacement fell into the call.

### The refinement (`RowMapProofs`)

The mapping is that of `RowIndex!ImplementsRowMap`: the claim of a bucket is `Apply` of the abstract map,
`Return` is its return, the choice of an answer is its choice, and every other step stutters
(`Phases` is a thread's abstract phase). `MapInv` gives what the steps need under `CallerSerializes`:
`Serialized` (no two calls that write one row), `KindInv` (which calls are at which places), `WriteInv` (the entries
that a merge in `PutRowStruct` started from are still the row's content at the claim) and `NewestInv`
(the block of a running write lies behind all others of its row).

Both hypotheses are the ones `RowMap` is stated for. Without serialized callers two merges of one row
lose one of the two, which the repository's README leaves to the caller (`README.md:201-203`).
`RoomForAll` (the load limit and one bucket per thread fit into the table) excludes the answer "row index
table is full", which `RowMap` does not have: by `OvershootBound` some bucket stays empty, and a probe
sequence visits every bucket (`SlotOnto`, `NeverFull`). The instance of `row_map` satisfies both.

### Open, Flush and Close (`LifecycleProofs`)

`FlushedSurvives` is not inductive: that Flush may report success depends on what it has synced, and that
an index names a record again after it was emptied depends on what its filling has still to store.
`LifeInv` adds

* `HeldInv`: during Open the files held are those before `step` in `OpenOrder`, and the one being filled;
  elsewhere all or none; a Flush that has started to sync is neither read-only nor unmapped;
* `CountInv`: what is acknowledged is in the data file, what is flushed also on disk, and the disk is never
  ahead of the page cache;
* `FillInv`, `HeaderInv`: which index is being filled, and that an open data file has its header;
* `NamedInv`: an index that is not `cut` names every acknowledged record, or its filling still has it to
  store (in `copy`); in a rebuild that holds also if an earlier filling of the index was cut;
* `OnDiskInv`: an index that was not filled since its last sync names what is flushed on disk too;
* `SyncedInv`: the files before `step` in `SyncOrder` are on disk as in the page cache. It survives the
  kernel's write-back, and no write can run beside Flush;
* `CacheAhead`: an index in the page cache is ahead of its data only after a loss of power.

So a growth loses nothing because `copy` holds the buckets it has taken, a rebuild of whole files because
`Records` meets every acknowledged record; and `FlushIsDurable` is as strong as `FlushedSurvives` in
section 2: no exception for the data files, none for an index whose fillings came to their end over whole
files.

The orders are sequences over any number of shards: `OpenOrderVisitsAll` and `SyncOrderVisitsAll` say
that the loops meet every file, `DataBeforeIndex` that every data file comes before each index. From the
last two, `FlushEnds` finds all files on disk (`AllSynced`) and the sync of an index finds all its data on
disk (`DataSynced`), which is `AheadOnlyByKernel`.

### The row files across sessions (`RowRecoveryProofs`)

`SequencesAhead` speaks of a database that serves calls; that it holds there depends on the rebuild, and
on what a process death leaves to the next Open. `RecoveryInv` adds

* `SequenceInv`: every sequence number that a writer holds was given out, and an index with a valid
  header, whether it is in use or lies in a closed database, has a `nextSequence` above all blocks of the
  shards it covers, unless it is being filled or is `suspect`;
* `ScanInv`: in files that are whole, the scan stands between two blocks (`Boundary`), and its own
  `nextSequence` is above all blocks behind it (`Scanned`); in files that are not, the index is `suspect`;
* `PlaceInv` and `HeaderInv`: what the places of Open have in common; the block in hand is still ahead of
  the scan after the index has grown; a shard file begins with its header, and no writer's range
  touches it.

`WholeBlock` says that behind the file header or the last cell of a block comes a whole block. So the
scan moves from boundary to boundary, and `Corruption` needs a hole or a cut block
(`OnlyTornFilesRejected`). At the end of the last shard `Scanned` is `SequenceInv`. `StoreEffect` says what
a write, cut or complete, does to a file: it brings no sequence number but its own. No step needs the
shard counts to be multiples of each other, so `SequencesAhead` does not ask for it. It speaks of the
blocks in the open shards only: a session with fewer shards does not scan the others, so it may give out a
sequence number that one of their blocks has, which a later session with more shards then meets twice.

### What the row index answers after recovery (`RowLookupProofs`)

`RowLossNeedsTornBuild` relates a lookup to all acknowledged writes, across parallel writers, crashes,
rebuilds and changed options. The argument has four layers, each inductive on top of the ones before it
and of `RecoveryInv`.

`FileInv`: what is in the shard files. `Blocks` are the whole blocks, wherever they lie. Ranges
are reserved behind all that is in the file and apart from each other, and a range in use holds at most the
beginning of a block (`RangeInv`), so no write can damage a block and a cut write adds none; a thread that
claims a bucket has its block in the file (`WriteInv`). From this each step keeps all blocks, and only the
step that completes a write adds one, its own.

`LookupInv`: the index as a hash table. `Table` says that each bucket names a block of its row and lies on
its row's path with no empty bucket in front of it, and that no row has two; with the room that `TableInv`
keeps, a search finds the row's bucket or shows that there is none (`FindRow`). `ClaimInv` is what lets two
threads insert at once: a claimed bucket stays where its row belongs, and the taken buckets are those that
`itemCount` counts and those of the threads that still have to count. `CopyInv` is about an index that grows
under a rebuild: the rows set aside and the rows already placed are disjoint, and together they fit. From
`LookupInv`, `RowDumpsAgree`: without a write in progress the filled buckets are exactly the rows that a
lookup finds.

`BlockInv`: which block of a row is the latest one. A rebuild takes the last block in the order of shard and
offset (`UpTo`), so what matters is that the newest block is the last one. Within a shard that is `append`;
across shards it needs that each shard count is a multiple of the ones before it: then no row moves to an
earlier shard (`ShardGrows`, from `HomesInv`). So `OrderInv`: the block in progress goes behind the row's
others; and `LatestInv`: the last block of a row has the acknowledged value or one of a write that was
cut or is in progress (`Allowed`).

`AnswersInv`: what the index names. During a rebuild `SeenInv`: the entries, in the table or set aside for a
larger one, are the last blocks among those that the scan has passed, one for each row met. At the end of
the last shard these are all blocks, and `LatestInv` turns `SeenInv` into `AnswerInv`: each bucket names
an allowed block, and no acknowledged row is missing. In service `OwnInv` keeps it: a claimed bucket holds
no row but the thread's own, so the acknowledgement of a write finds the bucket naming its block.
Open rebuilds an index of another shard count before it is used; where the count is not a multiple of those
that blocks were written under (`IndexOrdered`), a rebuild may pick an older block, and neither `AnswerInv`
nor the property says anything.

### The object index (`ObjectStoreProofs`)

`StoreInv` holds without hypotheses. Its parts:

* `Typed` and `HeaderInv`: types at each place, and a value file that begins with the header of the format
  it is used as;
* `OffsetInv`: `appendOffset_` is inside the file; during a write `Laid` gives the offset of each record of
  the batch, and that the records in front of the one in hand are in the file;
* `LayoutInv`: every filled bucket is counted, but the one just stored into, at each step of a write, a
  build or a scan; `ObjectLayoutValid` follows;
* `RoomInv`: the load factor leaves room for what a write or a resize has still to store, so that the
  search for an empty bucket ends (`EmptyAhead`).

### What the object index answers (`ObjectReadProofs`)

`ReadInv` says what a filled bucket names. `NameInv`: a record of an object with the bucket's hash, in the
part of the file that no write overwrites (`Limit`: up to `appendOffset_` between calls, up to the record in
hand in the index loop). `ProbeInv`: no empty bucket lies on the way of a probe to it. `UniqueInv`: no two
buckets, filled or still to place, name one object. `KnownInv` and `FreshInv`: a `PutUniqueStructs` that
keeps its promise meets no bucket of its objects. Then `FindBucket` finds an object's bucket or shows that
there is none, and a pass over the buckets tells the same story as probing: `ObjectDumpAgrees`.

`LossNeedsCutBuild` relates the index to all acknowledged writes, across sessions. `AnswerInv` follows a
value on its way:

* `FileInv`: in a value file of whole records the last record of an object that ends in front of
  `appendOffset_` has the acknowledged value, or one that a failed write may have left (`Agrees`); what
  failed writes left behind it holds at most one more whole record, right behind `appendOffset_`
  (`Leftover`). So the last record in the file, which is the one a rebuild takes, is an allowed one;
* `MigrateInv`: the new file holds, of what the migration has passed, the last record of every object;
* `BuildInv`: in a resize an object's bucket is still to place, or placed (`Carried`); in a rebuild the
  index holds the last record in the part of the file that the scan has seen (`LastVals`), also while the
  index doubles under the scan;
* `IndexInv`: an index that is not `suspect` and not being filled answers, for every object, an allowed
  value (`Answers`), with the entries of the running write that are already stored (`Owed`).

`CleanInv` adds, under `NoFaults`, that the value file is whole, that every write begins at its end, and
that a scan stands at a record or at the end (`AtRecord`): then no rebuild fails and no index is suspect,
so that `LossNeedsCutBuild` becomes `ObjectsReadable`.

### Only model-checked

* Liveness (`CallsReturn` of `row_progress`, about finitely many calls): out of the prover's reach.
* `RowBlock`: what the layout, lookup and listing of a block compute is a recursion over entries, keys and
  bytes; it needs induction over data.

Every other property of the passing runs has a theorem.

## 5. Not modelled

* Hashing (`hash.cpp`): pure 64-bit arithmetic; every model takes the hash as any function.
* `GetMany`: a loop over `GetStruct` that changes nothing. The text that `Dump*` prints.
* A file header that is itself cut: Open rejects it and changes nothing.
* Failed `ftruncate`, `mmap` and reads at two places of the row index whose effect on the files is that of
  a process death (see `RowRecovery`), and the retry of a failed `PutUniqueStructs` (see `ObjectStore`).
* Errors of `rename`, `remove` and of the temporary file's own writes in a migration; the fsync of
  directories, which the code does not do.
* Flush while row writers run (see `Lifecycle`).
* EINTR, descriptor and mapping moves, 64-bit overflow of offsets.
* Benchmark, tests, example schema.
