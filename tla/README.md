# TLA+ models of datafusion-local-tables

A table of `datafusion-local-tables` is one local file with two log files beside
it. Inserts, deletes and updates go to a log, then to memory; a flush turns
memory into immutable segments and commits them by flipping one of two meta
pages. Readers never lock: they hold a snapshot, and the bytes a snapshot names
must survive every commit made while it is held.

This directory models that machinery at three levels, the way rows become bytes
and come back, the backends those bytes are read through, and the SQL scan on
top. TLC checks each; TLAPS proves the three levels, the way from rows to
bytes and back, the read paths and the scan for every value of their constants.

| module | level | what it is about |
| --- | --- | --- |
| `AtomicCommit` | abstract | what a commit promises: all or nothing, across crashes |
| `TableFile` | file | two-slot shadow commits, extent reuse, reader pins, recovery; implements `AtomicCommit` |
| `TableFileProofs` | file | theorems about `TableFile` for every value of its constants |
| `DurableWrites` | log | insert, delete, update, flush, replay over two logs; takes `AtomicCommit` as the table file |
| `DurableProofs` | log | theorems about `DurableWrites` |
| `ColumnarTable` | handle | concurrent tasks on one open table: DML, flush, compaction, dropped segments, schema changes |
| `ColumnarProofs` | handle | theorems about `ColumnarTable`, for any tasks and workloads |
| `ArrowBatches` | segments | arrays, slices and batches, as the code uses them: pure operators |
| `Memtable` | segments | the memtable's methods: pure operators |
| `RowGroups` | segments | row group size, splitting, z-order: pure operators |
| `SegmentCodec` | segments | encoding, compressing, placing and reading back the columns of a segment: pure operators |
| `FlushPipeline` | segments | composes the four: insert, delete, flush, read back, media damage |
| `FlushProofs` | segments | theorems about `FlushPipeline` and the four, for any data and options |
| `UringReactor` | reads | callers, the reactor thread and the kernel of the io_uring backend |
| `MappedReads` | reads | several processes and tasks reading through mappings or copies under the file lock |
| `ReadBackends` | reads | composes the two: a handle has one backend |
| `UringProofs`, `MappedProofs` | reads | theorems about them for every value of their constants |
| `Pruning` | scan | what a segment stores about its rows and what a scan skips because of it: pure operators |
| `ColumnarScan` | scan | one SQL scan: planning against a snapshot, partitions sharing work, limits, schema changes beside it |
| `PruningProofs`, `ScanProofs` | scan | theorems about them, for any tables and queries |
| `MC*` | | instances for TLC |

Paths below are relative to `src/crates/localtables-format/src` unless they say
otherwise.

## 1. Inventory

### Components

**Table file** (`table_file.rs`, `layout/`). State: the file, the committed
`Committed` (meta page, slot, manifest), `next_slot` and `next_slot_manifest`.
Operations: `create`, `open` (`read_committed`), `allocate`, `write_allocated`,
`write_schema`, `commit`. Correct when a crash at any byte leaves one whole
commit, and when an extent is reused only after nobody can read it.

**Snapshot registry** (`snapshot.rs`). State: weak references to published
snapshots. Operations: `publish`, `min_active_txn`. Correct when the txn it
reports is never newer than a snapshot somebody holds.

**Write-ahead log** (`wal/`). State: two log files with a generation in the
header, `active`, and the length each handle knows of. Operations:
`append_group`, `rotate`, `truncate`, `recover`. Correct when an acknowledged
record is replayed exactly once until a commit covers it.

**Memtable** (`columnar/memtable.rs`). State: batches with their sequence
numbers, tombstones. Operations: `insert_at`, `delete`, `live_seqnos`,
`batches`, `freeze`. Correct when the sequence numbers it lists name the rows it
shows, in the same order.

**Columnar table** (`columnar/table/`). State behind one async mutex (`Writer`:
file, logs, memtable, `deletes`, `dirty_deletes`, `next_lsn`), and outside it
the published snapshot and the schema, each an `ArcSwap`. Operations:
`write.rs` insert, delete, update, delete_segments, flush, replay;
`maintain.rs` compact, rewrite_all; `evolve.rs` add, rename, drop and cast
column; `read.rs` scan and segment readers. Correct when a scan returns exactly
what the acknowledged calls left, and when every segment decodes under the
schema it is read with.

**SQL layer** (`datafusion-local-tables/src`): `dml.rs` (DELETE, UPDATE, INSERT),
`columnar_exec.rs` (partitioned scan, LIMIT), `columnar_provider.rs` and
`pruning.rs` (zone maps, membership and trigram filters). Correct when pruning
drops no row a filter keeps, when every morsel is read once, and when a
statement changes the rows its snapshot matched.

**I/O backends** (`io/`). Positional reads and all writes (`std_file.rs`) have no
state of their own. `mmap.rs` keeps a cache of weak references to mappings, read
under a mutex, filled outside it. `uring.rs` runs a thread with a ring and a map
of reads in flight, fed through a channel. `lock.rs` is an advisory lock on the
file, exclusive for a writer and shared for readers. Correct when a caller gets
the bytes it asked for and always an answer, when no buffer the kernel writes to
is let go, and when mapped bytes do not change under a reader.

**Segments** (`config.rs`, `columnar/segment.rs`, `encode.rs`, `decode.rs`,
`page.rs`, `codec.rs`, `zorder.rs`): functions from rows to bytes and back.
Correct when nothing is lost between the two, whatever the options, and when
damage is noticed and stays where it is. `valuecodec.rs`, `layout/batchcodec.rs`
and `layout/schema.rs` are byte forms of values, batches and schemas.

**Skipping data** (`bloom.rs`, `trigram.rs`, `zonemap.rs`): functions of a
column's values, stored beside it.

### How they interact

A client call takes the mutex, appends to the log, changes the memtable and
`deletes`, and publishes a snapshot. A flush freezes the memtable, rotates the
log, writes segments and bitmaps into extents `allocate` hands out, commits,
publishes, and truncates the retired log. DML, compaction and schema changes
read a snapshot *before* they take the mutex and act on it after. Readers take
the snapshot with one atomic load and keep its extents out of `allocate` through
`min_active_txn`.

### What is hard

- Crashes: between the two syncs of a commit, with any subset of the unsynced
  writes on disk; between rotate, commit and truncate; inside `rotate`.
- Errors: a flip that reports an error but reaches the disk; an append that left
  bytes behind; a flush that fails after it emptied the memtable.
- Reuse: an extent freed at one commit and still read by a snapshot of another.
- Interleavings: everything that reads first and locks later (`dml.rs` 140-193,
  `maintain.rs` 110-141, `evolve.rs` 135-150, `write.rs` 18-28).
- Skipping data: bounds cut to a prefix, hashes that collide, LIKE patterns,
  pages and blocks that do not divide each other, a schema that moves on.
- Slices: arrays that carry their parent's rows, cut again into groups, blocks
  and pages that do not divide each other.
- The kernel: reads that come back short, late, out of order, or not at all,
  while callers give up and the handle is dropped.
- Other processes: bytes mapped here and rewritten there.
- Long sequences: bitmaps superseded over several commits, segments emptied by
  deletes and then altered, dropped or compacted.

`PROJECT.json` lists each of these at its line under `hazards`.

## 2. The modules

### TableFile

The file is a function from locations to contents, and a location holds one
extent. Sizes and alignment are gone, so which free extent fits, and whether
rounding `file_len` up skips what lies beyond it, are choices. Contents are meta
pages, manifests, payloads, or `Torn`: bytes no frame check accepts. `file` is
what a read returns, `img` what a crash may leave at each location: a write adds
its content and `Torn`, a sync collapses the set. A crash picks one image per
unsynced location and a length between the synced and the current one.

| state | code |
| --- | --- |
| `committed`, `nextMan` | `TableFile::committed`, `next_slot_manifest` |
| `draft`, `draftMan` | the `Manifest` a caller prepares and where `write_manifest` put it |
| `minActive` | the `min_active` local of a flush, a compaction, a schema change |
| `pins` | snapshots readers hold; the handle's own `current` always pins the newest |
| `pc` | where the holder of the writer lock stands in `commit` |

`Begin`, `WriteReused`, `WriteGrown` and `Drop` are what callers do to a draft;
`WriteSchema` and `ConvertSegments` are the schema change; `WriteManifest`,
`SyncManifest`, `WriteMeta`, `SyncMeta` are the four steps of `commit`; `Fail`
is any `?` on the way; `Crash` and `Open` are what they say; `Pin` and `Unpin`
are readers, which run between any two steps. `Rewrites` lets a schema change
write segments after its blob, `FlipFailures` lets `write_meta` or its sync
report an error. Both are real behaviours that break properties (section 3), so
they are switches; the proofs say which they assume to be off (section 4).

The module also states `AtomicCommit` of itself: `table` is what the committed
manifest's entries read back as, and while the process is down what the next
open will find; `pending` is the draft while its flip is under way.

### DurableWrites

A row stands for a batch and its sequence numbers. The table file is one
variable that a commit replaces whole. Each log has a header flag, a generation
and a sequence of records; `logImg` is the set of whole-record prefixes a crash
may leave (a torn tail is cut by `recover`). `len` is `WalFile::len`, so records
a failed append left past it can survive under a shorter later one.

`Insert`, `Delete`, `Update` start an append; `FinishAppend` is the return of the
sync with everything the call does after it; `FailAppend` the error. `Freeze`,
`RotateTruncate`, `RotateHeader`, `CommitTable`, `TruncateRetired` are
`flush_locked` in order, and `FailFlush` an error in any of them. `Open` is
`from_file` with `replay`. `acked` is the rows callers were told of; `unsure`
holds the operations that failed or were cut off, until an open settles them.
`lapses` notes what has put acknowledged rows at risk: `"exposed"` while a
rotation has reset a log with records no commit covers, `"aborted"` after a flush
that failed, `"lost"` once a crash met the first or a commit the second.

### ColumnarTable

Tasks call the operations `load` gives them. Whatever a call does under the mutex
is one action; what it does before is an action per load of shared state:

| call | actions |
| --- | --- |
| insert | `StartInsert` (schema check), `Insert` |
| DELETE, UPDATE | `StartDml` (snapshot), `ReadSegment` of each segment (which loads the schema), `ListSeqnos`, `EndMatch`, `ApplyDml` or `RefuseDml` |
| flush | `Flush` (`FlushLocked`, or `FlushFails`: `build_segment` refuses or the commit fails) |
| delete_segments | `DropSegments` or `DropFails` |
| compact, rewrite_all | `StartCompact`, then per run `ReadRun` and `WriteRun`, `RunFails` or `AbandonRun` |
| cast, drop, add, rename column | `StartAlter`, `AlterFlush`, `AlterLoad` (`before`), `AlterPin` (the sources), `AlterCommit` or `AlterRefused` or `AlterFails`, `AdoptSchema` |

A schema change holds the mutex over two actions because it publishes twice.
`schema` is an epoch, which a rewriting change advances, and a width, which an
added column advances; a segment is accepted under a schema of its epoch and at
least its width. `drop_column` takes the path of a cast and `rename_column` that
of an added column. The size-triggered flush at the end of an insert or update
is a `Flush` of the same task. `load`, chosen at the start from `Workloads`, says
what each task may call and how far the counters go; `"fault"` among a task's calls
lets its commits fail, which leaves the manifest and the published snapshot as
they were but not the writer: the memtable, or the bitmaps, are already gone from
it. An insert's batch has one row, the replacements of an UPDATE are one batch,
and `ListSeqnos` pairs rows with sequence numbers batch by batch. Every flush, run
or conversion writes one segment, and a predicate is equality with one key: the
positions of rows inside a segment are their sequence numbers. `freed` and
`doubled` record what is given to `Manifest::free`; `truth` is the rows the
acknowledged calls leave.

### FlushPipeline and what it composes

`Memtable`, `RowGroups` and `SegmentCodec` hold one operator per function of the
code, under its name where TLA+ allows; `FlushPipeline` has the calls that use
them. Values are null or members of the constant `Numbers`, a text value has as many
bytes as its number says, and three types stand for the paths types take: of a fixed width
(re-encoded, never cut into blocks unless compressed), with offsets (cut into
blocks anyway), and one that `concat` refuses, whose slices are therefore stored
with an offset into their parent's buffers.

| action | code |
| --- | --- |
| `Insert` | `ColumnarTable::insert` as far as the memtable goes |
| `Delete` | `plan_deletes`, `apply_deletes` for rows named by sequence number, stale ones included |
| `Flush` | `freeze`, `row_group_size_for`, `row_groups`, `write_segment` of each group |
| `Damage` | one stored buffer reads back as something else |

A segment's bytes are its stored buffers in order, each with offset, length and
content, packed or not; a checksum stands for the content it was taken of. The
size a codec packs to is the constant `PackedSize`, and the `DIM_BITS` leading bits
of a value's byte form the constant `Bits`. A z-order may be any order
`sort_unstable` could return. Results carry an error flag, so that "wrong rows"
and "an error" are told apart. `truth` is what was inserted and not deleted.

### UringReactor

| action | code |
| --- | --- |
| `Send`, `Return`, `Cancel` | `submit_reads`: the send, the loop over the replies that stops at the first error, and its future dropped |
| `DropIo` | `UringIo::drop`: close the channel, then join |
| `Take`, `SubmitEntry`, `Submitted`, `Enter`, `Wake`, `FailAll`, `Reap`, `Skip`, `Reaped` | one turn of `reactor_loop`, with `submit`, `submit_partial`, `submit_entry` and `fail_all` |
| `Complete`, `Errored` | the kernel |

A byte of a buffer is the file position it was read from, so that a read resumed
at the wrong place shows. The kernel may return any part of what was asked, and
nothing only at the end of the file; a signal may end a wait early; a full
submission queue is submitted first, which may fail for the one read.

### MappedReads and ReadBackends

A location holds one segment, and its content is the commit that wrote it. A
mapping shows what the file holds now, a copy what it held when it was made.
`Open` and `Close` take and release `FileLock` of a process; `Write` is
`allocate` (a location freed before every snapshot alive, or the end of the
file), `Commit` replaces segments and publishes. A task pins a snapshot and
reads segments: `Lookup`, `Map` and `Insert` are the two critical sections of
`map_extent` and the `mmap` between them, `ReadCopy` is `StdFileIo`. Buffers may
be dropped before or after the pin. `ReadBackends` gives a handle one of the
three backends of `open_backend`.

### Pruning and ColumnarScan

`Pruning` holds the functions a scan is made of, translated one by one:
`ZoneMap`, `IncrementPrefix` and `DecodeBound` (`zonemap.rs`), the two filters
(`bloom.rs`, `trigram.rs`, as the sets of hashes they report, under any
function `Hash`), the statistics and `contained` of `pruning.rs`, `prune` and
`keep_pages`, and the ranges of `read.rs`. A value is null or a short sequence
of bytes, and the four bytes are plain text, the two halves of a two-byte
character and 0xff, so that a bound can be cut inside a character or before a
byte that cannot be incremented. Kinds of column are told apart by whether they
have an order, a width, and valid UTF-8; two kinds are numbers of one width whose
bytes differ for the same number (`Raw`), since bounds are stored as bytes and
`DecodeBound` reads them by the type the schema gives them now. Columns are not compressed, so only
columns of variable width are cut into blocks. A filter is a conjunction of
comparisons, `IN`, `IS NULL`, `LIKE`, `NOT LIKE` and disjunctions.
DataFusion's `PruningPredicate` is outside the repository and modelled by what
it concludes: a container stays unless a bound, a null count or `contained`
rules it out. `Selects` is the reference: which rows a filter keeps, with `Like`
by its meaning, a way to lay the pattern's elements along the value. The ranges
of `kept_ranges` and `split_at_blocks` are sets of `<<start, length>>`, since they
never overlap and `Decode` takes them from the first on. `Segments` is what a
flush may hand to `build_segment`.

`ColumnarScan` is one query. `input` is the case: segments with their deleted
rows, rows in memory, filter, limit, partitions asked for, and the schema
changes other sessions still commit. `IsCase` says which cases there are: any
schema with a column, any segments it accepts, any filter on its columns, and no
limit together with a filter, which DataFusion never pushes down. `Init` builds the segments
(`BuildSegment`), so bounds and filters are what was stored when they were
written.

| action | code |
| --- | --- |
| `Pin`, `Plan` | `ColumnarTableProvider::scan`: the load of the snapshot; the load of the schema and everything computed from it |
| `Take` | `Morsels::take`, one `fetch_add` |
| `Project` | a batch that is in memory |
| `OpenPages` | `Scanner::keep_pages`, which opens the segment under the *current* schema and may fail |
| `Read`, `Decode` | `read_segment_pages`, under the snapshot's schema, and its loop over ranges |
| `Emit` | `try_flatten` and `apply_budget` |
| `ChangeSchema` | a column added, renamed, dropped or cast; the segments of the snapshot stay as they were |

The budget of a LIMIT belongs to a stream, as in `execute`, although the comment
there speaks of one for the whole scan: the run `scan_limit` shows the difference,
and `LimitServed` says what the code does give: one partition returns exactly the
rows asked for, several return at least those. A plan is executed once.

## 3. Runs

`ColumnarScan` has weak fairness of `Pin`, of `Plan` and of each partition:
DataFusion plans the query it was given and polls every stream until it returns
none, and no step of a partition waits for another. Nothing obliges anyone to
change the schema. `ReadBackends` has weak fairness of the reactor, of the kernel
for each read, and of the return of each call: the reactor is a thread of its
own that nothing else blocks, the kernel completes every read it accepted, and
an executor polls a task whose reply has come. Nothing obliges anyone to call,
to cancel or to drop the handle. The other specifications carry no fairness and
their runs check safety only. `CHECK_DEADLOCK FALSE` is set where an instance stops by
design: the bounds on rows, records and commits run out and a task has nothing
left to call, a scan ends, or a table whose logs or slots cannot be read stays closed.
`MCTableFile.cfg` does check deadlock: with readers that come and go and both
switches off, the file can always be reopened.

### Passing

| run | question | instance |
| --- | --- | --- |
| `file` | Does a crash at any step, with any subset of the unsynced writes, leave one whole commit? Is a byte ever reused while a pinned snapshot, the fallback slot or the schema names it? Does the file implement `AtomicCommit`? Is `IInv` an invariant? | one reader, commits up to txn 4, ten locations, two crashes or errors |
| `file_alter` | Do pinned snapshots keep their segments and bitmaps when schema changes rewrite and flips report errors? | two readers, commits up to txn 5, both switches on, one crash or error |
| `durable` | Do acknowledged rows survive crashes and failed flushes, once each? Is an update all or nothing? | three rows, groups of two, five records, three rotations, three crashes, two I/O errors anywhere |
| `table` | Do scans stay exact when DML and flushes run beside a compaction, and in any sequence of calls? Is a row ever in two places, a segment freed twice or while in use, with casts and drops beside compactions and commits that fail? Do segments decode once a schema change lets go of the mutex? | five workloads of up to two tasks: DML beside compaction, three rows; one task with every call but drop, three rows, two schema changes; writes, compactions and drops beside a column added; with failing commits, statements and drops beside compactions and casts; one task with failing commits and every call but an added column. Two rows in the last three, four commits |
| `scan` | Does skipping segments, pages and ranges ever lose a row a filter selects, or repeat one? Are limits, counts and batches right? Which schema changes may fail a scan? Does every scan end? | every filter over every segment of three rows of each kind; two partitions over segments of five rows with deleted rows, an emptied segment, one with fewer columns, rows in memory, limits and schema changes |
| `segment` | Does a flush keep every row, once, within the group size? Does every range of every column read back under every encoding, codec and block size? Are page bounds true of their pages? What does one damaged buffer cost? | seven option sets, six batches of up to five rows (slices and an empty one among them), five rows, two flushes, damage to any one buffer |
| `reads` | Does every caller get the bytes it asked for, and an answer? Does the kernel only write to buffers held for it? Do mapped bytes of a pinned snapshot stay? Do overlapping lookups share a mapping? | io_uring: three calls, reads inside, across and past the end of the file, a ring of one entry, two faults; mappings and copies: two processes, two tasks, three locations, five commits |

The constants are the smallest at which the interesting cases occur. Four
commits free an extent, quarantine it, release it and reuse it, and flip each
slot twice; two faults allow a crash after a recovery. Three rotations are one
more than it takes to come back to the first log with a crash in between. Three
rows make two segments and a memtable row, and let an update replace one while
another is compacted. Pages of two rows, blocks of three and batches of two do
not divide each other or five rows; bounds of two bytes cut values of three; a
hash modulo seven collides. Groups of two to four rows, blocks of two and three
and pages of two divide batches of one to five rows in every way that matters. A
ring of one entry makes the second read of a call meet a full queue; a read of
two bytes can come back short. Three locations are one in use, one in quarantine
and one being written; five commits reuse the first twice. Each property has a mutant of the model (a dropped sync, a
quarantine one commit short, a recheck left out) that the same constants expose.
Payloads, rows and keys are symmetric; readers, tasks and locations are not
declared so.

What conditions the properties carry: `AckedRowsKept` and `UpdateAllOrNothing`
exempt histories in which a row was already lost in one of the two ways the
model knows (a reset log, a commit past a failed flush); `UpdateAllOrNothing` also
the rows of a segment that a later statement logged a bitmap for, because that
bitmap starts from the deletes in memory, which a failed update is not among; and
`AckedRowsVisible` the time between a failed flush and the next open. A failed flush followed
by a crash and an open is *not* exempt: its rows must come back from the log.
`ScanIsExact` speaks of workloads in which no commit fails and schema changes run
alone, `FreedOnceAlone` of one task, `SegmentsFreedOnce` of one task that compacts,
casts or drops, `SettledDecodes` of casts that run alone, without drops and failing
commits. `PlannedMatchesKept` speaks of scans whose plan found the filter's columns
where, and of the type, they have in the snapshot; `ScanSurvivesGrowth` of changes
that rewrite nothing; `CountIsExact` of scans without a filter, and with a limit of
one partition only. `BufferHeld` ends with the first failure of the ring itself,
and `PinnedBytesStable` with the pin. Nor does any workload of `table` have two tasks
that run statements, two that compact or cast, or two that change the schema. What
the code does in each of the cases left out is in the next section.

### Violations: where the code and its own words part

| run | what happens | what the code says |
| --- | --- | --- |
| `file_alter_schema` | `write_schema` appends the blob without moving `file_len`; `convert_segments` grows from that `file_len` and can land on it | `table_file.rs:217` |
| `durable_two_crashes` | a crash between rotate and commit leaves records in the log the next flush resets before its own commit; a second crash there loses them | `write.rs:11` |
| `table_seqnos` | two DELETEs: positions of one memtable paired with sequence numbers of another | `dml.rs:168` |
| `scan_two_loads` | `scan` pins a snapshot and then loads the schema; a column dropped in between shifts positions, and pruning tests another column's bounds | `columnar_provider.rs:218` |
| `scan_limit` | `execute` makes a budget per partition, so two partitions under LIMIT 1 return two rows | `columnar_exec.rs:432` |

The models also reach these, for which no run is kept. In parentheses is what
shows the ones that are modelled: a property, and for the table a definition of
`MCColumnarTable` to give to `Workloads`; TLC refutes each within seconds.

The table:

- Two compactions of the same segments both pass the recheck, which compares
  numbers of deleted rows, and the rows are in two segments, although
  `maintain.rs:53` promises a valid table at every point (`NoRowTwice`,
  `TwoCompactions`).
- A compaction frees the bitmap it read although a flush has replaced and freed it
  meanwhile; the new one is never freed (`FreedOnce`, `DmlBesideLongCompaction`).
- A compaction whose commit fails has already taken its sources' bitmaps out of the
  writer, and the next snapshot shows deleted rows, although `maintain.rs:54` leaves
  the rest untouched (`GoneStaysGone`, `CompactionFails`). A conversion and a
  dropped segment fail in the same way.
- `delete_segments` of a segment whose rows are all deleted drops its bitmap and
  returns early; the next publish shows the rows again (`GoneStaysGone`,
  `EmptiedThenDropped`).
- `delete_segments` beside a compaction that has read the segment: the rows come
  back, since no bitmap changed (`ScanIsExact`, with `drop` beside `compact`).
- A rewriting schema change skips segments deletes have emptied, although
  `evolve.rs:20` says a segment always matches the schema in force; compaction,
  which picks those first, fails on them from then on (`EverySegmentFits`,
  `EmptiedThenCast`).
- A DELETE that commits between a schema change's snapshot and its lock is lost:
  `set_schema` notices a write only by the rows it leaves in the memtable, although
  `evolve.rs:173` says it refuses to run beside one (`GoneStaysGone`,
  `DeleteBesideCast`).
- An insert checked before a schema change and applied after it makes the next
  flush fail after it emptied the memtable (`ScanShowsTruth`, `InsertBesideWiden`).
- A rewriting schema change publishes its new segments under the old schema
  before `adopt_schema` publishes again (`SettledDecodes` without `holder = {}`).

Scans:

- A column cast to another type of the same width between the two loads of `scan`
  makes pruning read the old bounds as numbers of the new type (`NoMatchLost`, with
  `CastCases`).
- A column dropped or cast while a filtered scan runs fails the scan at its next
  segment: `keep_pages` uses `segment_reader`, whose comment (`read.rs:11`) tells
  scans not to (`NoScanFails`, in `MCColumnarScan.cfg`).
- `partition_statistics` calls its count exact also when page pruning, or a limit
  and several partitions, make it wrong (`EveryCountIsExact`, in
  `MCColumnarScan.cfg`).
- A plan executed twice returns nothing the second time, since the counter of
  `Morsels` is never reset (not modelled; read off `columnar_exec.rs:295`).

The file, the logs and the backends:

- A crash between `set_len(0)` and the header write of `rotate` leaves a log that
  `open` rejects, and with it the table, although `wal/file.rs:213` calls a torn
  tail normal (a log with `ok` false while `pc = "closed"`).
- A flush that fails after `freeze` leaves its rows out of scans until the next
  open, and lost if another flush commits first (`"aborted"` of `lapses`).
- A flip that reports an error (`FlipFailures`) leaves a page the handle thinks
  absent; the next commit reuses what it names (`RecoversWholeCommit`).
- `fail_all` drops the buffers of reads the ring still holds, and the kernel may
  carry those out afterwards, although `io/uring.rs:322` says a buffer lives in
  `in_flight` until its completion arrives (`BufferHeld` without `ringFailed`).
- A batch over a mapping that outlives its snapshot sees its bytes rewritten once
  the extent is reused: a buffer keeps the mapping, not the snapshot
  (`PinnedBytesStable` without `Reading`). `io/mmap.rs:30` names the danger and
  trusts the quarantine, which only knows snapshots.
- Readers do keep a writer out: `try_exclusive` fails while a shared lock is
  held, as `lock.rs:123` tests, although `lock.rs:4` says they never do.

## 4. Proofs

### The table file

`TableFileProofs` proves, for any number of readers, commits, locations, faults
and payloads:

- `TypeCorrect`: `Spec => []TypeOK`, with no further assumption.

and, assuming `~Rewrites` and `~FlipFailures` (the two behaviours above that
break the properties):

- `Inductive`: `Spec => []IInv`;
- `RecoveryIsWhole`, `SnapshotsStayReadable`, `SpaceHasOneOwner`: the safety
  invariants, from `IInv`;
- `OlderSlotStaysWhole`: the slot a crash may fall back to;
- `FileImplementsAtomicCommit`: `Spec => Atomic!Spec`;

and, assuming `~FlipFailures` only:

- `SchemasStayReachable`: `Spec /\ []BlobClear => []SchemaReachable`. Schema blobs
  lie outside `file_len`, and a change that rewrites can lose the one it wrote
  (`file_alter_schema`). `BlobClear` says that it did not: no segment of the draft
  lies on the draft's own blob. The theorem says that this is the only way:
  manifests, reused extents, the segments of every other commit and whatever lost
  or failed commits left behind stay off the blobs. `InductiveBesideBlobs` carries
  `IInv` through `ConvertSegments` under that condition.

`RecoversWholeCommit` speaks of a closed file, so it is not inductive: it needs
to know what every step before the crash has left on the medium. `IInv` says it
by `pc`. While the file is open, the committed manifest, everything it names and
its meta page are *solid*: synced, with a single image, so no crash can touch
them; the other slot holds only pages that lose to it. While a draft is being
prepared its entries stay apart from everything the committed manifest, either
slot's manifest or a pinned snapshot names: an extent the draft may reuse was
freed at a txn no pinned snapshot precedes (`Held`), which is what
`freed_txn < min_active_txn` buys. Between the first sync and the flip the draft
is solid too, so whichever image of the flipped slot survives, the slot that
wins leads to a solid table. `ClosedInv` is that sentence, and `Open` turns it
back into the open case. The proof has one lemma per action and, for writes, a
frame lemma: a write to a location a table does not name leaves it solid.

`OlderSlotStaysWhole` needs an invariant of its own, `SpareInv`: what the older slot
names is kept in the same sense as a pinned snapshot, because everything it names
was freed under a txn `min_active_txn` does not pass while the slot is there.

The refinement proof maps each step: `Flip` is `Propose`, `SyncMeta` is
`Acknowledge`, `Crash` decides the pending commit, everything else stutters
because no write touches a location the committed manifest names.

### Durable writes

`DurableProofs` proves, for any rows, group sizes, records, rotations, crashes and
errors, `DurableTypes`, `ReplayHappensOnce`, `AcknowledgedRowsSurvive`,
`AcknowledgedRowsAreShown` and `UpdatesAreAllOrNothing`, all from
`DurableInvariant` (`Spec => []DurableInv`). The difficulty is that the logs hold
records no one knows the fate of. `DurableInv` keeps two sets of records apart
while the table is open: `Must`, the ones below `len` and past the checkpoint, which
every crash leaves, and `May`, which adds what a failed or unfinished append has
left in some image of a log. `FaithInv` then speaks of every set of records between
the two: replaying it on the table file gives the acknowledged rows, up to the
statements nobody was told about. A crash picks one such set and an open turns
it into both bounds; `FinishAppend` moves a record from `May` to `Must`; a commit
moves what it covers out of both. `OrderInv` says why replay in order of LSN gives
each row its last word (a row is put once and before it is deleted, and a later
bitmap of a segment contains the earlier acknowledged ones), `ImageInv` that no
image lacks a record of `Must`, `MemoryInv` that memory agrees with what was
acknowledged. The two ways of losing rows end these parts of the invariant, and
nothing else does.

### The columnar table

`ColumnarProofs` proves, for any tasks, keys and bounds, in layers:

- `TableTypes`: types, and that everything in memory stays finite, with no
  assumption; `Base` adds that identities of segments, rows and bitmaps lie
  below their counters, in every snapshot any call still holds.
- `LoneTaskFreesOnce` (`FreedOnceAlone`), with no assumption and whichever commits
  fail: alone, a task's snapshot is the published one, so what it frees is what the
  manifest names.
- `SegmentBytesFreedOnce` (`SegmentsFreedOnce`), with no assumption beside the
  property's own: `HeldInv` says that the segments a rewriter has read are still in
  the manifest under their identities, though a flush may have given their entries
  other bitmaps; `DataInv` that the data of a segment in the manifest is not freed.
- `SettledSnapshotsDecode` (`SettledDecodes`), of workloads in which one task changes
  the schema; the property itself asks casts to run alone. `FitInv` follows the schema a change will publish through the
  two actions in which the mutex is held.
- `RowsAreHeldOnce` (`NoRowTwice`), of workloads with `OneRewriter`: at most one task
  compacts or casts. `RowInv` says of a rewriter's snapshot that each of its rows
  is still where it was or gone, which inserts, flushes, statements, dropped
  segments, added columns and failing commits preserve and a second rewriter does
  not.
- `ScansAreExact` (`ScanIsExact`), of workloads that are `Disciplined`: `OneRewriter`,
  statements and flushes are one task's, and no segments are dropped; inserts
  are anyone's, and no commit fails, as the property says. `Exact` says that the published snapshot is the writer's state
  and shows `truth`; of a statement, that each row it matched is where it was
  matched, in the memtable in the same place or in a segment, or was deleted by
  nobody else; of a run, that the bitmaps it read are contained in the current
  ones, so that equal sizes (`Stale`) mean equal bitmaps.

The hypotheses are predicates on the workload `load` of the behaviour, not
assumptions on constants, and each excludes a behaviour listed in section 3 that
breaks the property: two statements at once (`table_seqnos`), two compactions, dropped
segments beside a compaction or over an emptied segment, a cast beside writes. All
workloads of the run `table` satisfy `OneRewriter` and `OneAlters`; its first two are
`Disciplined`, one of them with two tasks, and the others are not, because they drop
segments.

### From rows to segments

`FlushProofs` proves all that the run `segment` checks, for any schema, values, batches
(slices of larger ones included), options and number of inserts, deletes and
flushes, and whatever the codec packs a buffer to:

- `FlushTypes` (`TypeOK`), `SeqnosAlwaysNameRows` (`SeqnosNameRows`);
- `FlushLosesNoRow` (`NoRowLostByFlush`), `GroupsAlwaysFit` (`GroupsFit`);
- `SegmentsRoundTrip` (`RoundTrip`), `DamageIsLocal` (`DamageStaysLocal`),
  `PageBoundsHold` (`PagesBound`).

It assumes `ArrowAssumption`, `RowGroupsAssumption`, `SegmentCodecAssumption` and
`FlushPipelineAssumption`: values are numbers or null, the arrays of a batch have
one length and lie inside their buffers, a value has `DIM_BITS` bits, alignment and
target are not zero, and options cluster by columns that `resolve` accepts.

`IInv` has a part for each thing a flush hands on.

- The memtable: `MemWell` says that its chunks cover the numbers since the last
  flush without a gap and that tombstones name rows it holds, and `Agrees` that what
  the tombstones leave is what the history says. Without the gaps excluded a
  number could name two rows or none; without the bound on tombstones `live_rows`
  would count rows that left long ago.
- The cut: `RowsKept` equates the rows of all segments with the history below
  `flushed`, in order, or as many of each row after a z-order. `Before` and `Ordered`
  keep flushes apart and the key order inside each. Behind the step lie
  `split_row_groups`, followed batch by batch (`OpenInv`: the closed groups fit, and
  with the open one hold exactly the rows so far), and the slices of a sorted
  permutation.
- The bytes: `Held` says of every column of every segment what the round trip
  needs. `ColumnMeans`: the checksummed cells of its buffers stand for the column's
  rows, plain from an offset, through a dictionary or through run ends, whole or
  block by block. `ColumnBacked`: the bytes hold each buffer the chunk names, unpacked
  to those cells, unless it is the damaged one; the checksum rules out whatever
  else lies there. `ColumnZones`: bounds, where stored, are the pages'
  values. The first speaks of checksums and the second of bytes, because damage
  changes only the second.

A read is then right or an error (`RangeRight`) for the plain path, the two encodings
and the walk over blocks, and an error needs a damaged buffer among those
`Needed` names. Recursive functions (sums, the loop over batches, the writes of
children, blocks and columns) are taken through predicates that state their
equations, and induction over them is by a least counterexample (`Least`,
`SetInduction`), which stays first-order.

### The io_uring backend

`UringProofs` proves, for any calls, ranges, file length, ring size and number of
faults, `UringTypeCorrect`, `KernelWritesHeldBuffers` (`UringSpec =>
[]BufferHeld`) and `ReadsAreRight` (`UringSpec => []AnswersAreTrue`). Neither
property is inductive. `UringInv` adds what connects an answer to the entries
that produced it: ids are fresh, so one names at most one entry; an entry is
aimed at the part of its own range it has not read; a completion says what
arrived in the buffer; an entry and the read in flight with its id agree on how
far the read is; and what is queued again, or in flight, is right up to
`filled`. The proof has one lemma per step of the loop. What makes `Complete`
preserve all this is that a kernel write only ever puts the right byte in its
place, so that two entries of the same buffer, which exist after `fail_all`, do
no harm to each other's claims.

### Mapped reads

`MappedProofs` proves `PinnedReadsStable` (`MapSpec => []PinnedBytesStable`) for any
number of processes, tasks, locations and commits. `MapInv` says why: a writer
is alone with the file and its handle publishes the newest commit (`Locked`,
`Handles`), so the snapshots its registry knows are all there are; and every
snapshot that is published or pinned is *kept*: the file holds its segments,
what was freed of them was freed by a later commit, and the draft lies elsewhere
(`Kept`). A location `allocate` hands out was freed before every snapshot alive,
so no kept snapshot names it (`PlaceUnnamed`); a commit frees under its own txn,
which is newer than every snapshot. `MappingsShared` (`MapSpec => []SharedMapping`)
rests on `ShareInv`: the cache names the mapping of every buffer alive, and one per
location, which the second look under the mutex preserves. Without the lock the argument fails at
`WriterAlone`, without the registry at `PlaceUnnamed`.

### Pruning and the scan

`PruningProofs` is about the operators, for any values, options, hash function and
segment a flush may write (`Segments`), assuming of the constants only what
`PruningAssumption` says:

- `SegmentKept`: `SurvivesPruning` keeps a segment with a row the filter selects.
- `PageKept`: `KeepPages`, where it answers at all, keeps that row's page.
- `RangesFit`: the ranges read lie inside the segment, do not overlap, stay each
  within one block, and hold every row of the pages kept.
- `DecodeFits`: decoding a range returns its rows that are not deleted, once each,
  in batches that are not empty and not too long.

The first two share one argument. Stored statistics *describe* a value if the
value lies between the bounds, is counted among the nulls if it is one, and is
not excluded by `contained`; the statistics of a segment, and of a page,
describe every value in it, and a comparison a described value meets is one
`Allows` lets through. Bounds are the hard part: a minimum cut to a prefix is below
the value, `IncrementPrefix` is above every value with that prefix or gives up,
and `DecodeBound` may only lose a bound. For filters, each gram `Required` finds in
a LIKE pattern occurs in every value the pattern matches, so a value's hashes
contain the pattern's. Ranges are followed page by page through `KeptRanges` and
block by block through `Piece`.

`ScanProofs` proves, of any cases that satisfy `IsCase` and any number of
partitions:

- `ScanTyped`, `RowsOnce` (`EachRowOnce`) and `BatchesCut` (`BatchesFit`);
- `LimitsServed` (`LimitServed`) and `CountsExact` (`CountIsExact`);
- `AllRowsKept`: `NoMatchLost` of a query without a filter, whatever happens to the
  schema;
- `GrowthSurvived` (`ScanSurvivesGrowth`) and `MatchesKept` (`PlannedMatchesKept`), with
  any columns added, renamed, dropped and cast beside the scan.

None is inductive. `ScanInv` says of each stream which rows it has had, holds and
has still to read: its item was taken from the list before `next` (`Placed`);
what it sent, what it has queued and what its ranges cover are rows apart from
each other (`Once`); its batches and ranges are those of its segment (`Fits`,
`Ranged`); and its budget is the limit less what it sent (`Budgeted`). Two streams
have no row in common, because no two took the same place of the list. `Covered`
is the other direction: while no budget is exceeded, every row the filter selects
of an item that was taken has been sent or is still ahead in some stream: in a
page it keeps, a range it has to decode, or a batch it has queued. `ListsAll` adds that
a plan made where the filter's columns were as in the snapshot (`Steady`, which a
query without a filter always is) lists every item with a match, by `SegmentKept`.
That the pages `OpenPages` skips hold no match, which `Covered` needs, is `PageKept`;
a segment that no longer opens under the current schema fails the scan, so it
loses nothing silently. For failures, `Unharmed` says that as long as nothing was
dropped or cast the schema is the snapshot's with more columns behind it (`Grown`),
perhaps renamed, under which every segment opens. `PlannedMatchesKept` without its
condition is `NoMatchLost`, which the run `scan_two_loads` refutes.

Every inductive invariant was checked by TLC on the instances of section 3 before
it was proved, and those of `ColumnarTable` on two further workloads with a second
inserting task; the run `file` keeps doing so for `IInv`. That of `FlushProofs`
quantifies over all sequences in three places (the type of a sequence, `SameRows`,
and the keys and run ends in `Means`), which TLC cannot enumerate: it checked the rest,
and `SameRows` over the rows that occur; for `Means` it has `RoundTrip`, which
follows from it.

Every safety property of a passing run is proved, under the hypotheses named
above. Out of this prover's reach and left to TLC: liveness (`ReadsAnswered`,
`ScanEnds`) and `ENABLED`.

## 5. Not modelled

- Nested types, dictionaries and views among the column types, the footer's rkyv
  frame, and the byte forms of `valuecodec.rs`, `layout/batchcodec.rs` and
  `layout/schema.rs`: conversions without state.
- Expression evaluation, casts of values, projections, metrics and EXPLAIN.
- The bits of a membership filter, and trigram filters abandoned for their size
  (a segment simply lists which columns have filters).
- `Memtable::insert` and `coalesce`: the table only calls `insert_at`.
- Byte sizes and alignment of extents, and the splitting of a free extent. Reads
  of 2^32 bytes and more, whose length `submit_entry` would cut to a `u32`.
- Buffers that outlive the handle they were read through: nothing in the code
  protects them, and the model forgets them.
- `io/fault.rs`, benchmarks and fuzz targets: test support. `fault.rs` is where the
  fault model of `TableFile` and `DurableWrites` comes from.

## 6. Plan

In this order:

1. `allocate` with byte sizes and alignment against a reference definition.
2. Two UPDATEs at once, over the write skew `plan_deletes` allows.
3. Liveness: a flush that keeps being called empties the memtable, a compaction
   that is not disturbed ends.
