# eBtree: TLA+ models, checks and proofs

eBtree is an embedded storage engine: a sharded key-value kernel (`cpp/`) with a write-ahead log, memtables, a data
file, a B-tree index, version chains and a two-slot superblock; a SQL layer with optimistic transactions (`sql/`); an
auditing tool (`tools/ebtree_audit/`) and a C API (`c_api/`). This directory models the kernel's durability,
concurrency and versions and the transactions above it, checks the models with TLC and proves part of them with TLAPS.

Paths below are relative to the repository, file names without a path are unique in it. `PROJECT.json` maps every
definition to source lines and lists runs, mutants, findings, hazards and theorems.

## Inventory

| Component | State | Operations | Hard because | Right when |
|---|---|---|---|---|
| `SnapshotFairRwLock` (`engine/`) | readers, appenders, foreground/background writer, waiters | shared, append, exclusive and background modes | one condition variable, conditional notify, pins outside the mutex | exclusion, no lost wakeup, background yields |
| `WalWriter` and `WalSegmentReplayer` (`concept/wal/`) | log file, LSN counter, key index | Append, AppendMany, Fsync, TruncateTo, replay | crash at any byte, truncation, two formats, provisional records | acknowledged records are found again, uncommitted ones are not |
| `WalFsyncCoordinator` | pending count, flushed LSN, deadline | Await, flusher thread, FlushPending | mutex released during fsync, failures | Ok means on disk; every Await returns |
| `WalBatchPipeline` (kBalanced) | queue, batches in flight | Put/Delete, worker, FlushPending | three kinds of drainers, one of them without `rw_mu_` | durable, then visible, then acknowledged |
| `MemTable` x 3 | memtable_, immutable_, flushing_ | Put, Swap, PromoteTxn, ClearTxn, Clear | rotation before a flush that may fail | newest version wins |
| `Flusher`, `DataFile` | append-only file, LSN index, sidecar | Flush, load, ReadByLsn | several files, one step at a time | write-ahead, file order |
| `VersionChainStore` | chains, overflow nodes, two files | Append, Floor, CompactBelow, save, rebuild | spilling, compaction under pins, torn files | the version visible at a pinned snapshot is there |
| `SuperBlockStore` | two slots | Load, Commit | torn writes | the last commit survives |
| `GroupCommitter` | pending LSN, counter | RecordPut, Commit | batch boundary | a commit covers what was written |
| `ShardEngine` | all of the above, recovery flags | Put, Delete, Get, Scan, Flush, Checkpoint, Open, RecoverFull | deferred replay, crash between steps, fsync outside the lock | RPO 0, fresh reads |
| Resolvers (`read_`, `scan_`, `snapshot_resolver`) | read cache | Get, Scan, reads at a snapshot | several sources of different age | the version visible at the snapshot |
| B-tree, page file, summaries | pages, root | Put, Delete, lookup, heal | partial pages, corruption | equals a sorted map |
| `RegionManager`, GC | generations | swap, reclaim | pinned snapshots | no visible version is reclaimed |
| `TLog` | snapshots by time | AppendSnapshot, flashback | later flushes and crashes under the noted size | the state at that time |
| `Engine`, router | shards | routed calls, snapshots over shards | no atomic cut | consistent snapshot |
| `TransactionState` (`sql/session/`) | read set, write set, range tickets, journal | Begin, statements, Commit, Rollback, savepoints | validate, then commit, without a lock; replay by id | snapshot isolation, committed is found again |
| SQL parse, plan, eval, exec, catalog | catalog, op log | statements | mostly sequential | relational semantics |
| Audit tool | chain of recovery reports | append, rotate, verify, monitor | crash between file and anchor | chain stays verifiable |

Interaction: a client thread calls `Engine` -> `ShardEngine`. A kSync Put, or one of any class with `sync_on_commit`,
holds `rw_mu_` exclusively (shard_engine.cc:598) while it appends and updates the memtable, lets it go, waits in
`WalFsyncCoordinator::Await`, and takes it again to set `stable_lsn`. A kBalanced Put holds `rw_mu_` in append mode for
a pending replay only, and then queues a job for the pipeline's worker. kGroup and kAsync writes run under the exclusive
lock through the rules of `SyncExecutor`. Flush, Checkpoint and the background flush worker hold `rw_mu_`
exclusively; they first call `FlushPending` of the coordinator or of the pipeline. So does `AppendTxnCommit`, but
without `rw_mu_` (shard_engine.cc:1397-1411), and then fsyncs the log itself. Recovery reads the superblock, the
data file, the sidecars and the log, which it replays at once or on a later call. A SQL session owns an engine; the
statements of a transaction write provisional memtable entries and log records that carry its id, its Commit validates
against the log and the range tickets and appends a commit record; its Rollback appends an abort record and puts the
old values back, one write after the other. Readers pin snapshots without a lock.

## Modules

| Module | Role | Composes |
|---|---|---|
| `SnapshotFairRwLock` | the lock | |
| `SuperBlockStore` | the two slots | |
| `DurableLog` | abstract: what a durable log promises its writers | |
| `WalFsyncCoordinator` | group fsync of kSync | implements `DurableLog` |
| `WalBatchPipeline` | kBalanced, beside flush and checkpoint | queue, log, tables |
| `ShardEngine` | one shard, write path to recovery | log, tables, flusher, data file, superblock, chains' head |
| `VersionChains` | old versions of one shard | chains, data file, generations, TLog, pins, checkpoint |
| `Transactions` | several sessions on one shard | transaction state, log, memtables, tickets, replay |

`SnapshotFairRwLock` - one action per lock method. `lock` is two, its entry and a later turn of its wait loop. `asleep`
is the set of threads inside `cv_.wait`; any of them may also wake spuriously. A refused try changes nothing and
is not an action. Snapshot pins change without the mutex, as in `ShardEngine::PinSnapshot`.

`SuperBlockStore` - a slot is a block or `Invalid`; a slot write makes the slot invalid and then valid, and a crash or
an I/O error may come between. `content` stands for the fields the checksums protect, which are taken to detect every
torn block.

`WalFsyncCoordinator` - an action is a stretch of code between two releases of `mu_`. `max_batch_size` is chosen once,
from `BatchSizes`; above 1, with a wait, it means micro-batching. Writers, the flusher thread, a Flush or Checkpoint
(`Maintenance`) and sessions in `AppendTxnCommit` are processes. The first three share `RunFsyncLocked`; a session calls
`FlushPending`, while writers go on appending, and then `WalWriter::Fsync` past the coordinator. Staging in the log (`UnflushedBytes`) belongs to write-through mode, which nothing in the
repository turns on. `DL == INSTANCE DurableLog WITH appended <- tail, waiting <- Waiting` is the refinement mapping;
`durable` and `acked` map to themselves.

`DurableLog` - a record gets the next LSN, a sync makes the whole log durable, a writer that waits gets Ok only for a
durable record, or an error. It knows nothing of batches, deadlines, threads and failures.

`WalBatchPipeline` - a client is its job. `excused` is history, see Findings. `batch` and `step` are the locals of
`DrainAndFlush` in the hands of the worker, of a maintenance call or of a session in `AppendTxnCommit`, which is the only
one to apply without `rw_mu_`; `commit` is where that session is. `AppendMany` fails as a whole (`AppendManyFails`) or for
single records, oversized or not written. Flush and Checkpoint are coarser here than in `ShardEngine` (the whole table in
one step): what matters is how they interleave with the drainers. `magic` is the format mark at the head of the log,
`file_ok` the state of its stream, `unlogged` what was applied with LSN 0. `stable_lsn` is left out, as no step here
reads it.

`ShardEngine` - files, memory and control of one shard. `opts` (durability class, `sync_on_commit`, recovery strategy,
`lazy_committed_load`) is chosen once. `tears` are the places of the data file where a crash left a part of a record
(`TearsTail`); a load gets no further than the first of them (`Reached`), which is certain of the record right behind it
and a simplification for the rest, as the reader may by chance find its place again. A value is the LSN of the record that wrote it. Flush and Checkpoint are one
action per file operation, so that a crash or an error can come between any two; `phase # "idle"` means the exclusive
lock is held. `AwaitFsync` is what `DurableLog` promises. Get is an operator, and an action only where it changes
something (a miss while the replay is pending restores one key); Scan replays what is pending. `lsn_index` is what
`DataFile::ReadByLsn` can find, `didx` its sidecar. `acked` and `group_acked` are history: what has been reported
durable. The state of `SuperBlockStore` is one atomic block here, which `CommittedSurvives` justifies once a first
commit exists.

`VersionChains` - kSync writes of one thread and full replay at open; how writes survive is `ShardEngine`'s. A chain
is its inline nodes and the overflow nodes that `Append` spills past `InlineMax`. A flush with its `Append`s is one step,
the checkpoint after it is one step per file. Readers capture a snapshot, pin it and release it between any two steps.
`vidx` and `vcsmeta` are whole, cut or empty after a crash; `TornMeta` is a meta file that an open cannot read. Sizes
are in records. `SaveToFile` and `CompactBelow` go through `chains_`, which has no key with overflow nodes only
(`Listed`), as an open leaves one that found `.vidx` empty. `unloaded` is history: stored versions that some open found
in no chain, or reclaimed, or that a compaction dropped with such a key. It is not reset by a later open, because what GC reclaimed can come back: after two swaps and two crashes a tombstone that an open could not
see is loaded again, while the saved root still holds the older version that open resurrected.

`Transactions` - a session is a `Database` with an engine and a memtable of its own; sessions meet in the log and in
the range tickets, which are per directory and process. That is how the repository's tests run concurrent
transactions. A statement is one action; Commit is two, validation and commit record, and `stage = "raced"` says that
another session acted between them. A rollback, of the transaction or to a savepoint, is one action for its start, one
for each journal entry (`Undo`, or `UndoFails`, whose result the code ignores) and one for its end, and other sessions,
checkpoints and a restart may come in between; abort records at the end of the log, which nobody fsyncs, may be lost by
a restart. An UPDATE that finds its rows by a scan makes the journal entry before it takes the ticket
(dml_executor.cc:164-165), other statements after; `Write` has one step for both, whose outcome is the same. A version is the LSN of its record, a value the LSN it was first written under: an
undo writes an old value under a new LSN. `TxnBegin` records, which nothing reads, take no LSN. The flush worker and the
read cache are left out; snapshot pins are in `VersionChains`.

`OrderLemmas` - least and greatest members of a set of numbers, for the proofs; it models nothing.

`MC*` modules declare model values, sets of options and symmetry sets (keys and writers, sessions, readers: no
definition of the module tells them apart, and the properties of a run under symmetry are invariants and action
properties). `*Proofs` modules hold theorems.

## Runs

`MaxLsn`, `MaxData`, `MaxWork`, `MaxTxns`, `MaxCheckpoints`, `MaxCrashes`, `MaxFaults`, `MaxRounds`, `MaxContent` and
`MaxPins` end behaviours. The runs of `SuperBlockStore`, `ShardEngine`, `WalBatchPipeline`, `Transactions` and
`VersionChains` do not check deadlock: they stop where a bound is reached, and `VersionChains` also where a torn file
makes every open fail. The lock and the coordinator do check it: their states always allow another call, and a stuck
thread would show.

| Run | Shows | Why the bound is enough |
|---|---|---|
| `lock` | exclusion, wakeups, politeness; the last waiter is served | three threads: a holder, a waiter and a newcomer |
| `superblock` | the last committed block survives, the active slot is not written | five commits write each slot twice or more, with crashes anywhere |
| `fsync` | Ok means on disk, one `RunFsyncLocked` at a time, FlushPending leaves nobody, every Await returns; the coordinator implements `DurableLog` | batch sizes 1 (the enterprise default) and 2, two writers, the flusher, a maintenance call and a committing session: one in the fsync, one that joined it, one too late for it; three LSNs, one failure; 0.2 million states |
| `shard` | RPO 0, group commits, write-ahead (I-D1), I-D2, safe truncation, file order (I-D3), complete roots, fresh Get and Scan | kSync and kGroup with fast open, kAsync with full replay, kSync with lazy load, `sync_on_commit`; two keys, two writers, a checkpointed shard; three LSNs are a version in the root, one in the tables and one in the log; a crash, with or without a torn record, and an I/O error at any step; 2.7 million states |
| `pipeline` | durable before visible before acknowledged, the newest version is read, no job lost, every Put returns | three clients and batches of two: batches in the hands of two drainers and one job in the queue; worker, a flush or checkpoint and a committing session; oversized values, one failed write or fsync; three LSNs: a flushed record, one a truncation keeps and one appended after it; 0.2 million states. The safety part was also run with four LSNs (3.1 million states) |
| `txn` | no dirty read, no lost update, no phantom, what was reported committed is found after any reopen | two sessions and one key make every conflict of two transactions; four records and events are enough for read, foreign commit, own write and commit, and for a rollback or a checkpoint between; 0.4 million states |
| `versions` | a pinned snapshot keeps its versions, a flashback its state | two keys, two pins, inline limit 1 and three LSNs: one version inline, one spilled, one newer; two checkpoints, so that a swap follows a swap; a crash in any step; 1.7 million states. A compaction that meets a key with overflow nodes only takes a third checkpoint: with `MaxCheckpoints = 3` (4.4 million states) the properties hold too, and the theorems cover any number |
| `shard_failed_flush`, `shard_lazy`, `txn_restart`, `versions_forward`, `pipeline_checkpoint` | see Findings | the smallest instances that show it |

Fairness (`lock`, `fsync`, `pipeline`): a thread that was woken runs, a thread that holds a lock lets it go, an fsync
ends, time passes, a worker thread goes on, a Flush or commit under way goes on and a client that is inside Put
continues. Nobody is obliged to call in, no failure and no spurious wakeup is owed. The operating system's scheduler
gives this; the mutexes are taken for short stretches only.

Every property has a mutant: a variant of a mapped definition, defined just before it, under which TLC finds the
property violated.

### Findings

A run that expects a violation states what a document or a test of the repository says, and TLC shows a behaviour of
the code against it. `PROJECT.json` quotes the lines.

| Run | Behaviour |
|---|---|
| `shard_failed_flush` | a flush whose fsync fails leaves its table in the rotation; the next checkpoint covers and truncates its record without flushing it |
| `shard_lazy` | with `lazy_committed_load`, the production default, the root of the next checkpoint lacks every key not written since the open |
| `pipeline_checkpoint` | a checkpoint covers and truncates the batch the worker has not applied yet |
| `txn_restart` | transaction ids start at 1 in every process; an abort of the new transaction 1 erases the committed records of the old one at the next replay |
| `versions_forward` | a crash between superblock and saved chains leaves B-tree keys whose versions no chain has |

Because the code behaves so, passing runs and properties are restricted, in constants or in a guard that says so:

- `shard`: `AckedDurableUnlessFailed`, `GroupCommitDurable`, `CheckpointCoversLog`, `DataFileOrder` and the reads end at the
  first failed flush or superblock and at the first torn record (`NoErrorYet`), while fsyncs of writes and of group
  commits may fail before; `RootCompleteUnlessLazy` and the reads leave the lazy load out. The run starts from a
  checkpointed shard and calls `RecoverFull` only with full replay.
- `GetFresh` is said of keys that `stable_lsn` still covers, and excepts a stale value while the replay is pending and
  a key whose newest version in the tables is a delete. `ScanFresh` needs the first condition only, with the replay done.
- `StableMonotonic`, which is proved and not part of a run, leaves kSync out, where each writer sets `stable_lsn` to its own
  LSN.
- `AwaitReturns` does not promise a return in micro-batch mode once an fsync has failed: the flusher's failed attempt has
  cleared the deadline, and the writers wait for a full batch. Without batching it holds with failures.
- `AckedDurableUnlessExcused`, `AppliedDurable` and `NewestWins` end (`excused`) at the first batch that a record which is
  oversized or not written aborts while others of it return Ok, the first batch applied with LSN 0, the first batch
  applied after a newer one of the same key, and the first checkpoint that covers or truncates what another drainer has in
  hand, or has applied since the flush (`pipeline_checkpoint`).
- `txn`: `NoLostUpdate` and `NoPhantom` leave out a commit whose validation was raced; `AckedSurvives` leaves out a key
  whose last log record is of an unfinished transaction (`Shadowed`); a restart happens only when the log holds no
  record of a transaction (`RestartsAnyTime = FALSE`).
- `versions`: one thread takes and releases all snapshots (`PinsSerially`); `PinnedLookup` and `PinnedStays` leave out
  versions that some open did not load, or that went with a key not in `chains_` (`unloaded`).

Disagreements met while modelling that have no run of their own:

Durability and recovery

- A crash inside the very first superblock commit leaves two invalid slots, and Open fails (superblock.cc:61, :74).
- A crash during the very first flush of a shard leaves records in the data file and no superblock. The open rebuilds the
  chains from them, the replay brings the same records back, the next flush appends them again, and its first `Append`
  to a chain refuses the LSN: the flush fails and leaves its table in `flushing_`, as a failed fsync does (with
  `Checkpointed = FALSE` and no I/O error `AckedDurableUnlessFailed` fails).
- Data file and superblock are flushed to the operating system and never synced, while the log is truncated after a
  checkpoint: a power failure, unlike the stop of the process that `Crash` models, can lose acknowledged writes.
- After a fast open `RecoverFull` clears the pending flag and so replays nothing; a checkpoint then drops the records
  (shard_engine.cc:425, against ADR-004:17).
- After a failed flush the next `RotateMemTableForFlush` moves the unflushed table into `immutable_`, against I-MT1 of
  ADR-007, and its records are flushed later behind newer versions, against I-D3 of ADR-001.
- In kAsync no write records a pending LSN, so a group commit returns Ok before its fsync; the table of ADR-002 says
  that kAsync is made durable "On flush / group commit / checkpoint".
- A batch may be applied after a newer one of the same key, which it then hides: readers prefer the memtable, and Get
  returns the older value although the Put of the newer one returned Ok (against ADR-007:19, "newest wins"). A
  committing session does it when it drains the queue while the worker waits to apply (shard_engine.cc:1405), a Flush
  when its `FlushPending` has applied and it has stored the newer one before the worker gets `rw_mu_`. The flush of such
  a table is refused by the chains. Without the last disjunct of `excused` in `ApplyWalBatch`, `NewestWins` fails.
- A crash that cuts a record of the data file in two loses a write with no failure at all: the file is opened for
  appending at its end and never cut off (datafile.cc:94), the next flush appends behind the part, where no load gets to
  (:466, :484, :489), and the checkpoint truncates the log. With `TearsTail = TRUE` and one crash `AckedDurable` fails;
  `AckedDurableUnlessFailed` excepts it (`NoErrorYet`).
- One oversized or unwritten record makes the other Puts of its batch return Ok, neither fsynced nor applied
  (ADR-021:31). A failure of the whole `AppendMany` is ignored (wal_batch_pipeline.cc:136): the jobs keep their Ok status,
  are applied with LSN 0, and return Ok without a record in the log.
- `ApplyWalBatchUnlocked` of a committing session writes memtable and `stable_lsn` beside the worker: a data race, and
  `stable_lsn` may be set back (shard_engine.cc:530). The models have the order of the batches, not the race.
- `WalWriter::TruncateTo` writes the magic number of the V2 format only when it keeps no record, and `max_lsn` is read
  back from the wrong format afterwards (the models' `magic` and `TruncateTo`).
- `ReplayRecordAt` reads a V1 header at an offset of a V2 log, and a value starts four bytes too early (wal.cc:602).

Reads

- Get after a fast open returns the checkpointed version although a newer acknowledged one waits in the log
  (read_resolver.cc:68, against ADR-004:7).
- Get of a key deleted in the memtable falls through to the version on disk; test/pipeline/pipeline_durability_test.cc:115
  and :122 expect no row.
- A kSync writer that wakes late sets `stable_lsn` back, and a newer acknowledged write is invisible
  (shard_engine.cc:617, against ADR-020:14).
- With the lazy load the direct scan reads a `committed_` that holds part of the keys, and a crash between superblock and
  `.didx` leaves values that nothing leads to.

Versions

- Pins taken by two threads at once lose the lowest one, and a compaction drops its versions; with
  `PinsSerially = FALSE` `PinnedLookup` fails. test/failure/vcs_snapshot_powerfail_test.cc:86 pins from several threads.
- A version overwritten in the memtable before its flush, or replayed after a crash, never enters a chain.
- A GC swap does not rewrite live keys: they become unreadable by LSN and vanish at the next open (ADR-006:16); a key may
  come back with an older value. The file does not shrink, so every later flush swaps again, and after two swaps
  reclaimed and deleted records reappear.
- The rebuild of the chains tests `reserved[0]` for the generation, where the codec is stored (version_chain_store.cc:313).
- `ReadHeaderAtLsn` computes a CRC over a pointer (datafile.cc:269), so that the deferred reads of ADR-046 never happen.
- A torn meta file of the chains makes the open fail (version_chain_store.cc:29). An open that is not lazy leaves
  `lsn_index` empty.

Transactions

- A committed or autocommitted value is hidden after a reopen by a later record of an unfinished transaction
  (wal_segment.cc:533), and the flusher writes provisional entries to the data file like any others.
- Rollback after a Conflict writes the journal's old values over what the winner committed (transaction_state.cc:181). It
  is a loop of writes whose results it ignores, after an abort record that nobody fsyncs: a crash in the middle leaves
  some keys undone and others not.
- `RollbackToSavepoint` puts old values back outside the transaction (:257, id 0), where others see them before it
  commits, but deletes an inserted key inside it (:259, the transaction's id).
- `TxnBegin` and `TxnAbort` records stay in the stream buffer of their session. A record another session appends meanwhile
  gets the same LSN and the same offset of the file (wal.cc:313), and whichever is written last stays. The models give
  each record its own place, so that what they say of abort records assumes they reach the log or are lost at its end.
- Two transactions may both pass validation before either appends its commit record (:156).
- `FoldWalToVcs` ignores abort records; index entries of a DELETE are written outside the transaction
  (executor_v2.cc:234).
- Range tickets live in the process and are leaked by a session that closes inside a transaction.
- ADR-025:48 promises snapshot-isolated reads, while `MemEntryVisible` returns committed entries newer than the snapshot.
- A checkpoint by an engine that has not replayed the records of another engine truncates them.
- A snapshot over several shards is no consistent cut, as the shards are captured one after the other (engine.cc:311).
- The kWrite rule of kGroup and kAsync drops the transaction id of a write (core_rules.cc:20).
- The key of the read cache rounds the snapshot down (snapshot_resolver.cc:89).

## Proofs

The theorems hold for every value of the constants: any number of threads, writers, clients, keys and readers, any batch
size and inline limit, any bound on LSNs, records, checkpoints, crashes and failures. Three groups have a hypothesis
on the constants, named below. Each inductive invariant was first checked by TLC on the instance of the run.

- `SnapshotFairRwLockProofs`: type correctness, exclusion, no lost wakeup, polite background writer. The invariants the
  runs check are not inductive, since the lock decides by counters: `CountsInv` says that each counter is the
  cardinality of the threads in that state, `FlagsInv` ties the flags to their holders, `AsleepInv` says that only
  waiters sleep. One lemma per kind of transition (start to wait, enter shared, enter alone, leave, wake), cited by
  the methods. Assumes a finite set of threads.
- `SuperBlockStoreProofs`: the last committed block survives, the current slot is never written, the loaded epoch never
  goes back. `SlotsInv`: the parity of an epoch is its slot, and the larger epoch has the later content; `WriteInv`: what
  is being written is one epoch above the other slot, which holds what was committed.
- `WalFsyncCoordinatorProofs`: Ok means on disk, fsyncs are serial, `FlushPending` is complete. `RunningInv`: who is in
  `RunFsyncLocked` has set `fsync_running_`; `TargetInv`: its target was in the log before the fsync and is on disk
  after it; `LsnInv`: `flushed_lsn_ <= durable <= tail`. `FlushPending` leaves nobody unserved by `WaitInv`: a waiting
  writer's record is flushed, or counted for the next fsync, or the target of the one under way. Then `Spec => DL!Spec`:
  the initial states map to initial states; an append maps to `AppendRecord`, a successful fsync to `Sync`, each way out
  of Await to `Acknowledge` or `ReturnError`, and every other step to a stutter (`StepSimulation`, one case per action).
  It needs `OneRecordEach` too, that two writers never wait for the same record: else the return of one would end the
  wait of the other. A session in `AppendTxnCommit` is a caller like a writer, its last fsync a `Sync`. What the
  abstract log promises is `DurableLogRpo0`, inductive with `Log`, that what is durable or waited for was appended.
- `WalBatchPipelineProofs`: type correctness, no job lost or handled twice by any number of drainers (`PlaceInv`), and,
  as long as nothing is excused, durable before visible, the newest version read and every acknowledged Put found again.
  `HandedInv` is the heart of it: the records of a batch past its append are in the log, past its fsync in the synced
  part, above the superblock unless a checkpoint is about to truncate them, which is what excuses, and newer than what
  the memtable has. `TablesInv` says the same of what was applied, and that the memtable hides nothing newer in the
  file, and `AckedInv` where an acknowledged version is: in the data file, or synced and in the memtable.
- `ShardEngineProofs`, part 1, with any crashes and I/O errors: type correctness, write-ahead (I-D1), nothing stable
  that is not durable, `stable_lsn` monotonic. `TablesInv`: an entry of any of the three tables is in the log or below
  the superblock; `PhaseInv`: a flush under way has the whole log synced; `StableInv`: the LSNs that writers and
  superblock will publish are synced.
- `ShardEngineProofs`, part 2, up to the first failed flush or superblock and the first torn record, whatever fsyncs of
  writes and group commits fail: truncation is safe, the data file is in order, RPO 0 for writes and
  for group commits, complete roots. `CoverInv`: a record of the log is superseded in the flushed part of the data file,
  or by an entry the flush has still to store, without the latter if the superblock covers it; `TodoInv`: such an entry is
  newer than superblock, chain and data file, so that no `Append` refuses it; `ShapeInv`: which table is empty in which
  phase; `AckInv`: an acknowledged version is covered, or its record is synced and will be replayed. The hypotheses are
  the setting of the run `shard`: a shard checkpointed once (`Checkpointed`; without it the finding about the very first
  flush applies), and `RecoverFull` called with full replay only (with fast open it forgets the pending replay). Both
  are behaviours of the code under which the properties fail, see Findings.
- `ShardEngineProofs`, part 3, under the same hypotheses: reads. `Get` and `Scan` miss nothing that was reported durable.
  `SameInv`: an LSN stands for one record in log and data file, and what was acknowledged, or a writer still waits for,
  is that record; `FileAcked`: a stored record was acknowledged or the log brings it back; `ChainKeys` and `IndexInv`: a
  chain has only LSNs of its key, and misses none above one that `ReadByLsn` finds; `BtreeInv`: the B-tree agrees with
  `committed_` on what is flushed. One lemma per source a read goes through (the tables, the file by LSN, the floor of
  the chain, `committed_`) says that what it returns is as new as what was acknowledged.
- `VersionChainsProofs`, part 1: type correctness and flashback. `FileInv`: the records of a key are in LSN order in the
  file, and one that a replay stores again says the same; with `TableInv`, that the memtable has the newest record of a key,
  and `LogInv`, that a stored version above the superblock is in the log, a flush cannot change what an old TLog entry says.
- `VersionChainsProofs`, part 2: reads at a pinned snapshot find the newest version, and keep finding it. `FloorInv`: a
  stored version is in its chain, or excepted (`unloaded`), or a newer one is at or below every snapshot that is taken
  or will be taken; `NewestInv` and `IndexInv`: no map hides a newer version below the snapshot, and a key with a version
  that can be read by LSN is in `chains_`, so that no compaction drops it; `FoldInv`: a checkpoint's fold adds nothing
  that was never stored; `CoveredInv`: a truncation leaves no record; `PinInv`: the pinned LSN is at or below every snapshot taken,
  and the count is not 0, so no GC swap comes between (`CountInv`). `PinInv` needs `PinsSerially`, the setting of
  the run: two threads that pin at once lose the lowest pin, and `PinnedLookup` fails.
- `TransactionsProofs`, part 1: type correctness and no dirty read, restarts at any time included. `TableInv`: a memtable
  entry above the superblock is that of a log record with the same transaction, and a durable one is of no transaction or
  of a committed one; `LogInv`: the i-th record has the i-th LSN; `ClosedInv`: who has no transaction keeps nothing of one.
- `TransactionsProofs`, part 2, while no transaction id is used twice: what was reported committed is found again, no
  update is lost, no phantom added. `IdInv`: an open transaction's id is of one session, below the next one and, unless it is
  being rolled back, in no abort record; `AckInv`: what was reported committed, or a newer version, is flushed or is a record that no abort can
  still name; `Own`: a transaction has a ticket for every key it logged or will undo; `Sampled`: what a ticket holds was
  the committed version before the transaction's own record; `Valid`: between validation and commit record, unless
  raced, the validation would pass again. The hypothesis `RestartsAnyTime = FALSE` is the setting of the run: with
  TRUE the run `txn_restart` shows that a reused id loses a committed version.

Assumptions, all named in the modules: the constants have their types, the processes are distinct, the sentinels are
no blocks. Assumed of the platform: checksums detect torn blocks, and an fsync that succeeds covers all records
written before it, also after one that failed.

Only model-checked:

- liveness (`LastWaiterServed`, `AwaitReturns`, `PutReturns`), which is beyond the prover;
- the expected violations, which are behaviours and not theorems.

## Not modelled

- The read cache and the transaction sidecar: the first only makes OCC samples older, nothing reads the second.
- The mmap window, the catalog, the operation log and the audit tool: components of their own beside the ones modelled.
- Codecs, checksums, record encoding, B-tree pages, tries and histograms: layout of data that the models have as maps
  and records.
- SQL parsing, planning and evaluation: pure. Index maintenance repeats the row statement for another key.
- Several shards: routing is a function of the key, and the one operation over shards, the snapshot, is no cut.
- The fallback of an open to a rebuilt index after a corrupt log, summary repair and attestation: they answer damage that
  the fault model (crash, failed write) does not make.
- A power failure. What was handed to the operating system stays, so that neither the unsynced data file and superblock
  nor a torn entry or index of the TLog (tlog.cc:50-101) is modelled. A process that stops between entry and index leaves
  an entry no index names, which is as if it had stopped before both.
- What a load makes of the bytes around a torn record of the data file: it stops there in the model.
- The C API is a wrapper. Vendored libraries (most of the repository's files), tests, benchmarks and demos are not part of
  the program.

## Plan

Modules: the mmap window with readers across a remap; the operation log's hash chain and the audit tool's report chain
across crashes; the engine over several shards.
