---------------------------- MODULE ShardEngine ----------------------------
(***************************************************************************)
(* One shard: write path, flush, checkpoint, crash and recovery            *)
(* (cpp/src/engine/shard_engine.cc and the components it calls).           *)
(*                                                                         *)
(* A value is identified with the LSN of the record that wrote it, so a    *)
(* map from keys to values is a map from keys to LSNs, 0 for "absent".     *)
(* Every operation runs under the exclusive lock rw_mu_ except the wait    *)
(* for the fsync in a kSync Put or Delete.  An operation that writes files *)
(* in several steps is several actions, so that a crash or an I/O error    *)
(* can come between them; phase # "idle" means that the lock is held.      *)
(* Writes outside transactions, kSync / kGroup / kAsync.                   *)
(***************************************************************************)
EXTENDS Naturals, Sequences, FiniteSets

CONSTANTS Key, Writer,
          Options,           \* the EngineOptions to check, see OptionsOK
          BatchSize,         \* group_commit_batch_size
          Checkpointed,      \* start from a shard checkpointed once
          CallsRecoverFull,  \* the recovery strategies under which the
                             \*   application calls RecoverFull
          TearsTail,         \* a crash may cut a data file record in two
          MaxLsn,            \* bound on the LSNs given out
          MaxData,           \* bound on the records of the data file
          MaxCrashes, MaxFaults

ASSUME KeyFinite == IsFiniteSet(Key)
ASSUME OptionsOK ==
  /\ Options \subseteq [durability : {"kSync", "kGroup", "kAsync"},
                        sync_on_commit : BOOLEAN,
                        recovery_strategy : {"kFastOpen", "kFullReplay"},
                        lazy_committed_load : BOOLEAN]
  /\ Checkpointed \in BOOLEAN /\ TearsTail \in BOOLEAN
  /\ CallsRecoverFull \subseteq {"kFastOpen", "kFullReplay"}
ASSUME BoundsOK ==
  /\ {BatchSize, MaxLsn, MaxData, MaxCrashes, MaxFaults} \subseteq Nat
  /\ Checkpointed => MaxLsn > 0

VARIABLES
  opts,              \* opts_, fixed when the shard is made
  \* files
  wal,               \* the records of the log, and how many leading ones
  wal_synced,        \*   an fsync has made durable
  datafile,          \* the records of the data file, and how many leading
  datafile_flushed,  \*   ones have left the append stream
  tears,             \* positions in it after which a crash left a part of a
                     \*   record
  super,             \* the superblock: [data_lsn, wal_lsn, root]
  didx,              \* the saved LSN index of the data file
  vidx,              \* the saved version chains, or NoSidecar
  \* memory
  max_lsn, memtable, immutable, flushing, committed, btree, vcs,
  lsn_index,         \* LSNs DataFile::ReadByLsn can find
  sb,                \* sb_, the superblock in memory
  stable_lsn, pending_stable_lsn, puts_since_commit, wal_replay_pending,
  \* control
  phase, in_checkpoint, flush_todo,
  writer,            \* the write each thread has in progress, or NoWrite
  crashes, faults,
  \* history
  acked,             \* newest version of each key that a kSync write, a
                     \*   flush or a checkpoint has reported durable
  group_acked        \* the same for GroupCommit

sidecars == <<didx, vidx>>
disk == <<wal, wal_synced, datafile, datafile_flushed, tears, super, sidecars>>
tables == <<memtable, immutable, flushing>>
index == <<committed, btree, vcs, lsn_index>>
lsns == <<max_lsn, sb, stable_lsn, pending_stable_lsn, puts_since_commit,
          wal_replay_pending>>
control == <<phase, in_checkpoint, flush_todo>>
vars == <<opts, disk, tables, index, lsns, control, writer, crashes, faults,
          acked, group_acked>>

Durability == opts.durability
SyncPath == Durability = "kSync" \/ opts.sync_on_commit
RecoveryStrategy == opts.recovery_strategy
LazyCommittedLoad == opts.lazy_committed_load

Lsn == 0 .. MaxLsn
Record == [lsn : Lsn, key : Key, del : BOOLEAN]
Entry == [lsn : Lsn, del : BOOLEAN]
NoEntry == [lsn |-> 0, del |-> FALSE]
NoRoot == [k \in Key |-> 0]
NoSidecar == [k \in Key |-> {0}]     \* no chain holds LSN 0
NoWrite == [pc |-> "none", lsn |-> 0]
EmptyTable == [k \in Key |-> NoEntry]

TypeOK ==
  /\ opts \in Options
  /\ wal \in Seq(Record) /\ wal_synced \in 0 .. Len(wal)
  /\ datafile \in Seq(Record) /\ datafile_flushed \in 0 .. Len(datafile)
  /\ tears \subseteq Nat
  /\ super \in [data_lsn : Lsn, wal_lsn : Lsn, root : [Key -> Lsn]]
  /\ didx \subseteq Lsn
  /\ vidx \in [Key -> SUBSET Lsn]
  /\ max_lsn \in Lsn
  /\ memtable \in [Key -> Entry]
  /\ immutable \in [Key -> Entry]
  /\ flushing \in [Key -> Entry]
  /\ committed \in [Key -> Lsn] /\ btree \in [Key -> Lsn]
  /\ vcs \in [Key -> SUBSET Lsn]
  /\ lsn_index \subseteq Lsn
  /\ sb \in [data_lsn : Lsn, wal_lsn : Lsn, root : [Key -> Lsn]]
  /\ stable_lsn \in Lsn /\ pending_stable_lsn \in Lsn
  /\ puts_since_commit \in Nat
  /\ wal_replay_pending \in BOOLEAN
  /\ phase \in {"idle", "flush", "fold", "superblock", "didx", "vidx",
                "truncate", "down"}
  /\ in_checkpoint \in BOOLEAN
  /\ flush_todo \subseteq Key
  /\ writer \in [Writer -> {NoWrite} \cup
                   [pc : {"await", "synced"}, lsn : Lsn, key : Key,
                    del : BOOLEAN]]
  /\ crashes \in Nat /\ faults \in Nat
  /\ acked \in [Key -> Entry]
  /\ group_acked \in [Key -> Entry]

---------------------------------------------------------------------------
(* Reading the log, the data file and the chains. *)

Max2(a, b) == IF a >= b THEN a ELSE b
MaxOf(S) == IF S = {} THEN 0 ELSE CHOOSE m \in S : \A n \in S : n <= m
Elements(log) == {log[i] : i \in 1 .. Len(log)}

(* The entry of the last of some records, in file order: of those of k, or *)
(* of those of k above an LSN.                                             *)
LastAt(log, at) ==
  IF at = {} THEN NoEntry
             ELSE [lsn |-> log[MaxOf(at)].lsn, del |-> log[MaxOf(at)].del]
Of(log, k) == {i \in 1 .. Len(log) : log[i].key = k}
OfAbove(log, k, lsn) == {i \in Of(log, k) : log[i].lsn > lsn}
LastOf(log, k) == LastAt(log, Of(log, k))
LastAbove(log, k, lsn) == LastAt(log, OfAbove(log, k, lsn))

(* A log from its first record above an LSN on.                            *)
Above(log, lsn) ==
  LET above == {i \in 1 .. Len(log) : log[i].lsn > lsn}
      first == CHOOSE i \in above : \A j \in above : i <= j
  IN  IF above = {} THEN <<>> ELSE SubSeq(log, first, Len(log))

(* WalSegmentReplayer::ReplayPending: records above after_lsn go into the   *)
(* memtable in file order, over what it holds.  The variant before it lets  *)
(* the oldest record win.                                                   *)
ReplayPending_OldestWins(table, log, after_lsn) ==
  [k \in Key |-> LET of == OfAbove(log, k, after_lsn)
                 IN  IF of = {} THEN table[k]
                     ELSE LastAt(log, {CHOOSE i \in of : \A j \in of : i <= j})]
ReplayPending(table, log, after_lsn) ==
  [k \in Key |-> LET e == LastAbove(log, k, after_lsn)
                 IN  IF e = NoEntry THEN table[k] ELSE e]

(* EnsureWalReplayed: the memtable after it. *)
ReplayedTable ==
  IF wal_replay_pending THEN ReplayPending(memtable, wal, sb.wal_lsn)
                        ELSE memtable

(* The records of the data file that a load comes to.  It stops at a tear, *)
(* which the append stream does not cut off: what is appended later comes  *)
(* after it.  What it makes of the bytes around a tear is left out.        *)
Reached(file) ==
  SubSeq(file, 1, MaxOf({i \in 0 .. Len(file) : \A t \in tears : i <= t}))

(* DataFile load: the last record of a key wins, a tombstone erases it. *)
LoadDatafile(file) ==
  [k \in Key |-> IF LastOf(file, k).del THEN 0 ELSE LastOf(file, k).lsn]

(* The LSN counter after a restart: RebuildKeyIndex finds the largest LSN  *)
(* of the log; without EnsureMinLsn it would start again below the LSNs of *)
(* a truncated log.                                                        *)
RebuildKeyIndex(log) == MaxOf({r.lsn : r \in Elements(log)})
EnsureMinLsn_LogOnly(lsn, wal_lsn) == lsn
EnsureMinLsn(lsn, wal_lsn) == Max2(lsn, wal_lsn)

(* VersionChainStore. *)
ChainHead(k) == MaxOf(vcs[k])
Floor(k, snapshot) == MaxOf({l \in vcs[k] : l <= snapshot})

(* RebuildFromDataFile appends in LSN order and gives up, keeping what it   *)
(* has, at the first LSN that occurs twice.                                 *)
RebuildChains(file) ==
  LET again(i) == \E j \in 1 .. Len(file) :
                    j # i /\ file[j].lsn = file[i].lsn
      twice == {file[i].lsn : i \in {i \in 1 .. Len(file) : again(i)}}
      kept(l) == \A d \in twice : l <= d
  IN  [k \in Key |-> {r.lsn : r \in {r \in Elements(file) :
                                       r.key = k /\ kept(r.lsn)}}]

---------------------------------------------------------------------------
(* A shard that has no file yet, or one that was closed after its first    *)
(* checkpoint, which had one key to store.                                 *)

Closed ==
  /\ max_lsn = 0
  /\ memtable = EmptyTable /\ immutable = EmptyTable /\ flushing = EmptyTable
  /\ committed = NoRoot /\ btree = NoRoot
  /\ vcs = [k \in Key |-> {}] /\ lsn_index = {}
  /\ sb = [data_lsn |-> 0, wal_lsn |-> 0, root |-> NoRoot]
  /\ stable_lsn = 0 /\ pending_stable_lsn = 0 /\ puts_since_commit = 0
  /\ wal_replay_pending = FALSE
  /\ phase = "down" /\ in_checkpoint = FALSE /\ flush_todo = {}
  /\ writer = [w \in Writer |-> NoWrite]

FreshFiles ==
  /\ datafile = <<>>
  /\ datafile_flushed = 0
  /\ super = [data_lsn |-> 0, wal_lsn |-> 0, root |-> NoRoot]
  /\ didx = {} /\ vidx = NoSidecar
  /\ acked = EmptyTable

CheckpointedFiles ==
  \E k \in Key :
    /\ datafile = <<[lsn |-> 1, key |-> k, del |-> FALSE]>>
    /\ datafile_flushed = 1
    /\ super = [data_lsn |-> 1, wal_lsn |-> 1,
                root |-> [NoRoot EXCEPT ![k] = 1]]
    /\ didx = {1}
    /\ vidx = [j \in Key |-> IF j = k THEN {1} ELSE {}]
    /\ acked = [EmptyTable EXCEPT ![k] = [lsn |-> 1, del |-> FALSE]]

Init ==
  /\ opts \in Options
  /\ Closed
  /\ wal = <<>> /\ wal_synced = 0 /\ tears = {}
  /\ IF Checkpointed THEN CheckpointedFiles ELSE FreshFiles
  /\ crashes = 0 /\ faults = 0
  /\ group_acked = EmptyTable

---------------------------------------------------------------------------
(* Put and Delete. *)

Newer(e, f) == IF f.lsn > e.lsn THEN f ELSE e
AckAll(table) == [k \in Key |-> Newer(table[k], LastOf(wal, k))]

(* WalWriter::Fsync makes the whole log durable; the variant returns Ok    *)
(* with the records still in a buffer.                                     *)
Fsync_Buffered(log) == UNCHANGED wal_synced
Fsync(log) == wal_synced' = Len(log)

(* WalWriter::Append and MemTable::Put / DeleteKey, after EnsureWalReplayed. *)
AppendAndApply(k, del) ==
  /\ max_lsn < MaxLsn
  /\ max_lsn' = max_lsn + 1
  /\ wal' = Append(wal, [lsn |-> max_lsn + 1, key |-> k, del |-> del])
  /\ memtable' = [ReplayedTable EXCEPT
                    ![k] = [lsn |-> max_lsn + 1, del |-> del]]
  /\ wal_replay_pending' = FALSE

(* kSync, or any class with sync_on_commit, under the lock. *)
PutSyncFastAppend(w, k, del) ==
  /\ phase = "idle" /\ SyncPath
  /\ writer[w] = NoWrite
  /\ AppendAndApply(k, del)
  /\ writer' = [writer EXCEPT ![w] = [pc |-> "await", lsn |-> max_lsn + 1,
                                      key |-> k, del |-> del]]
  /\ UNCHANGED <<wal_synced, datafile, datafile_flushed, tears, super,
                 sidecars, immutable, flushing, index, sb, stable_lsn,
                 pending_stable_lsn, puts_since_commit, control, crashes,
                 faults, acked, group_acked>>

(* Then, without the lock, the write waits until an fsync covers its LSN   *)
(* (WalFsyncCoordinator::Await), or gets the error of a failed one, which  *)
(* leaves the record in the log and in the memtable.                       *)
AwaitFsync(w) ==
  /\ writer[w].pc = "await"
  /\ Fsync(wal)
  /\ writer' = [writer EXCEPT ![w].pc = "synced"]
  /\ UNCHANGED <<wal, datafile, datafile_flushed, tears, super, sidecars,
                 tables, index, lsns, control, crashes, faults, acked,
                 group_acked>>

AwaitFails(w) ==
  /\ writer[w].pc = "await"
  /\ writer' = [writer EXCEPT ![w] = NoWrite]
  /\ UNCHANGED <<disk, tables, index, lsns, control, crashes, faults, acked,
                 group_acked>>

(* Under the lock again: stats_.stable_lsn = lsn, then Put returns. *)
SetStable(w) ==
  /\ phase = "idle" /\ writer[w].pc = "synced"
  /\ stable_lsn' = writer[w].lsn
  /\ acked' = [acked EXCEPT ![writer[w].key] =
                 Newer(@, [lsn |-> writer[w].lsn, del |-> writer[w].del])]
  /\ writer' = [writer EXCEPT ![w] = NoWrite]
  /\ UNCHANGED <<disk, tables, index, max_lsn, sb, pending_stable_lsn,
                 puts_since_commit, wal_replay_pending, control, crashes,
                 faults, group_acked>>

(* kGroup and kAsync: the sync rule kWrite, all of it under the lock.       *)
WriteAsync(k, del) ==
  /\ phase = "idle" /\ Durability = "kAsync" /\ ~SyncPath
  /\ AppendAndApply(k, del)
  /\ UNCHANGED <<wal_synced, datafile, datafile_flushed, tears, super,
                 sidecars, immutable, flushing, index, sb, stable_lsn,
                 pending_stable_lsn, puts_since_commit, control, writer,
                 crashes, faults, acked, group_acked>>

(* In kGroup the write that fills the batch commits it; when that fsync     *)
(* fails the write returns the error and the batch stays open.              *)
WriteGroup(k, del) ==
  /\ phase = "idle" /\ Durability = "kGroup" /\ ~SyncPath
  /\ AppendAndApply(k, del)
  /\ pending_stable_lsn' = Max2(pending_stable_lsn, max_lsn + 1)
  /\ \/ /\ BatchSize > 0 /\ puts_since_commit + 1 >= BatchSize
        /\ Fsync(wal')
        /\ stable_lsn' = Max2(stable_lsn, pending_stable_lsn')
        /\ puts_since_commit' = 0
        /\ group_acked' = [AckAll(group_acked) EXCEPT
                             ![k] = [lsn |-> max_lsn + 1, del |-> del]]
     \/ /\ puts_since_commit' = puts_since_commit + 1
        /\ UNCHANGED <<wal_synced, stable_lsn, group_acked>>
  /\ UNCHANGED <<datafile, datafile_flushed, tears, super, sidecars, immutable,
                 flushing, index, sb, control, writer, crashes, faults, acked>>

(* GroupCommitter::Commit: nothing to do, and nothing promised, unless      *)
(* RecordPut ran, which only kGroup writes do.  If its fsync fails nothing  *)
(* changes; nor does it for a Checkpoint in kGroup, which ends there.       *)
GroupCommit ==
  /\ phase = "idle"
  /\ group_acked' = IF pending_stable_lsn = 0 THEN group_acked
                                              ELSE AckAll(group_acked)
  /\ IF pending_stable_lsn = 0
       THEN UNCHANGED <<wal_synced, stable_lsn, puts_since_commit>>
       ELSE /\ Fsync(wal)
            /\ stable_lsn' = Max2(stable_lsn, pending_stable_lsn)
            /\ puts_since_commit' = 0
  /\ UNCHANGED <<wal, datafile, datafile_flushed, tears, super, sidecars,
                 tables, index, max_lsn, sb, pending_stable_lsn,
                 wal_replay_pending, control, writer, crashes, faults, acked>>

---------------------------------------------------------------------------
(* Flush, TryFlushBackground and the first half of Checkpoint. *)

(* EnsureWalReplayed, then memtable_.Swap(&immutable_) and                 *)
(* immutable_.Swap(&flushing_).                                            *)
RotateMemTableForFlush ==
  /\ memtable' = immutable
  /\ immutable' = flushing
  /\ flushing' = ReplayedTable
  /\ wal_replay_pending' = FALSE

Held(table) == {k \in Key : table[k] # NoEntry}
RoomToFlush == Len(datafile) + Cardinality(Held(ReplayedTable)) =< MaxData

(* Up to the fsync of the log in Flusher::Flush; a Checkpoint in kGroup    *)
(* commits the group first.                                                *)
FlushBegin(checkpoint) ==
  /\ phase = "idle" /\ RoomToFlush
  /\ RotateMemTableForFlush
  /\ Fsync(wal)
  /\ phase' = "flush"
  /\ in_checkpoint' = checkpoint
  /\ flush_todo' = Held(flushing')
  /\ IF checkpoint /\ Durability = "kGroup" /\ pending_stable_lsn > 0
       THEN /\ stable_lsn' = Max2(stable_lsn, pending_stable_lsn)
            /\ puts_since_commit' = 0
       ELSE UNCHANGED <<stable_lsn, puts_since_commit>>
  /\ UNCHANGED <<wal, datafile, datafile_flushed, tears, super, sidecars,
                 index, max_lsn, sb, pending_stable_lsn, writer, crashes,
                 faults, acked, group_acked>>

(* That fsync fails: the tables have been rotated already. *)
FlushFsyncFails ==
  /\ phase = "idle" /\ RoomToFlush
  /\ faults < MaxFaults
  /\ faults' = faults + 1
  /\ RotateMemTableForFlush
  /\ UNCHANGED <<disk, index, max_lsn, sb, stable_lsn, pending_stable_lsn,
                 puts_since_commit, control, writer, crashes, acked,
                 group_acked>>

(* An operation that ends early leaves flushing_ as it is. *)
ReturnError ==
  /\ phase' = "idle"
  /\ in_checkpoint' = FALSE
  /\ flush_todo' = {}

(* What an entry e leaves in committed_ and the B-tree for its key, and    *)
(* the stable LSN after it; the variant keeps a deleted key.               *)
CommittedLsn_KeepsDeleted(k, e) == IF e.del THEN committed[k] ELSE e.lsn
CommittedLsn(k, e) == IF e.del THEN 0 ELSE e.lsn
StableAfter(lsn) == Max2(stable_lsn, lsn)

(* One turn of the loop in Flusher::Flush, for the entry e of k: append to *)
(* the data file, then committed_ and the B-tree, then the version chain,  *)
(* which refuses an LSN that is not above its head.                        *)
FlushRecord(k) ==
  LET e == flushing[k]
      chained == e.lsn > ChainHead(k)
  IN
  /\ phase = "flush" /\ k \in flush_todo
  /\ datafile' = Append(datafile, [lsn |-> e.lsn, key |-> k, del |-> e.del])
  /\ lsn_index' = lsn_index \cup {e.lsn}
  /\ committed' = [committed EXCEPT ![k] = CommittedLsn(k, e)]
  /\ btree' = [btree EXCEPT ![k] = CommittedLsn(k, e)]
  /\ IF chained
       THEN /\ vcs' = [vcs EXCEPT ![k] = @ \cup {e.lsn}]
            /\ stable_lsn' = StableAfter(e.lsn)
            /\ flush_todo' = flush_todo \ {k}
            /\ UNCHANGED <<phase, in_checkpoint>>
       ELSE ReturnError /\ UNCHANGED <<vcs, stable_lsn>>
  /\ UNCHANGED <<wal, wal_synced, datafile_flushed, tears, super, sidecars,
                 tables, max_lsn, sb, pending_stable_lsn, puts_since_commit,
                 wal_replay_pending, writer, crashes, faults, acked,
                 group_acked>>

(* DataFile::Append fails. *)
FlushRecordFails ==
  /\ phase = "flush" /\ flush_todo # {}
  /\ faults < MaxFaults
  /\ faults' = faults + 1
  /\ ReturnError
  /\ UNCHANGED <<disk, tables, index, lsns, writer, crashes, acked,
                 group_acked>>

(* FlushAppendStream and frozen->Clear; Flush returns here.  The variants  *)
(* forget one or the other.                                                *)
FlushAppendStream_Missing == UNCHANGED datafile_flushed
FlushAppendStream == datafile_flushed' = Len(datafile)
ClearFrozen_Missing == UNCHANGED flushing
ClearFrozen == flushing' = EmptyTable

FlushEnd ==
  /\ phase = "flush" /\ flush_todo = {}
  /\ FlushAppendStream
  /\ ClearFrozen
  /\ phase' = IF in_checkpoint THEN "fold" ELSE "idle"
  /\ acked' = AckAll(acked)
  /\ UNCHANGED <<wal, wal_synced, datafile, tears, super, sidecars, memtable,
                 immutable, index, lsns, in_checkpoint, flush_todo, writer,
                 crashes, faults, group_acked>>

---------------------------------------------------------------------------
(* The second half of Checkpoint. *)

(* Log records above the superblock in memory, in order, go into the       *)
(* chains whose head is below them.                                        *)
FoldWalToVcs ==
  /\ phase = "fold"
  /\ vcs' = [k \in Key |-> vcs[k] \cup
               {r.lsn : r \in {r \in Elements(wal) :
                   r.key = k /\ r.lsn > sb.wal_lsn /\ r.lsn > ChainHead(k)}}]
  /\ phase' = "superblock"
  /\ UNCHANGED <<disk, tables, committed, btree, lsn_index, lsns,
                 in_checkpoint, flush_todo, writer, crashes, faults, acked,
                 group_acked>>

NextSuper == [data_lsn |-> stable_lsn, wal_lsn |-> max_lsn, root |-> committed]

(* CommitSuperBlockInternal: the root is built from committed_; loading it *)
(* back fails when committed_ is empty, and no superblock is written then. *)
CommitSuperBlock ==
  /\ phase = "superblock"
  /\ IF committed = NoRoot
       THEN ReturnError /\ UNCHANGED <<super, sb, btree>>
       ELSE /\ super' = NextSuper
            /\ sb' = NextSuper
            /\ btree' = committed
            /\ phase' = "didx"
            /\ UNCHANGED <<in_checkpoint, flush_todo>>
  /\ UNCHANGED <<wal, wal_synced, datafile, datafile_flushed, tears, sidecars,
                 tables, committed, vcs, lsn_index, max_lsn, stable_lsn,
                 pending_stable_lsn, puts_since_commit, wal_replay_pending,
                 writer, crashes, faults, acked, group_acked>>

(* SuperBlockStore::Commit fails: sb_ is assigned all the same. *)
CommitSuperBlockFails ==
  /\ phase = "superblock" /\ committed # NoRoot
  /\ faults < MaxFaults
  /\ faults' = faults + 1
  /\ sb' = NextSuper
  /\ btree' = committed
  /\ ReturnError
  /\ UNCHANGED <<disk, tables, committed, vcs, lsn_index, max_lsn, stable_lsn,
                 pending_stable_lsn, puts_since_commit, wal_replay_pending,
                 writer, crashes, acked, group_acked>>

SaveLsnIndexSidecar ==
  /\ phase = "didx"
  /\ didx' = lsn_index
  /\ phase' = "vidx"
  /\ UNCHANGED <<wal, wal_synced, datafile, datafile_flushed, tears, super,
                 vidx, tables, index, lsns, in_checkpoint, flush_todo, writer,
                 crashes, faults, acked, group_acked>>

SaveVcsSidecar ==
  /\ phase = "vidx"
  /\ vidx' = vcs
  /\ phase' = "truncate"
  /\ UNCHANGED <<wal, wal_synced, datafile, datafile_flushed, tears, super,
                 didx, tables, index, lsns, in_checkpoint, flush_todo, writer,
                 crashes, faults, acked, group_acked>>

(* WalWriter::TruncateTo, which rewrites the log with the records above    *)
(* wal_lsn; Checkpoint returns.                                            *)
RewriteLog_KeepsSynced(lsn) == wal' = Above(wal, lsn) /\ UNCHANGED wal_synced
RewriteLog(lsn) == wal' = Above(wal, lsn) /\ wal_synced' = 0

TruncateTo ==
  /\ phase = "truncate"
  /\ RewriteLog(sb.wal_lsn)
  /\ max_lsn' = Max2(max_lsn, sb.wal_lsn)
  /\ phase' = "idle"
  /\ in_checkpoint' = FALSE
  /\ UNCHANGED <<datafile, datafile_flushed, tears, super, sidecars, tables,
                 index, sb, stable_lsn, pending_stable_lsn, puts_since_commit,
                 wal_replay_pending, flush_todo, writer, crashes, faults,
                 acked, group_acked>>

---------------------------------------------------------------------------
(* Crash and OpenInternal. *)

LoseMemory ==
  /\ max_lsn' = 0
  /\ memtable' = EmptyTable /\ immutable' = EmptyTable
  /\ flushing' = EmptyTable
  /\ committed' = NoRoot /\ btree' = NoRoot
  /\ vcs' = [k \in Key |-> {}] /\ lsn_index' = {}
  /\ sb' = [data_lsn |-> 0, wal_lsn |-> 0, root |-> NoRoot]
  /\ stable_lsn' = 0 /\ pending_stable_lsn' = 0 /\ puts_since_commit' = 0
  /\ wal_replay_pending' = FALSE
  /\ phase' = "down" /\ in_checkpoint' = FALSE /\ flush_todo' = {}
  /\ writer' = [w \in Writer |-> NoWrite]

(* The process stops.  The log keeps any prefix that holds what was        *)
(* fsynced, the data file any prefix that holds what left the stream, and  *)
(* perhaps a part of the next record.  A power failure may take more, as   *)
(* the data file is never fsynced.                                         *)
Crash ==
  /\ phase # "down" /\ crashes < MaxCrashes
  /\ crashes' = crashes + 1
  /\ \E n \in wal_synced .. Len(wal) : wal' = SubSeq(wal, 1, n)
  /\ \E m \in datafile_flushed .. Len(datafile) :
       /\ datafile' = SubSeq(datafile, 1, m) /\ datafile_flushed' = m
       /\ \/ UNCHANGED tears
          \/ TearsTail /\ m < Len(datafile) /\ tears' = tears \cup {m}
  /\ LoseMemory
  /\ UNCHANGED <<wal_synced, super, sidecars, faults, acked, group_acked>>

(* With lazy_committed_load committed_ starts empty, and the LSN index is  *)
(* the saved one, or that of the data file when none was saved.            *)
LoadCommitted ==
  IF LazyCommittedLoad
    THEN /\ committed' = NoRoot
         /\ btree' = super.root
         /\ lsn_index' = IF didx # {} THEN didx
                         ELSE {r.lsn : r \in Elements(Reached(datafile))}
    ELSE /\ committed' = LoadDatafile(Reached(datafile))
         /\ btree' = IF super.root = NoRoot THEN committed' ELSE super.root
         /\ UNCHANGED lsn_index

(* The data file, the root if there is one, and the log: replayed now or   *)
(* marked as pending.                                                      *)
RecoverFromSuperBlock ==
  /\ sb' = super
  /\ stable_lsn' = super.data_lsn
  /\ LoadCommitted
  /\ IF RecoveryStrategy = "kFullReplay"
       THEN /\ memtable' = ReplayPending(memtable, wal, super.wal_lsn)
            /\ wal_replay_pending' = FALSE
       ELSE /\ wal_replay_pending' = (RebuildKeyIndex(wal) > super.wal_lsn)
            /\ UNCHANGED memtable

(* Then the LSN counter and the version chains. *)
OpenInternal ==
  /\ phase = "down"
  /\ RecoverFromSuperBlock
  /\ max_lsn' = EnsureMinLsn(RebuildKeyIndex(wal), super.wal_lsn)
  /\ vcs' = IF vidx = NoSidecar THEN RebuildChains(Reached(datafile)) ELSE vidx
  /\ phase' = "idle"
  /\ UNCHANGED <<disk, immutable, flushing, pending_stable_lsn,
                 puts_since_commit, in_checkpoint, flush_todo, writer,
                 crashes, faults, acked, group_acked>>

(* RecoverFull clears wal_replay_pending_ and then calls                   *)
(* EnsureWalReplayed, which returns at once.                               *)
RecoverFull ==
  /\ phase = "idle" /\ RecoveryStrategy \in CallsRecoverFull
  /\ wal_replay_pending' = FALSE
  /\ UNCHANGED <<disk, tables, index, max_lsn, sb, stable_lsn,
                 pending_stable_lsn, puts_since_commit, control, writer,
                 crashes, faults, acked, group_acked>>

---------------------------------------------------------------------------
(* Reads. *)

(* MemTable overlay: active, then immutable, then flushing. *)
LookupMemTable(active, k) ==
  IF active[k] # NoEntry THEN active[k]
  ELSE IF immutable[k] # NoEntry THEN immutable[k] ELSE flushing[k]

ReadByLsn(lsn) ==
  IF lsn \in lsn_index /\ \E r \in Elements(datafile) : r.lsn = lsn /\ ~r.del
    THEN lsn ELSE 0

(* SnapshotResolver::ResolveAtSnapshot at stable_lsn, with `active' for    *)
(* memtable_: the LSN of the value found, 0 for NotFound.                  *)
ReadVisible(active, k) ==
  LET e == LookupMemTable(active, k)
      seen(lsn) == lsn > 0 /\ (stable_lsn = 0 \/ lsn <= stable_lsn)
  IN  CASE e # NoEntry -> IF e.del THEN 0 ELSE e.lsn
        [] e = NoEntry /\ seen(committed[k]) -> committed[k]
        [] e = NoEntry /\ ~seen(committed[k]) /\ seen(btree[k]) ->
             ReadByLsn(btree[k])
        [] OTHER -> ReadByLsn(Floor(k, stable_lsn))

(* TryLazyWalOrDisk, once the tables have not shown a value: one key is    *)
(* restored from the log when the log is ahead of the B-tree, else the     *)
(* B-tree's version is read from disk, whatever the tables said.           *)
(* ReplayRecordAt takes the LSN and the operation from the right place, and *)
(* the bytes of the value from four bytes too early; a value is its LSN    *)
(* here, so that does not show.                                            *)
OnDisk == LazyCommittedLoad \/ sb.root # NoRoot
RestoresOneKey(k) ==
  /\ OnDisk /\ wal_replay_pending
  /\ btree[k] > 0
  /\ LastAbove(wal, k, sb.wal_lsn).lsn > btree[k]
Restored(k) == [memtable EXCEPT ![k] = LastAbove(wal, k, sb.wal_lsn)]
ReadFromDisk(k) ==
  IF OnDisk /\ btree[k] > 0 /\ (stable_lsn = 0 \/ btree[k] <= stable_lsn)
    THEN ReadByLsn(btree[k]) ELSE 0

(* ReadResolver::Get: the version found, and memtable_ and                 *)
(* wal_replay_pending_ after it.  A hit is returned as it is; what is not   *)
(* found otherwise is looked up again with the whole log replayed.         *)
Got(lsn, table, pending) == [lsn |-> lsn, table |-> table, pending |-> pending]
Get(k) ==
  LET seen == ReadVisible(memtable, k)
      one == IF RestoresOneKey(k) THEN ReadVisible(Restored(k), k) ELSE 0
      old == IF RestoresOneKey(k) THEN 0 ELSE ReadFromDisk(k)
      all == ReadVisible(ReplayedTable, k)
  IN  CASE seen > 0 -> Got(seen, memtable, wal_replay_pending)
        [] seen = 0 /\ one > 0 -> Got(one, Restored(k), TRUE)
        [] seen = 0 /\ old > 0 -> Got(old, memtable, wal_replay_pending)
        [] seen = 0 /\ one = 0 /\ old = 0 ->
             IF wal_replay_pending
               THEN Got(IF all > 0 THEN all ELSE ReadFromDisk(k),
                        ReplayedTable, FALSE)
               ELSE Got(0, memtable, FALSE)

GetMiss(k) ==
  /\ phase = "idle" /\ wal_replay_pending
  /\ ReadVisible(memtable, k) = 0
  /\ memtable' = Get(k).table
  /\ wal_replay_pending' = Get(k).pending
  /\ UNCHANGED <<disk, immutable, flushing, index, max_lsn, sb, stable_lsn,
                 pending_stable_lsn, puts_since_commit, control, writer,
                 crashes, faults, acked, group_acked>>

(* ScanResolver::Scan replays the log first.                                *)
Scan ==
  /\ phase = "idle" /\ wal_replay_pending
  /\ memtable' = ReplayedTable
  /\ wal_replay_pending' = FALSE
  /\ UNCHANGED <<disk, immutable, flushing, index, max_lsn, sb, stable_lsn,
                 pending_stable_lsn, puts_since_commit, control, writer,
                 crashes, faults, acked, group_acked>>

(* The hit a scan has for k: the B-tree's under the memtables', or that of  *)
(* committed_ while there is no root on disk.                              *)
ScanHit(k) ==
  LET e == LookupMemTable(memtable, k)
  IN  CASE ~OnDisk /\ committed[k] > 0 -> committed[k]
        [] ~(~OnDisk /\ committed[k] > 0) /\ e = NoEntry -> btree[k]
        [] OTHER -> IF e.del THEN 0 ELSE e.lsn
EffectiveHitLsn(k) ==
  IF stable_lsn = 0 \/ ScanHit(k) <= stable_lsn THEN ScanHit(k)
                                                ELSE Floor(k, stable_lsn)

(* ResolveScanValues: the version a scan returns for k, 0 for no row.       *)
ResolveScanValue(k) ==
  LET seen == ReadVisible(memtable, k)
  IN  CASE ScanHit(k) = 0 -> 0
        [] ScanHit(k) > 0 /\ (seen > 0 \/ ~OnDisk) -> seen
        [] OTHER -> ReadByLsn(EffectiveHitLsn(k))

(* ScanCommittedDirect, while the tables are empty.  The recovery state     *)
(* CanScanCommittedDirect also asks for is left out: both ways are taken.   *)
MemTablesEmpty == {memtable, immutable, flushing} = {EmptyTable}
CanScanCommittedDirect == MemTablesEmpty /\ committed # NoRoot
ScanCommittedDirect(k) ==
  IF stable_lsn = 0 \/ committed[k] <= stable_lsn THEN committed[k] ELSE 0

---------------------------------------------------------------------------
Write == \E k \in Key, del \in BOOLEAN :
           \/ \E w \in Writer : PutSyncFastAppend(w, k, del)
           \/ WriteAsync(k, del)
           \/ WriteGroup(k, del)
WriterStep == \E w \in Writer : AwaitFsync(w) \/ AwaitFails(w) \/ SetStable(w)
Flush == \/ \E checkpoint \in BOOLEAN : FlushBegin(checkpoint)
         \/ FlushFsyncFails
         \/ \E k \in Key : FlushRecord(k)
         \/ FlushRecordFails
         \/ FlushEnd
Checkpoint == FoldWalToVcs \/ CommitSuperBlock \/ CommitSuperBlockFails
              \/ SaveLsnIndexSidecar \/ SaveVcsSidecar \/ TruncateTo
Read == Scan \/ \E k \in Key : GetMiss(k)

Next == /\ \/ Write \/ WriterStep \/ GroupCommit
           \/ Flush \/ Checkpoint
           \/ Read
           \/ RecoverFull \/ Crash \/ OpenInternal
        /\ UNCHANGED opts

Spec == Init /\ [][Next]_vars

---------------------------------------------------------------------------
(* What recovery would find for k if the process stopped now, with n log   *)
(* records and m data file records left.                                   *)
RecoveredVersion(k, n, m) ==
  LET logged == LastAbove(SubSeq(wal, 1, n), k, super.wal_lsn)
  IN  IF logged # NoEntry THEN logged
                          ELSE LastOf(Reached(SubSeq(datafile, 1, m)), k)

SurvivesNow(table) ==
  \A k \in Key :
    \A n \in wal_synced .. Len(wal) :
      \A m \in datafile_flushed .. Len(datafile) :
        RecoveredVersion(k, n, m).lsn >= table[k].lsn

(* A flush that fails leaves its table in the rotation, where the flushes  *)
(* and checkpoints that follow do not look for it; behind a torn record    *)
(* nothing is found.  What holds until then, whatever fsyncs of writes and *)
(* of group commits fail:                                                  *)
NoErrorYet == faults = 0 /\ tears = {}

(* RPO 0: what a kSync Put or Delete, a Flush or a Checkpoint has reported *)
(* durable is in the log or in the data file after a crash at any instant, *)
(* in particular between any two steps of a later checkpoint.  The first   *)
(* form is what ADR-001 and ADR-004 promise, I/O errors and torn records   *)
(* or not.                                                                 *)
AckedDurable == SurvivesNow(acked)
AckedDurableUnlessFailed == NoErrorYet => AckedDurable

(* The same for the writes a GroupCommit (or a full batch) has covered.    *)
GroupCommitDurable == NoErrorYet => SurvivesNow(group_acked)

(* I-D1, write-ahead: a data file record is in the fsynced part of the log *)
(* or below the LSN the superblock says the log was folded up to.          *)
WriteAhead ==
  \A r \in Elements(datafile) :
    \/ r.lsn <= super.wal_lsn
    \/ \E i \in 1 .. wal_synced : wal[i] = r

(* I-D2: neither the superblock's data_lsn nor stable_lsn runs ahead of    *)
(* what is durable.                                                        *)
DurableLsn == Max2(super.wal_lsn, MaxOf({wal[i].lsn : i \in 1 .. wal_synced}))
StableBehindLog == super.data_lsn <= DurableLsn /\ stable_lsn <= DurableLsn

(* Truncation is safe: a record the superblock says may be dropped is      *)
(* superseded by one in the flushed part of the data file.                 *)
CheckpointCoversLog ==
  NoErrorYet =>
    \A r \in Elements(wal) :
      r.lsn <= super.wal_lsn =>
        \E i \in 1 .. datafile_flushed :
          datafile[i].key = r.key /\ datafile[i].lsn >= r.lsn

(* I-D3 for one key: the data file never goes back to an older version, so *)
(* that loading it in file order finds the newest.                         *)
DataFileOrder ==
  NoErrorYet =>
    \A i, j \in 1 .. Len(datafile) :
      i < j /\ datafile[i].key = datafile[j].key
        => datafile[i].lsn <= datafile[j].lsn

(* ADR-016: the root a superblock names is complete.  It has every key     *)
(* whose newest version below the superblock's wal_lsn is live, and no key *)
(* that is deleted there.  Nothing but the root leads a scan to those      *)
(* records.  The root is built from committed_, which holds every key only *)
(* without lazy_committed_load.                                            *)
RootComplete ==
  NoErrorYet /\ super.root # NoRoot =>
    \A k \in Key :
      LET r == LastAt(datafile, Of(datafile, k) \ OfAbove(datafile, k, super.wal_lsn))
      IN  super.root[k] = IF r.del THEN 0 ELSE r.lsn
RootCompleteUnlessLazy == ~LazyCommittedLoad => RootComplete

(* What a read may find for k: the newest version reported durable or a    *)
(* later one, and no row only if one of those is a delete.                 *)
Fresh(k, found) ==
  IF found > 0 THEN found >= acked[k].lsn
  ELSE \/ acked[k].lsn = 0 \/ acked[k].del
       \/ \E r \in Elements(wal) \cup Elements(datafile) :
            r.key = k /\ r.del /\ r.lsn > acked[k].lsn

(* Readers read at stable_lsn, which a writer that wakes late may have set *)
(* back below a version of another writer.                                 *)
StableCovers(k) == stable_lsn = 0 \/ acked[k].lsn <= stable_lsn

(* Reads are not fresh with lazy_committed_load, where a crash between the *)
(* superblock and the saved LSN index leaves values that nothing leads to, *)
(* nor after a failed flush or a torn record.                              *)
ReadsFresh == phase = "idle" /\ NoErrorYet /\ ~LazyCommittedLoad

(* Get, at a stable_lsn that was not set back, finds what was reported     *)
(* durable, with two exceptions: a value may be stale while the replay is  *)
(* pending, and Get looks past a delete in the tables at the older version *)
(* on disk.                                                                *)
GetFresh ==
  ReadsFresh =>
    \A k \in Key :
      \/ ~StableCovers(k)
      \/ Fresh(k, Get(k).lsn)
      \/ Get(k).lsn > 0 /\ wal_replay_pending
      \/ Get(k).lsn > 0 /\ LookupMemTable(ReplayedTable, k).del

(* A scan finds the rows in the B-tree and resolves each of them through   *)
(* the tables, committed_, the version chains and the data file.  With the *)
(* replay done it misses no version that was reported durable, on either   *)
(* of its two ways.                                                        *)
ScanFresh ==
  ReadsFresh /\ ~wal_replay_pending =>
    \A k \in Key :
      StableCovers(k) =>
        /\ Fresh(k, ResolveScanValue(k))
        /\ CanScanCommittedDirect => Fresh(k, ScanCommittedDirect(k))

(* stable_lsn, which readers use as their snapshot, never goes back while  *)
(* the shard is open, except where each writer sets its own (kSync, or     *)
(* sync_on_commit).                                                        *)
StableMonotonic ==
  [][phase # "down" /\ phase' # "down" /\ ~SyncPath
       => stable_lsn' >= stable_lsn]_vars
===========================================================================
