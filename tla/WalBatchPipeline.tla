-------------------------- MODULE WalBatchPipeline --------------------------
(***************************************************************************)
(* The kBalanced write path: cpp/src/concept/wal/wal_batch_pipeline.cc and *)
(* the maintenance of the shard that runs beside it (Flush and Checkpoint  *)
(* in cpp/src/engine/shard_engine.cc).                                     *)
(*                                                                         *)
(* A Put queues a job and waits.  A batch of jobs goes through AppendMany, *)
(* Fsync and ApplyWalBatch in the hands of a drainer: the worker thread, a *)
(* Flush or Checkpoint that drains the queue with rw_mu_ held, or a session*)
(* in AppendTxnCommit, which drains it without rw_mu_.  Nothing keeps these*)
(* apart until the worker needs rw_mu_ to apply its batch; the other two   *)
(* never ask for it.                                                       *)
(* A Delete takes the same way as a Put.  A client has one call at a time  *)
(* and stands for its job.  Versions are LSNs, 0 for none.  stable_lsn,    *)
(* which ApplyWalBatch raises, is in module ShardEngine: no step here reads*)
(* it.                                                                     *)
(***************************************************************************)
EXTENDS Naturals, Sequences, FiniteSets

CONSTANTS Client, Key, Worker, Maintenance,
          Session,           \* sessions that commit transactions
          Control,           \* in the place of the key in a commit record
          MaxBatchSize,      \* config_.max_batch_size
          TakesCheckpoints,  \* maintenance is Flush or Checkpoint, or Flush
          LargeValues,       \* a value may exceed the 64 KB of a record
          MaxLsn, MaxRounds, MaxFaults

Drainer == Session \cup {Worker, Maintenance}

ASSUME DrainersDiffer ==
  Worker # Maintenance /\ Session \cap {Worker, Maintenance} = {}
ASSUME SomeKey == Key # {} /\ Control \notin Key
ASSUME ConfigOK ==
  /\ MaxBatchSize \in Nat \ {0}
  /\ TakesCheckpoints \in BOOLEAN /\ LargeValues \in BOOLEAN
  /\ {MaxLsn, MaxRounds, MaxFaults} \subseteq Nat

VARIABLES
  call,              \* of each client: idle, entered or queued
  job,               \* [key, large, lsn] of its Put
  queue,             \* clients whose jobs wait
  batch, step,       \* of each drainer: the jobs it took, where it is
  commit,            \* of each session: where AppendTxnCommit is
  wal, wal_synced,   \* the log, and how many records are fsynced
  magic,             \* the log starts with kWalMagicV2
  file_ok,           \* the log's stream is not in a failed state
  max_lsn,
  memtable,
  unlogged,          \* keys whose memtable entry was never logged: LSN 0
  data, head,        \* newest version in the data file, in the chains
  wal_lsn,           \* of the superblock
  maint, checkpoint, \* what the holder of rw_mu_ does
  rounds, faults,
  acked,             \* [key, lsn] of every Put that returned Ok
  excused            \* history: a write was acknowledged for nothing, in one
                     \*   of the ways AckedDurableUnlessExcused names

log == <<wal, wal_synced, magic, file_ok, max_lsn>>
jobs == <<call, job, queue, batch, step, acked>>
tables == <<memtable, unlogged>>
files == <<data, head, wal_lsn>>
control == <<maint, checkpoint, rounds, excused>>
vars == <<jobs, commit, log, tables, files, control, faults>>

Lsn == Nat             \* MaxLsn only ends behaviours
Record == [lsn : Lsn, key : Key \cup {Control}]

TypeOK ==
  /\ call \in [Client -> {"idle", "entered", "queued"}]
  /\ job \in [Client -> [key : Key, large : BOOLEAN, lsn : Lsn]]
  /\ queue \in Seq(Client)
  /\ batch \in [Drainer -> Seq(Client)]
  /\ \A d \in Drainer : Len(batch[d]) <= MaxBatchSize
  /\ step \in [Drainer -> {"idle", "append", "fsync", "apply"}]
  /\ wal \in Seq(Record) /\ wal_synced \in 0 .. Len(wal)
  /\ commit \in [Session -> {"idle", "drain", "sync"}]
  /\ magic \in BOOLEAN /\ file_ok \in BOOLEAN
  /\ max_lsn \in Lsn /\ wal_lsn \in Lsn
  /\ memtable \in [Key -> Lsn] /\ unlogged \subseteq Key
  /\ data \in [Key -> Lsn] /\ head \in [Key -> Lsn]
  /\ maint \in {"idle", "drain", "flush", "fold", "superblock", "truncate",
                "failed"}
  /\ checkpoint \in BOOLEAN
  /\ rounds \in 0 .. MaxRounds /\ faults \in 0 .. MaxFaults
  /\ acked \subseteq [lsn : Lsn, key : Key]
  /\ excused \in BOOLEAN

None == [k \in Key |-> 0]

Init ==
  /\ call = [c \in Client |-> "idle"]
  /\ job = [c \in Client |-> [key |-> CHOOSE k \in Key : TRUE, large |-> FALSE,
                              lsn |-> 0]]
  /\ queue = <<>>
  /\ batch = [d \in Drainer |-> <<>>] /\ step = [d \in Drainer |-> "idle"]
  /\ commit = [s \in Session |-> "idle"]
  /\ wal = <<>> /\ wal_synced = 0 /\ magic = TRUE /\ file_ok = TRUE
  /\ max_lsn = 0 /\ wal_lsn = 0
  /\ memtable = None /\ unlogged = {} /\ data = None /\ head = None
  /\ maint = "idle" /\ checkpoint = FALSE
  /\ rounds = 0 /\ faults = 0
  /\ acked = {}
  /\ excused = FALSE

---------------------------------------------------------------------------
Max2(a, b) == IF a >= b THEN a ELSE b
Elements(s) == {s[i] : i \in 1 .. Len(s)}
Newest(records, k) ==
  LET of == {r.lsn : r \in {r \in records : r.key = k}}
  IN  IF of = {} THEN 0 ELSE CHOOSE l \in of : \A m \in of : m <= l
Above(records, lsn) == {r \in records : r.lsn > lsn}
First(S) == CHOOSE i \in S : \A j \in S : i <= j

(* The members of a finite set of numbers, in increasing order.            *)
InOrder(S) == [j \in 1 .. Cardinality(S) |->
                 CHOOSE i \in S : Cardinality({m \in S : m <= i}) = j]

LockFree == maint \in {"idle", "failed"}

(* Bound: the jobs and commits under way take an LSN each.                 *)
LsnLeft == max_lsn + Cardinality({c \in Client : call[c] # "idle"}) < MaxLsn

(* ShardEngine::Put: rw_mu_ in append mode for a moment, then, without it, *)
(* the job enters the queue.                                               *)
PutEnter(c, k, large) ==
  /\ call[c] = "idle" /\ LockFree
  /\ large => LargeValues
  /\ LsnLeft
  /\ call' = [call EXCEPT ![c] = "entered"]
  /\ job' = [job EXCEPT ![c] = [key |-> k, large |-> large, lsn |-> 0]]
  /\ UNCHANGED <<queue, batch, step, acked, commit, log, tables, files,
                 control, faults>>

PutEnqueue(c) ==
  /\ call[c] = "entered"
  /\ call' = [call EXCEPT ![c] = "queued"]
  /\ queue' = Append(queue, c)
  /\ UNCHANGED <<job, batch, step, acked, commit, log, tables, files, control,
                 faults>>

---------------------------------------------------------------------------
(* ShardEngine::AppendTxnCommit, without rw_mu_: the commit record, then   *)
(* FlushPending, then a last Fsync.                                        *)
Restarted == IF magic THEN wal ELSE <<>>
RestartedSynced == IF magic THEN wal_synced ELSE 0

AppendTxnCommit(s) ==
  /\ commit[s] = "idle" /\ LsnLeft
  /\ max_lsn' = max_lsn + 1
  /\ wal' = Append(Restarted, [lsn |-> max_lsn + 1, key |-> Control])
  /\ wal_synced' = RestartedSynced
  /\ magic' = TRUE /\ file_ok' = TRUE
  /\ commit' = [commit EXCEPT ![s] = "drain"]
  /\ UNCHANGED <<jobs, tables, files, control, faults>>

(* The append fails, on the magic number or on the record.                 *)
AppendTxnCommitFails(s) ==
  /\ commit[s] = "idle" /\ LsnLeft
  /\ faults < MaxFaults
  /\ faults' = faults + 1
  /\ file_ok' = FALSE
  /\ \/ /\ ~magic /\ UNCHANGED <<wal, wal_synced, magic, max_lsn>>
     \/ /\ max_lsn' = max_lsn + 1
        /\ wal' = Restarted /\ wal_synced' = RestartedSynced
        /\ magic' = TRUE
  /\ UNCHANGED <<jobs, commit, tables, files, control>>

(* FlushPending has found the queue empty.                                 *)
CommitDrained(s) ==
  /\ commit[s] = "drain" /\ step[s] = "idle" /\ queue = <<>>
  /\ commit' = [commit EXCEPT ![s] = "sync"]
  /\ UNCHANGED <<jobs, log, tables, files, control, faults>>

---------------------------------------------------------------------------
(* DrainAndFlush, by d. *)

(* The worker may take a batch whenever there is a job: a lone job at once, *)
(* more of them when the batch is full or the wait is over.  FlushPending   *)
(* takes batches until the queue is empty.  The variants take the whole     *)
(* queue, or leave in the queue what they took.                             *)
MayDrain(d) == \/ d = Worker
               \/ d = Maintenance /\ maint = "drain"
               \/ d \in Session /\ commit[d] = "drain"
BatchSize_All == Len(queue)
BatchSize == IF Len(queue) < MaxBatchSize THEN Len(queue) ELSE MaxBatchSize
Rest_Unpopped(n) == queue
Rest(n) == SubSeq(queue, n + 1, Len(queue))

Pop(d) ==
  /\ step[d] = "idle" /\ MayDrain(d) /\ queue # <<>>
  /\ batch' = [batch EXCEPT ![d] = SubSeq(queue, 1, BatchSize)]
  /\ queue' = Rest(BatchSize)
  /\ step' = [step EXCEPT ![d] = "append"]
  /\ UNCHANGED <<call, job, acked, commit, log, tables, files, control, faults>>

(* CompleteJobs, with the clients that see Ok; the variant wakes one job.  *)
Woken_First(d) == {batch[d][1]}
Woken(d) == Elements(batch[d])
CompleteJobs(d, ok) ==
  /\ call' = [c \in Client |-> IF c \in Woken(d) THEN "idle" ELSE call[c]]
  /\ acked' = acked \cup {[key |-> job'[c].key, lsn |-> job'[c].lsn] : c \in ok}
  /\ batch' = [batch EXCEPT ![d] = <<>>]
  /\ step' = [step EXCEPT ![d] = "idle"]

(* AppendMany.  Every job takes an LSN; the bad ones are not written, those *)
(* that are too large and those whose write fails, and fail the batch:      *)
(* DrainAndFlush then completes the jobs, each with its own status, and     *)
(* returns.  In a file without the magic number the first append starts     *)
(* over.  A write begins by clearing the stream's state.                    *)
LargeJobs(d) == {c \in Woken(d) : job[c].large}
LsnOf(d, c) == max_lsn + CHOOSE i \in 1 .. Len(batch[d]) : batch[d][i] = c
Appended(d, bad) ==
  LET written == InOrder({i \in 1 .. Len(batch[d]) : batch[d][i] \notin bad})
  IN  [j \in 1 .. Len(written) |->
         [lsn |-> max_lsn + written[j], key |-> job[batch[d][written[j]]].key]]
LastWrites(d) ==
  {i \in 1 .. Len(batch[d]) :
     /\ ~job[batch[d][i]].large
     /\ \A j \in i + 1 .. Len(batch[d]) : job[batch[d][j]].large}

AppendMany(d, bad) ==
  /\ step[d] = "append"
  /\ LargeJobs(d) \subseteq bad /\ bad \subseteq Elements(batch[d])
  /\ IF bad = LargeJobs(d) THEN UNCHANGED faults
                           ELSE faults < MaxFaults /\ faults' = faults + 1
  /\ max_lsn' = max_lsn + Len(batch[d])
  /\ wal' = Restarted \o Appended(d, bad)
  /\ wal_synced' = RestartedSynced
  /\ magic' = TRUE
  /\ file_ok' = IF LastWrites(d) = {} THEN file_ok \/ ~magic
                 ELSE \A i \in LastWrites(d) : batch[d][i] \notin bad
  /\ job' = [c \in Client |-> IF c \in Elements(batch[d]) \ bad
                              THEN [job[c] EXCEPT !.lsn = LsnOf(d, c)]
                              ELSE job[c]]
  /\ IF bad # {}
       THEN /\ CompleteJobs(d, Elements(batch[d]) \ bad)
            /\ excused' = (excused \/ Elements(batch[d]) # bad)
       ELSE /\ step' = [step EXCEPT ![d] = "fsync"]
            /\ UNCHANGED <<call, batch, acked, excused>>
  /\ UNCHANGED <<queue, commit, tables, files, maint, checkpoint, rounds>>

(* The whole call fails, on the magic number.  DrainAndFlush ignores its   *)
(* result and goes by the status of each job, which nobody has set: the    *)
(* jobs go on with LSN 0.                                                  *)
AppendManyFails(d) ==
  /\ step[d] = "append" /\ ~magic
  /\ faults < MaxFaults
  /\ faults' = faults + 1
  /\ file_ok' = FALSE
  /\ step' = [step EXCEPT ![d] = "fsync"]
  /\ UNCHANGED <<call, job, queue, batch, acked, commit, wal, wal_synced, magic,
                 max_lsn, tables, files, control>>

(* WalWriter::Fsync, an error as long as the stream is in a failed state;  *)
(* the variant returns Ok with the records still in a buffer.              *)
Fsync_Buffered == file_ok /\ UNCHANGED wal_synced
Fsync == file_ok /\ wal_synced' = Len(wal)
FsyncError == IF file_ok THEN faults < MaxFaults /\ faults' = faults + 1
                         ELSE UNCHANGED faults

FsyncBatch(d) ==
  /\ step[d] = "fsync"
  /\ Fsync
  /\ step' = [step EXCEPT ![d] = "apply"]
  /\ UNCHANGED <<call, job, queue, batch, acked, commit, wal, magic, file_ok,
                 max_lsn, tables, files, control, faults>>

(* It fails: the jobs return the error. *)
FsyncFails(d) ==
  /\ step[d] = "fsync"
  /\ FsyncError
  /\ CompleteJobs(d, {})
  /\ UNCHANGED <<job, queue, commit, log, tables, files, control>>

(* ApplyWalBatch.  The worker takes rw_mu_ for it and FlushPending is taken*)
(* to have it, though a committing session does not.  The last job of a key*)
(* replaces what the memtable has of it, be it newer or not; in the variant *)
(* the first one of the batch does.                                        *)
Applied_First(d, k) ==
  LET of == {i \in 1 .. Len(batch[d]) : job[batch[d][i]].key = k}
  IN  IF of = {} THEN memtable[k] ELSE job[batch[d][First(of)]].lsn
Applied(d, k) ==
  LET of == {i \in 1 .. Len(batch[d]) : job[batch[d][i]].key = k}
  IN  IF of = {} THEN memtable[k]
      ELSE job[batch[d][CHOOSE i \in of : \A j \in of : j <= i]].lsn
KeysOf(d) == {job[c].key : c \in Elements(batch[d])}

ApplyWalBatch(d) ==
  /\ step[d] = "apply" /\ (d = Worker => LockFree)
  /\ memtable' = [k \in Key |-> Applied(d, k)]
  /\ unlogged' = {k \in unlogged \cup KeysOf(d) : Applied(d, k) = 0}
  /\ UNCHANGED job
  /\ CompleteJobs(d, Elements(batch[d]))
  /\ excused' = (excused \/ unlogged' # {}
                         \/ \E k \in KeysOf(d) :
                              memtable'[k] < Max2(memtable[k], data[k]))
  /\ UNCHANGED <<queue, commit, log, files, maint, checkpoint, rounds, faults>>

(* The Fsync at the end of AppendTxnCommit.                                *)
CommitSync(s) ==
  /\ commit[s] = "sync"
  /\ Fsync
  /\ commit' = [commit EXCEPT ![s] = "idle"]
  /\ UNCHANGED <<jobs, wal, magic, file_ok, max_lsn, tables, files, control,
                 faults>>

CommitSyncFails(s) ==
  /\ commit[s] = "sync"
  /\ FsyncError
  /\ commit' = [commit EXCEPT ![s] = "idle"]
  /\ UNCHANGED <<jobs, log, tables, files, control>>

---------------------------------------------------------------------------
(* Flush and Checkpoint, with rw_mu_ held from MaintenanceBegin on. *)

MaintenanceBegin(cp) ==
  /\ maint = "idle" /\ rounds < MaxRounds
  /\ cp => TakesCheckpoints
  /\ maint' = "drain"
  /\ checkpoint' = cp
  /\ rounds' = rounds + 1
  /\ UNCHANGED <<jobs, commit, log, tables, files, excused, faults>>

(* FlushPending returns when the queue is empty (UnflushedBytes() is 0 as  *)
(* long as nothing turns write-through on); it does not look at the batch  *)
(* the worker, or a session, has taken.                                    *)
FlushPendingDone ==
  /\ maint = "drain" /\ step[Maintenance] = "idle" /\ queue = <<>>
  /\ maint' = "flush"
  /\ UNCHANGED <<jobs, commit, log, tables, files, checkpoint, rounds, excused,
                 faults>>

(* Flusher::Flush of the whole memtable, its steps in module ShardEngine.  *)
(* The version chains refuse an LSN that is not above their head; nothing  *)
(* is maintained any more after such a failure here.                       *)
FlushTable ==
  LET held == {k \in Key : memtable[k] # 0} \cup unlogged
  IN
  /\ maint = "flush"
  /\ Fsync
  /\ IF \A k \in held : memtable[k] > head[k]
       THEN /\ data' = [k \in Key |-> IF k \in held THEN memtable[k] ELSE data[k]]
            /\ head' = [k \in Key |-> IF k \in held THEN memtable[k] ELSE head[k]]
            /\ memtable' = None
            /\ maint' = IF checkpoint THEN "fold" ELSE "idle"
       ELSE /\ maint' = "failed"
            /\ UNCHANGED <<data, head, memtable>>
  /\ UNCHANGED <<jobs, commit, wal, magic, file_ok, max_lsn, unlogged, wal_lsn,
                 checkpoint, rounds, excused, faults>>

(* The fsync at its start fails. *)
FlushFsyncFails ==
  /\ maint = "flush"
  /\ FsyncError
  /\ maint' = "failed"
  /\ UNCHANGED <<jobs, commit, log, tables, files, checkpoint, rounds, excused>>

FoldWalToVcs ==
  /\ maint = "fold"
  /\ head' = [k \in Key |->
                Max2(head[k], Newest(Above(Elements(wal), wal_lsn), k))]
  /\ maint' = "superblock"
  /\ UNCHANGED <<jobs, commit, log, tables, data, wal_lsn, checkpoint, rounds,
                 excused, faults>>

(* What a checkpoint covers or cuts off without having it in its files: a   *)
(* batch in the hands of another drainer, or what another drainer has put   *)
(* into the memtable since the flush.                                       *)
Missed == \/ \E d \in Drainer \ {Maintenance} : step[d] \in {"fsync", "apply"}
          \/ memtable # None \/ unlogged # {}

(* The root is built from the data file's keys; without any, the commit    *)
(* returns an error.                                                       *)
CommitSuperBlock ==
  /\ maint = "superblock"
  /\ IF data = None
       THEN maint' = "idle" /\ UNCHANGED <<wal_lsn, excused>>
       ELSE /\ maint' = "truncate" /\ wal_lsn' = max_lsn
            /\ excused' = (excused \/ Missed)
  /\ UNCHANGED <<jobs, commit, log, tables, data, head, checkpoint, rounds,
                 faults>>

(* TruncateTo writes the suffix to keep, from the first record above       *)
(* wal_lsn on, or the magic number if there is none, and reads the LSN     *)
(* counter back from what it wrote.                                        *)
Suffix(records, lsn) ==
  LET above == {i \in 1 .. Len(records) : records[i].lsn > lsn}
  IN  IF above = {} THEN <<>>
                    ELSE SubSeq(records, First(above), Len(records))

TruncateTo ==
  LET suffix == Suffix(wal, wal_lsn)
  IN
  /\ maint = "truncate"
  /\ wal' = suffix
  /\ wal_synced' = 0
  /\ magic' = (suffix = <<>>) /\ file_ok' = TRUE
  /\ max_lsn' = IF suffix = <<>> THEN wal_lsn ELSE suffix[1].lsn
  /\ maint' = "idle"
  /\ excused' = (excused \/ Missed)
  /\ UNCHANGED <<jobs, commit, tables, files, checkpoint, rounds, faults>>

---------------------------------------------------------------------------
DrainStep(d) == \/ Pop(d) \/ FsyncBatch(d) \/ FsyncFails(d) \/ ApplyWalBatch(d)
                \/ \E bad \in SUBSET Client : AppendMany(d, bad)
CommitStep(s) == CommitDrained(s) \/ CommitSync(s) \/ CommitSyncFails(s)
MaintenanceStep == FlushPendingDone \/ FlushTable \/ FlushFsyncFails
                   \/ FoldWalToVcs \/ CommitSuperBlock \/ TruncateTo

Next ==
  \/ \E c \in Client : \/ \E k \in Key, large \in BOOLEAN : PutEnter(c, k, large)
                       \/ PutEnqueue(c)
  \/ \E s \in Session : AppendTxnCommit(s) \/ AppendTxnCommitFails(s)
                        \/ CommitStep(s)
  \/ \E d \in Drainer : DrainStep(d) \/ AppendManyFails(d)
  \/ \E cp \in BOOLEAN : MaintenanceBegin(cp)
  \/ MaintenanceStep

Spec == Init /\ [][Next]_vars

(* The worker, a Flush or a commit under way and a client inside Put run.  *)
(* Nobody has to call Put, commit or Flush.                                *)
Fairness ==
  /\ \A d \in Drainer : WF_vars(DrainStep(d))
  /\ \A s \in Session : WF_vars(CommitStep(s))
  /\ WF_vars(MaintenanceStep)
  /\ \A c \in Client : WF_vars(PutEnqueue(c))
FairSpec == Spec /\ Fairness

---------------------------------------------------------------------------
(* What recovery would find for k with n records of the log left; a log    *)
(* without its magic number is read in the wrong format.                   *)
Recovered(k, n) ==
  LET logged == IF magic
                  THEN Newest(Above(Elements(SubSeq(wal, 1, n)), wal_lsn), k)
                  ELSE 0
  IN  IF logged > 0 THEN logged ELSE data[k]

(* RPO 0 at Put return: after a crash at any instant recovery finds every  *)
(* version a Put returned Ok for, or a later one of its key.               *)
AckedDurable ==
  \A a \in acked :
    /\ a.lsn > 0
    /\ \A n \in wal_synced .. Len(wal) : Recovered(a.key, n) >= a.lsn

(* RPO 0 as far as the code has it.  The exceptions, which excused keeps:   *)
(* a job that returns Ok beside a bad one of its batch; a batch that is     *)
(* applied without having been logged; a batch that is applied after a     *)
(* newer one of the same key; a checkpoint that covers or truncates the log *)
(* while it is Missed.  No other order of three kinds of drainers, flushes, *)
(* checkpoints, commits and failures loses a write.                         *)
AckedDurableUnlessExcused == ~excused => AckedDurable

(* Append, fsync, apply, in this order for every drainer: what readers can *)
(* see in the memtable survives a crash, with the same exceptions.         *)
AppliedDurable ==
  ~excused => \A k \in Key : \A n \in wal_synced .. Len(wal) :
                  memtable[k] <= Recovered(k, n)

(* Newest wins: Get, which reads the memtable before the files, finds for  *)
(* each version a Put returned Ok for that version or a later one, with the *)
(* same exceptions.                                                        *)
NewestWins ==
  ~excused => \A a \in acked :
                a.lsn <= IF memtable[a.key] # 0 THEN memtable[a.key]
                                                ELSE data[a.key]

(* A job waits in the queue, or is in the hands of one drainer: no job is  *)
(* done twice or dropped when the worker, a Flush and commits all drain.   *)
JobInOnePlace ==
  \A c \in Client :
    Cardinality({i \in 1 .. Len(queue) : queue[i] = c})
      + Cardinality({d \in Drainer : c \in Elements(batch[d])})
      = IF call[c] = "queued" THEN 1 ELSE 0

(* Every Put returns, whoever drains its job and whatever fails.           *)
PutReturns == \A c \in Client : call[c] = "queued" ~> call[c] = "idle"
=============================================================================
