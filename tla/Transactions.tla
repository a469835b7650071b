---------------------------- MODULE Transactions ----------------------------
(***************************************************************************)
(* SQL transactions of several sessions on one database directory:         *)
(* src/sql/session/transaction_state.cc with the log records, range        *)
(* tickets, snapshot reads and replay it uses.                             *)
(*                                                                         *)
(* A session is one Database: it has an engine of its own, with its own    *)
(* memtable, and runs one transaction at a time; sessions meet in the log  *)
(* and in the range tickets, which are per directory and process.  This is *)
(* how the tests open concurrent transactions.  A statement is one         *)
(* action; Commit is two, because nothing is locked between its validation *)
(* and its commit record, and a rollback is one for each record it logs.   *)
(* One shard, kSync or kBalanced: a Put returns when its record is on      *)
(* disk.  TxnBegin records, which nothing reads, take no LSN here, and a   *)
(* record that is not fsynced keeps its place: in the code it is in a      *)
(* buffer of its session, and the next record of another session takes the *)
(* same LSN and place in the file.  A version is known by the LSN of its   *)
(* record, a value by the LSN it was first written under; an undo writes   *)
(* an old value under a new LSN.                                           *)
(* Left out: the cache of snapshot reads, and the flush worker, which      *)
(* flushes what Checkpoint flushes without truncating.                     *)
(***************************************************************************)
EXTENDS Integers, Sequences, FiniteSetsExt, Functions

CONSTANTS Key, Session,
          RestartsAnyTime,  \* FALSE: only when the log has no record of a
                            \*   transaction, so that no id is used twice
          MaxTxns,
          MaxWork           \* bound on log records and events together; an
                            \*   event is a scan, a savepoint, a failed commit,
                            \*   a closed session or a restart

ASSUME TxnBoundsOK ==
  /\ {MaxTxns, MaxWork} \subseteq Nat /\ MaxWork > 0
  /\ RestartsAnyTime \in BOOLEAN
  /\ IsFiniteSet(Key) /\ IsFiniteSet(Session)

VARIABLES
  \* files
  wal,          \* records above wal_lsn, in LSN order
  wal_lsn,      \* of the superblock: the log is truncated up to it
  disk,         \* flushed versions of each key (data file and chains)
  \* of each session's engine
  open, memtable, stable_lsn,
  \* of each session's TransactionState; txn_id = 0 when not active
  txn_id, snapshot, read_set, write_set, journal_, savepoint,
  stage,        \* "none", or where a call stands: Commit "validated", and
                \*   "raced" when another session acted since the validation;
                \*   Rollback "undoing", RollbackToSavepoint "unwinding"
  tickets,      \* the transactions with a range ticket
  next_txn, events,
  \* history
  acked         \* history: LSN of the newest version of each key reported
                \*   committed

files == <<wal, wal_lsn, disk>>
engine == <<memtable, stable_lsn>>
sets == <<read_set, write_set>>
undo == <<journal_, savepoint>>
bounds == <<next_txn, events>>
vars == <<files, open, engine, txn_id, snapshot, sets, undo, stage, tickets,
          bounds, acked>>

Lsn == 0 .. MaxWork
Txn == 0 .. MaxTxns
NoSample == -1
Value == Lsn            \* the LSN a value was first written under
Absent == 0
Version == [lsn : Lsn, val : Value]
NoVersion == [lsn |-> 0, val |-> Absent]
Entry == [lsn : Lsn, val : Value, txn : Txn, durable : BOOLEAN]
NoEntry == [lsn |-> 0, val |-> Absent, txn |-> 0, durable |-> TRUE]
EmptyTable == [k \in Key |-> NoEntry]
Unsampled == [k \in Key |-> NoSample]
DataRecord == [op : {"data"}, lsn : Lsn, txn : Txn, key : Key, val : Value]
ControlRecord == [op : {"commit", "abort"}, lsn : Lsn, txn : Txn]

Stage == {"none", "validated", "raced", "undoing", "unwinding"}

TypeOK ==
  /\ wal \in Seq(DataRecord \cup ControlRecord) /\ wal_lsn \in Lsn
  /\ disk \in [Key -> SUBSET Version]
  /\ open \subseteq Session
  /\ memtable \in [Session -> [Key -> Entry]]
  /\ stable_lsn \in [Session -> Lsn]
  /\ txn_id \in [Session -> Txn]
  /\ snapshot \in [Session -> Lsn]
  /\ read_set \in [Session -> [Key -> Lsn \cup {NoSample}]]
  /\ write_set \in [Session -> [Key -> Lsn \cup {NoSample}]]
  /\ journal_ \in [Session -> Seq([key : Key, old : Value])]
  /\ savepoint \in [Session -> Nat \cup {NoSample}]
  /\ stage \in [Session -> Stage]
  /\ tickets \subseteq Txn
  /\ next_txn \in 1 .. MaxTxns + 1
  /\ events \in 0 .. MaxWork
  /\ acked \in [Key -> Lsn]

(* Sessions opened on an empty directory, or on one where a key was written*)
(* and checkpointed.                                                       *)
Init ==
  /\ wal = <<>>
  /\ \E loaded \in {{}} \cup {{k} : k \in Key} :
       /\ disk = [k \in Key |-> IF k \in loaded THEN {[lsn |-> 1, val |-> 1]} ELSE {}]
       /\ wal_lsn = Cardinality(loaded)
  /\ open = Session
  /\ memtable = [s \in Session |-> EmptyTable]
  /\ stable_lsn = [s \in Session |-> wal_lsn]
  /\ txn_id = [s \in Session |-> 0] /\ snapshot = [s \in Session |-> 0]
  /\ read_set = [s \in Session |-> Unsampled]
  /\ write_set = [s \in Session |-> Unsampled]
  /\ journal_ = [s \in Session |-> <<>>]
  /\ savepoint = [s \in Session |-> NoSample]
  /\ stage = [s \in Session |-> "none"]
  /\ tickets = {} /\ next_txn = 1 /\ events = 0
  /\ acked = [k \in Key |-> 0]

-----------------------------------------------------------------------------
(* The log and what a session reads.                                       *)

NextLsn == wal_lsn + Len(wal) + 1
Room(n) == NextLsn - 1 + events + n <= MaxWork
LastOf(lsns) == Max(lsns \cup {0})
NewestOf(versions) == CHOOSE v \in versions : \A w \in versions : v.lsn >= w.lsn

LoggedAs(op) == {r.txn : r \in {r \in Range(wal) : r.op = op}}

(* The log's versions of k: all but those of aborted transactions, and of  *)
(* these the committed ones.                                               *)
DataOf(k) ==
  LET aborted == LoggedAs("abort") IN
    {r \in Range(wal) : r.op = "data" /\ r.key = k /\ r.txn \notin aborted}
CommittedData(k) ==
  LET committed == LoggedAs("commit") \cup {0} IN
    {r \in DataOf(k) : r.txn \in committed}

LatestCommittedLsnForKey(k) == LastOf({r.lsn : r \in CommittedData(k)})

TableEntry(r, durable) ==
  [lsn |-> r.lsn, val |-> r.val, txn |-> r.txn, durable |-> durable]

(* Mutants: the replay keeps the first record of a key, or takes every      *)
(* record for a committed one.                                             *)
ReplayPending_FirstWins(mem) ==
  [k \in Key |->
     LET data == DataOf(k)
         first == CHOOSE v \in data : \A w \in data : v.lsn <= w.lsn IN
       IF data = {} THEN mem[k] ELSE TableEntry(first, first \in CommittedData(k))]
ReplayPending_AllCommitted(mem) ==
  [k \in Key |-> IF DataOf(k) = {} THEN mem[k]
                 ELSE TableEntry(NewestOf(DataOf(k)), TRUE)]

(* One entry for each key: its last record, whether committed or not.      *)
ReplayPending(mem) ==
  [k \in Key |->
     LET data == DataOf(k)  last == NewestOf(data) IN
       IF data = {} THEN mem[k] ELSE TableEntry(last, last \in CommittedData(k))]

LiveHead(k) == disk[k] # {} /\ NewestOf(disk[k]).val # Absent

(* The flushed version of k at a snapshot: the B-tree's if it is old       *)
(* enough, else the chain's floor.  Snapshot 0 admits every B-tree version.*)
DiskVersion(k, snap) ==
  LET old == {v \in disk[k] : v.lsn <= snap} IN
    IF snap = 0 /\ LiveHead(k) THEN NewestOf(disk[k])
    ELSE IF old = {} THEN NoVersion ELSE NewestOf(old)

(* 0 stands for NotFound.  Memtables are not consulted.                    *)
ResolveLsnAtSnapshot(k, snap) == DiskVersion(k, snap).lsn

ResolveCurrentCommittedLsn(mem, k) ==
  LastOf({v.lsn : v \in disk[k]}
           \cup {IF mem[k].durable THEN mem[k].lsn ELSE 0,
                 LatestCommittedLsnForKey(k)})

MemEntryVisible(e, t) == e.lsn > 0 /\ (e.durable \/ (t # 0 /\ e.txn = t))

ResolveAtSnapshot(mem, k, t, snap) ==
  IF MemEntryVisible(mem[k], t) THEN mem[k].val ELSE DiskVersion(k, snap).val

-----------------------------------------------------------------------------
(* Appending to the log and applying to the appender's memtable.           *)

MemTablePut(mem, records) ==
  [k \in Key |->
     LET mine == {r \in Range(records) : r.op = "data" /\ r.key = k} IN
       IF mine = {} THEN mem[k]
       ELSE TableEntry(NewestOf(mine), NewestOf(mine).txn = 0)]

Data(lsn, t, k, val) ==
  [op |-> "data", lsn |-> lsn, txn |-> t, key |-> k, val |-> val]
Control(op, t) == [op |-> op, lsn |-> NextLsn, txn |-> t]

(* What another session appends or registers may fail a validation that    *)
(* passed before.                                                          *)
Interfere(s) ==
  stage' = [o \in Session |->
              IF o # s /\ stage[o] = "validated" THEN "raced" ELSE stage[o]]

ToLog(records) ==
  LET auto == {r \in Range(records) : r.op = "data" /\ r.txn = 0} IN
    /\ Room(Len(records))
    /\ wal' = wal \o records
    /\ acked' = [k \in Key |->
                   LastOf({acked[k]} \cup
                          {r.lsn : r \in {r \in auto : r.key = k}})]
    /\ UNCHANGED <<wal_lsn, disk, open, next_txn>>

Put(s, mem, records) ==
  /\ ToLog(records)
  /\ memtable' = [memtable EXCEPT ![s] = MemTablePut(mem, records)]
  /\ stable_lsn' = [stable_lsn EXCEPT
       ![s] = LET data == {r \in Range(records) : r.op = "data"} IN
                IF data = {} THEN @ ELSE NewestOf(data).lsn]

-----------------------------------------------------------------------------
(* A session and its transaction.  Idle: no Commit or Rollback of s is in  *)
(* progress.                                                               *)

Idle(s) == s \in open /\ stage[s] = "none"
Active(s) == Idle(s) /\ txn_id[s] # 0

Forget(f, S, x) == [s \in Session |-> IF s \in S THEN x ELSE f[s]]

EndTxns(S) ==
  /\ txn_id' = Forget(txn_id, S, 0) /\ snapshot' = Forget(snapshot, S, 0)
  /\ read_set' = Forget(read_set, S, Unsampled)
  /\ write_set' = Forget(write_set, S, Unsampled)
  /\ journal_' = Forget(journal_, S, <<>>)
  /\ savepoint' = Forget(savepoint, S, NoSample)

(* Opening loads what is flushed and replays the log.                      *)
Open(s) ==
  /\ s \notin open
  /\ open' = open \cup {s}
  /\ memtable' = [memtable EXCEPT ![s] = ReplayPending(EmptyTable)]
  /\ stable_lsn' = [stable_lsn EXCEPT
       ![s] = LastOf({v.lsn : v \in UNION Range(disk)})]
  /\ UNCHANGED <<files, txn_id, snapshot, sets, undo, stage, tickets, bounds,
                 acked>>

(* A Database is destroyed.  Nothing ends its transaction: the log has no  *)
(* abort record and the process keeps the range ticket.                    *)
Close(s) ==
  /\ Idle(s)
  /\ Room(1) /\ events' = events + 1
  /\ open' = open \ {s}
  /\ EndTxns({s})
  /\ memtable' = [memtable EXCEPT ![s] = EmptyTable]
  /\ stable_lsn' = [stable_lsn EXCEPT ![s] = 0]
  /\ UNCHANGED <<files, stage, tickets, next_txn, acked>>

(* The process ends, at any point of a call.  Abort records at the end of  *)
(* the log, which are not fsynced, may be lost.  The next process numbers  *)
(* transactions from 1 again.                                              *)
Restart ==
  /\ Room(1) /\ events' = events + 1
  /\ \E n \in 0 .. Len(wal) :
       /\ \A i \in n + 1 .. Len(wal) : wal[i].op = "abort"
       /\ wal' = SubSeq(wal, 1, n)
  /\ RestartsAnyTime \/ \A r \in Range(wal) : r.txn = 0
  /\ open' = {} /\ tickets' = {} /\ next_txn' = 1
  /\ EndTxns(Session)
  /\ memtable' = [s \in Session |-> EmptyTable]
  /\ stable_lsn' = [s \in Session |-> 0]
  /\ stage' = [s \in Session |-> "none"]
  /\ UNCHANGED <<wal_lsn, disk, acked>>

Begin(s) ==
  /\ Idle(s) /\ txn_id[s] = 0 /\ next_txn <= MaxTxns
  /\ txn_id' = [txn_id EXCEPT ![s] = next_txn]
  /\ next_txn' = next_txn + 1
  /\ snapshot' = [snapshot EXCEPT ![s] = stable_lsn[s]]
  /\ UNCHANGED <<files, open, engine, sets, undo, stage, tickets, events, acked>>

Sample(s, k) == ResolveLsnAtSnapshot(k, snapshot[s])

(* The memtable of s after it looked up the current version of a key.      *)
Refreshed(s) == ReplayPending(memtable[s])

(* ReadKey's sample: an unflushed key has none at the snapshot and is      *)
(* taken at its current version.                                           *)
ReadSample(s, k) ==
  IF Sample(s, k) > 0 THEN Sample(s, k)
  ELSE ResolveCurrentCommittedLsn(Refreshed(s), k)

ReadKey(s, k) ==
  /\ Active(s)
  /\ read_set' = [read_set EXCEPT ![s][k] = ReadSample(s, k)]
  /\ memtable' = IF Sample(s, k) > 0 THEN memtable
                 ELSE [memtable EXCEPT ![s] = Refreshed(s)]
  /\ UNCHANGED <<files, open, stable_lsn, txn_id, snapshot, write_set,
                 undo, stage, tickets, bounds, acked>>

(* A range scan samples each row it returns, without ReadKey's fallback,   *)
(* and registers its ticket, here on the whole table.                      *)
Scan(s) ==
  LET rows == {k \in Key : ResolveAtSnapshot(memtable[s], k, txn_id[s],
                                             snapshot[s]) # Absent} IN
    /\ Active(s)
    /\ Room(1) /\ events' = events + 1
    /\ read_set' = [read_set EXCEPT ![s] =
         [k \in Key |-> IF k \in rows THEN Sample(s, k) ELSE @[k]]]
    /\ tickets' = tickets \cup {txn_id[s]}
    /\ Interfere(s)
    /\ UNCHANGED <<files, open, engine, txn_id, snapshot, write_set,
                   undo, next_txn, acked>>

(* UPDATE reads the key before RecordWriteIntent, INSERT and DELETE after. *)
WriteTicket(s, k, kind) ==
  LET read == read_set[s][k] IN
    CASE kind = "update" -> ReadSample(s, k)
      [] kind # "update" /\ read = NoSample -> Sample(s, k)
      [] kind # "update" /\ read = 0 ->
           ResolveCurrentCommittedLsn(Refreshed(s), k)
      [] kind # "update" /\ read > 0 -> read

(* A row statement of a transaction: ticket, journal entry with the old    *)
(* value (RecordBeforePut), then the provisional record.  An UPDATE that   *)
(* finds its rows by a scan has the journal entry made before the ticket is*)
(* taken; both are as they would be in the other order.                    *)
Write(s, k, kind) ==
  LET refreshes == Sample(s, k) = 0 \/ (kind # "update" /\ read_set[s][k] = 0)
      mem == IF refreshes THEN Refreshed(s) ELSE memtable[s]
      old == ResolveAtSnapshot(mem, k, txn_id[s], snapshot[s])
      new == IF kind = "delete" THEN Absent ELSE NextLsn IN
    /\ Active(s)
    /\ read_set' = [read_set EXCEPT ![s][k] = ReadSample(s, k)]
    /\ write_set' = [write_set EXCEPT ![s][k] = WriteTicket(s, k, kind)]
    /\ journal_' = [journal_ EXCEPT ![s] = Append(@, [key |-> k, old |-> old])]
    /\ Put(s, mem, <<Data(NextLsn, txn_id[s], k, new)>>)
    /\ Interfere(s)
    /\ UNCHANGED <<txn_id, snapshot, savepoint, tickets, events>>

(* The same statements outside a transaction: nothing is recorded.         *)
Autocommit(s, k, kind) ==
  /\ Idle(s) /\ txn_id[s] = 0
  /\ Put(s, memtable[s],
         <<Data(NextLsn, 0, k, IF kind = "delete" THEN Absent ELSE NextLsn)>>)
  /\ Interfere(s)
  /\ UNCHANGED <<txn_id, snapshot, sets, undo, tickets, events>>

-----------------------------------------------------------------------------
(* The end of a transaction.                                               *)

(* Mutant: write tickets are not validated.                                *)
TicketsHold_ReadsOnly(s) ==
  \A k \in Key : write_set[s][k] = NoSample /\ read_set[s][k] # NoSample =>
    read_set[s][k] = ResolveCurrentCommittedLsn(Refreshed(s), k)

TicketsHold(s) ==
  \A k \in Key :
    LET current == ResolveCurrentCommittedLsn(Refreshed(s), k) IN
      /\ write_set[s][k] # NoSample => write_set[s][k] = current
      /\ write_set[s][k] = NoSample /\ read_set[s][k] # NoSample
           => read_set[s][k] = current

(* Mutant: the transaction's own ticket is the one that counts.            *)
PhantomConflict_OwnTicket(s) ==
  txn_id[s] \in tickets /\ \E k \in Key : write_set[s][k] = 0

(* An insert in the range of another transaction's scan; tickets here are  *)
(* on the whole table.                                                     *)
PhantomConflict(s) ==
  /\ tickets \ {txn_id[s]} # {}
  /\ \E k \in Key : write_set[s][k] = 0

(* A conflict leaves the transaction active.                               *)
ValidateCommitOCC(s) ==
  /\ Active(s)
  /\ memtable' = [memtable EXCEPT ![s] = Refreshed(s)]
  /\ stage' = [stage EXCEPT ![s] =
                 IF TicketsHold(s) /\ ~PhantomConflict(s) THEN "validated"
                 ELSE "none"]
  /\ UNCHANGED <<files, open, stable_lsn, txn_id, snapshot, sets, undo,
                 tickets, bounds, acked>>

Commits(s) == s \in open /\ stage[s] \in {"validated", "raced"}

OthersInterfered(s) ==
  [o \in Session |-> IF o = s THEN "none"
                     ELSE IF stage[o] = "validated" THEN "raced" ELSE stage[o]]

PromoteTxn(mem, t) ==
  [k \in Key |-> IF mem[k].txn = t THEN [mem[k] EXCEPT !.durable = TRUE]
                 ELSE mem[k]]

ClearTxn(mem, t) ==
  [k \in Key |-> IF mem[k].txn = t /\ t # 0 THEN NoEntry ELSE mem[k]]

Commit(s) ==
  LET t == txn_id[s]
      written(k) == {r.lsn : r \in {r \in DataOf(k) : r.txn = t}} IN
    /\ Commits(s) /\ Room(1)
    /\ wal' = Append(wal, Control("commit", t))
    /\ memtable' = [memtable EXCEPT ![s] = PromoteTxn(@, t)]
    /\ tickets' = tickets \ {t}
    /\ stage' = OthersInterfered(s)
    /\ EndTxns({s})
    /\ acked' = [k \in Key |-> LastOf({acked[k]} \cup written(k))]
    /\ UNCHANGED <<wal_lsn, disk, open, stable_lsn, bounds>>

(* Writing the commit record fails, before or after it is in the log.  The *)
(* transaction stays active.                                               *)
CommitFails(s) ==
  /\ Commits(s)
  /\ Room(1) /\ events' = events + 1
  /\ \/ /\ UNCHANGED wal
        /\ stage' = [stage EXCEPT ![s] = "none"]
     \/ /\ Room(2)
        /\ wal' = Append(wal, Control("commit", txn_id[s]))
        /\ stage' = OthersInterfered(s)
  /\ UNCHANGED <<wal_lsn, disk, open, engine, txn_id, snapshot, sets, undo,
                 tickets, next_txn, acked>>

(* The session rolls back: "undoing" the whole transaction, "unwinding" it *)
(* to its savepoint.                                                       *)
RollsBack(s) == s \in open /\ stage[s] \in {"undoing", "unwinding"}

LastEntry(s) == journal_[s][Len(journal_[s])]
Keeps(s) == IF stage[s] = "unwinding" THEN savepoint[s] ELSE 0

(* Mutant: an LSN one too high.                                            *)
UndoRecord_Skips(s) ==
  LET e == LastEntry(s)
      t == IF stage[s] = "unwinding" /\ e.old = Absent THEN txn_id[s] ELSE 0 IN
    Data(NextLsn + 1, t, e.key, e.old)

(* An old value goes back outside the transaction, and so does the deletion*)
(* of a key without one, but for that of RollbackToSavepoint.              *)
UndoRecord(s) ==
  LET e == LastEntry(s)
      t == IF stage[s] = "unwinding" /\ e.old = Absent THEN txn_id[s] ELSE 0 IN
    Data(NextLsn, t, e.key, e.old)

(* The abort record is not fsynced, and nobody looks whether it is written.*)
Rollback(s) ==
  /\ Active(s) /\ Room(1)
  /\ \/ wal' = Append(wal, Control("abort", txn_id[s])) /\ UNCHANGED events
     \/ UNCHANGED wal /\ events' = events + 1
  /\ memtable' = [memtable EXCEPT ![s] = ClearTxn(@, txn_id[s])]
  /\ tickets' = tickets \ {txn_id[s]}
  /\ stage' = [OthersInterfered(s) EXCEPT ![s] = "undoing"]
  /\ UNCHANGED <<wal_lsn, disk, open, stable_lsn, txn_id, snapshot, sets, undo,
                 next_txn, acked>>

RollbackToSavepoint(s) ==
  /\ Active(s) /\ savepoint[s] # NoSample
  /\ stage' = [stage EXCEPT ![s] = "unwinding"]
  /\ UNCHANGED <<files, open, engine, txn_id, snapshot, sets, undo, tickets,
                 bounds, acked>>

(* One Put or Delete for each journal entry, from the last on.             *)
Undo(s) ==
  /\ RollsBack(s) /\ Len(journal_[s]) > Keeps(s)
  /\ Put(s, memtable[s], <<UndoRecord(s)>>)
  /\ journal_' = [journal_ EXCEPT ![s] = SubSeq(@, 1, Len(@) - 1)]
  /\ Interfere(s)
  /\ UNCHANGED <<txn_id, snapshot, sets, savepoint, tickets, events>>

(* It fails, before or after its record is in the log, and the rollback    *)
(* goes on all the same.                                                   *)
UndoFails(s) ==
  /\ RollsBack(s) /\ Len(journal_[s]) > Keeps(s)
  /\ Room(1) /\ events' = events + 1
  /\ \/ UNCHANGED <<wal, stage>>
     \/ Room(2) /\ wal' = Append(wal, UndoRecord(s)) /\ Interfere(s)
  /\ journal_' = [journal_ EXCEPT ![s] = SubSeq(@, 1, Len(@) - 1)]
  /\ UNCHANGED <<wal_lsn, disk, open, engine, txn_id, snapshot, sets, savepoint,
                 tickets, next_txn, acked>>

EndRollback(s) ==
  /\ s \in open /\ stage[s] = "undoing" /\ journal_[s] = <<>>
  /\ EndTxns({s})
  /\ stage' = [stage EXCEPT ![s] = "none"]
  /\ UNCHANGED <<files, open, engine, tickets, bounds, acked>>

EndRollbackToSavepoint(s) ==
  /\ s \in open /\ stage[s] = "unwinding" /\ Len(journal_[s]) = savepoint[s]
  /\ savepoint' = [savepoint EXCEPT ![s] = NoSample]
  /\ stage' = [stage EXCEPT ![s] = "none"]
  /\ UNCHANGED <<files, open, engine, txn_id, snapshot, sets, journal_, tickets,
                 bounds, acked>>

Savepoint(s) ==
  /\ Active(s) /\ savepoint[s] = NoSample
  /\ Room(1) /\ events' = events + 1
  /\ savepoint' = [savepoint EXCEPT ![s] = Len(journal_[s])]
  /\ UNCHANGED <<files, open, engine, txn_id, snapshot, sets, journal_, stage,
                 tickets, next_txn, acked>>

ReleaseSavepoint(s) ==
  /\ Active(s) /\ savepoint[s] # NoSample
  /\ savepoint' = [savepoint EXCEPT ![s] = NoSample]
  /\ UNCHANGED <<files, open, engine, txn_id, snapshot, sets, journal_, stage,
                 tickets, bounds, acked>>

-----------------------------------------------------------------------------
(* Checkpoint flushes every entry of the memtable, provisional ones too,   *)
(* and truncates the log.  Only by a session alone in the directory that   *)
(* has replayed the whole log; some key must be left for the B-tree root.  *)
Checkpoint(s) ==
  LET flushed(k) == IF memtable[s][k].lsn = 0 THEN {}
                    ELSE {[lsn |-> memtable[s][k].lsn, val |-> memtable[s][k].val]}
      left(k) == IF flushed(k) = {} THEN LiveHead(k)
                 ELSE memtable[s][k].val # Absent IN
    /\ Idle(s) /\ open = {s} /\ memtable[s] = Refreshed(s) /\ wal # <<>>
    /\ \E k \in Key : left(k)
    /\ disk' = [k \in Key |-> disk[k] \cup flushed(k)]
    /\ wal' = <<>> /\ wal_lsn' = NextLsn - 1
    /\ memtable' = [memtable EXCEPT ![s] = EmptyTable]
    /\ stable_lsn' = [stable_lsn EXCEPT
         ![s] = LastOf({@} \cup {memtable[s][k].lsn : k \in Key})]
    /\ UNCHANGED <<open, txn_id, snapshot, sets, undo, stage, tickets, bounds,
                   acked>>

SessionStep(s) ==
  \/ Open(s) \/ Close(s) \/ Begin(s) \/ Scan(s)
  \/ \E k \in Key : ReadKey(s, k)
  \/ \E k \in Key, kind \in {"insert", "update", "delete"} : Write(s, k, kind)
  \/ \E k \in Key, kind \in {"insert", "delete"} : Autocommit(s, k, kind)
  \/ ValidateCommitOCC(s) \/ Commit(s) \/ CommitFails(s)
  \/ Savepoint(s) \/ ReleaseSavepoint(s)
  \/ Rollback(s) \/ RollbackToSavepoint(s) \/ Undo(s) \/ UndoFails(s)
  \/ EndRollback(s) \/ EndRollbackToSavepoint(s)
  \/ Checkpoint(s)

Next == Restart \/ \E s \in Session : SessionStep(s)

Spec == Init /\ [][Next]_vars

-----------------------------------------------------------------------------
(* Properties.                                                             *)

(* MemEntryVisible, ReplayPending, PromoteTxn, ClearTxn: no statement of a *)
(* session, in a transaction or not, finds in its memtable a version of    *)
(* another transaction that has no commit record in the log.               *)
NoDirtyRead ==
  \A s \in open, k \in Key :
    LET e == memtable[s][k] IN
      MemEntryVisible(e, txn_id[s]) =>
        e.txn \in {0, txn_id[s]} \cup LoggedAs("commit")

(* What a session that opens now would find of k.                          *)
LsnAfterOpen(k) ==
  LET e == ReplayPending(EmptyTable)[k] IN
    IF MemEntryVisible(e, 0) THEN e.lsn ELSE LastOf({v.lsn : v \in disk[k]})

Shadowed(k) == DataOf(k) # {} /\ NewestOf(DataOf(k)) \notin CommittedData(k)

(* Commit, Rollback, ReplayPending, Checkpoint: a session opened at any    *)
(* time finds each key at least as new as the last version reported        *)
(* committed, by a commit, an autocommit statement or an undo; except a    *)
(* key whose last log record is of an unfinished transaction, which hides  *)
(* the version before it.                                                  *)
AckedSurvives ==
  \A k \in Key : Shadowed(k) \/ acked[k] <= LsnAfterOpen(k)

(* The call of Commit of s returned Ok.                                    *)
Committed(s) == stage[s] # "none" /\ s \in open' /\ txn_id'[s] = 0

OwnLast(s, k) == LastOf({r.lsn : r \in {r \in DataOf(k) : r.txn = txn_id[s]}})

(* The newest version of k that the log up to an LSN shows committed, those*)
(* of s left out.                                                          *)
OthersLast(s, k, lsn) ==
  LET upto == {r \in Range(wal) : r.lsn <= lsn}
      committed == {0} \cup {r.txn : r \in {r \in upto : r.op = "commit"}} IN
    LastOf({r.lsn : r \in {r \in DataOf(k) \cap upto :
                            r.txn \in committed \ {txn_id[s]}}})

(* ValidateCommitOCC: a transaction commits only if no other version of a  *)
(* key it wrote became the current one after it last wrote the key; the    *)
(* time between validation and commit record excepted.                     *)
NoLostUpdate ==
  [][\A s \in Session :
       stage[s] = "validated" /\ Committed(s) =>
         \A k \in Key : OwnLast(s, k) > 0 =>
           OthersLast(s, k, NextLsn) <= OthersLast(s, k, OwnLast(s, k))]_vars

(* RangeTicketRegistry::ValidateCommit: a commit does not add a key that   *)
(* never existed to a range another transaction scanned and still holds a  *)
(* ticket on; the time between validation and commit record excepted.      *)
NoPhantom ==
  [][\A s \in Session :
       stage[s] = "validated" /\ Committed(s)
         /\ (\E o \in Session \ {s} : txn_id[o] \in tickets) =>
         \A k \in Key : LatestCommittedLsnForKey(k)' > 0 =>
           ResolveCurrentCommittedLsn(EmptyTable, k) > 0]_vars
=============================================================================
