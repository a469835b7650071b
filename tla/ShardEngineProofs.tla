------------------------- MODULE ShardEngineProofs -------------------------
(***************************************************************************)
(* One shard, for any number of keys and writers, every setting of the     *)
(* options, any bound on LSNs, records, crashes and I/O errors: what is in *)
(* the data file and what readers see as stable was logged first. As long  *)
(* as no flush or superblock fails and no crash tears a record of the data *)
(* file, what was reported durable survives a crash at any step, and reads *)
(* find it; fsyncs of writes and of group commits may fail.                *)
(***************************************************************************)
EXTENDS ShardEngine, OrderLemmas, TLAPS

Open == phase # "down"
Among(r, n) == \E i \in 1 .. n : wal[i] = r
RecordOf(k, e) == [lsn |-> e.lsn, key |-> k, del |-> e.del]

(* The log is in LSN order, under the counter; the newest LSN given out is *)
(* still in it, or is that of the superblock.                              *)
LogInv ==
  /\ \A i, j \in 1 .. Len(wal) : i < j => wal[i].lsn < wal[j].lsn
  /\ \A i \in 1 .. Len(wal) : wal[i].lsn > 0
  /\ Open => /\ super.wal_lsn <= max_lsn
             /\ \A i \in 1 .. Len(wal) : wal[i].lsn <= max_lsn
             /\ \/ max_lsn = super.wal_lsn
                \/ \E i \in 1 .. Len(wal) : wal[i].lsn = max_lsn

(* A flush or checkpoint under way has the whole log fsynced, and one past *)
(* its superblock has nothing above it.                                    *)
PhaseInv ==
  /\ phase \notin {"idle", "down"} => wal_synced = Len(wal)
  /\ phase \in {"didx", "vidx", "truncate"} =>
       sb = super /\ super.wal_lsn = max_lsn

(* What the tables hold is in the log, or below the superblock.            *)
Logged(k, e) == e.lsn <= super.wal_lsn \/ Among(RecordOf(k, e), Len(wal))
TablesInv ==
  \A k \in Key : /\ Logged(k, memtable[k])
                 /\ Logged(k, immutable[k])
                 /\ Logged(k, flushing[k])

(* An LSN is durable if the superblock or a fsynced record is not below it. *)
DurableUpTo(l) ==
  l <= super.wal_lsn \/ \E i \in 1 .. wal_synced : l <= wal[i].lsn
WriterInv(w) ==
  /\ writer[w].pc # "none" => Open /\ SyncPath
  /\ writer[w].pc = "await" => writer[w].lsn <= max_lsn
  /\ writer[w].pc = "synced" => DurableUpTo(writer[w].lsn)
StableInv ==
  /\ pending_stable_lsn <= max_lsn
  /\ ~Open => pending_stable_lsn = 0
  /\ DurableUpTo(stable_lsn) /\ DurableUpTo(super.data_lsn)
  /\ \A w \in Writer : WriterInv(w)

IInv == TypeOK /\ LogInv /\ PhaseInv /\ TablesInv /\ WriteAhead /\ StableInv
---------------------------------------------------------------------------
(* The operators of the model. *)

(* MaxOf is the greatest of a bounded set of numbers, 0 if it is empty.    *)
LEMMA MaxOfIsGreatest ==
  ASSUME NEW b \in Nat, NEW S \in SUBSET (0 .. b)
  PROVE  /\ MaxOf(S) \in 0 .. b
         /\ \A n \in S : n <= MaxOf(S)
         /\ S # {} => MaxOf(S) \in S
         /\ S = {} => MaxOf(S) = 0
<1>1. CASE S = {}
  BY <1>1 DEF MaxOf
<1>2. CASE S # {}
  <2>1. S \in SUBSET Nat /\ \A n \in S : n <= b
    OBVIOUS
  <2>2. MaxOf(S) = CHOOSE m \in S : \A n \in S : n <= m
    BY <1>2 DEF MaxOf
  <2>3. MaxOf(S) \in S /\ \A n \in S : n <= MaxOf(S)
    BY <1>2, <2>1, <2>2, ChooseGreatest
  <2> QED
    BY <1>2, <2>3
<1> QED
  BY <1>1, <1>2

EntryOf(r) == [lsn |-> r.lsn, del |-> r.del]

(* The entry of the last of some records: NoEntry, or that of a record     *)
(* with none of the others after it.                                       *)
LEMMA LastAtIsLast ==
  ASSUME NEW log \in Seq(Record), NEW at \in SUBSET (1 .. Len(log))
  PROVE  /\ LastAt(log, at) \in Entry
         /\ at = {} => LastAt(log, at) = NoEntry
         /\ at # {} => \E i \in at : /\ \A j \in at : j <= i
                                     /\ log[i] \in Record
                                     /\ LastAt(log, at) = EntryOf(log[i])
<1>1. CASE at = {}
  <2>1. NoEntry \in Entry
    BY BoundsOK DEF NoEntry, Entry, Lsn
  <2> QED
    BY <1>1, <2>1 DEF LastAt
<1>2. CASE at # {}
  <2>1. at \in SUBSET (0 .. Len(log)) /\ Len(log) \in Nat
    OBVIOUS
  <2>2. MaxOf(at) \in at /\ \A j \in at : j <= MaxOf(at)
    BY <1>2, <2>1, MaxOfIsGreatest
  <2>3. log[MaxOf(at)] \in Record
    <3>1. \A j \in 1 .. Len(log) : log[j] \in Record
      OBVIOUS
    <3> QED
      BY <2>2, <3>1, Zenon
  <2>4. EntryOf(log[MaxOf(at)]) \in Entry
    BY <2>3 DEF EntryOf, Record, Entry
  <2> QED
    BY <1>2, <2>2, <2>3, <2>4 DEF LastAt, EntryOf
<1> QED
  BY <1>1, <1>2

(* The newest record of k above an LSN: NoEntry only if there is none.     *)
LEMMA LastAboveIsLast ==
  ASSUME NEW log \in Seq(Record), NEW k, NEW lsn \in Lsn
  PROVE  /\ LastAbove(log, k, lsn) \in Entry
         /\ LastAbove(log, k, lsn) = NoEntry
              => \A j \in 1 .. Len(log) : log[j].key = k => log[j].lsn <= lsn
         /\ LastAbove(log, k, lsn) # NoEntry
              => \E i \in 1 .. Len(log) :
                   /\ log[i] \in Record /\ log[i].key = k /\ log[i].lsn > lsn
                   /\ LastAbove(log, k, lsn) = EntryOf(log[i])
                   /\ \A j \in 1 .. Len(log) :
                        log[j].key = k /\ log[j].lsn > lsn => j <= i
<1> DEFINE at == OfAbove(log, k, lsn)
<1>1. at \in SUBSET (1 .. Len(log))
  BY DEF OfAbove, Of
<1>2. \A j \in 1 .. Len(log) :
        j \in at <=> log[j].key = k /\ log[j].lsn > lsn
  BY DEF OfAbove, Of
<1>3. LastAbove(log, k, lsn) = LastAt(log, at)
  BY DEF LastAbove
<1>4. \A j \in 1 .. Len(log) : log[j].lsn \in Lsn
  <2>1. \A j \in 1 .. Len(log) : log[j] \in Record
    OBVIOUS
  <2> QED
    BY <2>1 DEF Record
<1>5. lsn \in Nat /\ \A l \in Lsn : l \in Nat
  BY BoundsOK DEF Lsn
<1> HIDE DEF at
<1>6. CASE at = {}
  <2>1. LastAbove(log, k, lsn) = NoEntry /\ NoEntry \in Entry
    BY <1>1, <1>3, <1>6, LastAtIsLast
  <2>2. ASSUME NEW j \in 1 .. Len(log), log[j].key = k
        PROVE  log[j].lsn <= lsn
    <3>1. ~(log[j].lsn > lsn)
      BY <1>2, <1>6, <2>2
    <3>2. log[j].lsn \in Nat
      BY <1>4, <1>5
    <3> QED
      BY <1>5, <3>1, <3>2
  <2> QED
    BY <2>1, <2>2
<1>7. CASE at # {}
  <2>1. PICK i \in at : /\ \A j \in at : j <= i
                        /\ log[i] \in Record
                        /\ LastAt(log, at) = EntryOf(log[i])
    BY <1>1, <1>7, LastAtIsLast
  <2>2. i \in 1 .. Len(log) /\ log[i].key = k /\ log[i].lsn > lsn
    BY <1>1, <1>2
  <2>3. EntryOf(log[i]) # NoEntry
    <3>1. log[i].lsn # 0
      BY <1>4, <1>5, <2>2
    <3> QED
      BY <3>1 DEF EntryOf, NoEntry
  <2>4. LastAt(log, at) \in Entry
    BY <1>1, LastAtIsLast
  <2> QED
    BY <1>2, <1>3, <2>1, <2>2, <2>3, <2>4
<1> QED
  BY <1>6, <1>7

(* Replaying the log over a table: an entry of the table, or the newest    *)
(* record of its key.                                                      *)
LEMMA ReplayIs ==
  ASSUME NEW table \in [Key -> Entry], NEW log \in Seq(Record),
         NEW lsn \in Lsn
  PROVE  /\ ReplayPending(table, log, lsn) \in [Key -> Entry]
         /\ \A k \in Key :
              LET e == ReplayPending(table, log, lsn)[k]
              IN  \/ /\ e = table[k]
                     /\ LastAbove(log, k, lsn) = NoEntry
                  \/ /\ e = LastAbove(log, k, lsn)
                     /\ LastAbove(log, k, lsn) # NoEntry
<1> DEFINE Last(k) == LastAbove(log, k, lsn)
<1>1. \A k \in Key : Last(k) \in Entry
  BY LastAboveIsLast
<1>2. ReplayPending(table, log, lsn)
        = [k \in Key |-> IF Last(k) = NoEntry THEN table[k] ELSE Last(k)]
  BY DEF ReplayPending
<1> HIDE DEF Last
<1>3. \A k \in Key :
        LET e == ReplayPending(table, log, lsn)[k]
        IN  \/ e = table[k] /\ Last(k) = NoEntry
            \/ e = Last(k) /\ Last(k) # NoEntry
  BY <1>2
<1>4. ReplayPending(table, log, lsn) \in [Key -> Entry]
  BY <1>1, <1>2
<1> QED
  BY <1>3, <1>4 DEF Last

(* A log from its first record above an LSN on: those above the LSN if it  *)
(* is in LSN order, and all of them.                                       *)
LEMMA AboveIs ==
  ASSUME NEW log \in Seq(Record), NEW lsn \in Lsn
  PROVE  /\ Above(log, lsn) \in Seq(Record)
         /\ \A i \in 1 .. Len(Above(log, lsn)) :
              \E j \in 1 .. Len(log) :
                /\ Above(log, lsn)[i] = log[j]
                /\ i <= j /\ j = i + (Len(log) - Len(Above(log, lsn)))
         /\ (\A j \in 1 .. Len(log) : log[j].lsn <= lsn)
              => Above(log, lsn) = <<>>
<1> DEFINE above == {i \in 1 .. Len(log) : log[i].lsn > lsn}
           first == CHOOSE i \in above : \A j \in above : i <= j
<1>1. Above(log, lsn) = IF above = {} THEN <<>>
                                      ELSE SubSeq(log, first, Len(log))
  BY DEF Above
<1>2. CASE above = {}
  BY <1>1, <1>2
<1>3. CASE above # {}
  <2>1. above \in SUBSET Nat /\ above \subseteq 1 .. Len(log)
    OBVIOUS
  <2> HIDE DEF above
  <2>2. \E i \in above : \A j \in above : i <= j
    BY <1>3, <2>1, LeastNat
  <2>3. first \in 1 .. Len(log) /\ first \in above
    BY <2>1, <2>2
  <2> HIDE DEF first
  <2>4. /\ SubSeq(log, first, Len(log)) \in Seq(Record)
        /\ Len(SubSeq(log, first, Len(log))) = Len(log) - first + 1
        /\ \A i \in 1 .. Len(log) - first + 1 :
             SubSeq(log, first, Len(log))[i] = log[first + i - 1]
    BY <2>3
  <2>5. \A i \in 1 .. Len(log) - first + 1 :
          /\ first + i - 1 \in 1 .. Len(log) /\ i <= first + i - 1
          /\ first + i - 1 = i + (Len(log) - (Len(log) - first + 1))
    BY <2>3
  <2>6. log[first].lsn > lsn /\ log[first].lsn \in Nat /\ lsn \in Nat
    <3>1. log[first] \in Record
      BY <2>3
    <3> QED
      BY <2>3, <3>1, BoundsOK DEF above, Record, Lsn
  <2>7. ~(\A j \in 1 .. Len(log) : log[j].lsn <= lsn)
    BY <2>3, <2>6
  <2> QED
    BY <1>1, <1>3, <2>4, <2>5, <2>7
<1> QED
  BY <1>2, <1>3
---------------------------------------------------------------------------
(* What the type invariant says of numbers and of the log. *)
LEMMA TypeFacts ==
  ASSUME TypeOK
  PROVE  /\ \A l \in Lsn : l \in Nat
         /\ wal \in Seq(Record) /\ Len(wal) \in Nat
         /\ wal_synced \in 0 .. Len(wal)
         /\ \A i \in 1 .. Len(wal) :
              /\ wal[i] \in Record /\ wal[i].lsn \in Nat /\ wal[i].key \in Key
              /\ wal[i].lsn \in Lsn
         /\ super.wal_lsn \in Nat /\ super.data_lsn \in Nat
         /\ super.wal_lsn \in Lsn /\ super.data_lsn \in Lsn
         /\ sb.wal_lsn \in Nat /\ sb.wal_lsn \in Lsn
         /\ max_lsn \in Nat /\ stable_lsn \in Nat /\ pending_stable_lsn \in Nat
         /\ ReplayedTable \in [Key -> Entry]
<1>1. \A l \in Lsn : l \in Nat
  BY BoundsOK DEF Lsn
<1>2. wal \in Seq(Record) /\ Len(wal) \in Nat /\ wal_synced \in 0 .. Len(wal)
  BY DEF TypeOK
<1>3. \A i \in 1 .. Len(wal) : wal[i] \in Record
  BY <1>2
<1>4. \A i \in 1 .. Len(wal) : wal[i].lsn \in Lsn /\ wal[i].key \in Key
  BY <1>3 DEF Record
<1>5. /\ super.wal_lsn \in Lsn /\ super.data_lsn \in Lsn /\ sb.wal_lsn \in Lsn
      /\ max_lsn \in Lsn /\ stable_lsn \in Lsn /\ pending_stable_lsn \in Lsn
  BY DEF TypeOK
<1>6. ReplayedTable \in [Key -> Entry]
  <2>1. memtable \in [Key -> Entry]
    BY DEF TypeOK
  <2>2. ReplayPending(memtable, wal, sb.wal_lsn) \in [Key -> Entry]
    BY <1>2, <1>5, <2>1, ReplayIs
  <2> QED
    BY <2>1, <2>2 DEF ReplayedTable
<1> QED
  BY <1>1, <1>2, <1>3, <1>4, <1>5, <1>6

(* A record is made of its key and its entry. *)
LEMMA RecordOfEntry ==
  \A r \in Record : RecordOf(r.key, EntryOf(r)) = r
BY DEF Record, RecordOf, EntryOf

(* What the memtable holds after the replay is logged, too. *)
LEMMA ReplayedIsLogged ==
  ASSUME TypeOK, TablesInv
  PROVE  \A k \in Key : Logged(k, ReplayedTable[k])
<1> SUFFICES ASSUME NEW k \in Key
             PROVE  Logged(k, ReplayedTable[k])
  OBVIOUS
<1>1. Logged(k, memtable[k])
  BY DEF TablesInv
<1>2. CASE ReplayedTable[k] # memtable[k]
  <2>1. /\ ReplayedTable = ReplayPending(memtable, wal, sb.wal_lsn)
        /\ memtable \in [Key -> Entry]
    BY <1>2 DEF ReplayedTable, TypeOK
  <2>2. ReplayedTable[k] = LastAbove(wal, k, sb.wal_lsn)
        /\ LastAbove(wal, k, sb.wal_lsn) # NoEntry
    BY SMTT(20), <1>2, <2>1, ReplayIs, TypeFacts
  <2>3. PICK i \in 1 .. Len(wal) : /\ wal[i] \in Record /\ wal[i].key = k
                                   /\ ReplayedTable[k] = EntryOf(wal[i])
    BY <2>2, LastAboveIsLast, TypeFacts
  <2>4. RecordOf(k, ReplayedTable[k]) = wal[i]
    BY <2>3, RecordOfEntry
  <2> QED
    BY <2>4 DEF Logged, Among
<1> QED
  BY <1>1, <1>2
---------------------------------------------------------------------------
(* Steps that leave parts of the state alone. *)

(* The log keeps its fsynced part and the superblock stays: what was       *)
(* durable stays durable.                                                  *)
SyncedKept ==
  /\ super' = super
  /\ wal_synced' \in Nat /\ wal_synced <= wal_synced'
  /\ \A i \in 1 .. wal_synced : wal'[i] = wal[i]
LogKept ==
  /\ SyncedKept
  /\ Len(wal) <= Len(wal') /\ Len(wal') \in Nat
  /\ \A i \in 1 .. Len(wal) : wal'[i] = wal[i]

LEMMA DurableStays ==
  ASSUME TypeOK, SyncedKept
  PROVE  \A l : DurableUpTo(l) =>
           l <= super'.wal_lsn \/ \E i \in 1 .. wal_synced' : l <= wal'[i].lsn
<1> SUFFICES ASSUME NEW l, DurableUpTo(l), ~(l <= super'.wal_lsn)
             PROVE  \E i \in 1 .. wal_synced' : l <= wal'[i].lsn
  OBVIOUS
<1>1. PICK i \in 1 .. wal_synced : l <= wal[i].lsn
  BY DEF DurableUpTo, SyncedKept
<1>2. i \in 1 .. wal_synced' /\ wal'[i] = wal[i]
  BY TypeFacts DEF SyncedKept
<1> QED
  BY <1>1, <1>2

LEMMA AmongStays ==
  ASSUME TypeOK, LogKept
  PROVE  \A k, e : Logged(k, e) =>
           \/ e.lsn <= super'.wal_lsn
           \/ \E i \in 1 .. Len(wal') : wal'[i] = RecordOf(k, e)
<1> SUFFICES ASSUME NEW k, NEW e, Logged(k, e), ~(e.lsn <= super'.wal_lsn)
             PROVE  \E i \in 1 .. Len(wal') : wal'[i] = RecordOf(k, e)
  OBVIOUS
<1>1. PICK i \in 1 .. Len(wal) : wal[i] = RecordOf(k, e)
  BY DEF Logged, Among, LogKept, SyncedKept
<1>2. i \in 1 .. Len(wal') /\ wal'[i] = wal[i]
  BY TypeFacts DEF LogKept
<1> QED
  BY <1>1, <1>2

(* The tables change places, take the replayed table, or are cleared.      *)
LEMMA TablesMove ==
  ASSUME TypeOK, TablesInv, LogKept,
         \A k \in Key :
           \A e \in {memtable'[k], immutable'[k], flushing'[k]} :
             e \in {memtable[k], immutable[k], flushing[k], ReplayedTable[k],
                    NoEntry}
  PROVE  TablesInv'
<1>1. ASSUME NEW k \in Key
      PROVE  \A e \in {memtable[k], immutable[k], flushing[k],
                       ReplayedTable[k], NoEntry} : Logged(k, e)
  <2>1. /\ Logged(k, memtable[k]) /\ Logged(k, immutable[k])
        /\ Logged(k, flushing[k]) /\ Logged(k, ReplayedTable[k])
    BY ReplayedIsLogged DEF TablesInv
  <2>2. Logged(k, NoEntry)
    BY TypeFacts DEF Logged, NoEntry
  <2> QED
    BY <2>1, <2>2
<1>2. ASSUME NEW k \in Key
      PROVE  \A e \in {memtable'[k], immutable'[k], flushing'[k]} :
               \/ e.lsn <= super'.wal_lsn
               \/ \E i \in 1 .. Len(wal') : wal'[i] = RecordOf(k, e)
  BY <1>1, AmongStays
<1> QED
  BY <1>2 DEF TablesInv, Logged, Among, RecordOf

LEMMA WriteAheadStays ==
  ASSUME TypeOK, WriteAhead, SyncedKept, datafile' = datafile
  PROVE  WriteAhead'
<1>1. ASSUME NEW r \in Elements(datafile)
      PROVE  r.lsn <= super'.wal_lsn \/ \E i \in 1 .. wal_synced' : wal'[i] = r
  <2>1. CASE r.lsn <= super.wal_lsn
    BY <2>1 DEF SyncedKept
  <2>2. CASE \E i \in 1 .. wal_synced : wal[i] = r
    <3>1. PICK i \in 1 .. wal_synced : wal[i] = r
      BY <2>2
    <3>2. i \in 1 .. wal_synced' /\ wal'[i] = wal[i]
      BY TypeFacts DEF SyncedKept
    <3> QED
      BY <3>1, <3>2
  <2> QED
    BY <2>1, <2>2 DEF WriteAhead
<1>2. Elements(datafile)' = Elements(datafile)
  BY DEF Elements
<1> QED
  BY <1>1, <1>2 DEF WriteAhead

Parts == LogInv /\ TablesInv /\ WriteAhead /\ StableInv

(* Writers that neither advance nor start, with nothing durable lost.      *)
LEMMA WritersStay ==
  ASSUME TypeOK, SyncedKept, Open', opts' = opts, max_lsn <= max_lsn',
         max_lsn' \in Nat, writer' = writer,
         \A w \in Writer : WriterInv(w)
  PROVE  \A w \in Writer : WriterInv(w)'
<1> SUFFICES ASSUME NEW w \in Writer
             PROVE  WriterInv(w)'
  OBVIOUS
<1>1. WriterInv(w) /\ writer'[w] = writer[w]
  OBVIOUS
<1>2. writer[w].pc = "synced" =>
        \/ writer[w].lsn <= super'.wal_lsn
        \/ \E i \in 1 .. wal_synced' : writer[w].lsn <= wal'[i].lsn
  BY <1>1, DurableStays DEF WriterInv
<1>3. writer[w].pc = "await" => writer[w].lsn <= max_lsn'
  <2>1. SUFFICES ASSUME writer[w].pc = "await" PROVE writer[w].lsn <= max_lsn'
    OBVIOUS
  <2>2. writer[w] # NoWrite
    BY <2>1 DEF NoWrite
  <2>3. writer[w].lsn \in Nat
    BY <2>2, TypeFacts DEF TypeOK
  <2> QED
    BY <1>1, <2>1, <2>3, TypeFacts DEF WriterInv
<1> QED
  BY <1>1, <1>2, <1>3 DEF WriterInv, DurableUpTo, Durability, SyncPath

(* A step in an open shard that changes none of the log, the data file,    *)
(* the superblock, the counters and the writers.                           *)
LEMMA QuietStep ==
  ASSUME TypeOK, Parts, Open, Open', opts' = opts,
         UNCHANGED <<wal, wal_synced, datafile, super, max_lsn,
                     pending_stable_lsn, stable_lsn, writer>>,
         \A k \in Key :
           \A e \in {memtable'[k], immutable'[k], flushing'[k]} :
             e \in {memtable[k], immutable[k], flushing[k], ReplayedTable[k],
                    NoEntry}
  PROVE  Parts'
<1>1. LogKept /\ SyncedKept
  BY TypeFacts DEF LogKept, SyncedKept
<1>2. LogInv'
  BY DEF Parts, LogInv, Open
<1>3. TablesInv'
  BY <1>1, TablesMove DEF Parts
<1>4. WriteAhead'
  BY <1>1, WriteAheadStays DEF Parts
<1>5. \A w \in Writer : WriterInv(w)'
  BY <1>1, WritersStay, TypeFacts DEF Parts, StableInv
<1>6. StableInv'
  BY <1>5 DEF Parts, StableInv, DurableUpTo
<1> QED
  BY <1>2, <1>3, <1>4, <1>6 DEF Parts

(* A write: a record with a new LSN at the end of the log, and the entry   *)
(* for it in the replayed memtable.                                        *)
LEMMA AppendStep ==
  ASSUME TypeOK, LogInv, TablesInv, Open, Open',
         NEW k \in Key, NEW del \in BOOLEAN, AppendAndApply(k, del),
         super' = super, immutable' = immutable, flushing' = flushing
  PROVE  /\ LogInv' /\ TablesInv'
         /\ Len(wal') = Len(wal) + 1
         /\ wal'[Len(wal')] = [lsn |-> max_lsn + 1, key |-> k, del |-> del]
         /\ \A i \in 1 .. Len(wal) : wal'[i] = wal[i]
         /\ wal' \in Seq(Record) /\ memtable' \in [Key -> Entry]
         /\ max_lsn' = max_lsn + 1 /\ max_lsn' \in Lsn
<1> DEFINE r == [lsn |-> max_lsn + 1, key |-> k, del |-> del]
           e == [lsn |-> max_lsn + 1, del |-> del]
<1>1. max_lsn' = max_lsn + 1 /\ max_lsn' \in Lsn /\ max_lsn + 1 \in Lsn
  BY SMTT(20), TypeFacts, BoundsOK DEF AppendAndApply, Lsn
<1>2. r \in Record /\ r.lsn = max_lsn + 1 /\ e \in Entry
  BY <1>1 DEF Record, Entry
<1>3. RecordOf(k, e) = r
  BY DEF RecordOf
<1>4. wal' = Append(wal, r) /\ memtable' = [ReplayedTable EXCEPT ![k] = e]
  BY DEF AppendAndApply
<1> HIDE DEF r, e
<1>5. /\ wal' \in Seq(Record) /\ Len(wal') = Len(wal) + 1
      /\ wal'[Len(wal')] = r
      /\ \A i \in 1 .. Len(wal) : wal'[i] = wal[i]
  BY <1>2, <1>4, TypeFacts
<1>6. /\ memtable' \in [Key -> Entry]
      /\ memtable'[k] = e
      /\ \A j \in Key \ {k} : memtable'[j] = ReplayedTable[j]
  BY <1>2, <1>4, TypeFacts
<1>7. LogInv'
  <2>1. Len(wal') \in Nat /\ \A i \in 1 .. Len(wal') :
          i \in 1 .. Len(wal) \/ i = Len(wal')
    BY <1>5, TypeFacts
  <2>2. ASSUME NEW i \in 1 .. Len(wal')
        PROVE  wal'[i].lsn > 0 /\ wal'[i].lsn <= max_lsn'
    <3>0. max_lsn \in Nat
      BY TypeFacts
    <3>1. CASE i \in 1 .. Len(wal)
      <4>1. wal[i].lsn > 0 /\ wal[i].lsn <= max_lsn /\ wal[i].lsn \in Nat
        BY <3>1, TypeFacts DEF LogInv
      <4> QED
        BY <1>1, <1>5, <3>0, <3>1, <4>1
    <3>2. CASE i = Len(wal')
      BY <1>1, <1>2, <1>5, <3>0, <3>2
    <3> QED
      BY <2>1, <3>1, <3>2
  <2>3. ASSUME NEW i \in 1 .. Len(wal'), NEW j \in 1 .. Len(wal'), i < j
        PROVE  wal'[i].lsn < wal'[j].lsn
    <3>1. i \in 1 .. Len(wal)
      BY <1>5, <2>1, <2>3, TypeFacts
    <3>2. CASE j \in 1 .. Len(wal)
      BY <1>5, <2>3, <3>1, <3>2 DEF LogInv
    <3>3. CASE j = Len(wal')
      BY SMTT(20), <1>2, <1>5, <3>1, <3>3, TypeFacts DEF LogInv
    <3> QED
      BY <2>1, <3>2, <3>3
  <2>4. wal'[Len(wal')].lsn = max_lsn' /\ Len(wal') \in 1 .. Len(wal')
    BY <1>1, <1>2, <1>5, TypeFacts
  <2>5. super'.wal_lsn <= max_lsn'
    BY <1>1, TypeFacts DEF LogInv
  <2> QED
    BY <2>2, <2>3, <2>4, <2>5 DEF LogInv, Open
<1>8. TablesInv'
  <2>1. \A j \in Key : \A f : Logged(j, f) =>
          \/ f.lsn <= super'.wal_lsn
          \/ \E i \in 1 .. Len(wal') : wal'[i] = RecordOf(j, f)
    <3> SUFFICES ASSUME NEW j \in Key, NEW f, Logged(j, f),
                        ~(f.lsn <= super'.wal_lsn)
                 PROVE  \E i \in 1 .. Len(wal') : wal'[i] = RecordOf(j, f)
      OBVIOUS
    <3>1. PICK i \in 1 .. Len(wal) : wal[i] = RecordOf(j, f)
      BY DEF Logged, Among
    <3>2. i \in 1 .. Len(wal') /\ wal'[i] = wal[i]
      BY <1>5, TypeFacts
    <3> QED
      BY <3>1, <3>2
  <2>2. \E i \in 1 .. Len(wal') : wal'[i] = RecordOf(k, e)
    <3>1. Len(wal') \in 1 .. Len(wal')
      BY <1>5, TypeFacts
    <3> QED
      BY <1>3, <1>5, <3>1
  <2>3. ASSUME NEW j \in Key
        PROVE  /\ Logged(j, ReplayedTable[j])
               /\ Logged(j, immutable[j]) /\ Logged(j, flushing[j])
    BY ReplayedIsLogged DEF TablesInv
  <2>4. ASSUME NEW j \in Key
        PROVE  \A f \in {memtable'[j], immutable'[j], flushing'[j]} :
                 \/ f.lsn <= super'.wal_lsn
                 \/ \E i \in 1 .. Len(wal') : wal'[i] = RecordOf(j, f)
    BY <1>6, <2>1, <2>2, <2>3
  <2> QED
    BY <2>4 DEF TablesInv, Logged, Among, RecordOf
<1> QED
  BY <1>1, <1>5, <1>6, <1>7, <1>8 DEF r

(* With the whole log fsynced, every LSN given out is durable.             *)
LEMMA LoggedUpTo ==
  ASSUME TypeOK, LogInv, Open
  PROVE  \A l : l \in Nat /\ l <= max_lsn =>
           l <= super.wal_lsn \/ \E i \in 1 .. Len(wal) : l <= wal[i].lsn
BY TypeFacts DEF LogInv

(* The log grows by an fsync, with nothing appended; the readers' snapshot *)
(* may move up to the newest LSN of the group.                             *)
LEMMA FsyncStep ==
  ASSUME TypeOK, Parts, Open, Open', opts' = opts, Fsync(wal),
         UNCHANGED <<wal, datafile, super, max_lsn, pending_stable_lsn>>,
         \/ stable_lsn' = stable_lsn
         \/ stable_lsn' = Max2(stable_lsn, pending_stable_lsn),
         \A w \in Writer :
           \/ writer'[w] = writer[w]
           \/ /\ writer[w].pc = "await" /\ writer'[w].pc = "synced"
              /\ writer'[w].lsn = writer[w].lsn /\ writer[w].lsn \in Nat,
         \A k \in Key :
           \A e \in {memtable'[k], immutable'[k], flushing'[k]} :
             e \in {memtable[k], immutable[k], flushing[k], ReplayedTable[k],
                    NoEntry}
  PROVE  Parts'
<1>1. wal_synced' = Len(wal) /\ Len(wal) \in Nat /\ wal_synced <= Len(wal)
  BY TypeFacts DEF Fsync
<1>2. LogKept /\ SyncedKept
  BY <1>1, TypeFacts DEF LogKept, SyncedKept
<1>3. LogInv'
  BY DEF Parts, LogInv, Open
<1>4. TablesInv'
  BY <1>2, TablesMove DEF Parts
<1>5. WriteAhead'
  BY <1>2, WriteAheadStays DEF Parts
<1>6. \A l : l \in Nat /\ l <= max_lsn =>
        l <= super'.wal_lsn \/ \E i \in 1 .. wal_synced' : l <= wal'[i].lsn
  BY <1>1, LoggedUpTo DEF Parts
<1>7. \A l : DurableUpTo(l) =>
        l <= super'.wal_lsn \/ \E i \in 1 .. wal_synced' : l <= wal'[i].lsn
  BY <1>2, DurableStays
<1>8. pending_stable_lsn <= max_lsn /\ DurableUpTo(stable_lsn)
      /\ DurableUpTo(super.data_lsn) /\ \A w \in Writer : WriterInv(w)
  BY DEF Parts, StableInv
<1>9. DurableUpTo(stable_lsn)' /\ DurableUpTo(super.data_lsn)'
  <2>1. stable_lsn' \in {stable_lsn, pending_stable_lsn}
    BY DEF Max2
  <2>2. \/ stable_lsn' <= super'.wal_lsn
        \/ \E i \in 1 .. wal_synced' : stable_lsn' <= wal'[i].lsn
    BY <1>6, <1>7, <1>8, <2>1, TypeFacts
  <2> QED
    BY <1>7, <1>8, <2>2 DEF DurableUpTo
<1>10. ASSUME NEW w \in Writer
       PROVE  WriterInv(w)'
  <2>1. CASE writer'[w] = writer[w]
    BY <1>7, <1>8, <2>1 DEF WriterInv, DurableUpTo, Durability, SyncPath
  <2>2. CASE /\ writer[w].pc = "await" /\ writer'[w].pc = "synced"
             /\ writer'[w].lsn = writer[w].lsn /\ writer[w].lsn \in Nat
    <3>1. SyncPath /\ writer[w].lsn <= max_lsn
      BY <1>8, <2>2 DEF WriterInv
    <3> QED
      BY <1>6, <2>2, <3>1 DEF WriterInv, DurableUpTo, Durability, SyncPath
  <2> QED
    BY <2>1, <2>2
<1>11. StableInv'
  BY <1>8, <1>9, <1>10 DEF StableInv
<1> QED
  BY <1>3, <1>4, <1>5, <1>11 DEF Parts

(* A write of any durability.                                              *)
LEMMA WriteStep ==
  ASSUME TypeOK, Parts, Open, Open', opts' = opts,
         NEW k \in Key, NEW del \in BOOLEAN, AppendAndApply(k, del),
         UNCHANGED <<super, immutable, flushing, datafile>>,
         wal_synced' \in {wal_synced, Len(wal')},
         pending_stable_lsn' \in {pending_stable_lsn, max_lsn + 1},
         \/ stable_lsn' = stable_lsn
         \/ wal_synced' = Len(wal') /\ stable_lsn' \in {stable_lsn, pending_stable_lsn'},
         \A w \in Writer :
           \/ writer'[w] = writer[w]
           \/ /\ writer'[w].pc = "await" /\ writer'[w].lsn = max_lsn + 1
              /\ SyncPath
  PROVE  Parts'
<1> USE DEF Parts
<1>1. /\ LogInv' /\ TablesInv'
      /\ Len(wal') = Len(wal) + 1 /\ max_lsn' = max_lsn + 1
      /\ wal'[Len(wal')].lsn = max_lsn + 1
      /\ \A i \in 1 .. Len(wal) : wal'[i] = wal[i]
  <2>1. /\ LogInv /\ TablesInv
        /\ super' = super /\ immutable' = immutable /\ flushing' = flushing
    OBVIOUS
  <2> HIDE DEF Parts
  <2>2. /\ LogInv' /\ TablesInv'
        /\ Len(wal') = Len(wal) + 1 /\ max_lsn' = max_lsn + 1
        /\ wal'[Len(wal')] = [lsn |-> max_lsn + 1, key |-> k, del |-> del]
        /\ \A i \in 1 .. Len(wal) : wal'[i] = wal[i]
    BY <2>1, AppendStep
  <2> QED
    BY <2>2
<1>2. SyncedKept
  BY <1>1, TypeFacts DEF SyncedKept
<1>3. WriteAhead'
  BY <1>2, WriteAheadStays
<1>4. \A l : DurableUpTo(l) =>
        l <= super'.wal_lsn \/ \E i \in 1 .. wal_synced' : l <= wal'[i].lsn
  BY <1>2, DurableStays
<1>5. wal_synced' = Len(wal') => \A l : l \in Nat /\ l <= max_lsn + 1 =>
        \E i \in 1 .. wal_synced' : l <= wal'[i].lsn
  <2>1. Len(wal') \in 1 .. Len(wal')
    BY <1>1, TypeFacts
  <2> QED
    BY <1>1, <2>1
<1>6. pending_stable_lsn <= max_lsn /\ DurableUpTo(stable_lsn)
      /\ DurableUpTo(super.data_lsn) /\ \A w \in Writer : WriterInv(w)
  BY DEF StableInv
<1>7. pending_stable_lsn' <= max_lsn' /\ pending_stable_lsn' \in Nat
  BY <1>1, <1>6, TypeFacts
<1>8. DurableUpTo(stable_lsn)' /\ DurableUpTo(super.data_lsn)'
  <2>1. \/ stable_lsn' <= super'.wal_lsn
        \/ \E i \in 1 .. wal_synced' : stable_lsn' <= wal'[i].lsn
    BY <1>1, <1>4, <1>5, <1>6, <1>7
  <2> QED
    BY <1>4, <1>6, <2>1 DEF DurableUpTo
<1>9. ASSUME NEW w \in Writer
      PROVE  WriterInv(w)'
  <2>1. CASE writer'[w] = writer[w]
    <3>1. writer[w].pc = "await" => writer[w].lsn \in Nat
      <4>1. writer[w].pc = "await" => writer[w] # NoWrite
        BY DEF NoWrite
      <4> QED
        BY <4>1, TypeFacts DEF TypeOK
    <3>2. writer[w].pc = "await" => writer[w].lsn <= max_lsn'
      BY <1>1, <1>6, <3>1, TypeFacts DEF WriterInv
    <3> QED
      BY <1>4, <1>6, <2>1, <3>2 DEF WriterInv, DurableUpTo, Durability, SyncPath
  <2>2. CASE /\ writer'[w].pc = "await" /\ writer'[w].lsn = max_lsn + 1
             /\ SyncPath
    BY <1>1, <2>2, TypeFacts DEF WriterInv, Durability, SyncPath
  <2> QED
    BY <2>1, <2>2
<1>10. StableInv'
  BY <1>7, <1>8, <1>9 DEF StableInv
<1> QED
  BY <1>1, <1>3, <1>10
---------------------------------------------------------------------------
(* Each step keeps the parts of the invariant. *)

LEMMA WritesKeepParts ==
  ASSUME TypeOK, Parts, opts' = opts, Write
  PROVE  Parts'
<1> PICK k \in Key, del \in BOOLEAN :
      \/ \E w \in Writer : PutSyncFastAppend(w, k, del)
      \/ WriteAsync(k, del)
      \/ WriteGroup(k, del)
  BY DEF Write
<1>1. ASSUME NEW w \in Writer, PutSyncFastAppend(w, k, del)
      PROVE  Parts'
  <2>1. /\ Open /\ Open' /\ AppendAndApply(k, del) /\ SyncPath
        /\ UNCHANGED <<super, immutable, flushing, datafile, wal_synced,
                       pending_stable_lsn, stable_lsn>>
        /\ writer' = [writer EXCEPT ![w] =
                        [pc |-> "await", lsn |-> max_lsn + 1, key |-> k,
                         del |-> del]]
    BY <1>1 DEF PutSyncFastAppend, Open, control
  <2>2. \A v \in Writer :
          \/ writer'[v] = writer[v]
          \/ writer'[v].pc = "await" /\ writer'[v].lsn = max_lsn + 1
    BY <2>1 DEF TypeOK
  <2> QED
    BY <2>1, <2>2, WriteStep
<1>2. CASE WriteAsync(k, del)
  <2>1. /\ Open /\ Open' /\ AppendAndApply(k, del)
        /\ UNCHANGED <<super, immutable, flushing, datafile, wal_synced,
                       pending_stable_lsn, stable_lsn, writer>>
    BY <1>2 DEF WriteAsync, Open, control
  <2> QED
    BY <2>1, WriteStep
<1>3. CASE WriteGroup(k, del)
  <2>1. /\ Open /\ Open' /\ AppendAndApply(k, del)
        /\ UNCHANGED <<super, immutable, flushing, datafile, writer>>
        /\ pending_stable_lsn' = Max2(pending_stable_lsn, max_lsn + 1)
        /\ \/ Fsync(wal') /\ stable_lsn' = Max2(stable_lsn, pending_stable_lsn')
           \/ UNCHANGED <<wal_synced, stable_lsn>>
    BY <1>3 DEF WriteGroup, Open, control
  <2>2. pending_stable_lsn' \in {pending_stable_lsn, max_lsn + 1}
    BY <2>1 DEF Max2
  <2>3. \/ stable_lsn' = stable_lsn /\ wal_synced' = wal_synced
        \/ /\ wal_synced' = Len(wal')
           /\ stable_lsn' \in {stable_lsn, pending_stable_lsn'}
    BY <2>1 DEF Max2, Fsync
  <2> QED
    BY <2>1, <2>2, <2>3, WriteStep
<1> QED
  BY <1>1, <1>2, <1>3

LEMMA WriterStepsKeepParts ==
  ASSUME TypeOK, Parts, opts' = opts, WriterStep
  PROVE  Parts'
<1> PICK w \in Writer : AwaitFsync(w) \/ AwaitFails(w) \/ SetStable(w)
  BY DEF WriterStep
<1> USE DEF Parts
<1>0. \A v \in Writer : WriterInv(v)
  BY DEF StableInv
<1>1. CASE AwaitFsync(w)
  <2>1. /\ Open
        /\ Fsync(wal) /\ writer' = [writer EXCEPT ![w].pc = "synced"]
        /\ writer[w].pc = "await"
        /\ UNCHANGED <<wal, datafile, super, max_lsn, pending_stable_lsn,
                       stable_lsn, memtable, immutable, flushing, phase>>
    BY <1>0, <1>1 DEF AwaitFsync, WriterInv, lsns, tables, control
  <2>2. writer[w].lsn \in Nat
    <3>1. writer[w] # NoWrite
      BY <2>1 DEF NoWrite
    <3> QED
      BY <3>1, TypeFacts DEF TypeOK
  <2>3. \A v \in Writer :
          \/ writer'[v] = writer[v]
          \/ /\ writer[v].pc = "await" /\ writer'[v].pc = "synced"
             /\ writer'[v].lsn = writer[v].lsn /\ writer[v].lsn \in Nat
    <3>1. ASSUME NEW v \in Writer, v # w PROVE writer'[v] = writer[v]
      BY <2>1, <3>1 DEF TypeOK
    <3>2. /\ writer'[w].pc = "synced" /\ writer'[w].lsn = writer[w].lsn
      <4>1. /\ writer \in [Writer -> {NoWrite} \cup [pc : {"await", "synced"},
                                lsn : Lsn, key : Key, del : BOOLEAN]]
            /\ writer[w] # NoWrite
        BY <2>1 DEF TypeOK, NoWrite
      <4>2. /\ writer[w] \in [pc : {"await", "synced"}, lsn : Lsn, key : Key,
                             del : BOOLEAN]
            /\ writer'[w] = [writer[w] EXCEPT !.pc = "synced"]
        BY <2>1, <4>1
      <4> QED
        BY <4>2
    <3> QED
      BY <2>1, <2>2, <3>1, <3>2
  <2>4. Open'
    BY <2>1 DEF Open
  <2> HIDE DEF Parts
  <2> QED
    BY <2>1, <2>3, <2>4, FsyncStep
<1>2. ASSUME \/ AwaitFails(w)
             \/ SetStable(w)
      PROVE  Parts'
  <2>1. /\ Open /\ Open' /\ writer' = [writer EXCEPT ![w] = NoWrite]
        /\ UNCHANGED <<wal, wal_synced, datafile, super, max_lsn,
                       pending_stable_lsn, memtable, immutable, flushing>>
        /\ \/ stable_lsn' = stable_lsn
           \/ writer[w].pc = "synced" /\ stable_lsn' = writer[w].lsn
    BY <1>0, <1>2 DEF AwaitFails, SetStable, WriterInv, Open, disk, lsns,
                      tables, control
  <2>2. LogInv' /\ TablesInv'
    BY <2>1 DEF LogInv, TablesInv, Logged, Among, Open
  <2>3. WriteAhead'
    BY <2>1 DEF WriteAhead, Elements
  <2>4. \A v \in Writer : WriterInv(v)'
    BY <1>0, <2>1 DEF TypeOK, WriterInv, NoWrite, DurableUpTo, Durability, SyncPath
  <2>5. StableInv'
    BY <1>0, <2>1, <2>4 DEF StableInv, WriterInv, DurableUpTo
  <2> QED
    BY <2>2, <2>3, <2>5
<1> QED
  BY <1>1, <1>2

LEMMA GroupCommitKeepsParts ==
  ASSUME TypeOK, Parts, opts' = opts, GroupCommit
  PROVE  Parts'
<1>1. /\ Open /\ Open'
      /\ UNCHANGED <<wal, datafile, super, max_lsn, pending_stable_lsn,
                     memtable, immutable, flushing, writer>>
  BY DEF GroupCommit, Open, tables, control
<1>2. CASE pending_stable_lsn = 0
  <2>1. UNCHANGED <<wal_synced, stable_lsn>>
    BY <1>2 DEF GroupCommit
  <2> QED
    BY <1>1, <2>1, QuietStep
<1>3. CASE pending_stable_lsn # 0
  <2>1. Fsync(wal) /\ stable_lsn' = Max2(stable_lsn, pending_stable_lsn)
    BY <1>3 DEF GroupCommit
  <2> QED
    BY <1>1, <2>1, FsyncStep
<1> QED
  BY <1>2, <1>3

(* Only the replayed table, and what the other two hold, is rotated.       *)
LEMMA RotateMoves ==
  ASSUME RotateMemTableForFlush
  PROVE  \A k \in Key :
           \A e \in {memtable'[k], immutable'[k], flushing'[k]} :
             e \in {memtable[k], immutable[k], flushing[k], ReplayedTable[k],
                    NoEntry}
BY DEF RotateMemTableForFlush

LEMMA FlushBeginKeepsParts ==
  ASSUME TypeOK, Parts, opts' = opts, NEW checkpoint, FlushBegin(checkpoint)
  PROVE  Parts'
<1>1. /\ Open /\ Open' /\ RotateMemTableForFlush /\ Fsync(wal)
      /\ UNCHANGED <<wal, datafile, super, max_lsn, pending_stable_lsn, writer>>
      /\ \/ stable_lsn' = stable_lsn
         \/ stable_lsn' = Max2(stable_lsn, pending_stable_lsn)
  BY DEF FlushBegin, Open
<1> QED
  BY <1>1, RotateMoves, FsyncStep

(* The record appended to the data file is that of a table entry, and the  *)
(* whole log is fsynced.                                                   *)
LEMMA FlushRecordKeepsParts ==
  ASSUME TypeOK, Parts, PhaseInv, opts' = opts, NEW k \in Key, FlushRecord(k)
  PROVE  Parts'
<1> DEFINE e == flushing[k]
<1>1. /\ Open /\ Open' /\ phase = "flush"
      /\ datafile' = Append(datafile, RecordOf(k, e))
      /\ stable_lsn' \in {stable_lsn, Max2(stable_lsn, e.lsn)}
      /\ UNCHANGED <<wal, wal_synced, super, max_lsn, pending_stable_lsn,
                     writer, memtable, immutable, flushing>>
  BY DEF FlushRecord, Open, RecordOf, StableAfter, tables, ReturnError
<1>2. wal_synced = Len(wal)
  BY <1>1 DEF PhaseInv
<1>3. /\ e.lsn \in Nat /\ RecordOf(k, e) \in Record /\ RecordOf(k, e).lsn = e.lsn
      /\ datafile \in Seq(Record)
  <2>1. e \in Entry
    BY DEF TypeOK
  <2> QED
    BY <2>1, TypeFacts DEF Entry, Record, RecordOf, TypeOK
<1>4. \/ e.lsn <= super.wal_lsn
      \/ \E i \in 1 .. wal_synced : wal[i] = RecordOf(k, e)
  BY <1>2 DEF Parts, TablesInv, Logged, Among
<1> HIDE DEF e
<1>5. SyncedKept /\ LogKept
  BY <1>1, TypeFacts DEF SyncedKept, LogKept
<1>6. LogInv' /\ TablesInv'
  BY <1>1 DEF Parts, LogInv, TablesInv, Logged, Among, Open
<1>7. WriteAhead'
  <2>1. \A r \in Elements(datafile') :
          r \in Elements(datafile) \/ r = RecordOf(k, e)
    BY <1>1, <1>3 DEF Elements
  <2>2. WriteAhead
    BY DEF Parts
  <2>3. \A r \in Elements(datafile') :
          r.lsn <= super.wal_lsn \/ \E i \in 1 .. wal_synced : wal[i] = r
    BY <1>3, <1>4, <2>1, <2>2 DEF WriteAhead
  <2>4. Elements(datafile)' = Elements(datafile')
    BY DEF Elements
  <2> QED
    BY <1>1, <2>3, <2>4 DEF WriteAhead
<1>8. StableInv'
  <2>1. DurableUpTo(e.lsn)
    <3>1. CASE \E i \in 1 .. wal_synced : wal[i] = RecordOf(k, e)
      <4>1. PICK i \in 1 .. wal_synced : wal[i] = RecordOf(k, e)
        BY <3>1
      <4>2. e.lsn <= wal[i].lsn
        BY <1>3, <4>1
      <4> QED
        BY <4>2 DEF DurableUpTo
    <3> QED
      BY <1>4, <3>1 DEF DurableUpTo
  <2>2. DurableUpTo(stable_lsn')
    <3>1. stable_lsn' \in {stable_lsn, e.lsn} /\ DurableUpTo(stable_lsn)
      BY <1>1 DEF Max2, Parts, StableInv
    <3> QED
      BY <2>1, <3>1
  <2>3. \A w \in Writer : WriterInv(w)'
    BY <1>1 DEF Parts, StableInv, WriterInv, DurableUpTo, Open, Durability, SyncPath
  <2> QED
    BY <1>1, <2>2, <2>3 DEF Parts, StableInv, DurableUpTo
<1> QED
  BY <1>6, <1>7, <1>8 DEF Parts

LEMMA FlushKeepsParts ==
  ASSUME TypeOK, Parts, PhaseInv, opts' = opts, Flush
  PROVE  Parts'
<1>1. CASE \E checkpoint \in BOOLEAN : FlushBegin(checkpoint)
  BY <1>1, FlushBeginKeepsParts
<1>2. CASE FlushFsyncFails
  <2>1. /\ Open /\ Open' /\ RotateMemTableForFlush
        /\ UNCHANGED <<wal, wal_synced, datafile, super, max_lsn,
                       pending_stable_lsn, stable_lsn, writer>>
    BY <1>2 DEF FlushFsyncFails, Open, disk, control
  <2> QED
    BY <2>1, RotateMoves, QuietStep
<1>3. CASE \E k \in Key : FlushRecord(k)
  BY <1>3, FlushRecordKeepsParts
<1>4. CASE FlushRecordFails
  <2>1. /\ Open /\ Open'
        /\ UNCHANGED <<wal, wal_synced, datafile, super, max_lsn,
                       pending_stable_lsn, stable_lsn, writer, memtable,
                       immutable, flushing>>
    BY <1>4 DEF FlushRecordFails, ReturnError, Open, disk, lsns, tables
  <2> QED
    BY <2>1, QuietStep
<1>5. CASE FlushEnd
  <2>1. /\ Open /\ Open' /\ flushing' = EmptyTable
        /\ UNCHANGED <<wal, wal_synced, datafile, super, max_lsn,
                       pending_stable_lsn, stable_lsn, writer, memtable,
                       immutable>>
    BY <1>5 DEF FlushEnd, ClearFrozen, Open, lsns
  <2> QED
    BY <2>1, QuietStep DEF EmptyTable
<1> QED
  BY <1>1, <1>2, <1>3, <1>4, <1>5 DEF Flush

(* A new superblock takes over the newest LSN: nothing is above it.        *)
LEMMA NewSuperKeepsParts ==
  ASSUME TypeOK, Parts, Open, Open', opts' = opts, super' = NextSuper,
         UNCHANGED <<wal, wal_synced, datafile, max_lsn, pending_stable_lsn,
                     stable_lsn, writer, memtable, immutable, flushing>>
  PROVE  Parts'
<1>1. /\ super'.wal_lsn = max_lsn /\ super'.data_lsn = stable_lsn
      /\ super.wal_lsn <= max_lsn
  BY DEF NextSuper, Parts, LogInv
<1>2. LogInv'
  BY <1>1, TypeFacts DEF Parts, LogInv, Open
<1>3. \A l \in Nat : l <= super.wal_lsn => l <= super'.wal_lsn
  BY <1>1, TypeFacts
<1>4. TablesInv'
  <2>1. ASSUME NEW k \in Key, NEW e \in Entry, Logged(k, e)
        PROVE  \/ e.lsn <= super'.wal_lsn
               \/ \E i \in 1 .. Len(wal) : wal[i] = RecordOf(k, e)
    <3>1. e.lsn \in Nat
      BY TypeFacts DEF Entry
    <3> QED
      BY <1>3, <2>1, <3>1 DEF Logged, Among
  <2>2. \A k \in Key : /\ memtable[k] \in Entry /\ immutable[k] \in Entry
                       /\ flushing[k] \in Entry
    BY DEF TypeOK
  <2>3. ASSUME NEW k \in Key
        PROVE  /\ Logged(k, memtable[k])'
               /\ Logged(k, immutable[k])'
               /\ Logged(k, flushing[k])'
    BY <2>1, <2>2 DEF Parts, TablesInv, Logged, Among, RecordOf
  <2> QED
    BY <2>3 DEF TablesInv
<1>5. WriteAhead'
  <2>1. ASSUME NEW r \in Elements(datafile)
        PROVE  \/ r.lsn <= super'.wal_lsn
               \/ \E i \in 1 .. wal_synced : wal[i] = r
    <3>1. r.lsn \in Nat
      <4>1. datafile \in Seq(Record)
        BY DEF TypeOK
      <4>2. r \in Record
        BY <4>1 DEF Elements
      <4> QED
        BY <4>2, TypeFacts DEF Record
    <3> QED
      BY <1>3, <3>1 DEF Parts, WriteAhead
  <2> QED
    BY <2>1 DEF WriteAhead, Elements
<1>6. StableInv'
  <2>1. ASSUME NEW l \in Nat, DurableUpTo(l)
        PROVE  \/ l <= super'.wal_lsn
               \/ \E i \in 1 .. wal_synced : l <= wal[i].lsn
    BY <1>3, <2>1 DEF DurableUpTo
  <2>2. DurableUpTo(stable_lsn)' /\ DurableUpTo(super.data_lsn)'
    BY <1>1, <2>1, TypeFacts DEF Parts, StableInv, DurableUpTo
  <2>3. ASSUME NEW w \in Writer
        PROVE  WriterInv(w)'
    <3>1. writer[w].pc = "synced" => writer[w].lsn \in Nat
      <4>1. writer[w].pc = "synced" => writer[w] # NoWrite
        BY DEF NoWrite
      <4> QED
        BY <4>1, TypeFacts DEF TypeOK
    <3> QED
      BY <2>1, <3>1 DEF Parts, StableInv, WriterInv, DurableUpTo, Durability, SyncPath
  <2> QED
    BY <2>2, <2>3 DEF Parts, StableInv
<1> QED
  BY <1>2, <1>4, <1>5, <1>6 DEF Parts

(* The truncated log is empty: the superblock is at the newest LSN.        *)
LEMMA TruncateEmpties ==
  ASSUME TypeOK, LogInv, PhaseInv, TruncateTo
  PROVE  /\ wal' = <<>> /\ wal_synced' = 0 /\ max_lsn' = max_lsn
         /\ super.wal_lsn = max_lsn
<1>1. super.wal_lsn = max_lsn /\ sb = super /\ Open
  BY DEF TruncateTo, PhaseInv, Open
<1>2. \A i \in 1 .. Len(wal) : wal[i].lsn <= sb.wal_lsn
  BY <1>1 DEF LogInv
<1>3. Above(wal, sb.wal_lsn) = <<>>
  BY <1>2, TypeFacts, AboveIs
<1> QED
  BY <1>1, <1>3, TypeFacts DEF TruncateTo, RewriteLog, Max2

LEMMA TruncateKeepsParts ==
  ASSUME TypeOK, Parts, PhaseInv, opts' = opts, TruncateTo
  PROVE  Parts'
<1>1. /\ wal' = <<>> /\ wal_synced' = 0 /\ max_lsn' = max_lsn
      /\ super.wal_lsn = max_lsn
  BY TruncateEmpties DEF Parts
<1>2. /\ Open /\ Open'
      /\ UNCHANGED <<super, datafile, pending_stable_lsn, stable_lsn, writer,
                     memtable, immutable, flushing>>
  BY DEF TruncateTo, Open, tables
<1>3. Len(wal') = 0
  BY <1>1
<1>4. LogInv'
  BY <1>1, <1>2, <1>3, TypeFacts DEF LogInv, Open
<1>5. \A i \in 1 .. Len(wal) : wal[i].lsn <= super'.wal_lsn
  BY <1>1, <1>2 DEF Parts, LogInv
<1>6. TablesInv'
  <2>1. ASSUME NEW k \in Key, NEW e, Logged(k, e)
        PROVE  e.lsn <= super'.wal_lsn
    <3>1. CASE Among(RecordOf(k, e), Len(wal))
      BY <1>5, <3>1 DEF Among, RecordOf
    <3> QED
      BY <1>2, <2>1, <3>1 DEF Logged
  <2> QED
    BY <1>2, <2>1 DEF Parts, TablesInv, Logged
<1>7. WriteAhead'
  <2>1. ASSUME NEW r \in Elements(datafile)
        PROVE  r.lsn <= super'.wal_lsn
    <3>1. CASE \E i \in 1 .. wal_synced : wal[i] = r
      BY <1>5, <3>1, TypeFacts
    <3> QED
      BY <1>2, <3>1 DEF Parts, WriteAhead
  <2> QED
    BY <1>2, <2>1 DEF WriteAhead, Elements
<1>8. StableInv'
  <2>1. ASSUME NEW l \in Nat, DurableUpTo(l)
        PROVE  l <= super'.wal_lsn
    BY <1>2, <1>5, <2>1, TypeFacts DEF DurableUpTo
  <2>2. ASSUME NEW w \in Writer
        PROVE  WriterInv(w)'
    <3>1. writer[w].pc = "synced" => writer[w].lsn \in Nat
      <4>1. writer[w].pc = "synced" => writer[w] # NoWrite
        BY DEF NoWrite
      <4> QED
        BY <4>1, TypeFacts DEF TypeOK
    <3> QED
      BY <1>1, <1>2, <2>1, <3>1
         DEF Parts, StableInv, WriterInv, DurableUpTo, Durability, SyncPath
  <2> QED
    BY <1>1, <1>2, <2>1, <2>2, TypeFacts DEF Parts, StableInv, DurableUpTo
<1> QED
  BY <1>4, <1>6, <1>7, <1>8 DEF Parts

LEMMA CheckpointKeepsParts ==
  ASSUME TypeOK, Parts, PhaseInv, opts' = opts, Checkpoint
  PROVE  Parts'
<1>1. CASE CommitSuperBlock /\ committed # NoRoot
  <2>1. /\ Open /\ Open' /\ super' = NextSuper
        /\ UNCHANGED <<wal, wal_synced, datafile, max_lsn, pending_stable_lsn,
                       stable_lsn, writer, memtable, immutable, flushing>>
    BY <1>1 DEF CommitSuperBlock, Open, tables
  <2> QED
    BY <2>1, NewSuperKeepsParts
<1>2. CASE TruncateTo
  BY <1>2, TruncateKeepsParts
<1>3. ASSUME \/ FoldWalToVcs
             \/ CommitSuperBlock /\ committed = NoRoot
             \/ CommitSuperBlockFails
             \/ SaveLsnIndexSidecar
             \/ SaveVcsSidecar
      PROVE  Parts'
  <2>1. /\ Open /\ Open'
        /\ UNCHANGED <<wal, wal_synced, datafile, super, max_lsn,
                       pending_stable_lsn, stable_lsn, writer, memtable,
                       immutable, flushing>>
    BY <1>3 DEF FoldWalToVcs, CommitSuperBlock, CommitSuperBlockFails,
                SaveLsnIndexSidecar, SaveVcsSidecar, ReturnError, Open, disk,
                lsns, tables
  <2> QED
    BY <2>1, QuietStep
<1> QED
  BY <1>1, <1>2, <1>3 DEF Checkpoint

(* The prefixes a crash leaves. *)
LEMMA CrashLeaves ==
  ASSUME TypeOK, Crash
  PROVE  /\ Len(wal') \in wal_synced .. Len(wal) /\ wal' \in Seq(Record)
         /\ \A i \in 1 .. Len(wal') : wal'[i] = wal[i]
         /\ wal_synced' = wal_synced
         /\ Len(datafile') \in datafile_flushed .. Len(datafile)
         /\ datafile' \in Seq(Record)
         /\ \A i \in 1 .. Len(datafile') : datafile'[i] = datafile[i]
         /\ datafile_flushed' = Len(datafile')
<1>1. PICK n \in wal_synced .. Len(wal) : wal' = SubSeq(wal, 1, n)
  BY DEF Crash
<1>2. PICK m \in datafile_flushed .. Len(datafile) :
        datafile' = SubSeq(datafile, 1, m) /\ datafile_flushed' = m
  BY DEF Crash
<1>3. /\ wal \in Seq(Record) /\ Len(wal) \in Nat
      /\ datafile \in Seq(Record) /\ Len(datafile) \in Nat
      /\ wal_synced \in 0 .. Len(wal)
      /\ datafile_flushed \in 0 .. Len(datafile)
  BY DEF TypeOK
<1>4. /\ n \in 0 .. Len(wal) /\ m \in 0 .. Len(datafile)
  BY <1>3
<1>5. /\ Len(wal') = n /\ wal' \in Seq(Record)
      /\ \A i \in 1 .. n : wal'[i] = wal[i]
  BY <1>1, <1>3, <1>4
<1>6. /\ Len(datafile') = m /\ datafile' \in Seq(Record)
      /\ \A i \in 1 .. m : datafile'[i] = datafile[i]
  BY <1>2, <1>3, <1>4
<1>7. wal_synced' = wal_synced
  BY DEF Crash
<1> QED
  BY <1>2, <1>5, <1>6, <1>7

LEMMA CrashKeepsParts ==
  ASSUME TypeOK, Parts, opts' = opts, Crash
  PROVE  Parts'
<1>1. /\ Len(wal') \in wal_synced .. Len(wal)
      /\ \A i \in 1 .. Len(wal') : wal'[i] = wal[i]
      /\ wal_synced' = wal_synced
      /\ Len(datafile') \in datafile_flushed .. Len(datafile)
      /\ \A i \in 1 .. Len(datafile') : datafile'[i] = datafile[i]
  BY CrashLeaves
<1>2. /\ ~Open' /\ super' = super
      /\ max_lsn' = 0 /\ stable_lsn' = 0 /\ pending_stable_lsn' = 0
      /\ memtable' = EmptyTable /\ immutable' = EmptyTable
      /\ flushing' = EmptyTable /\ writer' = [w \in Writer |-> NoWrite]
  BY DEF Crash, LoseMemory, Open
<1>3. \A i \in 1 .. Len(wal') : i \in 1 .. Len(wal)
  BY <1>1, TypeFacts
<1>4. LogInv'
  BY <1>1, <1>2, <1>3 DEF Parts, LogInv
<1>5. TablesInv'
  BY <1>2, TypeFacts DEF TablesInv, Logged, EmptyTable, NoEntry
<1>6. \A i \in 1 .. wal_synced : wal'[i] = wal[i]
  BY <1>1, TypeFacts
<1>7. SyncedKept
  BY <1>1, <1>2, <1>6, TypeFacts DEF SyncedKept
<1>8. WriteAhead'
  <2>1. \A r \in Elements(datafile') : r \in Elements(datafile)
    <3>1. datafile_flushed \in Nat /\ Len(datafile) \in Nat
      BY DEF TypeOK
    <3>2. \A i \in 1 .. Len(datafile') : i \in 1 .. Len(datafile)
      BY <1>1, <3>1
    <3> QED
      BY <1>1, <3>2 DEF Elements
  <2>2. \A r \in Elements(datafile') :
          \/ r.lsn <= super'.wal_lsn
          \/ \E i \in 1 .. wal_synced' : wal'[i] = r
    BY <1>1, <1>2, <1>6, <2>1 DEF Parts, WriteAhead
  <2> QED
    BY <2>2 DEF WriteAhead, Elements
<1>9. StableInv'
  <2>1. DurableUpTo(super.data_lsn)' /\ DurableUpTo(stable_lsn)'
    BY SMTT(20), <1>2, <1>7, DurableStays, TypeFacts DEF Parts, StableInv, DurableUpTo
  <2>2. \A w \in Writer : WriterInv(w)'
    BY <1>2 DEF WriterInv, NoWrite
  <2> QED
    BY <1>2, <2>1, <2>2 DEF StableInv
<1> QED
  BY <1>4, <1>5, <1>8, <1>9 DEF Parts

(* The counter after a restart is the largest LSN of the log and the       *)
(* superblock.                                                             *)
LEMMA RestartCounter ==
  ASSUME TypeOK
  PROVE  LET n == EnsureMinLsn(RebuildKeyIndex(wal), super.wal_lsn)
         IN  /\ n \in Lsn /\ super.wal_lsn <= n
             /\ RebuildKeyIndex(wal) \in Lsn
             /\ \A i \in 1 .. Len(wal) : wal[i].lsn <= RebuildKeyIndex(wal)
             /\ \A i \in 1 .. Len(wal) : wal[i].lsn <= n
             /\ n = super.wal_lsn \/ \E i \in 1 .. Len(wal) : wal[i].lsn = n
<1> DEFINE S == {r.lsn : r \in Elements(wal)}
           m == MaxOf(S)
           n == EnsureMinLsn(m, super.wal_lsn)
<1>1. \A l \in S : \E i \in 1 .. Len(wal) : wal[i].lsn = l
  BY DEF Elements
<1>2. \A i \in 1 .. Len(wal) : wal[i].lsn \in S
  BY DEF Elements
<1>3. S \in SUBSET (0 .. MaxLsn) /\ MaxLsn \in Nat
  BY <1>1, BoundsOK, TypeFacts DEF Lsn
<1> HIDE DEF S
<1>4. /\ m \in 0 .. MaxLsn /\ \A l \in S : l <= m
      /\ S # {} => m \in S
      /\ S = {} => m = 0
  BY <1>3, MaxOfIsGreatest
<1> HIDE DEF m
<1>5. m \in Nat /\ super.wal_lsn \in Nat /\ super.wal_lsn \in Lsn /\ m \in Lsn
  BY <1>3, <1>4, TypeFacts DEF Lsn
<1>6. /\ n \in {m, super.wal_lsn} /\ m <= n /\ super.wal_lsn <= n
      /\ n = m \/ n = super.wal_lsn
  BY <1>5 DEF EnsureMinLsn, Max2
<1> HIDE DEF n
<1>7. n = super.wal_lsn \/ \E i \in 1 .. Len(wal) : wal[i].lsn = n
  <2>1. CASE S = {}
    BY <1>4, <1>5, <1>6, <2>1
  <2>2. CASE S # {}
    BY <1>1, <1>4, <1>6, <2>2
  <2> QED
    BY <2>1, <2>2
<1>8. \A i \in 1 .. Len(wal) : wal[i].lsn <= m /\ wal[i].lsn <= n
  BY <1>2, <1>4, <1>5, <1>6, TypeFacts
<1> QED
  BY <1>5, <1>6, <1>7, <1>8 DEF m, n, S, RebuildKeyIndex

LEMMA OpenKeepsParts ==
  ASSUME TypeOK, Parts, opts' = opts, OpenInternal
  PROVE  Parts'
<1>1. /\ ~Open /\ Open'
      /\ max_lsn' = EnsureMinLsn(RebuildKeyIndex(wal), super.wal_lsn)
      /\ stable_lsn' = super.data_lsn
      /\ UNCHANGED <<wal, wal_synced, datafile, super, immutable, flushing,
                     pending_stable_lsn, writer>>
      /\ \/ memtable' = memtable
         \/ memtable' = ReplayPending(memtable, wal, super.wal_lsn)
  BY DEF OpenInternal, RecoverFromSuperBlock, Open, disk
<1>2. LogInv'
  BY <1>1, RestartCounter DEF Parts, LogInv
<1>3. TablesInv'
  <2>1. ASSUME NEW k \in Key
        PROVE  Logged(k, memtable'[k])
    <3>1. Logged(k, memtable[k])
      BY DEF Parts, TablesInv
    <3>2. CASE memtable'[k] # memtable[k]
      <4>1. /\ memtable' = ReplayPending(memtable, wal, super.wal_lsn)
            /\ memtable \in [Key -> Entry]
        BY <1>1, <3>2 DEF TypeOK
      <4>2. /\ memtable'[k] = LastAbove(wal, k, super.wal_lsn)
            /\ LastAbove(wal, k, super.wal_lsn) # NoEntry
        BY <3>2, <4>1, ReplayIs, TypeFacts
      <4>3. PICK i \in 1 .. Len(wal) :
              /\ wal[i] \in Record /\ wal[i].key = k
              /\ memtable'[k] = EntryOf(wal[i])
        BY <4>2, LastAboveIsLast, TypeFacts
      <4>4. RecordOf(k, memtable'[k]) = wal[i]
        BY <4>3, RecordOfEntry
      <4> QED
        BY <4>4 DEF Logged, Among
    <3> QED
      BY <3>1, <3>2
  <2> QED
    BY <1>1, <2>1 DEF Parts, TablesInv, Logged, Among
<1>4. WriteAhead'
  BY <1>1 DEF Parts, WriteAhead, Elements
<1>5. StableInv'
  <2>1. \A w \in Writer : WriterInv(w)'
    BY <1>1 DEF Parts, StableInv, WriterInv
  <2>2. pending_stable_lsn' <= max_lsn'
    <3>1. pending_stable_lsn = 0
      BY <1>1 DEF Parts, StableInv
    <3> QED
      BY <1>1, <3>1, RestartCounter, TypeFacts
  <2> QED
    BY <1>1, <2>1, <2>2 DEF Parts, StableInv, DurableUpTo
<1> QED
  BY <1>2, <1>3, <1>4, <1>5 DEF Parts

(* A read finds an LSN, or 0. *)
LEMMA VisibleIsNat ==
  ASSUME TypeOK, NEW active \in [Key -> Entry], NEW k \in Key
  PROVE  ReadVisible(active, k) \in Nat /\ ReadFromDisk(k) \in Nat
<1> DEFINE e == LookupMemTable(active, k)
           seen(lsn) == lsn > 0 /\ (stable_lsn = 0 \/ lsn <= stable_lsn)
<1>1. e \in Entry
  BY DEF LookupMemTable, TypeOK
<1>2. committed[k] \in Nat /\ btree[k] \in Nat
  BY TypeFacts DEF TypeOK
<1>3. Floor(k, stable_lsn) \in Nat
  <2>1. {l \in vcs[k] : l <= stable_lsn} \in SUBSET (0 .. MaxLsn)
    BY DEF TypeOK, Lsn
  <2>2. MaxLsn \in Nat
    BY BoundsOK
  <2>3. MaxOf({l \in vcs[k] : l <= stable_lsn}) \in 0 .. MaxLsn
    BY <2>1, <2>2, MaxOfIsGreatest
  <2> QED
    BY <2>3 DEF Floor
<1>4. \A l \in Nat : ReadByLsn(l) \in Nat
  BY DEF ReadByLsn
<1>5. ReadVisible(active, k) =
        CASE e # NoEntry -> IF e.del THEN 0 ELSE e.lsn
          [] e = NoEntry /\ seen(committed[k]) -> committed[k]
          [] e = NoEntry /\ ~seen(committed[k]) /\ seen(btree[k]) ->
               ReadByLsn(btree[k])
          [] OTHER -> ReadByLsn(Floor(k, stable_lsn))
  BY DEF ReadVisible
<1>6. e.lsn \in Nat
  BY <1>1, TypeFacts DEF Entry
<1> HIDE DEF e, seen
<1>7. ReadVisible(active, k) \in Nat
  BY <1>2, <1>3, <1>4, <1>5, <1>6
<1>8. ReadFromDisk(k) \in Nat
  BY <1>2, <1>4 DEF ReadFromDisk
<1> QED
  BY <1>7, <1>8

LEMMA RestoredType ==
  ASSUME TypeOK, NEW k \in Key
  PROVE  Restored(k) \in [Key -> Entry]
<1>1. LastAbove(wal, k, sb.wal_lsn) \in Entry
  BY TypeFacts, LastAboveIsLast
<1> QED
  BY <1>1 DEF Restored, TypeOK

(* A read changes the memtable only, and only by restoring from the log.   *)
LEMMA ReadMoves ==
  ASSUME TypeOK, Read
  PROVE  /\ phase = "idle" /\ wal_replay_pending
         /\ \/ memtable' = memtable /\ wal_replay_pending' = TRUE
            \/ memtable' = ReplayedTable /\ wal_replay_pending' = FALSE
            \/ \E k \in Key : /\ LastAbove(wal, k, sb.wal_lsn) # NoEntry
                              /\ memtable' = Restored(k)
                              /\ wal_replay_pending' = TRUE
         /\ UNCHANGED <<disk, immutable, flushing, index, max_lsn, sb,
                        stable_lsn, pending_stable_lsn, puts_since_commit,
                        control, writer, crashes, faults, acked, group_acked>>
<1>1. CASE Scan
  BY <1>1 DEF Scan
<1>2. ASSUME NEW k \in Key, GetMiss(k)
      PROVE  /\ phase = "idle" /\ wal_replay_pending
             /\ \/ memtable' = memtable /\ wal_replay_pending' = TRUE
                \/ memtable' = ReplayedTable /\ wal_replay_pending' = FALSE
                \/ /\ LastAbove(wal, k, sb.wal_lsn) # NoEntry
                   /\ memtable' = Restored(k) /\ wal_replay_pending' = TRUE
             /\ UNCHANGED <<disk, immutable, flushing, index, max_lsn, sb,
                            stable_lsn, pending_stable_lsn, puts_since_commit,
                            control, writer, crashes, faults, acked,
                            group_acked>>
  <2> DEFINE seen == ReadVisible(memtable, k)
             one == IF RestoresOneKey(k) THEN ReadVisible(Restored(k), k) ELSE 0
             old == IF RestoresOneKey(k) THEN 0 ELSE ReadFromDisk(k)
             all == ReadVisible(ReplayedTable, k)
  <2>1. /\ phase = "idle" /\ wal_replay_pending /\ seen = 0
        /\ memtable' = Get(k).table /\ wal_replay_pending' = Get(k).pending
        /\ UNCHANGED <<disk, immutable, flushing, index, max_lsn, sb,
                       stable_lsn, pending_stable_lsn, puts_since_commit,
                       control, writer, crashes, faults, acked, group_acked>>
    BY <1>2 DEF GetMiss
  <2>2. Get(k) =
          CASE seen > 0 -> Got(seen, memtable, wal_replay_pending)
            [] seen = 0 /\ one > 0 -> Got(one, Restored(k), TRUE)
            [] seen = 0 /\ old > 0 -> Got(old, memtable, wal_replay_pending)
            [] seen = 0 /\ one = 0 /\ old = 0 ->
                 IF wal_replay_pending
                   THEN Got(IF all > 0 THEN all ELSE ReadFromDisk(k),
                            ReplayedTable, FALSE)
                   ELSE Got(0, memtable, FALSE)
    BY DEF Get
  <2>3. one # 0 => LastAbove(wal, k, sb.wal_lsn) # NoEntry
    <3>1. SUFFICES ASSUME RestoresOneKey(k), LastAbove(wal, k, sb.wal_lsn) = NoEntry
                   PROVE  FALSE
      OBVIOUS
    <3>2. btree[k] \in Nat /\ btree[k] > 0 /\ 0 > btree[k]
      BY <3>1, TypeFacts DEF RestoresOneKey, NoEntry, TypeOK
    <3> QED
      BY <3>2
  <2>4. one \in Nat /\ old \in Nat
    BY RestoredType, VisibleIsNat
  <2>5. one = 0 \/ old = 0
    OBVIOUS
  <2>6. wal_replay_pending = TRUE
    BY <2>1 DEF TypeOK
  <2> HIDE DEF seen, one, old, all
  <2> QED
    BY <2>1, <2>2, <2>3, <2>4, <2>5, <2>6 DEF Got
<1> QED
  BY <1>1, <1>2 DEF Read

LEMMA ReadKeepsParts ==
  ASSUME TypeOK, Parts, opts' = opts, Read \/ RecoverFull
  PROVE  Parts'
<1>1. CASE RecoverFull
  <2>1. /\ Open /\ Open'
        /\ UNCHANGED <<wal, wal_synced, datafile, super, max_lsn,
                       pending_stable_lsn, stable_lsn, writer, memtable,
                       immutable, flushing>>
    BY <1>1 DEF RecoverFull, Open, disk, tables, control
  <2> QED
    BY <2>1, QuietStep
<1>2. CASE Read
  <2>1. /\ Open /\ Open'
        /\ UNCHANGED <<wal, wal_synced, datafile, super, max_lsn,
                       pending_stable_lsn, stable_lsn, writer, immutable,
                       flushing>>
    BY <1>2, ReadMoves DEF Open, disk, control
  <2>2. CASE memtable' \in {memtable, ReplayedTable}
    BY <2>1, <2>2, QuietStep
  <2>3. ASSUME NEW k \in Key, LastAbove(wal, k, sb.wal_lsn) # NoEntry,
               memtable' = Restored(k), wal_replay_pending
        PROVE  Parts'
    <3>1. \A j \in Key : memtable'[j] \in {memtable[j], ReplayedTable[j]}
      <4>1. memtable \in [Key -> Entry]
        BY DEF TypeOK
      <4>2. ReplayedTable[k] = LastAbove(wal, k, sb.wal_lsn)
        BY <2>3, <4>1, ReplayIs, TypeFacts DEF ReplayedTable
      <4> QED
        BY <2>3, <4>1, <4>2 DEF Restored
    <3> QED
      BY <2>1, <3>1, QuietStep
  <2> QED
    BY <1>2, <2>2, <2>3, ReadMoves
<1> QED
  BY <1>1, <1>2

LEMMA NextKeepsParts ==
  ASSUME TypeOK, Parts, PhaseInv, Next
  PROVE  Parts'
<1>1. opts' = opts
  BY DEF Next
<1>2. \/ Write \/ WriterStep \/ GroupCommit \/ Flush \/ Checkpoint \/ Read
      \/ RecoverFull \/ Crash \/ OpenInternal
  BY DEF Next
<1> QED
  BY <1>1, <1>2, WritesKeepParts, WriterStepsKeepParts, GroupCommitKeepsParts,
     FlushKeepsParts, CheckpointKeepsParts, ReadKeepsParts, CrashKeepsParts,
     OpenKeepsParts

LEMMA NextKeepsPhase ==
  ASSUME TypeOK, PhaseInv, Next
  PROVE  PhaseInv'
<1>1. CASE Write
  <2>1. phase = "idle" /\ phase' = "idle"
    BY <1>1 DEF Write, PutSyncFastAppend, WriteAsync, WriteGroup, control
  <2> QED
    BY <2>1 DEF PhaseInv
<1>2. CASE WriterStep
  <2>1. /\ phase' = phase /\ UNCHANGED <<wal, sb, super, max_lsn>>
        /\ wal_synced' = wal_synced \/ wal_synced' = Len(wal)
    BY <1>2 DEF WriterStep, AwaitFsync, AwaitFails, SetStable, Fsync, control,
                disk, lsns
  <2> QED
    BY <2>1 DEF PhaseInv
<1>3. CASE GroupCommit
  <2>1. phase = "idle" /\ phase' = "idle"
    BY <1>3 DEF GroupCommit, control
  <2> QED
    BY <2>1 DEF PhaseInv
<1>4. CASE Flush
  <2>1. CASE \E checkpoint \in BOOLEAN : FlushBegin(checkpoint)
    <3>1. phase' = "flush" /\ wal_synced' = Len(wal) /\ wal' = wal
      BY <2>1 DEF FlushBegin, Fsync
    <3> QED
      BY <3>1 DEF PhaseInv
  <2>2. ASSUME \/ FlushFsyncFails
               \/ FlushRecordFails
        PROVE  PhaseInv'
    <3>1. phase' = "idle"
      BY <2>2 DEF FlushFsyncFails, FlushRecordFails, ReturnError, control
    <3> QED
      BY <3>1 DEF PhaseInv
  <2>3. ASSUME \/ \E k \in Key : FlushRecord(k)
               \/ FlushEnd
        PROVE  PhaseInv'
    <3>1. /\ phase = "flush" /\ phase' \in {"flush", "fold", "idle"}
          /\ UNCHANGED <<wal, wal_synced>>
      BY <2>3 DEF FlushRecord, FlushEnd, ReturnError
    <3> QED
      BY <3>1 DEF PhaseInv
  <2> QED
    BY <1>4, <2>1, <2>2, <2>3 DEF Flush
<1>5. CASE Checkpoint
  <2>1. CASE FoldWalToVcs
    <3>1. /\ phase = "fold" /\ phase' = "superblock"
          /\ UNCHANGED <<wal, wal_synced>>
      BY <2>1 DEF FoldWalToVcs, disk
    <3> QED
      BY <3>1 DEF PhaseInv
  <2>2. CASE CommitSuperBlock
    <3>1. /\ phase = "superblock"
          /\ UNCHANGED <<wal, wal_synced, max_lsn>>
          /\ \/ phase' = "idle"
             \/ phase' = "didx" /\ sb' = NextSuper /\ super' = NextSuper
      BY <2>2 DEF CommitSuperBlock, ReturnError
    <3> QED
      BY <3>1 DEF PhaseInv, NextSuper
  <2>3. ASSUME \/ CommitSuperBlockFails
               \/ TruncateTo
        PROVE  PhaseInv'
    <3>1. phase' = "idle"
      BY <2>3 DEF CommitSuperBlockFails, TruncateTo, ReturnError
    <3> QED
      BY <3>1 DEF PhaseInv
  <2>4. ASSUME \/ SaveLsnIndexSidecar
               \/ SaveVcsSidecar
        PROVE  PhaseInv'
    <3>1. /\ phase \in {"didx", "vidx"} /\ phase' \in {"vidx", "truncate"}
          /\ UNCHANGED <<wal, wal_synced, sb, super, max_lsn>>
      BY <2>4 DEF SaveLsnIndexSidecar, SaveVcsSidecar, lsns
    <3> QED
      BY <3>1 DEF PhaseInv
  <2> QED
    BY <1>5, <2>1, <2>2, <2>3, <2>4 DEF Checkpoint
<1>6. ASSUME \/ Read
             \/ RecoverFull
             \/ Crash
             \/ OpenInternal
      PROVE  PhaseInv'
  <2>1. phase' \in {"idle", "down"}
    BY <1>6, ReadMoves DEF RecoverFull, Crash, LoseMemory, OpenInternal, control
  <2> QED
    BY <2>1 DEF PhaseInv
<1> QED
  BY <1>1, <1>2, <1>3, <1>4, <1>5, <1>6 DEF Next
---------------------------------------------------------------------------
(* Types. *)

LEMMA ConstantTypes ==
  /\ 0 \in Lsn /\ NoEntry \in Entry /\ EmptyTable \in [Key -> Entry]
  /\ NoRoot \in [Key -> Lsn] /\ NoSidecar \in [Key -> SUBSET Lsn]
<1>1. 0 \in Lsn
  BY BoundsOK DEF Lsn
<1>2. NoEntry \in Entry
  BY <1>1 DEF NoEntry, Entry
<1> QED
  BY <1>1, <1>2 DEF EmptyTable, NoRoot, NoSidecar

LEMMA Max2Type ==
  \A a, b : /\ a \in Lsn /\ b \in Lsn => Max2(a, b) \in Lsn
            /\ Max2(a, b) \in {a, b}
BY DEF Max2

(* What a load comes to is the file, if no tear is in the way.             *)
LEMMA ReachedIs ==
  ASSUME NEW file \in Seq(Record)
  PROVE  /\ Reached(file) \in Seq(Record)
         /\ tears = {} => Reached(file) = file
<1> DEFINE at == {i \in 0 .. Len(file) : \A t \in tears : i <= t}
           n == MaxOf(at)
<1>1. Len(file) \in Nat /\ at \in SUBSET (0 .. Len(file))
  OBVIOUS
<1>2. /\ n \in 0 .. Len(file)
      /\ \A i \in at : i <= n
  BY <1>1, MaxOfIsGreatest
<1>3. Reached(file) = SubSeq(file, 1, n)
  BY DEF Reached
<1>4. tears = {} => n = Len(file)
  <2>1. tears = {} => Len(file) \in at
    BY <1>1
  <2> HIDE DEF at
  <2> QED
    BY <1>1, <1>2, <2>1
<1> HIDE DEF n
<1>5. SubSeq(file, 1, n) \in Seq(Record)
  BY <1>1, <1>2
<1>6. n = Len(file) => SubSeq(file, 1, n) = file
  BY <1>1
<1> QED
  BY <1>3, <1>4, <1>5, <1>6

(* The newest record of a key in a file. *)
LEMMA LastOfType ==
  ASSUME NEW log \in Seq(Record)
  PROVE  /\ \A k : LastOf(log, k) \in Entry
         /\ LoadDatafile(log) \in [Key -> Lsn]
<1>1. ASSUME NEW k
      PROVE  LastOf(log, k) \in Entry
  <2>1. Of(log, k) \in SUBSET (1 .. Len(log))
    BY DEF Of
  <2> QED
    BY <2>1, LastAtIsLast DEF LastOf
<1>2. LoadDatafile(log) \in [Key -> Lsn]
  BY <1>1, ConstantTypes DEF LoadDatafile, Entry
<1> QED
  BY <1>1, <1>2

LEMMA AckAllType ==
  ASSUME TypeOK, NEW table \in [Key -> Entry]
  PROVE  AckAll(table) \in [Key -> Entry]
<1>1. \A k \in Key : Newer(table[k], LastOf(wal, k)) \in Entry
  BY LastOfType, TypeFacts DEF Newer
<1> QED
  BY <1>1 DEF AckAll

LEMMA InitType == Init => TypeOK
<1> SUFFICES ASSUME Init PROVE TypeOK
  OBVIOUS
<1> USE ConstantTypes
<1>1. /\ opts \in Options /\ wal = <<>> /\ wal_synced = 0 /\ crashes = 0
      /\ tears = {}
      /\ faults = 0 /\ group_acked = EmptyTable /\ Closed
  BY DEF Init
<1>2. /\ datafile \in Seq(Record) /\ datafile_flushed \in 0 .. Len(datafile)
      /\ super \in [data_lsn : Lsn, wal_lsn : Lsn, root : [Key -> Lsn]]
      /\ didx \subseteq Lsn /\ vidx \in [Key -> SUBSET Lsn]
      /\ acked \in [Key -> Entry]
  <2>1. CASE Checkpointed
    <3>1. PICK k \in Key :
            /\ datafile = <<[lsn |-> 1, key |-> k, del |-> FALSE]>>
            /\ datafile_flushed = 1
            /\ super = [data_lsn |-> 1, wal_lsn |-> 1,
                        root |-> [NoRoot EXCEPT ![k] = 1]]
            /\ didx = {1}
            /\ vidx = [j \in Key |-> IF j = k THEN {1} ELSE {}]
            /\ acked = [EmptyTable EXCEPT ![k] = [lsn |-> 1, del |-> FALSE]]
      BY <1>1, <2>1 DEF Init, CheckpointedFiles
    <3>2. 1 \in Lsn
      BY <2>1, BoundsOK DEF Lsn
    <3>3. [lsn |-> 1, key |-> k, del |-> FALSE] \in Record
      BY <3>2 DEF Record
    <3>4. [lsn |-> 1, del |-> FALSE] \in Entry
      BY <3>2 DEF Entry
    <3>5. datafile \in Seq(Record) /\ datafile_flushed \in 0 .. Len(datafile)
      BY <3>1, <3>3
    <3>6. acked \in [Key -> Entry]
      BY <3>1, <3>4
    <3>7. [NoRoot EXCEPT ![k] = 1] \in [Key -> Lsn]
      BY <3>2
    <3>8. super \in [data_lsn : Lsn, wal_lsn : Lsn, root : [Key -> Lsn]]
      BY <3>1, <3>2, <3>7
    <3> QED
      BY <3>1, <3>2, <3>5, <3>6, <3>8
  <2>2. CASE ~Checkpointed
    BY <2>2 DEF Init, FreshFiles
  <2> QED
    BY <2>1, <2>2
<1>3. /\ wal \in Seq(Record) /\ wal_synced \in 0 .. Len(wal)
  BY <1>1
<1>4. [k \in Key |-> {}] \in [Key -> SUBSET Lsn]
  OBVIOUS
<1>5. writer \in [Writer -> {NoWrite} \cup [pc : {"await", "synced"}, lsn : Lsn, key : Key,
                    del : BOOLEAN]]
  BY <1>1 DEF Closed
<1>6. [data_lsn |-> 0, wal_lsn |-> 0, root |-> NoRoot]
        \in [data_lsn : Lsn, wal_lsn : Lsn, root : [Key -> Lsn]]
  OBVIOUS
<1> QED
  BY <1>1, <1>2, <1>3, <1>4, <1>5, <1>6 DEF TypeOK, Closed

LEMMA WritesKeepType ==
  ASSUME TypeOK, LogInv, TablesInv, opts' = opts, Write
  PROVE  TypeOK'
<1> PICK k \in Key, del \in BOOLEAN :
      \/ \E w \in Writer : PutSyncFastAppend(w, k, del)
      \/ WriteAsync(k, del)
      \/ WriteGroup(k, del)
  BY DEF Write
<1>1. /\ Open /\ Open' /\ AppendAndApply(k, del) /\ wal_replay_pending' = FALSE
      /\ UNCHANGED <<super, immutable, flushing>>
  BY DEF PutSyncFastAppend, WriteAsync, WriteGroup, AppendAndApply, Open, control
<1>2. /\ wal' \in Seq(Record) /\ Len(wal') = Len(wal) + 1
      /\ memtable' \in [Key -> Entry]
      /\ max_lsn' = max_lsn + 1 /\ max_lsn' \in Lsn
  BY <1>1, AppendStep
<1>3. ASSUME NEW w \in Writer, PutSyncFastAppend(w, k, del)
      PROVE  TypeOK'
  <2>1. wal_synced \in 0 .. Len(wal')
    BY <1>2, TypeFacts
  <2>2. writer' \in [Writer -> {NoWrite} \cup [pc : {"await", "synced"}, lsn : Lsn, key : Key,
                    del : BOOLEAN]]
    BY <1>2, <1>3 DEF PutSyncFastAppend, TypeOK
  <2> QED
    BY <1>1, <1>2, <1>3, <2>1, <2>2
       DEF PutSyncFastAppend, TypeOK, sidecars, index, control
<1>4. CASE WriteAsync(k, del)
  <2>1. wal_synced \in 0 .. Len(wal')
    BY <1>2, TypeFacts
  <2> QED
    BY <1>1, <1>2, <1>4, <2>1 DEF WriteAsync, TypeOK, sidecars, index, control
<1>5. CASE WriteGroup(k, del)
  <2>1. wal_synced' \in 0 .. Len(wal')
    BY <1>2, <1>5, TypeFacts DEF WriteGroup, Fsync
  <2>2. pending_stable_lsn' \in Lsn /\ stable_lsn' \in Lsn
    BY <1>2, <1>5, Max2Type DEF WriteGroup, TypeOK
  <2>3. puts_since_commit' \in Nat
    BY <1>5 DEF WriteGroup, TypeOK
  <2>4. group_acked' \in [Key -> Entry]
    <3>1. group_acked \in [Key -> Entry]
      BY DEF TypeOK
    <3>2. AckAll(group_acked) \in [Key -> Entry]
      BY <3>1, AckAllType
    <3>3. [lsn |-> max_lsn + 1, del |-> del] \in Entry
      BY <1>2 DEF Entry
    <3>4. \/ group_acked' = group_acked
          \/ group_acked' = [AckAll(group_acked) EXCEPT
                               ![k] = [lsn |-> max_lsn + 1, del |-> del]]
      BY <1>5 DEF WriteGroup
    <3> QED
      BY <3>1, <3>2, <3>3, <3>4
  <2> QED
    BY <1>1, <1>2, <1>5, <2>1, <2>2, <2>3, <2>4
       DEF WriteGroup, TypeOK, sidecars, index, control
<1> QED
  BY <1>3, <1>4, <1>5

LEMMA WriterStepsKeepType ==
  ASSUME TypeOK, opts' = opts, WriterStep
  PROVE  TypeOK'
<1> PICK w \in Writer : AwaitFsync(w) \/ AwaitFails(w) \/ SetStable(w)
  BY DEF WriterStep
<1> DEFINE Waiting == [pc : {"await", "synced"}, lsn : Lsn, key : Key,
                       del : BOOLEAN]
<1>1. writer \in [Writer -> {NoWrite} \cup Waiting]
  BY DEF TypeOK
<1>2. writer[w].pc # "none" => writer[w] \in Waiting
  BY <1>1 DEF NoWrite
<1>3. [writer EXCEPT ![w] = NoWrite] \in [Writer -> {NoWrite} \cup Waiting]
  BY <1>1
<1>4. CASE AwaitFsync(w)
  <2>1. writer[w] \in Waiting
    BY <1>2, <1>4 DEF AwaitFsync
  <2>2. [writer[w] EXCEPT !.pc = "synced"] \in Waiting
    BY <2>1
  <2>3. writer' = [writer EXCEPT ![w] = [writer[w] EXCEPT !.pc = "synced"]]
    BY <1>4 DEF AwaitFsync
  <2>4. writer' \in [Writer -> {NoWrite} \cup Waiting]
    BY <1>1, <2>2, <2>3
  <2>5. wal_synced' \in 0 .. Len(wal)
    BY <1>4, TypeFacts DEF AwaitFsync, Fsync
  <2> QED
    BY <1>4, <2>4, <2>5
       DEF AwaitFsync, TypeOK, sidecars, tables, index, lsns, control
<1>5. CASE AwaitFails(w)
  BY <1>3, <1>5 DEF AwaitFails, TypeOK, disk, sidecars, tables, index, lsns,
                    control
<1>6. CASE SetStable(w)
  <2>1. writer[w] \in Waiting
    BY <1>2, <1>6 DEF SetStable
  <2>2. /\ stable_lsn' = writer[w].lsn /\ writer[w].lsn \in Lsn
        /\ writer[w].key \in Key
        /\ [lsn |-> writer[w].lsn, del |-> writer[w].del] \in Entry
    BY <1>6, <2>1 DEF SetStable, Entry
  <2>3. acked' \in [Key -> Entry]
    <3>1. acked \in [Key -> Entry]
      BY DEF TypeOK
    <3>2. Newer(acked[writer[w].key],
                [lsn |-> writer[w].lsn, del |-> writer[w].del]) \in Entry
      BY <2>2, <3>1 DEF Newer
    <3>3. acked' = [acked EXCEPT ![writer[w].key] =
                      Newer(acked[writer[w].key],
                            [lsn |-> writer[w].lsn, del |-> writer[w].del])]
      BY <1>6 DEF SetStable
    <3> QED
      BY <3>1, <3>2, <3>3
  <2> QED
    BY <1>3, <1>6, <2>2, <2>3
       DEF SetStable, TypeOK, disk, sidecars, tables, index, control
<1> QED
  BY <1>4, <1>5, <1>6

LEMMA GroupCommitKeepsType ==
  ASSUME TypeOK, opts' = opts, GroupCommit
  PROVE  TypeOK'
<1>1. wal_synced' \in 0 .. Len(wal)
  BY TypeFacts DEF GroupCommit, Fsync
<1>2. stable_lsn' \in Lsn /\ puts_since_commit' \in Nat
  BY Max2Type DEF GroupCommit, TypeOK
<1>3. group_acked' \in [Key -> Entry]
  BY AckAllType DEF GroupCommit, TypeOK
<1> QED
  BY <1>1, <1>2, <1>3
     DEF GroupCommit, TypeOK, sidecars, tables, index, control

LEMMA FlushKeepsType ==
  ASSUME TypeOK, opts' = opts, Flush
  PROVE  TypeOK'
<1>0. \A table : Held(table) \subseteq Key
  BY DEF Held
<1>1. ASSUME NEW checkpoint \in BOOLEAN, FlushBegin(checkpoint)
      PROVE  TypeOK'
  <2>1. wal_synced' \in 0 .. Len(wal)
    BY <1>1, TypeFacts DEF FlushBegin, Fsync
  <2>2. /\ memtable' \in [Key -> Entry] /\ immutable' \in [Key -> Entry]
        /\ flushing' \in [Key -> Entry] /\ wal_replay_pending' = FALSE
    BY <1>1, TypeFacts DEF FlushBegin, RotateMemTableForFlush, TypeOK
  <2>3. stable_lsn' \in Lsn /\ puts_since_commit' \in Nat
    BY <1>1, Max2Type DEF FlushBegin, TypeOK
  <2>4. phase' = "flush" /\ in_checkpoint' \in BOOLEAN /\ flush_todo' \subseteq Key
    BY <1>0, <1>1 DEF FlushBegin
  <2> QED
    BY <1>1, <2>1, <2>2, <2>3, <2>4 DEF FlushBegin, TypeOK, sidecars, index
<1>2. CASE FlushFsyncFails
  <2>1. /\ memtable' \in [Key -> Entry] /\ immutable' \in [Key -> Entry]
        /\ flushing' \in [Key -> Entry] /\ wal_replay_pending' = FALSE
    BY <1>2, TypeFacts DEF FlushFsyncFails, RotateMemTableForFlush, TypeOK
  <2>2. faults' \in Nat
    BY <1>2 DEF FlushFsyncFails, TypeOK
  <2>3. UNCHANGED <<disk, index, max_lsn, sb, stable_lsn, pending_stable_lsn,
                    puts_since_commit, control, writer, crashes, acked,
                    group_acked>>
    BY <1>2 DEF FlushFsyncFails
  <2> QED
    BY <2>1, <2>2, <2>3 DEF TypeOK, disk, sidecars, index, control
<1>3. ASSUME NEW k \in Key, FlushRecord(k)
      PROVE  TypeOK'
  <2> DEFINE e == flushing[k]
  <2>1. e \in Entry /\ e.lsn \in Lsn /\ e.del \in BOOLEAN
    BY DEF TypeOK, Entry
  <2>2. [lsn |-> e.lsn, key |-> k, del |-> e.del] \in Record
    BY <2>1 DEF Record
  <2>3. datafile' \in Seq(Record) /\ datafile_flushed' \in 0 .. Len(datafile')
    BY <1>3, <2>2 DEF FlushRecord, TypeOK
  <2>4. CommittedLsn(k, e) \in Lsn
    BY <2>1, ConstantTypes DEF CommittedLsn
  <2>5. /\ committed' \in [Key -> Lsn] /\ btree' \in [Key -> Lsn]
        /\ lsn_index' \subseteq Lsn
    BY <1>3, <2>1, <2>4 DEF FlushRecord, TypeOK
  <2>6. vcs' \in [Key -> SUBSET Lsn] /\ stable_lsn' \in Lsn
    BY <1>3, <2>1, Max2Type DEF FlushRecord, TypeOK, StableAfter
  <2>7. /\ phase' \in {"flush", "idle"} /\ in_checkpoint' \in BOOLEAN
        /\ flush_todo' \subseteq Key
    BY <1>3 DEF FlushRecord, TypeOK, ReturnError
  <2> QED
    BY <1>3, <2>3, <2>5, <2>6, <2>7 DEF FlushRecord, TypeOK, sidecars, tables
<1>4. CASE FlushRecordFails
  <2>1. faults' \in Nat
    BY <1>4 DEF FlushRecordFails, TypeOK
  <2>2. /\ UNCHANGED <<disk, tables, index, lsns, writer, crashes, acked,
                       group_acked>>
        /\ phase' = "idle" /\ in_checkpoint' = FALSE /\ flush_todo' = {}
    BY <1>4 DEF FlushRecordFails, ReturnError
  <2> QED
    BY <2>1, <2>2 DEF TypeOK, disk, sidecars, tables, index, lsns
<1>5. CASE FlushEnd
  <2>1. datafile_flushed' \in 0 .. Len(datafile)
    BY <1>5 DEF FlushEnd, FlushAppendStream, TypeOK
  <2>2. acked' \in [Key -> Entry] /\ flushing' \in [Key -> Entry]
    BY <1>5, AckAllType, ConstantTypes DEF FlushEnd, ClearFrozen, TypeOK
  <2>3. phase' \in {"fold", "idle"}
    BY <1>5 DEF FlushEnd
  <2> QED
    BY <1>5, <2>1, <2>2, <2>3 DEF FlushEnd, TypeOK, sidecars, index, lsns
<1> QED
  BY <1>1, <1>2, <1>3, <1>4, <1>5 DEF Flush

LEMMA CheckpointKeepsType ==
  ASSUME TypeOK, LogInv, PhaseInv, opts' = opts, Checkpoint
  PROVE  TypeOK'
<1>1. CASE FoldWalToVcs
  <2>1. \A k \in Key :
          {r.lsn : r \in {r \in Elements(wal) :
             r.key = k /\ r.lsn > sb.wal_lsn /\ r.lsn > ChainHead(k)}}
            \subseteq Lsn
    BY TypeFacts DEF Elements
  <2>2. vcs' \in [Key -> SUBSET Lsn]
    BY <1>1, <2>1 DEF FoldWalToVcs, TypeOK
  <2> QED
    BY <1>1, <2>2 DEF FoldWalToVcs, TypeOK, disk, sidecars, tables, lsns
<1>2. NextSuper \in [data_lsn : Lsn, wal_lsn : Lsn, root : [Key -> Lsn]]
      /\ committed \in [Key -> Lsn]
  BY DEF NextSuper, TypeOK
<1>3. CASE CommitSuperBlock
  <2>1. /\ super' \in {super, NextSuper} /\ sb' \in {sb, NextSuper}
        /\ btree' \in {btree, committed} /\ phase' \in {"idle", "didx"}
        /\ in_checkpoint' \in BOOLEAN /\ flush_todo' \subseteq Key
    BY <1>3 DEF CommitSuperBlock, ReturnError, TypeOK
  <2> QED
    BY <1>2, <1>3, <2>1 DEF CommitSuperBlock, TypeOK, sidecars, tables
<1>4. CASE CommitSuperBlockFails
  <2>1. faults' \in Nat
    BY <1>4 DEF CommitSuperBlockFails, TypeOK
  <2>2. /\ sb' = NextSuper /\ btree' = committed /\ phase' = "idle"
        /\ in_checkpoint' = FALSE /\ flush_todo' = {}
    BY <1>4 DEF CommitSuperBlockFails, ReturnError
  <2>3. UNCHANGED <<disk, tables, committed, vcs, lsn_index, max_lsn, stable_lsn,
                 pending_stable_lsn, puts_since_commit, wal_replay_pending,
                 writer, crashes, acked, group_acked>>
    BY <1>4 DEF CommitSuperBlockFails
  <2> QED
    BY <1>2, <2>1, <2>2, <2>3 DEF TypeOK, disk, sidecars, tables
<1>5. CASE SaveLsnIndexSidecar
  BY <1>5 DEF SaveLsnIndexSidecar, TypeOK, tables, index, lsns
<1>6. CASE SaveVcsSidecar
  BY <1>6 DEF SaveVcsSidecar, TypeOK, tables, index, lsns
<1>7. CASE TruncateTo
  <2>1. wal' = <<>> /\ wal_synced' = 0 /\ max_lsn' = max_lsn
    BY <1>7, TruncateEmpties
  <2>2. wal' \in Seq(Record) /\ wal_synced' \in 0 .. Len(wal')
    BY <2>1
  <2> QED
    BY <1>7, <2>1, <2>2 DEF TruncateTo, TypeOK, sidecars, tables, index
<1> QED
  BY <1>1, <1>3, <1>4, <1>5, <1>6, <1>7 DEF Checkpoint

LEMMA ElementsType ==
  ASSUME NEW file \in Seq(Record)
  PROVE  \A r \in Elements(file) : r \in Record /\ r.lsn \in Lsn
<1>1. \A i \in 1 .. Len(file) : file[i] \in Record
  OBVIOUS
<1>2. \A r \in Elements(file) : r \in Record
  BY <1>1 DEF Elements
<1> QED
  BY <1>2 DEF Record

(* Rebuilding the chains takes LSNs of the file.                           *)
LEMMA RebuildChainsType ==
  ASSUME NEW file \in Seq(Record)
  PROVE  RebuildChains(file) \in [Key -> SUBSET Lsn]
<1> DEFINE again(i) == \E j \in 1 .. Len(file) :
                         j # i /\ file[j].lsn = file[i].lsn
           twice == {file[i].lsn : i \in {i \in 1 .. Len(file) : again(i)}}
           kept(l) == \A d \in twice : l <= d
           Chain(k) == {r.lsn : r \in {r \in Elements(file) :
                                         r.key = k /\ kept(r.lsn)}}
<1>1. RebuildChains(file) = [k \in Key |-> Chain(k)]
  BY DEF RebuildChains
<1>2. \A r \in Elements(file) : r.lsn \in Lsn
  BY ElementsType
<1>3. \A k \in Key : Chain(k) \subseteq Lsn
  <2> HIDE DEF kept
  <2> QED
    BY <1>2
<1> HIDE DEF Chain
<1> QED
  BY <1>1, <1>3

LEMMA RestartKeepsType ==
  ASSUME TypeOK, opts' = opts, Crash \/ OpenInternal
  PROVE  TypeOK'
<1> USE ConstantTypes
<1>0. [k \in Key |-> {}] \in [Key -> SUBSET Lsn]
  OBVIOUS
<1>1. CASE Crash
  <2>1. /\ wal' \in Seq(Record) /\ wal_synced' \in 0 .. Len(wal')
        /\ datafile' \in Seq(Record) /\ datafile_flushed' \in 0 .. Len(datafile')
    <3>1. datafile_flushed \in Nat
      BY DEF TypeOK
    <3> QED
      BY <1>1, <3>1, CrashLeaves, TypeFacts
  <2>2. [data_lsn |-> 0, wal_lsn |-> 0, root |-> NoRoot]
          \in [data_lsn : Lsn, wal_lsn : Lsn, root : [Key -> Lsn]]
    OBVIOUS
  <2>3. crashes' \in Nat
    BY <1>1 DEF Crash, TypeOK
  <2>4. UNCHANGED <<super, sidecars, faults, acked, group_acked>> /\ LoseMemory
    BY <1>1 DEF Crash
  <2>5. tears' \subseteq Nat
    <3>1. datafile_flushed \in Nat /\ Len(datafile) \in Nat /\ tears \subseteq Nat
      BY DEF TypeOK
    <3>2. \A m \in datafile_flushed .. Len(datafile) : m \in Nat
      BY <3>1
    <3> QED
      BY <1>1, <3>1, <3>2 DEF Crash
  <2> QED
    BY <1>0, <2>1, <2>2, <2>3, <2>4, <2>5 DEF LoseMemory, TypeOK, sidecars
<1>2. CASE OpenInternal
  <2>1. /\ RecoverFromSuperBlock /\ phase' = "idle"
        /\ max_lsn' = EnsureMinLsn(RebuildKeyIndex(wal), super.wal_lsn)
        /\ vcs' = IF vidx = NoSidecar THEN RebuildChains(Reached(datafile)) ELSE vidx
        /\ UNCHANGED <<disk, immutable, flushing, pending_stable_lsn,
                       puts_since_commit, in_checkpoint, flush_todo, writer,
                       crashes, faults, acked, group_acked>>
    BY <1>2 DEF OpenInternal
  <2>2. max_lsn' \in Lsn
    BY <2>1, RestartCounter
  <2>3. vcs' \in [Key -> SUBSET Lsn]
    BY <2>1, RebuildChainsType, ReachedIs DEF TypeOK
  <2>4. memtable' \in [Key -> Entry] /\ wal_replay_pending' \in BOOLEAN
    <3>1. memtable \in [Key -> Entry]
      BY DEF TypeOK
    <3>2. ReplayPending(memtable, wal, super.wal_lsn) \in [Key -> Entry]
      BY <3>1, TypeFacts, ReplayIs
    <3>3. wal_replay_pending' \in BOOLEAN
      <4>1. \/ wal_replay_pending' = FALSE
            \/ wal_replay_pending' = (RebuildKeyIndex(wal) > super.wal_lsn)
        BY <2>1 DEF RecoverFromSuperBlock
      <4>2. (RebuildKeyIndex(wal) > super.wal_lsn) \in BOOLEAN
        OBVIOUS
      <4> QED
        BY <4>1, <4>2, Zenon
    <3> QED
      BY <2>1, <3>1, <3>2, <3>3 DEF RecoverFromSuperBlock
  <2>5. sb' = super /\ stable_lsn' \in Lsn
    BY <2>1, TypeFacts DEF RecoverFromSuperBlock
  <2>6. /\ committed' \in [Key -> Lsn] /\ btree' \in [Key -> Lsn]
        /\ lsn_index' \subseteq Lsn
    <3>0. Reached(datafile) \in Seq(Record)
      BY ReachedIs DEF TypeOK
    <3>1. LoadDatafile(Reached(datafile)) \in [Key -> Lsn]
      BY <3>0, LastOfType
    <3>2. super.root \in [Key -> Lsn]
      BY DEF TypeOK
    <3>3. {r.lsn : r \in Elements(Reached(datafile))} \subseteq Lsn
      <4>1. \A r \in Elements(Reached(datafile)) : r.lsn \in Lsn
        BY <3>0, ElementsType
      <4> QED
        BY <4>1
    <3>4. didx \subseteq Lsn /\ lsn_index \subseteq Lsn
      BY DEF TypeOK
    <3>5. LoadCommitted
      BY <2>1 DEF RecoverFromSuperBlock
    <3> QED
      BY <3>1, <3>2, <3>3, <3>4, <3>5 DEF LoadCommitted
  <2> QED
    BY <2>1, <2>2, <2>3, <2>4, <2>5, <2>6 DEF TypeOK, disk, sidecars
<1> QED
  BY <1>1, <1>2

LEMMA ReadKeepsType ==
  ASSUME TypeOK, opts' = opts, Read \/ RecoverFull
  PROVE  TypeOK'
<1>1. CASE RecoverFull
  BY <1>1 DEF RecoverFull, TypeOK, disk, sidecars, tables, index, control
<1>2. CASE Read
  <2>1. memtable' \in [Key -> Entry] /\ wal_replay_pending' \in BOOLEAN
    <3>1. /\ memtable \in [Key -> Entry] /\ ReplayedTable \in [Key -> Entry]
          /\ \A k \in Key : Restored(k) \in [Key -> Entry]
      BY TypeFacts, RestoredType DEF TypeOK
    <3> QED
      BY <1>2, <3>1, ReadMoves
  <2>2. UNCHANGED <<disk, immutable, flushing, index, max_lsn, sb, stable_lsn,
                    pending_stable_lsn, puts_since_commit, control, writer,
                    crashes, faults, acked, group_acked>>
    BY <1>2, ReadMoves
  <2> QED
    BY <2>1, <2>2 DEF TypeOK, disk, sidecars, index, control
<1> QED
  BY <1>1, <1>2

LEMMA NextKeepsType ==
  ASSUME TypeOK, LogInv, TablesInv, PhaseInv, Next
  PROVE  TypeOK'
<1>1. opts' = opts
  BY DEF Next
<1>2. \/ Write \/ WriterStep \/ GroupCommit \/ Flush \/ Checkpoint \/ Read
      \/ RecoverFull \/ Crash \/ OpenInternal
  BY DEF Next
<1> QED
  BY <1>1, <1>2, WritesKeepType, WriterStepsKeepType, GroupCommitKeepsType,
     FlushKeepsType, CheckpointKeepsType, ReadKeepsType, RestartKeepsType
---------------------------------------------------------------------------
(* The inductive invariant. *)

LEMMA InitIInv == Init => IInv
<1> SUFFICES ASSUME Init PROVE IInv
  OBVIOUS
<1>1. TypeOK
  BY InitType
<1>2. /\ Closed /\ wal = <<>> /\ wal_synced = 0
      /\ Len(wal) = 0 /\ phase = "down"
  BY DEF Init, Closed
<1>3. LogInv /\ PhaseInv
  BY <1>2 DEF LogInv, PhaseInv, Open
<1>4. TablesInv
  BY <1>1, <1>2, TypeFacts DEF Closed, TablesInv, Logged, EmptyTable, NoEntry
<1>5. super.data_lsn <= super.wal_lsn
      /\ \A i \in 1 .. Len(datafile) : datafile[i].lsn <= super.wal_lsn
  BY DEF Init, FreshFiles, CheckpointedFiles
<1>6. WriteAhead
  BY <1>5 DEF WriteAhead, Elements
<1>7. StableInv
  BY <1>1, <1>2, <1>5, TypeFacts
     DEF Closed, StableInv, WriterInv, DurableUpTo, NoWrite
<1> QED
  BY <1>1, <1>3, <1>4, <1>6, <1>7 DEF IInv

LEMMA NextIInv == IInv /\ [Next]_vars => IInv'
<1> SUFFICES ASSUME IInv, [Next]_vars PROVE IInv'
  OBVIOUS
<1>1. CASE Next
  BY <1>1, NextKeepsType, NextKeepsParts, NextKeepsPhase DEF IInv, Parts
<1>2. CASE UNCHANGED vars
  <2>1. UNCHANGED <<opts, wal, wal_synced, datafile, datafile_flushed, tears, super,
                    didx, vidx, max_lsn, memtable, immutable, flushing,
                    committed, btree, vcs, lsn_index, sb, stable_lsn,
                    pending_stable_lsn, puts_since_commit, wal_replay_pending,
                    phase, in_checkpoint, flush_todo, writer, crashes, faults,
                    acked, group_acked>>
    BY <1>2 DEF vars, disk, sidecars, tables, index, lsns, control
  <2>2. TypeOK'
    BY <2>1 DEF IInv, TypeOK
  <2>3. LogInv' /\ PhaseInv' /\ TablesInv' /\ WriteAhead'
    BY <2>1 DEF IInv, LogInv, PhaseInv, TablesInv, Logged, Among, WriteAhead,
                Elements, Open
  <2>4. StableInv'
    BY <2>1 DEF IInv, StableInv, WriterInv, DurableUpTo, Open, Durability, SyncPath
  <2> QED
    BY <2>2, <2>3, <2>4 DEF IInv
<1> QED
  BY <1>1, <1>2

LEMMA IInvInvariant == Spec => []IInv
<1> QED
  BY InitIInv, NextIInv, PTL DEF Spec

(* Every variable of the shard, its files and its locked control keeps its *)
(* type, under every durability and recovery strategy.                     *)
THEOREM TypeCorrect == Spec => []TypeOK
<1>1. IInv => TypeOK
  BY DEF IInv
<1> QED
  BY <1>1, IInvInvariant, PTL

(* I-D1: a record reaches the data file only after an fsync of the log     *)
(* that holds it, through every crash and I/O error.                       *)
THEOREM LogIsAhead == Spec => []WriteAhead
<1>1. IInv => WriteAhead
  BY DEF IInv
<1> QED
  BY <1>1, IInvInvariant, PTL

(* I-D2: neither the snapshot of the readers nor the LSN the superblock    *)
(* saves for it runs ahead of the fsynced log and the superblock.          *)
THEOREM StableIsDurable == Spec => []StableBehindLog
<1>1. ASSUME IInv PROVE StableBehindLog
  <2> DEFINE S == {wal[i].lsn : i \in 1 .. wal_synced}
             m == MaxOf(S)
  <2>1. TypeOK /\ DurableUpTo(stable_lsn) /\ DurableUpTo(super.data_lsn)
    BY <1>1 DEF IInv, StableInv
  <2>2. \A i \in 1 .. wal_synced : wal[i].lsn \in Lsn /\ wal[i].lsn \in S
    BY <2>1, TypeFacts
  <2>3. S \in SUBSET (0 .. MaxLsn) /\ MaxLsn \in Nat
    BY <2>2, BoundsOK DEF Lsn
  <2> HIDE DEF S
  <2>4. m \in 0 .. MaxLsn /\ \A l \in S : l <= m
    BY <2>3, MaxOfIsGreatest
  <2> HIDE DEF m
  <2>5. m \in Nat /\ super.wal_lsn \in Nat
    BY <2>1, <2>3, <2>4, TypeFacts
  <2>6. DurableLsn = Max2(super.wal_lsn, m)
    BY DEF DurableLsn, m, S
  <2>7. super.wal_lsn <= DurableLsn /\ m <= DurableLsn /\ DurableLsn \in Nat
    BY <2>5, <2>6 DEF Max2
  <2>8. ASSUME NEW l \in Nat, DurableUpTo(l)
        PROVE  l <= DurableLsn
    <3>1. CASE l <= super.wal_lsn
      BY <2>5, <2>7, <3>1
    <3>2. CASE \E i \in 1 .. wal_synced : l <= wal[i].lsn
      <4>1. PICK i \in 1 .. wal_synced : l <= wal[i].lsn
        BY <3>2
      <4>2. wal[i].lsn \in S /\ wal[i].lsn \in Nat
        BY <2>1, <2>2, TypeFacts
      <4>3. wal[i].lsn <= m
        BY <2>4, <4>2
      <4> QED
        BY <2>5, <2>7, <4>1, <4>2, <4>3
    <3> QED
      BY <2>8, <3>1, <3>2 DEF DurableUpTo
  <2>9. stable_lsn \in Nat /\ super.data_lsn \in Nat
    BY <2>1, TypeFacts
  <2> QED
    BY <2>1, <2>8, <2>9 DEF StableBehindLog
<1> QED
  BY <1>1, IInvInvariant, PTL

(* While the shard stays open, the snapshot of the readers goes back only  *)
(* where each kSync writer sets it to its own LSN.                         *)
THEOREM StableNeverBack == Spec => StableMonotonic
<1>1. ASSUME IInv, [Next]_vars
      PROVE  [phase # "down" /\ phase' # "down" /\ ~SyncPath
                => stable_lsn' >= stable_lsn]_vars
  <2> SUFFICES ASSUME Next, phase # "down", phase' # "down",
                      ~SyncPath
               PROVE  stable_lsn' >= stable_lsn
    BY <1>1 DEF vars
  <2>0. stable_lsn \in Nat /\ pending_stable_lsn \in Nat
        /\ \A k \in Key : flushing[k].lsn \in Nat
    BY <1>1, TypeFacts DEF IInv, TypeOK, Entry
  <2>1. \A n \in Nat : Max2(stable_lsn, n) >= stable_lsn
    BY <2>0 DEF Max2
  <2>2. \A w \in Writer : writer[w].pc = "none"
    BY <1>1 DEF IInv, StableInv, WriterInv
  <2>3. CASE Write
    <3>1. stable_lsn' \in {stable_lsn, Max2(stable_lsn, pending_stable_lsn')}
      BY <2>3 DEF Write, PutSyncFastAppend, WriteAsync, WriteGroup
    <3>2. pending_stable_lsn' \in Nat
      BY <1>1, TypeFacts, <2>0, <2>3 DEF IInv, Write, PutSyncFastAppend,
         WriteAsync, WriteGroup, Max2
    <3> QED
      BY <2>0, <2>1, <3>1, <3>2
  <2>4. CASE WriterStep
    BY <2>2, <2>4 DEF WriterStep, AwaitFsync, AwaitFails, SetStable
  <2>5. CASE GroupCommit
    BY <2>0, <2>1, <2>5 DEF GroupCommit
  <2>6. CASE Flush
    <3>1. ASSUME NEW k \in Key, FlushRecord(k)
          PROVE  stable_lsn' \in {stable_lsn, Max2(stable_lsn, flushing[k].lsn)}
      BY <3>1 DEF FlushRecord, StableAfter
    <3>2. CASE \E k \in Key : FlushRecord(k)
      BY <2>0, <2>1, <3>1, <3>2
    <3>3. CASE \E checkpoint \in BOOLEAN : FlushBegin(checkpoint)
      BY <2>0, <2>1, <3>3 DEF FlushBegin
    <3>4. CASE FlushFsyncFails \/ FlushRecordFails \/ FlushEnd
      BY <2>0, <3>4 DEF FlushFsyncFails, FlushRecordFails, FlushEnd, lsns
    <3> QED
      BY <2>6, <3>2, <3>3, <3>4 DEF Flush
  <2>7. CASE Checkpoint
    <3>1. stable_lsn' = stable_lsn
      BY <2>7 DEF Checkpoint, FoldWalToVcs, CommitSuperBlock,
         CommitSuperBlockFails, SaveLsnIndexSidecar, SaveVcsSidecar,
         TruncateTo, lsns
    <3> QED
      BY <2>0, <3>1
  <2>8. CASE Read \/ RecoverFull
    <3>1. stable_lsn' = stable_lsn
      BY <1>1, <2>8, ReadMoves DEF IInv, RecoverFull
    <3> QED
      BY <2>0, <3>1
  <2>9. ~Crash /\ ~OpenInternal
    BY DEF Crash, LoseMemory, OpenInternal
  <2> QED
    BY <2>3, <2>4, <2>5, <2>6, <2>7, <2>8, <2>9 DEF Next
<1> QED
  BY <1>1, IInvInvariant, PTL DEF Spec, StableMonotonic
---------------------------------------------------------------------------
(* NoErrorYet: no flush or superblock failed and no crash tore a record.   *)
(* The shard starts from a checkpoint: without saved chains, those that    *)
(* are rebuilt may make a flush fail.  The application does not call       *)
(* RecoverFull where the replay is left pending, which would drop it.      *)

(* The entries a flush would store, or has begun to store, and the keys it *)
(* has still to do.                                                        *)
Pending == IF phase = "idle" THEN ReplayedTable ELSE flushing
Todo == IF phase = "idle" THEN Held(ReplayedTable) ELSE flush_todo

(* The tables are empty where no operation needs them, and the superblock  *)
(* in memory is the one on disk.                                           *)
ShapeInv ==
  /\ immutable = EmptyTable
  /\ phase # "idle" => memtable = EmptyTable /\ ~wal_replay_pending
  /\ phase # "flush" => flushing = EmptyTable /\ flush_todo = {}
  /\ flush_todo \subseteq Held(flushing)
  /\ Open => sb = super
  /\ RecoveryStrategy = "kFullReplay" => ~wal_replay_pending

(* The saved chains are there and do not pass the superblock.              *)
ChainInv ==
  /\ vidx # NoSidecar
  /\ \A k \in Key : /\ \A l \in vidx[k] : 0 < l /\ l <= super.wal_lsn
                    /\ \A l \in vcs[k] : 0 < l /\ l <= max_lsn

(* What is not flushed yet is newer than the superblock, than its chain    *)
(* and than its records in the data file.                                  *)
Newest(k, e) ==
  /\ e.lsn > super.wal_lsn
  /\ \A l \in vcs[k] : l < e.lsn
  /\ \A i \in 1 .. Len(datafile) :
       datafile[i].key = k => datafile[i].lsn <= e.lsn
TodoInv == \A k \in Todo : Newest(k, Pending[k])

(* Every record of the log is superseded by one in the flushed part of the *)
(* data file, or by an entry to flush; without the latter if the           *)
(* superblock allows to drop it.                                           *)
Stored(k, l, n) ==
  \E i \in 1 .. n : datafile[i].key = k /\ datafile[i].lsn >= l
Covered(k, l) == Stored(k, l, datafile_flushed)
CoveredRecord(r) ==
  /\ r.lsn <= super.wal_lsn => Covered(r.key, r.lsn)
  /\ Open => Covered(r.key, r.lsn) \/ r.lsn <= Pending[r.key].lsn
LogCovered == \A i \in 1 .. Len(wal) : CoveredRecord(wal[i])
DoneStored ==
  \A k \in Held(Pending) \ Todo : Stored(k, Pending[k].lsn, Len(datafile))
CoverInv == LogCovered /\ DoneStored

(* The data file is in order for each key; what a crash can take from it   *)
(* is above the superblock.                                                *)
FileInv ==
  /\ \A i, j \in 1 .. Len(datafile) :
       i < j /\ datafile[i].key = datafile[j].key
         => datafile[i].lsn <= datafile[j].lsn
  /\ phase \notin {"idle", "flush", "down"} => datafile_flushed = Len(datafile)
  /\ \A i \in 1 .. Len(datafile) :
       datafile[i].lsn <= super.wal_lsn => i <= datafile_flushed

RootInv ==
  ~LazyCommittedLoad =>
    /\ Open => committed = LoadDatafile(datafile)
    /\ RootComplete

(* A version is secured when the flushed data file, or a log record that   *)
(* will be replayed, has it or a later one.                                *)
Secured(k, l, n) ==
  \/ l = 0
  \/ Covered(k, l)
  \/ \E i \in 1 .. n :
       wal[i].key = k /\ wal[i].lsn >= l /\ wal[i].lsn > super.wal_lsn
AckInv ==
  /\ \A k \in Key : /\ Secured(k, acked[k].lsn, wal_synced)
                    /\ Secured(k, group_acked[k].lsn, wal_synced)
  /\ \A w \in Writer :
       /\ writer[w].pc = "await" =>
            Secured(writer[w].key, writer[w].lsn, Len(wal))
       /\ writer[w].pc = "synced" =>
            Secured(writer[w].key, writer[w].lsn, wal_synced)

CleanInv ==
  /\ NoErrorYet
  /\ ShapeInv /\ ChainInv /\ TodoInv /\ CoverInv /\ FileInv /\ RootInv /\ AckInv

SamePending == Pending' = Pending /\ Todo' = Todo

(* Replaying over a table that has one key restored already.               *)
LEMMA ReplayRestored ==
  ASSUME TypeOK, NEW k \in Key, LastAbove(wal, k, sb.wal_lsn) # NoEntry
  PROVE  ReplayPending(Restored(k), wal, sb.wal_lsn)
           = ReplayPending(memtable, wal, sb.wal_lsn)
<1> DEFINE Last(j) == LastAbove(wal, j, sb.wal_lsn)
<1>1. memtable \in [Key -> Entry]
  BY DEF TypeOK
<1>2. \A j \in Key : Last(j) = NoEntry => Restored(k)[j] = memtable[j]
  BY <1>1 DEF Restored
<1>3. \A t : ReplayPending(t, wal, sb.wal_lsn)
               = [j \in Key |-> IF Last(j) = NoEntry THEN t[j] ELSE Last(j)]
  BY DEF ReplayPending
<1> HIDE DEF Last
<1>4. [j \in Key |-> IF Last(j) = NoEntry THEN Restored(k)[j] ELSE Last(j)]
        = [j \in Key |-> IF Last(j) = NoEntry THEN memtable[j] ELSE Last(j)]
  BY <1>2
<1> QED
  BY <1>3, <1>4

(* Neither reads, nor the writers' steps outside the lock, nor the start   *)
(* of a flush change what there is to flush.                               *)
LEMMA SamePendingSteps ==
  ASSUME IInv, ShapeInv, "kFastOpen" \notin CallsRecoverFull,
         \/ WriterStep \/ GroupCommit \/ Read \/ RecoverFull
         \/ \E checkpoint \in BOOLEAN : FlushBegin(checkpoint)
  PROVE  SamePending
<1>1. ASSUME phase' = phase,
             UNCHANGED <<memtable, flushing, wal, sb, wal_replay_pending,
                         flush_todo>>
      PROVE  SamePending
  BY <1>1 DEF SamePending, Pending, Todo, ReplayedTable
<1>2. CASE WriterStep \/ GroupCommit
  <2>1. /\ phase' = phase
        /\ UNCHANGED <<memtable, flushing, wal, sb, wal_replay_pending,
                       flush_todo>>
    BY <1>2 DEF WriterStep, AwaitFsync, AwaitFails, SetStable, GroupCommit,
                tables, lsns, control, disk
  <2> QED
    BY <1>1, <2>1
<1>3. CASE RecoverFull
  <2>1. RecoveryStrategy = "kFullReplay"
    <3>1. opts \in [durability : {"kSync", "kGroup", "kAsync"},
                 sync_on_commit : BOOLEAN,
                    recovery_strategy : {"kFastOpen", "kFullReplay"},
                    lazy_committed_load : BOOLEAN]
      BY OptionsOK DEF IInv, TypeOK
    <3> QED
      BY <1>3, <3>1 DEF RecoverFull, RecoveryStrategy
  <2>2. wal_replay_pending = FALSE
    BY <2>1 DEF ShapeInv, IInv, TypeOK
  <2>3. /\ phase' = phase
        /\ UNCHANGED <<memtable, flushing, wal, sb, wal_replay_pending,
                       flush_todo>>
    BY <1>3, <2>2 DEF RecoverFull, tables, control, disk
  <2> QED
    BY <1>1, <2>3
<1>4. CASE Read
  <2>1. /\ phase = "idle" /\ phase' = "idle" /\ wal_replay_pending
        /\ wal' = wal /\ sb' = sb
    BY <1>4, ReadMoves DEF IInv, disk, control
  <2>2. ReplayedTable = ReplayPending(memtable, wal, sb.wal_lsn)
    BY <2>1 DEF ReplayedTable
  <2>3. ReplayedTable' = ReplayedTable
    <3>1. CASE memtable' = memtable /\ wal_replay_pending' = TRUE
      BY <2>1, <2>2, <3>1 DEF ReplayedTable
    <3>2. CASE memtable' = ReplayedTable /\ wal_replay_pending' = FALSE
      BY <3>2 DEF ReplayedTable
    <3>3. ASSUME NEW k \in Key, LastAbove(wal, k, sb.wal_lsn) # NoEntry,
                 memtable' = Restored(k), wal_replay_pending' = TRUE
          PROVE  ReplayedTable' = ReplayedTable
      <4>1. ReplayedTable' = ReplayPending(Restored(k), wal, sb.wal_lsn)
        BY <2>1, <3>3 DEF ReplayedTable
      <4> QED
        BY <2>2, <3>3, <4>1, ReplayRestored DEF IInv
    <3> QED
      BY <1>4, <3>1, <3>2, <3>3, ReadMoves DEF IInv
  <2> QED
    BY <2>1, <2>3 DEF SamePending, Pending, Todo, Held
<1>5. CASE \E checkpoint \in BOOLEAN : FlushBegin(checkpoint)
  <2>1. /\ phase = "idle" /\ phase' = "flush" /\ flushing' = ReplayedTable
        /\ flush_todo' = Held(flushing')
    BY <1>5 DEF FlushBegin, RotateMemTableForFlush
  <2> QED
    BY <2>1 DEF SamePending, Pending, Todo
<1> QED
  BY <1>2, <1>3, <1>4, <1>5

(* A write has one more entry to flush.                                    *)
LEMMA WriteMoves ==
  ASSUME IInv, Write
  PROVE  \E k \in Key, del \in BOOLEAN :
           /\ AppendAndApply(k, del)
           /\ phase = "idle" /\ phase' = "idle"
           /\ UNCHANGED <<super, immutable, flushing, datafile,
                          datafile_flushed, sidecars, index, sb, in_checkpoint,
                          flush_todo, faults, acked>>
           /\ Len(wal') = Len(wal) + 1
           /\ wal'[Len(wal')] = [lsn |-> max_lsn + 1, key |-> k, del |-> del]
           /\ \A i \in 1 .. Len(wal) : wal'[i] = wal[i]
           /\ max_lsn' = max_lsn + 1 /\ max_lsn' \in Lsn
           /\ Pending' = [Pending EXCEPT
                            ![k] = [lsn |-> max_lsn + 1, del |-> del]]
           /\ Todo' = Todo \cup {k}
<1> PICK k \in Key, del \in BOOLEAN :
      \/ \E w \in Writer : PutSyncFastAppend(w, k, del)
      \/ WriteAsync(k, del)
      \/ WriteGroup(k, del)
  BY DEF Write
<1> DEFINE e == [lsn |-> max_lsn + 1, del |-> del]
<1>1. /\ AppendAndApply(k, del) /\ phase = "idle" /\ phase' = "idle"
      /\ UNCHANGED <<super, immutable, flushing, datafile,
                     datafile_flushed, sidecars, index, sb, in_checkpoint,
                     flush_todo, faults, acked>>
  BY DEF PutSyncFastAppend, WriteAsync, WriteGroup, control
<1>2. /\ Len(wal') = Len(wal) + 1
      /\ wal'[Len(wal')] = [lsn |-> max_lsn + 1, key |-> k, del |-> del]
      /\ \A i \in 1 .. Len(wal) : wal'[i] = wal[i]
      /\ max_lsn' = max_lsn + 1 /\ max_lsn' \in Lsn
  <2>1. TypeOK /\ LogInv /\ TablesInv /\ Open /\ Open'
    BY <1>1 DEF IInv, Open
  <2> QED
    BY <1>1, <2>1, AppendStep
<1>3. /\ memtable' = [ReplayedTable EXCEPT ![k] = e]
      /\ wal_replay_pending' = FALSE
  BY <1>1 DEF AppendAndApply
<1>4. Pending = ReplayedTable /\ Pending' = memtable'
  BY <1>1, <1>3 DEF Pending, ReplayedTable
<1>5. e # NoEntry
  BY TypeFacts DEF IInv, NoEntry
<1>6. ReplayedTable \in [Key -> Entry]
  BY TypeFacts DEF IInv
<1>7. Todo' = Todo \cup {k}
  <2>1. Todo = Held(ReplayedTable) /\ Todo' = Held(memtable')
    BY <1>1, <1>3 DEF Todo, ReplayedTable, Held
  <2> HIDE DEF e
  <2>2. \A j \in Key :
          memtable'[j] # NoEntry <=> ReplayedTable[j] # NoEntry \/ j = k
    BY <1>3, <1>5, <1>6
  <2> QED
    BY <2>1, <2>2 DEF Held
<1> QED
  BY <1>1, <1>2, <1>3, <1>4, <1>7

(* The end of a flush, and the steps of a checkpoint after it, have nothing *)
(* to flush.                                                               *)
LEMMA NothingPending ==
  ASSUME IInv, ShapeInv, phase \notin {"idle", "flush"}
  PROVE  Pending = EmptyTable /\ Todo = {}
BY DEF ShapeInv, Pending, Todo

LEMMA NothingPendingAfter ==
  ASSUME memtable' = EmptyTable, wal_replay_pending' = FALSE,
         flushing' = EmptyTable, flush_todo' = {}
  PROVE  Pending' = EmptyTable /\ Todo' = {}
BY DEF Pending, Todo, ReplayedTable, Held, EmptyTable

(* A flushed entry always extends its chain. *)
LEMMA FlushRecordMoves ==
  ASSUME IInv, ShapeInv, TodoInv, NEW k \in Key, FlushRecord(k)
  PROVE  /\ phase = "flush" /\ phase' = "flush" /\ k \in Todo
         /\ Newest(k, flushing[k]) /\ flushing[k] = Pending[k]
         /\ datafile' = Append(datafile, RecordOf(k, flushing[k]))
         /\ committed' = [committed EXCEPT ![k] = CommittedLsn(k, flushing[k])]
         /\ vcs' = [vcs EXCEPT ![k] = @ \cup {flushing[k].lsn}]
         /\ flush_todo' = flush_todo \ {k}
         /\ Pending' = Pending /\ Todo' = Todo \ {k}
         /\ UNCHANGED <<wal, wal_synced, datafile_flushed, super, vidx, sb,
                        max_lsn, memtable, immutable, flushing,
                        wal_replay_pending, writer, faults, acked, group_acked>>
<1> DEFINE e == flushing[k]
<1>1. /\ phase = "flush" /\ k \in flush_todo
      /\ datafile' = Append(datafile, RecordOf(k, e))
      /\ committed' = [committed EXCEPT ![k] = CommittedLsn(k, e)]
      /\ UNCHANGED <<wal, wal_synced, datafile_flushed, super, vidx, sb,
                     max_lsn, memtable, immutable, flushing,
                     wal_replay_pending, writer, faults, acked, group_acked>>
  BY DEF FlushRecord, RecordOf, tables, sidecars
<1>2. k \in Todo /\ e = Pending[k] /\ Newest(k, e)
  BY <1>1 DEF Todo, Pending, TodoInv
<1>3. e.lsn > ChainHead(k)
  <2>1. vcs[k] \in SUBSET (0 .. MaxLsn) /\ MaxLsn \in Nat
    BY BoundsOK DEF IInv, TypeOK, Lsn
  <2>2. ChainHead(k) = 0 \/ ChainHead(k) \in vcs[k]
    BY <2>1, MaxOfIsGreatest DEF ChainHead
  <2>3. super.wal_lsn \in Nat /\ e.lsn \in Nat
    BY TypeFacts DEF IInv, TypeOK, Entry
  <2>4. \A l \in vcs[k] : l \in Nat
    BY <2>1
  <2> QED
    BY <1>2, <2>2, <2>3, <2>4 DEF Newest
<1>4. /\ phase' = "flush" /\ flush_todo' = flush_todo \ {k}
      /\ vcs' = [vcs EXCEPT ![k] = @ \cup {e.lsn}]
  BY <1>1, <1>3 DEF FlushRecord
<1>5. Pending' = Pending /\ Todo' = Todo \ {k}
  BY <1>1, <1>4 DEF Pending, Todo
<1> QED
  BY <1>1, <1>2, <1>4, <1>5

LEMMA NextKeepsShape ==
  ASSUME IInv, ShapeInv, TodoInv, Next, NoErrorYet, NoErrorYet',
         "kFastOpen" \notin CallsRecoverFull
  PROVE  ShapeInv'
<1>0. opts' = opts
  BY DEF Next
<1>1. CASE Write
  BY <1>0, <1>1, WriteMoves
     DEF ShapeInv, AppendAndApply, Open, RecoveryStrategy, Held
<1>2. CASE WriterStep \/ GroupCommit \/ RecoverFull
  <2>1. /\ phase' = phase
        /\ UNCHANGED <<memtable, immutable, flushing, flush_todo, sb, super>>
        /\ \/ wal_replay_pending' = FALSE
           \/ wal_replay_pending' = wal_replay_pending
    BY <1>2 DEF WriterStep, AwaitFsync, AwaitFails, SetStable, GroupCommit,
                RecoverFull, tables, lsns, control, disk
  <2>2. ~wal_replay_pending => ~wal_replay_pending'
    BY <2>1, Zenon
  <2> QED
    BY <1>0, <2>1, <2>2 DEF ShapeInv, Open, RecoveryStrategy, Held
<1>3. CASE Read
  <2>1. /\ phase = "idle" /\ wal_replay_pending /\ phase' = phase
        /\ UNCHANGED <<immutable, flushing, flush_todo, sb, super>>
    BY <1>3, ReadMoves DEF IInv, control, disk
  <2> QED
    BY <1>0, <2>1 DEF ShapeInv, Open, RecoveryStrategy, Held
<1>4. CASE Flush
  <2>1. CASE \E checkpoint \in BOOLEAN : FlushBegin(checkpoint)
    BY <1>0, <2>1 DEF FlushBegin, RotateMemTableForFlush, ShapeInv, Open,
                      RecoveryStrategy
  <2>2. ASSUME NEW k \in Key, FlushRecord(k)
        PROVE  ShapeInv'
    BY <1>0, <2>2, FlushRecordMoves DEF ShapeInv, Open, RecoveryStrategy, Held
  <2>3. CASE FlushEnd
    <3>1. /\ phase = "flush" /\ phase' \in {"fold", "idle"} /\ flush_todo = {}
          /\ flushing' = EmptyTable
          /\ UNCHANGED <<memtable, immutable, flush_todo, sb, super,
                         wal_replay_pending>>
      BY <2>3 DEF FlushEnd, ClearFrozen, lsns
    <3> QED
      BY <1>0, <3>1 DEF ShapeInv, Open, RecoveryStrategy, Held
  <2>4. ~FlushFsyncFails /\ ~FlushRecordFails
    BY DEF FlushFsyncFails, FlushRecordFails, NoErrorYet
  <2> QED
    BY <1>4, <2>1, <2>2, <2>3, <2>4 DEF Flush
<1>5. CASE Checkpoint
  <2>1. ~CommitSuperBlockFails
    BY DEF CommitSuperBlockFails, NoErrorYet
  <2>2. /\ phase \notin {"idle", "flush", "down"}
        /\ phase' \notin {"flush", "down"}
        /\ UNCHANGED <<memtable, immutable, flushing, wal_replay_pending>>
        /\ \/ UNCHANGED <<sb, super>>
           \/ sb' = NextSuper /\ super' = NextSuper
        /\ flush_todo' \in {{}, flush_todo}
    BY <1>5, <2>1 DEF Checkpoint, FoldWalToVcs, CommitSuperBlock,
       SaveLsnIndexSidecar, SaveVcsSidecar, TruncateTo, ReturnError, disk,
       lsns, tables
  <2> QED
    BY <1>0, <2>2 DEF ShapeInv, Open, RecoveryStrategy, Held
<1>6. CASE Crash
  BY <1>0, <1>6 DEF Crash, LoseMemory, ShapeInv, Open, RecoveryStrategy
<1>7. CASE OpenInternal
  <2>1. /\ phase = "down" /\ phase' = "idle" /\ sb' = super
        /\ UNCHANGED <<immutable, flushing, flush_todo, super>>
        /\ RecoveryStrategy = "kFullReplay" => wal_replay_pending' = FALSE
    BY <1>7 DEF OpenInternal, RecoverFromSuperBlock, disk
  <2> QED
    BY <1>0, <2>1 DEF ShapeInv, Open, RecoveryStrategy, Held
<1> QED
  BY <1>1, <1>2, <1>3, <1>4, <1>5, <1>6, <1>7 DEF Next

(* In a log in LSN order the last record above an LSN is the newest.       *)
LEMMA LastAboveNewest ==
  ASSUME NEW log \in Seq(Record),
         \A i, j \in 1 .. Len(log) : i < j => log[i].lsn < log[j].lsn,
         NEW k, NEW lsn \in Lsn
  PROVE  \A i \in 1 .. Len(log) : log[i].key = k /\ log[i].lsn > lsn =>
           /\ log[i].lsn <= LastAbove(log, k, lsn).lsn
           /\ LastAbove(log, k, lsn) # NoEntry
<1> SUFFICES ASSUME NEW i \in 1 .. Len(log), log[i].key = k, log[i].lsn > lsn
             PROVE  /\ log[i].lsn <= LastAbove(log, k, lsn).lsn
                    /\ LastAbove(log, k, lsn) # NoEntry
  OBVIOUS
<1>1. \A j \in 1 .. Len(log) : log[j].lsn \in Nat
  <2>1. \A j \in 1 .. Len(log) : log[j] \in Record
    OBVIOUS
  <2> QED
    BY <2>1, BoundsOK DEF Record, Lsn
<1>2. lsn \in Nat
  BY BoundsOK DEF Lsn
<1>3. LastAbove(log, k, lsn) # NoEntry
  <2>1. ~(log[i].lsn <= lsn)
    BY <1>1, <1>2
  <2> QED
    BY <2>1, LastAboveIsLast
<1>4. PICK m \in 1 .. Len(log) :
        /\ LastAbove(log, k, lsn) = EntryOf(log[m])
        /\ \A j \in 1 .. Len(log) :
             log[j].key = k /\ log[j].lsn > lsn => j <= m
  BY <1>3, LastAboveIsLast
<1>5. i <= m
  BY <1>4
<1>6. log[i].lsn <= log[m].lsn
  BY <1>1, <1>5
<1> QED
  BY <1>3, <1>4, <1>6 DEF EntryOf

(* After an open, what there is to flush is what the log has above the     *)
(* superblock, whether it is replayed at once or left pending.             *)
LEMMA OpenMoves ==
  ASSUME IInv, ShapeInv, ChainInv, OpenInternal
  PROVE  /\ ~Open /\ Open' /\ phase' = "idle"
         /\ \A k \in Key : Pending'[k] = LastAbove(wal, k, super.wal_lsn)
         /\ Todo' = Held(Pending')
         /\ vcs' = vidx
         /\ max_lsn' \in Nat /\ super.wal_lsn <= max_lsn'
         /\ UNCHANGED <<wal, wal_synced, datafile, datafile_flushed, super,
                        vidx, writer, faults, acked, group_acked>>
<1>1. /\ ~Open /\ Open' /\ phase' = "idle" /\ memtable = EmptyTable
      /\ vcs' = vidx /\ sb' = super
      /\ UNCHANGED <<wal, wal_synced, datafile, datafile_flushed, super,
                     vidx, writer, faults, acked, group_acked>>
  BY DEF OpenInternal, RecoverFromSuperBlock, ShapeInv, ChainInv, Open, disk,
         sidecars
<1>2. /\ max_lsn' \in Nat /\ super.wal_lsn <= max_lsn'
      /\ RebuildKeyIndex(wal) \in Nat
      /\ \A i \in 1 .. Len(wal) : wal[i].lsn <= RebuildKeyIndex(wal)
  BY RestartCounter, TypeFacts DEF OpenInternal, IInv
<1>3. /\ Pending' = ReplayedTable'
      /\ Todo' = Held(Pending')
  BY <1>1 DEF Pending, Todo, Held
<1>4. ASSUME NEW k \in Key
      PROVE  ReplayPending(EmptyTable, wal, super.wal_lsn)[k]
               = LastAbove(wal, k, super.wal_lsn)
  <2>1. /\ EmptyTable \in [Key -> Entry] /\ EmptyTable[k] = NoEntry
        /\ wal \in Seq(Record) /\ super.wal_lsn \in Lsn
    <3>1. wal \in Seq(Record) /\ super.wal_lsn \in Lsn
      BY TypeFacts DEF IInv
    <3> QED
      BY <3>1, ConstantTypes DEF EmptyTable
  <2> QED
    BY <2>1, ReplayIs
<1>5. CASE wal_replay_pending'
  <2>1. RecoveryStrategy # "kFullReplay"
    BY <1>5 DEF OpenInternal, RecoverFromSuperBlock
  <2>2. memtable' = EmptyTable
    BY <1>1, <2>1 DEF OpenInternal, RecoverFromSuperBlock
  <2>3. Pending' = ReplayPending(EmptyTable, wal, super.wal_lsn)
    BY <1>1, <1>3, <1>5, <2>2 DEF ReplayedTable
  <2> QED
    BY <1>1, <1>2, <1>3, <1>4, <2>3
<1>6. CASE ~wal_replay_pending'
  <2>1. Pending' = memtable'
    BY <1>3, <1>6 DEF ReplayedTable
  <2>2. CASE RecoveryStrategy = "kFullReplay"
    <3>1. memtable' = ReplayPending(EmptyTable, wal, super.wal_lsn)
      BY <1>1, <2>2 DEF OpenInternal, RecoverFromSuperBlock
    <3> QED
      BY <1>1, <1>2, <1>3, <1>4, <2>1, <3>1
  <2>3. CASE RecoveryStrategy # "kFullReplay"
    <3>1. /\ memtable' = EmptyTable
          /\ wal_replay_pending' = (RebuildKeyIndex(wal) > super.wal_lsn)
      BY <1>1, <2>3 DEF OpenInternal, RecoverFromSuperBlock
    <3>2. ~(RebuildKeyIndex(wal) > super.wal_lsn)
      BY <1>6, <3>1, Zenon
    <3>3. \A i \in 1 .. Len(wal) : ~(wal[i].lsn > super.wal_lsn)
      <4> DEFINE m == RebuildKeyIndex(wal)
      <4>1. m \in Nat /\ super.wal_lsn \in Nat /\ ~(m > super.wal_lsn)
        BY <1>2, <3>2, TypeFacts DEF IInv
      <4>2. \A i \in 1 .. Len(wal) : wal[i].lsn \in Nat /\ wal[i].lsn <= m
        BY <1>2, TypeFacts DEF IInv
      <4> HIDE DEF m
      <4> QED
        BY <4>1, <4>2
    <3>4. ASSUME NEW k \in Key
          PROVE  LastAbove(wal, k, super.wal_lsn) = NoEntry
      <4>1. wal \in Seq(Record) /\ super.wal_lsn \in Lsn
        BY TypeFacts DEF IInv
      <4>2. LastAbove(wal, k, super.wal_lsn) # NoEntry
              => \E i \in 1 .. Len(wal) : wal[i].lsn > super.wal_lsn
        BY <4>1, LastAboveIsLast
      <4> QED
        BY <3>3, <4>2
    <3> QED
      BY <1>1, <1>2, <1>3, <2>1, <3>1, <3>4 DEF EmptyTable
  <2> QED
    BY <2>2, <2>3
<1> QED
  BY <1>5, <1>6

(* No record is above the counter. *)
LEMMA BelowCounter ==
  ASSUME IInv, Open
  PROVE  /\ \A i \in 1 .. Len(datafile) :
              /\ datafile[i] \in Record /\ datafile[i].lsn \in Nat
              /\ datafile[i].lsn <= max_lsn
         /\ \A k \in Key : flushing[k].lsn \in Nat /\ flushing[k].lsn <= max_lsn
<1>1. ASSUME NEW i \in 1 .. Len(datafile)
      PROVE  /\ datafile[i] \in Record /\ datafile[i].lsn \in Nat
             /\ datafile[i].lsn <= max_lsn
  <2>1. datafile[i] \in Elements(datafile)
    BY DEF Elements
  <2>2. datafile[i] \in Record /\ datafile[i].lsn \in Nat
    BY <2>1, ElementsType, TypeFacts DEF IInv, TypeOK
  <2>3. CASE datafile[i].lsn <= super.wal_lsn
    BY <2>2, <2>3, TypeFacts DEF IInv, LogInv
  <2>4. CASE \E j \in 1 .. wal_synced : wal[j] = datafile[i]
    BY SMTT(20), <2>2, <2>4, TypeFacts DEF IInv, LogInv
  <2> QED
    BY <2>1, <2>2, <2>3, <2>4 DEF IInv, WriteAhead
<1>2. ASSUME NEW k \in Key
      PROVE  flushing[k].lsn \in Nat /\ flushing[k].lsn <= max_lsn
  <2>1. flushing[k].lsn \in Nat
    BY TypeFacts DEF IInv, TypeOK, Entry
  <2>2. CASE flushing[k].lsn <= super.wal_lsn
    BY <2>1, <2>2, TypeFacts DEF IInv, LogInv
  <2>3. CASE \E j \in 1 .. Len(wal) : wal[j] = RecordOf(k, flushing[k])
    <3>1. PICK j \in 1 .. Len(wal) : wal[j] = RecordOf(k, flushing[k])
      BY <2>3
    <3>2. wal[j].lsn = flushing[k].lsn
      BY <3>1 DEF RecordOf
    <3> QED
      BY <2>1, <3>2 DEF IInv, LogInv
  <2> QED
    BY <2>1, <2>2, <2>3 DEF IInv, TablesInv, Logged, Among
<1> QED
  BY <1>1, <1>2

LEMMA NextKeepsChains ==
  ASSUME IInv, ShapeInv, ChainInv, TodoInv, Next, NoErrorYet'
  PROVE  ChainInv'
<1>0. /\ \A k \in Key : vcs[k] \subseteq Lsn /\ vidx[k] \subseteq Lsn
      /\ \A l \in Lsn : l \in Nat
      /\ super.wal_lsn \in Nat /\ max_lsn \in Nat
  BY TypeFacts DEF IInv, TypeOK
<1>1. ASSUME UNCHANGED <<vidx, vcs>>,
             super'.wal_lsn \in Nat, super.wal_lsn <= super'.wal_lsn,
             max_lsn' \in Nat, max_lsn <= max_lsn'
      PROVE  ChainInv'
  BY <1>0, <1>1 DEF ChainInv
<1>2. CASE Write
  <2>1. UNCHANGED <<vidx, vcs, super>> /\ max_lsn' = max_lsn + 1
    BY <1>2, WriteMoves DEF sidecars, index
  <2> QED
    BY <1>0, <1>1, <2>1
<1>3. CASE WriterStep \/ GroupCommit \/ RecoverFull \/ Read
  <2>1. UNCHANGED <<vidx, vcs, super, max_lsn>>
    BY <1>3, ReadMoves DEF IInv, WriterStep, AwaitFsync, AwaitFails, SetStable,
       GroupCommit, RecoverFull, disk, sidecars, index, lsns
  <2> QED
    BY <1>0, <1>1, <2>1
<1>4. CASE Flush
  <2>1. ASSUME \/ \E checkpoint \in BOOLEAN : FlushBegin(checkpoint)
               \/ FlushFsyncFails
               \/ FlushRecordFails
               \/ FlushEnd
        PROVE  ChainInv'
    <3>1. UNCHANGED <<vidx, vcs, super, max_lsn>>
      BY <2>1 DEF FlushBegin, FlushFsyncFails, FlushRecordFails, FlushEnd,
                  disk, sidecars, index, lsns
    <3> QED
      BY <1>0, <1>1, <3>1
  <2>2. ASSUME NEW k \in Key, FlushRecord(k)
        PROVE  ChainInv'
    <3>1. /\ vcs' = [vcs EXCEPT ![k] = @ \cup {flushing[k].lsn}]
          /\ UNCHANGED <<vidx, super, max_lsn>>
          /\ flushing[k].lsn > super.wal_lsn /\ Open
      BY <2>2, FlushRecordMoves DEF Newest, Open
    <3>2. 0 < flushing[k].lsn /\ flushing[k].lsn <= max_lsn
      BY <1>0, <3>1, BelowCounter
    <3>3. \A j \in Key : vcs'[j] \subseteq vcs[j] \cup {flushing[k].lsn}
      BY <3>1 DEF IInv, TypeOK
    <3> QED
      BY <3>1, <3>2, <3>3 DEF ChainInv
  <2> QED
    BY <1>4, <2>1, <2>2 DEF Flush
<1>5. CASE Checkpoint
  <2>1. CASE FoldWalToVcs
    <3>1. /\ UNCHANGED <<vidx, super, max_lsn>> /\ Open
          /\ vcs' = [k \in Key |-> vcs[k] \cup
               {r.lsn : r \in {r \in Elements(wal) :
                   r.key = k /\ r.lsn > sb.wal_lsn /\ r.lsn > ChainHead(k)}}]
      BY <2>1 DEF FoldWalToVcs, disk, sidecars, lsns, Open
    <3>2. \A r \in Elements(wal) : 0 < r.lsn /\ r.lsn <= max_lsn
      BY <3>1, TypeFacts DEF IInv, LogInv, Elements
    <3>3. \A k \in Key : \A l \in vcs'[k] :
            l \in vcs[k] \/ (0 < l /\ l <= max_lsn)
      BY <3>1, <3>2
    <3> QED
      BY <3>1, <3>3 DEF ChainInv
  <2>2. CASE SaveVcsSidecar
    <3>1. /\ vidx' = vcs /\ UNCHANGED <<super, vcs, max_lsn>>
          /\ super.wal_lsn = max_lsn
      BY <2>2 DEF SaveVcsSidecar, index, lsns, IInv, PhaseInv
    <3>2. vcs # NoSidecar
      <4>1. PICK k \in Key : TRUE
        <5>1. SUFFICES ASSUME Key = {} PROVE FALSE
          OBVIOUS
        <5>2. vidx = NoSidecar
          BY <5>1 DEF NoSidecar, IInv, TypeOK
        <5> QED
          BY <5>2 DEF ChainInv
      <4>2. NoSidecar[k] = {0} /\ 0 \notin vcs[k]
        BY <1>0 DEF NoSidecar, ChainInv
      <4> QED
        BY <4>2
    <3> QED
      BY <3>1, <3>2 DEF ChainInv
  <2>3. ASSUME \/ CommitSuperBlock
               \/ CommitSuperBlockFails
               \/ SaveLsnIndexSidecar
               \/ TruncateTo
        PROVE  ChainInv'
    <3>1. /\ UNCHANGED <<vidx, vcs>> /\ Open
          /\ super' = super \/ super' = NextSuper
      BY <2>3 DEF CommitSuperBlock, CommitSuperBlockFails, SaveLsnIndexSidecar,
                  TruncateTo, disk, sidecars, index, Open
    <3>2. max_lsn' = max_lsn
      <4>1. CASE TruncateTo
        BY <4>1, TruncateEmpties DEF IInv
      <4>2. CASE ~TruncateTo
        BY <2>3, <4>2 DEF CommitSuperBlock, CommitSuperBlockFails,
           SaveLsnIndexSidecar, lsns
      <4> QED
        BY <4>1, <4>2
    <3>3. super.wal_lsn <= max_lsn
      BY <3>1 DEF IInv, LogInv
    <3>4. super'.wal_lsn \in {super.wal_lsn, max_lsn}
      BY <3>1 DEF NextSuper
    <3> QED
      BY <1>0, <1>1, <3>1, <3>2, <3>3, <3>4
  <2> QED
    BY <1>5, <2>1, <2>2, <2>3 DEF Checkpoint
<1>6. CASE Crash
  <2>1. UNCHANGED <<vidx, super>> /\ vcs' = [k \in Key |-> {}]
    BY <1>6 DEF Crash, LoseMemory, sidecars
  <2> QED
    BY <2>1 DEF ChainInv
<1>7. CASE OpenInternal
  <2>1. /\ UNCHANGED <<vidx, super>> /\ vcs' = vidx
        /\ super.wal_lsn <= max_lsn' /\ max_lsn' \in Nat
    BY <1>7, OpenMoves
  <2> QED
    BY <1>0, <2>1 DEF ChainInv
<1> QED
  BY <1>2, <1>3, <1>4, <1>5, <1>6, <1>7 DEF Next

(* What the steps after the records of a flush leave to do: nothing.       *)
LEMMA EmptyMoves ==
  ASSUME IInv, ShapeInv, TodoInv, Next, NoErrorYet',
         FlushEnd \/ Checkpoint \/ Crash
  PROVE  Pending' = EmptyTable /\ Todo' = {}
<1>1. CASE FlushEnd
  <2>1. /\ memtable' = EmptyTable /\ wal_replay_pending' = FALSE
        /\ flushing' = EmptyTable /\ flush_todo' = {}
    BY <1>1 DEF FlushEnd, ClearFrozen, ShapeInv, lsns, IInv, TypeOK
  <2> QED
    BY <2>1, NothingPendingAfter
<1>2. CASE Checkpoint
  <2>1. /\ phase \notin {"idle", "flush"}
        /\ UNCHANGED <<memtable, flushing, wal_replay_pending>>
        /\ flush_todo' \in {{}, flush_todo}
    BY <1>2 DEF Checkpoint, FoldWalToVcs, CommitSuperBlock,
       CommitSuperBlockFails, SaveLsnIndexSidecar, SaveVcsSidecar, TruncateTo,
       ReturnError, lsns, tables, control
  <2>2. /\ memtable' = EmptyTable /\ wal_replay_pending' = FALSE
        /\ flushing' = EmptyTable /\ flush_todo' = {}
    BY <2>1 DEF ShapeInv, IInv, TypeOK
  <2> QED
    BY <2>2, NothingPendingAfter
<1>3. CASE Crash
  <2>1. /\ memtable' = EmptyTable /\ wal_replay_pending' = FALSE
        /\ flushing' = EmptyTable /\ flush_todo' = {}
    BY <1>3 DEF Crash, LoseMemory
  <2> QED
    BY <2>1, NothingPendingAfter
<1> QED
  BY <1>1, <1>2, <1>3

LEMMA NextKeepsTodo ==
  ASSUME IInv, ShapeInv, ChainInv, TodoInv, Next, NoErrorYet, NoErrorYet',
         "kFastOpen" \notin CallsRecoverFull
  PROVE  TodoInv'
<1>0. Todo \subseteq Key
  BY DEF Todo, Held, IInv, TypeOK
<1>1. CASE Write
  <2> PICK k \in Key, del \in BOOLEAN :
        /\ UNCHANGED <<super, datafile, index>>
        /\ Pending' = [Pending EXCEPT ![k] = [lsn |-> max_lsn + 1, del |-> del]]
        /\ Todo' = Todo \cup {k}
        /\ phase = "idle"
    BY <1>1, WriteMoves
  <2> DEFINE e == [lsn |-> max_lsn + 1, del |-> del]
  <2>1. Open /\ UNCHANGED vcs
    BY DEF Open, index
  <2>2. Pending \in [Key -> Entry]
    BY TypeFacts DEF Pending, IInv
  <2>3. Newest(k, e)
    <3>1. super.wal_lsn <= max_lsn /\ super.wal_lsn \in Nat /\ max_lsn \in Nat
      BY <2>1, TypeFacts DEF IInv, LogInv
    <3>2. \A l \in vcs[k] : l \in Nat /\ l <= max_lsn
      BY TypeFacts DEF ChainInv, IInv, TypeOK
    <3>3. \A i \in 1 .. Len(datafile) :
            datafile[i].lsn \in Nat /\ datafile[i].lsn <= max_lsn
      BY <2>1, BelowCounter
    <3> QED
      BY <3>1, <3>2, <3>3 DEF Newest
  <2> HIDE DEF e
  <2>4. \A j \in Todo' : Newest(j, Pending'[j])
    BY <1>0, <2>2, <2>3 DEF TodoInv, e
  <2> QED
    BY <2>1, <2>4 DEF TodoInv, Newest
<1>2. CASE \/ WriterStep \/ GroupCommit \/ Read \/ RecoverFull
           \/ \E checkpoint \in BOOLEAN : FlushBegin(checkpoint)
  <2>1. Pending' = Pending /\ Todo' = Todo
    BY <1>2, SamePendingSteps DEF SamePending
  <2>2. UNCHANGED <<super, datafile, vcs>>
    BY <1>2, ReadMoves DEF IInv, WriterStep, AwaitFsync, AwaitFails, SetStable,
       GroupCommit, RecoverFull, FlushBegin, disk, index
  <2> QED
    BY <2>1, <2>2 DEF TodoInv, Newest
<1>3. ASSUME NEW k \in Key, FlushRecord(k)
      PROVE  TodoInv'
  <2> DEFINE r == RecordOf(k, flushing[k])
  <2>1. /\ datafile' = Append(datafile, r)
        /\ vcs' = [vcs EXCEPT ![k] = @ \cup {flushing[k].lsn}]
        /\ Pending' = Pending /\ Todo' = Todo \ {k} /\ super' = super
    BY <1>3, FlushRecordMoves
  <2>2. r.key = k /\ datafile \in Seq(Record)
    BY DEF RecordOf, IInv, TypeOK
  <2> HIDE DEF r
  <2>3. \A i \in 1 .. Len(datafile') :
          \/ i \in 1 .. Len(datafile) /\ datafile'[i] = datafile[i]
          \/ datafile'[i] = r
    BY <2>1, <2>2
  <2>4. ASSUME NEW j \in Todo, j # k
        PROVE  /\ Pending[j].lsn > super.wal_lsn
               /\ \A l \in vcs'[j] : l < Pending[j].lsn
               /\ \A i \in 1 .. Len(datafile') :
                    datafile'[i].key = j => datafile'[i].lsn <= Pending[j].lsn
    <3>1. vcs'[j] = vcs[j]
      BY <1>0, <2>1, <2>4 DEF IInv, TypeOK
    <3>2. Newest(j, Pending[j])
      BY DEF TodoInv
    <3> QED
      BY <2>2, <2>3, <2>4, <3>1, <3>2 DEF Newest
  <2> QED
    BY <2>1, <2>4 DEF TodoInv, Newest
<1>4. CASE FlushEnd \/ Checkpoint \/ Crash
  BY <1>4, EmptyMoves DEF TodoInv
<1>5. CASE OpenInternal
  <2>1. /\ Todo' = Held(Pending') /\ vcs' = vidx
        /\ \A k \in Key : Pending'[k] = LastAbove(wal, k, super.wal_lsn)
        /\ UNCHANGED <<wal, wal_synced, super, datafile>>
    BY <1>5, OpenMoves
  <2>2. ASSUME NEW k \in Key, Pending'[k] # NoEntry
        PROVE  /\ Pending'[k].lsn > super.wal_lsn
               /\ \A l \in vidx[k] : l < Pending'[k].lsn
               /\ \A i \in 1 .. Len(datafile) :
                    datafile[i].key = k => datafile[i].lsn <= Pending'[k].lsn
    <3> DEFINE e == LastAbove(wal, k, super.wal_lsn)
    <3>1. /\ e = Pending'[k] /\ e # NoEntry
          /\ super.wal_lsn \in Nat /\ super.wal_lsn \in Lsn
      BY <2>1, <2>2, TypeFacts DEF IInv
    <3>2. e.lsn > super.wal_lsn /\ e.lsn \in Nat
      BY SMTT(20), <3>1, LastAboveIsLast, TypeFacts DEF IInv, EntryOf
    <3>3. \A l \in vidx[k] : l \in Nat /\ l <= super.wal_lsn
      BY TypeFacts DEF ChainInv, IInv, TypeOK
    <3>4. \A i \in 1 .. Len(wal) :
            wal[i].key = k /\ wal[i].lsn > super.wal_lsn => wal[i].lsn <= e.lsn
      BY <3>1, LastAboveNewest, TypeFacts DEF IInv, LogInv
    <3> HIDE DEF e
    <3>5. ASSUME NEW i \in 1 .. Len(datafile), datafile[i].key = k
          PROVE  datafile[i].lsn <= e.lsn
      <4>1. datafile[i] \in Elements(datafile)
        BY DEF Elements
      <4>2. datafile[i].lsn \in Nat
        BY <4>1, ElementsType, TypeFacts DEF IInv, TypeOK
      <4>3. CASE datafile[i].lsn <= super.wal_lsn
        BY <3>1, <3>2, <4>2, <4>3
      <4>4. CASE ~(datafile[i].lsn <= super.wal_lsn)
        <5>1. PICK j \in 1 .. wal_synced : wal[j] = datafile[i]
          BY <4>1, <4>4 DEF IInv, WriteAhead
        <5>2. j \in 1 .. Len(wal) /\ wal[j].lsn > super.wal_lsn
          BY SMTT(20), <3>1, <4>2, <4>4, <5>1, TypeFacts DEF IInv
        <5> QED
          BY <3>4, <3>5, <5>1, <5>2
      <4> QED
        BY <4>3, <4>4
    <3>6. \A l \in vidx[k] : l < e.lsn
      BY <3>1, <3>2, <3>3
    <3> QED
      BY <3>1, <3>2, <3>5, <3>6
  <2> QED
    BY <2>1, <2>2 DEF TodoInv, Newest, Held
<1>6. ~FlushFsyncFails /\ ~FlushRecordFails
  BY DEF FlushFsyncFails, FlushRecordFails, NoErrorYet
<1> QED
  BY <1>1, <1>2, <1>3, <1>4, <1>5, <1>6 DEF Next, Flush

LEMMA NextKeepsFile ==
  ASSUME IInv, ShapeInv, TodoInv, FileInv, Next, NoErrorYet, NoErrorYet'
  PROVE  FileInv'
<1>0. /\ datafile \in Seq(Record) /\ Len(datafile) \in Nat
      /\ datafile_flushed \in 0 .. Len(datafile)
  BY DEF IInv, TypeOK
<1>1. ASSUME UNCHANGED <<datafile, datafile_flushed, super>>,
             \/ phase' \in {"idle", "flush", "down"}
             \/ phase \notin {"idle", "flush", "down"}
      PROVE  FileInv'
  BY <1>1 DEF FileInv
<1>2. CASE Write
  BY <1>1, <1>2, WriteMoves
<1>3. CASE WriterStep \/ GroupCommit \/ RecoverFull \/ Read
  <2>1. phase' = phase /\ UNCHANGED <<datafile, datafile_flushed, super>>
    BY <1>3, ReadMoves DEF IInv, WriterStep, AwaitFsync, AwaitFails, SetStable,
       GroupCommit, RecoverFull, disk, control
  <2> QED
    BY <1>1, <2>1
<1>4. CASE Flush
  <2>1. CASE \E checkpoint \in BOOLEAN : FlushBegin(checkpoint)
    BY <1>1, <2>1 DEF FlushBegin
  <2>2. ASSUME NEW k \in Key, FlushRecord(k)
        PROVE  FileInv'
    <3> DEFINE r == RecordOf(k, flushing[k])
    <3>1. /\ datafile' = Append(datafile, r) /\ phase' = "flush"
          /\ Newest(k, flushing[k])
          /\ UNCHANGED <<datafile_flushed, super>>
      BY <2>2, FlushRecordMoves
    <3>2. r.key = k /\ r.lsn = flushing[k].lsn
      BY DEF RecordOf
    <3> HIDE DEF r
    <3>3. /\ Len(datafile') = Len(datafile) + 1
          /\ \A i \in 1 .. Len(datafile) : datafile'[i] = datafile[i]
          /\ datafile'[Len(datafile')] = r
      BY <1>0, <3>1
    <3>4. \A i \in 1 .. Len(datafile') :
            i \in 1 .. Len(datafile) \/ i = Len(datafile')
      BY <1>0, <3>3
    <3>5. ASSUME NEW i \in 1 .. Len(datafile'), NEW j \in 1 .. Len(datafile'),
                 i < j, datafile'[i].key = datafile'[j].key
          PROVE  datafile'[i].lsn <= datafile'[j].lsn
      <4>1. i \in 1 .. Len(datafile)
        BY <1>0, <3>3, <3>4, <3>5
      <4>2. CASE j \in 1 .. Len(datafile)
        BY <3>3, <3>5, <4>1, <4>2 DEF FileInv
      <4>3. CASE j = Len(datafile')
        BY <3>1, <3>2, <3>3, <3>5, <4>1, <4>3 DEF Newest
      <4> QED
        BY <3>4, <4>2, <4>3
    <3>6. ASSUME NEW i \in 1 .. Len(datafile'),
                 datafile'[i].lsn <= super'.wal_lsn
          PROVE  i <= datafile_flushed'
      <4>1. CASE i \in 1 .. Len(datafile)
        BY <3>1, <3>3, <3>6, <4>1 DEF FileInv
      <4>2. CASE i = Len(datafile')
        <5>1. flushing[k].lsn \in Nat /\ super.wal_lsn \in Nat
          BY TypeFacts DEF IInv, TypeOK, Entry
        <5> QED
          BY <3>1, <3>2, <3>3, <3>6, <4>2, <5>1 DEF Newest
      <4> QED
        BY <3>4, <4>1, <4>2
    <3> QED
      BY <3>1, <3>5, <3>6 DEF FileInv
  <2>3. CASE FlushEnd
    <3>1. datafile' = datafile /\ datafile_flushed' = Len(datafile)
      BY <2>3 DEF FlushEnd, FlushAppendStream
    <3> QED
      BY <1>0, <3>1 DEF FileInv
  <2>4. ~FlushFsyncFails /\ ~FlushRecordFails
    BY DEF FlushFsyncFails, FlushRecordFails, NoErrorYet
  <2> QED
    BY <1>4, <2>1, <2>2, <2>3, <2>4 DEF Flush
<1>5. CASE Checkpoint
  <2>1. /\ phase \notin {"idle", "flush", "down"}
        /\ UNCHANGED <<datafile, datafile_flushed>>
    BY <1>5 DEF Checkpoint, FoldWalToVcs, CommitSuperBlock,
       CommitSuperBlockFails, SaveLsnIndexSidecar, SaveVcsSidecar, TruncateTo,
       disk
  <2>2. datafile_flushed = Len(datafile)
    BY <2>1 DEF FileInv
  <2> QED
    BY <1>0, <2>1, <2>2 DEF FileInv
<1>6. CASE Crash
  <2>1. /\ Len(datafile') \in datafile_flushed .. Len(datafile)
        /\ \A i \in 1 .. Len(datafile') : datafile'[i] = datafile[i]
        /\ datafile_flushed' = Len(datafile')
    BY <1>6, CrashLeaves DEF IInv
  <2>2. \A i \in 1 .. Len(datafile') : i \in 1 .. Len(datafile)
    BY <1>0, <2>1
  <2>3. phase' = "down"
    BY <1>6 DEF Crash, LoseMemory
  <2> QED
    BY <1>0, <2>1, <2>2, <2>3 DEF FileInv
<1>7. CASE OpenInternal
  BY <1>1, <1>7 DEF OpenInternal, disk
<1> QED
  BY <1>2, <1>3, <1>4, <1>5, <1>6, <1>7 DEF Next

(* The data file keeps its flushed part: what was covered stays covered.   *)
FileKept ==
  /\ datafile_flushed' \in Nat /\ datafile_flushed <= datafile_flushed'
  /\ \A i \in 1 .. datafile_flushed : datafile'[i] = datafile[i]

LEMMA CoveredStays ==
  ASSUME TypeOK, FileKept
  PROVE  \A k, l : Covered(k, l) =>
           \E i \in 1 .. datafile_flushed' :
             datafile'[i].key = k /\ datafile'[i].lsn >= l
<1> SUFFICES ASSUME NEW k, NEW l, Covered(k, l)
             PROVE  \E i \in 1 .. datafile_flushed' :
                      datafile'[i].key = k /\ datafile'[i].lsn >= l
  OBVIOUS
<1>1. PICK i \in 1 .. datafile_flushed :
        datafile[i].key = k /\ datafile[i].lsn >= l
  BY DEF Covered, Stored
<1>2. i \in 1 .. datafile_flushed' /\ datafile'[i] = datafile[i]
  BY DEF TypeOK, FileKept
<1> QED
  BY <1>1, <1>2

(* With the flush behind it, a checkpoint has the whole log covered.       *)
LEMMA AllCovered ==
  ASSUME IInv, ShapeInv, CoverInv, phase \notin {"idle", "flush", "down"}
  PROVE  \A i \in 1 .. Len(wal) : Covered(wal[i].key, wal[i].lsn)
<1> SUFFICES ASSUME NEW i \in 1 .. Len(wal)
             PROVE  Covered(wal[i].key, wal[i].lsn)
  OBVIOUS
<1>1. Pending = EmptyTable /\ Open
  BY NothingPending DEF Open
<1>2. wal[i].key \in Key /\ wal[i].lsn \in Nat /\ wal[i].lsn > 0
  BY TypeFacts DEF IInv, LogInv
<1>3. Pending[wal[i].key].lsn = 0
  BY <1>1, <1>2 DEF EmptyTable, NoEntry
<1>4. Covered(wal[i].key, wal[i].lsn) \/ wal[i].lsn <= Pending[wal[i].key].lsn
  BY <1>1 DEF CoverInv, LogCovered, CoveredRecord
<1> QED
  BY <1>2, <1>3, <1>4

LEMMA FlushEndStores ==
  ASSUME IInv, ShapeInv, CoverInv, FlushEnd
  PROVE  \A i \in 1 .. Len(wal) :
           Stored(wal[i].key, wal[i].lsn, Len(datafile))
<1> SUFFICES ASSUME NEW i \in 1 .. Len(wal)
             PROVE  Stored(wal[i].key, wal[i].lsn, Len(datafile))
  OBVIOUS
<1> DEFINE k == wal[i].key
<1>1. k \in Key /\ wal[i].lsn \in Nat /\ wal[i].lsn > 0
  BY TypeFacts DEF IInv, LogInv
<1>2. /\ Open /\ Todo = {} /\ Pending = flushing
      /\ datafile_flushed \in 0 .. Len(datafile)
      /\ flushing[k] \in Entry
  BY <1>1 DEF FlushEnd, Open, Todo, Pending, IInv, TypeOK
<1>3. CASE Covered(k, wal[i].lsn)
  BY <1>2, <1>3 DEF Covered, Stored
<1>4. CASE wal[i].lsn <= Pending[k].lsn
  <2>1. Pending[k].lsn \in Nat
    BY <1>2, TypeFacts DEF Entry, IInv
  <2>2. Pending[k] # NoEntry
    BY <1>1, <1>4, <2>1 DEF NoEntry
  <2>3. Stored(k, Pending[k].lsn, Len(datafile))
    BY <1>1, <1>2, <2>2 DEF CoverInv, DoneStored, Held
  <2>4. PICK j \in 1 .. Len(datafile) :
          datafile[j].key = k /\ datafile[j].lsn >= Pending[k].lsn
    BY <2>3 DEF Stored
  <2>5. datafile[j].lsn \in Nat
    BY <1>2, BelowCounter
  <2>6. datafile[j].lsn >= wal[i].lsn
    BY <1>1, <1>4, <2>1, <2>4, <2>5
  <2> QED
    BY <2>4, <2>6 DEF Stored
<1>5. Covered(k, wal[i].lsn) \/ wal[i].lsn <= Pending[k].lsn
  BY <1>2 DEF CoverInv, LogCovered, CoveredRecord
<1> QED
  BY <1>3, <1>4, <1>5

(* Steps that leave a record covered: it was, and the data file keeps its  *)
(* flushed part; or its superblock and what is pending for its key stay.   *)
LEMMA RecordStays ==
  ASSUME TypeOK, FileKept
  PROVE  \A r :
           /\ CoveredRecord(r)
           /\ \/ Covered(r.key, r.lsn)
              \/ /\ super' = super
                 /\ Open' => Open /\ Pending'[r.key] = Pending[r.key]
           => LET stays == \E j \in 1 .. datafile_flushed' :
                             datafile'[j].key = r.key /\ datafile'[j].lsn >= r.lsn
              IN  /\ r.lsn <= super'.wal_lsn => stays
                  /\ Open' => stays \/ r.lsn <= Pending'[r.key].lsn
<1> DEFINE Stays(k, l) == \E j \in 1 .. datafile_flushed' :
                            datafile'[j].key = k /\ datafile'[j].lsn >= l
<1>1. \A k, l : Covered(k, l) => Stays(k, l)
  BY CoveredStays
<1> HIDE DEF Stays
<1>2. ASSUME NEW r, CoveredRecord(r),
             \/ Covered(r.key, r.lsn)
             \/ /\ super' = super
                /\ Open' => Open /\ Pending'[r.key] = Pending[r.key]
      PROVE  /\ r.lsn <= super'.wal_lsn => Stays(r.key, r.lsn)
             /\ Open' => Stays(r.key, r.lsn) \/ r.lsn <= Pending'[r.key].lsn
  <2>1. CASE Covered(r.key, r.lsn)
    BY <1>1, <2>1
  <2>2. CASE ~Covered(r.key, r.lsn)
    BY <1>1, <1>2, <2>2 DEF CoveredRecord
  <2> QED
    BY <2>1, <2>2
<1> QED
  BY <1>2 DEF Stays

LEMMA LogCoveredStays ==
  ASSUME TypeOK, LogCovered, FileKept,
         \A i \in 1 .. Len(wal') : /\ i \in 1 .. Len(wal) /\ wal'[i] = wal[i],
         \A i \in 1 .. Len(wal') :
           \/ Covered(wal[i].key, wal[i].lsn)
           \/ /\ super' = super
              /\ Open' => Open /\ Pending'[wal[i].key] = Pending[wal[i].key]
  PROVE  LogCovered'
<1> DEFINE Stays(k, l) == \E j \in 1 .. datafile_flushed' :
                            datafile'[j].key = k /\ datafile'[j].lsn >= l
<1>1. ASSUME NEW i \in 1 .. Len(wal')
      PROVE  /\ wal'[i].lsn <= super'.wal_lsn => Stays(wal'[i].key, wal'[i].lsn)
             /\ Open' => \/ Stays(wal'[i].key, wal'[i].lsn)
                         \/ wal'[i].lsn <= Pending'[wal'[i].key].lsn
  <2>1. CoveredRecord(wal[i]) /\ wal'[i] = wal[i]
    BY DEF LogCovered
  <2> QED
    BY <2>1, RecordStays
<1> QED
  BY <1>1 DEF LogCovered, CoveredRecord, Covered, Stored

(* While no flush is under way, all that is pending is still to do.        *)
LEMMA IdleDone ==
  ASSUME phase' = "idle"
  PROVE  DoneStored'
BY DEF DoneStored, Todo, Pending

LEMMA WriteKeepsCover ==
  ASSUME IInv, ShapeInv, CoverInv, Write
  PROVE  CoverInv'
<1> PICK k \in Key, del \in BOOLEAN :
      /\ phase = "idle" /\ phase' = "idle"
      /\ UNCHANGED <<super, datafile, datafile_flushed>>
      /\ Len(wal') = Len(wal) + 1
      /\ wal'[Len(wal')] = [lsn |-> max_lsn + 1, key |-> k, del |-> del]
      /\ \A i \in 1 .. Len(wal) : wal'[i] = wal[i]
      /\ Pending' = [Pending EXCEPT ![k] = [lsn |-> max_lsn + 1, del |-> del]]
  BY WriteMoves
<1>1. /\ Open /\ max_lsn \in Nat /\ super.wal_lsn \in Nat /\ Len(wal) \in Nat
      /\ super.wal_lsn <= max_lsn
      /\ Pending \in [Key -> Entry]
  BY TypeFacts DEF Open, Pending, IInv, LogInv
<1>2. ASSUME NEW i \in 1 .. Len(wal')
      PROVE  /\ wal'[i].lsn <= super.wal_lsn
                  => Covered(wal'[i].key, wal'[i].lsn)
             /\ \/ Covered(wal'[i].key, wal'[i].lsn)
                \/ wal'[i].lsn <= Pending'[wal'[i].key].lsn
  <2>1. CASE i = Len(wal')
    <3>1. wal'[i].lsn = max_lsn + 1 /\ wal'[i].key = k
      BY <2>1
    <3>2. Pending'[k].lsn = max_lsn + 1
      BY <1>1
    <3> QED
      BY <1>1, <3>1, <3>2
  <2>2. CASE i \in 1 .. Len(wal)
    <3>1. wal'[i] = wal[i] /\ CoveredRecord(wal[i])
      BY <2>2 DEF CoverInv, LogCovered
    <3>2. /\ wal[i].lsn \in Nat /\ wal[i].lsn <= max_lsn
      BY <1>1, <2>2, TypeFacts DEF IInv, LogInv
    <3>3. wal[i].lsn <= Pending[wal[i].key].lsn
            => wal[i].lsn <= Pending'[wal[i].key].lsn
      <4>1. CASE wal[i].key = k
        <5>1. Pending'[k].lsn = max_lsn + 1
          BY <1>1
        <5> QED
          BY <1>1, <3>2, <4>1, <5>1
      <4>2. CASE wal[i].key # k
        <5>1. wal[i].key \in Key
          BY <2>2, TypeFacts DEF IInv
        <5>2. Pending'[wal[i].key] = Pending[wal[i].key]
          BY <1>1, <4>2, <5>1
        <5> QED
          BY <5>2
      <4> QED
        BY <4>1, <4>2
    <3> QED
      BY <1>1, <3>1, <3>3 DEF CoveredRecord
  <2> QED
    BY <1>1, <2>1, <2>2
<1>3. LogCovered'
  BY <1>2 DEF LogCovered, CoveredRecord, Covered, Stored
<1> QED
  BY <1>3, IdleDone DEF CoverInv

(* What a flush stores next is the pending entry of its key.               *)
LEMMA FlushRecordKeepsCover ==
  ASSUME IInv, ShapeInv, TodoInv, CoverInv, NEW k \in Key, FlushRecord(k)
  PROVE  CoverInv'
<1>1. /\ phase = "flush" /\ phase' = "flush" /\ k \in Todo
      /\ flushing[k] = Pending[k]
      /\ datafile' = Append(datafile, RecordOf(k, flushing[k]))
      /\ Pending' = Pending /\ Todo' = Todo \ {k}
      /\ UNCHANGED <<wal, datafile_flushed, super>>
  BY FlushRecordMoves
<1>2. /\ datafile \in Seq(Record) /\ datafile_flushed \in 0 .. Len(datafile)
      /\ Len(datafile) \in Nat
  BY DEF IInv, TypeOK
<1> DEFINE r == RecordOf(k, flushing[k])
<1>3. r.key = k /\ r.lsn = Pending[k].lsn /\ Pending[k].lsn \in Nat
  BY <1>1, TypeFacts DEF RecordOf, IInv, TypeOK, Entry
<1> HIDE DEF r
<1>4. /\ Len(datafile') = Len(datafile) + 1
      /\ \A i \in 1 .. Len(datafile) : datafile'[i] = datafile[i]
      /\ datafile'[Len(datafile')] = r
  BY <1>1, <1>2 DEF r
<1>5. FileKept
  BY <1>1, <1>2, <1>4 DEF FileKept
<1>6. LogCovered'
  <2>1. Open /\ wal' = wal
    BY <1>1 DEF Open
  <2> QED
    BY <1>1, <1>5, <2>1, LogCoveredStays DEF IInv, CoverInv
<1>7. ASSUME NEW j \in Held(Pending) \ (Todo \ {k})
      PROVE  \E i \in 1 .. Len(datafile') :
               datafile'[i].key = j /\ datafile'[i].lsn >= Pending[j].lsn
  <2>1. CASE j = k
    <3>1. Len(datafile') \in 1 .. Len(datafile')
      BY <1>2, <1>4
    <3> QED
      BY <1>3, <1>4, <2>1, <3>1
  <2>2. CASE j # k
    <3>1. PICK i \in 1 .. Len(datafile) :
            datafile[i].key = j /\ datafile[i].lsn >= Pending[j].lsn
      BY <1>7, <2>2 DEF CoverInv, DoneStored, Stored
    <3>2. i \in 1 .. Len(datafile') /\ datafile'[i] = datafile[i]
      BY <1>2, <1>4
    <3> QED
      BY <3>1, <3>2
  <2> QED
    BY <2>1, <2>2
<1>8. DoneStored'
  BY <1>1, <1>7 DEF DoneStored, Stored, Held
<1> QED
  BY <1>6, <1>8 DEF CoverInv

LEMMA FlushEndKeepsCover ==
  ASSUME IInv, ShapeInv, CoverInv, FlushEnd
  PROVE  CoverInv'
<1>1. UNCHANGED <<wal, datafile>> /\ datafile_flushed' = Len(datafile)
  BY DEF FlushEnd, FlushAppendStream
<1>2. LogCovered'
  BY <1>1, FlushEndStores DEF LogCovered, CoveredRecord, Covered, Stored
<1>3. Pending' = EmptyTable
  <2>1. /\ memtable' = EmptyTable /\ wal_replay_pending' = FALSE
        /\ flushing' = EmptyTable /\ flush_todo' = {}
    BY DEF FlushEnd, ClearFrozen, ShapeInv, lsns, IInv, TypeOK
  <2> QED
    BY <2>1, NothingPendingAfter
<1> QED
  BY <1>2, <1>3 DEF CoverInv, DoneStored, Held, EmptyTable

LEMMA CheckpointKeepsCover ==
  ASSUME IInv, ShapeInv, TodoInv, FileInv, CoverInv, Next, NoErrorYet',
         Checkpoint
  PROVE  CoverInv'
<1>1. /\ phase \notin {"idle", "flush", "down"}
      /\ UNCHANGED <<datafile, datafile_flushed>>
  BY DEF Checkpoint, FoldWalToVcs, CommitSuperBlock, CommitSuperBlockFails,
         SaveLsnIndexSidecar, SaveVcsSidecar, TruncateTo, disk
<1>2. \A i \in 1 .. Len(wal) : Covered(wal[i].key, wal[i].lsn)
  BY <1>1, AllCovered
<1>3. wal' \in {wal, <<>>}
  <2>1. CASE TruncateTo
    BY <2>1, TruncateEmpties DEF IInv
  <2>2. CASE ~TruncateTo
    BY <2>2 DEF Checkpoint, FoldWalToVcs, CommitSuperBlock,
           CommitSuperBlockFails, SaveLsnIndexSidecar, SaveVcsSidecar, disk
  <2> QED
    BY <2>1, <2>2
<1>4. FileKept
  BY <1>1 DEF FileKept, IInv, TypeOK
<1>5. \A i \in 1 .. Len(wal') : i \in 1 .. Len(wal) /\ wal'[i] = wal[i]
  BY <1>3
<1>6. LogCovered'
  BY <1>2, <1>4, <1>5, LogCoveredStays DEF IInv, CoverInv
<1>7. Pending' = EmptyTable
  BY EmptyMoves
<1> QED
  BY <1>6, <1>7 DEF CoverInv, DoneStored, Held, EmptyTable

LEMMA CrashKeepsCover ==
  ASSUME IInv, ShapeInv, TodoInv, CoverInv, Next, NoErrorYet', Crash
  PROVE  CoverInv'
<1>1. /\ Len(wal') \in wal_synced .. Len(wal)
      /\ \A i \in 1 .. Len(wal') : wal'[i] = wal[i]
      /\ Len(datafile') \in datafile_flushed .. Len(datafile)
      /\ \A i \in 1 .. Len(datafile') : datafile'[i] = datafile[i]
      /\ datafile_flushed' = Len(datafile')
  BY CrashLeaves DEF IInv
<1>2. super' = super /\ ~Open'
  BY DEF Crash, LoseMemory, Open
<1>3. /\ wal_synced \in 0 .. Len(wal) /\ Len(wal) \in Nat
      /\ datafile_flushed \in 0 .. Len(datafile) /\ Len(datafile) \in Nat
  BY DEF IInv, TypeOK
<1>4. FileKept
  BY <1>1, <1>3 DEF FileKept
<1>5. \A i \in 1 .. Len(wal') : i \in 1 .. Len(wal) /\ wal'[i] = wal[i]
  BY <1>1, <1>3
<1>6. LogCovered'
  BY <1>2, <1>4, <1>5, LogCoveredStays DEF IInv, CoverInv
<1>7. Pending' = EmptyTable
  BY EmptyMoves
<1> QED
  BY <1>6, <1>7 DEF CoverInv, DoneStored, Held, EmptyTable

LEMMA OpenKeepsCover ==
  ASSUME IInv, ShapeInv, ChainInv, CoverInv, OpenInternal
  PROVE  CoverInv'
<1>1. /\ phase' = "idle" /\ Todo' = Held(Pending')
      /\ \A k \in Key : Pending'[k] = LastAbove(wal, k, super.wal_lsn)
      /\ UNCHANGED <<wal, datafile, datafile_flushed, super>>
  BY OpenMoves
<1>2. ASSUME NEW i \in 1 .. Len(wal)
      PROVE  /\ wal[i].lsn <= super.wal_lsn => Covered(wal[i].key, wal[i].lsn)
             /\ \/ Covered(wal[i].key, wal[i].lsn)
                \/ wal[i].lsn <= Pending'[wal[i].key].lsn
  <2>1. wal[i].lsn <= super.wal_lsn => Covered(wal[i].key, wal[i].lsn)
    BY DEF CoverInv, LogCovered, CoveredRecord
  <2>2. wal[i].lsn \in Nat /\ super.wal_lsn \in Nat /\ wal[i].key \in Key
    BY TypeFacts DEF IInv
  <2>3. CASE wal[i].lsn > super.wal_lsn
    <3>1. wal[i].lsn <= LastAbove(wal, wal[i].key, super.wal_lsn).lsn
      BY <2>3, LastAboveNewest, TypeFacts DEF IInv, LogInv
    <3> QED
      BY <1>1, <2>1, <2>2, <3>1
  <2> QED
    BY <2>1, <2>2, <2>3
<1>3. LogCovered'
  BY <1>1, <1>2 DEF LogCovered, CoveredRecord, Covered, Stored
<1> QED
  BY <1>1, <1>3, IdleDone DEF CoverInv

LEMMA NextKeepsCover ==
  ASSUME IInv, ShapeInv, ChainInv, TodoInv, FileInv, CoverInv, Next,
         NoErrorYet, NoErrorYet', "kFastOpen" \notin CallsRecoverFull
  PROVE  CoverInv'
<1>1. CASE \/ WriterStep \/ GroupCommit \/ Read \/ RecoverFull
           \/ \E checkpoint \in BOOLEAN : FlushBegin(checkpoint)
  <2>1. Pending' = Pending /\ Todo' = Todo
    BY <1>1, SamePendingSteps DEF SamePending
  <2>2. Open /\ UNCHANGED <<wal, datafile, datafile_flushed, super>>
    <3>1. CASE WriterStep
      <4>1. PICK w \in Writer : AwaitFsync(w) \/ AwaitFails(w) \/ SetStable(w)
        BY <3>1 DEF WriterStep
      <4>2. writer[w].pc # "none"
        BY <4>1 DEF AwaitFsync, AwaitFails, SetStable
      <4>3. Open
        BY <4>2 DEF IInv, StableInv, WriterInv
      <4> QED
        BY <4>1, <4>3 DEF AwaitFsync, AwaitFails, SetStable, disk
    <3>2. CASE Read
      BY <3>2, ReadMoves DEF IInv, disk, Open
    <3> QED
      BY <1>1, <3>1, <3>2 DEF GroupCommit, RecoverFull, FlushBegin, disk, Open
  <2>3. FileKept
    BY <2>2 DEF FileKept, IInv, TypeOK
  <2>4. LogCovered'
    BY <2>1, <2>2, <2>3, LogCoveredStays DEF IInv, CoverInv
  <2>5. DoneStored'
    BY <2>1, <2>2 DEF CoverInv, DoneStored, Stored, Held
  <2> QED
    BY <2>4, <2>5 DEF CoverInv
<1>2. ~FlushFsyncFails /\ ~FlushRecordFails
  BY DEF FlushFsyncFails, FlushRecordFails, NoErrorYet
<1> QED
  BY <1>1, <1>2, WriteKeepsCover, FlushRecordKeepsCover, FlushEndKeepsCover,
     CheckpointKeepsCover, CrashKeepsCover, OpenKeepsCover DEF Next, Flush

---------------------------------------------------------------------------
(* The root. *)

(* LastAt reads the records it is given, and no others.                    *)
LEMMA LastAtReads ==
  ASSUME NEW log \in Seq(Record), NEW log2, NEW at \in SUBSET (1 .. Len(log)),
         \A i \in at : log2[i] = log[i]
  PROVE  LastAt(log2, at) = LastAt(log, at)
<1>1. CASE at = {}
  BY <1>1 DEF LastAt
<1>2. CASE at # {}
  <2>1. at \in SUBSET (0 .. Len(log)) /\ Len(log) \in Nat
    OBVIOUS
  <2>2. MaxOf(at) \in at
    BY <1>2, <2>1, MaxOfIsGreatest
  <2>3. log2[MaxOf(at)] = log[MaxOf(at)]
    BY <2>2
  <2> QED
    BY <1>2, <2>3 DEF LastAt
<1> QED
  BY <1>1, <1>2

(* Loading the data file with a record more is what a flush does to        *)
(* committed_.                                                             *)
LEMMA LoadAppend ==
  ASSUME NEW log \in Seq(Record), NEW k \in Key, NEW r \in Record, r.key = k
  PROVE  LoadDatafile(Append(log, r))
           = [LoadDatafile(log) EXCEPT ![k] = IF r.del THEN 0 ELSE r.lsn]
<1> DEFINE log2 == Append(log, r)
           n == Len(log) + 1
<1>1. /\ log2 \in Seq(Record) /\ Len(log2) = n /\ log2[n] = r
      /\ \A i \in 1 .. Len(log) : log2[i] = log[i]
      /\ Len(log) \in Nat
  OBVIOUS
<1> HIDE DEF log2
<1>2. ASSUME NEW j \in Key, j # k
      PROVE  LastOf(log2, j) = LastOf(log, j)
  <2>1. Of(log2, j) = Of(log, j)
    BY <1>1, <1>2 DEF Of
  <2>2. Of(log, j) \in SUBSET (1 .. Len(log))
    BY DEF Of
  <2>3. \A i \in Of(log, j) : log2[i] = log[i]
    BY <1>1, <2>2
  <2> QED
    BY <2>1, <2>2, <2>3, LastAtReads DEF LastOf
<1>3. LastOf(log2, k) = EntryOf(r)
  <2> DEFINE at == Of(log2, k)
  <2>1. at \in SUBSET (1 .. Len(log2)) /\ n \in at
    BY <1>1 DEF Of
  <2> HIDE DEF at
  <2>2. PICK i \in at : /\ \A j \in at : j <= i
                        /\ LastAt(log2, at) = EntryOf(log2[i])
    BY <1>1, <2>1, LastAtIsLast
  <2>3. i = n
    BY <1>1, <2>1, <2>2
  <2> QED
    BY <1>1, <2>2, <2>3 DEF LastOf, at
<1>4. LoadDatafile(log2)
        = [j \in Key |-> IF j = k THEN (IF r.del THEN 0 ELSE r.lsn)
                         ELSE LoadDatafile(log)[j]]
  BY <1>2, <1>3 DEF LoadDatafile, EntryOf
<1>5. DOMAIN LoadDatafile(log) = Key
  BY DEF LoadDatafile
<1> QED
  BY <1>4, <1>5 DEF log2, LoadDatafile

(* The records of k that a root at an LSN must account for.                *)
Below(log, k, lsn) == Of(log, k) \ OfAbove(log, k, lsn)
LEMMA BelowIs ==
  ASSUME NEW log, NEW k, NEW lsn
  PROVE  /\ Below(log, k, lsn) \in SUBSET (1 .. Len(log))
         /\ \A i : i \in Below(log, k, lsn) <=>
              i \in 1 .. Len(log) /\ log[i].key = k /\ ~(log[i].lsn > lsn)
BY DEF Below, Of, OfAbove

(* The root stays complete as long as the records below its LSN stay.      *)
LEMMA RootStays ==
  ASSUME TypeOK, RootComplete, NoErrorYet, super' = super,
         \A k \in Key :
           Below(datafile', k, super.wal_lsn) = Below(datafile, k, super.wal_lsn),
         \A i \in 1 .. Len(datafile) :
           ~(datafile[i].lsn > super.wal_lsn) => datafile'[i] = datafile[i]
  PROVE  RootComplete'
<1>1. ASSUME NEW k \in Key
      PROVE  LastAt(datafile', Below(datafile', k, super.wal_lsn))
               = LastAt(datafile, Below(datafile, k, super.wal_lsn))
  <2> DEFINE at == Below(datafile, k, super.wal_lsn)
  <2>1. at \in SUBSET (1 .. Len(datafile)) /\ datafile \in Seq(Record)
    BY BelowIs DEF TypeOK
  <2>2. \A i \in at : datafile'[i] = datafile[i]
    BY BelowIs
  <2> HIDE DEF at
  <2>3. LastAt(datafile', at) = LastAt(datafile, at)
    BY <2>1, <2>2, LastAtReads
  <2> QED
    BY <2>3 DEF at
<1> QED
  BY <1>1 DEF RootComplete, Below

LEMMA FlushRecordKeepsRoot ==
  ASSUME IInv, ShapeInv, TodoInv, RootInv, NoErrorYet, opts' = opts,
         NEW k \in Key, FlushRecord(k)
  PROVE  RootInv'
<1> SUFFICES ASSUME ~LazyCommittedLoad
             PROVE  committed' = LoadDatafile(datafile') /\ RootComplete'
  BY DEF RootInv, LazyCommittedLoad
<1> DEFINE r == RecordOf(k, flushing[k])
<1>1. /\ phase = "flush" /\ Newest(k, flushing[k])
      /\ datafile' = Append(datafile, r)
      /\ committed' = [committed EXCEPT ![k] = CommittedLsn(k, flushing[k])]
      /\ super' = super
  BY FlushRecordMoves
<1>2. /\ flushing[k] \in Entry /\ flushing[k].lsn \in Nat
      /\ datafile \in Seq(Record) /\ Len(datafile) \in Nat
      /\ super.wal_lsn \in Nat
  <2>1. TypeOK
    BY DEF IInv
  <2>2. flushing[k] \in Entry /\ datafile \in Seq(Record)
    BY <2>1 DEF TypeOK
  <2>3. flushing[k].lsn \in Nat
    BY <2>1, <2>2, TypeFacts DEF Entry
  <2>4. Len(datafile) \in Nat
    BY <2>2
  <2> QED
    BY <2>1, <2>2, <2>3, <2>4, TypeFacts
<1>3. /\ r \in Record /\ r.key = k /\ r.lsn = flushing[k].lsn
      /\ r.del = flushing[k].del
  BY <1>2 DEF RecordOf, Record, Entry
<1>4. r.lsn > super.wal_lsn
  BY <1>1, <1>3 DEF Newest
<1> HIDE DEF r
<1>5. committed' = LoadDatafile(datafile')
  <2>1. committed = LoadDatafile(datafile)
    BY <1>1 DEF RootInv, Open
  <2>2. CommittedLsn(k, flushing[k]) = IF r.del THEN 0 ELSE r.lsn
    BY <1>3 DEF CommittedLsn
  <2> QED
    BY <1>1, <1>2, <1>3, <2>1, <2>2, LoadAppend
<1>6. /\ Len(datafile') = Len(datafile) + 1
      /\ \A i \in 1 .. Len(datafile) : datafile'[i] = datafile[i]
      /\ datafile'[Len(datafile) + 1] = r
  BY <1>1, <1>2
<1>7. ASSUME NEW j \in Key
      PROVE  Below(datafile', j, super.wal_lsn)
               = Below(datafile, j, super.wal_lsn)
  <2>1. \A i : /\ i \in 1 .. Len(datafile') /\ datafile'[i].key = j
               /\ ~(datafile'[i].lsn > super.wal_lsn)
               <=> /\ i \in 1 .. Len(datafile) /\ datafile[i].key = j
                   /\ ~(datafile[i].lsn > super.wal_lsn)
    BY <1>2, <1>4, <1>6
  <2> QED
    BY <2>1 DEF Below, Of, OfAbove
<1> QED
  BY <1>1, <1>5, <1>6, <1>7, RootStays DEF IInv, RootInv

LEMMA CrashKeepsRoot ==
  ASSUME IInv, FileInv, RootInv, NoErrorYet, opts' = opts, Crash
  PROVE  RootInv'
<1> SUFFICES ASSUME ~LazyCommittedLoad
             PROVE  RootComplete'
  BY DEF RootInv, LazyCommittedLoad, Crash, LoseMemory, Open
<1>1. /\ Len(datafile') \in datafile_flushed .. Len(datafile)
      /\ \A i \in 1 .. Len(datafile') : datafile'[i] = datafile[i]
      /\ super' = super
  BY CrashLeaves DEF IInv, Crash
<1>2. datafile_flushed \in 0 .. Len(datafile) /\ Len(datafile) \in Nat
  BY DEF IInv, TypeOK
<1>3. ASSUME NEW i \in 1 .. Len(datafile), ~(datafile[i].lsn > super.wal_lsn)
      PROVE  i \in 1 .. Len(datafile') /\ datafile'[i] = datafile[i]
  <2>1. datafile[i].lsn \in Nat /\ super.wal_lsn \in Nat
    <3>1. datafile[i] \in Elements(datafile)
      BY DEF Elements
    <3> QED
      BY <3>1, ElementsType, TypeFacts DEF IInv, TypeOK
  <2>2. i <= datafile_flushed
    BY <1>3, <2>1 DEF FileInv
  <2> QED
    BY <1>1, <1>2, <2>2
<1>4. ASSUME NEW j \in Key
      PROVE  Below(datafile', j, super.wal_lsn)
               = Below(datafile, j, super.wal_lsn)
  <2>1. \A i \in 1 .. Len(datafile') :
          i \in 1 .. Len(datafile) /\ datafile'[i] = datafile[i]
    BY <1>1, <1>2
  <2>2. \A i : /\ i \in 1 .. Len(datafile') /\ datafile'[i].key = j
               /\ ~(datafile'[i].lsn > super.wal_lsn)
               <=> /\ i \in 1 .. Len(datafile) /\ datafile[i].key = j
                   /\ ~(datafile[i].lsn > super.wal_lsn)
    BY <1>3, <2>1
  <2> QED
    BY <2>2 DEF Below, Of, OfAbove
<1> QED
  BY <1>1, <1>3, <1>4, RootStays DEF IInv, RootInv

(* A new root names the data file as it is, and none of its records is     *)
(* above the counter.                                                      *)
LEMMA CommitKeepsRoot ==
  ASSUME IInv, RootInv, opts' = opts, CommitSuperBlock, committed # NoRoot
  PROVE  RootInv'
<1> SUFFICES ASSUME ~LazyCommittedLoad
             PROVE  committed' = LoadDatafile(datafile') /\ RootComplete'
  BY DEF RootInv, LazyCommittedLoad
<1>1. /\ phase = "superblock" /\ super' = NextSuper
      /\ UNCHANGED <<committed, datafile>>
  BY DEF CommitSuperBlock
<1>2. committed = LoadDatafile(datafile) /\ Open
  BY <1>1 DEF RootInv, Open
<1>3. super'.root = committed /\ super'.wal_lsn = max_lsn /\ max_lsn \in Nat
  BY <1>1, TypeFacts DEF NextSuper, IInv
<1>4. ASSUME NEW k \in Key
      PROVE  Below(datafile, k, max_lsn) = Of(datafile, k)
  <2>1. \A i \in 1 .. Len(datafile) : ~(datafile[i].lsn > max_lsn)
    BY <1>2, <1>3, BelowCounter
  <2> QED
    BY <2>1 DEF Below, Of, OfAbove
<1>5. ASSUME NEW k \in Key
      PROVE  committed[k] = LET r == LastAt(datafile, Below(datafile, k, max_lsn))
                            IN  IF r.del THEN 0 ELSE r.lsn
  BY <1>2, <1>4 DEF LoadDatafile, LastOf
<1> QED
  BY <1>1, <1>2, <1>3, <1>5 DEF RootComplete, Below

LEMMA NextKeepsRoot ==
  ASSUME IInv, ShapeInv, TodoInv, FileInv, RootInv, Next,
         NoErrorYet, NoErrorYet'
  PROVE  RootInv'
<1>0. opts' = opts
  BY DEF Next
<1>1. ASSUME UNCHANGED <<datafile, super>>,
             UNCHANGED committed \/ ~Open',
             Open' => Open
      PROVE  RootInv'
  BY <1>0, <1>1 DEF RootInv, RootComplete, LazyCommittedLoad, NoErrorYet
<1>2. CASE Write
  <2>1. phase = "idle" /\ UNCHANGED <<datafile, super, committed>>
    BY <1>2, WriteMoves DEF index
  <2> QED
    BY <1>1, <2>1 DEF Open
<1>3. CASE WriterStep \/ GroupCommit \/ RecoverFull \/ Read
  <2>1. phase' = phase /\ UNCHANGED <<datafile, super, committed>>
    BY <1>3, ReadMoves DEF IInv, WriterStep, AwaitFsync, AwaitFails, SetStable,
       GroupCommit, RecoverFull, disk, control, index
  <2> QED
    BY <1>1, <2>1 DEF Open
<1>4. CASE Flush
  <2>1. CASE (\E checkpoint \in BOOLEAN : FlushBegin(checkpoint)) \/ FlushEnd
    <3>1. phase # "down" /\ UNCHANGED <<datafile, super, committed>>
      BY <2>1 DEF FlushBegin, FlushEnd, index
    <3> QED
      BY <1>1, <3>1 DEF Open
  <2>2. ~FlushFsyncFails /\ ~FlushRecordFails
    BY DEF FlushFsyncFails, FlushRecordFails, NoErrorYet
  <2> QED
    BY <1>0, <1>4, <2>1, <2>2, FlushRecordKeepsRoot DEF Flush
<1>5. CASE Checkpoint
  <2>1. CASE CommitSuperBlock /\ committed # NoRoot
    BY <1>0, <2>1, CommitKeepsRoot
  <2>2. CASE \/ FoldWalToVcs \/ SaveLsnIndexSidecar \/ SaveVcsSidecar
             \/ TruncateTo
             \/ CommitSuperBlock /\ committed = NoRoot
    <3>1. phase # "down" /\ UNCHANGED <<datafile, super, committed>>
      BY <2>2 DEF FoldWalToVcs, CommitSuperBlock, SaveLsnIndexSidecar,
                  SaveVcsSidecar, TruncateTo, disk, index
    <3> QED
      BY <1>1, <3>1 DEF Open
  <2>3. ~CommitSuperBlockFails
    BY DEF CommitSuperBlockFails, NoErrorYet
  <2> QED
    BY <1>5, <2>1, <2>2, <2>3 DEF Checkpoint
<1>6. CASE Crash
  BY <1>0, <1>6, CrashKeepsRoot
<1>7. CASE OpenInternal
  <2>0. Reached(datafile) = datafile
    BY ReachedIs DEF IInv, TypeOK, NoErrorYet
  <2>1. UNCHANGED <<datafile, super>>
        /\ (~LazyCommittedLoad => committed' = LoadDatafile(datafile))
    BY <1>7, <2>0 DEF OpenInternal, RecoverFromSuperBlock, LoadCommitted, disk
  <2> QED
    BY <1>0, <2>1 DEF RootInv, RootComplete, LazyCommittedLoad, NoErrorYet
<1> QED
  BY <1>2, <1>3, <1>4, <1>5, <1>6, <1>7 DEF Next

---------------------------------------------------------------------------
(* What was reported durable. *)

(* Secured after a step. *)
SecuredAfter(k, l, n) ==
  \/ l = 0
  \/ \E i \in 1 .. datafile_flushed' :
       datafile'[i].key = k /\ datafile'[i].lsn >= l
  \/ \E i \in 1 .. n :
       wal'[i].key = k /\ wal'[i].lsn >= l /\ wal'[i].lsn > super'.wal_lsn

LEMMA SecuredStays ==
  ASSUME TypeOK, FileKept, super' = super, NEW n \in Nat, NEW m \in Nat,
         n <= m, \A i \in 1 .. n : wal'[i] = wal[i]
  PROVE  \A k, l : Secured(k, l, n) => SecuredAfter(k, l, m)
<1> SUFFICES ASSUME NEW k, NEW l, Secured(k, l, n)
             PROVE  SecuredAfter(k, l, m)
  OBVIOUS
<1>1. CASE l = 0
  BY <1>1 DEF SecuredAfter
<1>2. CASE Covered(k, l)
  BY <1>2, CoveredStays DEF SecuredAfter
<1>3. CASE \E i \in 1 .. n :
             wal[i].key = k /\ wal[i].lsn >= l /\ wal[i].lsn > super.wal_lsn
  <2>1. PICK i \in 1 .. n :
          wal[i].key = k /\ wal[i].lsn >= l /\ wal[i].lsn > super.wal_lsn
    BY <1>3
  <2>2. i \in 1 .. m /\ wal'[i] = wal[i]
    OBVIOUS
  <2> QED
    BY <2>1, <2>2 DEF SecuredAfter
<1> QED
  BY <1>1, <1>2, <1>3 DEF Secured

(* What a step must do for the versions reported durable, and for those    *)
(* the writers wait for, to be secured after it.                           *)
LEMMA AckNext ==
  ASSUME TypeOK, AckInv, FileKept, SyncedKept,
         \A k \in Key :
           /\ \/ acked'[k] = acked[k]
              \/ SecuredAfter(k, acked'[k].lsn, wal_synced')
           /\ \/ group_acked'[k] = group_acked[k]
              \/ SecuredAfter(k, group_acked'[k].lsn, wal_synced'),
         \A w \in Writer :
           \/ writer'[w] = NoWrite
           \/ writer'[w] = writer[w] /\ LogKept
           \/ /\ writer'[w].pc = "await" =>
                   SecuredAfter(writer'[w].key, writer'[w].lsn, Len(wal'))
              /\ writer'[w].pc = "synced" =>
                   SecuredAfter(writer'[w].key, writer'[w].lsn, wal_synced')
  PROVE  AckInv'
<1>1. \A k, l : Secured(k, l, wal_synced) => SecuredAfter(k, l, wal_synced')
  <2>1. /\ wal_synced \in Nat /\ wal_synced' \in Nat
        /\ wal_synced <= wal_synced' /\ super' = super
        /\ \A i \in 1 .. wal_synced : wal'[i] = wal[i]
    BY TypeFacts DEF SyncedKept
  <2> QED
    BY <2>1, SecuredStays
<1>2. ASSUME LogKept
      PROVE  \A k, l : Secured(k, l, Len(wal)) => SecuredAfter(k, l, Len(wal'))
  <2>1. /\ Len(wal) \in Nat /\ Len(wal') \in Nat
        /\ Len(wal) <= Len(wal') /\ super' = super
        /\ \A i \in 1 .. Len(wal) : wal'[i] = wal[i]
    BY <1>2, TypeFacts DEF LogKept, SyncedKept
  <2> QED
    BY <2>1, SecuredStays
<1>3. ASSUME NEW k \in Key
      PROVE  /\ SecuredAfter(k, acked'[k].lsn, wal_synced')
             /\ SecuredAfter(k, group_acked'[k].lsn, wal_synced')
  <2>1. /\ Secured(k, acked[k].lsn, wal_synced)
        /\ Secured(k, group_acked[k].lsn, wal_synced)
    BY DEF AckInv
  <2>2. /\ SecuredAfter(k, acked[k].lsn, wal_synced')
        /\ SecuredAfter(k, group_acked[k].lsn, wal_synced')
    BY <1>1, <2>1
  <2> QED
    BY <2>2
<1>4. ASSUME NEW w \in Writer
      PROVE  /\ writer'[w].pc = "await" =>
                  SecuredAfter(writer'[w].key, writer'[w].lsn, Len(wal'))
             /\ writer'[w].pc = "synced" =>
                  SecuredAfter(writer'[w].key, writer'[w].lsn, wal_synced')
  <2>1. CASE writer'[w] = NoWrite
    BY <2>1 DEF NoWrite
  <2>2. CASE writer'[w] = writer[w] /\ LogKept
    <3>1. /\ writer[w].pc = "await" =>
               Secured(writer[w].key, writer[w].lsn, Len(wal))
          /\ writer[w].pc = "synced" =>
               Secured(writer[w].key, writer[w].lsn, wal_synced)
      BY DEF AckInv
    <3> QED
      BY <1>1, <1>2, <2>2, <3>1
  <2> QED
    BY <2>1, <2>2
<1> QED
  BY <1>3, <1>4 DEF AckInv, Secured, SecuredAfter, Covered, Stored

(* A step that reports nothing and loses nothing. *)
LEMMA NothingAcked ==
  ASSUME TypeOK, AckInv, FileKept, LogKept, SyncedKept,
         UNCHANGED <<acked, group_acked, writer>>
  PROVE  AckInv'
BY AckNext

(* With the whole log fsynced, the newest record of each key may be        *)
(* reported durable.                                                       *)
LEMMA AckAllSecured ==
  ASSUME IInv, CoverInv, FileKept, LogKept, Len(wal) <= wal_synced',
         NEW table \in [Key -> Entry], NEW k \in Key
  PROVE  \/ AckAll(table)[k] = table[k]
         \/ SecuredAfter(k, AckAll(table)[k].lsn, wal_synced')
<1>1. CASE AckAll(table)[k] = table[k]
  BY <1>1
<1>2. CASE AckAll(table)[k] # table[k]
  <2> DEFINE at == Of(wal, k)
  <2>1. AckAll(table)[k] = LastAt(wal, at)
    BY <1>2 DEF AckAll, Newer, LastOf
  <2>2. at \in SUBSET (1 .. Len(wal)) /\ \A i \in at : wal[i].key = k
    BY DEF Of
  <2>3. wal \in Seq(Record) /\ super' = super /\ super.wal_lsn \in Nat
    BY TypeFacts DEF IInv, LogKept, SyncedKept
  <2> HIDE DEF at
  <2>4. CASE at = {}
    <3>1. AckAll(table)[k].lsn = 0
      BY <2>1, <2>2, <2>3, <2>4, LastAtIsLast DEF NoEntry
    <3> QED
      BY <3>1 DEF SecuredAfter
  <2>5. CASE at # {}
    <3>1. PICK i \in at : LastAt(wal, at) = EntryOf(wal[i])
      BY <2>2, <2>3, <2>5, LastAtIsLast
    <3>2. /\ i \in 1 .. Len(wal) /\ wal[i].key = k /\ wal[i].lsn \in Nat
          /\ AckAll(table)[k].lsn = wal[i].lsn
      BY <2>1, <2>2, <3>1, TypeFacts DEF EntryOf, IInv
    <3>3. CASE wal[i].lsn <= super.wal_lsn
      <4>1. Covered(k, wal[i].lsn)
        BY <3>2, <3>3 DEF CoverInv, LogCovered, CoveredRecord
      <4>2. TypeOK
        BY DEF IInv
      <4> QED
        BY <3>2, <4>1, <4>2, CoveredStays DEF SecuredAfter
    <3>4. CASE wal[i].lsn > super.wal_lsn
      <4>1. wal_synced' \in Nat /\ Len(wal) \in Nat
        BY TypeFacts DEF IInv, LogKept, SyncedKept
      <4>2. i \in 1 .. wal_synced' /\ wal'[i] = wal[i]
        BY <3>2, <4>1 DEF LogKept
      <4>3. wal[i].lsn >= wal[i].lsn
        BY <3>2
      <4> QED
        BY <2>3, <3>2, <3>4, <4>2, <4>3 DEF SecuredAfter
    <3> QED
      BY <2>3, <3>2, <3>3, <3>4
  <2> QED
    BY <2>4, <2>5
<1> QED
  BY <1>1, <1>2

(* A write: its writer waits for its record; the write that fills a batch  *)
(* commits it.                                                             *)
LEMMA WriteKeepsAcks ==
  ASSUME IInv, ShapeInv, CoverInv, AckInv, Write
  PROVE  AckInv'
<1> PICK k \in Key, del \in BOOLEAN :
      \/ \E w \in Writer : PutSyncFastAppend(w, k, del)
      \/ WriteAsync(k, del)
      \/ WriteGroup(k, del)
  BY DEF Write
<1>1. /\ AppendAndApply(k, del) /\ phase = "idle" /\ phase' = "idle"
      /\ UNCHANGED <<super, datafile, datafile_flushed, acked, immutable,
                     flushing>>
  BY DEF PutSyncFastAppend, WriteAsync, WriteGroup, control
<1>2. /\ Len(wal') = Len(wal) + 1
      /\ wal'[Len(wal')] = [lsn |-> max_lsn + 1, key |-> k, del |-> del]
      /\ \A i \in 1 .. Len(wal) : wal'[i] = wal[i]
  <2>1. TypeOK /\ LogInv /\ TablesInv /\ Open /\ Open'
    BY <1>1 DEF IInv, Open
  <2> QED
    BY <1>1, <2>1, AppendStep
<1>3. /\ TypeOK /\ Len(wal) \in Nat /\ wal_synced \in 0 .. Len(wal)
      /\ max_lsn \in Nat /\ super.wal_lsn \in Nat /\ super.wal_lsn <= max_lsn
  BY <1>1, TypeFacts DEF IInv, LogInv, Open
<1>4. FileKept
  BY <1>1 DEF FileKept, IInv, TypeOK
<1>5. wal_synced' \in {wal_synced, Len(wal')}
  BY DEF PutSyncFastAppend, WriteAsync, WriteGroup, Fsync
<1>6. LogKept /\ SyncedKept
  BY <1>1, <1>2, <1>3, <1>5 DEF LogKept, SyncedKept
<1>7. SecuredAfter(k, max_lsn + 1, Len(wal'))
  <2>1. Len(wal') \in 1 .. Len(wal')
    BY <1>2, <1>3
  <2>2. /\ wal'[Len(wal')].key = k /\ wal'[Len(wal')].lsn >= max_lsn + 1
        /\ wal'[Len(wal')].lsn > super'.wal_lsn
    BY <1>1, <1>2, <1>3
  <2> QED
    BY <2>1, <2>2 DEF SecuredAfter
<1>8. ASSUME NEW w \in Writer, PutSyncFastAppend(w, k, del)
      PROVE  AckInv'
  <2>1. /\ group_acked' = group_acked
        /\ writer' = [writer EXCEPT ![w] = [pc |-> "await", lsn |-> max_lsn + 1,
                                            key |-> k, del |-> del]]
    BY <1>8 DEF PutSyncFastAppend
  <2>2. DOMAIN writer = Writer
    BY DEF IInv, TypeOK
  <2>3. ASSUME NEW v \in Writer
        PROVE  \/ writer'[v] = writer[v] /\ LogKept
               \/ /\ writer'[v].pc = "await" =>
                       SecuredAfter(writer'[v].key, writer'[v].lsn, Len(wal'))
                  /\ writer'[v].pc = "synced" =>
                       SecuredAfter(writer'[v].key, writer'[v].lsn, wal_synced')
    <3>1. CASE v = w
      <4>1. /\ writer'[v].pc = "await" /\ writer'[v].key = k
            /\ writer'[v].lsn = max_lsn + 1
        BY <2>1, <2>2, <3>1
      <4> QED
        BY <1>7, <4>1
    <3>2. CASE v # w
      BY <1>6, <2>1, <2>2, <3>2
    <3> QED
      BY <3>1, <3>2
  <2> QED
    BY <1>1, <1>3, <1>4, <1>6, <2>1, <2>3, AckNext
<1>9. CASE WriteAsync(k, del)
  <2>1. UNCHANGED <<acked, group_acked, writer>>
    BY <1>9 DEF WriteAsync
  <2> QED
    BY <1>3, <1>4, <1>6, <2>1, NothingAcked
<1>10. CASE WriteGroup(k, del)
  <2>1. /\ writer' = writer
        /\ \/ group_acked' = group_acked
           \/ /\ wal_synced' = Len(wal')
              /\ group_acked' = [AckAll(group_acked) EXCEPT
                                   ![k] = [lsn |-> max_lsn + 1, del |-> del]]
    BY <1>10 DEF WriteGroup, Fsync
  <2>2. CASE group_acked' = group_acked
    BY <1>1, <1>3, <1>4, <1>6, <2>1, <2>2, NothingAcked
  <2>3. CASE /\ wal_synced' = Len(wal')
             /\ group_acked' = [AckAll(group_acked) EXCEPT
                                  ![k] = [lsn |-> max_lsn + 1, del |-> del]]
    <3>1. group_acked \in [Key -> Entry]
      BY DEF IInv, TypeOK
    <3>2. DOMAIN AckAll(group_acked) = Key
      BY DEF AckAll
    <3>3. Len(wal) <= wal_synced'
      BY <1>2, <1>3, <2>3
    <3>4. ASSUME NEW j \in Key
          PROVE  \/ group_acked'[j] = group_acked[j]
                 \/ SecuredAfter(j, group_acked'[j].lsn, wal_synced')
      <4>1. CASE j = k
        <5>1. group_acked'[j].lsn = max_lsn + 1
          BY <2>3, <3>2, <4>1
        <5> QED
          BY <1>7, <2>3, <4>1, <5>1
      <4>2. CASE j # k
        <5>1. group_acked'[j] = AckAll(group_acked)[j]
          BY <2>3, <3>2, <4>2
        <5> QED
          BY <1>4, <1>6, <3>1, <3>3, <5>1, AckAllSecured
      <4> QED
        BY <4>1, <4>2
    <3> QED
      BY <1>1, <1>3, <1>4, <1>6, <2>1, <3>4, AckNext
  <2> QED
    BY <2>1, <2>2, <2>3
<1> QED
  BY <1>8, <1>9, <1>10

(* A writer whose record an fsync has reached, and one that returns.       *)
LEMMA WriterStepKeepsAcks ==
  ASSUME IInv, AckInv, WriterStep
  PROVE  AckInv'
<1> PICK w \in Writer : AwaitFsync(w) \/ AwaitFails(w) \/ SetStable(w)
  BY DEF WriterStep
<1>1. /\ TypeOK /\ Len(wal) \in Nat /\ wal_synced \in 0 .. Len(wal)
      /\ wal_synced \in Nat /\ DOMAIN writer = Writer /\ DOMAIN acked = Key
  <2>1. TypeOK
    BY DEF IInv
  <2>2. Len(wal) \in Nat /\ wal_synced \in 0 .. Len(wal)
    BY <2>1, TypeFacts
  <2>3. DOMAIN writer = Writer /\ DOMAIN acked = Key
    BY <2>1 DEF TypeOK
  <2> QED
    BY <2>1, <2>2, <2>3
<1>2. UNCHANGED <<wal, super, datafile, datafile_flushed, group_acked>>
  BY DEF AwaitFsync, AwaitFails, SetStable, disk
<1>3. wal_synced' \in {wal_synced, Len(wal)}
  BY DEF AwaitFsync, AwaitFails, SetStable, Fsync, disk
<1>4. FileKept
  BY <1>2 DEF FileKept, IInv, TypeOK
<1>5. LogKept /\ SyncedKept
  BY <1>1, <1>2, <1>3 DEF LogKept, SyncedKept
<1>6. CASE AwaitFails(w)
  <2>1. writer' = [writer EXCEPT ![w] = NoWrite] /\ acked' = acked
    BY <1>6 DEF AwaitFails
  <2>2. ASSUME NEW v \in Writer
        PROVE  writer'[v] = NoWrite \/ writer'[v] = writer[v]
    BY <1>1, <2>1
  <2> QED
    BY <1>1, <1>2, <1>4, <1>5, <2>1, <2>2, AckNext
<1>7. CASE AwaitFsync(w)
  <2>1. /\ writer[w].pc = "await" /\ wal_synced' = Len(wal)
        /\ writer' = [writer EXCEPT ![w].pc = "synced"] /\ acked' = acked
    BY <1>7 DEF AwaitFsync, Fsync
  <2>2. Secured(writer[w].key, writer[w].lsn, Len(wal))
    BY <2>1 DEF AckInv
  <2>3. SecuredAfter(writer[w].key, writer[w].lsn, wal_synced')
    <3>1. super' = super /\ \A i \in 1 .. Len(wal) : wal'[i] = wal[i]
      BY <1>2
    <3>2. Len(wal) <= wal_synced' /\ wal_synced' \in Nat
      BY <1>1, <2>1
    <3> QED
      BY <1>1, <1>4, <2>2, <3>1, <3>2, SecuredStays
  <2>4. ASSUME NEW v \in Writer
        PROVE  \/ writer'[v] = writer[v]
               \/ /\ writer'[v].pc = "await" =>
                       SecuredAfter(writer'[v].key, writer'[v].lsn, Len(wal'))
                  /\ writer'[v].pc = "synced" =>
                       SecuredAfter(writer'[v].key, writer'[v].lsn, wal_synced')
    <3>1. CASE v = w
      <4>1. writer[w] # NoWrite
        BY <2>1 DEF NoWrite
      <4>2. writer[w] \in [pc : {"await", "synced"}, lsn : Lsn, key : Key,
                           del : BOOLEAN]
        BY <4>1 DEF IInv, TypeOK
      <4>3. writer'[v] = [writer[w] EXCEPT !.pc = "synced"]
        BY <1>1, <2>1, <3>1
      <4>4. /\ writer'[v].pc = "synced" /\ writer'[v].key = writer[w].key
            /\ writer'[v].lsn = writer[w].lsn
        BY <4>2, <4>3
      <4> QED
        BY <2>3, <4>4
    <3>2. CASE v # w
      BY <1>1, <2>1, <3>2
    <3> QED
      BY <3>1, <3>2
  <2> QED
    BY <1>1, <1>2, <1>4, <1>5, <2>1, <2>4, AckNext
<1>8. CASE SetStable(w)
  <2>1. /\ writer[w].pc = "synced" /\ wal_synced' = wal_synced
        /\ writer' = [writer EXCEPT ![w] = NoWrite]
        /\ acked' = [acked EXCEPT ![writer[w].key] =
             Newer(@, [lsn |-> writer[w].lsn, del |-> writer[w].del])]
    BY <1>8 DEF SetStable, disk
  <2>2. Secured(writer[w].key, writer[w].lsn, wal_synced)
    BY <2>1 DEF AckInv
  <2>3. SecuredAfter(writer[w].key, writer[w].lsn, wal_synced')
    <3>1. super' = super /\ \A i \in 1 .. wal_synced : wal'[i] = wal[i]
      BY <1>2
    <3>2. wal_synced <= wal_synced' /\ wal_synced' \in Nat
      BY <1>1, <2>1
    <3> QED
      BY <1>1, <1>4, <2>2, <3>1, <3>2, SecuredStays
  <2>4. ASSUME NEW k \in Key
        PROVE  \/ acked'[k] = acked[k]
               \/ SecuredAfter(k, acked'[k].lsn, wal_synced')
    <3>1. CASE k # writer[w].key
      BY <1>1, <2>1, <3>1
    <3>2. CASE k = writer[w].key
      <4>1. \/ acked'[k] = acked[k]
            \/ acked'[k].lsn = writer[w].lsn
        BY <1>1, <2>1, <3>2 DEF Newer
      <4> QED
        BY <2>3, <3>2, <4>1
    <3> QED
      BY <3>1, <3>2
  <2>5. ASSUME NEW v \in Writer
        PROVE  writer'[v] = NoWrite \/ writer'[v] = writer[v]
    BY <1>1, <2>1
  <2> QED
    BY <1>1, <1>2, <1>4, <1>5, <2>4, <2>5, AckNext
<1> QED
  BY <1>6, <1>7, <1>8

(* A commit of the group, and the end of a flush: the log is fsynced.      *)
LEMMA CommitsKeepAcks ==
  ASSUME IInv, CoverInv, AckInv, GroupCommit \/ FlushEnd
  PROVE  AckInv'
<1>1. /\ TypeOK /\ Len(wal) \in Nat /\ wal_synced \in 0 .. Len(wal)
      /\ acked \in [Key -> Entry] /\ group_acked \in [Key -> Entry]
  BY TypeFacts DEF IInv, TypeOK
<1>2. /\ UNCHANGED <<wal, super, datafile, writer>>
      /\ wal_synced' \in {wal_synced, Len(wal)}
      /\ datafile_flushed' \in {datafile_flushed, Len(datafile)}
  BY DEF GroupCommit, FlushEnd, Fsync, FlushAppendStream
<1>3. FileKept
  BY <1>2 DEF FileKept, IInv, TypeOK
<1>4. LogKept /\ SyncedKept
  BY <1>1, <1>2 DEF LogKept, SyncedKept
<1>5. CASE UNCHANGED <<acked, group_acked>>
  BY <1>1, <1>2, <1>3, <1>4, <1>5, NothingAcked
<1>6. CASE ~UNCHANGED <<acked, group_acked>>
  <2>1. /\ wal_synced' = Len(wal)
        /\ acked' \in {acked, AckAll(acked)}
        /\ group_acked' \in {group_acked, AckAll(group_acked)}
    <3>1. CASE GroupCommit
      BY <1>6, <3>1 DEF GroupCommit, Fsync
    <3>2. CASE FlushEnd
      BY <3>2 DEF FlushEnd, IInv, PhaseInv
    <3> QED
      BY <3>1, <3>2
  <2>2. Len(wal) <= wal_synced'
    BY <1>1, <2>1
  <2>3. ASSUME NEW k \in Key
        PROVE  /\ \/ acked'[k] = acked[k]
                  \/ SecuredAfter(k, acked'[k].lsn, wal_synced')
               /\ \/ group_acked'[k] = group_acked[k]
                  \/ SecuredAfter(k, group_acked'[k].lsn, wal_synced')
    BY <1>1, <1>3, <1>4, <2>1, <2>2, AckAllSecured
  <2> QED
    BY <1>1, <1>2, <1>3, <1>4, <2>3, AckNext
<1> QED
  BY <1>5, <1>6

(* A new superblock and the truncation drop records that are covered.      *)
LEMMA CheckpointKeepsAcks ==
  ASSUME IInv, ShapeInv, CoverInv, AckInv, Checkpoint
  PROVE  AckInv'
<1>1. /\ phase \notin {"idle", "flush", "down"}
      /\ UNCHANGED <<datafile, datafile_flushed, writer, acked, group_acked>>
  BY DEF Checkpoint, FoldWalToVcs, CommitSuperBlock, CommitSuperBlockFails,
         SaveLsnIndexSidecar, SaveVcsSidecar, TruncateTo, disk
<1>2. \A i \in 1 .. Len(wal) : Covered(wal[i].key, wal[i].lsn)
  BY <1>1, AllCovered
<1>3. wal_synced \in 0 .. Len(wal) /\ Len(wal) \in Nat
  BY DEF IInv, TypeOK
<1>4. ASSUME NEW n \in {wal_synced, Len(wal)}, NEW k, NEW l \in Nat,
             Secured(k, l, n)
      PROVE  l = 0 \/ Covered(k, l)
  <2>1. SUFFICES ASSUME NEW i \in 1 .. n, wal[i].key = k, wal[i].lsn >= l
                 PROVE  Covered(k, l)
    BY <1>4 DEF Secured
  <2>2. i \in 1 .. Len(wal)
    BY <1>3
  <2>3. PICK j \in 1 .. datafile_flushed :
          datafile[j].key = k /\ datafile[j].lsn >= wal[i].lsn
    BY <1>2, <2>1, <2>2 DEF Covered, Stored
  <2>4. datafile[j].lsn \in Nat /\ wal[i].lsn \in Nat
    <3>1. j \in 1 .. Len(datafile) /\ Open
      BY <1>1 DEF IInv, TypeOK, Open
    <3> QED
      BY <2>2, <3>1, BelowCounter, TypeFacts DEF IInv
  <2>5. datafile[j].lsn >= l
    BY <2>1, <2>3, <2>4
  <2> QED
    BY <2>3, <2>5 DEF Covered, Stored
<1>5. ASSUME NEW k \in Key
      PROVE  /\ acked[k].lsn = 0 \/ Covered(k, acked[k].lsn)
             /\ group_acked[k].lsn = 0 \/ Covered(k, group_acked[k].lsn)
  <2>1. acked[k].lsn \in Nat /\ group_acked[k].lsn \in Nat
    BY TypeFacts DEF IInv, TypeOK, Entry
  <2> QED
    BY <1>4, <2>1 DEF AckInv
<1>6. ASSUME NEW w \in Writer, writer[w].pc \in {"await", "synced"}
      PROVE  writer[w].lsn = 0 \/ Covered(writer[w].key, writer[w].lsn)
  <2>1. writer[w] # NoWrite
    BY <1>6 DEF NoWrite
  <2>2. writer[w].lsn \in Nat
    BY <2>1, TypeFacts DEF IInv, TypeOK
  <2>3. CASE writer[w].pc = "await"
    BY <1>4, <2>2, <2>3 DEF AckInv
  <2>4. CASE writer[w].pc = "synced"
    BY <1>4, <2>2, <2>4 DEF AckInv
  <2> QED
    BY <1>6, <2>3, <2>4
<1> QED
  BY <1>1, <1>5, <1>6 DEF AckInv, Secured, Covered, Stored

LEMMA CrashKeepsAcks ==
  ASSUME IInv, AckInv, Crash
  PROVE  AckInv'
<1>1. /\ Len(wal') \in wal_synced .. Len(wal)
      /\ \A i \in 1 .. Len(wal') : wal'[i] = wal[i]
      /\ wal_synced' = wal_synced
      /\ Len(datafile') \in datafile_flushed .. Len(datafile)
      /\ \A i \in 1 .. Len(datafile') : datafile'[i] = datafile[i]
      /\ datafile_flushed' = Len(datafile')
  BY CrashLeaves DEF IInv
<1>2. /\ UNCHANGED <<super, acked, group_acked>>
      /\ writer' = [w \in Writer |-> NoWrite]
  BY DEF Crash, LoseMemory
<1>3. /\ wal_synced \in 0 .. Len(wal) /\ Len(wal) \in Nat
      /\ datafile_flushed \in 0 .. Len(datafile) /\ Len(datafile) \in Nat
      /\ TypeOK
  BY DEF IInv, TypeOK
<1>4. FileKept
  BY <1>1, <1>3 DEF FileKept
<1>5. SyncedKept
  BY <1>1, <1>2, <1>3 DEF SyncedKept
<1>6. \A w \in Writer : writer'[w] = NoWrite
  BY <1>2
<1> QED
  BY <1>2, <1>3, <1>4, <1>5, <1>6, AckNext

LEMMA NextKeepsAcks ==
  ASSUME IInv, ShapeInv, ChainInv, TodoInv, CoverInv, AckInv, Next,
         NoErrorYet, NoErrorYet'
  PROVE  AckInv'
<1>1. CASE Read \/ RecoverFull \/ OpenInternal
           \/ \E checkpoint \in BOOLEAN : FlushBegin(checkpoint)
  <2>1. /\ UNCHANGED <<wal, super, datafile, datafile_flushed, acked,
                       group_acked, writer>>
        /\ wal_synced' \in {wal_synced, Len(wal)}
    BY <1>1, ReadMoves
       DEF IInv, RecoverFull, OpenInternal, FlushBegin, Fsync, disk
  <2>2. FileKept
    BY <2>1 DEF FileKept, IInv, TypeOK
  <2>3. LogKept /\ SyncedKept
    BY <2>1 DEF LogKept, SyncedKept, IInv, TypeOK
  <2> QED
    BY <2>1, <2>2, <2>3, NothingAcked DEF IInv
<1>2. ASSUME NEW k \in Key, FlushRecord(k)
      PROVE  AckInv'
  <2>1. /\ datafile' = Append(datafile, RecordOf(k, flushing[k]))
        /\ UNCHANGED <<wal, wal_synced, super, datafile_flushed, acked,
                       group_acked, writer>>
    BY <1>2, FlushRecordMoves
  <2>2. FileKept
    <3>1. /\ datafile \in Seq(Record) /\ Len(datafile) \in Nat
          /\ datafile_flushed \in 0 .. Len(datafile)
      BY DEF IInv, TypeOK
    <3>2. \A i \in 1 .. Len(datafile) : datafile'[i] = datafile[i]
      BY <2>1, <3>1
    <3> QED
      BY <2>1, <3>1, <3>2 DEF FileKept
  <2>3. LogKept /\ SyncedKept
    BY <2>1 DEF LogKept, SyncedKept, IInv, TypeOK
  <2> QED
    BY <2>1, <2>2, <2>3, NothingAcked DEF IInv
<1>3. ~FlushFsyncFails /\ ~FlushRecordFails
  BY DEF FlushFsyncFails, FlushRecordFails, NoErrorYet
<1> QED
  BY <1>1, <1>2, <1>3, WriteKeepsAcks, WriterStepKeepsAcks, CommitsKeepAcks,
     CheckpointKeepsAcks, CrashKeepsAcks DEF Next, Flush

---------------------------------------------------------------------------
(* The invariant as long as NoErrorYet. *)

LEMMA InitClean ==
  ASSUME Checkpointed, Init
  PROVE  CleanInv
<1> PICK k \in Key :
      /\ datafile = <<[lsn |-> 1, key |-> k, del |-> FALSE]>>
      /\ datafile_flushed = 1
      /\ super = [data_lsn |-> 1, wal_lsn |-> 1,
                  root |-> [NoRoot EXCEPT ![k] = 1]]
      /\ vidx = [j \in Key |-> IF j = k THEN {1} ELSE {}]
      /\ acked = [EmptyTable EXCEPT ![k] = [lsn |-> 1, del |-> FALSE]]
  BY DEF Init, CheckpointedFiles
<1>1. /\ phase = "down" /\ Closed /\ wal = <<>> /\ wal_synced = 0
      /\ Len(wal) = 0 /\ Len(datafile) = 1 /\ faults = 0 /\ tears = {}
      /\ group_acked = EmptyTable
  BY DEF Init, Closed
<1>2. /\ datafile[1].key = k /\ datafile[1].lsn = 1 /\ datafile[1].del = FALSE
      /\ super.wal_lsn = 1
      /\ \A i \in 1 .. Len(datafile) : i = 1
  BY <1>1
<1>3. Pending = EmptyTable /\ Todo = {} /\ ~Open
  BY <1>1 DEF Closed, Pending, Todo, Open
<1>4. NoErrorYet
  BY <1>1 DEF NoErrorYet
<1>5. ShapeInv
  BY <1>1, <1>3 DEF Closed, ShapeInv, Held
<1>6. ChainInv
  <2>1. vidx[k] = {1} /\ NoSidecar[k] = {0}
    BY DEF NoSidecar
  <2>2. vidx # NoSidecar
    BY <2>1
  <2>3. \A j \in Key : \A l \in vidx[j] : l = 1
    OBVIOUS
  <2>4. \A j \in Key : vcs[j] = {}
    BY <1>1 DEF Closed
  <2> QED
    BY <1>2, <2>2, <2>3, <2>4 DEF ChainInv
<1>7. TodoInv
  BY <1>3 DEF TodoInv
<1>8. CoverInv
  BY <1>1, <1>3 DEF CoverInv, LogCovered, DoneStored, Held, EmptyTable
<1>9. FileInv
  <2>1. \A i, j \in 1 .. Len(datafile) : ~(i < j)
    BY <1>2
  <2> QED
    BY <1>1, <1>2, <2>1 DEF FileInv
<1>10. RootComplete
  <2>1. ASSUME NEW j \in Key
        PROVE  super.root[j] = LET r == LastAt(datafile, Below(datafile, j, 1))
                               IN  IF r.del THEN 0 ELSE r.lsn
    <3>1. super.root = [NoRoot EXCEPT ![k] = 1] /\ DOMAIN NoRoot = Key
      BY DEF NoRoot
    <3>2. CASE j = k
      <4>1. Below(datafile, j, 1) = {1}
        <5>1. \A i : i \in Below(datafile, j, 1) <=> i = 1
          BY <1>1, <1>2, <3>2 DEF Below, Of, OfAbove
        <5> QED
          BY <5>1
      <4>2. MaxOf({1}) = 1
        <5>1. {1} \in SUBSET (0 .. 1)
          OBVIOUS
        <5> QED
          BY <5>1, MaxOfIsGreatest
      <4>3. LastAt(datafile, {1}).del = FALSE
            /\ LastAt(datafile, {1}).lsn = 1
        BY <1>2, <4>2 DEF LastAt
      <4> QED
        BY <3>1, <3>2, <4>1, <4>3
    <3>3. CASE j # k
      <4>1. Below(datafile, j, 1) = {}
        BY <1>1, <1>2, <3>3 DEF Below, Of
      <4>2. super.root[j] = 0
        BY <3>1, <3>3 DEF NoRoot
      <4> QED
        BY <4>1, <4>2 DEF LastAt, NoEntry
    <3> QED
      BY <3>2, <3>3
  <2> QED
    BY <1>2, <2>1 DEF RootComplete, Below
<1>11. RootInv
  BY <1>3, <1>10 DEF RootInv
<1>12. AckInv
  <2>1. ASSUME NEW j \in Key
        PROVE  acked[j].lsn = 0 \/ Covered(j, acked[j].lsn)
    <3>1. CASE j = k
      <4>1. acked[j].lsn = 1
        BY <3>1 DEF EmptyTable
      <4>2. 1 \in 1 .. datafile_flushed
        OBVIOUS
      <4> QED
        BY <1>2, <3>1, <4>1, <4>2 DEF Covered, Stored
    <3>2. CASE j # k
      BY <3>2 DEF EmptyTable, NoEntry
    <3> QED
      BY <3>1, <3>2
  <2>2. \A j \in Key : group_acked[j].lsn = 0
    BY <1>1 DEF EmptyTable, NoEntry
  <2>3. \A w \in Writer : writer[w].pc = "none"
    BY <1>1 DEF Closed, NoWrite
  <2> QED
    BY <2>1, <2>2, <2>3 DEF AckInv, Secured
<1> QED
  BY <1>4, <1>5, <1>6, <1>7, <1>8, <1>9, <1>11, <1>12 DEF CleanInv

(* I/O errors are counted, and tears kept. *)
LEMMA FaultsGrow ==
  ASSUME IInv, [Next]_vars, NoErrorYet'
  PROVE  NoErrorYet
<1>1. faults' \in {faults, faults + 1}
  <2>1. CASE vars' = vars
    BY <2>1 DEF vars
  <2>2. CASE Read
    BY <2>2, ReadMoves DEF IInv
  <2>3. CASE Next /\ ~Read
    BY <2>3 DEF Next, Write, PutSyncFastAppend, WriteAsync, WriteGroup,
       WriterStep, AwaitFsync, AwaitFails, SetStable, GroupCommit, Flush,
       FlushBegin, FlushFsyncFails, FlushRecord, FlushRecordFails, FlushEnd,
       Checkpoint, FoldWalToVcs, CommitSuperBlock, CommitSuperBlockFails,
       SaveLsnIndexSidecar, SaveVcsSidecar, TruncateTo, RecoverFull, Crash,
       OpenInternal
  <2> QED
    BY <2>1, <2>2, <2>3
<1>2. faults \in Nat
  BY DEF IInv, TypeOK
<1>3. tears \subseteq tears'
  <2>1. CASE vars' = vars
    BY <2>1 DEF vars, disk
  <2>2. CASE Read
    BY <2>2, ReadMoves DEF IInv, disk
  <2>3. CASE Next /\ ~Read
    BY <2>3 DEF Next, Write, PutSyncFastAppend, WriteAsync, WriteGroup,
       WriterStep, AwaitFsync, AwaitFails, SetStable, GroupCommit, Flush,
       FlushBegin, FlushFsyncFails, FlushRecord, FlushRecordFails, FlushEnd,
       Checkpoint, FoldWalToVcs, CommitSuperBlock, CommitSuperBlockFails,
       SaveLsnIndexSidecar, SaveVcsSidecar, TruncateTo, RecoverFull, Crash,
       OpenInternal, disk
  <2> QED
    BY <2>1, <2>2, <2>3
<1> QED
  BY <1>1, <1>2, <1>3 DEF NoErrorYet

LEMMA NextClean ==
  ASSUME IInv, NoErrorYet => CleanInv, [Next]_vars,
         "kFastOpen" \notin CallsRecoverFull
  PROVE  NoErrorYet' => CleanInv'
<1> SUFFICES ASSUME NoErrorYet' PROVE CleanInv'
  OBVIOUS
<1>1. NoErrorYet /\ CleanInv
  BY FaultsGrow
<1>2. CASE Next
  BY <1>1, <1>2, NextKeepsShape, NextKeepsChains, NextKeepsTodo, NextKeepsCover,
     NextKeepsFile, NextKeepsRoot, NextKeepsAcks DEF CleanInv
<1>3. CASE vars' = vars
  <2>1. UNCHANGED <<opts, disk, tables, index, lsns, control, writer, crashes,
                    faults, acked, group_acked>>
    BY <1>3 DEF vars
  <2>2. Pending' = Pending /\ Todo' = Todo
    BY <2>1 DEF Pending, Todo, ReplayedTable, tables, lsns, control, disk
  <2>3. ShapeInv' /\ ChainInv' /\ TodoInv' /\ FileInv' /\ RootInv'
    BY <1>1, <2>1, <2>2
       DEF CleanInv, ShapeInv, ChainInv, TodoInv, Newest, FileInv, RootInv,
           RootComplete, NoErrorYet, Open, RecoveryStrategy,
           LazyCommittedLoad, disk, sidecars, tables, index, lsns, control
  <2>4. CoverInv'
    BY <1>1, <2>1, <2>2
       DEF CleanInv, CoverInv, LogCovered, DoneStored, CoveredRecord, Covered,
           Stored, Held, Open, disk, control
  <2>5. AckInv'
    BY <1>1, <2>1 DEF CleanInv, AckInv, Secured, Covered, Stored, disk
  <2> QED
    BY <2>3, <2>4, <2>5 DEF CleanInv
<1> QED
  BY <1>2, <1>3

LEMMA CleanInvariant ==
  ASSUME Checkpointed, "kFastOpen" \notin CallsRecoverFull
  PROVE  Spec => [](IInv /\ (NoErrorYet => CleanInv))
<1> DEFINE Clean == IInv /\ (NoErrorYet => CleanInv)
<1>1. Init => Clean
  BY InitIInv, InitClean
<1>2. Clean /\ [Next]_vars => Clean'
  BY NextIInv, NextClean
<1> QED
  BY <1>1, <1>2, PTL DEF Spec

(* A version that is secured is found by the recovery after a crash, with  *)
(* any prefixes of the log and the data file that a crash may leave.       *)
LEMMA SecuredSurvives ==
  ASSUME IInv, CleanInv, NoErrorYet, NEW k \in Key,
         NEW n \in wal_synced .. Len(wal),
         NEW m \in datafile_flushed .. Len(datafile),
         NEW l \in Nat, Secured(k, l, wal_synced)
  PROVE  RecoveredVersion(k, n, m).lsn >= l
<1> DEFINE log == SubSeq(wal, 1, n)
           file == SubSeq(datafile, 1, m)
           logged == LastAbove(log, k, super.wal_lsn)
<1>1. /\ wal \in Seq(Record) /\ datafile \in Seq(Record)
      /\ wal_synced \in 0 .. Len(wal) /\ Len(wal) \in Nat
      /\ datafile_flushed \in 0 .. Len(datafile) /\ Len(datafile) \in Nat
      /\ super.wal_lsn \in Nat /\ super.wal_lsn \in Lsn
  BY TypeFacts DEF IInv, TypeOK
<1>2. n \in 0 .. Len(wal) /\ m \in 0 .. Len(datafile)
  BY <1>1
<1>3. /\ log \in Seq(Record) /\ Len(log) = n
      /\ \A i \in 1 .. n : log[i] = wal[i]
  BY <1>1, <1>2
<1>4. /\ file \in Seq(Record) /\ Len(file) = m
      /\ \A i \in 1 .. m : file[i] = datafile[i]
  BY <1>1, <1>2
<1>5. RecoveredVersion(k, n, m)
        = IF logged # NoEntry THEN logged ELSE LastOf(file, k)
  BY <1>4, ReachedIs DEF RecoveredVersion, NoErrorYet
<1> HIDE DEF log, file
<1>6. \A i, j \in 1 .. Len(log) : i < j => log[i].lsn < log[j].lsn
  <2>1. \A i \in 1 .. n : i \in 1 .. Len(wal)
    BY <1>1, <1>2
  <2> QED
    BY <1>3, <2>1 DEF IInv, LogInv
<1>7. \A i \in 1 .. n : log[i].key = k /\ log[i].lsn > super.wal_lsn =>
        log[i].lsn <= logged.lsn /\ logged # NoEntry
  BY <1>1, <1>3, <1>6, LastAboveNewest
<1>8. /\ logged \in Entry /\ LastOf(file, k) \in Entry
      /\ logged.lsn \in Nat /\ LastOf(file, k).lsn \in Nat
  <2>1. logged \in Entry /\ LastOf(file, k) \in Entry
    BY <1>1, <1>3, <1>4, LastAboveIsLast, LastOfType
  <2> QED
    BY <2>1, TypeFacts DEF Entry, IInv
<1>9. logged # NoEntry => logged.lsn > super.wal_lsn
  BY SMTT(20), <1>1, <1>3, LastAboveIsLast DEF EntryOf
<1> HIDE DEF logged
<1>10. ASSUME NEW i \in 1 .. n, wal[i].key = k, wal[i].lsn >= l,
              wal[i].lsn > super.wal_lsn
       PROVE  RecoveredVersion(k, n, m).lsn >= l
  <2>1. log[i] = wal[i] /\ wal[i].lsn \in Nat
    BY <1>1, <1>2, <1>3, TypeFacts DEF IInv
  <2>2. wal[i].lsn <= logged.lsn /\ logged # NoEntry
    BY <1>7, <1>10, <2>1
  <2> QED
    BY <1>5, <1>8, <1>10, <2>1, <2>2
<1>11. CASE l = 0
  BY <1>5, <1>8, <1>11
<1>12. CASE Covered(k, l)
  <2>1. PICK i \in 1 .. datafile_flushed :
          datafile[i].key = k /\ datafile[i].lsn >= l
    BY <1>12 DEF Covered, Stored
  <2>2. /\ i \in 1 .. m /\ i \in 1 .. Len(datafile)
        /\ datafile[i] \in Elements(datafile)
    BY <1>1, <1>2 DEF Elements
  <2>3. datafile[i].lsn \in Nat
    BY <2>2, ElementsType, TypeFacts DEF IInv, TypeOK
  <2>4. CASE logged = NoEntry
    <3> DEFINE at == Of(file, k)
    <3>1. at \in SUBSET (1 .. Len(file)) /\ i \in at
      BY <1>4, <2>1, <2>2 DEF Of
    <3>2. \A j \in at : file[j].key = k
      BY DEF Of
    <3>3. LastOf(file, k) = LastAt(file, at)
      BY DEF LastOf
    <3> HIDE DEF at
    <3>4. PICK j \in at : /\ \A h \in at : h <= j
                          /\ LastAt(file, at) = EntryOf(file[j])
      BY <1>4, <3>1, LastAtIsLast
    <3>5. /\ i <= j /\ j \in 1 .. m /\ j \in 1 .. Len(datafile)
          /\ file[j] = datafile[j] /\ datafile[j].key = k
      BY <1>1, <1>2, <1>4, <3>1, <3>2, <3>4
    <3>6. datafile[j].lsn \in Nat
      <4>1. datafile[j] \in Elements(datafile)
        BY <3>5 DEF Elements
      <4> QED
        BY <4>1, ElementsType, TypeFacts DEF IInv, TypeOK
    <3>7. datafile[i].lsn <= datafile[j].lsn
      <4>1. CASE i = j
        BY <2>3, <4>1
      <4>2. CASE i < j
        BY <2>1, <2>2, <3>5, <4>2 DEF CleanInv, FileInv
      <4> QED
        BY <2>2, <3>5, <4>1, <4>2
    <3>8. LastOf(file, k).lsn = datafile[j].lsn
      BY <3>3, <3>4, <3>5 DEF EntryOf
    <3> QED
      BY <1>5, <2>1, <2>3, <2>4, <3>6, <3>7, <3>8
  <2>5. CASE logged # NoEntry
    <3>1. CASE datafile[i].lsn <= super.wal_lsn
      BY <1>1, <1>5, <1>8, <1>9, <2>1, <2>3, <2>5, <3>1
    <3>2. CASE ~(datafile[i].lsn <= super.wal_lsn)
      <4>1. PICK j \in 1 .. wal_synced : wal[j] = datafile[i]
        BY <2>2, <3>2 DEF IInv, WriteAhead
      <4>2. j \in 1 .. n
        BY <1>1, <1>2
      <4>3. wal[j].lsn > super.wal_lsn
        BY <1>1, <2>3, <3>2, <4>1
      <4> QED
        BY <1>10, <2>1, <4>1, <4>2, <4>3
    <3> QED
      BY <3>1, <3>2
  <2> QED
    BY <2>4, <2>5
<1>13. CASE \E i \in 1 .. wal_synced :
              wal[i].key = k /\ wal[i].lsn >= l /\ wal[i].lsn > super.wal_lsn
  <2>1. \A i \in 1 .. wal_synced : i \in 1 .. n
    BY <1>1, <1>2
  <2> QED
    BY <1>10, <1>13, <2>1
<1> QED
  BY <1>11, <1>12, <1>13 DEF Secured

(* Checkpoint may truncate the log up to the LSN of the superblock it has  *)
(* committed: as long as no flush or superblock fails and no record is     *)
(* torn, each record it drops (WalWriter::TruncateTo) is superseded in the *)
(* flushed part of the data file, at every step of the checkpoint and after*)
(* a crash between two of them.                                            *)
THEOREM CheckpointIsSafe ==
  ASSUME Checkpointed, "kFastOpen" \notin CallsRecoverFull
  PROVE  Spec => []CheckpointCoversLog
<1>1. IInv /\ (NoErrorYet => CleanInv) => CheckpointCoversLog
  <2> SUFFICES ASSUME CleanInv, NEW r \in Elements(wal),
                      r.lsn <= super.wal_lsn
               PROVE  \E i \in 1 .. datafile_flushed :
                        datafile[i].key = r.key /\ datafile[i].lsn >= r.lsn
    BY DEF CheckpointCoversLog
  <2>1. PICK i \in 1 .. Len(wal) : wal[i] = r
    BY DEF Elements
  <2> QED
    BY <2>1 DEF CleanInv, CoverInv, LogCovered, CoveredRecord, Covered, Stored
<1> QED
  BY <1>1, CleanInvariant, PTL

(* I-D3 for one key: flushes, interleaved with writes, crashes and replays *)
(* of the log, append to the data file in LSN order, so that the load of   *)
(* the file, which lets the last record of a key win, finds the newest.    *)
THEOREM DataFileInOrder ==
  ASSUME Checkpointed, "kFastOpen" \notin CallsRecoverFull
  PROVE  Spec => []DataFileOrder
<1>1. IInv /\ (NoErrorYet => CleanInv) => DataFileOrder
  BY DEF CleanInv, FileInv, DataFileOrder
<1> QED
  BY <1>1, CleanInvariant, PTL

(* What a kSync Put or Delete, a Flush or a Checkpoint has reported        *)
(* durable is found by the recovery after a crash at any step, whatever    *)
(* unsynced records the crash leaves, as long as no flush or superblock    *)
(* fails and no record of the data file is torn.                           *)
THEOREM AckedIsDurable ==
  ASSUME Checkpointed, "kFastOpen" \notin CallsRecoverFull
  PROVE  Spec => []AckedDurableUnlessFailed
<1>1. IInv /\ (NoErrorYet => CleanInv) => AckedDurableUnlessFailed
  <2> SUFFICES ASSUME IInv, CleanInv, NoErrorYet, NEW k \in Key,
                      NEW n \in wal_synced .. Len(wal),
                      NEW m \in datafile_flushed .. Len(datafile)
               PROVE  RecoveredVersion(k, n, m).lsn >= acked[k].lsn
    BY DEF AckedDurableUnlessFailed, AckedDurable, SurvivesNow
  <2>1. acked[k].lsn \in Nat
    BY TypeFacts DEF IInv, TypeOK, Entry
  <2>2. Secured(k, acked[k].lsn, wal_synced)
    BY DEF CleanInv, AckInv
  <2> QED
    BY <2>1, <2>2, SecuredSurvives
<1> QED
  BY <1>1, CleanInvariant, PTL

(* The same for the writes that GroupCommitter::Commit, called by the      *)
(* application or by the write that fills a batch, has reported stable.    *)
THEOREM GroupCommitIsDurable ==
  ASSUME Checkpointed, "kFastOpen" \notin CallsRecoverFull
  PROVE  Spec => []GroupCommitDurable
<1>1. IInv /\ (NoErrorYet => CleanInv) => GroupCommitDurable
  <2> SUFFICES ASSUME IInv, CleanInv, NoErrorYet, NEW k \in Key,
                      NEW n \in wal_synced .. Len(wal),
                      NEW m \in datafile_flushed .. Len(datafile)
               PROVE  RecoveredVersion(k, n, m).lsn >= group_acked[k].lsn
    BY DEF GroupCommitDurable, SurvivesNow
  <2>1. group_acked[k].lsn \in Nat
    BY TypeFacts DEF IInv, TypeOK, Entry
  <2>2. Secured(k, group_acked[k].lsn, wal_synced)
    BY DEF CleanInv, AckInv
  <2> QED
    BY <2>1, <2>2, SecuredSurvives
<1> QED
  BY <1>1, CleanInvariant, PTL

(* ADR-016: without lazy_committed_load the B-tree root that the           *)
(* superblock names has every key that is live at the superblock's LSN and *)
(* none that is deleted there, through flushes, crashes and restarts.      *)
THEOREM RootIsComplete ==
  ASSUME Checkpointed, "kFastOpen" \notin CallsRecoverFull
  PROVE  Spec => []RootCompleteUnlessLazy
<1>1. IInv /\ (NoErrorYet => CleanInv) => RootCompleteUnlessLazy
  BY DEF CleanInv, RootInv, RootCompleteUnlessLazy, RootComplete
<1> QED
  BY <1>1, CleanInvariant, PTL
---------------------------------------------------------------------------
(* What readers find.  A few more facts lead a read to the newest version  *)
(* reported durable: an LSN stands for one record, whatever file it is     *)
(* read from; a record of the data file is reported durable, or the log    *)
(* will bring it back; the chains of a key hold LSNs of that key only, and *)
(* miss none above one that ReadByLsn finds; the B-tree agrees with        *)
(* committed_ on what is flushed.                                          *)

Records == Elements(wal) \cup Elements(datafile)

SameInv ==
  /\ \A r, q \in Records : r.lsn = q.lsn => r = q
  /\ \A r \in Records : r.lsn = acked[r.key].lsn => r.del = acked[r.key].del
  /\ \A w \in Writer : writer[w].pc # "none" =>
       \A r \in Records : r.lsn = writer[w].lsn =>
         r.key = writer[w].key /\ r.del = writer[w].del

FileAcked ==
  \A d \in Elements(datafile) :
    \/ d.lsn <= acked[d.key].lsn
    \/ d.lsn > super.wal_lsn /\ (Open => d.lsn <= Pending[d.key].lsn)

ChainKeys ==
  \A k \in Key : \A l \in vcs[k] \cup vidx[k] : \A r \in Records :
    r.lsn = l => r.key = k

(* Without lazy_committed_load ReadByLsn finds what was flushed since the  *)
(* open.  A version is in its chain when an older one can be found.        *)
IndexInv ==
  ~LazyCommittedLoad =>
    /\ ~Open => lsn_index = {}
    /\ \A r, d \in Elements(datafile) :
         r.key = d.key /\ r.lsn \in lsn_index /\ r.lsn <= d.lsn
           => d.lsn \in vcs[d.key]

BtreeInv ==
  /\ super.root # NoRoot
  /\ ~LazyCommittedLoad /\ Open => \A k \in Key \ Todo : btree[k] = committed[k]

FreshInv == SameInv /\ FileAcked /\ ChainKeys /\ IndexInv /\ BtreeInv

LEMMA RecordsType ==
  ASSUME IInv
  PROVE  \A r \in Records : /\ r \in Record /\ r.lsn \in Nat /\ r.key \in Key
                            /\ r.lsn \in Lsn /\ r.del \in BOOLEAN
<1>1. /\ wal \in Seq(Record) /\ datafile \in Seq(Record)
      /\ \A l \in Lsn : l \in Nat
  BY TypeFacts DEF IInv, TypeOK
<1>2. \A r \in Records : r \in Record /\ r.lsn \in Lsn
  BY <1>1, ElementsType DEF Records
<1> QED
  BY <1>1, <1>2 DEF Record

(* While the shard is open, no record is above the counter, and neither is *)
(* what was reported durable or what a writer waits for.                   *)
LEMMA AllBelowCounter ==
  ASSUME IInv, AckInv, Open
  PROVE  /\ \A r \in Records : r.lsn <= max_lsn
         /\ \A k \in Key : acked[k].lsn <= max_lsn
         /\ \A w \in Writer : writer[w].pc # "none" => writer[w].lsn <= max_lsn
<1>0. /\ max_lsn \in Nat /\ super.wal_lsn \in Nat /\ super.wal_lsn <= max_lsn
      /\ \A i \in 1 .. Len(wal) : wal[i].lsn \in Nat /\ wal[i].lsn <= max_lsn
      /\ wal_synced \in 0 .. Len(wal) /\ Len(wal) \in Nat
  BY TypeFacts DEF IInv, LogInv
<1>1. ASSUME NEW r \in Records
      PROVE  r.lsn <= max_lsn
  <2>1. CASE r \in Elements(wal)
    BY <1>0, <2>1 DEF Elements
  <2>2. CASE r \in Elements(datafile)
    <3>1. PICK i \in 1 .. Len(datafile) : datafile[i] = r
      BY <2>2 DEF Elements
    <3> QED
      BY <3>1, BelowCounter
  <2> QED
    BY <2>1, <2>2 DEF Records
<1>2. ASSUME NEW k \in Key
      PROVE  acked[k].lsn <= max_lsn
  <2>1. acked[k].lsn \in Nat
    BY TypeFacts DEF IInv, TypeOK, Entry
  <2>2. Secured(k, acked[k].lsn, wal_synced)
    BY DEF AckInv
  <2>3. CASE acked[k].lsn = 0
    BY <1>0, <2>3
  <2>4. CASE Covered(k, acked[k].lsn)
    <3>1. PICK i \in 1 .. datafile_flushed : datafile[i].lsn >= acked[k].lsn
      BY <2>4 DEF Covered, Stored
    <3>2. i \in 1 .. Len(datafile)
      BY DEF IInv, TypeOK
    <3>3. datafile[i].lsn \in Nat /\ datafile[i].lsn <= max_lsn
      BY <3>2, BelowCounter
    <3> QED
      BY <1>0, <2>1, <3>1, <3>3
  <2>5. CASE \E i \in 1 .. wal_synced : wal[i].lsn >= acked[k].lsn
    <3>1. PICK i \in 1 .. wal_synced : wal[i].lsn >= acked[k].lsn
      BY <2>5
    <3>2. wal[i].lsn \in Nat /\ wal[i].lsn <= max_lsn
      BY <1>0
    <3> QED
      BY <1>0, <2>1, <3>1, <3>2
  <2> QED
    BY <2>2, <2>3, <2>4, <2>5 DEF Secured
<1>3. ASSUME NEW w \in Writer, writer[w].pc # "none"
      PROVE  writer[w].lsn <= max_lsn
  <2>1. /\ WriterInv(w) /\ writer[w].pc \in {"await", "synced"}
        /\ writer[w].lsn \in Nat
    <3>1. writer[w] \in {NoWrite} \cup [pc : {"await", "synced"}, lsn : Lsn,
                                        key : Key, del : BOOLEAN]
      BY DEF IInv, TypeOK
    <3>2. writer[w] # NoWrite
      BY <1>3 DEF NoWrite
    <3> QED
      BY <3>1, <3>2, TypeFacts DEF IInv, StableInv
  <2>2. CASE writer[w].pc = "await"
    BY <2>1, <2>2 DEF WriterInv
  <2>3. CASE writer[w].pc = "synced"
    <3>1. DurableUpTo(writer[w].lsn)
      BY <2>1, <2>3 DEF WriterInv
    <3>2. CASE writer[w].lsn <= super.wal_lsn
      BY <1>0, <2>1, <3>2
    <3>3. CASE \E i \in 1 .. wal_synced : writer[w].lsn <= wal[i].lsn
      <4>1. PICK i \in 1 .. wal_synced : writer[w].lsn <= wal[i].lsn
        BY <3>3
      <4>2. wal[i].lsn \in Nat /\ wal[i].lsn <= max_lsn
        BY <1>0
      <4> QED
        BY <1>0, <2>1, <4>1, <4>2
    <3> QED
      BY <3>1, <3>2, <3>3 DEF DurableUpTo
  <2> QED
    BY <2>1, <2>2, <2>3
<1> QED
  BY <1>1, <1>2, <1>3

(* Elements of a log that is extended, and of one that is cut.             *)
LEMMA ElementsAppend ==
  ASSUME NEW log \in Seq(Record), NEW log2, NEW r,
         Len(log2) = Len(log) + 1, log2[Len(log2)] = r,
         \A i \in 1 .. Len(log) : log2[i] = log[i]
  PROVE  Elements(log2) = Elements(log) \cup {r}
<1>1. Len(log) \in Nat
  OBVIOUS
<1>2. \A i : i \in 1 .. Len(log2) <=> i \in 1 .. Len(log) \/ i = Len(log2)
  BY <1>1
<1>3. \A x : x \in Elements(log2)
               <=> (\E i \in 1 .. Len(log) : log[i] = x) \/ x = r
  BY <1>2 DEF Elements
<1> QED
  BY <1>3 DEF Elements

LEMMA ElementsCut ==
  ASSUME NEW log, NEW log2,
         \A i \in 1 .. Len(log2) : i \in 1 .. Len(log) /\ log2[i] = log[i]
  PROVE  Elements(log2) \subseteq Elements(log)
BY DEF Elements

(* What AckAll reports: the newest record of the log, if it is newer.      *)
LEMMA AckAllIs ==
  ASSUME IInv, NEW k \in Key
  PROVE  /\ acked[k].lsn \in Nat /\ AckAll(acked)[k].lsn \in Nat
         /\ acked[k].lsn <= AckAll(acked)[k].lsn
         /\ \A r \in Elements(wal) : r.key = k => r.lsn <= AckAll(acked)[k].lsn
         /\ \/ AckAll(acked)[k] = acked[k]
            \/ \E r \in Elements(wal) : r.key = k /\ AckAll(acked)[k] = EntryOf(r)
<1> DEFINE at == Of(wal, k)
           e == LastAt(wal, at)
           new == AckAll(acked)[k]
<1>1. /\ acked[k] \in Entry /\ acked[k].lsn \in Nat
      /\ wal \in Seq(Record) /\ Len(wal) \in Nat
      /\ \A i \in 1 .. Len(wal) : wal[i].lsn \in Nat
  BY TypeFacts DEF IInv, TypeOK, Entry
<1>2. new = IF e.lsn > acked[k].lsn THEN e ELSE acked[k]
  BY DEF AckAll, Newer, LastOf
<1>3. at \in SUBSET (1 .. Len(wal))
      /\ \A i : i \in at <=> i \in 1 .. Len(wal) /\ wal[i].key = k
  BY DEF Of
<1> HIDE DEF at, new
<1>4. CASE at = {}
  <2>1. e.lsn = 0
    BY <1>1, <1>3, <1>4, LastAtIsLast DEF NoEntry
  <2>2. new = acked[k]
    BY <1>1, <1>2, <2>1
  <2>3. \A r \in Elements(wal) : r.key # k
    BY <1>3, <1>4 DEF Elements
  <2> QED
    BY <1>1, <2>2, <2>3 DEF new
<1>5. CASE at # {}
  <2>1. PICK i \in at : (\A j \in at : j <= i) /\ e = EntryOf(wal[i])
    BY <1>1, <1>3, <1>5, LastAtIsLast
  <2>2. e.lsn = wal[i].lsn /\ wal[i] \in Elements(wal) /\ wal[i].key = k
        /\ wal[i].lsn \in Nat
    BY <1>1, <1>3, <2>1 DEF EntryOf, Elements
  <2>3. \A j \in at : wal[j].lsn <= wal[i].lsn
    <3>1. ASSUME NEW j \in at
          PROVE  wal[j].lsn <= wal[i].lsn
      <4>1. j <= i /\ j \in 1 .. Len(wal) /\ i \in 1 .. Len(wal)
        BY <1>3, <2>1
      <4>2. j = i \/ j < i
        BY <4>1
      <4> QED
        BY <1>1, <4>1, <4>2 DEF IInv, LogInv
    <3> QED
      BY <3>1
  <2>4. \A r \in Elements(wal) : r.key = k => r.lsn \in Nat /\ r.lsn <= wal[i].lsn
    BY <1>1, <1>3, <2>3 DEF Elements
  <2> HIDE DEF e
  <2>5. CASE e.lsn > acked[k].lsn
    BY <1>1, <1>2, <2>1, <2>2, <2>4, <2>5 DEF new
  <2>6. CASE ~(e.lsn > acked[k].lsn)
    <3>1. new = acked[k]
      BY <1>2, <2>6
    <3>2. \A r \in Elements(wal) : r.key = k => r.lsn <= acked[k].lsn
      BY <1>1, <2>2, <2>4, <2>6
    <3> QED
      BY <1>1, <3>1, <3>2 DEF new
  <2> QED
    BY <2>5, <2>6
<1> QED
  BY <1>4, <1>5

(* A record that is flushed is in the log.                                 *)
LEMMA FlushedIsLogged ==
  ASSUME IInv, CleanInv, NEW k \in Key, FlushRecord(k)
  PROVE  /\ RecordOf(k, flushing[k]) \in Elements(wal)
         /\ RecordOf(k, flushing[k]).key = k
         /\ RecordOf(k, flushing[k]).lsn = flushing[k].lsn
         /\ RecordOf(k, flushing[k]) \in Record
         /\ flushing[k].lsn \in Nat
         /\ Elements(datafile')
              = Elements(datafile) \cup {RecordOf(k, flushing[k])}
<1> DEFINE e == flushing[k]
<1>1. /\ Newest(k, e) /\ datafile' = Append(datafile, RecordOf(k, e))
  BY FlushRecordMoves DEF CleanInv
<1>2. /\ super.wal_lsn \in Nat /\ e \in Entry /\ e.lsn \in Nat
      /\ datafile \in Seq(Record)
  BY TypeFacts DEF IInv, TypeOK, Entry
<1>3. RecordOf(k, e) \in Record
  BY <1>2 DEF RecordOf, Record, Entry
<1>4. RecordOf(k, e) \in Elements(wal)
  <2>1. Logged(k, e) /\ e.lsn > super.wal_lsn
    BY <1>1 DEF IInv, TablesInv, Newest
  <2>2. Among(RecordOf(k, e), Len(wal))
    BY <1>2, <2>1 DEF Logged
  <2> QED
    BY <2>2 DEF Among, Elements
<1>5. Elements(datafile') = Elements(datafile) \cup {RecordOf(k, e)}
  <2>1. /\ Len(datafile') = Len(datafile) + 1
        /\ datafile'[Len(datafile')] = RecordOf(k, e)
        /\ \A i \in 1 .. Len(datafile) : datafile'[i] = datafile[i]
    BY <1>1, <1>2, <1>3
  <2> QED
    BY <1>2, <2>1, ElementsAppend
<1> QED
  BY <1>2, <1>3, <1>4, <1>5 DEF RecordOf

(* Only a write makes a record that no file had.                           *)
LEMMA RecordsMove ==
  ASSUME IInv, CleanInv, Next, NoErrorYet', ~Write
  PROVE  Elements(wal') \subseteq Elements(wal) /\ Records' \subseteq Records
<1>1. CASE UNCHANGED <<wal, datafile>>
  BY <1>1 DEF Records
<1>2. ASSUME NEW k \in Key, FlushRecord(k)
      PROVE  wal' = wal /\ Records' \subseteq Records
  <2>1. wal' = wal
    BY <1>2, FlushRecordMoves DEF CleanInv
  <2> QED
    BY <1>2, <2>1, FlushedIsLogged DEF Records
<1>3. CASE TruncateTo
  <2>1. wal' = <<>> /\ datafile' = datafile
    BY <1>3, TruncateEmpties DEF IInv, TruncateTo
  <2>2. Elements(wal') = {}
    BY <2>1 DEF Elements
  <2> QED
    BY <2>1, <2>2 DEF Records
<1>4. CASE Crash
  <2>1. /\ Len(wal') \in wal_synced .. Len(wal)
        /\ \A i \in 1 .. Len(wal') : wal'[i] = wal[i]
        /\ Len(datafile') \in datafile_flushed .. Len(datafile)
        /\ \A i \in 1 .. Len(datafile') : datafile'[i] = datafile[i]
    BY <1>4, CrashLeaves DEF IInv
  <2>2. /\ wal_synced \in 0 .. Len(wal) /\ Len(wal) \in Nat
        /\ datafile_flushed \in 0 .. Len(datafile) /\ Len(datafile) \in Nat
    BY DEF IInv, TypeOK
  <2>3. /\ \A i \in 1 .. Len(wal') : i \in 1 .. Len(wal)
        /\ \A i \in 1 .. Len(datafile') : i \in 1 .. Len(datafile)
    BY <2>1, <2>2
  <2>4. /\ Elements(wal') \subseteq Elements(wal)
        /\ Elements(datafile') \subseteq Elements(datafile)
    BY <2>1, <2>3, ElementsCut
  <2> QED
    BY <2>4 DEF Records
<1>5. CASE WriterStep \/ GroupCommit \/ Read \/ RecoverFull \/ OpenInternal
  <2>1. UNCHANGED <<wal, datafile>>
    BY <1>5, ReadMoves DEF IInv, WriterStep, AwaitFsync, AwaitFails, SetStable,
       GroupCommit, RecoverFull, OpenInternal, disk
  <2> QED
    BY <1>1, <2>1
<1>6. CASE (\E checkpoint \in BOOLEAN : FlushBegin(checkpoint)) \/ FlushEnd
  <2>1. UNCHANGED <<wal, datafile>>
    BY <1>6 DEF FlushBegin, FlushEnd
  <2> QED
    BY <1>1, <2>1
<1>7. CASE Checkpoint /\ ~TruncateTo
  <2>1. UNCHANGED <<wal, datafile>>
    BY <1>7 DEF Checkpoint, FoldWalToVcs, CommitSuperBlock,
       CommitSuperBlockFails, SaveLsnIndexSidecar, SaveVcsSidecar, disk
  <2> QED
    BY <1>1, <2>1
<1>8. ~FlushFsyncFails /\ ~FlushRecordFails
  BY DEF FlushFsyncFails, FlushRecordFails, NoErrorYet, IInv, TypeOK
<1> QED
  BY <1>2, <1>3, <1>4, <1>5, <1>6, <1>7, <1>8 DEF Next, Flush

(* The versions reported durable only get newer, and each is a record of   *)
(* the log or a writer's.                                                  *)
WriterEntry(w) == [lsn |-> writer[w].lsn, del |-> writer[w].del]
LEMMA AckedMoves ==
  ASSUME IInv, Next, NEW k \in Key
  PROVE  /\ acked[k].lsn \in Nat /\ acked'[k].lsn \in Nat
         /\ acked[k].lsn <= acked'[k].lsn
         /\ \/ acked'[k] = acked[k]
            \/ /\ wal' = wal
               /\ \E r \in Elements(wal) : r.key = k /\ acked'[k] = EntryOf(r)
            \/ /\ UNCHANGED <<wal, datafile>>
               /\ \E w \in Writer : /\ writer[w].pc # "none" /\ writer[w].key = k
                                    /\ acked'[k] = WriterEntry(w)
<1>1. acked \in [Key -> Entry] /\ acked[k] \in Entry /\ acked[k].lsn \in Nat
  BY TypeFacts DEF IInv, TypeOK, Entry
<1>2. CASE acked' = acked
  BY <1>1, <1>2
<1>3. CASE FlushEnd
  <2>1. acked' = AckAll(acked) /\ wal' = wal
    BY <1>3 DEF FlushEnd
  <2> QED
    BY <1>1, <2>1, AckAllIs
<1>4. ASSUME NEW w \in Writer, SetStable(w)
      PROVE  /\ acked'[k].lsn \in Nat /\ acked[k].lsn <= acked'[k].lsn
             /\ \/ acked'[k] = acked[k]
                \/ /\ UNCHANGED <<wal, datafile>>
                   /\ \E v \in Writer : /\ writer[v].pc # "none"
                                        /\ writer[v].key = k
                                        /\ acked'[k] = WriterEntry(v)
  <2>1. /\ writer[w].pc = "synced" /\ UNCHANGED <<wal, datafile>>
        /\ acked' = [acked EXCEPT ![writer[w].key] = Newer(@, WriterEntry(w))]
    BY <1>4 DEF SetStable, disk, WriterEntry
  <2>2. writer[w].lsn \in Nat
    <3>1. writer[w] \in {NoWrite} \cup [pc : {"await", "synced"}, lsn : Lsn,
                                        key : Key, del : BOOLEAN]
      BY DEF IInv, TypeOK
    <3> QED
      BY <2>1, <3>1, TypeFacts DEF IInv, NoWrite
  <2>3. CASE acked'[k] = acked[k]
    BY <1>1, <2>3
  <2>4. CASE acked'[k] # acked[k]
    <3>1. /\ writer[w].key = k /\ acked'[k] = Newer(acked[k], WriterEntry(w))
      BY <1>1, <2>1, <2>4
    <3>2. /\ acked'[k] = WriterEntry(w) /\ WriterEntry(w).lsn > acked[k].lsn
      BY <2>4, <3>1 DEF Newer
    <3>3. acked'[k].lsn = writer[w].lsn
      BY <3>2 DEF WriterEntry
    <3> QED
      BY <1>1, <2>1, <2>2, <3>1, <3>2, <3>3
  <2> QED
    BY <2>3, <2>4
<1>5. \/ acked' = acked \/ FlushEnd \/ \E w \in Writer : SetStable(w)
  <2>1. CASE Write
    BY <2>1, WriteMoves
  <2>2. CASE Read
    BY <2>2, ReadMoves DEF IInv
  <2>3. CASE Flush
    BY <2>3 DEF Flush, FlushBegin, FlushFsyncFails, FlushRecord, FlushRecordFails
  <2>4. CASE Checkpoint
    BY <2>4 DEF Checkpoint, FoldWalToVcs, CommitSuperBlock,
       CommitSuperBlockFails, SaveLsnIndexSidecar, SaveVcsSidecar, TruncateTo
  <2>5. CASE WriterStep \/ GroupCommit \/ RecoverFull \/ Crash \/ OpenInternal
    BY <2>5 DEF WriterStep, AwaitFsync, AwaitFails, GroupCommit, RecoverFull,
       Crash, OpenInternal
  <2> QED
    BY <2>1, <2>2, <2>3, <2>4, <2>5 DEF Next
<1> QED
  BY <1>1, <1>2, <1>3, <1>4, <1>5

(* A writer's record is fixed when it is appended.                         *)
LEMMA WritersMove ==
  ASSUME IInv, Next, ~Write, NEW w \in Writer, writer'[w].pc # "none"
  PROVE  /\ writer[w].pc # "none" /\ writer'[w].lsn = writer[w].lsn
         /\ writer'[w].key = writer[w].key /\ writer'[w].del = writer[w].del
<1>1. writer \in [Writer -> {NoWrite} \cup
                    [pc : {"await", "synced"}, lsn : Lsn, key : Key,
                     del : BOOLEAN]]
  BY DEF IInv, TypeOK
<1>2. CASE writer' = writer
  BY <1>2
<1>3. ASSUME NEW v \in Writer, AwaitFsync(v)
      PROVE  /\ writer[w].pc # "none" /\ writer'[w].lsn = writer[w].lsn
             /\ writer'[w].key = writer[w].key /\ writer'[w].del = writer[w].del
  <2>1. /\ writer[v].pc = "await"
        /\ writer' = [writer EXCEPT ![v].pc = "synced"]
    BY <1>3 DEF AwaitFsync
  <2>2. writer[v] \in [pc : {"await", "synced"}, lsn : Lsn, key : Key,
                       del : BOOLEAN]
    BY <1>1, <2>1 DEF NoWrite
  <2>3. CASE v = w
    <3>1. writer'[w] = [writer[w] EXCEPT !.pc = "synced"]
      BY <1>1, <2>1, <2>3
    <3> QED
      BY <2>1, <2>2, <2>3, <3>1
  <2>4. CASE v # w
    BY <1>1, <2>1, <2>4
  <2> QED
    BY <2>3, <2>4
<1>4. ASSUME NEW v \in Writer, AwaitFails(v) \/ SetStable(v)
      PROVE  writer'[w] = writer[w]
  <2>1. writer' = [writer EXCEPT ![v] = NoWrite]
    BY <1>4 DEF AwaitFails, SetStable
  <2>2. v # w
    BY <1>1, <2>1 DEF NoWrite
  <2> QED
    BY <1>1, <2>1, <2>2
<1>5. ~Crash
  BY DEF Crash, LoseMemory, NoWrite
<1>6. CASE Read
  BY <1>2, <1>6, ReadMoves DEF IInv
<1>7. CASE Flush
  <2>1. writer' = writer
    BY <1>7 DEF Flush, FlushBegin, FlushFsyncFails, FlushRecord,
                FlushRecordFails, FlushEnd
  <2> QED
    BY <2>1
<1>8. CASE Checkpoint
  <2>1. writer' = writer
    BY <1>8 DEF Checkpoint, FoldWalToVcs, CommitSuperBlock,
       CommitSuperBlockFails, SaveLsnIndexSidecar, SaveVcsSidecar, TruncateTo
  <2> QED
    BY <2>1
<1>9. CASE GroupCommit \/ RecoverFull \/ OpenInternal
  <2>1. writer' = writer
    BY <1>9 DEF GroupCommit, RecoverFull, OpenInternal
  <2> QED
    BY <2>1
<1> QED
  BY <1>3, <1>4, <1>5, <1>6, <1>7, <1>8, <1>9 DEF Next, WriterStep

(* A write: its record is above all there are.                             *)
LEMMA WriteRecords ==
  ASSUME IInv, AckInv, Write
  PROVE  \E new \in Record :
           /\ new.lsn = max_lsn + 1
           /\ Records' = Records \cup {new}
           /\ Elements(datafile') = Elements(datafile)
           /\ \A r \in Records : r.lsn # new.lsn
           /\ \A j \in Key : acked[j].lsn # new.lsn
           /\ \A w \in Writer : writer[w].pc # "none" =>
                                  writer[w].lsn # new.lsn
           /\ \A w \in Writer :
                \/ writer'[w] = writer[w]
                \/ /\ writer'[w].lsn = new.lsn /\ writer'[w].key = new.key
                   /\ writer'[w].del = new.del
<1>1. PICK k \in Key, del \in BOOLEAN :
        \/ \E w \in Writer : PutSyncFastAppend(w, k, del)
        \/ WriteAsync(k, del)
        \/ WriteGroup(k, del)
  BY DEF Write
<1> DEFINE new == [lsn |-> max_lsn + 1, key |-> k, del |-> del]
<1>2. /\ AppendAndApply(k, del) /\ datafile' = datafile /\ Open
  BY <1>1 DEF PutSyncFastAppend, WriteAsync, WriteGroup, Open
<1>3. /\ max_lsn \in Nat /\ wal \in Seq(Record) /\ wal' = Append(wal, new)
  BY <1>2, TypeFacts DEF IInv, AppendAndApply
<1>4. Elements(wal') = Elements(wal) \cup {new}
  <2>1. PICK x : x = new
    OBVIOUS
  <2> HIDE DEF new
  <2>2. /\ Len(wal') = Len(wal) + 1 /\ wal'[Len(wal')] = x
        /\ \A i \in 1 .. Len(wal) : wal'[i] = wal[i]
    BY <1>3, <2>1
  <2>3. wal \in Seq(Record)
    BY <1>3
  <2>4. Elements(wal') = Elements(wal) \cup {x}
    BY <2>2, <2>3, ElementsAppend
  <2> QED
    BY <2>1, <2>4
<1>5. /\ new.key = k /\ new.del = del /\ new.lsn = max_lsn + 1
      /\ new \in Record
  <2>1. max_lsn + 1 \in Lsn
    BY <1>2, <1>3, BoundsOK DEF Lsn, AppendAndApply
  <2> QED
    BY <2>1 DEF Record
<1>6. \A w \in Writer :
        \/ writer'[w] = writer[w]
        \/ /\ writer'[w].lsn = new.lsn /\ writer'[w].key = k
           /\ writer'[w].del = del
  <2>1. writer \in [Writer -> {NoWrite} \cup
                      [pc : {"await", "synced"}, lsn : Lsn, key : Key,
                       del : BOOLEAN]]
    BY DEF IInv, TypeOK
  <2>2. ASSUME NEW v \in Writer, PutSyncFastAppend(v, k, del), NEW w \in Writer
        PROVE  \/ writer'[w] = writer[w]
               \/ /\ writer'[w].lsn = new.lsn /\ writer'[w].key = k
                  /\ writer'[w].del = del
    <3>1. writer' = [writer EXCEPT ![v] = [pc |-> "await", lsn |-> max_lsn + 1,
                                           key |-> k, del |-> del]]
      BY <2>2 DEF PutSyncFastAppend
    <3> QED
      BY <1>5, <2>1, <3>1
  <2>3. CASE WriteAsync(k, del) \/ WriteGroup(k, del)
    BY <2>3 DEF WriteAsync, WriteGroup
  <2> QED
    BY <1>1, <2>2, <2>3
<1> HIDE DEF new
<1>7. \A r \in Records : r.lsn # new.lsn
  BY <1>2, <1>3, <1>5, AllBelowCounter, RecordsType
<1>8. \A j \in Key : acked[j].lsn # new.lsn
  <2>1. \A j \in Key : acked[j].lsn \in Nat
    BY TypeFacts DEF IInv, TypeOK, Entry
  <2> QED
    BY <1>2, <1>3, <1>5, <2>1, AllBelowCounter
<1>9. \A w \in Writer : writer[w].pc # "none" => writer[w].lsn # new.lsn
  <2>1. ASSUME NEW w \in Writer, writer[w].pc # "none"
        PROVE  writer[w].lsn # new.lsn
    <3>1. writer[w].lsn \in Nat
      <4>1. writer[w] \in {NoWrite} \cup [pc : {"await", "synced"}, lsn : Lsn,
                                          key : Key, del : BOOLEAN]
        BY DEF IInv, TypeOK
      <4> QED
        BY <2>1, <4>1, TypeFacts DEF IInv, NoWrite
    <3> QED
      BY <1>2, <1>3, <1>5, <2>1, <3>1, AllBelowCounter
  <2> QED
    BY <2>1
<1>10. Records' = Records \cup {new} /\ Elements(datafile') = Elements(datafile)
  BY <1>2, <1>4 DEF Records
<1>11. \A w \in Writer :
         \/ writer'[w] = writer[w]
         \/ /\ writer'[w].lsn = new.lsn /\ writer'[w].key = new.key
            /\ writer'[w].del = new.del
  BY <1>5, <1>6
<1> QED
  BY <1>5, <1>7, <1>8, <1>9, <1>10, <1>11, Zenon

LEMMA NextKeepsSame ==
  ASSUME IInv, CleanInv, SameInv, Next, NoErrorYet'
  PROVE  SameInv'
<1>1. CASE Write
  <2>0. AckInv /\ acked' = acked
    BY <1>1, WriteMoves DEF CleanInv
  <2>1. PICK new \in Record :
          /\ Records' = Records \cup {new}
          /\ \A r \in Records : r.lsn # new.lsn
          /\ \A j \in Key : acked[j].lsn # new.lsn
          /\ \A w \in Writer : writer[w].pc # "none" => writer[w].lsn # new.lsn
          /\ \A w \in Writer :
               \/ writer'[w] = writer[w]
               \/ /\ writer'[w].lsn = new.lsn /\ writer'[w].key = new.key
                  /\ writer'[w].del = new.del
    BY <1>1, <2>0, WriteRecords
  <2>2. \A r, q \in Records' : r.lsn = q.lsn => r = q
    BY <2>1 DEF SameInv
  <2>3. \A r \in Records' :
          r.lsn = acked'[r.key].lsn => r.del = acked'[r.key].del
    BY <2>0, <2>1 DEF SameInv, Record
  <2>4. ASSUME NEW w \in Writer, writer'[w].pc # "none",
               NEW r \in Records', r.lsn = writer'[w].lsn
        PROVE  r.key = writer'[w].key /\ r.del = writer'[w].del
    <3>1. CASE writer'[w] = writer[w]
      BY <2>1, <2>4, <3>1 DEF SameInv
    <3>2. CASE /\ writer'[w].lsn = new.lsn /\ writer'[w].key = new.key
               /\ writer'[w].del = new.del
      <4>1. r = new
        BY <2>1, <2>4, <3>2
      <4> QED
        BY <2>1, <3>2, <4>1
    <3> QED
      BY <2>1, <3>1, <3>2
  <2> QED
    BY <2>2, <2>3, <2>4 DEF SameInv
<1>2. CASE ~Write
  <2>1. Records' \subseteq Records
    BY <1>2, RecordsMove
  <2>2. \A r, q \in Records' : r.lsn = q.lsn => r = q
    BY <2>1 DEF SameInv
  <2>3. ASSUME NEW r \in Records', r.lsn = acked'[r.key].lsn
        PROVE  r.del = acked'[r.key].del
    <3> DEFINE k == r.key
    <3>1. r \in Records /\ k \in Key
      BY <2>1, RecordsType
    <3>2. CASE acked'[k] = acked[k]
      BY <2>3, <3>1, <3>2 DEF SameInv
    <3>3. CASE \E q \in Elements(wal) : q.key = k /\ acked'[k] = EntryOf(q)
      <4>1. PICK q \in Elements(wal) : acked'[k] = EntryOf(q)
        BY <3>3
      <4>2. q \in Records /\ r.lsn = q.lsn /\ acked'[k].del = q.del
        BY <2>3, <4>1 DEF Records, EntryOf
      <4>3. r = q
        BY <3>1, <4>2 DEF SameInv
      <4> QED
        BY <4>2, <4>3
    <3>4. CASE \E w \in Writer : /\ writer[w].pc # "none" /\ writer[w].key = k
                                 /\ acked'[k] = WriterEntry(w)
      <4>1. PICK w \in Writer : /\ writer[w].pc # "none"
                                /\ acked'[k] = WriterEntry(w)
        BY <3>4
      <4>2. r.lsn = writer[w].lsn /\ acked'[k].del = writer[w].del
        BY <2>3, <4>1 DEF WriterEntry
      <4> QED
        BY <3>1, <4>1, <4>2 DEF SameInv
    <3> QED
      BY <3>1, <3>2, <3>3, <3>4, AckedMoves
  <2>4. ASSUME NEW w \in Writer, writer'[w].pc # "none",
               NEW r \in Records', r.lsn = writer'[w].lsn
        PROVE  r.key = writer'[w].key /\ r.del = writer'[w].del
    <3>1. /\ writer[w].pc # "none" /\ writer'[w].lsn = writer[w].lsn
          /\ writer'[w].key = writer[w].key /\ writer'[w].del = writer[w].del
      BY <1>2, <2>4, WritersMove
    <3> QED
      BY <2>1, <2>4, <3>1 DEF SameInv
  <2> QED
    BY <2>2, <2>3, <2>4 DEF SameInv
<1> QED
  BY <1>1, <1>2

(* The data file's records that are not reported durable yet are those of  *)
(* a flush under way, or of one a crash has cut short, which the log will  *)
(* bring back.                                                             *)
LEMMA NextKeepsFileAcked ==
  ASSUME IInv, CleanInv, FileAcked, Next, NoErrorYet',
         "kFastOpen" \notin CallsRecoverFull
  PROVE  FileAcked'
<1>0. \A d \in Elements(datafile) : d \in Records
  BY DEF Records
<1>1. ASSUME NEW d \in Elements(datafile)
      PROVE  /\ d \in Record /\ d.lsn \in Nat /\ d.key \in Key
             /\ acked[d.key].lsn \in Nat /\ acked'[d.key].lsn \in Nat
             /\ acked[d.key].lsn <= acked'[d.key].lsn
             /\ super.wal_lsn \in Nat
             /\ \/ d.lsn <= acked[d.key].lsn
                \/ d.lsn > super.wal_lsn /\ (Open => d.lsn <= Pending[d.key].lsn)
  <2>1. d \in Record /\ d.lsn \in Nat /\ d.key \in Key
    BY <1>0, RecordsType
  <2>2. super.wal_lsn \in Nat
    BY TypeFacts DEF IInv
  <2> QED
    BY <2>1, <2>2, AckedMoves DEF FileAcked
<1>2. ASSUME NEW d \in Elements(datafile), d.lsn <= acked[d.key].lsn
      PROVE  d.lsn <= acked'[d.key].lsn
  BY <1>1, <1>2
<1>3. CASE Write
  <2>1. PICK k \in Key, del \in BOOLEAN :
          /\ phase = "idle" /\ UNCHANGED <<super, datafile>>
          /\ Pending' = [Pending EXCEPT
                           ![k] = [lsn |-> max_lsn + 1, del |-> del]]
    BY <1>3, WriteMoves
  <2>2. /\ Pending \in [Key -> Entry] /\ Open /\ AckInv /\ max_lsn \in Nat
    BY <2>1, TypeFacts DEF IInv, Pending, Open, CleanInv
  <2>3. ASSUME NEW d \in Elements(datafile), d.lsn <= Pending[d.key].lsn
        PROVE  d.lsn <= Pending'[d.key].lsn
    <3>1. CASE d.key = k
      <4>1. d.lsn <= max_lsn
        BY <1>0, <2>2, AllBelowCounter
      <4>2. Pending'[d.key].lsn = max_lsn + 1
        BY <2>1, <2>2, <3>1
      <4> QED
        BY <1>1, <2>2, <4>1, <4>2
    <3>2. CASE d.key # k
      BY <1>1, <2>1, <2>2, <2>3, <3>2
    <3> QED
      BY <3>1, <3>2
  <2>4. ASSUME NEW d \in Elements(datafile)
        PROVE  \/ d.lsn <= acked'[d.key].lsn
               \/ d.lsn > super.wal_lsn /\ d.lsn <= Pending'[d.key].lsn
    BY <1>1, <1>2, <2>2, <2>3
  <2> QED
    BY <2>1, <2>4 DEF FileAcked
<1>4. CASE \/ WriterStep \/ GroupCommit \/ Read \/ RecoverFull
           \/ \E checkpoint \in BOOLEAN : FlushBegin(checkpoint)
  <2>1. SamePending
    BY <1>4, SamePendingSteps DEF CleanInv
  <2>2. UNCHANGED <<datafile, super>> /\ (Open' => Open)
    BY <1>4, ReadMoves DEF IInv, WriterStep, AwaitFsync, AwaitFails, SetStable,
       GroupCommit, RecoverFull, FlushBegin, disk, control, Open
  <2>3. ASSUME NEW d \in Elements(datafile)
        PROVE  \/ d.lsn <= acked'[d.key].lsn
               \/ d.lsn > super.wal_lsn /\ (Open' => d.lsn <= Pending'[d.key].lsn)
    BY <1>1, <1>2, <2>1, <2>2 DEF SamePending
  <2> QED
    BY <2>2, <2>3 DEF FileAcked
<1>5. ASSUME NEW k \in Key, FlushRecord(k)
      PROVE  FileAcked'
  <2> DEFINE e == flushing[k]
             r == RecordOf(k, e)
  <2>1. /\ Newest(k, e) /\ e = Pending[k] /\ Pending' = Pending
        /\ super' = super /\ Open
    BY <1>5, FlushRecordMoves DEF CleanInv, Open
  <2>2. /\ Elements(datafile') = Elements(datafile) \cup {r}
        /\ r.key = k /\ r.lsn = e.lsn /\ e.lsn \in Nat
    BY <1>5, FlushedIsLogged
  <2> HIDE DEF r, e
  <2>3. ASSUME NEW d \in Elements(datafile)
        PROVE  \/ d.lsn <= acked'[d.key].lsn
               \/ d.lsn > super.wal_lsn /\ d.lsn <= Pending'[d.key].lsn
    BY <1>1, <1>2, <2>1
  <2>4. r.lsn > super.wal_lsn /\ r.lsn <= Pending'[r.key].lsn
    BY <2>1, <2>2 DEF Newest
  <2>5. \A d \in Elements(datafile') :
          \/ d.lsn <= acked'[d.key].lsn
          \/ d.lsn > super.wal_lsn /\ d.lsn <= Pending'[d.key].lsn
    BY <2>2, <2>3, <2>4
  <2> QED
    BY <2>1, <2>5 DEF FileAcked
<1>6. CASE FlushEnd
  <2>1. acked' = AckAll(acked) /\ datafile' = datafile
    BY <1>6 DEF FlushEnd
  <2>2. ASSUME NEW d \in Elements(datafile)
        PROVE  d.lsn <= acked'[d.key].lsn
    <3>1. CASE d.lsn <= acked[d.key].lsn
      BY <1>2, <3>1
    <3>2. CASE d.lsn > super.wal_lsn
      <4>1. \E i \in 1 .. wal_synced : wal[i] = d
        BY <1>1, <3>2 DEF IInv, WriteAhead
      <4>2. d \in Elements(wal)
        BY <4>1, TypeFacts DEF IInv, Elements
      <4> QED
        BY <1>1, <2>1, <4>2, AckAllIs
    <3> QED
      BY <1>1, <3>1, <3>2
  <2> QED
    BY <2>1, <2>2 DEF FileAcked
<1>7. CASE Checkpoint
  <2>1. phase \notin {"idle", "flush", "down"} /\ datafile' = datafile
    BY <1>7 DEF Checkpoint, FoldWalToVcs, CommitSuperBlock,
       CommitSuperBlockFails, SaveLsnIndexSidecar, SaveVcsSidecar,
       TruncateTo, disk
  <2>2. Pending = EmptyTable /\ Open
    BY <2>1, NothingPending DEF CleanInv, Open
  <2>3. ASSUME NEW d \in Elements(datafile)
        PROVE  d.lsn <= acked'[d.key].lsn
    <3>1. Pending[d.key].lsn = 0
      BY <1>1, <2>2 DEF EmptyTable, NoEntry
    <3>2. d.lsn <= acked[d.key].lsn
      BY <1>1, <2>2, <3>1
    <3> QED
      BY <1>2, <3>2
  <2> QED
    BY <2>1, <2>3 DEF FileAcked
<1>8. CASE Crash
  <2>1. super' = super /\ ~Open' /\ Elements(datafile') \subseteq Elements(datafile)
    <3>1. /\ Len(datafile') \in datafile_flushed .. Len(datafile)
          /\ \A i \in 1 .. Len(datafile') : datafile'[i] = datafile[i]
      BY <1>8, CrashLeaves DEF IInv
    <3>2. datafile_flushed \in 0 .. Len(datafile) /\ Len(datafile) \in Nat
      BY DEF IInv, TypeOK
    <3>3. \A i \in 1 .. Len(datafile') : i \in 1 .. Len(datafile)
      BY <3>1, <3>2
    <3> QED
      BY <1>8, <3>1, <3>3, ElementsCut DEF Crash, LoseMemory, Open
  <2>2. ASSUME NEW d \in Elements(datafile)
        PROVE  d.lsn <= acked'[d.key].lsn \/ d.lsn > super.wal_lsn
    BY <1>1, <1>2
  <2> QED
    BY <2>1, <2>2 DEF FileAcked
<1>9. CASE OpenInternal
  <2>1. /\ \A k \in Key : Pending'[k] = LastAbove(wal, k, super.wal_lsn)
        /\ UNCHANGED <<wal, datafile, super>>
    BY <1>9, OpenMoves DEF CleanInv
  <2>2. ASSUME NEW d \in Elements(datafile), d.lsn > super.wal_lsn
        PROVE  d.lsn <= Pending'[d.key].lsn
    <3>1. PICK i \in 1 .. wal_synced : wal[i] = d
      BY <1>1, <2>2 DEF IInv, WriteAhead
    <3>2. i \in 1 .. Len(wal) /\ wal \in Seq(Record) /\ super.wal_lsn \in Lsn
      BY TypeFacts DEF IInv
    <3>3. \A j, h \in 1 .. Len(wal) : j < h => wal[j].lsn < wal[h].lsn
      BY DEF IInv, LogInv
    <3>4. d.lsn <= LastAbove(wal, d.key, super.wal_lsn).lsn
      BY <2>2, <3>1, <3>2, <3>3, LastAboveNewest
    <3> QED
      BY <1>1, <2>1, <3>4
  <2>3. ASSUME NEW d \in Elements(datafile)
        PROVE  \/ d.lsn <= acked'[d.key].lsn
               \/ d.lsn > super.wal_lsn /\ d.lsn <= Pending'[d.key].lsn
    BY <1>1, <1>2, <2>2
  <2> QED
    BY <2>1, <2>3 DEF FileAcked
<1>10. ~FlushFsyncFails /\ ~FlushRecordFails
  BY DEF FlushFsyncFails, FlushRecordFails, NoErrorYet, IInv, TypeOK
<1> QED
  BY <1>3, <1>4, <1>5, <1>6, <1>7, <1>8, <1>9, <1>10 DEF Next, Flush

(* A chain gets the LSNs of its key's records, flushed or folded.          *)
LEMMA NextKeepsChainKeys ==
  ASSUME IInv, CleanInv, SameInv, ChainKeys, Next, NoErrorYet'
  PROVE  ChainKeys'
<1>1. ASSUME \A k \in Key : \A l \in vcs'[k] \cup vidx'[k] :
               \A r \in Records : r.lsn = l => r.key = k,
             ~Write
      PROVE  ChainKeys'
  <2>1. Records' \subseteq Records
    BY <1>1, RecordsMove
  <2> QED
    BY <1>1, <2>1 DEF ChainKeys
<1>2. CASE Write
  <2>1. UNCHANGED <<vcs, vidx>> /\ Open /\ AckInv
    BY <1>2, WriteMoves DEF sidecars, index, Open, CleanInv
  <2>2. PICK new \in Record :
          new.lsn = max_lsn + 1 /\ Records' = Records \cup {new}
    BY <1>2, <2>1, WriteRecords
  <2>3. ASSUME NEW k \in Key, NEW l \in vcs[k] \cup vidx[k]
        PROVE  l # new.lsn
    <3>1. max_lsn \in Nat /\ super.wal_lsn \in Nat /\ super.wal_lsn <= max_lsn
      BY <2>1, TypeFacts DEF IInv, LogInv
    <3>2. l \in Nat
      BY TypeFacts DEF IInv, TypeOK
    <3>3. l <= max_lsn
      BY <3>1, <3>2 DEF CleanInv, ChainInv
    <3> QED
      BY <2>2, <3>1, <3>2, <3>3
  <2> QED
    BY <2>1, <2>2, <2>3 DEF ChainKeys
<1>3. CASE UNCHANGED <<vcs, vidx>> /\ ~Write
  BY <1>1, <1>3 DEF ChainKeys
<1>4. ASSUME NEW k \in Key, FlushRecord(k)
      PROVE  ChainKeys'
  <2> DEFINE e == flushing[k]
             q == RecordOf(k, e)
  <2>1. vcs' = [vcs EXCEPT ![k] = @ \cup {e.lsn}] /\ vidx' = vidx /\ phase = "flush"
    BY <1>4, FlushRecordMoves DEF CleanInv
  <2>2. q \in Records /\ q.key = k /\ q.lsn = e.lsn
    BY <1>4, FlushedIsLogged DEF Records
  <2> HIDE DEF q, e
  <2>3. \A r \in Records : r.lsn = e.lsn => r.key = k
    BY <2>2 DEF SameInv
  <2>4. \A j \in Key : \A l \in vcs'[j] \cup vidx'[j] :
          l \in vcs[j] \cup vidx[j] \/ (j = k /\ l = e.lsn)
    BY <2>1 DEF IInv, TypeOK
  <2>5. ~Write
    BY <2>1, WriteMoves
  <2> QED
    BY <1>1, <2>3, <2>4, <2>5 DEF ChainKeys
<1>5. CASE FoldWalToVcs
  <2>1. /\ phase = "fold" /\ vidx' = vidx
        /\ vcs' = [k \in Key |-> vcs[k] \cup
                     {r.lsn : r \in {r \in Elements(wal) :
                         r.key = k /\ r.lsn > sb.wal_lsn
                                   /\ r.lsn > ChainHead(k)}}]
    BY <1>5 DEF FoldWalToVcs, disk, sidecars
  <2>2. ASSUME NEW k \in Key, NEW l \in vcs'[k] \cup vidx'[k]
        PROVE  \/ l \in vcs[k] \cup vidx[k]
               \/ \E q \in Records : q.key = k /\ q.lsn = l
    BY <2>1 DEF Records
  <2>3. ~Write
    BY <2>1, WriteMoves
  <2> QED
    BY <1>1, <2>2, <2>3 DEF ChainKeys, SameInv
<1>6. CASE SaveVcsSidecar
  <2>1. vidx' = vcs /\ vcs' = vcs /\ phase = "vidx"
    BY <1>6 DEF SaveVcsSidecar, index
  <2>2. ~Write
    BY <2>1, WriteMoves
  <2> QED
    BY <1>1, <2>1, <2>2 DEF ChainKeys
<1>7. CASE Crash
  <2>1. vidx' = vidx /\ (\A k \in Key : vcs'[k] = {}) /\ phase' = "down"
    BY <1>7 DEF Crash, LoseMemory, sidecars
  <2>2. ~Write
    BY <2>1, WriteMoves
  <2> QED
    BY <1>1, <2>1, <2>2 DEF ChainKeys
<1>8. CASE OpenInternal
  <2>1. vcs' = vidx /\ vidx' = vidx /\ phase # "idle"
    BY <1>8, OpenMoves DEF CleanInv, OpenInternal
  <2>2. ~Write
    BY <2>1, WriteMoves
  <2> QED
    BY <1>1, <2>1, <2>2 DEF ChainKeys
<1>9. CASE \/ WriterStep \/ GroupCommit \/ Read \/ RecoverFull \/ FlushEnd
           \/ \E checkpoint \in BOOLEAN : FlushBegin(checkpoint)
  <2>1. UNCHANGED <<vcs, vidx>>
    BY <1>9, ReadMoves DEF IInv, WriterStep, AwaitFsync, AwaitFails, SetStable,
       GroupCommit, RecoverFull, FlushBegin, FlushEnd, disk, index, sidecars
  <2> QED
    BY <1>2, <1>3, <2>1
<1>10. CASE Checkpoint /\ ~FoldWalToVcs /\ ~SaveVcsSidecar
  <2>1. UNCHANGED <<vcs, vidx>>
    BY <1>10 DEF Checkpoint, CommitSuperBlock, CommitSuperBlockFails,
       SaveLsnIndexSidecar, TruncateTo, disk, index, sidecars
  <2> QED
    BY <1>2, <1>3, <2>1
<1>11. ~FlushFsyncFails /\ ~FlushRecordFails
  BY DEF FlushFsyncFails, FlushRecordFails, NoErrorYet, IInv, TypeOK
<1> QED
  BY <1>2, <1>4, <1>5, <1>6, <1>7, <1>8, <1>9, <1>10, <1>11 DEF Next, Flush

(* A flushed record is the newest of its key, and goes into its chain.     *)
LEMMA NextKeepsIndex ==
  ASSUME IInv, CleanInv, SameInv, IndexInv, Next, NoErrorYet'
  PROVE  IndexInv'
<1> SUFFICES ASSUME ~LazyCommittedLoad
             PROVE  /\ ~Open' => lsn_index' = {}
                    /\ \A r, d \in Elements(datafile') :
                         r.key = d.key /\ r.lsn \in lsn_index' /\ r.lsn <= d.lsn
                           => d.lsn \in vcs'[d.key]
  BY DEF Next, IndexInv, LazyCommittedLoad
<1>0. \A d \in Elements(datafile) : d \in Records /\ d.key \in Key
  BY RecordsType DEF Records
<1>1. ASSUME UNCHANGED <<datafile, lsn_index>>, Open, Open',
             \A k \in Key : vcs[k] \subseteq vcs'[k]
      PROVE  /\ ~Open' => lsn_index' = {}
             /\ \A r, d \in Elements(datafile') :
                  r.key = d.key /\ r.lsn \in lsn_index' /\ r.lsn <= d.lsn
                    => d.lsn \in vcs'[d.key]
  BY <1>0, <1>1 DEF IndexInv
<1>2. CASE \/ Write \/ WriterStep \/ GroupCommit \/ Read \/ RecoverFull
           \/ FlushEnd \/ \E checkpoint \in BOOLEAN : FlushBegin(checkpoint)
  <2>1. UNCHANGED <<datafile, lsn_index, vcs>>
    BY <1>2, WriteMoves, ReadMoves DEF IInv, WriterStep, AwaitFsync,
       AwaitFails, SetStable, GroupCommit, RecoverFull, FlushBegin, FlushEnd,
       disk, index
  <2>2. CASE ~WriterStep
    <3>1. Open /\ Open'
      BY <1>2, <2>2, WriteMoves, ReadMoves DEF IInv, GroupCommit, RecoverFull,
         FlushBegin, FlushEnd, control, Open
    <3> QED
      BY <1>1, <2>1, <3>1
  <2>3. CASE WriterStep
    <3>1. phase' = phase
      BY <2>3 DEF WriterStep, AwaitFsync, AwaitFails, SetStable, control
    <3> QED
      BY <2>1, <3>1 DEF Open, IndexInv
  <2> QED
    BY <2>2, <2>3
<1>3. ASSUME NEW k \in Key, FlushRecord(k)
      PROVE  /\ Open'
             /\ \A r, d \in Elements(datafile') :
                  r.key = d.key /\ r.lsn \in lsn_index' /\ r.lsn <= d.lsn
                    => d.lsn \in vcs'[d.key]
  <2> DEFINE e == flushing[k]
             q == RecordOf(k, e)
  <2>1. /\ vcs' = [vcs EXCEPT ![k] = @ \cup {e.lsn}] /\ Open'
        /\ Newest(k, e) /\ lsn_index' = lsn_index \cup {e.lsn}
    BY <1>3, FlushRecordMoves DEF CleanInv, Open, FlushRecord
  <2>2. /\ q \in Records /\ q.key = k /\ q.lsn = e.lsn /\ e.lsn \in Nat
        /\ Elements(datafile') = Elements(datafile) \cup {q}
    BY <1>3, FlushedIsLogged DEF Records
  <2> HIDE DEF q, e
  <2>3. ASSUME NEW d \in Elements(datafile), d.key = k
        PROVE  d.lsn \in Nat /\ d.lsn <= e.lsn
    BY <1>0, <2>1, <2>3, RecordsType DEF Newest, Elements
  <2>4. e.lsn \in vcs'[k] /\ \A j \in Key : vcs[j] \subseteq vcs'[j]
    BY <2>1 DEF IInv, TypeOK
  <2>5. ASSUME NEW r \in Elements(datafile'), NEW d \in Elements(datafile'),
               r.key = d.key, r.lsn \in lsn_index', r.lsn <= d.lsn
        PROVE  d.lsn \in vcs'[d.key]
    <3>1. CASE d = q
      BY <2>2, <2>4, <3>1
    <3>2. CASE d \in Elements(datafile) /\ r.lsn = e.lsn
      <4>1. r \in Records
        BY <1>0, <2>2
      <4>2. r = q
        BY <2>2, <3>2, <4>1 DEF SameInv
      <4>3. d.key = k /\ d.lsn <= e.lsn /\ d.lsn \in Nat /\ e.lsn <= d.lsn
        BY <2>2, <2>3, <2>5, <3>2, <4>2
      <4>4. d.lsn = e.lsn
        BY <2>2, <4>3
      <4> QED
        BY <2>4, <4>3, <4>4
    <3>3. CASE d \in Elements(datafile) /\ r \in Elements(datafile)
               /\ r.lsn \in lsn_index
      <4>1. d.lsn \in vcs[d.key]
        BY <2>5, <3>3 DEF IndexInv
      <4> QED
        BY <1>0, <2>4, <3>3, <4>1
    <3>4. CASE r = q
      BY <2>2, <3>1, <3>2, <3>4
    <3> QED
      BY <2>1, <2>2, <2>5, <3>1, <3>2, <3>3, <3>4
  <2> QED
    BY <2>1, <2>5
<1>4. CASE Checkpoint
  <2>1. UNCHANGED <<datafile, lsn_index>> /\ Open /\ Open'
    BY <1>4 DEF Checkpoint, FoldWalToVcs, CommitSuperBlock, ReturnError,
       CommitSuperBlockFails, SaveLsnIndexSidecar, SaveVcsSidecar, TruncateTo,
       disk, index, Open
  <2>2. CASE FoldWalToVcs
    <3>1. \A k \in Key : vcs[k] \subseteq vcs'[k]
      BY <2>2 DEF FoldWalToVcs
    <3> QED
      BY <1>1, <2>1, <3>1
  <2>3. CASE ~FoldWalToVcs
    <3>1. vcs' = vcs
      BY <1>4, <2>3 DEF Checkpoint, CommitSuperBlock, CommitSuperBlockFails,
         SaveLsnIndexSidecar, SaveVcsSidecar, TruncateTo, index
    <3> QED
      BY <1>1, <2>1, <3>1
  <2> QED
    BY <2>2, <2>3
<1>5. CASE Crash \/ OpenInternal
  <2>1. lsn_index' = {}
    <3>1. CASE Crash
      BY <3>1 DEF Crash, LoseMemory
    <3>2. CASE OpenInternal
      <4>1. ~Open /\ lsn_index' = lsn_index
        BY <3>2 DEF OpenInternal, RecoverFromSuperBlock, LoadCommitted, Open
      <4> QED
        BY <4>1 DEF IndexInv
    <3> QED
      BY <1>5, <3>1, <3>2
  <2> QED
    BY <2>1
<1>6. ~FlushFsyncFails /\ ~FlushRecordFails
  BY DEF FlushFsyncFails, FlushRecordFails, NoErrorYet, IInv, TypeOK
<1> QED
  BY <1>2, <1>3, <1>4, <1>5, <1>6 DEF Next, Flush

(* The newest record of a key with nothing in the log above the superblock *)
(* is the one the root accounts for.                                       *)
LEMMA RootCovers ==
  ASSUME IInv, NEW k \in Key, LastAbove(wal, k, super.wal_lsn) = NoEntry
  PROVE  Below(datafile, k, super.wal_lsn) = Of(datafile, k)
<1>1. /\ wal \in Seq(Record) /\ super.wal_lsn \in Lsn
      /\ super.wal_lsn \in Nat /\ wal_synced \in 0 .. Len(wal)
      /\ Len(wal) \in Nat
      /\ \A i \in 1 .. Len(wal) : wal[i].lsn \in Nat
  BY TypeFacts DEF IInv
<1>2. \A i \in 1 .. Len(wal) : wal[i].key = k => wal[i].lsn <= super.wal_lsn
  BY <1>1, LastAboveIsLast
<1>3. ASSUME NEW i \in 1 .. Len(datafile), datafile[i].key = k
      PROVE  ~(datafile[i].lsn > super.wal_lsn)
  <2>1. datafile[i] \in Elements(datafile) /\ datafile[i] \in Records
    BY DEF Elements, Records
  <2>2. datafile[i].lsn \in Nat
    BY <2>1, RecordsType
  <2>3. CASE \E j \in 1 .. wal_synced : wal[j] = datafile[i]
    <3>1. PICK j \in 1 .. wal_synced : wal[j] = datafile[i]
      BY <2>3
    <3>2. j \in 1 .. Len(wal)
      BY <1>1
    <3>3. wal[j].lsn <= super.wal_lsn /\ wal[j].lsn \in Nat
      BY <1>1, <1>2, <1>3, <3>1, <3>2
    <3> QED
      BY <1>1, <3>1, <3>3
  <2>4. CASE datafile[i].lsn <= super.wal_lsn
    BY <1>1, <2>2, <2>4
  <2> QED
    BY <2>1, <2>3, <2>4 DEF IInv, WriteAhead
<1> QED
  BY <1>3 DEF Below, Of, OfAbove

LEMMA NextKeepsBtree ==
  ASSUME IInv, CleanInv, BtreeInv, Next, NoErrorYet',
         "kFastOpen" \notin CallsRecoverFull
  PROVE  BtreeInv'
<1>0. LazyCommittedLoad' = LazyCommittedLoad
  BY DEF Next, LazyCommittedLoad
<1>1. ASSUME super' = super, UNCHANGED <<btree, committed>>, Todo \subseteq Todo',
             Open' => Open
      PROVE  BtreeInv'
  BY <1>0, <1>1 DEF BtreeInv
<1>2. CASE Write
  <2>1. /\ phase = "idle" /\ UNCHANGED <<super, btree, committed>>
        /\ Todo \subseteq Todo'
    BY <1>2, WriteMoves DEF index
  <2> QED
    BY <1>1, <2>1 DEF Open
<1>3. CASE \/ WriterStep \/ GroupCommit \/ Read \/ RecoverFull
           \/ \E checkpoint \in BOOLEAN : FlushBegin(checkpoint)
  <2>1. SamePending
    BY <1>3, SamePendingSteps DEF CleanInv
  <2>2. UNCHANGED <<super, btree, committed>> /\ (Open' => Open)
    BY <1>3, ReadMoves DEF IInv, WriterStep, AwaitFsync, AwaitFails, SetStable,
       GroupCommit, RecoverFull, FlushBegin, disk, control, index, Open
  <2> QED
    BY <1>1, <2>1, <2>2 DEF SamePending
<1>4. ASSUME NEW k \in Key, FlushRecord(k)
      PROVE  BtreeInv'
  <2>1. /\ Todo' = Todo \ {k} /\ super' = super /\ Open
        /\ committed' = [committed EXCEPT ![k] = CommittedLsn(k, flushing[k])]
        /\ btree' = [btree EXCEPT ![k] = CommittedLsn(k, flushing[k])]
    BY <1>4, FlushRecordMoves DEF CleanInv, FlushRecord, Open
  <2>2. committed \in [Key -> Lsn] /\ btree \in [Key -> Lsn]
    BY DEF IInv, TypeOK
  <2>3. ASSUME ~LazyCommittedLoad, NEW j \in Key \ Todo'
        PROVE  btree'[j] = committed'[j]
    <3>1. CASE j = k
      BY <2>1, <2>2, <3>1
    <3>2. CASE j # k
      BY <2>1, <2>2, <2>3, <3>2 DEF BtreeInv
    <3> QED
      BY <3>1, <3>2
  <2> QED
    BY <1>0, <2>1, <2>3 DEF BtreeInv
<1>5. CASE FlushEnd
  <2>1. /\ Todo = {} /\ UNCHANGED <<super, btree, committed>> /\ Open
    BY <1>5 DEF FlushEnd, Todo, index, Open
  <2> QED
    BY <1>1, <2>1
<1>6. CASE Checkpoint
  <2>1. /\ Todo = {} /\ Open
    <3>1. phase \notin {"idle", "flush", "down"}
      BY <1>6 DEF Checkpoint, FoldWalToVcs, CommitSuperBlock,
         CommitSuperBlockFails, SaveLsnIndexSidecar, SaveVcsSidecar, TruncateTo
    <3> QED
      BY <3>1, NothingPending DEF CleanInv, Open
  <2>2. CASE CommitSuperBlock /\ committed # NoRoot
    <3>1. super'.root = committed /\ btree' = committed /\ committed' = committed
      BY <2>2 DEF CommitSuperBlock, NextSuper
    <3> QED
      BY <2>2, <3>1 DEF BtreeInv
  <2>3. CASE \/ FoldWalToVcs \/ SaveLsnIndexSidecar \/ SaveVcsSidecar
             \/ TruncateTo
             \/ CommitSuperBlock /\ committed = NoRoot
    <3>1. UNCHANGED <<super, btree, committed>>
      BY <2>3 DEF FoldWalToVcs, CommitSuperBlock, SaveLsnIndexSidecar,
                  SaveVcsSidecar, TruncateTo, disk, index
    <3> QED
      BY <1>1, <2>1, <3>1
  <2>4. ~CommitSuperBlockFails
    BY DEF CommitSuperBlockFails, NoErrorYet, IInv, TypeOK
  <2> QED
    BY <1>6, <2>2, <2>3, <2>4 DEF Checkpoint
<1>7. CASE Crash
  BY <1>7 DEF Crash, LoseMemory, Open, BtreeInv
<1>8. CASE OpenInternal
  <2>1. /\ \A k \in Key : Pending'[k] = LastAbove(wal, k, super.wal_lsn)
        /\ Todo' = Held(Pending') /\ UNCHANGED <<datafile, super>>
    BY <1>8, OpenMoves DEF CleanInv
  <2>2. ASSUME ~LazyCommittedLoad, NEW k \in Key \ Todo'
        PROVE  btree'[k] = committed'[k]
    <3>1. LastAbove(wal, k, super.wal_lsn) = NoEntry
      BY <2>1, <2>2 DEF Held
    <3>0. Reached(datafile) = datafile
      BY FaultsGrow, ReachedIs DEF IInv, TypeOK, NoErrorYet
    <3>2. btree' = super.root /\ committed' = LoadDatafile(datafile)
      BY <1>8, <2>2, <3>0 DEF OpenInternal, RecoverFromSuperBlock, LoadCommitted,
                              BtreeInv
    <3>3. super.root[k]
            = LET r == LastAt(datafile, Below(datafile, k, super.wal_lsn))
              IN  IF r.del THEN 0 ELSE r.lsn
      BY <2>2 DEF BtreeInv, CleanInv, RootInv, RootComplete, Below
    <3>4. Below(datafile, k, super.wal_lsn) = Of(datafile, k)
      BY <3>1, RootCovers
    <3> QED
      BY <3>2, <3>3, <3>4 DEF LoadDatafile, LastOf
  <2> QED
    BY <1>0, <2>1, <2>2 DEF BtreeInv
<1>9. ~FlushFsyncFails /\ ~FlushRecordFails
  BY DEF FlushFsyncFails, FlushRecordFails, NoErrorYet, IInv, TypeOK
<1> QED
  BY <1>2, <1>3, <1>4, <1>5, <1>6, <1>7, <1>8, <1>9 DEF Next, Flush

LEMMA InitFresh ==
  ASSUME Checkpointed, Init
  PROVE  FreshInv
<1> PICK k \in Key :
      /\ datafile = <<[lsn |-> 1, key |-> k, del |-> FALSE]>>
      /\ super = [data_lsn |-> 1, wal_lsn |-> 1,
                  root |-> [NoRoot EXCEPT ![k] = 1]]
      /\ vidx = [j \in Key |-> IF j = k THEN {1} ELSE {}]
      /\ acked = [EmptyTable EXCEPT ![k] = [lsn |-> 1, del |-> FALSE]]
  BY DEF Init, CheckpointedFiles
<1> DEFINE r0 == [lsn |-> 1, key |-> k, del |-> FALSE]
<1>1. /\ phase = "down" /\ wal = <<>> /\ lsn_index = {}
      /\ (\A j \in Key : vcs[j] = {}) /\ (\A w \in Writer : writer[w] = NoWrite)
  BY DEF Init, Closed
<1>2. Elements(wal) = {} /\ Elements(datafile) = {r0} /\ Records = {r0}
  <2>1. Len(datafile) = 1 /\ datafile[1] = r0 /\ Len(wal) = 0
    BY <1>1
  <2> HIDE DEF r0
  <2>2. \A x : x \in Elements(datafile) <=> x = r0
    <3>1. \A i : i \in 1 .. Len(datafile) <=> i = 1
      BY <2>1
    <3>2. \A x : x \in Elements(datafile)
                   <=> \E i \in 1 .. Len(datafile) : datafile[i] = x
      BY DEF Elements
    <3>3. r0 \in Elements(datafile)
      BY <2>1, <3>1, <3>2
    <3>4. ASSUME NEW x \in Elements(datafile)
          PROVE  x = r0
      <4>1. PICK i \in 1 .. Len(datafile) : datafile[i] = x
        BY <3>2, <3>4
      <4> QED
        BY <2>1, <3>1, <4>1
    <3> QED
      BY <3>3, <3>4
  <2>3. \A x : x \notin Elements(wal)
    BY <2>1 DEF Elements
  <2> QED
    BY <2>2, <2>3 DEF Records
<1>3. r0.lsn = 1 /\ r0.key = k /\ r0.del = FALSE
  OBVIOUS
<1> HIDE DEF r0
<1>4. acked[k].lsn = 1 /\ acked[k].del = FALSE
  BY DEF EmptyTable
<1>5. SameInv
  <2>1. \A w \in Writer : writer[w].pc = "none"
    BY <1>1 DEF NoWrite
  <2>2. \A r \in Records : r.lsn = acked[r.key].lsn => r.del = acked[r.key].del
    BY <1>2, <1>3, <1>4
  <2>3. \A r, q \in Records : r.lsn = q.lsn => r = q
    BY <1>2
  <2> QED
    BY <2>1, <2>2, <2>3 DEF SameInv
<1>6. FileAcked
  BY <1>2, <1>3, <1>4 DEF FileAcked
<1>7. ChainKeys
  BY <1>1, <1>2, <1>3 DEF ChainKeys
<1>8. IndexInv
  BY <1>1 DEF IndexInv
<1>9. BtreeInv
  <2>1. super.root[k] = 1 /\ NoRoot[k] = 0
    BY DEF NoRoot
  <2>2. super.root # NoRoot
    BY <2>1
  <2> QED
    BY <1>1, <2>2 DEF BtreeInv, Open
<1> QED
  BY <1>5, <1>6, <1>7, <1>8, <1>9 DEF FreshInv

LEMMA NextFresh ==
  ASSUME IInv, NoErrorYet => CleanInv /\ FreshInv, [Next]_vars,
         "kFastOpen" \notin CallsRecoverFull
  PROVE  NoErrorYet' => FreshInv'
<1> SUFFICES ASSUME NoErrorYet' PROVE FreshInv'
  OBVIOUS
<1>1. CleanInv /\ FreshInv
  BY FaultsGrow
<1>2. CASE Next
  BY <1>1, <1>2, NextKeepsSame, NextKeepsFileAcked, NextKeepsChainKeys,
     NextKeepsIndex, NextKeepsBtree DEF FreshInv
<1>3. CASE vars' = vars
  <2>1. UNCHANGED <<opts, disk, tables, index, lsns, control, writer, acked>>
    BY <1>3 DEF vars
  <2>2. Pending' = Pending /\ Todo' = Todo
    BY <2>1 DEF Pending, Todo, ReplayedTable, tables, lsns, control, disk
  <2>3. Records' = Records /\ Elements(datafile') = Elements(datafile)
    BY <2>1 DEF Records, disk
  <2>4. SameInv' /\ FileAcked' /\ ChainKeys'
    BY <1>1, <2>1, <2>2, <2>3
       DEF FreshInv, SameInv, FileAcked, ChainKeys, Open, disk, sidecars,
           index, control
  <2>5. IndexInv' /\ BtreeInv'
    BY <1>1, <2>1, <2>2, <2>3
       DEF FreshInv, IndexInv, BtreeInv, Open, LazyCommittedLoad, disk, index,
           control
  <2> QED
    BY <2>4, <2>5 DEF FreshInv
<1> QED
  BY <1>2, <1>3

LEMMA FreshInvariant ==
  ASSUME Checkpointed, "kFastOpen" \notin CallsRecoverFull
  PROVE  Spec => [](IInv /\ (NoErrorYet => CleanInv /\ FreshInv))
<1> DEFINE Inv == IInv /\ (NoErrorYet => CleanInv /\ FreshInv)
<1>1. Init => Inv
  BY InitIInv, InitClean, InitFresh
<1>2. Inv /\ [Next]_vars => Inv'
  BY NextIInv, NextClean, NextFresh
<1> QED
  BY <1>1, <1>2, PTL DEF Spec

---------------------------------------------------------------------------
(* Reads of a key, between two operations.                                 *)

(* A key with an entry to flush: the entry is not older than what was      *)
(* reported durable, and if it is a delete, its record says so.            *)
LEMMA PendingIsFresh ==
  ASSUME IInv, CleanInv, SameInv, phase = "idle",
         NEW k \in Key, ReplayedTable[k] # NoEntry
  PROVE  /\ ReplayedTable[k] \in Entry /\ ReplayedTable[k].lsn \in Nat
         /\ ReplayedTable[k].lsn > 0
         /\ acked[k].lsn \in Nat /\ acked[k].lsn <= ReplayedTable[k].lsn
         /\ ReplayedTable[k].del => Fresh(k, 0)
<1> DEFINE e == ReplayedTable[k]
           a == acked[k]
<1>1. /\ e \in Entry /\ e.lsn \in Nat /\ a.lsn \in Nat /\ super.wal_lsn \in Nat
      /\ wal_synced \in 0 .. Len(wal) /\ Len(wal) \in Nat
      /\ \A i \in 1 .. Len(wal) : wal[i].lsn \in Nat
  BY TypeFacts DEF IInv, TypeOK, Entry
<1>2. Newest(k, e)
  BY DEF CleanInv, TodoInv, Todo, Pending, Held
<1>3. e.lsn > super.wal_lsn /\ e.lsn > 0
  BY <1>1, <1>2 DEF Newest
<1>4. PICK n \in 1 .. Len(wal) : wal[n] = RecordOf(k, e)
  <2>1. Logged(k, e)
    BY ReplayedIsLogged DEF IInv
  <2> QED
    BY <1>1, <1>3, <2>1 DEF Logged, Among
<1>5. /\ wal[n] \in Records /\ wal[n].key = k /\ wal[n].lsn = e.lsn
      /\ wal[n].del = e.del
  BY <1>4 DEF Records, Elements, RecordOf
<1>6. ASSUME NEW l \in Nat, Stored(k, l, Len(datafile))
      PROVE  l <= e.lsn
  <2>1. PICK i \in 1 .. Len(datafile) : datafile[i].key = k /\ datafile[i].lsn >= l
    BY <1>6 DEF Stored
  <2>2. datafile[i].lsn <= e.lsn
    BY <1>2, <2>1 DEF Newest
  <2>3. datafile[i].lsn \in Nat
    BY BelowCounter DEF Open
  <2> QED
    BY <1>1, <2>1, <2>2, <2>3
<1>7. ASSUME NEW l \in Nat, Covered(k, l)
      PROVE  l <= e.lsn
  <2>1. Stored(k, l, Len(datafile))
    BY <1>7 DEF Covered, Stored, IInv, TypeOK
  <2> QED
    BY <1>6, <2>1
<1>8. ASSUME NEW i \in 1 .. Len(wal), wal[i].key = k
      PROVE  wal[i].lsn <= e.lsn
  <2>1. Covered(k, wal[i].lsn) \/ wal[i].lsn <= e.lsn
    BY <1>8 DEF CleanInv, CoverInv, LogCovered, CoveredRecord, Open, Pending
  <2> QED
    BY <1>1, <1>7, <2>1
<1>9. a.lsn <= e.lsn
  <2>1. Secured(k, a.lsn, wal_synced)
    BY DEF CleanInv, AckInv
  <2>2. CASE a.lsn = 0
    BY <1>1, <2>2
  <2>3. CASE Covered(k, a.lsn)
    BY <1>1, <1>7, <2>3
  <2>4. CASE \E i \in 1 .. wal_synced : wal[i].key = k /\ wal[i].lsn >= a.lsn
    <3>1. PICK i \in 1 .. wal_synced : wal[i].key = k /\ wal[i].lsn >= a.lsn
      BY <2>4
    <3>2. i \in 1 .. Len(wal)
      BY <1>1
    <3>3. wal[i].lsn <= e.lsn /\ wal[i].lsn \in Nat
      BY <1>1, <1>8, <3>1, <3>2
    <3> QED
      BY <1>1, <3>1, <3>3
  <2> QED
    BY <2>1, <2>2, <2>3, <2>4 DEF Secured
<1>10. ASSUME e.del
       PROVE  Fresh(k, 0)
  <2>1. CASE e.lsn > a.lsn
    <3>1. \E r \in Elements(wal) \cup Elements(datafile) :
            r.key = k /\ r.del /\ r.lsn > a.lsn
      BY <1>5, <1>10, <2>1 DEF Records
    <3> QED
      BY <3>1 DEF Fresh
  <2>2. CASE e.lsn = a.lsn
    <3>1. wal[n].lsn = acked[wal[n].key].lsn
      BY <1>5, <2>2
    <3>2. wal[n].del = acked[wal[n].key].del
      BY <1>5, <3>1, Zenon DEF SameInv
    <3>3. a.del
      BY <1>5, <1>10, <3>2
    <3> QED
      BY <3>3 DEF Fresh
  <2> QED
    BY <1>1, <1>9, <2>1, <2>2
<1> QED
  BY <1>1, <1>3, <1>9, <1>10

(* A key with nothing to flush: what was reported durable is the newest    *)
(* version in the data file, and committed_ and the B-tree have it.        *)
LEMMA StoredIsFresh ==
  ASSUME IInv, CleanInv, FreshInv, phase = "idle", ~LazyCommittedLoad,
         NEW k \in Key, ReplayedTable[k] = NoEntry, acked[k].lsn > 0
  PROVE  \E d \in Elements(datafile) :
           /\ d.key = k /\ d.lsn \in Nat /\ d.del \in BOOLEAN
           /\ d.lsn = acked[k].lsn /\ d.del = acked[k].del
           /\ committed[k] = IF d.del THEN 0 ELSE d.lsn
           /\ btree[k] = committed[k]
<1> DEFINE a == acked[k]
           at == Of(datafile, k)
<1>1. /\ a.lsn \in Nat /\ super.wal_lsn \in Nat
      /\ wal_synced \in 0 .. Len(wal) /\ Len(wal) \in Nat
      /\ \A i \in 1 .. Len(wal) : wal[i].lsn \in Nat
      /\ datafile \in Seq(Record) /\ Len(datafile) \in Nat
      /\ datafile_flushed \in 0 .. Len(datafile)
  <2>1. acked[k].lsn \in Nat
    BY TypeFacts DEF IInv, TypeOK, Entry
  <2>2. /\ datafile \in Seq(Record) /\ Len(datafile) \in Nat
        /\ datafile_flushed \in 0 .. Len(datafile)
    BY DEF IInv, TypeOK
  <2> QED
    BY <2>1, <2>2, TypeFacts DEF IInv
<1>2. Pending[k].lsn = 0 /\ Open /\ k \notin Todo
  BY DEF Pending, Open, NoEntry, Todo, Held
<1>3. \A i \in 1 .. Len(datafile) : datafile[i].lsn \in Nat
  BY <1>2, BelowCounter
<1>4. \E i \in 1 .. Len(datafile) : datafile[i].key = k /\ datafile[i].lsn >= a.lsn
  <2>1. Secured(k, a.lsn, wal_synced)
    BY DEF CleanInv, AckInv
  <2>2. ASSUME NEW l, Covered(k, l)
        PROVE  \E i \in 1 .. Len(datafile) :
                 datafile[i].key = k /\ datafile[i].lsn >= l
    BY <1>1, <2>2 DEF Covered, Stored
  <2>3. ASSUME NEW i \in 1 .. wal_synced, wal[i].key = k, wal[i].lsn >= a.lsn
        PROVE  \E j \in 1 .. Len(datafile) :
                 datafile[j].key = k /\ datafile[j].lsn >= a.lsn
    <3>1. i \in 1 .. Len(wal) /\ wal[i].lsn \in Nat
      BY <1>1
    <3>2. Covered(k, wal[i].lsn) \/ wal[i].lsn <= Pending[k].lsn
      BY <1>2, <2>3, <3>1 DEF CleanInv, CoverInv, LogCovered, CoveredRecord
    <3>3. Covered(k, wal[i].lsn)
      BY <1>1, <1>2, <2>3, <3>1, <3>2
    <3>4. PICK j \in 1 .. Len(datafile) :
            datafile[j].key = k /\ datafile[j].lsn >= wal[i].lsn
      BY <2>2, <3>3
    <3> QED
      BY <1>1, <1>3, <2>3, <3>1, <3>4
  <2> QED
    BY <2>1, <2>2, <2>3 DEF Secured
<1>5. /\ at \in SUBSET (1 .. Len(datafile)) /\ at # {}
      /\ \A i : i \in at <=> i \in 1 .. Len(datafile) /\ datafile[i].key = k
  BY <1>4 DEF Of
<1>6. PICK m \in at : /\ \A j \in at : j <= m
                      /\ datafile[m] \in Record
                      /\ LastAt(datafile, at) = EntryOf(datafile[m])
  BY <1>1, <1>5, LastAtIsLast
<1>7. /\ m \in 1 .. Len(datafile) /\ datafile[m].key = k
      /\ datafile[m].lsn \in Nat /\ datafile[m].del \in BOOLEAN
      /\ datafile[m] \in Elements(datafile)
  BY <1>3, <1>5, <1>6 DEF Elements, Record
<1>8. datafile[m].lsn >= a.lsn
  <2>1. PICK i \in at : datafile[i].lsn >= a.lsn
    BY <1>4, <1>5
  <2>2. i \in 1 .. Len(datafile) /\ i <= m /\ datafile[i].lsn \in Nat
    BY <1>3, <1>5, <1>6
  <2>3. datafile[i].lsn <= datafile[m].lsn
    <3>1. CASE i = m
      BY <2>2, <3>1
    <3>2. CASE i < m
      BY <1>5, <1>7, <2>2, <3>2 DEF CleanInv, FileInv
    <3> QED
      BY <1>7, <2>2, <3>1, <3>2
  <2> QED
    BY <1>1, <1>7, <2>1, <2>2, <2>3
<1>9. datafile[m].lsn = a.lsn
  <2>1. datafile[m].lsn <= a.lsn \/ datafile[m].lsn <= Pending[k].lsn
    BY <1>2, <1>7 DEF FreshInv, FileAcked
  <2> QED
    BY <1>1, <1>2, <1>7, <1>8, <2>1
<1>10. datafile[m].del = a.del
  <2>1. datafile[m] \in Records
    BY <1>7 DEF Records
  <2> QED
    BY <1>7, <1>9, <2>1 DEF FreshInv, SameInv
<1>11. committed[k] = IF datafile[m].del THEN 0 ELSE datafile[m].lsn
  <2>1. committed = LoadDatafile(datafile)
    BY <1>2 DEF CleanInv, RootInv
  <2>2. LastOf(datafile, k) = EntryOf(datafile[m])
    BY <1>6 DEF LastOf
  <2> QED
    BY <2>1, <2>2 DEF LoadDatafile, EntryOf
<1>12. btree[k] = committed[k]
  BY <1>2 DEF FreshInv, BtreeInv
<1> QED
  BY <1>7, <1>9, <1>10, <1>11, <1>12

(* What the version chain leads to is not older than the newest version,   *)
(* which, if ReadByLsn finds an older one, is in the chain.                *)
LEMMA FloorIsFresh ==
  ASSUME IInv, CleanInv, FreshInv, ~LazyCommittedLoad,
         NEW k \in Key, NEW d \in Elements(datafile), d.key = k,
         stable_lsn = 0 \/ d.lsn <= stable_lsn,
         ReadByLsn(Floor(k, stable_lsn)) > 0
  PROVE  ReadByLsn(Floor(k, stable_lsn)) >= d.lsn
<1> DEFINE below == {l \in vcs[k] : l <= stable_lsn}
           f == MaxOf(below)
<1>1. /\ MaxLsn \in Nat /\ stable_lsn \in Nat /\ below \in SUBSET (0 .. MaxLsn)
      /\ vcs[k] \subseteq Nat /\ d.lsn \in Nat
  <2>1. d \in Records
    BY DEF Records
  <2>2. vcs[k] \in SUBSET Lsn
    BY DEF IInv, TypeOK
  <2> QED
    BY <2>1, <2>2, RecordsType, TypeFacts, BoundsOK DEF IInv, Lsn
<1>2. /\ f \in Nat /\ (\A l \in below : l <= f) /\ (below # {} => f \in below)
  BY <1>1, MaxOfIsGreatest
<1>3. Floor(k, stable_lsn) = f
  BY DEF Floor
<1> HIDE DEF f
<1>4. /\ ReadByLsn(f) = f /\ f > 0 /\ f \in lsn_index
      /\ \E r \in Elements(datafile) : r.lsn = f
  BY <1>2, <1>3 DEF ReadByLsn
<1>5. PICK r \in Elements(datafile) : r.lsn = f
  BY <1>4
<1>6. f \in vcs[k] /\ f <= stable_lsn
  <2>1. CASE below = {}
    <3>1. f = 0
      BY <1>1, <2>1, MaxOfIsGreatest DEF f, MaxOf
    <3> QED
      BY <1>4, <3>1
  <2>2. CASE below # {}
    BY <1>2, <2>2
  <2> QED
    BY <2>1, <2>2
<1>7. r.key = k
  BY <1>5, <1>6 DEF FreshInv, ChainKeys, Records
<1>8. d.lsn <= stable_lsn
  BY <1>1, <1>2, <1>4, <1>6
<1>9. ASSUME f <= d.lsn
      PROVE  d.lsn <= f
  <2>1. d.lsn \in vcs[k]
    BY <1>4, <1>5, <1>7, <1>9 DEF FreshInv, IndexInv
  <2> QED
    BY <1>2, <1>8, <2>1
<1>10. f >= d.lsn
  BY <1>1, <1>2, <1>9
<1> QED
  BY <1>3, <1>4, <1>10

(* SnapshotResolver::ResolveAtSnapshot over the replayed tables.           *)
LEMMA VisibleIsFresh ==
  ASSUME IInv, CleanInv, FreshInv, phase = "idle", ~LazyCommittedLoad,
         NEW k \in Key, StableCovers(k)
  PROVE  /\ LookupMemTable(ReplayedTable, k) = ReplayedTable[k]
         /\ Fresh(k, ReadVisible(ReplayedTable, k))
         /\ ReplayedTable[k] = NoEntry =>
              /\ btree[k] \in Nat
              /\ btree[k] = 0 => Fresh(k, 0)
              /\ btree[k] > 0 => btree[k] >= acked[k].lsn
              /\ btree[k] > 0 /\ acked[k].lsn > 0 =>
                   ReadVisible(ReplayedTable, k) = btree[k]
<1> DEFINE e == ReplayedTable[k]
           v == ReadVisible(ReplayedTable, k)
<1>1. LookupMemTable(ReplayedTable, k) = e
  <2>1. immutable[k] = NoEntry /\ flushing[k] = NoEntry
    BY DEF CleanInv, ShapeInv, EmptyTable
  <2> QED
    BY <2>1 DEF LookupMemTable
<1>2. /\ v \in Nat /\ acked[k].lsn \in Nat /\ stable_lsn \in Nat
      /\ committed[k] \in Nat /\ btree[k] \in Nat
  <2>1. committed[k] \in Lsn /\ btree[k] \in Lsn /\ acked[k].lsn \in Lsn
    BY DEF IInv, TypeOK, Entry
  <2>2. ReplayedTable \in [Key -> Entry]
    BY TypeFacts DEF IInv
  <2> QED
    BY <2>1, <2>2, TypeFacts, VisibleIsNat DEF IInv
<1>3. CASE e # NoEntry
  <2>1. v = IF e.del THEN 0 ELSE e.lsn
    BY <1>1, <1>3 DEF ReadVisible
  <2>2. SameInv
    BY DEF FreshInv
  <2>3. /\ e.lsn \in Nat /\ e.lsn > 0 /\ acked[k].lsn <= e.lsn
        /\ e.del => Fresh(k, 0)
    BY <1>3, <2>2, PendingIsFresh
  <2>4. CASE e.del
    BY <1>1, <1>3, <2>1, <2>3, <2>4
  <2>5. CASE ~e.del
    BY <1>1, <1>2, <1>3, <2>1, <2>3, <2>5 DEF Fresh
  <2> QED
    BY <2>4, <2>5
<1>4. CASE e = NoEntry /\ acked[k].lsn = 0
  <2> HIDE DEF v
  <2>1. Fresh(k, v) /\ Fresh(k, 0)
    BY <1>2, <1>4 DEF Fresh
  <2> QED
    BY <1>1, <1>2, <1>4, <2>1 DEF v
<1>5. CASE e = NoEntry /\ acked[k].lsn > 0
  <2>1. PICK d \in Elements(datafile) :
          /\ d.key = k /\ d.lsn \in Nat /\ d.del \in BOOLEAN
          /\ d.lsn = acked[k].lsn /\ d.del = acked[k].del
          /\ committed[k] = IF d.del THEN 0 ELSE d.lsn
          /\ btree[k] = committed[k]
    BY <1>5, StoredIsFresh
  <2>2. stable_lsn = 0 \/ d.lsn <= stable_lsn
    BY <2>1 DEF StableCovers
  <2>3. CASE d.del
    <3>1. committed[k] = 0 /\ btree[k] = 0 /\ Fresh(k, 0)
      BY <2>1, <2>3 DEF Fresh
    <3>2. v = ReadByLsn(Floor(k, stable_lsn))
      BY <1>1, <1>5, <3>1 DEF ReadVisible
    <3>3. v > 0 => v >= d.lsn
      BY <2>1, <2>2, <3>2, FloorIsFresh
    <3>4. Fresh(k, v)
      <4> HIDE DEF v
      <4>1. CASE v = 0
        BY <3>1, <4>1
      <4>2. CASE v > 0
        BY <2>1, <3>3, <4>2 DEF Fresh
      <4> QED
        BY <1>2, <4>1, <4>2
    <3> QED
      BY <1>1, <1>2, <3>1, <3>4
  <2>4. CASE ~d.del
    <3>1. committed[k] = d.lsn /\ d.lsn > 0 /\ btree[k] = d.lsn
      BY <1>5, <2>1, <2>4
    <3>2. v = committed[k]
      BY <1>1, <1>5, <2>2, <3>1 DEF ReadVisible
    <3>3. Fresh(k, v)
      BY <2>1, <3>1, <3>2 DEF Fresh
    <3> QED
      BY <1>1, <1>2, <2>1, <3>1, <3>2, <3>3
  <2> QED
    BY <2>1, <2>3, <2>4
<1> QED
  BY <1>2, <1>3, <1>4, <1>5

(* Get, as the client sees it: ReadResolver::Get at a stable_lsn that was  *)
(* not set back finds what was reported durable, or a later version, and   *)
(* no row only after a delete, in any interleaving with writes, flushes,   *)
(* checkpoints, crashes and restarts.  Left open are the two cases of the  *)
(* property: a value found while the replay is pending, and a delete in    *)
(* the tables that Get looks past.                                         *)
THEOREM GetIsFresh ==
  ASSUME Checkpointed, "kFastOpen" \notin CallsRecoverFull
  PROVE  Spec => []GetFresh
<1>1. IInv /\ (NoErrorYet => CleanInv /\ FreshInv) => GetFresh
  <2> SUFFICES ASSUME IInv, CleanInv, FreshInv, phase = "idle",
                      ~LazyCommittedLoad, NEW k \in Key, StableCovers(k),
                      ~(Get(k).lsn > 0 /\ wal_replay_pending),
                      ~(Get(k).lsn > 0 /\ LookupMemTable(ReplayedTable, k).del)
               PROVE  Fresh(k, Get(k).lsn)
    BY DEF GetFresh, ReadsFresh
  <2> DEFINE seen == ReadVisible(memtable, k)
             one == IF RestoresOneKey(k) THEN ReadVisible(Restored(k), k) ELSE 0
             old == IF RestoresOneKey(k) THEN 0 ELSE ReadFromDisk(k)
             all == ReadVisible(ReplayedTable, k)
  <2>1. /\ seen \in Nat /\ one \in Nat /\ old \in Nat /\ all \in Nat
        /\ ReadFromDisk(k) \in Nat
    <3>1. /\ TypeOK /\ memtable \in [Key -> Entry]
          /\ ReplayedTable \in [Key -> Entry] /\ Restored(k) \in [Key -> Entry]
      BY TypeFacts, RestoredType DEF IInv, TypeOK
    <3> QED
      BY <3>1, VisibleIsNat
  <2>2. Get(k) = CASE seen > 0 -> Got(seen, memtable, wal_replay_pending)
                   [] seen = 0 /\ one > 0 -> Got(one, Restored(k), TRUE)
                   [] seen = 0 /\ old > 0 -> Got(old, memtable, wal_replay_pending)
                   [] seen = 0 /\ one = 0 /\ old = 0 ->
                        IF wal_replay_pending
                          THEN Got(IF all > 0 THEN all ELSE ReadFromDisk(k),
                                   ReplayedTable, FALSE)
                          ELSE Got(0, memtable, FALSE)
    BY DEF Get
  <2>3. /\ LookupMemTable(ReplayedTable, k) = ReplayedTable[k]
        /\ Fresh(k, all)
        /\ ReplayedTable[k] = NoEntry =>
             btree[k] \in Nat /\ (btree[k] > 0 => btree[k] >= acked[k].lsn)
    BY VisibleIsFresh
  <2>4. ~wal_replay_pending => one = 0 /\ old = ReadFromDisk(k) /\ seen = all
    BY DEF RestoresOneKey, ReplayedTable
  <2>5. ~(one > 0 /\ old > 0)
    OBVIOUS
  <2>6. ReadFromDisk(k) > 0 => ReadFromDisk(k) = btree[k]
    BY DEF ReadFromDisk, ReadByLsn
  <2>7. ~ReplayedTable[k].del /\ ReplayedTable[k] # NoEntry => all > 0
    <3>1. ASSUME ~ReplayedTable[k].del, ReplayedTable[k] # NoEntry
          PROVE  all > 0
      <4>1. all = ReplayedTable[k].lsn
        BY <2>3, <3>1 DEF ReadVisible
      <4>2. SameInv
        BY DEF FreshInv
      <4> QED
        BY <3>1, <4>1, <4>2, PendingIsFresh
    <3> QED
      BY <3>1
  <2> HIDE DEF seen, one, old, all
  <2>8. seen > 0 => Get(k).lsn = seen
    <3>1. ASSUME seen > 0
          PROVE  Get(k).lsn = seen
      <4>1. seen # 0
        BY <2>1, <3>1
      <4>2. Get(k) = Got(seen, memtable, wal_replay_pending)
        BY <2>2, <3>1, <4>1, Zenon
      <4> QED
        BY <4>2 DEF Got
    <3> QED
      BY <3>1
  <2>9. seen = 0 /\ one > 0 => Get(k).lsn = one
    <3>1. ASSUME seen = 0, one > 0
          PROVE  Get(k).lsn = one
      <4>1. ~(seen > 0) /\ ~(old > 0) /\ one # 0
        BY <2>1, <2>5, <3>1
      <4>2. Get(k) = Got(one, Restored(k), TRUE)
        BY <2>2, <3>1, <4>1, Zenon
      <4> QED
        BY <4>2 DEF Got
    <3> QED
      BY <3>1
  <2>10. seen = 0 /\ old > 0 => Get(k).lsn = old
    <3>1. ASSUME seen = 0, old > 0
          PROVE  Get(k).lsn = old
      <4>1. ~(seen > 0) /\ ~(one > 0) /\ old # 0
        BY <2>1, <2>5, <3>1
      <4>2. Get(k) = Got(old, memtable, wal_replay_pending)
        BY <2>2, <3>1, <4>1, Zenon
      <4> QED
        BY <4>2 DEF Got
    <3> QED
      BY <3>1
  <2>11. ASSUME seen = 0, one = 0, old = 0
         PROVE  Get(k).lsn = IF wal_replay_pending
                               THEN IF all > 0 THEN all ELSE ReadFromDisk(k)
                               ELSE 0
    <3>1. Get(k) = IF wal_replay_pending
                     THEN Got(IF all > 0 THEN all ELSE ReadFromDisk(k),
                              ReplayedTable, FALSE)
                     ELSE Got(0, memtable, FALSE)
      BY <2>2, <2>11
    <3>2. CASE wal_replay_pending
      <4>1. Get(k) = Got(IF all > 0 THEN all ELSE ReadFromDisk(k),
                         ReplayedTable, FALSE)
        BY <3>1, <3>2
      <4> QED
        BY <3>2, <4>1 DEF Got
    <3>3. CASE ~wal_replay_pending
      <4>1. Get(k) = Got(0, memtable, FALSE)
        BY <3>1, <3>3
      <4> QED
        BY <3>3, <4>1 DEF Got
    <3> QED
      BY <3>2, <3>3
  <2>12. CASE wal_replay_pending
    <3>1. ~(Get(k).lsn > 0)
      BY <2>12
    <3>2. ~(seen > 0) /\ ~(one > 0) /\ ~(old > 0)
      BY <2>1, <2>8, <2>9, <2>10, <3>1
    <3>3. Get(k).lsn = IF all > 0 THEN all ELSE ReadFromDisk(k)
      BY <2>1, <2>12, <2>11, <3>2
    <3>4. all = 0 /\ Get(k).lsn = 0
      BY <2>1, <3>1, <3>3
    <3> QED
      BY <2>3, <3>4
  <2>13. CASE ~wal_replay_pending
    <3>1. CASE seen > 0
      <4>1. Get(k).lsn = all
        BY <2>4, <2>13, <2>8, <3>1
      <4> QED
        BY <2>3, <4>1
    <3>2. CASE seen = 0 /\ old > 0
      <4>1. Get(k).lsn = old
        BY <2>10, <3>2
      <4>2. ~ReplayedTable[k].del
        BY <2>3, <3>2, <4>1
      <4>3. ReplayedTable[k] = NoEntry
        BY <2>4, <2>7, <2>13, <3>2, <4>2
      <4>4. old = btree[k]
        BY <2>4, <2>6, <2>13, <3>2
      <4> QED
        BY <2>3, <3>2, <4>1, <4>3, <4>4 DEF Fresh
    <3>3. CASE seen = 0 /\ old = 0
      <4>1. Get(k).lsn = 0
        BY <2>4, <2>13, <2>11, <3>3
      <4> QED
        BY <2>3, <2>4, <2>13, <3>3, <4>1
    <3> QED
      BY <2>1, <3>1, <3>2, <3>3
  <2> QED
    BY <2>12, <2>13
<1> QED
  BY <1>1, FreshInvariant, PTL

(* Scan, with the replay done: ResolveScanValues and, while the tables are *)
(* empty, ScanCommittedDirect miss no version that was reported durable.   *)
THEOREM ScanIsFresh ==
  ASSUME Checkpointed, "kFastOpen" \notin CallsRecoverFull
  PROVE  Spec => []ScanFresh
<1>1. IInv /\ (NoErrorYet => CleanInv /\ FreshInv) => ScanFresh
  <2> SUFFICES ASSUME IInv, CleanInv, FreshInv, phase = "idle",
                      ~LazyCommittedLoad, ~wal_replay_pending,
                      NEW k \in Key, StableCovers(k)
               PROVE  /\ Fresh(k, ResolveScanValue(k))
                      /\ CanScanCommittedDirect => Fresh(k, ScanCommittedDirect(k))
    BY DEF ScanFresh, ReadsFresh
  <2> DEFINE e == memtable[k]
             v == ReadVisible(memtable, k)
  <2>1. /\ e \in Entry /\ e.lsn \in Nat /\ acked[k].lsn \in Nat /\ v \in Nat
        /\ stable_lsn \in Nat /\ committed[k] \in Nat
    <3>1. /\ e \in Entry /\ committed[k] \in Lsn /\ acked[k].lsn \in Lsn
          /\ memtable \in [Key -> Entry]
      BY DEF IInv, TypeOK, Entry
    <3>2. e.lsn \in Lsn
      BY <3>1 DEF Entry
    <3> QED
      BY <3>1, <3>2, TypeFacts, VisibleIsNat DEF IInv
  <2>2. memtable = ReplayedTable
    BY DEF ReplayedTable
  <2>3. /\ LookupMemTable(memtable, k) = e /\ Fresh(k, v)
        /\ e = NoEntry => /\ btree[k] \in Nat
                          /\ btree[k] = 0 => Fresh(k, 0)
                          /\ btree[k] > 0 => btree[k] >= acked[k].lsn
                          /\ btree[k] > 0 /\ acked[k].lsn > 0 => v = btree[k]
    BY <2>2, VisibleIsFresh
  <2>4. e # NoEntry => /\ e.lsn > 0
                       /\ v = IF e.del THEN 0 ELSE e.lsn
    <3>1. SameInv
      BY DEF FreshInv
    <3> QED
      BY <2>2, <2>3, <3>1, PendingIsFresh DEF ReadVisible
  <2>5. e = NoEntry => btree[k] = committed[k]
    BY <2>2 DEF FreshInv, BtreeInv, Open, Todo, Held
  <2>6. OnDisk
    BY DEF OnDisk, FreshInv, BtreeInv, CleanInv, ShapeInv, Open
  <2>7. ScanHit(k) = IF e = NoEntry THEN btree[k] ELSE IF e.del THEN 0 ELSE e.lsn
    BY <2>3, <2>6 DEF ScanHit
  <2> HIDE DEF v, e
  <2>8. Fresh(k, ResolveScanValue(k))
    <3>1. ScanHit(k) \in Nat
      BY <2>1, <2>3, <2>7
    <3>2. CASE ScanHit(k) = 0
      <4>1. ResolveScanValue(k) = 0
        BY <3>2 DEF ResolveScanValue
      <4>2. CASE e = NoEntry
        BY <2>3, <2>7, <3>2, <4>1, <4>2
      <4>3. CASE e # NoEntry
        <5>1. v = 0
          BY <2>1, <2>4, <2>7, <3>2, <4>3
        <5> QED
          BY <2>3, <4>1, <5>1
      <4> QED
        BY <4>2, <4>3
    <3>3. CASE ScanHit(k) > 0 /\ v > 0
      <4>1. ResolveScanValue(k) = v
        BY <3>3 DEF ResolveScanValue, v
      <4> QED
        BY <2>3, <4>1
    <3>4. CASE ScanHit(k) > 0 /\ v = 0
      <4>1. e = NoEntry
        BY <2>1, <2>4, <2>7, <3>4
      <4>2. acked[k].lsn = 0
        BY <2>1, <2>3, <2>7, <3>4, <4>1
      <4>3. Fresh(k, 0)
        BY <4>2 DEF Fresh
      <4>4. ResolveScanValue(k) \in {0, EffectiveHitLsn(k)}
        BY <2>6, <3>4 DEF ResolveScanValue, ReadByLsn, v
      <4>5. EffectiveHitLsn(k) \in Nat
        <5>1. Floor(k, stable_lsn) \in Nat
          <6>1. {l \in vcs[k] : l <= stable_lsn} \in SUBSET (0 .. MaxLsn)
                /\ MaxLsn \in Nat
            BY BoundsOK DEF IInv, TypeOK, Lsn
          <6>2. MaxOf({l \in vcs[k] : l <= stable_lsn}) \in 0 .. MaxLsn
            BY <6>1, MaxOfIsGreatest
          <6> QED
            BY <6>1, <6>2 DEF Floor
        <5> QED
          BY <3>1, <5>1 DEF EffectiveHitLsn
      <4> QED
        BY <2>1, <4>2, <4>3, <4>4, <4>5 DEF Fresh
    <3> QED
      BY <2>1, <3>1, <3>2, <3>3, <3>4
  <2>9. ASSUME CanScanCommittedDirect
        PROVE  Fresh(k, ScanCommittedDirect(k))
    <3>1. e = NoEntry
      BY <2>9 DEF CanScanCommittedDirect, MemTablesEmpty, EmptyTable, e
    <3>2. committed[k] = 0 => Fresh(k, 0)
      BY <2>3, <2>5, <3>1
    <3>3. committed[k] > 0 => Fresh(k, committed[k])
      BY <2>3, <2>5, <3>1 DEF Fresh
    <3>4. CASE stable_lsn = 0 \/ committed[k] <= stable_lsn
      <4>1. ScanCommittedDirect(k) = committed[k]
        BY <3>4 DEF ScanCommittedDirect
      <4> QED
        BY <2>1, <3>2, <3>3, <4>1
    <3>5. CASE ~(stable_lsn = 0 \/ committed[k] <= stable_lsn)
      <4>1. ScanCommittedDirect(k) = 0
        BY <3>5 DEF ScanCommittedDirect
      <4>2. CASE acked[k].lsn = 0
        BY <4>1, <4>2 DEF Fresh
      <4>3. CASE acked[k].lsn > 0
        <5>1. PICK d \in Elements(datafile) :
                /\ d.lsn = acked[k].lsn /\ d.del = acked[k].del
                /\ committed[k] = IF d.del THEN 0 ELSE d.lsn
          BY <2>2, <3>1, <4>3, StoredIsFresh DEF e
        <5>2. d.lsn <= stable_lsn
          BY <3>5, <5>1 DEF StableCovers
        <5>3. committed[k] = 0
          BY <3>5, <5>1, <5>2
        <5> QED
          BY <3>2, <4>1, <5>3
      <4> QED
        BY <2>1, <4>2, <4>3
    <3> QED
      BY <3>4, <3>5
  <2> QED
    BY <2>8, <2>9
<1> QED
  BY <1>1, FreshInvariant, PTL
=============================================================================
