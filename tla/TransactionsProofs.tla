------------------------- MODULE TransactionsProofs -------------------------
(***************************************************************************)
(* Transactions of any number of sessions on any number of keys, with any  *)
(* bound on log records, events and transactions.  No statement reads an   *)
(* uncommitted version of another transaction.  As long as no transaction  *)
(* id is used twice, what was reported committed is found again, a commit  *)
(* loses no update and adds no phantom to the range of another.            *)
(***************************************************************************)
EXTENDS Transactions, OrderLemmas, FiniteSetTheorems, TLAPS

AnyRecord == DataRecord \cup ControlRecord
CurrentLsn == wal_lsn + Len(wal)

(* The record at position i of the log has the i-th LSN above the          *)
(* superblock's; what is flushed is at or below that.                      *)
LogInv ==
  /\ CurrentLsn + events <= MaxWork
  /\ \A i \in 1 .. Len(wal) : wal[i].lsn = wal_lsn + i
  /\ \A k \in Key : \A v \in disk[k] : v.lsn <= wal_lsn

(* Who is closed has no transaction, who has none keeps nothing of one.  A *)
(* savepoint is a place in the journal until the whole is rolled back.     *)
Closed(s) ==
  /\ s \notin open => memtable[s] = EmptyTable /\ txn_id[s] = 0
  /\ stage[s] # "none" => s \in open /\ txn_id[s] # 0
  /\ txn_id[s] = 0 => /\ read_set[s] = Unsampled /\ write_set[s] = Unsampled
                      /\ journal_[s] = <<>>
  /\ savepoint[s] # NoSample /\ stage[s] # "undoing"
       => savepoint[s] <= Len(journal_[s])
  /\ stage[s] = "unwinding" => savepoint[s] # NoSample
ClosedInv == \A s \in Session : Closed(s)

(* A memtable entry is flushed or is that of a record of the log; it is    *)
(* durable only if no transaction or a committed one wrote it.             *)
Known(e, k) ==
  /\ e.lsn > wal_lsn => \E r \in Range(wal) :
                          /\ r.op = "data" /\ r.key = k
                          /\ r.lsn = e.lsn /\ r.txn = e.txn
  /\ e.lsn > 0 /\ e.durable => e.txn \in {0} \cup LoggedAs("commit")
TableInv == \A s \in Session, k \in Key : Known(memtable[s][k], k)

IInv == TypeOK /\ LogInv /\ ClosedInv /\ TableInv
-----------------------------------------------------------------------------
(* The operators of the model. *)

LEMMA LsnIsNat ==
  /\ MaxWork \in Nat /\ 0 \in Lsn
  /\ \A l \in Lsn : l \in Nat /\ l <= MaxWork
BY TxnBoundsOK DEF Lsn

LEMMA LastOfIsGreatest ==
  ASSUME NEW S \in SUBSET Lsn
  PROVE  /\ LastOf(S) \in Lsn
         /\ \A l \in S : l <= LastOf(S)
         /\ LastOf(S) \in S \cup {0}
<1> DEFINE T == S \cup {0}
<1>1. T \in SUBSET Nat /\ T # {} /\ \A n \in T : n <= MaxWork
  BY LsnIsNat
<1> HIDE DEF T
<1>2. PICK i \in T : \A n \in T : n <= i
  BY <1>1, GreatestNat, LsnIsNat
<1>3. \A n \in T : i >= n
  BY <1>2
<1>4. Max(T) \in T /\ \A n \in T : Max(T) >= n
  BY <1>3 DEF Max
<1>5. \A n \in T : n \in Nat
  BY <1>1
<1>6. \A n \in T : n <= Max(T)
  BY <1>4, <1>5
<1> QED
  BY <1>4, <1>6, LsnIsNat DEF LastOf, T

LEMMA NewestOfIs ==
  ASSUME NEW S, S # {}, \A v \in S : v.lsn \in Lsn
  PROVE  NewestOf(S) \in S /\ \A w \in S : w.lsn <= NewestOf(S).lsn
<1> DEFINE L == {v.lsn : v \in S}
<1>1. L \in SUBSET Nat /\ L # {} /\ \A l \in L : l <= MaxWork
  BY LsnIsNat
<1>2. PICK l \in L : \A m \in L : m <= l
  BY <1>1, GreatestNat, LsnIsNat
<1>3. PICK v \in S : v.lsn = l
  OBVIOUS
<1>4. \A w \in S : w.lsn \in Nat
  BY LsnIsNat
<1>5. \A w \in S : v.lsn >= w.lsn
  BY <1>2, <1>3, <1>4
<1>6. NewestOf(S) \in S /\ \A w \in S : NewestOf(S).lsn >= w.lsn
  BY <1>5 DEF NewestOf
<1> QED
  BY <1>4, <1>6

LEMMA RecordIs ==
  ASSUME TypeOK
  PROVE  /\ Len(wal) \in Nat /\ DOMAIN wal = 1 .. Len(wal)
         /\ \A i \in 1 .. Len(wal) : wal[i] \in AnyRecord /\ wal[i] \in Range(wal)
         /\ \A r \in Range(wal) : \E i \in 1 .. Len(wal) : r = wal[i]
         /\ \A r \in Range(wal) : /\ r.lsn \in Lsn /\ r.txn \in Txn
                                  /\ r.op = "data" => r \in DataRecord
         /\ wal_lsn \in Nat /\ CurrentLsn \in Nat
<1>1. wal \in Seq(AnyRecord)
  BY DEF TypeOK, AnyRecord
<1>2. Len(wal) \in Nat /\ DOMAIN wal = 1 .. Len(wal)
  BY <1>1
<1>3. \A i \in 1 .. Len(wal) : wal[i] \in AnyRecord
  BY <1>1
<1>4. \A r \in Range(wal) : \E i \in 1 .. Len(wal) : r = wal[i]
  BY <1>2 DEF Range
<1>5. \A i \in 1 .. Len(wal) : wal[i] \in Range(wal)
  BY <1>2 DEF Range
<1>6. \A r \in AnyRecord : /\ r.lsn \in Lsn /\ r.txn \in Txn
                           /\ r.op = "data" => r \in DataRecord
  BY DEF AnyRecord, DataRecord, ControlRecord
<1>7. wal_lsn \in Nat
  BY LsnIsNat DEF TypeOK
<1>8. CurrentLsn \in Nat
  BY <1>2, <1>7 DEF CurrentLsn
<1>9. \A r \in Range(wal) : r \in AnyRecord
  BY <1>3, <1>4
<1> QED
  BY <1>2, <1>3, <1>4, <1>5, <1>6, <1>7, <1>8, <1>9

(* Two records of the log have two LSNs, above those that are flushed.     *)
LEMMA LsnsAreUnique ==
  ASSUME TypeOK, LogInv
  PROVE  /\ \A r \in Range(wal) : r.lsn > wal_lsn /\ r.lsn <= CurrentLsn
         /\ \A r, o \in Range(wal) : r.lsn = o.lsn => r = o
<1>1. \A i \in 1 .. Len(wal) : wal[i].lsn = wal_lsn + i
  BY DEF LogInv
<1>2. ASSUME NEW r \in Range(wal)
      PROVE  \E i \in 1 .. Len(wal) : r = wal[i] /\ r.lsn = wal_lsn + i
  BY <1>1, RecordIs
<1>3. ASSUME NEW r \in Range(wal) PROVE r.lsn > wal_lsn /\ r.lsn <= CurrentLsn
  <2>1. PICK i \in 1 .. Len(wal) : r.lsn = wal_lsn + i
    BY <1>2
  <2> QED
    BY <2>1, RecordIs DEF CurrentLsn
<1>4. ASSUME NEW r \in Range(wal), NEW o \in Range(wal), r.lsn = o.lsn
      PROVE  r = o
  <2>1. PICK i \in 1 .. Len(wal) : r = wal[i] /\ r.lsn = wal_lsn + i
    BY <1>2
  <2>2. PICK j \in 1 .. Len(wal) : o = wal[j] /\ o.lsn = wal_lsn + j
    BY <1>2
  <2>3. i = j
    BY <1>4, <2>1, <2>2, RecordIs
  <2> QED
    BY <2>1, <2>2, <2>3
<1> QED
  BY <1>3, <1>4

LEMMA DataOfIs ==
  ASSUME TypeOK, NEW k \in Key
  PROVE  /\ \A r : r \in DataOf(k) <=>
              /\ r \in Range(wal) /\ r.op = "data" /\ r.key = k
              /\ r.txn \notin LoggedAs("abort")
         /\ \A r : r \in CommittedData(k) <=>
              r \in DataOf(k) /\ r.txn \in LoggedAs("commit") \cup {0}
         /\ \A r \in DataOf(k) : r.lsn \in Lsn /\ r \in DataRecord
BY RecordIs DEF DataOf, CommittedData

LEMMA TableEntryType ==
  ASSUME NEW r \in DataRecord, NEW b \in BOOLEAN
  PROVE  TableEntry(r, b) \in Entry
BY DEF TableEntry, DataRecord, Entry

LEMMA ReplayIs ==
  ASSUME TypeOK, NEW mem \in [Key -> Entry]
  PROVE  /\ ReplayPending(mem) \in [Key -> Entry]
         /\ \A k \in Key :
              /\ DataOf(k) = {} => ReplayPending(mem)[k] = mem[k]
              /\ DataOf(k) # {} =>
                   /\ NewestOf(DataOf(k)) \in DataOf(k)
                   /\ \A w \in DataOf(k) : w.lsn <= NewestOf(DataOf(k)).lsn
                   /\ ReplayPending(mem)[k] =
                        TableEntry(NewestOf(DataOf(k)),
                                   NewestOf(DataOf(k)) \in CommittedData(k))
<1> DEFINE last(k) == NewestOf(DataOf(k))
           e(k) == TableEntry(last(k), last(k) \in CommittedData(k))
<1>1. ReplayPending(mem) =
        [k \in Key |-> IF DataOf(k) = {} THEN mem[k] ELSE e(k)]
  BY DEF ReplayPending
<1>2. ASSUME NEW k \in Key, DataOf(k) # {}
      PROVE  last(k) \in DataOf(k) /\ \A w \in DataOf(k) : w.lsn <= last(k).lsn
  BY <1>2, DataOfIs, NewestOfIs
<1>3. ASSUME NEW k \in Key, DataOf(k) # {} PROVE e(k) \in Entry
  <2>1. last(k) \in DataRecord
    BY <1>2, <1>3, DataOfIs
  <2>2. (last(k) \in CommittedData(k)) \in BOOLEAN
    OBVIOUS
  <2> QED
    BY <2>1, <2>2, TableEntryType
<1> HIDE DEF e
<1>4. ReplayPending(mem) \in [Key -> Entry]
  BY <1>1, <1>3
<1>5. \A k \in Key : ReplayPending(mem)[k] =
                       IF DataOf(k) = {} THEN mem[k] ELSE e(k)
  BY <1>1
<1> QED
  BY <1>2, <1>4, <1>5 DEF e

(* What is flushed, seen from a snapshot.                                  *)
LEMMA DiskVersionIs ==
  ASSUME TypeOK, LogInv, NEW k \in Key, NEW snap \in Lsn
  PROVE  DiskVersion(k, snap) \in Version /\ DiskVersion(k, snap).lsn <= wal_lsn
<1> DEFINE old == {v \in disk[k] : v.lsn <= snap}
<1>1. /\ disk[k] \in SUBSET Version /\ \A v \in disk[k] : v.lsn <= wal_lsn
      /\ \A v \in Version : v.lsn \in Lsn
  BY DEF TypeOK, LogInv, Version
<1>2. ASSUME NEW S \in SUBSET disk[k], S # {}
      PROVE  NewestOf(S) \in Version /\ NewestOf(S).lsn <= wal_lsn
  <2>1. \A v \in S : v.lsn \in Lsn
    BY <1>1
  <2>2. NewestOf(S) \in S
    BY <1>2, <2>1, NewestOfIs
  <2> QED
    BY <1>1, <2>2
<1>3. NoVersion \in Version /\ NoVersion.lsn <= wal_lsn
  BY LsnIsNat, RecordIs DEF NoVersion, Version, Value, Absent
<1>4. LiveHead(k) => disk[k] # {}
  BY DEF LiveHead
<1>5. DiskVersion(k, snap) =
        IF snap = 0 /\ LiveHead(k) THEN NewestOf(disk[k])
        ELSE IF old = {} THEN NoVersion ELSE NewestOf(old)
  BY DEF DiskVersion
<1>6. old \in SUBSET disk[k] /\ disk[k] \in SUBSET disk[k]
  OBVIOUS
<1> HIDE DEF old
<1> QED
  BY <1>2, <1>3, <1>4, <1>5, <1>6

LEMMA LatestIs ==
  ASSUME TypeOK, NEW k \in Key
  PROVE  /\ LatestCommittedLsnForKey(k) \in Lsn
         /\ \A r \in CommittedData(k) : r.lsn <= LatestCommittedLsnForKey(k)
         /\ \/ LatestCommittedLsnForKey(k) = 0
            \/ \E r \in CommittedData(k) : r.lsn = LatestCommittedLsnForKey(k)
<1> DEFINE L == {r.lsn : r \in CommittedData(k)}
<1>1. L \in SUBSET Lsn
  BY DataOfIs
<1>2. LatestCommittedLsnForKey(k) = LastOf(L)
  BY DEF LatestCommittedLsnForKey
<1>3. \A l : l \in L <=> \E r \in CommittedData(k) : r.lsn = l
  OBVIOUS
<1> HIDE DEF L
<1>4. LastOf(L) \in Lsn /\ (\A l \in L : l <= LastOf(L)) /\ LastOf(L) \in L \cup {0}
  BY <1>1, LastOfIsGreatest
<1> QED
  BY <1>2, <1>3, <1>4

(* The current committed version: flushed, in the memtable or in the log.  *)
LEMMA CurrentIs ==
  ASSUME TypeOK, NEW mem \in [Key -> Entry], NEW k \in Key,
         NEW x, x = ResolveCurrentCommittedLsn(mem, k)
  PROVE  /\ x \in Lsn
         /\ \A v \in disk[k] : v.lsn <= x
         /\ mem[k].durable => mem[k].lsn <= x
         /\ LatestCommittedLsnForKey(k) <= x
         /\ \/ x = 0 \/ \E v \in disk[k] : x = v.lsn
            \/ mem[k].durable /\ x = mem[k].lsn
            \/ x = LatestCommittedLsnForKey(k)
<1> DEFINE D == {v.lsn : v \in disk[k]}
           m == IF mem[k].durable THEN mem[k].lsn ELSE 0
           L == D \cup {m, LatestCommittedLsnForKey(k)}
<1>1. D \in SUBSET Lsn /\ \A l : l \in D <=> \E v \in disk[k] : v.lsn = l
  BY DEF TypeOK, Version
<1>2. m \in Lsn /\ LatestCommittedLsnForKey(k) \in Lsn
  BY LatestIs, LsnIsNat DEF Entry
<1>3. x = LastOf(L)
  BY DEF ResolveCurrentCommittedLsn
<1> HIDE DEF D
<1>4. L \in SUBSET Lsn
  BY <1>1, <1>2
<1>5. LastOf(L) \in Lsn /\ (\A l \in L : l <= LastOf(L)) /\ LastOf(L) \in L \cup {0}
  BY <1>4, LastOfIsGreatest
<1>6. x \in Lsn /\ (\A l \in D : l <= x) /\ m <= x
      /\ LatestCommittedLsnForKey(k) <= x
  BY <1>3, <1>5
<1>7. x = 0 \/ x \in D \/ x = m \/ x = LatestCommittedLsnForKey(k)
  BY <1>3, <1>5
<1> QED
  BY <1>1, <1>6, <1>7

(* What the statements of a transaction note.                              *)
LEMMA SampleType ==
  ASSUME IInv, NEW s \in Session, NEW k \in Key
  PROVE  /\ Refreshed(s) \in [Key -> Entry]
         /\ Sample(s, k) \in Lsn /\ Sample(s, k) <= wal_lsn
         /\ ResolveCurrentCommittedLsn(Refreshed(s), k) \in Lsn
         /\ ReadSample(s, k) \in Lsn
         /\ \A kind \in {"insert", "update", "delete"} :
              WriteTicket(s, k, kind) \in Lsn
<1>1. /\ TypeOK /\ LogInv /\ memtable[s] \in [Key -> Entry] /\ snapshot[s] \in Lsn
      /\ read_set[s][k] \in Lsn \cup {NoSample}
  <2>1. TypeOK /\ LogInv
    BY DEF IInv
  <2>2. /\ memtable[s] \in [Key -> Entry] /\ snapshot[s] \in Lsn
        /\ read_set[s][k] \in Lsn \cup {NoSample}
    BY <2>1 DEF TypeOK
  <2> QED
    BY <2>1, <2>2
<1>2. Refreshed(s) \in [Key -> Entry]
  BY <1>1, ReplayIs DEF Refreshed
<1>3. Sample(s, k) \in Lsn /\ Sample(s, k) <= wal_lsn
  <2>1. \A v \in Version : v.lsn \in Lsn
    BY DEF Version
  <2> QED
    BY <1>1, <2>1, DiskVersionIs DEF Sample, ResolveLsnAtSnapshot
<1>4. ResolveCurrentCommittedLsn(Refreshed(s), k) \in Lsn
  BY <1>1, <1>2, CurrentIs
<1>5. ReadSample(s, k) \in Lsn
  BY <1>3, <1>4 DEF ReadSample
<1>6. ASSUME NEW kind \in {"insert", "update", "delete"}
      PROVE  WriteTicket(s, k, kind) \in Lsn
  <2>1. CASE kind = "update"
    BY <1>5, <2>1 DEF WriteTicket
  <2>2. CASE kind # "update" /\ read_set[s][k] = NoSample
    BY <1>3, <2>2 DEF WriteTicket, NoSample
  <2>3. CASE kind # "update" /\ read_set[s][k] = 0
    BY <1>4, <2>3 DEF WriteTicket, NoSample
  <2>4. CASE kind # "update" /\ read_set[s][k] \in Lsn \ {0}
    <3>1. read_set[s][k] > 0 /\ read_set[s][k] # NoSample
      BY <2>4, LsnIsNat DEF NoSample
    <3> QED
      BY <1>1, <2>4, <3>1 DEF WriteTicket
  <2> QED
    BY <1>1, <2>1, <2>2, <2>3, <2>4
<1> QED
  BY <1>2, <1>3, <1>4, <1>5, <1>6

LEMMA ValueType ==
  ASSUME IInv, NEW s \in Session, NEW k \in Key, NEW mem \in [Key -> Entry]
  PROVE  ResolveAtSnapshot(mem, k, txn_id[s], snapshot[s]) \in Value
<1>1. TypeOK /\ LogInv /\ snapshot[s] \in Lsn
  BY DEF IInv, TypeOK
<1>2. DiskVersion(k, snapshot[s]).val \in Value
  BY <1>1, DiskVersionIs DEF Version
<1>3. mem[k].val \in Value
  BY DEF Entry
<1> QED
  BY <1>2, <1>3 DEF ResolveAtSnapshot
-----------------------------------------------------------------------------
(* The log grows at its end, by any number of records.                     *)
Appends(records) ==
  /\ records \in Seq(AnyRecord)
  /\ \A i \in 1 .. Len(records) : records[i].lsn = CurrentLsn + i
  /\ wal' = wal \o records /\ wal_lsn' = wal_lsn /\ disk' = disk
  /\ CurrentLsn + Len(records) + events' <= MaxWork

LEMMA AfterAppend ==
  ASSUME TypeOK, LogInv, NEW records, Appends(records)
  PROVE  /\ wal' \in Seq(AnyRecord)
         /\ CurrentLsn' = CurrentLsn + Len(records)
         /\ LogInv'
         /\ \A r \in Range(wal) : r \in Range(wal)'
         /\ \A i \in 1 .. Len(records) : records[i] \in Range(wal)'
         /\ \A r \in Range(wal)' :
              r \in Range(wal) \/ \E i \in 1 .. Len(records) : r = records[i]
<1>1. /\ wal \in Seq(AnyRecord) /\ records \in Seq(AnyRecord)
      /\ wal' = wal \o records
  BY DEF TypeOK, AnyRecord, Appends
<1>2. wal' \in Seq(AnyRecord)
  BY <1>1
<1>3. /\ Len(wal') = Len(wal) + Len(records)
      /\ DOMAIN wal' = 1 .. Len(wal) + Len(records)
      /\ \A i \in 1 .. Len(wal) : wal'[i] = wal[i]
      /\ \A i \in 1 .. Len(records) : wal'[Len(wal) + i] = records[i]
      /\ Len(wal) \in Nat /\ Len(records) \in Nat
  BY <1>1
<1>4. wal_lsn \in Nat /\ wal_lsn' = wal_lsn
  BY RecordIs DEF Appends
<1>5. CurrentLsn' = CurrentLsn + Len(records)
  BY <1>3, <1>4 DEF CurrentLsn
<1>6. ASSUME NEW i \in DOMAIN wal'
      PROVE  \/ i \in 1 .. Len(wal)
             \/ \E j \in 1 .. Len(records) : i = Len(wal) + j
  <2>1. CASE i <= Len(wal)
    BY <1>3, <2>1
  <2>2. CASE ~(i <= Len(wal))
    <3>1. i - Len(wal) \in 1 .. Len(records) /\ i = Len(wal) + (i - Len(wal))
      BY <1>3, <2>2
    <3> QED
      BY <3>1
  <2> QED
    BY <2>1, <2>2
<1>7. LogInv'
  <2>1. CurrentLsn' + events' <= MaxWork
    BY <1>5 DEF Appends
  <2>2. ASSUME NEW i \in 1 .. Len(wal') PROVE wal'[i].lsn = wal_lsn' + i
    <3>1. CASE i \in 1 .. Len(wal)
      BY <1>3, <1>4, <3>1 DEF LogInv
    <3>2. ASSUME NEW j \in 1 .. Len(records), i = Len(wal) + j
          PROVE  wal'[i].lsn = wal_lsn + i
      <4>1. records[j].lsn = CurrentLsn + j /\ wal'[i] = records[j]
        BY <1>3, <3>2 DEF Appends
      <4>2. CurrentLsn + j = wal_lsn + i
        BY <1>3, <1>4, <3>2 DEF CurrentLsn
      <4> QED
        BY <4>1, <4>2
    <3> QED
      BY <1>3, <1>4, <1>6, <3>1, <3>2
  <2>3. \A k \in Key : \A v \in disk'[k] : v.lsn <= wal_lsn'
    BY DEF Appends, LogInv
  <2> QED
    BY <2>1, <2>2, <2>3 DEF LogInv
<1>8. ASSUME NEW r \in Range(wal) PROVE r \in Range(wal)'
  <2>1. PICK i \in 1 .. Len(wal) : r = wal[i]
    BY RecordIs
  <2>2. i \in DOMAIN wal' /\ r = wal'[i]
    BY <1>3, <2>1
  <2> QED
    BY <2>2 DEF Range
<1>9. ASSUME NEW i \in 1 .. Len(records) PROVE records[i] \in Range(wal)'
  <2>1. Len(wal) + i \in DOMAIN wal'
    BY <1>3
  <2> QED
    BY <1>3, <2>1 DEF Range
<1>10. ASSUME NEW r \in Range(wal)'
       PROVE  r \in Range(wal) \/ \E i \in 1 .. Len(records) : r = records[i]
  <2>1. PICK i \in DOMAIN wal' : r = wal'[i]
    BY DEF Range
  <2>2. CASE i \in 1 .. Len(wal)
    BY <1>3, <2>1, <2>2, RecordIs
  <2>3. ASSUME NEW j \in 1 .. Len(records), i = Len(wal) + j
        PROVE  r = records[j]
    BY <1>3, <2>1, <2>3
  <2> QED
    BY <1>6, <2>2, <2>3
<1> QED
  BY <1>2, <1>5, <1>7, <1>8, <1>9, <1>10

(* An append keeps what is known of an entry, and adds to who committed.   *)
LEMMA KnownAfterAppend ==
  ASSUME TypeOK, LogInv, NEW records, Appends(records)
  PROVE  /\ \A op : LoggedAs(op) \subseteq LoggedAs(op)'
         /\ \A e, k : Known(e, k) => Known(e, k)'
         /\ \A i \in 1 .. Len(records), k \in Key :
              records[i].op = "data" /\ records[i].key = k =>
                Known(TableEntry(records[i], records[i].txn = 0), k)'
<1>1. /\ \A r \in Range(wal) : r \in Range(wal)'
      /\ \A i \in 1 .. Len(records) : records[i] \in Range(wal)'
      /\ wal_lsn' = wal_lsn
  BY AfterAppend DEF Appends
<1>2. \A op : LoggedAs(op) \subseteq LoggedAs(op)'
  BY <1>1 DEF LoggedAs
<1>3. ASSUME NEW e, NEW k, Known(e, k) PROVE Known(e, k)'
  BY <1>1, <1>2, <1>3 DEF Known
<1>4. ASSUME NEW i \in 1 .. Len(records), NEW k \in Key,
             records[i].op = "data", records[i].key = k
      PROVE  Known(TableEntry(records[i], records[i].txn = 0), k)'
  <2> DEFINE r == records[i]
             e == TableEntry(r, r.txn = 0)
  <2>1. /\ e.lsn = r.lsn /\ e.txn = r.txn /\ e.durable = (r.txn = 0)
        /\ r \in Range(wal)'
    BY <1>1 DEF TableEntry
  <2> HIDE DEF e
  <2>2. e.durable => e.txn \in {0} \cup LoggedAs("commit")'
    BY <2>1
  <2>3. \E o \in Range(wal)' : /\ o.op = "data" /\ o.key = k
                               /\ o.lsn = e.lsn /\ o.txn = e.txn
    BY <1>4, <2>1
  <2>4. Known(e, k)'
    BY <2>2, <2>3 DEF Known
  <2> QED
    BY <2>4 DEF e
<1> QED
  BY <1>2, <1>3, <1>4

(* The replay leaves nothing but known entries.                            *)
LEMMA KnownAfterReplay ==
  ASSUME TypeOK, NEW mem \in [Key -> Entry], \A k \in Key : Known(mem[k], k),
         NEW k \in Key
  PROVE  Known(ReplayPending(mem)[k], k)
<1> DEFINE r == NewestOf(DataOf(k))
           e == TableEntry(r, r \in CommittedData(k))
<1>1. CASE DataOf(k) = {}
  BY <1>1, ReplayIs
<1>2. CASE DataOf(k) # {}
  <2>1. ReplayPending(mem)[k] = e /\ r \in DataOf(k)
    BY <1>2, ReplayIs
  <2>2. /\ r \in Range(wal) /\ r.op = "data" /\ r.key = k
        /\ r \in CommittedData(k) => r.txn \in LoggedAs("commit") \cup {0}
    BY <2>1, DataOfIs
  <2>3. e.lsn = r.lsn /\ e.txn = r.txn /\ e.durable = (r \in CommittedData(k))
    BY DEF TableEntry
  <2> HIDE DEF e, r
  <2>4. Known(e, k)
    BY <2>2, <2>3 DEF Known
  <2> QED
    BY <2>1, <2>4
<1> QED
  BY <1>1, <1>2

(* What a Put of s leaves: its records at the end of the log, entered in    *)
(* the memtable it starts from, its keys acknowledged.                      *)
Entered(s, mem, records) ==
  /\ Appends(records) /\ next_txn' = next_txn
  /\ \A k \in Key :
       \/ memtable'[s][k] = mem[k]
       \/ \E i \in 1 .. Len(records) :
            /\ records[i].op = "data" /\ records[i].key = k
            /\ memtable'[s][k] = TableEntry(records[i], records[i].txn = 0)
  /\ \A k \in Key :
       \/ acked'[k] = acked[k] \/ acked'[k] = 0
       \/ \E i \in 1 .. Len(records) :
            /\ records[i].op = "data" /\ records[i].key = k
            /\ records[i].txn = 0 /\ records[i].lsn = acked'[k]

(* A Put logs its records and enters the last one of each key.             *)
LEMMA PutIs ==
  ASSUME TypeOK, LogInv, events' = events, NEW s \in Session,
         NEW mem \in [Key -> Entry], NEW records \in Seq(AnyRecord),
         Put(s, mem, records),
         \A i \in 1 .. Len(records) : records[i].lsn = CurrentLsn + i
  PROVE  /\ Appends(records) /\ Entered(s, mem, records)
         /\ memtable' \in [Session -> [Key -> Entry]]
         /\ \A o \in Session : o # s => memtable'[o] = memtable[o]
         /\ stable_lsn' \in [Session -> Lsn]
         /\ acked' \in [Key -> Lsn]
         /\ open' = open /\ next_txn' = next_txn
<1>1. /\ DOMAIN records = 1 .. Len(records)
      /\ \A r \in Range(records) : \E i \in 1 .. Len(records) : r = records[i]
      /\ \A r \in Range(records) : r \in AnyRecord
  BY DEF Range
<1>2. \A r \in AnyRecord : r.lsn \in Lsn /\ r.txn \in Txn
                           /\ (r.op = "data" => r \in DataRecord)
  BY DEF AnyRecord, DataRecord, ControlRecord
<1>3. Appends(records)
  <2>1. Room(Len(records)) /\ wal' = wal \o records
        /\ UNCHANGED <<wal_lsn, disk>>
    BY DEF Put, ToLog
  <2>2. /\ CurrentLsn \in Nat /\ NextLsn = CurrentLsn + 1 /\ Len(records) \in Nat
        /\ events \in Nat
    <3>1. CurrentLsn \in Nat /\ Len(records) \in Nat
      BY RecordIs
    <3>2. NextLsn = CurrentLsn + 1
      BY DEF NextLsn, CurrentLsn
    <3>3. events \in Nat
      BY LsnIsNat DEF TypeOK
    <3> QED
      BY <3>1, <3>2, <3>3
  <2>3. CurrentLsn + Len(records) + events' <= MaxWork
    BY <2>1, <2>2, LsnIsNat DEF Room
  <2> QED
    BY <2>1, <2>3 DEF Appends
<1> DEFINE mine(k) == {r \in Range(records) : r.op = "data" /\ r.key = k}
           last(k) == NewestOf(mine(k))
           new(k) == TableEntry(last(k), last(k).txn = 0)
<1>4. ASSUME NEW k \in Key, mine(k) # {} PROVE last(k) \in mine(k)
  <2>1. \A r \in mine(k) : r.lsn \in Lsn
    BY <1>1, <1>2
  <2> QED
    BY <1>4, <2>1, NewestOfIs
<1>5. ASSUME NEW k \in Key, mine(k) # {} PROVE new(k) \in Entry
  <2>1. last(k) \in DataRecord
    BY <1>1, <1>2, <1>4, <1>5
  <2>2. (last(k).txn = 0) \in BOOLEAN
    OBVIOUS
  <2> QED
    BY <2>1, <2>2, TableEntryType
<1>6. memtable' = [memtable EXCEPT ![s] =
                     [k \in Key |-> IF mine(k) = {} THEN mem[k] ELSE new(k)]]
  BY DEF Put, MemTablePut
<1>7. memtable \in [Session -> [Key -> Entry]]
  BY DEF TypeOK
<1> HIDE DEF new
<1>8. memtable' \in [Session -> [Key -> Entry]]
  BY <1>5, <1>6, <1>7
<1>9. \A o \in Session : o # s => memtable'[o] = memtable[o]
  BY <1>6, <1>7
<1>10. \A k \in Key : memtable'[s][k] = IF mine(k) = {} THEN mem[k] ELSE new(k)
  BY <1>6, <1>7
<1>11. ASSUME NEW k \in Key
       PROVE  \/ memtable'[s][k] = mem[k]
              \/ \E i \in 1 .. Len(records) :
                   /\ records[i].op = "data" /\ records[i].key = k
                   /\ memtable'[s][k]
                        = TableEntry(records[i], records[i].txn = 0)
  <2>1. CASE mine(k) = {}
    BY <1>10, <2>1
  <2>2. CASE mine(k) # {}
    <3>1. last(k) \in mine(k) /\ memtable'[s][k] = new(k)
      BY <1>4, <1>10, <2>2
    <3>2. PICK i \in 1 .. Len(records) : last(k) = records[i]
      BY <1>1, <3>1
    <3>3. records[i].op = "data" /\ records[i].key = k
      BY <3>1, <3>2
    <3> HIDE DEF last
    <3>4. new(k) = TableEntry(records[i], records[i].txn = 0)
      BY <3>2 DEF new
    <3> QED
      BY <3>1, <3>3, <3>4
  <2> QED
    BY <2>1, <2>2
<1>12. stable_lsn' \in [Session -> Lsn]
  <2> DEFINE data == {r \in Range(records) : r.op = "data"}
             new_stable == IF data = {} THEN stable_lsn[s] ELSE NewestOf(data).lsn
  <2>1. stable_lsn' = [stable_lsn EXCEPT ![s] = new_stable]
    BY DEF Put
  <2>2. \A r \in data : r.lsn \in Lsn
    BY <1>1, <1>2
  <2>3. data # {} => NewestOf(data) \in data
    BY <2>2, NewestOfIs
  <2>4. stable_lsn \in [Session -> Lsn]
    BY DEF TypeOK
  <2>5. new_stable \in Lsn
    BY <2>2, <2>3, <2>4
  <2> HIDE DEF new_stable
  <2> QED
    BY <2>1, <2>4, <2>5
<1> DEFINE auto(k) == {r.lsn : r \in {r \in {r \in Range(records) :
                                          r.op = "data" /\ r.txn = 0} : r.key = k}}
           top(k) == LastOf({acked[k]} \cup auto(k))
<1>13. ASSUME NEW k \in Key
       PROVE  /\ top(k) \in Lsn
              /\ \/ top(k) = acked[k] \/ top(k) = 0
                 \/ \E i \in 1 .. Len(records) :
                      /\ records[i].op = "data" /\ records[i].key = k
                      /\ records[i].txn = 0 /\ records[i].lsn = top(k)
  <2>1. acked[k] \in Lsn
    BY DEF TypeOK
  <2>2. auto(k) \in SUBSET Lsn
    BY <1>1, <1>2
  <2>3. \A l \in auto(k) : \E i \in 1 .. Len(records) :
          /\ records[i].op = "data" /\ records[i].key = k
          /\ records[i].txn = 0 /\ records[i].lsn = l
    BY <1>1
  <2> HIDE DEF auto
  <2>4. top(k) \in Lsn /\ top(k) \in {acked[k]} \cup auto(k) \cup {0}
    BY <2>1, <2>2, LastOfIsGreatest
  <2> QED
    BY <2>3, <2>4
<1>14. acked' = [k \in Key |-> top(k)]
  BY DEF Put, ToLog
<1>15. open' = open /\ next_txn' = next_txn
  BY DEF Put, ToLog
<1> HIDE DEF top
<1>16. acked' \in [Key -> Lsn] /\ \A k \in Key : acked'[k] = top(k)
  BY <1>13, <1>14
<1> QED
  <2>1. Entered(s, mem, records)
    BY <1>3, <1>11, <1>13, <1>15, <1>16 DEF Entered
  <2> QED
    BY <2>1, <1>3, <1>8, <1>9, <1>12, <1>15, <1>16
-----------------------------------------------------------------------------
(* The steps of a session change nothing of another, but that a validation *)
(* of it may be raced.                                                     *)
Alone(s) ==
  \A o \in Session : o # s =>
    /\ memtable'[o] = memtable[o] /\ txn_id'[o] = txn_id[o]
    /\ read_set'[o] = read_set[o] /\ write_set'[o] = write_set[o]
    /\ journal_'[o] = journal_[o] /\ savepoint'[o] = savepoint[o]
    /\ (o \in open') <=> (o \in open)
    /\ \/ stage'[o] = stage[o]
       \/ stage[o] = "validated" /\ stage'[o] = "raced"

(* A step of a session logs some records of its transaction or of none.    *)
StepOf(s, records) ==
  /\ Alone(s) /\ Appends(records)
  /\ \A i \in 1 .. Len(records) :
       /\ records[i].txn \in {0, txn_id[s]}
       /\ records[i].op = "abort" =>
            /\ records[i].txn = txn_id[s]
            /\ txn_id[s] # 0 /\ stage'[s] = "undoing"
  /\ stage[s] = "undoing" => stage'[s] = "undoing" \/ txn_id'[s] = 0
  /\ \/ txn_id'[s] \in {0, txn_id[s]} /\ next_txn' = next_txn
     \/ txn_id[s] = 0 /\ txn_id'[s] = next_txn /\ next_txn' = next_txn + 1
  /\ 0 \notin tickets => 0 \notin tickets'
  /\ \A k \in Key :
       \/ acked'[k] \in {acked[k], 0}
       \/ \E r \in Range(wal)' :
            /\ r.op = "data" /\ r.key = k /\ r.lsn = acked'[k]
            /\ \/ r.txn = 0
               \/ /\ r.txn = txn_id[s] /\ txn_id'[s] = 0
                  /\ r.txn \notin LoggedAs("abort")'
  /\ \/ UNCHANGED <<wal, wal_lsn, disk, tickets>>
     \/ \A o \in Session : o # s => stage'[o] # "validated"

LEMMA QuietStepOf ==
  ASSUME NEW s \in Session, Alone(s), Appends(<<>>),
         stage[s] = "undoing" => stage'[s] = "undoing" \/ txn_id'[s] = 0,
         txn_id'[s] \in {0, txn_id[s]}, next_txn' = next_txn,
         UNCHANGED files, tickets' = tickets, acked' = acked
  PROVE  StepOf(s, <<>>)
BY DEF StepOf, files

LEMMA IInvAfter ==
  ASSUME IInv, TypeOK', NEW s \in Session, Alone(s), Closed(s)',
         NEW records, Appends(records),
         \A k \in Key : \/ memtable'[s][k] = memtable[s][k]
                        \/ Known(memtable[s][k], k)'
  PROVE  IInv'
<1>1. LogInv'
  BY AfterAppend DEF IInv
<1>2. ClosedInv'
  BY DEF IInv, ClosedInv, Closed, Alone
<1>3. TableInv'
  <2> SUFFICES ASSUME NEW o \in Session, NEW k \in Key
               PROVE  Known(memtable[o][k], k)'
    BY DEF TableInv
  <2>1. CASE memtable'[o][k] = memtable[o][k]
    <3>1. PICK e : e = memtable[o][k]
      OBVIOUS
    <3>2. Known(e, k)
      BY <3>1 DEF IInv, TableInv
    <3>3. Known(e, k)'
      BY <3>2, KnownAfterAppend DEF IInv
    <3> QED
      BY <2>1, <3>1, <3>3 DEF Known
  <2>2. CASE o # s
    <3>1. memtable'[o][k] = memtable[o][k]
      BY <2>2 DEF Alone
    <3> QED
      BY <2>1, <3>1
  <2> QED
    BY <2>1, <2>2
<1> QED
  BY <1>1, <1>2, <1>3 DEF IInv

LEMMA NoAppend ==
  ASSUME TypeOK, LogInv, UNCHANGED files,
         events' = events \/ (events' = events + 1 /\ Room(1))
  PROVE  Appends(<<>>) /\ CurrentLsn + events' <= MaxWork /\ events' \in 0 .. MaxWork
<1>1. CurrentLsn \in Nat /\ events \in Nat /\ NextLsn = CurrentLsn + 1
  <2>1. CurrentLsn \in Nat
    BY RecordIs
  <2>2. events \in Nat
    BY LsnIsNat DEF TypeOK
  <2>3. NextLsn = CurrentLsn + 1
    BY DEF NextLsn, CurrentLsn
  <2> QED
    BY <2>1, <2>2, <2>3
<1>2. CurrentLsn + events' <= MaxWork /\ events' \in Nat
  <2>1. CASE events' = events
    BY <1>1, <2>1 DEF LogInv
  <2>2. CASE events' = events + 1 /\ Room(1)
    BY <1>1, <2>2, LsnIsNat DEF Room
  <2> QED
    BY <2>1, <2>2
<1>3. wal \in Seq(AnyRecord) /\ wal' = wal
  BY DEF TypeOK, AnyRecord, files
<1>4. wal' = wal \o <<>>
  BY <1>3
<1>5. <<>> \in Seq(AnyRecord) /\ Len(<<>>) = 0
  OBVIOUS
<1>6. Appends(<<>>)
  BY <1>1, <1>2, <1>4, <1>5 DEF Appends, files
<1>7. events' \in 0 .. MaxWork
  <2>1. MaxWork \in Nat
    BY LsnIsNat
  <2>2. ASSUME NEW c \in Nat, NEW e \in Nat, c + e <= MaxWork
        PROVE  e \in 0 .. MaxWork
    BY <2>1, <2>2
  <2>3. CurrentLsn \in Nat
    BY <1>1
  <2> QED
    BY <1>2, <2>2, <2>3
<1> QED
  BY <1>2, <1>6, <1>7

LEMMA BeginIInv ==
  ASSUME IInv, NEW s \in Session, Begin(s)
  PROVE  IInv' /\ StepOf(s, <<>>)
<1>1. TypeOK /\ LogInv /\ Closed(s) /\ s \in open /\ stage[s] = "none"
  BY DEF IInv, ClosedInv, Begin, Idle
<1>2. /\ txn_id' = [txn_id EXCEPT ![s] = next_txn]
      /\ next_txn' = next_txn + 1 /\ next_txn <= MaxTxns
      /\ snapshot' = [snapshot EXCEPT ![s] = stable_lsn[s]]
      /\ UNCHANGED <<files, open, engine, sets, undo, stage, tickets, events,
                     acked>>
  BY DEF Begin
<1>3. next_txn \in Txn /\ next_txn # 0 /\ next_txn' \in 1 .. MaxTxns + 1
  BY <1>1, <1>2, TxnBoundsOK DEF TypeOK, Txn
<1>4. TypeOK'
  BY <1>1, <1>2, <1>3 DEF TypeOK, files, engine, sets, undo
<1>5. Alone(s) /\ txn_id'[s] = next_txn
  BY <1>1, <1>2 DEF Alone, TypeOK, files, engine, sets, undo
<1>6. Closed(s)'
  BY <1>1, <1>2, <1>3, <1>5 DEF Closed, engine, sets, undo
<1>7. Appends(<<>>)
  BY <1>1, <1>2, NoAppend
<1>8. IInv'
  BY <1>2, <1>4, <1>5, <1>6, <1>7, IInvAfter DEF engine
<1>9. StepOf(s, <<>>)
  <2>1. txn_id[s] = 0
    BY DEF Begin
  <2> QED
    BY <1>1, <1>2, <1>5, <1>7, <2>1 DEF StepOf, files
<1> QED
  BY <1>8, <1>9

LEMMA SavepointIInv ==
  ASSUME IInv, NEW s \in Session, Savepoint(s) \/ ReleaseSavepoint(s)
  PROVE  IInv' /\ StepOf(s, <<>>)
<1>1. /\ TypeOK /\ LogInv /\ Closed(s) /\ txn_id[s] # 0
      /\ stage[s] = "none"
  BY DEF IInv, ClosedInv, Savepoint, ReleaseSavepoint, Active, Idle
<1>2. /\ UNCHANGED <<files, open, engine, txn_id, snapshot, sets, journal_, stage,
                     tickets, next_txn, acked>>
      /\ events' = events \/ (events' = events + 1 /\ Room(1))
      /\ \/ savepoint' = [savepoint EXCEPT ![s] = Len(journal_[s])]
         \/ savepoint' = [savepoint EXCEPT ![s] = NoSample]
  BY DEF Savepoint, ReleaseSavepoint, bounds
<1>3. Appends(<<>>) /\ events' \in 0 .. MaxWork
  BY <1>1, <1>2, NoAppend
<1>4. Len(journal_[s]) \in Nat
  <2> DEFINE q == journal_[s]
             E == [key : Key, old : Value]
  <2>1. q \in Seq(E)
    BY <1>1 DEF TypeOK
  <2> HIDE DEF q, E
  <2>2. Len(q) \in Nat
    BY <2>1
  <2> QED
    BY <2>2 DEF q
<1>5. TypeOK'
  BY <1>1, <1>2, <1>3, <1>4 DEF TypeOK, files, engine, sets
<1>6. /\ Alone(s)
      /\ savepoint'[s] = Len(journal_[s]) \/ savepoint'[s] = NoSample
  BY <1>1, <1>2 DEF Alone, TypeOK, engine, sets
<1>7. Closed(s)'
  BY <1>1, <1>2, <1>4, <1>6 DEF Closed, engine, sets
<1>8. IInv'
  BY <1>2, <1>3, <1>5, <1>6, <1>7, IInvAfter DEF engine
<1> QED
  BY <1>1, <1>2, <1>3, <1>6, <1>8, QuietStepOf

LEMMA OpenIInv ==
  ASSUME IInv, NEW s \in Session, Open(s)
  PROVE  IInv' /\ StepOf(s, <<>>)
<1> DEFINE mem == ReplayPending(EmptyTable)
           stable == LastOf({v.lsn : v \in UNION Range(disk)})
<1>1. /\ TypeOK /\ LogInv /\ Closed(s) /\ s \notin open /\ txn_id[s] = 0
      /\ stage[s] = "none"
  BY DEF IInv, ClosedInv, Closed, Open
<1>2. /\ memtable' = [memtable EXCEPT ![s] = mem] /\ open' = open \cup {s}
      /\ stable_lsn' = [stable_lsn EXCEPT ![s] = stable]
      /\ UNCHANGED <<files, txn_id, snapshot, sets, undo, stage, tickets, bounds,
                     acked>>
  BY DEF Open
<1>3. EmptyTable \in [Key -> Entry] /\ \A k \in Key : Known(EmptyTable[k], k)
  <2>1. NoEntry \in Entry /\ NoEntry.lsn = 0 /\ wal_lsn \in Nat
    BY <1>1, LsnIsNat, TxnBoundsOK, RecordIs
    DEF NoEntry, Entry, Absent, Value, Txn
  <2>2. ~(NoEntry.lsn > wal_lsn) /\ ~(NoEntry.lsn > 0)
    BY <2>1
  <2>3. \A k \in Key : Known(NoEntry, k)
    BY <2>2 DEF Known
  <2> QED
    BY <2>1, <2>3 DEF EmptyTable
<1>4. mem \in [Key -> Entry] /\ \A k \in Key : Known(mem[k], k)
  BY <1>1, <1>3, ReplayIs, KnownAfterReplay
<1>5. stable \in Lsn
  <2>1. \A V \in Range(disk) : V \in SUBSET Version
    BY <1>1 DEF Range, TypeOK
  <2>2. {v.lsn : v \in UNION Range(disk)} \in SUBSET Lsn
    BY <2>1 DEF Version
  <2> QED
    BY <2>2, LastOfIsGreatest
<1> HIDE DEF mem, stable
<1>6. Appends(<<>>)
  BY <1>1, <1>2, NoAppend DEF bounds
<1>7. TypeOK'
  BY <1>1, <1>2, <1>4, <1>5 DEF TypeOK, files, sets, undo, bounds
<1>8. /\ Alone(s) /\ memtable'[s] = mem /\ s \in open'
  BY <1>1, <1>2 DEF Alone, TypeOK, sets, undo
<1>9. Closed(s)'
  BY <1>1, <1>2, <1>8 DEF Closed, sets, undo
<1>10. ASSUME NEW k \in Key PROVE Known(memtable[s][k], k)'
  <2>1. Known(mem[k], k)
    BY <1>4
  <2>2. Known(memtable'[s][k], k)
    BY <1>8, <2>1
  <2> QED
    BY <1>2, <2>2 DEF Known, files, LoggedAs
<1>11. IInv'
  BY <1>6, <1>7, <1>8, <1>9, <1>10, IInvAfter
<1> QED
  BY <1>1, <1>2, <1>6, <1>8, <1>11, QuietStepOf DEF bounds

(* The transactions of some sessions end.                                  *)
LEMMA EndTxnsIs ==
  ASSUME TypeOK, NEW S \in SUBSET Session, EndTxns(S)
  PROVE  /\ txn_id' \in [Session -> Txn] /\ snapshot' \in [Session -> Lsn]
         /\ read_set' \in [Session -> [Key -> Lsn \cup {NoSample}]]
         /\ write_set' \in [Session -> [Key -> Lsn \cup {NoSample}]]
         /\ journal_' \in [Session -> Seq([key : Key, old : Value])]
         /\ savepoint' \in [Session -> Nat \cup {NoSample}]
         /\ \A o \in S :
              /\ txn_id'[o] = 0 /\ snapshot'[o] = 0 /\ read_set'[o] = Unsampled
              /\ write_set'[o] = Unsampled /\ journal_'[o] = <<>>
              /\ savepoint'[o] = NoSample
         /\ \A o \in Session : o \notin S =>
              /\ txn_id'[o] = txn_id[o] /\ read_set'[o] = read_set[o]
              /\ write_set'[o] = write_set[o] /\ journal_'[o] = journal_[o]
              /\ savepoint'[o] = savepoint[o]
<1>1. ASSUME NEW f, NEW x, NEW T, f \in [Session -> T], x \in T
      PROVE  /\ Forget(f, S, x) \in [Session -> T]
             /\ \A o \in S : Forget(f, S, x)[o] = x
             /\ \A o \in Session : o \notin S => Forget(f, S, x)[o] = f[o]
  BY <1>1 DEF Forget
<1>2. /\ 0 \in Txn /\ 0 \in Lsn /\ Unsampled \in [Key -> Lsn \cup {NoSample}]
      /\ <<>> \in Seq([key : Key, old : Value])
      /\ NoSample \in Nat \cup {NoSample}
  BY TxnBoundsOK, LsnIsNat DEF Txn, Unsampled
<1>3. /\ txn_id' = Forget(txn_id, S, 0) /\ snapshot' = Forget(snapshot, S, 0)
      /\ read_set' = Forget(read_set, S, Unsampled)
      /\ write_set' = Forget(write_set, S, Unsampled)
      /\ journal_' = Forget(journal_, S, <<>>)
      /\ savepoint' = Forget(savepoint, S, NoSample)
  BY DEF EndTxns
<1>4. /\ txn_id \in [Session -> Txn] /\ snapshot \in [Session -> Lsn]
      /\ read_set \in [Session -> [Key -> Lsn \cup {NoSample}]]
      /\ write_set \in [Session -> [Key -> Lsn \cup {NoSample}]]
      /\ journal_ \in [Session -> Seq([key : Key, old : Value])]
      /\ savepoint \in [Session -> Nat \cup {NoSample}]
  BY DEF TypeOK
<1>5. /\ txn_id' \in [Session -> Txn] /\ \A o \in S : txn_id'[o] = 0
      /\ \A o \in Session : o \notin S => txn_id'[o] = txn_id[o]
  BY <1>2, <1>3, <1>4 DEF Forget
<1>6. snapshot' \in [Session -> Lsn] /\ \A o \in S : snapshot'[o] = 0
  BY <1>2, <1>3, <1>4 DEF Forget
<1>7. /\ read_set' \in [Session -> [Key -> Lsn \cup {NoSample}]]
      /\ \A o \in S : read_set'[o] = Unsampled
      /\ \A o \in Session : o \notin S => read_set'[o] = read_set[o]
  BY <1>2, <1>3, <1>4 DEF Forget
<1>8. /\ write_set' \in [Session -> [Key -> Lsn \cup {NoSample}]]
      /\ \A o \in S : write_set'[o] = Unsampled
      /\ \A o \in Session : o \notin S => write_set'[o] = write_set[o]
  BY <1>2, <1>3, <1>4 DEF Forget
<1>9. /\ journal_' \in [Session -> Seq([key : Key, old : Value])]
      /\ \A o \in S : journal_'[o] = <<>>
      /\ \A o \in Session : o \notin S => journal_'[o] = journal_[o]
  BY <1>2, <1>3, <1>4 DEF Forget
<1>10. /\ savepoint' \in [Session -> Nat \cup {NoSample}]
       /\ \A o \in S : savepoint'[o] = NoSample
       /\ \A o \in Session : o \notin S => savepoint'[o] = savepoint[o]
  BY <1>2, <1>3, <1>4 DEF Forget
<1> QED
  BY <1>5, <1>6, <1>7, <1>8, <1>9, <1>10

(* An empty memtable.                                                      *)
LEMMA EmptyTableIs ==
  /\ EmptyTable \in [Key -> Entry]
  /\ TypeOK => \A k \in Key : Known(EmptyTable[k], k)
  /\ TypeOK' => \A k \in Key : Known(EmptyTable[k], k)'
<1>1. NoEntry \in Entry /\ NoEntry.lsn = 0
  BY LsnIsNat, TxnBoundsOK DEF NoEntry, Entry, Absent, Value, Txn
<1>2. ASSUME wal_lsn \in Lsn PROVE \A k \in Key : Known(NoEntry, k)
  <2>1. ~(NoEntry.lsn > wal_lsn) /\ ~(NoEntry.lsn > 0)
    BY <1>1, <1>2, LsnIsNat
  <2> QED
    BY <2>1 DEF Known
<1>3. ASSUME wal_lsn' \in Lsn PROVE \A k \in Key : Known(NoEntry, k)'
  <2>1. ~(NoEntry.lsn > wal_lsn') /\ ~(NoEntry.lsn > 0)
    BY <1>1, <1>3, LsnIsNat
  <2> QED
    BY <2>1 DEF Known
<1>4. EmptyTable \in [Key -> Entry] /\ \A k \in Key : EmptyTable[k] = NoEntry
  BY <1>1 DEF EmptyTable
<1>5. TypeOK => \A k \in Key : Known(EmptyTable[k], k)
  <2>1. TypeOK => wal_lsn \in Lsn
    BY DEF TypeOK
  <2> QED
    BY <1>2, <1>4, <2>1
<1>6. TypeOK' => \A k \in Key : Known(EmptyTable[k], k)'
  <2>1. TypeOK' => wal_lsn' \in Lsn
    BY DEF TypeOK
  <2>2. ASSUME NEW k \in Key, Known(NoEntry, k)' PROVE Known(EmptyTable[k], k)'
    BY <1>4, <2>2 DEF Known
  <2> QED
    BY <1>3, <2>1, <2>2
<1> QED
  BY <1>4, <1>5, <1>6
LEMMA NextIs ==
  ASSUME TypeOK
  PROVE  /\ CurrentLsn \in Nat /\ events \in Nat /\ NextLsn = CurrentLsn + 1
         /\ \A n \in Nat : Room(n) => CurrentLsn + n + events <= MaxWork
<1>1. CurrentLsn \in Nat
  BY RecordIs
<1>2. events \in Nat
  BY LsnIsNat DEF TypeOK
<1>3. NextLsn = CurrentLsn + 1
  BY DEF NextLsn, CurrentLsn
<1>4. ASSUME NEW n \in Nat, Room(n) PROVE CurrentLsn + n + events <= MaxWork
  <2>1. NextLsn - 1 + events + n <= MaxWork
    BY <1>4 DEF Room
  <2> QED
    BY <1>1, <1>2, <1>3, <2>1, LsnIsNat
<1> QED
  BY <1>1, <1>2, <1>3, <1>4

LEMMA InterfereIs ==
  ASSUME TypeOK, NEW s \in Session, Interfere(s)
  PROVE  /\ stage' \in [Session -> Stage]
         /\ stage'[s] = stage[s]
         /\ \A o \in Session : o # s =>
              \/ stage'[o] = stage[o]
              \/ stage[o] = "validated" /\ stage'[o] = "raced"
BY DEF Interfere, TypeOK, Stage

(* An invariant step that logs and enters some data records.               *)
LEMMA PutIInv ==
  ASSUME IInv, TypeOK', NEW s \in Session, Interfere(s), tickets' \subseteq tickets,
         txn_id'[s] \in {0, txn_id[s]},
         NEW mem \in [Key -> Entry], NEW records \in Seq(AnyRecord),
         Entered(s, mem, records),
         \A i \in 1 .. Len(records) :
           records[i].op = "data" /\ records[i].txn \in {0, txn_id[s]},
         \A k \in Key : Known(mem[k], k), Alone(s), Closed(s)'
  PROVE  IInv' /\ StepOf(s, records)
<1>1. TypeOK /\ LogInv
  BY DEF IInv
<1>2. /\ Appends(records)
      /\ \A k \in Key :
           \/ memtable'[s][k] = mem[k]
           \/ \E i \in 1 .. Len(records) :
                /\ records[i].op = "data" /\ records[i].key = k
                /\ memtable'[s][k] = TableEntry(records[i], records[i].txn = 0)
      /\ \A k \in Key :
           \/ acked'[k] = acked[k] \/ acked'[k] = 0
           \/ \E i \in 1 .. Len(records) :
                /\ records[i].op = "data" /\ records[i].key = k
                /\ records[i].txn = 0 /\ records[i].lsn = acked'[k]
      /\ next_txn' = next_txn
  BY DEF Entered
<1>3. ASSUME NEW k \in Key PROVE Known(memtable[s][k], k)'
  <2>1. CASE memtable'[s][k] = mem[k]
    <3>1. Known(mem[k], k)'
      BY <1>1, <1>2, KnownAfterAppend
    <3> QED
      BY <2>1, <3>1 DEF Known
  <2>2. ASSUME NEW i \in 1 .. Len(records), records[i].op = "data",
               records[i].key = k,
               memtable'[s][k] = TableEntry(records[i], records[i].txn = 0)
        PROVE  Known(memtable[s][k], k)'
    <3>1. Known(TableEntry(records[i], records[i].txn = 0), k)'
      BY <1>1, <1>2, <2>2, KnownAfterAppend
    <3> QED
      BY <2>2, <3>1 DEF Known
  <2> QED
    BY <1>2, <2>1, <2>2
<1>4. IInv'
  BY <1>2, <1>3, IInvAfter
<1>5. \A i \in 1 .. Len(records) : records[i] \in Range(wal)'
  BY <1>1, <1>2, AfterAppend
<1>6. \A k \in Key :
        \/ acked'[k] \in {acked[k], 0}
        \/ \E r \in Range(wal)' : /\ r.op = "data" /\ r.key = k
                                  /\ r.lsn = acked'[k] /\ r.txn = 0
  BY <1>2, <1>5
<1>7. \A o \in Session : o # s => stage'[o] # "validated"
  BY DEF Interfere
<1>8. stage'[s] = stage[s]
  BY <1>1, InterfereIs
<1> QED
  BY <1>2, <1>4, <1>6, <1>7, <1>8 DEF StepOf

LEMMA CloseIInv ==
  ASSUME IInv, NEW s \in Session, Close(s)
  PROVE  IInv' /\ StepOf(s, <<>>)
<1>1. TypeOK /\ LogInv /\ Closed(s) /\ s \in open /\ stage[s] = "none"
  BY DEF IInv, ClosedInv, Close, Idle
<1>2. /\ Room(1) /\ events' = events + 1 /\ open' = open \ {s} /\ EndTxns({s})
      /\ memtable' = [memtable EXCEPT ![s] = EmptyTable]
      /\ stable_lsn' = [stable_lsn EXCEPT ![s] = 0]
      /\ UNCHANGED <<files, stage, tickets, next_txn, acked>>
  BY DEF Close
<1>3. Appends(<<>>) /\ events' \in 0 .. MaxWork
  BY <1>1, <1>2, NoAppend
<1>4. EmptyTable \in [Key -> Entry] /\ 0 \in Lsn
  BY EmptyTableIs, LsnIsNat
<1>5. TypeOK'
  BY <1>1, <1>2, <1>3, <1>4, EndTxnsIs DEF TypeOK, files
<1>6. memtable'[s] = EmptyTable /\ \A o \in Session : o # s => memtable'[o] = memtable[o]
  BY <1>1, <1>2 DEF TypeOK
<1>7. Alone(s)
  BY <1>1, <1>2, <1>6, EndTxnsIs DEF Alone
<1>8. /\ txn_id'[s] = 0 /\ read_set'[s] = Unsampled /\ write_set'[s] = Unsampled
      /\ journal_'[s] = <<>> /\ savepoint'[s] = NoSample
  BY <1>1, <1>2, EndTxnsIs
<1>9. Closed(s)'
  BY <1>1, <1>2, <1>6, <1>8 DEF Closed, EmptyTable, NoEntry, Unsampled, NoSample
<1>10. ASSUME NEW k \in Key PROVE Known(memtable[s][k], k)'
  <2>1. Known(EmptyTable[k], k)'
    BY <1>5, EmptyTableIs
  <2> QED
    BY <1>6, <2>1 DEF Known, EmptyTable, NoEntry
<1>11. IInv'
  BY <1>3, <1>5, <1>7, <1>9, <1>10, IInvAfter
<1> QED
  BY <1>1, <1>2, <1>3, <1>7, <1>8, <1>11, QuietStepOf

(* Looking a key up may refresh the memtable of the session.               *)
LEMMA RefreshIs ==
  ASSUME IInv, NEW s \in Session, UNCHANGED files,
         \/ memtable' = memtable
         \/ memtable' = [memtable EXCEPT ![s] = Refreshed(s)]
  PROVE  /\ memtable' \in [Session -> [Key -> Entry]]
         /\ \A o \in Session : o # s => memtable'[o] = memtable[o]
         /\ memtable'[s] = memtable[s] \/ memtable'[s] = Refreshed(s)
         /\ \A k \in Key : Known(memtable[s][k], k)'
<1>1. TypeOK /\ memtable \in [Session -> [Key -> Entry]]
  BY DEF IInv, TypeOK
<1>2. Refreshed(s) \in [Key -> Entry]
  BY <1>1, ReplayIs DEF Refreshed
<1>3. memtable'[s] = memtable[s] \/ memtable'[s] = Refreshed(s)
  BY <1>1
<1>4. ASSUME NEW k \in Key PROVE Known(memtable[s][k], k)'
  <2>1. Known(memtable[s][k], k) /\ \A j \in Key : Known(memtable[s][j], j)
    BY DEF IInv, TableInv
  <2>2. Known(Refreshed(s)[k], k)
    BY <1>1, <2>1, KnownAfterReplay DEF Refreshed
  <2>3. Known(memtable'[s][k], k)
    BY <1>3, <2>1, <2>2
  <2> QED
    BY <2>3 DEF Known, files, LoggedAs
<1> QED
  BY <1>1, <1>2, <1>3, <1>4

LEMMA ReadKeyIInv ==
  ASSUME IInv, NEW s \in Session, NEW k \in Key, ReadKey(s, k)
  PROVE  IInv' /\ StepOf(s, <<>>)
<1>1. /\ TypeOK /\ LogInv /\ Closed(s) /\ s \in open /\ txn_id[s] # 0
      /\ stage[s] = "none"
  BY DEF IInv, ClosedInv, ReadKey, Active, Idle
<1>2. /\ read_set' = [read_set EXCEPT ![s][k] = ReadSample(s, k)]
      /\ \/ memtable' = memtable
         \/ memtable' = [memtable EXCEPT ![s] = Refreshed(s)]
      /\ UNCHANGED <<files, open, stable_lsn, txn_id, snapshot, write_set, undo,
                     stage, tickets, bounds, acked>>
  BY DEF ReadKey
<1>3. ReadSample(s, k) \in Lsn
  BY SampleType
<1>4. Appends(<<>>)
  BY <1>1, <1>2, NoAppend DEF bounds
<1>5. UNCHANGED files
  BY <1>2
<1>6. /\ memtable' \in [Session -> [Key -> Entry]]
      /\ \A o \in Session : o # s => memtable'[o] = memtable[o]
      /\ \A j \in Key : Known(memtable[s][j], j)'
  BY <1>2, <1>5, RefreshIs
<1>7. TypeOK'
  BY <1>1, <1>2, <1>3, <1>6 DEF TypeOK, files, undo, bounds
<1>8. Alone(s)
  BY <1>1, <1>2, <1>6 DEF Alone, TypeOK, undo
<1>9. Closed(s)'
  BY <1>1, <1>2 DEF Closed, undo
<1>10. IInv'
  BY <1>4, <1>6, <1>7, <1>8, <1>9, IInvAfter
<1> QED
  BY <1>1, <1>2, <1>4, <1>8, <1>10, QuietStepOf DEF bounds

LEMMA ScanIInv ==
  ASSUME IInv, NEW s \in Session, Scan(s)
  PROVE  IInv' /\ StepOf(s, <<>>)
<1> DEFINE row(k) == ResolveAtSnapshot(memtable[s], k, txn_id[s], snapshot[s])
                       # Absent
           rows == {k \in Key : row(k)}
           reads == [k \in Key |-> IF k \in rows THEN Sample(s, k)
                                   ELSE read_set[s][k]]
<1>1. /\ TypeOK /\ LogInv /\ Closed(s) /\ s \in open /\ txn_id[s] # 0
      /\ stage[s] = "none"
  BY DEF IInv, ClosedInv, Scan, Active, Idle
<1>2. /\ Room(1) /\ events' = events + 1
      /\ read_set' = [read_set EXCEPT ![s] = reads]
      /\ tickets' = tickets \cup {txn_id[s]} /\ Interfere(s)
      /\ UNCHANGED <<files, open, engine, txn_id, snapshot, write_set, undo,
                     next_txn, acked>>
  BY DEF Scan
<1>3. reads \in [Key -> Lsn \cup {NoSample}]
  <2>1. read_set[s] \in [Key -> Lsn \cup {NoSample}]
    BY <1>1 DEF TypeOK
  <2>2. \A k \in Key : Sample(s, k) \in Lsn
    BY SampleType
  <2> HIDE DEF rows
  <2> QED
    BY <2>1, <2>2
<1> HIDE DEF reads
<1>4. Appends(<<>>) /\ events' \in 0 .. MaxWork
  BY <1>1, <1>2, NoAppend
<1>5. TypeOK'
  <2>1. read_set' \in [Session -> [Key -> Lsn \cup {NoSample}]]
    BY <1>1, <1>2, <1>3 DEF TypeOK
  <2>2. tickets' \subseteq Txn
    BY <1>1, <1>2 DEF TypeOK
  <2> QED
    BY <1>1, <1>2, <1>4, <2>1, <2>2, InterfereIs DEF TypeOK, files, engine, undo
<1>6. Alone(s) /\ stage'[s] = "none"
  <2>1. \A o \in Session : o # s => read_set'[o] = read_set[o]
    BY <1>1, <1>2 DEF TypeOK
  <2> QED
    BY <1>1, <1>2, <2>1, InterfereIs DEF Alone, engine, undo
<1>7. Closed(s)'
  BY <1>1, <1>2, <1>6 DEF Closed, engine, undo
<1>8. IInv'
  BY <1>2, <1>4, <1>5, <1>6, <1>7, IInvAfter DEF engine
<1>9. \A o \in Session : o # s => stage'[o] # "validated"
  BY <1>2 DEF Interfere
<1> QED
  BY <1>1, <1>2, <1>4, <1>6, <1>8, <1>9 DEF StepOf

LEMMA ValidateIInv ==
  ASSUME IInv, NEW s \in Session, ValidateCommitOCC(s)
  PROVE  IInv' /\ StepOf(s, <<>>)
<1>1. /\ TypeOK /\ LogInv /\ Closed(s) /\ s \in open /\ txn_id[s] # 0
      /\ stage[s] = "none"
  BY DEF IInv, ClosedInv, ValidateCommitOCC, Active, Idle
<1>2. /\ memtable' = [memtable EXCEPT ![s] = Refreshed(s)]
      /\ \/ stage' = [stage EXCEPT ![s] = "validated"]
         \/ stage' = [stage EXCEPT ![s] = "none"]
      /\ UNCHANGED <<files, open, stable_lsn, txn_id, snapshot, sets, undo,
                     tickets, bounds, acked>>
  BY DEF ValidateCommitOCC
<1>3. Appends(<<>>)
  BY <1>1, <1>2, NoAppend DEF bounds
<1>4. UNCHANGED files
  BY <1>2
<1>5. /\ memtable' \in [Session -> [Key -> Entry]]
      /\ \A o \in Session : o # s => memtable'[o] = memtable[o]
      /\ \A j \in Key : Known(memtable[s][j], j)'
  BY <1>2, <1>4, RefreshIs
<1>6. TypeOK'
  BY <1>1, <1>2, <1>5 DEF TypeOK, Stage, files, sets, undo, bounds
<1>7. Alone(s) /\ stage'[s] \in {"none", "validated"}
  BY <1>1, <1>2, <1>5 DEF Alone, TypeOK, sets, undo
<1>8. Closed(s)'
  BY <1>1, <1>2, <1>7 DEF Closed, sets, undo
<1>9. IInv'
  BY <1>3, <1>5, <1>6, <1>7, <1>8, IInvAfter
<1> QED
  BY <1>1, <1>2, <1>3, <1>7, <1>9, QuietStepOf DEF bounds
(* One more record at the end of the log.                                  *)
LEMMA OneMore ==
  ASSUME TypeOK, NEW d \in AnyRecord, d.lsn = CurrentLsn + 1,
         wal' = Append(wal, d), UNCHANGED <<wal_lsn, disk>>,
         CurrentLsn + 1 + events' <= MaxWork
  PROVE  Appends(<<d>>)
<1>1. wal \in Seq(AnyRecord)
  BY DEF TypeOK, AnyRecord
<1>2. wal' = wal \o <<d>>
  BY <1>1
<1>3. /\ <<d>> \in Seq(AnyRecord) /\ Len(<<d>>) = 1
      /\ \A i \in 1 .. 1 : <<d>>[i].lsn = CurrentLsn + i
  OBVIOUS
<1> QED
  BY <1>2, <1>3 DEF Appends

(* A commit or abort record.                                               *)
LEMMA ControlIs ==
  ASSUME TypeOK, LogInv, NEW s \in Session, NEW op \in {"commit", "abort"},
         wal' = Append(wal, Control(op, txn_id[s])),
         UNCHANGED <<wal_lsn, disk>>,
         \/ Room(1) /\ events' = events
         \/ Room(2) /\ events' = events + 1
  PROVE  /\ Appends(<<Control(op, txn_id[s])>>)
         /\ events' \in 0 .. MaxWork
         /\ LoggedAs(op)' = LoggedAs(op) \cup {txn_id[s]}
         /\ \A p : p # op => LoggedAs(p)' = LoggedAs(p)
         /\ \A i \in 1 .. Len(<<Control(op, txn_id[s])>>) :
              /\ <<Control(op, txn_id[s])>>[i].op = op
              /\ <<Control(op, txn_id[s])>>[i].txn = txn_id[s]
<1> DEFINE c == Control(op, txn_id[s])
<1>1. /\ CurrentLsn \in Nat /\ events \in Nat /\ NextLsn = CurrentLsn + 1
      /\ CurrentLsn + 1 + events' <= MaxWork /\ events' \in Nat
  <2>1. CurrentLsn \in Nat /\ events \in Nat /\ NextLsn = CurrentLsn + 1
    BY NextIs
  <2>2. CASE Room(1) /\ events' = events
    BY <2>1, <2>2, NextIs
  <2>3. CASE Room(2) /\ events' = events + 1
    <3>1. CurrentLsn + 2 + events <= MaxWork
      BY <2>3, NextIs
    <3> QED
      BY <2>1, <2>3, <3>1, LsnIsNat
  <2> QED
    BY <2>1, <2>2, <2>3
<1>2. NextLsn \in Lsn /\ events' \in 0 .. MaxWork
  <2>1. ASSUME NEW a \in Nat, NEW e \in Nat, a + 1 + e <= MaxWork
        PROVE  a + 1 \in 0 .. MaxWork /\ e \in 0 .. MaxWork
    BY <2>1, LsnIsNat
  <2>2. CurrentLsn + 1 \in 0 .. MaxWork /\ events' \in 0 .. MaxWork
    BY <1>1, <2>1
  <2> QED
    BY <1>1, <2>2 DEF Lsn
<1>3. /\ c \in AnyRecord /\ c.lsn = CurrentLsn + 1 /\ c.op = op
      /\ c.txn = txn_id[s]
  BY <1>1, <1>2 DEF TypeOK, AnyRecord, ControlRecord, Control
<1> HIDE DEF c
<1>4. Appends(<<c>>)
  BY <1>1, <1>3, OneMore DEF c
<1>5. /\ \A r \in Range(wal) : r \in Range(wal)'
      /\ c \in Range(wal)'
      /\ \A r \in Range(wal)' : r \in Range(wal) \/ r = c
  <2>1. PICK q : q = <<c>>
    OBVIOUS
  <2>2. Len(q) = 1 /\ q[1] = c /\ Appends(q) /\ \A i \in 1 .. Len(q) : q[i] = c
    BY <1>4, <2>1
  <2>3. 1 \in 1 .. Len(q)
    BY <2>2
  <2> HIDE <2>1
  <2> QED
    BY <2>2, <2>3, AfterAppend
<1>6. LoggedAs(op)' = LoggedAs(op) \cup {txn_id[s]}
  BY <1>3, <1>5 DEF LoggedAs
<1>7. \A p : p # op => LoggedAs(p)' = LoggedAs(p)
  BY <1>3, <1>5 DEF LoggedAs
<1>8. \A i \in 1 .. Len(<<c>>) : <<c>>[i].op = op /\ <<c>>[i].txn = txn_id[s]
  BY <1>3
<1> QED
  BY <1>2, <1>4, <1>6, <1>7, <1>8 DEF c

LEMMA CommitFailsIInv ==
  ASSUME IInv, NEW s \in Session, CommitFails(s)
  PROVE  /\ IInv'
         /\ \E records : /\ StepOf(s, records)
                         /\ \A i \in 1 .. Len(records) : records[i].op # "data"
<1>1. /\ TypeOK /\ LogInv /\ Closed(s) /\ s \in open
      /\ stage[s] \in {"validated", "raced"}
  BY DEF IInv, ClosedInv, CommitFails, Commits
<1>2. /\ Room(1) /\ events' = events + 1
      /\ UNCHANGED <<wal_lsn, disk, open, engine, txn_id, snapshot, sets, undo,
                     tickets, next_txn, acked>>
      /\ \/ UNCHANGED wal /\ stage' = [stage EXCEPT ![s] = "none"]
         \/ /\ Room(2) /\ wal' = Append(wal, Control("commit", txn_id[s]))
            /\ stage' = OthersInterfered(s)
  BY DEF CommitFails
<1>3. \E records :
        /\ Appends(records) /\ events' \in 0 .. MaxWork
        /\ \A i \in 1 .. Len(records) : /\ records[i].op = "commit"
                                        /\ records[i].txn = txn_id[s]
        /\ UNCHANGED wal \/ \A o \in Session : o # s => stage'[o] # "validated"
  <2>1. CASE UNCHANGED wal
    <3>1. Appends(<<>>) /\ events' \in 0 .. MaxWork
      BY <1>1, <1>2, <2>1, NoAppend DEF files
    <3>2. \A i \in 1 .. Len(<<>>) : FALSE
      OBVIOUS
    <3> QED
      BY <2>1, <3>1, <3>2
  <2>2. CASE /\ Room(2) /\ wal' = Append(wal, Control("commit", txn_id[s]))
             /\ stage' = OthersInterfered(s)
    <3>1. \A o \in Session : o # s => stage'[o] # "validated"
      BY <2>2 DEF OthersInterfered
    <3> QED
      BY <1>1, <1>2, <2>2, <3>1, ControlIs
  <2> QED
    BY <1>2, <2>1, <2>2
<1>4. PICK records :
        /\ Appends(records) /\ events' \in 0 .. MaxWork
        /\ \A i \in 1 .. Len(records) : /\ records[i].op = "commit"
                                        /\ records[i].txn = txn_id[s]
        /\ UNCHANGED wal \/ \A o \in Session : o # s => stage'[o] # "validated"
  BY <1>3
<1>5. /\ stage' \in [Session -> Stage]
      /\ stage'[s] = "none"
      /\ \A o \in Session : o # s =>
           \/ stage'[o] = stage[o]
           \/ stage[o] = "validated" /\ stage'[o] = "raced"
  BY <1>1, <1>2 DEF TypeOK, OthersInterfered, Stage
<1>6. wal' \in Seq(DataRecord \cup ControlRecord)
  BY <1>1, <1>4, AfterAppend DEF AnyRecord
<1>7. TypeOK'
  BY <1>1, <1>2, <1>4, <1>5, <1>6 DEF TypeOK, engine, sets, undo
<1>8. Alone(s)
  BY <1>2, <1>5 DEF Alone, engine, sets, undo
<1>9. Closed(s)'
  BY <1>1, <1>2, <1>5 DEF Closed, engine, sets, undo
<1>10. IInv'
  BY <1>2, <1>4, <1>7, <1>8, <1>9, IInvAfter DEF engine
<1>11. StepOf(s, records)
  BY <1>1, <1>2, <1>4, <1>8 DEF StepOf
<1> QED
  BY <1>4, <1>10, <1>11

LEMMA CommitIInv ==
  ASSUME IInv, NEW s \in Session, Commit(s)
  PROVE  IInv' /\ StepOf(s, <<Control("commit", txn_id[s])>>)
<1> DEFINE t == txn_id[s]
           mem == PromoteTxn(memtable[s], t)
           written(k) == {r.lsn : r \in {r \in DataOf(k) : r.txn = t}}
           top(k) == LastOf({acked[k]} \cup written(k))
<1>1. TypeOK /\ LogInv /\ Closed(s) /\ s \in open
  BY DEF IInv, ClosedInv, Commit, Commits
<1>2. /\ Room(1) /\ wal' = Append(wal, Control("commit", t))
      /\ memtable' = [memtable EXCEPT ![s] = mem]
      /\ tickets' = tickets \ {t} /\ stage' = OthersInterfered(s) /\ EndTxns({s})
      /\ acked' = [k \in Key |-> top(k)]
      /\ UNCHANGED <<wal_lsn, disk, open, stable_lsn, bounds>>
  BY DEF Commit
<1>3. events' = events /\ next_txn' = next_txn
  BY <1>2 DEF bounds
<1>4. /\ Appends(<<Control("commit", t)>>) /\ t \in LoggedAs("commit")'
  <2>1. "commit" \in {"commit", "abort"} /\ UNCHANGED <<wal_lsn, disk>>
    BY <1>2
  <2>2. LoggedAs("commit")' = LoggedAs("commit") \cup {t}
        /\ Appends(<<Control("commit", t)>>)
    BY <1>1, <1>2, <1>3, <2>1, ControlIs, Zenon
  <2> QED
    BY <2>2
<1>5. \A k \in Key : top(k) \in Lsn
  <2> SUFFICES ASSUME NEW k \in Key PROVE top(k) \in Lsn
    OBVIOUS
  <2>1. acked[k] \in Lsn
    BY <1>1 DEF TypeOK
  <2>2. \A l \in written(k) : \E r \in DataOf(k) : l = r.lsn
    OBVIOUS
  <2> HIDE DEF written
  <2>3. {acked[k]} \cup written(k) \in SUBSET Lsn
    BY <1>1, <2>1, <2>2, DataOfIs
  <2> QED
    BY <2>3, LastOfIsGreatest
<1>6. memtable[s] \in [Key -> Entry]
  BY <1>1 DEF TypeOK
<1>7. \A k \in Key :
        mem[k] = IF memtable[s][k].txn = t
                 THEN [memtable[s][k] EXCEPT !.durable = TRUE]
                 ELSE memtable[s][k]
  BY DEF PromoteTxn
<1>8. mem \in [Key -> Entry]
  <2>1. \A e \in Entry : [e EXCEPT !.durable = TRUE] \in Entry
    BY DEF Entry
  <2> QED
    BY <1>6, <2>1 DEF PromoteTxn
<1>9. acked' \in [Key -> Lsn]
  <2> HIDE DEF top
  <2> QED
    BY <1>2, <1>5
<1> HIDE DEF mem, top
<1>10. /\ stage' \in [Session -> Stage]
       /\ stage'[s] = "none"
       /\ \A o \in Session : o # s =>
            \/ stage'[o] = stage[o]
            \/ stage[o] = "validated" /\ stage'[o] = "raced"
  BY <1>1, <1>2 DEF TypeOK, OthersInterfered, Stage
<1>11. wal' \in Seq(DataRecord \cup ControlRecord)
  BY <1>1, <1>4, AfterAppend DEF AnyRecord
<1>12. /\ memtable' \in [Session -> [Key -> Entry]] /\ memtable'[s] = mem
       /\ \A o \in Session : o # s => memtable'[o] = memtable[o]
  BY <1>1, <1>2, <1>8 DEF TypeOK
<1>13. TypeOK'
  <2>1. /\ txn_id' \in [Session -> Txn] /\ snapshot' \in [Session -> Lsn]
        /\ read_set' \in [Session -> [Key -> Lsn \cup {NoSample}]]
        /\ write_set' \in [Session -> [Key -> Lsn \cup {NoSample}]]
        /\ journal_' \in [Session -> Seq([key : Key, old : Value])]
        /\ savepoint' \in [Session -> Nat \cup {NoSample}]
    BY <1>1, <1>2, EndTxnsIs
  <2>2. tickets' \subseteq Txn
    BY <1>1, <1>2 DEF TypeOK
  <2> QED
    BY <1>1, <1>2, <1>3, <1>9, <1>10, <1>11, <1>12, <2>1, <2>2 DEF TypeOK
<1>14. Alone(s)
  BY <1>1, <1>2, <1>10, <1>12, EndTxnsIs DEF Alone
<1>15. /\ txn_id'[s] = 0 /\ read_set'[s] = Unsampled /\ write_set'[s] = Unsampled
       /\ journal_'[s] = <<>> /\ savepoint'[s] = NoSample
  BY <1>1, <1>2, EndTxnsIs
<1>16. Closed(s)'
  BY <1>1, <1>2, <1>10, <1>15 DEF Closed
<1>17. ASSUME NEW k \in Key PROVE Known(memtable[s][k], k)'
  <2>0. PICK e : e = memtable[s][k]
    OBVIOUS
  <2>1. Known(e, k) /\ e \in Entry
    BY <1>6, <2>0 DEF IInv, TableInv
  <2>2. Known(e, k)'
    BY <1>1, <1>4, <2>1, KnownAfterAppend
  <2>3. CASE e.txn = t
    <3>1. PICK d : d = [e EXCEPT !.durable = TRUE]
      OBVIOUS
    <3>2. memtable'[s][k] = d
      BY <1>7, <1>12, <2>0, <2>3, <3>1
    <3>3. d.lsn = e.lsn /\ d.txn = e.txn
      BY <2>1, <3>1 DEF Entry
    <3>4. e.txn \in LoggedAs("commit")'
      BY <1>4, <2>3
    <3>5. Known(d, k)'
      BY <2>2, <3>3, <3>4 DEF Known
    <3> QED
      BY <3>2, <3>5 DEF Known
  <2>4. CASE e.txn # t
    <3>1. memtable'[s][k] = e
      BY <1>7, <1>12, <2>0, <2>4
    <3> QED
      BY <2>2, <3>1 DEF Known
  <2> QED
    BY <2>3, <2>4
<1>18. IInv'
  BY <1>4, <1>13, <1>14, <1>16, <1>17, IInvAfter
<1>19. ASSUME NEW k \in Key
       PROVE  \/ acked'[k] \in {acked[k], 0}
              \/ \E r \in Range(wal)' :
                   /\ r.op = "data" /\ r.key = k /\ r.lsn = acked'[k]
                   /\ r.txn = t /\ r.txn \notin LoggedAs("abort")'
  <2>1. acked'[k] = top(k)
    BY <1>2
  <2>2. acked[k] \in Lsn
    BY <1>1 DEF TypeOK
  <2>3. \A l \in written(k) : \E r \in DataOf(k) : l = r.lsn /\ r.txn = t
    OBVIOUS
  <2> HIDE DEF written
  <2>4. {acked[k]} \cup written(k) \in SUBSET Lsn
    BY <1>1, <2>2, <2>3, DataOfIs
  <2>5. top(k) \in {acked[k]} \cup written(k) \cup {0}
    BY <2>4, LastOfIsGreatest DEF top
  <2>6. CASE top(k) \in written(k)
    <3>1. PICK r \in DataOf(k) : top(k) = r.lsn /\ r.txn = t
      BY <2>3, <2>6
    <3>2. /\ r \in Range(wal) /\ r.op = "data" /\ r.key = k
          /\ r.txn \notin LoggedAs("abort")
      BY <1>1, DataOfIs
    <3>3. r \in Range(wal)'
      BY <1>1, <1>4, <3>2, AfterAppend
    <3>4. LoggedAs("abort")' = LoggedAs("abort")
      BY <1>1, <1>2, <1>3, ControlIs
    <3> QED
      BY <2>1, <3>1, <3>2, <3>3, <3>4
  <2> QED
    BY <2>1, <2>5, <2>6
<1>20. \A o \in Session : o # s => stage'[o] # "validated"
  BY <1>2 DEF OthersInterfered
<1>21. \A i \in 1 .. Len(<<Control("commit", t)>>) :
         /\ <<Control("commit", t)>>[i].op = "commit"
         /\ <<Control("commit", t)>>[i].txn = t
  BY <1>1, <1>2, <1>3, ControlIs
<1>22. 0 \notin tickets => 0 \notin tickets'
  BY <1>2
<1> QED
  BY <1>3, <1>4, <1>14, <1>15, <1>18, <1>19, <1>20, <1>21, <1>22 DEF StepOf

LEMMA RestartIInv ==
  ASSUME IInv, Restart
  PROVE  IInv'
<1>1. TypeOK /\ LogInv
  BY DEF IInv
<1>2. /\ Room(1) /\ events' = events + 1
      /\ open' = {} /\ tickets' = {} /\ next_txn' = 1 /\ EndTxns(Session)
      /\ memtable' = [s \in Session |-> EmptyTable]
      /\ stable_lsn' = [s \in Session |-> 0]
      /\ stage' = [s \in Session |-> "none"]
      /\ UNCHANGED <<wal_lsn, disk, acked>>
      /\ \E n \in 0 .. Len(wal) : wal' = SubSeq(wal, 1, n)
  BY DEF Restart
<1>3. /\ wal' \in Seq(AnyRecord) /\ Len(wal') \in Nat /\ Len(wal') <= Len(wal)
      /\ \A i \in 1 .. Len(wal') : i \in 1 .. Len(wal) /\ wal'[i] = wal[i]
  <2>1. PICK n \in 0 .. Len(wal) : wal' = SubSeq(wal, 1, n)
    BY <1>2
  <2>2. wal \in Seq(AnyRecord)
    BY <1>1 DEF TypeOK, AnyRecord
  <2> QED
    BY <2>1, <2>2
<1>11. /\ CurrentLsn \in Nat /\ events \in Nat /\ events' \in 0 .. MaxWork
       /\ CurrentLsn + events' <= MaxWork
  <2>1. /\ CurrentLsn \in Nat /\ events \in Nat
        /\ CurrentLsn + 1 + events <= MaxWork
    BY <1>1, <1>2, NextIs
  <2> QED
    BY <1>2, <2>1, LsnIsNat
<1>4. EmptyTable \in [Key -> Entry] /\ 0 \in Lsn /\ 1 \in 1 .. MaxTxns + 1
  BY EmptyTableIs, LsnIsNat, TxnBoundsOK
<1>5. TypeOK'
  BY <1>1, <1>2, <1>3, <1>4, <1>11, EndTxnsIs DEF TypeOK, AnyRecord, Stage
<1>6. LogInv'
  <2>1. wal_lsn \in Nat /\ Len(wal) \in Nat
    BY <1>1, RecordIs
  <2>2. CurrentLsn' \in Nat /\ CurrentLsn' <= CurrentLsn
    BY <1>2, <1>3, <2>1 DEF CurrentLsn
  <2>3. CurrentLsn' + events' <= MaxWork
    <3>1. ASSUME NEW a \in Nat, NEW b \in Nat, NEW c \in Nat, a <= b, b + c <= MaxWork
          PROVE  a + c <= MaxWork
      BY <3>1, LsnIsNat
    <3>2. events' \in Nat
      BY <1>11
    <3> QED
      BY <1>11, <2>2, <3>1, <3>2
  <2>4. \A i \in 1 .. Len(wal') : wal'[i].lsn = wal_lsn' + i
    BY <1>1, <1>2, <1>3 DEF LogInv
  <2>5. \A k \in Key : \A v \in disk'[k] : v.lsn <= wal_lsn'
    BY <1>1, <1>2 DEF LogInv
  <2> QED
    BY <2>3, <2>4, <2>5 DEF LogInv
<1>7. ASSUME NEW s \in Session
      PROVE  /\ txn_id'[s] = 0 /\ read_set'[s] = Unsampled
             /\ write_set'[s] = Unsampled /\ journal_'[s] = <<>>
             /\ savepoint'[s] = NoSample
             /\ stage'[s] = "none" /\ memtable'[s] = EmptyTable
  BY <1>1, <1>2, EndTxnsIs
<1>8. ClosedInv'
  BY <1>2, <1>7 DEF ClosedInv, Closed, EmptyTable, NoEntry, Unsampled, NoSample
<1>9. ASSUME NEW s \in Session, NEW k \in Key PROVE Known(memtable[s][k], k)'
  <2>1. Known(EmptyTable[k], k)'
    BY <1>5, EmptyTableIs
  <2>2. memtable'[s] = EmptyTable
    BY <1>7
  <2> QED
    BY <2>1, <2>2 DEF Known, EmptyTable, NoEntry
<1>10. TableInv'
  BY <1>9 DEF TableInv
<1> QED
  BY <1>5, <1>6, <1>8, <1>10 DEF IInv
LEMMA CheckpointIInv ==
  ASSUME IInv, NEW s \in Session, Checkpoint(s)
  PROVE  IInv'
<1> DEFINE e(k) == memtable[s][k]
           flushed(k) == IF e(k).lsn = 0 THEN {}
                         ELSE {[lsn |-> e(k).lsn, val |-> e(k).val]}
           lsns == {stable_lsn[s]} \cup {e(k).lsn : k \in Key}
<1>1. /\ TypeOK /\ LogInv /\ Closed(s) /\ s \in open /\ stage[s] = "none"
      /\ open = {s}
  BY DEF IInv, ClosedInv, Checkpoint, Idle
<1>2. /\ disk' = [k \in Key |-> disk[k] \cup flushed(k)]
      /\ wal' = <<>> /\ wal_lsn' = NextLsn - 1
      /\ memtable' = [memtable EXCEPT ![s] = EmptyTable]
      /\ stable_lsn' = [stable_lsn EXCEPT ![s] = LastOf(lsns)]
      /\ UNCHANGED <<open, txn_id, snapshot, sets, undo, stage, tickets, bounds,
                     acked>>
  BY DEF Checkpoint
<1>3. \A k \in Key : e(k) \in Entry
  BY <1>1 DEF TypeOK
<1>4. /\ wal_lsn' = CurrentLsn /\ CurrentLsn \in Lsn
      /\ CurrentLsn + events <= MaxWork /\ events' = events
  <2>1. CurrentLsn \in Nat /\ events \in Nat /\ NextLsn = CurrentLsn + 1
    BY <1>1, NextIs
  <2>2. CurrentLsn + events <= MaxWork
    BY <1>1 DEF LogInv
  <2> QED
    BY <1>2, <2>1, <2>2, LsnIsNat DEF bounds, Lsn
<1>5. ASSUME NEW k \in Key PROVE e(k).lsn <= CurrentLsn /\ e(k).lsn \in Lsn
  <2>1. Known(e(k), k) /\ e(k).lsn \in Lsn
    BY <1>3 DEF IInv, TableInv, Entry
  <2>2. e(k).lsn \in Nat /\ wal_lsn \in Nat /\ wal_lsn <= CurrentLsn
    BY <1>1, <2>1, LsnIsNat, RecordIs DEF CurrentLsn
  <2> HIDE DEF e
  <2>3. CASE e(k).lsn <= wal_lsn
    BY <1>4, <2>1, <2>2, <2>3, LsnIsNat
  <2>4. CASE e(k).lsn > wal_lsn
    <3>1. PICK r \in Range(wal) : r.lsn = e(k).lsn
      BY <2>1, <2>4 DEF Known
    <3> QED
      BY <1>1, <2>1, <3>1, LsnsAreUnique
  <2> QED
    BY <2>2, <2>3, <2>4
<1>6. \A k \in Key : /\ flushed(k) \in SUBSET Version
                     /\ \A v \in flushed(k) : v.lsn <= CurrentLsn
  <2> SUFFICES ASSUME NEW k \in Key
               PROVE  /\ flushed(k) \in SUBSET Version
                      /\ \A v \in flushed(k) : v.lsn <= CurrentLsn
    OBVIOUS
  <2>1. e(k).val \in Value /\ e(k).lsn \in Lsn /\ e(k).lsn <= CurrentLsn
    BY <1>3, <1>5 DEF Entry
  <2> HIDE DEF e
  <2> QED
    BY <2>1 DEF Version
<1>7. LastOf(lsns) \in Lsn
  <2>1. stable_lsn[s] \in Lsn
    BY <1>1 DEF TypeOK
  <2>2. lsns \in SUBSET Lsn
    BY <1>5, <2>1
  <2> QED
    BY <2>2, LastOfIsGreatest
<1> HIDE DEF flushed, lsns
<1>8. disk' \in [Key -> SUBSET Version]
  <2>1. \A k \in Key : disk[k] \in SUBSET Version
    BY <1>1 DEF TypeOK
  <2>2. \A k \in Key : disk[k] \cup flushed(k) \in SUBSET Version
    BY <1>6, <2>1
  <2> QED
    BY <1>2, <2>2
<1>9. EmptyTable \in [Key -> Entry]
  BY EmptyTableIs
<1>10. memtable' \in [Session -> [Key -> Entry]] /\ memtable'[s] = EmptyTable
       /\ \A o \in Session : o # s => memtable'[o] = memtable[o]
  BY <1>1, <1>2, <1>9 DEF TypeOK
<1>11. TypeOK'
  <2>1. stable_lsn' \in [Session -> Lsn]
    BY <1>1, <1>2, <1>7 DEF TypeOK
  <2>2. wal' \in Seq(DataRecord \cup ControlRecord) /\ wal_lsn' \in Lsn
    BY <1>2, <1>4
  <2> QED
    BY <1>1, <1>2, <1>8, <1>10, <2>1, <2>2 DEF TypeOK, sets, undo, bounds
<1>12. LogInv'
  <2>1. Len(wal') = 0 /\ CurrentLsn' = CurrentLsn
    BY <1>2, <1>4, LsnIsNat DEF CurrentLsn
  <2>2. CurrentLsn' + events' <= MaxWork
    BY <1>4, <2>1
  <2>3. ASSUME NEW k \in Key, NEW v \in disk'[k] PROVE v.lsn <= wal_lsn'
    <3>1. CASE v \in disk[k]
      <4>1. v.lsn <= wal_lsn /\ v.lsn \in Lsn
        BY <1>1, <3>1 DEF LogInv, TypeOK, Version
      <4>2. wal_lsn \in Nat /\ wal_lsn <= CurrentLsn
        BY <1>1, RecordIs DEF CurrentLsn
      <4> QED
        BY <1>4, <4>1, <4>2, LsnIsNat
    <3>2. CASE v \in flushed(k)
      BY <1>4, <1>6, <3>2
    <3> QED
      BY <1>2, <2>3, <3>1, <3>2
  <2> QED
    BY <2>1, <2>2, <2>3 DEF LogInv
<1>13. ClosedInv'
  <2> SUFFICES ASSUME NEW o \in Session PROVE Closed(o)'
    BY DEF ClosedInv
  <2>1. Closed(o)
    BY DEF IInv, ClosedInv
  <2>2. CASE o = s
    BY <1>1, <1>2, <2>1, <2>2 DEF Closed, sets, undo
  <2>3. CASE o # s
    BY <1>2, <1>10, <2>1, <2>3 DEF Closed, sets, undo, EmptyTable, NoEntry
  <2> QED
    BY <2>2, <2>3
<1>14. ASSUME NEW o \in Session, NEW k \in Key PROVE Known(memtable[o][k], k)'
  <2>1. Closed(o)
    BY DEF IInv, ClosedInv
  <2>2. memtable'[o] = EmptyTable
    BY <1>1, <1>10, <2>1 DEF Closed
  <2>3. Known(EmptyTable[k], k)'
    BY <1>11, EmptyTableIs
  <2> QED
    BY <2>2, <2>3 DEF Known, EmptyTable, NoEntry
<1>15. TableInv'
  BY <1>14 DEF TableInv
<1> QED
  BY <1>11, <1>12, <1>13, <1>15 DEF IInv

LEMMA InitIInv == Init => IInv
<1> SUFFICES ASSUME Init PROVE IInv
  OBVIOUS
<1>1. /\ 1 \in Lsn /\ 0 \in Lsn /\ MaxWork \in Nat /\ MaxWork > 0
      /\ 0 \in Txn /\ 1 \in 1 .. MaxTxns + 1
  BY TxnBoundsOK DEF Lsn, Txn
<1>2. PICK loaded \in {{}} \cup {{k} : k \in Key} :
        /\ disk = [k \in Key |-> IF k \in loaded THEN {[lsn |-> 1, val |-> 1]}
                                 ELSE {}]
        /\ wal_lsn = Cardinality(loaded)
  BY DEF Init
<1>3. wal_lsn = 0 \/ wal_lsn = 1
  BY <1>2, FS_EmptySet, FS_Singleton
<1>4. loaded # {} => wal_lsn = 1
  BY <1>2, FS_Singleton
<1>5. [lsn |-> 1, val |-> 1] \in Version
  BY <1>1 DEF Version, Value
<1>6. disk \in [Key -> SUBSET Version]
  BY <1>2, <1>5
<1>7. \A k \in Key : \A v \in disk[k] : v.lsn <= wal_lsn
  BY <1>2, <1>4
<1>8. EmptyTable \in [Key -> Entry]
  BY EmptyTableIs
<1>9. Unsampled \in [Key -> Lsn \cup {NoSample}]
  BY DEF Unsampled
<1>10. /\ wal = <<>> /\ open = Session /\ tickets = {} /\ next_txn = 1 /\ events = 0
       /\ memtable = [s \in Session |-> EmptyTable]
       /\ stable_lsn = [s \in Session |-> wal_lsn]
       /\ txn_id = [s \in Session |-> 0] /\ snapshot = [s \in Session |-> 0]
       /\ read_set = [s \in Session |-> Unsampled]
       /\ write_set = [s \in Session |-> Unsampled]
       /\ journal_ = [s \in Session |-> <<>>]
       /\ savepoint = [s \in Session |-> NoSample]
       /\ stage = [s \in Session |-> "none"]
       /\ acked = [k \in Key |-> 0]
  BY DEF Init
<1>11. TypeOK
  BY <1>1, <1>3, <1>6, <1>8, <1>9, <1>10 DEF TypeOK, Stage
<1>12. LogInv
  BY <1>1, <1>3, <1>7, <1>10 DEF LogInv, CurrentLsn
<1>13. ClosedInv
  BY <1>10 DEF ClosedInv, Closed
<1>14. TableInv
  <2>1. \A s \in Session, k \in Key : memtable[s][k] = EmptyTable[k]
    BY <1>10
  <2>2. \A k \in Key : Known(EmptyTable[k], k)
    BY <1>11, EmptyTableIs
  <2> QED
    BY <2>1, <2>2 DEF TableInv
<1> QED
  BY <1>11, <1>12, <1>13, <1>14 DEF IInv
(* A statement logs one data record.                                       *)
LEMMA DataIs ==
  ASSUME TypeOK, Room(1), NEW t \in Txn, NEW k \in Key, NEW v,
         v \in Value \/ v = NextLsn
  PROVE  /\ <<Data(NextLsn, t, k, v)>> \in Seq(AnyRecord)
         /\ \A i \in 1 .. Len(<<Data(NextLsn, t, k, v)>>) :
              /\ <<Data(NextLsn, t, k, v)>>[i].lsn = CurrentLsn + i
              /\ <<Data(NextLsn, t, k, v)>>[i].op = "data"
              /\ <<Data(NextLsn, t, k, v)>>[i].key = k
              /\ <<Data(NextLsn, t, k, v)>>[i].txn = t
<1> DEFINE d == Data(NextLsn, t, k, v)
<1>1. /\ CurrentLsn \in Nat /\ NextLsn = CurrentLsn + 1 /\ NextLsn \in Lsn
  BY NextIs, LsnIsNat DEF Lsn
<1>2. d \in DataRecord /\ d.lsn = CurrentLsn + 1 /\ d.op = "data" /\ d.key = k
      /\ d.txn = t
  BY <1>1 DEF DataRecord, Data, Value
<1> HIDE DEF d
<1>3. <<d>> \in Seq(AnyRecord)
  BY <1>2 DEF AnyRecord
<1>4. Len(<<d>>) = 1 /\ \A i \in 1 .. 1 : <<d>>[i] = d /\ i = 1
  OBVIOUS
<1> QED
  BY <1>2, <1>3, <1>4 DEF d

LEMMA AutocommitIInv ==
  ASSUME IInv, NEW s \in Session, NEW k \in Key, NEW kind,
         Autocommit(s, k, kind)
  PROVE  IInv' /\ \E records : StepOf(s, records)
<1> DEFINE v == IF kind = "delete" THEN Absent ELSE NextLsn
           recs == <<Data(NextLsn, 0, k, v)>>
<1>1. TypeOK /\ LogInv /\ Closed(s) /\ s \in open /\ stage[s] = "none"
  BY DEF IInv, ClosedInv, Autocommit, Idle
<1>2. /\ Put(s, memtable[s], recs) /\ Interfere(s) /\ ToLog(recs)
      /\ UNCHANGED <<txn_id, snapshot, sets, undo, tickets, events>>
  BY DEF Autocommit, Put
<1>3. v \in Value \/ v = NextLsn
  BY LsnIsNat DEF Value, Absent
<1> HIDE DEF v
<1>4. Room(1)
  BY <1>2 DEF ToLog
<1>5. 0 \in Txn
  BY TxnBoundsOK DEF Txn
<1>6. /\ recs \in Seq(AnyRecord)
      /\ \A i \in 1 .. Len(recs) : /\ recs[i].lsn = CurrentLsn + i
                                   /\ recs[i].op = "data" /\ recs[i].txn = 0
  BY <1>1, <1>3, <1>4, <1>5, DataIs
<1> HIDE DEF recs
<1>7. memtable[s] \in [Key -> Entry] /\ \A j \in Key : Known(memtable[s][j], j)
  BY <1>1 DEF TypeOK, IInv, TableInv
<1>8. /\ Appends(recs) /\ Entered(s, memtable[s], recs)
      /\ memtable' \in [Session -> [Key -> Entry]]
      /\ \A o \in Session : o # s => memtable'[o] = memtable[o]
      /\ stable_lsn' \in [Session -> Lsn] /\ acked' \in [Key -> Lsn]
      /\ open' = open /\ next_txn' = next_txn
  BY <1>1, <1>2, <1>6, <1>7, PutIs
<1>9. wal' \in Seq(DataRecord \cup ControlRecord) /\ UNCHANGED <<wal_lsn, disk>>
  BY <1>1, <1>8, AfterAppend DEF AnyRecord, Appends
<1>10. TypeOK'
  BY <1>1, <1>2, <1>8, <1>9, InterfereIs DEF TypeOK, sets, undo
<1>11. Alone(s) /\ stage'[s] = "none"
  BY <1>1, <1>2, <1>8, InterfereIs DEF Alone, sets, undo
<1>12. Closed(s)'
  BY <1>1, <1>2, <1>8, <1>11 DEF Closed, sets, undo
<1>13. StepOf(s, recs) /\ IInv'
  BY <1>2, <1>6, <1>7, <1>8, <1>10, <1>11, <1>12, PutIInv
<1> QED
  BY <1>13

LEMMA WriteIInv ==
  ASSUME IInv, NEW s \in Session, NEW k \in Key,
         NEW kind \in {"insert", "update", "delete"}, Write(s, k, kind)
  PROVE  /\ IInv'
         /\ \E records :
              /\ StepOf(s, records) /\ Len(records) = 1
              /\ records[1].op = "data" /\ records[1].key = k
              /\ records[1].txn = txn_id[s] /\ records[1].lsn = CurrentLsn + 1
<1> DEFINE refreshes == Sample(s, k) = 0
                        \/ (kind # "update" /\ read_set[s][k] = 0)
           mem == IF refreshes THEN Refreshed(s) ELSE memtable[s]
           old == ResolveAtSnapshot(mem, k, txn_id[s], snapshot[s])
           v == IF kind = "delete" THEN Absent ELSE NextLsn
           recs == <<Data(NextLsn, txn_id[s], k, v)>>
           entry == [key |-> k, old |-> old]
<1>1. /\ TypeOK /\ LogInv /\ Closed(s) /\ s \in open /\ stage[s] = "none"
      /\ txn_id[s] # 0 /\ txn_id[s] \in Txn
  BY DEF IInv, ClosedInv, Write, Active, Idle, TypeOK
<1>2. /\ read_set' = [read_set EXCEPT ![s][k] = ReadSample(s, k)]
      /\ write_set' = [write_set EXCEPT ![s][k] = WriteTicket(s, k, kind)]
      /\ journal_' = [journal_ EXCEPT ![s] = Append(@, entry)]
      /\ Put(s, mem, recs) /\ Interfere(s) /\ ToLog(recs)
      /\ UNCHANGED <<txn_id, snapshot, savepoint, tickets, events>>
  BY DEF Write, Put
<1>3. v \in Value \/ v = NextLsn
  BY LsnIsNat DEF Value, Absent
<1> HIDE DEF v
<1>4. Room(1)
  BY <1>2 DEF ToLog
<1>5. /\ recs \in Seq(AnyRecord) /\ Len(recs) = 1
      /\ \A i \in 1 .. Len(recs) : /\ recs[i].lsn = CurrentLsn + i
                                   /\ recs[i].op = "data" /\ recs[i].key = k
                                   /\ recs[i].txn = txn_id[s]
  BY <1>1, <1>3, <1>4, DataIs
<1>6. /\ ReadSample(s, k) \in Lsn /\ WriteTicket(s, k, kind) \in Lsn
      /\ Refreshed(s) \in [Key -> Entry]
  BY SampleType
<1>7. memtable[s] \in [Key -> Entry] /\ \A j \in Key : Known(memtable[s][j], j)
  BY <1>1 DEF TypeOK, IInv, TableInv
<1>8. mem \in [Key -> Entry] /\ \A j \in Key : Known(mem[j], j)
  <2>1. \A j \in Key : Known(Refreshed(s)[j], j)
    BY <1>1, <1>7, KnownAfterReplay DEF Refreshed
  <2> HIDE DEF refreshes
  <2> QED
    BY <1>6, <1>7, <2>1
<1> HIDE DEF mem, recs
<1>9. /\ Appends(recs) /\ Entered(s, mem, recs)
      /\ memtable' \in [Session -> [Key -> Entry]]
      /\ \A o \in Session : o # s => memtable'[o] = memtable[o]
      /\ stable_lsn' \in [Session -> Lsn] /\ acked' \in [Key -> Lsn]
      /\ open' = open /\ next_txn' = next_txn
  BY <1>1, <1>2, <1>5, <1>8, PutIs
<1>10. entry \in [key : Key, old : Value]
  BY <1>8, ValueType
<1> HIDE DEF entry
<1>11. /\ journal_'[s] = Append(journal_[s], entry)
       /\ journal_' \in [Session -> Seq([key : Key, old : Value])]
       /\ Len(journal_[s]) \in Nat /\ Len(journal_'[s]) = Len(journal_[s]) + 1
       /\ \A o \in Session : o # s => journal_'[o] = journal_[o]
  <2> DEFINE E == [key : Key, old : Value]
             q == journal_[s]
  <2>1. q \in Seq(E) /\ entry \in E /\ journal_ \in [Session -> Seq(E)]
    BY <1>1, <1>10 DEF TypeOK
  <2>2. journal_' = [journal_ EXCEPT ![s] = Append(q, entry)]
    BY <1>2
  <2> HIDE DEF E, q
  <2>3. Append(q, entry) \in Seq(E) /\ Len(q) \in Nat
        /\ Len(Append(q, entry)) = Len(q) + 1
    BY <2>1
  <2>4. journal_' \in [Session -> Seq(E)] /\ journal_'[s] = Append(q, entry)
        /\ \A o \in Session : o # s => journal_'[o] = journal_[o]
    BY <2>1, <2>2, <2>3
  <2> QED
    BY <2>3, <2>4 DEF E, q
<1>12. /\ read_set' \in [Session -> [Key -> Lsn \cup {NoSample}]]
       /\ write_set' \in [Session -> [Key -> Lsn \cup {NoSample}]]
       /\ \A o \in Session : o # s => /\ read_set'[o] = read_set[o]
                                      /\ write_set'[o] = write_set[o]
  BY <1>1, <1>2, <1>6 DEF TypeOK
<1>13. wal' \in Seq(DataRecord \cup ControlRecord) /\ UNCHANGED <<wal_lsn, disk>>
  BY <1>1, <1>9, AfterAppend DEF AnyRecord, Appends
<1>14. TypeOK'
  BY <1>1, <1>2, <1>9, <1>11, <1>12, <1>13, InterfereIs DEF TypeOK
<1>15. Alone(s) /\ stage'[s] = "none"
  BY <1>1, <1>2, <1>9, <1>11, <1>12, InterfereIs DEF Alone
<1>16. Closed(s)'
  <2>1. savepoint[s] # NoSample => savepoint[s] <= Len(journal_'[s])
    <3>1. savepoint[s] # NoSample => savepoint[s] \in Nat
      BY <1>1 DEF TypeOK
    <3> QED
      BY <1>1, <1>11, <3>1 DEF Closed
  <2> QED
    BY <1>1, <1>2, <1>9, <1>15, <2>1 DEF Closed
<1>17. StepOf(s, recs) /\ IInv'
  BY <1>2, <1>5, <1>8, <1>9, <1>14, <1>15, <1>16, PutIInv
<1> QED
  BY <1>5, <1>17

(* The beginning of a rollback: an abort record, or none.                  *)
LEMMA RollbackIInv ==
  ASSUME IInv, NEW s \in Session, Rollback(s)
  PROVE  /\ IInv'
         /\ \E records : /\ StepOf(s, records)
                         /\ \A i \in 1 .. Len(records) : records[i].op # "data"
<1> DEFINE t == txn_id[s]
           mem == ClearTxn(memtable[s], t)
<1>1. /\ TypeOK /\ LogInv /\ Closed(s) /\ s \in open /\ stage[s] = "none"
      /\ t # 0
  BY DEF IInv, ClosedInv, Rollback, Active, Idle
<1>2. /\ Room(1)
      /\ \/ wal' = Append(wal, Control("abort", t)) /\ events' = events
         \/ UNCHANGED wal /\ events' = events + 1
      /\ memtable' = [memtable EXCEPT ![s] = mem]
      /\ tickets' = tickets \ {t}
      /\ stage' = [OthersInterfered(s) EXCEPT ![s] = "undoing"]
      /\ UNCHANGED <<wal_lsn, disk, open, stable_lsn, txn_id, snapshot, sets, undo,
                     next_txn, acked>>
  BY DEF Rollback
<1>3. \E records :
        /\ Appends(records) /\ events' \in 0 .. MaxWork
        /\ \A i \in 1 .. Len(records) : /\ records[i].op = "abort"
                                        /\ records[i].txn = t
  <2>1. CASE UNCHANGED wal /\ events' = events + 1
    <3>1. Appends(<<>>) /\ events' \in 0 .. MaxWork
      BY <1>1, <1>2, <2>1, NoAppend DEF files
    <3>2. \A i \in 1 .. Len(<<>>) : FALSE
      OBVIOUS
    <3> QED
      BY <3>1, <3>2
  <2>2. CASE wal' = Append(wal, Control("abort", t)) /\ events' = events
    <3>1. "abort" \in {"commit", "abort"} /\ UNCHANGED <<wal_lsn, disk>>
      BY <1>2
    <3>2. /\ Appends(<<Control("abort", t)>>) /\ events' \in 0 .. MaxWork
          /\ \A i \in 1 .. Len(<<Control("abort", t)>>) :
               /\ <<Control("abort", t)>>[i].op = "abort"
               /\ <<Control("abort", t)>>[i].txn = t
      BY <1>1, <1>2, <2>2, <3>1, ControlIs, Zenon
    <3> QED
      BY <3>2, Zenon
  <2> QED
    BY <1>2, <2>1, <2>2
<1>4. PICK records :
        /\ Appends(records) /\ events' \in 0 .. MaxWork
        /\ \A i \in 1 .. Len(records) : /\ records[i].op = "abort"
                                        /\ records[i].txn = t
  BY <1>3
<1>5. /\ stage' \in [Session -> Stage] /\ stage'[s] = "undoing"
      /\ \A o \in Session : o # s =>
           /\ stage'[o] # "validated"
           /\ \/ stage'[o] = stage[o]
              \/ stage[o] = "validated" /\ stage'[o] = "raced"
  BY <1>1, <1>2 DEF TypeOK, OthersInterfered, Stage
<1>6. memtable[s] \in [Key -> Entry] /\ \A j \in Key : Known(memtable[s][j], j)
  BY <1>1 DEF TypeOK, IInv, TableInv
<1>7. /\ \A k \in Key : EmptyTable[k] = NoEntry
      /\ EmptyTable \in [Key -> Entry] /\ \A k \in Key : Known(EmptyTable[k], k)
  BY <1>1, EmptyTableIs DEF EmptyTable
<1>8. mem = [k \in Key |-> IF memtable[s][k].txn = t /\ t # 0 THEN EmptyTable[k]
                           ELSE memtable[s][k]]
  BY <1>7 DEF ClearTxn
<1>9. mem \in [Key -> Entry] /\ \A k \in Key : Known(mem[k], k)
  BY <1>6, <1>7, <1>8
<1> HIDE DEF mem
<1>10. /\ memtable' \in [Session -> [Key -> Entry]] /\ memtable'[s] = mem
       /\ \A o \in Session : o # s => memtable'[o] = memtable[o]
  BY <1>1, <1>2, <1>9 DEF TypeOK
<1>11. ASSUME NEW k \in Key PROVE Known(memtable[s][k], k)'
  <2>1. PICK e : e = mem[k]
    OBVIOUS
  <2>2. Known(e, k)'
    BY <1>1, <1>4, <1>9, <2>1, KnownAfterAppend
  <2> QED
    BY <1>10, <2>1, <2>2 DEF Known
<1>12. TypeOK'
  <2>1. wal' \in Seq(DataRecord \cup ControlRecord)
    BY <1>1, <1>4, AfterAppend DEF AnyRecord
  <2>2. tickets' \subseteq Txn
    BY <1>1, <1>2 DEF TypeOK
  <2> QED
    BY <1>1, <1>2, <1>4, <1>5, <1>10, <2>1, <2>2 DEF TypeOK, sets, undo
<1>13. Alone(s)
  BY <1>2, <1>5, <1>10 DEF Alone, sets, undo
<1>14. Closed(s)'
  BY <1>1, <1>2, <1>5 DEF Closed, sets, undo
<1>15. IInv'
  BY <1>4, <1>11, <1>12, <1>13, <1>14, IInvAfter
<1>16. StepOf(s, records)
  BY <1>1, <1>2, <1>4, <1>5, <1>13 DEF StepOf
<1> QED
  BY <1>4, <1>15, <1>16

LEMMA SavepointRollbackIInv ==
  ASSUME IInv, NEW s \in Session,
         RollbackToSavepoint(s) \/ EndRollbackToSavepoint(s)
  PROVE  IInv' /\ StepOf(s, <<>>)
<1>1. /\ TypeOK /\ LogInv /\ Closed(s) /\ s \in open /\ stage[s] # "undoing"
      /\ txn_id[s] # 0
  BY DEF IInv, ClosedInv, Closed, RollbackToSavepoint, EndRollbackToSavepoint,
         Active, Idle
<1>2. /\ UNCHANGED <<files, open, engine, txn_id, snapshot, sets, journal_,
                     tickets, bounds, acked>>
      /\ \/ /\ stage' = [stage EXCEPT ![s] = "unwinding"] /\ savepoint' = savepoint
            /\ savepoint[s] # NoSample
         \/ /\ stage' = [stage EXCEPT ![s] = "none"]
            /\ savepoint' = [savepoint EXCEPT ![s] = NoSample]
  BY DEF RollbackToSavepoint, EndRollbackToSavepoint, undo
<1>3. Appends(<<>>)
  BY <1>1, <1>2, NoAppend DEF bounds
<1>4. TypeOK'
  BY <1>1, <1>2 DEF TypeOK, Stage, files, engine, sets, bounds
<1>5. /\ Alone(s)
      /\ \/ stage'[s] = "unwinding" /\ savepoint'[s] = savepoint[s]
            /\ savepoint[s] # NoSample
         \/ stage'[s] = "none" /\ savepoint'[s] = NoSample
  BY <1>1, <1>2 DEF Alone, TypeOK, engine, sets
<1>6. Closed(s)'
  BY <1>1, <1>2, <1>5 DEF Closed, engine, sets
<1>7. IInv'
  BY <1>2, <1>3, <1>4, <1>5, <1>6, IInvAfter DEF engine
<1> QED
  BY <1>1, <1>2, <1>3, <1>5, <1>7, QuietStepOf DEF bounds

LEMMA EndRollbackIInv ==
  ASSUME IInv, NEW s \in Session, EndRollback(s)
  PROVE  IInv' /\ StepOf(s, <<>>)
<1>1. TypeOK /\ LogInv /\ Closed(s) /\ s \in open
  BY DEF IInv, ClosedInv, EndRollback
<1>2. /\ EndTxns({s}) /\ stage' = [stage EXCEPT ![s] = "none"]
      /\ UNCHANGED <<files, open, engine, tickets, bounds, acked>>
  BY DEF EndRollback
<1>3. Appends(<<>>)
  BY <1>1, <1>2, NoAppend DEF bounds
<1>4. TypeOK'
  <2>1. stage' \in [Session -> Stage]
    BY <1>1, <1>2 DEF TypeOK, Stage
  <2> QED
    BY <1>1, <1>2, <2>1, EndTxnsIs DEF TypeOK, files, engine, bounds
<1>5. /\ stage'[s] = "none" /\ \A o \in Session : o # s => stage'[o] = stage[o]
  BY <1>1, <1>2 DEF TypeOK
<1>6. Alone(s)
  BY <1>1, <1>2, <1>5, EndTxnsIs DEF Alone, engine
<1>7. /\ txn_id'[s] = 0 /\ read_set'[s] = Unsampled /\ write_set'[s] = Unsampled
      /\ journal_'[s] = <<>> /\ savepoint'[s] = NoSample
  BY <1>1, <1>2, EndTxnsIs
<1>8. Closed(s)'
  BY <1>1, <1>2, <1>5, <1>7 DEF Closed
<1>9. IInv'
  BY <1>2, <1>3, <1>4, <1>6, <1>8, IInvAfter DEF engine
<1> QED
  BY <1>2, <1>3, <1>6, <1>7, <1>9, QuietStepOf DEF bounds

(* The journal without its last entry.                                     *)
LEMMA PopIs ==
  ASSUME TypeOK, NEW s \in Session, Len(journal_[s]) > 0,
         journal_' = [journal_ EXCEPT ![s] = SubSeq(@, 1, Len(@) - 1)]
  PROVE  /\ journal_' \in [Session -> Seq([key : Key, old : Value])]
         /\ \A o \in Session : o # s => journal_'[o] = journal_[o]
         /\ Len(journal_[s]) \in Nat /\ Len(journal_'[s]) = Len(journal_[s]) - 1
         /\ LastEntry(s) \in [key : Key, old : Value]
         /\ \A i \in 1 .. Len(journal_'[s]) : journal_'[s][i] = journal_[s][i]
<1> DEFINE E == [key : Key, old : Value]
           q == journal_[s]
<1>1. q \in Seq(E) /\ journal_ \in [Session -> Seq(E)] /\ Len(q) > 0
  BY DEF TypeOK
<1>2. journal_' = [journal_ EXCEPT ![s] = SubSeq(q, 1, Len(q) - 1)]
  OBVIOUS
<1>3. LastEntry(s) = q[Len(q)]
  BY DEF LastEntry
<1> HIDE DEF E, q
<1>4. Len(q) \in Nat /\ Len(q) - 1 \in 0 .. Len(q)
  BY <1>1
<1>5. ASSUME NEW w, w = SubSeq(q, 1, Len(q) - 1)
      PROVE  /\ w \in Seq(E) /\ Len(w) = Len(q) - 1
             /\ \A i \in 1 .. Len(w) : w[i] = q[i]
  <2>1. ASSUME NEW n \in Nat, n <= Len(q), w = SubSeq(q, 1, n)
        PROVE  /\ w \in Seq(E) /\ Len(w) = n
               /\ \A i \in 1 .. Len(w) : w[i] = q[i]
    BY <1>1, <2>1
  <2>2. Len(q) - 1 \in Nat /\ Len(q) - 1 <= Len(q)
    BY <1>4
  <2> QED
    BY <1>5, <2>1, <2>2
<1>6. /\ journal_' \in [Session -> Seq(E)]
      /\ \A o \in Session : o # s => journal_'[o] = journal_[o]
      /\ journal_'[s] = SubSeq(q, 1, Len(q) - 1)
  BY <1>1, <1>2, <1>5
<1>7. q[Len(q)] \in E
  BY <1>1, <1>4
<1>8. /\ Len(journal_'[s]) = Len(q) - 1
      /\ \A i \in 1 .. Len(journal_'[s]) : journal_'[s][i] = q[i]
  BY <1>5, <1>6
<1> QED
  BY <1>3, <1>4, <1>6, <1>7, <1>8 DEF E, q

(* An undo logs one data record, or none if it fails.                      *)
LEMMA UndoRecordIs ==
  ASSUME IInv, NEW s \in Session, Room(1), Len(journal_[s]) \in Nat,
         Len(journal_[s]) > 0, LastEntry(s) \in [key : Key, old : Value]
  PROVE  /\ UndoRecord(s) \in AnyRecord /\ <<UndoRecord(s)>> \in Seq(AnyRecord)
         /\ \A i \in 1 .. Len(<<UndoRecord(s)>>) :
              /\ <<UndoRecord(s)>>[i].lsn = CurrentLsn + i
              /\ <<UndoRecord(s)>>[i].op = "data"
              /\ <<UndoRecord(s)>>[i].txn \in {0, txn_id[s]}
              /\ \E j \in 1 .. Len(journal_[s]) :
                   <<UndoRecord(s)>>[i].key = journal_[s][j].key
         /\ UndoRecord(s).lsn = CurrentLsn + 1
<1> DEFINE e == LastEntry(s)
           t == IF stage[s] = "unwinding" /\ e.old = Absent THEN txn_id[s] ELSE 0
<1>1. TypeOK /\ e.key \in Key /\ e.old \in Value
  BY DEF IInv
<1>2. e = journal_[s][Len(journal_[s])] /\ Len(journal_[s]) \in 1 .. Len(journal_[s])
  BY DEF LastEntry
<1>3. t \in Txn /\ t \in {0, txn_id[s]}
  <2>1. 0 \in Txn
    BY TxnBoundsOK DEF Txn
  <2>2. txn_id[s] \in Txn
    BY <1>1 DEF TypeOK
  <2> QED
    BY <2>1, <2>2
<1>4. UndoRecord(s) = Data(NextLsn, t, e.key, e.old)
  BY DEF UndoRecord
<1> HIDE DEF e, t
<1>5. /\ <<UndoRecord(s)>> \in Seq(AnyRecord)
      /\ \A i \in 1 .. Len(<<UndoRecord(s)>>) :
           /\ <<UndoRecord(s)>>[i].lsn = CurrentLsn + i
           /\ <<UndoRecord(s)>>[i].op = "data"
           /\ <<UndoRecord(s)>>[i].key = e.key
           /\ <<UndoRecord(s)>>[i].txn = t
  BY <1>1, <1>3, <1>4, DataIs
<1>6. Len(<<UndoRecord(s)>>) = 1 /\ <<UndoRecord(s)>>[1] = UndoRecord(s)
  OBVIOUS
<1>7. UndoRecord(s) \in AnyRecord
  <2>1. NextLsn \in Lsn
    BY <1>1, NextIs, LsnIsNat DEF Lsn
  <2> QED
    BY <1>1, <1>3, <1>4, <2>1 DEF Data, DataRecord, AnyRecord
<1>8. UndoRecord(s).lsn = CurrentLsn + 1
  BY <1>1, <1>4, NextIs DEF Data
<1> QED
  BY <1>2, <1>3, <1>5, <1>7, <1>8

LEMMA UndoIInv ==
  ASSUME IInv, NEW s \in Session, Undo(s) \/ UndoFails(s)
  PROVE  /\ IInv'
         /\ \E records :
              /\ StepOf(s, records)
              /\ \A i \in 1 .. Len(records) : \E j \in 1 .. Len(journal_[s]) :
                   records[i].key = journal_[s][j].key
         /\ Len(journal_[s]) \in Nat /\ Len(journal_'[s]) = Len(journal_[s]) - 1
         /\ \A i \in 1 .. Len(journal_'[s]) : journal_'[s][i] = journal_[s][i]
<1>1. /\ TypeOK /\ LogInv /\ Closed(s) /\ s \in open /\ txn_id[s] # 0
      /\ stage[s] \in {"undoing", "unwinding"} /\ Len(journal_[s]) > Keeps(s)
      /\ journal_' = [journal_ EXCEPT ![s] = SubSeq(@, 1, Len(@) - 1)]
      /\ UNCHANGED <<open, txn_id, snapshot, sets, savepoint, tickets, next_txn>>
  BY DEF IInv, ClosedInv, Closed, Undo, UndoFails, RollsBack, Put, ToLog
<1>2. /\ Len(journal_[s]) \in Nat /\ Len(journal_[s]) > 0
      /\ stage[s] = "unwinding" => /\ savepoint[s] \in Nat
                                   /\ savepoint[s] <= Len(journal_[s]) - 1
  <2>1. Len(journal_[s]) \in Nat
    <3> DEFINE q == journal_[s]
               E == [key : Key, old : Value]
    <3>1. q \in Seq(E)
      BY <1>1 DEF TypeOK
    <3> HIDE DEF q, E
    <3>2. Len(q) \in Nat
      BY <3>1
    <3> QED
      BY <3>2 DEF q
  <2>2. stage[s] = "unwinding" => savepoint[s] \in Nat
    BY <1>1 DEF Closed, TypeOK
  <2> QED
    BY <1>1, <2>1, <2>2 DEF Keeps
<1>3. /\ journal_' \in [Session -> Seq([key : Key, old : Value])]
      /\ \A o \in Session : o # s => journal_'[o] = journal_[o]
      /\ Len(journal_'[s]) = Len(journal_[s]) - 1
      /\ LastEntry(s) \in [key : Key, old : Value]
      /\ \A i \in 1 .. Len(journal_'[s]) : journal_'[s][i] = journal_[s][i]
  BY <1>1, <1>2, PopIs
<1>4. ASSUME stage'[s] = stage[s]
      PROVE  Closed(s)'
  BY <1>1, <1>2, <1>3, <1>4 DEF Closed, sets
<1>5. CASE Undo(s)
  <2>1. PICK recs : recs = <<UndoRecord(s)>>
    OBVIOUS
  <2>2. Put(s, memtable[s], recs) /\ Interfere(s) /\ events' = events /\ Room(1)
    BY <1>5, <2>1 DEF Undo, Put, ToLog
  <2>3. /\ recs \in Seq(AnyRecord)
        /\ \A i \in 1 .. Len(recs) :
             /\ recs[i].lsn = CurrentLsn + i /\ recs[i].op = "data"
             /\ recs[i].txn \in {0, txn_id[s]}
             /\ \E j \in 1 .. Len(journal_[s]) : recs[i].key = journal_[s][j].key
    BY <1>2, <1>3, <2>1, <2>2, UndoRecordIs
  <2> HIDE <2>1
  <2>4. memtable[s] \in [Key -> Entry] /\ \A j \in Key : Known(memtable[s][j], j)
    BY <1>1 DEF TypeOK, IInv, TableInv
  <2>5. /\ Appends(recs) /\ Entered(s, memtable[s], recs)
        /\ memtable' \in [Session -> [Key -> Entry]]
        /\ \A o \in Session : o # s => memtable'[o] = memtable[o]
        /\ stable_lsn' \in [Session -> Lsn] /\ acked' \in [Key -> Lsn]
    BY <1>1, <2>2, <2>3, <2>4, PutIs
  <2>6. wal' \in Seq(DataRecord \cup ControlRecord) /\ UNCHANGED <<wal_lsn, disk>>
    BY <1>1, <2>5, AfterAppend DEF AnyRecord, Appends
  <2>7. TypeOK'
    BY <1>1, <1>3, <2>2, <2>5, <2>6, InterfereIs DEF TypeOK, sets
  <2>8. Alone(s) /\ stage'[s] = stage[s]
    BY <1>1, <1>3, <2>2, <2>5, InterfereIs DEF Alone, sets
  <2>9. Closed(s)'
    BY <1>4, <2>8
  <2>10. StepOf(s, recs) /\ IInv'
    BY <1>1, <2>2, <2>3, <2>4, <2>5, <2>7, <2>8, <2>9, PutIInv
  <2>11. \E records :
           /\ StepOf(s, records)
           /\ \A i \in 1 .. Len(records) : \E j \in 1 .. Len(journal_[s]) :
                records[i].key = journal_[s][j].key
    <3>1. \A i \in 1 .. Len(recs) : \E j \in 1 .. Len(journal_[s]) :
            recs[i].key = journal_[s][j].key
      BY <2>3
    <3> QED
      BY <2>10, <3>1, Zenon
  <2> QED
    BY <1>2, <1>3, <2>10, <2>11, Zenon
<1>6. CASE UndoFails(s)
  <2>1. /\ Room(1) /\ events' = events + 1
        /\ UNCHANGED <<wal_lsn, disk, engine, acked>>
        /\ \/ UNCHANGED <<wal, stage>>
           \/ Room(2) /\ wal' = Append(wal, UndoRecord(s)) /\ Interfere(s)
    BY <1>6 DEF UndoFails
  <2>2. \E records :
          /\ Appends(records) /\ events' \in 0 .. MaxWork
          /\ \A i \in 1 .. Len(records) :
               /\ records[i].op = "data" /\ records[i].txn \in {0, txn_id[s]}
               /\ \E j \in 1 .. Len(journal_[s]) :
                    records[i].key = journal_[s][j].key
          /\ \/ UNCHANGED wal
             \/ \A o \in Session : o # s => stage'[o] # "validated"
    <3>1. CASE UNCHANGED <<wal, stage>>
      <4>1. Appends(<<>>) /\ events' \in 0 .. MaxWork
        BY <1>1, <2>1, <3>1, NoAppend DEF files
      <4>2. \A i \in 1 .. Len(<<>>) : FALSE
        OBVIOUS
      <4> QED
        BY <3>1, <4>1, <4>2
    <3>2. CASE Room(2) /\ wal' = Append(wal, UndoRecord(s)) /\ Interfere(s)
      <4>1. /\ CurrentLsn + 1 + events' <= MaxWork /\ events' \in 0 .. MaxWork
        <5>1. /\ CurrentLsn \in Nat /\ events \in Nat
              /\ CurrentLsn + 2 + events <= MaxWork
          BY <1>1, <3>2, NextIs
        <5> QED
          BY <2>1, <5>1, LsnIsNat
      <4>2. PICK recs : recs = <<UndoRecord(s)>>
        OBVIOUS
      <4>3. /\ UndoRecord(s) \in AnyRecord /\ UndoRecord(s).lsn = CurrentLsn + 1
            /\ \A i \in 1 .. Len(recs) :
                 /\ recs[i].op = "data" /\ recs[i].txn \in {0, txn_id[s]}
                 /\ \E j \in 1 .. Len(journal_[s]) :
                      recs[i].key = journal_[s][j].key
        <5>1. /\ UndoRecord(s) \in AnyRecord /\ UndoRecord(s).lsn = CurrentLsn + 1
              /\ \A i \in 1 .. Len(<<UndoRecord(s)>>) :
                   /\ <<UndoRecord(s)>>[i].op = "data"
                   /\ <<UndoRecord(s)>>[i].txn \in {0, txn_id[s]}
                   /\ \E j \in 1 .. Len(journal_[s]) :
                        <<UndoRecord(s)>>[i].key = journal_[s][j].key
          BY <1>2, <1>3, <2>1, UndoRecordIs, SMTT(20)
        <5> QED
          BY <4>2, <5>1, Zenon
      <4>4. Appends(recs)
        BY <1>1, <2>1, <3>2, <4>1, <4>2, <4>3, OneMore
      <4>5. \A o \in Session : o # s => stage'[o] # "validated"
        BY <3>2 DEF Interfere
      <4> HIDE <4>2
      <4> QED
        BY <4>1, <4>3, <4>4, <4>5, Zenon
    <3> QED
      BY <2>1, <3>1, <3>2
  <2>3. PICK records :
          /\ Appends(records) /\ events' \in 0 .. MaxWork
          /\ \A i \in 1 .. Len(records) :
               /\ records[i].op = "data" /\ records[i].txn \in {0, txn_id[s]}
               /\ \E j \in 1 .. Len(journal_[s]) :
                    records[i].key = journal_[s][j].key
          /\ \/ UNCHANGED wal
             \/ \A o \in Session : o # s => stage'[o] # "validated"
    BY <2>2
  <2>4. /\ stage' \in [Session -> Stage] /\ stage'[s] = stage[s]
        /\ \A o \in Session : o # s =>
             \/ stage'[o] = stage[o]
             \/ stage[o] = "validated" /\ stage'[o] = "raced"
    BY <1>1, <2>1, InterfereIs DEF TypeOK
  <2>5. wal' \in Seq(DataRecord \cup ControlRecord)
    BY <1>1, <2>3, AfterAppend DEF AnyRecord
  <2>6. TypeOK'
    BY <1>1, <1>3, <2>1, <2>3, <2>4, <2>5 DEF TypeOK, engine, sets
  <2>7. Alone(s)
    BY <1>1, <1>3, <2>1, <2>4 DEF Alone, engine, sets
  <2>8. Closed(s)'
    BY <1>4, <2>4
  <2>9. IInv'
    BY <2>1, <2>3, <2>6, <2>7, <2>8, IInvAfter DEF engine
  <2>10. StepOf(s, records)
    BY <1>1, <2>1, <2>3, <2>4, <2>7 DEF StepOf
  <2>11. \E r : /\ StepOf(s, r)
                /\ \A i \in 1 .. Len(r) : \E j \in 1 .. Len(journal_[s]) :
                     r[i].key = journal_[s][j].key
    <3>1. \A i \in 1 .. Len(records) : \E j \in 1 .. Len(journal_[s]) :
            records[i].key = journal_[s][j].key
      BY <2>3
    <3> QED
      BY <2>10, <3>1, Zenon
  <2> QED
    BY <1>2, <1>3, <2>9, <2>11, Zenon
<1> QED
  BY <1>5, <1>6

LEMMA NextIInv == IInv /\ [Next]_vars => IInv'
<1> SUFFICES ASSUME IInv, [Next]_vars PROVE IInv'
  OBVIOUS
<1>1. CASE Restart
  BY <1>1, RestartIInv
<1>2. ASSUME NEW s \in Session, SessionStep(s) PROVE IInv'
  <2>1. CASE Open(s)
    BY <2>1, OpenIInv
  <2>2. CASE Close(s)
    BY <2>2, CloseIInv
  <2>3. CASE Begin(s)
    BY <2>3, BeginIInv
  <2>4. CASE Scan(s)
    BY <2>4, ScanIInv
  <2>5. CASE \E k \in Key : ReadKey(s, k)
    BY <2>5, ReadKeyIInv
  <2>6. CASE \E k \in Key, kind \in {"insert", "update", "delete"} :
               Write(s, k, kind)
    BY <2>6, WriteIInv
  <2>7. CASE \E k \in Key, kind \in {"insert", "delete"} : Autocommit(s, k, kind)
    BY <2>7, AutocommitIInv
  <2>8. CASE ValidateCommitOCC(s)
    BY <2>8, ValidateIInv
  <2>9. CASE Commit(s)
    BY <2>9, CommitIInv
  <2>10. CASE CommitFails(s)
    BY <2>10, CommitFailsIInv
  <2>11. CASE Rollback(s)
    BY <2>11, RollbackIInv
  <2>12. CASE Savepoint(s) \/ ReleaseSavepoint(s)
    BY <2>12, SavepointIInv
  <2>13. CASE RollbackToSavepoint(s) \/ EndRollbackToSavepoint(s)
    BY <2>13, SavepointRollbackIInv
  <2>14. CASE Undo(s) \/ UndoFails(s)
    BY <2>14, UndoIInv
  <2>15. CASE EndRollback(s)
    BY <2>15, EndRollbackIInv
  <2>16. CASE Checkpoint(s)
    BY <2>16, CheckpointIInv
  <2> QED
    BY <1>2, <2>1, <2>2, <2>3, <2>4, <2>5, <2>6, <2>7, <2>8, <2>9, <2>10, <2>11,
       <2>12, <2>13, <2>14, <2>15, <2>16 DEF SessionStep
<1>3. CASE UNCHANGED vars
  <2>1. /\ UNCHANGED <<wal, wal_lsn, disk, open, memtable, stable_lsn, txn_id,
                       snapshot>>
        /\ UNCHANGED <<read_set, write_set, journal_, savepoint, stage, tickets,
                       next_txn, events, acked>>
    BY <1>3 DEF vars, files, engine, sets, undo, bounds
  <2>2. TypeOK'
    BY <2>1 DEF IInv, TypeOK
  <2>3. LogInv' /\ ClosedInv' /\ TableInv'
    BY <2>1 DEF IInv, LogInv, ClosedInv, Closed, TableInv, Known, LoggedAs,
                CurrentLsn
  <2> QED
    BY <2>2, <2>3 DEF IInv
<1> QED
  BY <1>1, <1>2, <1>3 DEF Next
-----------------------------------------------------------------------------
THEOREM Invariance == Spec => []IInv
<1>1. Init => IInv
  BY InitIInv
<1>2. IInv /\ [Next]_vars => IInv'
  BY NextIInv
<1> QED
  BY <1>1, <1>2, PTL DEF Spec

(* Every variable keeps its type: the log, the memtables and what each     *)
(* transaction notes.                                                      *)
THEOREM TypeCorrect == Spec => []TypeOK
<1>1. IInv => TypeOK
  BY DEF IInv
<1> QED
  BY <1>1, Invariance, PTL

(* MemEntryVisible, ReplayPending, PromoteTxn, ClearTxn: what a statement  *)
(* finds in the memtable of its session, its own transaction wrote or one  *)
(* that has a commit record in the log.                                    *)
THEOREM ReadsAreClean == Spec => []NoDirtyRead
<1>1. IInv => NoDirtyRead
  <2> SUFFICES ASSUME IInv, NEW s \in open, NEW k \in Key,
                      MemEntryVisible(memtable[s][k], txn_id[s])
               PROVE  memtable[s][k].txn \in {0, txn_id[s]} \cup LoggedAs("commit")
    BY DEF NoDirtyRead
  <2>1. s \in Session
    BY DEF IInv, TypeOK
  <2>2. Known(memtable[s][k], k)
    BY <2>1 DEF IInv, TableInv
  <2>3. CASE memtable[s][k].durable
    BY <2>2, <2>3 DEF MemEntryVisible, Known
  <2>4. CASE memtable[s][k].txn = txn_id[s]
    BY <2>4
  <2> QED
    BY <2>3, <2>4 DEF MemEntryVisible
<1> QED
  BY <1>1, Invariance, PTL
-----------------------------------------------------------------------------
(* When no transaction id is used twice.                                   *)

(* An id is given to one transaction of one session, and has an abort      *)
(* record only once that is rolled back.                                   *)
IdInv ==
  /\ \A s \in Session : txn_id[s] < next_txn
  /\ \A s, o \in Session : txn_id[s] = txn_id[o] => s = o \/ txn_id[s] = 0
  /\ \A r \in Range(wal) : r.txn < next_txn
  /\ 0 \notin tickets /\ 0 \notin LoggedAs("abort")
  /\ \A s \in Session :
       stage[s] # "undoing" => txn_id[s] \notin LoggedAs("abort")

(* No abort record of t can follow.                                        *)
Settled(t) ==
  \/ t = 0
  \/ /\ t < next_txn /\ t \notin LoggedAs("abort")
     /\ \A s \in Session : txn_id[s] # t

(* What was reported committed, or something newer, is flushed or is in    *)
(* the log to stay.                                                        *)
Kept(k, l) ==
  \/ l = 0
  \/ \E v \in disk[k] : l <= v.lsn
  \/ \E r \in Range(wal) : /\ r.op = "data" /\ r.key = k /\ l <= r.lsn
                           /\ Settled(r.txn)
AckInv == \A k \in Key : Kept(k, acked[k])

(* A transaction has a ticket for every key it logged, or will undo.       *)
Own(s) ==
  txn_id[s] # 0 =>
    /\ \A r \in Range(wal) :
         r.op = "data" /\ r.txn = txn_id[s] => write_set[s][r.key] # NoSample
    /\ \A i \in 1 .. Len(journal_[s]) : write_set[s][journal_[s][i].key] # NoSample

(* The log up to LSN b shows the version of k at LSN l committed.          *)
CommittedAt(k, l, b) ==
  \E r \in Range(wal) :
    /\ r.op = "data" /\ r.key = k /\ r.lsn = l
    /\ r.txn = 0 \/ \E c \in Range(wal) : /\ c.op = "commit" /\ c.txn = r.txn
                                          /\ c.lsn <= b

(* A version taken for the current one was committed then; a write ticket  *)
(* was taken before the transaction's own version was logged.              *)
ReadOk(k, l) == l > wal_lsn => CommittedAt(k, l, CurrentLsn)
WriteOk(k, l, t) ==
  l > wal_lsn =>
    \E o \in Range(wal) : /\ o.op = "data" /\ o.txn = t /\ o.key = k
                          /\ l < o.lsn /\ CommittedAt(k, l, o.lsn)
Sampled(s) ==
  \A k \in Key : ReadOk(k, read_set[s][k]) /\ WriteOk(k, write_set[s][k], txn_id[s])

Valid(s) == stage[s] = "validated" => TicketsHold(s) /\ ~PhantomConflict(s)

TInv == /\ IdInv /\ AckInv
        /\ \A s \in Session : Own(s) /\ Sampled(s) /\ Valid(s)

LEMMA TxnIsNat ==
  ASSUME TypeOK
  PROVE  /\ next_txn \in Nat /\ next_txn > 0
         /\ \A t \in Txn : t \in Nat
         /\ \A s \in Session : txn_id[s] \in Nat
         /\ \A r \in Range(wal) : r.txn \in Nat /\ r.lsn \in Nat
<1>1. \A t \in Txn : t \in Nat
  BY TxnBoundsOK DEF Txn
<1>2. next_txn \in Nat /\ next_txn > 0
  BY TxnBoundsOK DEF TypeOK
<1>3. \A s \in Session : txn_id[s] \in Nat
  BY <1>1 DEF TypeOK
<1>4. \A r \in Range(wal) : r.txn \in Nat /\ r.lsn \in Nat
  BY <1>1, RecordIs, LsnIsNat
<1> QED
  BY <1>1, <1>2, <1>3, <1>4

LEMMA IdAfter ==
  ASSUME IInv, IdInv, NEW s \in Session, NEW records, StepOf(s, records)
  PROVE  IdInv'
<1>1. TypeOK /\ LogInv /\ Appends(records) /\ Alone(s)
  BY DEF IInv, StepOf
<1>2. \A i \in 1 .. Len(records) :
        /\ records[i].txn \in {0, txn_id[s]}
        /\ records[i].op = "abort" =>
             records[i].txn = txn_id[s] /\ txn_id[s] # 0 /\ stage'[s] = "undoing"
  BY DEF StepOf
<1>3. \/ txn_id'[s] \in {0, txn_id[s]} /\ next_txn' = next_txn
      \/ txn_id[s] = 0 /\ txn_id'[s] = next_txn /\ next_txn' = next_txn + 1
  BY DEF StepOf
<1>4. /\ next_txn \in Nat /\ next_txn > 0 /\ \A o \in Session : txn_id[o] \in Nat
      /\ \A r \in Range(wal) : r.txn \in Nat
  BY <1>1, TxnIsNat
<1>5. \A o \in Session : o # s => txn_id'[o] = txn_id[o]
  BY <1>1 DEF Alone
<1>6. \A r \in Range(wal)' :
        r \in Range(wal) \/ \E i \in 1 .. Len(records) : r = records[i]
  BY <1>1, AfterAppend
<1>7. \A o \in Session : txn_id'[o] < next_txn'
  BY <1>3, <1>4, <1>5 DEF IdInv
<1>8. \A o, p \in Session : txn_id'[o] = txn_id'[p] => o = p \/ txn_id'[o] = 0
  BY <1>3, <1>4, <1>5 DEF IdInv
<1>9. ASSUME NEW r \in Range(wal)' PROVE r.txn < next_txn'
  <2>1. r.txn < next_txn /\ r.txn \in Nat
    <3>1. CASE r \in Range(wal)
      BY <1>4, <3>1 DEF IdInv
    <3>2. ASSUME NEW i \in 1 .. Len(records), r = records[i]
          PROVE  r.txn < next_txn /\ r.txn \in Nat
      BY <1>2, <1>4, <3>2 DEF IdInv
    <3> QED
      BY <1>6, <3>1, <3>2
  <2> QED
    BY <1>3, <1>4, <2>1
<1>10. 0 \notin tickets'
  BY DEF StepOf, IdInv
<1>11. \A t : t \in LoggedAs("abort")' =>
         \/ t \in LoggedAs("abort")
         \/ t = txn_id[s] /\ t # 0 /\ stage'[s] = "undoing"
  <2> SUFFICES ASSUME NEW r \in Range(wal)', r.op = "abort"
               PROVE  \/ r.txn \in LoggedAs("abort")
                      \/ r.txn = txn_id[s] /\ r.txn # 0 /\ stage'[s] = "undoing"
    BY DEF LoggedAs
  <2>1. CASE r \in Range(wal)
    BY <2>1 DEF LoggedAs
  <2>2. ASSUME NEW i \in 1 .. Len(records), r = records[i]
        PROVE  r.txn = txn_id[s] /\ r.txn # 0 /\ stage'[s] = "undoing"
    BY <1>2, <2>2
  <2> QED
    BY <1>6, <2>1, <2>2
<1>12. 0 \notin LoggedAs("abort")'
  BY <1>11 DEF IdInv
<1>13. next_txn \notin LoggedAs("abort")
  <2>1. \A r \in Range(wal) : r.txn # next_txn
    BY <1>4 DEF IdInv
  <2> QED
    BY <2>1 DEF LoggedAs
<1>14. ASSUME NEW o \in Session, stage'[o] # "undoing"
       PROVE  txn_id'[o] \notin LoggedAs("abort")'
  <2>1. CASE o = s /\ txn_id'[s] = 0
    BY <1>12, <2>1
  <2>2. CASE o = s /\ txn_id'[s] # 0
    <3>1. txn_id'[s] = next_txn \/ (txn_id'[s] = txn_id[s] /\ stage[s] # "undoing")
      BY <1>3, <1>14, <2>2 DEF StepOf
    <3>2. txn_id'[s] \notin LoggedAs("abort")
      BY <1>13, <3>1 DEF IdInv
    <3> QED
      BY <1>11, <1>14, <2>2, <3>2
  <2>3. CASE o # s
    <3>1. txn_id'[o] = txn_id[o] /\ stage[o] # "undoing"
      BY <1>1, <1>14, <2>3 DEF Alone
    <3>2. txn_id[o] \notin LoggedAs("abort") /\ (txn_id[o] = txn_id[s] => txn_id[o] = 0)
      BY <2>3, <3>1 DEF IdInv
    <3> QED
      BY <1>11, <3>1, <3>2
  <2> QED
    BY <2>1, <2>2, <2>3
<1> QED
  BY <1>7, <1>8, <1>9, <1>10, <1>12, <1>14 DEF IdInv

LEMMA SettledAfter ==
  ASSUME IInv, IdInv, NEW s \in Session, NEW records, StepOf(s, records),
         NEW r \in Range(wal), Settled(r.txn)
  PROVE  Settled(r.txn)'
<1> DEFINE t == r.txn
<1>1. TypeOK /\ LogInv /\ Appends(records) /\ Alone(s)
  BY DEF IInv, StepOf
<1>2. t \in Nat /\ next_txn \in Nat /\ t < next_txn
  BY <1>1, TxnIsNat DEF IdInv
<1>3. PICK n : n = r.txn
  OBVIOUS
<1>4. CASE n = 0
  BY <1>3, <1>4 DEF Settled
<1>5. CASE n # 0
  <2>1. /\ n \notin LoggedAs("abort") /\ \A o \in Session : txn_id[o] # n
        /\ n \in Nat /\ n < next_txn
    BY <1>2, <1>3, <1>5 DEF Settled
  <2>2. \A o \in Session : txn_id'[o] # n
    BY <1>1, <1>5, <2>1, <1>2 DEF StepOf, Alone
  <2>3. n < next_txn'
    BY <1>2, <2>1 DEF StepOf
  <2>4. n \notin LoggedAs("abort")'
    <3> SUFFICES ASSUME NEW q \in Range(wal)', q.op = "abort", q.txn = n
                 PROVE  FALSE
      BY DEF LoggedAs
    <3>1. q \notin Range(wal)
      BY <2>1 DEF LoggedAs
    <3>2. PICK i \in 1 .. Len(records) : q = records[i]
      BY <1>1, <3>1, AfterAppend
    <3>3. q.txn = txn_id[s]
      BY <3>2 DEF StepOf
    <3> QED
      BY <2>1, <3>3
  <2>5. Settled(n)'
    BY <2>2, <2>3, <2>4 DEF Settled
  <2> QED
    BY <1>3, <2>5 DEF Settled
<1> QED
  BY <1>4, <1>5

LEMMA AckAfter ==
  ASSUME IInv, IdInv, AckInv, IInv', IdInv', NEW s \in Session, NEW records,
         StepOf(s, records)
  PROVE  AckInv'
<1>1. TypeOK /\ LogInv /\ Appends(records) /\ Alone(s)
  BY DEF IInv, StepOf
<1>2. /\ \A r \in Range(wal) : r \in Range(wal)'
      /\ disk' = disk
  BY <1>1, AfterAppend DEF Appends
<1>3. ASSUME NEW k \in Key, NEW l, Kept(k, l) PROVE Kept(k, l)'
  <2>1. CASE l = 0 \/ \E v \in disk[k] : l <= v.lsn
    BY <1>2, <2>1 DEF Kept
  <2>2. ASSUME NEW r \in Range(wal), r.op = "data", r.key = k, l <= r.lsn,
               Settled(r.txn)
        PROVE  Kept(k, l)'
    <3>1. Settled(r.txn)'
      BY <2>2, SettledAfter
    <3> QED
      BY <1>2, <2>2, <3>1 DEF Kept
  <2> QED
    BY <1>3, <2>1, <2>2 DEF Kept
<1>4. ASSUME NEW k \in Key PROVE Kept(k, acked[k])'
  <2>0. PICK l : l = acked'[k]
    OBVIOUS
  <2>1. CASE l \in {acked[k], 0}
    <3>1. Kept(k, l)
      BY <2>1 DEF AckInv, Kept
    <3>2. Kept(k, l)'
      BY <1>3, <3>1
    <3> QED
      BY <2>0, <3>2 DEF Kept
  <2>2. ASSUME NEW r \in Range(wal)', r.op = "data", r.key = k, r.lsn = l,
               \/ r.txn = 0
               \/ /\ r.txn = txn_id[s] /\ txn_id'[s] = 0
                  /\ r.txn \notin LoggedAs("abort")'
        PROVE  Kept(k, acked[k])'
    <3>1. PICK n : n = r.txn
      OBVIOUS
    <3>2. n # 0 => n < next_txn' /\ \A o \in Session : txn_id'[o] # n
      <4>1. r.txn < next_txn'
        BY DEF IdInv
      <4>2. \A o \in Session : o # s /\ n # 0 /\ n = txn_id[s] => txn_id'[o] # n
        BY <1>1 DEF Alone, IdInv
      <4> QED
        BY <2>2, <3>1, <4>1, <4>2
    <3>3. Settled(n)'
      BY <2>2, <3>1, <3>2 DEF Settled
    <3>4. Settled(r.txn)'
      BY <3>1, <3>3 DEF Settled
    <3>5. l \in Lsn
      BY <2>0 DEF IInv, TypeOK
    <3> QED
      BY <2>0, <2>2, <3>4, <3>5, LsnIsNat DEF Kept
  <2> QED
    BY <2>0, <2>1, <2>2 DEF StepOf
<1> QED
  BY <1>4 DEF AckInv
LEMMA OwnAfter ==
  ASSUME IInv, NEW o \in Session, NEW records, Appends(records),
         Own(o), txn_id'[o] = txn_id[o], write_set'[o] = write_set[o],
         journal_'[o] = journal_[o],
         \A i \in 1 .. Len(records) :
           records[i].op = "data" => records[i].txn # txn_id[o] \/ txn_id[o] = 0
  PROVE  Own(o)'
<1>1. \A r \in Range(wal)' :
        r \in Range(wal) \/ \E i \in 1 .. Len(records) : r = records[i]
  BY AfterAppend DEF IInv
<1>2. ASSUME txn_id[o] # 0, NEW r \in Range(wal)', r.op = "data", r.txn = txn_id[o]
      PROVE  write_set'[o][r.key] # NoSample
  BY <1>1, <1>2 DEF Own
<1> QED
  BY <1>2 DEF Own

(* A session without a transaction has nothing that could be wrong.        *)
LEMMA EndedAfter ==
  ASSUME IInv', NEW o \in Session, txn_id'[o] = 0
  PROVE  Own(o)' /\ Sampled(o)'
<1>1. read_set'[o] = Unsampled /\ write_set'[o] = Unsampled /\ wal_lsn' \in Lsn
  BY DEF IInv, ClosedInv, Closed, TypeOK
<1>2. ASSUME NEW k \in Key PROVE ~(read_set'[o][k] > wal_lsn')
                                 /\ ~(write_set'[o][k] > wal_lsn')
  BY <1>1, LsnIsNat DEF Unsampled, NoSample
<1>3. Sampled(o)'
  BY <1>2 DEF Sampled, ReadOk, WriteOk
<1> QED
  BY <1>3 DEF Own

LEMMA SampleAfter ==
  ASSUME IInv, NEW records, Appends(records)
  PROVE  /\ \A k, l, b : CommittedAt(k, l, b) => CommittedAt(k, l, b)'
         /\ \A k, l : ReadOk(k, l) => ReadOk(k, l)'
         /\ \A k, l, t : WriteOk(k, l, t) => WriteOk(k, l, t)'
<1>1. /\ \A r \in Range(wal) : r \in Range(wal)'
      /\ wal_lsn' = wal_lsn /\ CurrentLsn' = CurrentLsn + Len(records)
      /\ Len(records) \in Nat /\ CurrentLsn \in Nat
  BY SMTT(20), AfterAppend, RecordIs DEF Appends, IInv
<1>2. ASSUME NEW k, NEW l, NEW b, CommittedAt(k, l, b)
      PROVE  CommittedAt(k, l, b)'
  <2>1. PICK r \in Range(wal) :
          /\ r.op = "data" /\ r.key = k /\ r.lsn = l
          /\ r.txn = 0 \/ \E c \in Range(wal) : /\ c.op = "commit"
                                                /\ c.txn = r.txn /\ c.lsn <= b
    BY <1>2 DEF CommittedAt
  <2> QED
    BY <1>1, <2>1 DEF CommittedAt
<1>3. ASSUME NEW k, NEW l, ReadOk(k, l) PROVE ReadOk(k, l)'
  <2>1. CASE l > wal_lsn
    <3>1. PICK b, d : b = CurrentLsn /\ d = CurrentLsn'
      OBVIOUS
    <3>2. CommittedAt(k, l, b) /\ b <= d
      BY <1>1, <1>3, <2>1, <3>1 DEF ReadOk
    <3>3. PICK r \in Range(wal) :
            /\ r.op = "data" /\ r.key = k /\ r.lsn = l
            /\ r.txn = 0 \/ \E c \in Range(wal) : /\ c.op = "commit"
                                                  /\ c.txn = r.txn /\ c.lsn <= b
      BY <3>2 DEF CommittedAt
    <3>4. \A c \in Range(wal) : c.lsn <= b => c.lsn <= d
      <4>1. \A c \in Range(wal) : c.lsn \in Nat
        BY TxnIsNat DEF IInv
      <4>2. b \in Nat /\ d \in Nat
        BY <1>1, <3>1
      <4> QED
        BY <3>2, <4>1, <4>2
    <3>5. CommittedAt(k, l, d)'
      BY <1>1, <3>3, <3>4 DEF CommittedAt
    <3> QED
      BY <3>1, <3>5 DEF ReadOk, CommittedAt
  <2>2. CASE ~(l > wal_lsn)
    BY <1>1, <2>2 DEF ReadOk
  <2> QED
    BY <2>1, <2>2
<1>4. ASSUME NEW k, NEW l, NEW t, WriteOk(k, l, t) PROVE WriteOk(k, l, t)'
  <2>1. CASE l > wal_lsn
    <3>1. PICK o \in Range(wal) : /\ o.op = "data" /\ o.txn = t /\ o.key = k
                                  /\ l < o.lsn /\ CommittedAt(k, l, o.lsn)
      BY <1>4, <2>1 DEF WriteOk
    <3>2. CommittedAt(k, l, o.lsn)'
      BY <1>2, <3>1
    <3> QED
      BY <1>1, <3>1, <3>2 DEF WriteOk
  <2>2. CASE ~(l > wal_lsn)
    BY <1>1, <2>2 DEF WriteOk
  <2> QED
    BY <2>1, <2>2
<1> QED
  BY <1>2, <1>3, <1>4

LEMMA SampledAfter ==
  ASSUME IInv, NEW o \in Session, NEW records, Appends(records), Sampled(o),
         txn_id'[o] = txn_id[o], read_set'[o] = read_set[o],
         write_set'[o] = write_set[o]
  PROVE  Sampled(o)'
<1> SUFFICES ASSUME NEW k \in Key
             PROVE  /\ ReadOk(k, read_set[o][k])'
                    /\ WriteOk(k, write_set[o][k], txn_id[o])'
  BY DEF Sampled
<1>1. PICK l, m, t : l = read_set[o][k] /\ m = write_set[o][k] /\ t = txn_id[o]
  OBVIOUS
<1>2. ReadOk(k, l) /\ WriteOk(k, m, t)
  BY <1>1 DEF Sampled
<1>3. ReadOk(k, l)' /\ WriteOk(k, m, t)'
  BY <1>2, SampleAfter
<1> QED
  BY <1>1, <1>3 DEF ReadOk, WriteOk

(* Looking a key up does not change what its current version is.           *)
LEMMA CurrentAfter ==
  ASSUME IInv, NEW o \in Session, UNCHANGED <<wal, wal_lsn, disk>>,
         memtable'[o] = memtable[o] \/ memtable'[o] = Refreshed(o)
  PROVE  \A k \in Key :
           ResolveCurrentCommittedLsn(Refreshed(o), k)'
             = ResolveCurrentCommittedLsn(Refreshed(o), k)
<1>1. PICK m, n : m = memtable[o] /\ n = memtable'[o]
  OBVIOUS
<1>2. TypeOK /\ m \in [Key -> Entry]
  BY <1>1 DEF IInv, TypeOK
<1>3. ReplayPending(n) = ReplayPending(m)
  <2>1. CASE n = m
    BY <2>1
  <2>2. CASE n = ReplayPending(m)
    <3>1. n \in [Key -> Entry]
      BY <1>2, <2>2, ReplayIs
    <3>2. /\ ReplayPending(n) \in [Key -> Entry] /\ ReplayPending(m) \in [Key -> Entry]
          /\ \A k \in Key : ReplayPending(n)[k] = ReplayPending(m)[k]
      BY <1>2, <2>2, <3>1, ReplayIs
    <3> QED
      BY <3>2
  <2> QED
    BY <1>1, <2>1, <2>2 DEF Refreshed
<1>4. PICK R : R = ReplayPending(m)
  OBVIOUS
<1>5. ReplayPending(n)' = ReplayPending(n)
  BY DEF ReplayPending, DataOf, CommittedData, LoggedAs
<1>6. Refreshed(o) = R /\ Refreshed(o)' = R
  <2>1. Refreshed(o)' = ReplayPending(n)'
    BY <1>1 DEF Refreshed, ReplayPending, DataOf, CommittedData, LoggedAs
  <2> QED
    BY <1>1, <1>3, <1>4, <1>5, <2>1 DEF Refreshed
<1>7. ASSUME NEW k \in Key
      PROVE  ResolveCurrentCommittedLsn(Refreshed(o), k)'
               = ResolveCurrentCommittedLsn(Refreshed(o), k)
  <2>1. LatestCommittedLsnForKey(k)' = LatestCommittedLsnForKey(k)
    BY DEF LatestCommittedLsnForKey, DataOf, CommittedData, LoggedAs
  <2> HIDE DEF LatestCommittedLsnForKey
  <2>2. ResolveCurrentCommittedLsn(R, k)' = ResolveCurrentCommittedLsn(R, k)
    BY <2>1 DEF ResolveCurrentCommittedLsn
  <2>3. ResolveCurrentCommittedLsn(Refreshed(o), k)'
          = ResolveCurrentCommittedLsn(R, k)'
    BY <1>6 DEF ResolveCurrentCommittedLsn
  <2> QED
    BY <1>6, <2>2, <2>3
<1> QED
  BY <1>7

LEMMA ValidAfter ==
  ASSUME IInv, NEW o \in Session, UNCHANGED <<wal, wal_lsn, disk, tickets>>,
         memtable'[o] = memtable[o] \/ memtable'[o] = Refreshed(o),
         txn_id'[o] = txn_id[o], read_set'[o] = read_set[o],
         write_set'[o] = write_set[o], TicketsHold(o), ~PhantomConflict(o)
  PROVE  TicketsHold(o)' /\ ~PhantomConflict(o)'
<1>1. ~PhantomConflict(o)'
  BY DEF PhantomConflict
<1>2. TicketsHold(o)'
  BY CurrentAfter DEF TicketsHold
<1> QED
  BY <1>1, <1>2
LEMMA TInvAfter ==
  ASSUME IInv, TInv, IInv', NEW s \in Session, NEW records, StepOf(s, records),
         Own(s)', Sampled(s)', Valid(s)'
  PROVE  TInv'
<1>1. IdInv' /\ AckInv'
  BY IdAfter, AckAfter DEF TInv
<1>2. Alone(s) /\ Appends(records)
  BY DEF StepOf
<1>3. ASSUME NEW o \in Session, o # s PROVE Own(o)' /\ Sampled(o)' /\ Valid(o)'
  <2>1. /\ memtable'[o] = memtable[o] /\ txn_id'[o] = txn_id[o]
        /\ read_set'[o] = read_set[o] /\ write_set'[o] = write_set[o]
        /\ journal_'[o] = journal_[o]
        /\ \/ stage'[o] = stage[o]
           \/ stage[o] = "validated" /\ stage'[o] = "raced"
    BY <1>2, <1>3 DEF Alone
  <2>2. Own(o) /\ Sampled(o) /\ Valid(o)
    BY DEF TInv
  <2>3. \A i \in 1 .. Len(records) : records[i].txn # txn_id[o] \/ txn_id[o] = 0
    BY <1>3 DEF StepOf, TInv, IdInv
  <2>4. Own(o)'
    BY <1>2, <2>1, <2>2, <2>3, OwnAfter
  <2>5. Sampled(o)'
    BY <1>2, <2>1, <2>2, SampledAfter
  <2>6. CASE stage'[o] = "validated"
    <3>1. UNCHANGED <<wal, wal_lsn, disk, tickets>>
      BY <1>3, <2>6 DEF StepOf
    <3>2. TicketsHold(o) /\ ~PhantomConflict(o)
      BY <2>1, <2>2, <2>6 DEF Valid
    <3>3. TicketsHold(o)' /\ ~PhantomConflict(o)'
      BY <2>1, <3>1, <3>2, ValidAfter
    <3> QED
      BY <2>4, <2>5, <3>3 DEF Valid
  <2>7. CASE stage'[o] # "validated"
    BY <2>4, <2>5, <2>7 DEF Valid
  <2> QED
    BY <2>6, <2>7
<1> QED
  BY <1>1, <1>3 DEF TInv

(* A step that keeps what its transaction noted, and one that ends it.     *)
LEMMA KeptTInv ==
  ASSUME IInv, TInv, IInv', NEW s \in Session, NEW records, StepOf(s, records),
         txn_id'[s] = txn_id[s], read_set'[s] = read_set[s],
         write_set'[s] = write_set[s], journal_'[s] = journal_[s],
         \A i \in 1 .. Len(records) : records[i].op # "data", Valid(s)'
  PROVE  TInv'
<1>1. Appends(records) /\ Own(s) /\ Sampled(s)
  BY DEF StepOf, TInv
<1>2. Own(s)'
  BY <1>1, OwnAfter
<1>3. Sampled(s)'
  BY <1>1, SampledAfter
<1> QED
  BY <1>2, <1>3, TInvAfter

LEMMA EndedTInv ==
  ASSUME IInv, TInv, IInv', NEW s \in Session, NEW records, StepOf(s, records),
         txn_id'[s] = 0
  PROVE  TInv'
<1>1. Own(s)' /\ Sampled(s)'
  BY EndedAfter
<1>2. Valid(s)'
  BY DEF IInv, ClosedInv, Closed, Valid
<1> QED
  BY <1>1, <1>2, TInvAfter

LEMMA CommittedNow ==
  ASSUME IInv, NEW k, NEW r \in Range(wal), r.op = "data", r.key = k,
         r.txn \in {0} \cup LoggedAs("commit")
  PROVE  CommittedAt(k, r.lsn, CurrentLsn) /\ r.lsn <= CurrentLsn
<1>1. r.lsn <= CurrentLsn /\ \A c \in Range(wal) : c.lsn <= CurrentLsn
  BY LsnsAreUnique DEF IInv
<1>2. CASE r.txn = 0
  BY <1>1, <1>2 DEF CommittedAt
<1>3. CASE r.txn \in LoggedAs("commit")
  <2>1. PICK c \in Range(wal) : c.op = "commit" /\ c.txn = r.txn
    BY <1>3 DEF LoggedAs
  <2> QED
    BY <1>1, <2>1 DEF CommittedAt
<1> QED
  BY <1>2, <1>3

LEMMA CommittedLater ==
  ASSUME IInv, NEW k, NEW l, NEW b \in Nat, NEW d \in Nat, b <= d,
         CommittedAt(k, l, b)
  PROVE  CommittedAt(k, l, d)
<1>1. PICK r \in Range(wal) :
        /\ r.op = "data" /\ r.key = k /\ r.lsn = l
        /\ r.txn = 0 \/ \E c \in Range(wal) : /\ c.op = "commit" /\ c.txn = r.txn
                                              /\ c.lsn <= b
  BY DEF CommittedAt
<1>2. \A c \in Range(wal) : c.lsn \in Nat
  BY TxnIsNat DEF IInv
<1>3. \A c \in Range(wal) : c.lsn <= b => c.lsn <= d
  BY <1>2
<1> QED
  BY <1>1, <1>3 DEF CommittedAt

(* What is taken for the current version, is one.                          *)
LEMMA CurrentOk ==
  ASSUME IInv, NEW s \in Session, NEW k \in Key
  PROVE  /\ ReadOk(k, ResolveCurrentCommittedLsn(Refreshed(s), k))
         /\ ReadOk(k, Sample(s, k)) /\ ReadOk(k, ReadSample(s, k))
<1>1. TypeOK /\ LogInv /\ memtable[s] \in [Key -> Entry] /\ wal_lsn \in Nat
  BY RecordIs DEF IInv, TypeOK
<1>2. PICK R : R = Refreshed(s)
  OBVIOUS
<1>3. PICK x : x = ResolveCurrentCommittedLsn(R, k)
  OBVIOUS
<1>4. R \in [Key -> Entry]
  BY <1>2, SampleType
<1>5. Known(R[k], k)
  <2>1. \A j \in Key : Known(memtable[s][j], j)
    BY DEF IInv, TableInv
  <2> QED
    BY <1>1, <1>2, <2>1, KnownAfterReplay DEF Refreshed
<1>6. x \in Lsn /\ \/ x = 0 \/ \E v \in disk[k] : x = v.lsn
                   \/ R[k].durable /\ x = R[k].lsn
                   \/ x = LatestCommittedLsnForKey(k)
  BY <1>1, <1>3, <1>4, CurrentIs
<1>7. ASSUME x > wal_lsn PROVE CommittedAt(k, x, CurrentLsn)
  <2>1. x \in Nat /\ x > 0
    BY <1>1, <1>6, <1>7, LsnIsNat
  <2>2. \A v \in disk[k] : v.lsn <= wal_lsn /\ v.lsn \in Nat
    <3>1. disk[k] \in SUBSET Version /\ \A v \in Version : v.lsn \in Nat
      BY <1>1, LsnIsNat DEF TypeOK, Version
    <3> QED
      BY <1>1, <3>1 DEF LogInv
  <2>3. \A v \in disk[k] : x # v.lsn
    BY <1>1, <1>7, <2>1, <2>2
  <2>4. CASE R[k].durable /\ x = R[k].lsn
    <3>1. PICK r \in Range(wal) : /\ r.op = "data" /\ r.key = k
                                  /\ r.lsn = R[k].lsn /\ r.txn = R[k].txn
      BY <1>5, <1>7, <2>4 DEF Known
    <3>2. r.txn \in {0} \cup LoggedAs("commit")
      BY <1>5, <2>1, <2>4, <3>1 DEF Known
    <3> QED
      BY <2>4, <3>1, <3>2, CommittedNow
  <2>5. CASE x = LatestCommittedLsnForKey(k)
    <3>1. PICK r \in CommittedData(k) : r.lsn = x
      BY <1>1, <2>1, <2>5, LatestIs
    <3>2. /\ r \in Range(wal) /\ r.op = "data" /\ r.key = k
          /\ r.txn \in {0} \cup LoggedAs("commit")
      BY <1>1, <3>1, DataOfIs
    <3> QED
      BY <3>1, <3>2, CommittedNow
  <2> QED
    BY <1>6, <2>1, <2>3, <2>4, <2>5
<1>8. ReadOk(k, x)
  BY <1>7 DEF ReadOk
<1>9. ReadOk(k, Sample(s, k))
  <2>1. Sample(s, k) \in Nat /\ Sample(s, k) <= wal_lsn
    BY SampleType, LsnIsNat
  <2> QED
    BY <1>1, <2>1 DEF ReadOk
<1> QED
  BY <1>2, <1>3, <1>8, <1>9 DEF ReadSample

(* Nothing is taken for a version that has not been logged.                *)
LEMMA SampleBound ==
  ASSUME IInv, NEW k, NEW l \in Lsn, ReadOk(k, l)
  PROVE  l <= CurrentLsn
<1>1. wal_lsn \in Nat /\ Len(wal) \in Nat /\ l \in Nat /\ CurrentLsn \in Nat
  BY RecordIs, LsnIsNat DEF IInv
<1>2. CASE l > wal_lsn
  <2>1. PICK r \in Range(wal) : r.lsn = l
    BY <1>2 DEF ReadOk, CommittedAt
  <2> QED
    BY <2>1, LsnsAreUnique DEF IInv
<1>3. CASE ~(l > wal_lsn)
  BY <1>1, <1>3 DEF CurrentLsn
<1> QED
  BY <1>2, <1>3

LEMMA BeginTInv ==
  ASSUME IInv, TInv, NEW s \in Session, Begin(s)
  PROVE  TInv'
<1>1. IInv' /\ StepOf(s, <<>>) /\ TypeOK
  BY BeginIInv DEF IInv
<1>2. /\ txn_id'[s] = next_txn /\ txn_id[s] = 0 /\ stage'[s] = "none"
      /\ read_set' = read_set /\ write_set' = write_set /\ journal_' = journal_
      /\ wal' = wal /\ wal_lsn' = wal_lsn
  BY <1>1 DEF Begin, Idle, TypeOK, sets, undo, files
<1>3. read_set[s] = Unsampled /\ write_set[s] = Unsampled /\ journal_[s] = <<>>
  BY <1>2 DEF IInv, ClosedInv, Closed
<1>4. \A r \in Range(wal) : r.txn # next_txn
  <2>1. \A r \in Range(wal) : r.txn < next_txn /\ r.txn \in Nat
    BY <1>1, TxnIsNat DEF TInv, IdInv
  <2>2. next_txn \in Nat
    BY <1>1, TxnIsNat
  <2> QED
    BY <2>1, <2>2
<1>5. Own(s)'
  <2>1. \A i \in 1 .. Len(<<>>) : FALSE
    OBVIOUS
  <2> QED
    BY <1>2, <1>3, <1>4, <2>1 DEF Own
<1>6. Sampled(s)'
  <2>1. wal_lsn \in Nat
    BY <1>1, RecordIs
  <2>2. \A k \in Key : ~(read_set'[s][k] > wal_lsn') /\ ~(write_set'[s][k] > wal_lsn')
    BY <1>2, <1>3, <2>1 DEF Unsampled, NoSample
  <2> QED
    BY <2>2 DEF Sampled, ReadOk, WriteOk
<1>7. Valid(s)'
  BY <1>2 DEF Valid
<1> QED
  BY <1>1, <1>5, <1>6, <1>7, TInvAfter

LEMMA QuietTInv ==
  ASSUME IInv, TInv, NEW s \in Session,
         \/ Open(s) \/ Close(s) \/ Savepoint(s) \/ ReleaseSavepoint(s)
  PROVE  TInv'
<1>0. TypeOK /\ Closed(s)
  BY DEF IInv, ClosedInv
<1>1. CASE Open(s)
  <2>1. IInv' /\ StepOf(s, <<>>)
    BY <1>1, OpenIInv
  <2>2. txn_id'[s] = 0
    BY <1>0, <1>1 DEF Closed, Open
  <2> QED
    BY <2>1, <2>2, EndedTInv
<1>2. CASE Close(s)
  <2>1. IInv' /\ StepOf(s, <<>>)
    BY <1>2, CloseIInv
  <2>2. txn_id'[s] = 0
    BY <1>0, <1>2, EndTxnsIs DEF Close
  <2> QED
    BY <2>1, <2>2, EndedTInv
<1>3. CASE Savepoint(s) \/ ReleaseSavepoint(s)
  <2>1. IInv' /\ StepOf(s, <<>>)
    BY <1>3, SavepointIInv
  <2>2. /\ txn_id' = txn_id /\ read_set' = read_set /\ write_set' = write_set
        /\ journal_' = journal_ /\ stage'[s] = "none"
    BY <1>3 DEF Savepoint, ReleaseSavepoint, Active, Idle, sets
  <2>3. Valid(s)'
    BY <2>2 DEF Valid
  <2>4. \A i \in 1 .. Len(<<>>) : FALSE
    OBVIOUS
  <2>5. PICK q : q = <<>>
    OBVIOUS
  <2>6. StepOf(s, q) /\ \A i \in 1 .. Len(q) : q[i].op # "data"
    BY <2>1, <2>4, <2>5
  <2> QED
    BY <2>1, <2>2, <2>3, <2>6, KeptTInv
<1> QED
  BY <1>1, <1>2, <1>3
LEMMA ReadKeyTInv ==
  ASSUME IInv, TInv, NEW s \in Session, NEW k \in Key, ReadKey(s, k)
  PROVE  TInv'
<1>1. IInv' /\ StepOf(s, <<>>) /\ TypeOK /\ Appends(<<>>)
  BY ReadKeyIInv DEF IInv, StepOf
<1>2. /\ read_set' = [read_set EXCEPT ![s][k] = ReadSample(s, k)]
      /\ txn_id' = txn_id /\ write_set' = write_set /\ journal_' = journal_
      /\ stage'[s] = "none"
  BY DEF ReadKey, Active, Idle, undo
<1>3. PICK q : q = <<>>
  OBVIOUS
<1>4. Appends(q) /\ StepOf(s, q) /\ \A i \in 1 .. Len(q) : q[i].op # "data"
  BY <1>1, <1>3
<1>5. Own(s)'
  BY <1>2, <1>4, OwnAfter DEF TInv
<1>6. Sampled(s)'
  <2> SUFFICES ASSUME NEW j \in Key
               PROVE  /\ ReadOk(j, read_set[s][j])'
                      /\ WriteOk(j, write_set[s][j], txn_id[s])'
    BY DEF Sampled
  <2>1. PICK l, m, t : l = read_set'[s][j] /\ m = write_set[s][j] /\ t = txn_id[s]
    OBVIOUS
  <2>2. ReadOk(j, l)
    <3>1. CASE j = k
      <4>1. l = ReadSample(s, k)
        BY <1>1, <1>2, <2>1, <3>1 DEF TypeOK
      <4> QED
        BY <3>1, <4>1, CurrentOk
    <3>2. CASE j # k
      <4>1. l = read_set[s][j]
        BY <1>1, <1>2, <2>1, <3>2 DEF TypeOK
      <4> QED
        BY <4>1 DEF TInv, Sampled
    <3> QED
      BY <3>1, <3>2
  <2>3. WriteOk(j, m, t)
    BY <2>1 DEF TInv, Sampled
  <2>4. ReadOk(j, l)' /\ WriteOk(j, m, t)'
    BY <1>1, <2>2, <2>3, SampleAfter
  <2> QED
    BY <1>2, <2>1, <2>4 DEF ReadOk, WriteOk
<1>7. Valid(s)'
  BY <1>2 DEF Valid
<1> QED
  BY <1>1, <1>5, <1>6, <1>7, TInvAfter

LEMMA ScanTInv ==
  ASSUME IInv, TInv, NEW s \in Session, Scan(s)
  PROVE  TInv'
<1> DEFINE row(k) == ResolveAtSnapshot(memtable[s], k, txn_id[s], snapshot[s])
                       # Absent
           rows == {k \in Key : row(k)}
           reads == [k \in Key |-> IF k \in rows THEN Sample(s, k)
                                   ELSE read_set[s][k]]
<1>1. IInv' /\ StepOf(s, <<>>) /\ TypeOK /\ Appends(<<>>)
  BY ScanIInv DEF IInv, StepOf
<1>2. /\ read_set' = [read_set EXCEPT ![s] = reads] /\ Interfere(s)
      /\ txn_id' = txn_id /\ write_set' = write_set /\ journal_' = journal_
      /\ stage[s] = "none"
  BY DEF Scan, Active, Idle, undo
<1> HIDE DEF rows
<1>3. PICK q : q = <<>>
  OBVIOUS
<1>4. Appends(q) /\ StepOf(s, q) /\ \A i \in 1 .. Len(q) : q[i].op # "data"
  BY <1>1, <1>3
<1>5. Own(s)'
  BY <1>2, <1>4, OwnAfter DEF TInv
<1>6. read_set'[s] = reads
  BY <1>1, <1>2 DEF TypeOK
<1>7. Sampled(s)'
  <2> SUFFICES ASSUME NEW j \in Key
               PROVE  /\ ReadOk(j, read_set[s][j])'
                      /\ WriteOk(j, write_set[s][j], txn_id[s])'
    BY DEF Sampled
  <2>1. PICK l, m, t : l = read_set'[s][j] /\ m = write_set[s][j] /\ t = txn_id[s]
    OBVIOUS
  <2>2. l = Sample(s, j) \/ l = read_set[s][j]
    BY <1>6, <2>1
  <2>3. ReadOk(j, l) /\ WriteOk(j, m, t)
    BY <2>1, <2>2, CurrentOk DEF TInv, Sampled
  <2>4. ReadOk(j, l)' /\ WriteOk(j, m, t)'
    BY <1>1, <2>3, SampleAfter
  <2> QED
    BY <1>2, <2>1, <2>4 DEF ReadOk, WriteOk
<1>8. Valid(s)'
  BY <1>1, <1>2, InterfereIs DEF Valid
<1> QED
  BY <1>1, <1>5, <1>7, <1>8, TInvAfter

(* A write ticket is a sample, the current version, or what was read.      *)
LEMMA TicketOk ==
  ASSUME IInv, TInv, NEW s \in Session, NEW k \in Key,
         NEW kind \in {"insert", "update", "delete"}
  PROVE  ReadOk(k, WriteTicket(s, k, kind))
<1>1. /\ ReadOk(k, ResolveCurrentCommittedLsn(Refreshed(s), k))
      /\ ReadOk(k, Sample(s, k)) /\ ReadOk(k, ReadSample(s, k))
      /\ ReadOk(k, read_set[s][k])
  BY CurrentOk DEF TInv, Sampled
<1>2. read_set[s][k] \in Lsn \cup {NoSample}
  BY DEF IInv, TypeOK
<1>3. CASE kind = "update"
  BY <1>1, <1>3 DEF WriteTicket
<1>4. CASE kind # "update" /\ read_set[s][k] = NoSample
  BY <1>1, <1>4 DEF WriteTicket, NoSample
<1>5. CASE kind # "update" /\ read_set[s][k] = 0
  BY <1>1, <1>5 DEF WriteTicket, NoSample
<1>6. CASE kind # "update" /\ read_set[s][k] \in Lsn \ {0}
  <2>1. read_set[s][k] > 0 /\ read_set[s][k] # NoSample
    BY <1>6, LsnIsNat DEF NoSample
  <2> QED
    BY <1>1, <1>6, <2>1 DEF WriteTicket
<1> QED
  BY <1>2, <1>3, <1>4, <1>5, <1>6

LEMMA WriteTInv ==
  ASSUME IInv, TInv, NEW s \in Session, NEW k \in Key,
         NEW kind \in {"insert", "update", "delete"}, Write(s, k, kind)
  PROVE  TInv'
<1> DEFINE ticket == WriteTicket(s, k, kind)
<1>1. IInv' /\ TypeOK /\ LogInv
  BY WriteIInv DEF IInv
<1>2. PICK records :
        /\ StepOf(s, records) /\ Len(records) = 1
        /\ records[1].op = "data" /\ records[1].key = k
        /\ records[1].txn = txn_id[s] /\ records[1].lsn = CurrentLsn + 1
  BY WriteIInv
<1>3. /\ read_set' = [read_set EXCEPT ![s][k] = ReadSample(s, k)]
      /\ write_set' = [write_set EXCEPT ![s][k] = ticket]
      /\ \E old : journal_' = [journal_ EXCEPT ![s] = Append(@, [key |-> k, old |-> old])]
      /\ txn_id' = txn_id /\ Interfere(s) /\ stage[s] = "none" /\ txn_id[s] # 0
  BY DEF Write, Active, Idle
<1>4. /\ Appends(records) /\ records[1] \in Range(wal)'
      /\ \A r \in Range(wal)' : r \in Range(wal) \/ r = records[1]
      /\ \A r \in Range(wal) : r \in Range(wal)'
  <2>1. Appends(records) /\ 1 \in 1 .. Len(records)
        /\ \A i \in 1 .. Len(records) : i = 1
    BY <1>2 DEF StepOf
  <2> QED
    BY <1>1, <2>1, AfterAppend
<1>5. ticket \in Lsn /\ ticket # NoSample
  BY SampleType, LsnIsNat DEF NoSample
<1> HIDE DEF ticket
<1>6. /\ write_set'[s][k] = ticket
      /\ \A j \in Key : j # k => write_set'[s][j] = write_set[s][j]
      /\ read_set'[s][k] = ReadSample(s, k)
      /\ \A j \in Key : j # k => read_set'[s][j] = read_set[s][j]
  BY <1>1, <1>3 DEF TypeOK
<1>7. Own(s)'
  <2>1. ASSUME NEW r \in Range(wal)', r.op = "data", r.txn = txn_id[s]
        PROVE  write_set'[s][r.key] # NoSample
    <3>1. CASE r = records[1]
      BY <1>2, <1>5, <1>6, <3>1
    <3>2. CASE r \in Range(wal)
      <4>1. r.key \in Key
        BY <1>1, <2>1, <3>2, RecordIs DEF DataRecord
      <4>2. write_set[s][r.key] # NoSample
        BY <1>3, <2>1, <3>2 DEF TInv, Own
      <4> QED
        BY <1>5, <1>6, <4>1, <4>2
    <3> QED
      BY <1>4, <3>1, <3>2
  <2>2. ASSUME NEW i \in 1 .. Len(journal_'[s])
        PROVE  write_set'[s][journal_'[s][i].key] # NoSample
    <3> DEFINE q == journal_[s]
               E == [key : Key, old : Value]
    <3>1. PICK old : journal_' = [journal_ EXCEPT ![s] = Append(q, [key |-> k, old |-> old])]
      BY <1>3
    <3>2. PICK e : e = [key |-> k, old |-> old]
      OBVIOUS
    <3>3. q \in Seq(E) /\ journal_'[s] = Append(q, e) /\ e.key = k
      BY <1>1, <3>1, <3>2 DEF TypeOK
    <3>4. \A j \in 1 .. Len(q) : write_set[s][q[j].key] # NoSample
      BY <1>3 DEF TInv, Own
    <3>5. \A x \in E : x.key \in Key
      OBVIOUS
    <3> HIDE DEF q, E
    <3>6. Len(q) \in Nat /\ \A j \in 1 .. Len(q) : q[j] \in E
      BY <3>3
    <3>7. i \in 1 .. Len(q) + 1 /\ journal_'[s][i] = IF i <= Len(q) THEN q[i] ELSE e
      BY <2>2, <3>3, <3>6
    <3>8. CASE i <= Len(q)
      BY <1>5, <1>6, <3>4, <3>5, <3>6, <3>7, <3>8
    <3>9. CASE ~(i <= Len(q))
      BY <1>5, <1>6, <3>3, <3>7, <3>9
    <3> QED
      BY <3>8, <3>9
  <2> QED
    BY <1>3, <2>1, <2>2 DEF Own
<1>8. Sampled(s)'
  <2> SUFFICES ASSUME NEW j \in Key
               PROVE  /\ ReadOk(j, read_set[s][j])'
                      /\ WriteOk(j, write_set[s][j], txn_id[s])'
    BY DEF Sampled
  <2>1. PICK l, m, t : l = read_set'[s][j] /\ m = write_set'[s][j] /\ t = txn_id[s]
    OBVIOUS
  <2>2. ReadOk(j, l)
    <3>1. CASE j = k
      BY <1>6, <2>1, <3>1, CurrentOk
    <3>2. CASE j # k
      BY <1>6, <2>1, <3>2 DEF TInv, Sampled
    <3> QED
      BY <3>1, <3>2
  <2>3. ReadOk(j, l)'
    BY <1>4, <2>2, SampleAfter
  <2>4. WriteOk(j, m, t)'
    <3>1. CASE j # k
      <4>1. WriteOk(j, m, t)
        BY <1>6, <2>1, <3>1 DEF TInv, Sampled
      <4> QED
        BY <1>4, <4>1, SampleAfter
    <3>2. CASE j = k
      <4>1. m = ticket /\ m \in Lsn /\ ReadOk(k, m)
        BY <1>5, <1>6, <2>1, <3>2, TicketOk DEF ticket
      <4>2. PICK b : b = CurrentLsn
        OBVIOUS
      <4>3. CASE m > wal_lsn
        <5>1. b \in Nat /\ b + 1 \in Nat /\ b <= b + 1 /\ m <= b /\ m \in Nat
          BY <1>1, <4>1, <4>2, SampleBound, RecordIs, LsnIsNat
        <5>2. CommittedAt(k, m, b)
          BY <4>1, <4>2, <4>3 DEF ReadOk
        <5>3. CommittedAt(k, m, b + 1)
          BY <5>1, <5>2, CommittedLater
        <5>4. CommittedAt(k, m, b + 1)'
          BY <1>4, <5>3, SampleAfter
        <5>5. records[1].lsn = b + 1 /\ m < b + 1
          BY <1>2, <4>2, <5>1
        <5> QED
          BY <1>2, <1>4, <2>1, <3>2, <5>4, <5>5 DEF WriteOk
      <4>4. CASE ~(m > wal_lsn)
        BY <1>4, <4>4 DEF WriteOk, Appends
      <4> QED
        BY <4>3, <4>4
    <3> QED
      BY <3>1, <3>2
  <2> QED
    BY <1>3, <2>1, <2>3, <2>4 DEF ReadOk, WriteOk
<1>9. Valid(s)'
  BY <1>1, <1>3, InterfereIs DEF Valid
<1> QED
  BY <1>1, <1>2, <1>7, <1>8, <1>9, TInvAfter
LEMMA EndTInv ==
  ASSUME IInv, TInv, NEW s \in Session,
         \/ Commit(s) \/ EndRollback(s)
         \/ \E k \in Key, kind \in {"insert", "delete"} : Autocommit(s, k, kind)
  PROVE  TInv'
<1>1. IInv' /\ \E records : StepOf(s, records)
  <2>1. CASE Commit(s)
    BY <2>1, CommitIInv
  <2>2. CASE EndRollback(s)
    BY <2>2, EndRollbackIInv
  <2>3. CASE \E k \in Key, kind \in {"insert", "delete"} : Autocommit(s, k, kind)
    BY <2>3, AutocommitIInv
  <2> QED
    BY <2>1, <2>2, <2>3
<1>2. txn_id'[s] = 0
  <2>1. TypeOK
    BY DEF IInv
  <2>2. CASE Commit(s) \/ EndRollback(s)
    BY <2>1, <2>2, EndTxnsIs DEF Commit, EndRollback
  <2>3. CASE \E k \in Key, kind \in {"insert", "delete"} : Autocommit(s, k, kind)
    BY <2>3 DEF Autocommit
  <2> QED
    BY <2>2, <2>3
<1>3. PICK records : StepOf(s, records)
  BY <1>1
<1> QED
  BY <1>1, <1>2, <1>3, EndedTInv

LEMMA ValidateTInv ==
  ASSUME IInv, TInv, NEW s \in Session, ValidateCommitOCC(s)
  PROVE  TInv'
<1>1. IInv' /\ StepOf(s, <<>>) /\ TypeOK
  BY ValidateIInv DEF IInv
<1>2. /\ memtable' = [memtable EXCEPT ![s] = Refreshed(s)]
      /\ stage' = [stage EXCEPT ![s] =
                     IF TicketsHold(s) /\ ~PhantomConflict(s) THEN "validated"
                     ELSE "none"]
      /\ UNCHANGED <<wal, wal_lsn, disk, tickets>>
      /\ txn_id' = txn_id /\ read_set' = read_set /\ write_set' = write_set
      /\ journal_' = journal_
  BY DEF ValidateCommitOCC, files, sets, undo
<1>3. Valid(s)'
  <2>1. CASE TicketsHold(s) /\ ~PhantomConflict(s)
    <3>1. memtable'[s] = Refreshed(s)
      BY <1>1, <1>2 DEF TypeOK
    <3>2. TicketsHold(s)' /\ ~PhantomConflict(s)'
      BY <1>2, <2>1, <3>1, ValidAfter
    <3> QED
      BY <3>2 DEF Valid
  <2>2. CASE ~(TicketsHold(s) /\ ~PhantomConflict(s))
    <3>1. stage'[s] = "none"
      BY <1>1, <1>2, <2>2 DEF TypeOK
    <3> QED
      BY <3>1 DEF Valid
  <2> QED
    BY <2>1, <2>2
<1>4. PICK q : q = <<>>
  OBVIOUS
<1>5. StepOf(s, q) /\ \A i \in 1 .. Len(q) : q[i].op # "data"
  BY <1>1, <1>4
<1> QED
  BY <1>1, <1>2, <1>3, <1>5, KeptTInv

LEMMA CommitFailsTInv ==
  ASSUME IInv, TInv, NEW s \in Session, CommitFails(s)
  PROVE  TInv'
<1>1. IInv' /\ TypeOK
  BY CommitFailsIInv DEF IInv
<1>2. PICK records : /\ StepOf(s, records)
                     /\ \A i \in 1 .. Len(records) : records[i].op # "data"
  BY CommitFailsIInv
<1>3. /\ txn_id' = txn_id /\ read_set' = read_set /\ write_set' = write_set
      /\ journal_' = journal_ /\ stage'[s] = "none"
  BY <1>1 DEF CommitFails, OthersInterfered, sets, undo, TypeOK
<1>4. Valid(s)'
  BY <1>3 DEF Valid
<1> QED
  BY <1>1, <1>2, <1>3, <1>4, KeptTInv

LEMMA RollbackTInv ==
  ASSUME IInv, TInv, NEW s \in Session,
         \/ Rollback(s) \/ RollbackToSavepoint(s) \/ EndRollbackToSavepoint(s)
  PROVE  TInv'
<1>1. TypeOK
  BY DEF IInv
<1>2. IInv' /\ \E records : /\ StepOf(s, records)
                            /\ \A i \in 1 .. Len(records) : records[i].op # "data"
  <2>1. CASE Rollback(s)
    BY <2>1, RollbackIInv
  <2>2. CASE RollbackToSavepoint(s) \/ EndRollbackToSavepoint(s)
    <3>1. IInv' /\ StepOf(s, <<>>)
      BY <2>2, SavepointRollbackIInv
    <3>2. \A i \in 1 .. Len(<<>>) : FALSE
      OBVIOUS
    <3> QED
      BY <3>1, <3>2
  <2> QED
    BY <2>1, <2>2
<1>3. PICK records : /\ StepOf(s, records)
                     /\ \A i \in 1 .. Len(records) : records[i].op # "data"
  BY <1>2
<1>4. /\ txn_id' = txn_id /\ read_set' = read_set /\ write_set' = write_set
      /\ journal_' = journal_ /\ stage'[s] # "validated"
  BY <1>1 DEF Rollback, RollbackToSavepoint, EndRollbackToSavepoint,
              OthersInterfered, sets, undo, TypeOK
<1>5. Valid(s)'
  BY <1>4 DEF Valid
<1> QED
  BY <1>2, <1>3, <1>4, <1>5, KeptTInv

LEMMA UndoTInv ==
  ASSUME IInv, TInv, NEW s \in Session, Undo(s) \/ UndoFails(s)
  PROVE  TInv'
<1>1. /\ IInv' /\ TypeOK
      /\ Len(journal_[s]) \in Nat /\ Len(journal_'[s]) = Len(journal_[s]) - 1
      /\ \A i \in 1 .. Len(journal_'[s]) : journal_'[s][i] = journal_[s][i]
  BY UndoIInv DEF IInv
<1>2. PICK records :
        /\ StepOf(s, records)
        /\ \A i \in 1 .. Len(records) : \E j \in 1 .. Len(journal_[s]) :
             records[i].key = journal_[s][j].key
  BY UndoIInv
<1>3. /\ txn_id' = txn_id /\ read_set' = read_set /\ write_set' = write_set
      /\ Interfere(s) \/ stage' = stage
      /\ stage[s] \in {"undoing", "unwinding"} /\ txn_id[s] # 0
  BY DEF Undo, UndoFails, RollsBack, IInv, ClosedInv, Closed, sets
<1>4. /\ \A r \in Range(wal) :
           r.op = "data" /\ r.txn = txn_id[s] => write_set[s][r.key] # NoSample
      /\ \A j \in 1 .. Len(journal_[s]) : write_set[s][journal_[s][j].key] # NoSample
  BY <1>3 DEF TInv, Own
<1>5. Appends(records)
      /\ \A r \in Range(wal)' :
           r \in Range(wal) \/ \E i \in 1 .. Len(records) : r = records[i]
  BY <1>2, AfterAppend DEF StepOf, IInv
<1>6. Own(s)'
  <2>1. ASSUME NEW r \in Range(wal)', r.op = "data", r.txn = txn_id[s]
        PROVE  write_set[s][r.key] # NoSample
    <3>1. CASE r \in Range(wal)
      BY <1>4, <2>1, <3>1
    <3>2. ASSUME NEW i \in 1 .. Len(records), r = records[i]
          PROVE  write_set[s][r.key] # NoSample
      BY <1>2, <1>4, <3>2
    <3> QED
      BY <1>5, <3>1, <3>2
  <2>2. ASSUME NEW i \in 1 .. Len(journal_'[s])
        PROVE  write_set[s][journal_'[s][i].key] # NoSample
    <3>1. i \in 1 .. Len(journal_[s])
      BY <1>1, <2>2
    <3> QED
      BY <1>1, <1>4, <2>2, <3>1
  <2> QED
    BY <1>3, <2>1, <2>2 DEF Own
<1>7. Sampled(s)'
  BY <1>3, <1>5, SampledAfter DEF TInv
<1>8. Valid(s)'
  BY <1>1, <1>3, InterfereIs DEF Valid
<1> QED
  BY <1>1, <1>2, <1>6, <1>7, <1>8, TInvAfter

(* Only at a restart is an id used again: the log has no transaction then. *)
LEMMA RestartTInv ==
  ASSUME RestartsAnyTime = FALSE, IInv, TInv, Restart
  PROVE  TInv'
<1>1. IInv' /\ TypeOK
  BY RestartIInv DEF IInv
<1>2. /\ \A r \in Range(wal) : r.txn = 0
      /\ open' = {} /\ tickets' = {} /\ next_txn' = 1
      /\ stage' = [s \in Session |-> "none"] /\ EndTxns(Session)
      /\ wal_lsn' = wal_lsn /\ disk' = disk /\ acked' = acked
  BY DEF Restart
<1>8. wal' = wal
  <2>1. PICK n \in 0 .. Len(wal) : /\ \A i \in n + 1 .. Len(wal) : wal[i].op = "abort"
                                  /\ wal' = SubSeq(wal, 1, n)
    BY DEF Restart
  <2>2. \A i \in 1 .. Len(wal) : wal[i].op # "abort"
    <3>1. \A r \in Range(wal) : r.op # "abort"
      BY <1>2 DEF TInv, IdInv, LoggedAs
    <3> QED
      BY <1>1, <3>1, RecordIs
  <2>3. Len(wal) \in Nat /\ n = Len(wal)
    <3>1. Len(wal) \in Nat
      BY <1>1, RecordIs
    <3>2. n < Len(wal) => n + 1 \in 1 .. Len(wal) /\ n + 1 \in n + 1 .. Len(wal)
      BY <3>1
    <3> QED
      BY <2>1, <2>2, <3>1, <3>2
  <2>4. wal \in Seq(AnyRecord)
    BY <1>1 DEF TypeOK, AnyRecord
  <2> QED
    BY <2>1, <2>3, <2>4
<1>3. \A s \in Session : txn_id'[s] = 0
  BY <1>1, <1>2, EndTxnsIs
<1>4. LoggedAs("abort")' = LoggedAs("abort")
  BY <1>8 DEF LoggedAs
<1>5. IdInv'
  BY <1>2, <1>3, <1>4, <1>8 DEF TInv, IdInv
<1>6. AckInv'
  <2> SUFFICES ASSUME NEW k \in Key PROVE Kept(k, acked[k])'
    BY DEF AckInv
  <2>1. Kept(k, acked[k])
    BY DEF TInv, AckInv
  <2>2. \A r \in Range(wal) : Settled(r.txn)'
    BY <1>2 DEF Settled
  <2>3. CASE acked[k] = 0 \/ \E v \in disk[k] : acked[k] <= v.lsn
    BY <1>2, <2>3 DEF Kept
  <2>4. ASSUME NEW r \in Range(wal), r.op = "data", r.key = k, acked[k] <= r.lsn
        PROVE  Kept(k, acked[k])'
    <3>1. r \in Range(wal)' /\ Settled(r.txn)' /\ acked'[k] = acked[k]
      BY <1>2, <1>8, <2>2
    <3> QED
      BY <2>4, <3>1 DEF Kept
  <2> QED
    BY <2>1, <2>3, <2>4 DEF Kept
<1>7. ASSUME NEW s \in Session PROVE Own(s)' /\ Sampled(s)' /\ Valid(s)'
  <2>1. Own(s)' /\ Sampled(s)'
    BY <1>1, <1>3, EndedAfter
  <2>2. stage'[s] = "none"
    BY <1>2
  <2> QED
    BY <2>1, <2>2 DEF Valid
<1> QED
  BY <1>5, <1>6, <1>7 DEF TInv

LEMMA CheckpointTInv ==
  ASSUME IInv, TInv, NEW s \in Session, Checkpoint(s)
  PROVE  TInv'
<1> DEFINE e(k) == memtable[s][k]
           flushed(k) == IF e(k).lsn = 0 THEN {}
                         ELSE {[lsn |-> e(k).lsn, val |-> e(k).val]}
<1>1. IInv' /\ TypeOK /\ LogInv
  BY CheckpointIInv DEF IInv
<1>2. /\ stage[s] = "none" /\ open = {s} /\ memtable[s] = Refreshed(s)
      /\ disk' = [k \in Key |-> disk[k] \cup flushed(k)]
      /\ wal' = <<>> /\ wal_lsn' = NextLsn - 1
      /\ txn_id' = txn_id /\ read_set' = read_set /\ write_set' = write_set
      /\ journal_' = journal_ /\ stage' = stage /\ tickets' = tickets
      /\ next_txn' = next_txn /\ acked' = acked
  BY DEF Checkpoint, Idle, sets, undo, bounds
<1>3. wal_lsn' = CurrentLsn /\ CurrentLsn \in Nat
  BY <1>1, <1>2, NextIs
<1>4. \A r : r \notin Range(wal)'
  BY <1>2 DEF Range
<1>5. IdInv'
  <2>1. \A op : LoggedAs(op)' = {}
    BY <1>4 DEF LoggedAs
  <2> QED
    BY <1>2, <1>4, <2>1 DEF TInv, IdInv
<1>6. ASSUME NEW k \in Key, DataOf(k) # {}, NEW r \in DataOf(k)
      PROVE  \E v \in disk'[k] : r.lsn <= v.lsn
  <2> DEFINE w == NewestOf(DataOf(k))
  <2>1. memtable[s] \in [Key -> Entry]
    BY <1>1 DEF TypeOK
  <2>2. PICK c : memtable[s][k] = TableEntry(w, c) /\ w \in DataOf(k) /\ r.lsn <= w.lsn
    BY <1>1, <1>2, <1>6, <2>1, ReplayIs DEF Refreshed
  <2>3. w.lsn > wal_lsn /\ w.lsn \in Nat /\ wal_lsn \in Nat
    BY <1>1, <2>2, DataOfIs, LsnsAreUnique, LsnIsNat, RecordIs
  <2> HIDE DEF w
  <2>4. e(k).lsn = w.lsn /\ e(k).lsn # 0
    BY <2>2, <2>3 DEF TableEntry
  <2>5. [lsn |-> e(k).lsn, val |-> e(k).val] \in disk'[k]
    BY <1>2, <2>4
  <2> HIDE DEF e
  <2> QED
    BY <2>2, <2>4, <2>5
<1>7. AckInv'
  <2> SUFFICES ASSUME NEW k \in Key PROVE Kept(k, acked[k])'
    BY DEF AckInv
  <2>1. Kept(k, acked[k]) /\ acked[k] \in Nat
    BY <1>1, LsnIsNat DEF TInv, AckInv, TypeOK
  <2>2. CASE acked[k] = 0 \/ \E v \in disk[k] : acked[k] <= v.lsn
    <3>1. \A v \in disk[k] : v \in disk'[k]
      BY <1>2
    <3> QED
      BY <1>2, <2>2, <3>1 DEF Kept
  <2>3. ASSUME NEW r \in Range(wal), r.op = "data", r.key = k, acked[k] <= r.lsn,
               Settled(r.txn)
        PROVE  Kept(k, acked[k])'
    <3>1. r.txn \notin LoggedAs("abort")
      BY <2>3 DEF Settled, TInv, IdInv
    <3>2. r \in DataOf(k) /\ r.lsn \in Nat
      BY <1>1, <2>3, <3>1, DataOfIs, TxnIsNat
    <3>3. PICK v \in disk'[k] : r.lsn <= v.lsn
      BY <1>6, <3>2
    <3>4. v.lsn \in Nat
      <4>1. disk'[k] \in SUBSET Version
        BY <1>1 DEF IInv, TypeOK
      <4> QED
        BY <3>3, <4>1, LsnIsNat DEF Version
    <3>5. acked[k] <= v.lsn
      BY <2>1, <2>3, <3>2, <3>3, <3>4
    <3> QED
      BY <1>2, <3>3, <3>5 DEF Kept
  <2> QED
    BY <2>1, <2>2, <2>3 DEF Kept
<1>8. ASSUME NEW o \in Session PROVE Own(o)' /\ Sampled(o)' /\ Valid(o)'
  <2>1. Own(o)'
    BY <1>2, <1>4 DEF TInv, Own
  <2>2. Valid(o)'
    <3>1. o # s => stage[o] = "none"
      BY <1>2 DEF IInv, ClosedInv, Closed
    <3> QED
      BY <1>2, <3>1 DEF Valid
  <2>3. Sampled(o)'
    <3> SUFFICES ASSUME NEW k \in Key
                 PROVE  /\ ~(read_set'[o][k] > wal_lsn')
                        /\ ~(write_set'[o][k] > wal_lsn')
      BY DEF Sampled, ReadOk, WriteOk
    <3>1. PICK l, m : l = read_set[o][k] /\ m = write_set[o][k]
      OBVIOUS
    <3>2. l \in Lsn \cup {NoSample} /\ m \in Lsn \cup {NoSample}
      BY <1>1, <3>1 DEF TypeOK
    <3>3. ~(NoSample > CurrentLsn)
      BY <1>3 DEF NoSample
    <3>4. ReadOk(k, l) /\ WriteOk(k, m, txn_id[o])
      BY <3>1 DEF TInv, Sampled
    <3>5. ASSUME l \in Lsn PROVE ~(l > CurrentLsn)
      <4>1. l <= CurrentLsn /\ l \in Nat
        BY <3>4, <3>5, SampleBound, LsnIsNat
      <4> QED
        BY <1>3, <4>1
    <3>6. ASSUME m \in Lsn PROVE ~(m > CurrentLsn)
      <4>1. m \in Nat /\ wal_lsn \in Nat /\ wal_lsn <= CurrentLsn
        BY <1>1, <3>6, LsnIsNat, RecordIs DEF CurrentLsn
      <4>2. CASE m > wal_lsn
        <5>1. PICK c \in Range(wal) : m < c.lsn
          BY <3>4, <4>2 DEF WriteOk
        <5>2. c.lsn <= CurrentLsn /\ c.lsn \in Nat
          BY <1>1, LsnsAreUnique, TxnIsNat
        <5> QED
          BY <1>3, <4>1, <5>1, <5>2
      <4> QED
        BY <1>3, <4>1, <4>2
    <3> QED
      BY <1>2, <1>3, <3>1, <3>2, <3>3, <3>5, <3>6
  <2> QED
    BY <2>1, <2>2, <2>3
<1> QED
  BY <1>5, <1>7, <1>8 DEF TInv
LEMMA InitTInv == Init => TInv
<1> SUFFICES ASSUME Init PROVE TInv
  OBVIOUS
<1>1. IInv
  BY InitIInv
<1>2. /\ wal = <<>> /\ tickets = {} /\ next_txn = 1
      /\ txn_id = [s \in Session |-> 0]
      /\ read_set = [s \in Session |-> Unsampled]
      /\ write_set = [s \in Session |-> Unsampled]
      /\ stage = [s \in Session |-> "none"] /\ acked = [k \in Key |-> 0]
  BY DEF Init
<1>3. \A r : r \notin Range(wal)
  BY <1>2 DEF Range
<1>4. IdInv
  <2>1. \A op : LoggedAs(op) = {}
    BY <1>3 DEF LoggedAs
  <2> QED
    BY <1>2, <1>3, <2>1 DEF IdInv
<1>5. AckInv
  BY <1>2 DEF AckInv, Kept
<1>6. wal_lsn \in Nat
  BY <1>1, RecordIs DEF IInv
<1>7. ASSUME NEW s \in Session PROVE Own(s) /\ Sampled(s) /\ Valid(s)
  <2>1. \A k \in Key : ~(read_set[s][k] > wal_lsn) /\ ~(write_set[s][k] > wal_lsn)
    BY <1>2, <1>6 DEF Unsampled, NoSample
  <2>2. Sampled(s)
    BY <2>1 DEF Sampled, ReadOk, WriteOk
  <2> QED
    BY <1>2, <2>2 DEF Own, Valid
<1> QED
  BY <1>4, <1>5, <1>7 DEF TInv

LEMMA NextTInv ==
  ASSUME RestartsAnyTime = FALSE, IInv, TInv, [Next]_vars
  PROVE  TInv'
<1>1. CASE Restart
  BY <1>1, RestartTInv
<1>2. ASSUME NEW s \in Session, SessionStep(s) PROVE TInv'
  <2>1. CASE Open(s) \/ Close(s) \/ Savepoint(s) \/ ReleaseSavepoint(s)
    BY <2>1, QuietTInv
  <2>2. CASE Begin(s)
    BY <2>2, BeginTInv
  <2>3. CASE Scan(s)
    BY <2>3, ScanTInv
  <2>4. CASE \E k \in Key : ReadKey(s, k)
    BY <2>4, ReadKeyTInv
  <2>5. CASE \E k \in Key, kind \in {"insert", "update", "delete"} :
               Write(s, k, kind)
    BY <2>5, WriteTInv
  <2>6. CASE \/ Commit(s) \/ EndRollback(s)
             \/ \E k \in Key, kind \in {"insert", "delete"} : Autocommit(s, k, kind)
    BY <2>6, EndTInv
  <2>7. CASE ValidateCommitOCC(s)
    BY <2>7, ValidateTInv
  <2>8. CASE CommitFails(s)
    BY <2>8, CommitFailsTInv
  <2>9. CASE \/ Rollback(s) \/ RollbackToSavepoint(s)
             \/ EndRollbackToSavepoint(s)
    BY <2>9, RollbackTInv
  <2>10. CASE Undo(s) \/ UndoFails(s)
    BY <2>10, UndoTInv
  <2>11. CASE Checkpoint(s)
    BY <2>11, CheckpointTInv
  <2> QED
    BY <1>2, <2>1, <2>2, <2>3, <2>4, <2>5, <2>6, <2>7, <2>8, <2>9, <2>10, <2>11
    DEF SessionStep
<1>3. CASE UNCHANGED vars
  <2>1. /\ UNCHANGED <<wal, wal_lsn, disk, memtable, txn_id, read_set, write_set>>
        /\ UNCHANGED <<journal_, stage, tickets, next_txn, acked>>
    BY <1>3 DEF vars, files, engine, sets, undo, bounds
  <2>2. IdInv' /\ AckInv'
    BY <2>1 DEF TInv, IdInv, AckInv, Kept, Settled, LoggedAs
  <2>3. ASSUME NEW s \in Session PROVE Own(s)' /\ Sampled(s)' /\ Valid(s)'
    <3>1. Own(s) /\ Sampled(s) /\ Valid(s)
      BY DEF TInv
    <3>2. Own(s)'
      BY <2>1, <3>1 DEF Own
    <3>3. Sampled(s)'
      BY <2>1, <3>1 DEF Sampled, ReadOk, WriteOk, CommittedAt, CurrentLsn
    <3>4. Valid(s)'
      BY <2>1, <3>1, ValidAfter DEF Valid
    <3> QED
      BY <3>2, <3>3, <3>4
  <2> QED
    BY <2>2, <2>3 DEF TInv
<1> QED
  BY <1>1, <1>2, <1>3 DEF Next

(* The inductive invariant, as long as no transaction id is used twice.    *)
LEMMA NoIdTwice ==
  ASSUME RestartsAnyTime = FALSE
  PROVE  Spec => [](IInv /\ TInv)
<1>1. Init => IInv /\ TInv
  BY InitIInv, InitTInv
<1>2. (IInv /\ TInv) /\ [Next]_vars => (IInv /\ TInv)'
  <2>1. ASSUME IInv, TInv, [Next]_vars PROVE IInv' /\ TInv'
    BY <2>1, NextIInv, NextTInv
  <2> QED
    BY <2>1
<1> QED
  BY <1>1, <1>2, PTL DEF Spec
-----------------------------------------------------------------------------
(* Commit, Rollback, ReplayPending, Checkpoint: a session that opens finds *)
(* each key at least as new as what was last reported committed, unless an *)
(* unfinished transaction wrote the key last.                              *)
THEOREM AckedIsFound ==
  ASSUME RestartsAnyTime = FALSE
  PROVE  Spec => []AckedSurvives
<1>1. IInv /\ TInv => AckedSurvives
  <2> SUFFICES ASSUME IInv, TInv, NEW k \in Key, ~Shadowed(k)
               PROVE  acked[k] <= LsnAfterOpen(k)
    BY DEF AckedSurvives
  <2>1. TypeOK /\ LogInv /\ wal_lsn \in Nat /\ EmptyTable \in [Key -> Entry]
        /\ acked[k] \in Nat
    BY RecordIs, EmptyTableIs, LsnIsNat DEF IInv, TypeOK
  <2>2. \/ acked[k] = 0
        \/ \E v \in disk[k] : acked[k] <= v.lsn
        \/ \E r \in DataOf(k) : acked[k] <= r.lsn
    <3>1. \A r \in Range(wal) :
            r.op = "data" /\ r.key = k /\ Settled(r.txn) => r \in DataOf(k)
      BY <2>1, DataOfIs DEF Settled, TInv, IdInv
    <3> QED
      BY <3>1 DEF TInv, AckInv, Kept
  <2> DEFINE e == ReplayPending(EmptyTable)[k]
             L == {v.lsn : v \in disk[k]}
             w == NewestOf(DataOf(k))
  <2>3. L \in SUBSET Lsn /\ \A v \in disk[k] : v.lsn \in L /\ v.lsn <= wal_lsn
    BY <2>1 DEF TypeOK, LogInv, Version
  <2>4. LsnAfterOpen(k) = IF MemEntryVisible(e, 0) THEN e.lsn ELSE LastOf(L)
    BY DEF LsnAfterOpen
  <2>5. CASE DataOf(k) = {}
    <3>1. e = NoEntry
      BY <2>1, <2>5, ReplayIs DEF EmptyTable
    <3>2. ~MemEntryVisible(e, 0)
      BY <3>1 DEF MemEntryVisible, NoEntry
    <3> HIDE DEF e, L
    <3>3. LastOf(L) \in Nat /\ \A l \in L : l <= LastOf(L)
      BY <2>3, LastOfIsGreatest, LsnIsNat
    <3>4. \A v \in disk[k] : v.lsn <= LastOf(L) /\ v.lsn \in Nat
      BY <2>3, <3>3, LsnIsNat
    <3> QED
      BY <2>1, <2>2, <2>4, <2>5, <3>2, <3>3, <3>4
  <2>6. CASE DataOf(k) # {}
    <3>1. /\ e = TableEntry(w, w \in CommittedData(k)) /\ w \in DataOf(k)
          /\ \A r \in DataOf(k) : r.lsn <= w.lsn
      BY <2>1, <2>6, ReplayIs
    <3>2. w \in CommittedData(k)
      BY <2>6 DEF Shadowed
    <3>3. w.lsn > wal_lsn /\ \A r \in DataOf(k) : r.lsn \in Nat
      BY <2>1, <3>1, DataOfIs, LsnsAreUnique, LsnIsNat
    <3> HIDE DEF w, e
    <3>4. e.lsn = w.lsn /\ e.durable = (w \in CommittedData(k))
      BY <3>1 DEF TableEntry
    <3>5. w.lsn \in Nat /\ w.lsn > 0
      BY <2>1, <3>1, <3>3
    <3>6. e.lsn = w.lsn /\ MemEntryVisible(e, 0) /\ w.lsn \in Nat
      BY <3>2, <3>4, <3>5 DEF MemEntryVisible
    <3>7. \A v \in disk[k] : v.lsn \in Nat /\ v.lsn <= w.lsn
      BY <2>1, <2>3, <3>3, <3>6, LsnIsNat
    <3> QED
      BY <2>1, <2>2, <2>4, <3>1, <3>3, <3>6, <3>7
  <2> QED
    BY <2>5, <2>6
<1> QED
  BY <1>1, NoIdTwice, PTL

(* Once a key has records in the log, its current version is among those   *)
(* that are flushed or committed in the log.                               *)
LEMMA CurrentIsLogged ==
  ASSUME IInv, NEW s \in Session, NEW k \in Key, DataOf(k) # {},
         NEW x, x = ResolveCurrentCommittedLsn(Refreshed(s), k)
  PROVE  /\ x \in Lsn /\ LatestCommittedLsnForKey(k) <= x
         /\ \/ x = 0 \/ \E v \in disk[k] : x = v.lsn
            \/ \E r \in CommittedData(k) : x = r.lsn
<1>1. TypeOK /\ memtable[s] \in [Key -> Entry]
  BY DEF IInv, TypeOK
<1>2. PICK R : R = Refreshed(s)
  OBVIOUS
<1>3. R \in [Key -> Entry]
  BY <1>2, SampleType
<1>4. /\ x \in Lsn /\ LatestCommittedLsnForKey(k) <= x
      /\ \/ x = 0 \/ \E v \in disk[k] : x = v.lsn
         \/ R[k].durable /\ x = R[k].lsn
         \/ x = LatestCommittedLsnForKey(k)
  BY <1>1, <1>2, <1>3, CurrentIs
<1>5. CASE R[k].durable /\ x = R[k].lsn
  <2> DEFINE w == NewestOf(DataOf(k))
  <2>1. R[k] = TableEntry(w, w \in CommittedData(k))
    BY <1>1, <1>2, ReplayIs DEF Refreshed
  <2> HIDE DEF w
  <2>2. R[k].lsn = w.lsn /\ R[k].durable = (w \in CommittedData(k))
    BY <2>1 DEF TableEntry
  <2>3. w \in CommittedData(k) /\ x = w.lsn
    BY <1>5, <2>2
  <2> QED
    BY <1>4, <2>3
<1>6. CASE x = LatestCommittedLsnForKey(k)
  BY <1>1, <1>4, <1>6, LatestIs
<1> QED
  BY <1>4, <1>5, <1>6
(* What OwnLast and OthersLast find.                                       *)
LEMMA OwnLastIs ==
  ASSUME TypeOK, NEW s \in Session, NEW k \in Key
  PROVE  /\ OwnLast(s, k) \in Nat
         /\ \A r \in DataOf(k) : r.txn = txn_id[s] => r.lsn <= OwnLast(s, k)
         /\ \/ OwnLast(s, k) = 0
            \/ \E r \in DataOf(k) : r.txn = txn_id[s] /\ r.lsn = OwnLast(s, k)
<1> DEFINE S == {r \in DataOf(k) : r.txn = txn_id[s]}
           L == {r.lsn : r \in S}
<1>1. L \in SUBSET Lsn
  BY DataOfIs
<1>2. OwnLast(s, k) = LastOf(L)
  BY DEF OwnLast
<1>3. \A l : l \in L <=> \E r \in S : r.lsn = l
  OBVIOUS
<1> HIDE DEF L
<1>4. LastOf(L) \in Lsn /\ (\A l \in L : l <= LastOf(L)) /\ LastOf(L) \in L \cup {0}
  BY <1>1, LastOfIsGreatest
<1> QED
  BY <1>2, <1>3, <1>4, LsnIsNat

LEMMA OthersLastIs ==
  ASSUME TypeOK, NEW s \in Session, NEW k \in Key, NEW b
  PROVE  /\ OthersLast(s, k, b) \in Nat
         /\ \A r \in DataOf(k) :
              /\ r.lsn <= b /\ r.txn # txn_id[s]
              /\ r.txn = 0 \/ \E c \in Range(wal) : /\ c.op = "commit"
                                                    /\ c.txn = r.txn /\ c.lsn <= b
              => r.lsn <= OthersLast(s, k, b)
         /\ \/ OthersLast(s, k, b) = 0
            \/ \E r \in CommittedData(k) : r.lsn = OthersLast(s, k, b)
<1> DEFINE upto == {r \in Range(wal) : r.lsn <= b}
           commits == {r \in upto : r.op = "commit"}
           committed == {0} \cup {r.txn : r \in commits}
           S == {r \in DataOf(k) \cap upto : r.txn \in committed \ {txn_id[s]}}
           L == {r.lsn : r \in S}
<1>1. L \in SUBSET Lsn
  BY DataOfIs
<1>2. OthersLast(s, k, b) = LastOf(L)
  BY DEF OthersLast
<1>3. \A l : l \in L <=> \E r \in S : r.lsn = l
  OBVIOUS
<1>4. \A t : t \in committed <=>
        t = 0 \/ \E c \in Range(wal) : c.op = "commit" /\ c.txn = t /\ c.lsn <= b
  OBVIOUS
<1>5. \A r : r \in S <=> /\ r \in DataOf(k) /\ r \in Range(wal) /\ r.lsn <= b
                         /\ r.txn \in committed /\ r.txn # txn_id[s]
  OBVIOUS
<1> HIDE DEF S, L, committed
<1>6. LastOf(L) \in Lsn /\ (\A l \in L : l <= LastOf(L)) /\ LastOf(L) \in L \cup {0}
  BY <1>1, LastOfIsGreatest
<1>7. \A r \in S : r \in CommittedData(k)
  <2> SUFFICES ASSUME NEW r \in S PROVE r \in CommittedData(k)
    OBVIOUS
  <2>1. r \in DataOf(k) /\ (r.txn = 0 \/ r.txn \in LoggedAs("commit"))
    BY <1>4, <1>5 DEF LoggedAs
  <2> QED
    BY <2>1, DataOfIs
<1>8. ASSUME NEW r \in DataOf(k), r.lsn <= b, r.txn # txn_id[s], r.txn \in committed
      PROVE  r.lsn <= LastOf(L)
  <2>1. r \in S
    BY <1>5, <1>8, DataOfIs
  <2> QED
    BY <1>3, <1>6, <2>1
<1>9. LastOf(L) = 0 \/ \E r \in CommittedData(k) : r.lsn = LastOf(L)
  BY <1>3, <1>6, <1>7
<1>10. LastOf(L) \in Nat
  BY <1>6, LsnIsNat
<1> QED
  BY <1>2, <1>4, <1>8, <1>9, <1>10

(* A validated transaction that holds a ticket for the current version of  *)
(* a key it wrote, took it for the version its own came after.             *)
LEMMA ValidatedOverwrites ==
  ASSUME IInv, TInv, NEW s \in Session, stage[s] = "validated", NEW k \in Key,
         OwnLast(s, k) > 0
  PROVE  OthersLast(s, k, NextLsn) <= OthersLast(s, k, OwnLast(s, k))
<1> DEFINE now == OthersLast(s, k, NextLsn)
           own == OwnLast(s, k)
           then == OthersLast(s, k, own)
           W == write_set[s][k]
<1>1. /\ TypeOK /\ LogInv /\ txn_id[s] # 0 /\ TicketsHold(s)
      /\ now \in Nat /\ then \in Nat /\ own \in Nat /\ wal_lsn \in Nat
  BY OwnLastIs, OthersLastIs, RecordIs
  DEF IInv, ClosedInv, Closed, TInv, Valid
<1>2. PICK p \in DataOf(k) : p.txn = txn_id[s] /\ p.lsn = own
  BY <1>1, OwnLastIs
<1>3. W # NoSample
  BY <1>1, <1>2, DataOfIs DEF TInv, Own
<1>4. W = ResolveCurrentCommittedLsn(Refreshed(s), k)
  BY <1>1, <1>3 DEF TicketsHold
<1> HIDE DEF W, now, own, then
<1>5. /\ W \in Lsn /\ LatestCommittedLsnForKey(k) <= W
      /\ \/ W = 0 \/ \E v \in disk[k] : W = v.lsn
         \/ \E r \in CommittedData(k) : W = r.lsn
  <2>1. DataOf(k) # {}
    BY <1>2
  <2> QED
    BY <1>4, <2>1, CurrentIsLogged
<1>6. \A r \in CommittedData(k) :
        r.lsn <= W /\ r.lsn > wal_lsn /\ r.lsn \in Nat /\ r \in DataOf(k)
  <2> SUFFICES ASSUME NEW r \in CommittedData(k)
               PROVE  r.lsn <= W /\ r.lsn > wal_lsn /\ r.lsn \in Nat /\ r \in DataOf(k)
    OBVIOUS
  <2>1. /\ r \in DataOf(k) /\ r.lsn \in Lsn /\ r \in Range(wal)
        /\ r.lsn <= LatestCommittedLsnForKey(k) /\ LatestCommittedLsnForKey(k) \in Lsn
    BY <1>1, DataOfIs, LatestIs
  <2>2. r.lsn > wal_lsn
    BY <1>1, <2>1, LsnsAreUnique
  <2> QED
    BY <1>5, <2>1, <2>2, LsnIsNat
<1>7. W \in Nat /\ (now = 0 \/ now <= W)
  <2>1. now = 0 \/ \E r \in CommittedData(k) : r.lsn = now
    BY <1>1, OthersLastIs DEF now
  <2> QED
    BY <1>5, <1>6, <2>1, LsnIsNat
<1>8. CASE ~(W > wal_lsn)
  <2>1. now = 0
    <3>1. now = 0 \/ \E r \in CommittedData(k) : r.lsn = now
      BY <1>1, OthersLastIs DEF now
    <3> QED
      BY <1>1, <1>6, <1>7, <1>8, <3>1
  <2> QED
    BY <1>1, <2>1 DEF now, then, own
<1>9. CASE W > wal_lsn
  <2>1. PICK o \in Range(wal) :
          /\ o.op = "data" /\ o.txn = txn_id[s] /\ o.key = k
          /\ W < o.lsn /\ CommittedAt(k, W, o.lsn)
    BY <1>9 DEF TInv, Sampled, WriteOk, W
  <2>2. o \in DataOf(k) /\ o.lsn \in Nat /\ o.lsn <= own
    <3>1. o \in DataOf(k)
      BY <1>1, <2>1, DataOfIs DEF TInv, IdInv
    <3> QED
      BY <1>1, <2>1, <3>1, OwnLastIs, TxnIsNat DEF own
  <2>3. PICK w \in Range(wal) :
          /\ w.op = "data" /\ w.key = k /\ w.lsn = W
          /\ w.txn = 0 \/ \E c \in Range(wal) : /\ c.op = "commit"
                                                /\ c.txn = w.txn /\ c.lsn <= o.lsn
    BY <2>1 DEF CommittedAt
  <2>4. PICK r \in CommittedData(k) : W = r.lsn
    <3>1. \A v \in disk[k] : v.lsn <= wal_lsn /\ v.lsn \in Nat
      <4>1. disk[k] \in SUBSET Version /\ \A v \in Version : v.lsn \in Nat
        BY <1>1, LsnIsNat DEF TypeOK, Version
      <4> QED
        BY <1>1, <4>1 DEF LogInv
    <3>2. W # 0 /\ \A v \in disk[k] : W # v.lsn
      BY <1>1, <1>7, <1>9, <3>1
    <3> QED
      BY <1>5, <3>2
  <2>5. w \in DataOf(k)
    <3>1. r \in DataOf(k) /\ r \in Range(wal)
      BY <1>1, <2>4, DataOfIs
    <3>2. r = w
      BY <1>1, <2>3, <2>4, <3>1, LsnsAreUnique
    <3> QED
      BY <3>1, <3>2
  <2>6. w.txn # txn_id[s]
    <3> SUFFICES ASSUME w.txn = txn_id[s] PROVE FALSE
      OBVIOUS
    <3>1. o.txn \in LoggedAs("commit")
      BY <1>1, <2>1, <2>3 DEF LoggedAs
    <3>2. o \in CommittedData(k)
      BY <1>1, <2>2, <3>1, DataOfIs
    <3>3. o.lsn <= W
      BY <1>6, <3>2
    <3> QED
      BY <1>7, <2>1, <2>2, <3>3
  <2>7. W <= own /\ \A c \in Range(wal) : c.lsn <= o.lsn => c.lsn <= own
    <3>1. \A c \in Range(wal) : c.lsn \in Nat
      BY <1>1, TxnIsNat
    <3> QED
      BY <1>1, <1>7, <2>1, <2>2, <3>1
  <2>8. /\ w.lsn <= own
        /\ w.txn = 0 \/ \E c \in Range(wal) : /\ c.op = "commit" /\ c.txn = w.txn
                                              /\ c.lsn <= own
    BY <2>3, <2>7
  <2>9. W <= then
    BY <1>1, <2>3, <2>5, <2>6, <2>8, OthersLastIs DEF then
  <2>10. now <= then
    BY <1>1, <1>7, <2>9
  <2> QED
    BY <2>10 DEF now, then, own
<1> QED
  BY <1>8, <1>9

(* ValidateCommitOCC: a transaction that commits right after a validation  *)
(* overwrites nothing that became current after its own last write.        *)
THEOREM NoUpdateLost ==
  ASSUME RestartsAnyTime = FALSE
  PROVE  Spec => NoLostUpdate
<1> DEFINE Lossless ==
      \A s \in Session :
        stage[s] = "validated" /\ Committed(s) =>
          \A k \in Key : OwnLast(s, k) > 0 =>
            OthersLast(s, k, NextLsn) <= OthersLast(s, k, OwnLast(s, k))
<1>1. IInv /\ TInv => Lossless
  BY ValidatedOverwrites
<1>2. IInv /\ TInv /\ [Next]_vars => [Lossless]_vars
  BY <1>1
<1>3. Spec => [][Lossless]_vars
  <2> HIDE DEF Lossless
  <2> QED
    BY <1>2, NoIdTwice, PTL DEF Spec
<1> QED
  BY <1>3 DEF NoLostUpdate
-----------------------------------------------------------------------------
(* The step in which a validated transaction ends as committed.            *)
LEMMA OthersKeepTxn ==
  ASSUME TypeOK, NEW o \in Session, SessionStep(o), NEW s \in Session, s # o
  PROVE  txn_id'[s] = txn_id[s]
<1>1. txn_id \in [Session -> Txn]
  BY DEF TypeOK
<1>2. CASE EndTxns({o})
  BY <1>2, EndTxnsIs
<1>3. CASE txn_id' = [txn_id EXCEPT ![o] = next_txn]
  BY <1>1, <1>3
<1>4. CASE UNCHANGED txn_id
  BY <1>4
<1>5. EndTxns({o}) \/ txn_id' = [txn_id EXCEPT ![o] = next_txn] \/ UNCHANGED txn_id
  BY DEF SessionStep, Open, Close, Begin, Scan, ReadKey, Write, Autocommit,
         ValidateCommitOCC, Commit, CommitFails, Rollback, Savepoint,
         ReleaseSavepoint, RollbackToSavepoint, Undo, UndoFails, EndRollback,
         EndRollbackToSavepoint, Checkpoint
<1> QED
  BY <1>2, <1>3, <1>4, <1>5

LEMMA CommittedByCommit ==
  ASSUME IInv, [Next]_vars, NEW s \in Session, stage[s] = "validated", Committed(s)
  PROVE  Commit(s)
<1>1. TypeOK /\ s \in open /\ txn_id[s] # 0 /\ s \in open' /\ txn_id'[s] = 0
  BY DEF IInv, ClosedInv, Closed, Committed
<1>2. ~Restart
  BY <1>1 DEF Restart
<1>3. ~UNCHANGED vars
  BY <1>1 DEF vars
<1>4. PICK o \in Session : SessionStep(o)
  BY <1>2, <1>3 DEF Next
<1>5. o = s
  BY <1>1, <1>4, OthersKeepTxn
<1>6. ~Idle(s) /\ ~Active(s) /\ ~RollsBack(s)
  BY DEF Idle, Active, RollsBack
<1>7. ~Open(s) /\ ~CommitFails(s)
  BY <1>1 DEF Open, CommitFails
<1> QED
  BY <1>4, <1>5, <1>6, <1>7
  DEF SessionStep, Close, Begin, Scan, ReadKey, Write, Autocommit,
      ValidateCommitOCC, Rollback, Savepoint, ReleaseSavepoint,
      RollbackToSavepoint, Undo, UndoFails, EndRollback,
      EndRollbackToSavepoint, Checkpoint

(* What a commit record makes current, was current or its transaction      *)
(* wrote it.                                                               *)
LEMMA CommitMakesCurrent ==
  ASSUME IInv, NEW s \in Session, Commit(s), NEW k \in Key,
         LatestCommittedLsnForKey(k)' > 0
  PROVE  \E r \in DataOf(k) : r \in CommittedData(k) \/ r.txn = txn_id[s]
<1>1. /\ TypeOK /\ LogInv /\ Room(1) /\ wal' = Append(wal, Control("commit", txn_id[s]))
      /\ UNCHANGED <<wal_lsn, disk>> /\ events' = events
  BY DEF IInv, Commit, bounds
<1>2. /\ LoggedAs("commit")' = LoggedAs("commit") \cup {txn_id[s]}
      /\ LoggedAs("abort")' = LoggedAs("abort")
  BY <1>1, ControlIs
<1>3. \A r \in Range(wal)' : r \in Range(wal) \/ r = Control("commit", txn_id[s])
  <2>1. wal \in Seq(DataRecord \cup ControlRecord)
    BY <1>1 DEF TypeOK
  <2>2. PICK c : c = Control("commit", txn_id[s])
    OBVIOUS
  <2>3. /\ Len(wal') = Len(wal) + 1 /\ Len(wal) \in Nat
        /\ \A i \in 1 .. Len(wal) + 1 :
             wal'[i] = c \/ (i \in 1 .. Len(wal) /\ wal'[i] = wal[i])
    BY <1>1, <2>1, <2>2
  <2>4. /\ \A r \in Range(wal)' : \E i \in 1 .. Len(wal) + 1 : wal'[i] = r
        /\ \A i \in 1 .. Len(wal) : wal[i] \in Range(wal)
    <3>1. DOMAIN wal' = 1 .. Len(wal) + 1 /\ DOMAIN wal = 1 .. Len(wal)
      BY <1>1, <2>1
    <3> QED
      BY <3>1 DEF Range
  <2> QED
    BY <2>2, <2>3, <2>4
<1>4. PICK C : C = CommittedData(k)'
  OBVIOUS
<1>5. \A r \in C : /\ r \in DataOf(k)
                   /\ r \in CommittedData(k) \/ r.txn = txn_id[s]
  <2> SUFFICES ASSUME NEW r \in C
               PROVE  r \in DataOf(k) /\ (r \in CommittedData(k) \/ r.txn = txn_id[s])
    OBVIOUS
  <2>1. /\ r \in Range(wal)' /\ r.op = "data" /\ r.key = k
        /\ r.txn \notin LoggedAs("abort")' /\ r.txn \in LoggedAs("commit")' \cup {0}
    BY <1>4 DEF CommittedData, DataOf
  <2>2. r \in Range(wal)
    BY <1>3, <2>1 DEF Control
  <2>3. r \in DataOf(k)
    BY <1>1, <1>2, <2>1, <2>2, DataOfIs
  <2> QED
    BY <1>1, <1>2, <2>1, <2>3, DataOfIs
<1>6. LatestCommittedLsnForKey(k)' = LastOf({r.lsn : r \in C})
  BY <1>4 DEF LatestCommittedLsnForKey
<1>7. C # {}
  <2> SUFFICES ASSUME C = {} PROVE FALSE
    OBVIOUS
  <2>1. {r.lsn : r \in C} = {} /\ {} \in SUBSET Lsn
    OBVIOUS
  <2>2. LastOf({}) \in {} \cup {0}
    BY <2>1, LastOfIsGreatest
  <2> QED
    BY <1>6, <2>1, <2>2
<1> QED
  BY <1>5, <1>7

(* A transaction that validated while another held a ticket took none on   *)
(* a key it found without a version.                                       *)
LEMMA ValidatedAddsNothing ==
  ASSUME IInv, TInv, NEW s \in Session, stage[s] = "validated",
         NEW o \in Session \ {s}, txn_id[o] \in tickets, NEW k \in Key,
         NEW r \in DataOf(k), r \in CommittedData(k) \/ r.txn = txn_id[s]
  PROVE  ResolveCurrentCommittedLsn(EmptyTable, k) > 0
<1>1. /\ TypeOK /\ LogInv /\ txn_id[s] # 0 /\ TicketsHold(s) /\ ~PhantomConflict(s)
      /\ EmptyTable \in [Key -> Entry]
  BY EmptyTableIs DEF IInv, ClosedInv, Closed, TInv, Valid
<1>2. write_set[s][k] # 0
  <2>1. txn_id[o] # txn_id[s]
    BY <1>1 DEF TInv, IdInv
  <2> QED
    BY <1>1, <2>1 DEF PhantomConflict
<1>3. PICK y : y = ResolveCurrentCommittedLsn(EmptyTable, k)
  OBVIOUS
<1>4. /\ y \in Nat /\ LatestCommittedLsnForKey(k) <= y
      /\ LatestCommittedLsnForKey(k) \in Nat
      /\ \A v \in disk[k] : v.lsn <= y
  BY <1>1, <1>3, CurrentIs, LatestIs, LsnIsNat
<1>5. \A q \in CommittedData(k) : q.lsn \in Nat /\ q.lsn <= y
  <2>1. \A q \in CommittedData(k) :
          q.lsn \in Lsn /\ q.lsn <= LatestCommittedLsnForKey(k)
    BY <1>1, DataOfIs, LatestIs
  <2> QED
    BY <1>4, <2>1, LsnIsNat
<1>6. CASE r \in CommittedData(k)
  <2>1. r.lsn > wal_lsn /\ wal_lsn \in Nat
    BY <1>1, DataOfIs, LsnsAreUnique, RecordIs
  <2> QED
    BY <1>3, <1>4, <1>5, <1>6, <2>1
<1>7. CASE r.txn = txn_id[s]
  <2>1. write_set[s][k] # NoSample
    BY <1>1, <1>7, DataOfIs DEF TInv, Own
  <2>2. PICK x : x = ResolveCurrentCommittedLsn(Refreshed(s), k)
    OBVIOUS
  <2>3. x # 0
    BY <1>1, <1>2, <2>1, <2>2 DEF TicketsHold
  <2>4. /\ x \in Lsn
        /\ \/ \E v \in disk[k] : x = v.lsn
           \/ \E q \in CommittedData(k) : x = q.lsn
    BY <2>2, <2>3, CurrentIsLogged
  <2>5. x <= y /\ x \in Nat
    BY <1>4, <1>5, <2>4, LsnIsNat
  <2> QED
    BY <1>3, <1>4, <2>3, <2>5
<1> QED
  BY <1>6, <1>7

(* RangeTicketRegistry::ValidateCommit: a transaction that commits right   *)
(* after a validation, while another holds a ticket, makes no key exist    *)
(* that did not.                                                           *)
THEOREM NoPhantomAdded ==
  ASSUME RestartsAnyTime = FALSE
  PROVE  Spec => NoPhantom
<1> DEFINE AddsNoKey ==
      \A s \in Session :
        stage[s] = "validated" /\ Committed(s)
          /\ (\E o \in Session \ {s} : txn_id[o] \in tickets) =>
          \A k \in Key : LatestCommittedLsnForKey(k)' > 0 =>
            ResolveCurrentCommittedLsn(EmptyTable, k) > 0
<1>1. IInv /\ TInv /\ [Next]_vars => [AddsNoKey]_vars
  <2> SUFFICES ASSUME IInv, TInv, [Next]_vars, NEW s \in Session,
                      stage[s] = "validated", Committed(s),
                      NEW o \in Session \ {s}, txn_id[o] \in tickets,
                      NEW k \in Key, LatestCommittedLsnForKey(k)' > 0
               PROVE  ResolveCurrentCommittedLsn(EmptyTable, k) > 0
    OBVIOUS
  <2>1. Commit(s)
    BY CommittedByCommit
  <2>2. PICK r \in DataOf(k) : r \in CommittedData(k) \/ r.txn = txn_id[s]
    BY <2>1, CommitMakesCurrent
  <2> QED
    BY <2>2, ValidatedAddsNothing
<1>2. Spec => [][AddsNoKey]_vars
  <2> HIDE DEF AddsNoKey
  <2> QED
    BY <1>1, NoIdTwice, PTL DEF Spec
<1> QED
  BY <1>2 DEF NoPhantom
=============================================================================
