----------------------- MODULE WalBatchPipelineProofs -----------------------
(***************************************************************************)
(* The kBalanced write path, for any number of clients, keys, committing   *)
(* sessions, batches, flushes, checkpoints and failures: the state keeps   *)
(* its type, a job is in one place, and what is visible or acknowledged    *)
(* survives a crash.                                                       *)
(***************************************************************************)
EXTENDS WalBatchPipeline, OrderLemmas, FiniteSetTheorems, TLAPS

(* No client is twice in a sequence.                                       *)
Distinct(s) == \A i, j \in 1 .. Len(s) : s[i] = s[j] => i = j

(* Where jobs are: in the queue or in one batch, once; a drainer without a *)
(* batch is idle, and maintenance has one only while it drains.            *)
PlaceInv ==
  /\ Distinct(queue) /\ \A d \in Drainer : Distinct(batch[d])
  /\ \A d, e \in Drainer : d # e => Elements(batch[d]) \cap Elements(batch[e]) = {}
  /\ \A d \in Drainer : Elements(queue) \cap Elements(batch[d]) = {}
  /\ \A c \in Client : call[c] = "queued" <=>
       c \in Elements(queue) \/ \E d \in Drainer : c \in Elements(batch[d])
  /\ \A d \in Drainer : step[d] = "idle" <=> batch[d] = <<>>
  /\ step[Maintenance] # "idle" => maint = "drain"

(* The log is in LSN order.  Its records are not above the counter, except *)
(* after a truncation that kept a suffix and lost the magic number.        *)
LogInv ==
  /\ \A i, j \in 1 .. Len(wal) : i < j => wal[i].lsn < wal[j].lsn
  /\ \A i \in 1 .. Len(wal) : wal[i].lsn > 0
  /\ magic => \A i \in 1 .. Len(wal) : wal[i].lsn <= max_lsn
  /\ wal_lsn <= max_lsn

(* A job has no LSN before AppendMany.  The jobs of an appended batch have *)
(* increasing LSNs, or none if AppendMany has failed.                      *)
InHand(d) == step[d] \in {"fsync", "apply"}
Unlogged(d) == \A c \in Elements(batch[d]) : job[c].lsn = 0
FreshInv ==
  /\ \A c \in Client : call[c] = "entered" => job[c].lsn = 0
  /\ \A c \in Elements(queue) : job[c].lsn = 0
  /\ \A d \in Drainer : step[d] = "append" => Unlogged(d)
BatchInv ==
  \A d \in Drainer : InHand(d) =>
    \/ Unlogged(d)
    \/ \A i, j \in 1 .. Len(batch[d]) :
         i < j => job[batch[d][i]].lsn < job[batch[d][j]].lsn

Among(r, n) == \E i \in 1 .. n : wal[i] = r
Synced(r) == Among(r, wal_synced)
RecordOf(c) == [lsn |-> job[c].lsn, key |-> job[c].key]

(* The records of an appended batch are in the log, in its fsynced part    *)
(* before they are applied, and newer than the superblock.                 *)
Handed(d, c) ==
  /\ Among(RecordOf(c), Len(wal))
  /\ step[d] = "apply" => Synced(RecordOf(c))
  /\ job[c].lsn > wal_lsn
HandedInv ==
  \A d \in Drainer : InHand(d) =>
    \/ Unlogged(d)
    \/ magic /\ \A c \in Elements(batch[d]) : Handed(d, c)

(* What the memtable and the data file hold is in the fsynced log, or      *)
(* below the superblock.  The memtable hides nothing newer in the file.    *)
TablesInv ==
  \A k \in Key :
    /\ memtable[k] > 0 => /\ magic /\ memtable[k] > wal_lsn
                          /\ Synced([lsn |-> memtable[k], key |-> k])
    /\ data[k] > wal_lsn => magic /\ Synced([lsn |-> data[k], key |-> k])
    /\ data[k] <= head[k]
    /\ memtable[k] = 0 \/ data[k] <= memtable[k]
    /\ maint = "truncate" => data[k] <= wal_lsn

(* What is acknowledged is in the data file, or in the fsynced log and in  *)
(* the memtable.                                                           *)
AckedInv ==
  \A a \in acked :
    /\ a.lsn > 0
    /\ \/ a.lsn <= data[a.key]
       \/ /\ magic /\ a.lsn > wal_lsn /\ Synced(a)
          /\ a.lsn <= memtable[a.key]

DurableInv == ~excused => unlogged = {} /\ HandedInv /\ TablesInv /\ AckedInv

IInv == TypeOK /\ PlaceInv /\ LogInv /\ FreshInv /\ BatchInv /\ DurableInv
---------------------------------------------------------------------------
(* The operators of the model. *)

(* InOrder enumerates a set of positions: in increasing order, and all of  *)
(* 1 .. n as itself.                                                       *)
LEMMA InOrderProperties ==
  ASSUME NEW n \in Nat, NEW S \in SUBSET (1 .. n)
  PROVE  /\ Cardinality(S) \in Nat
         /\ InOrder(S) \in [1 .. Cardinality(S) -> S]
         /\ \A i, j \in 1 .. Cardinality(S) :
              i < j => InOrder(S)[i] < InOrder(S)[j]
         /\ S = 1 .. n => /\ Cardinality(S) = n
                          /\ \A j \in 1 .. n : InOrder(S)[j] = j
<1> DEFINE UpTo(i) == {m \in S : m <= i}
           Rank == [i \in S |-> Cardinality(UpTo(i))]
           size == Cardinality(S)
<1>0. S \subseteq Nat /\ IsFiniteSet(1 .. n)
  BY FS_Interval
<1>1. IsFiniteSet(S) /\ size \in Nat
  BY <1>0, FS_Subset, FS_CardinalityType
<1>2. ASSUME NEW i \in S
      PROVE  IsFiniteSet(UpTo(i)) /\ Rank[i] \in 1 .. size
  <2>1. IsFiniteSet(UpTo(i)) /\ Cardinality(UpTo(i)) <= size
    BY <1>1, FS_Subset
  <2>2. i \in UpTo(i)
    OBVIOUS
  <2>3. Cardinality(UpTo(i)) \in Nat /\ Cardinality(UpTo(i)) # 0
    BY <2>1, <2>2, FS_CardinalityType, FS_EmptySet
  <2> QED
    BY <1>1, <2>1, <2>3
<1>3. ASSUME NEW i \in S, NEW j \in S, i < j
      PROVE  Rank[i] < Rank[j]
  <2>0. i \in Nat /\ j \in Nat /\ \A m \in S : m \in Nat
    BY <1>0
  <2>1. UpTo(i) \in SUBSET UpTo(j) /\ UpTo(i) # UpTo(j)
    <3>1. \A m \in S : m <= i => m <= j
      BY <1>3, <2>0
    <3>2. j \in UpTo(j)
      BY <2>0
    <3>3. j \notin UpTo(i)
      BY <1>3, <2>0
    <3>4. UpTo(i) \in SUBSET UpTo(j)
      BY <3>1, Zenon
    <3> QED
      BY <3>2, <3>3, <3>4, Zenon
  <2>2. /\ Cardinality(UpTo(i)) <= Cardinality(UpTo(j))
        /\ Cardinality(UpTo(i)) # Cardinality(UpTo(j))
    BY <1>2, <2>1, FS_Subset
  <2>3. Rank[i] = Cardinality(UpTo(i)) /\ Rank[j] = Cardinality(UpTo(j))
    OBVIOUS
  <2> HIDE DEF Rank
  <2> QED
    BY <1>1, <1>2, <2>2, <2>3
<1>4. Rank \in Surjection(S, 1 .. size)
  <2>1. Rank \in [S -> 1 .. size]
    BY <1>2
  <2>2. ASSUME NEW i \in S, NEW j \in S, Rank[i] = Rank[j] PROVE i = j
    <3> HIDE DEF Rank
    <3>1. i \in Nat /\ j \in Nat
      BY <1>0
    <3>2. Rank[i] \in 1 .. size
      BY <1>2
    <3>3. Rank[i] \in Nat
      BY <1>1, <3>2
    <3>4. ~(i < j) /\ ~(j < i)
      BY <1>3, <2>2, <3>3
    <3> QED
      BY <3>1, <3>4
  <2>3. Rank \in Injection(S, 1 .. size)
    <3> HIDE DEF Rank
    <3> QED
      BY <2>1, <2>2 DEF Injection, IsInjective
  <2>4. IsFiniteSet(1 .. size) /\ Cardinality(1 .. size) = size
    BY <1>1, FS_Interval
  <2> HIDE DEF Rank
  <2> QED
    BY <2>3, <2>4, FS_Injection
<1>5. ASSUME NEW j \in 1 .. size
      PROVE  InOrder(S)[j] \in S /\ Rank[InOrder(S)[j]] = j
  <2>1. PICK i \in S : Rank[i] = j
    BY <1>4 DEF Surjection
  <2>2. Cardinality(UpTo(i)) = j
    BY <2>1
  <2> QED
    BY <2>2 DEF InOrder
<1>6. ASSUME NEW i \in 1 .. size, NEW j \in 1 .. size, i < j
      PROVE  InOrder(S)[i] < InOrder(S)[j]
  <2> DEFINE a == InOrder(S)[i]
             b == InOrder(S)[j]
  <2>1. a \in S /\ b \in S /\ Rank[a] = i /\ Rank[b] = j
    BY <1>5
  <2> HIDE DEF Rank, a, b
  <2>2. a \in Nat /\ b \in Nat /\ i \in Nat /\ j \in Nat /\ ~(b < a) /\ a # b
    BY <1>0, <1>1, <1>3, <1>6, <2>1
  <2>3. a < b
    BY <2>2
  <2> QED
    BY <2>3 DEF a, b
<1>7. ASSUME S = 1 .. n
      PROVE  size = n /\ \A j \in 1 .. n : InOrder(S)[j] = j
  <2>1. size = n
    BY <1>7, FS_Interval
  <2>2. ASSUME NEW i \in S PROVE Rank[i] = i
    <3>1. UpTo(i) = 1 .. i /\ i \in Nat /\ i >= 1
      BY <1>7
    <3>2. Cardinality(1 .. i) = i
      BY <3>1, FS_Interval
    <3> QED
      BY <3>1, <3>2
  <2> HIDE DEF Rank
  <2> QED
    BY <1>5, <2>1, <2>2
<1>8. InOrder(S) \in [1 .. size -> S]
  <2>1. InOrder(S) = [j \in 1 .. size |->
                        CHOOSE i \in S : Cardinality({m \in S : m <= i}) = j]
    BY DEF InOrder
  <2>2. InOrder(S) = [j \in 1 .. size |-> InOrder(S)[j]]
    BY <2>1, Zenon
  <2> HIDE DEF size
  <2> QED
    BY <1>5, <2>2
<1> QED
  BY <1>1, <1>6, <1>7, <1>8

(* A function on 1 .. n is a sequence. *)
LEMMA FunctionSequence ==
  ASSUME NEW S, NEW n \in Nat, NEW f \in [1 .. n -> S]
  PROVE  f \in Seq(S) /\ Len(f) = n
OBVIOUS

(* The records AppendMany writes: in LSN order, right above the counter;   *)
(* one for each job if none is bad.                                        *)
LEMMA AppendedProperties ==
  ASSUME NEW d, NEW bad, batch[d] \in Seq(Client), max_lsn \in Nat,
         job \in [Client -> [key : Key, large : BOOLEAN, lsn : Lsn]]
  PROVE  /\ Appended(d, bad) \in Seq(Record)
         /\ \A i, j \in 1 .. Len(Appended(d, bad)) :
              i < j => Appended(d, bad)[i].lsn < Appended(d, bad)[j].lsn
         /\ \A i \in 1 .. Len(Appended(d, bad)) :
              /\ max_lsn < Appended(d, bad)[i].lsn
              /\ Appended(d, bad)[i].lsn <= max_lsn + Len(batch[d])
         /\ bad = {} =>
              /\ Len(Appended(d, bad)) = Len(batch[d])
              /\ \A i \in 1 .. Len(batch[d]) :
                   Appended(d, bad)[i] = [lsn |-> max_lsn + i,
                                     key |-> job[batch[d][i]].key]
<1> DEFINE n == Len(batch[d])
           S == {i \in 1 .. n : batch[d][i] \notin bad}
           size == Cardinality(S)
           written == InOrder(S)
           rec(j) == [lsn |-> max_lsn + written[j], key |-> job[batch[d][written[j]]].key]
<1>1. n \in Nat /\ S \in SUBSET (1 .. n)
  OBVIOUS
<1>2. /\ size \in Nat
      /\ written \in [1 .. size -> S]
      /\ \A i, j \in 1 .. size : i < j => written[i] < written[j]
      /\ S = 1 .. n => size = n /\ \A j \in 1 .. n : written[j] = j
  <2> HIDE DEF n, S
  <2> QED
    BY <1>1, InOrderProperties
<1>3. Len(written) = size
  <2> HIDE DEF written, size, S
  <2> QED
    BY <1>2, FunctionSequence
<1>4. ASSUME NEW j \in 1 .. size
      PROVE  /\ written[j] \in 1 .. n
             /\ rec(j) \in Record
             /\ max_lsn < rec(j).lsn /\ rec(j).lsn <= max_lsn + n
  <2>1. written[j] \in 1 .. n
    BY <1>2
  <2>2. job[batch[d][written[j]]].key \in Key
    <3> HIDE DEF written
    <3> QED
      BY <2>1
  <2> HIDE DEF written, n
  <2> QED
    BY <1>1, <2>1, <2>2 DEF Record, Lsn
<1>5. Appended(d, bad) = [j \in 1 .. size |-> rec(j)]
  <2> HIDE DEF size
  <2> QED
    BY <1>3 DEF Appended
<1> HIDE DEF written, size, n, S
<1>6. Appended(d, bad) \in Seq(Record) /\ Len(Appended(d, bad)) = size
  <2>1. Appended(d, bad) \in [1 .. size -> Record]
    BY <1>4, <1>5
  <2> QED
    BY <1>2, <2>1, FunctionSequence
<1>7. \A i, j \in 1 .. size : i < j => Appended(d, bad)[i].lsn < Appended(d, bad)[j].lsn
  BY <1>1, <1>2, <1>4, <1>5
<1>8. \A i \in 1 .. size : /\ max_lsn < Appended(d, bad)[i].lsn
                           /\ Appended(d, bad)[i].lsn <= max_lsn + n
  BY <1>4, <1>5
<1>9. ASSUME bad = {}
      PROVE  size = n /\ \A i \in 1 .. n : Appended(d, bad)[i] = [lsn |-> max_lsn + i,
                                     key |-> job[batch[d][i]].key]
  <2>1. S = 1 .. n
    BY <1>9 DEF S, n
  <2> QED
    BY <1>2, <1>5, <2>1
<1> QED
  BY <1>6, <1>7, <1>8, <1>9 DEF n

(* TruncateTo keeps the log from the first record above wal_lsn on.        *)
LEMMA SuffixProperties ==
  ASSUME NEW w \in Seq(Record), NEW lsn \in Nat
  PROVE  /\ Suffix(w, lsn) \in Seq(Record)
         /\ \/ Suffix(w, lsn) = <<>>
            \/ \E f \in 1 .. Len(w) :
                 /\ w[f].lsn > lsn
                 /\ Len(Suffix(w, lsn)) = Len(w) - f + 1
                 /\ \A i \in 1 .. Len(w) - f + 1 : Suffix(w, lsn)[i] = w[f + i - 1]
<1> DEFINE above == {i \in 1 .. Len(w) : w[i].lsn > lsn}
<1>1. CASE above = {}
  BY <1>1 DEF Suffix
<1>2. CASE above # {}
  <2> DEFINE f == First(above)
  <2>1. f \in above
    <3>1. above \in SUBSET Nat
      OBVIOUS
    <3> HIDE DEF above
    <3> QED
      BY <1>2, <3>1, LeastNat DEF First
  <2>2. f \in 1 .. Len(w) /\ w[f].lsn > lsn
    BY <2>1
  <2>3. Suffix(w, lsn) = SubSeq(w, f, Len(w))
    BY <1>2 DEF Suffix
  <2> HIDE DEF f
  <2>4. /\ SubSeq(w, f, Len(w)) \in Seq(Record)
        /\ Len(SubSeq(w, f, Len(w))) = Len(w) - f + 1
        /\ \A i \in 1 .. Len(w) - f + 1 : SubSeq(w, f, Len(w))[i] = w[f + i - 1]
    BY <2>2
  <2> QED
    BY <2>2, <2>3, <2>4
<1> QED
  BY <1>1, <1>2
(* Newest is the greatest LSN among the records of a key, 0 without any.   *)
LEMMA NewestProperties ==
  ASSUME NEW R \in SUBSET Record, NEW b \in Nat, \A r \in R : r.lsn <= b,
         NEW k \in Key
  PROVE  /\ Newest(R, k) \in Nat
         /\ \A r \in R : r.key = k => r.lsn <= Newest(R, k)
         /\ Newest(R, k) > 0 => \E r \in R : r.key = k /\ r.lsn = Newest(R, k)
<1> DEFINE of == {r.lsn : r \in {r \in R : r.key = k}}
<1>1. \A l \in of : \E r \in R : r.key = k /\ r.lsn = l
  OBVIOUS
<1>2. \A r \in R : r.key = k => r.lsn \in of
  OBVIOUS
<1>3. of \in SUBSET Nat /\ \A l \in of : l <= b
  <2> HIDE DEF of
  <2> QED
    BY <1>1 DEF Record, Lsn
<1>4. CASE of = {}
  <2>1. Newest(R, k) = 0
    BY <1>4 DEF Newest
  <2>2. \A r \in R : r.key # k
    BY <1>2, <1>4
  <2> QED
    BY <2>1, <2>2
<1>5. CASE of # {}
  <2>1. Newest(R, k) = CHOOSE l \in of : \A m \in of : m <= l
    BY <1>5 DEF Newest
  <2> HIDE DEF of
  <2>2. Newest(R, k) \in of /\ \A m \in of : m <= Newest(R, k)
    BY <1>3, <1>5, <2>1, ChooseGreatest
  <2> QED
    BY <1>1, <1>2, <1>3, <2>2
<1> QED
  BY <1>4, <1>5

(* The records above an LSN in the first n of the log, as recovery and     *)
(* FoldWalToVcs take them, are bounded: the log is finite.                 *)
LEMMA LogBounded ==
  ASSUME TypeOK, LogInv
  PROVE  \E b \in Nat : \A r \in Elements(wal) : r.lsn <= b
<1>1. wal \in Seq(Record) /\ Len(wal) \in Nat
  BY DEF TypeOK
<1>2. CASE Len(wal) = 0
  BY <1>2 DEF Elements
<1>3. CASE Len(wal) # 0
  <2>0. \A i \in 1 .. Len(wal) : wal[i] \in Record
    BY <1>1
  <2>1. Len(wal) \in 1 .. Len(wal)
    BY <1>1, <1>3
  <2>2. \A i \in 1 .. Len(wal) : wal[i].lsn \in Nat
    BY <2>0 DEF Record, Lsn
  <2>3. \A i \in 1 .. Len(wal) : wal[i].lsn <= wal[Len(wal)].lsn
    BY <1>1, <2>1, <2>2 DEF LogInv
  <2>4. wal[Len(wal)].lsn \in Nat
    BY <2>1, <2>2
  <2>5. \A r \in Elements(wal) : r.lsn <= wal[Len(wal)].lsn
    BY <2>3 DEF Elements
  <2> QED
    BY <2>4, <2>5
<1> QED
  BY <1>2, <1>3

LEMMA NewestOfLog ==
  ASSUME TypeOK, LogInv, NEW n \in 0 .. Len(wal), NEW k \in Key,
         NEW v, v = Newest(Above(Elements(SubSeq(wal, 1, n)), wal_lsn), k)
  PROVE  /\ v \in Nat
         /\ v > 0 => v > wal_lsn
         /\ \A i \in 1 .. n : wal[i].key = k /\ wal[i].lsn > wal_lsn
                                => wal[i].lsn <= v
<1> DEFINE R == Above(Elements(SubSeq(wal, 1, n)), wal_lsn)
<1>1. wal \in Seq(Record) /\ n \in Nat /\ wal_lsn \in Nat
  BY DEF TypeOK, Lsn
<1>2. /\ Len(SubSeq(wal, 1, n)) = n
      /\ \A i \in 1 .. n : SubSeq(wal, 1, n)[i] = wal[i]
  BY <1>1
<1>3. Elements(SubSeq(wal, 1, n)) = {wal[i] : i \in 1 .. n}
  BY <1>2 DEF Elements
<1>4. R = {r \in {wal[i] : i \in 1 .. n} : r.lsn > wal_lsn}
  BY <1>3 DEF Above
<1>5. R \in SUBSET Record /\ R \subseteq Elements(wal)
  BY <1>1, <1>4 DEF Elements
<1>6. PICK b \in Nat : \A r \in Elements(wal) : r.lsn <= b
  BY LogBounded
<1>7. \A r \in R : r.lsn > wal_lsn
  BY <1>4
<1>8. \A i \in 1 .. n : wal[i].lsn > wal_lsn => wal[i] \in R
  BY <1>4
<1> HIDE DEF R
<1>9. /\ v \in Nat
      /\ \A r \in R : r.key = k => r.lsn <= v
      /\ v > 0 => \E r \in R : r.key = k /\ r.lsn = v
  <2>1. v = Newest(R, k)
    BY DEF R
  <2>2. \A r \in R : r.lsn <= b
    BY <1>5, <1>6
  <2>3. /\ Newest(R, k) \in Nat
        /\ \A r \in R : r.key = k => r.lsn <= Newest(R, k)
        /\ Newest(R, k) > 0 => \E r \in R : r.key = k /\ r.lsn = Newest(R, k)
    BY <1>5, <2>2, NewestProperties, Zenon
  <2> QED
    BY <2>1, <2>3, Zenon
<1> QED
  BY <1>7, <1>8, <1>9

(* Recovery finds a synced record that is above the superblock, or a later *)
(* version of its key.                                                     *)
LEMMA SyncedRecovered ==
  ASSUME TypeOK, LogInv, magic, NEW k \in Key, NEW l \in Nat, l > wal_lsn,
         Synced([lsn |-> l, key |-> k]), NEW n \in wal_synced .. Len(wal)
  PROVE  l <= Recovered(k, n)
<1> DEFINE v == Newest(Above(Elements(SubSeq(wal, 1, n)), wal_lsn), k)
<1>1. wal_synced \in 0 .. Len(wal) /\ Len(wal) \in Nat /\ wal_lsn \in Nat
  BY DEF TypeOK, Lsn
<1>2. n \in 0 .. Len(wal) /\ n >= wal_synced
  BY <1>1
<1>3. PICK i \in 1 .. wal_synced : wal[i] = [lsn |-> l, key |-> k]
  BY DEF Synced, Among
<1>4. i \in 1 .. n /\ wal[i].lsn = l /\ wal[i].key = k
  BY <1>1, <1>2, <1>3
<1>5. Recovered(k, n) = IF v > 0 THEN v ELSE data[k]
  BY DEF Recovered
<1> HIDE DEF v
<1>6. v \in Nat /\ l <= v
  BY <1>2, <1>4, NewestOfLog DEF v
<1> QED
  BY <1>1, <1>5, <1>6

(* Recovery finds the version in the data file, or a later one.            *)
LEMMA DataRecovered ==
  ASSUME TypeOK, LogInv, TablesInv, NEW k \in Key,
         NEW n \in wal_synced .. Len(wal)
  PROVE  data[k] <= Recovered(k, n) /\ Recovered(k, n) \in Nat
<1> DEFINE v == IF magic
                  THEN Newest(Above(Elements(SubSeq(wal, 1, n)), wal_lsn), k)
                  ELSE 0
<1>1. /\ wal_synced \in 0 .. Len(wal) /\ Len(wal) \in Nat
      /\ wal_lsn \in Nat /\ data[k] \in Nat
  BY DEF TypeOK, Lsn
<1>2. n \in 0 .. Len(wal)
  BY <1>1
<1>3. Recovered(k, n) = IF v > 0 THEN v ELSE data[k]
  BY DEF Recovered
<1>4. v \in Nat /\ (v > 0 => v > wal_lsn)
  BY <1>2, NewestOfLog
<1> HIDE DEF v
<1>5. Recovered(k, n) \in Nat
  BY <1>1, <1>3, <1>4
<1>6. CASE data[k] <= wal_lsn
  BY <1>1, <1>3, <1>4, <1>6
<1>7. CASE data[k] > wal_lsn
  BY <1>1, <1>5, <1>7, SyncedRecovered DEF TablesInv
<1> QED
  BY <1>1, <1>5, <1>6, <1>7
---------------------------------------------------------------------------
(* The inductive invariant implies the properties. *)

LEMMA PlaceImpliesOnePlace == TypeOK /\ PlaceInv => JobInOnePlace
<1> SUFFICES ASSUME TypeOK, PlaceInv, NEW c \in Client
             PROVE  Cardinality({i \in 1 .. Len(queue) : queue[i] = c})
                      + Cardinality({d \in Drainer : c \in Elements(batch[d])})
                      = IF call[c] = "queued" THEN 1 ELSE 0
  BY DEF JobInOnePlace
<1> DEFINE Q == {i \in 1 .. Len(queue) : queue[i] = c}
           D == {d \in Drainer : c \in Elements(batch[d])}
<1>1. /\ c \in Elements(queue) <=> \E i \in 1 .. Len(queue) : queue[i] = c
      /\ \A i, j \in 1 .. Len(queue) : queue[i] = queue[j] => i = j
  BY DEF PlaceInv, Distinct, Elements
<1>2. Cardinality(Q) = IF c \in Elements(queue) THEN 1 ELSE 0
  <2>1. CASE c \in Elements(queue)
    <3>1. PICK i \in 1 .. Len(queue) : queue[i] = c
      BY <1>1, <2>1
    <3>2. Q = {i}
      BY <1>1, <3>1
    <3> QED
      BY <2>1, <3>2, FS_Singleton
  <2>2. CASE c \notin Elements(queue)
    <3>1. Q = {}
      BY <1>1, <2>2
    <3> QED
      BY <2>2, <3>1, FS_EmptySet
  <2> QED
    BY <2>1, <2>2
<1>3. Cardinality(D) = IF D # {} THEN 1 ELSE 0
  <2>1. CASE D # {}
    <3>1. PICK d \in Drainer : c \in Elements(batch[d])
      BY <2>1
    <3>2. D = {d}
      BY SMTT(20), <3>1 DEF PlaceInv
    <3> QED
      BY <2>1, <3>2, FS_Singleton
  <2>2. CASE D = {}
    BY <2>2, FS_EmptySet
  <2> QED
    BY <2>1, <2>2
<1>4. c \in Elements(queue) => D = {}
  BY DEF PlaceInv
<1>5. call[c] = "queued" <=> c \in Elements(queue) \/ D # {}
  BY DEF PlaceInv
<1> HIDE DEF Q, D
<1>6. Cardinality(Q) + Cardinality(D) = IF call[c] = "queued" THEN 1 ELSE 0
  BY <1>2, <1>3, <1>4, <1>5
<1> QED
  BY <1>6 DEF Q, D

LEMMA InvImpliesDurable ==
  IInv => AppliedDurable /\ AckedDurableUnlessExcused /\ NewestWins
<1> SUFFICES ASSUME TypeOK, LogInv, ~excused, TablesInv, AckedInv
             PROVE  /\ \A k \in Key : \A n \in wal_synced .. Len(wal) :
                          memtable[k] <= Recovered(k, n)
                    /\ AckedDurable
                    /\ \A a \in acked :
                         a.lsn <= IF memtable[a.key] # 0 THEN memtable[a.key]
                                                         ELSE data[a.key]
  BY DEF IInv, DurableInv, AppliedDurable, AckedDurableUnlessExcused, NewestWins
<1>1. ASSUME NEW k \in Key, NEW n \in wal_synced .. Len(wal)
      PROVE  memtable[k] <= Recovered(k, n)
  <2>1. memtable[k] \in Nat
    BY DEF TypeOK, Lsn
  <2>2. CASE memtable[k] = 0
    BY <2>2, DataRecovered
  <2>3. CASE memtable[k] > 0
    BY <2>1, <2>3, SyncedRecovered DEF TablesInv
  <2> QED
    BY <2>1, <2>2, <2>3
<1>2. \A a \in acked : a.lsn > 0
  BY DEF AckedInv
<1>3. ASSUME NEW a \in acked, NEW n \in wal_synced .. Len(wal)
      PROVE  Recovered(a.key, n) >= a.lsn
  <2>1. /\ a.key \in Key /\ a.lsn \in Nat
        /\ a = [lsn |-> a.lsn, key |-> a.key]
    BY DEF TypeOK, Lsn
  <2>2. Recovered(a.key, n) \in Nat /\ data[a.key] <= Recovered(a.key, n)
    BY <2>1, DataRecovered
  <2>3. CASE a.lsn <= data[a.key]
    <3>1. data[a.key] \in Nat
      BY <2>1 DEF TypeOK, Lsn
    <3> QED
      BY <2>1, <2>2, <2>3, <3>1
  <2>4. CASE magic /\ a.lsn > wal_lsn /\ Synced(a)
    <3>1. a.lsn <= Recovered(a.key, n)
      BY <2>1, <2>4, SyncedRecovered
    <3> QED
      BY <2>1, <2>2, <3>1
  <2> QED
    BY <2>3, <2>4 DEF AckedInv
<1>4. ASSUME NEW a \in acked
      PROVE  a.lsn <= IF memtable[a.key] # 0 THEN memtable[a.key] ELSE data[a.key]
  <2>1. /\ a.key \in Key /\ a.lsn \in Nat
        /\ memtable[a.key] \in Nat /\ data[a.key] \in Nat
    BY DEF TypeOK, Lsn
  <2>2. /\ a.lsn > 0
        /\ a.lsn <= data[a.key] \/ a.lsn <= memtable[a.key]
        /\ memtable[a.key] = 0 \/ data[a.key] <= memtable[a.key]
    BY <2>1 DEF AckedInv, TablesInv
  <2> QED
    BY <2>1, <2>2
<1> QED
  BY <1>1, <1>2, <1>3, <1>4 DEF AckedDurable
---------------------------------------------------------------------------
(* The inductive invariant holds initially, and every step preserves it.   *)

LEMMA InitIInv == Init => IInv
<1> SUFFICES ASSUME Init PROVE IInv
  OBVIOUS
<1>1. TypeOK
  <2>1. (CHOOSE k \in Key : TRUE) \in Key
    BY SomeKey DEF SomeKey
  <2>2. 0 \in 0 .. MaxRounds /\ 0 \in 0 .. MaxFaults /\ 0 <= MaxBatchSize
    BY ConfigOK DEF ConfigOK
  <2>3. /\ memtable \in [Key -> Lsn] /\ data \in [Key -> Lsn] /\ head \in [Key -> Lsn]
        /\ job \in [Client -> [key : Key, large : BOOLEAN, lsn : Lsn]]
    BY <2>1 DEF Init, None, Lsn
  <2>4. /\ batch \in [Drainer -> Seq(Client)]
        /\ \A d \in Drainer : Len(batch[d]) <= MaxBatchSize
        /\ step \in [Drainer -> {"idle", "append", "fsync", "apply"}]
    BY <2>2 DEF Init
  <2>5. /\ wal \in Seq(Record) /\ wal_synced \in 0 .. Len(wal)
        /\ queue \in Seq(Client)
    BY DEF Init
  <2> QED
    BY <2>2, <2>3, <2>4, <2>5 DEF Init, TypeOK, Lsn
<1>2. PlaceInv
  BY DEF Init, PlaceInv, Distinct, Elements, Drainer
<1>3. LogInv /\ FreshInv /\ BatchInv
  BY DEF Init, LogInv, FreshInv, Unlogged, BatchInv, InHand, Elements
<1>4. DurableInv
  BY DEF Init, DurableInv, HandedInv, TablesInv, AckedInv, InHand, None
<1> QED
  BY <1>1, <1>2, <1>3, <1>4 DEF IInv

(* What TypeOK says of numbers and of the jobs in the batches. *)
LEMMA TypeFacts ==
  ASSUME TypeOK
  PROVE  /\ max_lsn \in Nat /\ wal_lsn \in Nat
         /\ wal \in Seq(Record) /\ Len(wal) \in Nat
         /\ wal_synced \in 0 .. Len(wal)
         /\ \A i \in 1 .. Len(wal) : wal[i] \in Record /\ wal[i].lsn \in Nat
         /\ \A k \in Key : memtable[k] \in Nat /\ data[k] \in Nat /\ head[k] \in Nat
         /\ \A d \in Drainer : batch[d] \in Seq(Client) /\ Len(batch[d]) \in Nat
         /\ \A d \in Drainer : Elements(batch[d]) \subseteq Client
         /\ \A c \in Client : job[c].lsn \in Nat /\ job[c].key \in Key
         /\ queue \in Seq(Client) /\ Len(queue) \in Nat
         /\ Elements(queue) \subseteq Client
<1>1. /\ wal \in Seq(Record) /\ queue \in Seq(Client)
      /\ \A d \in Drainer : batch[d] \in Seq(Client)
  BY DEF TypeOK
<1>2. \A i \in 1 .. Len(wal) : wal[i] \in Record
  BY <1>1
<1>3. \A i \in 1 .. Len(wal) : wal[i].lsn \in Nat
  BY <1>2 DEF Record, Lsn
<1>4. Elements(queue) \subseteq Client
  BY <1>1 DEF Elements
<1>5. \A d \in Drainer : Elements(batch[d]) \subseteq Client
  BY <1>1 DEF Elements
<1>6. \A k \in Key : memtable[k] \in Nat /\ data[k] \in Nat /\ head[k] \in Nat
  BY DEF TypeOK, Lsn
<1>7. \A c \in Client : job[c].lsn \in Nat /\ job[c].key \in Key
  BY DEF TypeOK, Lsn
<1>8. /\ max_lsn \in Nat /\ wal_lsn \in Nat
      /\ wal_synced \in 0 .. Len(wal)
  BY DEF TypeOK, Lsn
<1>9. Len(wal) \in Nat /\ Len(queue) \in Nat /\ \A d \in Drainer : Len(batch[d]) \in Nat
  BY <1>1
<1> QED
  BY <1>1, <1>2, <1>3, <1>4, <1>5, <1>6, <1>7, <1>8, <1>9

(* Steps that leave the log, the tables and the logged batches in hand     *)
(* alone.                                                                  *)
LEMMA QuietDurable ==
  ASSUME IInv, UNCHANGED <<wal, wal_synced, magic, max_lsn, tables, files, acked,
                           maint, excused>>,
         \A d \in Drainer : InHand(d)' =>
           \/ Unlogged(d)'
           \/ /\ InHand(d) /\ batch'[d] = batch[d] /\ step'[d] = step[d]
              /\ \A c \in Elements(batch[d]) : job'[c] = job[c]
  PROVE  LogInv' /\ BatchInv' /\ DurableInv'
<1>1. LogInv /\ BatchInv /\ DurableInv
  BY DEF IInv
<1>2. LogInv'
  BY <1>1 DEF LogInv, files
<1>3. BatchInv'
  <2> SUFFICES ASSUME NEW d \in Drainer, InHand(d)', ~Unlogged(d)',
                      NEW i \in 1 .. Len(batch'[d]), NEW j \in 1 .. Len(batch'[d]), i < j
               PROVE  job'[batch'[d][i]].lsn < job'[batch'[d][j]].lsn
    BY DEF BatchInv
  <2>1. /\ InHand(d) /\ batch'[d] = batch[d]
        /\ \A c \in Elements(batch[d]) : job'[c] = job[c]
    OBVIOUS
  <2>2. ~Unlogged(d)
    BY <2>1 DEF Unlogged
  <2>3. batch[d][i] \in Elements(batch[d]) /\ batch[d][j] \in Elements(batch[d])
    BY <2>1 DEF Elements
  <2> QED
    BY <1>1, <2>1, <2>2, <2>3 DEF BatchInv
<1>4. ASSUME ~excused PROVE unlogged' = {} /\ HandedInv' /\ TablesInv' /\ AckedInv'
  <2>1. unlogged = {} /\ HandedInv /\ TablesInv /\ AckedInv
    BY <1>1, <1>4 DEF DurableInv
  <2>2. unlogged' = {} /\ TablesInv' /\ AckedInv'
    BY <2>1 DEF TablesInv, AckedInv, Synced, Among, tables, files
  <2>3. ASSUME NEW d \in Drainer, InHand(d)', ~Unlogged(d)'
        PROVE  magic' /\ \A c \in Elements(batch'[d]) : Handed(d, c)'
    <3>1. /\ InHand(d) /\ batch'[d] = batch[d] /\ step'[d] = step[d]
          /\ \A c \in Elements(batch[d]) : job'[c] = job[c]
      BY <2>3
    <3>2. ~Unlogged(d)
      BY <2>3, <3>1 DEF Unlogged
    <3>3. magic /\ \A c \in Elements(batch[d]) : Handed(d, c)
      BY <2>1, <3>1, <3>2 DEF HandedInv
    <3>4. ASSUME NEW c \in Elements(batch[d]) PROVE Handed(d, c)'
      <4>1. Handed(d, c) /\ job'[c] = job[c] /\ step'[d] = step[d]
        BY <3>1, <3>3
      <4> QED
        BY <4>1 DEF Handed, RecordOf, Synced, Among, files
    <3> QED
      BY <3>1, <3>3, <3>4
  <2>4. HandedInv'
    BY <2>3 DEF HandedInv
  <2> QED
    BY <2>2, <2>4
<1> QED
  BY <1>2, <1>3, <1>4 DEF DurableInv

LEMMA PutEnterIInv ==
  ASSUME IInv, NEW c \in Client, NEW k \in Key, NEW large \in BOOLEAN,
         PutEnter(c, k, large)
  PROVE  IInv'
<1>1. TypeOK /\ PlaceInv /\ FreshInv
  BY DEF IInv
<1>2. c \notin Elements(queue) /\ \A d \in Drainer : c \notin Elements(batch[d])
  BY <1>1 DEF PutEnter, PlaceInv
<1>3. TypeOK'
  BY <1>1 DEF PutEnter, TypeOK, Lsn, log, tables, files, control
<1>4. /\ call' = [call EXCEPT ![c] = "entered"]
      /\ job' = [job EXCEPT ![c] = [key |-> k, large |-> large, lsn |-> 0]]
      /\ UNCHANGED <<queue, batch, step, maint>>
  BY DEF PutEnter, control
<1>5. PlaceInv'
  <2>1. \A b \in Client : call'[b] = "queued" <=> call[b] = "queued"
    BY <1>1, <1>4 DEF PutEnter, TypeOK
  <2> QED
    BY <1>1, <1>4, <2>1 DEF PlaceInv
<1>6. /\ job'[c].lsn = 0
      /\ \A b \in Client : b # c => job'[b] = job[b] /\ call'[b] = call[b]
      /\ \A b \in Elements(queue) : job'[b] = job[b]
      /\ \A d \in Drainer : \A b \in Elements(batch[d]) : job'[b] = job[b]
  BY <1>1, <1>2, <1>4, TypeFacts DEF TypeOK
<1>7. FreshInv'
  BY <1>1, <1>4, <1>6 DEF FreshInv, Unlogged
<1>8. LogInv' /\ BatchInv' /\ DurableInv'
  BY <1>6, QuietDurable DEF PutEnter, control, InHand, log
<1> QED
  BY <1>3, <1>5, <1>7, <1>8 DEF IInv

LEMMA PutEnqueueIInv ==
  ASSUME IInv, NEW c \in Client, PutEnqueue(c)
  PROVE  IInv'
<1>1. TypeOK /\ PlaceInv /\ FreshInv
  BY DEF IInv
<1>2. c \notin Elements(queue) /\ \A d \in Drainer : c \notin Elements(batch[d])
  BY <1>1 DEF PutEnqueue, PlaceInv
<1>3. /\ call[c] = "entered"
      /\ call' = [call EXCEPT ![c] = "queued"]
      /\ queue' = Append(queue, c)
      /\ UNCHANGED <<batch, step, job, maint>>
  BY DEF PutEnqueue, control
<1>4. TypeOK'
  BY SMTT(40), <1>1 DEF PutEnqueue, TypeOK, Lsn, log, tables, files, control
<1>5. queue \in Seq(Client) /\ Len(queue) \in Nat
  BY <1>1, TypeFacts
<1>6. /\ Len(queue') = Len(queue) + 1 /\ queue'[Len(queue) + 1] = c
      /\ \A i \in 1 .. Len(queue) : queue'[i] = queue[i]
  BY <1>3, <1>5
<1>7. Elements(queue') = Elements(queue) \cup {c}
  <2>1. 1 .. Len(queue') = (1 .. Len(queue)) \cup {Len(queue) + 1}
    BY <1>5, <1>6
  <2> QED
    BY <1>6, <2>1 DEF Elements
<1>8. \A b \in Client : /\ call'[b] = "queued" <=> call[b] = "queued" \/ b = c
                        /\ call'[b] = "entered" => call[b] = "entered"
  BY <1>1, <1>3 DEF TypeOK
<1>9. PlaceInv'
  <2>1. Distinct(queue)'
    <3>1. \A i \in 1 .. Len(queue) : queue[i] # c
      BY <1>2 DEF Elements
    <3> QED
      BY <1>1, <1>5, <1>6, <3>1 DEF PlaceInv, Distinct
  <2> QED
    BY <1>1, <1>2, <1>3, <1>7, <1>8, <2>1 DEF PlaceInv
<1>10. FreshInv'
  BY <1>1, <1>3, <1>7, <1>8 DEF FreshInv, Unlogged
<1>11. LogInv' /\ BatchInv' /\ DurableInv'
  BY <1>3, QuietDurable DEF PutEnqueue, control, log, InHand
<1> QED
  BY <1>4, <1>9, <1>10, <1>11 DEF IInv

(* Cutting a sequence without duplicates in two. *)
LEMMA CutDistinct ==
  ASSUME NEW s \in Seq(Client), Distinct(s), NEW n \in 0 .. Len(s)
  PROVE  LET a == SubSeq(s, 1, n)
             b == SubSeq(s, n + 1, Len(s))
         IN  /\ a \in Seq(Client) /\ Len(a) = n /\ Distinct(a)
             /\ b \in Seq(Client) /\ Distinct(b)
             /\ Elements(a) \cap Elements(b) = {}
             /\ Elements(a) \cup Elements(b) = Elements(s)
<1> DEFINE a == SubSeq(s, 1, n)
           b == SubSeq(s, n + 1, Len(s))
<1>1. Len(s) \in Nat /\ n \in Nat
  OBVIOUS
<1>2. /\ a \in Seq(Client) /\ Len(a) = n
      /\ \A i \in 1 .. n : a[i] = s[i]
  BY <1>1
<1>3. /\ b \in Seq(Client) /\ Len(b) = Len(s) - n
      /\ \A i \in 1 .. Len(s) - n : b[i] = s[n + i]
  BY <1>1
<1> HIDE DEF a, b
<1>4. Elements(a) = {s[i] : i \in 1 .. n}
  BY <1>2 DEF Elements
<1>5. Elements(b) = {s[i] : i \in n + 1 .. Len(s)}
  <2>1. ASSUME NEW x \in Elements(b) PROVE x \in {s[i] : i \in n + 1 .. Len(s)}
    <3>1. PICK i \in 1 .. Len(s) - n : x = s[n + i]
      BY <1>3, <2>1 DEF Elements
    <3>2. n + i \in n + 1 .. Len(s)
      BY <1>1
    <3> QED
      BY <3>1, <3>2
  <2>2. ASSUME NEW i \in n + 1 .. Len(s) PROVE s[i] \in Elements(b)
    <3>1. i - n \in 1 .. Len(s) - n /\ n + (i - n) = i
      BY <1>1
    <3>2. b[i - n] = s[i]
      BY <1>3, <3>1
    <3> QED
      BY <1>3, <3>1, <3>2 DEF Elements
  <2> QED
    BY <2>1, <2>2
<1>6. Distinct(a)
  BY <1>1, <1>2 DEF Distinct
<1>7. Distinct(b)
  <2> SUFFICES ASSUME NEW i \in 1 .. Len(s) - n, NEW j \in 1 .. Len(s) - n,
                      b[i] = b[j]
               PROVE  i = j
    BY <1>3 DEF Distinct
  <2>1. /\ n + i \in 1 .. Len(s) /\ n + j \in 1 .. Len(s)
        /\ s[n + i] = s[n + j]
    BY <1>1, <1>3
  <2>2. n + i = n + j
    BY <2>1 DEF Distinct
  <2> QED
    BY <1>1, <2>2
<1>8. Elements(a) \cap Elements(b) = {}
  <2>1. \A i \in 1 .. n : \A j \in n + 1 .. Len(s) : s[i] # s[j]
    BY <1>1 DEF Distinct
  <2> QED
    BY <1>4, <1>5, <2>1
<1>9. Elements(a) \cup Elements(b) = Elements(s)
  <2>1. 1 .. Len(s) = (1 .. n) \cup (n + 1 .. Len(s))
    BY <1>1
  <2> QED
    BY <1>4, <1>5, <2>1 DEF Elements
<1> QED
  BY <1>2, <1>3, <1>6, <1>7, <1>8, <1>9 DEF a, b

LEMMA PopIInv ==
  ASSUME IInv, NEW d \in Drainer, Pop(d)
  PROVE  IInv'
<1>1. TypeOK /\ PlaceInv /\ FreshInv
  BY DEF IInv
<1> DEFINE n == BatchSize
<1>2. queue \in Seq(Client) /\ Len(queue) \in Nat /\ Distinct(queue)
  BY <1>1, TypeFacts DEF PlaceInv
<1>3. /\ n \in 0 .. Len(queue) /\ n > 0 /\ n <= MaxBatchSize
  <2>1. MaxBatchSize \in Nat \ {0}
    BY ConfigOK DEF ConfigOK
  <2>2. Len(queue) # 0
    BY <1>2 DEF Pop
  <2> QED
    BY <1>2, <2>1, <2>2 DEF BatchSize
<1> HIDE DEF n
<1>4. /\ batch' = [batch EXCEPT ![d] = SubSeq(queue, 1, n)]
      /\ queue' = SubSeq(queue, n + 1, Len(queue))
      /\ step' = [step EXCEPT ![d] = "append"]
      /\ step[d] = "idle" /\ (d = Maintenance => maint = "drain")
      /\ UNCHANGED <<call, job, acked, commit, log, tables, files, control, faults>>
  BY DrainersDiffer DEF Pop, Rest, MayDrain, DrainersDiffer, n
<1>5. batch' \in [Drainer -> Seq(Client)] /\ batch'[d] = SubSeq(queue, 1, n)
      /\ \A e \in Drainer \ {d} : batch'[e] = batch[e]
  <2>1. SubSeq(queue, 1, n) \in Seq(Client)
    BY <1>2, <1>3, CutDistinct
  <2> QED
    BY <1>1, <1>4, <2>1 DEF TypeOK
<1>6. /\ Len(batch'[d]) = n /\ Distinct(batch'[d])
      /\ queue' \in Seq(Client) /\ Distinct(queue')
      /\ Elements(batch'[d]) \cap Elements(queue') = {}
      /\ Elements(batch'[d]) \cup Elements(queue') = Elements(queue)
  <2> DEFINE a == SubSeq(queue, 1, n)
             b == SubSeq(queue, n + 1, Len(queue))
  <2>1. /\ Len(a) = n /\ Distinct(a) /\ b \in Seq(Client) /\ Distinct(b)
        /\ Elements(a) \cap Elements(b) = {}
        /\ Elements(a) \cup Elements(b) = Elements(queue)
    BY <1>2, <1>3, CutDistinct, Zenon
  <2>2. batch'[d] = a /\ queue' = b
    BY <1>4, <1>5
  <2> HIDE DEF a, b
  <2> QED
    BY <2>1, <2>2
<1>7. step'[d] = "append" /\ \A e \in Drainer \ {d} : step'[e] = step[e]
  BY <1>1, <1>4 DEF TypeOK
<1>8. batch[d] = <<>> /\ Elements(batch[d]) = {}
  BY <1>1, <1>4 DEF PlaceInv, Elements
<1>9. TypeOK'
  <2>1. \A e \in Drainer : Len(batch'[e]) <= MaxBatchSize
    BY <1>1, <1>3, <1>5, <1>6 DEF TypeOK
  <2>2. step' \in [Drainer -> {"idle", "append", "fsync", "apply"}]
    BY <1>1, <1>4 DEF TypeOK
  <2> QED
    BY <1>1, <1>4, <1>5, <1>6, <2>1, <2>2 DEF TypeOK, log, tables, files, control
<1>10. PlaceInv'
  <2>1. \A e \in Drainer : Distinct(batch'[e])
    BY <1>1, <1>5, <1>6 DEF PlaceInv
  <2>2. \A e, f \in Drainer : e # f => Elements(batch'[e]) \cap Elements(batch'[f]) = {}
    <3>1. \A e \in Drainer \ {d} : Elements(batch'[e]) \cap Elements(queue) = {}
      BY <1>1, <1>5 DEF PlaceInv
    <3>2. \A e \in Drainer \ {d} : Elements(batch'[d]) \cap Elements(batch'[e]) = {}
      BY <1>6, <3>1
    <3>3. \A e, f \in Drainer \ {d} :
            e # f => Elements(batch'[e]) \cap Elements(batch'[f]) = {}
      BY <1>1, <1>5 DEF PlaceInv
    <3> QED
      BY <3>2, <3>3
  <2>3. \A e \in Drainer : Elements(queue') \cap Elements(batch'[e]) = {}
    BY <1>1, <1>5, <1>6 DEF PlaceInv
  <2>4. \A c \in Client : call'[c] = "queued" <=>
          c \in Elements(queue') \/ \E e \in Drainer : c \in Elements(batch'[e])
    BY <1>1, <1>4, <1>5, <1>6, <1>8 DEF PlaceInv
  <2>5. \A e \in Drainer : step'[e] = "idle" <=> batch'[e] = <<>>
    <3>1. batch'[d] # <<>>
      BY <1>3, <1>6
    <3> QED
      BY <1>1, <1>5, <1>7, <3>1 DEF PlaceInv
  <2>6. step'[Maintenance] # "idle" => maint' = "drain"
    BY <1>1, <1>4, <1>7 DEF PlaceInv, control, Drainer
  <2> QED
    BY <1>6, <2>1, <2>2, <2>3, <2>4, <2>5, <2>6 DEF PlaceInv
<1>11. FreshInv'
  BY <1>1, <1>4, <1>5, <1>6, <1>7 DEF FreshInv, Unlogged
<1>12. LogInv' /\ BatchInv' /\ DurableInv'
  <2>1. \A e \in Drainer : InHand(e)' =>
          InHand(e) /\ batch'[e] = batch[e] /\ step'[e] = step[e]
    BY <1>5, <1>7 DEF InHand
  <2> QED
    BY <1>4, <2>1, QuietDurable DEF control, log
<1> QED
  BY <1>9, <1>10, <1>11, <1>12 DEF IInv

(* CompleteJobs: the jobs of d are nowhere any more. *)
LEMMA CompletePlace ==
  ASSUME TypeOK, PlaceInv, FreshInv, NEW d \in Drainer, NEW ok, CompleteJobs(d, ok),
         UNCHANGED <<queue, maint>>,
         \A c \in Client \ Elements(batch[d]) : job'[c] = job[c]
  PROVE  /\ PlaceInv' /\ FreshInv'
         /\ call' \in [Client -> {"idle", "entered", "queued"}]
         /\ batch' \in [Drainer -> Seq(Client)]
         /\ \A e \in Drainer : Len(batch'[e]) <= MaxBatchSize
         /\ step' \in [Drainer -> {"idle", "append", "fsync", "apply"}]
         /\ \A e \in Drainer : InHand(e)' =>
              /\ e # d /\ InHand(e) /\ batch'[e] = batch[e] /\ step'[e] = step[e]
              /\ \A c \in Elements(batch[e]) : job'[c] = job[c]
<1>1. /\ call' = [c \in Client |-> IF c \in Elements(batch[d]) THEN "idle" ELSE call[c]]
      /\ batch' = [batch EXCEPT ![d] = <<>>]
      /\ step' = [step EXCEPT ![d] = "idle"]
  BY DEF CompleteJobs, Woken
<1>2. /\ batch' \in [Drainer -> Seq(Client)] /\ batch'[d] = <<>>
      /\ \A e \in Drainer \ {d} : batch'[e] = batch[e]
  BY <1>1 DEF TypeOK
<1>3. /\ step' \in [Drainer -> {"idle", "append", "fsync", "apply"}]
      /\ step'[d] = "idle" /\ \A e \in Drainer \ {d} : step'[e] = step[e]
  BY <1>1 DEF TypeOK
<1>4. call' \in [Client -> {"idle", "entered", "queued"}]
  BY <1>1 DEF TypeOK
<1>5. \A e \in Drainer : Len(batch'[e]) <= MaxBatchSize
  <2>1. 0 <= MaxBatchSize
    BY ConfigOK DEF ConfigOK
  <2>2. Len(batch'[d]) = 0
    BY <1>2
  <2> QED
    BY <1>2, <2>1, <2>2 DEF TypeOK
<1>6. PlaceInv'
  <2>1. Elements(batch'[d]) = {} /\ Distinct(batch'[d])
    BY <1>2 DEF Elements, Distinct
  <2>2. \A e \in Drainer : Distinct(batch'[e])
    BY <1>2, <2>1 DEF PlaceInv
  <2>3. \A e, f \in Drainer : e # f => Elements(batch'[e]) \cap Elements(batch'[f]) = {}
    BY <1>2, <2>1 DEF PlaceInv
  <2>4. \A e \in Drainer : Elements(queue') \cap Elements(batch'[e]) = {}
    BY <1>2, <2>1 DEF PlaceInv
  <2>5. \A c \in Client : call'[c] = "queued" <=>
          c \in Elements(queue') \/ \E e \in Drainer : c \in Elements(batch'[e])
    BY <1>1, <1>2, <2>1 DEF PlaceInv
  <2>6. \A e \in Drainer : step'[e] = "idle" <=> batch'[e] = <<>>
    BY <1>2, <1>3 DEF PlaceInv
  <2>7. step'[Maintenance] # "idle" => maint' = "drain"
    BY <1>3 DEF PlaceInv, Drainer
  <2>8. Distinct(queue')
    BY DEF PlaceInv
  <2> QED
    BY <2>2, <2>3, <2>4, <2>5, <2>6, <2>7, <2>8 DEF PlaceInv
<1>7. \A e \in Drainer : InHand(e)' =>
        e # d /\ InHand(e) /\ batch'[e] = batch[e] /\ step'[e] = step[e]
  BY <1>2, <1>3 DEF InHand
<1>8. \A e \in Drainer : e # d => \A c \in Elements(batch[e]) : job'[c] = job[c]
  <2>1. \A e \in Drainer : e # d => Elements(batch[e]) \cap Elements(batch[d]) = {}
    BY DEF PlaceInv
  <2> QED
    BY <2>1, TypeFacts
<1>9. FreshInv'
  <2>1. ASSUME NEW c \in Client, call'[c] = "entered" PROVE job'[c].lsn = 0
    <3>1. call[c] = "entered" /\ c \notin Elements(batch[d])
      BY <1>1, <2>1
    <3> QED
      BY <3>1 DEF FreshInv
  <2>2. \A c \in Elements(queue) : job'[c] = job[c]
    BY TypeFacts DEF PlaceInv
  <2>3. ASSUME NEW e \in Drainer, step'[e] = "append" PROVE Unlogged(e)'
    <3>1. e # d /\ step[e] = "append" /\ batch'[e] = batch[e]
      BY <1>2, <1>3, <2>3
    <3> QED
      BY <1>8, <3>1 DEF FreshInv, Unlogged
  <2> QED
    BY <2>1, <2>2, <2>3 DEF FreshInv
<1> QED
  BY <1>2, <1>3, <1>4, <1>5, <1>6, <1>7, <1>8, <1>9

(* An fsync that fails may use up a fault. *)
LEMMA FsyncErrorFaults ==
  ASSUME faults \in 0 .. MaxFaults, FsyncError
  PROVE  faults' \in 0 .. MaxFaults
BY ConfigOK DEF FsyncError, ConfigOK

LEMMA FsyncFailsIInv ==
  ASSUME IInv, NEW d \in Drainer, FsyncFails(d)
  PROVE  IInv'
<1>1. TypeOK /\ PlaceInv /\ FreshInv
  BY DEF IInv
<1>2. /\ CompleteJobs(d, {}) /\ FsyncError
      /\ UNCHANGED <<job, queue, commit, log, tables, files, control>>
  BY DEF FsyncFails
<1>3. acked' = acked
  BY <1>2 DEF CompleteJobs
<1>4. /\ PlaceInv' /\ FreshInv'
      /\ call' \in [Client -> {"idle", "entered", "queued"}]
      /\ batch' \in [Drainer -> Seq(Client)]
      /\ \A e \in Drainer : Len(batch'[e]) <= MaxBatchSize
      /\ step' \in [Drainer -> {"idle", "append", "fsync", "apply"}]
      /\ \A e \in Drainer : InHand(e)' =>
           /\ e # d /\ InHand(e) /\ batch'[e] = batch[e] /\ step'[e] = step[e]
           /\ \A c \in Elements(batch[e]) : job'[c] = job[c]
  BY <1>1, <1>2, CompletePlace DEF control
<1>5. TypeOK'
  <2>1. faults' \in 0 .. MaxFaults
    BY <1>1, <1>2, FsyncErrorFaults DEF TypeOK
  <2> QED
    BY <1>1, <1>2, <1>3, <1>4, <2>1 DEF TypeOK, log, tables, files, control
<1>6. LogInv' /\ BatchInv' /\ DurableInv'
  BY <1>2, <1>3, <1>4, QuietDurable DEF control, log
<1> QED
  BY <1>4, <1>5, <1>6 DEF IInv

(* A log that grows, and is fsynced further, keeps what it has.            *)
LEMMA LogGrows ==
  ASSUME TypeOK, Len(wal') \in Nat, Len(wal) <= Len(wal'),
         \A i \in 1 .. Len(wal) : wal'[i] = wal[i],
         wal_synced' \in Nat, wal_synced <= wal_synced'
  PROVE  /\ \A r : (\E i \in 1 .. Len(wal) : wal[i] = r)
                     => \E i \in 1 .. Len(wal') : wal'[i] = r
         /\ \A r : (\E i \in 1 .. wal_synced : wal[i] = r)
                     => \E i \in 1 .. wal_synced' : wal'[i] = r
<1>1. wal_synced \in 0 .. Len(wal) /\ Len(wal) \in Nat
  BY TypeFacts
<1>2. /\ \A i \in 1 .. Len(wal) : i \in 1 .. Len(wal')
      /\ \A i \in 1 .. wal_synced : i \in 1 .. wal_synced' /\ i \in 1 .. Len(wal)
  BY <1>1
<1> QED
  BY <1>2

(* Steps that write to the log or fsync it, and leave the tables alone: a  *)
(* log with its magic number keeps what it has.                            *)
LEMMA LoggedDurable ==
  ASSUME IInv, UNCHANGED <<tables, files, acked, maint, excused>>,
         Len(wal') \in Nat, wal_synced' \in Nat,
         magic => /\ magic' /\ Len(wal) <= Len(wal') /\ wal_synced <= wal_synced'
                  /\ \A i \in 1 .. Len(wal) : wal'[i] = wal[i],
         ~excused => \A d \in Drainer : InHand(d)' =>
           \/ Unlogged(d)'
           \/ magic' /\ \A c \in Elements(batch'[d]) : Handed(d, c)'
           \/ /\ InHand(d) /\ batch'[d] = batch[d] /\ step'[d] = step[d]
              /\ \A c \in Elements(batch[d]) : job'[c] = job[c]
  PROVE  DurableInv'
<1>1. TypeOK /\ DurableInv
  BY DEF IInv
<1> SUFFICES ASSUME ~excused
             PROVE  unlogged' = {} /\ HandedInv' /\ TablesInv' /\ AckedInv'
  BY DEF DurableInv
<1>2. unlogged = {} /\ HandedInv /\ TablesInv /\ AckedInv
  BY <1>1 DEF DurableInv
<1>3. ASSUME magic
      PROVE  /\ \A r : (\E i \in 1 .. Len(wal) : wal[i] = r)
                         => \E i \in 1 .. Len(wal') : wal'[i] = r
             /\ \A r : (\E i \in 1 .. wal_synced : wal[i] = r)
                         => \E i \in 1 .. wal_synced' : wal'[i] = r
  BY <1>1, <1>3, LogGrows
<1>4. unlogged' = {} /\ TablesInv'
  <2>1. UNCHANGED <<memtable, unlogged, data, head, wal_lsn, maint>>
    BY DEF tables, files
  <2>2. \A k \in Key : data[k] <= head[k]
                       /\ (memtable[k] = 0 \/ data[k] <= memtable[k])
                       /\ (maint = "truncate" => data[k] <= wal_lsn)
    BY <1>2 DEF TablesInv
  <2>3. ASSUME NEW k \in Key, memtable[k] > 0
        PROVE  /\ magic' /\ memtable[k] > wal_lsn
               /\ Synced([lsn |-> memtable[k], key |-> k])'
    <3>1. magic /\ memtable[k] > wal_lsn /\ Synced([lsn |-> memtable[k], key |-> k])
      BY <1>2, <2>3 DEF TablesInv
    <3>2. \E i \in 1 .. wal_synced' : wal'[i] = [lsn |-> memtable[k], key |-> k]
      BY <1>3, <3>1 DEF Synced, Among
    <3> QED
      BY <2>1, <3>1, <3>2 DEF Synced, Among
  <2>4. ASSUME NEW k \in Key, data[k] > wal_lsn
        PROVE  magic' /\ Synced([lsn |-> data[k], key |-> k])'
    <3>1. magic /\ Synced([lsn |-> data[k], key |-> k])
      BY <1>2, <2>4 DEF TablesInv
    <3>2. \E i \in 1 .. wal_synced' : wal'[i] = [lsn |-> data[k], key |-> k]
      BY <1>3, <3>1 DEF Synced, Among
    <3> QED
      BY <2>1, <3>1, <3>2 DEF Synced, Among
  <2> QED
    BY <1>2, <2>1, <2>2, <2>3, <2>4 DEF TablesInv
<1>5. AckedInv'
  BY <1>2, <1>3 DEF AckedInv, Synced, Among, tables, files
<1>6. ASSUME NEW d \in Drainer, ~Unlogged(d)', InHand(d), batch'[d] = batch[d],
             step'[d] = step[d], \A c \in Elements(batch[d]) : job'[c] = job[c]
      PROVE  magic' /\ \A c \in Elements(batch'[d]) : Handed(d, c)'
  <2>1. ~Unlogged(d)
    BY <1>6 DEF Unlogged
  <2>2. magic /\ \A c \in Elements(batch[d]) : Handed(d, c)
    BY <1>2, <1>6, <2>1 DEF HandedInv
  <2>3. ASSUME NEW c \in Elements(batch[d]) PROVE Handed(d, c)'
    <3>1. Handed(d, c) /\ job'[c] = job[c]
      BY <1>6, <2>2
    <3>2. RecordOf(c)' = RecordOf(c) /\ job'[c].lsn = job[c].lsn /\ wal_lsn' = wal_lsn
      BY <3>1 DEF RecordOf, files
    <3>3. Among(RecordOf(c), Len(wal))'
      BY <1>3, <2>2, <3>1, <3>2 DEF Handed, Among
    <3>4. Synced(RecordOf(c)) => Synced(RecordOf(c))'
      BY SMTT(20), <1>3, <2>2, <3>2 DEF Synced, Among
    <3> QED
      BY <1>6, <3>1, <3>2, <3>3, <3>4 DEF Handed
  <2> QED
    BY <1>6, <2>2, <2>3
<1>7. HandedInv'
  BY <1>6 DEF HandedInv
<1> QED
  BY <1>4, <1>5, <1>7

LEMMA FsyncBatchIInv ==
  ASSUME IInv, NEW d \in Drainer, FsyncBatch(d)
  PROVE  IInv'
<1>1. TypeOK /\ PlaceInv /\ LogInv /\ FreshInv /\ BatchInv /\ DurableInv
  BY DEF IInv
<1>2. /\ step[d] = "fsync" /\ wal_synced' = Len(wal)
      /\ step' = [step EXCEPT ![d] = "apply"]
      /\ UNCHANGED <<call, job, queue, batch, acked, commit, wal, magic, file_ok,
                     max_lsn, tables, files, control, faults>>
  BY DEF FsyncBatch, Fsync
<1>3. /\ step' \in [Drainer -> {"idle", "append", "fsync", "apply"}]
      /\ step'[d] = "apply" /\ \A e \in Drainer \ {d} : step'[e] = step[e]
  BY <1>1, <1>2 DEF TypeOK
<1>4. wal_synced \in 0 .. Len(wal) /\ Len(wal) \in Nat
  BY <1>1, TypeFacts
<1>5. TypeOK'
  BY <1>1, <1>2, <1>3, <1>4 DEF TypeOK, tables, files, control
<1>6. PlaceInv'
  <2>1. \A e \in Drainer : step'[e] = "idle" <=> step[e] = "idle"
    BY <1>2, <1>3
  <2>2. Maintenance \in Drainer
    BY DEF Drainer
  <2> QED
    BY <1>1, <1>2, <2>1, <2>2 DEF PlaceInv, control
<1>7. FreshInv'
  BY <1>1, <1>2, <1>3 DEF FreshInv, Unlogged
<1>8. LogInv'
  BY <1>1, <1>2 DEF LogInv, files
<1>9. \A e \in Drainer : InHand(e)' => InHand(e)
  BY <1>2, <1>3 DEF InHand
<1>10. BatchInv'
  BY <1>1, <1>2, <1>9 DEF BatchInv, Unlogged
<1>11. ASSUME ~excused, ~Unlogged(d)'
       PROVE  magic' /\ \A c \in Elements(batch'[d]) : Handed(d, c)'
  <2>1. InHand(d) /\ ~Unlogged(d)
    BY <1>2, <1>11 DEF InHand, Unlogged
  <2>2. magic /\ \A c \in Elements(batch[d]) : Handed(d, c)
    BY <1>1, <1>11, <2>1 DEF DurableInv, HandedInv
  <2> QED
    BY <1>2, <2>2 DEF Handed, Synced, Among, RecordOf, files
<1>12. \A e \in Drainer : InHand(e)' /\ e # d =>
         /\ InHand(e) /\ batch'[e] = batch[e] /\ step'[e] = step[e]
         /\ \A c \in Elements(batch[e]) : job'[c] = job[c]
  BY <1>2, <1>3, <1>9
<1>13. DurableInv'
  BY <1>2, <1>4, <1>11, <1>12, LoggedDurable DEF control
<1> QED
  BY <1>5, <1>6, <1>7, <1>8, <1>10, <1>13 DEF IInv

(* The jobs of an appended batch take the LSNs above the counter, in turn. *)
LEMMA AppendManyJobs ==
  ASSUME TypeOK, PlaceInv, NEW d \in Drainer, NEW bad, AppendMany(d, bad)
  PROVE  /\ job' \in [Client -> [key : Key, large : BOOLEAN, lsn : Lsn]]
         /\ \A c \in Client : job'[c].key = job[c].key
         /\ \A c \in Client \ Elements(batch[d]) : job'[c] = job[c]
         /\ bad = {} => \A i \in 1 .. Len(batch[d]) :
                                   job'[batch[d][i]].lsn = max_lsn + i
<1>1. /\ batch[d] \in Seq(Client) /\ Len(batch[d]) \in Nat /\ max_lsn \in Nat
      /\ Elements(batch[d]) \subseteq Client
      /\ \A c \in Client : job[c].lsn \in Nat /\ job[c].key \in Key
  BY TypeFacts
<1> DEFINE small == Elements(batch[d]) \ bad
<1>2. job' = [c \in Client |-> IF c \in small
                               THEN [job[c] EXCEPT !.lsn = LsnOf(d, c)] ELSE job[c]]
  BY DEF AppendMany
<1>3. \A c \in Client : job[c] \in [key : Key, large : BOOLEAN, lsn : Lsn]
  BY DEF TypeOK
<1>4. ASSUME NEW i \in 1 .. Len(batch[d]) PROVE LsnOf(d, batch[d][i]) = max_lsn + i
  <2>1. \A j \in 1 .. Len(batch[d]) : batch[d][j] = batch[d][i] => j = i
    BY DEF PlaceInv, Distinct
  <2>2. (CHOOSE j \in 1 .. Len(batch[d]) : batch[d][j] = batch[d][i]) = i
    BY <2>1
  <2> QED
    BY <2>2 DEF LsnOf
<1>5. \A c \in Elements(batch[d]) : LsnOf(d, c) \in Nat
  <2> SUFFICES ASSUME NEW i \in 1 .. Len(batch[d]) PROVE LsnOf(d, batch[d][i]) \in Nat
    BY DEF Elements
  <2> QED
    BY <1>1, <1>4
<1> HIDE DEF small
<1>6. \A c \in small : c \in Elements(batch[d])
  BY DEF small
<1>7. ASSUME NEW c \in Client
      PROVE  /\ job'[c] \in [key : Key, large : BOOLEAN, lsn : Lsn]
             /\ job'[c].key = job[c].key
             /\ c \notin small => job'[c] = job[c]
             /\ c \in small => job'[c].lsn = LsnOf(d, c)
  <2>1. CASE c \in small
    <3>1. job'[c] = [job[c] EXCEPT !.lsn = LsnOf(d, c)]
      BY <1>2, <2>1
    <3>2. LsnOf(d, c) \in Lsn
      BY <1>5, <1>6, <2>1 DEF Lsn
    <3> HIDE DEF LsnOf
    <3> QED
      BY <1>3, <2>1, <3>1, <3>2
  <2>2. CASE c \notin small
    BY <1>2, <1>3, <2>2
  <2> QED
    BY <2>1, <2>2
<1>8. ASSUME bad = {}, NEW i \in 1 .. Len(batch[d])
      PROVE  job'[batch[d][i]].lsn = max_lsn + i
  <2>1. batch[d][i] \in small /\ batch[d][i] \in Client
    BY <1>1, <1>8 DEF small, Elements
  <2> QED
    BY <1>4, <1>7, <2>1
<1>9. job' \in [Client -> [key : Key, large : BOOLEAN, lsn : Lsn]]
  <2>1. job' = [c \in Client |-> job'[c]]
    BY <1>2
  <2> QED
    BY <1>7, <2>1
<1> QED
  BY <1>6, <1>7, <1>8, <1>9

(* The log after an append of any kind: what it had, if it had its magic   *)
(* number, and the new records, in LSN order.                              *)
LEMMA AppendToLog ==
  ASSUME TypeOK, LogInv, NEW app \in Seq(Record), NEW n \in Nat,
         \A i, j \in 1 .. Len(app) : i < j => app[i].lsn < app[j].lsn,
         \A i \in 1 .. Len(app) : max_lsn < app[i].lsn /\ app[i].lsn <= max_lsn + n,
         wal' = Restarted \o app, wal_synced' = RestartedSynced, magic' = TRUE,
         max_lsn' = max_lsn + n, wal_lsn' = wal_lsn
  PROVE  /\ wal' \in Seq(Record) /\ wal_synced' \in 0 .. Len(wal')
         /\ Len(wal') \in Nat /\ wal_synced' \in Nat /\ max_lsn' \in Lsn
         /\ LogInv'
         /\ magic => /\ Len(wal) <= Len(wal') /\ wal_synced <= wal_synced'
                     /\ \A i \in 1 .. Len(wal) : wal'[i] = wal[i]
         /\ \A i \in 1 .. Len(app) : \E j \in 1 .. Len(wal') : wal'[j] = app[i]
<1>1. /\ max_lsn \in Nat /\ wal_lsn \in Nat
      /\ wal \in Seq(Record) /\ Len(wal) \in Nat /\ wal_synced \in 0 .. Len(wal)
      /\ \A i \in 1 .. Len(wal) : wal[i].lsn \in Nat
  BY TypeFacts
<1> DEFINE base == Restarted
<1>2. /\ base \in Seq(Record) /\ Len(base) \in Nat
      /\ \A i, j \in 1 .. Len(base) : i < j => base[i].lsn < base[j].lsn
      /\ \A i \in 1 .. Len(base) : /\ base[i].lsn \in Nat /\ base[i].lsn > 0
                                   /\ base[i].lsn <= max_lsn
      /\ magic => base = wal /\ wal_synced' = wal_synced
      /\ wal_synced' \in 0 .. Len(base)
  <2>1. CASE magic
    BY <1>1, <2>1 DEF LogInv, Restarted, RestartedSynced
  <2>2. CASE ~magic
    BY <2>2 DEF Restarted, RestartedSynced
  <2> QED
    BY <2>1, <2>2
<1>3. wal' = base \o app
  OBVIOUS
<1> HIDE DEF base
<1>4. Len(app) \in Nat /\ \A i \in 1 .. Len(app) : app[i].lsn \in Nat
  <2>1. Len(app) \in Nat /\ \A i \in 1 .. Len(app) : app[i] \in Record
    OBVIOUS
  <2> QED
    BY <2>1 DEF Record, Lsn
<1>5. /\ wal' \in Seq(Record) /\ Len(wal') = Len(base) + Len(app)
      /\ \A i \in 1 .. Len(base) : wal'[i] = base[i]
      /\ \A i \in 1 .. Len(app) : wal'[Len(base) + i] = app[i]
      /\ \A i \in 1 .. Len(wal') : i <= Len(base) \/ i - Len(base) \in 1 .. Len(app)
      /\ \A i \in 1 .. Len(wal') : i > Len(base) => wal'[i] = app[i - Len(base)]
  BY <1>2, <1>3, <1>4
<1>6. LogInv'
  <2>1. ASSUME NEW i \in 1 .. Len(wal'), NEW j \in 1 .. Len(wal'), i < j
        PROVE  wal'[i].lsn < wal'[j].lsn
    <3>1. CASE j <= Len(base)
      BY <1>2, <1>5, <2>1, <3>1
    <3>2. CASE i <= Len(base) /\ j > Len(base)
      <4>1. i \in 1 .. Len(base) /\ j - Len(base) \in 1 .. Len(app)
        BY <1>2, <1>5, <3>2
      <4>2. wal'[i].lsn <= max_lsn /\ max_lsn < wal'[j].lsn
        BY <1>2, <1>5, <3>2, <4>1
      <4>3. wal'[i].lsn \in Nat /\ wal'[j].lsn \in Nat
        BY <1>2, <1>4, <1>5, <3>2, <4>1
      <4>4. \A x, y, z \in Nat : x <= y /\ y < z => x < z
        OBVIOUS
      <4> QED
        BY <1>1, <4>2, <4>3, <4>4, Zenon
    <3>3. CASE i > Len(base)
      <4>1. /\ i - Len(base) \in 1 .. Len(app) /\ j - Len(base) \in 1 .. Len(app)
            /\ i - Len(base) < j - Len(base) /\ j > Len(base)
        BY <1>2, <1>4, <1>5, <2>1, <3>3
      <4>2. wal'[i] = app[i - Len(base)] /\ wal'[j] = app[j - Len(base)]
        BY <1>5, <3>3, <4>1
      <4>3. app[i - Len(base)].lsn < app[j - Len(base)].lsn
        BY <4>1, Zenon
      <4> QED
        BY <4>2, <4>3, Zenon
    <3>4. i \in Nat /\ j \in Nat /\ Len(base) \in Nat
      BY <1>2, <1>5
    <3>5. i > Len(base) \/ j <= Len(base) \/ (i <= Len(base) /\ j > Len(base))
      BY <3>4
    <3> QED
      BY <3>1, <3>2, <3>3, <3>5, Zenon
  <2>2. ASSUME NEW i \in 1 .. Len(wal')
        PROVE  wal'[i].lsn > 0 /\ wal'[i].lsn <= max_lsn'
    <3>1. CASE i <= Len(base)
      <4>1. i \in 1 .. Len(base)
        BY <1>2, <1>5, <3>1
      <4> QED
        BY SMTT(20), <1>1, <1>2, <1>5, <4>1
    <3>2. CASE i > Len(base)
      <4>1. i - Len(base) \in 1 .. Len(app)
        BY <1>2, <1>5, <3>2
      <4>2. /\ wal'[i].lsn \in Nat /\ max_lsn < wal'[i].lsn
            /\ wal'[i].lsn <= max_lsn + n
        BY <1>4, <1>5, <3>2, <4>1
      <4> QED
        BY SMTT(20), <1>1, <4>2
    <3> QED
      BY <1>2, <1>5, <3>1, <3>2
  <2>3. wal_lsn' <= max_lsn'
    BY <1>1 DEF LogInv
  <2> QED
    BY <2>1, <2>2, <2>3 DEF LogInv
<1>7. magic => /\ Len(wal) <= Len(wal') /\ wal_synced <= wal_synced'
               /\ \A i \in 1 .. Len(wal) : wal'[i] = wal[i]
  BY <1>1, <1>2, <1>4, <1>5
<1>8. ASSUME NEW i \in 1 .. Len(app) PROVE \E j \in 1 .. Len(wal') : wal'[j] = app[i]
  <2>1. Len(base) + i \in 1 .. Len(wal') /\ wal'[Len(base) + i] = app[i]
    BY <1>2, <1>4, <1>5
  <2> QED
    BY <2>1
<1>9. wal_synced' \in 0 .. Len(wal') /\ wal_synced' \in Nat /\ Len(wal') \in Nat
  BY <1>2, <1>4, <1>5
<1>10. max_lsn' \in Lsn
  BY <1>1 DEF Lsn
<1> QED
  BY <1>5, <1>6, <1>7, <1>8, <1>9, <1>10

LEMMA AppendManyIInv ==
  ASSUME IInv, NEW d \in Drainer, NEW bad \in SUBSET Client, AppendMany(d, bad)
  PROVE  IInv'
<1>1. TypeOK /\ PlaceInv /\ LogInv /\ FreshInv /\ BatchInv /\ DurableInv
  BY DEF IInv
<1>2. /\ batch[d] \in Seq(Client) /\ Len(batch[d]) \in Nat /\ max_lsn \in Nat
      /\ wal_lsn \in Nat /\ Elements(batch[d]) \subseteq Client
  BY <1>1, TypeFacts
<1>3. /\ job' \in [Client -> [key : Key, large : BOOLEAN, lsn : Lsn]]
      /\ \A c \in Client : job'[c].key = job[c].key
      /\ \A c \in Client \ Elements(batch[d]) : job'[c] = job[c]
      /\ bad = {} => \A i \in 1 .. Len(batch[d]) :
                       job'[batch[d][i]].lsn = max_lsn + i
  BY <1>1, AppendManyJobs
<1> DEFINE app == Appended(d, bad)
<1>4. /\ app \in Seq(Record)
      /\ \A i, j \in 1 .. Len(app) : i < j => app[i].lsn < app[j].lsn
      /\ \A i \in 1 .. Len(app) : /\ max_lsn < app[i].lsn
                                  /\ app[i].lsn <= max_lsn + Len(batch[d])
      /\ bad = {} =>
           /\ Len(app) = Len(batch[d])
           /\ \A i \in 1 .. Len(batch[d]) :
                app[i] = [lsn |-> max_lsn + i, key |-> job[batch[d][i]].key]
  BY <1>1, <1>2, AppendedProperties DEF TypeOK
<1>5. /\ magic' = TRUE /\ step[d] = "append" /\ file_ok' \in BOOLEAN
      /\ wal' = Restarted \o app /\ wal_synced' = RestartedSynced
      /\ max_lsn' = max_lsn + Len(batch[d])
      /\ faults' \in 0 .. MaxFaults
      /\ UNCHANGED <<queue, commit, tables, files, maint, checkpoint, rounds>>
  <2>1. faults' \in 0 .. MaxFaults
    BY <1>1, ConfigOK DEF AppendMany, TypeOK, ConfigOK
  <2>2. file_ok' \in BOOLEAN
    BY <1>1 DEF AppendMany, TypeOK
  <2> QED
    BY <2>1, <2>2 DEF AppendMany
<1> HIDE DEF app
<1>6. /\ wal' \in Seq(Record) /\ wal_synced' \in 0 .. Len(wal')
      /\ Len(wal') \in Nat /\ wal_synced' \in Nat /\ max_lsn' \in Lsn
      /\ LogInv'
      /\ magic => /\ Len(wal) <= Len(wal') /\ wal_synced <= wal_synced'
                  /\ \A i \in 1 .. Len(wal) : wal'[i] = wal[i]
      /\ \A i \in 1 .. Len(app) : \E j \in 1 .. Len(wal') : wal'[j] = app[i]
  BY <1>1, <1>2, <1>4, <1>5, AppendToLog DEF files
<1>7. CASE bad # {}
  <2> DEFINE ok == Elements(batch[d]) \ bad
  <2>1. CompleteJobs(d, ok) /\ excused' = (excused \/ Elements(batch[d]) # bad)
    BY <1>7 DEF AppendMany
  <2>2. acked' = acked \cup {[key |-> job'[c].key, lsn |-> job'[c].lsn] : c \in ok}
    BY <2>1 DEF CompleteJobs
  <2>3. acked' \subseteq [lsn : Lsn, key : Key]
    <3>1. \A c \in ok : job'[c].key \in Key /\ job'[c].lsn \in Lsn
      BY <1>2, <1>3
    <3>2. acked \subseteq [lsn : Lsn, key : Key]
      BY <1>1 DEF TypeOK
    <3> QED
      BY <2>2, <3>1, <3>2
  <2>4. ~excused' => ~excused /\ acked' = acked
    BY <2>1, <2>2
  <2> HIDE DEF ok
  <2>5. /\ PlaceInv' /\ FreshInv'
        /\ call' \in [Client -> {"idle", "entered", "queued"}]
        /\ batch' \in [Drainer -> Seq(Client)]
        /\ \A e \in Drainer : Len(batch'[e]) <= MaxBatchSize
        /\ step' \in [Drainer -> {"idle", "append", "fsync", "apply"}]
        /\ \A e \in Drainer : InHand(e)' =>
             /\ e # d /\ InHand(e) /\ batch'[e] = batch[e] /\ step'[e] = step[e]
             /\ \A c \in Elements(batch[e]) : job'[c] = job[c]
    BY <1>1, <1>3, <1>5, <2>1, CompletePlace
  <2>6. TypeOK'
    <3>1. excused' \in BOOLEAN
      BY <1>1, <2>1 DEF TypeOK
    <3> QED
      BY <1>1, <1>3, <1>5, <1>6, <2>3, <2>5, <3>1 DEF TypeOK, tables, files
  <2>7. BatchInv'
    <3> SUFFICES ASSUME NEW e \in Drainer, InHand(e)', ~Unlogged(e)',
                        NEW i \in 1 .. Len(batch[e]), NEW j \in 1 .. Len(batch[e]), i < j
                 PROVE  job'[batch[e][i]].lsn < job'[batch[e][j]].lsn
      BY <2>5 DEF BatchInv
    <3>1. batch[e][i] \in Elements(batch[e]) /\ batch[e][j] \in Elements(batch[e])
      BY DEF Elements
    <3>2. InHand(e) /\ ~Unlogged(e)
      BY <2>5 DEF Unlogged
    <3> QED
      BY <1>1, <2>5, <3>1, <3>2 DEF BatchInv
  <2>8. DurableInv'
    <3>1. CASE excused'
      BY <3>1 DEF DurableInv
    <3>2. CASE ~excused'
      <4>1. UNCHANGED <<tables, files, acked, maint, excused>>
        BY <1>1, <1>5, <2>4, <2>6, <3>2 DEF TypeOK
      <4> QED
        BY <1>5, <1>6, <2>5, <4>1, LoggedDurable
    <3> QED
      BY <3>1, <3>2
  <2> QED
    BY <1>6, <2>5, <2>6, <2>7, <2>8 DEF IInv
<1>8. CASE bad = {}
  <2>1. /\ step' = [step EXCEPT ![d] = "fsync"]
        /\ UNCHANGED <<call, batch, acked, excused>>
    BY <1>8 DEF AppendMany
  <2>2. /\ step' \in [Drainer -> {"idle", "append", "fsync", "apply"}]
        /\ step'[d] = "fsync" /\ \A e \in Drainer \ {d} : step'[e] = step[e]
    BY <1>1, <2>1 DEF TypeOK
  <2>3. TypeOK'
    BY <1>1, <1>3, <1>5, <1>6, <2>1, <2>2 DEF TypeOK, tables, files
  <2>4. PlaceInv'
    <3>1. \A e \in Drainer : step'[e] = "idle" <=> step[e] = "idle"
      BY <1>5, <2>2
    <3>2. Maintenance \in Drainer
      BY DEF Drainer
    <3> QED
      BY <1>1, <1>5, <2>1, <3>1, <3>2 DEF PlaceInv
  <2>5. \A e \in Drainer : e # d => \A c \in Elements(batch[e]) : job'[c] = job[c]
    <3>1. \A e \in Drainer : e # d => Elements(batch[e]) \cap Elements(batch[d]) = {}
      BY <1>1 DEF PlaceInv
    <3> QED
      BY <1>1, <1>3, <3>1, TypeFacts
  <2>6. FreshInv'
    <3>1. ASSUME NEW c \in Client, call[c] = "entered" \/ c \in Elements(queue)
          PROVE  job'[c] = job[c]
      BY <1>1, <1>3, <3>1 DEF PlaceInv
    <3>2. ASSUME NEW e \in Drainer, step'[e] = "append" PROVE Unlogged(e)'
      <4>1. e # d /\ step[e] = "append"
        BY <2>2, <3>2
      <4> QED
        BY <1>1, <2>1, <2>5, <4>1 DEF FreshInv, Unlogged
    <3> QED
      BY <1>1, <1>5, <2>1, <3>1, <3>2, TypeFacts DEF FreshInv
  <2>7. BatchInv'
    <3> SUFFICES ASSUME NEW e \in Drainer, InHand(e)', ~Unlogged(e)',
                        NEW i \in 1 .. Len(batch[e]), NEW j \in 1 .. Len(batch[e]), i < j
                 PROVE  job'[batch[e][i]].lsn < job'[batch[e][j]].lsn
      BY <2>1 DEF BatchInv
    <3>1. CASE e = d
      <4>1. job'[batch[d][i]].lsn = max_lsn + i /\ job'[batch[d][j]].lsn = max_lsn + j
        BY <1>3, <1>8, <3>1
      <4>2. i \in Nat /\ j \in Nat
        BY <1>2, <3>1
      <4> QED
        BY <1>2, <3>1, <4>1, <4>2
    <3>2. CASE e # d
      <4>1. batch[e][i] \in Elements(batch[e]) /\ batch[e][j] \in Elements(batch[e])
        BY DEF Elements
      <4>2. InHand(e) /\ ~Unlogged(e)
        BY <2>1, <2>2, <2>5, <3>2 DEF InHand, Unlogged
      <4> QED
        BY <1>1, <2>5, <3>2, <4>1, <4>2 DEF BatchInv
    <3> QED
      BY <3>1, <3>2
  <2>8. ASSUME NEW c \in Elements(batch[d]) PROVE Handed(d, c)'
    <3>1. PICK i \in 1 .. Len(batch[d]) : c = batch[d][i]
      BY DEF Elements
    <3>2. /\ job'[c].lsn = max_lsn + i /\ c \in Client /\ i \in Nat /\ i > 0
          /\ job'[c].key = job[c].key
      BY <1>2, <1>3, <1>8, <3>1
    <3>3. Among(RecordOf(c), Len(wal))'
      BY SMTT(20), <1>4, <1>6, <1>8, <3>1, <3>2 DEF Among, RecordOf
    <3>4. job'[c].lsn > wal_lsn
      BY <1>1, <1>2, <3>2 DEF LogInv
    <3> QED
      BY <1>5, <2>2, <3>3, <3>4 DEF Handed, files
  <2>9. ASSUME NEW e \in Drainer, InHand(e)', e # d
        PROVE  /\ InHand(e) /\ batch'[e] = batch[e] /\ step'[e] = step[e]
               /\ \A c \in Elements(batch[e]) : job'[c] = job[c]
    BY <2>1, <2>2, <2>5, <2>9 DEF InHand
  <2>10. DurableInv'
    BY <1>5, <1>6, <2>1, <2>8, <2>9, LoggedDurable
  <2> QED
    BY <1>6, <2>3, <2>4, <2>6, <2>7, <2>10 DEF IInv
<1> QED
  BY <1>7, <1>8

LEMMA AppendManyFailsIInv ==
  ASSUME IInv, NEW d \in Drainer, AppendManyFails(d)
  PROVE  IInv'
<1>1. TypeOK /\ PlaceInv /\ FreshInv
  BY DEF IInv
<1>2. /\ step[d] = "append" /\ file_ok' = FALSE
      /\ step' = [step EXCEPT ![d] = "fsync"]
      /\ faults < MaxFaults /\ faults' = faults + 1
      /\ UNCHANGED <<call, job, queue, batch, acked, commit, wal, wal_synced, magic,
                     max_lsn, tables, files, control>>
  BY DEF AppendManyFails
<1>3. /\ step' \in [Drainer -> {"idle", "append", "fsync", "apply"}]
      /\ step'[d] = "fsync" /\ \A e \in Drainer \ {d} : step'[e] = step[e]
  BY <1>1, <1>2 DEF TypeOK
<1>4. TypeOK'
  <2>1. faults' \in 0 .. MaxFaults
    BY <1>1, <1>2, ConfigOK DEF TypeOK, ConfigOK
  <2> QED
    BY <1>1, <1>2, <1>3, <2>1 DEF TypeOK, tables, files, control
<1>5. PlaceInv'
  <2>1. \A e \in Drainer : step'[e] = "idle" <=> step[e] = "idle"
    BY <1>2, <1>3
  <2>2. Maintenance \in Drainer
    BY DEF Drainer
  <2> QED
    BY <1>1, <1>2, <2>1, <2>2 DEF PlaceInv, control
<1>6. FreshInv' /\ Unlogged(d)'
  BY <1>1, <1>2, <1>3 DEF FreshInv, Unlogged
<1>7. \A e \in Drainer : InHand(e)' => Unlogged(e)' \/
        /\ InHand(e) /\ batch'[e] = batch[e] /\ step'[e] = step[e]
        /\ \A c \in Elements(batch[e]) : job'[c] = job[c]
  BY <1>2, <1>3, <1>6 DEF InHand
<1>8. LogInv' /\ BatchInv' /\ DurableInv'
  BY <1>2, <1>7, QuietDurable DEF control
<1> QED
  BY <1>4, <1>5, <1>6, <1>8 DEF IInv
---------------------------------------------------------------------------
(* The steps of a session in AppendTxnCommit. *)

(* Its steps leave the jobs and the tables alone. *)
LEMMA SessionIInv ==
  ASSUME IInv, UNCHANGED <<jobs, tables, files, control>>,
         commit' \in [Session -> {"idle", "drain", "sync"}],
         file_ok' \in BOOLEAN, magic' \in BOOLEAN, faults' \in 0 .. MaxFaults,
         wal' \in Seq(Record), wal_synced' \in 0 .. Len(wal'), max_lsn' \in Lsn, LogInv',
         magic => /\ magic' /\ Len(wal) <= Len(wal') /\ wal_synced <= wal_synced'
                  /\ \A i \in 1 .. Len(wal) : wal'[i] = wal[i]
  PROVE  IInv'
<1>1. TypeOK /\ PlaceInv /\ FreshInv /\ BatchInv
  BY DEF IInv
<1>2. TypeOK'
  BY <1>1 DEF TypeOK, jobs, tables, files, control
<1>3. PlaceInv' /\ FreshInv'
  BY <1>1 DEF PlaceInv, FreshInv, Unlogged, jobs, control
<1>4. BatchInv'
  BY <1>1 DEF BatchInv, Unlogged, InHand, jobs
<1>5. Len(wal') \in Nat /\ wal_synced' \in Nat
  <2>1. Len(wal') \in Nat
    OBVIOUS
  <2> QED
    BY <2>1
<1>6. DurableInv'
  BY <1>5, LoggedDurable DEF jobs, control, InHand
<1> QED
  BY <1>2, <1>3, <1>4, <1>6 DEF IInv

LEMMA AppendTxnCommitIInv ==
  ASSUME IInv, NEW s \in Session, AppendTxnCommit(s)
  PROVE  IInv'
<1>1. TypeOK /\ LogInv /\ max_lsn \in Nat
  BY TypeFacts DEF IInv
<1> DEFINE rec == [lsn |-> max_lsn + 1, key |-> Control]
           app == <<rec>>
<1>2. rec \in Record /\ rec.lsn = max_lsn + 1
  BY <1>1 DEF Record, Lsn
<1>3. /\ app \in Seq(Record) /\ Len(app) = 1 /\ app[1] = rec
  BY <1>2
<1>4. /\ wal' = Append(Restarted, rec) /\ wal_synced' = RestartedSynced
      /\ magic' = TRUE /\ file_ok' = TRUE /\ max_lsn' = max_lsn + 1
      /\ commit' = [commit EXCEPT ![s] = "drain"]
      /\ UNCHANGED <<jobs, tables, files, control, faults>>
  BY DEF AppendTxnCommit
<1>5. wal' = Restarted \o app
  <2>1. Restarted \in Seq(Record)
    BY <1>1 DEF Restarted, TypeOK
  <2> HIDE DEF rec
  <2> QED
    BY <1>2, <1>4, <2>1
<1> HIDE DEF rec, app
<1>6. /\ wal' \in Seq(Record) /\ wal_synced' \in 0 .. Len(wal') /\ max_lsn' \in Lsn
      /\ LogInv'
      /\ magic => /\ Len(wal) <= Len(wal') /\ wal_synced <= wal_synced'
                  /\ \A i \in 1 .. Len(wal) : wal'[i] = wal[i]
  <2>1. /\ \A i, j \in 1 .. Len(app) : i < j => app[i].lsn < app[j].lsn
        /\ \A i \in 1 .. Len(app) : max_lsn < app[i].lsn /\ app[i].lsn <= max_lsn + 1
    BY <1>1, <1>2, <1>3
  <2> QED
    BY <1>1, <1>3, <1>4, <1>5, <2>1, AppendToLog DEF files
<1>7. commit' \in [Session -> {"idle", "drain", "sync"}] /\ faults' \in 0 .. MaxFaults
  BY <1>1, <1>4 DEF TypeOK
<1> QED
  BY <1>4, <1>6, <1>7, SessionIInv

LEMMA AppendTxnCommitFailsIInv ==
  ASSUME IInv, NEW s \in Session, AppendTxnCommitFails(s)
  PROVE  IInv'
<1>1. TypeOK /\ LogInv /\ max_lsn \in Nat
  BY TypeFacts DEF IInv
<1>2. /\ file_ok' = FALSE /\ faults < MaxFaults /\ faults' = faults + 1
      /\ UNCHANGED <<jobs, commit, tables, files, control>>
  BY DEF AppendTxnCommitFails
<1>3. faults' \in 0 .. MaxFaults /\ commit' \in [Session -> {"idle", "drain", "sync"}]
  BY <1>1, <1>2, ConfigOK DEF TypeOK, ConfigOK
<1>4. CASE UNCHANGED <<wal, wal_synced, magic, max_lsn>>
  <2>1. /\ wal' \in Seq(Record) /\ wal_synced' \in 0 .. Len(wal') /\ max_lsn' \in Lsn
        /\ magic' \in BOOLEAN /\ wal_synced \in Nat /\ Len(wal) \in Nat
    BY <1>1, <1>4, TypeFacts DEF TypeOK
  <2>2. LogInv'
    BY <1>1, <1>2, <1>4 DEF LogInv, files
  <2>3. magic => /\ magic' /\ Len(wal) <= Len(wal') /\ wal_synced <= wal_synced'
                 /\ \A i \in 1 .. Len(wal) : wal'[i] = wal[i]
    BY <1>4, <2>1
  <2>4. file_ok' \in BOOLEAN
    BY <1>2
  <2> QED
    BY <1>2, <1>3, <2>1, <2>2, <2>3, <2>4, SessionIInv
<1>5. CASE /\ max_lsn' = max_lsn + 1
           /\ wal' = Restarted /\ wal_synced' = RestartedSynced
           /\ magic' = TRUE
  <2> DEFINE app == SubSeq(wal, 1, 0)
  <2>1. app \in Seq(Record) /\ Len(app) = 0
    BY <1>1 DEF TypeOK
  <2>2. Restarted \in Seq(Record)
    BY <1>1 DEF Restarted, TypeOK
  <2> HIDE DEF app
  <2>3. wal' = Restarted \o app
    BY <1>5, <2>1, <2>2
  <2>4. /\ wal' \in Seq(Record) /\ wal_synced' \in 0 .. Len(wal') /\ max_lsn' \in Lsn
        /\ LogInv'
        /\ magic => /\ Len(wal) <= Len(wal') /\ wal_synced <= wal_synced'
                    /\ \A i \in 1 .. Len(wal) : wal'[i] = wal[i]
    <3>1. /\ \A i, j \in 1 .. Len(app) : i < j => app[i].lsn < app[j].lsn
          /\ \A i \in 1 .. Len(app) : max_lsn < app[i].lsn /\ app[i].lsn <= max_lsn + 1
      BY <2>1
    <3> QED
      BY <1>1, <1>2, <1>5, <2>1, <2>3, <3>1, AppendToLog DEF files
  <2> QED
    BY <1>2, <1>3, <1>5, <2>4, SessionIInv
<1> QED
  BY <1>4, <1>5 DEF AppendTxnCommitFails

(* Those that do not write: they may fsync. *)
LEMMA CommitStepIInv ==
  ASSUME IInv, NEW s \in Session, CommitStep(s)
  PROVE  IInv'
<1>1. TypeOK /\ LogInv /\ Len(wal) \in Nat /\ wal_synced \in 0 .. Len(wal)
  BY TypeFacts DEF IInv
<1>2. /\ UNCHANGED <<jobs, wal, magic, file_ok, max_lsn, tables, files, control>>
      /\ wal_synced' \in {wal_synced, Len(wal)}
  BY DEF CommitStep, CommitDrained, CommitSync, CommitSyncFails, Fsync, log
<1>3. commit' \in [Session -> {"idle", "drain", "sync"}]
  <2>1. \E x \in {"idle", "drain", "sync"} : commit' = [commit EXCEPT ![s] = x]
    BY DEF CommitStep, CommitDrained, CommitSync, CommitSyncFails
  <2> QED
    BY <1>1, <2>1 DEF TypeOK
<1>4. faults' \in 0 .. MaxFaults
  BY <1>1, FsyncErrorFaults
     DEF CommitStep, CommitDrained, CommitSync, CommitSyncFails, TypeOK
<1>5. /\ wal' \in Seq(Record) /\ wal_synced' \in 0 .. Len(wal') /\ max_lsn' \in Lsn
      /\ magic' \in BOOLEAN /\ file_ok' \in BOOLEAN
      /\ wal_synced <= wal_synced' /\ Len(wal) <= Len(wal')
  BY <1>1, <1>2 DEF TypeOK
<1>6. LogInv'
  BY <1>1, <1>2 DEF LogInv, files
<1> QED
  BY <1>2, <1>3, <1>4, <1>5, <1>6, SessionIInv
---------------------------------------------------------------------------
(* What ApplyWalBatch leaves in the memtable: the last job of the key in   *)
(* the batch, which has the greatest LSN, or what was there.               *)
LEMMA AppliedProperties ==
  ASSUME TypeOK, BatchInv, NEW d \in Drainer, InHand(d), NEW k \in Key
  PROVE  /\ \/ k \notin KeysOf(d) /\ Applied(d, k) = memtable[k]
            \/ \E c \in Elements(batch[d]) : job[c].key = k /\ Applied(d, k) = job[c].lsn
         /\ \A c \in Elements(batch[d]) : job[c].key = k => job[c].lsn <= Applied(d, k)
<1>1. /\ batch[d] \in Seq(Client) /\ Len(batch[d]) \in Nat
      /\ \A c \in Client : job[c].lsn \in Nat
  BY TypeFacts
<1>0. \A i \in 1 .. Len(batch[d]) : batch[d][i] \in Client
  BY <1>1
<1> DEFINE of == {i \in 1 .. Len(batch[d]) : job[batch[d][i]].key = k}
           last == CHOOSE i \in of : \A j \in of : j <= i
<1>2. /\ \A c \in Elements(batch[d]) : job[c].key = k => \E i \in of : c = batch[d][i]
      /\ k \in KeysOf(d) => of # {}
  BY DEF Elements, KeysOf
<1>3. of \in SUBSET Nat /\ \A j \in of : j <= Len(batch[d]) /\ j \in 1 .. Len(batch[d])
  OBVIOUS
<1>4. \A i \in of : job[batch[d][i]].key = k
  OBVIOUS
<1>5. Applied(d, k) = IF of = {} THEN memtable[k] ELSE job[batch[d][last]].lsn
  BY DEF Applied
<1> HIDE DEF of
<1>6. CASE of = {}
  BY <1>2, <1>5, <1>6
<1>7. CASE of # {}
  <2>1. last \in of /\ \A j \in of : j <= last
    BY <1>1, <1>3, <1>7, GreatestNat
  <2> HIDE DEF last
  <2>2. batch[d][last] \in Elements(batch[d])
    BY <1>3, <2>1 DEF Elements
  <2>3. ASSUME NEW j \in of PROVE job[batch[d][j]].lsn <= job[batch[d][last]].lsn
    <3>1. /\ j \in 1 .. Len(batch[d]) /\ last \in 1 .. Len(batch[d])
          /\ j = last \/ j < last
      BY <1>3, <2>1
    <3>2. job[batch[d][j]].lsn \in Nat /\ job[batch[d][last]].lsn \in Nat
      BY <1>0, <1>1, <3>1
    <3>3. j < last => job[batch[d][j]].lsn <= job[batch[d][last]].lsn
      <4>1. CASE Unlogged(d)
        BY <3>1, <4>1 DEF Unlogged, Elements
      <4>2. CASE ~Unlogged(d)
        BY <3>1, <3>2, <4>2 DEF BatchInv
      <4> QED
        BY <4>1, <4>2
    <3> QED
      BY <3>1, <3>2, <3>3
  <2> QED
    BY <1>2, <1>4, <1>5, <1>7, <2>1, <2>2, <2>3
<1> QED
  BY <1>6, <1>7

LEMMA ApplyWalBatchIInv ==
  ASSUME IInv, NEW d \in Drainer, ApplyWalBatch(d)
  PROVE  IInv'
<1>1. TypeOK /\ PlaceInv /\ LogInv /\ FreshInv /\ BatchInv /\ DurableInv
  BY DEF IInv
<1>2. /\ batch[d] \in Seq(Client) /\ Len(batch[d]) \in Nat
      /\ Elements(batch[d]) \subseteq Client
      /\ \A c \in Client : job[c].lsn \in Nat /\ job[c].key \in Key
      /\ \A k \in Key : memtable[k] \in Nat /\ data[k] \in Nat
      /\ wal_lsn \in Nat
  BY <1>1, TypeFacts
<1> DEFINE batched == Elements(batch[d])
<1>3. /\ step[d] = "apply"
      /\ CompleteJobs(d, batched)
      /\ memtable' = [k \in Key |-> Applied(d, k)]
      /\ unlogged' = {k \in unlogged \cup KeysOf(d) : Applied(d, k) = 0}
      /\ excused' = (excused \/ unlogged' # {}
                             \/ \E k \in KeysOf(d) :
                                  memtable'[k] < Max2(memtable[k], data[k]))
      /\ UNCHANGED <<job, queue, commit, log, files, maint, checkpoint, rounds, faults>>
  BY DEF ApplyWalBatch
<1>4. InHand(d)
  BY <1>3 DEF InHand
<1>5. \A k \in Key :
        /\ \/ k \notin KeysOf(d) /\ memtable'[k] = memtable[k]
           \/ \E c \in batched : job[c].key = k /\ memtable'[k] = job[c].lsn
        /\ \A c \in batched : job[c].key = k => job[c].lsn <= memtable'[k]
  BY <1>1, <1>3, <1>4, AppliedProperties
<1>6. acked' = acked \cup {[key |-> job[c].key, lsn |-> job[c].lsn] : c \in batched}
  BY <1>3 DEF CompleteJobs
<1>7. /\ PlaceInv' /\ FreshInv'
      /\ call' \in [Client -> {"idle", "entered", "queued"}]
      /\ batch' \in [Drainer -> Seq(Client)]
      /\ \A e \in Drainer : Len(batch'[e]) <= MaxBatchSize
      /\ step' \in [Drainer -> {"idle", "append", "fsync", "apply"}]
      /\ \A e \in Drainer : InHand(e)' =>
           /\ e # d /\ InHand(e) /\ batch'[e] = batch[e] /\ step'[e] = step[e]
           /\ \A c \in Elements(batch[e]) : job'[c] = job[c]
  BY <1>1, <1>3, CompletePlace
<1>8. TypeOK'
  <2>1. memtable' \in [Key -> Lsn]
    <3>1. \A k \in Key : memtable'[k] \in Lsn
      BY <1>2, <1>5 DEF Lsn
    <3> QED
      BY <1>3, <3>1
  <2>2. unlogged' \subseteq Key /\ excused' \in BOOLEAN
    <3>1. KeysOf(d) \subseteq Key
      BY <1>2 DEF KeysOf
    <3> QED
      BY <1>1, <1>3, <3>1 DEF TypeOK
  <2>3. acked' \subseteq [lsn : Lsn, key : Key]
    <3>1. acked \subseteq [lsn : Lsn, key : Key]
      BY <1>1 DEF TypeOK
    <3> QED
      BY <1>2, <1>6, <3>1 DEF Lsn
  <2> QED
    BY <1>1, <1>3, <1>7, <2>1, <2>2, <2>3 DEF TypeOK, log, files
<1>9. LogInv'
  BY <1>1, <1>3 DEF LogInv, log, files
<1>10. BatchInv'
  BY <1>1, <1>3, <1>7 DEF BatchInv, Unlogged
<1>11. ASSUME ~excused'
       PROVE  unlogged' = {} /\ HandedInv' /\ TablesInv' /\ AckedInv'
  <2>1. /\ ~excused /\ unlogged' = {}
        /\ \A k \in Key : /\ memtable[k] <= memtable'[k]
                          /\ k \in KeysOf(d) => data[k] <= memtable'[k]
    <3>1. ASSUME NEW k \in Key, k \in KeysOf(d)
          PROVE  memtable[k] <= memtable'[k] /\ data[k] <= memtable'[k]
      <4>1. /\ memtable'[k] \in Nat /\ memtable[k] \in Nat /\ data[k] \in Nat
            /\ ~(memtable'[k] < Max2(memtable[k], data[k]))
        BY <1>2, <1>3, <1>8, <1>11, <3>1 DEF TypeOK, Lsn
      <4> QED
        BY <4>1 DEF Max2
    <3>2. ASSUME NEW k \in Key, k \notin KeysOf(d)
          PROVE  memtable[k] <= memtable'[k]
      <4>1. memtable'[k] = memtable[k] /\ memtable[k] \in Nat
        BY <1>2, <1>5, <3>2 DEF KeysOf
      <4> QED
        BY <4>1
    <3> QED
      BY <1>3, <1>11, <3>1, <3>2
  <2>2. HandedInv /\ TablesInv /\ AckedInv
    BY <1>1, <2>1 DEF DurableInv
  <2>3. ~Unlogged(d)
    <3> SUFFICES ASSUME Unlogged(d) PROVE FALSE
      OBVIOUS
    <3>1. PICK c \in batched : TRUE
      <4>1. batch[d] # <<>>
        BY <1>1, <1>3 DEF PlaceInv
      <4>2. 1 \in 1 .. Len(batch[d])
        BY <1>2, <4>1
      <4> QED
        BY <4>2 DEF Elements
    <3>2. job[c].key \in KeysOf(d) /\ job[c].key \in Key
      BY <1>2, <3>1 DEF KeysOf
    <3>3. memtable'[job[c].key] = 0
      BY <1>5, <3>2 DEF Unlogged
    <3>4. Applied(d, job[c].key) = 0
      BY <1>3, <3>2, <3>3
    <3> QED
      BY <1>3, <2>1, <3>2, <3>4
  <2>4. magic /\ \A c \in batched : Synced(RecordOf(c)) /\ job[c].lsn > wal_lsn
    <3>1. magic /\ \A c \in batched : Handed(d, c)
      BY <1>4, <2>2, <2>3 DEF HandedInv
    <3> QED
      BY <1>3, <3>1 DEF Handed
  <2> HIDE DEF batched
  <2>5. TablesInv'
    <3>3. ASSUME NEW k \in Key PROVE memtable'[k] = 0 \/ data[k] <= memtable'[k]
      <4>1. CASE k \in KeysOf(d)
        BY <2>1, <4>1
      <4>2. CASE k \notin KeysOf(d)
        <5>1. memtable'[k] = memtable[k]
          BY <1>5, <4>2 DEF KeysOf, batched
        <5> QED
          BY <2>2, <5>1 DEF TablesInv
      <4> QED
        BY <4>1, <4>2
    <3> SUFFICES ASSUME NEW k \in Key, memtable'[k] > 0
                 PROVE  /\ magic /\ memtable'[k] > wal_lsn
                        /\ Synced([lsn |-> memtable'[k], key |-> k])
      BY <1>3, <2>2, <3>3 DEF TablesInv, Synced, Among, log, files
    <3>1. CASE memtable'[k] = memtable[k]
      BY <2>2, <3>1 DEF TablesInv
    <3>2. CASE \E c \in batched : job[c].key = k /\ memtable'[k] = job[c].lsn
      BY <2>4, <3>2 DEF RecordOf
    <3> QED
      BY <1>5, <3>1, <3>2
  <2>6. ASSUME NEW a \in acked'
        PROVE  /\ a.lsn > 0
               /\ \/ a.lsn <= data[a.key]
                  \/ /\ magic /\ a.lsn > wal_lsn /\ Synced(a)
                     /\ a.lsn <= memtable'[a.key]
    <3>1. CASE a \in acked
      <4>1. a.key \in Key /\ a.lsn \in Nat
        BY <1>1, <3>1 DEF TypeOK, Lsn
      <4>2. memtable'[a.key] \in Nat /\ memtable[a.key] <= memtable'[a.key]
        BY <1>2, <1>8, <2>1, <4>1 DEF TypeOK, Lsn
      <4> QED
        BY <1>2, <2>2, <3>1, <4>1, <4>2 DEF AckedInv
    <3>2. CASE a \in {[key |-> job[c].key, lsn |-> job[c].lsn] : c \in batched}
      <4>1. PICK c \in batched : a = [key |-> job[c].key, lsn |-> job[c].lsn]
        BY <3>2
      <4>2. c \in Client /\ a = RecordOf(c)
        BY <1>2, <4>1 DEF RecordOf, batched
      <4> QED
        BY <1>2, <1>5, <2>4, <4>1, <4>2
    <3> QED
      BY <1>6, <3>1, <3>2 DEF batched
  <2>7. AckedInv'
    BY <1>3, <2>6 DEF AckedInv, Synced, Among, log, files
  <2>8. HandedInv'
    <3> SUFFICES ASSUME NEW e \in Drainer, InHand(e)', ~Unlogged(e)'
                 PROVE  magic /\ \A c \in Elements(batch'[e]) : Handed(e, c)'
      BY <1>3 DEF HandedInv, log
    <3>1. /\ InHand(e) /\ batch'[e] = batch[e] /\ step'[e] = step[e]
          /\ ~Unlogged(e)
      BY <1>3, <1>7 DEF Unlogged
    <3>2. magic /\ \A c \in Elements(batch[e]) : Handed(e, c)
      BY <2>2, <3>1 DEF HandedInv
    <3> QED
      BY <1>3, <3>1, <3>2 DEF Handed, RecordOf, Synced, Among, log, files
  <2> QED
    BY <2>1, <2>5, <2>7, <2>8
<1> QED
  BY <1>7, <1>8, <1>9, <1>10, <1>11 DEF IInv, DurableInv
(* The steps of maintenance that only move on. *)
LEMMA MoveOnIInv ==
  ASSUME IInv, UNCHANGED <<jobs, commit, log, tables, files, excused>>,
         maint \in {"idle", "drain", "flush"}, maint' \in {"drain", "flush", "failed"},
         step[Maintenance] # "idle" => maint' = "drain",
         checkpoint' \in BOOLEAN, rounds' \in 0 .. MaxRounds, faults' \in 0 .. MaxFaults
  PROVE  IInv'
<1>1. TypeOK /\ PlaceInv /\ LogInv /\ FreshInv /\ BatchInv
  BY DEF IInv
<1>2. TypeOK'
  BY <1>1 DEF TypeOK, jobs, log, tables, files
<1>3. PlaceInv' /\ FreshInv'
  BY <1>1 DEF PlaceInv, FreshInv, Unlogged, jobs
<1>4. LogInv' /\ BatchInv'
  BY <1>1 DEF LogInv, BatchInv, Unlogged, InHand, jobs, log, files
<1>5. ASSUME ~excused PROVE unlogged' = {} /\ HandedInv' /\ TablesInv' /\ AckedInv'
  <2>1. unlogged = {} /\ HandedInv /\ TablesInv /\ AckedInv
    BY <1>5 DEF IInv, DurableInv
  <2>2. TablesInv' /\ AckedInv'
    BY <2>1 DEF TablesInv, AckedInv, Synced, Among, jobs, log, tables, files
  <2>3. HandedInv'
    BY <2>1 DEF HandedInv, Handed, Unlogged, InHand, RecordOf, Synced, Among,
                jobs, log, files
  <2> QED
    BY <2>1, <2>2, <2>3 DEF tables
<1> QED
  BY <1>2, <1>3, <1>4, <1>5 DEF IInv, DurableInv

LEMMA MaintenanceBeginIInv ==
  ASSUME IInv, NEW cp \in BOOLEAN, MaintenanceBegin(cp)
  PROVE  IInv'
<1>1. TypeOK /\ PlaceInv
  BY DEF IInv
<1>2. rounds' \in 0 .. MaxRounds /\ faults' \in 0 .. MaxFaults
  BY <1>1, ConfigOK DEF MaintenanceBegin, TypeOK, ConfigOK
<1> QED
  BY <1>1, <1>2, MoveOnIInv DEF MaintenanceBegin

LEMMA FlushPendingDoneIInv ==
  ASSUME IInv, FlushPendingDone
  PROVE  IInv'
<1>1. checkpoint \in BOOLEAN /\ rounds \in 0 .. MaxRounds /\ faults \in 0 .. MaxFaults
  BY DEF IInv, TypeOK
<1> QED
  BY <1>1, MoveOnIInv DEF FlushPendingDone

LEMMA FlushFsyncFailsIInv ==
  ASSUME IInv, FlushFsyncFails
  PROVE  IInv'
<1>1. TypeOK /\ PlaceInv
  BY DEF IInv
<1>2. checkpoint' \in BOOLEAN /\ rounds' \in 0 .. MaxRounds /\ faults' \in 0 .. MaxFaults
  BY <1>1, FsyncErrorFaults DEF FlushFsyncFails, TypeOK
<1>3. step[Maintenance] = "idle"
  BY <1>1 DEF FlushFsyncFails, PlaceInv
<1> QED
  BY <1>2, <1>3, MoveOnIInv DEF FlushFsyncFails

LEMMA FlushTableIInv ==
  ASSUME IInv, FlushTable
  PROVE  IInv'
<1>1. TypeOK /\ PlaceInv /\ LogInv /\ FreshInv /\ BatchInv
  BY DEF IInv
<1> DEFINE held == {k \in Key : memtable[k] # 0} \cup unlogged
           written == \A k \in held : memtable[k] > head[k]
<1>2. /\ maint = "flush" /\ wal_synced' = Len(wal)
      /\ UNCHANGED <<jobs, commit, wal, magic, file_ok, max_lsn, unlogged, wal_lsn,
                     checkpoint, rounds, excused, faults>>
  BY DEF FlushTable, Fsync
<1>3. /\ step[Maintenance] = "idle" /\ wal_synced \in 0 .. Len(wal) /\ Len(wal) \in Nat
      /\ \A k \in Key : memtable[k] \in Nat /\ data[k] \in Nat /\ head[k] \in Nat
      /\ wal_lsn \in Nat
  BY <1>1, <1>2, TypeFacts DEF PlaceInv
<1>4. PlaceInv' /\ FreshInv'
  BY <1>1, <1>2, <1>3 DEF PlaceInv, FreshInv, Unlogged, jobs
<1>5. LogInv' /\ BatchInv'
  BY <1>1, <1>2 DEF LogInv, BatchInv, Unlogged, InHand, jobs
<1>6. \/ /\ written
         /\ \A k \in Key :
              /\ data'[k] = IF k \in held THEN memtable[k] ELSE data[k]
              /\ head'[k] = IF k \in held THEN memtable[k] ELSE head[k]
              /\ memtable'[k] = 0
         /\ maint' \in {"fold", "idle"}
      \/ /\ maint' = "failed"
         /\ UNCHANGED <<data, head, memtable>>
  BY DEF FlushTable, None
<1>7. TypeOK'
  <2>1. /\ data' \in [Key -> Lsn] /\ head' \in [Key -> Lsn] /\ memtable' \in [Key -> Lsn]
    <3>1. CASE written
      BY SMTT(20), <1>3, <3>1 DEF FlushTable, None, Lsn
    <3>2. CASE ~written
      BY <1>1, <3>2 DEF FlushTable, TypeOK
    <3> QED
      BY <3>1, <3>2
  <2>2. maint' \in {"idle", "drain", "flush", "fold", "superblock", "truncate", "failed"}
    BY <1>6
  <2>3. wal_synced' \in 0 .. Len(wal)
    BY <1>2, <1>3
  <2> QED
    BY <1>1, <1>2, <2>1, <2>2, <2>3 DEF TypeOK, jobs
<1> HIDE DEF written
<1>8. ASSUME ~excused PROVE unlogged' = {} /\ HandedInv' /\ TablesInv' /\ AckedInv'
  <2>1. unlogged = {} /\ HandedInv /\ TablesInv /\ AckedInv
    BY <1>8 DEF IInv, DurableInv
  <2>2. \A r : (\E i \in 1 .. wal_synced : wal[i] = r)
                 => \E i \in 1 .. wal_synced' : wal'[i] = r
    BY <1>1, <1>2, <1>3, LogGrows
  <2>3. \A k \in Key :
          /\ memtable'[k] = memtable[k] \/ memtable'[k] = 0
          /\ data'[k] = data[k] \/ (data'[k] = memtable[k] /\ memtable[k] > 0)
          /\ data'[k] <= head'[k]
          /\ maint' # "failed" => memtable'[k] = 0
    <3> SUFFICES ASSUME NEW k \in Key
                 PROVE  /\ memtable'[k] = memtable[k] \/ memtable'[k] = 0
                        /\ data'[k] = data[k] \/ (data'[k] = memtable[k] /\ memtable[k] > 0)
                        /\ data'[k] <= head'[k]
                        /\ maint' # "failed" => memtable'[k] = 0
      OBVIOUS
    <3>1. data[k] <= head[k]
      BY <2>1 DEF TablesInv
    <3>2. k \in held <=> memtable[k] > 0
      BY <1>3, <2>1
    <3>3. k \in held /\ written => memtable[k] > head[k]
      BY DEF written
    <3> HIDE DEF held
    <3> QED
      BY <1>3, <1>6, <3>1, <3>2, <3>3
  <2>4. TablesInv'
    <3> SUFFICES ASSUME NEW k \in Key
                 PROVE  /\ memtable'[k] > 0 =>
                             /\ magic' /\ memtable'[k] > wal_lsn'
                             /\ Synced([lsn |-> memtable[k], key |-> k])'
                        /\ data'[k] > wal_lsn' =>
                             magic' /\ Synced([lsn |-> data[k], key |-> k])'
                        /\ data'[k] <= head'[k]
                        /\ memtable'[k] = 0 \/ data'[k] <= memtable'[k]
                        /\ maint' # "truncate"
      BY DEF TablesInv
    <3>1. /\ memtable[k] > 0 => /\ magic /\ memtable[k] > wal_lsn
                                /\ Synced([lsn |-> memtable[k], key |-> k])
          /\ data[k] > wal_lsn => magic /\ Synced([lsn |-> data[k], key |-> k])
      BY <2>1 DEF TablesInv
    <3>2. memtable'[k] > 0 => memtable'[k] = memtable[k]
      BY <2>3
    <3>3. maint' # "truncate"
      BY <1>6
    <3>4. ASSUME memtable'[k] > 0
          PROVE  Synced([lsn |-> memtable[k], key |-> k])'
      <4>1. \E i \in 1 .. wal_synced : wal[i] = [lsn |-> memtable[k], key |-> k]
        BY <3>1, <3>2, <3>4 DEF Synced, Among
      <4>2. \E i \in 1 .. wal_synced' : wal'[i] = [lsn |-> memtable'[k], key |-> k]
        BY <2>2, <3>2, <3>4, <4>1
      <4> QED
        BY <4>2 DEF Synced, Among
    <3>5. ASSUME data'[k] > wal_lsn'
          PROVE  magic /\ Synced([lsn |-> data[k], key |-> k])'
      <4>1. /\ magic
            /\ \E i \in 1 .. wal_synced : wal[i] = [lsn |-> data'[k], key |-> k]
        <5>1. CASE data'[k] = data[k]
          BY <1>2, <3>1, <3>5, <5>1 DEF Synced, Among
        <5>2. CASE data'[k] = memtable[k] /\ memtable[k] > 0
          BY <3>1, <5>2 DEF Synced, Among
        <5> QED
          BY <2>3, <5>1, <5>2
      <4>2. \E i \in 1 .. wal_synced' : wal'[i] = [lsn |-> data'[k], key |-> k]
        BY <2>2, <4>1
      <4> QED
        BY <4>1, <4>2 DEF Synced, Among
    <3>6. memtable'[k] = 0 \/ data'[k] <= memtable'[k]
      <4>1. CASE maint' = "failed"
        BY <1>6, <2>1, <4>1 DEF TablesInv
      <4>2. CASE maint' # "failed"
        BY <2>3, <4>2
      <4> QED
        BY <4>1, <4>2
    <3> QED
      BY <1>2, <2>3, <3>1, <3>2, <3>3, <3>4, <3>5, <3>6
  <2>5. ASSUME NEW a \in acked
        PROVE  /\ a.lsn > 0
               /\ \/ a.lsn <= data'[a.key]
                  \/ /\ magic /\ a.lsn > wal_lsn /\ Synced(a)'
                     /\ a.lsn <= memtable'[a.key]
    <3>1. a.key \in Key /\ a.lsn \in Nat /\ a.lsn > 0
      BY <1>1, <2>1 DEF TypeOK, AckedInv, Lsn
    <3>2. CASE maint' = "failed"
      <4>1. UNCHANGED <<data, memtable>>
        BY <1>6, <3>2
      <4> QED
        BY <2>1, <2>2, <3>2, <4>1 DEF AckedInv, Synced, Among
    <3>3. CASE maint' # "failed"
      <4>1. /\ written
            /\ data'[a.key] = IF a.key \in held THEN memtable[a.key] ELSE data[a.key]
        BY <1>6, <3>1, <3>3
      <4>2. a.lsn <= data[a.key] \/ (a.lsn <= memtable[a.key] /\ a.lsn > wal_lsn)
        BY <1>2, <2>1 DEF AckedInv
      <4>3. a.key \in held => memtable[a.key] > data[a.key]
        <5>1. data[a.key] <= head[a.key]
          BY <2>1, <3>1 DEF TablesInv
        <5> QED
          BY <1>3, <3>1, <4>1, <5>1 DEF written
      <4> QED
        BY <1>3, <3>1, <4>1, <4>2, <4>3
    <3> QED
      BY <3>2, <3>3
  <2>6. AckedInv'
    BY <1>2, <2>5 DEF AckedInv, jobs, Synced, Among
  <2>7. ASSUME NEW d \in Drainer, InHand(d), ~Unlogged(d)
        PROVE  magic /\ \A c \in Elements(batch[d]) : Handed(d, c)'
    <3>1. magic /\ \A c \in Elements(batch[d]) : Handed(d, c)
      BY <2>1, <2>7 DEF HandedInv
    <3>2. \A c : Synced(RecordOf(c)) => Synced(RecordOf(c))'
      BY <1>2, <2>2 DEF Synced, Among, RecordOf, jobs
    <3> QED
      BY <1>2, <3>1, <3>2 DEF Handed, RecordOf, Among, jobs
  <2>8. HandedInv'
    BY <1>2, <2>7 DEF HandedInv, InHand, Unlogged, jobs
  <2> QED
    BY <1>2, <2>1, <2>4, <2>6, <2>8
<1> QED
  BY <1>2, <1>4, <1>5, <1>7, <1>8 DEF IInv, DurableInv

LEMMA FoldWalToVcsIInv ==
  ASSUME IInv, FoldWalToVcs
  PROVE  IInv'
<1>1. TypeOK /\ PlaceInv /\ LogInv /\ FreshInv /\ BatchInv
  BY DEF IInv
<1> DEFINE R == Above(Elements(wal), wal_lsn)
<1>2. /\ maint = "fold" /\ maint' = "superblock"
      /\ head' = [k \in Key |-> Max2(head[k], Newest(R, k))]
      /\ UNCHANGED <<jobs, commit, log, tables, data, wal_lsn, checkpoint, rounds,
                     excused, faults>>
  BY DEF FoldWalToVcs
<1>3. /\ \A k \in Key : head[k] \in Nat /\ data[k] \in Nat
      /\ \A i \in 1 .. Len(wal) : wal[i] \in Record
  BY <1>1, TypeFacts
<1>4. \A k \in Key : Newest(R, k) \in Nat
  <2>1. R \in SUBSET Record /\ R \subseteq Elements(wal)
    BY <1>3 DEF Above, Elements
  <2>2. PICK b \in Nat : \A r \in Elements(wal) : r.lsn <= b
    BY <1>1, LogBounded
  <2> HIDE DEF R
  <2> QED
    BY <2>1, <2>2, NewestProperties
<1> HIDE DEF R
<1>5. \A k \in Key : head'[k] \in Nat /\ head[k] <= head'[k]
  <2> SUFFICES ASSUME NEW k \in Key PROVE head'[k] \in Nat /\ head[k] <= head'[k]
    OBVIOUS
  <2>1. head'[k] = IF head[k] >= Newest(R, k) THEN head[k] ELSE Newest(R, k)
    BY <1>2 DEF Max2
  <2> QED
    BY <1>3, <1>4, <2>1
<1>6. TypeOK'
  <2>1. head' \in [Key -> Lsn]
    BY <1>2, <1>5 DEF Lsn
  <2> QED
    BY <1>1, <1>2, <2>1 DEF TypeOK, jobs, log, tables
<1>7. PlaceInv' /\ FreshInv' /\ LogInv' /\ BatchInv'
  <2>1. PlaceInv' /\ FreshInv'
    BY <1>1, <1>2 DEF PlaceInv, FreshInv, Unlogged, jobs
  <2>2. LogInv' /\ BatchInv'
    BY <1>1, <1>2 DEF LogInv, BatchInv, Unlogged, InHand, jobs, log
  <2> QED
    BY <2>1, <2>2
<1>8. ASSUME ~excused PROVE unlogged' = {} /\ HandedInv' /\ TablesInv' /\ AckedInv'
  <2>1. unlogged = {} /\ HandedInv /\ TablesInv /\ AckedInv
    BY <1>8 DEF IInv, DurableInv
  <2>2. TablesInv'
    <3>1. \A k \in Key : data'[k] <= head'[k]
      <4>1. \A k \in Key : data[k] <= head[k] /\ data'[k] = data[k]
        BY <1>2, <2>1 DEF TablesInv
      <4> QED
        BY <1>3, <1>5, <4>1
    <3> QED
      BY <1>2, <2>1, <3>1 DEF TablesInv, Synced, Among, log, tables
  <2>3. AckedInv'
    BY <1>2, <2>1 DEF AckedInv, Synced, Among, jobs, log, tables
  <2>4. HandedInv'
    BY <1>2, <2>1 DEF HandedInv, Handed, Unlogged, InHand, RecordOf, Synced, Among,
                      jobs, log
  <2> QED
    BY <1>2, <2>1, <2>2, <2>3, <2>4 DEF tables
<1> QED
  BY <1>2, <1>6, <1>7, <1>8 DEF IInv, DurableInv

(* Nothing is missed: no batch is in hand, and the memtable is empty. *)
LEMMA NothingMissed ==
  ASSUME PlaceInv, ~Missed, maint # "drain"
  PROVE  /\ \A d \in Drainer : ~InHand(d)
         /\ unlogged = {} /\ \A k \in Key : memtable[k] = 0
<1>1. \A d \in Drainer : ~InHand(d)
  BY DEF Missed, PlaceInv, InHand
<1> QED
  BY <1>1 DEF Missed, None

LEMMA CommitSuperBlockIInv ==
  ASSUME IInv, CommitSuperBlock
  PROVE  IInv'
<1>1. TypeOK /\ PlaceInv /\ LogInv /\ FreshInv /\ BatchInv
  BY DEF IInv
<1>2. /\ maint = "superblock"
      /\ \/ maint' = "idle" /\ wal_lsn' = wal_lsn /\ excused' = excused
         \/ maint' = "truncate" /\ wal_lsn' = max_lsn /\ excused' = (excused \/ Missed)
      /\ UNCHANGED <<jobs, commit, log, tables, data, head, checkpoint, rounds, faults>>
  BY DEF CommitSuperBlock
<1>3. /\ max_lsn \in Nat /\ wal_lsn \in Nat
      /\ \A k \in Key : data[k] \in Nat /\ memtable[k] \in Nat
      /\ wal_synced \in 0 .. Len(wal) /\ Len(wal) \in Nat
  BY <1>1, TypeFacts
<1>4. TypeOK'
  <2>1. wal_lsn' \in Lsn /\ excused' \in BOOLEAN
    BY <1>1, <1>2, <1>3 DEF TypeOK, Lsn
  <2> QED
    BY <1>1, <1>2, <2>1 DEF TypeOK, jobs, log, tables
<1>5. PlaceInv' /\ FreshInv'
  BY <1>1, <1>2 DEF PlaceInv, FreshInv, Unlogged, jobs
<1>6. LogInv' /\ BatchInv'
  <2>1. wal_lsn' <= max_lsn
    BY <1>1, <1>2, <1>3 DEF LogInv
  <2>2. LogInv'
    BY <1>1, <1>2, <2>1 DEF LogInv, log
  <2>3. BatchInv'
    BY <1>1, <1>2 DEF BatchInv, Unlogged, InHand, jobs
  <2> QED
    BY <2>2, <2>3
<1>7. ASSUME ~excused' PROVE unlogged' = {} /\ HandedInv' /\ TablesInv' /\ AckedInv'
  <2>1. unlogged = {} /\ HandedInv /\ TablesInv /\ AckedInv
    BY <1>2, <1>7 DEF IInv, DurableInv
  <2>2. CASE maint' = "idle" /\ wal_lsn' = wal_lsn
    <3>1. TablesInv' /\ AckedInv'
      BY <1>2, <2>1, <2>2 DEF TablesInv, AckedInv, Synced, Among, jobs, log, tables
    <3>2. HandedInv'
      BY <1>2, <2>1, <2>2 DEF HandedInv, Handed, Unlogged, InHand, RecordOf, Synced,
                              Among, jobs, log
    <3> QED
      BY <1>2, <2>1, <3>1, <3>2 DEF tables
  <2>3. CASE maint' = "truncate" /\ wal_lsn' = max_lsn
    <3>1. ~Missed
      BY <1>2, <1>7, <2>3
    <3>2. /\ \A d \in Drainer : ~InHand(d)
          /\ unlogged = {} /\ \A k \in Key : memtable[k] = 0
      BY <1>1, <1>2, <3>1, NothingMissed
    <3>3. ASSUME NEW k \in Key PROVE data[k] <= max_lsn
      <4>1. CASE data[k] <= wal_lsn
        BY <1>1, <1>3, <4>1 DEF LogInv
      <4>2. CASE data[k] > wal_lsn
        <5>1. magic /\ Synced([lsn |-> data[k], key |-> k])
          BY <2>1, <4>2 DEF TablesInv
        <5>2. PICK i \in 1 .. wal_synced : wal[i].lsn = data[k]
          BY <5>1 DEF Synced, Among
        <5>3. i \in 1 .. Len(wal)
          BY <1>3
        <5> QED
          BY <1>1, <5>1, <5>2, <5>3 DEF LogInv
      <4> QED
        BY <1>3, <4>1, <4>2
    <3>4. TablesInv'
      BY <1>2, <1>3, <2>1, <2>3, <3>2, <3>3 DEF TablesInv, tables
    <3>5. AckedInv'
      <4> SUFFICES ASSUME NEW a \in acked PROVE a.lsn > 0 /\ a.lsn <= data[a.key]
        BY <1>2 DEF AckedInv, jobs
      <4>1. a.key \in Key /\ a.lsn \in Nat
        BY <1>1 DEF TypeOK, Lsn
      <4> QED
        BY <1>2, <1>3, <2>1, <3>2, <4>1 DEF AckedInv
    <3>6. HandedInv'
      BY <1>2, <3>2 DEF HandedInv, InHand, jobs
    <3> QED
      BY <1>2, <3>2, <3>4, <3>5, <3>6 DEF tables
  <2> QED
    BY <1>2, <2>2, <2>3
<1> QED
  BY <1>4, <1>5, <1>6, <1>7 DEF IInv, DurableInv

LEMMA TruncateToIInv ==
  ASSUME IInv, TruncateTo
  PROVE  IInv'
<1>1. TypeOK /\ PlaceInv /\ LogInv /\ FreshInv /\ BatchInv
  BY DEF IInv
<1> DEFINE suffix == Suffix(wal, wal_lsn)
<1>2. /\ maint = "truncate" /\ maint' = "idle"
      /\ wal' = suffix /\ wal_synced' = 0 /\ magic' = (suffix = <<>>) /\ file_ok' = TRUE
      /\ max_lsn' = IF suffix = <<>> THEN wal_lsn ELSE suffix[1].lsn
      /\ excused' = (excused \/ Missed)
      /\ UNCHANGED <<jobs, commit, tables, files, checkpoint, rounds, faults>>
  BY DEF TruncateTo
<1>3. /\ wal \in Seq(Record) /\ Len(wal) \in Nat /\ wal_lsn \in Nat
      /\ \A i \in 1 .. Len(wal) : wal[i].lsn \in Nat
      /\ \A k \in Key : data[k] \in Nat /\ memtable[k] \in Nat
  BY <1>1, TypeFacts
<1>4. /\ suffix \in Seq(Record)
      /\ \/ suffix = <<>>
         \/ \E f \in 1 .. Len(wal) :
              /\ wal[f].lsn > wal_lsn
              /\ Len(suffix) = Len(wal) - f + 1
              /\ \A i \in 1 .. Len(wal) - f + 1 : suffix[i] = wal[f + i - 1]
  BY <1>3, SuffixProperties
<1> HIDE DEF suffix
<1>5. /\ max_lsn' \in Nat /\ wal_lsn <= max_lsn'
      /\ \A i, j \in 1 .. Len(suffix) : i < j => suffix[i].lsn < suffix[j].lsn
      /\ \A i \in 1 .. Len(suffix) : suffix[i].lsn > 0
  <2>1. CASE suffix = <<>>
    BY <1>2, <1>3, <2>1
  <2>2. CASE suffix # <<>>
    <3>1. PICK f \in 1 .. Len(wal) :
            /\ wal[f].lsn > wal_lsn
            /\ Len(suffix) = Len(wal) - f + 1
            /\ \A i \in 1 .. Len(wal) - f + 1 : suffix[i] = wal[f + i - 1]
      BY <1>4, <2>2
    <3>2. \A i \in 1 .. Len(suffix) : f + i - 1 \in 1 .. Len(wal)
      BY <1>3, <3>1
    <3>3. 1 \in 1 .. Len(suffix) /\ f + 1 - 1 = f
      BY <1>3, <3>1
    <3>4. suffix[1] = wal[f]
      BY <3>1, <3>3
    <3>5. max_lsn' = wal[f].lsn
      BY <1>2, <2>2, <3>4
    <3>6. ASSUME NEW i \in 1 .. Len(suffix), NEW j \in 1 .. Len(suffix), i < j
          PROVE  suffix[i].lsn < suffix[j].lsn
      <4>1. /\ suffix[i] = wal[f + i - 1] /\ suffix[j] = wal[f + j - 1]
            /\ f + i - 1 < f + j - 1
        BY <1>3, <3>1, <3>6
      <4> QED
        BY <1>1, <3>2, <4>1 DEF LogInv
    <3>7. \A i \in 1 .. Len(suffix) : suffix[i].lsn > 0
      BY <1>1, <3>1, <3>2 DEF LogInv
    <3>8. max_lsn' \in Nat /\ wal_lsn <= max_lsn'
      BY <1>3, <3>1, <3>5
    <3> QED
      BY <3>6, <3>7, <3>8
  <2> QED
    BY <2>1, <2>2
<1>6. TypeOK'
  <2>1. wal' \in Seq(Record) /\ wal_synced' \in 0 .. Len(wal')
    BY <1>2, <1>4
  <2>2. magic' \in BOOLEAN /\ excused' \in BOOLEAN
    BY <1>1, <1>2 DEF TypeOK
  <2>3. max_lsn' \in Lsn
    BY <1>5 DEF Lsn
  <2> QED
    BY <1>1, <1>2, <2>1, <2>2, <2>3 DEF TypeOK, jobs, tables, files
<1>7. PlaceInv' /\ FreshInv'
  BY <1>1, <1>2 DEF PlaceInv, FreshInv, Unlogged, jobs
<1>8. LogInv'
  <2>1. magic' => Len(wal') = 0
    BY <1>2
  <2> QED
    BY <1>2, <1>5, <2>1 DEF LogInv, files
<1>9. BatchInv'
  BY <1>1, <1>2 DEF BatchInv, Unlogged, InHand, jobs
<1>10. ASSUME ~excused' PROVE unlogged' = {} /\ HandedInv' /\ TablesInv' /\ AckedInv'
  <2>1. ~excused /\ HandedInv /\ TablesInv /\ AckedInv
    BY <1>2, <1>10 DEF IInv, DurableInv
  <2>2. /\ \A d \in Drainer : ~InHand(d)
        /\ unlogged = {} /\ \A k \in Key : memtable[k] = 0
    BY <1>1, <1>2, <1>10, NothingMissed
  <2>3. HandedInv'
    BY <1>2, <2>2 DEF HandedInv, InHand, jobs
  <2>4. \A k \in Key : memtable[k] = 0 /\ data[k] <= wal_lsn /\ data[k] <= head[k]
    BY <1>2, <2>1, <2>2 DEF TablesInv
  <2>5. TablesInv'
    BY <1>2, <1>3, <2>4 DEF TablesInv, tables, files
  <2>6. AckedInv'
    <3> SUFFICES ASSUME NEW a \in acked PROVE a.lsn > 0 /\ a.lsn <= data[a.key]
      BY <1>2 DEF AckedInv, jobs, files
    <3>1. a.key \in Key /\ a.lsn \in Nat
      BY <1>1 DEF TypeOK, Lsn
    <3> QED
      BY <1>2, <1>3, <2>1, <2>4, <3>1 DEF AckedInv
  <2> QED
    BY <1>2, <2>2, <2>3, <2>5, <2>6 DEF tables
<1> QED
  BY <1>6, <1>7, <1>8, <1>9, <1>10 DEF IInv, DurableInv

LEMMA StutterIInv == IInv /\ UNCHANGED vars => IInv'
<1> SUFFICES ASSUME IInv, UNCHANGED vars PROVE IInv'
  OBVIOUS
<1>1. UNCHANGED <<jobs, commit, log, tables, files, control, faults>>
  BY DEF vars
<1>2. TypeOK'
  BY <1>1 DEF IInv, TypeOK, jobs, log, tables, files, control
<1>3. PlaceInv' /\ FreshInv'
  BY <1>1 DEF IInv, PlaceInv, FreshInv, Unlogged, jobs, control
<1>4. LogInv' /\ BatchInv' /\ DurableInv'
  BY <1>1, QuietDurable DEF InHand, jobs, control, log
<1> QED
  BY <1>2, <1>3, <1>4 DEF IInv

(* Every step preserves the inductive invariant. *)
LEMMA NextIInv == IInv /\ [Next]_vars => IInv'
<1> SUFFICES ASSUME IInv, [Next]_vars PROVE IInv'
  OBVIOUS
<1>1. ASSUME NEW c \in Client, NEW k \in Key, NEW large \in BOOLEAN, PutEnter(c, k, large)
      PROVE  IInv'
  BY <1>1, PutEnterIInv
<1>2. ASSUME NEW c \in Client, PutEnqueue(c) PROVE IInv'
  BY <1>2, PutEnqueueIInv
<1>3. ASSUME NEW d \in Drainer, DrainStep(d) \/ AppendManyFails(d) PROVE IInv'
  BY <1>3, PopIInv, AppendManyIInv, FsyncBatchIInv, ApplyWalBatchIInv, FsyncFailsIInv,
     AppendManyFailsIInv DEF DrainStep
<1>4. ASSUME NEW s \in Session,
             AppendTxnCommit(s) \/ AppendTxnCommitFails(s) \/ CommitStep(s)
      PROVE  IInv'
  BY <1>4, AppendTxnCommitIInv, AppendTxnCommitFailsIInv, CommitStepIInv
<1>5. ASSUME NEW cp \in BOOLEAN, MaintenanceBegin(cp) PROVE IInv'
  BY <1>5, MaintenanceBeginIInv
<1>6. CASE MaintenanceStep
  BY <1>6, FlushPendingDoneIInv, FlushTableIInv, FoldWalToVcsIInv, CommitSuperBlockIInv,
     TruncateToIInv, FlushFsyncFailsIInv DEF MaintenanceStep
<1>7. CASE UNCHANGED vars
  BY <1>7, StutterIInv
<1> QED
  BY <1>1, <1>2, <1>3, <1>4, <1>5, <1>6, <1>7 DEF Next

(* The inductive invariant is an invariant of the write path. *)
LEMMA IInvInvariant == Spec => []IInv
<1> QED
  BY InitIInv, NextIInv, PTL DEF Spec

---------------------------------------------------------------------------
(* Every variable keeps its type; a batch is never longer than             *)
(* max_batch_size.                                                         *)
THEOREM TypeCorrect == Spec => []TypeOK
<1>1. IInv => TypeOK
  BY DEF IInv
<1> QED
  BY <1>1, IInvInvariant, PTL

(* A job of WalBatchPipeline is in the queue or with one drainer, whether  *)
(* the worker, a Flush or a commit takes it: never lost, never done twice. *)
THEOREM JobsInOnePlace == Spec => []JobInOnePlace
<1>1. IInv => JobInOnePlace
  BY PlaceImpliesOnePlace DEF IInv
<1> QED
  BY <1>1, IInvInvariant, PTL

(* What ApplyWalBatch has made visible survives a crash at any instant,    *)
(* unless one of the named exceptions has happened.                        *)
THEOREM AppliedIsDurable == Spec => []AppliedDurable
<1>1. IInv => AppliedDurable
  BY InvImpliesDurable
<1> QED
  BY <1>1, IInvInvariant, PTL

(* A Get finds every version a kBalanced Put has returned Ok for, or a     *)
(* newer one, whichever drainer applied it and whatever was flushed since, *)
(* with the same exceptions.                                               *)
THEOREM NewestIsRead == Spec => []NewestWins
<1>1. IInv => NewestWins
  BY InvImpliesDurable
<1> QED
  BY <1>1, IInvInvariant, PTL

(* What a Put of the kBalanced mode has returned Ok for survives a crash   *)
(* at any instant, with the same exceptions and no others: any number of   *)
(* batches, committing sessions, flushes, checkpoints and I/O errors.      *)
THEOREM AckedIsDurable == Spec => []AckedDurableUnlessExcused
<1>1. IInv => AckedDurableUnlessExcused
  BY InvImpliesDurable
<1> QED
  BY <1>1, IInvInvariant, PTL
=============================================================================
