------------------------ MODULE VersionChainsProofs ------------------------
(***************************************************************************)
(* Old versions of one shard, for any number of keys and readers, any      *)
(* number of inline nodes, any GC threshold, any bound on LSNs, records,   *)
(* checkpoints and crashes.  A flashback gives the state of its time.      *)
(* While one thread takes and releases all snapshots, a read at a pinned   *)
(* one finds the newest version below it, and keeps finding it.            *)
(***************************************************************************)
EXTENDS VersionChains, OrderLemmas, FiniteSetTheorems, TLAPS

Of(k) == Lsns(Stored, k)
Nodes(k) == Merged(chains[k])
RecordOf(k) == [lsn |-> memtable[k].lsn, key |-> k, del |-> memtable[k].del]

(* What the log and the data file hold.  Two records of the log have two   *)
(* LSNs; a stored version is below the superblock or in the log.           *)
LogInv ==
  /\ \A r, s \in wal : r.lsn = s.lsn => r = s
  /\ \A i \in DOMAIN datafile :
       \/ datafile[i].lsn <= super.wal_lsn
       \/ \E r \in wal : /\ r.lsn = datafile[i].lsn /\ r.key = datafile[i].key
                         /\ r.del = datafile[i].del

(* The memtable holds the newest record of a key, and one the superblock   *)
(* does not cover; during a checkpoint it is empty.                        *)
TableInv ==
  /\ \A k \in Key : memtable[k] # NoEntry =>
       /\ RecordOf(k) \in wal /\ memtable[k].lsn > super.wal_lsn
       /\ \A l \in Lsns(wal, k) : l <= memtable[k].lsn
  /\ phase # "idle" => memtable = EmptyTable

(* The records of a key are stored in the order of their LSNs; a record    *)
(* that a replay stores again says the same.                               *)
FileInv ==
  \A i, j \in DOMAIN datafile :
    i < j /\ datafile[i].key = datafile[j].key =>
      /\ datafile[i].lsn <= datafile[j].lsn
      /\ datafile[i].lsn = datafile[j].lsn => datafile[i].del = datafile[j].del

TLogInv ==
  \A i \in DOMAIN tlog : /\ tlog[i].size <= Len(datafile)
                         /\ LoadAsOfCommitted(tlog[i]) = tlog[i].state

Counting(r) == reader[r].pc \in {"counted", "lowers", "pinned"}
CountInv == snapshot_pin_count = Cardinality({r \in Reader : Counting(r)})

IInv == TypeOK /\ LogInv /\ TableInv /\ FileInv /\ TLogInv /\ CountInv

(* Part 2. *)

(* LSNs that were given out.                                               *)
StableInv ==
  /\ stable_lsn <= CurrentLsn
  /\ super.data_lsn \in 1 .. CurrentLsn
  /\ Running => stable_lsn > 0

(* One reader at a time takes or releases a snapshot.  While somebody has  *)
(* one, the pinned LSN is not 0, and at or below every snapshot taken.     *)
Taken(r) == reader[r].pc = "captured" \/ Counting(r)
PinInv ==
  /\ \A r, o \in Reader : r = o \/ Settled(r) \/ Settled(o)
  /\ \A r \in Reader : Taken(r) => /\ pinned_snapshot_lsn <= reader[r].lsn
                                   /\ reader[r].lsn \in 1 .. stable_lsn
  /\ \A r \in Reader : reader[r].pc = "pinned" => pinned_snapshot_lsn > 0
  /\ \A r \in Reader : reader[r].pc = "lowers" => pinned_snapshot_lsn = 0
  /\ \A r, o \in Reader : reader[r].pc = "last" => r = o \/ ~Counting(o)
  /\ pinned_snapshot_lsn <= stable_lsn
  /\ ~Running => /\ pinned_snapshot_lsn = 0
                 /\ reader = [r \in Reader |-> NoSnapshot]

(* Maps, chains and chain files hold nothing but stored versions.          *)
HeldInv ==
  \A k \in Key :
    /\ committed[k] \in Of(k) \cup {0}
    /\ btree[k] \in Of(k) \cup {0} /\ super.root[k] \in Of(k) \cup {0}
    /\ Nodes(k) \subseteq Of(k) /\ vidx.saved[k] \subseteq Of(k)
    /\ vcsmeta # TornMeta => vcsmeta[k] \subseteq Of(k)

(* A key with nothing in the memtable has its newest record in its chain,  *)
(* so that folding the log into the chain adds nothing.                    *)
FoldInv ==
  Running => \A k \in Key : memtable[k] = NoEntry =>
    \A l \in Lsns(wal, k) : l > super.wal_lsn => \E m \in Nodes(k) : l <= m

(* Nothing newer than what a map holds is stored, but what an open did not *)
(* load, and, for the saved root, what the log will replay.                *)
NewestInv ==
  \A k \in Key : \A l \in Of(k) \ unloaded :
    /\ committed[k] = 0 \/ l <= committed[k]
    /\ memtable[k] = NoEntry /\ Running => btree[k] = 0 \/ l <= btree[k]
    /\ super.root[k] = 0 \/ l <= super.root[k] \/ l > super.wal_lsn

(* A stored version is in its chain, or was not loaded, or no snapshot     *)
(* taken now or later needs it, because of a newer one below them all.     *)
Hidden(l, n) == /\ l < n /\ n <= stable_lsn
                /\ \A r \in Reader : Taken(r) => n <= reader[r].lsn
FloorInv ==
  Running => \A k \in Key : \A l \in Of(k) :
    l \in Nodes(k) \cup unloaded \/ \E n \in Of(k) : Hidden(l, n)

(* What the log holds when the superblock is written, it covers.           *)
CoveredInv ==
  phase \in {"vidx", "meta", "compact"} => \A r \in wal : r.lsn <= super.wal_lsn

(* The LSN index knows what was stored since the open; a key with such a    *)
(* version is in chains_.                                                  *)
IndexInv ==
  /\ \A l \in lsn_index : \E i \in DOMAIN datafile : datafile[i].lsn = l
  /\ \A k \in Key : lsn_index \cap Of(k) # {} => Listed(chains[k])
  /\ \A k \in Key : lsn_index \cap Of(k) # {} =>
       \A l \in Of(k) : /\ committed[k] = 0 \/ l <= committed[k]
                        /\ btree[k] = 0 \/ l <= btree[k]
  /\ ~Running => lsn_index = {}

SInv == /\ StableInv /\ PinInv /\ HeldInv /\ FoldInv /\ NewestInv /\ FloorInv
        /\ IndexInv /\ CoveredInv
-----------------------------------------------------------------------------
(* The operators of the model. *)

LEMMA LsnIsNat == 0 \in Lsn /\ \A l \in Lsn : l \in Nat /\ l <= MaxLsn
BY ChainBoundsOK DEF Lsn

LEMMA MaxIsGreatest ==
  ASSUME NEW S \in SUBSET Nat, S # {}, NEW b \in Nat, \A n \in S : n <= b
  PROVE  Max(S) \in S /\ \A n \in S : n <= Max(S)
<1>1. PICK i \in S : \A n \in S : n <= i
  BY GreatestNat
<1>2. \A n \in S : i >= n
  BY <1>1
<1> QED
  BY <1>2 DEF Max

(* LastOf is the greatest of a set of LSNs, 0 if it is empty. *)
LEMMA LastOfIsGreatest ==
  ASSUME NEW S \in SUBSET Lsn
  PROVE  /\ LastOf(S) \in Lsn
         /\ \A l \in S : l <= LastOf(S)
         /\ LastOf(S) \in S \cup {0}
<1>1. /\ S \cup {0} \in SUBSET Nat /\ S \cup {0} # {} /\ MaxLsn \in Nat
      /\ \A n \in S \cup {0} : n <= MaxLsn
  BY ChainBoundsOK DEF Lsn
<1>2. Max(S \cup {0}) \in S \cup {0} /\ \A n \in S \cup {0} : n <= Max(S \cup {0})
  BY <1>1, MaxIsGreatest
<1>3. 0 \in Lsn
  BY ChainBoundsOK DEF Lsn
<1> QED
  BY <1>2, <1>3 DEF LastOf

LEMMA LastOfIs ==
  ASSUME NEW S \in SUBSET Lsn, NEW l \in S, \A m \in S : m <= l
  PROVE  LastOf(S) = l
<1>1. LastOf(S) \in S \cup {0} /\ l <= LastOf(S)
  BY LastOfIsGreatest
<1>2. l \in Lsn /\ LastOf(S) \in Lsn
  BY LastOfIsGreatest
<1>3. l \in Nat /\ LastOf(S) \in Nat
  BY <1>2, LsnIsNat
<1>4. LastOf(S) = 0 => l = 0
  BY <1>1, <1>3
<1>5. LastOf(S) \in S => LastOf(S) <= l
  OBVIOUS
<1> QED
  BY <1>1, <1>3, <1>4, <1>5

LEMMA LsnsIs ==
  ASSUME NEW R, NEW k
  PROVE  /\ \A l : l \in Lsns(R, k) <=> \E r \in R : r.key = k /\ r.lsn = l
         /\ \A r \in R : r.key = k => r.lsn \in Lsns(R, k)
BY DEF Lsns

LEMMA OfIs ==
  ASSUME NEW k
  PROVE  /\ \A l : l \in Of(k) <=>
              \E i \in DOMAIN datafile :
                datafile[i].key = k /\ datafile[i].lsn = l
         /\ \A i \in DOMAIN datafile : datafile[i].key = k =>
              datafile[i].lsn \in Of(k)
BY DEF Of, Lsns, Stored, Range

(* SetToSeq lists every member of a finite set, and no member twice. *)
LEMMA SetToSeqIs ==
  ASSUME NEW S, IsFiniteSet(S)
  PROVE  /\ Cardinality(S) \in Nat
         /\ SetToSeq(S) \in [1 .. Cardinality(S) -> S]
         /\ \A i, j \in 1 .. Cardinality(S) :
              SetToSeq(S)[i] = SetToSeq(S)[j] => i = j
         /\ \A x \in S : \E i \in 1 .. Cardinality(S) : SetToSeq(S)[i] = x
<1> DEFINE n == Cardinality(S)
<1>1. n \in Nat /\ ExistsBijection(1 .. n, S)
  BY FS_CardinalityType
<1>2. PICK f : f \in Bijection(1 .. n, S)
  BY <1>1 DEF ExistsBijection
<1>3. f \in [1 .. n -> S] /\ IsInjective(f)
  BY <1>2 DEF Bijection, Injection, IsInjective
<1>4. SetToSeq(S) \in [1 .. n -> S] /\ IsInjective(SetToSeq(S))
  BY <1>3 DEF SetToSeq
<1>5. SetToSeq(S) \in Injection(1 .. n, S)
  BY <1>4 DEF Injection, IsInjective
<1>6. IsFiniteSet(1 .. n) /\ Cardinality(1 .. n) = n
  BY <1>1, FS_Interval
<1>7. SetToSeq(S) \in Surjection(1 .. n, S)
  BY <1>5, <1>6, FS_Injection
<1> QED
  BY <1>1, <1>4, <1>5, <1>7 DEF Surjection, Injection, IsInjective

(* A chain: its nodes after an append, and no more inline than allowed.    *)
Chain == [inline : SUBSET Lsn, overflow : SUBSET Lsn]
LEMMA AppendedIs ==
  ASSUME NEW c \in Chain, NEW lsns \in SUBSET Lsn
  PROVE  /\ Appended(c, lsns) \in Chain
         /\ Merged(Appended(c, lsns)) = Merged(c) \cup lsns
         /\ Cardinality(Appended(c, lsns).inline) <= InlineMax
         /\ c.inline \cup lsns # {} => Listed(Appended(c, lsns))
<1> DEFINE all == c.inline \cup lsns
           After(l) == {m \in all : m > l}
           kept == {l \in all : Cardinality(After(l)) < InlineMax}
<1>1. all \in SUBSET Lsn /\ c.overflow \in SUBSET Lsn
  BY DEF Chain
<1>2. Appended(c, lsns)
        = [inline |-> kept, overflow |-> c.overflow \cup (all \ kept)]
  BY DEF Appended
<1>3. kept \in SUBSET all
  OBVIOUS
<1>4. \A S \in SUBSET Lsn : IsFiniteSet(S) /\ Cardinality(S) \in Nat
  <2>1. IsFiniteSet(Lsn)
    BY ChainBoundsOK, FS_Interval DEF Lsn
  <2> QED
    BY <2>1, FS_Subset, FS_CardinalityType
<1>5. Cardinality(kept) <= InlineMax
  <2>1. CASE kept = {}
    <3>1. Cardinality(kept) = 0
      BY <2>1, FS_EmptySet
    <3> QED
      BY <3>1, ChainBoundsOK
  <2>2. CASE kept # {}
    <3>1. kept \in SUBSET Nat
      BY <1>1, LsnIsNat
    <3>2. PICK l \in kept : \A m \in kept : l <= m
      BY <2>2, <3>1, LeastNat
    <3>3. Cardinality(After(l)) < InlineMax
      BY <3>2
    <3>4. After(l) \in SUBSET Lsn /\ kept \in SUBSET Lsn
      BY <1>1
    <3> HIDE DEF kept, After
    <3>5. IsFiniteSet(kept) /\ IsFiniteSet(After(l))
          /\ Cardinality(kept) \in Nat /\ Cardinality(After(l)) \in Nat
      BY <1>4, <3>4
    <3>6. kept \ {l} \in SUBSET After(l)
      <4>1. ASSUME NEW m \in kept \ {l} PROVE m \in all /\ m > l
        <5>1. m \in Nat /\ l \in Nat /\ l <= m /\ m # l
          BY <3>1, <3>2
        <5> QED
          BY <1>3, <5>1
      <4> QED
        BY <4>1 DEF After
    <3>7. Cardinality(kept \ {l}) <= Cardinality(After(l))
      BY <3>5, <3>6, FS_Subset
    <3>8. Cardinality(kept \ {l}) = Cardinality(kept) - 1
      BY <3>2, <3>5, FS_RemoveElement
    <3> QED
      BY <3>3, <3>5, <3>7, <3>8, ChainBoundsOK
  <2> QED
    BY <2>1, <2>2
<1>6. ASSUME all # {} PROVE kept # {}
  <2>1. all \in SUBSET Nat /\ MaxLsn \in Nat /\ \A n \in all : n <= MaxLsn
    BY <1>1, LsnIsNat, ChainBoundsOK
  <2> HIDE DEF all
  <2>2. Max(all) \in all /\ \A n \in all : n <= Max(all)
    BY <1>6, <2>1, MaxIsGreatest
  <2>3. After(Max(all)) = {}
    <3> SUFFICES ASSUME NEW m \in all, m > Max(all) PROVE FALSE
      OBVIOUS
    <3>1. m \in Nat /\ Max(all) \in Nat /\ m <= Max(all)
      BY <2>1, <2>2
    <3> QED
      BY <3>1
  <2>4. Cardinality(After(Max(all))) = 0
    BY <2>3, FS_EmptySet
  <2>5. Cardinality(After(Max(all))) < InlineMax
    BY <2>4, ChainBoundsOK
  <2> QED
    BY <2>2, <2>5
<1> HIDE DEF kept
<1>7. c.inline \cup lsns # {} => Listed(Appended(c, lsns))
  BY <1>2, <1>6 DEF Listed
<1>8. Merged(Appended(c, lsns)) = Merged(c) \cup lsns
  BY <1>2, <1>3 DEF Merged
<1>9. Appended(c, lsns) \in Chain
  BY <1>1, <1>2, <1>3 DEF Chain
<1> QED
  BY <1>2, <1>5, <1>7, <1>8, <1>9

(* Compaction at an LSN keeps what is not below it, and the newest at or   *)
(* below it.                                                               *)
LEMMA CompactBelowIs ==
  ASSUME NEW c \in Chain, Cardinality(c.inline) <= InlineMax, NEW q \in Lsn
  PROVE  /\ CompactBelow(c, q) \in Chain
         /\ Cardinality(CompactBelow(c, q).inline) <= InlineMax
         /\ Merged(CompactBelow(c, q)) \subseteq Merged(c)
         /\ q = 0 => CompactBelow(c, q) = c
         /\ Listed(c) \/ q = 0 => \A l \in Merged(c) :
              \/ l \in Merged(CompactBelow(c, q))
              \/ \E n \in Merged(CompactBelow(c, q)) : l < n /\ n <= q
         /\ Listed(c) => Listed(CompactBelow(c, q))
<1>1. CASE q = 0
  BY <1>1 DEF CompactBelow
<1>3. CASE q # 0 /\ ~Listed(c)
  <2>1. CompactBelow(c, q) = NoChain
    BY <1>3 DEF CompactBelow
  <2>2. NoChain \in Chain /\ Merged(NoChain) = {} /\ NoChain.inline = {}
    BY DEF Merged, Chain, NoChain
  <2>3. Cardinality(NoChain.inline) <= InlineMax
    BY <2>2, FS_EmptySet, ChainBoundsOK
  <2> QED
    BY <1>3, <2>1, <2>2, <2>3
<1>2. CASE q # 0 /\ Listed(c)
  <2> DEFINE from == {l \in Merged(c) : l >= q}
             floor == {l \in Merged(c) : l <= q}
             rest == IF floor = {} \/ q \in from THEN {} ELSE {Max(floor)}
  <2>1. CompactBelow(c, q) = Appended(NoChain, from \cup rest)
    BY <1>2 DEF CompactBelow
  <2>2. Merged(c) \in SUBSET Lsn /\ NoChain \in Chain /\ Merged(NoChain) = {}
    BY DEF Merged, Chain, NoChain
  <2>3. floor # {} => Max(floor) \in floor /\ \A n \in floor : n <= Max(floor)
    <3>1. floor \in SUBSET Nat /\ q \in Nat /\ \A n \in floor : n <= q
      BY <2>2, LsnIsNat
    <3> QED
      BY <3>1, MaxIsGreatest
  <2>4. rest \in SUBSET floor
    BY <2>3
  <2>5. from \cup rest \in SUBSET Merged(c)
    BY <2>4
  <2>6. ASSUME NEW l \in Merged(c), l \notin from \cup rest
        PROVE  \E n \in from \cup rest : l < n /\ n <= q
    <3>1. l \in Nat /\ q \in Nat
      BY <2>2, LsnIsNat
    <3>2. l < q /\ l \in floor
      BY <2>6, <3>1
    <3>3. CASE q \in from
      BY <3>1, <3>2, <3>3
    <3>4. CASE q \notin from
      <4>1. rest = {Max(floor)}
        BY <3>2, <3>4
      <4>2. Max(floor) \in floor /\ l <= Max(floor) /\ Max(floor) # l
        BY <2>3, <2>6, <3>2, <4>1
      <4>3. Max(floor) \in Nat /\ Max(floor) <= q
        BY <2>2, <4>2, LsnIsNat
      <4> QED
        BY <3>1, <4>1, <4>2, <4>3
    <3> QED
      BY <3>3, <3>4
  <2> DEFINE all == from \cup rest
  <2>7. all \in SUBSET Merged(c) /\ all \in SUBSET Lsn
    BY <2>2, <2>5
  <2>8. \A l \in Merged(c) : l \in all \/ \E n \in all : l < n /\ n <= q
    BY <2>6
  <2>9. CompactBelow(c, q) = Appended(NoChain, all)
    BY <2>1
  <2> HIDE DEF all
  <2>10. /\ Appended(NoChain, all) \in Chain
         /\ Merged(Appended(NoChain, all)) = Merged(NoChain) \cup all
         /\ Cardinality(Appended(NoChain, all).inline) <= InlineMax
         /\ all # {} => Listed(Appended(NoChain, all))
    <3>1. NoChain.inline \cup all = all
      BY DEF NoChain
    <3> QED
      BY <2>2, <2>7, <3>1, AppendedIs
  <2>11. Merged(CompactBelow(c, q)) = all
    BY <2>2, <2>9, <2>10
  <2>12. all # {}
    <3>1. PICK l \in c.inline : TRUE
      BY <1>2 DEF Listed
    <3>2. l \in Merged(c)
      BY <3>1 DEF Merged
    <3> QED
      BY <2>8, <3>2
  <2> QED
    BY <1>2, <2>7, <2>8, <2>9, <2>10, <2>11, <2>12
<1> QED
  BY <1>1, <1>2, <1>3

(* What some records of the data file leave of a key: the version of the   *)
(* last of them.                                                           *)
LEMMA LiveAfterIs ==
  ASSUME datafile \in Seq(DataRecord), NEW at \in SUBSET DOMAIN datafile
  PROVE  /\ LiveAfter(at) \in Lsn
         /\ at # {} => Max(at) \in at /\ \A i \in at : i <= Max(at)
         /\ LiveAfter(at) # 0 => at # {} /\ LiveAfter(at) = datafile[Max(at)].lsn
<1>1. at \in SUBSET Nat /\ Len(datafile) \in Nat
      /\ \A i \in at : i <= Len(datafile)
  OBVIOUS
<1>2. at # {} => Max(at) \in at /\ \A i \in at : i <= Max(at)
  BY <1>1, MaxIsGreatest
<1>3. \A i \in DOMAIN datafile : datafile[i].lsn \in Lsn
  <2>1. \A i \in DOMAIN datafile : datafile[i] \in DataRecord
    OBVIOUS
  <2> QED
    BY <2>1 DEF DataRecord
<1>4. LiveAfter(at) \in Lsn
  BY <1>2, <1>3, LsnIsNat DEF LiveAfter
<1> QED
  BY <1>2, <1>4 DEF LiveAfter

(* The records of a flush: one for each key of the memtable.               *)
DataOf(k, gen) ==
  [lsn |-> memtable[k].lsn, key |-> k, del |-> memtable[k].del, gen |-> gen]

LEMMA FlushedIs ==
  /\ IsFiniteSet(Flushed) /\ Flushed \subseteq Key
  /\ \A k \in Key : k \in Flushed <=> memtable[k] # NoEntry
BY ChainBoundsOK, FS_Subset DEF Flushed

LEMMA FlushedRecordsIs ==
  ASSUME memtable \in [Key -> Entry], NEW gen \in Generation
  PROVE  /\ FlushedRecords(gen) \in Seq(DataRecord)
         /\ \A i \in 1 .. Len(FlushedRecords(gen)) :
              \E k \in Flushed : FlushedRecords(gen)[i] = DataOf(k, gen)
         /\ \A k \in Flushed : \E i \in 1 .. Len(FlushedRecords(gen)) :
              FlushedRecords(gen)[i] = DataOf(k, gen)
         /\ \A i, j \in 1 .. Len(FlushedRecords(gen)) :
              FlushedRecords(gen)[i].key = FlushedRecords(gen)[j].key => i = j
<1> DEFINE n == Cardinality(Flushed)
           s == SetToSeq(Flushed)
           f == FlushedRecords(gen)
<1>1. /\ n \in Nat /\ s \in [1 .. n -> Flushed]
      /\ \A i, j \in 1 .. n : s[i] = s[j] => i = j
      /\ \A k \in Flushed : \E i \in 1 .. n : s[i] = k
  BY FlushedIs, SetToSeqIs
<1>2. f = [i \in 1 .. n |-> DataOf(s[i], gen)]
  BY DEF FlushedRecords, DataOf
<1>3. \A k \in Flushed : DataOf(k, gen) \in DataRecord /\ DataOf(k, gen).key = k
  <2>1. \A k \in Flushed : k \in Key /\ memtable[k] \in Entry
    BY FlushedIs
  <2> QED
    BY <2>1 DEF DataOf, DataRecord, Entry
<1> HIDE DEF n, s, f
<1>4. f \in [1 .. n -> DataRecord]
  BY <1>1, <1>2, <1>3
<1>5. f \in Seq(DataRecord) /\ Len(f) = n
  BY <1>1, <1>4
<1>6. \A i \in 1 .. n : s[i] \in Flushed /\ f[i] = DataOf(s[i], gen)
  BY <1>1, <1>2
<1>7. \A i, j \in 1 .. n : f[i].key = f[j].key => i = j
  BY <1>1, <1>3, <1>6
<1>8. \A k \in Flushed : \E i \in 1 .. n : f[i] = DataOf(k, gen)
  BY <1>1, <1>6
<1> QED
  BY <1>5, <1>6, <1>7, <1>8 DEF f

(* The data file after a flush: the old records, and those of the flush.   *)
LEMMA FileAfterFlush ==
  ASSUME TypeOK, FlushInternal
  PROVE  /\ datafile' \in Seq(DataRecord) /\ gc'.active \in Generation
         /\ \A i \in DOMAIN datafile :
              i \in DOMAIN datafile' /\ datafile'[i] = datafile[i]
         /\ \A i \in DOMAIN datafile' : \A j \in DOMAIN datafile :
              i \in DOMAIN datafile \/ j < i
         /\ \A i \in DOMAIN datafile' : i \notin DOMAIN datafile =>
              \E k \in Flushed : datafile'[i] = DataOf(k, gc'.active)
         /\ \A k \in Flushed : \E i \in DOMAIN datafile' :
              /\ i \notin DOMAIN datafile
              /\ datafile'[i] = DataOf(k, gc'.active)
         /\ \A i, j \in DOMAIN datafile' :
              /\ i \notin DOMAIN datafile /\ j \notin DOMAIN datafile
              /\ datafile'[i].key = datafile'[j].key
              => i = j
<1> DEFINE f == FlushedRecords(gc'.active)
<1>1. gc'.active \in Generation
  BY DEF TypeOK, FlushInternal, MaybeGcSwap, Generation
<1>2. datafile \in Seq(DataRecord) /\ memtable \in [Key -> Entry]
  BY DEF TypeOK
<1>3. datafile' = datafile \o f
  BY DEF FlushInternal
<1>4. /\ f \in Seq(DataRecord)
      /\ \A i \in 1 .. Len(f) :
           \E k \in Flushed : f[i] = DataOf(k, gc'.active)
      /\ \A k \in Flushed : \E i \in 1 .. Len(f) :
           f[i] = DataOf(k, gc'.active)
      /\ \A i, j \in 1 .. Len(f) : f[i].key = f[j].key => i = j
  BY <1>1, <1>2, FlushedRecordsIs
<1> HIDE DEF f
<1>5. /\ datafile' \in Seq(DataRecord)
      /\ Len(datafile) \in Nat /\ Len(f) \in Nat
      /\ DOMAIN datafile = 1 .. Len(datafile)
      /\ DOMAIN datafile' = 1 .. Len(datafile) + Len(f)
      /\ \A i \in 1 .. Len(datafile) : datafile'[i] = datafile[i]
      /\ \A i \in 1 .. Len(f) : datafile'[Len(datafile) + i] = f[i]
  BY <1>2, <1>3, <1>4
<1>6. ASSUME NEW i \in DOMAIN datafile', i \notin DOMAIN datafile
      PROVE  /\ i - Len(datafile) \in 1 .. Len(f)
             /\ datafile'[i] = f[i - Len(datafile)]
  <2>1. i - Len(datafile) \in 1 .. Len(f)
        /\ i = Len(datafile) + (i - Len(datafile))
    BY <1>5, <1>6
  <2> QED
    BY <1>5, <2>1
<1>7. \A k \in Flushed : \E i \in DOMAIN datafile' :
        i \notin DOMAIN datafile /\ datafile'[i] = DataOf(k, gc'.active)
  <2> TAKE k \in Flushed
  <2>1. PICK i \in 1 .. Len(f) : f[i] = DataOf(k, gc'.active)
    BY <1>4
  <2>2. Len(datafile) + i \in DOMAIN datafile'
        /\ Len(datafile) + i \notin DOMAIN datafile
    BY <1>5
  <2> QED
    BY <1>5, <2>1, <2>2
<1>8. ASSUME NEW i \in DOMAIN datafile', NEW j \in DOMAIN datafile',
             i \notin DOMAIN datafile, j \notin DOMAIN datafile,
             datafile'[i].key = datafile'[j].key
      PROVE  i = j
  <2>1. /\ i - Len(datafile) \in 1 .. Len(f)
        /\ datafile'[i] = f[i - Len(datafile)]
    BY <1>6, <1>8
  <2>2. /\ j - Len(datafile) \in 1 .. Len(f)
        /\ datafile'[j] = f[j - Len(datafile)]
    BY <1>6, <1>8
  <2>3. i - Len(datafile) = j - Len(datafile)
    BY <1>4, <1>8, <2>1, <2>2
  <2>4. i \in Nat /\ j \in Nat
    BY <1>5
  <2> QED
    BY <1>5, <2>3, <2>4
<1>9. \A i \in DOMAIN datafile' : \A j \in DOMAIN datafile :
        i \in DOMAIN datafile \/ j < i
  BY <1>5
<1>10. \A i \in DOMAIN datafile' : i \notin DOMAIN datafile =>
         \E k \in Flushed : datafile'[i] = DataOf(k, gc'.active)
  BY <1>4, <1>6
<1>11. \A i \in DOMAIN datafile :
         i \in DOMAIN datafile' /\ datafile'[i] = datafile[i]
  BY <1>5
<1> QED
  BY <1>1, <1>5, <1>7, <1>8, <1>9, <1>10, <1>11

LEMMA OfAfterFlush ==
  ASSUME TypeOK, FlushInternal, NEW k \in Key
  PROVE  Of(k)' = Of(k) \cup (IF k \in Flushed THEN {memtable[k].lsn} ELSE {})
<1>1. \A l : l \in Of(k)' <=>
        \E i \in DOMAIN datafile' : datafile'[i].key = k /\ datafile'[i].lsn = l
  BY DEF Of, Lsns, Stored, Range
<1>2. ASSUME NEW i \in DOMAIN datafile', datafile'[i].key = k
      PROVE  \/ datafile'[i].lsn \in Of(k)
             \/ k \in Flushed /\ datafile'[i].lsn = memtable[k].lsn
  <2>1. CASE i \in DOMAIN datafile
    BY <1>2, <2>1, FileAfterFlush, OfIs
  <2>2. CASE i \notin DOMAIN datafile
    <3>1. PICK j \in Flushed : datafile'[i] = DataOf(j, gc'.active)
      BY <2>2, FileAfterFlush
    <3> QED
      BY <1>2, <3>1 DEF DataOf
  <2> QED
    BY <2>1, <2>2
<1>3. \A l \in Of(k) : l \in Of(k)'
  <2> TAKE l \in Of(k)
  <2>1. PICK i \in DOMAIN datafile : datafile[i].key = k /\ datafile[i].lsn = l
    BY OfIs
  <2>2. i \in DOMAIN datafile' /\ datafile'[i] = datafile[i]
    BY FileAfterFlush
  <2> QED
    BY <1>1, <2>1, <2>2
<1>4. k \in Flushed => memtable[k].lsn \in Of(k)'
  <2> HAVE k \in Flushed
  <2>1. PICK i \in DOMAIN datafile' : datafile'[i] = DataOf(k, gc'.active)
    BY FileAfterFlush
  <2> QED
    BY <1>1, <2>1 DEF DataOf
<1> QED
  BY <1>1, <1>2, <1>3, <1>4

(* Replaying the log: the newest record of a key above the superblock.     *)
LEMMA ReplayPendingIs ==
  ASSUME TypeOK, LogInv, NEW k \in Key
  PROVE  /\ ReplayPending[k] \in Entry
         /\ ReplayPending[k] = NoEntry =>
              \A l \in Lsns(wal, k) : ~(l > super.wal_lsn)
         /\ ReplayPending[k] # NoEntry =>
              /\ \E r \in wal : /\ r.key = k /\ r.lsn > super.wal_lsn
                                /\ ReplayPending[k] = [lsn |-> r.lsn,
                                                       del |-> r.del]
              /\ \A l \in Lsns(wal, k) : l <= ReplayPending[k].lsn
<1> DEFINE above == {r \in wal : r.lsn > super.wal_lsn}
           newest == CHOOSE r \in above : r.lsn = LastOf(Lsns(above, k))
<1>1. \A r \in wal : r \in Record /\ r.lsn \in Lsn /\ r.lsn \in Nat
  BY LsnIsNat DEF Record, TypeOK
<1>2. ReplayPending[k] = IF Lsns(above, k) = {} THEN NoEntry
                         ELSE [lsn |-> newest.lsn, del |-> newest.del]
  BY DEF ReplayPending
<1>3. super.wal_lsn \in Nat
  BY LsnIsNat DEF TypeOK
<1>4. \A l \in Lsns(wal, k) : l \in Nat /\
        (l > super.wal_lsn => l \in Lsns(above, k))
  <2> TAKE l \in Lsns(wal, k)
  <2>1. PICK r \in wal : r.key = k /\ r.lsn = l
    BY LsnsIs
  <2> QED
    BY <1>1, <2>1, LsnsIs
<1>5. CASE Lsns(above, k) = {}
  <2>1. ReplayPending[k] = NoEntry /\ NoEntry \in Entry
    BY <1>2, <1>5, LsnIsNat DEF NoEntry, Entry
  <2> QED
    BY <1>4, <1>5, <2>1
<1>6. CASE Lsns(above, k) # {}
  <2>1. \A l \in Lsns(above, k) : l \in Lsn /\ l \in Nat /\ l > super.wal_lsn
    BY <1>1, LsnsIs
  <2>2. /\ \A l \in Lsns(above, k) : l <= LastOf(Lsns(above, k))
        /\ LastOf(Lsns(above, k)) \in Lsns(above, k) \cup {0}
    BY <2>1, LastOfIsGreatest
  <2>3. LastOf(Lsns(above, k)) \in Lsns(above, k)
    BY <1>3, <1>6, <2>1, <2>2
  <2>4. PICK r \in above : r.key = k /\ r.lsn = LastOf(Lsns(above, k))
    BY <2>3, LsnsIs
  <2>5. newest \in above /\ newest.lsn = LastOf(Lsns(above, k))
    BY <2>4
  <2>6. newest = r
    BY <2>4, <2>5 DEF LogInv
  <2> HIDE DEF newest
  <2>7. ReplayPending[k] = [lsn |-> r.lsn, del |-> r.del]
    BY <1>2, <1>6, <2>6
  <2>8. r \in wal /\ r.lsn > super.wal_lsn /\ r \in Record
    BY <1>1, <2>4
  <2>9. ReplayPending[k] \in Entry /\ ReplayPending[k] # NoEntry
        /\ ReplayPending[k].lsn = r.lsn
    BY <1>1, <1>3, <2>7, <2>8 DEF Entry, NoEntry, Record
  <2>10. \A l \in Lsns(wal, k) : l <= r.lsn
    <3> TAKE l \in Lsns(wal, k)
    <3>1. CASE l > super.wal_lsn
      BY <1>4, <2>2, <2>4, <3>1
    <3>2. CASE ~(l > super.wal_lsn)
      <4>1. l \in Nat /\ r.lsn \in Nat /\ r.lsn > super.wal_lsn
        BY <1>1, <1>4, <2>8
      <4> QED
        BY <1>3, <3>2, <4>1
    <3> QED
      BY <3>1, <3>2
  <2> QED
    BY <2>4, <2>7, <2>8, <2>9, <2>10
<1> QED
  BY <1>5, <1>6

LEMMA CurrentLsnIs ==
  ASSUME TypeOK
  PROVE  /\ CurrentLsn \in Lsn /\ super.wal_lsn <= CurrentLsn
         /\ \A r \in wal : r.lsn <= CurrentLsn
<1> DEFINE S == {super.wal_lsn} \cup {r.lsn : r \in wal}
<1>1. S \in SUBSET Lsn
  BY DEF TypeOK, Record
<1>2. CurrentLsn = LastOf(S)
  BY DEF CurrentLsn
<1>3. super.wal_lsn \in S /\ \A r \in wal : r.lsn \in S
  OBVIOUS
<1> HIDE DEF S
<1> QED
  BY <1>1, <1>2, <1>3, LastOfIsGreatest

LEMMA NewestType ==
  ASSUME TypeOK
  PROVE  Newest(Stored) \in [Key -> Lsn]
<1>1. ASSUME NEW k \in Key PROVE Lsns(Stored, k) \in SUBSET Lsn
  <2>1. \A d \in Stored : d.lsn \in Lsn
    <3>1. \A i \in DOMAIN datafile : datafile[i] \in DataRecord
      BY DEF TypeOK
    <3> QED
      BY <3>1 DEF Stored, Range, DataRecord
  <2> QED
    BY <2>1, LsnsIs
<1>2. \A k \in Key : LastOf(Lsns(Stored, k)) \in Lsn
  BY <1>1, LastOfIsGreatest
<1> QED
  BY <1>2, LsnIsNat DEF Newest

LEMMA LoadDatafileType ==
  ASSUME TypeOK
  PROVE  LoadDatafile \in [Key -> Lsn]
<1>1. ASSUME NEW k \in Key
      PROVE  LiveAfter({i \in DOMAIN datafile :
                          /\ datafile[i].key = k
                          /\ GenerationVisible(datafile[i])}) \in Lsn
  BY LiveAfterIs DEF TypeOK
<1> QED
  BY <1>1 DEF LoadDatafile

LEMMA LoadChainIs ==
  ASSUME TypeOK, NEW k \in Key
  PROVE  /\ LoadChain(k) \in Chain
         /\ Cardinality(LoadChain(k).inline) <= InlineMax
         /\ Merged(LoadChain(k)) \subseteq vidx.saved[k] \cup vcsmeta[k]
<1> DEFINE c == Appended(NoChain, vidx.saved[k])
<1>1. /\ vidx.saved[k] \in SUBSET Lsn /\ vcsmeta[k] \in SUBSET Lsn
      /\ vidx.form \in {"whole", "cut", "empty"}
  BY DEF TypeOK
<1>2. NoChain \in Chain /\ Merged(NoChain) = {}
  BY DEF NoChain, Chain, Merged
<1>3. /\ c \in Chain /\ Cardinality(c.inline) <= InlineMax
      /\ Merged(c) = Merged(NoChain) \cup vidx.saved[k]
  BY <1>1, <1>2, AppendedIs
<1>4. LoadChain(k) = CASE vidx.form = "whole" -> [c EXCEPT !.overflow = vcsmeta[k]]
                       [] vidx.form = "cut" -> c
                       [] vidx.form = "empty" ->
                            [NoChain EXCEPT !.overflow = vcsmeta[k]]
  BY DEF LoadChain
<1> HIDE DEF c
<1>5. CASE vidx.form = "whole"
  <2>1. LoadChain(k) = [c EXCEPT !.overflow = vcsmeta[k]]
    BY <1>4, <1>5
  <2> QED
    BY <1>1, <1>2, <1>3, <2>1 DEF Chain, Merged
<1>6. CASE vidx.form = "cut"
  <2>1. LoadChain(k) = c
    BY <1>4, <1>6
  <2> QED
    BY <1>2, <1>3, <2>1
<1>7. CASE vidx.form = "empty"
  <2>1. LoadChain(k) = [inline |-> {}, overflow |-> vcsmeta[k]]
    BY <1>4, <1>7 DEF NoChain
  <2>2. Cardinality({}) <= InlineMax
    BY FS_EmptySet, ChainBoundsOK
  <2> QED
    BY <1>1, <2>1, <2>2 DEF Chain, Merged
<1> QED
  BY <1>1, <1>5, <1>6, <1>7

LEMMA FoldIs ==
  ASSUME TypeOK, NEW c \in Chain, NEW k \in Key
  PROVE  /\ FoldWalToVcs(c, k) \in Chain
         /\ Cardinality(FoldWalToVcs(c, k).inline) <= InlineMax
         /\ Merged(c) \subseteq Merged(FoldWalToVcs(c, k))
         /\ (\A l \in Lsns(wal, k) :
               l > super.wal_lsn => \E m \in Merged(c) : l <= m)
            => Merged(FoldWalToVcs(c, k)) = Merged(c)
         /\ Listed(c) => Listed(FoldWalToVcs(c, k))
<1> DEFINE S == {l \in Lsns(wal, k) : /\ l > super.wal_lsn
                                      /\ l > LastOf(Merged(c))}
<1>1. Lsns(wal, k) \in SUBSET Lsn
  BY LsnsIs DEF TypeOK, Record
<1>2. S \in SUBSET Lsn
  BY <1>1
<1>3. FoldWalToVcs(c, k) = Appended(c, S)
  BY DEF FoldWalToVcs
<1>4. ASSUME \A l \in Lsns(wal, k) :
               l > super.wal_lsn => \E m \in Merged(c) : l <= m,
             NEW l \in S
      PROVE  FALSE
  <2>1. PICK m \in Merged(c) : l <= m
    BY <1>4
  <2>2. Merged(c) \in SUBSET Lsn
    BY DEF Merged, Chain
  <2>3. m <= LastOf(Merged(c)) /\ LastOf(Merged(c)) \in Lsn
    BY <2>2, LastOfIsGreatest
  <2>4. l \in Nat /\ m \in Nat /\ LastOf(Merged(c)) \in Nat
    BY <1>2, <2>2, <2>3, LsnIsNat
  <2>5. l > LastOf(Merged(c))
    OBVIOUS
  <2> QED
    BY <2>1, <2>3, <2>4, <2>5
<1> HIDE DEF S
<1>5. /\ Appended(c, S) \in Chain /\ Merged(Appended(c, S)) = Merged(c) \cup S
      /\ Cardinality(Appended(c, S).inline) <= InlineMax
      /\ c.inline \cup S # {} => Listed(Appended(c, S))
  BY <1>2, AppendedIs
<1>6. Listed(c) => c.inline \cup S # {}
  BY DEF Listed
<1> QED
  BY <1>3, <1>4, <1>5, <1>6
-----------------------------------------------------------------------------
(* Part 1: types, the order of log and data file, the flashbacks. *)

LEMMA InitIInv == Init => IInv
<1> SUFFICES ASSUME Init PROVE IInv
  OBVIOUS
<1>1. PICK k \in Key :
        /\ wal = {}
        /\ datafile = <<[lsn |-> 1, key |-> k, del |-> FALSE, gen |-> 0]>>
        /\ gc = [active |-> 0, reclaim |-> NoReclaim]
        /\ super = [wal_lsn |-> 1, data_lsn |-> 1,
                    root |-> [NoKeys EXCEPT ![k] = 1]]
        /\ vidx = [form |-> "whole", saved |-> [NoLsns EXCEPT ![k] = {1}]]
        /\ vcsmeta = NoLsns
        /\ tlog = <<>>
        /\ memtable = EmptyTable
        /\ committed = super.root /\ btree = super.root
        /\ chains = [j \in Key |-> LoadChain(j)]
        /\ lsn_index = {1} /\ stable_lsn = 1
        /\ snapshot_pin_count = 0 /\ pinned_snapshot_lsn = 0
        /\ reader = [r \in Reader |-> NoSnapshot]
        /\ phase = "idle" /\ crashes = 0 /\ unloaded = {}
  BY Zenon DEF Init
<1>2. 0 \in Lsn /\ 1 \in Lsn
  BY ChainBoundsOK DEF Lsn
<1>3. datafile \in Seq(DataRecord)
  BY <1>1, <1>2 DEF DataRecord, Generation
<1>4. super \in [wal_lsn : Lsn, data_lsn : Lsn, root : [Key -> Lsn]]
  BY <1>1, <1>2 DEF NoKeys
<1>5. /\ vidx \in [form : {"whole", "cut", "empty"}, saved : [Key -> SUBSET Lsn]]
      /\ vcsmeta \in [Key -> SUBSET Lsn]
  BY <1>1, <1>2 DEF NoLsns
<1>6. /\ chains \in [Key -> Chain]
      /\ \A j \in Key : Cardinality(chains[j].inline) <= InlineMax
  <2>1. ASSUME NEW j \in Key
        PROVE  LoadChain(j) \in Chain /\ Cardinality(LoadChain(j).inline) <= InlineMax
    <3>1. LoadChain(j) = [Appended(NoChain, vidx.saved[j]) EXCEPT
                            !.overflow = vcsmeta[j]]
      BY <1>1 DEF LoadChain
    <3>2. NoChain \in Chain /\ vidx.saved[j] \in SUBSET Lsn
          /\ vcsmeta[j] \in SUBSET Lsn
      BY <1>5 DEF NoChain, Chain
    <3>3. /\ Appended(NoChain, vidx.saved[j]) \in Chain
          /\ Cardinality(Appended(NoChain, vidx.saved[j]).inline) <= InlineMax
      BY <3>2, AppendedIs
    <3> QED
      BY <3>1, <3>2, <3>3 DEF Chain
  <2> QED
    BY <1>1, <2>1
<1>7. /\ gc \in [active : Generation, reclaim : Generation \cup {NoReclaim}]
      /\ gc.active # gc.reclaim
  BY <1>1 DEF Generation, NoReclaim
<1>8. /\ memtable \in [Key -> Entry] /\ lsn_index \subseteq Lsn
      /\ stable_lsn \in Lsn /\ pinned_snapshot_lsn \in Lsn
      /\ committed \in [Key -> Lsn] /\ btree \in [Key -> Lsn]
  BY <1>1, <1>2, <1>4 DEF EmptyTable, NoEntry, Entry
<1>9. reader \in [Reader ->
        [pc : {"none", "captured", "counted", "lowers", "pinned", "last"},
         lsn : Lsn]]
  BY <1>1, <1>2 DEF NoSnapshot
<1>10. CountInv
  <2>1. {r \in Reader : Counting(r)} = {}
    BY <1>1 DEF Counting, NoSnapshot
  <2> QED
    BY <1>1, <2>1, FS_EmptySet DEF CountInv
<1>11. snapshot_pin_count \in 0 .. Cardinality(Reader)
  <2>1. Cardinality(Reader) \in Nat
    BY ChainBoundsOK, FS_CardinalityType
  <2> QED
    BY <1>1, <2>1
<1>12. TypeOK
  BY <1>1, <1>3, <1>4, <1>5, <1>6, <1>7, <1>8, <1>9, <1>11 DEF TypeOK, Chain
<1>13. LogInv
  BY <1>1 DEF LogInv
<1>14. TableInv
  BY <1>1 DEF TableInv, EmptyTable
<1>15. FileInv
  BY <1>1 DEF FileInv
<1>16. TLogInv
  BY <1>1 DEF TLogInv
<1> QED
  BY <1>10, <1>12, <1>13, <1>14, <1>15, <1>16 DEF IInv

(* Counting the readers that hold a count.                                 *)
LEMMA CountIs ==
  ASSUME NEW S \in SUBSET Reader
  PROVE  /\ IsFiniteSet(S)
         /\ Cardinality(S) \in 0 .. Cardinality(Reader)
<1>1. /\ IsFiniteSet(S) /\ Cardinality(S) <= Cardinality(Reader)
      /\ Cardinality(S) \in Nat /\ Cardinality(Reader) \in Nat
  BY ChainBoundsOK, FS_Subset, FS_CardinalityType
<1> QED
  BY <1>1

(* Most steps leave log, data file and memtable alone.                     *)
LEMMA RecordsUnchanged ==
  ASSUME IInv, UNCHANGED <<wal, datafile, super, tlog, memtable, phase>>
  PROVE  (LogInv /\ TableInv /\ FileInv /\ TLogInv)'
<1>1. /\ wal' = wal /\ datafile' = datafile /\ super' = super /\ tlog' = tlog
      /\ memtable' = memtable /\ phase' = phase
  OBVIOUS
<1>2. LogInv'
  BY <1>1 DEF IInv, LogInv
<1>3. TableInv'
  BY <1>1 DEF IInv, TableInv, RecordOf, EmptyTable, Lsns
<1>4. FileInv'
  BY <1>1 DEF IInv, FileInv
<1>5. TLogInv'
  BY <1>1 DEF IInv, TLogInv, LoadAsOfCommitted, LiveAfter
<1> QED
  BY <1>2, <1>3, <1>4, <1>5

(* What the steps of the readers do to the types and the count.            *)
PinStep(r) ==
  \/ Capture(r) \/ PinCount(r) \/ PinRead(r) \/ PinWrite(r)
  \/ ReleaseCount(r) \/ ReleaseReset(r)

LEMMA PinsIInv ==
  ASSUME IInv, NEW r \in Reader, PinStep(r)
  PROVE  IInv'
<1> DEFINE C == {o \in Reader : Counting(o)}
<1>1. TypeOK /\ CountInv
  BY DEF IInv
<1>2. UNCHANGED <<wal, datafile, gc, super, vidx, vcsmeta, tlog, memory, phase,
                  crashes, unloaded>>
  BY DEF PinStep, Capture, PinCount, PinRead, PinWrite, ReleaseCount,
         ReleaseReset, PinsOnly
<1>3. /\ snapshot_pin_count = Cardinality(C) /\ IsFiniteSet(C)
      /\ C' \in SUBSET Reader /\ Cardinality(C) \in Nat
  BY <1>1, CountIs DEF CountInv
<1>4. /\ reader[r].pc \in {"none", "captured", "counted", "lowers", "pinned", "last"}
      /\ reader[r].lsn \in Lsn /\ stable_lsn \in Lsn /\ 0 \in Lsn
      /\ pinned_snapshot_lsn \in Lsn
  BY <1>1, LsnIsNat DEF TypeOK
<1>5. ASSUME NEW pc \in {"none", "captured", "counted", "lowers", "pinned", "last"},
             NEW l \in Lsn,
             reader' = [reader EXCEPT ![r] = [pc |-> pc, lsn |-> l]]
      PROVE  /\ reader' \in [Reader ->
                  [pc : {"none", "captured", "counted", "lowers", "pinned", "last"},
                   lsn : Lsn]]
             /\ C' = IF pc \in {"counted", "lowers", "pinned"} THEN C \cup {r}
                                                              ELSE C \ {r}
  <2>1. reader \in [Reader ->
          [pc : {"none", "captured", "counted", "lowers", "pinned", "last"},
           lsn : Lsn]]
    BY <1>1 DEF TypeOK
  <2>2. reader' \in [Reader ->
          [pc : {"none", "captured", "counted", "lowers", "pinned", "last"},
           lsn : Lsn]]
    BY <1>5, <2>1
  <2>3. reader'[r].pc = pc /\ \A o \in Reader : o # r => reader'[o] = reader[o]
    BY <1>5, <2>1
  <2> QED
    BY <2>2, <2>3 DEF Counting
<1>6. r \in C <=> reader[r].pc \in {"counted", "lowers", "pinned"}
  BY DEF Counting
<1> HIDE DEF C
<1>7. /\ IsFiniteSet(C \cup {r}) /\ IsFiniteSet(C \ {r})
      /\ Cardinality(C \cup {r})
           = IF r \in C THEN Cardinality(C) ELSE Cardinality(C) + 1
      /\ Cardinality(C \ {r})
           = IF r \in C THEN Cardinality(C) - 1 ELSE Cardinality(C)
  BY <1>3, FS_AddElement, FS_RemoveElement
<1> DEFINE ReaderOK ==
      /\ reader' \in [Reader ->
           [pc : {"none", "captured", "counted", "lowers", "pinned", "last"},
            lsn : Lsn]]
      /\ snapshot_pin_count' = Cardinality(C')
      /\ pinned_snapshot_lsn' \in Lsn
<1>8. ASSUME NEW pc \in {"none", "captured", "counted", "lowers", "pinned", "last"},
             reader' = [reader EXCEPT ![r].pc = pc]
      PROVE  reader' = [reader EXCEPT ![r] = [pc |-> pc, lsn |-> reader[r].lsn]]
  <2>1. reader[r] \in
          [pc : {"none", "captured", "counted", "lowers", "pinned", "last"},
           lsn : Lsn]
    BY <1>1 DEF TypeOK
  <2>2. [reader[r] EXCEPT !.pc = pc] = [pc |-> pc, lsn |-> reader[r].lsn]
    BY <2>1
  <2>3. reader' = [reader EXCEPT ![r] = [reader[r] EXCEPT !.pc = pc]]
    BY <1>8
  <2> QED
    BY <2>2, <2>3
<1>9. ASSUME Capture(r) PROVE ReaderOK
  <2>1. /\ reader' = [reader EXCEPT ![r] = [pc |-> "captured", lsn |-> stable_lsn]]
        /\ reader[r].pc = "none"
        /\ snapshot_pin_count' = snapshot_pin_count
        /\ pinned_snapshot_lsn' = pinned_snapshot_lsn
    BY <1>9 DEF Capture
  <2>2. C' = C \ {r} /\ r \notin C
    BY <1>4, <1>5, <1>6, <2>1
  <2> QED
    BY <1>3, <1>4, <1>5, <1>7, <2>1, <2>2
<1>10. ASSUME PinCount(r) PROVE ReaderOK
  <2>1. /\ reader' = [reader EXCEPT ![r].pc = "counted"]
        /\ reader[r].pc = "captured"
        /\ snapshot_pin_count' = snapshot_pin_count + 1
        /\ pinned_snapshot_lsn' = pinned_snapshot_lsn
    BY <1>10 DEF PinCount, Goto
  <2>2. reader' = [reader EXCEPT ![r] = [pc |-> "counted", lsn |-> reader[r].lsn]]
    BY <1>8, <2>1
  <2>3. C' = C \cup {r} /\ r \notin C
    BY <1>4, <1>5, <1>6, <2>1, <2>2
  <2> QED
    BY <1>3, <1>4, <1>5, <1>7, <2>1, <2>2, <2>3
<1>11. ASSUME PinRead(r) PROVE ReaderOK
  <2>1. /\ \E pc \in {"lowers", "pinned"} : reader' = [reader EXCEPT ![r].pc = pc]
        /\ reader[r].pc = "counted"
        /\ snapshot_pin_count' = snapshot_pin_count
        /\ pinned_snapshot_lsn' = pinned_snapshot_lsn
    BY <1>11 DEF PinRead, Goto
  <2>2. PICK pc \in {"lowers", "pinned"} : reader' = [reader EXCEPT ![r].pc = pc]
    BY <2>1
  <2>3. reader' = [reader EXCEPT ![r] = [pc |-> pc, lsn |-> reader[r].lsn]]
    BY <1>8, <2>2
  <2>4. C' = C \cup {r} /\ r \in C
    BY <1>4, <1>5, <1>6, <2>1, <2>3
  <2> QED
    BY <1>3, <1>4, <1>5, <1>7, <2>1, <2>3, <2>4
<1>12. ASSUME PinWrite(r) PROVE ReaderOK
  <2>1. /\ reader' = [reader EXCEPT ![r].pc = "pinned"]
        /\ reader[r].pc = "lowers"
        /\ snapshot_pin_count' = snapshot_pin_count
        /\ pinned_snapshot_lsn' = reader[r].lsn
    BY <1>12 DEF PinWrite, Goto
  <2>2. reader' = [reader EXCEPT ![r] = [pc |-> "pinned", lsn |-> reader[r].lsn]]
    BY <1>8, <2>1
  <2>3. C' = C \cup {r} /\ r \in C
    BY <1>4, <1>5, <1>6, <2>1, <2>2
  <2> QED
    BY <1>3, <1>4, <1>5, <1>7, <2>1, <2>2, <2>3
<1>13. ASSUME ReleaseCount(r) PROVE ReaderOK
  <2>1. /\ reader' = [reader EXCEPT ![r] =
             IF snapshot_pin_count = 1 THEN [pc |-> "last", lsn |-> 0]
                                       ELSE NoSnapshot]
        /\ reader[r].pc = "pinned"
        /\ snapshot_pin_count' = snapshot_pin_count - 1
        /\ pinned_snapshot_lsn' = pinned_snapshot_lsn
    BY <1>13 DEF ReleaseCount
  <2>2. \E pc \in {"last", "none"} :
          reader' = [reader EXCEPT ![r] = [pc |-> pc, lsn |-> 0]]
    BY <2>1 DEF NoSnapshot
  <2>3. C' = C \ {r} /\ r \in C
    BY <1>4, <1>5, <1>6, <2>1, <2>2
  <2>4. ReaderOK
    BY <1>3, <1>4, <1>5, <1>7, <2>1, <2>2, <2>3
  <2> QED
    BY <2>4
<1>14. ASSUME ReleaseReset(r) PROVE ReaderOK
  <2>1. /\ reader' = [reader EXCEPT ![r] = [pc |-> "none", lsn |-> 0]]
        /\ reader[r].pc = "last"
        /\ snapshot_pin_count' = snapshot_pin_count
        /\ pinned_snapshot_lsn' = 0
    BY <1>14 DEF ReleaseReset, NoSnapshot
  <2>2. C' = C \ {r} /\ r \notin C
    BY <1>4, <1>5, <1>6, <2>1
  <2> QED
    BY <1>3, <1>4, <1>5, <1>7, <2>1, <2>2
<1>15. ReaderOK
  BY <1>9, <1>10, <1>11, <1>12, <1>13, <1>14 DEF PinStep
<1>16. snapshot_pin_count' \in 0 .. Cardinality(Reader)
  BY <1>3, <1>15, CountIs
<1>17. TypeOK'
  BY <1>1, <1>2, <1>15, <1>16 DEF TypeOK, memory
<1>18. CountInv'
  BY <1>15 DEF CountInv, C
<1>19. (LogInv /\ TableInv /\ FileInv /\ TLogInv)'
  <2>1. UNCHANGED <<wal, datafile, super, tlog, memtable, phase>>
    BY <1>2 DEF memory
  <2> QED
    BY <2>1, RecordsUnchanged
<1> QED
  BY <1>17, <1>18, <1>19 DEF IInv

LEMMA WriteIInv ==
  ASSUME IInv, NEW k \in Key, NEW del \in BOOLEAN, Write(k, del)
  PROVE  IInv'
<1> DEFINE lsn == CurrentLsn + 1
           new == [lsn |-> lsn, key |-> k, del |-> del]
           e == [lsn |-> lsn, del |-> del]
<1>1. /\ TypeOK /\ LogInv /\ TableInv /\ FileInv /\ TLogInv /\ CountInv
  BY DEF IInv
<1>2. /\ phase = "idle" /\ lsn <= MaxLsn /\ wal' = wal \cup {new}
      /\ memtable' = [memtable EXCEPT ![k] = e] /\ stable_lsn' = lsn
      /\ UNCHANGED <<datafile, gc, super, vidx, vcsmeta, tlog, committed, btree,
                     chains, lsn_index, pins, phase, crashes, unloaded>>
  BY DEF Write
<1>3. /\ lsn \in Lsn /\ lsn \in Nat
      /\ super.wal_lsn \in Nat /\ super.wal_lsn < lsn
      /\ \A r \in wal : r.lsn \in Nat /\ r.lsn < lsn
  <2>1. CurrentLsn \in Nat /\ CurrentLsn \in Lsn /\ super.wal_lsn \in Nat
        /\ \A r \in wal : r.lsn \in Nat
    BY <1>1, CurrentLsnIs, LsnIsNat DEF TypeOK, Record
  <2>2. super.wal_lsn <= CurrentLsn /\ \A r \in wal : r.lsn <= CurrentLsn
    BY <1>1, CurrentLsnIs
  <2>3. lsn \in Lsn
    BY <1>2, <2>1, ChainBoundsOK DEF Lsn
  <2> QED
    BY <2>1, <2>2, <2>3
<1> HIDE DEF lsn
<1>4. new \in Record /\ e \in Entry /\ e # NoEntry
  <2>1. lsn # 0
    BY <1>3
  <2> QED
    BY <1>3, <2>1 DEF Record, Entry, NoEntry
<1>5. TypeOK'
  <2>1. wal' \subseteq Record /\ stable_lsn' \in Lsn
        /\ memtable' \in [Key -> Entry]
    BY <1>1, <1>2, <1>3, <1>4 DEF TypeOK
  <2> QED
    BY <1>1, <1>2, <2>1 DEF TypeOK, pins
<1>6. LogInv'
  <2>1. \A r, s \in wal' : r.lsn = s.lsn => r = s
    <3>1. \A r \in wal : r.lsn \in Nat
      BY <1>1, LsnIsNat DEF TypeOK, Record
    <3>2. \A r \in wal : r.lsn # lsn
      BY <1>3, <3>1
    <3> QED
      BY <1>1, <1>2, <3>2 DEF LogInv
  <2> QED
    BY <1>1, <1>2, <2>1 DEF LogInv
<1>7. TableInv'
  <2>1. ASSUME NEW j \in Key, memtable'[j] # NoEntry
        PROVE  /\ RecordOf(j)' \in wal' /\ memtable'[j].lsn > super'.wal_lsn
               /\ \A l \in Lsns(wal', j) : l <= memtable'[j].lsn
    <3>1. CASE j = k
      <4>1. memtable'[j] = e
        BY <1>1, <1>2, <3>1 DEF TypeOK
      <4>2. RecordOf(j)' = new
        BY <3>1, <4>1 DEF RecordOf
      <4>3. \A r \in wal' : r.lsn <= lsn
        <5>1. \A r \in wal : r.lsn <= lsn
          BY <1>3
        <5>2. new.lsn <= lsn
          BY <1>3
        <5> QED
          BY <1>2, <5>1, <5>2
      <4>4. super'.wal_lsn \in Nat
        BY <1>1, <1>2, LsnIsNat DEF TypeOK
      <4> QED
        BY <1>2, <1>3, <4>1, <4>2, <4>3, <4>4, LsnsIs
    <3>2. CASE j # k
      <4>1. memtable'[j] = memtable[j]
        BY <1>2, <3>2
      <4>2. RecordOf(j)' = RecordOf(j)
        BY <4>1 DEF RecordOf
      <4>3. \A l \in Lsns(wal', j) : l \in Lsns(wal, j)
        BY <1>2, <3>2, LsnsIs
      <4> QED
        BY <1>1, <1>2, <2>1, <4>1, <4>2, <4>3 DEF TableInv
    <3> QED
      BY <3>1, <3>2
  <2>2. phase' = "idle"
    BY <1>2
  <2>3. \A j \in Key : Lsns(wal, j)' = Lsns(wal', j)
    BY DEF Lsns
  <2> QED
    BY <2>1, <2>2, <2>3 DEF TableInv
<1>8. FileInv' /\ TLogInv'
  <2>1. datafile' = datafile /\ tlog' = tlog
    BY <1>2
  <2>2. FileInv'
    BY <1>1, <2>1 DEF FileInv
  <2>3. TLogInv'
    BY <1>1, <2>1 DEF TLogInv, LoadAsOfCommitted, LiveAfter
  <2> QED
    BY <2>2, <2>3
<1>9. CountInv'
  BY <1>1, <1>2 DEF CountInv, Counting, pins
<1> QED
  BY <1>5, <1>6, <1>7, <1>8, <1>9 DEF IInv

(* A key has nothing stored that is newer than what the memtable holds.    *)
LEMMA MemtableIsNewest ==
  ASSUME IInv, NEW k \in Key, memtable[k] # NoEntry,
         NEW i \in DOMAIN datafile, datafile[i].key = k
  PROVE  /\ datafile[i].lsn <= memtable[k].lsn
         /\ datafile[i].lsn = memtable[k].lsn
              => datafile[i].del = memtable[k].del
<1>1. /\ RecordOf(k) \in wal /\ memtable[k].lsn > super.wal_lsn
      /\ \A l \in Lsns(wal, k) : l <= memtable[k].lsn
  BY DEF IInv, TableInv
<1>2. datafile[i].lsn \in Nat /\ memtable[k].lsn \in Nat
      /\ super.wal_lsn \in Nat
  <2>1. datafile[i] \in DataRecord /\ memtable[k] \in Entry
        /\ super.wal_lsn \in Lsn
    BY DEF IInv, TypeOK
  <2> QED
    BY <2>1, LsnIsNat DEF DataRecord, Entry
<1>3. CASE datafile[i].lsn <= super.wal_lsn
  BY <1>1, <1>2, <1>3
<1>4. CASE ~(datafile[i].lsn <= super.wal_lsn)
  <2>1. PICK r \in wal : /\ r.lsn = datafile[i].lsn /\ r.key = k
                         /\ r.del = datafile[i].del
    BY <1>4 DEF IInv, LogInv
  <2>2. datafile[i].lsn <= memtable[k].lsn
    BY <1>1, <2>1, LsnsIs
  <2>3. ASSUME datafile[i].lsn = memtable[k].lsn
        PROVE  datafile[i].del = memtable[k].del
    <3>1. r = RecordOf(k)
      BY <1>1, <2>1, <2>3 DEF IInv, LogInv, RecordOf
    <3> QED
      BY <2>1, <3>1 DEF RecordOf
  <2> QED
    BY <2>2, <2>3
<1> QED
  BY <1>3, <1>4

(* The chains after a flush, before and after the log is folded in.        *)
LEMMA ChainsFlushedIs ==
  ASSUME TypeOK, NEW k \in Key
  PROVE  /\ ChainsFlushed[k] \in Chain
         /\ Cardinality(ChainsFlushed[k].inline) <= InlineMax
         /\ Merged(ChainsFlushed[k])
              = Nodes(k) \cup (IF k \in Flushed THEN {memtable[k].lsn} ELSE {})
         /\ k \in Flushed \/ Listed(chains[k]) => Listed(ChainsFlushed[k])
<1>1. chains[k] \in Chain /\ Cardinality(chains[k].inline) <= InlineMax
  BY DEF TypeOK, Chain
<1>2. {memtable[k].lsn} \in SUBSET Lsn
  BY DEF TypeOK, Entry
<1>3. ChainsFlushed[k] = IF k \in Flushed
                         THEN Appended(chains[k], {memtable[k].lsn})
                         ELSE chains[k]
  BY DEF ChainsFlushed
<1>4. CASE k \in Flushed
  <2>1. /\ Appended(chains[k], {memtable[k].lsn}) \in Chain
        /\ Merged(Appended(chains[k], {memtable[k].lsn}))
             = Merged(chains[k]) \cup {memtable[k].lsn}
        /\ Cardinality(Appended(chains[k], {memtable[k].lsn}).inline) <= InlineMax
        /\ Listed(Appended(chains[k], {memtable[k].lsn}))
    BY <1>1, <1>2, AppendedIs
  <2> QED
    BY <1>3, <1>4, <2>1 DEF Nodes
<1>5. CASE k \notin Flushed
  BY <1>1, <1>3, <1>5 DEF Nodes
<1> QED
  BY <1>4, <1>5

(* The two steps that flush.                                               *)
FlushStep == Flush \/ CheckpointFlush

LEMMA FlushStepIs ==
  ASSUME TypeOK, FlushStep
  PROVE  /\ FlushInternal /\ phase = "idle" /\ phase' \in {"idle", "tlog"}
         /\ tlog' = tlog
         /\ chains' \in [Key -> Chain]
         /\ \A k \in Key : /\ Cardinality(chains'[k].inline) <= InlineMax
                           /\ Merged(ChainsFlushed[k]) \subseteq Merged(chains'[k])
                           /\ k \in Flushed \/ Listed(chains[k])
                                => Listed(chains'[k])
<1>1. \A k \in Key : /\ ChainsFlushed[k] \in Chain
                     /\ Cardinality(ChainsFlushed[k].inline) <= InlineMax
                     /\ k \in Flushed \/ Listed(chains[k])
                          => Listed(ChainsFlushed[k])
  BY ChainsFlushedIs
<1>2. CASE Flush
  <2>1. chains' = ChainsFlushed
    BY <1>2 DEF Flush
  <2>2. chains' \in [Key -> Chain]
    BY <1>1, <2>1 DEF ChainsFlushed
  <2> QED
    BY <1>1, <1>2, <2>1, <2>2 DEF Flush
<1>3. CASE CheckpointFlush
  <2>1. chains' = [k \in Key |-> FoldWalToVcs(ChainsFlushed[k], k)]
    BY <1>3 DEF CheckpointFlush
  <2>2. ASSUME NEW k \in Key
        PROVE  /\ chains'[k] = FoldWalToVcs(ChainsFlushed[k], k)
               /\ FoldWalToVcs(ChainsFlushed[k], k) \in Chain
               /\ Cardinality(FoldWalToVcs(ChainsFlushed[k], k).inline) <= InlineMax
               /\ Merged(ChainsFlushed[k])
                    \subseteq Merged(FoldWalToVcs(ChainsFlushed[k], k))
               /\ Listed(ChainsFlushed[k])
                    => Listed(FoldWalToVcs(ChainsFlushed[k], k))
    BY <1>1, <2>1, FoldIs
  <2>3. chains' \in [Key -> Chain]
    BY <2>1, <2>2
  <2> QED
    BY <1>1, <1>3, <2>2, <2>3 DEF CheckpointFlush
<1> QED
  BY <1>2, <1>3 DEF FlushStep

LEMMA FlushIInv ==
  ASSUME IInv, FlushStep
  PROVE  IInv'
<1>1. /\ TypeOK /\ LogInv /\ TableInv /\ FileInv /\ TLogInv /\ CountInv
  BY DEF IInv
<1>2. /\ FlushInternal /\ phase = "idle" /\ phase' \in {"idle", "tlog"}
      /\ tlog' = tlog /\ chains' \in [Key -> Chain]
      /\ \A k \in Key : Cardinality(chains'[k].inline) <= InlineMax
  BY <1>1, FlushStepIs
<1>3. /\ committed' = Applied(committed) /\ btree' = Applied(btree)
      /\ gc' = MaybeGcSwap /\ memtable' = EmptyTable
      /\ lsn_index' = lsn_index \cup {memtable[k].lsn : k \in Flushed}
      /\ stable_lsn' = Max({stable_lsn} \cup {memtable[k].lsn : k \in Flushed})
      /\ UNCHANGED <<wal, super, vidx, vcsmeta, pins, crashes, unloaded>>
  BY <1>2 DEF FlushInternal
<1>4. \A k \in Key : memtable[k] \in Entry /\ memtable[k].lsn \in Lsn
  BY <1>1 DEF TypeOK, Entry
<1> DEFINE news == {memtable[k].lsn : k \in Flushed}
<1>5. news \in SUBSET Lsn
  BY <1>4, FlushedIs
<1>6. TypeOK'
  <2>1. datafile' \in Seq(DataRecord)
    BY <1>1, <1>2, FileAfterFlush
  <2>2. /\ gc' \in [active : Generation, reclaim : Generation \cup {NoReclaim}]
        /\ gc'.active # gc'.reclaim
    BY <1>1, <1>3 DEF TypeOK, MaybeGcSwap, Generation, NoReclaim
  <2>3. committed' \in [Key -> Lsn] /\ btree' \in [Key -> Lsn]
    BY <1>1, <1>3, <1>4, LsnIsNat DEF TypeOK, Applied
  <2>4. lsn_index' \subseteq Lsn
    BY <1>1, <1>3, <1>5 DEF TypeOK
  <2>5. stable_lsn' \in Lsn
    <3> DEFINE S == {stable_lsn} \cup news
    <3>1. S \in SUBSET Lsn /\ S # {}
      BY <1>1, <1>5 DEF TypeOK
    <3>2. S \in SUBSET Nat /\ MaxLsn \in Nat /\ \A n \in S : n <= MaxLsn
      BY <3>1, LsnIsNat, ChainBoundsOK
    <3>3. stable_lsn' = Max(S)
      BY <1>3
    <3> HIDE DEF S
    <3> QED
      BY <3>1, <3>2, <3>3, MaxIsGreatest
  <2>6. memtable' \in [Key -> Entry]
    BY <1>3, LsnIsNat DEF EmptyTable, NoEntry, Entry
  <2> QED
    BY <1>1, <1>2, <1>3, <2>1, <2>2, <2>3, <2>4, <2>5, <2>6
    DEF TypeOK, Chain, pins
<1>7. LogInv'
  <2>1. ASSUME NEW i \in DOMAIN datafile'
        PROVE  \/ datafile'[i].lsn <= super.wal_lsn
               \/ \E r \in wal : /\ r.lsn = datafile'[i].lsn
                                 /\ r.key = datafile'[i].key
                                 /\ r.del = datafile'[i].del
    <3>1. CASE i \in DOMAIN datafile
      <4>1. datafile'[i] = datafile[i]
        BY <1>1, <1>2, <3>1, FileAfterFlush
      <4> QED
        BY <1>1, <3>1, <4>1 DEF LogInv
    <3>2. CASE i \notin DOMAIN datafile
      <4>1. PICK k \in Flushed : datafile'[i] = DataOf(k, gc'.active)
        BY <1>1, <1>2, <3>2, FileAfterFlush
      <4>2. RecordOf(k) \in wal
        BY <1>1, FlushedIs DEF TableInv
      <4> QED
        BY <4>1, <4>2 DEF RecordOf, DataOf
    <3> QED
      BY <3>1, <3>2
  <2> QED
    BY <1>1, <1>3, <2>1 DEF LogInv
<1>8. TableInv'
  BY <1>2, <1>3 DEF TableInv, EmptyTable
<1>9. FileInv'
  <2> SUFFICES ASSUME NEW i \in DOMAIN datafile', NEW j \in DOMAIN datafile',
                      i < j, datafile'[i].key = datafile'[j].key
               PROVE  /\ datafile'[i].lsn <= datafile'[j].lsn
                      /\ datafile'[i].lsn = datafile'[j].lsn
                           => datafile'[i].del = datafile'[j].del
    BY DEF FileInv
  <2>1. i \in Nat /\ j \in Nat
    <3>1. datafile' \in Seq(DataRecord)
      BY <1>1, <1>2, FileAfterFlush
    <3> QED
      BY <3>1
  <2>2. CASE j \in DOMAIN datafile
    <3>1. i \in DOMAIN datafile
      BY <1>1, <1>2, <2>1, <2>2, FileAfterFlush
    <3>2. datafile'[i] = datafile[i] /\ datafile'[j] = datafile[j]
      BY <1>1, <1>2, <2>2, <3>1, FileAfterFlush
    <3> QED
      BY <1>1, <2>2, <3>1, <3>2 DEF FileInv
  <2>3. CASE j \notin DOMAIN datafile
    <3>1. PICK k \in Flushed : datafile'[j] = DataOf(k, gc'.active)
      BY <1>1, <1>2, <2>3, FileAfterFlush
    <3>2. i \in DOMAIN datafile
      BY <1>1, <1>2, <2>1, <2>3, FileAfterFlush
    <3>3. datafile'[i] = datafile[i]
      BY <1>1, <1>2, <3>2, FileAfterFlush
    <3>4. k \in Key /\ memtable[k] # NoEntry /\ datafile[i].key = k
      BY <3>1, <3>3, FlushedIs DEF DataOf
    <3> QED
      BY <3>1, <3>2, <3>3, <3>4, MemtableIsNewest DEF DataOf
  <2> QED
    BY <2>2, <2>3
<1>10. TLogInv'
  <2>1. ASSUME NEW i \in DOMAIN tlog
        PROVE  /\ tlog[i].size <= Len(datafile')
               /\ LoadAsOfCommitted(tlog[i])' = tlog[i].state
    <3>1. /\ tlog[i].size \in Nat /\ tlog[i].size <= Len(datafile)
          /\ LoadAsOfCommitted(tlog[i]) = tlog[i].state
      <4> DEFINE T == [size : Nat, state : [Key -> Lsn]]
      <4>1. tlog \in Seq(T)
        BY <1>1 DEF TypeOK
      <4>2. tlog[i] \in T
        <5> HIDE DEF T
        <5> QED
          BY <4>1
      <4> QED
        BY <1>1, <4>2 DEF TLogInv
    <3>2. /\ datafile \in Seq(DataRecord) /\ datafile' \in Seq(DataRecord)
      BY <1>1, <1>2, FileAfterFlush DEF TypeOK
    <3>3. \A j \in 1 .. tlog[i].size : /\ j \in DOMAIN datafile
                                       /\ j \in DOMAIN datafile'
                                       /\ datafile'[j] = datafile[j]
      <4>1. \A j \in 1 .. tlog[i].size : j \in DOMAIN datafile
        BY <3>1, <3>2
      <4> QED
        BY <1>1, <1>2, <4>1, FileAfterFlush
    <3>4. tlog[i].size <= Len(datafile')
      <4>1. CASE tlog[i].size = 0
        BY <3>2, <4>1
      <4>2. CASE tlog[i].size # 0
        <5>1. tlog[i].size \in DOMAIN datafile'
          BY <3>1, <3>3, <4>2
        <5> QED
          BY <3>2, <5>1
      <4> QED
        BY <4>1, <4>2
    <3>5. ASSUME NEW k \in Key
          PROVE  LoadAsOfCommitted(tlog[i])'[k] = LoadAsOfCommitted(tlog[i])[k]
      <4> DEFINE at == {j \in 1 .. tlog[i].size : datafile[j].key = k}
                 at_ == {j \in 1 .. tlog[i].size : datafile'[j].key = k}
      <4>1. at_ = at
        BY <3>3
      <4>2. at # {} => Max(at) \in at
        <5>1. at \in SUBSET DOMAIN datafile
          BY <3>3
        <5> QED
          BY <3>2, <5>1, LiveAfterIs
      <4>3. at # {} => datafile'[Max(at)] = datafile[Max(at)]
        BY <3>3, <4>2
      <4>4. LoadAsOfCommitted(tlog[i])[k]
              = IF at = {} \/ datafile[Max(at)].del THEN 0
                ELSE datafile[Max(at)].lsn
        BY DEF LoadAsOfCommitted, LiveAfter
      <4>5. LoadAsOfCommitted(tlog[i])'[k]
              = IF at_ = {} \/ datafile'[Max(at_)].del THEN 0
                ELSE datafile'[Max(at_)].lsn
        BY <1>2 DEF LoadAsOfCommitted, LiveAfter
      <4> HIDE DEF at, at_
      <4> QED
        BY <4>1, <4>3, <4>4, <4>5
    <3>6. LoadAsOfCommitted(tlog[i])' = LoadAsOfCommitted(tlog[i])
      BY <1>2, <3>5 DEF LoadAsOfCommitted
    <3> QED
      BY <3>1, <3>4, <3>6
  <2> QED
    BY <1>2, <2>1 DEF TLogInv
<1>11. CountInv'
  BY <1>1, <1>3 DEF CountInv, Counting, pins
<1> QED
  BY <1>6, <1>7, <1>8, <1>9, <1>10, <1>11 DEF IInv

(* The data file as a whole leaves of every key its newest version.        *)
LEMMA LiveIsNewest ==
  ASSUME IInv, NEW k \in Key
  PROVE  LiveAfter({i \in 1 .. Len(datafile) : datafile[i].key = k})
           = Newest(Stored)[k]
<1> DEFINE at == {i \in 1 .. Len(datafile) : datafile[i].key = k}
           last == datafile[Max(at)]
<1> SUFFICES LiveAfter(at) = Newest(Stored)[k]
  OBVIOUS
<1>1. /\ TypeOK /\ FileInv /\ datafile \in Seq(DataRecord)
      /\ at \in SUBSET DOMAIN datafile
  BY DEF IInv, TypeOK
<1>2. at # {} => Max(at) \in at /\ \A i \in at : i <= Max(at)
  BY <1>1, LiveAfterIs
<1>3. LiveAfter(at) = IF at = {} \/ last.del THEN 0 ELSE last.lsn
  BY DEF LiveAfter
<1>4. Newest(Stored)[k] = IF \E r \in Stored :
                               /\ r.key = k /\ ~r.del
                               /\ r.lsn = LastOf(Lsns(Stored, k))
                          THEN LastOf(Lsns(Stored, k)) ELSE 0
  BY DEF Newest
<1>5. \A l : l \in Lsns(Stored, k) <=> \E i \in at : datafile[i].lsn = l
  BY <1>1, OfIs DEF Of
<1>6. \A r : r \in Stored /\ r.key = k <=> \E i \in at : datafile[i] = r
  BY <1>1 DEF Stored, Range
<1>7. \A i \in at : i \in Nat /\ datafile[i] \in DataRecord
                    /\ datafile[i].lsn \in Lsn /\ datafile[i].del \in BOOLEAN
  <2>1. \A i \in DOMAIN datafile : i \in Nat /\ datafile[i] \in DataRecord
    BY <1>1
  <2>2. \A i \in at : i \in Nat /\ datafile[i] \in DataRecord
    BY <1>1, <2>1
  <2> QED
    BY <2>2 DEF DataRecord
<1>8. CASE at = {}
  BY <1>3, <1>4, <1>6, <1>8
<1>9. CASE at # {}
  <2>1. ASSUME NEW i \in at
        PROVE  /\ datafile[i].lsn <= last.lsn
               /\ datafile[i].lsn = last.lsn => datafile[i].del = last.del
    <3>1. CASE i = Max(at)
      BY <1>7, <3>1, LsnIsNat
    <3>2. CASE i # Max(at)
      <4>1. i < Max(at) /\ Max(at) \in at
        BY <1>2, <1>7, <1>9, <3>2
      <4>2. i \in DOMAIN datafile /\ Max(at) \in DOMAIN datafile
            /\ datafile[i].key = datafile[Max(at)].key
        BY <1>1, <4>1
      <4> QED
        BY <1>1, <4>1, <4>2 DEF FileInv
    <3> QED
      BY <3>1, <3>2
  <2>2. Max(at) \in at /\ last.lsn \in Lsn /\ last.del \in BOOLEAN
    BY <1>2, <1>7, <1>9
  <2>3. Lsns(Stored, k) \in SUBSET Lsn
    BY <1>5, <1>7
  <2>4. last.lsn \in Lsns(Stored, k) /\ \A l \in Lsns(Stored, k) : l <= last.lsn
    BY <1>5, <2>1, <2>2
  <2> HIDE DEF last, at
  <2>5. LastOf(Lsns(Stored, k)) = last.lsn
    BY <2>3, <2>4, LastOfIs
  <2>6. CASE last.del
    <3>1. ASSUME NEW r \in Stored, r.key = k, ~r.del, r.lsn = last.lsn
          PROVE  FALSE
      <4>1. PICK i \in at : datafile[i] = r
        BY <1>6, <3>1
      <4> QED
        BY <2>1, <2>6, <3>1, <4>1
    <3> QED
      BY <1>3, <1>4, <2>5, <2>6, <3>1
  <2>7. CASE ~last.del
    <3>1. datafile[Max(at)] \in Stored /\ datafile[Max(at)].key = k
      BY <1>6, <2>2
    <3>2. \E r \in Stored : r.key = k /\ ~r.del /\ r.lsn = last.lsn
      BY <2>7, <3>1 DEF last
    <3> QED
      BY <1>3, <1>4, <1>9, <2>5, <2>7, <3>2
  <2> QED
    BY <2>6, <2>7
<1> QED
  BY <1>8, <1>9

LEMMA TLogIInv ==
  ASSUME IInv, AppendTLogSnapshot
  PROVE  IInv'
<1>1. /\ TypeOK /\ LogInv /\ TableInv /\ FileInv /\ TLogInv /\ CountInv
  BY DEF IInv
<1>2. /\ phase = "tlog" /\ phase' = "superblock"
      /\ tlog' = Append(tlog, TLogEntry)
      /\ UNCHANGED <<wal, datafile, gc, super, vidx, vcsmeta, memory, pins,
                     crashes, unloaded>>
  BY DEF AppendTLogSnapshot
<1> DEFINE e == TLogEntry
<1>3. /\ e = [size |-> Len(datafile), state |-> Newest(Stored)]
      /\ e \in [size : Nat, state : [Key -> Lsn]]
  <2>1. Len(datafile) \in Nat
    BY <1>1 DEF TypeOK
  <2> QED
    BY <1>1, <2>1, NewestType DEF TLogEntry
<1>4. LoadAsOfCommitted(e) = e.state
  <2>1. \A k \in Key : LoadAsOfCommitted(e)[k] = Newest(Stored)[k]
    BY <1>3, LiveIsNewest DEF LoadAsOfCommitted
  <2>2. LoadAsOfCommitted(e) = [k \in Key |-> LoadAsOfCommitted(e)[k]]
    BY DEF LoadAsOfCommitted
  <2>3. Newest(Stored) = [k \in Key |-> Newest(Stored)[k]]
    BY DEF Newest
  <2> HIDE DEF e
  <2> QED
    BY <1>3, <2>1, <2>2, <2>3, Zenon
<1> HIDE DEF e
<1>5. /\ tlog \in Seq([size : Nat, state : [Key -> Lsn]])
      /\ tlog' \in Seq([size : Nat, state : [Key -> Lsn]])
      /\ \A i \in DOMAIN tlog' :
           \/ tlog'[i] = e
           \/ i \in DOMAIN tlog /\ tlog'[i] = tlog[i]
  BY <1>1, <1>2, <1>3 DEF TypeOK, e
<1>6. TypeOK'
  BY <1>1, <1>2, <1>5 DEF TypeOK, memory, pins
<1>7. LogInv' /\ FileInv' /\ CountInv'
  BY <1>1, <1>2 DEF LogInv, FileInv, CountInv, Counting, pins
<1>8. TableInv'
  BY <1>1, <1>2 DEF TableInv, EmptyTable, memory, RecordOf
<1>9. TLogInv'
  <2>1. ASSUME NEW x PROVE LoadAsOfCommitted(x)' = LoadAsOfCommitted(x)
    BY <1>2 DEF LoadAsOfCommitted, LiveAfter
  <2>2. ASSUME NEW i \in DOMAIN tlog'
        PROVE  /\ tlog'[i].size <= Len(datafile)
               /\ LoadAsOfCommitted(tlog'[i]) = tlog'[i].state
    <3>1. CASE tlog'[i] = e
      <4>1. e.size <= Len(datafile)
        BY <1>1, <1>3 DEF TypeOK
      <4> QED
        BY <1>4, <3>1, <4>1
    <3>2. CASE i \in DOMAIN tlog /\ tlog'[i] = tlog[i]
      BY <1>1, <3>2 DEF TLogInv
    <3> QED
      BY <1>5, <3>1, <3>2
  <2> QED
    BY <1>2, <2>1, <2>2 DEF TLogInv, LoadAsOfCommitted, LiveAfter
<1> QED
  BY <1>6, <1>7, <1>8, <1>9 DEF IInv

LEMMA SuperIInv ==
  ASSUME IInv, CommitSuperBlock
  PROVE  IInv'
<1>1. /\ TypeOK /\ LogInv /\ TableInv /\ FileInv /\ TLogInv /\ CountInv
  BY DEF IInv
<1>2. /\ phase = "superblock" /\ phase' \in {"idle", "vidx"}
      /\ \/ super' = super /\ btree' = btree
         \/ /\ super' = [wal_lsn |-> CurrentLsn, data_lsn |-> stable_lsn,
                         root |-> committed]
            /\ btree' = committed
      /\ UNCHANGED <<wal, datafile, gc, vidx, vcsmeta, tlog, memtable, committed,
                     chains, lsn_index, stable_lsn, pins, crashes, unloaded>>
  BY DEF CommitSuperBlock
<1>3. memtable = EmptyTable
  BY <1>1, <1>2 DEF TableInv
<1>4. super.wal_lsn <= super'.wal_lsn /\ super'.wal_lsn \in Lsn
      /\ super.wal_lsn \in Lsn
  <2>1. super.wal_lsn \in Lsn
    BY <1>1 DEF TypeOK
  <2>2. CurrentLsn \in Lsn /\ super.wal_lsn <= CurrentLsn
    BY <1>1, CurrentLsnIs
  <2>3. super.wal_lsn <= super.wal_lsn
    BY <2>1, LsnIsNat
  <2> QED
    BY <1>2, <2>1, <2>2, <2>3
<1>5. TypeOK'
  <2>1. super' \in [wal_lsn : Lsn, data_lsn : Lsn, root : [Key -> Lsn]]
        /\ btree' \in [Key -> Lsn]
    BY <1>1, <1>2, CurrentLsnIs DEF TypeOK
  <2> QED
    BY <1>1, <1>2, <2>1 DEF TypeOK, pins
<1>6. LogInv'
  <2>1. ASSUME NEW i \in DOMAIN datafile, datafile[i].lsn <= super.wal_lsn
        PROVE  datafile[i].lsn <= super'.wal_lsn
    <3>1. datafile[i] \in DataRecord
      BY <1>1 DEF TypeOK
    <3>2. datafile[i].lsn \in Nat /\ super.wal_lsn \in Nat
          /\ super'.wal_lsn \in Nat
      BY <1>4, <3>1, LsnIsNat DEF DataRecord
    <3> QED
      BY <1>4, <2>1, <3>2
  <2> QED
    BY <1>1, <1>2, <2>1 DEF LogInv
<1>7. TableInv'
  BY <1>2, <1>3 DEF TableInv, EmptyTable
<1>8. FileInv' /\ CountInv'
  BY <1>1, <1>2 DEF FileInv, CountInv, Counting, pins
<1>9. TLogInv'
  BY <1>1, <1>2 DEF TLogInv, LoadAsOfCommitted, LiveAfter
<1> QED
  BY <1>5, <1>6, <1>7, <1>8, <1>9 DEF IInv

LEMMA SaveIInv ==
  ASSUME IInv, SaveToFile \/ SaveMeta
  PROVE  IInv'
<1>1. /\ TypeOK /\ LogInv /\ TableInv /\ FileInv /\ TLogInv /\ CountInv
  BY DEF IInv
<1>2. /\ phase \in {"vidx", "meta"} /\ phase' \in {"meta", "compact"}
      /\ vidx' \in {vidx, Vidx("whole", Key)}
      /\ vcsmeta' \in {vcsmeta, [k \in Key |-> chains[k].overflow]}
      /\ UNCHANGED <<wal, datafile, gc, super, tlog, memory, pins, crashes,
                     unloaded>>
  BY DEF SaveToFile, SaveMeta
<1>3. chains \in [Key -> Chain]
  BY <1>1 DEF TypeOK, Chain
<1>4. /\ Vidx("whole", Key)
           \in [form : {"whole", "cut", "empty"}, saved : [Key -> SUBSET Lsn]]
      /\ [k \in Key |-> chains[k].overflow] \in [Key -> SUBSET Lsn]
  BY <1>3 DEF Vidx, Merged, Chain
<1>5. TypeOK'
  <2>1. /\ vidx' \in [form : {"whole", "cut", "empty"}, saved : [Key -> SUBSET Lsn]]
        /\ vcsmeta' \in [Key -> SUBSET Lsn]
    BY <1>1, <1>2, <1>4 DEF TypeOK
  <2> QED
    BY <1>1, <1>2, <2>1 DEF TypeOK, memory, pins
<1>6. LogInv' /\ FileInv' /\ CountInv'
  BY <1>1, <1>2 DEF LogInv, FileInv, CountInv, Counting, pins
<1>7. TableInv'
  BY <1>1, <1>2 DEF TableInv, EmptyTable, memory
<1>8. TLogInv'
  BY <1>1, <1>2 DEF TLogInv, LoadAsOfCommitted, LiveAfter
<1> QED
  BY <1>5, <1>6, <1>7, <1>8 DEF IInv

LEMMA CompactIInv ==
  ASSUME IInv, CompactAndTruncate
  PROVE  IInv'
<1>1. /\ TypeOK /\ LogInv /\ TableInv /\ FileInv /\ TLogInv /\ CountInv
  BY DEF IInv
<1>2. /\ phase = "compact" /\ phase' = "idle"
      /\ chains' = [k \in Key |-> CompactBelow(chains[k], pinned_snapshot_lsn)]
      /\ wal' = {r \in wal : r.lsn > super.wal_lsn}
      /\ UNCHANGED <<datafile, gc, super, vidx, vcsmeta, tlog, memtable,
                     committed, btree, lsn_index, stable_lsn, pins, crashes>>
  BY DEF CompactAndTruncate
<1>3. memtable = EmptyTable
  BY <1>1, <1>2 DEF TableInv
<1>4. TypeOK'
  <2>1. ASSUME NEW k \in Key
        PROVE  /\ CompactBelow(chains[k], pinned_snapshot_lsn) \in Chain
               /\ Cardinality(CompactBelow(chains[k], pinned_snapshot_lsn).inline)
                    <= InlineMax
    <3>1. /\ chains[k] \in Chain /\ Cardinality(chains[k].inline) <= InlineMax
          /\ pinned_snapshot_lsn \in Lsn
      BY <1>1 DEF TypeOK, Chain
    <3> QED
      BY <3>1, CompactBelowIs
  <2>2. /\ chains' \in [Key -> Chain]
        /\ \A k \in Key : Cardinality(chains'[k].inline) <= InlineMax
    BY <1>2, <2>1
  <2>3. wal' \subseteq Record
    BY <1>1, <1>2 DEF TypeOK
  <2>4. unloaded' \subseteq Lsn
    <3>1. unloaded' = unloaded \cup
            UNION {Merged(chains[k]) \ Merged(chains'[k]) :
                     k \in {k \in Key : ~Listed(chains[k])}}
      BY DEF CompactAndTruncate
    <3>2. \A k \in Key : Merged(chains[k]) \subseteq Lsn
      BY <1>1 DEF TypeOK, Merged
    <3>3. unloaded \subseteq Lsn
      BY <1>1 DEF TypeOK
    <3> QED
      BY <3>1, <3>2, <3>3
  <2> QED
    BY <1>1, <1>2, <2>2, <2>3, <2>4 DEF TypeOK, Chain, pins
<1>5. LogInv'
  <2>1. ASSUME NEW i \in DOMAIN datafile, ~(datafile[i].lsn <= super.wal_lsn)
        PROVE  \E r \in wal' : /\ r.lsn = datafile[i].lsn
                               /\ r.key = datafile[i].key
                               /\ r.del = datafile[i].del
    <3>1. PICK r \in wal : /\ r.lsn = datafile[i].lsn /\ r.key = datafile[i].key
                           /\ r.del = datafile[i].del
      BY <1>1, <2>1 DEF LogInv
    <3>2. r.lsn \in Nat /\ super.wal_lsn \in Nat
      BY <1>1, LsnIsNat DEF TypeOK, Record
    <3>3. r \in wal'
      BY <1>2, <2>1, <3>1, <3>2
    <3> QED
      BY <3>1, <3>3
  <2>2. \A r, s \in wal' : r.lsn = s.lsn => r = s
    BY <1>1, <1>2 DEF LogInv
  <2> QED
    BY <1>2, <2>1, <2>2 DEF LogInv
<1>6. TableInv'
  BY <1>2, <1>3 DEF TableInv, EmptyTable
<1>7. FileInv' /\ CountInv'
  BY <1>1, <1>2 DEF FileInv, CountInv, Counting, pins
<1>8. TLogInv'
  BY <1>1, <1>2 DEF TLogInv, LoadAsOfCommitted, LiveAfter
<1> QED
  BY <1>4, <1>5, <1>6, <1>7, <1>8 DEF IInv

LEMMA CrashIInv ==
  ASSUME IInv, Crash
  PROVE  IInv'
<1>1. /\ TypeOK /\ LogInv /\ TableInv /\ FileInv /\ TLogInv /\ CountInv
  BY DEF IInv
<1>2. /\ memtable' = EmptyTable /\ committed' = NoKeys /\ btree' = NoKeys
      /\ chains' = [k \in Key |-> NoChain]
      /\ lsn_index' = {} /\ stable_lsn' = 0
      /\ snapshot_pin_count' = 0 /\ pinned_snapshot_lsn' = 0
      /\ reader' = [r \in Reader |-> NoSnapshot]
      /\ phase' = "down" /\ crashes' = crashes + 1
      /\ UNCHANGED <<wal, datafile, gc, super, tlog, unloaded>>
  BY DEF Crash
<1>3. 0 \in Lsn
  BY LsnIsNat
<1>4. /\ vidx' \in [form : {"whole", "cut", "empty"}, saved : [Key -> SUBSET Lsn]]
      /\ vcsmeta' \in [Key -> SUBSET Lsn]
  <2>1. chains \in [Key -> Chain]
    BY <1>1 DEF TypeOK, Chain
  <2>2. \A form \in {"whole", "cut", "empty"} : \A keys :
          Vidx(form, keys)
            \in [form : {"whole", "cut", "empty"}, saved : [Key -> SUBSET Lsn]]
    BY <2>1 DEF Vidx, Merged, Chain
  <2>3. \/ UNCHANGED <<vidx, vcsmeta>>
        \/ /\ vidx' \in {Vidx("empty", {})}
                        \cup {Vidx("cut", keys) : keys \in SUBSET Key}
           /\ vcsmeta' = vcsmeta
        \/ vcsmeta' = TornMeta /\ vidx' = vidx
    BY DEF Crash
  <2>4. TornMeta \in [Key -> SUBSET Lsn]
    BY <1>3 DEF TornMeta
  <2>5. CASE UNCHANGED <<vidx, vcsmeta>>
    BY <1>1, <2>5 DEF TypeOK
  <2>6. CASE /\ vidx' \in {Vidx("empty", {})}
                          \cup {Vidx("cut", keys) : keys \in SUBSET Key}
             /\ vcsmeta' = vcsmeta
    <3>1. \E form \in {"whole", "cut", "empty"} : \E keys : vidx' = Vidx(form, keys)
      BY <2>6
    <3> QED
      BY <1>1, <2>2, <2>6, <3>1 DEF TypeOK
  <2>7. CASE vcsmeta' = TornMeta /\ vidx' = vidx
    BY <1>1, <2>4, <2>7 DEF TypeOK
  <2> QED
    BY <2>3, <2>5, <2>6, <2>7
<1>5. /\ chains' \in [Key -> Chain]
      /\ \A k \in Key : Cardinality(chains'[k].inline) <= InlineMax
  <2>1. NoChain \in Chain /\ Cardinality(NoChain.inline) <= InlineMax
    BY FS_EmptySet, ChainBoundsOK DEF NoChain, Chain
  <2> QED
    BY <1>2, <2>1
<1>6. {r \in Reader : Counting(r)'} = {}
  BY <1>2 DEF Counting, NoSnapshot
<1>7. snapshot_pin_count' \in 0 .. Cardinality(Reader)
  <2>1. Cardinality(Reader) \in Nat
    BY ChainBoundsOK, FS_CardinalityType
  <2> QED
    BY <1>2, <2>1
<1>8. TypeOK'
  <2>1. /\ memtable' \in [Key -> Entry] /\ committed' \in [Key -> Lsn]
        /\ btree' \in [Key -> Lsn] /\ lsn_index' \subseteq Lsn
        /\ stable_lsn' \in Lsn /\ pinned_snapshot_lsn' \in Lsn
    BY <1>2, <1>3 DEF EmptyTable, NoEntry, Entry, NoKeys
  <2>2. reader' \in [Reader ->
          [pc : {"none", "captured", "counted", "lowers", "pinned", "last"},
           lsn : Lsn]]
    BY <1>2, <1>3 DEF NoSnapshot
  <2>3. crashes' \in Nat
    BY <1>1, <1>2 DEF TypeOK
  <2> QED
    BY <1>1, <1>2, <1>4, <1>5, <1>7, <2>1, <2>2, <2>3 DEF TypeOK, Chain
<1>9. LogInv' /\ FileInv'
  BY <1>1, <1>2 DEF LogInv, FileInv
<1>10. TableInv'
  BY <1>2 DEF TableInv, EmptyTable
<1>11. TLogInv'
  BY <1>1, <1>2 DEF TLogInv, LoadAsOfCommitted, LiveAfter
<1>12. CountInv'
  BY <1>2, <1>6, FS_EmptySet DEF CountInv
<1> QED
  BY <1>8, <1>9, <1>10, <1>11, <1>12 DEF IInv

LEMMA OpenIInv ==
  ASSUME IInv, Open
  PROVE  IInv'
<1>1. /\ TypeOK /\ LogInv /\ TableInv /\ FileInv /\ TLogInv /\ CountInv
  BY DEF IInv
<1>2. /\ phase = "down" /\ phase' = "idle"
      /\ committed' = LoadDatafile /\ btree' = super.root
      /\ memtable' = ReplayPending
      /\ stable_lsn' = super.data_lsn
      /\ chains' = [k \in Key |-> LoadChain(k)]
      /\ unloaded' = unloaded \cup
           {r.lsn : r \in {r \in Stored : \/ r.lsn \notin Merged(LoadChain(r.key))
                                          \/ ~GenerationVisible(r)}}
      /\ UNCHANGED <<wal, datafile, gc, super, vidx, vcsmeta, tlog, lsn_index,
                     pins, crashes>>
  BY DEF Open
<1>3. \A k \in Key : ReplayPending[k] \in Entry
  BY <1>1, ReplayPendingIs
<1>4. TypeOK'
  <2>1. memtable' \in [Key -> Entry]
    BY <1>2, <1>3 DEF ReplayPending
  <2>2. committed' \in [Key -> Lsn] /\ btree' \in [Key -> Lsn]
        /\ stable_lsn' \in Lsn
    BY <1>1, <1>2, LoadDatafileType DEF TypeOK
  <2>3. /\ chains' \in [Key -> Chain]
        /\ \A k \in Key : Cardinality(chains'[k].inline) <= InlineMax
    BY <1>1, <1>2, LoadChainIs
  <2>4. unloaded' \subseteq Lsn
    <3>1. \A d \in Stored : d.lsn \in Lsn
      <4>1. \A i \in DOMAIN datafile : datafile[i] \in DataRecord
        BY <1>1 DEF TypeOK
      <4> QED
        BY <4>1 DEF Stored, Range, DataRecord
    <3>2. unloaded \subseteq Lsn
      BY <1>1 DEF TypeOK
    <3> QED
      BY <1>2, <3>1, <3>2
  <2> QED
    BY <1>1, <1>2, <2>1, <2>2, <2>3, <2>4 DEF TypeOK, Chain, pins
<1>5. LogInv' /\ FileInv' /\ CountInv'
  BY <1>1, <1>2 DEF LogInv, FileInv, CountInv, Counting, pins
<1>6. TableInv'
  <2>1. ASSUME NEW k \in Key, memtable'[k] # NoEntry
        PROVE  /\ RecordOf(k)' \in wal /\ memtable'[k].lsn > super.wal_lsn
               /\ \A l \in Lsns(wal, k) : l <= memtable'[k].lsn
    <3>1. PICK r \in wal : /\ r.key = k /\ r.lsn > super.wal_lsn
                           /\ memtable'[k] = [lsn |-> r.lsn, del |-> r.del]
      BY <1>1, <1>2, <2>1, ReplayPendingIs
    <3>2. r \in Record
      BY <1>1 DEF TypeOK
    <3>3. RecordOf(k)' = r
      BY <3>1, <3>2 DEF RecordOf, Record
    <3>4. \A l \in Lsns(wal, k) : l <= memtable'[k].lsn
      BY <1>1, <1>2, <2>1, ReplayPendingIs
    <3>5. memtable'[k].lsn = r.lsn
      BY <3>1
    <3> QED
      BY <3>1, <3>3, <3>4, <3>5
  <2> QED
    BY <1>2, <2>1 DEF TableInv, Lsns
<1>7. TLogInv'
  BY <1>1, <1>2 DEF TLogInv, LoadAsOfCommitted, LiveAfter
<1> QED
  BY <1>4, <1>5, <1>6, <1>7 DEF IInv

LEMMA NextIInv ==
  ASSUME IInv, [Next]_vars
  PROVE  IInv'
<1>1. CASE UNCHANGED vars
  <2>1. (LogInv /\ TableInv /\ FileInv /\ TLogInv)'
    <3>1. UNCHANGED <<wal, datafile, super, tlog, memtable, phase>>
      BY <1>1 DEF vars, memory
    <3> QED
      BY <3>1, RecordsUnchanged
  <2>2. TypeOK'
    BY <1>1 DEF IInv, TypeOK, vars, memory, pins
  <2>3. CountInv'
    BY <1>1 DEF IInv, CountInv, Counting, vars, pins
  <2> QED
    BY <2>1, <2>2, <2>3 DEF IInv
<1>2. CASE \E k \in Key, del \in BOOLEAN : Write(k, del)
  BY <1>2, WriteIInv
<1>3. CASE FlushStep
  BY <1>3, FlushIInv
<1>4. CASE AppendTLogSnapshot
  BY <1>4, TLogIInv
<1>5. CASE CommitSuperBlock
  BY <1>5, SuperIInv
<1>6. CASE SaveToFile \/ SaveMeta
  BY <1>6, SaveIInv
<1>7. CASE CompactAndTruncate
  BY <1>7, CompactIInv
<1>8. CASE \E r \in Reader : PinStep(r)
  BY <1>8, PinsIInv
<1>9. CASE Crash
  BY <1>9, CrashIInv
<1>10. CASE Open
  BY <1>10, OpenIInv
<1> QED
  BY <1>1, <1>2, <1>3, <1>4, <1>5, <1>6, <1>7, <1>8, <1>9, <1>10
  DEF Next, FlushStep, PinStep

THEOREM IInvInvariant == Spec => []IInv
<1>1. Init => IInv
  BY InitIInv
<1>2. IInv /\ [Next]_vars => IInv'
  BY NextIInv
<1> QED
  BY <1>1, <1>2, PTL DEF Spec

(* Chains, maps, files and pins keep their types; no chain has more nodes  *)
(* inline than kVcsInlineMax (VersionChain::MaybeSpill).                   *)
THEOREM TypeCorrect == Spec => []TypeOK
<1>1. IInv => TypeOK
  BY DEF IInv
<1> QED
  BY <1>1, IInvInvariant, PTL

(* A flashback gives the newest version of every key at the time of the    *)
(* entry, after any later flush, GC swap, replay or crash                  *)
(* (AppendTLogSnapshot, LoadAsOfCommitted).                                *)
THEOREM FlashbackGivesState == Spec => []FlashbackState
<1>1. IInv => FlashbackState
  BY DEF IInv, TLogInv, FlashbackState
<1> QED
  BY <1>1, IInvInvariant, PTL
-----------------------------------------------------------------------------
(* Part 2: snapshots, maps and chains. *)

LEMMA InitSInv == Init => SInv
<1> SUFFICES ASSUME Init PROVE SInv
  OBVIOUS
<1>1. PICK k \in Key :
        /\ wal = {}
        /\ datafile = <<[lsn |-> 1, key |-> k, del |-> FALSE, gen |-> 0]>>
        /\ super = [wal_lsn |-> 1, data_lsn |-> 1,
                    root |-> [NoKeys EXCEPT ![k] = 1]]
        /\ vidx = [form |-> "whole", saved |-> [NoLsns EXCEPT ![k] = {1}]]
        /\ vcsmeta = NoLsns
        /\ committed = super.root /\ btree = super.root
        /\ chains = [j \in Key |-> LoadChain(j)]
        /\ lsn_index = {1} /\ stable_lsn = 1
        /\ pinned_snapshot_lsn = 0
        /\ reader = [r \in Reader |-> NoSnapshot]
        /\ phase = "idle"
  BY Zenon DEF Init
<1>2. TypeOK
  BY InitIInv DEF IInv
<1>3. /\ \A j \in Key : Of(j) = IF j = k THEN {1} ELSE {}
      /\ \A i \in DOMAIN datafile : datafile[i].lsn = 1
      /\ 1 \in DOMAIN datafile /\ datafile[1].lsn = 1
  BY <1>1, OfIs
<1>4. \A j \in Key : /\ super.root[j] = IF j = k THEN 1 ELSE 0
                     /\ vidx.saved[j] = IF j = k THEN {1} ELSE {}
                     /\ vcsmeta[j] = {}
  BY <1>1 DEF NoKeys, NoLsns
<1>5. /\ Nodes(k) = {1} /\ \A j \in Key : Nodes(j) \subseteq Of(j)
  <2>1. ASSUME NEW j \in Key PROVE Nodes(j) = vidx.saved[j]
    <3>1. Nodes(j) = Merged([Appended(NoChain, vidx.saved[j])
                               EXCEPT !.overflow = vcsmeta[j]])
      BY <1>1 DEF Nodes, LoadChain
    <3>2. NoChain \in Chain /\ vidx.saved[j] \in SUBSET Lsn
      BY <1>2 DEF NoChain, Chain, TypeOK
    <3>3. vidx.saved[j] \in {{}, {1}}
      BY <1>4
    <3>4. Appended(NoChain, vidx.saved[j]).inline = vidx.saved[j]
      <4>1. \A l \in vidx.saved[j] : {m \in vidx.saved[j] : m > l} = {}
        BY <3>3
      <4>2. Cardinality({}) < InlineMax
        BY FS_EmptySet, ChainBoundsOK
      <4> QED
        BY <4>1, <4>2 DEF Appended, NoChain
    <3>5. Appended(NoChain, vidx.saved[j]) \in Chain
      BY <3>2, AppendedIs
    <3> QED
      BY <1>4, <3>1, <3>4, <3>5 DEF Merged, Chain
  <2> QED
    BY <1>3, <1>4, <2>1
<1>6. CurrentLsn \in Lsn /\ 1 <= CurrentLsn
  BY <1>1, <1>2, CurrentLsnIs
<1>7. StableInv
  BY <1>1, <1>6, LsnIsNat DEF StableInv
<1>8. PinInv
  BY <1>1 DEF PinInv, Taken, Counting, Settled, NoSnapshot, Running
<1>9. HeldInv
  BY <1>1, <1>3, <1>4, <1>5 DEF HeldInv
<1>10. FoldInv
  BY <1>1 DEF FoldInv, Lsns
<1>11. NewestInv
  BY <1>1, <1>3, <1>4 DEF NewestInv
<1>12. FloorInv
  BY <1>3, <1>5 DEF FloorInv
<1>13. IndexInv
  <2>1. \A l \in lsn_index : \E i \in DOMAIN datafile : datafile[i].lsn = l
    BY <1>1, <1>3
  <2>2. ASSUME NEW j \in Key, NEW l \in Of(j)
        PROVE  /\ committed[j] = 0 \/ l <= committed[j]
               /\ btree[j] = 0 \/ l <= btree[j]
    BY <1>1, <1>3, <1>4
  <2>3. Running
    BY <1>1 DEF Running
  <2>4. ASSUME NEW j \in Key, lsn_index \cap Of(j) # {} PROVE Listed(chains[j])
    <3>1. j = k /\ Nodes(k) = {1} /\ vcsmeta[k] = {}
      BY <1>1, <1>3, <1>4, <1>5, <2>4
    <3> DEFINE c == Appended(NoChain, vidx.saved[k])
    <3>2. chains[k] = [c EXCEPT !.overflow = vcsmeta[k]]
      BY <1>1 DEF LoadChain
    <3>3. NoChain \in Chain /\ vidx.saved[k] \in SUBSET Lsn
      BY <1>2 DEF NoChain, Chain, TypeOK
    <3>4. c \in Chain
      BY <3>3, AppendedIs
    <3> HIDE DEF c
    <3>5. chains[k].overflow = {} /\ chains[k].inline \cup {} = {1}
      BY <3>1, <3>2, <3>4 DEF Chain, Nodes, Merged
    <3> QED
      BY <3>1, <3>5 DEF Listed
  <2> QED
    BY <2>1, <2>2, <2>3, <2>4 DEF IndexInv
<1>14. CoveredInv
  BY <1>1 DEF CoveredInv
<1> QED
  BY <1>7, <1>8, <1>9, <1>10, <1>11, <1>12, <1>13, <1>14 DEF SInv

(* LSNs are given out in order. *)
LEMMA CurrentLsnBound ==
  TypeOK => /\ CurrentLsn \in Lsn /\ super.wal_lsn <= CurrentLsn
            /\ \A r \in wal : r.lsn <= CurrentLsn
            /\ \/ CurrentLsn \in {0, super.wal_lsn}
               \/ \E r \in wal : r.lsn = CurrentLsn
<1> SUFFICES ASSUME TypeOK
             PROVE  \/ CurrentLsn \in {0, super.wal_lsn}
                    \/ \E r \in wal : r.lsn = CurrentLsn
  BY CurrentLsnIs
<1> DEFINE S == {super.wal_lsn} \cup {r.lsn : r \in wal}
<1>1. S \in SUBSET Lsn
  BY DEF TypeOK, Record
<1>2. CurrentLsn = LastOf(S)
  BY DEF CurrentLsn
<1>3. LastOf(S) \in S \cup {0}
  BY <1>1, LastOfIsGreatest
<1> QED
  BY <1>2, <1>3

LEMMA StableAfter ==
  ASSUME IInv, IInv', StableInv, [Next]_vars
  PROVE  /\ StableInv'
         /\ Running => ~Running' \/ stable_lsn <= stable_lsn'
<1>1. TypeOK /\ TypeOK'
  BY DEF IInv
<1>2. /\ CurrentLsn \in Lsn /\ super.wal_lsn <= CurrentLsn
      /\ \A r \in wal : r.lsn <= CurrentLsn
      /\ \/ CurrentLsn \in {0, super.wal_lsn}
         \/ \E r \in wal : r.lsn = CurrentLsn
  BY <1>1, CurrentLsnBound
<1>3. (/\ CurrentLsn \in Lsn /\ super.wal_lsn <= CurrentLsn
       /\ \A r \in wal : r.lsn <= CurrentLsn)'
  BY <1>1, CurrentLsnBound, PTL
<1>4. /\ CurrentLsn \in Nat /\ CurrentLsn' \in Nat
      /\ super.wal_lsn \in Nat /\ super'.wal_lsn \in Nat
      /\ stable_lsn \in Nat /\ stable_lsn' \in Nat
      /\ super.data_lsn \in Nat /\ \A r \in wal : r.lsn \in Nat
  BY <1>1, <1>2, <1>3, LsnIsNat DEF TypeOK, Record
<1>5. /\ stable_lsn <= CurrentLsn /\ super.data_lsn \in 1 .. CurrentLsn
      /\ Running => stable_lsn > 0
  BY DEF StableInv
<1> DEFINE Goal == /\ StableInv'
                   /\ Running => ~Running' \/ stable_lsn <= stable_lsn'
<1>6. ASSUME CurrentLsn <= CurrentLsn', super'.data_lsn = super.data_lsn,
             stable_lsn' = stable_lsn, Running' => Running
      PROVE  Goal
  BY <1>4, <1>5, <1>6 DEF StableInv
<1>7. ASSUME UNCHANGED <<wal, super>>
      PROVE  CurrentLsn <= CurrentLsn' /\ super'.data_lsn = super.data_lsn
  BY <1>4, <1>7 DEF CurrentLsn
<1>8. CASE UNCHANGED vars
  <2>1. UNCHANGED <<wal, super, stable_lsn, phase>>
    BY <1>8 DEF vars, memory
  <2> QED
    BY <1>6, <1>7, <2>1 DEF Running
<1>9. ASSUME NEW k \in Key, NEW del \in BOOLEAN, Write(k, del)
      PROVE  Goal
  <2> DEFINE new == [lsn |-> CurrentLsn + 1, key |-> k, del |-> del]
  <2>1. /\ new \in wal' /\ stable_lsn' = CurrentLsn + 1 /\ super' = super
        /\ phase' = phase
    BY <1>9 DEF Write
  <2>2. CurrentLsn + 1 <= CurrentLsn'
    BY <1>3, <2>1
  <2> QED
    BY <1>4, <1>5, <2>1, <2>2 DEF StableInv, Running
<1>10. ASSUME FlushStep PROVE Goal
  <2> DEFINE S == {stable_lsn} \cup {memtable[k].lsn : k \in Flushed}
  <2>1. /\ UNCHANGED <<wal, super>> /\ stable_lsn' = Max(S)
        /\ phase = "idle"
    BY <1>1, <1>10, FlushStepIs DEF FlushInternal
  <2>2. \A l \in S : l \in Nat /\ l <= CurrentLsn
    <3>1. ASSUME NEW k \in Flushed
          PROVE  memtable[k].lsn \in Nat /\ memtable[k].lsn <= CurrentLsn
      <4>1. RecordOf(k) \in wal
        BY FlushedIs DEF IInv, TableInv
      <4> QED
        BY <1>2, <1>4, <4>1 DEF RecordOf
    <3> QED
      BY <1>4, <1>5, <3>1
  <2>3. S \in SUBSET Nat /\ S # {} /\ stable_lsn \in S
    BY <2>2
  <2> HIDE DEF S
  <2>4. Max(S) \in S /\ stable_lsn <= Max(S)
    BY <1>4, <2>2, <2>3, MaxIsGreatest
  <2>5. stable_lsn <= stable_lsn' /\ stable_lsn' <= CurrentLsn
    BY <2>1, <2>2, <2>4
  <2> QED
    BY <1>4, <1>5, <1>7, <2>1, <2>5 DEF StableInv, Running
<1>11. ASSUME \/ AppendTLogSnapshot \/ SaveToFile \/ SaveMeta
              \/ \E r \in Reader : PinStep(r)
       PROVE  Goal
  <2>1. UNCHANGED <<wal, super, stable_lsn>> /\ (Running' => Running)
    BY <1>11 DEF AppendTLogSnapshot, SaveToFile, SaveMeta, PinStep, Capture,
       PinCount, PinRead, PinWrite, ReleaseCount, ReleaseReset, PinsOnly,
       memory, Running
  <2> QED
    BY <1>6, <1>7, <2>1
<1>12. ASSUME CommitSuperBlock PROVE Goal
  <2>1. /\ phase = "superblock" /\ stable_lsn' = stable_lsn
        /\ \/ super' = super /\ wal' = wal
           \/ super'.wal_lsn = CurrentLsn /\ super'.data_lsn = stable_lsn
    BY <1>12 DEF CommitSuperBlock
  <2>2. CASE super' = super /\ wal' = wal
    BY <1>6, <1>7, <2>1, <2>2 DEF Running
  <2>3. CASE super'.wal_lsn = CurrentLsn /\ super'.data_lsn = stable_lsn
    <3>1. stable_lsn > 0
      BY <1>5, <2>1 DEF Running
    <3> QED
      BY <1>3, <1>4, <1>5, <2>1, <2>3, <3>1 DEF StableInv
  <2> QED
    BY <2>1, <2>2, <2>3
<1>13. ASSUME CompactAndTruncate PROVE Goal
  <2>1. /\ wal' = {r \in wal : r.lsn > super.wal_lsn}
        /\ UNCHANGED <<super, stable_lsn>> /\ phase = "compact"
    BY <1>13 DEF CompactAndTruncate
  <2>2. CurrentLsn <= CurrentLsn'
    <3>1. CASE CurrentLsn \in {0, super.wal_lsn}
      BY <1>3, <1>4, <2>1, <3>1
    <3>2. ASSUME NEW r \in wal, r.lsn = CurrentLsn PROVE CurrentLsn <= CurrentLsn'
      <4>1. CASE r \in wal'
        BY <1>3, <3>2, <4>1
      <4>2. CASE r \notin wal'
        <5>1. r.lsn <= super.wal_lsn
          BY <1>4, <2>1, <4>2
        <5> QED
          BY <1>3, <1>4, <2>1, <3>2, <5>1
      <4> QED
        BY <4>1, <4>2
    <3> QED
      BY <1>2, <3>1, <3>2
  <2> QED
    BY <1>6, <2>1, <2>2 DEF Running
<1>14. ASSUME Crash PROVE Goal
  <2>1. UNCHANGED <<wal, super>> /\ stable_lsn' = 0 /\ phase' = "down"
    BY <1>14 DEF Crash
  <2> QED
    BY <1>4, <1>5, <1>7, <2>1 DEF StableInv, Running
<1>15. ASSUME Open PROVE Goal
  <2>1. UNCHANGED <<wal, super>> /\ stable_lsn' = super.data_lsn
        /\ phase = "down"
    BY <1>15 DEF Open
  <2> QED
    BY <1>4, <1>5, <1>7, <2>1 DEF StableInv, Running
<1> QED
  BY <1>8, <1>9, <1>10, <1>11, <1>12, <1>13, <1>14, <1>15
  DEF Next, FlushStep, PinStep

(* The steps of a reader, one at a time: what they do to its snapshot and  *)
(* to the pinned LSN.                                                      *)
PinEffect(r) ==
  \/ /\ reader[r].pc = "none" /\ OthersSettled(r)
     /\ reader'[r] = [pc |-> "captured", lsn |-> stable_lsn]
     /\ pinned_snapshot_lsn' = pinned_snapshot_lsn
  \/ /\ reader[r].pc = "captured"
     /\ reader'[r] = [pc |-> "counted", lsn |-> reader[r].lsn]
     /\ pinned_snapshot_lsn' = pinned_snapshot_lsn
  \/ /\ reader[r].pc = "counted"
     /\ \/ pinned_snapshot_lsn = 0
        \/ reader[r].lsn < pinned_snapshot_lsn
     /\ reader'[r] = [pc |-> "lowers", lsn |-> reader[r].lsn]
     /\ pinned_snapshot_lsn' = pinned_snapshot_lsn
  \/ /\ reader[r].pc = "counted" /\ pinned_snapshot_lsn # 0
     /\ reader'[r] = [pc |-> "pinned", lsn |-> reader[r].lsn]
     /\ pinned_snapshot_lsn' = pinned_snapshot_lsn
  \/ /\ reader[r].pc = "lowers"
     /\ reader'[r] = [pc |-> "pinned", lsn |-> reader[r].lsn]
     /\ pinned_snapshot_lsn' = reader[r].lsn
  \/ /\ reader[r].pc = "pinned" /\ OthersSettled(r)
     /\ \/ reader'[r] = NoSnapshot
        \/ /\ reader'[r] = [pc |-> "last", lsn |-> 0]
           /\ snapshot_pin_count = 1
     /\ pinned_snapshot_lsn' = pinned_snapshot_lsn
  \/ /\ reader[r].pc = "last"
     /\ reader'[r] = NoSnapshot
     /\ pinned_snapshot_lsn' = 0

LEMMA PinStepIs ==
  ASSUME TypeOK, NEW r \in Reader, PinStep(r)
  PROVE  /\ Running /\ stable_lsn' = stable_lsn /\ phase' = phase
         /\ DOMAIN reader' = Reader
         /\ \A o \in Reader : o # r => reader'[o] = reader[o]
         /\ PinEffect(r)
<1>1. /\ reader \in [Reader ->
           [pc : {"none", "captured", "counted", "lowers", "pinned", "last"},
            lsn : Lsn]]
      /\ reader[r] \in
           [pc : {"none", "captured", "counted", "lowers", "pinned", "last"},
            lsn : Lsn]
  BY DEF TypeOK
<1>2. ASSUME NEW v, reader' = [reader EXCEPT ![r] = v]
      PROVE  /\ DOMAIN reader' = Reader /\ reader'[r] = v
             /\ \A o \in Reader : o # r => reader'[o] = reader[o]
  BY <1>1, <1>2
<1>3. ASSUME NEW pc, Goto(r, pc)
      PROVE  reader' = [reader EXCEPT ![r] = [pc |-> pc, lsn |-> reader[r].lsn]]
  <2>1. [reader[r] EXCEPT !.pc = pc] = [pc |-> pc, lsn |-> reader[r].lsn]
    BY <1>1
  <2> QED
    BY <1>3, <2>1 DEF Goto
<1>4. Running /\ stable_lsn' = stable_lsn /\ phase' = phase
  BY DEF PinStep, Capture, PinCount, PinRead, PinWrite, ReleaseCount,
     ReleaseReset, PinsOnly, memory
<1>5. CASE Capture(r)
  BY <1>2, <1>4, <1>5 DEF Capture, PinEffect
<1>6. CASE PinCount(r)
  <2>1. reader' = [reader EXCEPT ![r] = [pc |-> "counted", lsn |-> reader[r].lsn]]
    BY <1>3, <1>6 DEF PinCount
  <2> QED
    BY <1>2, <1>4, <1>6, <2>1 DEF PinCount, PinEffect
<1>7. CASE PinRead(r)
  <2>1. CASE pinned_snapshot_lsn = 0 \/ reader[r].lsn < pinned_snapshot_lsn
    <3>1. reader' = [reader EXCEPT ![r] = [pc |-> "lowers", lsn |-> reader[r].lsn]]
      BY <1>3, <1>7, <2>1 DEF PinRead
    <3> QED
      BY <1>2, <1>4, <1>7, <2>1, <3>1 DEF PinRead, PinEffect
  <2>2. CASE ~(pinned_snapshot_lsn = 0 \/ reader[r].lsn < pinned_snapshot_lsn)
    <3>1. reader' = [reader EXCEPT ![r] = [pc |-> "pinned", lsn |-> reader[r].lsn]]
      BY <1>3, <1>7, <2>2 DEF PinRead
    <3> QED
      BY <1>2, <1>4, <1>7, <2>2, <3>1 DEF PinRead, PinEffect
  <2> QED
    BY <2>1, <2>2
<1>8. CASE PinWrite(r)
  <2>1. reader' = [reader EXCEPT ![r] = [pc |-> "pinned", lsn |-> reader[r].lsn]]
    BY <1>3, <1>8 DEF PinWrite
  <2> QED
    BY <1>2, <1>4, <1>8, <2>1 DEF PinWrite, PinEffect
<1>9. CASE ReleaseCount(r)
  BY <1>2, <1>4, <1>9 DEF ReleaseCount, PinEffect
<1>10. CASE ReleaseReset(r)
  BY <1>2, <1>4, <1>10 DEF ReleaseReset, PinEffect
<1> QED
  BY <1>5, <1>6, <1>7, <1>8, <1>9, <1>10 DEF PinStep

LEMMA PinInvAfterPin ==
  ASSUME PinsSerially, IInv, PinInv, StableInv, NEW r \in Reader, PinStep(r)
  PROVE  PinInv'
<1> DEFINE q == pinned_snapshot_lsn
<1>1. /\ Running /\ stable_lsn' = stable_lsn /\ phase' = phase
      /\ \A o \in Reader : o # r => reader'[o] = reader[o]
  BY PinStepIs DEF IInv
<1>2. /\ q \in Nat /\ stable_lsn \in Nat /\ stable_lsn > 0
      /\ \A o \in Reader : reader[o].lsn \in Nat
  <2>1. /\ q \in Lsn /\ stable_lsn \in Lsn
        /\ \A o \in Reader : reader[o].lsn \in Lsn
    BY DEF IInv, TypeOK
  <2> QED
    BY <1>1, <2>1, LsnIsNat DEF StableInv
<1>3. /\ \A o, p \in Reader : o = p \/ Settled(o) \/ Settled(p)
      /\ \A o \in Reader : Taken(o) => /\ q <= reader[o].lsn
                                       /\ reader[o].lsn \in 1 .. stable_lsn
      /\ \A o \in Reader : reader[o].pc = "pinned" => q > 0
      /\ \A o \in Reader : reader[o].pc = "lowers" => q = 0
      /\ \A o, p \in Reader : reader[o].pc = "last" => o = p \/ ~Counting(p)
      /\ q <= stable_lsn
  BY DEF PinInv
<1>4. Running'
  BY <1>1 DEF Running
(* The others are settled, before the step and after it.                   *)
<1>5. \A o \in Reader : o # r => reader[o].pc \in {"none", "pinned"}
  <2>1. CASE OthersSettled(r)
    BY <2>1 DEF OthersSettled, Settled
  <2>2. CASE ~Settled(r)
    BY <1>3, <2>2 DEF Settled
  <2> QED
    BY <2>1, <2>2, PinStepIs DEF IInv, Settled, PinEffect
<1>6. \A o, p \in Reader : o = p \/ Settled(o)' \/ Settled(p)'
  BY <1>1, <1>5 DEF Settled
<1> DEFINE Goal(l) ==
      /\ \A o \in Reader : Taken(o)' => /\ l <= reader'[o].lsn
                                        /\ reader'[o].lsn \in 1 .. stable_lsn
      /\ \A o \in Reader : reader'[o].pc = "pinned" => l > 0
      /\ \A o \in Reader : reader'[o].pc = "lowers" => l = 0
      /\ \A o, p \in Reader : reader'[o].pc = "last" => o = p \/ ~Counting(p)'
      /\ l <= stable_lsn
(* Enough to look at the reader that takes the step, and at those pinned.  *)
<1>7. ASSUME NEW l, pinned_snapshot_lsn' = l, l <= stable_lsn,
             Taken(r)' => /\ l <= reader'[r].lsn
                          /\ reader'[r].lsn \in 1 .. stable_lsn,
             reader'[r].pc = "pinned" => l > 0,
             reader'[r].pc = "lowers" => l = 0,
             reader'[r].pc = "last" =>
               \A o \in Reader : o # r => reader[o].pc # "pinned",
             \A o \in Reader : o # r /\ reader[o].pc = "pinned" => l = q
      PROVE  PinInv'
  <2>1. ASSUME NEW o \in Reader, o # r
        PROVE  /\ Taken(o)' => /\ l <= reader'[o].lsn
                               /\ reader'[o].lsn \in 1 .. stable_lsn
               /\ reader'[o].pc = "pinned" => l > 0
               /\ reader'[o].pc \notin {"lowers", "last"}
               /\ reader'[r].pc = "last" => ~Counting(o)'
    <3>1. reader'[o] = reader[o] /\ reader[o].pc \in {"none", "pinned"}
      BY <1>1, <1>5, <2>1
    <3>2. CASE reader[o].pc = "none"
      BY <3>1, <3>2 DEF Taken, Counting
    <3>3. CASE reader[o].pc = "pinned"
      <4>1. l = q /\ reader'[r].pc # "last"
        BY <1>7, <2>1, <3>3
      <4>2. Taken(o)
        BY <3>3 DEF Taken, Counting
      <4> QED
        BY <1>3, <3>1, <3>3, <4>1, <4>2
    <3> QED
      BY <3>1, <3>2, <3>3
  <2>2. /\ \A o \in Reader : Taken(o)' => /\ l <= reader'[o].lsn
                                          /\ reader'[o].lsn \in 1 .. stable_lsn
        /\ \A o \in Reader : reader'[o].pc = "pinned" => l > 0
        /\ \A o \in Reader : reader'[o].pc = "lowers" => l = 0
        /\ \A o, p \in Reader :
             reader'[o].pc = "last" => o = p \/ ~Counting(p)'
    BY <1>7, <2>1
  <2> QED
    BY <1>1, <1>4, <1>6, <1>7, <2>2 DEF PinInv
<1>8. CASE /\ reader[r].pc = "none" /\ OthersSettled(r)
           /\ reader'[r] = [pc |-> "captured", lsn |-> stable_lsn]
           /\ pinned_snapshot_lsn' = pinned_snapshot_lsn
  BY <1>2, <1>3, <1>7, <1>8
<1>9. CASE /\ reader[r].pc = "captured"
           /\ reader'[r] = [pc |-> "counted", lsn |-> reader[r].lsn]
           /\ pinned_snapshot_lsn' = pinned_snapshot_lsn
  <2>1. Taken(r)
    BY <1>9 DEF Taken
  <2> QED
    BY <1>2, <1>3, <1>7, <1>9, <2>1
<1>10. CASE /\ reader[r].pc = "counted"
            /\ \/ pinned_snapshot_lsn = 0
               \/ reader[r].lsn < pinned_snapshot_lsn
            /\ reader'[r] = [pc |-> "lowers", lsn |-> reader[r].lsn]
            /\ pinned_snapshot_lsn' = pinned_snapshot_lsn
  <2>1. Taken(r)
    BY <1>10 DEF Taken, Counting
  <2>2. q <= reader[r].lsn
    BY <1>3, <2>1
  <2>3. q = 0
    BY <1>2, <1>10, <2>2
  <2> QED
    BY <1>2, <1>3, <1>7, <1>10, <2>1, <2>3
<1>11. CASE /\ reader[r].pc = "counted" /\ pinned_snapshot_lsn # 0
            /\ reader'[r] = [pc |-> "pinned", lsn |-> reader[r].lsn]
            /\ pinned_snapshot_lsn' = pinned_snapshot_lsn
  <2>1. Taken(r)
    BY <1>11 DEF Taken, Counting
  <2>2. q > 0
    BY <1>2, <1>11
  <2> QED
    BY <1>2, <1>3, <1>7, <1>11, <2>1, <2>2
<1>12. CASE /\ reader[r].pc = "lowers"
            /\ reader'[r] = [pc |-> "pinned", lsn |-> reader[r].lsn]
            /\ pinned_snapshot_lsn' = reader[r].lsn
  <2>1. Taken(r) /\ q = 0
    BY <1>3, <1>12 DEF Taken, Counting
  <2>2. reader[r].lsn \in 1 .. stable_lsn
    BY <1>3, <2>1
  <2>3. \A o \in Reader : reader[o].pc # "pinned"
    BY <1>3, <2>1
  <2> QED
    BY <1>2, <1>7, <1>12, <2>2, <2>3
<1>13. CASE /\ reader[r].pc = "pinned" /\ OthersSettled(r)
            /\ \/ reader'[r] = NoSnapshot
               \/ /\ reader'[r] = [pc |-> "last", lsn |-> 0]
                  /\ snapshot_pin_count = 1
            /\ pinned_snapshot_lsn' = pinned_snapshot_lsn
  <2>1. ~Taken(r)' /\ reader'[r].pc \in {"none", "last"}
    BY <1>13 DEF Taken, Counting, NoSnapshot
  <2>2. ASSUME reader'[r].pc = "last", NEW o \in Reader, o # r
        PROVE  reader[o].pc # "pinned"
    <3>1. snapshot_pin_count = 1
      BY <1>13, <2>2 DEF NoSnapshot
    <3>2. Cardinality({p \in Reader : Counting(p)}) = 1
      BY <3>1 DEF IInv, CountInv
    <3>3. IsFiniteSet({p \in Reader : Counting(p)})
      BY CountIs
    <3>4. PICK p : {p_1 \in Reader : Counting(p_1)} = {p}
      BY <3>2, <3>3, FS_Singleton
    <3>5. r = p
      BY <1>13, <3>4 DEF Counting
    <3> QED
      BY <2>2, <3>4, <3>5 DEF Counting
  <2> QED
    BY <1>3, <1>7, <1>13, <2>1, <2>2
<1>14. CASE /\ reader[r].pc = "last"
            /\ reader'[r] = NoSnapshot
            /\ pinned_snapshot_lsn' = 0
  <2>1. ~Taken(r)' /\ reader'[r].pc = "none"
    BY <1>14 DEF Taken, Counting, NoSnapshot
  <2>2. \A o \in Reader : o # r => reader[o].pc # "pinned"
    BY <1>3, <1>14 DEF Counting
  <2> QED
    BY <1>2, <1>7, <1>14, <2>1, <2>2
<1> QED
  BY <1>8, <1>9, <1>10, <1>11, <1>12, <1>13, <1>14, PinStepIs DEF IInv, PinEffect

LEMMA PinInvAfter ==
  ASSUME PinsSerially, IInv, IInv', PinInv, StableInv, [Next]_vars
  PROVE  PinInv'
<1>1. CASE \E r \in Reader : PinStep(r)
  BY <1>1, PinInvAfterPin
<1>2. CASE Crash
  <2>1. /\ reader' = [r \in Reader |-> NoSnapshot] /\ pinned_snapshot_lsn' = 0
        /\ stable_lsn' = 0 /\ phase' = "down"
    BY <1>2 DEF Crash
  <2> QED
    BY <2>1 DEF PinInv, Taken, Counting, Settled, NoSnapshot, Running
<1>3. CASE Open
  <2>1. /\ reader' = reader /\ pinned_snapshot_lsn' = pinned_snapshot_lsn
        /\ phase = "down" /\ phase' = "idle"
    BY <1>3 DEF Open, pins
  <2>2. reader' = [r \in Reader |-> NoSnapshot]
    BY <2>1 DEF PinInv, Running
  <2>3. pinned_snapshot_lsn' = 0 /\ stable_lsn' \in Nat
    <3>1. stable_lsn' \in Lsn
      BY DEF IInv, TypeOK
    <3> QED
      BY <2>1, <3>1, LsnIsNat DEF PinInv, Running
  <2> QED
    BY <2>1, <2>2, <2>3 DEF PinInv, Taken, Counting, Settled, NoSnapshot, Running
<1>4. ASSUME UNCHANGED <<reader, pinned_snapshot_lsn>>, Running' = Running,
             stable_lsn <= stable_lsn' \/ stable_lsn' = stable_lsn
      PROVE  PinInv'
  <2>1. /\ stable_lsn \in Nat /\ stable_lsn' \in Nat
        /\ pinned_snapshot_lsn \in Nat
        /\ \A r \in Reader : reader[r].lsn \in Nat
    <3>1. /\ stable_lsn \in Lsn /\ stable_lsn' \in Lsn
          /\ pinned_snapshot_lsn \in Lsn
          /\ \A r \in Reader : reader[r].lsn \in Lsn
      BY DEF IInv, TypeOK
    <3> QED
      BY <3>1, LsnIsNat
  <2>2. stable_lsn <= stable_lsn'
    BY <1>4, <2>1
  <2>3. \A r \in Reader : /\ Taken(r)' = Taken(r) /\ Settled(r)' = Settled(r)
                          /\ Counting(r)' = Counting(r)
                          /\ reader'[r] = reader[r]
    BY <1>4 DEF Taken, Settled, Counting
  <2>4. \A r \in Reader : reader[r].lsn \in 1 .. stable_lsn
                            => reader[r].lsn \in 1 .. stable_lsn'
    BY <2>1, <2>2
  <2>5. pinned_snapshot_lsn <= stable_lsn => pinned_snapshot_lsn <= stable_lsn'
    BY <2>1, <2>2
  <2> QED
    BY <1>4, <2>3, <2>4, <2>5 DEF PinInv
<1>5. CASE UNCHANGED vars
  BY <1>4, <1>5 DEF vars, pins, memory, Running
<1>6. ASSUME \/ \E k \in Key, del \in BOOLEAN : Write(k, del)
             \/ FlushStep \/ AppendTLogSnapshot \/ CommitSuperBlock
             \/ SaveToFile \/ SaveMeta \/ CompactAndTruncate
      PROVE  PinInv'
  <2>1. /\ UNCHANGED <<reader, pinned_snapshot_lsn>> /\ Running /\ Running'
    BY <1>6 DEF Write, FlushStep, Flush, CheckpointFlush, FlushInternal,
       AppendTLogSnapshot, CommitSuperBlock, SaveToFile, SaveMeta,
       CompactAndTruncate, pins, Running
  <2>2. stable_lsn <= stable_lsn'
    BY <2>1, StableAfter
  <2>3. Running \in BOOLEAN /\ Running' \in BOOLEAN
    BY DEF Running
  <2>4. Running' = Running
    BY <2>1, <2>3, Zenon
  <2> QED
    BY <1>4, <2>1, <2>2, <2>4
<1> QED
  BY <1>1, <1>2, <1>3, <1>5, <1>6 DEF Next, FlushStep, PinStep

StoreInv == HeldInv /\ FoldInv /\ NewestInv /\ FloorInv /\ IndexInv

LEMMA OfIsLsns ==
  ASSUME IInv, NEW k \in Key
  PROVE  /\ Of(k) \in SUBSET Lsn /\ Of(k) \in SUBSET Nat
         /\ \A l \in Of(k) : \/ l <= super.wal_lsn
                             \/ \E r \in wal : r.lsn = l /\ r.key = k
         /\ memtable[k] # NoEntry => \A l \in Of(k) : l <= memtable[k].lsn
<1>1. datafile \in Seq(DataRecord)
  BY DEF IInv, TypeOK
<1>2. \A i \in DOMAIN datafile : datafile[i].lsn \in Lsn
  <2>1. \A i \in DOMAIN datafile : datafile[i] \in DataRecord
    BY <1>1
  <2> QED
    BY <2>1 DEF DataRecord
<1>3. Of(k) \in SUBSET Lsn
  BY <1>2, OfIs
<1>4. ASSUME NEW l \in Of(k)
      PROVE  /\ \/ l <= super.wal_lsn
                \/ \E r \in wal : r.lsn = l /\ r.key = k
             /\ memtable[k] # NoEntry => l <= memtable[k].lsn
  <2>1. PICK i \in DOMAIN datafile : datafile[i].key = k /\ datafile[i].lsn = l
    BY OfIs
  <2>2. \/ l <= super.wal_lsn \/ \E r \in wal : r.lsn = l /\ r.key = k
    BY <2>1 DEF IInv, LogInv
  <2>3. memtable[k] # NoEntry => l <= memtable[k].lsn
    BY <2>1, MemtableIsNewest
  <2> QED
    BY <2>2, <2>3
<1> QED
  BY <1>3, <1>4, LsnIsNat

LEMMA OfUnchanged ==
  ASSUME datafile' = datafile, NEW k
  PROVE  Of(k)' = Of(k)
BY DEF Of, Lsns, Stored

(* Steps that store nothing and change no map but the B-tree's, which they *)
(* set to what is committed.                                               *)
LEMMA IndexUnchanged ==
  ASSUME IndexInv, Running, Running',
         UNCHANGED <<datafile, committed, lsn_index>>,
         btree' = btree \/ btree' = committed,
         \A k \in Key : Listed(chains[k]) => Listed(chains'[k])
  PROVE  IndexInv'
<1>1. /\ datafile' = datafile /\ committed' = committed
      /\ lsn_index' = lsn_index
  OBVIOUS
<1>2. \A k \in Key : Of(k)' = Of(k)
  BY <1>1, OfUnchanged
<1>3. \A l \in lsn_index' : \E i \in DOMAIN datafile' : datafile'[i].lsn = l
  BY <1>1 DEF IndexInv
<1>4. ASSUME NEW k \in Key, lsn_index' \cap Of(k)' # {}, NEW l \in Of(k)'
      PROVE  /\ committed'[k] = 0 \/ l <= committed'[k]
             /\ btree'[k] = 0 \/ l <= btree'[k]
  <2>1. lsn_index \cap Of(k) # {} /\ l \in Of(k)
    BY <1>1, <1>2, <1>4
  <2>2. /\ committed[k] = 0 \/ l <= committed[k]
        /\ btree[k] = 0 \/ l <= btree[k]
    BY <2>1 DEF IndexInv
  <2> QED
    BY <1>1, <2>2
<1>5. ASSUME NEW k \in Key, lsn_index' \cap Of(k)' # {} PROVE Listed(chains'[k])
  BY <1>1, <1>2, <1>5 DEF IndexInv
<1>6. Running'
  OBVIOUS
<1>7. \A k \in Key : Listed(chains[k])' <=> Listed(chains'[k])
  BY DEF Listed
<1> QED
  BY <1>3, <1>4, <1>5, <1>6, <1>7 DEF IndexInv

(* The chains after a flush have the flushed versions and nothing else new. *)
LEMMA NodesAfterFlush ==
  ASSUME IInv, FoldInv, FlushStep, NEW k \in Key
  PROVE  Nodes(k)' = Nodes(k) \cup
                       (IF k \in Flushed THEN {memtable[k].lsn} ELSE {})
<1>1. TypeOK /\ Running
  <2>1. TypeOK /\ phase = "idle"
    BY FlushStepIs DEF IInv
  <2> QED
    BY <2>1 DEF Running
<1>2. /\ ChainsFlushed[k] \in Chain
      /\ Merged(ChainsFlushed[k])
           = Nodes(k) \cup (IF k \in Flushed THEN {memtable[k].lsn} ELSE {})
  BY <1>1, ChainsFlushedIs
<1>3. CASE Flush
  <2>1. chains' = ChainsFlushed
    BY <1>3 DEF Flush
  <2>2. Nodes(k)' = Merged(ChainsFlushed[k])
    BY <2>1 DEF Nodes, Merged
  <2> QED
    BY <1>2, <2>2
<1>4. CASE CheckpointFlush
  <2>1. chains' = [j \in Key |-> FoldWalToVcs(ChainsFlushed[j], j)]
    BY <1>4 DEF CheckpointFlush
  <2>2. chains'[k] = FoldWalToVcs(ChainsFlushed[k], k)
    BY <2>1
  <2>3. Nodes(k)' = Merged(FoldWalToVcs(ChainsFlushed[k], k))
    BY <2>2 DEF Nodes, Merged
  <2>4. \A l \in Lsns(wal, k) :
          l > super.wal_lsn => \E m \in Merged(ChainsFlushed[k]) : l <= m
    <3>1. CASE k \in Flushed
      <4>1. \A l \in Lsns(wal, k) : l <= memtable[k].lsn
        BY <3>1, FlushedIs DEF IInv, TableInv
      <4>2. memtable[k].lsn \in Merged(ChainsFlushed[k])
        BY <1>2, <3>1
      <4> QED
        BY <4>1, <4>2
    <3>2. CASE k \notin Flushed
      <4>1. memtable[k] = NoEntry
        BY <3>2, FlushedIs
      <4>2. \A l \in Lsns(wal, k) :
              l > super.wal_lsn => \E m \in Nodes(k) : l <= m
        BY <1>1, <4>1 DEF FoldInv
      <4> QED
        BY <1>2, <3>2, <4>2
    <3> QED
      BY <3>1, <3>2
  <2>5. Merged(FoldWalToVcs(ChainsFlushed[k], k)) = Merged(ChainsFlushed[k])
    BY <1>1, <1>2, <2>4, FoldIs
  <2> QED
    BY <1>2, <2>3, <2>5
<1> QED
  BY <1>3, <1>4 DEF FlushStep

LEMMA StoreAfterFlush ==
  ASSUME IInv, IInv', StoreInv, StableInv, FlushStep, stable_lsn <= stable_lsn'
  PROVE  StoreInv'
<1>1. /\ TypeOK /\ FlushInternal /\ phase = "idle" /\ Running /\ Running'
      /\ HeldInv /\ FoldInv /\ NewestInv /\ FloorInv /\ IndexInv
  <2>1. TypeOK
    BY DEF IInv
  <2>2. FlushInternal /\ phase = "idle" /\ phase' \in {"idle", "tlog"}
    BY <2>1, FlushStepIs
  <2> QED
    BY <2>1, <2>2 DEF Running, StoreInv
<1>2. /\ committed' = Applied(committed) /\ btree' = Applied(btree)
      /\ memtable' = EmptyTable
      /\ lsn_index' = lsn_index \cup {memtable[k].lsn : k \in Flushed}
      /\ UNCHANGED <<wal, super, vidx, vcsmeta, pins, unloaded>>
  BY <1>1 DEF FlushInternal
<1> DEFINE new(k) == IF k \in Flushed THEN {memtable[k].lsn} ELSE {}
<1>3. \A k \in Key : Of(k)' = Of(k) \cup new(k)
  BY <1>1, OfAfterFlush
<1>4. \A k \in Key : Nodes(k)' = Nodes(k) \cup new(k)
  BY <1>1, NodesAfterFlush
<1>5. \A k \in Key : k \in Flushed =>
        /\ committed'[k] \in {0, memtable[k].lsn}
        /\ btree'[k] \in {0, memtable[k].lsn}
  BY <1>2 DEF Applied
<1>6. \A k \in Key : k \notin Flushed =>
        /\ committed'[k] = committed[k] /\ btree'[k] = btree[k]
        /\ memtable[k] = NoEntry
  BY <1>2, FlushedIs DEF Applied
<1>7. \A k \in Key : k \in Flushed =>
        /\ memtable[k] # NoEntry /\ memtable[k].lsn \in Nat
        /\ RecordOf(k) \in wal /\ memtable[k].lsn > super.wal_lsn
        /\ \A l \in Lsns(wal, k) : l <= memtable[k].lsn
        /\ \A l \in Of(k) \cup new(k) : l <= memtable[k].lsn
  <2> SUFFICES ASSUME NEW k \in Key, k \in Flushed
               PROVE  /\ memtable[k] # NoEntry /\ memtable[k].lsn \in Nat
                      /\ RecordOf(k) \in wal /\ memtable[k].lsn > super.wal_lsn
                      /\ \A l \in Lsns(wal, k) : l <= memtable[k].lsn
                      /\ \A l \in Of(k) \cup new(k) : l <= memtable[k].lsn
    OBVIOUS
  <2>1. memtable[k] # NoEntry /\ memtable[k].lsn \in Nat
    <3>1. memtable[k] \in Entry
      BY <1>1 DEF TypeOK
    <3> QED
      BY <3>1, FlushedIs, LsnIsNat DEF Entry
  <2>2. /\ RecordOf(k) \in wal /\ memtable[k].lsn > super.wal_lsn
        /\ \A l \in Lsns(wal, k) : l <= memtable[k].lsn
    BY <2>1 DEF IInv, TableInv
  <2>3. \A l \in Of(k) : l <= memtable[k].lsn
    BY <2>1, OfIsLsns
  <2>4. memtable[k].lsn <= memtable[k].lsn
    BY <2>1
  <2> QED
    BY <2>1, <2>2, <2>3, <2>4
<1>8. \A k \in Key : /\ new(k) \subseteq {memtable[k].lsn}
                     /\ k \in Flushed => memtable[k].lsn \in new(k)
                     /\ k \notin Flushed => new(k) = {}
  OBVIOUS
<1> HIDE DEF new
<1>9. HeldInv'
  <2> SUFFICES ASSUME NEW k \in Key
               PROVE  /\ committed'[k] \in Of(k)' \cup {0}
                      /\ btree'[k] \in Of(k)' \cup {0}
                      /\ super.root[k] \in Of(k)' \cup {0}
                      /\ Nodes(k)' \subseteq Of(k)'
                      /\ vidx.saved[k] \subseteq Of(k)'
                      /\ vcsmeta # TornMeta => vcsmeta[k] \subseteq Of(k)'
    BY <1>2 DEF HeldInv
  <2>1. Of(k)' = Of(k) \cup new(k) /\ Nodes(k)' = Nodes(k) \cup new(k)
    BY <1>3, <1>4
  <2>2. /\ committed[k] \in Of(k) \cup {0}
        /\ btree[k] \in Of(k) \cup {0} /\ super.root[k] \in Of(k) \cup {0}
        /\ Nodes(k) \subseteq Of(k) /\ vidx.saved[k] \subseteq Of(k)
        /\ vcsmeta # TornMeta => vcsmeta[k] \subseteq Of(k)
    BY <1>1 DEF HeldInv
  <2>3. committed'[k] \in Of(k)' \cup {0} /\ btree'[k] \in Of(k)' \cup {0}
    BY <1>5, <1>6, <1>8, <2>1, <2>2
  <2> QED
    BY <2>1, <2>2, <2>3
<1>10. FoldInv'
  <2> SUFFICES ASSUME NEW k \in Key, NEW l \in Lsns(wal, k), l > super.wal_lsn
               PROVE  \E m \in Nodes(k)' : l <= m
    BY <1>2 DEF FoldInv, Lsns
  <2>1. CASE k \in Flushed
    BY <1>4, <1>7, <1>8, <2>1
  <2>2. CASE k \notin Flushed
    BY <1>1, <1>4, <1>6, <2>2 DEF FoldInv
  <2> QED
    BY <2>1, <2>2
<1>11. NewestInv'
  <2> SUFFICES ASSUME NEW k \in Key, NEW l \in Of(k)', l \notin unloaded
               PROVE  /\ committed'[k] = 0 \/ l <= committed'[k]
                      /\ btree'[k] = 0 \/ l <= btree'[k]
                      /\ \/ super.root[k] = 0 \/ l <= super.root[k]
                         \/ l > super.wal_lsn
    BY <1>2 DEF NewestInv
  <2>1. CASE k \in Flushed
    <3>1. l <= memtable[k].lsn
      BY <1>3, <1>7, <2>1
    <3>2. CASE l \in Of(k)
      BY <1>1, <1>5, <2>1, <3>1, <3>2 DEF NewestInv
    <3>3. CASE l \notin Of(k)
      <4>1. l = memtable[k].lsn
        BY <1>3, <1>8, <3>3
      <4> QED
        BY <1>5, <1>7, <2>1, <3>1, <4>1
    <3> QED
      BY <3>2, <3>3
  <2>2. CASE k \notin Flushed
    <3>1. l \in Of(k) /\ memtable[k] = NoEntry
      BY <1>3, <1>6, <1>8, <2>2
    <3> QED
      BY <1>1, <1>6, <2>2, <3>1 DEF NewestInv
  <2> QED
    BY <2>1, <2>2
<1>12. FloorInv'
  <2> SUFFICES ASSUME NEW k \in Key, NEW l \in Of(k)',
                      l \notin Nodes(k)' \cup unloaded
               PROVE  \E n \in Of(k)' : Hidden(l, n)'
    BY <1>2 DEF FloorInv
  <2>1. l \in Of(k) /\ l \notin Nodes(k) \cup unloaded
    BY <1>3, <1>4
  <2>2. PICK n \in Of(k) : Hidden(l, n)
    BY <1>1, <2>1 DEF FloorInv
  <2>3. n \in Of(k)'
    BY <1>3
  <2>4. n <= stable_lsn'
    <3>1. n \in Nat /\ stable_lsn \in Nat /\ stable_lsn' \in Nat
      <4>1. stable_lsn \in Lsn /\ stable_lsn' \in Lsn
        BY DEF IInv, TypeOK
      <4> QED
        BY <4>1, OfIsLsns, LsnIsNat
    <3> QED
      BY <2>2, <3>1 DEF Hidden
  <2>5. Hidden(l, n)'
    BY <1>2, <2>2, <2>4 DEF Hidden, Taken, Counting, pins
  <2> QED
    BY <2>3, <2>5
<1>13. IndexInv'
  <2>1. ASSUME NEW l \in lsn_index'
        PROVE  \E i \in DOMAIN datafile' : datafile'[i].lsn = l
    <3>1. CASE l \in lsn_index
      <4>1. PICK i \in DOMAIN datafile : datafile[i].lsn = l
        BY <1>1, <3>1 DEF IndexInv
      <4>2. i \in DOMAIN datafile' /\ datafile'[i] = datafile[i]
        BY <1>1, FileAfterFlush
      <4> QED
        BY <4>1, <4>2
    <3>2. CASE l \notin lsn_index
      <4>1. PICK k \in Flushed : l = memtable[k].lsn
        BY <1>2, <3>2
      <4>2. PICK i \in DOMAIN datafile' : datafile'[i] = DataOf(k, gc'.active)
        BY <1>1, FileAfterFlush
      <4> QED
        BY <4>1, <4>2 DEF DataOf
    <3> QED
      BY <3>1, <3>2
  <2>5. ASSUME NEW k \in Key, lsn_index' \cap Of(k)' # {}, k \notin Flushed
        PROVE  lsn_index \cap Of(k) # {}
    <3>1. Of(k)' = Of(k)
      BY <1>3, <1>8, <2>5
    <3>2. PICK x \in lsn_index' : x \in Of(k)
      BY <2>5, <3>1
    <3>3. x \in lsn_index
      <4> SUFFICES ASSUME x \notin lsn_index PROVE FALSE
        OBVIOUS
      <4>1. PICK j \in Flushed : x = memtable[j].lsn
        BY <1>2, <3>2
      <4>2. /\ j \in Key /\ RecordOf(j) \in wal /\ memtable[j].lsn \in Nat
            /\ memtable[j].lsn > super.wal_lsn
        BY <1>7, FlushedIs
      <4>3. super.wal_lsn \in Nat
        BY <1>1, LsnIsNat DEF TypeOK
      <4>4. PICK r \in wal : r.lsn = x /\ r.key = k
        BY <3>2, <4>1, <4>2, <4>3, OfIsLsns
      <4>5. r = RecordOf(j)
        BY <4>1, <4>2, <4>4 DEF IInv, LogInv, RecordOf
      <4>6. j = k
        BY <4>4, <4>5 DEF RecordOf
      <4> QED
        BY <2>5, <4>6
    <3>4. lsn_index \cap Of(k) # {}
      BY <3>2, <3>3
    <3> QED
      BY <3>4
  <2>2. ASSUME NEW k \in Key, lsn_index' \cap Of(k)' # {}, NEW l \in Of(k)'
        PROVE  /\ committed'[k] = 0 \/ l <= committed'[k]
               /\ btree'[k] = 0 \/ l <= btree'[k]
    <3>1. CASE k \in Flushed
      BY <1>3, <1>5, <1>7, <3>1
    <3>2. CASE k \notin Flushed
      <4>1. Of(k)' = Of(k)
        BY <1>3, <1>8, <3>2
      <4> QED
        BY <1>1, <1>6, <2>2, <2>5, <3>2, <4>1 DEF IndexInv
    <3> QED
      BY <3>1, <3>2
  <2>3. \A k \in Key : k \in Flushed \/ Listed(chains[k]) => Listed(chains'[k])
    BY <1>1, FlushStepIs
  <2>4. ASSUME NEW k \in Key, lsn_index' \cap Of(k)' # {} PROVE Listed(chains[k])'
    <3>1. CASE k \in Flushed
      BY <2>3, <3>1 DEF Listed
    <3>2. CASE k \notin Flushed
      <4>1. Listed(chains[k])
        BY <1>1, <2>5, <2>4, <3>2 DEF IndexInv
      <4> QED
        BY <2>3, <4>1 DEF Listed
    <3> QED
      BY <3>1, <3>2
  <2> QED
    BY <1>1, <2>1, <2>2, <2>4 DEF IndexInv
<1> QED
  BY <1>9, <1>10, <1>11, <1>12, <1>13 DEF StoreInv

(* What is hidden from all snapshots stays hidden: a snapshot is taken at  *)
(* the stable LSN.                                                         *)
LEMMA HiddenStays ==
  ASSUME IInv, IInv', NEW k \in Key, NEW l, NEW n \in Of(k), Hidden(l, n),
         stable_lsn <= stable_lsn',
         \A r \in Reader : Taken(r)' =>
           \/ Taken(r) /\ reader'[r].lsn = reader[r].lsn
           \/ reader'[r].lsn = stable_lsn
  PROVE  Hidden(l, n)'
<1>1. n \in Nat /\ stable_lsn \in Nat /\ stable_lsn' \in Nat
  <2>1. stable_lsn \in Lsn /\ stable_lsn' \in Lsn
    BY DEF IInv, TypeOK
  <2> QED
    BY <2>1, OfIsLsns, LsnIsNat
<1>2. /\ l < n /\ n <= stable_lsn
      /\ \A r \in Reader : Taken(r) => n <= reader[r].lsn
  BY DEF Hidden
<1>3. n <= stable_lsn'
  BY <1>1, <1>2
<1>4. ASSUME NEW r \in Reader, Taken(r)' PROVE n <= reader'[r].lsn
  BY <1>2, <1>4
<1> QED
  BY <1>2, <1>3, <1>4 DEF Hidden

(* Steps that change neither the log nor a map nor a chain.                *)
LEMMA StoreUnchanged ==
  ASSUME IInv, IInv', StoreInv, Running' = Running,
         UNCHANGED <<wal, datafile, super, memory, unloaded>>,
         \A k \in Key : \/ vidx'.saved[k] = vidx.saved[k]
                        \/ vidx'.saved[k] \subseteq Nodes(k),
         \/ vcsmeta' = vcsmeta
         \/ \A k \in Key : vcsmeta'[k] \subseteq Nodes(k),
         \A r \in Reader : Taken(r)' =>
           \/ Taken(r) /\ reader'[r].lsn = reader[r].lsn
           \/ reader'[r].lsn = stable_lsn
  PROVE  StoreInv'
<1>1. /\ wal' = wal /\ datafile' = datafile /\ super' = super
      /\ memtable' = memtable /\ committed' = committed /\ btree' = btree
      /\ chains' = chains /\ lsn_index' = lsn_index
      /\ stable_lsn' = stable_lsn /\ unloaded' = unloaded
  BY DEF memory
<1>2. HeldInv /\ FoldInv /\ NewestInv /\ FloorInv /\ IndexInv
  BY DEF StoreInv
<1>3. \A k \in Key : Of(k)' = Of(k) /\ Nodes(k)' = Nodes(k)
  BY <1>1, OfUnchanged DEF Nodes, Merged
<1>4. HeldInv'
  <2> SUFFICES ASSUME NEW k \in Key
               PROVE  /\ committed[k] \in Of(k) \cup {0}
                      /\ btree[k] \in Of(k) \cup {0}
                      /\ super.root[k] \in Of(k) \cup {0}
                      /\ Nodes(k) \subseteq Of(k)
                      /\ vidx'.saved[k] \subseteq Of(k)
                      /\ vcsmeta' # TornMeta => vcsmeta'[k] \subseteq Of(k)
    BY <1>1, <1>3 DEF HeldInv
  <2>1. /\ committed[k] \in Of(k) \cup {0}
        /\ btree[k] \in Of(k) \cup {0} /\ super.root[k] \in Of(k) \cup {0}
        /\ Nodes(k) \subseteq Of(k) /\ vidx.saved[k] \subseteq Of(k)
        /\ vcsmeta # TornMeta => vcsmeta[k] \subseteq Of(k)
    BY <1>2 DEF HeldInv
  <2>2. vidx'.saved[k] \subseteq Of(k)
    BY <2>1
  <2>3. vcsmeta' # TornMeta => vcsmeta'[k] \subseteq Of(k)
    <3>1. CASE vcsmeta' = vcsmeta
      BY <2>1, <3>1
    <3>2. CASE vcsmeta'[k] \subseteq Nodes(k)
      BY <2>1, <3>2
    <3> QED
      BY <3>1, <3>2
  <2> QED
    BY <2>1, <2>2, <2>3
<1>5. FoldInv'
  BY <1>1, <1>2, <1>3 DEF FoldInv, Lsns
<1>6. NewestInv'
  BY <1>1, <1>2, <1>3 DEF NewestInv
<1>7. FloorInv'
  <2> SUFFICES ASSUME Running, NEW k \in Key, NEW l \in Of(k),
                      l \notin Nodes(k) \cup unloaded
               PROVE  \E n \in Of(k) : Hidden(l, n)'
    BY <1>1, <1>3 DEF FloorInv
  <2>1. PICK n \in Of(k) : Hidden(l, n)
    BY <1>2 DEF FloorInv
  <2>2. stable_lsn <= stable_lsn'
    <3>1. stable_lsn \in Lsn
      BY DEF IInv, TypeOK
    <3> QED
      BY <1>1, <3>1, LsnIsNat
  <2> QED
    BY <2>1, <2>2, HiddenStays
<1>8. IndexInv'
  BY <1>1, <1>2, <1>3 DEF IndexInv, Listed
<1> QED
  BY <1>4, <1>5, <1>6, <1>7, <1>8 DEF StoreInv

LEMMA StoreAfterPin ==
  ASSUME IInv, IInv', StoreInv, NEW r \in Reader, PinStep(r)
  PROVE  StoreInv'
<1>1. UNCHANGED <<wal, datafile, super, vidx, vcsmeta, memory, unloaded, phase>>
  BY DEF PinStep, Capture, PinCount, PinRead, PinWrite, ReleaseCount,
     ReleaseReset, PinsOnly
<1>2. ASSUME NEW o \in Reader, Taken(o)'
      PROVE  \/ Taken(o) /\ reader'[o].lsn = reader[o].lsn
             \/ reader'[o].lsn = stable_lsn
  <2>1. CASE o # r
    <3>1. reader'[o] = reader[o]
      BY <2>1, PinStepIs DEF IInv
    <3> QED
      BY <1>2, <3>1 DEF Taken, Counting
  <2>2. CASE o = r
    <3>1. reader'[r].pc \in {"captured", "counted", "lowers", "pinned"}
      BY <1>2, <2>2 DEF Taken, Counting
    <3>2. \/ reader[r].pc \in {"captured", "counted", "lowers"}
             /\ reader'[r].lsn = reader[r].lsn
          \/ reader'[r].lsn = stable_lsn
      <4>1. TypeOK
        BY DEF IInv
      <4>2. \/ reader'[r].lsn = stable_lsn
            \/ reader[r].pc \in {"captured", "counted", "lowers"}
               /\ reader'[r].lsn = reader[r].lsn
            \/ reader'[r].pc \in {"none", "last"}
        <5>1. PinEffect(r)
          BY <4>1, PinStepIs
        <5> QED
          BY <5>1 DEF PinEffect, NoSnapshot
      <4> QED
        BY <3>1, <4>2
    <3> QED
      BY <2>2, <3>2 DEF Taken, Counting
  <2> QED
    BY <2>1, <2>2
<1>3. Running' = Running
  BY <1>1 DEF Running
<1> QED
  BY <1>1, <1>2, <1>3, StoreUnchanged

LEMMA StoreAfterSave ==
  ASSUME IInv, IInv', StoreInv,
         \/ AppendTLogSnapshot \/ SaveToFile \/ SaveMeta \/ UNCHANGED vars
  PROVE  StoreInv'
<1>1. /\ UNCHANGED <<wal, datafile, super, memory, unloaded, reader>>
      /\ \/ vidx' = vidx \/ vidx' = Vidx("whole", Key)
      /\ \/ vcsmeta' = vcsmeta
         \/ vcsmeta' = [k \in Key |-> chains[k].overflow]
      /\ Running' = Running
  <2>1. CASE AppendTLogSnapshot
    BY <2>1 DEF AppendTLogSnapshot, pins, Running
  <2>2. CASE SaveToFile
    BY <2>2 DEF SaveToFile, pins, Running
  <2>3. CASE SaveMeta
    BY <2>3 DEF SaveMeta, pins, Running
  <2>4. CASE UNCHANGED vars
    BY <2>4 DEF vars, pins, Running
  <2> QED
    BY <2>1, <2>2, <2>3, <2>4
<1>2. ASSUME NEW k \in Key
      PROVE  \/ vidx'.saved[k] = vidx.saved[k]
             \/ vidx'.saved[k] \subseteq Nodes(k)
  BY <1>1 DEF Vidx, Nodes
<1>3. \/ vcsmeta' = vcsmeta
      \/ \A k \in Key : vcsmeta'[k] \subseteq Nodes(k)
  BY <1>1 DEF Nodes, Merged
<1>4. ASSUME NEW r \in Reader, Taken(r)'
      PROVE  Taken(r) /\ reader'[r].lsn = reader[r].lsn
  BY <1>1, <1>4 DEF Taken, Counting
<1> QED
  BY <1>1, <1>2, <1>3, <1>4, StoreUnchanged

LEMMA StoreAfterWrite ==
  ASSUME IInv, IInv', StoreInv, stable_lsn <= stable_lsn',
         NEW k \in Key, NEW del \in BOOLEAN, Write(k, del)
  PROVE  StoreInv'
<1> DEFINE lsn == CurrentLsn + 1
           e == [lsn |-> lsn, del |-> del]
<1>1. /\ phase = "idle" /\ phase' = phase
      /\ wal' = wal \cup {[lsn |-> lsn, key |-> k, del |-> del]}
      /\ memtable' = [memtable EXCEPT ![k] = e]
      /\ UNCHANGED <<datafile, super, vidx, vcsmeta, committed, btree, chains,
                     lsn_index, pins, unloaded>>
  BY DEF Write
<1>2. HeldInv /\ FoldInv /\ NewestInv /\ FloorInv /\ IndexInv
  BY DEF StoreInv
<1>3. \A j \in Key : Of(j)' = Of(j) /\ Nodes(j)' = Nodes(j)
  BY <1>1, OfUnchanged DEF Nodes, Merged
<1>4. Running /\ Running'
  BY <1>1 DEF Running
<1>5. e # NoEntry /\ memtable \in [Key -> Entry]
  <2>1. TypeOK
    BY DEF IInv
  <2>2. CurrentLsn \in Nat
    BY <2>1, CurrentLsnIs, LsnIsNat
  <2> QED
    BY <2>1, <2>2 DEF NoEntry, TypeOK
<1> HIDE DEF e, lsn
<1>6. \A j \in Key : memtable'[j] = NoEntry => j # k /\ memtable[j] = NoEntry
  BY <1>1, <1>5
<1>7. HeldInv'
  BY <1>1, <1>2, <1>3 DEF HeldInv
<1>8. FoldInv'
  <2> SUFFICES ASSUME NEW j \in Key, memtable'[j] = NoEntry,
                      NEW l \in Lsns(wal', j), l > super.wal_lsn
               PROVE  \E m \in Nodes(j) : l <= m
    BY <1>1, <1>3 DEF FoldInv, Lsns
  <2>1. j # k /\ memtable[j] = NoEntry
    BY <1>6
  <2>2. l \in Lsns(wal, j)
    BY <1>1, <2>1, LsnsIs
  <2> QED
    BY <1>2, <1>4, <2>1, <2>2 DEF FoldInv
<1>9. NewestInv'
  <2> SUFFICES ASSUME NEW j \in Key, NEW l \in Of(j) \ unloaded
               PROVE  /\ committed[j] = 0 \/ l <= committed[j]
                      /\ memtable'[j] = NoEntry
                           => btree[j] = 0 \/ l <= btree[j]
                      /\ \/ super.root[j] = 0 \/ l <= super.root[j]
                         \/ l > super.wal_lsn
    BY <1>1, <1>3, <1>4 DEF NewestInv
  <2> QED
    BY <1>2, <1>4, <1>6 DEF NewestInv
<1>10. FloorInv'
  <2> SUFFICES ASSUME NEW j \in Key, NEW l \in Of(j),
                      l \notin Nodes(j) \cup unloaded
               PROVE  \E n \in Of(j) : Hidden(l, n)'
    BY <1>1, <1>3 DEF FloorInv
  <2>1. PICK n \in Of(j) : Hidden(l, n)
    BY <1>2, <1>4 DEF FloorInv
  <2>2. ASSUME NEW r \in Reader, Taken(r)'
        PROVE  Taken(r) /\ reader'[r].lsn = reader[r].lsn
    BY <1>1, <2>2 DEF Taken, Counting, pins
  <2> QED
    BY <2>1, <2>2, HiddenStays
<1>11. IndexInv'
  BY <1>1, <1>2, <1>4, IndexUnchanged
<1> QED
  BY <1>7, <1>8, <1>9, <1>10, <1>11 DEF StoreInv

LEMMA StoreAfterSuper ==
  ASSUME IInv, IInv', StoreInv, CommitSuperBlock
  PROVE  StoreInv'
<1>1. CASE committed = NoKeys
  <2>1. /\ UNCHANGED <<wal, datafile, super, memory, unloaded, reader, vidx,
                       vcsmeta>>
        /\ phase = "superblock" /\ phase' = "idle"
    BY <1>1 DEF CommitSuperBlock, memory, pins
  <2>2. Running' = Running
    BY <2>1 DEF Running
  <2>3. \A r \in Reader : Taken(r)' => Taken(r) /\ reader'[r].lsn = reader[r].lsn
    BY <2>1 DEF Taken, Counting
  <2> QED
    BY <2>1, <2>2, <2>3, StoreUnchanged
<1>2. CASE committed # NoKeys
  <2>1. /\ phase = "superblock" /\ phase' = "vidx"
        /\ super' = [wal_lsn |-> CurrentLsn, data_lsn |-> stable_lsn,
                     root |-> committed]
        /\ btree' = committed
        /\ UNCHANGED <<wal, datafile, gc, vidx, vcsmeta, tlog, memtable,
                       committed, chains, lsn_index, stable_lsn, pins, crashes,
                       unloaded>>
    BY <1>2 DEF CommitSuperBlock
  <2>2. HeldInv /\ FoldInv /\ NewestInv /\ FloorInv /\ IndexInv
    BY DEF StoreInv
  <2>3. \A k \in Key : Of(k)' = Of(k) /\ Nodes(k)' = Nodes(k)
    BY <2>1, OfUnchanged DEF Nodes, Merged
  <2>4. Running /\ Running'
    BY <2>1 DEF Running
  <2>5. /\ super.wal_lsn \in Nat /\ super'.wal_lsn \in Nat
        /\ super.wal_lsn <= super'.wal_lsn
        /\ \A r \in wal : r.lsn \in Nat
    <3>1. TypeOK
      BY DEF IInv
    <3>2. /\ CurrentLsn \in Lsn /\ super.wal_lsn <= CurrentLsn
          /\ super.wal_lsn \in Lsn /\ \A r \in wal : r.lsn \in Lsn
      BY <3>1, CurrentLsnIs DEF TypeOK, Record
    <3> QED
      BY <2>1, <3>2, LsnIsNat
  <2>6. HeldInv'
    BY <2>1, <2>2, <2>3 DEF HeldInv
  <2>7. FoldInv'
    <3> SUFFICES ASSUME NEW k \in Key, memtable[k] = NoEntry,
                        NEW l \in Lsns(wal, k), l > super'.wal_lsn
                 PROVE  \E m \in Nodes(k) : l <= m
      BY <2>1, <2>3 DEF FoldInv, Lsns
    <3>1. l \in Nat
      BY <2>5, LsnsIs
    <3>2. l > super.wal_lsn
      BY <2>5, <3>1
    <3> QED
      BY <2>2, <2>4, <3>2 DEF FoldInv
  <2>8. NewestInv'
    BY <2>1, <2>2, <2>3, <2>4 DEF NewestInv
  <2>9. FloorInv'
    <3> SUFFICES ASSUME NEW k \in Key, NEW l \in Of(k),
                        l \notin Nodes(k) \cup unloaded
                 PROVE  \E n \in Of(k) : Hidden(l, n)'
      BY <2>1, <2>3 DEF FloorInv
    <3>1. PICK n \in Of(k) : Hidden(l, n)
      BY <2>2, <2>4 DEF FloorInv
    <3>2. Hidden(l, n)'
      BY <2>1, <3>1 DEF Hidden, Taken, Counting, pins
    <3> QED
      BY <3>2
  <2>10. IndexInv'
    BY <2>1, <2>2, <2>4, IndexUnchanged
  <2> QED
    BY <2>6, <2>7, <2>8, <2>9, <2>10 DEF StoreInv
<1> QED
  BY <1>1, <1>2

(* Compaction at the pinned LSN drops only what is hidden from every        *)
(* snapshot taken, or was in no chain of chains_.                          *)
LEMMA NodesAfterCompact ==
  ASSUME IInv, CompactAndTruncate, NEW k \in Key
  PROVE  /\ Nodes(k)' \subseteq Nodes(k)
         /\ \A l \in Nodes(k) :
              \/ l \in Nodes(k)'
              \/ \E n \in Nodes(k)' : l < n /\ n <= pinned_snapshot_lsn
              \/ ~Listed(chains[k]) /\ l \in unloaded'
         /\ pinned_snapshot_lsn = 0 => Nodes(k)' = Nodes(k)
         /\ Listed(chains[k]) => Listed(chains'[k])
<1> DEFINE c == CompactBelow(chains[k], pinned_snapshot_lsn)
<1>1. /\ Nodes(k)' = Merged(c) /\ chains'[k] = c
      /\ unloaded' = unloaded \cup
           UNION {Merged(chains[j]) \ Merged(chains'[j]) :
                    j \in {j \in Key : ~Listed(chains[j])}}
  BY DEF CompactAndTruncate, Nodes, Merged
<1>2. /\ chains[k] \in Chain /\ Cardinality(chains[k].inline) <= InlineMax
      /\ pinned_snapshot_lsn \in Lsn
  BY DEF IInv, TypeOK, Chain
<1>3. /\ Merged(c) \subseteq Merged(chains[k])
      /\ pinned_snapshot_lsn = 0 => c = chains[k]
      /\ Listed(chains[k]) \/ pinned_snapshot_lsn = 0 =>
           \A l \in Merged(chains[k]) :
             \/ l \in Merged(c)
             \/ \E n \in Merged(c) : l < n /\ n <= pinned_snapshot_lsn
      /\ Listed(chains[k]) => Listed(c)
  BY <1>2, CompactBelowIs
<1> HIDE DEF c
<1>4. ASSUME ~Listed(chains[k]), NEW l \in Merged(chains[k]), l \notin Merged(c)
      PROVE  l \in unloaded'
  <2>1. l \in Merged(chains[k]) \ Merged(chains'[k])
    BY <1>1, <1>4
  <2> QED
    BY <1>1, <1>4, <2>1
<1> QED
  BY <1>1, <1>3, <1>4 DEF Nodes

LEMMA StoreAfterCompact ==
  ASSUME IInv, IInv', StoreInv, PinInv, CoveredInv, CompactAndTruncate
  PROVE  StoreInv'
<1>1. /\ phase = "compact" /\ phase' = "idle"
      /\ wal' = {r \in wal : r.lsn > super.wal_lsn}
      /\ unloaded \subseteq unloaded'
      /\ UNCHANGED <<datafile, super, vidx, vcsmeta, memtable, committed, btree,
                     lsn_index, stable_lsn, pins>>
  BY DEF CompactAndTruncate
<1>2. HeldInv /\ FoldInv /\ NewestInv /\ FloorInv /\ IndexInv
  BY DEF StoreInv
<1>3. \A k \in Key : Of(k)' = Of(k)
  BY <1>1, OfUnchanged
<1>4. Running /\ Running'
  BY <1>1 DEF Running
<1>5. ASSUME NEW k \in Key
      PROVE  /\ Nodes(k) \subseteq Of(k) /\ Nodes(k)' \subseteq Of(k)
             /\ \A l \in Of(k) : l \in Nat
  BY <1>2, NodesAfterCompact, OfIsLsns DEF HeldInv
<1>6. HeldInv'
  BY <1>1, <1>2, <1>3, <1>5 DEF HeldInv
<1>7. FoldInv'
  <2>1. ASSUME NEW r \in wal' PROVE FALSE
    <3>1. r \in wal /\ r.lsn > super.wal_lsn /\ r.lsn <= super.wal_lsn
      BY <1>1 DEF CoveredInv
    <3>2. r.lsn \in Nat /\ super.wal_lsn \in Nat
      BY <3>1, LsnIsNat DEF IInv, TypeOK, Record
    <3> QED
      BY <3>1, <3>2
  <2>2. \A k \in Key : Lsns(wal', k) = {}
    BY <2>1 DEF Lsns
  <2> QED
    BY <2>2 DEF FoldInv, Lsns
<1>8. NewestInv'
  <2> SUFFICES ASSUME NEW k \in Key, NEW l \in Of(k) \ unloaded
               PROVE  /\ committed[k] = 0 \/ l <= committed[k]
                      /\ memtable[k] = NoEntry => btree[k] = 0 \/ l <= btree[k]
                      /\ \/ super.root[k] = 0 \/ l <= super.root[k]
                         \/ l > super.wal_lsn
    BY <1>1, <1>3 DEF NewestInv
  <2> QED
    BY <1>2, <1>4 DEF NewestInv
<1>9. FloorInv'
  <2> SUFFICES ASSUME NEW k \in Key, NEW l \in Of(k),
                      l \notin Nodes(k)' \cup unloaded'
               PROVE  \E n \in Of(k) : Hidden(l, n)
    BY <1>1, <1>3 DEF FloorInv, Hidden, Taken, Counting, pins
  <2>1. CASE l \in Nodes(k)
    <3>1. PICK n \in Nodes(k)' : l < n /\ n <= pinned_snapshot_lsn
      BY <2>1, NodesAfterCompact
    <3>2. /\ n \in Nat /\ n \in Of(k)
          /\ pinned_snapshot_lsn \in Nat /\ stable_lsn \in Nat
          /\ \A r \in Reader : reader[r].lsn \in Nat
      <4>1. /\ pinned_snapshot_lsn \in Lsn /\ stable_lsn \in Lsn
            /\ \A r \in Reader : reader[r].lsn \in Lsn
        BY DEF IInv, TypeOK
      <4> QED
        BY <1>5, <4>1, LsnIsNat
    <3>3. /\ pinned_snapshot_lsn <= stable_lsn
          /\ \A r \in Reader : Taken(r) => pinned_snapshot_lsn <= reader[r].lsn
      BY DEF PinInv
    <3>4. n <= stable_lsn
      BY <3>1, <3>2, <3>3
    <3>5. ASSUME NEW r \in Reader, Taken(r) PROVE n <= reader[r].lsn
      BY <3>1, <3>2, <3>3, <3>5
    <3>6. l \in Nat /\ Hidden(l, n)
      BY <1>5, <3>1, <3>4, <3>5 DEF Hidden
    <3> QED
      BY <3>2, <3>6
  <2>2. CASE l \notin Nodes(k)
    BY <1>1, <1>2, <1>4, <2>2 DEF FloorInv
  <2> QED
    BY <2>1, <2>2
<1>10. IndexInv'
  <2>1. \A k \in Key : Listed(chains[k]) => Listed(chains'[k])
    BY NodesAfterCompact
  <2> QED
    BY <1>1, <1>2, <1>4, <2>1, IndexUnchanged
<1> QED
  BY <1>6, <1>7, <1>8, <1>9, <1>10 DEF StoreInv

LEMMA StoreAfterCrash ==
  ASSUME IInv, IInv', StoreInv, Crash
  PROVE  StoreInv'
<1>1. /\ committed' = NoKeys /\ btree' = NoKeys
      /\ chains' = [k \in Key |-> NoChain]
      /\ lsn_index' = {} /\ phase' = "down"
      /\ UNCHANGED <<datafile, super, unloaded>>
  BY DEF Crash
<1>2. HeldInv /\ NewestInv
  BY DEF StoreInv
<1>3. \A k \in Key : Of(k)' = Of(k)
  BY <1>1, OfUnchanged
<1>4. ~Running'
  BY <1>1 DEF Running
<1>5. \A k \in Key : committed'[k] = 0 /\ btree'[k] = 0 /\ Nodes(k)' = {}
  BY <1>1 DEF NoKeys, NoChain, Nodes, Merged
<1>6. \A k \in Key : vidx'.saved[k] \subseteq vidx.saved[k] \cup Nodes(k)
  <2>1. \/ vidx' = vidx \/ \E form, keys : vidx' = Vidx(form, keys)
    BY DEF Crash
  <2> QED
    BY <2>1 DEF Vidx, Nodes
<1>7. vcsmeta' = vcsmeta \/ vcsmeta' = TornMeta
  BY DEF Crash
<1>8. HeldInv'
  <2> SUFFICES ASSUME NEW k \in Key
               PROVE  /\ super.root[k] \in Of(k) \cup {0}
                      /\ vidx'.saved[k] \subseteq Of(k)
                      /\ vcsmeta' # TornMeta => vcsmeta'[k] \subseteq Of(k)
    BY <1>1, <1>3, <1>5 DEF HeldInv
  <2>1. /\ super.root[k] \in Of(k) \cup {0} /\ Nodes(k) \subseteq Of(k)
        /\ vidx.saved[k] \subseteq Of(k)
        /\ vcsmeta # TornMeta => vcsmeta[k] \subseteq Of(k)
    BY <1>2 DEF HeldInv
  <2>2. vidx'.saved[k] \subseteq Of(k)
    BY <1>6, <2>1
  <2>3. vcsmeta' # TornMeta => vcsmeta'[k] \subseteq Of(k)
    BY <1>7, <2>1
  <2> QED
    BY <2>1, <2>2, <2>3
<1>9. FoldInv' /\ FloorInv'
  BY <1>4 DEF FoldInv, FloorInv
<1>10. NewestInv'
  BY <1>1, <1>2, <1>3, <1>4, <1>5 DEF NewestInv
<1>11. IndexInv'
  BY <1>1 DEF IndexInv
<1> QED
  BY <1>8, <1>9, <1>10, <1>11 DEF StoreInv

LEMMA StoreAfterOpen ==
  ASSUME IInv, IInv', StoreInv, Open
  PROVE  StoreInv'
<1>1. /\ phase = "down" /\ phase' = "idle" /\ vcsmeta # TornMeta
      /\ committed' = LoadDatafile /\ btree' = super.root
      /\ memtable' = ReplayPending
      /\ chains' = [k \in Key |-> LoadChain(k)]
      /\ unloaded' = unloaded \cup
           {r.lsn : r \in {r \in Stored : \/ r.lsn \notin Merged(LoadChain(r.key))
                                          \/ ~GenerationVisible(r)}}
      /\ UNCHANGED <<wal, datafile, super, vidx, vcsmeta, lsn_index>>
  BY DEF Open
<1>2. TypeOK /\ LogInv /\ FileInv /\ HeldInv /\ NewestInv /\ IndexInv
  BY DEF IInv, StoreInv
<1>3. \A k \in Key : Of(k)' = Of(k)
  BY <1>1, OfUnchanged
<1>4. \A k \in Key : Nodes(k)' = Merged(LoadChain(k))
  BY <1>1 DEF Nodes, Merged
<1>5. ~Running /\ Running' /\ lsn_index' = {}
  BY <1>1, <1>2 DEF Running, IndexInv
<1>6. ASSUME NEW k \in Key, NEW l \in Of(k), l \notin unloaded'
      PROVE  /\ l \in Merged(LoadChain(k))
             /\ \E i \in DOMAIN datafile :
                  /\ datafile[i].key = k /\ datafile[i].lsn = l
                  /\ GenerationVisible(datafile[i])
  <2>1. PICK i \in DOMAIN datafile : datafile[i].key = k /\ datafile[i].lsn = l
    BY OfIs
  <2>2. datafile[i] \in Stored
    BY DEF Stored, Range
  <2> QED
    BY <1>1, <1>6, <2>1, <2>2
<1>7. HeldInv'
  <2> SUFFICES ASSUME NEW k \in Key
               PROVE  /\ LoadDatafile[k] \in Of(k) \cup {0}
                      /\ super.root[k] \in Of(k) \cup {0}
                      /\ Merged(LoadChain(k)) \subseteq Of(k)
                      /\ vidx.saved[k] \subseteq Of(k)
                      /\ vcsmeta[k] \subseteq Of(k)
    BY <1>1, <1>3, <1>4 DEF HeldInv
  <2>1. /\ super.root[k] \in Of(k) \cup {0}
        /\ vidx.saved[k] \subseteq Of(k) /\ vcsmeta[k] \subseteq Of(k)
    BY <1>1, <1>2 DEF HeldInv
  <2>2. Merged(LoadChain(k)) \subseteq Of(k)
    BY <1>2, <2>1, LoadChainIs
  <2>3. LoadDatafile[k] \in Of(k) \cup {0}
    <3> DEFINE at == {i \in DOMAIN datafile : /\ datafile[i].key = k
                                              /\ GenerationVisible(datafile[i])}
    <3>1. LoadDatafile[k] = LiveAfter(at)
      BY DEF LoadDatafile
    <3>2. /\ at # {} => Max(at) \in at
          /\ LiveAfter(at) # 0 => at # {} /\ LiveAfter(at) = datafile[Max(at)].lsn
      BY <1>2, LiveAfterIs DEF TypeOK
    <3> QED
      BY <3>1, <3>2, OfIs
  <2> QED
    BY <2>1, <2>2, <2>3
<1>8. FoldInv'
  <2> SUFFICES ASSUME NEW k \in Key, ReplayPending[k] = NoEntry,
                      NEW l \in Lsns(wal, k), l > super.wal_lsn
               PROVE  FALSE
    BY <1>1 DEF FoldInv, Lsns
  <2> QED
    BY <1>2, ReplayPendingIs
<1>9. NewestInv'
  <2> SUFFICES ASSUME NEW k \in Key, NEW l \in Of(k), l \notin unloaded'
               PROVE  /\ LoadDatafile[k] = 0 \/ l <= LoadDatafile[k]
                      /\ ReplayPending[k] = NoEntry =>
                           super.root[k] = 0 \/ l <= super.root[k]
                      /\ \/ super.root[k] = 0 \/ l <= super.root[k]
                         \/ l > super.wal_lsn
    BY <1>1, <1>3, <1>5 DEF NewestInv
  <2>1. \/ super.root[k] = 0 \/ l <= super.root[k] \/ l > super.wal_lsn
    <3>1. l \notin unloaded
      BY <1>1
    <3> QED
      BY <1>2, <3>1 DEF NewestInv
  <2>2. ASSUME ReplayPending[k] = NoEntry
        PROVE  super.root[k] = 0 \/ l <= super.root[k]
    <3>1. ~(l > super.wal_lsn)
      <4>1. l \in Nat /\ super.wal_lsn \in Nat
        BY <1>2, OfIsLsns, LsnIsNat DEF TypeOK
      <4>2. \/ l <= super.wal_lsn \/ l \in Lsns(wal, k)
        BY OfIsLsns, LsnsIs
      <4> QED
        BY <1>2, <2>2, <4>1, <4>2, ReplayPendingIs
    <3> QED
      BY <2>1, <3>1
  <2>3. LoadDatafile[k] = 0 \/ l <= LoadDatafile[k]
    <3> DEFINE at == {i \in DOMAIN datafile : /\ datafile[i].key = k
                                              /\ GenerationVisible(datafile[i])}
    <3>1. LoadDatafile[k] = LiveAfter(at)
      BY DEF LoadDatafile
    <3>2. /\ at # {} => Max(at) \in at /\ \A i \in at : i <= Max(at)
          /\ LiveAfter(at) # 0 => LiveAfter(at) = datafile[Max(at)].lsn
      BY <1>2, LiveAfterIs DEF TypeOK
    <3>3. PICK i \in at : datafile[i].lsn = l
      BY <1>6
    <3>4. /\ i \in DOMAIN datafile /\ Max(at) \in DOMAIN datafile
          /\ datafile[i].key = datafile[Max(at)].key
      BY <3>2, <3>3
    <3>5. l <= datafile[Max(at)].lsn
      <4>1. CASE i = Max(at)
        <5>1. l \in Nat
          BY OfIsLsns
        <5> QED
          BY <3>3, <4>1, <5>1
      <4>2. CASE i # Max(at)
        <5>1. i \in Nat /\ Max(at) \in Nat
          <6>1. datafile \in Seq(DataRecord)
            BY <1>2 DEF TypeOK
          <6> QED
            BY <3>4, <6>1
        <5>2. i < Max(at)
          BY <3>2, <4>2, <5>1
        <5> QED
          BY <1>2, <3>3, <3>4, <5>2 DEF FileInv
      <4> QED
        BY <4>1, <4>2
    <3> HIDE DEF at
    <3> QED
      BY <3>1, <3>2, <3>5
  <2> QED
    BY <2>1, <2>2, <2>3
<1>10. FloorInv'
  BY <1>3, <1>4, <1>6 DEF FloorInv
<1>11. IndexInv'
  BY <1>5 DEF IndexInv
<1> QED
  BY <1>7, <1>8, <1>9, <1>10, <1>11 DEF StoreInv

(* Between the superblock and the truncation nothing enters the log.       *)
LEMMA CoveredAfter ==
  ASSUME IInv, CoveredInv, [Next]_vars
  PROVE  CoveredInv'
<1> DEFINE Late == {"vidx", "meta", "compact"}
<1>1. CASE CommitSuperBlock
  <2>1. CASE phase' = "idle"
    BY <2>1 DEF CoveredInv
  <2>2. CASE phase' = "vidx"
    <3>1. super'.wal_lsn = CurrentLsn /\ wal' = wal
      BY <1>1, <2>2 DEF CommitSuperBlock
    <3>2. \A r \in wal : r.lsn <= CurrentLsn
      BY CurrentLsnIs DEF IInv
    <3> QED
      BY <3>1, <3>2 DEF CoveredInv
  <2> QED
    BY <1>1, <2>1, <2>2 DEF CommitSuperBlock
<1>2. CASE phase' \notin Late
  BY <1>2 DEF CoveredInv
<1>3. CASE phase' \in Late /\ ~CommitSuperBlock
  <2>1. wal' = wal /\ super' = super /\ phase \in Late
    BY <1>3 DEF Next, vars, PinsOnly, Write, Flush, CheckpointFlush,
       AppendTLogSnapshot, SaveToFile, SaveMeta, CompactAndTruncate, Capture,
       PinCount, PinRead, PinWrite, ReleaseCount, ReleaseReset, Crash, Open
  <2> QED
    BY <2>1 DEF CoveredInv
<1> QED
  BY <1>1, <1>2, <1>3

LEMMA NextSInv ==
  ASSUME PinsSerially, IInv, SInv, [Next]_vars
  PROVE  SInv'
<1>1. IInv'
  BY NextIInv
<1>2. StableInv' /\ PinInv' /\ CoveredInv'
  BY <1>1, StableAfter, PinInvAfter, CoveredAfter DEF SInv
<1> SUFFICES StoreInv'
  BY <1>2 DEF SInv, StoreInv
<1>3. StoreInv /\ StableInv /\ PinInv /\ CoveredInv
  BY DEF SInv, StoreInv
<1>4. CASE UNCHANGED vars
  BY <1>1, <1>3, <1>4, StoreAfterSave
<1>5. ASSUME NEW k \in Key, NEW del \in BOOLEAN, Write(k, del)
      PROVE  StoreInv'
  <2>1. Running /\ Running'
    BY <1>5 DEF Write, Running
  <2> QED
    BY <1>1, <1>3, <1>5, <2>1, StableAfter, StoreAfterWrite
<1>6. CASE FlushStep
  <2>1. Running /\ Running'
    BY <1>6 DEF FlushStep, Flush, CheckpointFlush, Running
  <2> QED
    BY <1>1, <1>3, <1>6, <2>1, StableAfter, StoreAfterFlush
<1>7. CASE AppendTLogSnapshot \/ SaveToFile \/ SaveMeta
  BY <1>1, <1>3, <1>7, StoreAfterSave
<1>8. CASE CommitSuperBlock
  BY <1>1, <1>3, <1>8, StoreAfterSuper
<1>9. CASE CompactAndTruncate
  BY <1>1, <1>3, <1>9, StoreAfterCompact
<1>10. CASE \E r \in Reader : PinStep(r)
  BY <1>1, <1>3, <1>10, StoreAfterPin
<1>11. CASE Crash
  BY <1>1, <1>3, <1>11, StoreAfterCrash
<1>12. CASE Open
  BY <1>1, <1>3, <1>12, StoreAfterOpen
<1> QED
  BY <1>4, <1>5, <1>6, <1>7, <1>8, <1>9, <1>10, <1>11, <1>12
  DEF Next, FlushStep, PinStep

THEOREM SInvInvariant == ASSUME PinsSerially PROVE Spec => [](IInv /\ SInv)
<1>1. Init => IInv /\ SInv
  BY InitIInv, InitSInv
<1>2. IInv /\ SInv /\ [Next]_vars => (IInv /\ SInv)'
  BY NextIInv, NextSInv
<1> QED
  BY <1>1, <1>2, PTL DEF Spec

(* The newest stored version of a key at or below a pinned snapshot is in  *)
(* its chain, unless an open did not load it; nothing between them is.     *)
LEMMA FloorIsNewest ==
  ASSUME IInv, SInv, Running, NEW r \in Reader, Taken(r), NEW k \in Key,
         NEW v \in Of(k), v <= reader[r].lsn, v \notin unloaded,
         \A l \in Of(k) : l <= reader[r].lsn => l <= v
  PROVE  v \in Nodes(k) /\ Floor(k, reader[r].lsn) = v
<1> DEFINE p == reader[r].lsn
           S == {l \in Nodes(k) : l <= p}
<1>1. /\ Nodes(k) \subseteq Of(k) /\ Of(k) \in SUBSET Lsn /\ Of(k) \in SUBSET Nat
      /\ p \in Nat
  <2>1. p \in Lsn
    BY DEF IInv, TypeOK
  <2> QED
    BY <2>1, OfIsLsns, LsnIsNat DEF SInv, HeldInv
<1>2. v \in Nodes(k)
  <2> SUFFICES ASSUME NEW n \in Of(k), Hidden(v, n) PROVE FALSE
    BY DEF SInv, FloorInv
  <2>1. v < n /\ n <= p
    BY DEF Hidden
  <2>2. n <= v
    BY <2>1
  <2> QED
    BY <1>1, <2>1, <2>2
<1>3. S \in SUBSET Lsn /\ v \in S /\ \A l \in S : l <= v
  BY <1>1, <1>2
<1>4. Floor(k, p) = LastOf(S)
  BY DEF Floor, Nodes
<1> HIDE DEF S
<1> QED
  BY <1>2, <1>3, <1>4, LastOfIs

(* Nothing stored at or below a snapshot: nothing in the chain either.     *)
LEMMA FloorIsNothing ==
  ASSUME IInv, SInv, NEW k \in Key, NEW p, \A l \in Of(k) : ~(l <= p)
  PROVE  Floor(k, p) = 0
<1> DEFINE S == {l \in Nodes(k) : l <= p}
<1>1. S = {}
  BY DEF SInv, HeldInv
<1>2. Floor(k, p) = LastOf(S)
  BY DEF Floor, Nodes
<1>3. LastOf({}) \in {} \cup {0}
  BY LastOfIsGreatest
<1> QED
  BY <1>1, <1>2, <1>3

(* With one thread for all snapshots, a read at a pinned one finds the     *)
(* newest stored version below it (GetAtSnapshotCore, CompactBelow).       *)
THEOREM PinnedFindsNewest ==
  ASSUME PinsSerially
  PROVE  Spec => []PinnedLookup
<1>1. IInv /\ SInv => PinnedLookup
  <2> SUFFICES ASSUME IInv, SInv, NEW r \in Reader, NEW k \in Key,
                      phase = "idle", Pinned(r), memtable[k] = NoEntry
               PROVE  LET seen == {d \in Stored : /\ d.key = k
                                                  /\ d.lsn <= reader[r].lsn}
                          newest == {d \in seen : \A o \in seen : o.lsn <= d.lsn}
                      IN  IF newest = {} THEN Lookup(k, reader[r].lsn) = 0
                          ELSE \A d \in newest :
                                 d.lsn \notin unloaded =>
                                   Lookup(k, reader[r].lsn) = d.lsn
    BY DEF PinnedLookup
  <2> DEFINE p == reader[r].lsn
             seen == {d \in Stored : d.key = k /\ d.lsn <= p}
             newest == {d \in seen : \A o \in seen : o.lsn <= d.lsn}
  <2>1. /\ Running /\ Taken(r) /\ p \in Nat
        /\ committed[k] \in Of(k) \cup {0} /\ btree[k] \in Of(k) \cup {0}
        /\ Of(k) \in SUBSET Nat
    <3>1. p \in Lsn
      BY DEF IInv, TypeOK
    <3> QED
      BY <3>1, OfIsLsns, LsnIsNat
      DEF Running, Taken, Counting, Pinned, SInv, HeldInv
  <2>2. \A l : (\E d \in seen : d.lsn = l) <=> l \in Of(k) /\ l <= p
    BY DEF Of, Lsns
  <2>3. CASE newest = {}
    <3>1. \A l \in Of(k) : ~(l <= p)
      <4> SUFFICES ASSUME NEW l \in Of(k), l <= p PROVE FALSE
        OBVIOUS
      <4> DEFINE S == {m \in Of(k) : m <= p}
      <4>1. S \in SUBSET Nat /\ S # {} /\ \A m \in S : m <= p
        BY <2>1
      <4>2. PICK m \in S : \A n \in S : n <= m
        BY <2>1, <4>1, GreatestNat
      <4>3. PICK d \in seen : d.lsn = m
        BY <2>2
      <4>4. \A o \in seen : o.lsn \in S
        BY <2>2
      <4>5. d \in newest
        BY <4>2, <4>3, <4>4
      <4> QED
        BY <2>3, <4>5
    <3>2. Floor(k, p) = 0
      BY <3>1, FloorIsNothing
    <3>3. committed[k] \notin 1 .. p /\ btree[k] \notin 1 .. p
      BY <2>1, <3>1
    <3>4. Lookup(k, p) = 0
      BY <3>2, <3>3 DEF Lookup
    <3> QED
      BY <2>3, <3>4
  <2>4. ASSUME NEW d \in newest, d.lsn \notin unloaded
        PROVE  Lookup(k, p) = d.lsn
    <3> DEFINE v == d.lsn
    <3>1. v \in Of(k) /\ v <= p
      BY <2>2
    <3>2. \A l \in Of(k) : l <= p => l <= v
      BY <2>2
    <3>3. /\ committed[k] = 0 \/ v <= committed[k]
          /\ btree[k] = 0 \/ v <= btree[k]
      BY <2>1, <2>4, <3>1 DEF SInv, NewestInv
    <3>4. Floor(k, p) = v
      BY <2>1, <2>4, <3>1, <3>2, FloorIsNewest
    <3>5. committed[k] \in 1 .. p => committed[k] = v
      BY <2>1, <3>1, <3>2, <3>3
    <3>6. btree[k] \in 1 .. p => btree[k] = v
      BY <2>1, <3>1, <3>2, <3>3
    <3> QED
      BY <3>4, <3>5, <3>6 DEF Lookup
  <2> QED
    BY <2>3, <2>4
<1> QED
  BY <1>1, SInvInvariant, PTL

(* What a read at a pinned snapshot takes, from a map or from the chain,   *)
(* is the newest below it, if its LSN is indexed and it was loaded.        *)
LEMMA LookupAgrees ==
  ASSUME IInv, SInv, Running, NEW r \in Reader, Taken(r), NEW k \in Key,
         NEW v, v = Lookup(k, reader[r].lsn), v \notin unloaded, v \in lsn_index
  PROVE  /\ Floor(k, reader[r].lsn) = v
         /\ committed[k] \in 1 .. reader[r].lsn => committed[k] = v
         /\ btree[k] \in 1 .. reader[r].lsn => btree[k] = v
<1> DEFINE p == reader[r].lsn
<1>1. /\ committed[k] \in Of(k) \cup {0} /\ btree[k] \in Of(k) \cup {0}
      /\ Of(k) \in SUBSET Nat
  BY OfIsLsns DEF SInv, HeldInv
<1>2. lsn_index \cap Of(k) # {} =>
        \A l \in Of(k) : /\ committed[k] = 0 \/ l <= committed[k]
                         /\ btree[k] = 0 \/ l <= btree[k]
  BY DEF SInv, IndexInv
<1>3. ASSUME v \in Of(k), v <= p, \A l \in Of(k) : l <= v
      PROVE  Floor(k, p) = v
  BY <1>3, FloorIsNewest
<1>4. CASE committed[k] \in 1 .. p
  <2>1. v = committed[k] /\ v \in Of(k) /\ v <= p /\ v # 0
    BY <1>1, <1>4 DEF Lookup
  <2>2. \A l \in Of(k) : l <= v /\ (btree[k] = 0 \/ l <= btree[k])
    BY <1>2, <2>1
  <2>3. btree[k] \in 1 .. p => btree[k] = v
    BY <1>1, <2>1, <2>2
  <2> QED
    BY <1>3, <2>1, <2>2, <2>3
<1>5. CASE committed[k] \notin 1 .. p /\ btree[k] \in 1 .. p
  <2>1. v = btree[k] /\ v \in Of(k) /\ v <= p /\ v # 0
    BY <1>1, <1>5 DEF Lookup
  <2>2. \A l \in Of(k) : l <= v
    BY <1>2, <2>1
  <2> QED
    BY <1>3, <1>5, <2>1, <2>2
<1>6. CASE committed[k] \notin 1 .. p /\ btree[k] \notin 1 .. p
  BY <1>6 DEF Lookup
<1> QED
  BY <1>4, <1>5, <1>6

(* A reader that stays pinned keeps its snapshot.                          *)
LEMMA PinnedKeepsSnapshot ==
  ASSUME IInv, [Next]_vars, NEW r \in Reader, Pinned(r), Pinned(r)'
  PROVE  reader'[r] = reader[r]
<1>1. TypeOK
  BY DEF IInv
<1>2. ASSUME NEW o \in Reader, PinStep(o) PROVE reader'[r] = reader[r]
  <2>1. CASE o # r
    BY <1>1, <1>2, <2>1, PinStepIs
  <2>2. CASE o = r
    <3>1. PinEffect(r)
      BY <1>1, <1>2, <2>2, PinStepIs
    <3> QED
      BY <3>1 DEF PinEffect, Pinned, NoSnapshot
  <2> QED
    BY <2>1, <2>2
<1>3. CASE Crash
  BY <1>3 DEF Crash, Pinned, NoSnapshot
<1>4. CASE ~(\E o \in Reader : PinStep(o)) /\ ~Crash
  <2>1. reader' = reader
    BY <1>4 DEF Next, PinStep, Write, Flush, CheckpointFlush, FlushInternal,
       AppendTLogSnapshot, CommitSuperBlock, SaveToFile, SaveMeta,
       CompactAndTruncate, Open, pins, vars
  <2> QED
    BY <2>1
<1> QED
  BY <1>2, <1>3, <1>4

(* No step that a pinned reader sees changes what is in the chains below   *)
(* its snapshot, or puts another version below it into a map.              *)
LEMMA LookupStays ==
  ASSUME PinsSerially, IInv, SInv, IInv', [Next]_vars,
         NEW r \in Reader, Pinned(r), Pinned(r)', NEW k \in Key,
         memtable[k].lsn \notin 1 .. reader[r].lsn,
         NEW v, v = Lookup(k, reader[r].lsn), v \notin unloaded, v \in lsn_index
  PROVE  Lookup(k, reader[r].lsn)' = v
<1> DEFINE p == reader[r].lsn
           Low(S) == {l \in S : l <= p}
<1>1. TypeOK /\ p \in Nat /\ Taken(r) /\ Running
  <2>1. TypeOK /\ p \in Lsn /\ Taken(r)
    BY DEF IInv, TypeOK, Pinned, Taken, Counting
  <2>2. Running
    BY DEF SInv, PinInv, Pinned, NoSnapshot
  <2> QED
    BY <2>1, <2>2, LsnIsNat
<1>2. /\ Floor(k, p) = v
      /\ committed[k] \in 1 .. p => committed[k] = v
      /\ btree[k] \in 1 .. p => btree[k] = v
  BY <1>1, LookupAgrees
<1>3. Floor(k, p) = LastOf(Low(Nodes(k)))
  BY DEF Floor, Nodes
<1>4. Floor(k, p)' = LastOf(Low(Nodes(k)'))
  <2>1. reader'[r].lsn = p
    BY PinnedKeepsSnapshot
  <2> QED
    BY <2>1 DEF Floor, Nodes, Merged
<1>5. ASSUME LastOf(Low(Nodes(k)')) = v,
             committed'[k] \in 1 .. p => committed'[k] = v,
             btree'[k] \in 1 .. p => btree'[k] = v
      PROVE  Lookup(k, p)' = v
  <2>1. reader'[r].lsn = p
    BY PinnedKeepsSnapshot
  <2> HIDE DEF p
  <2>2. Lookup(k, p)' = IF committed'[k] \in 1 .. p THEN committed'[k]
                        ELSE IF btree'[k] \in 1 .. p THEN btree'[k]
                        ELSE LastOf(Low(Nodes(k)'))
    BY <1>4, <2>1 DEF Lookup, p
  <2> QED
    BY <1>5, <2>2
<1>6. /\ Nodes(k) \in SUBSET Lsn /\ Nodes(k) \in SUBSET Nat
      /\ \A l \in Nodes(k) : l \in Lsn
  <2>1. Nodes(k) \subseteq Of(k)
    BY DEF SInv, HeldInv
  <2> QED
    BY <2>1, OfIsLsns
<1>7. ASSUME committed' = committed, chains' = chains,
             btree'[k] \in {btree[k], committed[k]}
      PROVE  Lookup(k, p)' = v
  <2>1. Nodes(k)' = Nodes(k)
    BY <1>7 DEF Nodes, Merged
  <2>2. btree'[k] \in 1 .. p => btree'[k] = v
    BY <1>2, <1>7
  <2> QED
    BY <1>2, <1>3, <1>5, <1>7, <2>1, <2>2
<1>8. CASE \/ UNCHANGED vars \/ \E j \in Key, del \in BOOLEAN : Write(j, del)
           \/ AppendTLogSnapshot \/ SaveToFile \/ SaveMeta
  <2>1. committed' = committed /\ chains' = chains /\ btree' = btree
    BY <1>8 DEF vars, memory, Write, AppendTLogSnapshot, SaveToFile, SaveMeta
  <2> QED
    BY <1>7, <2>1
<1>9. CASE \E o \in Reader : PinStep(o)
  <2>1. committed' = committed /\ chains' = chains /\ btree' = btree
    BY <1>9 DEF PinStep, Capture, PinCount, PinRead, PinWrite, ReleaseCount,
       ReleaseReset, PinsOnly, memory
  <2> QED
    BY <1>7, <2>1
<1>10. CASE CommitSuperBlock
  <2>1. /\ committed' = committed /\ chains' = chains
        /\ btree' = btree \/ btree' = committed
    BY <1>10 DEF CommitSuperBlock
  <2> QED
    BY <1>7, <2>1
<1>11. CASE FlushStep
  <2>1. /\ FlushInternal /\ committed' = Applied(committed)
        /\ btree' = Applied(btree)
    BY <1>1, <1>11, FlushStepIs DEF FlushInternal
  <2> DEFINE m == memtable[k].lsn
  <2>2. Nodes(k)' = Nodes(k) \cup (IF k \in Flushed THEN {m} ELSE {})
    BY <1>11, NodesAfterFlush DEF SInv
  <2>3. ASSUME k \in Flushed PROVE m > p
    <3>1. m > super.wal_lsn /\ m \notin 1 .. p
      BY <2>3, FlushedIs DEF IInv, TableInv
    <3>2. m \in Lsn /\ super.wal_lsn \in Lsn
      BY <1>1 DEF TypeOK, Entry
    <3> HIDE DEF m, p
    <3>3. m \in Nat /\ super.wal_lsn \in Nat /\ p \in Nat
      BY <1>1, <3>2, LsnIsNat
    <3> QED
      BY <3>1, <3>3
  <2>4. Low(Nodes(k)') = Low(Nodes(k))
    <3>1. ASSUME k \in Flushed PROVE ~(m <= p)
      <4>1. m \in Nat
        BY <1>1, LsnIsNat DEF TypeOK, Entry
      <4> QED
        BY <1>1, <2>3, <3>1, <4>1
    <3> QED
      BY <2>2, <3>1
  <2>5. ASSUME NEW map, map[k] \in 1 .. p => map[k] = v
        PROVE  Applied(map)[k] \in 1 .. p => Applied(map)[k] = v
    <3>1. Applied(map)[k] = IF k \notin Flushed THEN map[k]
                            ELSE IF memtable[k].del THEN 0 ELSE m
      BY DEF Applied
    <3>2. ASSUME k \in Flushed PROVE m \notin 1 .. p
      OBVIOUS
    <3> QED
      BY <2>5, <3>1, <3>2
  <2> QED
    BY <1>2, <1>3, <1>5, <2>1, <2>4, <2>5
<1>12. CASE CompactAndTruncate
  <2>1. committed' = committed /\ btree' = btree
    BY <1>12 DEF CompactAndTruncate
  <2> DEFINE q == pinned_snapshot_lsn
             S == Low(Nodes(k))
             T == Low(Nodes(k)')
  <2>2. q <= p /\ q \in Nat
    <3>1. q \in Lsn
      BY <1>1 DEF TypeOK
    <3> QED
      BY <1>1, <3>1, LsnIsNat DEF SInv, PinInv
  <2>3. /\ S \in SUBSET Lsn /\ T \in SUBSET Lsn /\ T \subseteq S
        /\ \A l \in S : l \in Nat
    BY <1>6, <1>12, NodesAfterCompact
  <2>4. ASSUME v \in S PROVE Listed(chains[k])
    <3>1. v \in Nodes(k) /\ Nodes(k) \subseteq Of(k)
      BY <2>4 DEF SInv, HeldInv
    <3> QED
      BY <3>1 DEF SInv, IndexInv
  <2>5. ASSUME Listed(chains[k]), NEW l \in S
        PROVE  l \in T \/ \E n \in T : l < n
    <3>1. CASE l \in Nodes(k)'
      BY <3>1
    <3>2. CASE l \notin Nodes(k)'
      <4>1. PICK n \in Nodes(k)' : l < n /\ n <= q
        BY <1>12, <2>5, <3>2, NodesAfterCompact
      <4>2. n \in Nat
        BY <1>6, <1>12, NodesAfterCompact
      <4>3. n <= p
        BY <1>1, <2>2, <4>1, <4>2
      <4> QED
        BY <4>1, <4>3
    <3> QED
      BY <3>1, <3>2
  <2>6. v = LastOf(S)
    BY <1>2, <1>3
  <2> HIDE DEF S, T
  <2>7. \A l \in S : l <= v
    BY <2>3, <2>6, LastOfIsGreatest
  <2>8. LastOf(T) = v
    <3>1. CASE v \in S
      <4>1. \A n \in T : n <= v /\ n \in Nat
        BY <2>3, <2>7
      <4>2. v \in T
        BY <2>3, <2>5, <2>4, <3>1, <4>1
      <4> QED
        BY <2>3, <4>1, <4>2, LastOfIs
    <3>2. CASE v \notin S
      <4>1. v = 0
        BY <2>3, <2>6, <3>2, LastOfIsGreatest
      <4>2. S = {}
        BY <2>3, <2>7, <3>2, <4>1
      <4>3. T = S
        BY <2>3, <4>2
      <4> QED
        BY <2>6, <4>3
    <3> QED
      BY <3>1, <3>2
  <2>9. LastOf(Low(Nodes(k)')) = v
    BY <2>8 DEF T
  <2> QED
    BY <1>2, <1>5, <2>1, <2>9
<1>13. CASE Crash
  BY <1>13 DEF Crash, Pinned, NoSnapshot
<1>14. CASE Open
  BY <1>1, <1>14 DEF Open, Running
<1> QED
  BY <1>8, <1>9, <1>10, <1>11, <1>12, <1>13, <1>14
  DEF Next, FlushStep, PinStep

(* While a snapshot is pinned, a record that can be read by LSN stays so:  *)
(* a flush swaps no generation, and what it stores is in the active one.   *)
LEMMA ReadableStays ==
  ASSUME IInv, SInv, IInv', [Next]_vars,
         NEW r \in Reader, Pinned(r), Pinned(r)', NEW v, Readable(v)
  PROVE  Readable(v)'
<1> DEFINE D == {i \in DOMAIN datafile : datafile[i].lsn = v}
<1>1. /\ TypeOK /\ Running
      /\ v \in lsn_index /\ GenerationVisible(datafile[Max(D)])
  <2>1. Running
    BY DEF SInv, PinInv, Pinned, NoSnapshot
  <2> QED
    BY <2>1 DEF IInv, Readable
<1>2. CASE UNCHANGED <<datafile, gc, lsn_index>>
  BY <1>2 DEF Readable, GenerationVisible
<1>3. CASE FlushStep
  <2>1. FlushInternal
    BY <1>1, <1>3, FlushStepIs
  <2>2. gc' = gc
    <3>1. /\ {o \in Reader : Counting(o)} \in SUBSET Reader
          /\ r \in {o \in Reader : Counting(o)}
      BY DEF Pinned, Counting
    <3>2. Cardinality({o \in Reader : Counting(o)}) # 0
      BY <3>1, CountIs, FS_EmptySet
    <3>3. snapshot_pin_count # 0
      BY <3>2 DEF IInv, CountInv
    <3> QED
      BY <2>1, <3>3 DEF FlushInternal, MaybeGcSwap
  <2>3. v \in lsn_index'
    BY <1>1, <2>1 DEF FlushInternal
  <2>4. /\ DOMAIN datafile = 1 .. Len(datafile) /\ Len(datafile) \in Nat
        /\ DOMAIN datafile' = 1 .. Len(datafile') /\ Len(datafile') \in Nat
    <3>1. datafile \in Seq(DataRecord) /\ datafile' \in Seq(DataRecord)
      BY DEF IInv, TypeOK
    <3> QED
      BY <3>1
  <2>5. /\ D \in SUBSET Nat /\ D # {} /\ \A i \in D : i <= Len(datafile)
        /\ D' \in SUBSET Nat /\ \A i \in D' : i <= Len(datafile')
        /\ D \subseteq D'
    <3>1. D # {}
      BY <1>1 DEF SInv, IndexInv
    <3>2. D \subseteq D'
      BY <1>1, <2>1, FileAfterFlush
    <3> QED
      BY <2>4, <3>1, <3>2
  <2>6. /\ Max(D) \in D /\ \A i \in D : i <= Max(D)
        /\ Max(D') \in D' /\ \A i \in D' : i <= Max(D')
    <3> HIDE DEF D
    <3>1. D' # {}
      BY <2>5
    <3> QED
      BY <2>4, <2>5, <3>1, MaxIsGreatest
  <2> DEFINE last == Max(D')
  <2>7. last \in DOMAIN datafile' /\ datafile'[last].lsn = v
    BY <2>6
  <2>8. datafile'[last].gen # gc'.reclaim
    <3>1. CASE last \in DOMAIN datafile
      <4>1. datafile'[last] = datafile[last] /\ last \in D
        BY <1>1, <2>1, <2>7, <3>1, FileAfterFlush
      <4>2. last = Max(D)
        <5>1. last <= Max(D) /\ Max(D) <= last
          BY <2>5, <2>6, <4>1
        <5>2. last \in Nat /\ Max(D) \in Nat
          BY <2>5, <2>6
        <5> QED
          BY <5>1, <5>2
      <4> QED
        BY <1>1, <2>2, <4>1, <4>2 DEF GenerationVisible
    <3>2. CASE last \notin DOMAIN datafile
      <4>1. PICK k \in Flushed : datafile'[last] = DataOf(k, gc'.active)
        BY <1>1, <2>1, <2>7, <3>2, FileAfterFlush
      <4>2. datafile'[last].gen = gc'.active
        BY <4>1 DEF DataOf
      <4>3. gc'.active # gc'.reclaim
        BY DEF IInv, TypeOK
      <4> QED
        BY <4>2, <4>3
    <3> QED
      BY <3>1, <3>2
  <2> QED
    BY <2>3, <2>8 DEF Readable, GenerationVisible
<1>4. CASE Crash
  BY <1>4 DEF Crash, Pinned, NoSnapshot
<1>5. CASE Open
  BY <1>1, <1>5 DEF Open, Running
<1>6. CASE ~FlushStep /\ ~Crash /\ ~Open
  <2>1. UNCHANGED <<datafile, gc, lsn_index>>
    BY <1>6 DEF Next, vars, memory, FlushStep, PinsOnly, Write,
       AppendTLogSnapshot, CommitSuperBlock, SaveToFile, SaveMeta,
       CompactAndTruncate, Capture, PinCount, PinRead, PinWrite,
       ReleaseCount, ReleaseReset
  <2> QED
    BY <1>2, <2>1
<1> QED
  BY <1>3, <1>4, <1>5, <1>6

(* While one thread pins and releases, what a pinned snapshot can read it  *)
(* goes on reading, whatever is written, flushed, checkpointed, compacted  *)
(* or pinned by others (MaybeGcSwap, CompactBelow, PinSnapshot).           *)
THEOREM PinnedKeepsReading == ASSUME PinsSerially PROVE Spec => PinnedStays
<1>1. ASSUME IInv, SInv, [Next]_vars, NEW r \in Reader, NEW k \in Key,
             Pinned(r), Pinned(r)',
             memtable[k].lsn \notin 1 .. reader[r].lsn,
             Lookup(k, reader[r].lsn) \notin unloaded,
             Readable(Lookup(k, reader[r].lsn))
      PROVE  /\ Lookup(k, reader[r].lsn)' = Lookup(k, reader[r].lsn)
             /\ Readable(Lookup(k, reader[r].lsn))'
  <2>1. PICK v : v = Lookup(k, reader[r].lsn)
    OBVIOUS
  <2>2. IInv' /\ v \in lsn_index /\ Readable(v)
    BY <1>1, <2>1, NextIInv DEF Readable
  <2>3. Lookup(k, reader[r].lsn)' = v
    BY <1>1, <2>1, <2>2, LookupStays
  <2>4. Readable(v)'
    BY <1>1, <2>2, ReadableStays
  <2>5. Readable(Lookup(k, reader[r].lsn))'
    BY <2>3, <2>4
  <2> QED
    BY <2>1, <2>3, <2>5
<1>2. IInv /\ SInv /\ [Next]_vars =>
        [\A r \in Reader, k \in Key :
           LET p == reader[r].lsn
               v == Lookup(k, p) IN
             (/\ Pinned(r) /\ Pinned(r)'
              /\ memtable[k].lsn \notin 1 .. p
              /\ v \notin unloaded /\ Readable(v))
             => Lookup(k, p)' = v /\ Readable(v)']_vars
  BY <1>1
<1> QED
  BY <1>2, SInvInvariant, PTL DEF Spec, PinnedStays
=============================================================================
