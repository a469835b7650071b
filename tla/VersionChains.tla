---------------------------- MODULE VersionChains ----------------------------
(***************************************************************************)
(* Old versions of one shard: the version chains with their overflow file, *)
(* pinned snapshots, reads at a snapshot, GC generations and TLog          *)
(* flashback (cpp/src/concept/vcs/, cpp/src/concept/gc/,                   *)
(* cpp/src/concept/tlog/, cpp/src/engine/shard_engine.cc).                 *)
(*                                                                         *)
(* Writes are kSync Puts and Deletes of one thread, the log is replayed at *)
(* open; how they survive is ShardEngine's.  Readers take no lock to pin or *)
(* release a snapshot, so these steps go between those of a checkpoint,    *)
(* which holds rw_mu_ (phase # "idle").  A version is known by its LSN; the *)
(* size of the data file is its number of records.  Chains loaded at open  *)
(* hold no LSN of a record that is replayed, so the chains refuse no append *)
(* here.  Values are stored uncompressed.                                  *)
(***************************************************************************)
EXTENDS Naturals, Sequences, SequencesExt

CONSTANTS Key, Reader,
          InlineMax,       \* kVcsInlineMax
          GcThreshold,     \* gc_reclaim_threshold_bytes, in records; 0 = off
          PinsSerially,    \* one thread takes and releases all snapshots
          MaxLsn, MaxData, \* bounds on LSNs and on data file records
          MaxCheckpoints, MaxCrashes

ASSUME ChainBoundsOK ==
  /\ {InlineMax, GcThreshold, MaxLsn, MaxData, MaxCheckpoints, MaxCrashes}
       \subseteq Nat
  /\ InlineMax > 0 /\ MaxLsn > 0
  /\ PinsSerially \in BOOLEAN
  /\ IsFiniteSet(Key) /\ Key # {} /\ IsFiniteSet(Reader)

VARIABLES
  \* files
  wal,          \* the records of the log
  datafile,     \* the records of the data file, with their generation
  gc,           \* .gcmeta and RegionManager: [active, reclaim]
  super,        \* the superblock: [wal_lsn, data_lsn, root]
  vidx,         \* the saved chains, whole or what a crash left of them
  vcsmeta,      \* the saved overflow nodes, or TornMeta
  tlog,         \* what each TLog snapshot says: the size of the data file;
                \*   `state` is history: the newest versions at that time
  \* memory
  memtable, committed, btree,
  chains,       \* of each key: nodes kept inline and overflow nodes
  lsn_index,    \* LSNs DataFile::ReadByLsn can find
  stable_lsn,
  snapshot_pin_count, pinned_snapshot_lsn,
  reader,       \* how far each reader is with its snapshot, and the snapshot
  phase, crashes,
  unloaded      \* history: stored versions that an open found in no chain,
                \*   or reclaimed (a later swap may bring these back), or a
                \*   compaction dropped with a key that was not in chains_

memory == <<memtable, committed, btree, chains, lsn_index, stable_lsn>>
pins == <<snapshot_pin_count, pinned_snapshot_lsn, reader>>
vars == <<wal, datafile, gc, super, vidx, vcsmeta, tlog, memory, pins, phase,
          crashes, unloaded>>

Lsn == 0 .. MaxLsn
Generation == {0, 1}
NoReclaim == 255
Record == [lsn : Lsn, key : Key, del : BOOLEAN]
DataRecord == [lsn : Lsn, key : Key, del : BOOLEAN, gen : Generation]
Entry == [lsn : Lsn, del : BOOLEAN]
NoEntry == [lsn |-> 0, del |-> FALSE]
EmptyTable == [k \in Key |-> NoEntry]
NoKeys == [k \in Key |-> 0]
NoLsns == [k \in Key |-> {}]
NoChain == [inline |-> {}, overflow |-> {}]
NoSnapshot == [pc |-> "none", lsn |-> 0]
TornMeta == [k \in Key |-> {0}]       \* no node has LSN 0

TypeOK ==
  /\ wal \subseteq Record
  /\ datafile \in Seq(DataRecord)
  /\ gc \in [active : Generation, reclaim : Generation \cup {NoReclaim}]
  /\ gc.active # gc.reclaim
  /\ super \in [wal_lsn : Lsn, data_lsn : Lsn, root : [Key -> Lsn]]
  /\ vidx \in [form : {"whole", "cut", "empty"}, saved : [Key -> SUBSET Lsn]]
  /\ vcsmeta \in [Key -> SUBSET Lsn]
  /\ tlog \in Seq([size : Nat, state : [Key -> Lsn]])
  /\ memtable \in [Key -> Entry]
  /\ committed \in [Key -> Lsn] /\ btree \in [Key -> Lsn]
  /\ chains \in [Key -> [inline : SUBSET Lsn, overflow : SUBSET Lsn]]
  /\ \A k \in Key : Cardinality(chains[k].inline) <= InlineMax
  /\ lsn_index \subseteq Lsn /\ stable_lsn \in Lsn
  /\ snapshot_pin_count \in 0 .. Cardinality(Reader)
  /\ pinned_snapshot_lsn \in Lsn
  /\ reader \in [Reader ->
       [pc : {"none", "captured", "counted", "lowers", "pinned", "last"},
        lsn : Lsn]]
  /\ phase \in {"idle", "tlog", "superblock", "vidx", "meta", "compact",
                "down"}
  /\ crashes \in Nat /\ unloaded \subseteq Lsn

-----------------------------------------------------------------------------
(* Log and data file.                                                      *)

LastOf(lsns) == Max(lsns \cup {0})
Lsns(records, k) == {r.lsn : r \in {r \in records : r.key = k}}
Stored == Range(datafile)
CurrentLsn == LastOf({super.wal_lsn} \cup {r.lsn : r \in wal})

(* The version that the last of some records of the data file leaves.      *)
LiveAfter(at) ==
  IF at = {} \/ datafile[Max(at)].del THEN 0 ELSE datafile[Max(at)].lsn

(* What the record of k written last, that with the highest LSN, says.     *)
Newest(records) ==
  [k \in Key |->
     IF \E r \in records : /\ r.key = k /\ ~r.del
                           /\ r.lsn = LastOf(Lsns(records, k))
     THEN LastOf(Lsns(records, k)) ELSE 0]

(* GenerationVisible, and the map a load of the data file at open makes.   *)
GenerationVisible(r) == r.gen # gc.reclaim
LoadDatafile ==
  [k \in Key |-> LiveAfter({i \in DOMAIN datafile :
                             /\ datafile[i].key = k
                             /\ GenerationVisible(datafile[i])})]

(* ReplayPending into an empty memtable: the newest record of a key.       *)
ReplayPending ==
  LET above == {r \in wal : r.lsn > super.wal_lsn} IN
    [k \in Key |->
       IF Lsns(above, k) = {} THEN NoEntry
       ELSE LET r == CHOOSE r \in above : r.lsn = LastOf(Lsns(above, k))
            IN  [lsn |-> r.lsn, del |-> r.del]]

-----------------------------------------------------------------------------
(* Chains.                                                                 *)

Merged(c) == c.inline \cup c.overflow
Floor(k, snapshot) == LastOf({l \in Merged(chains[k]) : l <= snapshot})
ChainHead(k) == LastOf(IF chains[k].inline # {} THEN chains[k].inline
                                                ELSE chains[k].overflow)

(* Append of newer LSNs to a chain, MaybeSpill moving the oldest nodes to  *)
(* the overflow.  The variant keeps them inline.                           *)
Appended_NoSpill(c, lsns) == [c EXCEPT !.inline = @ \cup lsns]
Appended(c, lsns) ==
  LET all == c.inline \cup lsns
      kept == {l \in all : Cardinality({m \in all : m > l}) < InlineMax} IN
    [inline |-> kept, overflow |-> c.overflow \cup (all \ kept)]

(* FoldWalToVcs: records of the log that are newer than the chain's head.  *)
FoldWalToVcs(c, k) ==
  Appended(c, {l \in Lsns(wal, k) : l > super.wal_lsn
                                    /\ l > LastOf(Merged(c))})

(* A key with overflow nodes only, after an open that found no saved chain,*)
(* is not in chains_; CompactBelow and SaveToFile go through chains_.      *)
Listed(c) == c.inline # {}

(* CompactBelow: nodes from lsn on, and the newest one before when none is *)
(* at lsn.  The variant forgets that one.                                  *)
CompactBelow_DropsFloor(c, lsn) ==
  IF lsn = 0 THEN c ELSE Appended(NoChain, {l \in Merged(c) : l >= lsn})
CompactBelow(c, lsn) ==
  LET from == {l \in Merged(c) : l >= lsn}
      floor == {l \in Merged(c) : l <= lsn} IN
    IF lsn = 0 THEN c
    ELSE IF ~Listed(c) THEN NoChain
    ELSE Appended(NoChain, from \cup
           IF floor = {} \/ lsn \in from THEN {} ELSE {Max(floor)})

(* LoadFromFile: a whole file gives the chains, but their overflow is that *)
(* of the meta file; of one that a crash cut off only the leading keys are *)
(* read; an empty one leaves the overflow the pager loaded at its opening. *)
LoadChain(k) ==
  LET c == Appended(NoChain, vidx.saved[k]) IN
    CASE vidx.form = "whole" -> [c EXCEPT !.overflow = vcsmeta[k]]
      [] vidx.form = "cut" -> c
      [] vidx.form = "empty" -> [NoChain EXCEPT !.overflow = vcsmeta[k]]

-----------------------------------------------------------------------------
(* A shard checkpointed once, with one key.                                *)
Init ==
  \E k \in Key :
    /\ wal = {}
    /\ datafile = <<[lsn |-> 1, key |-> k, del |-> FALSE, gen |-> 0]>>
    /\ gc = [active |-> 0, reclaim |-> NoReclaim]
    /\ super = [wal_lsn |-> 1, data_lsn |-> 1,
                root |-> [NoKeys EXCEPT ![k] = 1]]
    /\ vidx = [form |-> "whole", saved |-> [NoLsns EXCEPT ![k] = {1}]]
    /\ vcsmeta = NoLsns
    /\ tlog = <<>>
    /\ memtable = EmptyTable
    /\ committed = super.root /\ btree = super.root
    /\ chains = [j \in Key |-> LoadChain(j)]
    /\ lsn_index = {1} /\ stable_lsn = 1
    /\ snapshot_pin_count = 0 /\ pinned_snapshot_lsn = 0
    /\ reader = [r \in Reader |-> NoSnapshot]
    /\ phase = "idle" /\ crashes = 0 /\ unloaded = {}

-----------------------------------------------------------------------------
(* Writes and flush.                                                       *)

Write(k, del) ==
  LET lsn == CurrentLsn + 1 IN
    /\ phase = "idle" /\ lsn <= MaxLsn
    /\ wal' = wal \cup {[lsn |-> lsn, key |-> k, del |-> del]}
    /\ memtable' = [memtable EXCEPT ![k] = [lsn |-> lsn, del |-> del]]
    /\ stable_lsn' = lsn
    /\ UNCHANGED <<datafile, gc, super, vidx, vcsmeta, tlog, committed, btree,
                   chains, lsn_index, pins, phase, crashes, unloaded>>

(* MaybeGcSwap: the generation written so far becomes the reclaimed one,   *)
(* unless a snapshot is pinned.  (It never finds a version referenced by a *)
(* chain in the reclaimed generation: ReadHeaderAtLsn takes the checksum   *)
(* of the pointer to the header and fails.)  The variant looks at no pin.  *)
MaybeGcSwap_IgnoresPins ==
  IF GcThreshold > 0 /\ Len(datafile) >= GcThreshold
  THEN [active |-> 1 - gc.active, reclaim |-> gc.active]
  ELSE gc
MaybeGcSwap ==
  IF GcThreshold > 0 /\ snapshot_pin_count = 0 /\ Len(datafile) >= GcThreshold
  THEN [active |-> 1 - gc.active, reclaim |-> gc.active]
  ELSE gc

Flushed == {k \in Key : memtable[k] # NoEntry}
FlushedRecords(gen) ==
  [i \in 1 .. Cardinality(Flushed) |->
     LET k == SetToSeq(Flushed)[i] IN
       [lsn |-> memtable[k].lsn, key |-> k, del |-> memtable[k].del,
        gen |-> gen]]
Applied(map) ==
  [k \in Key |-> IF k \notin Flushed THEN map[k]
                 ELSE IF memtable[k].del THEN 0 ELSE memtable[k].lsn]
ChainsFlushed ==
  [k \in Key |-> IF k \in Flushed THEN Appended(chains[k], {memtable[k].lsn})
                                  ELSE chains[k]]

(* FlushInternal, up to what it does to the chains.                        *)
FlushInternal ==
  /\ Len(datafile) + Cardinality(Flushed) <= MaxData
  /\ gc' = MaybeGcSwap
  /\ datafile' = datafile \o FlushedRecords(gc'.active)
  /\ committed' = Applied(committed) /\ btree' = Applied(btree)
  /\ lsn_index' = lsn_index \cup {memtable[k].lsn : k \in Flushed}
  /\ stable_lsn' = Max({stable_lsn} \cup {memtable[k].lsn : k \in Flushed})
  /\ memtable' = EmptyTable
  /\ UNCHANGED <<wal, super, vidx, vcsmeta, pins, crashes, unloaded>>

Flush ==
  /\ phase = "idle"
  /\ FlushInternal
  /\ chains' = ChainsFlushed
  /\ UNCHANGED <<tlog, phase>>

-----------------------------------------------------------------------------
(* Checkpoint, one step for each file it writes.                           *)

CheckpointFlush ==
  /\ phase = "idle" /\ Len(tlog) < MaxCheckpoints
  /\ FlushInternal
  /\ chains' = [k \in Key |-> FoldWalToVcs(ChainsFlushed[k], k)]
  /\ phase' = "tlog"
  /\ UNCHANGED tlog

(* The TLog entry: the size of the data file.  The variant takes the size  *)
(* before the last record.                                                 *)
TLogEntry_Early == [size |-> Len(datafile) - 1, state |-> Newest(Stored)]
TLogEntry == [size |-> Len(datafile), state |-> Newest(Stored)]

AppendTLogSnapshot ==
  /\ phase = "tlog"
  /\ tlog' = Append(tlog, TLogEntry)
  /\ phase' = "superblock"
  /\ UNCHANGED <<wal, datafile, gc, super, vidx, vcsmeta, memory, pins,
                 crashes, unloaded>>

(* PersistRootFromMap refuses an empty map; the checkpoint ends there.     *)
CommitSuperBlock ==
  /\ phase = "superblock"
  /\ IF committed = NoKeys
     THEN phase' = "idle" /\ UNCHANGED <<super, btree>>
     ELSE /\ phase' = "vidx"
          /\ super' = [wal_lsn |-> CurrentLsn, data_lsn |-> stable_lsn,
                       root |-> committed]
          /\ btree' = committed
  /\ UNCHANGED <<wal, datafile, gc, vidx, vcsmeta, tlog, memtable, committed,
                 chains, lsn_index, stable_lsn, pins, crashes, unloaded>>

Vidx(form, keys) ==
  [form |-> form,
   saved |-> [k \in Key |-> IF k \in keys /\ Listed(chains[k])
                            THEN Merged(chains[k]) ELSE {}]]

SaveToFile ==
  /\ phase = "vidx"
  /\ vidx' = Vidx("whole", Key)
  /\ phase' = "meta"
  /\ UNCHANGED <<wal, datafile, gc, super, vcsmeta, tlog, memory, pins,
                 crashes, unloaded>>

SaveMeta ==
  /\ phase = "meta"
  /\ vcsmeta' = [k \in Key |-> chains[k].overflow]
  /\ phase' = "compact"
  /\ UNCHANGED <<wal, datafile, gc, super, vidx, tlog, memory, pins, crashes,
                 unloaded>>

CompactAndTruncate ==
  /\ phase = "compact"
  /\ chains' = [k \in Key |-> CompactBelow(chains[k], pinned_snapshot_lsn)]
  /\ unloaded' = unloaded \cup
       UNION {Merged(chains[k]) \ Merged(chains'[k]) :
                k \in {k \in Key : ~Listed(chains[k])}}
  /\ wal' = {r \in wal : r.lsn > super.wal_lsn}
  /\ phase' = "idle"
  /\ UNCHANGED <<datafile, gc, super, vidx, vcsmeta, tlog, memtable, committed,
                 btree, lsn_index, stable_lsn, pins, crashes>>

-----------------------------------------------------------------------------
(* Snapshots: CaptureSnapshot, PinSnapshot, ReleaseSnapshot, no lock held. *)

Running == phase # "down"
Settled(r) == reader[r].pc \in {"none", "pinned"}
OthersSettled(r) == PinsSerially => \A o \in Reader \ {r} : Settled(o)
Goto(r, pc) == reader' = [reader EXCEPT ![r].pc = pc]
PinsOnly == UNCHANGED <<wal, datafile, gc, super, vidx, vcsmeta, tlog, memory,
                        phase, crashes, unloaded>>

Capture(r) ==
  /\ Running /\ reader[r].pc = "none" /\ OthersSettled(r)
  /\ reader' = [reader EXCEPT ![r] = [pc |-> "captured", lsn |-> stable_lsn]]
  /\ UNCHANGED <<snapshot_pin_count, pinned_snapshot_lsn>> /\ PinsOnly

PinCount(r) ==
  /\ Running /\ reader[r].pc = "captured"
  /\ snapshot_pin_count' = snapshot_pin_count + 1
  /\ Goto(r, "counted")
  /\ UNCHANGED pinned_snapshot_lsn /\ PinsOnly

PinRead(r) ==
  /\ Running /\ reader[r].pc = "counted"
  /\ Goto(r, IF pinned_snapshot_lsn = 0 \/ reader[r].lsn < pinned_snapshot_lsn
             THEN "lowers" ELSE "pinned")
  /\ UNCHANGED <<snapshot_pin_count, pinned_snapshot_lsn>> /\ PinsOnly

PinWrite(r) ==
  /\ Running /\ reader[r].pc = "lowers"
  /\ pinned_snapshot_lsn' = reader[r].lsn
  /\ Goto(r, "pinned")
  /\ UNCHANGED snapshot_pin_count /\ PinsOnly

ReleaseCount(r) ==
  /\ Running /\ reader[r].pc = "pinned" /\ OthersSettled(r)
  /\ snapshot_pin_count' = snapshot_pin_count - 1
  /\ reader' = [reader EXCEPT ![r] =
       IF snapshot_pin_count = 1 THEN [pc |-> "last", lsn |-> 0]
                                 ELSE NoSnapshot]
  /\ UNCHANGED pinned_snapshot_lsn /\ PinsOnly

ReleaseReset(r) ==
  /\ Running /\ reader[r].pc = "last"
  /\ pinned_snapshot_lsn' = 0
  /\ reader' = [reader EXCEPT ![r] = NoSnapshot]
  /\ UNCHANGED snapshot_pin_count /\ PinsOnly

-----------------------------------------------------------------------------
(* A crash of the process, which can cut short the file being written.     *)
Crash ==
  /\ Running /\ crashes < MaxCrashes
  /\ \/ UNCHANGED <<vidx, vcsmeta>>
     \/ /\ phase = "vidx"
        /\ vidx' \in {Vidx("empty", {})}
                     \cup {Vidx("cut", keys) : keys \in SUBSET Key}
        /\ UNCHANGED vcsmeta
     \/ /\ phase = "meta"
        /\ vcsmeta' = TornMeta
        /\ UNCHANGED vidx
  /\ memtable' = EmptyTable /\ committed' = NoKeys /\ btree' = NoKeys
  /\ chains' = [k \in Key |-> NoChain]
  /\ lsn_index' = {} /\ stable_lsn' = 0
  /\ snapshot_pin_count' = 0 /\ pinned_snapshot_lsn' = 0
  /\ reader' = [r \in Reader |-> NoSnapshot]
  /\ phase' = "down" /\ crashes' = crashes + 1
  /\ UNCHANGED <<wal, datafile, gc, super, tlog, unloaded>>

(* OpenInternal with kFullReplay.  LoadMeta refuses a torn file, and with  *)
(* it the open fails.  A load that is not lazy builds no LSN index.        *)
Open ==
  /\ phase = "down" /\ vcsmeta # TornMeta
  /\ committed' = LoadDatafile /\ btree' = super.root
  /\ memtable' = ReplayPending
  /\ stable_lsn' = super.data_lsn
  /\ chains' = [k \in Key |-> LoadChain(k)]
  /\ unloaded' = unloaded \cup
       {r.lsn : r \in {r \in Stored : \/ r.lsn \notin Merged(LoadChain(r.key))
                                      \/ ~GenerationVisible(r)}}
  /\ phase' = "idle"
  /\ UNCHANGED <<wal, datafile, gc, super, vidx, vcsmeta, tlog, lsn_index,
                 pins, crashes>>

Next ==
  \/ \E k \in Key, del \in BOOLEAN : Write(k, del)
  \/ Flush
  \/ CheckpointFlush \/ AppendTLogSnapshot \/ CommitSuperBlock \/ SaveToFile
  \/ SaveMeta \/ CompactAndTruncate
  \/ \E r \in Reader : \/ Capture(r) \/ PinCount(r) \/ PinRead(r)
                       \/ PinWrite(r) \/ ReleaseCount(r) \/ ReleaseReset(r)
  \/ Crash \/ Open

Spec == Init /\ [][Next]_vars

-----------------------------------------------------------------------------
(* Reads.                                                                  *)

(* GetAtSnapshotCore below the memtable: the LSN of the version it takes.  *)
Lookup(k, p) ==
  IF committed[k] \in 1 .. p THEN committed[k]
  ELSE IF btree[k] \in 1 .. p THEN btree[k]
  ELSE Floor(k, p)

(* ReadByLsn: the LSN is indexed, its record is not reclaimed.             *)
Readable(lsn) ==
  /\ lsn \in lsn_index
  /\ GenerationVisible(datafile[Max({i \in DOMAIN datafile :
                                       datafile[i].lsn = lsn})])

Pinned(r) == reader[r].pc = "pinned" /\ reader[r].lsn > 0

(* GetAsOf at the time of a TLog entry.                                    *)
LoadAsOfCommitted(e) ==
  [k \in Key |-> LiveAfter({i \in 1 .. e.size : datafile[i].key = k})]

-----------------------------------------------------------------------------
(* Properties.                                                             *)

(* A read at a pinned snapshot finds, for every key with nothing in the    *)
(* memtable, the newest stored version at or below the snapshot, a         *)
(* tombstone included, whatever was overwritten, spilled, compacted,       *)
(* checkpointed or reclaimed since; versions that an open did not load, or *)
(* that went with a key not in chains_, are excepted (GetAtSnapshotCore,   *)
(* CompactBelow).                                                          *)
PinnedLookup ==
  \A r \in Reader, k \in Key :
    phase = "idle" /\ Pinned(r) /\ memtable[k] = NoEntry =>
      LET seen == {d \in Stored : d.key = k /\ d.lsn <= reader[r].lsn}
          newest == {d \in seen : \A o \in seen : o.lsn <= d.lsn} IN
        IF newest = {} THEN Lookup(k, reader[r].lsn) = 0
        ELSE \A d \in newest :
               d.lsn \notin unloaded => Lookup(k, reader[r].lsn) = d.lsn

(* As long as a snapshot is pinned, what it can read by LSN it goes on     *)
(* reading, unless the memtable held a newer version for it: no flush,     *)
(* checkpoint or GC swap takes a version away under it (MaybeGcSwap,       *)
(* CompactBelow, PinSnapshot).                                             *)
PinnedStays ==
  [][\A r \in Reader, k \in Key :
       LET p == reader[r].lsn
           v == Lookup(k, p) IN
         (/\ Pinned(r) /\ Pinned(r)'
          /\ memtable[k].lsn \notin 1 .. p
          /\ v \notin unloaded /\ Readable(v))
         => Lookup(k, p)' = v /\ Readable(v)']_vars

(* A flashback to a TLog entry gives the newest version of every key at    *)
(* the time of the entry, deleted keys included, also of keys that GC      *)
(* reclaimed, and after any later flush, replay or crash                   *)
(* (AppendTLogSnapshot, LoadAsOfCommitted).                                *)
FlashbackState ==
  \A i \in DOMAIN tlog : LoadAsOfCommitted(tlog[i]) = tlog[i].state

(* What ADR-046 says of I-VCS-FWD: "When key exists in B-Tree:             *)
(* vcs.Head(key) == btree[key]".                                           *)
HeadForward ==
  phase = "idle" => \A k \in Key : btree[k] > 0 => ChainHead(k) = btree[k]
=============================================================================
