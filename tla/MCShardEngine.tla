--------------------------- MODULE MCShardEngine ---------------------------
(* Two keys are enough for a flush with a record before and one after the  *)
(* crash; two writers for one that finishes late.                          *)
EXTENDS ShardEngine, TLC

CONSTANTS k1, k2, w1, w2

MCKey == {k1, k2}
OneWriter == {w1}
TwoWriters == {w1, w2}

Option(d, r) == [durability |-> d, sync_on_commit |-> FALSE,
                 recovery_strategy |-> r, lazy_committed_load |-> FALSE]
EachDurability == {Option("kSync", "kFastOpen"), Option("kGroup", "kFastOpen"),
                   Option("kAsync", "kFullReplay")}
SyncLazy == {[durability |-> "kGroup", sync_on_commit |-> TRUE,
              recovery_strategy |-> "kFastOpen", lazy_committed_load |-> TRUE]}
DurabilityAndLazy == EachDurability \cup SyncLazy
SyncFullReplay == {Option("kSync", "kFullReplay")}

(* RecoverFull is harmless where the log is replayed at open. *)
FullReplayOnly == {"kFullReplay"}
Never == {}

Symmetry == Permutations(MCKey) \cup Permutations(TwoWriters)
===========================================================================
