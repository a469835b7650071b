----------------------- MODULE MCWalFsyncCoordinator -----------------------
(* Two writers, a commit and the maintenance: one that runs the fsync, one  *)
(* that joined the batch and those that come while the fsync is under way.  *)
EXTENDS WalFsyncCoordinator, TLC

CONSTANTS w1, w2, s1

TwoWriters == {w1, w2}
OneSession == {s1}
============================================================================
