---------------------- MODULE MCSnapshotFairRwLock ----------------------
(* Three threads: enough for a holder, a waiting writer and a third party. *)
EXTENDS SnapshotFairRwLock, TLC

CONSTANTS t1, t2, t3

MCThread == {t1, t2, t3}
==========================================================================
