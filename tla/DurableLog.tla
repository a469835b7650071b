----------------------------- MODULE DurableLog -----------------------------
(***************************************************************************)
(* What concurrent kSync writes and transaction commits promise their      *)
(* callers, whoever runs the fsyncs and however they are shared: a record  *)
(* gets the next LSN, an fsync makes all of the log durable, and a waiting *)
(* writer gets Ok only for a durable record, or an error.                  *)
(* WalFsyncCoordinator implements it.                                      *)
(***************************************************************************)
EXTENDS Naturals

VARIABLES
  appended,  \* LSN of the last record of the log
  durable,   \* LSN up to which the log is on disk
  waiting,   \* LSNs whose writers wait
  acked      \* LSNs whose writers got Ok

vars == <<appended, durable, waiting, acked>>

Init == appended = 0 /\ durable = 0 /\ waiting = {} /\ acked = {}

AppendRecord ==
  /\ appended' = appended + 1
  /\ waiting' = waiting \cup {appended + 1}
  /\ UNCHANGED <<durable, acked>>

Sync ==
  /\ durable' = appended
  /\ UNCHANGED <<appended, waiting, acked>>

Acknowledge(l) ==
  /\ l <= durable
  /\ acked' = acked \cup {l}
  /\ waiting' = waiting \ {l}
  /\ UNCHANGED <<appended, durable>>

ReturnError(l) ==
  /\ waiting' = waiting \ {l}
  /\ UNCHANGED <<appended, durable, acked>>

Next == \/ AppendRecord \/ Sync
        \/ \E l \in waiting : Acknowledge(l) \/ ReturnError(l)

Spec == Init /\ [][Next]_vars

-----------------------------------------------------------------------------
(* What is waited for or durable was appended.                             *)
Log ==
  /\ appended \in Nat /\ durable \in 0 .. appended
  /\ waiting \subseteq 1 .. appended

(* Every acknowledged record is on disk: RPO 0 at the return of a kSync    *)
(* write (PutSyncFast, WalFsyncCoordinator::Await).                        *)
Rpo0 == acked \subseteq 1 .. durable
=============================================================================
