--------------------- MODULE WalFsyncCoordinatorProofs ---------------------
(***************************************************************************)
(* For any number of writers and committing sessions, any batch size and   *)
(* any pattern of failed fsyncs: Await and AppendTxnCommit return Ok only  *)
(* for a record that is on disk, FlushPending leaves nobody unserved, and  *)
(* the coordinator implements DurableLog.                                  *)
(*                                                                         *)
(* The argument: only one RunFsyncLocked is under way (OneFsync with       *)
(* RunningInv), so `target' is its own; it was at most the tail of the log *)
(* when the fsync began and is at most `durable' after it (TargetInv);     *)
(* hence flushed_lsn never passes `durable' (LsnInv).                      *)
(***************************************************************************)
EXTENDS WalFsyncCoordinator, TLAPS

InRun(p) == pc[p] \in {"fsync", "relock"}

RunningInv == \A p \in Process : InRun(p) => fsync_running

LsnInv ==
  /\ flushed_lsn <= durable
  /\ durable <= tail
  /\ max_pending_lsn <= tail
  /\ \A p \in Process : lsn[p] <= tail
  /\ \A p \in Process : pc[p] = "synced" => lsn[p] <= durable

TargetInv ==
  \A p \in Process :
    /\ pc[p] = "fsync" => target <= tail
    /\ pc[p] = "relock" /\ ok => target <= durable

IInv == TypeOK /\ OneFsync /\ RunningInv /\ LsnInv /\ TargetInv /\ AckedOnDisk

(* The inductive invariant holds initially. *)
LEMMA InitIInv == Init => IInv
<1> SUFFICES ASSUME Init PROVE IInv
  OBVIOUS
<1>1. 0 \in Lsn /\ 0 \in 0 .. MaxFaults
  BY ConfigOK DEF ConfigOK, Lsn
<1>2. TypeOK
  BY <1>1 DEF Init, TypeOK, Pc
<1>3. OneFsync /\ RunningInv /\ LsnInv /\ TargetInv /\ AckedOnDisk
  BY <1>1 DEF Init, OneFsync, RunningInv, LsnInv, TargetInv, AckedOnDisk, InRun
<1> QED
  BY <1>2, <1>3 DEF IInv

(* A process that starts an fsync while none runs becomes the only one in  *)
(* RunFsyncLocked, with a target that is in the log.                       *)
LEMMA StartFsyncIInv ==
  ASSUME IInv, UNCHANGED max_batch_size,
         ~fsync_running, NEW p \in Process,
         NEW pending_lsn \in Lsn, pending_lsn <= tail,
         NEW count \in Nat,
         StartFsync(p, pending_lsn, count),
         max_pending_lsn' = pending_lsn,
         UNCHANGED <<log, flushed_lsn, lsn, acked, faults>>
  PROVE  IInv'
<1>1. /\ TypeOK /\ OneFsync /\ RunningInv /\ LsnInv /\ TargetInv /\ AckedOnDisk
  BY DEF IInv
<1>2. /\ pc' \in [Process -> Pc]
      /\ pc'[p] = "fsync" /\ \A q \in Process \ {p} : pc'[q] = pc[q]
  BY <1>1 DEF StartFsync, Goto, TypeOK, Pc
<1>3. \A q \in Process : ~InRun(q)
  BY <1>1 DEF RunningInv
<1>4. TypeOK'
  BY <1>1, <1>2 DEF TypeOK, StartFsync, log
<1>5. OneFsync' /\ RunningInv' /\ TargetInv'
  BY <1>1, <1>2, <1>3 DEF StartFsync, OneFsync, RunningInv, TargetInv, InRun, log
<1>6. LsnInv' /\ AckedOnDisk'
  BY <1>1, <1>2 DEF LsnInv, AckedOnDisk, log
<1> QED
  BY <1>4, <1>5, <1>6 DEF IInv

(* A step of processes outside RunFsyncLocked that leaves the run, the log *)
(* and what is flushed alone preserves the invariant.                      *)
LEMMA QuietStepIInv ==
  ASSUME IInv, UNCHANGED max_batch_size,
         UNCHANGED <<log, flushed_lsn, run, fsync_running, lsn, faults>>,
         max_pending_lsn' \in Lsn, max_pending_lsn' <= tail,
         pending_count' \in Nat,
         batch_deadline_active' \in BOOLEAN, deadline_passed' \in BOOLEAN,
         acked' \subseteq Lsn, \A l \in acked' : l <= durable,
         pc' \in [Process -> Pc],
         \A q \in Process :
           pc'[q] = pc[q] \/ pc'[q] \notin {"fsync", "relock", "synced"}
  PROVE  IInv'
<1>1. /\ TypeOK /\ OneFsync /\ RunningInv /\ LsnInv /\ TargetInv /\ AckedOnDisk
  BY DEF IInv
<1>2. TypeOK'
  BY <1>1 DEF TypeOK, log, run
<1>3. OneFsync' /\ RunningInv'
  BY <1>1 DEF OneFsync, RunningInv, InRun
<1>4. TargetInv' /\ LsnInv' /\ AckedOnDisk'
  BY <1>1 DEF TargetInv, LsnInv, AckedOnDisk, log, run
<1> QED
  BY <1>2, <1>3, <1>4 DEF IInv

(* The wait or the flush at the end of the entry part of Await. *)
LEMMA FlushNowOrWaitIInv ==
  ASSUME IInv, UNCHANGED max_batch_size, NEW w \in Process,
         NEW pending_lsn \in Lsn, pending_lsn <= tail,
         NEW count \in Nat, NEW sets_deadline \in BOOLEAN,
         FlushNowOrWait(w, pending_lsn, count, sets_deadline),
         max_pending_lsn' = pending_lsn,
         UNCHANGED <<log, flushed_lsn, lsn, acked, faults>>
  PROVE  IInv'
<1>1. CASE ShouldFlushLocked(count, TimedOut /\ ~sets_deadline) /\ ~fsync_running
  BY <1>1, StartFsyncIInv DEF FlushNowOrWait
<1>2. CASE ~(ShouldFlushLocked(count, TimedOut /\ ~sets_deadline) /\ ~fsync_running)
  <2>1. TypeOK /\ AckedOnDisk
    BY DEF IInv
  <2>2. /\ pc' = [pc EXCEPT ![w] = "loop"]
        /\ pending_count' = count
        /\ UNCHANGED <<fsync_running, run>>
    BY <1>2 DEF FlushNowOrWait, Goto
  <2>3. batch_deadline_active' \in BOOLEAN /\ deadline_passed' \in BOOLEAN
    BY <1>2, <2>1, Zenon DEF FlushNowOrWait, TypeOK
  <2>4. acked' \subseteq Lsn /\ \A l \in acked' : l <= durable
    BY <2>1 DEF TypeOK, AckedOnDisk
  <2>5. /\ pc' \in [Process -> Pc]
        /\ \A q \in Process : pc'[q] = pc[q]
                              \/ pc'[q] \notin {"fsync", "relock", "synced"}
    BY <2>1, <2>2 DEF TypeOK, Pc
  <2> QED
    BY <2>2, <2>3, <2>4, <2>5, QuietStepIInv
<1> QED
  BY <1>1, <1>2

(* Every step preserves the inductive invariant. *)
LEMMA NextIInv == IInv /\ [Next]_vars => IInv'
<1> SUFFICES ASSUME IInv, [Next]_vars PROVE IInv'
  OBVIOUS
<1> USE DEF Process, FlushCaller
<1>u. UNCHANGED max_batch_size
  BY DEF Next, vars
<1> USE <1>u
<1>0. /\ TypeOK /\ OneFsync /\ RunningInv /\ LsnInv /\ TargetInv /\ AckedOnDisk
  BY DEF IInv
<1>00. tail \in Nat /\ durable \in Nat /\ flushed_lsn \in Nat
       /\ max_pending_lsn \in Nat /\ MaxLsn \in Nat
  BY <1>0, ConfigOK DEF ConfigOK, TypeOK, Lsn
<1> USE DEF Pc
<1>q. ASSUME NEW p \in Process, NEW where \in Pc \ {"fsync", "relock", "synced"},
             pc' = [pc EXCEPT ![p] = where]
      PROVE  /\ pc' \in [Process -> Pc]
             /\ \A q \in Process : pc'[q] = pc[q]
                              \/ pc'[q] \notin {"fsync", "relock", "synced"}
  BY <1>q, <1>0 DEF TypeOK
<1>1. ASSUME NEW w \in Process, NEW where \in {"await", "loop"},
             tail < MaxLsn, tail' = tail + 1,
             lsn' = [lsn EXCEPT ![w] = tail + 1], Goto(w, where),
             UNCHANGED <<durable, queue, fsync_running, deadline, run, acked,
                         faults>>
      PROVE  IInv'
  <2>1. tail' \in Lsn
    BY <1>1, <1>00 DEF Lsn
  <2>2. /\ pc' \in [Process -> Pc]
        /\ \A q \in Process : pc'[q] = pc[q]
                              \/ pc'[q] \notin {"fsync", "relock", "synced"}
    BY <1>1, <1>q DEF Goto
  <2>3. TypeOK'
    BY <1>0, <1>1, <2>1, <2>2 DEF TypeOK, queue, deadline, run
  <2>4. OneFsync' /\ RunningInv'
    BY <1>0, <1>1, <2>2 DEF OneFsync, RunningInv, InRun
  <2>5. TargetInv'
    BY <1>0, <1>00, <1>1, <2>1, <2>2 DEF TargetInv, run, TypeOK, Lsn
  <2>6. LsnInv'
    <3>1. pc'[w] # "synced" /\ \A q \in Process \ {w} : pc'[q] = pc[q]
                                                     /\ lsn'[q] = lsn[q]
      BY <1>0, <1>1 DEF Goto, TypeOK
    <3> QED
      BY <1>0, <1>00, <1>1, <2>1, <3>1 DEF LsnInv, queue, TypeOK, Lsn
  <2>7. AckedOnDisk'
    BY <1>0, <1>1 DEF AckedOnDisk
  <2> QED
    BY <2>3, <2>4, <2>5, <2>6, <2>7 DEF IInv
<1>1a. ASSUME NEW w \in Writer, AppendRecord(w) PROVE IInv'
  BY <1>1, <1>1a DEF AppendRecord
<1>1s. ASSUME NEW s \in Session, AppendTxnCommit(s) PROVE IInv'
  BY <1>1, <1>1s DEF AppendTxnCommit
<1>2. ASSUME NEW w \in Writer, AlreadyFlushed(w) PROVE IInv'
  <2>1. lsn[w] \in Lsn /\ lsn[w] <= durable
    BY <1>0, <1>00, <1>2 DEF AlreadyFlushed, LsnInv, TypeOK, Lsn
  <2>2. acked' \subseteq Lsn /\ \A l \in acked' : l <= durable
    BY <1>0, <1>2, <2>1
       DEF AlreadyFlushed, ReturnOk, TypeOK, AckedOnDisk
  <2>3. /\ pc' \in [Process -> Pc]
        /\ \A q \in Process : pc'[q] = pc[q]
                              \/ pc'[q] \notin {"fsync", "relock", "synced"}
    BY <1>2, <1>q DEF AlreadyFlushed, ReturnOk, Goto
  <2> QED
    BY <1>0, <1>2, <2>2, <2>3, QuietStepIInv
       DEF AlreadyFlushed, queue, deadline, TypeOK, LsnInv
<1>3. ASSUME NEW w \in Writer PROVE lsn[w] \in Lsn /\ lsn[w] <= tail
  BY <1>0, <1>3 DEF TypeOK, LsnInv
<1>4. ASSUME NEW w \in Writer
      PROVE  /\ Max2(max_pending_lsn, lsn[w]) \in Lsn
             /\ Max2(max_pending_lsn, lsn[w]) <= tail
  BY <1>0, <1>3, <1>4 DEF TypeOK, LsnInv, Max2
<1>5. ASSUME NEW w \in Writer, AwaitFirst(w) PROVE IInv'
  <2>1. /\ pc' \in [Process -> Pc]
        /\ \A q \in Process : pc'[q] = pc[q]
                              \/ pc'[q] \notin {"fsync", "relock", "synced"}
    BY <1>5, <1>q DEF AwaitFirst, Goto
  <2> QED
    BY <1>0, <1>4, <1>5, <2>1, QuietStepIInv
       DEF AwaitFirst, deadline, TypeOK, AckedOnDisk
<1>6. ASSUME NEW w \in Writer, SpinEnd(w) PROVE IInv'
  BY <1>0, <1>6, FlushNowOrWaitIInv DEF SpinEnd, TypeOK, LsnInv
<1>7. ASSUME NEW w \in Writer, AwaitJoin(w) PROVE IInv'
  <2>1. MicroBatch \in BOOLEAN /\ batch_deadline_active \in BOOLEAN
    BY <1>0, ConfigOK DEF MicroBatch, ConfigOK, TypeOK
  <2>2. pending_count + 1 \in Nat
        /\ (MicroBatch /\ ~batch_deadline_active) \in BOOLEAN
    BY <1>0, <2>1 DEF TypeOK
  <2>3. max_pending_lsn' \in Lsn /\ max_pending_lsn' <= tail
    BY <1>4, <1>7 DEF AwaitJoin
  <2> DEFINE m == Max2(max_pending_lsn, lsn[w])
  <2>4. FlushNowOrWait(w, m, pending_count + 1,
                       MicroBatch /\ ~batch_deadline_active)
    BY <1>7 DEF AwaitJoin
  <2> QED
    BY <1>4, <1>7, <2>2, <2>4, FlushNowOrWaitIInv DEF AwaitJoin
<1>8. ASSUME NEW p \in Process, ~fsync_running,
             StartFsync(p, max_pending_lsn, pending_count),
             UNCHANGED <<log, flushed_lsn, max_pending_lsn, lsn, acked, faults>>
      PROVE  IInv'
  BY <1>0, <1>8, StartFsyncIInv DEF TypeOK, LsnInv
<1>9. ASSUME NEW w \in Writer, AwaitFlushes(w) PROVE IInv'
  BY <1>8, <1>9 DEF AwaitFlushes
<1>10. ASSUME NEW p \in Process, NEW where \in Pc \ {"fsync", "relock", "synced"},
              Goto(p, where),
              UNCHANGED <<log, queue, fsync_running, deadline, lsn, run, acked,
                          faults>>
       PROVE  IInv'
  <2>1. /\ pc' \in [Process -> Pc]
        /\ \A q \in Process : pc'[q] = pc[q]
                              \/ pc'[q] \notin {"fsync", "relock", "synced"}
    BY <1>10, <1>q DEF Goto
  <2> QED
    BY <1>0, <1>10, <2>1, QuietStepIInv
       DEF queue, deadline, TypeOK, LsnInv, AckedOnDisk
<1>11. ASSUME NEW w \in Writer, AwaitSleeps(w) PROVE IInv'
  BY <1>10, <1>11 DEF AwaitSleeps
<1>12. ASSUME NEW p \in Process, WalFsync(p) PROVE IInv'
  <2>1. /\ pc' \in [Process -> Pc] /\ pc[p] = "fsync" /\ pc'[p] = "relock"
        /\ \A q \in Process \ {p} : pc'[q] = pc[q]
    BY <1>0, <1>12 DEF WalFsync, Goto, TypeOK
  <2>2. \A q \in Process \ {p} : pc[q] \notin {"fsync", "relock"}
    BY <1>0, <2>1 DEF OneFsync
  <2>3. TypeOK'
    BY <1>0, <1>12, <2>1 DEF WalFsync, TypeOK, queue, deadline
  <2>4. OneFsync' /\ RunningInv'
    BY <1>0, <1>12, <2>1, <2>2 DEF WalFsync, OneFsync, RunningInv, InRun
  <2>5. TargetInv'
    BY <1>0, <1>12, <2>1, <2>2 DEF WalFsync, TargetInv
  <2>6. LsnInv' /\ AckedOnDisk'
    BY <1>0, <1>00, <1>12, <2>1
       DEF WalFsync, LsnInv, AckedOnDisk, queue, TypeOK, Lsn
  <2> QED
    BY <2>3, <2>4, <2>5, <2>6 DEF IInv
<1>13. ASSUME NEW p \in Process, WalFsyncFails(p) PROVE IInv'
  <2>1. /\ pc' \in [Process -> Pc] /\ pc[p] = "fsync" /\ pc'[p] = "relock"
        /\ \A q \in Process \ {p} : pc'[q] = pc[q]
    BY <1>0, <1>13 DEF WalFsyncFails, Goto, TypeOK
  <2>2. \A q \in Process \ {p} : pc[q] \notin {"fsync", "relock"}
    BY <1>0, <2>1 DEF OneFsync
  <2>3. TypeOK'
    <3>1. faults' \in 0 .. MaxFaults
      BY <1>0, <1>13, ConfigOK DEF WalFsyncFails, TypeOK, ConfigOK
    <3>2. ok' \in BOOLEAN
      BY <1>13 DEF WalFsyncFails
    <3> QED
      BY <1>0, <1>13, <2>1, <3>1, <3>2
         DEF WalFsyncFails, TypeOK, queue, deadline, log
  <2>4. OneFsync' /\ RunningInv'
    BY <1>0, <1>13, <2>1, <2>2 DEF WalFsyncFails, OneFsync, RunningInv, InRun
  <2>5. TargetInv'
    BY <1>0, <1>13, <2>1, <2>2 DEF WalFsyncFails, TargetInv, log
  <2>6. LsnInv' /\ AckedOnDisk'
    BY <1>0, <1>13, <2>1 DEF WalFsyncFails, LsnInv, AckedOnDisk, queue, log
  <2> QED
    BY <2>3, <2>4, <2>5, <2>6 DEF IInv
<1>14. ASSUME NEW p \in Process, FinishFsync(p) PROVE IInv'
  <2>1. \A q \in Process \ {p} : pc[q] \notin {"fsync", "relock"}
    BY <1>0, <1>14 DEF OneFsync, FinishFsync
  <2>2. /\ pc' \in [Process -> Pc]
        /\ \A q \in Process : /\ pc'[q] \notin {"fsync", "relock"}
                              /\ pc'[q] = "synced" => pc[q] = "synced"
    BY <1>0, <1>14, <2>1 DEF FinishFsync, NotifyAllAndGoto, TypeOK
  <2>3. flushed_lsn' \in Lsn /\ flushed_lsn' <= durable
    BY <1>0, <1>14 DEF FinishFsync, FlushedLsn, Max2, TypeOK, LsnInv, TargetInv
  <2>4. pending_count' \in Nat
    BY <1>0, <1>14 DEF FinishFsync, TypeOK
  <2>5. TypeOK'
    BY <1>0, <1>14, <2>2, <2>3, <2>4
       DEF FinishFsync, TypeOK, log, deadline, run
  <2>6. OneFsync' /\ RunningInv' /\ TargetInv'
    BY <2>2 DEF OneFsync, RunningInv, TargetInv, InRun
  <2>7. LsnInv' /\ AckedOnDisk'
    BY <1>0, <1>14, <2>2, <2>3 DEF FinishFsync, LsnInv, AckedOnDisk, log
  <2> QED
    BY <2>5, <2>6, <2>7 DEF IInv
<1>15. CASE FlusherFlushes
  BY <1>8, <1>15 DEF FlusherFlushes
<1>16. CASE FlushPending
  BY <1>10, <1>16 DEF FlushPending
<1>17. ASSUME NEW p \in FlushCaller, FlushPendingTurn(p) PROVE IInv'
  <2>1. CASE Unfinished /\ fsync_running
    BY <1>10, <1>17, <2>1 DEF FlushPendingTurn, queue
  <2>2. CASE ~(Unfinished /\ fsync_running) /\ pending_count > 0
    BY <1>8, <1>17, <2>2 DEF FlushPendingTurn, Unfinished
  <2>3. CASE ~(Unfinished /\ fsync_running) /\ ~(pending_count > 0)
    BY <1>10, <1>17, <2>3 DEF FlushPendingTurn, queue
  <2> QED
    BY <2>1, <2>2, <2>3
<1>20. ASSUME NEW s \in Session, CommitFsync(s) PROVE IInv'
  <2>1. /\ pc' \in [Process -> Pc] /\ pc'[s] = "synced"
        /\ \A q \in Process \ {s} : pc'[q] = pc[q]
    BY <1>0, <1>20 DEF CommitFsync, Goto, TypeOK
  <2>2. TypeOK'
    BY <1>0, <1>20, <2>1 DEF CommitFsync, TypeOK, queue, deadline, run
  <2>3. OneFsync' /\ RunningInv'
    BY <1>0, <1>20, <2>1 DEF CommitFsync, OneFsync, RunningInv, InRun
  <2>4. TargetInv'
    BY <1>0, <1>00, <1>20, <2>1
       DEF CommitFsync, TargetInv, LsnInv, run, TypeOK, Lsn
  <2>5. LsnInv' /\ AckedOnDisk'
    BY <1>0, <1>00, <1>20
       DEF CommitFsync, LsnInv, AckedOnDisk, queue, TypeOK, Lsn
  <2> QED
    BY <2>2, <2>3, <2>4, <2>5 DEF IInv
<1>21. ASSUME NEW s \in Session, CommitFsyncFails(s) PROVE IInv'
  <2>1. /\ pc' \in [Process -> Pc] /\ pc'[s] = "idle"
        /\ \A q \in Process \ {s} : pc'[q] = pc[q]
    BY <1>0, <1>21 DEF CommitFsyncFails, Goto, TypeOK
  <2>2. faults' \in 0 .. MaxFaults
    BY <1>0, <1>21, ConfigOK DEF CommitFsyncFails, TypeOK, ConfigOK
  <2>3. TypeOK'
    BY <1>0, <1>21, <2>1, <2>2
       DEF CommitFsyncFails, TypeOK, queue, deadline, run, log
  <2>4. OneFsync' /\ RunningInv' /\ TargetInv'
    BY <1>0, <1>21, <2>1
       DEF CommitFsyncFails, OneFsync, RunningInv, TargetInv, InRun, run, log
  <2>5. LsnInv' /\ AckedOnDisk'
    BY <1>0, <1>21, <2>1
       DEF CommitFsyncFails, LsnInv, AckedOnDisk, queue, log
  <2> QED
    BY <2>3, <2>4, <2>5 DEF IInv
<1>22. ASSUME NEW s \in Session, CommitReturns(s) PROVE IInv'
  <2>1. lsn[s] \in Lsn /\ lsn[s] <= durable
    BY <1>0, <1>22 DEF CommitReturns, LsnInv, TypeOK
  <2>2. acked' \subseteq Lsn /\ \A l \in acked' : l <= durable
    BY <1>0, <1>22, <2>1 DEF CommitReturns, ReturnOk, TypeOK, AckedOnDisk
  <2>3. /\ pc' \in [Process -> Pc]
        /\ \A q \in Process : pc'[q] = pc[q]
                              \/ pc'[q] \notin {"fsync", "relock", "synced"}
    BY <1>22, <1>q DEF CommitReturns, ReturnOk, Goto
  <2> QED
    BY <1>0, <1>22, <2>2, <2>3, QuietStepIInv
       DEF CommitReturns, queue, deadline, TypeOK, LsnInv
<1>18. CASE DeadlinePasses
  BY <1>0, <1>18, QuietStepIInv
     DEF DeadlinePasses, queue, TypeOK, LsnInv, AckedOnDisk
<1>19. CASE UNCHANGED vars
  BY <1>0, <1>19, QuietStepIInv
     DEF vars, queue, deadline, TypeOK, LsnInv, AckedOnDisk
<1> QED
  BY <1>1a, <1>1s, <1>2, <1>5, <1>6, <1>7, <1>9, <1>11, <1>12, <1>13, <1>14,
     <1>15, <1>16, <1>17, <1>18, <1>19, <1>20, <1>21, <1>22
     DEF Next, AwaitStep, Fsyncing

(* Type correctness of the coordinator. *)
THEOREM TypeCorrect == Spec => []TypeOK
<1>1. IInv => TypeOK
  BY DEF IInv
<1> QED
  BY <1>1, InitIInv, NextIInv, PTL DEF Spec

(* RPO 0 at the return of a kSync write and of a commit, for any number of  *)
(* writers and sessions, every batch size, with or without micro-batching,  *)
(* whichever fsyncs fail.                                                   *)
THEOREM AwaitIsDurable == Spec => []AckedOnDisk
<1>1. IInv => AckedOnDisk
  BY DEF IInv
<1> QED
  BY <1>1, InitIInv, NextIInv, PTL DEF Spec

(* Fsyncs of one log never overlap. *)
THEOREM FsyncsAreSerial == Spec => []OneFsync
<1>1. IInv => OneFsync
  BY DEF IInv
<1> QED
  BY <1>1, InitIInv, NextIInv, PTL DEF Spec

-----------------------------------------------------------------------------
(* FlushPending.  It stops when nobody is counted and no fsync runs, or when *)
(* everything asked for is flushed.  WaitInv says that this is enough: a     *)
(* waiting writer's record is flushed, or in the batch being counted, or the *)
(* target of the fsync under way, whose waiters come back if it fails.       *)
Waits(p) == pc[p] \in {"spin", "loop", "asleep"}

WaitInv ==
  /\ \A w \in Writer :
       /\ Waits(w) =>
            /\ lsn[w] <= max_pending_lsn
            /\ \/ lsn[w] <= flushed_lsn
               \/ pending_count > 0
               \/ fsync_running /\ lsn[w] <= target
       /\ InRun(w) => lsn[w] <= target
  /\ fsync_running => waiters > 0 /\ target <= max_pending_lsn

LEMMA NumbersAreNat ==
  ASSUME IInv
  PROVE  /\ flushed_lsn \in Nat /\ max_pending_lsn \in Nat /\ target \in Nat
         /\ pending_count \in Nat /\ waiters \in Nat /\ durable \in Nat
         /\ \A p \in Process : lsn[p] \in Nat
BY ConfigOK DEF ConfigOK, IInv, TypeOK, Lsn

(* Who starts an fsync for everybody counted makes their records its target. *)
LEMMA StartFsyncWaits ==
  ASSUME IInv, WaitInv, ~fsync_running, NEW p \in Process,
         NEW pending_lsn \in Nat, max_pending_lsn <= pending_lsn,
         p \in Writer => lsn[p] <= pending_lsn,
         NEW count \in Nat, count > 0,
         StartFsync(p, pending_lsn, count),
         max_pending_lsn' = pending_lsn,
         UNCHANGED <<flushed_lsn, lsn>>
  PROVE  WaitInv'
<1>1. /\ pc'[p] = "fsync" /\ \A q \in Process \ {p} : pc'[q] = pc[q]
      /\ fsync_running' /\ target' = pending_lsn /\ waiters' = count
  BY DEF StartFsync, Goto, IInv, TypeOK
<1>2. \A q \in Process : ~InRun(q)
  BY DEF IInv, RunningInv
<1>3. ASSUME NEW w \in Writer PROVE Waits(w)' => lsn[w] <= pending_lsn
  BY <1>1, <1>3, NumbersAreNat DEF WaitInv, Waits, Process
<1>4. ASSUME NEW w \in Writer PROVE InRun(w)' => lsn[w] <= pending_lsn
  BY <1>1, <1>2, <1>4 DEF InRun, Process
<1> QED
  BY <1>1, <1>3, <1>4, NumbersAreNat DEF WaitInv

(* A step outside the ends of RunFsyncLocked that takes nobody off the count *)
(* and counts whoever begins to wait.                                        *)
LEMMA QuietStepWaits ==
  ASSUME IInv, WaitInv,
         UNCHANGED <<flushed_lsn, fsync_running, target, waiters>>,
         max_pending_lsn' \in Nat, max_pending_lsn <= max_pending_lsn',
         pending_count > 0 => pending_count' > 0,
         \A w \in Writer : InRun(w)' => InRun(w) /\ lsn'[w] = lsn[w],
         \A w \in Writer : Waits(w)' =>
           /\ lsn'[w] = lsn[w]
           /\ Waits(w) \/ (lsn[w] <= max_pending_lsn' /\ pending_count' > 0)
  PROVE  WaitInv'
<1>1. ASSUME NEW w \in Writer, Waits(w)'
      PROVE  /\ lsn'[w] <= max_pending_lsn'
             /\ \/ lsn'[w] <= flushed_lsn
                \/ pending_count' > 0
                \/ fsync_running /\ lsn'[w] <= target
  BY <1>1, NumbersAreNat DEF WaitInv, Process
<1>2. ASSUME NEW w \in Writer, InRun(w)' PROVE lsn'[w] <= target
  BY <1>2 DEF WaitInv
<1>3. fsync_running => waiters > 0 /\ target <= max_pending_lsn'
  BY NumbersAreNat DEF WaitInv
<1> QED
  BY <1>1, <1>2, <1>3 DEF WaitInv

(* The end of the entry part of Await, for who waits or joins now. *)
LEMMA FlushNowOrWaitWaits ==
  ASSUME IInv, WaitInv, NEW w \in Writer,
         NEW pending_lsn \in Nat, max_pending_lsn <= pending_lsn,
         lsn[w] <= pending_lsn,
         NEW count \in Nat, pending_count <= count, NEW sets_deadline,
         Waits(w) \/ count > 0,
         FlushNowOrWait(w, pending_lsn, count, sets_deadline),
         max_pending_lsn' = pending_lsn,
         UNCHANGED <<flushed_lsn, lsn>>
  PROVE  WaitInv'
<1> DEFINE Now == ShouldFlushLocked(count, TimedOut /\ ~sets_deadline)
                  /\ ~fsync_running
<1>1. CASE Now
  <2>1. StartFsync(w, pending_lsn, count) /\ ~fsync_running /\ count > 0
    BY <1>1 DEF FlushNowOrWait, ShouldFlushLocked
  <2> QED
    BY <2>1, StartFsyncWaits DEF Process
<1>2. CASE ~Now
  <2>1. /\ Goto(w, "loop") /\ pending_count' = count
        /\ UNCHANGED <<fsync_running, target, waiters>>
    BY <1>2 DEF FlushNowOrWait, run
  <2>2. pc'[w] = "loop" /\ \A v \in Writer \ {w} : pc'[v] = pc[v]
    BY <2>1 DEF Goto, IInv, TypeOK, Process
  <2>3. pending_count > 0 => count > 0
    BY NumbersAreNat
  <2>4. \A v \in Writer : InRun(v)' => InRun(v)
    BY <2>2 DEF InRun
  <2>5. \A v \in Writer : Waits(v)' => Waits(v) \/ (v = w /\ count > 0)
    BY <2>2 DEF Waits
  <2> QED
    BY <2>1, <2>3, <2>4, <2>5, QuietStepWaits
<1> QED
  BY <1>1, <1>2

LEMMA InitWaits == Init => WaitInv
BY DEF Init, WaitInv, Waits, InRun, Process

LEMMA NextWaits == IInv /\ WaitInv /\ [Next]_vars => WaitInv'
<1> SUFFICES ASSUME IInv, WaitInv, [Next]_vars PROVE WaitInv'
  OBVIOUS
<1>0. /\ flushed_lsn \in Nat /\ max_pending_lsn \in Nat /\ target \in Nat
      /\ pending_count \in Nat /\ waiters \in Nat
      /\ \A w \in Writer : w \in Process /\ lsn[w] \in Nat
      /\ Flusher \notin Writer /\ FlushCaller \cap Writer = {}
      /\ Flusher \in Process /\ FlushCaller \subseteq Process
      /\ Maintenance \in FlushCaller /\ Session \subseteq FlushCaller
  BY NumbersAreNat, ProcessesDiffer DEF Process, FlushCaller, ProcessesDiffer
<1>pc. ASSUME NEW p \in Process, NEW where, Goto(p, where)
       PROVE  pc'[p] = where /\ \A q \in Process \ {p} : pc'[q] = pc[q]
  BY <1>pc DEF Goto, IInv, TypeOK
<1>max. ASSUME NEW w \in Writer
        PROVE  LET m == Max2(max_pending_lsn, lsn[w])
               IN  m \in Nat /\ max_pending_lsn <= m /\ lsn[w] <= m
  BY <1>0, <1>max DEF Max2
<1>1. ASSUME NEW w \in Writer, AppendRecord(w) PROVE WaitInv'
  <2>1. /\ pc'[w] = "await" /\ \A v \in Writer \ {w} : pc'[v] = pc[v]
        /\ \A v \in Writer \ {w} : lsn'[v] = lsn[v]
    BY <1>0, <1>1, <1>pc DEF AppendRecord, IInv, TypeOK
  <2>2. \A v \in Writer : /\ Waits(v)' => Waits(v) /\ lsn'[v] = lsn[v]
                          /\ InRun(v)' => InRun(v) /\ lsn'[v] = lsn[v]
    BY <2>1 DEF Waits, InRun
  <2> QED
    BY <1>0, <1>1, <2>2, QuietStepWaits DEF AppendRecord, queue, run
<1>2. ASSUME NEW p \in Process, NEW where \in {"idle", "await"}, Goto(p, where),
             UNCHANGED <<queue, fsync_running, lsn, run>>
      PROVE  WaitInv'
  <2>1. \A v \in Writer : /\ Waits(v)' => Waits(v)
                          /\ InRun(v)' => InRun(v)
    BY <1>0, <1>2, <1>pc DEF Waits, InRun
  <2> QED
    BY <1>0, <1>2, <2>1, QuietStepWaits DEF queue, run
<1>3. ASSUME NEW w \in Writer, AlreadyFlushed(w) PROVE WaitInv'
  BY <1>0, <1>2, <1>3 DEF AlreadyFlushed, ReturnOk
<1>4. ASSUME NEW w \in Writer, AwaitFirst(w) PROVE WaitInv'
  <2>1. \A v \in Writer : /\ Waits(v)' => Waits(v) \/ v = w
                          /\ InRun(v)' => InRun(v)
    BY <1>0, <1>4, <1>pc DEF AwaitFirst, Waits, InRun
  <2> QED
    BY <1>0, <1>max, <1>4, <2>1, QuietStepWaits DEF AwaitFirst, run
<1>5. ASSUME NEW w \in Writer, SpinEnd(w) PROVE WaitInv'
  <2>1. Waits(w) /\ lsn[w] <= max_pending_lsn
    BY <1>5 DEF SpinEnd, Waits, WaitInv
  <2>2. /\ FlushNowOrWait(w, max_pending_lsn, pending_count, TRUE)
        /\ UNCHANGED <<flushed_lsn, max_pending_lsn, lsn>>
    BY <1>5 DEF SpinEnd
  <2>3. max_pending_lsn <= max_pending_lsn /\ pending_count <= pending_count
    BY <1>0
  <2> QED
    BY <1>0, <2>1, <2>2, <2>3, FlushNowOrWaitWaits
<1>6. ASSUME NEW w \in Writer, AwaitJoin(w) PROVE WaitInv'
  <2> DEFINE m == Max2(max_pending_lsn, lsn[w])
  <2>1. FlushNowOrWait(w, m, pending_count + 1,
                       MicroBatch /\ ~batch_deadline_active)
        /\ max_pending_lsn' = m /\ UNCHANGED <<flushed_lsn, lsn>>
    BY <1>6 DEF AwaitJoin
  <2>2. pending_count + 1 \in Nat /\ pending_count + 1 > 0
        /\ pending_count <= pending_count + 1
    BY <1>0
  <2>3. m \in Nat /\ max_pending_lsn <= m /\ lsn[w] <= m
    BY <1>max
  <2> HIDE DEF m
  <2> QED
    BY <2>1, <2>2, <2>3, FlushNowOrWaitWaits
<1>7. ASSUME NEW p \in Process, p \in Writer => Waits(p), ~fsync_running,
             pending_count > 0, StartFsync(p, max_pending_lsn, pending_count),
             UNCHANGED <<flushed_lsn, max_pending_lsn, lsn>>
      PROVE  WaitInv'
  <2>1. p \in Writer => lsn[p] <= max_pending_lsn
    BY <1>7 DEF WaitInv
  <2> QED
    BY <1>0, <1>7, <2>1, StartFsyncWaits
<1>8. ASSUME NEW w \in Writer, AwaitFlushes(w) PROVE WaitInv'
  BY <1>0, <1>7, <1>8 DEF AwaitFlushes, ShouldFlushLocked, Waits
<1>9. ASSUME NEW w \in Writer, AwaitSleeps(w) PROVE WaitInv'
  <2>1. \A v \in Writer : /\ Waits(v)' => Waits(v)
                          /\ InRun(v)' => InRun(v)
    BY <1>0, <1>9, <1>pc DEF AwaitSleeps, Waits, InRun
  <2> QED
    BY <1>0, <1>9, <2>1, QuietStepWaits DEF AwaitSleeps, queue, run
<1>10. ASSUME NEW p \in Process, WalFsync(p) \/ WalFsyncFails(p) PROVE WaitInv'
  <2>1. /\ pc[p] = "fsync" /\ Goto(p, "relock")
        /\ UNCHANGED <<queue, fsync_running, lsn, target, waiters>>
    BY <1>10 DEF WalFsync, WalFsyncFails
  <2>2. \A v \in Writer : /\ Waits(v)' => Waits(v)
                          /\ InRun(v)' => InRun(v)
    BY <1>0, <2>1, <1>pc DEF Waits, InRun
  <2> QED
    BY <1>0, <2>1, <2>2, QuietStepWaits DEF queue
<1>11. ASSUME NEW p \in Process, FinishFsync(p) PROVE WaitInv'
  <2>1. /\ pc[p] = "relock" /\ fsync_running
        /\ \A q \in Process \ {p} : ~InRun(q)
    BY <1>11 DEF FinishFsync, IInv, OneFsync, RunningInv, InRun
  <2>2. /\ ~fsync_running' /\ UNCHANGED <<lsn, max_pending_lsn, target, waiters>>
        /\ ok => flushed_lsn' = FlushedLsn /\ UNCHANGED pending_count
        /\ ~ok => pending_count' = pending_count + waiters
                  /\ UNCHANGED flushed_lsn
    BY <1>11, Zenon DEF FinishFsync, run
  <2>3. \A v \in Writer : /\ ~InRun(v)'
                          /\ Waits(v)' => Waits(v) \/ InRun(v)
    BY <1>0, <1>11, <2>1
       DEF FinishFsync, NotifyAllAndGoto, Waits, InRun
  <2>4. waiters > 0 /\ target <= max_pending_lsn
    BY <2>1 DEF WaitInv
  <2>5. ok => flushed_lsn <= flushed_lsn' /\ target <= flushed_lsn'
              /\ flushed_lsn' \in Nat
    BY <1>0, <2>2 DEF FlushedLsn, Max2
  <2>6. ~ok => pending_count' > 0
    BY <1>0, <2>2, <2>4
  <2>7. ASSUME NEW v \in Writer, Waits(v)'
        PROVE  /\ lsn[v] <= max_pending_lsn
               /\ lsn[v] <= flushed_lsn' \/ pending_count' > 0
    <3>1. lsn[v] <= max_pending_lsn
      BY <1>0, <2>3, <2>4, <2>7 DEF WaitInv
    <3>2. lsn[v] <= flushed_lsn \/ pending_count > 0 \/ lsn[v] <= target
      BY <2>3, <2>7 DEF WaitInv
    <3> QED
      BY <1>0, <2>2, <2>5, <2>6, <3>1, <3>2
  <2> QED
    BY <2>2, <2>3, <2>7 DEF WaitInv
<1>12. CASE FlusherFlushes
  BY <1>0, <1>7, <1>12 DEF FlusherFlushes, ShouldFlushLocked
<1>13. ASSUME NEW p \in FlushCaller, NEW where, Goto(p, where),
              UNCHANGED <<queue, fsync_running, run>>,
              \A v \in Writer : lsn'[v] = lsn[v]
       PROVE  WaitInv'
  <2>1. \A v \in Writer : pc'[v] = pc[v]
    BY <1>0, <1>13, <1>pc
  <2> QED
    BY <1>0, <1>13, <2>1, QuietStepWaits DEF Waits, InRun, queue, run
<1>14. CASE FlushPending
  BY <1>0, <1>13, <1>14 DEF FlushPending
<1>15. ASSUME NEW p \in FlushCaller, FlushPendingTurn(p) PROVE WaitInv'
  <2>1. CASE Unfinished /\ fsync_running
    BY <1>13, <1>15, <2>1 DEF FlushPendingTurn, queue
  <2>2. CASE ~(Unfinished /\ fsync_running) /\ pending_count > 0
    BY <1>0, <1>7, <1>15, <2>2 DEF FlushPendingTurn, Unfinished
  <2>3. CASE ~(Unfinished /\ fsync_running) /\ ~(pending_count > 0)
    BY <1>13, <1>15, <2>3 DEF FlushPendingTurn, queue
  <2> QED
    BY <2>1, <2>2, <2>3
<1>18. ASSUME NEW s \in Session, AppendTxnCommit(s) PROVE WaitInv'
  <2>1. s \in FlushCaller /\ \A v \in Writer : lsn'[v] = lsn[v]
    BY <1>0, <1>18 DEF AppendTxnCommit, IInv, TypeOK
  <2> QED
    BY <1>13, <1>18, <2>1 DEF AppendTxnCommit
<1>19. ASSUME NEW s \in Session,
              CommitFsync(s) \/ CommitFsyncFails(s) \/ CommitReturns(s)
       PROVE  WaitInv'
  BY <1>0, <1>13, <1>19
     DEF CommitFsync, CommitFsyncFails, CommitReturns, ReturnOk
<1>16. CASE DeadlinePasses
  BY <1>0, <1>16, QuietStepWaits DEF DeadlinePasses, queue, run, Waits, InRun
<1>17. CASE UNCHANGED vars
  BY <1>0, <1>17, QuietStepWaits DEF vars, queue, run, Waits, InRun
<1> QED
  BY <1>1, <1>3, <1>4, <1>5, <1>6, <1>8, <1>9, <1>10, <1>11, <1>12, <1>14,
     <1>15, <1>16, <1>17, <1>18, <1>19 DEF Next, AwaitStep, Fsyncing

(* FlushPending, which Flush and Checkpoint call before they rotate and a    *)
(* transaction before its last fsync, says that it is done only when every   *)
(* writer in Await has its record on disk, whoever fsyncs meanwhile and      *)
(* whichever fsyncs fail.                                                    *)
THEOREM FlushPendingIsComplete == Spec => FlushPendingComplete
<1> DEFINE Done ==
      \A p \in FlushCaller :
        pc[p] = "loop" /\ pc'[p] \in {"idle", "sync"}
          => \A w \in Writer : pc[w] \in {"spin", "loop", "asleep"}
                                 => lsn[w] <= durable
<1>1. IInv /\ WaitInv /\ [Next]_vars => [Done]_vars
  <2> SUFFICES ASSUME IInv, WaitInv, Next, NEW p \in FlushCaller,
                      pc[p] = "loop", pc'[p] \in {"idle", "sync"},
                      NEW w \in Writer, Waits(w)
               PROVE  lsn[w] <= durable
    BY DEF Waits
  <2>0. /\ p \in Process /\ w \in Process /\ p \notin Writer /\ p # Flusher
        /\ Writer \subseteq Process \ {p} /\ Flusher \in Process \ {p}
    BY ProcessesDiffer DEF Process, FlushCaller, ProcessesDiffer
  <2>1. FlushPendingTurn(p)
    <3>1. ASSUME NEW q \in Process \ {p}, NEW where, Goto(q, where)
          PROVE  pc'[p] = "loop"
      BY <2>0, <3>1 DEF Goto, IInv, TypeOK
    <3>3. ASSUME NEW v \in Writer, AppendRecord(v) PROVE FALSE
      BY <2>0, <3>1, <3>3 DEF AppendRecord
    <3>4. ASSUME NEW v \in Writer, AwaitStep(v) PROVE FALSE
      BY <2>0, <3>1, <3>4
         DEF AwaitStep, AlreadyFlushed, ReturnOk, AwaitFirst, SpinEnd, AwaitJoin,
             AwaitFlushes, AwaitSleeps, FlushNowOrWait, StartFsync
    <3>5. ASSUME NEW q \in Process, Fsyncing(q) \/ WalFsyncFails(q) PROVE FALSE
      <4>1. pc[q] \in {"fsync", "relock"} /\ q # p
        BY <3>5 DEF Fsyncing, WalFsync, FinishFsync, WalFsyncFails
      <4>2. CASE WalFsync(q) \/ WalFsyncFails(q)
        BY <3>1, <4>1, <4>2 DEF WalFsync, WalFsyncFails
      <4>3. CASE FinishFsync(q)
        BY <2>0, <4>1, <4>3 DEF FinishFsync, NotifyAllAndGoto
      <4> QED
        BY <3>5, <4>2, <4>3 DEF Fsyncing
    <3>6. ~FlusherFlushes /\ ~DeadlinePasses
      BY <2>0, <3>1 DEF FlusherFlushes, DeadlinePasses, StartFsync
    <3>7. ~FlushPending
      <4> SUFFICES ASSUME FlushPending PROVE FALSE
        OBVIOUS
      <4>1. Maintenance \in Process \ {p}
        BY DEF FlushPending, Process, FlushCaller
      <4> QED
        BY <3>1, <4>1 DEF FlushPending
    <3>8. ASSUME NEW q \in FlushCaller, q # p, FlushPendingTurn(q) PROVE FALSE
      <4>1. q \in Process \ {p} /\ \E where : Goto(q, where)
        BY <3>8 DEF FlushPendingTurn, StartFsync, Process
      <4> QED
        BY <3>1, <4>1
    <3>9. ASSUME NEW s \in Session,
                 AppendTxnCommit(s) \/ CommitFsync(s) \/ CommitFsyncFails(s)
                   \/ CommitReturns(s)
          PROVE  FALSE
      <4>1. s \in Process \ {p} /\ \E where : Goto(s, where)
        BY <3>9 DEF AppendTxnCommit, CommitFsync, CommitFsyncFails,
                    CommitReturns, ReturnOk, Process, FlushCaller
      <4> QED
        BY <3>1, <4>1
    <3> QED
      BY <3>3, <3>4, <3>5, <3>6, <3>7, <3>8, <3>9 DEF Next
  <2>2. ~(pending_count > 0) /\ ~(Unfinished /\ fsync_running)
    BY <2>0, <2>1 DEF FlushPendingTurn, StartFsync, Goto, IInv, TypeOK
  <2>3. lsn[w] <= flushed_lsn
    BY <2>0, <2>2, NumbersAreNat DEF WaitInv, Unfinished
  <2> QED
    BY <2>0, <2>3, NumbersAreNat DEF IInv, LsnInv
<1> QED
  BY <1>1, InitIInv, NextIInv, InitWaits, NextWaits, PTL
     DEF Spec, FlushPendingComplete

-----------------------------------------------------------------------------
(* WalFsyncCoordinator implements DurableLog.  The mapping takes the LSNs of *)
(* the writers in Await and of the sessions in AppendTxnCommit for           *)
(* `waiting'; a step that ends such a call takes one LSN out of it because   *)
(* no two of them have the same (OneRecordEach).                             *)

OneRecordEach ==
  \A v, w \in Caller :
    pc[v] # "idle" /\ pc[w] # "idle" /\ lsn[v] = lsn[w] => v = w

RInv == IInv /\ OneRecordEach

(* No writer or session enters or leaves its call. *)
SameAwaits == \A w \in Caller : pc'[w] = "idle" <=> pc[w] = "idle"

LEMMA SameAwaitsSameWaiting ==
  ASSUME SameAwaits, UNCHANGED lsn
  PROVE  UNCHANGED Waiting /\ (OneRecordEach => OneRecordEach')
BY DEF SameAwaits, Waiting, OneRecordEach

(* A writer w that leaves Await. *)
LEMMA LeaveAwait ==
  ASSUME OneRecordEach, NEW w \in Caller, pc[w] # "idle", pc'[w] = "idle",
         \A v \in Caller \ {w} : pc'[v] = "idle" <=> pc[v] = "idle",
         UNCHANGED lsn
  PROVE  /\ lsn[w] \in Waiting
         /\ Waiting' = Waiting \ {lsn[w]}
         /\ OneRecordEach'
<1>1. lsn[w] \in Waiting
  BY DEF Waiting
<1>2. ASSUME NEW l \in Waiting' PROVE l \in Waiting \ {lsn[w]}
  <2>1. PICK v \in Caller : pc'[v] # "idle" /\ l = lsn[v]
    BY DEF Waiting
  <2>2. pc[v] # "idle" /\ v # w
    BY <2>1
  <2> QED
    BY <2>1, <2>2 DEF Waiting, OneRecordEach
<1>3. ASSUME NEW l \in Waiting, l # lsn[w] PROVE l \in Waiting'
  <2>1. PICK v \in Caller : pc[v] # "idle" /\ l = lsn[v]
    BY DEF Waiting
  <2>2. v # w
    BY <1>3, <2>1
  <2> QED
    BY <2>1, <2>2 DEF Waiting
<1>4. OneRecordEach'
  BY DEF OneRecordEach
<1> QED
  BY <1>1, <1>2, <1>3, <1>4

(* StartFsync, NotifyAll and a plain Goto of a process in Await.           *)
LEMMA GotoAwaits ==
  ASSUME TypeOK, NEW p \in Process, NEW where, Goto(p, where),
         p \in Caller => (where = "idle" <=> pc[p] = "idle")
  PROVE  SameAwaits
BY DEF TypeOK, Goto, SameAwaits, Process, FlushCaller, Caller

LEMMA FlushNowOrWaitAwaits ==
  ASSUME TypeOK, NEW w \in Writer, pc[w] # "idle", NEW pending_lsn, NEW count,
         NEW sets_deadline, FlushNowOrWait(w, pending_lsn, count, sets_deadline)
  PROVE  SameAwaits
<1>1. Goto(w, "fsync") \/ Goto(w, "loop")
  BY DEF FlushNowOrWait, StartFsync
<1> QED
  BY <1>1, GotoAwaits DEF Process

(* Every step of the coordinator is a step of DurableLog, or none.         *)
LEMMA StepSimulation == RInv /\ [Next]_vars => [DL!Next]_(DL!vars) /\ OneRecordEach'
<1> SUFFICES ASSUME RInv, [Next]_vars
             PROVE  [DL!Next]_(DL!vars) /\ OneRecordEach'
  OBVIOUS
<1> USE DEF Process, FlushCaller, Caller
<1>0. TypeOK /\ LsnInv /\ TargetInv /\ OneRecordEach
  BY DEF RInv, IInv
<1>t. /\ tail \in Nat /\ durable \in Nat /\ flushed_lsn \in Nat
      /\ \A w \in Caller : lsn[w] \in Nat /\ lsn[w] <= tail
  BY <1>0, ConfigOK DEF ConfigOK, TypeOK, Lsn, LsnInv
<1>s. ASSUME SameAwaits, UNCHANGED <<lsn, tail, durable, acked>>
      PROVE  [DL!Next]_(DL!vars) /\ OneRecordEach'
  BY <1>0, <1>s, SameAwaitsSameWaiting DEF DL!vars
<1>1. ASSUME NEW w \in Caller, pc[w] = "idle", NEW where, where # "idle",
             Goto(w, where), tail' = tail + 1,
             lsn' = [lsn EXCEPT ![w] = tail + 1], UNCHANGED <<durable, acked>>
      PROVE  [DL!Next]_(DL!vars) /\ OneRecordEach'
  <2>1. /\ pc'[w] # "idle" /\ lsn'[w] = tail + 1
        /\ \A v \in Caller \ {w} : pc'[v] = pc[v] /\ lsn'[v] = lsn[v]
    BY <1>0, <1>1 DEF Goto, TypeOK
  <2>2. \A v \in Caller : lsn[v] # tail + 1
    BY <1>t
  <2>3. Waiting' = Waiting \cup {tail + 1}
    <3>1. ASSUME NEW l \in Waiting' PROVE l \in Waiting \cup {tail + 1}
      BY <2>1 DEF Waiting
    <3>2. ASSUME NEW l \in Waiting PROVE l \in Waiting'
      <4>1. PICK v \in Caller : pc[v] # "idle" /\ l = lsn[v]
        BY DEF Waiting
      <4>2. v # w
        BY <1>1, <4>1
      <4> QED
        BY <2>1, <4>1, <4>2 DEF Waiting
    <3>3. tail + 1 \in Waiting'
      BY <2>1 DEF Waiting
    <3> QED
      BY <3>1, <3>2, <3>3
  <2>4. DL!AppendRecord
    BY <1>1, <2>3 DEF DL!AppendRecord
  <2>5. OneRecordEach'
    BY <1>0, <2>1, <2>2 DEF OneRecordEach
  <2> QED
    BY <2>4, <2>5 DEF DL!Next
<1>1a. ASSUME NEW w \in Writer, AppendRecord(w)
       PROVE  [DL!Next]_(DL!vars) /\ OneRecordEach'
  BY <1>1, <1>1a DEF AppendRecord
<1>1s. ASSUME NEW s \in Session, AppendTxnCommit(s)
       PROVE  [DL!Next]_(DL!vars) /\ OneRecordEach'
  BY <1>1, <1>1s DEF AppendTxnCommit
<1>2. ASSUME NEW w \in Caller, pc[w] # "idle", lsn[w] <= durable, ReturnOk(w),
             UNCHANGED <<log, lsn>>
      PROVE  [DL!Next]_(DL!vars) /\ OneRecordEach'
  <2>1. /\ pc'[w] = "idle"
        /\ \A v \in Caller \ {w} : pc'[v] = pc[v]
    BY <1>0, <1>2 DEF ReturnOk, Goto, TypeOK
  <2>2. /\ lsn[w] \in Waiting /\ Waiting' = Waiting \ {lsn[w]}
        /\ OneRecordEach'
    BY <1>0, <1>2, <2>1, LeaveAwait
  <2>4. DL!Acknowledge(lsn[w])
    BY <1>2, <2>2 DEF ReturnOk, log, DL!Acknowledge
  <2> QED
    BY <2>2, <2>4 DEF DL!Next
<1>2a. ASSUME NEW w \in Writer, AlreadyFlushed(w)
       PROVE  [DL!Next]_(DL!vars) /\ OneRecordEach'
  <2>1. lsn[w] <= durable
    BY <1>0, <1>t, <1>2a DEF AlreadyFlushed, LsnInv
  <2> QED
    BY <1>2, <1>2a, <2>1 DEF AlreadyFlushed
<1>2s. ASSUME NEW s \in Session, CommitReturns(s)
       PROVE  [DL!Next]_(DL!vars) /\ OneRecordEach'
  <2>1. pc[s] = "synced" /\ lsn[s] <= durable
    BY <1>0, <1>2s DEF CommitReturns, LsnInv
  <2> QED
    BY <1>2, <1>2s, <2>1 DEF CommitReturns
<1>3. ASSUME NEW w \in Writer, AwaitFirst(w)
      PROVE  [DL!Next]_(DL!vars) /\ OneRecordEach'
  BY <1>0, <1>3, <1>s, GotoAwaits DEF AwaitFirst, log
<1>4. ASSUME NEW w \in Writer, SpinEnd(w)
      PROVE  [DL!Next]_(DL!vars) /\ OneRecordEach'
  BY <1>0, <1>4, <1>s, FlushNowOrWaitAwaits DEF SpinEnd, log
<1>5. ASSUME NEW w \in Writer, AwaitJoin(w)
      PROVE  [DL!Next]_(DL!vars) /\ OneRecordEach'
  BY <1>0, <1>5, <1>s, FlushNowOrWaitAwaits DEF AwaitJoin, log
<1>6. ASSUME NEW w \in Writer, AwaitFlushes(w)
      PROVE  [DL!Next]_(DL!vars) /\ OneRecordEach'
  BY <1>0, <1>6, <1>s, GotoAwaits DEF AwaitFlushes, StartFsync, log
<1>7. ASSUME NEW w \in Writer, AwaitSleeps(w)
      PROVE  [DL!Next]_(DL!vars) /\ OneRecordEach'
  BY <1>0, <1>7, <1>s, GotoAwaits DEF AwaitSleeps, log
<1>8. ASSUME NEW p \in Process, NEW where, Goto(p, where),
             pc[p] # "idle" /\ where # "idle",
             durable' = tail, UNCHANGED <<tail, lsn, acked>>
      PROVE  [DL!Next]_(DL!vars) /\ OneRecordEach'
  <2>1. UNCHANGED Waiting /\ OneRecordEach'
    BY <1>0, <1>8, GotoAwaits, SameAwaitsSameWaiting
  <2>2. DL!Sync
    BY <1>8, <2>1 DEF DL!Sync
  <2> QED
    BY <2>1, <2>2 DEF DL!Next
<1>8a. ASSUME NEW p \in Process, WalFsync(p)
       PROVE  [DL!Next]_(DL!vars) /\ OneRecordEach'
  BY <1>8, <1>8a DEF WalFsync
<1>8s. ASSUME NEW s \in Session, CommitFsync(s)
       PROVE  [DL!Next]_(DL!vars) /\ OneRecordEach'
  BY <1>8, <1>8s DEF CommitFsync
<1>9. ASSUME NEW p \in Process, WalFsyncFails(p)
      PROVE  [DL!Next]_(DL!vars) /\ OneRecordEach'
  BY <1>0, <1>9, <1>s, GotoAwaits DEF WalFsyncFails, log
<1>er. ASSUME NEW p \in Caller, pc[p] # "idle", pc'[p] = "idle",
              \A v \in Caller \ {p} : pc'[v] = "idle" <=> pc[v] = "idle",
              UNCHANGED <<lsn, tail, durable, acked>>
       PROVE  [DL!Next]_(DL!vars) /\ OneRecordEach'
  <2>1. /\ lsn[p] \in Waiting /\ Waiting' = Waiting \ {lsn[p]}
        /\ OneRecordEach'
    BY <1>0, <1>er, LeaveAwait
  <2>2. DL!ReturnError(lsn[p])
    BY <1>er, <2>1 DEF DL!ReturnError
  <2> QED
    BY <2>1, <2>2 DEF DL!Next
<1>10. ASSUME NEW p \in Process, FinishFsync(p)
       PROVE  [DL!Next]_(DL!vars) /\ OneRecordEach'
  <2>1. \A w \in Caller \ {p} : pc'[w] = "idle" <=> pc[w] = "idle"
    BY <1>0, <1>10 DEF FinishFsync, NotifyAllAndGoto, TypeOK
  <2>2. UNCHANGED <<lsn, tail, durable, acked>> /\ pc[p] = "relock"
    BY <1>10 DEF FinishFsync, log
  <2>3. CASE ok \/ p \notin Caller
    <3>1. p \in Caller => pc'[p] = "loop"
      BY <1>0, <1>10, <2>3, ProcessesDiffer
         DEF FinishFsync, NotifyAllAndGoto, TypeOK, ProcessesDiffer
    <3>2. SameAwaits
      BY <2>1, <2>2, <3>1 DEF SameAwaits
    <3> QED
      BY <1>s, <2>2, <3>2
  <2>4. CASE ~ok /\ p \in Caller
    <3>1. pc'[p] = "idle"
      BY <1>0, <1>10, <2>4 DEF FinishFsync, NotifyAllAndGoto, TypeOK
    <3> QED
      BY <1>er, <2>1, <2>2, <2>4, <3>1
  <2> QED
    BY <2>3, <2>4
<1>11. CASE FlusherFlushes
  BY <1>0, <1>11, <1>s, ProcessesDiffer, GotoAwaits
     DEF FlusherFlushes, StartFsync, log, ProcessesDiffer
<1>12. CASE FlushPending
  BY <1>0, <1>12, <1>s, ProcessesDiffer, GotoAwaits
     DEF FlushPending, log, ProcessesDiffer
<1>13. ASSUME NEW p \in FlushCaller, FlushPendingTurn(p)
       PROVE  [DL!Next]_(DL!vars) /\ OneRecordEach'
  <2>1. PICK where : Goto(p, where) /\ (p # Maintenance => where # "idle")
    BY <1>13 DEF FlushPendingTurn, StartFsync
  <2>2. p \in Caller => p # Maintenance
    BY ProcessesDiffer DEF ProcessesDiffer
  <2>3. SameAwaits
    BY <1>0, <1>13, <2>1, <2>2, GotoAwaits DEF FlushPendingTurn
  <2> QED
    BY <1>13, <1>s, <2>3 DEF FlushPendingTurn, log
<1>16. ASSUME NEW s \in Session, CommitFsyncFails(s)
       PROVE  [DL!Next]_(DL!vars) /\ OneRecordEach'
  <2>1. /\ pc[s] = "sync" /\ pc'[s] = "idle"
        /\ \A v \in Caller \ {s} : pc'[v] = pc[v]
    BY <1>0, <1>16 DEF CommitFsyncFails, Goto, TypeOK
  <2> QED
    BY <1>er, <1>16, <2>1 DEF CommitFsyncFails, log
<1>14. CASE DeadlinePasses
  BY <1>14, <1>s DEF DeadlinePasses, SameAwaits, log
<1>15. CASE UNCHANGED vars
  BY <1>15, <1>s DEF vars, SameAwaits, log
<1> QED
  BY <1>1a, <1>1s, <1>2a, <1>2s, <1>3, <1>4, <1>5, <1>6, <1>7, <1>8a, <1>8s,
     <1>9, <1>10, <1>11, <1>12, <1>13, <1>14, <1>15, <1>16
     DEF Next, AwaitStep, Fsyncing

(* Batching, deadlines, the flusher thread and failed fsyncs implement the *)
(* plain promise of DurableLog.                                            *)
THEOREM CoordinatorImplementsDurableLog == Spec => ImplementsDurableLog
<1>1. Init => DL!Init /\ OneRecordEach
  BY DEF Init, DL!Init, Waiting, OneRecordEach, Process, FlushCaller, Caller
<1>2. RInv /\ [Next]_vars => RInv' /\ [DL!Next]_(DL!vars)
  BY StepSimulation, NextIInv DEF RInv
<1>3. Init => RInv
  BY <1>1, InitIInv DEF RInv
<1> QED
  BY <1>1, <1>2, <1>3, PTL DEF Spec, ImplementsDurableLog, DL!Spec

(* What the abstract log promises: every acknowledged record is on disk     *)
(* (RPO 0 at the return of a kSync write: PutSyncFast, Await).              *)
THEOREM DurableLogRpo0 == DL!Spec => []DL!Rpo0
<1> DEFINE DLInv == DL!Log /\ DL!Rpo0
<1>1. DL!Init => DLInv
  BY DEF DL!Init, DL!Log, DL!Rpo0
<1>2. DLInv /\ [DL!Next]_DL!vars => DLInv'
  <2> SUFFICES ASSUME DLInv, [DL!Next]_DL!vars PROVE DLInv'
    OBVIOUS
  <2> USE DEF DL!Log, DL!Rpo0
  <2>1. CASE DL!AppendRecord
    BY <2>1 DEF DL!AppendRecord
  <2>2. CASE DL!Sync
    BY <2>2 DEF DL!Sync
  <2>3. ASSUME NEW l \in Waiting, DL!Acknowledge(l) PROVE DLInv'
    BY <2>3 DEF DL!Acknowledge
  <2>4. ASSUME NEW l \in Waiting, DL!ReturnError(l) PROVE DLInv'
    BY <2>4 DEF DL!ReturnError
  <2>5. CASE UNCHANGED DL!vars
    BY <2>5 DEF DL!vars
  <2> QED
    BY <2>1, <2>2, <2>3, <2>4, <2>5 DEF DL!Next
<1>3. DLInv => DL!Rpo0
  OBVIOUS
<1> QED
  BY <1>1, <1>2, <1>3, PTL DEF DL!Spec
=============================================================================
