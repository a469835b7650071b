------------------------ MODULE WalFsyncCoordinator ------------------------
(***************************************************************************)
(* How concurrent kSync writes share fsyncs of one log:                    *)
(* cpp/src/concept/wal/wal_fsync_coordinator.cc.                           *)
(*                                                                         *)
(* Everything runs under the mutex mu_ except WalWriter::Fsync itself, so  *)
(* an action is a stretch of a method between two releases of mu_.  The    *)
(* processes are the writers in Await, the background flusher (with        *)
(* micro-batching) and the callers of FlushPending: a Flush or Checkpoint  *)
(* (Maintenance), which holds rw_mu_ and so keeps the writers' records     *)
(* out, and sessions in ShardEngine::AppendTxnCommit, which hold nothing   *)
(* and fsync once more when FlushPending is done.  A timed wait may end at *)
(* any time; a thread in cv_.wait (pc "asleep") needs a notify_all.        *)
(* Nothing in the repository turns write-through on, so UnflushedBytes()   *)
(* is always 0.                                                            *)
(***************************************************************************)
EXTENDS Naturals, FiniteSets

CONSTANTS Writer, Session, Flusher, Maintenance,
          BatchSizes,     \* values of config_.max_batch_size
          HasWait,        \* config_.max_wait_us > 0
          MaxLsn, MaxFaults

FlushCaller == Session \cup {Maintenance}
Process == Writer \cup FlushCaller \cup {Flusher}

ASSUME ConfigOK ==
  /\ BatchSizes \subseteq Nat \ {0}
  /\ HasWait \in BOOLEAN
  /\ MaxLsn \in Nat /\ MaxFaults \in Nat
ASSUME ProcessesDiffer ==
  /\ Flusher # Maintenance /\ Writer \cap Session = {}
  /\ {Flusher, Maintenance} \cap (Writer \cup Session) = {}

VARIABLES
  tail,                \* LSN of the last record appended
  durable,             \* LSN up to which the log is on disk
  flushed_lsn, max_pending_lsn, pending_count, fsync_running,
  batch_deadline_active,
  deadline_passed,     \* NowUs() >= batch_deadline_us_
  pc, lsn,             \* of each process
  target, waiters, ok, \* locals of the RunFsyncLocked under way
  acked,               \* the LSNs for which Await or AppendTxnCommit
                       \*   returned Ok
  faults,
  max_batch_size       \* of config_, never changed

queue == <<flushed_lsn, max_pending_lsn, pending_count>>
deadline == <<batch_deadline_active, deadline_passed>>
run == <<target, waiters, ok>>
log == <<tail, durable>>
vars == <<log, queue, fsync_running, deadline, pc, lsn, run, acked, faults,
          max_batch_size>>

Lsn == 0 .. MaxLsn
Pc == {"idle", "await", "spin", "loop", "asleep", "fsync", "relock",
       "sync", "synced"}

TypeOK ==
  /\ tail \in Lsn /\ durable \in Lsn
  /\ flushed_lsn \in Lsn /\ max_pending_lsn \in Lsn
  /\ pending_count \in Nat
  /\ fsync_running \in BOOLEAN
  /\ batch_deadline_active \in BOOLEAN /\ deadline_passed \in BOOLEAN
  /\ pc \in [Process -> Pc]
  /\ lsn \in [Process -> Lsn]
  /\ target \in Lsn /\ waiters \in Nat /\ ok \in BOOLEAN
  /\ acked \subseteq Lsn
  /\ faults \in 0 .. MaxFaults
  /\ max_batch_size \in BatchSizes

Init ==
  /\ tail = 0 /\ durable = 0
  /\ flushed_lsn = 0 /\ max_pending_lsn = 0 /\ pending_count = 0
  /\ fsync_running = FALSE
  /\ batch_deadline_active = FALSE /\ deadline_passed = FALSE
  /\ pc = [p \in Process |-> "idle"]
  /\ lsn = [p \in Process |-> 0]
  /\ target = 0 /\ waiters = 0 /\ ok = TRUE
  /\ acked = {}
  /\ faults = 0
  /\ max_batch_size \in BatchSizes

---------------------------------------------------------------------------
MicroBatch == max_batch_size > 1 /\ HasWait
Max2(a, b) == IF a >= b THEN a ELSE b
Goto(p, where) == pc' = [pc EXCEPT ![p] = where]

(* cv_.notify_all, then p goes on at `where'; the variant does not reach   *)
(* the writers, as if they waited on another condition variable.           *)
NotifyAllAndGoto_NotWriters(p, where) ==
  pc' = [q \in Process |-> IF q = p THEN where
                           ELSE IF pc[q] = "asleep" /\ q \notin Writer
                             THEN "loop" ELSE pc[q]]
NotifyAllAndGoto(p, where) ==
  pc' = [q \in Process |-> IF q = p THEN where
                           ELSE IF pc[q] = "asleep" THEN "loop" ELSE pc[q]]

(* ShouldFlushLocked, with the count and the deadline as the caller has    *)
(* just set them.                                                          *)
ShouldFlushLocked(count, timed_out) ==
  count > 0 /\ (count >= max_batch_size \/ timed_out)
TimedOut == batch_deadline_active /\ deadline_passed

(* RunFsyncLocked up to mu_.unlock(): the target is read before the fsync  *)
(* starts, so that what it covers had been appended by then.  The variant  *)
(* takes a full batch off the count instead of the waiters it serves.      *)
StartFsync_TakesBatch(p, pending_lsn, count) ==
  /\ Goto(p, "fsync")
  /\ fsync_running' = TRUE
  /\ target' = pending_lsn
  /\ waiters' = count
  /\ pending_count' = count - max_batch_size
  /\ batch_deadline_active' = FALSE /\ deadline_passed' = FALSE
  /\ UNCHANGED ok
StartFsync(p, pending_lsn, count) ==
  /\ Goto(p, "fsync")
  /\ fsync_running' = TRUE
  /\ target' = pending_lsn
  /\ waiters' = count
  /\ pending_count' = 0
  /\ batch_deadline_active' = FALSE /\ deadline_passed' = FALSE
  /\ UNCHANGED ok

(* wal_->Fsync(), without mu_. *)
WalFsync(p) ==
  /\ pc[p] = "fsync"
  /\ durable' = tail
  /\ ok' = TRUE
  /\ Goto(p, "relock")
  /\ UNCHANGED <<tail, queue, fsync_running, deadline, lsn, target, waiters,
                 acked, faults>>

WalFsyncFails(p) ==
  /\ pc[p] = "fsync" /\ faults < MaxFaults
  /\ faults' = faults + 1
  /\ ok' = FALSE
  /\ Goto(p, "relock")
  /\ UNCHANGED <<log, queue, fsync_running, deadline, lsn, target, waiters,
                 acked>>

(* RunFsyncLocked from mu_.lock(): a writer and FlushPending return the    *)
(* error, the flusher goes on.  The variant of FlushedLsn reads the        *)
(* largest LSN waited for after the fsync.                                 *)
FlushedLsn_AllPending == Max2(flushed_lsn, max_pending_lsn)
FlushedLsn == Max2(flushed_lsn, target)

FinishFsync(p) ==
  /\ pc[p] = "relock"
  /\ fsync_running' = FALSE
  /\ IF ok
       THEN /\ flushed_lsn' = FlushedLsn
            /\ NotifyAllAndGoto(p, IF p = Flusher THEN "idle" ELSE "loop")
            /\ UNCHANGED pending_count
       ELSE /\ pending_count' = pending_count + waiters
            /\ NotifyAllAndGoto(p, "idle")
            /\ UNCHANGED flushed_lsn
  /\ UNCHANGED <<log, max_pending_lsn, deadline, lsn, run, acked, faults>>

---------------------------------------------------------------------------
(* Await, called by PutSyncFast after its append under rw_mu_. *)

AppendRecord(w) ==
  /\ pc[w] = "idle" /\ pc[Maintenance] = "idle" /\ tail < MaxLsn
  /\ tail' = tail + 1
  /\ lsn' = [lsn EXCEPT ![w] = tail + 1]
  /\ Goto(w, "await")
  /\ UNCHANGED <<durable, queue, fsync_running, deadline, run, acked, faults>>

ReturnOk(w) ==
  /\ acked' = acked \cup {lsn[w]}
  /\ Goto(w, "idle")

AlreadyFlushed(w) ==
  /\ pc[w] \in {"await", "spin", "loop"}
  /\ lsn[w] <= flushed_lsn
  /\ ReturnOk(w)
  /\ UNCHANGED <<log, queue, fsync_running, deadline, lsn, run, faults>>

(* The part of Await from setting a deadline, if it sets one, to the loop: *)
(* flush now or wait.                                                      *)
FlushNowOrWait(w, pending_lsn, count, sets_deadline) ==
  IF ShouldFlushLocked(count, TimedOut /\ ~sets_deadline) /\ ~fsync_running
    THEN StartFsync(w, pending_lsn, count)
    ELSE /\ Goto(w, "loop")
         /\ pending_count' = count
         /\ batch_deadline_active' = (batch_deadline_active \/ sets_deadline)
         /\ deadline_passed' = (deadline_passed /\ ~sets_deadline)
         /\ UNCHANGED <<fsync_running, run>>

(* The first of a batch spins, releasing mu_, for others to join it. *)
AwaitFirst(w) ==
  /\ pc[w] = "await" /\ lsn[w] > flushed_lsn
  /\ MicroBatch /\ pending_count = 0
  /\ max_pending_lsn' = Max2(max_pending_lsn, lsn[w])
  /\ pending_count' = 1
  /\ Goto(w, "spin")
  /\ UNCHANGED <<log, flushed_lsn, fsync_running, deadline, lsn, run, acked,
                 faults>>

SpinEnd(w) ==
  /\ pc[w] = "spin" /\ lsn[w] > flushed_lsn
  /\ FlushNowOrWait(w, max_pending_lsn, pending_count, TRUE)
  /\ UNCHANGED <<log, flushed_lsn, max_pending_lsn, lsn, acked, faults>>

(* Any other caller joins the batch, and sets a deadline if none is set. *)
AwaitJoin(w) ==
  /\ pc[w] = "await" /\ lsn[w] > flushed_lsn
  /\ ~(MicroBatch /\ pending_count = 0)
  /\ max_pending_lsn' = Max2(max_pending_lsn, lsn[w])
  /\ FlushNowOrWait(w, max_pending_lsn', pending_count + 1,
                    MicroBatch /\ ~batch_deadline_active)
  /\ UNCHANGED <<log, flushed_lsn, lsn, acked, faults>>

(* One turn of the loop at the end of Await.  Timed waits stay in the loop. *)
AwaitFlushes_Overlaps(w) ==
  /\ pc[w] = "loop" /\ lsn[w] > flushed_lsn
  /\ ShouldFlushLocked(pending_count, TimedOut)
  /\ StartFsync(w, max_pending_lsn, pending_count)
  /\ UNCHANGED <<log, flushed_lsn, max_pending_lsn, lsn, acked, faults>>
AwaitFlushes(w) ==
  /\ pc[w] = "loop" /\ lsn[w] > flushed_lsn
  /\ ~fsync_running /\ ShouldFlushLocked(pending_count, TimedOut)
  /\ StartFsync(w, max_pending_lsn, pending_count)
  /\ UNCHANGED <<log, flushed_lsn, max_pending_lsn, lsn, acked, faults>>

AwaitSleeps(w) ==
  /\ pc[w] = "loop" /\ lsn[w] > flushed_lsn
  /\ \/ fsync_running
     \/ /\ ~ShouldFlushLocked(pending_count, TimedOut)
        /\ ~MicroBatch /\ ~batch_deadline_active
  /\ Goto(w, "asleep")
  /\ UNCHANGED <<log, queue, fsync_running, deadline, lsn, run, acked, faults>>

DeadlinePasses ==
  /\ batch_deadline_active /\ ~deadline_passed
  /\ deadline_passed' = TRUE
  /\ UNCHANGED <<log, queue, fsync_running, batch_deadline_active, pc, lsn,
                 run, acked, faults>>

---------------------------------------------------------------------------
(* FlusherLoop; its waits are timed. *)
FlusherFlushes ==
  /\ MicroBatch /\ pc[Flusher] = "idle"
  /\ ~fsync_running /\ ShouldFlushLocked(pending_count, TimedOut)
  /\ StartFsync(Flusher, max_pending_lsn, pending_count)
  /\ UNCHANGED <<log, flushed_lsn, max_pending_lsn, lsn, acked, faults>>

(* FlushPending; the variant overlooks the writers of a running fsync. *)
Unfinished_CountOnly == pending_count > 0
Unfinished == pending_count > 0 \/ max_pending_lsn > flushed_lsn

FlushPending ==
  /\ pc[Maintenance] = "idle"
  /\ Goto(Maintenance, "loop")
  /\ UNCHANGED <<log, queue, fsync_running, deadline, lsn, run, acked, faults>>

FlushPendingTurn(p) ==
  /\ pc[p] = "loop"
  /\ IF Unfinished /\ fsync_running
       THEN Goto(p, "asleep")
            /\ UNCHANGED <<pending_count, fsync_running, deadline, run>>
     ELSE IF pending_count > 0
       THEN StartFsync(p, max_pending_lsn, pending_count)
       ELSE Goto(p, IF p = Maintenance THEN "idle" ELSE "sync")
            /\ UNCHANGED <<pending_count, fsync_running, deadline, run>>
  /\ UNCHANGED <<log, flushed_lsn, max_pending_lsn, lsn, acked, faults>>

(* AppendTxnCommit, without rw_mu_: it appends the commit record, lets     *)
(* FlushPending serve the waiting writers, and then calls WalWriter::Fsync *)
(* itself, past mu_ and fsync_running_.                                    *)
AppendTxnCommit(s) ==
  /\ pc[s] = "idle" /\ tail < MaxLsn
  /\ tail' = tail + 1
  /\ lsn' = [lsn EXCEPT ![s] = tail + 1]
  /\ Goto(s, "loop")
  /\ UNCHANGED <<durable, queue, fsync_running, deadline, run, acked, faults>>

CommitFsync(s) ==
  /\ pc[s] = "sync"
  /\ durable' = tail
  /\ Goto(s, "synced")
  /\ UNCHANGED <<tail, queue, fsync_running, deadline, lsn, run, acked, faults>>

CommitFsyncFails(s) ==
  /\ pc[s] = "sync" /\ faults < MaxFaults
  /\ faults' = faults + 1
  /\ Goto(s, "idle")
  /\ UNCHANGED <<log, queue, fsync_running, deadline, lsn, run, acked>>

CommitReturns(s) ==
  /\ pc[s] = "synced"
  /\ ReturnOk(s)
  /\ UNCHANGED <<log, queue, fsync_running, deadline, lsn, run, faults>>

---------------------------------------------------------------------------
AwaitStep(w) == AlreadyFlushed(w) \/ AwaitFirst(w) \/ SpinEnd(w)
                \/ AwaitJoin(w) \/ AwaitFlushes(w) \/ AwaitSleeps(w)
Fsyncing(p) == WalFsync(p) \/ FinishFsync(p)

Next ==
  /\ \/ \E w \in Writer : AppendRecord(w) \/ AwaitStep(w)
     \/ \E p \in Process : Fsyncing(p) \/ WalFsyncFails(p)
     \/ \E p \in FlushCaller : FlushPendingTurn(p)
     \/ \E s \in Session : AppendTxnCommit(s) \/ CommitFsync(s)
                          \/ CommitFsyncFails(s) \/ CommitReturns(s)
     \/ FlusherFlushes \/ FlushPending \/ DeadlinePasses
  /\ UNCHANGED max_batch_size

Spec == Init /\ [][Next]_vars

(* Threads run, an fsync returns, time passes.  No one is obliged to write *)
(* again, to call FlushPending or to commit.                               *)
Fairness ==
  /\ \A w \in Writer : WF_vars(AwaitStep(w) /\ UNCHANGED max_batch_size)
  /\ \A p \in Process : WF_vars(Fsyncing(p) /\ UNCHANGED max_batch_size)
  /\ WF_vars(FlusherFlushes /\ UNCHANGED max_batch_size)
  /\ \A p \in FlushCaller :
       WF_vars(FlushPendingTurn(p) /\ UNCHANGED max_batch_size)
  /\ WF_vars(DeadlinePasses /\ UNCHANGED max_batch_size)
FairSpec == Spec /\ Fairness

---------------------------------------------------------------------------
(* Await and AppendTxnCommit return Ok only for a record that is on disk,  *)
(* whoever ran the fsync and whatever was appended or failed meanwhile     *)
(* (RPO 0 at return).                                                      *)
AckedOnDisk == \A l \in acked : l <= durable

(* Two runs of RunFsyncLocked never overlap: target and waiters belong to  *)
(* one of them.  (The last fsync of AppendTxnCommit is not one: it may run *)
(* beside them and is serialised with theirs in WalWriter.)                *)
OneFsync ==
  \A p, q \in Process :
    pc[p] \in {"fsync", "relock"} /\ pc[q] \in {"fsync", "relock"} => p = q

(* FlushPending returns Ok only when no writer waits for a record that is  *)
(* not on disk, to a Flush or Checkpoint and to a commit that lets writers *)
(* append meanwhile.                                                       *)
FlushPendingComplete ==
  [][\A p \in FlushCaller :
       pc[p] = "loop" /\ pc'[p] \in {"idle", "sync"}
         => \A w \in Writer : pc[w] \in {"spin", "loop", "asleep"}
                                => lsn[w] <= durable]_vars

(* Every Await returns: no batching decision and no failure leaves a       *)
(* writer behind, except that in micro-batch mode a failed fsync of the    *)
(* flusher may, as it clears the deadline the writers would wait for.      *)
AwaitReturns ==
  \A w \in Writer :
    pc[w] # "idle" ~> pc[w] = "idle" \/ (MicroBatch /\ faults > 0)

---------------------------------------------------------------------------
(* Writers in Await and sessions in AppendTxnCommit, by their records.     *)
Caller == Writer \cup Session
Waiting == {lsn[w] : w \in {v \in Caller : pc[v] # "idle"}}
DL == INSTANCE DurableLog WITH appended <- tail, waiting <- Waiting

(* Batching, spinning, deadlines, the flusher and failures implement the   *)
(* plain promise of DurableLog: every fsync counts for exactly what was    *)
(* appended before it, each writer and each commit returns once, and Ok    *)
(* only for a record that is durable (WalFsyncCoordinator::Await,          *)
(* ShardEngine::AppendTxnCommit).                                          *)
ImplementsDurableLog == DL!Spec
============================================================================
