------------------------ MODULE SnapshotFairRwLock ------------------------
(***************************************************************************)
(* The lock that guards one shard (ShardEngine::rw_mu_):                   *)
(* cpp/src/engine/snapshot_fair_rw_lock.cc.                                *)
(*                                                                         *)
(* Every method body runs under the mutex gate_, which cv_.wait releases,  *)
(* so one action is one stretch of a method between two waits.  A thread   *)
(* blocked in cv_.wait is in `asleep'; a notify_all empties that set, and  *)
(* a woken thread evaluates its loop condition again.                      *)
(***************************************************************************)
EXTENDS Naturals, FiniteSets

CONSTANTS Thread,   \* the threads that use the lock
          MaxPins   \* bound on the snapshot pins held at one time

ASSUME ThreadFinite == IsFiniteSet(Thread)
ASSUME MaxPinsNat == MaxPins \in Nat

VARIABLES pc,                  \* what each thread does with the lock
          asleep,              \* the threads blocked in cv_.wait
          readers, appenders,
          foreground_writer, foreground_waiting, background_writer,
          snapshot_pins        \* the counter ShardEngine shares with the lock

vars == <<pc, asleep, readers, appenders, foreground_writer,
          foreground_waiting, background_writer, snapshot_pins>>

Waiting == {"wait_shared", "wait_append", "wait_lock"}
Holding == {"shared", "append", "exclusive", "background"}

TypeOK ==
  /\ pc \in [Thread -> {"idle"} \cup Waiting \cup Holding]
  /\ asleep \subseteq Thread
  /\ readers \in Nat
  /\ appenders \in Nat
  /\ foreground_writer \in BOOLEAN
  /\ foreground_waiting \in Nat
  /\ background_writer \in BOOLEAN
  /\ snapshot_pins \in 0 .. MaxPins

Init ==
  /\ pc = [t \in Thread |-> "idle"]
  /\ asleep = {}
  /\ readers = 0
  /\ appenders = 0
  /\ foreground_writer = FALSE
  /\ foreground_waiting = 0
  /\ background_writer = FALSE
  /\ snapshot_pins = 0

---------------------------------------------------------------------------
(* The loop conditions of lock_shared, lock_append_shared and lock. *)
SharedBlocked == foreground_writer \/ background_writer

ExclusiveBlockedNoAppend ==
  readers > 0 \/ foreground_writer \/ background_writer
ExclusiveBlocked ==
  readers > 0 \/ appenders > 0 \/ foreground_writer \/ background_writer

Goto(t, where) == pc' = [pc EXCEPT ![t] = where]
Sleep(t) == asleep' = asleep \cup {t}
notify_all == asleep' = {}
Running(t) == t \notin asleep

(* lock_shared and lock_append_shared: enter at once, or sleep until woken. *)
lock_shared(t) ==
  /\ pc[t] \in {"idle", "wait_shared"} /\ Running(t)
  /\ IF SharedBlocked
       THEN Goto(t, "wait_shared") /\ Sleep(t) /\ UNCHANGED readers
       ELSE Goto(t, "shared") /\ readers' = readers + 1 /\ UNCHANGED asleep
  /\ UNCHANGED <<appenders, foreground_writer, foreground_waiting,
                 background_writer, snapshot_pins>>

lock_append_shared(t) ==
  /\ pc[t] \in {"idle", "wait_append"} /\ Running(t)
  /\ IF SharedBlocked
       THEN Goto(t, "wait_append") /\ Sleep(t) /\ UNCHANGED appenders
       ELSE Goto(t, "append") /\ appenders' = appenders + 1 /\ UNCHANGED asleep
  /\ UNCHANGED <<readers, foreground_writer, foreground_waiting,
                 background_writer, snapshot_pins>>

(* A refused try_lock_shared changes nothing: only its success is a step. *)
try_lock_shared(t) ==
  /\ pc[t] = "idle" /\ ~SharedBlocked
  /\ Goto(t, "shared")
  /\ readers' = readers + 1
  /\ UNCHANGED <<asleep, appenders, foreground_writer, foreground_waiting,
                 background_writer, snapshot_pins>>

unlock_shared_quiet(t) ==
  /\ pc[t] = "shared"
  /\ Goto(t, "idle")
  /\ readers' = readers - 1
  /\ UNCHANGED <<asleep, appenders, foreground_writer, foreground_waiting,
                 background_writer, snapshot_pins>>
unlock_shared(t) ==
  /\ pc[t] = "shared"
  /\ Goto(t, "idle")
  /\ readers' = readers - 1
  /\ IF readers' = 0 THEN notify_all ELSE UNCHANGED asleep
  /\ UNCHANGED <<appenders, foreground_writer, foreground_waiting,
                 background_writer, snapshot_pins>>

unlock_append_shared(t) ==
  /\ pc[t] = "append"
  /\ Goto(t, "idle")
  /\ appenders' = appenders - 1
  /\ notify_all
  /\ UNCHANGED <<readers, foreground_writer, foreground_waiting,
                 background_writer, snapshot_pins>>

(* lock: ++foreground_waiting_ on entry, undone when the lock is granted;  *)
(* lock_enter and lock_woken are the first and the later turns of its loop. *)
lock_enter(t) ==
  /\ pc[t] = "idle"
  /\ IF ExclusiveBlocked
       THEN /\ Goto(t, "wait_lock") /\ Sleep(t)
            /\ foreground_waiting' = foreground_waiting + 1
            /\ UNCHANGED foreground_writer
       ELSE /\ Goto(t, "exclusive")
            /\ foreground_writer' = TRUE
            /\ UNCHANGED <<asleep, foreground_waiting>>
  /\ UNCHANGED <<readers, appenders, background_writer, snapshot_pins>>

lock_woken_uncounts(t) ==
  /\ pc[t] = "wait_lock" /\ Running(t)
  /\ foreground_waiting' = foreground_waiting - 1
  /\ IF ExclusiveBlocked
       THEN Sleep(t) /\ UNCHANGED <<pc, foreground_writer>>
       ELSE /\ Goto(t, "exclusive")
            /\ foreground_writer' = TRUE
            /\ UNCHANGED asleep
  /\ UNCHANGED <<readers, appenders, background_writer, snapshot_pins>>
lock_woken(t) ==
  /\ pc[t] = "wait_lock" /\ Running(t)
  /\ IF ExclusiveBlocked
       THEN Sleep(t) /\ UNCHANGED <<pc, foreground_waiting, foreground_writer>>
       ELSE /\ Goto(t, "exclusive")
            /\ foreground_waiting' = foreground_waiting - 1
            /\ foreground_writer' = TRUE
            /\ UNCHANGED asleep
  /\ UNCHANGED <<readers, appenders, background_writer, snapshot_pins>>

try_lock(t) ==
  /\ pc[t] = "idle" /\ ~ExclusiveBlocked
  /\ Goto(t, "exclusive")
  /\ foreground_writer' = TRUE
  /\ UNCHANGED <<asleep, readers, appenders, foreground_waiting,
                 background_writer, snapshot_pins>>

unlock(t) ==
  /\ pc[t] = "exclusive"
  /\ Goto(t, "idle")
  /\ foreground_writer' = FALSE
  /\ notify_all
  /\ UNCHANGED <<readers, appenders, foreground_waiting, background_writer,
                 snapshot_pins>>

try_lock_background_barging(t) ==
  /\ pc[t] = "idle"
  /\ snapshot_pins = 0 /\ ~ExclusiveBlocked
  /\ Goto(t, "background")
  /\ background_writer' = TRUE
  /\ UNCHANGED <<asleep, readers, appenders, foreground_writer,
                 foreground_waiting, snapshot_pins>>
try_lock_background_pinned(t) ==
  /\ pc[t] = "idle"
  /\ ~ExclusiveBlocked /\ foreground_waiting = 0
  /\ Goto(t, "background")
  /\ background_writer' = TRUE
  /\ UNCHANGED <<asleep, readers, appenders, foreground_writer,
                 foreground_waiting, snapshot_pins>>
try_lock_background_exclusive(t) ==
  /\ pc[t] = "idle"
  /\ snapshot_pins = 0 /\ ~ExclusiveBlocked /\ foreground_waiting = 0
  /\ Goto(t, "background")
  /\ background_writer' = TRUE
  /\ UNCHANGED <<asleep, readers, appenders, foreground_writer,
                 foreground_waiting, snapshot_pins>>

unlock_background_exclusive(t) ==
  /\ pc[t] = "background"
  /\ Goto(t, "idle")
  /\ background_writer' = FALSE
  /\ notify_all
  /\ UNCHANGED <<readers, appenders, foreground_writer, foreground_waiting,
                 snapshot_pins>>

(* ShardEngine::PinSnapshot and ReleaseSnapshot: the counter is atomic and *)
(* changes without gate_; the last release calls notify_pins_released.     *)
PinSnapshot ==
  /\ snapshot_pins < MaxPins
  /\ snapshot_pins' = snapshot_pins + 1
  /\ UNCHANGED <<pc, asleep, readers, appenders, foreground_writer,
                 foreground_waiting, background_writer>>

ReleaseSnapshot ==
  /\ snapshot_pins > 0
  /\ snapshot_pins' = snapshot_pins - 1
  /\ IF snapshot_pins = 1 THEN notify_all ELSE UNCHANGED asleep
  /\ UNCHANGED <<pc, readers, appenders, foreground_writer,
                 foreground_waiting, background_writer>>

(* std::condition_variable may wake a thread nobody notified. *)
SpuriousWakeup(t) ==
  /\ t \in asleep
  /\ asleep' = asleep \ {t}
  /\ UNCHANGED <<pc, readers, appenders, foreground_writer,
                 foreground_waiting, background_writer, snapshot_pins>>

Acquire(t) == lock_shared(t) \/ lock_append_shared(t) \/ try_lock_shared(t)
              \/ lock_enter(t) \/ lock_woken(t) \/ try_lock(t)
              \/ try_lock_background_exclusive(t)
Release(t) == unlock_shared(t) \/ unlock_append_shared(t) \/ unlock(t)
              \/ unlock_background_exclusive(t)

Next ==
  \/ \E t \in Thread : Acquire(t) \/ Release(t) \/ SpuriousWakeup(t)
  \/ PinSnapshot
  \/ ReleaseSnapshot

Spec == Init /\ [][Next]_vars

(* A thread that holds the lock returns it, and a woken waiter runs: each  *)
(* ShardEngine method releases on every path, and the operating system     *)
(* schedules runnable threads.  Nothing makes an idle thread call in, and  *)
(* no spurious wakeup is owed to anybody.                                  *)
Resume(t) == pc[t] \in Waiting
             /\ (lock_shared(t) \/ lock_append_shared(t) \/ lock_woken(t))
Fairness == \A t \in Thread : WF_vars(Resume(t)) /\ WF_vars(Release(t))
FairSpec == Spec /\ Fairness

---------------------------------------------------------------------------
Holders(what) == {t \in Thread : pc[t] = what}

(* A structural operation (flush, checkpoint, background flush) runs alone: *)
(* no reader, appender or second writer is inside rw_mu_ with it.           *)
StructuralExclusive ==
  \A t, u \in Thread :
    (pc[t] \in {"exclusive", "background"} /\ pc[u] \in Holding) => t = u

(* No lost wakeup: a thread asleep in lock_shared, lock_append_shared or    *)
(* lock really cannot proceed; the conditional notify in unlock_shared      *)
(* never leaves one asleep whose condition has become true.                 *)
NoLostWakeup ==
  \A t \in asleep : IF pc[t] = "wait_lock" THEN ExclusiveBlocked
                                           ELSE SharedBlocked

(* A background flush never overtakes a foreground writer that is already   *)
(* waiting, and never starts over an open snapshot: background exclusion    *)
(* starts only when nobody waits in lock() and nothing is pinned.  (A pin   *)
(* may still be taken while the background writer runs: the counter is not  *)
(* guarded by gate_.)                                                       *)
BackgroundYields ==
  [][\A t \in Thread :
       pc[t] # "background" /\ pc'[t] = "background"
         => /\ \A u \in Thread : pc[u] # "wait_lock"
            /\ snapshot_pins = 0]_vars

(* A thread that waits gets the lock once the others stop using it: no      *)
(* combination of earlier releases leaves it asleep for ever.               *)
LastWaiterServed ==
  \A t \in Thread :
    <>[](\A u \in Thread \ {t} : pc[u] = "idle")
      => [](pc[t] \in Waiting => <>(pc[t] \in Holding))
===========================================================================
