--------------------- MODULE SnapshotFairRwLockProofs ---------------------
(***************************************************************************)
(* For any finite set of threads and any number of pins: structural        *)
(* exclusion, no lost wakeup, and the background writer's courtesy.        *)
(*                                                                         *)
(* The argument: each counter of the lock is the number of threads in the  *)
(* state it counts (CountsInv) and each flag is raised while a thread is   *)
(* in the state it announces (FlagsInv), so that a counter at zero and a   *)
(* flag down mean that nobody is there.                                    *)
(***************************************************************************)
EXTENDS SnapshotFairRwLock, FiniteSetTheorems, TLAPS

CountsInv ==
  /\ readers = Cardinality(Holders("shared"))
  /\ appenders = Cardinality(Holders("append"))
  /\ foreground_waiting = Cardinality(Holders("wait_lock"))

FlagsInv ==
  \A t \in Thread :
    /\ pc[t] = "exclusive" => foreground_writer
    /\ pc[t] = "background" => background_writer

AsleepInv == \A t \in asleep : pc[t] \in Waiting

IInv == TypeOK /\ CountsInv /\ FlagsInv /\ AsleepInv
        /\ StructuralExclusive /\ NoLostWakeup

Moves(t, from, to) ==
  pc[t] = from /\ pc' = [pc EXCEPT ![t] = to]

(* The threads in a state form a finite set, empty when they number 0. *)
LEMMA HoldersFinite ==
  ASSUME NEW what
  PROVE  /\ IsFiniteSet(Holders(what))
         /\ Cardinality(Holders(what)) \in Nat
         /\ Cardinality(Holders(what)) = 0 => \A t \in Thread : pc[t] # what
<1>1. IsFiniteSet(Holders(what))
  BY ThreadFinite, FS_Subset DEF Holders, ThreadFinite
<1>2. Cardinality(Holders(what)) \in Nat
  BY <1>1, FS_CardinalityType
<1>3. Cardinality(Holders(what)) = 0 => Holders(what) = {}
  BY <1>1, FS_EmptySet
<1> QED
  BY <1>1, <1>2, <1>3 DEF Holders

(* What one thread's move does to the three counts. *)
LEMMA MoveCounts ==
  ASSUME pc \in [Thread -> {"idle"} \cup Waiting \cup Holding],
         NEW t \in Thread, NEW from, NEW to, from # to,
         Moves(t, from, to), NEW what
  PROVE  Cardinality(Holders(what))' =
           IF what = from THEN Cardinality(Holders(what)) - 1
           ELSE IF what = to THEN Cardinality(Holders(what)) + 1
           ELSE Cardinality(Holders(what))
<1>1. IsFiniteSet(Holders(what))
  BY HoldersFinite
<1>2. CASE what = from
  <2>1. Holders(what)' = Holders(what) \ {t} /\ t \in Holders(what)
    BY <1>2 DEF Moves, Holders
  <2>2. Cardinality(Holders(what) \ {t}) = Cardinality(Holders(what)) - 1
    BY <1>1, <2>1, FS_RemoveElement
  <2> QED
    BY <1>2, <2>1, <2>2
<1>3. CASE what = to
  <2>1. Holders(what)' = Holders(what) \cup {t} /\ t \notin Holders(what)
    BY <1>3 DEF Moves, Holders
  <2>2. Cardinality(Holders(what) \cup {t}) = Cardinality(Holders(what)) + 1
    BY <1>1, <2>1, FS_AddElement
  <2> QED
    BY <1>3, <2>1, <2>2
<1>4. CASE what # from /\ what # to
  <2>1. Holders(what)' = Holders(what)
    BY <1>4 DEF Moves, Holders
  <2> QED
    BY <1>4, <2>1
<1> QED
  BY <1>2, <1>3, <1>4

(* The inductive invariant holds initially. *)
LEMMA InitIInv == Init => IInv
<1> SUFFICES ASSUME Init PROVE IInv
  OBVIOUS
<1>0. 0 \in 0 .. MaxPins
  BY MaxPinsNat DEF MaxPinsNat
<1>1. TypeOK
  BY <1>0 DEF Init, TypeOK
<1>2. Holders("shared") = {} /\ Holders("append") = {} /\ Holders("wait_lock") = {}
  BY DEF Init, Holders
<1>3. CountsInv
  BY <1>2, FS_EmptySet DEF Init, CountsInv
<1>4. FlagsInv /\ AsleepInv /\ StructuralExclusive /\ NoLostWakeup
  BY DEF Init, FlagsInv, AsleepInv, StructuralExclusive, NoLostWakeup, Holding
<1> QED
  BY <1>1, <1>3, <1>4 DEF IInv

(* A thread that starts to wait: nobody's hold changes, and it sleeps only *)
(* if its loop condition holds.                                            *)
LEMMA WaitStep ==
  ASSUME IInv, NEW t \in Thread, NEW from, NEW to, from # to,
         Moves(t, from, to),
         from \in {"idle"} \cup Waiting, to \in Waiting,
         asleep' = asleep \cup {t},
         IF to = "wait_lock" THEN ExclusiveBlocked ELSE SharedBlocked,
         foreground_waiting' = IF to = "wait_lock" THEN foreground_waiting + 1
                               ELSE foreground_waiting,
         from # "wait_lock",
         UNCHANGED <<readers, appenders, foreground_writer, background_writer,
                     snapshot_pins>>
  PROVE  IInv'
<1>0. TypeOK /\ CountsInv /\ FlagsInv /\ AsleepInv /\ StructuralExclusive
      /\ NoLostWakeup
  BY DEF IInv
<1>1. /\ pc' \in [Thread -> {"idle"} \cup Waiting \cup Holding]
      /\ pc'[t] = to /\ \A u \in Thread \ {t} : pc'[u] = pc[u]
  BY <1>0 DEF Moves, TypeOK
<1>2. TypeOK'
  BY <1>0, <1>1 DEF TypeOK
<1>3. CountsInv'
  <2>1. /\ Cardinality(Holders("shared"))' = Cardinality(Holders("shared"))
        /\ Cardinality(Holders("append"))' = Cardinality(Holders("append"))
    BY <1>0, MoveCounts DEF TypeOK, Waiting
  <2>2. Cardinality(Holders("wait_lock"))' =
          IF to = "wait_lock" THEN Cardinality(Holders("wait_lock")) + 1
          ELSE Cardinality(Holders("wait_lock"))
    BY <1>0, MoveCounts DEF TypeOK
  <2> QED
    BY <1>0, <2>1, <2>2 DEF CountsInv
<1>4. FlagsInv' /\ StructuralExclusive'
  BY <1>0, <1>1 DEF FlagsInv, StructuralExclusive, Waiting, Holding
<1>5. AsleepInv'
  BY <1>0, <1>1 DEF AsleepInv, TypeOK
<1>6. NoLostWakeup'
  BY <1>0, <1>1 DEF NoLostWakeup, ExclusiveBlocked, SharedBlocked, TypeOK
<1> QED
  BY <1>2, <1>3, <1>4, <1>5, <1>6 DEF IInv

(* A thread that enters as a reader or an appender. *)
LEMMA EnterShared ==
  ASSUME IInv, NEW t \in Thread, t \notin asleep, ~SharedBlocked,
         NEW from \in {"idle", "wait_shared", "wait_append"},
         NEW to \in {"shared", "append"},
         Moves(t, from, to),
         readers' = IF to = "shared" THEN readers + 1 ELSE readers,
         appenders' = IF to = "append" THEN appenders + 1 ELSE appenders,
         UNCHANGED <<asleep, foreground_writer, foreground_waiting,
                     background_writer, snapshot_pins>>
  PROVE  IInv'
<1>0. TypeOK /\ CountsInv /\ FlagsInv /\ AsleepInv /\ StructuralExclusive
      /\ NoLostWakeup
  BY DEF IInv
<1>1. /\ pc' \in [Thread -> {"idle"} \cup Waiting \cup Holding]
      /\ pc'[t] = to /\ \A u \in Thread \ {t} : pc'[u] = pc[u]
  BY <1>0 DEF Moves, TypeOK, Holding
<1>2. TypeOK'
  BY <1>0, <1>1 DEF TypeOK
<1>3. CountsInv'
  <2>1. /\ Cardinality(Holders("shared"))' =
             IF to = "shared" THEN Cardinality(Holders("shared")) + 1
             ELSE Cardinality(Holders("shared"))
        /\ Cardinality(Holders("append"))' =
             IF to = "append" THEN Cardinality(Holders("append")) + 1
             ELSE Cardinality(Holders("append"))
        /\ Cardinality(Holders("wait_lock"))' = Cardinality(Holders("wait_lock"))
    BY <1>0, MoveCounts DEF TypeOK
  <2> QED
    BY <1>0, <2>1 DEF CountsInv
<1>4. \A u \in Thread : pc[u] \notin {"exclusive", "background"}
  BY <1>0 DEF FlagsInv, SharedBlocked
<1>5. FlagsInv' /\ StructuralExclusive'
  BY <1>1, <1>4 DEF FlagsInv, StructuralExclusive
<1>6. AsleepInv'
  BY <1>0, <1>1 DEF AsleepInv, TypeOK
<1>7. NoLostWakeup'
  BY <1>0, <1>1 DEF NoLostWakeup, ExclusiveBlocked, SharedBlocked, TypeOK
<1> QED
  BY <1>2, <1>3, <1>5, <1>6, <1>7 DEF IInv

(* A thread that enters alone, in the foreground or in the background. *)
LEMMA EnterExclusive ==
  ASSUME IInv, NEW t \in Thread, t \notin asleep, ~ExclusiveBlocked,
         NEW from \in {"idle", "wait_lock"},
         NEW to \in {"exclusive", "background"},
         Moves(t, from, to),
         foreground_waiting' = IF from = "wait_lock" THEN foreground_waiting - 1
                               ELSE foreground_waiting,
         foreground_writer' = IF to = "exclusive" THEN TRUE ELSE foreground_writer,
         background_writer' = IF to = "background" THEN TRUE ELSE background_writer,
         UNCHANGED <<asleep, readers, appenders, snapshot_pins>>
  PROVE  IInv'
<1>0. TypeOK /\ CountsInv /\ FlagsInv /\ AsleepInv /\ StructuralExclusive
      /\ NoLostWakeup
  BY DEF IInv
<1>1. /\ pc' \in [Thread -> {"idle"} \cup Waiting \cup Holding]
      /\ pc'[t] = to /\ \A u \in Thread \ {t} : pc'[u] = pc[u]
  BY <1>0 DEF Moves, TypeOK, Holding
<1>2. CountsInv'
  <2>1. /\ Cardinality(Holders("shared"))' = Cardinality(Holders("shared"))
        /\ Cardinality(Holders("append"))' = Cardinality(Holders("append"))
        /\ Cardinality(Holders("wait_lock"))' =
             IF from = "wait_lock" THEN Cardinality(Holders("wait_lock")) - 1
             ELSE Cardinality(Holders("wait_lock"))
    BY <1>0, MoveCounts DEF TypeOK
  <2> QED
    BY <1>0, <2>1 DEF CountsInv
<1>3. foreground_waiting' \in Nat
  <2>1. Cardinality(Holders("wait_lock"))' \in Nat
    <3>1. IsFiniteSet(Holders("wait_lock")')
      BY ThreadFinite, FS_Subset DEF Holders, ThreadFinite
    <3> QED
      BY <3>1, FS_CardinalityType
  <2> QED
    BY <1>2, <2>1 DEF CountsInv
<1>4. TypeOK'
  BY <1>0, <1>1, <1>3 DEF TypeOK
<1>5. \A u \in Thread : pc[u] \notin Holding
  <2>1. readers = 0 /\ appenders = 0
    BY <1>0 DEF ExclusiveBlocked, TypeOK
  <2>2. \A u \in Thread : pc[u] # "shared" /\ pc[u] # "append"
    BY <1>0, <2>1, HoldersFinite DEF CountsInv
  <2> QED
    BY <1>0, <2>2 DEF FlagsInv, ExclusiveBlocked, Holding
<1>6. FlagsInv' /\ StructuralExclusive'
  BY <1>1, <1>5 DEF FlagsInv, StructuralExclusive, Holding
<1>7. AsleepInv'
  BY <1>0, <1>1 DEF AsleepInv, TypeOK
<1>8. SharedBlocked' /\ ExclusiveBlocked'
  BY DEF SharedBlocked, ExclusiveBlocked
<1>9. NoLostWakeup'
  BY <1>8 DEF NoLostWakeup
<1> QED
  BY <1>2, <1>4, <1>6, <1>7, <1>9 DEF IInv

(* A thread that leaves: sleepers stay asleep only when a reader leaves    *)
(* behind other readers.                                                   *)
LEMMA Leave ==
  ASSUME IInv, NEW t \in Thread, NEW from \in Holding,
         Moves(t, from, "idle"),
         readers' = IF from = "shared" THEN readers - 1 ELSE readers,
         appenders' = IF from = "append" THEN appenders - 1 ELSE appenders,
         foreground_writer' = IF from = "exclusive" THEN FALSE
                              ELSE foreground_writer,
         background_writer' = IF from = "background" THEN FALSE
                              ELSE background_writer,
         asleep' = {} \/ (asleep' = asleep /\ from = "shared" /\ readers' # 0),
         UNCHANGED <<foreground_waiting, snapshot_pins>>
  PROVE  IInv'
<1>0. TypeOK /\ CountsInv /\ FlagsInv /\ AsleepInv /\ StructuralExclusive
      /\ NoLostWakeup
  BY DEF IInv
<1>1. /\ pc' \in [Thread -> {"idle"} \cup Waiting \cup Holding]
      /\ pc'[t] = "idle" /\ \A u \in Thread \ {t} : pc'[u] = pc[u]
  BY <1>0 DEF Moves, TypeOK, Holding
<1>2. CountsInv'
  <2>1. /\ Cardinality(Holders("shared"))' =
             IF from = "shared" THEN Cardinality(Holders("shared")) - 1
             ELSE Cardinality(Holders("shared"))
        /\ Cardinality(Holders("append"))' =
             IF from = "append" THEN Cardinality(Holders("append")) - 1
             ELSE Cardinality(Holders("append"))
        /\ Cardinality(Holders("wait_lock"))' = Cardinality(Holders("wait_lock"))
    BY <1>0, MoveCounts DEF TypeOK, Holding
  <2> QED
    BY <1>0, <2>1 DEF CountsInv
<1>3. readers' \in Nat /\ appenders' \in Nat
  <2>1. IsFiniteSet(Holders("shared")') /\ IsFiniteSet(Holders("append")')
    BY ThreadFinite, FS_Subset DEF Holders, ThreadFinite
  <2>2. /\ Cardinality(Holders("shared"))' \in Nat
        /\ Cardinality(Holders("append"))' \in Nat
    BY <2>1, FS_CardinalityType
  <2> QED
    BY <1>2, <2>2 DEF CountsInv
<1>4. TypeOK'
  BY <1>0, <1>1, <1>3 DEF TypeOK
<1>5. StructuralExclusive'
  BY <1>0, <1>1 DEF StructuralExclusive, Holding
<1>6. FlagsInv'
  <2> SUFFICES ASSUME NEW u \in Thread
               PROVE  /\ pc'[u] = "exclusive" => foreground_writer'
                      /\ pc'[u] = "background" => background_writer'
    BY DEF FlagsInv
  <2>1. CASE u = t
    BY <1>1, <2>1
  <2>2. CASE u # t /\ pc[u] \in {"exclusive", "background"}
    <3>1. pc[t] = from /\ from \in Holding
      BY DEF Moves
    <3> QED
      BY <1>0, <2>2, <3>1 DEF StructuralExclusive
  <2>3. CASE u # t /\ pc[u] \notin {"exclusive", "background"}
    BY <1>1, <2>3
  <2> QED
    BY <2>1, <2>2, <2>3
<1>7. t \notin asleep
  BY <1>0 DEF AsleepInv, Moves, Holding, Waiting
<1>8. AsleepInv'
  BY <1>0, <1>1, <1>7 DEF AsleepInv, TypeOK
<1>9. NoLostWakeup'
  <2>1. CASE asleep' = {}
    BY <2>1 DEF NoLostWakeup
  <2>2. CASE asleep' = asleep /\ from = "shared" /\ readers' # 0
    <3>1. readers' > 0
      BY ONLY <1>3, <2>2
    <3>2. ExclusiveBlocked'
      BY <3>1 DEF ExclusiveBlocked
    <3>3. /\ foreground_writer' = foreground_writer
          /\ background_writer' = background_writer
      BY <2>2
    <3>4. SharedBlocked' = SharedBlocked
      BY ONLY <3>3 DEF SharedBlocked
    <3> QED
      BY <1>0, <1>1, <1>7, <2>2, <3>2, <3>4 DEF NoLostWakeup, TypeOK
  <2> QED
    BY <2>1, <2>2
<1> QED
  BY <1>2, <1>4, <1>5, <1>6, <1>8, <1>9 DEF IInv

(* A step that only changes who sleeps, or the pins. *)
LEMMA SleepersStep ==
  ASSUME IInv, asleep' \subseteq Thread, snapshot_pins' \in 0 .. MaxPins,
         \A u \in asleep' :
           /\ pc[u] \in Waiting
           /\ IF pc[u] = "wait_lock" THEN ExclusiveBlocked ELSE SharedBlocked,
         UNCHANGED <<pc, readers, appenders, foreground_writer,
                     foreground_waiting, background_writer>>
  PROVE  IInv'
<1>0. TypeOK /\ CountsInv /\ FlagsInv /\ AsleepInv /\ StructuralExclusive
      /\ NoLostWakeup
  BY DEF IInv
<1>1. TypeOK' /\ FlagsInv' /\ StructuralExclusive'
  BY <1>0 DEF TypeOK, FlagsInv, StructuralExclusive
<1>2. CountsInv'
  BY <1>0 DEF CountsInv, Holders
<1>3. AsleepInv' /\ NoLostWakeup'
  BY DEF AsleepInv, NoLostWakeup, ExclusiveBlocked, SharedBlocked
<1> QED
  BY <1>1, <1>2, <1>3 DEF IInv

(* Every step preserves the inductive invariant. *)
LEMMA NextIInv == IInv /\ [Next]_vars => IInv'
<1> SUFFICES ASSUME IInv, [Next]_vars PROVE IInv'
  OBVIOUS
<1>0. TypeOK /\ CountsInv /\ FlagsInv /\ AsleepInv /\ StructuralExclusive
      /\ NoLostWakeup
  BY DEF IInv
<1>a. ASSUME NEW u \in asleep
      PROVE  /\ u \in Thread /\ pc[u] \in Waiting
             /\ IF pc[u] = "wait_lock" THEN ExclusiveBlocked ELSE SharedBlocked
  BY <1>0 DEF AsleepInv, NoLostWakeup, TypeOK
<1>1. ASSUME NEW t \in Thread, lock_shared(t) PROVE IInv'
  <2>1. CASE SharedBlocked /\ pc[t] = "idle"
    BY <1>1, <2>1, WaitStep DEF lock_shared, Goto, Sleep, Moves, Waiting
  <2>2. CASE SharedBlocked /\ pc[t] = "wait_shared"
    <3>1. pc' = pc /\ asleep' = asleep \cup {t}
      BY <1>0, <1>1, <2>2 DEF lock_shared, Goto, Sleep, TypeOK
    <3> QED
      BY <1>0, <1>1, <1>a, <2>2, <3>1, SleepersStep
         DEF lock_shared, Waiting, TypeOK
  <2>3. CASE ~SharedBlocked
    <3>1. PICK from \in {"idle", "wait_shared"} : pc[t] = from
      BY <1>1 DEF lock_shared
    <3>2. t \notin asleep /\ Moves(t, from, "shared")
      BY <1>1, <2>3, <3>1 DEF lock_shared, Running, Goto, Moves
    <3> QED
      BY <1>1, <2>3, <3>2, EnterShared DEF lock_shared
  <2> QED
    BY <1>1, <2>1, <2>2, <2>3 DEF lock_shared
<1>2. ASSUME NEW t \in Thread, lock_append_shared(t) PROVE IInv'
  <2>1. CASE SharedBlocked /\ pc[t] = "idle"
    BY <1>2, <2>1, WaitStep DEF lock_append_shared, Goto, Sleep, Moves, Waiting
  <2>2. CASE SharedBlocked /\ pc[t] = "wait_append"
    <3>1. pc' = pc /\ asleep' = asleep \cup {t}
      BY <1>0, <1>2, <2>2 DEF lock_append_shared, Goto, Sleep, TypeOK
    <3> QED
      BY <1>0, <1>2, <1>a, <2>2, <3>1, SleepersStep
         DEF lock_append_shared, Waiting, TypeOK
  <2>3. CASE ~SharedBlocked
    <3>1. PICK from \in {"idle", "wait_append"} : pc[t] = from
      BY <1>2 DEF lock_append_shared
    <3>2. t \notin asleep /\ Moves(t, from, "append")
      BY <1>2, <2>3, <3>1 DEF lock_append_shared, Running, Goto, Moves
    <3> QED
      BY <1>2, <2>3, <3>2, EnterShared DEF lock_append_shared
  <2> QED
    BY <1>2, <2>1, <2>2, <2>3 DEF lock_append_shared
<1>b. ASSUME NEW t \in Thread, pc[t] = "idle" PROVE t \notin asleep
  BY <1>0, <1>b DEF AsleepInv, Waiting
<1>3. ASSUME NEW t \in Thread, try_lock_shared(t) PROVE IInv'
  BY <1>3, <1>b, EnterShared DEF try_lock_shared, Goto, Moves
<1>4. ASSUME NEW t \in Thread, lock_enter(t) PROVE IInv'
  <2>1. CASE ExclusiveBlocked
    BY <1>4, <2>1, WaitStep DEF lock_enter, Goto, Sleep, Moves, Waiting
  <2>2. CASE ~ExclusiveBlocked
    BY <1>4, <1>b, <2>2, EnterExclusive DEF lock_enter, Goto, Moves
  <2> QED
    BY <2>1, <2>2
<1>5. ASSUME NEW t \in Thread, lock_woken(t) PROVE IInv'
  <2>1. CASE ExclusiveBlocked
    BY <1>0, <1>5, <1>a, <2>1, SleepersStep
       DEF lock_woken, Sleep, Waiting, TypeOK
  <2>2. CASE ~ExclusiveBlocked
    BY <1>5, <2>2, EnterExclusive DEF lock_woken, Goto, Moves, Running
  <2> QED
    BY <2>1, <2>2
<1>6. ASSUME NEW t \in Thread, try_lock(t) PROVE IInv'
  BY <1>6, <1>b, EnterExclusive DEF try_lock, Goto, Moves
<1>7. ASSUME NEW t \in Thread, try_lock_background_exclusive(t) PROVE IInv'
  BY <1>7, <1>b, EnterExclusive DEF try_lock_background_exclusive, Goto, Moves
<1>8. ASSUME NEW t \in Thread, unlock_shared(t) PROVE IInv'
  BY <1>8, Leave DEF unlock_shared, Goto, Moves, notify_all, Holding
<1>9. ASSUME NEW t \in Thread, unlock_append_shared(t) PROVE IInv'
  BY <1>9, Leave DEF unlock_append_shared, Goto, Moves, notify_all, Holding
<1>10. ASSUME NEW t \in Thread, unlock(t) PROVE IInv'
  BY <1>10, Leave DEF unlock, Goto, Moves, notify_all, Holding
<1>11. ASSUME NEW t \in Thread, unlock_background_exclusive(t) PROVE IInv'
  BY <1>11, Leave DEF unlock_background_exclusive, Goto, Moves, notify_all, Holding
<1>12. ASSUME NEW t \in Thread, SpuriousWakeup(t) PROVE IInv'
  BY <1>0, <1>12, <1>a, SleepersStep DEF SpuriousWakeup, TypeOK
<1>13. CASE PinSnapshot \/ ReleaseSnapshot
  <2>1. snapshot_pins' \in 0 .. MaxPins
    BY <1>0, <1>13, MaxPinsNat
       DEF PinSnapshot, ReleaseSnapshot, TypeOK, MaxPinsNat
  <2>2. asleep' \subseteq asleep
    BY <1>13 DEF PinSnapshot, ReleaseSnapshot, notify_all
  <2> QED
    BY <1>0, <1>13, <1>a, <2>1, <2>2, SleepersStep
       DEF PinSnapshot, ReleaseSnapshot, TypeOK
<1>14. CASE UNCHANGED vars
  BY <1>0, <1>14, <1>a, SleepersStep DEF vars, TypeOK
<1> QED
  BY <1>1, <1>2, <1>3, <1>4, <1>5, <1>6, <1>7, <1>8, <1>9, <1>10, <1>11,
     <1>12, <1>13, <1>14 DEF Next, Acquire, Release

(* Type correctness of the lock. *)
THEOREM TypeCorrect == Spec => []TypeOK
<1>1. IInv => TypeOK
  BY DEF IInv
<1> QED
  BY <1>1, InitIInv, NextIInv, PTL DEF Spec

(* A flush or a checkpoint is alone inside rw_mu_, for any number of        *)
(* readers, appenders and writers.                                          *)
THEOREM ExclusionHolds == Spec => []StructuralExclusive
<1>1. IInv => StructuralExclusive
  BY DEF IInv
<1> QED
  BY <1>1, InitIInv, NextIInv, PTL DEF Spec

(* No thread sleeps on a condition that has become false. *)
THEOREM WakeupsAreNotLost == Spec => []NoLostWakeup
<1>1. IInv => NoLostWakeup
  BY DEF IInv
<1> QED
  BY <1>1, InitIInv, NextIInv, PTL DEF Spec

(* A background writer enters only when nobody waits in lock() and no       *)
(* snapshot is pinned.                                                      *)
THEOREM BackgroundIsPolite == Spec => BackgroundYields
<1>1. IInv /\ [Next]_vars
        => [\A t \in Thread :
              pc[t] # "background" /\ pc'[t] = "background"
                => /\ \A u \in Thread : pc[u] # "wait_lock"
                   /\ snapshot_pins = 0]_vars
  <2> SUFFICES ASSUME IInv, [Next]_vars, NEW t \in Thread,
                      pc[t] # "background", pc'[t] = "background"
               PROVE  /\ \A u \in Thread : pc[u] # "wait_lock"
                      /\ snapshot_pins = 0
    OBVIOUS
  <2>1. PICK u \in Thread : try_lock_background_exclusive(u)
    BY DEF IInv, TypeOK, Next, Acquire, Release, vars, Goto, lock_shared,
       lock_append_shared, try_lock_shared, lock_enter, lock_woken, try_lock,
       unlock_shared, unlock_append_shared, unlock,
       unlock_background_exclusive, SpuriousWakeup, PinSnapshot,
       ReleaseSnapshot
  <2>2. foreground_waiting = 0 /\ snapshot_pins = 0
    BY <2>1 DEF try_lock_background_exclusive
  <2> QED
    BY <2>2, HoldersFinite DEF IInv, CountsInv
<1> QED
  BY <1>1, InitIInv, NextIInv, PTL DEF Spec, BackgroundYields
===========================================================================
