----------------------- MODULE SuperBlockStoreProofs -----------------------
(***************************************************************************)
(* For every number of commits, crashes and failed or torn writes: the     *)
(* block of the last successful Commit is never lost (I-D4).               *)
(*                                                                         *)
(* The argument: the parity of an epoch names the slot that holds it, so   *)
(* the slot chosen from the loaded epoch is never the slot that epoch is   *)
(* in (SlotsInv); the block not being written is the one Load returns and  *)
(* carries what was committed (WriteInv).                                  *)
(***************************************************************************)
EXTENDS SuperBlockStore, TLAPS

FileThere == slot # NoFile
InCommit == pc \in {"create", "write", "writing"}

SlotsInv ==
  FileThere =>
    \A s \in Slot :
      ReadOk(s) =>
        /\ slot[s].epoch % 2 = s
        /\ slot[s].content <= attempted
        /\ InCommit => slot[s].content < attempted
        /\ ReadOk(1 - s) /\ slot[s].epoch > slot[1 - s].epoch
             => slot[s].content > slot[1 - s].content

CommittedInv ==
  /\ committed <= attempted
  /\ committed > 0 =>
       /\ FileThere
       /\ \E s \in Slot : ReadOk(s) /\ slot[s].content >= committed

WriteInv ==
  InCommit =>
    /\ next.content = attempted
    /\ next.epoch % 2 = inactive
    /\ pc = "create" <=> ~FileThere
    /\ FileThere =>
         /\ ReadOk(inactive) => /\ pc = "write"
                                /\ ReadOk(1 - inactive)
                                /\ slot[inactive].epoch < slot[1 - inactive].epoch
         /\ ReadOk(1 - inactive) => next.epoch = slot[1 - inactive].epoch + 1
         /\ committed > 0 => /\ ReadOk(1 - inactive)
                             /\ slot[1 - inactive].content >= committed

IInv == TypeOK /\ SlotsInv /\ CommittedInv /\ WriteInv

(* The inductive invariant holds initially. *)
LEMMA InitIInv == Init => IInv
BY DEF Init, IInv, TypeOK, SlotsInv, CommittedInv, WriteInv, FileThere,
       InCommit, ReadOk, Slot, Block, Empty

(* What Load returns is one of the two slots, and no valid slot has a      *)
(* larger epoch.                                                           *)
LEMMA LoadIsNewest ==
  ASSUME TypeOK, FileThere, Load # Invalid
  PROVE  \E s \in Slot : /\ ReadOk(s) /\ Load = slot[s]
                         /\ ReadOk(1 - s) => slot[s].epoch >= slot[1 - s].epoch
BY DEF TypeOK, FileThere, Load, LoadNewestSlot, ReadOk, Slot, Block

(* Every step preserves the inductive invariant. *)
LEMMA NextIInv == IInv /\ [Next]_vars => IInv'
<1> SUFFICES ASSUME IInv, [Next]_vars PROVE IInv'
  OBVIOUS
<1> USE SentinelsAreNoBlocks, NotSlots
<1>0. /\ TypeOK /\ SlotsInv /\ CommittedInv /\ WriteInv
  BY DEF IInv
<1>1. CASE Commit
  <2>1. Current \in Block
    BY <1>0, LoadIsNewest DEF Current, Empty, Block, TypeOK, Load,
       LoadNewestSlot, ReadOk, Slot
  <2>2. TypeOK'
    BY <1>0, <1>1, <2>1 DEF Commit, TypeOK, Block, Slot, InactiveSlot
  <2>3. SlotsInv'
    BY <1>0, <1>1 DEF Commit, SlotsInv, TypeOK, InCommit, ReadOk, FileThere,
       Slot, Block
  <2>4. CommittedInv'
    BY <1>0, <1>1 DEF Commit, CommittedInv, TypeOK, ReadOk, FileThere
  <2>5. next'.epoch % 2 = inactive'
    BY <1>0, <1>1, <2>1 DEF Commit, Block, InactiveSlot
  <2>6. CASE ~FileThere
    BY <1>0, <1>1, <2>5, <2>2, <2>3, <2>4, <2>6
       DEF Commit, WriteInv, FileThere, InCommit, IInv
  <2>7. CASE FileThere /\ Load = Invalid
    <3>1. ~ReadOk(0) /\ ~ReadOk(1)
      BY <2>7, <1>0 DEF Load, LoadNewestSlot, ReadOk, FileThere, TypeOK, Slot
    <3>2. committed = 0
      BY <3>1, <1>0 DEF CommittedInv, Slot, TypeOK
    <3>3. WriteInv'
      BY <3>1, <3>2, <2>2, <2>5, <2>7, <1>1
         DEF Commit, WriteInv, FileThere, InCommit, ReadOk, Slot, TypeOK
    <3> QED
      BY <2>2, <2>3, <2>4, <3>3 DEF IInv
  <2>8. CASE FileThere /\ Load # Invalid
    <3>1. PICK s \in Slot :
            /\ ReadOk(s) /\ Load = slot[s]
            /\ ReadOk(1 - s) => slot[s].epoch >= slot[1 - s].epoch
      BY <2>8, <1>0, LoadIsNewest
    <3>2. slot[s] \in Block /\ slot[s].epoch % 2 = s
      BY <3>1, <2>8, <1>0 DEF SlotsInv, TypeOK, FileThere, ReadOk
    <3>3. inactive' = 1 - s /\ 1 - inactive' = s
      BY <3>1, <3>2, <1>1, <2>8
         DEF Commit, Current, InactiveSlot, Slot, Block
    <3>4. ReadOk(1 - s) => /\ slot[1 - s] \in Block
                           /\ slot[1 - s].epoch % 2 = 1 - s
      BY <2>8, <1>0 DEF SlotsInv, TypeOK, FileThere, ReadOk, Slot
    <3>5. ReadOk(1 - s) => slot[1 - s].epoch < slot[s].epoch
      BY <3>1, <3>2, <3>4 DEF Block, Slot
    <3>6. committed > 0 => slot[s].content >= committed
      <4> SUFFICES ASSUME committed > 0 PROVE slot[s].content >= committed
        OBVIOUS
      <4>1. PICK t \in Slot : ReadOk(t) /\ slot[t].content >= committed
        BY <1>0 DEF CommittedInv
      <4>2. CASE t = s
        BY <4>1, <4>2
      <4>3. CASE t = 1 - s
        BY <4>1, <4>3, <3>1, <3>2, <3>4, <3>5, <1>0, <2>8
           DEF SlotsInv, Block, TypeOK
      <4> QED
        BY <4>2, <4>3 DEF Slot
    <3>7. next'.epoch = slot[s].epoch + 1 /\ next'.content = attempted'
      BY <3>1, <1>1, <2>8 DEF Commit, Current
    <3>8. pc' = "write" /\ slot' = slot /\ committed' = committed
      BY <1>1, <2>8 DEF Commit, FileThere
    <3>9. WriteInv'
      BY <3>1, <3>3, <3>5, <3>6, <3>7, <3>8, <2>5, <2>8
         DEF WriteInv, FileThere, InCommit, ReadOk
    <3> QED
      BY <2>2, <2>3, <2>4, <3>9 DEF IInv
  <2> QED
    BY <2>6, <2>7, <2>8
<1>2. CASE CreateFile
  <2>1. TypeOK'
    BY <1>0, <1>2 DEF CreateFile, TypeOK
  <2>2. \A s \in Slot : ~ReadOk(s)'
    BY <1>2 DEF CreateFile, ReadOk
  <2>3. committed' = 0 /\ attempted' = attempted
    BY <1>0, <1>2
       DEF CreateFile, WriteInv, CommittedInv, InCommit, TypeOK
  <2>4. slot' # NoFile
    <3>1. slot'[0] = Invalid
      BY <1>2 DEF CreateFile, Slot
    <3>2. slot' \in [Slot -> Block \cup {Invalid}]
      BY <1>2 DEF CreateFile
    <3> QED
      BY <3>2, NoFileIsNoFunction
  <2>5. SlotsInv' /\ CommittedInv'
    BY <2>2, <2>3, <1>0 DEF SlotsInv, CommittedInv, TypeOK
  <2>6. WriteInv'
    BY <1>0, <1>2, <2>1, <2>2, <2>3, <2>4
       DEF CreateFile, WriteInv, InCommit, FileThere, TypeOK, Slot
  <2> QED
    BY <2>1, <2>5, <2>6 DEF IInv
<1>3. CASE WriteStart
  <2> DEFINE a == 1 - inactive
  <2>1. FileThere /\ slot \in [Slot -> Block \cup {Invalid}]
    BY <1>0, <1>3 DEF WriteStart, WriteInv, InCommit, FileThere, TypeOK
  <2>2. inactive \in Slot /\ a \in Slot /\ a # inactive
    BY <1>0 DEF TypeOK, Slot
  <2>3. /\ slot' \in [Slot -> Block \cup {Invalid}]
        /\ slot'[inactive] = Invalid
        /\ slot'[a] = slot[a]
    BY <1>3, <2>1, <2>2 DEF WriteStart
  <2>4. FileThere'
    BY <2>3, NoFileIsNoFunction DEF FileThere
  <2>5. /\ inactive' = inactive /\ next' = next /\ committed' = committed
        /\ attempted' = attempted /\ pc' = "writing" /\ pc = "write"
    BY <1>3 DEF WriteStart
  <2>6. TypeOK'
    BY <1>0, <2>3, <2>5 DEF TypeOK
  <2>7. WriteInv'
    BY <1>0, <2>1, <2>2, <2>3, <2>4, <2>5 DEF WriteInv, InCommit, ReadOk
  <2>8. SlotsInv'
    BY <1>0, <2>1, <2>2, <2>3, <2>5 DEF SlotsInv, InCommit, ReadOk, Slot
  <2>9. CommittedInv'
    BY <1>0, <2>1, <2>2, <2>3, <2>4, <2>5
       DEF CommittedInv, WriteInv, InCommit, ReadOk
  <2> QED
    BY <2>6, <2>7, <2>8, <2>9 DEF IInv
<1>4. ASSUME pc = "writing", pc' = "idle",
             slot' = [slot EXCEPT ![inactive] = next],
             committed' \in {committed, next.content},
             UNCHANGED <<next, inactive, attempted>>
      PROVE  IInv'
  <2> DEFINE a == 1 - inactive
  <2>1. FileThere /\ slot \in [Slot -> Block \cup {Invalid}]
    BY <1>0, <1>4 DEF WriteInv, InCommit, FileThere, TypeOK
  <2>2. inactive \in Slot /\ a \in Slot /\ 1 - a = inactive
        /\ Slot = {a, inactive} /\ a # inactive
    BY <1>0 DEF TypeOK, Slot
  <2>3. /\ slot' \in [Slot -> Block \cup {Invalid}]
        /\ slot'[inactive] = next /\ next \in Block
        /\ slot'[a] = slot[a]
    BY <1>0, <1>4, <2>1, <2>2 DEF TypeOK
  <2>4. FileThere'
    BY <2>3, NoFileIsNoFunction DEF FileThere
  <2>5. next.content = attempted /\ next.epoch % 2 = inactive
        /\ (ReadOk(a) => next.epoch = slot[a].epoch + 1)
    BY <1>0, <1>4, <2>1 DEF WriteInv, InCommit
  <2>6. TypeOK'
    BY <1>0, <1>4, <2>3 DEF TypeOK, Block
  <2>7. ReadOk(a) => /\ slot[a] \in Block
                     /\ slot[a].epoch % 2 = a
                     /\ slot[a].content < attempted
    BY <1>0, <1>4, <2>1, <2>2 DEF SlotsInv, InCommit, ReadOk
  <2>8. SlotsInv'
    <3> SUFFICES ASSUME NEW s \in Slot, ReadOk(s)'
                 PROVE  /\ slot'[s].epoch % 2 = s
                        /\ slot'[s].content <= attempted
                        /\ ReadOk(1 - s)' /\ slot'[s].epoch > slot'[1 - s].epoch
                             => slot'[s].content > slot'[1 - s].content
      BY <1>4 DEF SlotsInv, InCommit
    <3>1. CASE s = inactive
      BY <3>1, <2>2, <2>3, <2>5, <2>7, <1>0 DEF ReadOk, Block, TypeOK
    <3>2. CASE s = a
      BY <3>2, <2>2, <2>3, <2>5, <2>7, <1>0 DEF ReadOk, Block, TypeOK
    <3> QED
      BY <3>1, <3>2, <2>2
  <2>9. CommittedInv'
    <3>1. committed' <= attempted'
      BY <1>0, <1>4, <2>5 DEF CommittedInv, TypeOK
    <3>2. slot'[inactive] # Invalid /\ slot'[inactive].content >= committed'
      BY <1>0, <1>4, <2>3, <2>5, <3>1 DEF TypeOK
    <3>3. \E s \in Slot : slot'[s] # Invalid /\ slot'[s].content >= committed'
      BY <3>2, <2>2
    <3> QED
      BY <3>1, <3>3, <2>4 DEF CommittedInv, ReadOk
  <2>10. WriteInv'
    BY <1>4 DEF WriteInv, InCommit
  <2> QED
    BY <2>6, <2>8, <2>9, <2>10 DEF IInv
<1>5. ASSUME pc' \in {"idle", "down"},
             UNCHANGED <<slot, next, inactive, committed, attempted>>
      PROVE  IInv'
  <2>1. TypeOK'
    BY <1>0, <1>5 DEF TypeOK
  <2>2. SlotsInv' /\ CommittedInv'
    BY <1>0, <1>5 DEF SlotsInv, CommittedInv, InCommit, ReadOk, FileThere
  <2>3. WriteInv'
    BY <1>5 DEF WriteInv, InCommit
  <2> QED
    BY <2>1, <2>2, <2>3 DEF IInv
<1>6. CASE WriteDone
  BY <1>4, <1>6 DEF WriteDone
<1>7. CASE WriteFails
  BY <1>4, <1>5, <1>7 DEF WriteFails
<1>8. CASE Crash \/ Open
  BY <1>5, <1>8 DEF Crash, Open
<1>9. CASE UNCHANGED vars
  BY <1>0, <1>9 DEF vars, IInv, TypeOK, SlotsInv, CommittedInv, WriteInv,
     FileThere, InCommit, ReadOk
<1> QED
  BY <1>1, <1>2, <1>3, <1>6, <1>7, <1>8, <1>9 DEF Next

(* The invariant implies the properties TLC checks on small instances. *)
LEMMA IInvImplies == IInv => CommittedSurvives /\ ActiveSlotUntouched
<1> SUFFICES ASSUME IInv PROVE CommittedSurvives /\ ActiveSlotUntouched
  OBVIOUS
<1>0. /\ TypeOK /\ SlotsInv /\ CommittedInv /\ WriteInv
  BY DEF IInv
<1>1. CommittedSurvives
  <2> SUFFICES ASSUME committed > 0
               PROVE  Load # Invalid /\ Load.content \in committed .. attempted
    BY DEF CommittedSurvives
  <2>1. PICK t \in Slot : ReadOk(t) /\ slot[t].content >= committed
    BY <1>0 DEF CommittedInv
  <2>2. FileThere /\ slot \in [Slot -> Block \cup {Invalid}]
    BY <1>0 DEF CommittedInv, FileThere, TypeOK
  <2>3. Load # Invalid
    BY <2>1, <2>2 DEF FileThere, Load, LoadNewestSlot, ReadOk, Slot
  <2>4. PICK s \in Slot :
          /\ ReadOk(s) /\ Load = slot[s]
          /\ ReadOk(1 - s) => slot[s].epoch >= slot[1 - s].epoch
    BY <2>2, <2>3, <1>0, LoadIsNewest
  <2>5. /\ slot[s] \in Block /\ slot[s].epoch % 2 = s
        /\ slot[t] \in Block /\ slot[t].epoch % 2 = t
        /\ slot[s].content <= attempted
    BY <2>1, <2>2, <2>4, <1>0 DEF SlotsInv, ReadOk
  <2>6. CASE t = s
    BY <2>1, <2>3, <2>4, <2>5, <2>6, <1>0 DEF TypeOK, Block
  <2>7. CASE t = 1 - s
    <3>1. slot[s].epoch > slot[1 - s].epoch
      BY <2>1, <2>4, <2>5, <2>7 DEF Block, Slot
    <3>2. slot[s].content > slot[1 - s].content
      BY <3>1, <2>1, <2>2, <2>4, <2>7, <1>0 DEF SlotsInv
    <3> QED
      BY <3>2, <2>1, <2>3, <2>4, <2>5, <2>7, <1>0 DEF TypeOK, Block
  <2> QED
    BY <2>6, <2>7 DEF Slot
<1>2. ActiveSlotUntouched
  <2> SUFFICES ASSUME pc \in {"write", "writing"}, Load # Invalid
               PROVE  slot[1 - inactive] = Load
    BY DEF ActiveSlotUntouched
  <2>1. /\ FileThere /\ slot \in [Slot -> Block \cup {Invalid}]
        /\ ReadOk(inactive) => /\ ReadOk(1 - inactive)
                               /\ slot[inactive].epoch < slot[1 - inactive].epoch
    BY <1>0 DEF WriteInv, InCommit, FileThere, TypeOK
  <2>2. PICK s \in Slot :
          /\ ReadOk(s) /\ Load = slot[s]
          /\ ReadOk(1 - s) => slot[s].epoch >= slot[1 - s].epoch
    BY <2>1, <1>0, LoadIsNewest
  <2>3. CASE s = inactive
    BY <2>1, <2>2, <2>3 DEF Block, ReadOk, Slot
  <2> QED
    BY <2>2, <2>3, <1>0 DEF Slot, TypeOK
<1> QED
  BY <1>1, <1>2

(* Type correctness of the superblock store. *)
THEOREM TypeCorrect == Spec => []TypeOK
<1>1. IInv => TypeOK
  BY DEF IInv
<1> QED
  BY <1>1, InitIInv, NextIInv, PTL DEF Spec

(* I-D4 for every number of commits, I/O errors and crashes: once a Commit  *)
(* has returned Ok, Load finds its block or a later one at every instant.  *)
THEOREM CommitIsDurable == Spec => []CommittedSurvives
<1> QED
  BY InitIInv, NextIInv, IInvImplies, PTL DEF Spec

(* WriteSlot never overwrites the block that Load returns. *)
THEOREM WritesInactiveSlot == Spec => []ActiveSlotUntouched
<1> QED
  BY InitIInv, NextIInv, IInvImplies, PTL DEF Spec

(* Write steps: the slot that stays holds the block Load returned, and the  *)
(* other one becomes invalid or gets a block with a larger epoch.           *)
LEMMA WriteStepEpoch ==
  ASSUME IInv, pc \in {"write", "writing"}, Load # Invalid,
         NEW b \in {Invalid, next},
         slot' = [slot EXCEPT ![inactive] = b],
         Load' # Invalid
  PROVE  Load'.epoch >= Load.epoch
<1> USE SentinelsAreNoBlocks
<1> DEFINE a == 1 - inactive
<1>1. /\ FileThere /\ slot \in [Slot -> Block \cup {Invalid}]
      /\ slot[a] = Load /\ next \in Block
      /\ inactive \in Slot /\ a \in Slot /\ a # inactive
  BY IInvImplies DEF IInv, WriteInv, InCommit, FileThere, TypeOK, Slot,
     ActiveSlotUntouched
<1>2. slot[a] \in Block /\ next.epoch = slot[a].epoch + 1
  BY <1>1 DEF IInv, WriteInv, InCommit, ReadOk
<1>3. /\ slot' \in [Slot -> Block \cup {Invalid}]
      /\ slot'[inactive] = b /\ slot'[a] = slot[a]
  BY <1>1
<1>4. slot' # NoFile
  BY <1>3, NoFileIsNoFunction
<1>5. Load' \in {slot'[0], slot'[1]}
  BY <1>4 DEF Load, LoadNewestSlot, ReadOk
<1>6. Load' \in {b, slot[a]}
  BY <1>1, <1>3, <1>5 DEF Slot
<1> QED
  BY <1>1, <1>2, <1>6 DEF Block

(* No step makes Load return an older block: whatever is torn, fails or is  *)
(* retried, the epoch of the loaded block never goes back.                  *)
THEOREM EpochNeverRegresses == Spec => LoadedEpochNeverRegresses
<1>1. IInv /\ [Next]_vars
        => [Load # Invalid /\ Load' # Invalid => Load'.epoch >= Load.epoch]_vars
  <2> SUFFICES ASSUME IInv, [Next]_vars, Load # Invalid, Load' # Invalid
               PROVE  Load'.epoch >= Load.epoch
    OBVIOUS
  <2>1. CASE slot' = slot
    <3>1. Load' = Load
      BY <2>1 DEF Load, LoadNewestSlot, ReadOk
    <3>2. Load.epoch \in Nat
      BY SentinelsAreNoBlocks, LoadIsNewest
         DEF IInv, TypeOK, Load, FileThere, Empty, Block, ReadOk
    <3> QED
      BY <3>1, <3>2
  <2>2. CASE CreateFile
    <3>1. slot' \in [Slot -> Block \cup {Invalid}]
          /\ slot'[0] = Invalid /\ slot'[1] = Invalid
      BY <2>2 DEF CreateFile, Slot
    <3> QED
      BY <3>1, NoFileIsNoFunction DEF Load, LoadNewestSlot, ReadOk
  <2>3. CASE WriteStart
    BY <2>3, WriteStepEpoch DEF WriteStart
  <2>4. CASE WriteDone
    BY <2>4, WriteStepEpoch DEF WriteDone
  <2>5. CASE WriteFails
    BY <2>5, <2>1, WriteStepEpoch DEF WriteFails
  <2> QED
    BY <2>1, <2>2, <2>3, <2>4, <2>5 DEF Next, Commit, Crash, Open, vars
<1> QED
  BY <1>1, InitIInv, NextIInv, PTL DEF Spec, LoadedEpochNeverRegresses
============================================================================
