-------------------------- MODULE SuperBlockStore --------------------------
(***************************************************************************)
(* The two-slot superblock file of a shard:                                *)
(* cpp/src/concept/superblock/superblock.cc, as its only caller,           *)
(* ShardEngine::CommitSuperBlockInternal, uses it (load, change, commit).  *)
(*                                                                         *)
(* A slot holds a block whose two checksums agree, or anything else (the   *)
(* zero block, a block half written when the process or the machine        *)
(* stopped): Invalid.  The checksums are taken to detect every such slot.  *)
(* `content' stands for data_lsn, wal_lsn, active_root and tlog_tail; each *)
(* commit writes a content of its own.                                     *)
(***************************************************************************)
EXTENDS Naturals

CONSTANTS MaxContent,  \* bound on the number of commits attempted
          Invalid,     \* a slot that fails its checksums
          NoFile       \* the superblock file does not exist

ASSUME MaxContentNat == MaxContent \in Nat
ASSUME NotSlots == Invalid # NoFile

Slot == {0, 1}
Block == [epoch : Nat, content : Nat]
ASSUME SentinelsAreNoBlocks == Invalid \notin Block
ASSUME NoFileIsNoFunction == NoFile \notin [Slot -> Block \cup {Invalid}]

VARIABLES slot,       \* the file: what each slot holds, or NoFile
          pc,         \* where the caller is in Commit
          next,       \* the block Commit is writing
          inactive,   \* the slot it writes
          committed,  \* content of the last Commit that returned Ok (0: none)
          attempted   \* content of the last Commit started

vars == <<slot, pc, next, inactive, committed, attempted>>

Empty == [epoch |-> 0, content |-> 0]   \* SuperBlock{}

TypeOK ==
  /\ slot \in {NoFile} \cup [Slot -> Block \cup {Invalid}]
  /\ pc \in {"idle", "create", "write", "writing", "down"}
  /\ next \in Block
  /\ inactive \in Slot
  /\ committed \in Nat
  /\ attempted \in Nat

Init ==
  /\ slot = NoFile
  /\ pc = "idle"
  /\ next = Empty
  /\ inactive = 0
  /\ committed = 0
  /\ attempted = 0

---------------------------------------------------------------------------
ReadOk(s) == slot[s] # Invalid

(* Load: the valid block with the larger epoch, slot 0 on a tie; Invalid   *)
(* when no slot is valid (CorruptSuperBlock).                              *)
LoadNewestSlot ==
  IF ReadOk(0) /\ (~ReadOk(1) \/ slot[0].epoch >= slot[1].epoch) THEN slot[0]
  ELSE IF ReadOk(1) THEN slot[1] ELSE Invalid
Load == IF slot = NoFile THEN Empty ELSE LoadNewestSlot

(* Commit ignores the status of Load: a file without a valid slot counts   *)
(* as the empty block.                                                     *)
Current == IF Load = Invalid THEN Empty ELSE Load

(* The caller loads the block, so its epoch is the current one and the     *)
(* max in Commit adds nothing.                                             *)
InactiveSlot_OneBased(epoch) == IF epoch % 2 = 0 THEN 2 ELSE 1
InactiveSlot_NoParity(epoch) == IF epoch = 0 THEN 1 ELSE 0
InactiveSlot(epoch) == IF epoch % 2 = 0 THEN 1 ELSE 0

Commit ==
  /\ pc = "idle"
  /\ attempted < MaxContent
  /\ attempted' = attempted + 1
  /\ next' = [epoch |-> Current.epoch + 1, content |-> attempted + 1]
  /\ inactive' = InactiveSlot(Current.epoch)
  /\ pc' = IF slot = NoFile THEN "create" ELSE "write"
  /\ UNCHANGED <<slot, committed>>

(* WriteSlot: create the file with two zero blocks when it is missing, *)
(* then overwrite one slot, which is not atomic.                       *)
CreateFile ==
  /\ pc = "create"
  /\ slot' = [s \in Slot |-> Invalid]
  /\ pc' = "write"
  /\ UNCHANGED <<next, inactive, committed, attempted>>

WriteStart ==
  /\ pc = "write"
  /\ slot' = [slot EXCEPT ![inactive] = Invalid]
  /\ pc' = "writing"
  /\ UNCHANGED <<next, inactive, committed, attempted>>

WriteDone ==
  /\ pc = "writing"
  /\ slot' = [slot EXCEPT ![inactive] = next]
  /\ committed' = next.content
  /\ pc' = "idle"
  /\ UNCHANGED <<next, inactive, attempted>>

(* WriteSlot returns IoError: the file cannot be made or opened, or the     *)
(* stream is bad after the write, which may have reached the file in full. *)
WriteFails ==
  /\ pc \in {"create", "write", "writing"}
  /\ \/ UNCHANGED slot
     \/ pc = "writing" /\ slot' = [slot EXCEPT ![inactive] = next]
  /\ pc' = "idle"
  /\ UNCHANGED <<next, inactive, committed, attempted>>

Crash ==
  /\ pc # "down"
  /\ pc' = "down"
  /\ UNCHANGED <<slot, next, inactive, committed, attempted>>

(* The shard opens only when Load succeeds. *)
Open ==
  /\ pc = "down"
  /\ Load # Invalid
  /\ pc' = "idle"
  /\ UNCHANGED <<slot, next, inactive, committed, attempted>>

Next == Commit \/ CreateFile \/ WriteStart \/ WriteDone \/ WriteFails
        \/ Crash \/ Open

Spec == Init /\ [][Next]_vars

---------------------------------------------------------------------------
(* I-D4: at every instant, whatever write is torn or fails, Load returns   *)
(* the block of the last Commit that returned Ok or of a later attempt,    *)
(* once one Commit has returned Ok.                                        *)
CommittedSurvives ==
  committed > 0 => /\ Load # Invalid
                   /\ Load.content \in committed .. attempted

(* The write in progress never touches the block Load returns: the slot    *)
(* chosen by the parity of the epoch is the one that does not hold it.     *)
ActiveSlotUntouched ==
  pc \in {"write", "writing"} /\ Load # Invalid
    => slot[1 - inactive] = Load

(* A new commit is always newer than what Load returned before: epochs of  *)
(* the loaded block never go back while the shard is up or across crashes. *)
LoadedEpochNeverRegresses ==
  [][Load # Invalid /\ Load' # Invalid => Load'.epoch >= Load.epoch]_vars
===========================================================================
