------------------------------- MODULE Block -------------------------------
(***************************************************************************)
(* One ATA disk behind the block layer (kernel/io/block.c, drivers/        *)
(* storage/ata.c), as its single caller sees it: requests are synchronous  *)
(* and never overlap, so the busy flag is not modelled here.               *)
(*                                                                         *)
(* The drive has a write cache.  disk is what a read returns; media[a] is  *)
(* the set of contents sector a may have after a power loss: a completed   *)
(* write may still be in the cache, a failed one may have reached the      *)
(* platter, and only a flush that succeeds settles them.  A sector is      *)
(* written whole or not at all.                                            *)
(***************************************************************************)
LOCAL INSTANCE FiniteSetsExt

VARIABLES
  disk,    \* sector -> what a read returns
  media,   \* sector -> what it may hold after a power loss
  online,
  late     \* a write that timed out and that the drive may still carry out

blockVars == <<disk, media, online, late>>

NoWrite == <<>>

BlockInit(d) ==
  /\ disk = d
  /\ media = [a \in DOMAIN d |-> {d[a]}]
  /\ online = TRUE
  /\ late = NoWrite

\* mutant: a timeout leaves the drive in use
StaysOnline == UNCHANGED online

(* poll_limit: a timeout, a device fault and an absent drive take the drive *)
(* offline; an error that the drive reports does not.                       *)
TakenOffline == online' = FALSE

(* A request is refused when the drive is offline (acquire), or it fails. *)
RequestFails ==
  \/ UNCHANGED online
  \/ online /\ TakenOffline

ReadFails ==
  /\ RequestFails
  /\ UNCHANGED <<disk, media, late>>

Write(a, data) ==
  /\ online
  /\ disk' = [disk EXCEPT ![a] = data]
  /\ media' = [media EXCEPT ![a] = @ \cup {data}]
  /\ UNCHANGED <<online, late>>

(* "a failed write may also have changed its in-flight sector" (block.h); one *)
(* that timed out may still do so.                                            *)
WriteFails(a, data) ==
  \/ /\ ~online
     /\ UNCHANGED blockVars
  \/ /\ online
     /\ media' = [media EXCEPT ![a] = @ \cup {data}]
     /\ \/ /\ disk' \in {disk, [disk EXCEPT ![a] = data]}
           /\ UNCHANGED <<online, late>>
        \/ /\ TakenOffline
           /\ late' = <<a, data>>
           /\ UNCHANGED disk

(* The drive carries out the write that timed out, at any later time. *)
LateWrite ==
  /\ late # NoWrite
  /\ disk' = [disk EXCEPT ![late[1]] = late[2]]
  /\ media' = [media EXCEPT ![late[1]] = @ \cup {late[2]}]
  /\ late' = NoWrite
  /\ UNCHANGED online

FlushCache ==
  /\ online
  /\ media' = [a \in DOMAIN disk |-> {disk[a]}]
  /\ UNCHANGED <<disk, online, late>>

(* A failed flush gives no guarantee: nothing settles. *)
FlushFails ==
  /\ RequestFails
  /\ UNCHANGED <<disk, media, late>>

(* What the disk may hold after a power loss. *)
Unsettled == {a \in DOMAIN disk : media[a] # {disk[a]}}

Outcomes ==
  FoldSet(LAMBDA a, ds : {[d EXCEPT ![a] = data] : d \in ds, data \in media[a]},
          {disk}, Unsettled)

(* Power loss and reboot: the driver probes the drive again. *)
PowerCycle ==
  /\ disk' \in Outcomes
  /\ media' = [a \in DOMAIN disk |-> {disk'[a]}]
  /\ online' = TRUE
  /\ late' = NoWrite

=============================================================================
