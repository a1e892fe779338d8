------------------------- MODULE VolumeControllerInv -------------------------
(***************************************************************************)
(* The inductive invariant of VolumeController.  The properties about      *)
(* exclusive names, addresses and queues are not inductive by themselves:  *)
(* that a handler's error path takes back no more than the handler holds   *)
(* rests on what each handler holds at each point of its code, and that an *)
(* instance a handler has found missing stays missing rests on the names   *)
(* being exclusive.                                                        *)
(***************************************************************************)
EXTENDS VolumeController

(* What a handler's record says about its place in the code: which request  *)
(* it serves, and that from SetCreating to its return, and at no other      *)
(* point, it holds the name it works on.                                    *)
WellFormed(r) ==
    LET holds == r.op = "create" /\ r.pc \in HoldingPCs IN
    /\ r.pc # "idle" => r.vol \in Volumes /\ r.op # "none"
    /\ r.pc \in CreatePCs => r.op = "create"
    /\ r.pc \in DeletePCs => r.op = "delete"
    /\ r.pc \in {"fit", "hold"} => r.name # None
    /\ holds => r.held = r.name /\ r.name # None
    /\ ~holds => r.held = None /\ r.ip = None

CallsWellFormed == \A c \in Calls : WellFormed(call[c])

(* A job has been created for a volume.                                     *)
JobsWellFormed == \A n \in Names : job[n].state # "absent" => job[n].vol \in Volumes

(* What a handler holds is registered, and no other handler holds it.       *)
HeldNamesExclusive ==
    /\ \A c \in Calls : call[c].held # None => call[c].held \in creatingNames
    /\ \A c, d \in Calls :
          c # d /\ call[c].held # None => call[c].held # call[d].held

(* Root squash is off, or the instance is gone, from the moment a handler   *)
(* has ordered the modification.                                            *)
ModifiedPCs == ReadyPCs \cup {"waitModified", "refetched"}

SquashOff(r) ==
    r.op = "create" /\ r.pc \in ModifiedPCs
        => nas[r.name].noRootSquash \/ nas[r.name].status = "absent"

RootSquashOff == \A c \in Calls : SquashOff(call[c])

(* A handler that waits for the mutex of a queue has a pending entry there, *)
(* of its own.                                                              *)
InLine(q, p) ==
    \A c \in Calls : At(c, p) =>
        /\ q.entry[call[c].vol] = "pending"
        /\ \A d \in Calls : At(d, p) /\ call[d].vol = call[c].vol => d = c

WaitersInLine == InLine(creatingQ, "lock") /\ InLine(deletingQ, "delLock")

IInv ==
    /\ TypeOK
    /\ CallsWellFormed
    /\ JobsWellFormed
    /\ HeldNamesExclusive
    /\ PendingIPsExclusive
    /\ QueuesConsistent
    /\ NoDuplicateCreate
    /\ RootSquashOff

-----------------------------------------------------------------------------
(* The placement of shared volumes, when the provisioner waits for every    *)
(* call and the controller does not restart.  Then a volume has one handler *)
(* at a time, and none that creates it once its PV is there; the entry of a *)
(* volume that is being placed is operating, which only one entry is.       *)

CallsAwaited == \A c \in Calls : call[c] = Idle \/ (call[c].pc # "idle" /\ call[c].awaited)

OneCallPerVolume ==
    \A c, d \in Calls : c # d /\ call[c].vol # None => call[c].vol # call[d].vol

CreatesUnbound ==
    \A c \in Calls : call[c].op = "create"
                       => pv[call[c].vol] = None /\ call[c].vol \notin released

DeletesReleased ==
    \A c \in Calls : call[c].op = "delete" => call[c].vol \in released

AddedBound == \A v \in added : pv[v] # None \/ v \in released

(* From the end of the search on a handler has an instance.                 *)
PlacedPCs == {"hold", "done"} \cup HoldingPCs

CreatesNamed ==
    \A c \in Calls : call[c].op = "create" /\ call[c].pc \in PlacedPCs => call[c].name # None

PlacingOperates == \A v \in Shared : Placing(v) => creatingQ.entry[v] = "operating"

SerialInv ==
    /\ CallsAwaited
    /\ OneCallPerVolume
    /\ CreatesUnbound
    /\ DeletesReleased
    /\ AddedBound
    /\ CreatesNamed
    /\ PlacingOperates

(* What a handler counted in a slot is, until it uses the sum, no less than *)
(* what is there; and the room it has found on an instance stays.           *)
OnInstance(n) == {v \in Shared : pv[v] = n}

Searches(r) == r.op = "create" /\ r.vol \in Shared /\ r.pc \in {"pvName", "fit", "listNas"}
Placed(r)   == r.op = "create" /\ r.vol \in Shared /\ r.pc \in PlacedPCs

CountedCovers(r) ==
    /\ PVsInSlot(r.slot) \subseteq r.counted
    /\ ReqCap[r.vol] <= SharedCapBytes
    /\ r.pc = "listNas" => TotalCap(r.counted) = 0
    /\ r.pc = "fit" => r.name[1] = r.slot

RoomKept(r) == TotalCap(OnInstance(r.name)) + ReqCap[r.vol] <= InstanceCapBytes

CapacityInv ==
    /\ \A c \in Calls : Searches(call[c]) => CountedCovers(call[c])
    /\ \A c \in Calls : Placed(call[c]) => RoomKept(call[c])
    /\ SharedCapacityRespected

-----------------------------------------------------------------------------
(* The instances and source paths of volumes of which at most one is        *)
(* shared, with timeouts and restarts.                                      *)

OneSharedVolume == \A v, w \in Shared : v = w

(* An instance a volume may be on.                                          *)
Owns(v, n) == IF v \in Shared THEN n \in SharedNames ELSE n = v

(* Handlers, PVs and jobs stay with the instances of their volume.  Nothing *)
(* of a volume is deleted before its claim is.                              *)
CallsFit ==
    \A c \in Calls : call[c].name # None => Owns(call[c].vol, call[c].name)

PVsFit == \A v \in Volumes : pv[v] # None => Owns(v, pv[v])

JobsFit ==
    \A n \in Names : job[n].state # "absent" =>
        /\ Owns(job[n].vol, n)
        /\ job[n].vol \in Shared => job[n].cmd \in {"mkdir", "rm"}
        /\ job[n].cmd = "rm" => job[n].vol \in released

AbsentEmpty == \A n \in Names : nas[n].status = "absent" => nas[n].dirs = {}

DeletingReleased ==
    \A v \in Shared, n \in SharedNames : nas[n].status = "deleting" => v \in released

(* Only shared volumes go through the queue and the search.                 *)
SearchPCs == {"queue", "lock", "scan", "listNas", "pvName", "fit"}

SearchShared == \A c \in Calls : call[c].pc \in SearchPCs => call[c].vol \in Shared

FitInv ==
    /\ CallsFit /\ CreatesNamed /\ SearchShared /\ DeletesReleased
    /\ PVsFit /\ JobsFit /\ AbsentEmpty

(* Until its claim is deleted a shared volume that has a finished job, a    *)
(* handler past its job, or a PV has its source path there.                 *)
PathPCs == {"restore", "reply", "done"}

PathInv ==
    /\ DeletingReleased
    /\ \A v \in Shared \ released :
          /\ \A n \in SharedNames : job[n].state = "done" => v \in nas[n].dirs
          /\ \A c \in Calls :
                call[c].op = "create" /\ call[c].vol = v /\ call[c].pc \in PathPCs
                    => v \in nas[call[c].name].dirs
          /\ pv[v] # None => v \in nas[pv[v]].dirs

(* The provisioner waits for one call of a volume at a time.                *)
Up(n) == nas[n].status \notin {"absent", "deleting"}

AwaitedInv ==
    /\ \A c, d \in Calls : c # d /\ call[c].awaited /\ call[d].awaited
                             => call[c].vol # call[d].vol
    /\ \A c \in Calls : call[c].awaited =>
          /\ call[c].vol \in Volumes
          /\ call[c].op = "create" => pv[call[c].vol] = None /\ call[c].vol \notin released
          /\ call[c].op = "delete" => pv[call[c].vol] = call[c].name /\ call[c].name # None

(* A volume has at most one instance, which is the one its awaited handler  *)
(* has been given and the one in its PV.  The only shared volume searches   *)
(* no further than the first slot.                                          *)
SearchInv ==
    \A c \in Calls : call[c].awaited /\ call[c].op = "create" =>
        /\ call[c].pc \in {"scan", "listNas"} => call[c].slot = 1
        /\ call[c].pc \notin {"pvName", "fit"}
        /\ call[c].pc \in PlacedPCs /\ call[c].vol \in Shared => call[c].name[1] = 1

UpInv ==
    /\ \A n \in SharedNames : Up(n) => n[1] = 1 /\ Shared # {}
    /\ \A n, m \in SharedNames : Up(n) /\ Up(m) => n = m
    /\ \A v \in Volumes, n \in Names :
          Owns(v, n) /\ Up(n) =>
              /\ v \in released \/ pv[v] # None => pv[v] = n
              /\ \A c \in Calls :
                    call[c].awaited /\ call[c].vol = v =>
                        /\ call[c].op = "create" /\ call[c].pc \in PlacedPCs
                              => call[c].name = n
                        /\ call[c].op = "delete" => call[c].pc # "done"

LeakInv == AwaitedInv /\ SearchInv /\ UpInv

=============================================================================
