-------------------------- MODULE VolumeController --------------------------
(***************************************************************************)
(* The controller service of the NAS CSI driver: the goroutines that serve *)
(* CreateVolume and DeleteVolume, the state they share in memory (the two  *)
(* queues of PV operations, the holder of NAS names, the pending IPs), and *)
(* the stores they work on step by step: the NAS cloud, the PersistentVolu-*)
(* mes and the jobs of the Kubernetes API.                                 *)
(*                                                                         *)
(* A handler takes one step per call to an outside store, so that any      *)
(* other handler, informer callback or cloud event may come in between.    *)
(***************************************************************************)
EXTENDS NasCapacity, FiniteSets

CONSTANTS
    Volumes,        \* request names (pvc-<uid>); the PV gets the same name
    Shared,         \* the volumes whose storage class says shared="true"
    Annotated,      \* dedicated volumes whose PVC has a permission annotation
    FromSnapshot,   \* volumes restored from a snapshot
    ReqCap,         \* ReqCap[v]: the capacity volume v requests, in bytes
    ClassCapGiB,    \* capacityParInstanceGiB of the shared storage class
    InstanceType,   \* instanceType of the shared storage class
    Slots,          \* how many shared instances there may be (10 in the code)
    Suffixes,       \* the random ends of shared instance names
    PrivateLan,     \* networkId is a private LAN, not net-COMMON_PRIVATE
    Cidr,           \* Cidr[v]: the addresses of v's reserved IPv4 range
    Calls,          \* goroutines of the gRPC server
    None,           \* no volume, name or address
    CloudErrors,    \* may a call to the cloud or to Kubernetes fail?
    Timeouts,       \* may the provisioner stop waiting for a call and repeat it?
    Restarts        \* may the controller restart?

Dedicated == Volumes \ Shared

(* A dedicated instance is named after its volume, a shared one after its   *)
(* slot and a random suffix.                                                *)
SharedNames == (1..Slots) \X Suffixes

Names == Dedicated \cup SharedNames

IPs == UNION {Cidr[v] : v \in Volumes}

ASSUME ConstantsAssumption ==
    /\ Shared \subseteq Volumes
    /\ Annotated \subseteq Dedicated
    /\ FromSnapshot \subseteq Volumes
    /\ ReqCap \in [Volumes -> Nat]
    /\ ClassCapGiB \in Nat
    /\ InstanceType \in {0, 1}
    /\ Slots \in Nat \ {0}
    /\ Cidr \in [Volumes -> SUBSET Nat]
    /\ {PrivateLan, CloudErrors, Timeouts, Restarts} \subseteq BOOLEAN
    /\ None \notin Volumes \cup Names \cup IPs

(* Shared instances are named cluster-<uid>-shd..., dedicated ones as the   *)
(* provisioner names their volumes (pvc-<uid>): never alike.                *)
ASSUME NamesAssumption == Dedicated \cap SharedNames = {}

VARIABLES
    call,           \* call[c]: the request goroutine c is serving
    creatingQ,      \* creatingPvsQueue
    deletingQ,      \* deletingPvsQueue
    creatingNames,  \* names in nasNameHolder
    pendingIPs,     \* ipAllocator.pendingIPs
    nas,            \* nas[n]: the NAS instance n of the cloud
    job,            \* job[n]: the Kubernetes job named n
    pv,             \* pv[v]: the instance in v's PV's volume handle, or None
    released,       \* volumes whose PVC is deleted: their PV is to be deleted
    added,          \* informer events not yet delivered: PV added
    deleted         \* informer events not yet delivered: PV deleted

ctrlVars == <<creatingQ, deletingQ, creatingNames, pendingIPs>>
pvVars   == <<pv, released, added, deleted>>
stores   == <<nas, job, pvVars>>
vars     == <<call, ctrlVars, stores>>

-----------------------------------------------------------------------------
(* The state of each part.                                                  *)

CreatePCs == {"queue", "lock", "scan", "pvName", "fit", "listNas", "hold",
              "get", "listIPs", "pickIP", "create", "waitCreated", "refetch",
              "modify", "waitModified", "refetched", "restore", "reply"}
JobPCs    == {"job", "rejob", "poll"}
DeletePCs == {"delGet", "delQueue", "delLock", "delCheck", "delNas"}
PCs       == CreatePCs \cup JobPCs \cup DeletePCs \cup {"idle", "done"}

(* slot, counted: position of the search for an instance, PVs found there;  *)
(* seenIPs: addresses of the instances listed; ip, held: what the deferred  *)
(* ReleaseIP and UnsetCreating give back; awaited: the provisioner still    *)
(* waits, and the request's context is not cancelled.                       *)
Call == [op : {"none", "create", "delete"}, pc : PCs, vol : Volumes \cup {None},
         name : Names \cup {None}, slot : 0..Slots, counted : SUBSET Shared,
         seenIPs : SUBSET IPs, ip : IPs \cup {None}, held : Names \cup {None},
         awaited : BOOLEAN]

Idle == [op |-> "none", pc |-> "idle", vol |-> None, name |-> None, slot |-> 0,
         counted |-> {}, seenIPs |-> {}, ip |-> None, held |-> None,
         awaited |-> FALSE]

(* OperateResourceQueue: the entries of the map (FALSE pending, TRUE        *)
(* operating) and its mutex.                                                *)
Queue == [entry : [Volumes -> {"none", "pending", "operating"}], locked : BOOLEAN]

EmptyQueue == [entry |-> [v \in Volumes |-> "none"], locked |-> FALSE]

Instance == [status : {"absent", "creating", "available", "modifying", "deleting"},
             noRootSquash : BOOLEAN, ip : IPs \cup {None}, dirs : SUBSET Volumes]

NoInstance == [status |-> "absent", noRootSquash |-> FALSE, ip |-> None,
               dirs |-> {}]

Job == [state : {"absent", "running", "hung", "done", "failed"},
        cmd : {"none", "mkdir", "rm", "chmod"}, vol : Volumes \cup {None},
        terminating : BOOLEAN]

NoJob == [state |-> "absent", cmd |-> "none", vol |-> None, terminating |-> FALSE]

TypeOK ==
    /\ call \in [Calls -> Call]
    /\ creatingQ \in Queue /\ deletingQ \in Queue
    /\ creatingNames \subseteq Names
    /\ pendingIPs \subseteq IPs
    /\ nas \in [Names -> Instance]
    /\ job \in [Names -> Job]
    /\ pv \in [Volumes -> Names \cup {None}]
    /\ {released, added, deleted} \subseteq SUBSET Volumes

Init ==
    /\ call = [c \in Calls |-> Idle]
    /\ creatingQ = EmptyQueue /\ deletingQ = EmptyQueue
    /\ creatingNames = {}
    /\ pendingIPs = {}
    /\ nas = [n \in Names |-> NoInstance]
    /\ job = [n \in Names |-> NoJob]
    /\ pv = [v \in Volumes |-> None]
    /\ released = {} /\ added = {} /\ deleted = {}

-----------------------------------------------------------------------------
(* Helpers.                                                                 *)

(* Mutant of UnsetQueue: the entry goes and the mutex stays locked.         *)
UnsetEntryOnly(q, v) ==
    IF q.entry[v] = "operating" THEN [q EXCEPT !.entry[v] = "none"] ELSE q

(* UnsetQueue: only an operating entry is removed, whoever put it there.    *)
UnsetQueue(q, v) ==
    IF q.entry[v] = "operating"
    THEN [entry |-> [q.entry EXCEPT ![v] = "none"], locked |-> FALSE]
    ELSE q

At(c, p) == call[c].pc = p

Goto(c, p) == call' = [call EXCEPT ![c].pc = p]

Return(c) == call' = [call EXCEPT ![c] = Idle]

(* What a call made with the request's context, or with context.TODO(), may *)
(* return.                                                                  *)
CtxWorks(c)  == call[c].awaited
CtxFails(c)  == CloudErrors \/ ~call[c].awaited
TodoFails    == CloudErrors

(* Mutant of ReleaseHeld: UnsetCreating is deferred before SetCreating.     *)
ReleaseByName(c) ==
    /\ pendingIPs' = pendingIPs \ {call[c].ip}
    /\ creatingNames' = creatingNames \ {call[c].name}

(* The deferred ReleaseIP and UnsetCreating.                                *)
ReleaseHeld(c) ==
    /\ pendingIPs' = pendingIPs \ {call[c].ip}
    /\ creatingNames' = creatingNames \ {call[c].held}

(* An error return.  The deferred calls of CreateVolume run; the queue's    *)
(* entry for the volume is removed, whichever request it belongs to.  The   *)
(* deferred UnsetQueue of DeleteVolume is there for shared volumes only.    *)
CreateError(c) ==
    /\ Return(c)
    /\ ReleaseHeld(c)
    /\ creatingQ' = UnsetQueue(creatingQ, call[c].vol)
    /\ UNCHANGED deletingQ

(* Mutant of DeleteError: the deferred UnsetQueue is missing.               *)
DeleteErrorKeepsQueue(c) ==
    /\ Return(c)
    /\ UNCHANGED ctrlVars

DeleteError(c) ==
    /\ Return(c)
    /\ deletingQ' = IF call[c].vol \in Shared
                    THEN UnsetQueue(deletingQ, call[c].vol) ELSE deletingQ
    /\ UNCHANGED <<creatingQ, creatingNames, pendingIPs>>

Error(c) ==
    \/ call[c].op = "create" /\ CreateError(c)
    \/ call[c].op = "delete" /\ DeleteError(c)

(* The PVs whose volume handle contains the name of slot i.                 *)
PVsInSlot(i) == {v \in Shared : pv[v] # None /\ pv[v][1] = i}

(* The capacity of some PVs, which getNasInstanceReservedCap sums up.       *)
TotalCap(S) == MapThenSumSet(LAMBDA v : ReqCap[v], S)

(* capacity of a shared instance: getNasInstanceCapacityBytes.              *)
SharedCapBytes == GbToBytes(ClassCapGiB)
InstanceCapBytes == GbToBytes(getAllocatedStorage(SharedCapBytes, InstanceType))

(* The random suffix of a new name makes it differ from every name that is  *)
(* still in use anywhere.                                                   *)
InUse(n) ==
    \/ nas[n].status # "absent" \/ job[n].state # "absent"
    \/ \E v \in Volumes : pv[v] = n
    \/ \E c \in Calls : call[c].name = n

(* Where CreateVolume goes once the instance is ready, and once its source  *)
(* path is.                                                                 *)
AfterPath(v) == IF v \in FromSnapshot THEN "restore" ELSE "reply"
AfterReady(v) == IF v \in Shared \cup Annotated THEN "job" ELSE AfterPath(v)

-----------------------------------------------------------------------------
(* CreateVolume.                                                            *)

(* The provisioner calls CreateVolume: a first time, or again after an      *)
(* error or after it has stopped waiting for an earlier call.               *)
NotWaitedFor(v) == \A d \in Calls : call[d].vol = v => ~call[d].awaited

CreateVolume(c, v) ==
    /\ At(c, "idle")
    /\ pv[v] = None /\ v \notin released
    /\ NotWaitedFor(v)
    /\ call' = [call EXCEPT ![c] =
                  [Idle EXCEPT !.op = "create", !.vol = v, !.awaited = TRUE,
                               !.pc = IF v \in Shared THEN "queue" ELSE "hold",
                               !.name = IF v \in Shared THEN None ELSE v]]
    /\ UNCHANGED <<ctrlVars, stores>>

(* creatingPvsQueue.Queue(name): the duplicate check and the pending entry, *)
(* then the mutex, which stays locked when the handler returns.             *)
QueueCreate(c) ==
    LET v == call[c].vol IN
    /\ At(c, "queue")
    /\ UNCHANGED stores
    /\ \/ /\ creatingQ.entry[v] # "none"
          /\ CreateError(c)
       \/ /\ creatingQ.entry[v] = "none"
          /\ creatingQ' = [creatingQ EXCEPT !.entry[v] = "pending"]
          /\ Goto(c, "lock")
          /\ UNCHANGED <<deletingQ, creatingNames, pendingIPs>>

LockCreate(c) ==
    /\ At(c, "lock")
    /\ ~creatingQ.locked
    /\ creatingQ' = [entry |-> [creatingQ.entry EXCEPT ![call[c].vol] = "operating"],
                     locked |-> TRUE]
    /\ call' = [call EXCEPT ![c].pc = "scan", ![c].slot = 1]
    /\ UNCHANGED <<deletingQ, creatingNames, pendingIPs, stores>>

(* convertSharedRequest: the request is too big for any shared instance, or *)
(* the PVs of the next slot are summed up.                                  *)
Scan(c) ==
    LET found == PVsInSlot(call[c].slot) IN
    /\ At(c, "scan")
    /\ UNCHANGED stores
    /\ \/ /\ ReqCap[call[c].vol] > SharedCapBytes
          /\ CreateError(c)
       \/ /\ ReqCap[call[c].vol] <= SharedCapBytes
          /\ CtxWorks(c)
          /\ call' = [call EXCEPT ![c].counted = found,
                                  ![c].pc = IF TotalCap(found) = 0 THEN "listNas"
                                            ELSE "pvName"]
          /\ UNCHANGED ctrlVars

(* The search ends with instance n for the volume.                          *)
Place(c, n) ==
    call' = [call EXCEPT ![c].pc = "hold", ![c].name = n, ![c].slot = 0,
                         ![c].counted = {}]

(* getSharedNameFromExistingNas: an instance of the slot that is not being  *)
(* deleted, or else a new name.                                             *)
SlotInstances(i) == {n \in SharedNames : /\ n[1] = i
                                         /\ nas[n].status \notin {"absent", "deleting"}}

(* Mutant of ListNas: a slot that has an instance without PVs is taken.     *)
ListNasSkipsTaken(c) ==
    LET i == call[c].slot IN
    /\ At(c, "listNas")
    /\ CtxWorks(c)
    /\ \/ /\ SlotInstances(i) # {}
          /\ call' = [call EXCEPT ![c].pc = "scan", ![c].slot = i + 1]
       \/ /\ SlotInstances(i) = {}
          /\ \E n \in SharedNames : n[1] = i /\ ~InUse(n) /\ Place(c, n)
    /\ UNCHANGED <<ctrlVars, stores>>

ListNas(c) ==
    LET i == call[c].slot IN
    /\ At(c, "listNas")
    /\ CtxWorks(c)
    /\ \E n \in SharedNames :
          /\ \/ n \in SlotInstances(i)
             \/ SlotInstances(i) = {} /\ n[1] = i /\ ~InUse(n)
          /\ Place(c, n)
    /\ UNCHANGED <<ctrlVars, stores>>

(* getSharedNameFromExistingPv: the PVs are listed a second time.           *)
PvName(c) ==
    LET i == call[c].slot IN
    /\ At(c, "pvName")
    /\ CtxWorks(c)
    /\ UNCHANGED stores
    /\ \/ PVsInSlot(i) = {} /\ CreateError(c)
       \/ /\ \E v \in PVsInSlot(i) :
                call' = [call EXCEPT ![c].name = pv[v], ![c].pc = "fit"]
          /\ UNCHANGED ctrlVars

(* Mutant of Fit: the PVs already there are not subtracted from the         *)
(* capacity.                                                                *)
FitIgnoringPVs(c) ==
    /\ At(c, "fit")
    /\ CtxWorks(c)
    /\ nas[call[c].name].status # "absent"
    /\ ReqCap[call[c].vol] <= InstanceCapBytes
    /\ Place(c, call[c].name)
    /\ UNCHANGED <<ctrlVars, stores>>

(* The instance is fetched; the volume is placed there when the capacity    *)
(* left by the PVs suffices, and the next slot is tried when it does not.   *)
Fit(c) ==
    LET fits == ReqCap[call[c].vol] + TotalCap(call[c].counted) <= InstanceCapBytes
    IN
    /\ At(c, "fit")
    /\ CtxWorks(c)
    /\ UNCHANGED stores
    /\ \/ /\ \/ nas[call[c].name].status = "absent"
             \/ ~fits /\ call[c].slot = Slots
          /\ CreateError(c)
       \/ /\ nas[call[c].name].status # "absent"
          /\ \/ fits /\ Place(c, call[c].name)
             \/ /\ ~fits /\ call[c].slot < Slots
                /\ call' = [call EXCEPT ![c].pc = "scan", ![c].slot = @ + 1,
                                        ![c].name = None, ![c].counted = {}]
          /\ UNCHANGED ctrlVars

(* Mutant of SetCreating: a name that is held is not refused.               *)
SetCreatingUnchecked(c) ==
    LET n == call[c].name IN
    /\ At(c, "hold")
    /\ creatingNames' = creatingNames \cup {n}
    /\ call' = [call EXCEPT ![c].held = n, ![c].pc = "get"]
    /\ UNCHANGED <<creatingQ, deletingQ, pendingIPs, stores>>

(* nasNameHolder.SetCreating                                                *)
SetCreating(c) ==
    LET n == call[c].name IN
    /\ At(c, "hold")
    /\ UNCHANGED stores
    /\ \/ n \in creatingNames /\ CreateError(c)
       \/ /\ n \notin creatingNames
          /\ creatingNames' = creatingNames \cup {n}
          /\ call' = [call EXCEPT ![c].held = n, ![c].pc = "get"]
          /\ UNCHANGED <<creatingQ, deletingQ, pendingIPs>>

(* Mutant of GetInstance: a shared instance that is up has its source path. *)
GetInstanceSkipsPath(c) ==
    LET v == call[c].vol
        n == nas[call[c].name] IN
    /\ At(c, "get")
    /\ CtxWorks(c)
    /\ \/ n.status = "absent" /\ Goto(c, "create")
       \/ n.status \in {"creating", "modifying"} /\ Goto(c, "waitCreated")
       \/ /\ n.status = "available"
          /\ Goto(c, IF n.noRootSquash THEN AfterPath(v) ELSE "modify")
    /\ UNCHANGED <<ctrlVars, stores>>

(* GetNasInstance: is the instance there already?                           *)
GetInstance(c) ==
    LET v == call[c].vol
        n == nas[call[c].name] IN
    /\ At(c, "get")
    /\ CtxWorks(c)
    /\ UNCHANGED stores
    /\ \/ n.status = "deleting" /\ CreateError(c)
       \/ /\ \/ /\ n.status = "absent"
                /\ Goto(c, IF PrivateLan THEN "listIPs" ELSE "create")
             \/ /\ n.status \in {"creating", "modifying"}
                /\ Goto(c, "waitCreated")
             \/ /\ n.status = "available"
                /\ Goto(c, IF n.noRootSquash THEN AfterReady(v) ELSE "modify")
          /\ UNCHANGED ctrlVars

(* reserveIP: the addresses of the instances are listed first, and an       *)
(* address is picked later, under the allocator's mutex.                    *)
ListIPs(c) ==
    /\ At(c, "listIPs")
    /\ CtxWorks(c)
    /\ call' = [call EXCEPT ![c].seenIPs = {nas[n].ip : n \in Names} \ {None},
                            ![c].pc = "pickIP"]
    /\ UNCHANGED <<ctrlVars, stores>>

(* Mutant of GetUnreservedIP: pending addresses are not excluded.           *)
GetListedFreeIP(c) ==
    LET free == Cidr[call[c].vol] \ call[c].seenIPs IN
    /\ At(c, "pickIP")
    /\ \E ip \in free :
          /\ \A other \in free : ip <= other
          /\ pendingIPs' = pendingIPs \cup {ip}
          /\ call' = [call EXCEPT ![c].ip = ip, ![c].seenIPs = {},
                                  ![c].pc = "create"]
    /\ UNCHANGED <<creatingQ, deletingQ, creatingNames, stores>>

(* GetUnreservedIP: the first address of the range that is neither in the   *)
(* list nor pending.                                                        *)
GetUnreservedIP(c) ==
    LET free == Cidr[call[c].vol] \ (call[c].seenIPs \cup pendingIPs) IN
    /\ At(c, "pickIP")
    /\ UNCHANGED stores
    /\ \/ free = {} /\ CreateError(c)
       \/ \E ip \in free :
             /\ \A other \in free : ip <= other
             /\ pendingIPs' = pendingIPs \cup {ip}
             /\ call' = [call EXCEPT ![c].ip = ip, ![c].seenIPs = {},
                                     ![c].pc = "create"]
             /\ UNCHANGED <<creatingQ, deletingQ, creatingNames>>

(* CreateNasInstance.  The cloud may start to create the instance although  *)
(* the call returns an error.                                               *)
CreateInstance(c) ==
    LET n == call[c].name IN
    /\ At(c, "create")
    /\ CtxWorks(c)
    /\ nas[n].status = "absent"
    /\ nas' = [nas EXCEPT ![n] = [NoInstance EXCEPT !.status = "creating",
                                                    !.ip = call[c].ip]]
    /\ UNCHANGED <<job, pvVars>>
    /\ \/ Goto(c, "waitCreated") /\ UNCHANGED ctrlVars
       \/ CtxFails(c) /\ CreateError(c)

(* waitForNASInstanceAvailable ends when the instance is available or in    *)
(* none of the states that lead there.                                      *)
WaitAvailable(c) ==
    LET status == nas[call[c].name].status IN
    /\ At(c, "waitCreated") \/ At(c, "waitModified")
    /\ UNCHANGED stores
    /\ \/ status \in {"absent", "deleting"} /\ CreateError(c)
       \/ /\ status = "available"
          /\ Goto(c, IF At(c, "waitCreated") THEN "refetch" ELSE "refetched")
          /\ UNCHANGED ctrlVars

(* Mutant of Refetch: root squash is not looked at after the first wait.    *)
RefetchUnchecked(c) ==
    /\ At(c, "refetch") \/ At(c, "refetched")
    /\ nas[call[c].name].status # "absent"
    /\ Goto(c, AfterReady(call[c].vol))
    /\ UNCHANGED <<ctrlVars, stores>>

(* The instance is fetched again after each wait; root squash is checked in *)
(* what was fetched, and switched off once.                                 *)
Refetch(c) ==
    LET v == call[c].vol
        n == nas[call[c].name] IN
    /\ At(c, "refetch") \/ At(c, "refetched")
    /\ UNCHANGED stores
    /\ \/ n.status = "absent" /\ CreateError(c)
       \/ /\ n.status # "absent"
          /\ Goto(c, IF At(c, "refetch") /\ ~n.noRootSquash
                     THEN "modify" ELSE AfterReady(v))
          /\ UNCHANGED ctrlVars

ModifyInstance(c) ==
    LET n == call[c].name IN
    /\ At(c, "modify")
    /\ UNCHANGED <<job, pvVars>>
    /\ \/ /\ nas[n].status # "available"
          /\ CreateError(c)
          /\ UNCHANGED nas
       \/ /\ nas[n].status = "available"
          /\ nas' = [nas EXCEPT ![n].status = "modifying", ![n].noRootSquash = TRUE]
          /\ Goto(c, "waitModified")
          /\ UNCHANGED ctrlVars

RestoreSnapshot(c) ==
    /\ At(c, "restore")
    /\ CtxWorks(c)
    /\ Goto(c, "reply")
    /\ UNCHANGED <<ctrlVars, stores>>

(* Mutant of CreateOK: the queue's entry goes when the handler returns, not *)
(* when the PV has been seen.                                               *)
CreateOKUnsetsQueue(c) ==
    /\ At(c, "reply")
    /\ call' = [call EXCEPT ![c].pc = "done", ![c].ip = None, ![c].held = None]
    /\ ReleaseHeld(c)
    /\ creatingQ' = UnsetQueue(creatingQ, call[c].vol)
    /\ UNCHANGED <<deletingQ, stores>>

(* CreateVolume returns the volume.  The queue's entry stays.               *)
CreateOK(c) ==
    /\ At(c, "reply")
    /\ call' = [call EXCEPT ![c].pc = "done", ![c].ip = None, ![c].held = None]
    /\ ReleaseHeld(c)
    /\ UNCHANGED <<creatingQ, deletingQ, stores>>

-----------------------------------------------------------------------------
(* doNfsJob: mkdir, chmod and rm on an instance run as a Kubernetes job     *)
(* named after the instance.                                                *)

Command(c) == IF call[c].op = "delete" THEN "rm"
              ELSE IF call[c].vol \in Shared THEN "mkdir" ELSE "chmod"

JobOf(c) == [state |-> "running", cmd |-> Command(c), vol |-> call[c].vol,
             terminating |-> FALSE]

(* Delete with foreground propagation only marks the job; it goes later.    *)
Terminate(n) ==
    job' = IF job[n].state = "absent" THEN job
           ELSE [job EXCEPT ![n].terminating = TRUE]

(* The job is created; one that is there already is deleted first, and the  *)
(* second attempt is the last.                                              *)
CreateJob(c) ==
    LET n == call[c].name IN
    /\ At(c, "job")
    /\ CtxWorks(c)
    /\ UNCHANGED <<ctrlVars, nas, pvVars>>
    /\ \/ /\ job[n].state = "absent"
          /\ job' = [job EXCEPT ![n] = JobOf(c)]
          /\ Goto(c, "poll")
       \/ /\ job[n].state # "absent"
          /\ Terminate(n)
          /\ Goto(c, "rejob")

RecreateJob(c) ==
    LET n == call[c].name IN
    /\ At(c, "rejob")
    /\ CtxWorks(c)
    /\ UNCHANGED <<nas, pvVars>>
    /\ \/ /\ job[n].state = "absent"
          /\ job' = [job EXCEPT ![n] = JobOf(c)]
          /\ Goto(c, "poll")
          /\ UNCHANGED ctrlVars
       \/ /\ job[n].state # "absent"
          /\ Error(c)
          /\ UNCHANGED job

(* The pod of a job can mount an instance that is up.  The 30 s of the poll *)
(* may run out on a job that cannot run, or is slow, or has taken the place *)
(* of the handler's own.                                                    *)
Reachable(n) == nas[n].status \in {"available", "modifying"}
PollExpires(c) ==
    CloudErrors \/ ~Reachable(call[c].name) \/ job[call[c].name] # JobOf(c)

(* The job of that name is polled until it has ended, is gone, or 30 s have *)
(* passed; the deferred Delete follows.                                     *)
PollJob(c) ==
    LET n == call[c].name IN
    /\ At(c, "poll")
    /\ CtxWorks(c)
    /\ Terminate(n)
    /\ UNCHANGED <<nas, pvVars>>
    /\ \/ /\ job[n].state = "done"
          /\ Goto(c, IF call[c].op = "create" THEN AfterPath(call[c].vol)
                     ELSE "delCheck")
          /\ UNCHANGED ctrlVars
       \/ /\ \/ job[n].state \in {"absent", "failed"}
             \/ job[n].state \in {"running", "hung"} /\ PollExpires(c)
          /\ Error(c)

-----------------------------------------------------------------------------
(* DeleteVolume.                                                            *)

(* The PVC of a bound volume is deleted and the provisioner calls           *)
(* DeleteVolume, again and again until it succeeds.                         *)
DeleteVolume(c, v) ==
    /\ At(c, "idle")
    /\ pv[v] # None
    /\ NotWaitedFor(v)
    /\ call' = [call EXCEPT ![c] =
                  [Idle EXCEPT !.op = "delete", !.vol = v, !.awaited = TRUE,
                               !.pc = "delGet", !.name = pv[v]]]
    /\ released' = released \cup {v}
    /\ UNCHANGED <<ctrlVars, nas, job, pv, added, deleted>>

(* GetNasInstanceFromVolumeID: an error, whatever it is, means that there   *)
(* is nothing to delete.                                                    *)
DelGet(c) ==
    /\ At(c, "delGet")
    /\ \/ /\ CtxFails(c) \/ nas[call[c].name].status = "absent"
          /\ Goto(c, "done")
       \/ /\ CtxWorks(c)
          /\ nas[call[c].name].status # "absent"
          /\ Goto(c, IF call[c].vol \in Shared THEN "delQueue" ELSE "delNas")
    /\ UNCHANGED <<ctrlVars, stores>>

(* deletingPvsQueue.Queue(sourcePath)                                       *)
QueueDelete(c) ==
    LET v == call[c].vol IN
    /\ At(c, "delQueue")
    /\ UNCHANGED stores
    /\ \/ /\ deletingQ.entry[v] # "none"
          /\ DeleteError(c)
       \/ /\ deletingQ.entry[v] = "none"
          /\ deletingQ' = [deletingQ EXCEPT !.entry[v] = "pending"]
          /\ Goto(c, "delLock")
          /\ UNCHANGED <<creatingQ, creatingNames, pendingIPs>>

(* Mutant of LockDelete: deletions do not wait for one another.             *)
LockDeleteAtOnce(c) ==
    /\ At(c, "delLock")
    /\ deletingQ' = [entry |-> [deletingQ.entry EXCEPT ![call[c].vol] = "operating"],
                     locked |-> TRUE]
    /\ Goto(c, "job")
    /\ UNCHANGED <<creatingQ, creatingNames, pendingIPs, stores>>

LockDelete(c) ==
    /\ At(c, "delLock")
    /\ ~deletingQ.locked
    /\ deletingQ' = [entry |-> [deletingQ.entry EXCEPT ![call[c].vol] = "operating"],
                     locked |-> TRUE]
    /\ Goto(c, "job")
    /\ UNCHANGED <<creatingQ, creatingNames, pendingIPs, stores>>

(* Mutant of DelCheck: the volume's own PV counts as another one.           *)
DelCheckCountsItself(c) ==
    /\ At(c, "delCheck")
    /\ CtxWorks(c)
    /\ Goto(c, IF \E v \in Volumes : pv[v] = call[c].name THEN "done" ELSE "delNas")
    /\ UNCHANGED <<ctrlVars, stores>>

(* noOtherPvsInSharedNas: the instance goes with its last PV.               *)
DelCheck(c) ==
    LET here == {v \in Volumes : pv[v] = call[c].name} IN
    /\ At(c, "delCheck")
    /\ CtxWorks(c)
    /\ UNCHANGED stores
    /\ \/ here = {} /\ DeleteError(c)
       \/ /\ here # {}
          /\ Goto(c, IF here \subseteq {call[c].vol} THEN "delNas" ELSE "done")
          /\ UNCHANGED ctrlVars

(* DeleteNasInstance.  It may be carried out although it returns an error.  *)
DeleteInstance(c) ==
    LET n == call[c].name IN
    /\ At(c, "delNas")
    /\ CtxWorks(c)
    /\ UNCHANGED <<job, pvVars>>
    /\ \/ /\ nas[n].status \in {"absent", "deleting"}
          /\ DeleteError(c)
          /\ UNCHANGED nas
       \/ /\ nas[n].status \notin {"absent", "deleting"}
          /\ nas' = [nas EXCEPT ![n].status = "deleting"]
          /\ \/ Goto(c, "done") /\ UNCHANGED ctrlVars
             \/ CtxFails(c) /\ DeleteError(c)

-----------------------------------------------------------------------------
(* Failures of the calls a handler makes.                                   *)

CtxPCs  == {"scan", "listNas", "pvName", "fit", "get", "listIPs", "create",
            "restore", "delCheck", "delNas"} \cup JobPCs
TodoPCs == {"waitCreated", "refetch", "modify", "waitModified", "refetched"}

(* A call to the cloud or to Kubernetes fails, or the wait for an instance  *)
(* takes more than 30 minutes: the handler returns an error.                *)
ApiError(c) ==
    /\ \/ call[c].pc \in CtxPCs /\ CtxFails(c)
       \/ call[c].pc \in TodoPCs /\ TodoFails
    /\ Error(c)
    /\ UNCHANGED stores

-----------------------------------------------------------------------------
(* The informer's callbacks.                                                *)

PvAdded(v) ==
    /\ v \in added
    /\ added' = added \ {v}
    /\ creatingQ' = UnsetQueue(creatingQ, v)
    /\ UNCHANGED <<call, deletingQ, creatingNames, pendingIPs, nas, job, pv,
                   released, deleted>>

PvDeleted(v) ==
    /\ v \in deleted
    /\ deleted' = deleted \ {v}
    /\ deletingQ' = UnsetQueue(deletingQ, v)
    /\ UNCHANGED <<call, creatingQ, creatingNames, pendingIPs, nas, job, pv,
                   released, added>>

(* The controller restarts: newControllerServer starts from empty state and *)
(* its informer reports every PV as added.  A reply already sent survives.  *)
Restart ==
    /\ Restarts
    /\ call' = [c \in Calls |-> IF At(c, "done") THEN call[c] ELSE Idle]
    /\ creatingQ' = EmptyQueue /\ deletingQ' = EmptyQueue
    /\ creatingNames' = {} /\ pendingIPs' = {}
    /\ added' = {v \in Volumes : pv[v] # None} /\ deleted' = {}
    /\ UNCHANGED <<nas, job, pv, released>>

-----------------------------------------------------------------------------
(* The external provisioner, the cloud and the job controller: code outside *)
(* this repository, as far as the driver depends on it.                     *)

(* A reply arrives: the PV is created, or it is deleted.                    *)
ProvisionerBinds(c) ==
    LET v == call[c].vol IN
    /\ At(c, "done") /\ call[c].op = "create" /\ call[c].awaited
    /\ pv' = [pv EXCEPT ![v] = call[c].name]
    /\ added' = added \cup {v}
    /\ Return(c)
    /\ UNCHANGED <<ctrlVars, nas, job, released, deleted>>

ProvisionerUnbinds(c) ==
    LET v == call[c].vol IN
    /\ At(c, "done") /\ call[c].op = "delete" /\ call[c].awaited
    /\ pv' = [pv EXCEPT ![v] = None]
    /\ deleted' = deleted \cup {v}
    /\ Return(c)
    /\ UNCHANGED <<ctrlVars, nas, job, released, added>>

(* The provisioner's 30 minutes are over, or it restarts: the context of    *)
(* the call is cancelled and its reply, if any, is lost.                    *)
StopWaiting(c) ==
    /\ Timeouts
    /\ call[c].awaited
    /\ call' = [call EXCEPT ![c].awaited = FALSE]
    /\ UNCHANGED <<ctrlVars, stores>>

LostReply(c) ==
    /\ At(c, "done") /\ ~call[c].awaited
    /\ Return(c)
    /\ UNCHANGED <<ctrlVars, stores>>

(* An instance becomes available or is gone; a pod that still waits for its *)
(* mount then waits forever.                                                *)
CloudSettles(n) ==
    /\ \/ /\ nas[n].status \in {"creating", "modifying"}
          /\ nas' = [nas EXCEPT ![n].status = "available"]
          /\ UNCHANGED job
       \/ /\ nas[n].status = "deleting"
          /\ nas' = [nas EXCEPT ![n] = NoInstance]
          /\ job' = [job EXCEPT ![n].state = IF @ = "running" THEN "hung" ELSE @]
    /\ UNCHANGED <<call, ctrlVars, pvVars>>

(* The pod of a job runs its command; plain mkdir fails on an existing      *)
(* directory.                                                               *)
JobRuns(n) ==
    LET v == job[n].vol
        dirs == nas[n].dirs
        Ends(state, after) ==
            /\ job' = [job EXCEPT ![n].state = state]
            /\ nas' = [nas EXCEPT ![n].dirs = after]
    IN
    /\ job[n].state = "running"
    /\ Reachable(n)
    /\ \/ job[n].cmd = "mkdir" /\ v \notin dirs /\ Ends("done", dirs \cup {v})
       \/ job[n].cmd = "mkdir" /\ v \in dirs /\ Ends("failed", dirs)
       \/ job[n].cmd = "rm" /\ Ends("done", dirs \ {v})
       \/ job[n].cmd = "chmod" /\ Ends("done", dirs)
    /\ UNCHANGED <<call, ctrlVars, pvVars>>

JobVanishes(n) ==
    /\ job[n].terminating
    /\ job' = [job EXCEPT ![n] = NoJob]
    /\ UNCHANGED <<call, ctrlVars, nas, pvVars>>

-----------------------------------------------------------------------------

(* What a running handler does by itself, apart from waiting for a mutex.   *)
Step(c) ==
    \/ QueueCreate(c) \/ Scan(c) \/ ListNas(c) \/ PvName(c) \/ Fit(c)
    \/ SetCreating(c) \/ GetInstance(c) \/ ListIPs(c) \/ GetUnreservedIP(c)
    \/ CreateInstance(c) \/ WaitAvailable(c) \/ Refetch(c) \/ ModifyInstance(c)
    \/ RestoreSnapshot(c) \/ CreateOK(c)
    \/ CreateJob(c) \/ RecreateJob(c) \/ PollJob(c)
    \/ DelGet(c) \/ QueueDelete(c) \/ DelCheck(c) \/ DeleteInstance(c)
    \/ ApiError(c)

Reply(c) == ProvisionerBinds(c) \/ ProvisionerUnbinds(c) \/ LostReply(c)

Next ==
    \/ \E c \in Calls, v \in Volumes : CreateVolume(c, v) \/ DeleteVolume(c, v)
    \/ \E c \in Calls :
          Step(c) \/ LockCreate(c) \/ LockDelete(c) \/ Reply(c) \/ StopWaiting(c)
    \/ \E v \in Volumes : PvAdded(v) \/ PvDeleted(v)
    \/ \E n \in Names : CloudSettles(n) \/ JobRuns(n) \/ JobVanishes(n)
    \/ Restart

Spec == Init /\ [][Next]_vars

(* Goroutines run, a Go mutex does not starve a waiter, replies and informer *)
(* events arrive, and the cloud and the job controller finish what they      *)
(* have begun.                                                               *)
Fairness ==
    /\ \A c \in Calls : /\ WF_vars(Step(c)) /\ WF_vars(Reply(c))
                        /\ SF_vars(LockCreate(c)) /\ SF_vars(LockDelete(c))
    /\ \A v \in Volumes : WF_vars(PvAdded(v)) /\ WF_vars(PvDeleted(v))
    /\ \A n \in Names : /\ WF_vars(CloudSettles(n)) /\ WF_vars(JobRuns(n))
                        /\ WF_vars(JobVanishes(n))

FairSpec == Spec /\ Fairness

(* In addition the provisioner keeps calling CreateVolume for an open claim. *)
RetryingSpec ==
    FairSpec /\ \A v \in Volumes : WF_vars(\E c \in Calls : CreateVolume(c, v))

-----------------------------------------------------------------------------
(* Safety.                                                                  *)

HoldingPCs == {"get", "listIPs", "pickIP", "create", "waitCreated", "refetch",
               "modify", "waitModified", "refetched", "restore", "reply"} \cup JobPCs

Holding(c) == call[c].op = "create" /\ call[c].pc \in HoldingPCs

(* No two CreateVolume handlers work on the same instance at the same time: *)
(* the name holder admits one, and no other handler's error path lets a     *)
(* second one in.                                                           *)
NamesExclusive ==
    \A c, d \in Calls :
        c # d /\ Holding(c) /\ Holding(d) => call[c].name # call[d].name

(* "Avoid multiple CreateNasInstance requests for same NASInstanceIdentifier": *)
(* what the handler saw in GetNasInstance still holds when, several calls   *)
(* later, it asks for the instance to be created.                           *)
NoDuplicateCreate ==
    \A c \in Calls : call[c].pc \in {"listIPs", "pickIP", "create"}
                       => nas[call[c].name].status = "absent"

(* No two handlers hold the same address, and a held address stays pending  *)
(* until its own handler returns.                                           *)
PendingIPsExclusive ==
    /\ \A c \in Calls : call[c].ip # None => call[c].ip \in pendingIPs
    /\ \A c, d \in Calls :
          c # d /\ call[c].ip # None => call[c].ip # call[d].ip

(* The mutex of a queue is locked exactly while one entry is operating, so  *)
(* that UnsetQueue never unlocks an unlocked mutex (a fatal error in Go)    *)
(* and never leaves it locked with nobody to unlock it.                     *)
MutexMatches(q) ==
    /\ q.locked <=> \E v \in Volumes : q.entry[v] = "operating"
    /\ \A v, w \in Volumes :
          q.entry[v] = "operating" /\ q.entry[w] = "operating" => v = w

QueuesConsistent == MutexMatches(creatingQ) /\ MutexMatches(deletingQ)

(* The two queues, seen as the abstract queue of ResourceQueue.             *)
Waiting(q) == {v \in Volumes : q.entry[v] = "pending"}

Operating(q) ==
    LET operators == {v \in Volumes : q.entry[v] = "operating"} IN
    IF operators = {} THEN None ELSE CHOOSE v \in Volumes : q.entry[v] = "operating"

CreatingQueue == INSTANCE ResourceQueue
    WITH Resources <- Volumes, waiting <- Waiting(creatingQ),
         operating <- Operating(creatingQ)

DeletingQueue == INSTANCE ResourceQueue
    WITH Resources <- Volumes, waiting <- Waiting(deletingQ),
         operating <- Operating(deletingQ)

(* Map and mutex together implement the queue: whatever requests are        *)
(* repeated, fail, time out or lose their entry to another request's        *)
(* deferred UnsetQueue, a volume operates only after it has waited, never   *)
(* beside another one, and no waiting volume is forgotten.                  *)
QueuesImplemented == CreatingQueue!Spec /\ DeletingQueue!Spec

(* A handler that has passed the root squash check works on an instance     *)
(* that lets root write, or on one that has been deleted meanwhile: neither *)
(* a wait, a retry nor a restart in between puts another one in its place.  *)
ReadyPCs == {"restore", "reply"} \cup JobPCs

ReadyWithoutRootSquash ==
    \A c \in Calls :
        call[c].op = "create" /\ call[c].pc \in ReadyPCs
            => \/ nas[call[c].name].noRootSquash
               \/ nas[call[c].name].status = "absent"

(* One shared volume is placed at a time, from the moment its handler has   *)
(* the mutex until the informer has reported its PV.                        *)
Placing(v) ==
    \/ \E c \in Calls : /\ call[c].vol = v /\ call[c].op = "create"
                        /\ call[c].pc \notin {"queue", "lock"}
    \/ v \in added

SharedCreatesSerialized ==
    \A v, w \in Shared : Placing(v) /\ Placing(w) => v = w

(* "Create another shared NASInstance when requested resource sum of PVCs   *)
(* exceeds its capacity": the PVs on a shared instance fit in it.           *)
SharedCapacityRespected ==
    \A n \in SharedNames :
        TotalCap({v \in Shared : pv[v] = n}) <= InstanceCapBytes

(* "Delete shared NASInstance when all PVCs deleted": not before ...        *)
BoundInstanceKept ==
    \A v \in Volumes :
        pv[v] # None /\ v \notin released
            => nas[pv[v]].status \notin {"absent", "deleting"}

(* ... but then it goes: the PV that leaves an instance without PVs leaves  *)
(* it deleted, unless there is an open claim whose CreateVolume may have    *)
(* ordered it anew.                                                         *)
Occupied(n) == \E v \in Volumes : pv[v] = n

InstanceGoesWithLastPV ==
    [][\A n \in Names :
          Occupied(n) /\ ~Occupied(n)'
              => \/ nas'[n].status \in {"absent", "deleting"}
                 \/ \E v \in Volumes : pv[v] = None /\ v \notin released]_vars

(* When every PVC is deleted there is no instance left, not even one that a *)
(* failed CreateVolume had ordered.                                         *)
NoInstanceLeaked ==
    (\A v \in Volumes : v \in released /\ pv[v] = None)
        => \A n \in Names : nas[n].status \in {"absent", "deleting"}

(* A bound shared volume has its source path.                               *)
BoundHasSourcePath ==
    \A v \in Shared :
        pv[v] # None /\ v \notin released => v \in nas[pv[v]].dirs

(* The address picked for a new instance is not that of another instance.   *)
PickedIPUnused ==
    \A c \in Calls : At(c, "create") /\ call[c].ip # None
                       => \A n \in Names : nas[n].ip # call[c].ip

-----------------------------------------------------------------------------
(* Liveness.                                                                *)

(* Every call returns.                                                      *)
CallsReturn == \A c \in Calls : ~At(c, "idle") ~> At(c, "idle")

(* Every claim is bound in the end.                                         *)
ClaimsBound ==
    \A v \in Volumes : pv[v] = None /\ v \notin released ~> pv[v] # None

=============================================================================
