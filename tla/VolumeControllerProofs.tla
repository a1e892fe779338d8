----------------------- MODULE VolumeControllerProofs -----------------------
(***************************************************************************)
(* The safety of the volume controller, for any number of volumes, slots,  *)
(* goroutines and addresses, and under every fault.  Each part of the      *)
(* inductive invariant IInv has a lemma per group of actions that can      *)
(* disturb it; the theorems are at the end.                                *)
(***************************************************************************)
EXTENDS VolumeControllerInv, TLAPS

USE ConstantsAssumption DEF ctrlVars, pvVars, stores, vars

-----------------------------------------------------------------------------
(* Types.  Each lemma is about one action, or about a group of actions that *)
(* change the same variables; updates of a handler's record are typed on    *)
(* the record first and then lifted to the function call.                   *)

(* Every point of the code of a handler is one of PCs.                      *)
LEMMA PCsAll ==
  /\ CreatePCs \subseteq PCs /\ JobPCs \subseteq PCs /\ DeletePCs \subseteq PCs
  /\ "idle" \in PCs /\ "done" \in PCs
  BY DEF PCs

(* The search starts in slot 1 and a search that has ended is in slot 0.    *)
LEMMA SlotsType == 0 \in 0..Slots /\ 1 \in 0..Slots
  OBVIOUS

(* The record of a goroutine that serves no request.                        *)
LEMMA IdleType == Idle \in Call
  BY DEF Idle, Call, PCs

(* UnsetQueue returns a queue.                                              *)
LEMMA UnsetQueueType ==
  ASSUME NEW q \in Queue, NEW v
  PROVE  UnsetQueue(q, v) \in Queue
  BY DEF UnsetQueue, Queue

(* Returning from a handler keeps the type of call.                         *)
LEMMA ReturnType ==
  ASSUME TypeOK, NEW c \in Calls, Return(c)
  PROVE  call' \in [Calls -> Call]
  BY IdleType DEF TypeOK, Return

(* Moving a handler to another point of its code keeps the type of call.    *)
LEMMA GotoType ==
  ASSUME TypeOK, NEW c \in Calls, NEW p \in PCs, Goto(c, p)
  PROVE  call' \in [Calls -> Call]
  BY DEF TypeOK, Goto, Call

(* An error return with its deferred calls keeps the types of the shared    *)
(* state.                                                                   *)
LEMMA ErrorType ==
  ASSUME TypeOK, NEW c \in Calls, CreateError(c) \/ DeleteError(c)
  PROVE  /\ call' \in [Calls -> Call]
         /\ creatingQ' \in Queue /\ deletingQ' \in Queue
         /\ creatingNames' \subseteq Names /\ pendingIPs' \subseteq IPs
  BY ReturnType, UnsetQueueType DEF TypeOK, CreateError, DeleteError, ReleaseHeld

(* Deleting a job keeps the type of job.                                    *)
LEMMA TerminateType ==
  ASSUME TypeOK, NEW n, Terminate(n)
  PROVE  job' \in [Names -> Job]
  <1>1. \A j \in Job : [j EXCEPT !.terminating = TRUE] \in Job
    BY DEF Job
  <1> QED
    BY <1>1 DEF TypeOK, Terminate

(* The job a handler creates is a job.                                      *)
LEMMA JobOfType ==
  ASSUME TypeOK, NEW c \in Calls
  PROVE  JobOf(c) \in Job
  BY DEF TypeOK, JobOf, Job, Command, Call

(* Where CreateVolume goes once the instance, or its path, is ready.        *)
LEMMA AfterType ==
  ASSUME NEW v
  PROVE  /\ AfterPath(v) \in {"restore", "reply"}
         /\ AfterReady(v) \in {"job", "restore", "reply"}
  BY DEF AfterPath, AfterReady

USE DEF At

(* A CreateVolume request begins.                                           *)
LEMMA CreateVolumeType ==
  ASSUME TypeOK, NEW c \in Calls, NEW v \in Volumes, CreateVolume(c, v)
  PROVE  TypeOK'
  <1> DEFINE new(p, n) == [Idle EXCEPT !.op = "create", !.vol = v, !.awaited = TRUE,
                                       !.pc = p, !.name = n]
  <1>1. \A r \in Call : \A p \in PCs, n \in Names \cup {None} :
           [r EXCEPT !.op = "create", !.vol = v, !.awaited = TRUE,
                                       !.pc = p, !.name = n] \in Call
    BY DEF Call
  <1>2. \A p \in PCs, n \in Names \cup {None} : new(p, n) \in Call
    BY <1>1, IdleType
  <1>3. new("queue", None) \in Call
    BY <1>2, PCsAll DEF CreatePCs
  <1>4. v \notin Shared => new("hold", v) \in Call
    BY <1>2, PCsAll DEF CreatePCs, Names, Dedicated
  <1>5. call' \in [Calls -> Call]
    BY <1>3, <1>4 DEF TypeOK, CreateVolume
  <1> QED
    BY <1>5 DEF TypeOK, CreateVolume

(* creatingPvsQueue.Queue up to its mutex.                                  *)
LEMMA QueueCreateType ==
  ASSUME TypeOK, NEW c \in Calls, QueueCreate(c)
  PROVE  TypeOK'
  <1>1. CASE CreateError(c)
    BY <1>1, ErrorType DEF TypeOK, QueueCreate
  <1>2. CASE /\ creatingQ' = [creatingQ EXCEPT !.entry[call[c].vol] = "pending"]
             /\ Goto(c, "lock")
             /\ UNCHANGED <<deletingQ, creatingNames, pendingIPs>>
    <2>1. creatingQ' \in Queue
      BY <1>2 DEF TypeOK, Queue
    <2>2. call' \in [Calls -> Call]
      BY <1>2, GotoType, PCsAll DEF CreatePCs
    <2> QED BY <1>2, <2>1, <2>2 DEF TypeOK, QueueCreate
  <1> QED BY <1>1, <1>2 DEF QueueCreate

(* creatingPvsQueue.Queue gets its mutex.                                   *)
LEMMA LockCreateType ==
  ASSUME TypeOK, NEW c \in Calls, LockCreate(c)
  PROVE  TypeOK'
  <1>1. creatingQ' \in Queue
    BY DEF TypeOK, LockCreate, Queue
  <1>2. \A r \in Call : [r EXCEPT !.pc = "scan", !.slot = 1] \in Call
    BY PCsAll, SlotsType DEF CreatePCs, Call
  <1>3. call' = [call EXCEPT ![c] = [call[c] EXCEPT !.pc = "scan", !.slot = 1]]
    BY DEF TypeOK, LockCreate
  <1>4. call' \in [Calls -> Call]
    BY <1>2, <1>3 DEF TypeOK
  <1> QED BY <1>1, <1>4 DEF TypeOK, LockCreate

(* convertSharedRequest sums up the PVs of a slot.                          *)
LEMMA ScanType ==
  ASSUME TypeOK, NEW c \in Calls, Scan(c)
  PROVE  TypeOK'
  <1>1. CASE CreateError(c)
    BY <1>1, ErrorType DEF TypeOK, Scan
  <1>2. ASSUME NEW p \in {"listNas", "pvName"}, NEW S \in SUBSET Shared,
               call' = [call EXCEPT ![c].counted = S, ![c].pc = p],
               UNCHANGED ctrlVars
        PROVE  TypeOK'
    <2>1. \A r \in Call : [r EXCEPT !.counted = S, !.pc = p] \in Call
      BY PCsAll DEF CreatePCs, Call
    <2>2. call' = [call EXCEPT ![c] = [call[c] EXCEPT !.counted = S, !.pc = p]]
      BY <1>2 DEF TypeOK
    <2>3. call' \in [Calls -> Call]
      BY <2>1, <2>2 DEF TypeOK
    <2> QED BY <1>2, <2>3 DEF TypeOK, Scan
  <1>3. PVsInSlot(call[c].slot) \in SUBSET Shared
    BY DEF PVsInSlot
  <1> QED BY <1>1, <1>2, <1>3 DEF Scan

(* convertSharedRequest has found an instance.                              *)
LEMMA PlaceType ==
  ASSUME TypeOK, NEW c \in Calls, NEW n \in Names \cup {None}, Place(c, n)
  PROVE  call' \in [Calls -> Call]
  <1>1. \A r \in Call : [r EXCEPT !.pc = "hold", !.name = n, !.slot = 0, !.counted = {}] \in Call
    BY PCsAll, SlotsType DEF CreatePCs, Call
  <1>2. call' = [call EXCEPT ![c] = [call[c] EXCEPT !.pc = "hold", !.name = n, !.slot = 0, !.counted = {}]]
    BY DEF TypeOK, Place
  <1> QED BY <1>1, <1>2 DEF TypeOK

(* getSharedNameFromExistingNas.                                            *)
LEMMA ListNasType ==
  ASSUME TypeOK, NEW c \in Calls, ListNas(c)
  PROVE  TypeOK'
  <1>1. PICK n \in SharedNames : Place(c, n)
    BY DEF ListNas
  <1>2. call' \in [Calls -> Call]
    BY <1>1, PlaceType DEF Names
  <1> QED BY <1>2 DEF TypeOK, ListNas

(* getSharedNameFromExistingPv.                                             *)
LEMMA PvNameType ==
  ASSUME TypeOK, NEW c \in Calls, PvName(c)
  PROVE  TypeOK'
  <1>1. CASE CreateError(c)
    BY <1>1, ErrorType DEF TypeOK, PvName
  <1>2. ASSUME NEW v \in Volumes, UNCHANGED ctrlVars,
               call' = [call EXCEPT ![c].name = pv[v], ![c].pc = "fit"]
        PROVE  TypeOK'
    <2>1. \A r \in Call : [r EXCEPT !.name = pv[v], !.pc = "fit"] \in Call
      BY PCsAll DEF CreatePCs, Call, TypeOK
    <2>2. call' = [call EXCEPT ![c] = [call[c] EXCEPT !.name = pv[v], !.pc = "fit"]]
      BY <1>2 DEF TypeOK
    <2>3. call' \in [Calls -> Call]
      BY <2>1, <2>2 DEF TypeOK
    <2> QED BY <1>2, <2>3 DEF TypeOK, PvName
  <1> QED BY <1>1, <1>2 DEF PvName, PVsInSlot

(* convertSharedRequest compares capacities; the slot stays within its      *)
(* range because the search ends in the last one.                           *)
LEMMA FitType ==
  ASSUME TypeOK, NEW c \in Calls, Fit(c)
  PROVE  TypeOK'
  <1>1. CASE CreateError(c)
    BY <1>1, ErrorType DEF TypeOK, Fit
  <1>2. CASE Place(c, call[c].name) /\ UNCHANGED ctrlVars
    <2>1. call[c].name \in Names \cup {None}
      BY DEF TypeOK, Call
    <2>2. call' \in [Calls -> Call]
      BY <1>2, <2>1, PlaceType
    <2> QED BY <1>2, <2>2 DEF TypeOK, Fit
  <1>3. CASE /\ call[c].slot < Slots /\ UNCHANGED ctrlVars
             /\ call' = [call EXCEPT ![c].pc = "scan", ![c].slot = @ + 1,
                                     ![c].name = None, ![c].counted = {}]
    <2>1. \A r \in Call, i \in 0..Slots :
             [r EXCEPT !.pc = "scan", !.slot = i, !.name = None, !.counted = {}] \in Call
      BY PCsAll DEF CreatePCs, Call
    <2>2. call[c].slot + 1 \in 0..Slots
      BY <1>3 DEF TypeOK, Call
    <2>3. call' = [call EXCEPT ![c] = [call[c] EXCEPT !.pc = "scan", !.slot = call[c].slot + 1,
                                     !.name = None, !.counted = {}]]
      BY <1>3 DEF TypeOK
    <2>4. call' \in [Calls -> Call]
      BY <2>1, <2>2, <2>3 DEF TypeOK
    <2> QED BY <1>3, <2>4 DEF TypeOK, Fit
  <1> QED BY <1>1, <1>2, <1>3 DEF Fit

(* SetCreating; a handler that arrives there has a name.                    *)
LEMMA SetCreatingType ==
  ASSUME TypeOK, NEW c \in Calls, SetCreating(c), call[c].name # None
  PROVE  TypeOK'
  <1>1. CASE CreateError(c)
    BY <1>1, ErrorType DEF TypeOK, SetCreating
  <1>2. CASE /\ creatingNames' = creatingNames \cup {call[c].name}
             /\ call' = [call EXCEPT ![c].held = call[c].name, ![c].pc = "get"]
             /\ UNCHANGED <<creatingQ, deletingQ, pendingIPs>>
    <2>1. call[c].name \in Names
      BY DEF TypeOK, Call
    <2>2. \A r \in Call, n \in Names : [r EXCEPT !.held = n, !.pc = "get"] \in Call
      BY PCsAll DEF CreatePCs, Call
    <2>3. call' = [call EXCEPT ![c] = [call[c] EXCEPT !.held = call[c].name, !.pc = "get"]]
      BY <1>2 DEF TypeOK
    <2>4. call' \in [Calls -> Call]
      BY <2>1, <2>2, <2>3 DEF TypeOK
    <2> QED BY <1>2, <2>1, <2>4 DEF TypeOK, SetCreating
  <1> QED BY <1>1, <1>2 DEF SetCreating

(* Steps that only move a handler, or let it return an error. *)
LEMMA MoveType ==
  ASSUME TypeOK, NEW c \in Calls, UNCHANGED stores,
         CreateError(c) \/ DeleteError(c) \/ (UNCHANGED ctrlVars /\ \E p \in PCs : Goto(c, p))
  PROVE  TypeOK'
  <1>1. CASE CreateError(c) \/ DeleteError(c)
    BY <1>1, ErrorType DEF TypeOK
  <1>2. CASE UNCHANGED ctrlVars /\ \E p \in PCs : Goto(c, p)
    <2>1. call' \in [Calls -> Call]
      BY <1>2, GotoType
    <2> QED BY <1>2, <2>1 DEF TypeOK
  <1> QED BY <1>1, <1>2

(* The actions of that kind.                                                *)
LEMMA MoveActionsType ==
  ASSUME TypeOK, NEW c \in Calls,
         \/ GetInstance(c) \/ WaitAvailable(c) \/ Refetch(c) \/ RestoreSnapshot(c)
         \/ DelGet(c) \/ DelCheck(c) \/ ApiError(c)
  PROVE  TypeOK'
  <1> USE PCsAll, AfterType DEF CreatePCs, JobPCs, DeletePCs
  <1>1. CASE GetInstance(c)
    BY <1>1, MoveType DEF GetInstance
  <1>2. CASE WaitAvailable(c)
    BY <1>2, MoveType DEF WaitAvailable
  <1>3. CASE Refetch(c)
    BY <1>3, MoveType DEF Refetch
  <1>4. CASE RestoreSnapshot(c)
    BY <1>4, MoveType DEF RestoreSnapshot
  <1>5. CASE DelGet(c)
    BY <1>5, MoveType DEF DelGet
  <1>6. CASE DelCheck(c)
    BY <1>6, MoveType DEF DelCheck
  <1>7. CASE ApiError(c)
    BY <1>7, MoveType DEF ApiError, Error
  <1> QED BY <1>1, <1>2, <1>3, <1>4, <1>5, <1>6, <1>7

(* reserveIP lists the addresses of the instances.                          *)
LEMMA ListIPsType ==
  ASSUME TypeOK, NEW c \in Calls, ListIPs(c)
  PROVE  TypeOK'
  <1> DEFINE seen == {nas[n].ip : n \in Names} \ {None}
  <1>1. seen \in SUBSET IPs
    BY DEF TypeOK, Instance
  <1>2. \A r \in Call, s \in SUBSET IPs : [r EXCEPT !.seenIPs = s, !.pc = "pickIP"] \in Call
    BY PCsAll DEF CreatePCs, Call
  <1>3. call' = [call EXCEPT ![c] = [call[c] EXCEPT !.seenIPs = seen, !.pc = "pickIP"]]
    BY DEF TypeOK, ListIPs
  <1>4. call' \in [Calls -> Call]
    BY <1>1, <1>2, <1>3 DEF TypeOK
  <1> QED BY <1>4 DEF TypeOK, ListIPs

(* GetUnreservedIP picks an address of the range.                           *)
LEMMA GetUnreservedIPType ==
  ASSUME TypeOK, NEW c \in Calls, GetUnreservedIP(c), call[c].vol \in Volumes
  PROVE  TypeOK'
  <1>1. CASE CreateError(c)
    BY <1>1, ErrorType DEF TypeOK, GetUnreservedIP
  <1>2. ASSUME NEW ip \in Cidr[call[c].vol],
               pendingIPs' = pendingIPs \cup {ip},
               call' = [call EXCEPT ![c].ip = ip, ![c].seenIPs = {}, ![c].pc = "create"],
               UNCHANGED <<creatingQ, deletingQ, creatingNames>>
        PROVE  TypeOK'
    <2>1. ip \in IPs
      BY DEF IPs
    <2>2. \A r \in Call : [r EXCEPT !.ip = ip, !.seenIPs = {}, !.pc = "create"] \in Call
      BY <2>1, PCsAll DEF CreatePCs, Call
    <2>3. call' = [call EXCEPT ![c] = [call[c] EXCEPT !.ip = ip, !.seenIPs = {}, !.pc = "create"]]
      BY <1>2 DEF TypeOK
    <2>4. call' \in [Calls -> Call]
      BY <2>2, <2>3 DEF TypeOK
    <2> QED BY <1>2, <2>1, <2>4 DEF TypeOK, GetUnreservedIP
  <1> QED BY <1>1, <1>2 DEF GetUnreservedIP

(* Replacing an instance keeps the type of nas.                             *)
LEMMA InstanceUpdateType ==
  ASSUME TypeOK, NEW n, NEW i \in Instance
  PROVE  [nas EXCEPT ![n] = i] \in [Names -> Instance]
  BY DEF TypeOK

(* CreateNasInstance.                                                       *)
LEMMA CreateInstanceType ==
  ASSUME TypeOK, NEW c \in Calls, CreateInstance(c)
  PROVE  TypeOK'
  <1>1. [NoInstance EXCEPT !.status = "creating", !.ip = call[c].ip] \in Instance
    BY DEF TypeOK, NoInstance, Instance, Call
  <1>2. nas' \in [Names -> Instance]
    BY <1>1, InstanceUpdateType DEF CreateInstance
  <1>3. CASE Goto(c, "waitCreated") /\ UNCHANGED ctrlVars
    BY <1>2, <1>3, GotoType, PCsAll DEF TypeOK, CreateInstance, CreatePCs
  <1>4. CASE CreateError(c)
    BY <1>2, <1>4, ErrorType DEF TypeOK, CreateInstance
  <1> QED BY <1>3, <1>4 DEF CreateInstance

(* ModifyNasInstance.                                                       *)
LEMMA ModifyInstanceType ==
  ASSUME TypeOK, NEW c \in Calls, ModifyInstance(c)
  PROVE  TypeOK'
  <1>1. CASE CreateError(c) /\ UNCHANGED nas
    BY <1>1, MoveType DEF ModifyInstance
  <1>2. CASE /\ nas' = [nas EXCEPT ![call[c].name].status = "modifying",
                                   ![call[c].name].noRootSquash = TRUE]
             /\ Goto(c, "waitModified")
             /\ UNCHANGED ctrlVars
    <2>1. \A i \in Instance : [i EXCEPT !.status = "modifying", !.noRootSquash = TRUE] \in Instance
      BY DEF Instance
    <2>2. nas' \in [Names -> Instance]
      BY <1>2, <2>1 DEF TypeOK
    <2>3. call' \in [Calls -> Call]
      BY <1>2, GotoType, PCsAll DEF CreatePCs
    <2> QED BY <1>2, <2>2, <2>3 DEF TypeOK, ModifyInstance
  <1> QED BY <1>1, <1>2 DEF ModifyInstance

(* CreateVolume returns a volume.                                           *)
LEMMA CreateOKType ==
  ASSUME TypeOK, NEW c \in Calls, CreateOK(c)
  PROVE  TypeOK'
  <1>1. \A r \in Call : [r EXCEPT !.pc = "done", !.ip = None, !.held = None] \in Call
    BY PCsAll DEF Call
  <1>2. call' = [call EXCEPT ![c] = [call[c] EXCEPT !.pc = "done", !.ip = None, !.held = None]]
    BY DEF TypeOK, CreateOK
  <1>3. call' \in [Calls -> Call]
    BY <1>1, <1>2 DEF TypeOK
  <1> QED BY <1>3 DEF TypeOK, CreateOK, ReleaseHeld

(* The steps of doNfsJob.                                                   *)
LEMMA JobActionsType ==
  ASSUME TypeOK, NEW c \in Calls, CreateJob(c) \/ RecreateJob(c) \/ PollJob(c)
  PROVE  TypeOK'
  <1>1. job' \in [Names -> Job]
    BY JobOfType, TerminateType DEF TypeOK, CreateJob, RecreateJob, PollJob
  <1>2. CASE CreateError(c) \/ DeleteError(c)
    BY <1>1, <1>2, ErrorType DEF TypeOK, CreateJob, RecreateJob, PollJob
  <1>3. CASE UNCHANGED ctrlVars /\ \E p \in PCs : Goto(c, p)
    <2>1. call' \in [Calls -> Call]
      BY <1>3, GotoType
    <2> QED BY <1>1, <1>3, <2>1 DEF TypeOK, CreateJob, RecreateJob, PollJob
  <1> QED
    BY <1>2, <1>3, PCsAll, AfterType
    DEF CreateJob, RecreateJob, PollJob, Error, CreatePCs, JobPCs, DeletePCs


(* A DeleteVolume request begins.                                           *)
LEMMA DeleteVolumeType ==
  ASSUME TypeOK, NEW c \in Calls, NEW v \in Volumes, DeleteVolume(c, v)
  PROVE  TypeOK'
  <1>1. \A r \in Call, n \in Names \cup {None} :
           [r EXCEPT !.op = "delete", !.vol = v, !.awaited = TRUE,
                     !.pc = "delGet", !.name = n] \in Call
    BY PCsAll DEF DeletePCs, Call
  <1>2. [Idle EXCEPT !.op = "delete", !.vol = v, !.awaited = TRUE,
                     !.pc = "delGet", !.name = pv[v]] \in Call
    BY <1>1, IdleType DEF TypeOK
  <1>3. call' \in [Calls -> Call]
    BY <1>2 DEF TypeOK, DeleteVolume
  <1> QED BY <1>3 DEF TypeOK, DeleteVolume

(* deletingPvsQueue.Queue up to its mutex.                                  *)
LEMMA QueueDeleteType ==
  ASSUME TypeOK, NEW c \in Calls, QueueDelete(c)
  PROVE  TypeOK'
  <1>1. CASE DeleteError(c)
    BY <1>1, MoveType DEF QueueDelete
  <1>2. CASE /\ deletingQ' = [deletingQ EXCEPT !.entry[call[c].vol] = "pending"]
             /\ Goto(c, "delLock")
             /\ UNCHANGED <<creatingQ, creatingNames, pendingIPs>>
    <2>1. deletingQ' \in Queue
      BY <1>2 DEF TypeOK, Queue
    <2>2. call' \in [Calls -> Call]
      BY <1>2, GotoType, PCsAll DEF DeletePCs
    <2> QED BY <1>2, <2>1, <2>2 DEF TypeOK, QueueDelete
  <1> QED BY <1>1, <1>2 DEF QueueDelete

(* deletingPvsQueue.Queue gets its mutex.                                   *)
LEMMA LockDeleteType ==
  ASSUME TypeOK, NEW c \in Calls, LockDelete(c)
  PROVE  TypeOK'
  <1>1. deletingQ' \in Queue
    BY DEF TypeOK, LockDelete, Queue
  <1>2. call' \in [Calls -> Call]
    BY GotoType, PCsAll DEF LockDelete, JobPCs
  <1> QED BY <1>1, <1>2 DEF TypeOK, LockDelete

(* DeleteNasInstance.                                                       *)
LEMMA DeleteInstanceType ==
  ASSUME TypeOK, NEW c \in Calls, DeleteInstance(c)
  PROVE  TypeOK'
  <1>1. \A i \in Instance : [i EXCEPT !.status = "deleting"] \in Instance
    BY DEF Instance
  <1>2. nas' \in [Names -> Instance]
    BY <1>1 DEF TypeOK, DeleteInstance
  <1>3. CASE DeleteError(c)
    BY <1>2, <1>3, ErrorType DEF TypeOK, DeleteInstance
  <1>4. CASE Goto(c, "done") /\ UNCHANGED ctrlVars
    BY <1>2, <1>4, GotoType, PCsAll DEF TypeOK, DeleteInstance
  <1> QED BY <1>3, <1>4 DEF DeleteInstance

(* pvAdded and pvDeleted.                                                   *)
LEMMA InformerType ==
  ASSUME TypeOK, NEW v \in Volumes, PvAdded(v) \/ PvDeleted(v)
  PROVE  TypeOK'
  BY UnsetQueueType DEF TypeOK, PvAdded, PvDeleted

(* The controller restarts.                                                 *)
LEMMA RestartType ==
  ASSUME TypeOK, Restart
  PROVE  TypeOK'
  <1>1. EmptyQueue \in Queue
    BY DEF EmptyQueue, Queue
  <1>2. call' \in [Calls -> Call]
    BY IdleType DEF TypeOK, Restart
  <1> QED BY <1>1, <1>2 DEF TypeOK, Restart

(* The provisioner gets a reply, or does not.                               *)
LEMMA ReplyType ==
  ASSUME TypeOK, NEW c \in Calls, Reply(c), call[c].vol \in Volumes
  PROVE  TypeOK'
  <1>1. call' \in [Calls -> Call]
    BY ReturnType DEF Reply, ProvisionerBinds, ProvisionerUnbinds, LostReply
  <1>2. call[c].name \in Names \cup {None}
    BY DEF TypeOK, Call
  <1>3. pv' \in [Volumes -> Names \cup {None}]
    BY <1>2 DEF TypeOK, Reply, ProvisionerBinds, ProvisionerUnbinds, LostReply
  <1> QED
    BY <1>1, <1>3 DEF TypeOK, Reply, ProvisionerBinds, ProvisionerUnbinds, LostReply

(* The provisioner stops waiting.                                           *)
LEMMA StopWaitingType ==
  ASSUME TypeOK, NEW c \in Calls, StopWaiting(c)
  PROVE  TypeOK'
  <1>1. \A r \in Call : [r EXCEPT !.awaited = FALSE] \in Call
    BY DEF Call
  <1>2. call' \in [Calls -> Call]
    BY <1>1 DEF TypeOK, StopWaiting
  <1> QED BY <1>2 DEF TypeOK, StopWaiting

(* The cloud and the job controller; a job writes a directory of a volume   *)
(* because it was created for one.                                          *)
LEMMA CloudType ==
  ASSUME TypeOK, JobsWellFormed, NEW n \in Names, CloudSettles(n) \/ JobRuns(n) \/ JobVanishes(n)
  PROVE  TypeOK'
  <1>1. \A i \in Instance : [i EXCEPT !.status = "available"] \in Instance
    BY DEF Instance
  <1>2. \A i \in Instance, D \in SUBSET Volumes : [i EXCEPT !.dirs = D] \in Instance
    BY DEF Instance
  <1>3. \A j \in Job, st \in {"done", "failed", "hung"} : [j EXCEPT !.state = st] \in Job
    BY DEF Job
  <1>4. NoInstance \in Instance /\ NoJob \in Job
    BY DEF NoInstance, Instance, NoJob, Job
  <1>5. CASE CloudSettles(n)
    <2>0. \A j \in Job : [j EXCEPT !.state = IF j.state = "running" THEN "hung"
                                             ELSE j.state] \in Job
      BY DEF Job
    <2>1. nas' \in [Names -> Instance]
      BY <1>1, <1>4, <1>5 DEF TypeOK, CloudSettles
    <2>2. job' \in [Names -> Job]
      BY <1>5, <2>0 DEF TypeOK, CloudSettles
    <2> QED BY <1>5, <2>1, <2>2 DEF TypeOK, CloudSettles
  <1>6. CASE JobRuns(n)
    <2>1. ASSUME NEW st \in {"done", "failed"}, NEW D \in SUBSET Volumes,
                 job' = [job EXCEPT ![n].state = st],
                 nas' = [nas EXCEPT ![n].dirs = D]
          PROVE  TypeOK'
      <3>1. nas' \in [Names -> Instance]
        BY <1>2, <2>1 DEF TypeOK
      <3>2. job' \in [Names -> Job]
        BY <1>3, <2>1 DEF TypeOK
      <3> QED BY <1>6, <3>1, <3>2 DEF TypeOK, JobRuns
    <2>2. nas[n].dirs \in SUBSET Volumes /\ job[n].vol \in Volumes
      BY <1>6 DEF TypeOK, Instance, JobsWellFormed, JobRuns
    <2>3. /\ nas[n].dirs \cup {job[n].vol} \in SUBSET Volumes
          /\ nas[n].dirs \ {job[n].vol} \in SUBSET Volumes
      BY <2>2
    <2> QED BY <1>6, <2>1, <2>2, <2>3 DEF JobRuns
  <1>7. CASE JobVanishes(n)
    BY <1>4, <1>7 DEF TypeOK, JobVanishes
  <1> QED BY <1>5, <1>6, <1>7

USE DEF At

-----------------------------------------------------------------------------
(* Handler records. *)

(* Replacing one handler's record by a well-formed one.                     *)
LEMMA UpdateWellFormed ==
  ASSUME TypeOK, CallsWellFormed, NEW c \in Calls, NEW r,
         call' = [call EXCEPT ![c] = r], WellFormed(r)
  PROVE  CallsWellFormed'
  BY DEF TypeOK, CallsWellFormed, WellFormed

(* A goroutine that serves no request holds nothing.                        *)
LEMMA IdleWellFormed == WellFormed(Idle)
  BY DEF WellFormed, Idle, HoldingPCs, CreatePCs, DeletePCs, JobPCs

(* A handler returns.                                                       *)
LEMMA ReturnWellFormed ==
  ASSUME TypeOK, CallsWellFormed, NEW c \in Calls, Return(c)
  PROVE  CallsWellFormed'
  BY IdleWellFormed, UpdateWellFormed DEF Return

(* A handler moves to another point of its code, without passing            *)
(* SetCreating or a return.                                                 *)
LEMMA GotoWellFormed ==
  ASSUME TypeOK, CallsWellFormed, NEW c \in Calls, NEW p, Goto(c, p),
         call[c].pc # "idle", p \notin {"fit", "hold"},
         p \in CreatePCs => call[c].op = "create",
         p \in DeletePCs => call[c].op = "delete",
         call[c].op = "create" => (p \in HoldingPCs <=> call[c].pc \in HoldingPCs)
  PROVE  CallsWellFormed'
  <1> DEFINE r == [call[c] EXCEPT !.pc = p]
  <1>1. /\ r.pc = p /\ r.op = call[c].op /\ r.vol = call[c].vol /\ r.name = call[c].name
        /\ r.held = call[c].held /\ r.ip = call[c].ip
    BY DEF TypeOK, Call
  <1>2. WellFormed(call[c])
    BY DEF CallsWellFormed
  <1>3. WellFormed(r)
    BY <1>1, <1>2 DEF WellFormed
  <1>4. call' = [call EXCEPT ![c] = r]
    BY DEF TypeOK, Goto
  <1> QED BY <1>3, <1>4, UpdateWellFormed

(* A CreateVolume request begins and holds nothing yet.                     *)
LEMMA CreateVolumeWellFormed ==
  ASSUME TypeOK, CallsWellFormed, NEW c \in Calls, NEW v \in Volumes, CreateVolume(c, v)
  PROVE  CallsWellFormed'
  <1> DEFINE r == call'[c]
  <1>1. /\ r.op = "create" /\ r.vol = v /\ r.held = None /\ r.ip = None
        /\ r.pc = IF v \in Shared THEN "queue" ELSE "hold"
        /\ r.name = IF v \in Shared THEN None ELSE v
    BY DEF TypeOK, CreateVolume, Idle
  <1>2. WellFormed(r)
    BY <1>1 DEF WellFormed, HoldingPCs, CreatePCs, DeletePCs, JobPCs
  <1>3. call' = [call EXCEPT ![c] = r]
    BY DEF TypeOK, CreateVolume
  <1> QED BY <1>2, <1>3, UpdateWellFormed

(* A DeleteVolume request begins; it never holds a name or an address.      *)
LEMMA DeleteVolumeWellFormed ==
  ASSUME TypeOK, CallsWellFormed, NEW c \in Calls, NEW v \in Volumes, DeleteVolume(c, v)
  PROVE  CallsWellFormed'
  <1> DEFINE r == call'[c]
  <1>1. /\ r.op = "delete" /\ r.vol = v /\ r.held = None /\ r.ip = None
        /\ r.pc = "delGet"
    BY DEF TypeOK, DeleteVolume, Idle
  <1>2. WellFormed(r)
    BY <1>1 DEF WellFormed, HoldingPCs, CreatePCs, DeletePCs, JobPCs
  <1>3. call' = [call EXCEPT ![c] = r]
    BY DEF TypeOK, DeleteVolume
  <1> QED BY <1>2, <1>3, UpdateWellFormed

(* The steps of Queue that do not start the search for an instance.         *)
LEMMA QueueWellFormed ==
  ASSUME TypeOK, CallsWellFormed, NEW c \in Calls,
         QueueCreate(c) \/ QueueDelete(c) \/ LockDelete(c)
  PROVE  CallsWellFormed'
  <1>1. WellFormed(call[c])
    BY DEF CallsWellFormed
  <1> QED
  BY <1>1, ReturnWellFormed, GotoWellFormed
  DEF WellFormed, QueueCreate, QueueDelete, LockDelete, CreateError, DeleteError, HoldingPCs, CreatePCs, DeletePCs, JobPCs

(* A step of the search for an instance: the handler holds nothing, and has *)
(* a name when the search ends.                                             *)
LEMMA SearchWellFormed ==
  ASSUME TypeOK, CallsWellFormed, NEW c \in Calls, NEW r,
         call' = [call EXCEPT ![c] = r],
         call[c].pc \in {"lock", "scan", "listNas", "pvName", "fit"},
         r.pc \in {"scan", "listNas", "pvName", "fit", "hold"},
         r.op = call[c].op, r.vol = call[c].vol, r.held = call[c].held, r.ip = call[c].ip,
         r.pc \in {"fit", "hold"} => r.name # None
  PROVE  CallsWellFormed'
  <1>1. WellFormed(call[c])
    BY DEF CallsWellFormed
  <1>2. WellFormed(r)
    BY <1>1 DEF WellFormed, HoldingPCs, CreatePCs, DeletePCs, JobPCs
  <1> QED BY <1>2, UpdateWellFormed

(* The search begins.                                                       *)
LEMMA LockCreateWellFormed ==
  ASSUME TypeOK, CallsWellFormed, NEW c \in Calls, LockCreate(c)
  PROVE  CallsWellFormed'
  <1> DEFINE r == [call[c] EXCEPT !.pc = "scan", !.slot = 1]
  <1>1. /\ r.op = call[c].op /\ r.vol = call[c].vol /\ r.held = call[c].held /\ r.ip = call[c].ip
        /\ r.pc = "scan"
    BY DEF TypeOK, Call
  <1>2. call' = [call EXCEPT ![c] = r]
    BY DEF TypeOK, LockCreate
  <1> QED BY <1>1, <1>2, SearchWellFormed DEF LockCreate

(* The PVs of a slot are summed up.                                         *)
LEMMA ScanWellFormed ==
  ASSUME TypeOK, CallsWellFormed, NEW c \in Calls, Scan(c)
  PROVE  CallsWellFormed'
  <1>1. CASE CreateError(c)
    BY <1>1, ReturnWellFormed DEF CreateError
  <1>2. ASSUME NEW S, NEW p \in {"listNas", "pvName"},
               call' = [call EXCEPT ![c].counted = S, ![c].pc = p]
        PROVE  CallsWellFormed'
    <2> DEFINE r == [call[c] EXCEPT !.counted = S, !.pc = p]
    <2>1. /\ r.op = call[c].op /\ r.vol = call[c].vol /\ r.held = call[c].held /\ r.ip = call[c].ip
          /\ r.pc = p
      BY DEF TypeOK, Call
    <2>2. call' = [call EXCEPT ![c] = r]
      BY <1>2 DEF TypeOK
    <2> QED BY <2>1, <2>2, SearchWellFormed DEF Scan
  <1> QED BY <1>1, <1>2 DEF Scan

(* The search ends with an instance.                                        *)
LEMMA PlaceWellFormed ==
  ASSUME TypeOK, CallsWellFormed, NEW c \in Calls, NEW n, Place(c, n), n # None,
         call[c].pc \in {"listNas", "fit"}
  PROVE  CallsWellFormed'
  <1> DEFINE r == [call[c] EXCEPT !.pc = "hold", !.name = n, !.slot = 0, !.counted = {}]
  <1>1. /\ r.op = call[c].op /\ r.vol = call[c].vol /\ r.held = call[c].held /\ r.ip = call[c].ip
        /\ r.pc = "hold" /\ r.name = n
    BY DEF TypeOK, Call
  <1>2. call' = [call EXCEPT ![c] = r]
    BY DEF TypeOK, Place
  <1> QED BY <1>1, <1>2, SearchWellFormed

(* The search ends with an instance of the cloud, or a new one.             *)
LEMMA ListNasWellFormed ==
  ASSUME TypeOK, CallsWellFormed, NEW c \in Calls, ListNas(c)
  PROVE  CallsWellFormed'
  <1>1. PICK n \in SharedNames : Place(c, n)
    BY DEF ListNas
  <1>2. n # None
    BY DEF Names
  <1> QED BY <1>1, <1>2, PlaceWellFormed DEF ListNas

(* The name comes from the volume handle of a PV, so there is one.          *)
LEMMA PvNameWellFormed ==
  ASSUME TypeOK, CallsWellFormed, NEW c \in Calls, PvName(c)
  PROVE  CallsWellFormed'
  <1>1. CASE CreateError(c)
    BY <1>1, ReturnWellFormed DEF CreateError
  <1>2. ASSUME NEW n, n # None, call' = [call EXCEPT ![c].name = n, ![c].pc = "fit"]
        PROVE  CallsWellFormed'
    <2> DEFINE r == [call[c] EXCEPT !.name = n, !.pc = "fit"]
    <2>1. /\ r.op = call[c].op /\ r.vol = call[c].vol /\ r.held = call[c].held /\ r.ip = call[c].ip
          /\ r.pc = "fit" /\ r.name = n
      BY DEF TypeOK, Call
    <2>2. call' = [call EXCEPT ![c] = r]
      BY <1>2 DEF TypeOK
    <2> QED BY <1>2, <2>1, <2>2, SearchWellFormed DEF PvName
  <1> QED BY <1>1, <1>2 DEF PvName, PVsInSlot

(* The search ends, or goes on in the next slot.                            *)
LEMMA FitWellFormed ==
  ASSUME TypeOK, CallsWellFormed, NEW c \in Calls, Fit(c)
  PROVE  CallsWellFormed'
  <1>1. CASE CreateError(c)
    BY <1>1, ReturnWellFormed DEF CreateError
  <1>2. CASE Place(c, call[c].name)
    BY <1>2, PlaceWellFormed DEF Fit, CallsWellFormed, WellFormed
  <1>3. CASE call' = [call EXCEPT ![c].pc = "scan", ![c].slot = @ + 1,
                                     ![c].name = None, ![c].counted = {}]
    <2> DEFINE r == [call[c] EXCEPT !.pc = "scan", !.slot = call[c].slot + 1,
                                     !.name = None, !.counted = {}]
    <2>1. /\ r.op = call[c].op /\ r.vol = call[c].vol /\ r.held = call[c].held /\ r.ip = call[c].ip
          /\ r.pc = "scan"
      BY DEF TypeOK, Call
    <2>2. call' = [call EXCEPT ![c] = r]
      BY <1>3 DEF TypeOK
    <2> QED BY <2>1, <2>2, SearchWellFormed DEF Fit
  <1> QED BY <1>1, <1>2, <1>3 DEF Fit

(* The handler now holds the name it works on.                              *)
LEMMA SetCreatingWellFormed ==
  ASSUME TypeOK, CallsWellFormed, NEW c \in Calls, SetCreating(c)
  PROVE  CallsWellFormed'
  <1>1. CASE CreateError(c)
    BY <1>1, ReturnWellFormed DEF CreateError
  <1>2. CASE call' = [call EXCEPT ![c].held = call[c].name, ![c].pc = "get"]
    <2> DEFINE r == [call[c] EXCEPT !.held = call[c].name, !.pc = "get"]
    <2>1. /\ r.op = call[c].op /\ r.vol = call[c].vol /\ r.name = call[c].name /\ r.held = r.name
          /\ r.ip = call[c].ip /\ r.pc = "get"
      BY DEF TypeOK, Call
    <2>2. call' = [call EXCEPT ![c] = r]
      BY <1>2 DEF TypeOK
    <2>3. WellFormed(call[c])
      BY DEF CallsWellFormed
    <2>4. WellFormed(r)
      BY <2>1, <2>3 DEF SetCreating, WellFormed, HoldingPCs, CreatePCs, DeletePCs, JobPCs
    <2> QED BY <2>2, <2>4, UpdateWellFormed
  <1> QED BY <1>1, <1>2 DEF SetCreating

(* An address is reserved while the name is held.                           *)
LEMMA IPWellFormed ==
  ASSUME TypeOK, CallsWellFormed, NEW c \in Calls, ListIPs(c) \/ GetUnreservedIP(c)
  PROVE  CallsWellFormed'
  <1>0. WellFormed(call[c])
    BY DEF CallsWellFormed
  <1>1. CASE CreateError(c)
    BY <1>1, ReturnWellFormed DEF CreateError
  <1>2. ASSUME NEW S, ListIPs(c), call' = [call EXCEPT ![c].seenIPs = S, ![c].pc = "pickIP"]
        PROVE  CallsWellFormed'
    <2> DEFINE r == [call[c] EXCEPT !.seenIPs = S, !.pc = "pickIP"]
    <2>1. /\ r.op = call[c].op /\ r.vol = call[c].vol /\ r.name = call[c].name /\ r.held = call[c].held
          /\ r.ip = call[c].ip /\ r.pc = "pickIP"
      BY DEF TypeOK, Call
    <2>2. call' = [call EXCEPT ![c] = r]
      BY <1>2 DEF TypeOK
    <2>3. WellFormed(r)
      BY <1>0, <1>2, <2>1 DEF ListIPs, WellFormed, HoldingPCs, CreatePCs, DeletePCs, JobPCs
    <2> QED BY <2>2, <2>3, UpdateWellFormed
  <1>3. ASSUME NEW ip, GetUnreservedIP(c),
               call' = [call EXCEPT ![c].ip = ip, ![c].seenIPs = {}, ![c].pc = "create"]
        PROVE  CallsWellFormed'
    <2> DEFINE r == [call[c] EXCEPT !.ip = ip, !.seenIPs = {}, !.pc = "create"]
    <2>1. /\ r.op = call[c].op /\ r.vol = call[c].vol /\ r.name = call[c].name /\ r.held = call[c].held
          /\ r.pc = "create"
      BY DEF TypeOK, Call
    <2>2. call' = [call EXCEPT ![c] = r]
      BY <1>3 DEF TypeOK
    <2>3. WellFormed(r)
      BY <1>0, <1>3, <2>1 DEF GetUnreservedIP, WellFormed, HoldingPCs, CreatePCs, DeletePCs, JobPCs
    <2> QED BY <2>2, <2>3, UpdateWellFormed
  <1> QED BY <1>1, <1>2, <1>3 DEF ListIPs, GetUnreservedIP

(* The name stays held from GetNasInstance to the source path.              *)
LEMMA CreateStepsWellFormed ==
  ASSUME TypeOK, CallsWellFormed, NEW c \in Calls,
         \/ GetInstance(c) \/ CreateInstance(c) \/ WaitAvailable(c) \/ Refetch(c)
         \/ ModifyInstance(c) \/ RestoreSnapshot(c)
  PROVE  CallsWellFormed'
  <1>0. WellFormed(call[c])
    BY DEF CallsWellFormed
  <1>1. CASE CreateError(c)
    BY <1>1, ReturnWellFormed DEF CreateError
  <1>2. call[c].pc \in {"get", "create", "waitCreated", "waitModified", "refetch", "refetched",
                        "modify", "restore"}
    BY DEF GetInstance, CreateInstance, WaitAvailable, Refetch, ModifyInstance, RestoreSnapshot
  <1>3. ASSUME NEW p \in {"create", "listIPs", "waitCreated", "modify", "waitModified", "refetch",
                          "refetched", "job", "restore", "reply"}, Goto(c, p)
        PROVE  CallsWellFormed'
    BY <1>0, <1>2, <1>3, GotoWellFormed DEF WellFormed, HoldingPCs, CreatePCs, DeletePCs, JobPCs
  <1> QED
    BY <1>1, <1>3, AfterType
    DEF GetInstance, CreateInstance, WaitAvailable, Refetch, ModifyInstance, RestoreSnapshot

(* CreateVolume returns a volume and holds nothing any more.                *)
LEMMA CreateOKWellFormed ==
  ASSUME TypeOK, CallsWellFormed, NEW c \in Calls, CreateOK(c)
  PROVE  CallsWellFormed'
  <1>0. WellFormed(call[c])
    BY DEF CallsWellFormed
  <1> DEFINE r == [call[c] EXCEPT !.pc = "done", !.ip = None, !.held = None]
  <1>1. /\ r.op = call[c].op /\ r.vol = call[c].vol /\ r.held = None /\ r.ip = None /\ r.pc = "done"
    BY DEF TypeOK, Call
  <1>2. call' = [call EXCEPT ![c] = r]
    BY DEF TypeOK, CreateOK
  <1>3. WellFormed(r)
    BY <1>0, <1>1 DEF CreateOK, WellFormed, HoldingPCs, CreatePCs, DeletePCs, JobPCs
  <1> QED BY <1>2, <1>3, UpdateWellFormed

(* An error return.                                                         *)
LEMMA ErrorWellFormed ==
  ASSUME TypeOK, CallsWellFormed, NEW c \in Calls, Error(c)
  PROVE  CallsWellFormed'
  BY ReturnWellFormed DEF Error, CreateError, DeleteError

(* The steps of doNfsJob, for a create and for a delete.                    *)
LEMMA JobStepsWellFormed ==
  ASSUME TypeOK, CallsWellFormed, NEW c \in Calls, CreateJob(c) \/ RecreateJob(c) \/ PollJob(c)
  PROVE  CallsWellFormed'
  <1>0. WellFormed(call[c])
    BY DEF CallsWellFormed
  <1>1. call[c].pc \in JobPCs
    BY DEF CreateJob, RecreateJob, PollJob, JobPCs
  <1>2. ASSUME NEW p \in {"poll", "rejob"}, Goto(c, p)
        PROVE  CallsWellFormed'
    BY <1>0, <1>1, <1>2, GotoWellFormed DEF WellFormed, HoldingPCs, CreatePCs, DeletePCs, JobPCs
  <1>3. ASSUME NEW p \in {"restore", "reply"}, call[c].op = "create", Goto(c, p)
        PROVE  CallsWellFormed'
    BY <1>0, <1>1, <1>3, GotoWellFormed DEF WellFormed, HoldingPCs, CreatePCs, DeletePCs, JobPCs
  <1>4. ASSUME call[c].op # "create", Goto(c, "delCheck")
        PROVE  CallsWellFormed'
    <2>1. call[c].op = "delete"
      BY <1>0, <1>1, <1>4 DEF WellFormed, TypeOK, Call, JobPCs
    <2> QED
    BY <1>0, <1>1, <1>4, <2>1, GotoWellFormed DEF WellFormed, HoldingPCs, CreatePCs, DeletePCs, JobPCs
  <1> QED
    BY <1>2, <1>3, <1>4, ErrorWellFormed, AfterType DEF CreateJob, RecreateJob, PollJob

(* The other steps of DeleteVolume, and failing calls.                      *)
LEMMA DeleteStepsWellFormed ==
  ASSUME TypeOK, CallsWellFormed, NEW c \in Calls,
         DelGet(c) \/ DelCheck(c) \/ DeleteInstance(c) \/ ApiError(c)
  PROVE  CallsWellFormed'
  <1>0. WellFormed(call[c])
    BY DEF CallsWellFormed
  <1>1. CASE DeleteError(c)
    BY <1>1, ReturnWellFormed DEF DeleteError
  <1>2. ASSUME NEW p \in {"done", "delQueue", "delNas"}, Goto(c, p),
               call[c].pc \in {"delGet", "delCheck", "delNas"}
        PROVE  CallsWellFormed'
    BY <1>0, <1>2, GotoWellFormed DEF WellFormed, HoldingPCs, CreatePCs, DeletePCs, JobPCs
  <1> QED
    BY <1>1, <1>2, ErrorWellFormed DEF DelGet, DelCheck, DeleteInstance, ApiError

(* A cancelled context changes nothing else.                                *)
LEMMA StopWaitingWellFormed ==
  ASSUME TypeOK, CallsWellFormed, NEW c \in Calls, StopWaiting(c)
  PROVE  CallsWellFormed'
  BY DEF TypeOK, Call, CallsWellFormed, StopWaiting, WellFormed

(* After a restart no handler runs.                                         *)
LEMMA RestartWellFormed ==
  ASSUME TypeOK, CallsWellFormed, Restart
  PROVE  CallsWellFormed'
  <1>1. \A d \in Calls : call'[d] = call[d] \/ call'[d] = Idle
    BY DEF Restart
  <1> QED BY <1>1, IdleWellFormed DEF CallsWellFormed, WellFormed

-----------------------------------------------------------------------------
(* Jobs. *)

(* Deleting a job keeps what it was created for.                            *)
LEMMA TerminateJobs ==
  ASSUME TypeOK, JobsWellFormed, NEW n, Terminate(n)
  PROVE  JobsWellFormed'
  BY DEF TypeOK, Job, Terminate, JobsWellFormed

(* The steps of doNfsJob.                                                   *)
LEMMA JobStepsJobs ==
  ASSUME TypeOK, CallsWellFormed, JobsWellFormed, NEW c \in Calls,
         CreateJob(c) \/ RecreateJob(c) \/ PollJob(c)
  PROVE  JobsWellFormed'
  <1>1. call[c].vol \in Volumes
    BY DEF CallsWellFormed, WellFormed, CreateJob, RecreateJob, PollJob
  <1>2. CASE job' = [job EXCEPT ![call[c].name] = JobOf(c)]
    BY <1>1, <1>2 DEF TypeOK, JobsWellFormed, JobOf
  <1>3. CASE UNCHANGED job
    BY <1>3 DEF JobsWellFormed
  <1> QED
    BY <1>2, <1>3, TerminateJobs DEF CreateJob, RecreateJob, PollJob

(* The cloud and the job controller.                                        *)
LEMMA CloudJobs ==
  ASSUME TypeOK, JobsWellFormed, NEW n \in Names,
         CloudSettles(n) \/ JobRuns(n) \/ JobVanishes(n)
  PROVE  JobsWellFormed'
  BY DEF TypeOK, Job, JobsWellFormed, NoJob, CloudSettles, JobRuns, JobVanishes

-----------------------------------------------------------------------------
(* Names and addresses. *)

Exclusive == HeldNamesExclusive /\ PendingIPsExclusive

(* Nothing changes hands and nothing is taken back.                         *)
LEMMA KeepHeld ==
  ASSUME Exclusive,
         \A d \in Calls : call'[d].held = call[d].held /\ call'[d].ip = call[d].ip,
         creatingNames \subseteq creatingNames', pendingIPs \subseteq pendingIPs'
  PROVE  Exclusive'
  BY DEF Exclusive, HeldNamesExclusive, PendingIPsExclusive

(* What Goto leaves alone.                                                  *)
LEMMA GotoFields ==
  ASSUME TypeOK, NEW c \in Calls, NEW p, Goto(c, p)
  PROVE  \A d \in Calls :
           /\ call'[d].op = call[d].op /\ call'[d].vol = call[d].vol
           /\ call'[d].name = call[d].name
           /\ call'[d].held = call[d].held /\ call'[d].ip = call[d].ip
           /\ call'[d].pc = IF d = c THEN p ELSE call[d].pc
  BY DEF TypeOK, Call, Goto

(* What Return leaves alone.                                                *)
LEMMA ReturnFields ==
  ASSUME TypeOK, NEW c \in Calls, Return(c)
  PROVE  \A d \in Calls : call'[d] = IF d = c THEN Idle ELSE call[d]
  BY DEF TypeOK, Return

(* A handler that only moves.                                               *)
LEMMA GotoExclusive ==
  ASSUME TypeOK, Exclusive, NEW c \in Calls, NEW p, Goto(c, p),
         UNCHANGED <<creatingNames, pendingIPs>>
  PROVE  Exclusive'
  BY GotoFields, KeepHeld

(* A handler that returns takes back what it held itself: nobody else loses *)
(* a name or an address.                                                    *)
LEMMA ReturnExclusive ==
  ASSUME TypeOK, Exclusive, NEW c \in Calls, Return(c),
         ReleaseHeld(c) \/ UNCHANGED <<creatingNames, pendingIPs>>
  PROVE  Exclusive'
  <1>1. \A d \in Calls : /\ d = c => call'[d].held = None /\ call'[d].ip = None
                         /\ d # c => call'[d] = call[d]
    BY ReturnFields DEF Idle
  <1> QED BY <1>1 DEF Exclusive, HeldNamesExclusive, PendingIPsExclusive, ReleaseHeld

(* The error returns.                                                       *)
LEMMA ErrorExclusive ==
  ASSUME TypeOK, Exclusive, NEW c \in Calls, CreateError(c) \/ DeleteError(c)
  PROVE  Exclusive'
  BY ReturnExclusive DEF CreateError, DeleteError

(* SetCreating refuses a name that is held.                                 *)
LEMMA SetCreatingExclusive ==
  ASSUME TypeOK, Exclusive, NEW c \in Calls, SetCreating(c)
  PROVE  Exclusive'
  <1>1. CASE CreateError(c)
    BY <1>1, ErrorExclusive
  <1>2. CASE /\ call[c].name \notin creatingNames
             /\ creatingNames' = creatingNames \cup {call[c].name}
             /\ call' = [call EXCEPT ![c].held = call[c].name, ![c].pc = "get"]
             /\ UNCHANGED pendingIPs
    <2>1. /\ call'[c].held = call[c].name /\ call'[c].ip = call[c].ip
          /\ \A d \in Calls \ {c} : call'[d] = call[d]
      BY <1>2 DEF TypeOK, Call
    <2>2. /\ call[c].name \notin creatingNames
          /\ creatingNames' = creatingNames \cup {call[c].name}
          /\ pendingIPs' = pendingIPs
      BY <1>2
    <2>3. HeldNamesExclusive'
      BY <2>1, <2>2 DEF Exclusive, HeldNamesExclusive
    <2>4. PendingIPsExclusive'
      BY <2>1, <2>2 DEF Exclusive, PendingIPsExclusive
    <2> QED BY <2>3, <2>4 DEF Exclusive
  <1> QED BY <1>1, <1>2 DEF SetCreating

(* GetUnreservedIP picks an address that is not pending.                    *)
LEMMA GetUnreservedIPExclusive ==
  ASSUME TypeOK, Exclusive, NEW c \in Calls, GetUnreservedIP(c)
  PROVE  Exclusive'
  <1>1. CASE CreateError(c)
    BY <1>1, ErrorExclusive
  <1>2. ASSUME NEW ip, ip \notin pendingIPs, pendingIPs' = pendingIPs \cup {ip},
               call' = [call EXCEPT ![c].ip = ip, ![c].seenIPs = {}, ![c].pc = "create"],
               UNCHANGED creatingNames
        PROVE  Exclusive'
    <2>1. /\ call'[c].ip = ip /\ call'[c].held = call[c].held
          /\ \A d \in Calls \ {c} : call'[d] = call[d]
      BY <1>2 DEF TypeOK, Call
    <2>2. /\ ip \notin pendingIPs /\ pendingIPs' = pendingIPs \cup {ip}
          /\ creatingNames' = creatingNames
      BY <1>2
    <2>3. HeldNamesExclusive'
      BY <2>1, <2>2 DEF Exclusive, HeldNamesExclusive
    <2>4. PendingIPsExclusive'
      BY <2>1, <2>2 DEF Exclusive, PendingIPsExclusive
    <2> QED BY <2>3, <2>4 DEF Exclusive
  <1> QED BY <1>1, <1>2 DEF GetUnreservedIP

(* The successful return of CreateVolume.                                   *)
LEMMA CreateOKExclusive ==
  ASSUME TypeOK, Exclusive, NEW c \in Calls, CreateOK(c)
  PROVE  Exclusive'
  <1>1. \A d \in Calls : /\ d = c => call'[d].held = None /\ call'[d].ip = None
                         /\ d # c => call'[d] = call[d]
    BY DEF TypeOK, Call, CreateOK
  <1>2. ReleaseHeld(c)
    BY DEF CreateOK
  <1> QED BY <1>1, <1>2 DEF Exclusive, HeldNamesExclusive, PendingIPsExclusive, ReleaseHeld

(* A new request holds nothing.                                             *)
LEMMA BeginExclusive ==
  ASSUME TypeOK, Exclusive, NEW c \in Calls, NEW v \in Volumes,
         CreateVolume(c, v) \/ DeleteVolume(c, v)
  PROVE  Exclusive'
  <1>1. call'[c].held = None /\ call'[c].ip = None
    <2>1. CASE CreateVolume(c, v)
      BY <2>1 DEF TypeOK, CreateVolume, Idle
    <2>2. CASE DeleteVolume(c, v)
      BY <2>2 DEF TypeOK, DeleteVolume, Idle
    <2> QED BY <2>1, <2>2
  <1>2. \A d \in Calls \ {c} : call'[d] = call[d]
    BY DEF TypeOK, CreateVolume, DeleteVolume
  <1>3. UNCHANGED <<creatingNames, pendingIPs>>
    BY DEF CreateVolume, DeleteVolume
  <1> QED BY <1>1, <1>2, <1>3 DEF Exclusive, HeldNamesExclusive, PendingIPsExclusive

(* The search for an instance holds nothing.                                *)
LEMMA SearchExclusive ==
  ASSUME TypeOK, Exclusive, NEW c \in Calls,
         LockCreate(c) \/ Scan(c) \/ ListNas(c) \/ PvName(c) \/ Fit(c) \/ ListIPs(c) \/ StopWaiting(c)
  PROVE  Exclusive'
  <1>1. CASE CreateError(c)
    BY <1>1, ErrorExclusive
  <1>2. CASE ~CreateError(c)
    <2>1. UNCHANGED <<creatingNames, pendingIPs>>
      BY <1>2 DEF LockCreate, Scan, ListNas, PvName, Fit, ListIPs, StopWaiting
    <2>2. \A d \in Calls : call'[d].held = call[d].held /\ call'[d].ip = call[d].ip
      <3> USE <1>2 DEF TypeOK, Call
      <3>1. CASE LockCreate(c)
        BY <3>1 DEF LockCreate
      <3>2. CASE Scan(c)
        BY <3>2 DEF Scan
      <3>3. CASE ListNas(c)
        <4>1. PICK n : Place(c, n)
          BY <3>3 DEF ListNas
        <4> QED BY <4>1 DEF Place
      <3>4. CASE PvName(c)
        <4>1. PICK n : call' = [call EXCEPT ![c].name = n, ![c].pc = "fit"]
          BY <3>4 DEF PvName
        <4> QED BY <4>1
      <3>5. CASE Fit(c)
        BY <3>5 DEF Fit, Place
      <3>6. CASE ListIPs(c)
        BY <3>6 DEF ListIPs
      <3>7. CASE StopWaiting(c)
        BY <3>7 DEF StopWaiting
      <3> QED BY <3>1, <3>2, <3>3, <3>4, <3>5, <3>6, <3>7
    <2> QED BY <2>1, <2>2, KeepHeld
  <1> QED BY <1>1, <1>2

(* A restart forgets the holders with their handlers: only replies survive, *)
(* and they hold nothing.                                                   *)
LEMMA RestartExclusive ==
  ASSUME TypeOK, CallsWellFormed, Exclusive, Restart
  PROVE  Exclusive'
  <1>1. \A d \in Calls : call'[d] = Idle \/ (call'[d] = call[d] /\ call[d].pc = "done")
    BY DEF Restart
  <1>2. Idle.held = None /\ Idle.ip = None
    BY DEF Idle
  <1>3. "done" \notin HoldingPCs
    BY DEF HoldingPCs, JobPCs
  <1>4. \A d \in Calls : call[d].pc = "done" => call[d].held = None /\ call[d].ip = None
    BY <1>3 DEF CallsWellFormed, WellFormed
  <1>5. \A d \in Calls : call'[d].held = None /\ call'[d].ip = None
    BY <1>1, <1>2, <1>4
  <1> QED BY <1>5 DEF Exclusive, HeldNamesExclusive, PendingIPsExclusive

-----------------------------------------------------------------------------
(* Queues. *)

(* UnsetQueue unlocks the mutex exactly when it removes the operating       *)
(* entry.                                                                   *)
LEMMA UnsetQueueMatches ==
  ASSUME NEW q \in Queue, MutexMatches(q), NEW v \in Volumes
  PROVE  MutexMatches(UnsetQueue(q, v))
  BY DEF Queue, MutexMatches, UnsetQueue

(* A pending entry does not count.                                          *)
LEMMA PendingMatches ==
  ASSUME NEW q \in Queue, MutexMatches(q), NEW v \in Volumes, q.entry[v] = "none"
  PROVE  MutexMatches([q EXCEPT !.entry[v] = "pending"])
  BY DEF Queue, MutexMatches

(* Locking the mutex makes one entry the operating one.                     *)
LEMMA LockMatches ==
  ASSUME NEW q \in Queue, MutexMatches(q), NEW v \in Volumes, ~q.locked
  PROVE  MutexMatches([entry |-> [q.entry EXCEPT ![v] = "operating"], locked |-> TRUE])
  BY DEF Queue, MutexMatches

(* The deferred UnsetQueue of an error return, whosever entry it removes.   *)
LEMMA ErrorQueues ==
  ASSUME TypeOK, QueuesConsistent, NEW c \in Calls, call[c].vol \in Volumes,
         CreateError(c) \/ DeleteError(c)
  PROVE  QueuesConsistent'
  <1>1. /\ MutexMatches(UnsetQueue(creatingQ, call[c].vol))
        /\ MutexMatches(UnsetQueue(deletingQ, call[c].vol))
    BY UnsetQueueMatches DEF TypeOK, QueuesConsistent
  <1> QED BY <1>1 DEF QueuesConsistent, CreateError, DeleteError

(* The two halves of Queue.                                                 *)
LEMMA QueueStepsQueues ==
  ASSUME TypeOK, CallsWellFormed, QueuesConsistent, NEW c \in Calls,
         QueueCreate(c) \/ LockCreate(c) \/ QueueDelete(c) \/ LockDelete(c)
  PROVE  QueuesConsistent'
  <1>1. call[c].vol \in Volumes
    BY DEF CallsWellFormed, WellFormed, QueueCreate, LockCreate, QueueDelete, LockDelete
  <1>2. CASE QueueCreate(c)
    <2>1. CASE CreateError(c)
      BY <1>1, <2>1, ErrorQueues
    <2>2. CASE /\ creatingQ.entry[call[c].vol] = "none"
               /\ creatingQ' = [creatingQ EXCEPT !.entry[call[c].vol] = "pending"]
               /\ deletingQ' = deletingQ
      <3>1. MutexMatches(creatingQ')
        BY <1>1, <2>2, PendingMatches DEF TypeOK, QueuesConsistent
      <3> QED BY <2>2, <3>1 DEF QueuesConsistent
    <2> QED BY <1>2, <2>1, <2>2 DEF QueueCreate
  <1>3. CASE LockCreate(c)
    BY <1>1, <1>3, LockMatches DEF TypeOK, QueuesConsistent, LockCreate
  <1>4. CASE QueueDelete(c)
    <2>1. CASE DeleteError(c)
      BY <1>1, <2>1, ErrorQueues
    <2>2. CASE /\ deletingQ.entry[call[c].vol] = "none"
               /\ deletingQ' = [deletingQ EXCEPT !.entry[call[c].vol] = "pending"]
               /\ creatingQ' = creatingQ
      <3>1. MutexMatches(deletingQ')
        BY <1>1, <2>2, PendingMatches DEF TypeOK, QueuesConsistent
      <3> QED BY <2>2, <3>1 DEF QueuesConsistent
    <2> QED BY <1>4, <2>1, <2>2 DEF QueueDelete
  <1>5. CASE LockDelete(c)
    BY <1>1, <1>5, LockMatches DEF TypeOK, QueuesConsistent, LockDelete
  <1> QED BY <1>2, <1>3, <1>4, <1>5

(* pvAdded and pvDeleted.                                                   *)
LEMMA InformerQueues ==
  ASSUME TypeOK, QueuesConsistent, NEW v \in Volumes, PvAdded(v) \/ PvDeleted(v)
  PROVE  QueuesConsistent'
  BY UnsetQueueMatches DEF TypeOK, QueuesConsistent, PvAdded, PvDeleted

(* The queues of a new process.                                             *)
LEMMA RestartQueues ==
  ASSUME Restart
  PROVE  QueuesConsistent'
  BY DEF QueuesConsistent, MutexMatches, Restart, EmptyQueue

-----------------------------------------------------------------------------
(* Instances. *)

AbsentPCs == {"listIPs", "pickIP", "create"}

AbsentOK(r) == r.pc \in AbsentPCs => nas[r.name].status = "absent"

InstancesOK == NoDuplicateCreate /\ RootSquashOff

(* The two properties, handler by handler.                                  *)
LEMMA InstancesOKDef == InstancesOK <=> \A c \in Calls : AbsentOK(call[c]) /\ SquashOff(call[c])
  BY DEF InstancesOK, NoDuplicateCreate, AbsentOK, AbsentPCs, RootSquashOff

(* Instances come and go as InstancesStep needs it. *)
InstancesKept ==
    \A n \in Names :
        /\ nas[n].status = "absent" => nas'[n].status = "absent"
        /\ nas[n].noRootSquash \/ nas[n].status = "absent"
              => nas'[n].noRootSquash \/ nas'[n].status = "absent"

(* Instances are kept, and each handler that moved meets the conditions of  *)
(* its new place.                                                           *)
LEMMA InstancesStep ==
  ASSUME TypeOK, CallsWellFormed, InstancesOK, InstancesKept,
         \A d \in Calls : call'[d] = call[d] \/ (AbsentOK(call[d])' /\ SquashOff(call[d])')
  PROVE  InstancesOK'
  <1> SUFFICES ASSUME NEW d \in Calls, call'[d] = call[d]
               PROVE  AbsentOK(call[d])' /\ SquashOff(call[d])'
    BY InstancesOKDef DEF InstancesOK, NoDuplicateCreate, AbsentOK, AbsentPCs, RootSquashOff
  <1>1. WellFormed(call[d]) /\ call[d] \in Call
    BY DEF TypeOK, CallsWellFormed
  <1>2. call[d].pc \in AbsentPCs \/ (call[d].op = "create" /\ call[d].pc \in ModifiedPCs)
           => call[d].name \in Names
    BY <1>1 DEF WellFormed, Call, AbsentPCs, ModifiedPCs, ReadyPCs, HoldingPCs, CreatePCs, JobPCs
  <1>3. AbsentOK(call[d]) /\ SquashOff(call[d])
    BY InstancesOKDef
  <1> QED BY <1>2, <1>3 DEF InstancesKept, AbsentOK, SquashOff

(* The same for handlers that move to a place without such conditions.      *)
LEMMA HarmlessStep ==
  ASSUME TypeOK, CallsWellFormed, InstancesOK, InstancesKept,
         \A d \in Calls : \/ call'[d] = call[d]
                          \/ call'[d].pc \notin AbsentPCs \cup ModifiedPCs
  PROVE  InstancesOK'
  BY InstancesStep DEF AbsentOK, SquashOff

(* No instance changes.                                                     *)
LEMMA SameInstances ==
  ASSUME UNCHANGED nas
  PROVE  InstancesKept
  BY DEF InstancesKept

(* A handler returns.                                                       *)
LEMMA ReturnInstances ==
  ASSUME TypeOK, CallsWellFormed, InstancesOK, InstancesKept, NEW c \in Calls, Return(c)
  PROVE  InstancesOK'
  <1>1. \A d \in Calls : call'[d] = call[d] \/ call'[d].pc = "idle"
    BY ReturnFields DEF Idle
  <1> QED BY <1>1, HarmlessStep DEF AbsentPCs, ModifiedPCs, ReadyPCs, JobPCs

(* The error returns.                                                       *)
LEMMA ErrorInstances ==
  ASSUME TypeOK, CallsWellFormed, InstancesOK, InstancesKept, NEW c \in Calls,
         CreateError(c) \/ DeleteError(c)
  PROVE  InstancesOK'
  BY ReturnInstances DEF CreateError, DeleteError

(* A handler moves to a place whose conditions hold.                        *)
LEMMA GotoInstances ==
  ASSUME TypeOK, CallsWellFormed, InstancesOK, InstancesKept, NEW c \in Calls, NEW p, Goto(c, p),
         p \in AbsentPCs => nas'[call[c].name].status = "absent",
         call[c].op = "create" /\ p \in ModifiedPCs
            => nas'[call[c].name].noRootSquash \/ nas'[call[c].name].status = "absent"
  PROVE  InstancesOK'
  <1>1. \A d \in Calls \ {c} : call'[d] = call[d]
    BY DEF TypeOK, Goto
  <1>2. AbsentOK(call[c])' /\ SquashOff(call[c])'
    BY GotoFields DEF AbsentOK, SquashOff
  <1> QED BY <1>1, <1>2, InstancesStep

(* The actions that lead to a place without conditions.                     *)
LEMMA HarmlessActions ==
  ASSUME TypeOK, CallsWellFormed, InstancesOK, NEW c \in Calls, UNCHANGED nas,
         \/ \E v \in Volumes : CreateVolume(c, v) \/ DeleteVolume(c, v)
         \/ QueueCreate(c) \/ LockCreate(c) \/ Scan(c) \/ ListNas(c) \/ PvName(c) \/ Fit(c)
         \/ SetCreating(c) \/ CreateOK(c)
  PROVE  InstancesOK'
  <1>1. CASE CreateError(c)
    BY <1>1, ErrorInstances, SameInstances
  <1>2. CASE ~CreateError(c)
    <2> DEFINE Safe == {"queue", "lock", "scan", "listNas", "pvName", "fit", "hold", "get",
                        "done", "delGet"}
    <2>1. call'[c].pc \in Safe
      <3> USE <1>2 DEF TypeOK, Call
      <3>1. ASSUME NEW v \in Volumes, CreateVolume(c, v)
            PROVE  call'[c].pc \in Safe
        BY <3>1 DEF CreateVolume, Idle
      <3>2. ASSUME NEW v \in Volumes, DeleteVolume(c, v)
            PROVE  call'[c].pc \in Safe
        BY <3>2 DEF DeleteVolume, Idle
      <3>3. CASE QueueCreate(c)
        BY <3>3, GotoFields DEF QueueCreate
      <3>4. CASE LockCreate(c)
        BY <3>4 DEF LockCreate
      <3>5. CASE Scan(c)
        BY <3>5 DEF Scan
      <3>6. CASE ListNas(c)
        <4>1. PICK n : Place(c, n)
          BY <3>6 DEF ListNas
        <4> QED BY <4>1 DEF Place
      <3>7. CASE PvName(c)
        <4>1. PICK n : call' = [call EXCEPT ![c].name = n, ![c].pc = "fit"]
          BY <3>7 DEF PvName
        <4> QED BY <4>1
      <3>8. CASE Fit(c)
        BY <3>8 DEF Fit, Place
      <3>9. CASE SetCreating(c)
        BY <3>9 DEF SetCreating
      <3>10. CASE CreateOK(c)
        BY <3>10 DEF CreateOK
      <3> QED BY <3>1, <3>2, <3>3, <3>4, <3>5, <3>6, <3>7, <3>8, <3>9, <3>10
    <2>2. \A d \in Calls \ {c} : call'[d] = call[d]
      <3> USE <1>2 DEF TypeOK
      <3>1. ASSUME NEW v \in Volumes, CreateVolume(c, v) \/ DeleteVolume(c, v)
            PROVE  \A d \in Calls \ {c} : call'[d] = call[d]
        BY <3>1 DEF CreateVolume, DeleteVolume
      <3>2. CASE QueueCreate(c) \/ LockCreate(c) \/ Scan(c) \/ SetCreating(c) \/ CreateOK(c)
        BY <3>2 DEF QueueCreate, Goto, LockCreate, Scan, SetCreating, CreateOK
      <3>3. CASE ListNas(c) \/ PvName(c) \/ Fit(c)
        BY <3>3 DEF ListNas, PvName, Fit, Place
      <3> QED BY <3>1, <3>2, <3>3
    <2> QED
      BY <2>1, <2>2, HarmlessStep, SameInstances DEF AbsentPCs, ModifiedPCs, ReadyPCs, JobPCs
  <1> QED BY <1>1, <1>2

(* Reserving an address: the instance is still missing.                     *)
LEMMA IPInstances ==
  ASSUME TypeOK, CallsWellFormed, InstancesOK, NEW c \in Calls, ListIPs(c) \/ GetUnreservedIP(c)
  PROVE  InstancesOK'
  <1>1. UNCHANGED nas /\ AbsentOK(call[c]) /\ call[c].pc \in AbsentPCs
    BY InstancesOKDef DEF ListIPs, GetUnreservedIP, AbsentPCs
  <1>2. CASE CreateError(c)
    BY <1>1, <1>2, ErrorInstances, SameInstances
  <1>3. CASE ~CreateError(c)
    <2>1. /\ call'[c].pc \in AbsentPCs \ ModifiedPCs
          /\ call'[c].name = call[c].name
          /\ \A d \in Calls \ {c} : call'[d] = call[d]
      <3> USE <1>3 DEF TypeOK, Call, AbsentPCs, ModifiedPCs, ReadyPCs, JobPCs
      <3>1. CASE ListIPs(c)
        BY <3>1 DEF ListIPs
      <3>2. CASE GetUnreservedIP(c)
        <4>1. PICK ip : call' = [call EXCEPT ![c].ip = ip, ![c].seenIPs = {}, ![c].pc = "create"]
          BY <3>2 DEF GetUnreservedIP
        <4> QED BY <4>1
      <3> QED BY <3>1, <3>2
    <2>2. AbsentOK(call[c])' /\ SquashOff(call[c])'
      BY <1>1, <2>1 DEF AbsentOK, SquashOff
    <2> QED BY <1>1, <2>1, <2>2, InstancesStep, SameInstances
  <1> QED BY <1>2, <1>3

(* GetNasInstance, the waits and the checks after them establish what they  *)
(* let pass.                                                                *)
LEMMA CreateStepsInstances ==
  ASSUME TypeOK, CallsWellFormed, InstancesOK, NEW c \in Calls,
         GetInstance(c) \/ WaitAvailable(c) \/ Refetch(c) \/ RestoreSnapshot(c)
  PROVE  InstancesOK'
  <1> DEFINE n == nas[call[c].name]
  <1>1. UNCHANGED nas /\ InstancesKept
    BY SameInstances DEF GetInstance, WaitAvailable, Refetch, RestoreSnapshot
  <1>2. SquashOff(call[c])
    BY InstancesOKDef
  <1>3. WellFormed(call[c])
    BY DEF CallsWellFormed
  <1>4. CASE CreateError(c)
    BY <1>1, <1>4, ErrorInstances
  <1>5. ASSUME NEW p \in {"listIPs", "create"}, Goto(c, p), n.status = "absent"
        PROVE  InstancesOK'
    BY <1>1, <1>5, GotoInstances DEF ModifiedPCs, ReadyPCs, JobPCs
  <1>6. ASSUME NEW p \in {"waitCreated", "modify", "refetch"}, Goto(c, p)
        PROVE  InstancesOK'
    BY <1>1, <1>6, GotoInstances DEF AbsentPCs, ModifiedPCs, ReadyPCs, JobPCs
  <1>7. ASSUME NEW p \in {"job", "restore", "reply", "refetched"}, Goto(c, p),
               n.noRootSquash \/ n.status = "absent"
        PROVE  InstancesOK'
    BY <1>1, <1>7, GotoInstances DEF AbsentPCs
  <1>8. CASE GetInstance(c)
    BY <1>4, <1>5, <1>6, <1>7, <1>8, AfterType DEF GetInstance
  <1>9. call[c].pc \in {"waitModified", "refetched", "restore"}
           => n.noRootSquash \/ n.status = "absent"
    BY <1>2, <1>3 DEF SquashOff, WellFormed, ModifiedPCs, ReadyPCs, CreatePCs
  <1>10. CASE WaitAvailable(c)
    BY <1>4, <1>6, <1>7, <1>9, <1>10 DEF WaitAvailable
  <1>11. CASE Refetch(c)
    BY <1>4, <1>6, <1>7, <1>9, <1>11, AfterType DEF Refetch
  <1>12. CASE RestoreSnapshot(c)
    BY <1>7, <1>9, <1>12 DEF RestoreSnapshot
  <1> QED BY <1>8, <1>10, <1>11, <1>12

(* Two handlers that hold names work on different instances.                *)
LEMMA NamesDiffer ==
  ASSUME CallsWellFormed, HeldNamesExclusive
  PROVE  NamesExclusive
  BY DEF CallsWellFormed, WellFormed, HeldNamesExclusive, NamesExclusive, Holding

(* The one step that may turn an absent instance into another one: the name *)
(* belongs to the handler that takes it.                                    *)
LEMMA CreateInstanceInstances ==
  ASSUME TypeOK, CallsWellFormed, HeldNamesExclusive, InstancesOK, NEW c \in Calls,
         CreateInstance(c)
  PROVE  InstancesOK'
  <1>1. Holding(c)
    BY DEF CreateInstance, CallsWellFormed, WellFormed, Holding, HoldingPCs, CreatePCs
  <1>2. \A m \in Names : m # call[c].name => nas'[m] = nas[m]
    BY DEF TypeOK, CreateInstance
  <1>3. call'[c].pc \in {"waitCreated", "idle"} /\ \A d \in Calls \ {c} : call'[d] = call[d]
    <2>1. CASE Goto(c, "waitCreated")
      BY <2>1 DEF TypeOK, Call, Goto
    <2>2. CASE Return(c)
      BY <2>2, ReturnFields DEF Idle
    <2> QED BY <2>1, <2>2 DEF CreateInstance, CreateError
  <1>4. AbsentOK(call[c])' /\ SquashOff(call[c])'
    BY <1>3 DEF AbsentOK, SquashOff, AbsentPCs, ModifiedPCs, ReadyPCs, JobPCs
  <1>5. ASSUME NEW d \in Calls \ {c}
        PROVE  AbsentOK(call[d])' /\ SquashOff(call[d])'
    <2>1. WellFormed(call[d]) /\ call[d] \in Call
      BY DEF TypeOK, CallsWellFormed
    <2>2. Holding(d) => call[d].name # call[c].name
      BY <1>1, NamesDiffer DEF NamesExclusive
    <2>3. call[d].pc \in AbsentPCs \/ (call[d].op = "create" /\ call[d].pc \in ModifiedPCs)
             => Holding(d) /\ call[d].name \in Names
      BY <2>1 DEF WellFormed, Call, Holding, AbsentPCs, ModifiedPCs, ReadyPCs, HoldingPCs,
                  CreatePCs, JobPCs
    <2>4. AbsentOK(call[d]) /\ SquashOff(call[d])
      BY InstancesOKDef
    <2>5. call'[d] = call[d]
      BY <1>3
    <2> QED BY <1>2, <2>2, <2>3, <2>4, <2>5 DEF AbsentOK, SquashOff
  <1> QED
    BY <1>4, <1>5 DEF InstancesOK, NoDuplicateCreate, AbsentOK, AbsentPCs, RootSquashOff

(* ModifyNasInstance switches root squash off.                              *)
LEMMA ModifyInstances ==
  ASSUME TypeOK, CallsWellFormed, InstancesOK, NEW c \in Calls, ModifyInstance(c)
  PROVE  InstancesOK'
  <1>1. CASE CreateError(c) /\ UNCHANGED nas
    BY <1>1, ErrorInstances, SameInstances
  <1>2. CASE /\ nas[call[c].name].status = "available"
             /\ nas' = [nas EXCEPT ![call[c].name].status = "modifying",
                                   ![call[c].name].noRootSquash = TRUE]
             /\ Goto(c, "waitModified")
    <2>1. WellFormed(call[c]) /\ call[c] \in Call /\ call[c].pc = "modify"
      BY DEF TypeOK, CallsWellFormed, ModifyInstance
    <2>2. call[c].name \in Names
      BY <2>1 DEF WellFormed, Call, HoldingPCs, CreatePCs
    <2>3. InstancesKept
      BY <1>2, <2>2 DEF TypeOK, Instance, InstancesKept
    <2>4. nas'[call[c].name].noRootSquash
      BY <1>2, <2>2 DEF TypeOK, Instance
    <2> QED BY <1>2, <2>3, <2>4, GotoInstances DEF AbsentPCs
  <1> QED BY <1>1, <1>2 DEF ModifyInstance

(* The steps of doNfsJob.                                                   *)
LEMMA JobStepsInstances ==
  ASSUME TypeOK, CallsWellFormed, InstancesOK, NEW c \in Calls,
         CreateJob(c) \/ RecreateJob(c) \/ PollJob(c)
  PROVE  InstancesOK'
  <1>1. UNCHANGED nas /\ InstancesKept
    BY SameInstances DEF CreateJob, RecreateJob, PollJob
  <1>2. call[c].pc \in JobPCs /\ SquashOff(call[c])
    BY InstancesOKDef DEF CreateJob, RecreateJob, PollJob, JobPCs
  <1>3. CASE Error(c)
    BY <1>1, <1>3, ErrorInstances DEF Error
  <1>4. ASSUME NEW p \in JobPCs \cup {"restore", "reply", "delCheck"}, Goto(c, p)
        PROVE  InstancesOK'
    <2>1. call[c].op = "create" => \/ nas'[call[c].name].noRootSquash
                                   \/ nas'[call[c].name].status = "absent"
      BY <1>1, <1>2 DEF SquashOff, ModifiedPCs, ReadyPCs
    <2> QED
      BY <1>1, <1>4, <2>1, GotoInstances DEF AbsentPCs, JobPCs
  <1> QED BY <1>3, <1>4, AfterType DEF CreateJob, RecreateJob, PollJob, JobPCs

(* The steps of DeleteVolume never bring an instance back.                  *)
LEMMA DeleteStepsInstances ==
  ASSUME TypeOK, CallsWellFormed, InstancesOK, NEW c \in Calls,
         \/ QueueDelete(c) \/ LockDelete(c) \/ DelGet(c) \/ DelCheck(c) \/ DeleteInstance(c)
         \/ ApiError(c)
  PROVE  InstancesOK'
  <1>1. InstancesKept
    BY SameInstances
    DEF TypeOK, Instance, InstancesKept, QueueDelete, LockDelete, DelGet, DelCheck,
        DeleteInstance, ApiError
  <1>2. CASE CreateError(c) \/ DeleteError(c)
    BY <1>1, <1>2, ErrorInstances
  <1>3. ASSUME NEW p \in {"delLock", "done", "delQueue", "delNas"}, Goto(c, p)
        PROVE  InstancesOK'
    BY <1>1, <1>3, GotoInstances DEF AbsentPCs, ModifiedPCs, ReadyPCs, JobPCs
  <1>4. CASE LockDelete(c)
    <2>1. call[c].op = "delete" /\ Goto(c, "job")
      BY <1>4 DEF CallsWellFormed, WellFormed, LockDelete, DeletePCs
    <2> QED BY <1>1, <2>1, GotoInstances DEF AbsentPCs
  <1> QED
    BY <1>2, <1>3, <1>4 DEF QueueDelete, DelGet, DelCheck, DeleteInstance, ApiError, Error

(* Neither informer, cloud, jobs, replies nor a restart bring an instance   *)
(* back.                                                                    *)
LEMMA OtherInstances ==
  ASSUME TypeOK, CallsWellFormed, InstancesOK,
         \/ \E v \in Volumes : PvAdded(v) \/ PvDeleted(v)
         \/ \E n \in Names : CloudSettles(n) \/ JobRuns(n) \/ JobVanishes(n)
         \/ \E c \in Calls : Reply(c)
         \/ Restart
  PROVE  InstancesOK'
  <1>1. ASSUME NEW v \in Volumes, PvAdded(v) \/ PvDeleted(v)
        PROVE  InstancesOK'
    BY <1>1, SameInstances, HarmlessStep DEF PvAdded, PvDeleted
  <1>2. ASSUME NEW n \in Names, CloudSettles(n) \/ JobRuns(n) \/ JobVanishes(n)
        PROVE  InstancesOK'
    <2>1. UNCHANGED call
      BY <1>2 DEF CloudSettles, JobRuns, JobVanishes
    <2>2. InstancesKept
      <3> USE DEF TypeOK, Instance, InstancesKept
      <3>1. CASE CloudSettles(n)
        BY <3>1 DEF CloudSettles, NoInstance
      <3>2. CASE JobRuns(n)
        <4>1. PICK D : nas' = [nas EXCEPT ![n].dirs = D]
          BY <3>2 DEF JobRuns
        <4> QED BY <4>1
      <3>3. CASE JobVanishes(n)
        BY <3>3 DEF JobVanishes
      <3> QED BY <1>2, <3>1, <3>2, <3>3
    <2> QED BY <2>1, <2>2, HarmlessStep
  <1>3. ASSUME NEW c \in Calls, Reply(c)
        PROVE  InstancesOK'
    BY <1>3, ReturnInstances, SameInstances DEF Reply, ProvisionerBinds, ProvisionerUnbinds, LostReply
  <1>4. CASE Restart
    <2>1. \A d \in Calls : call'[d] = call[d] \/ call'[d].pc = "idle"
      BY <1>4 DEF Restart, Idle
    <2> QED
      BY <1>4, <2>1, SameInstances, HarmlessStep
      DEF Restart, AbsentPCs, ModifiedPCs, ReadyPCs, JobPCs
  <1> QED BY <1>1, <1>2, <1>3, <1>4

(* A cancelled context changes no instance.                                 *)
LEMMA StopWaitingInstances ==
  ASSUME TypeOK, CallsWellFormed, InstancesOK, NEW c \in Calls, StopWaiting(c)
  PROVE  InstancesOK'
  <1>1. \A d \in Calls : /\ call'[d].op = call[d].op /\ call'[d].pc = call[d].pc
                         /\ call'[d].name = call[d].name
    BY DEF TypeOK, Call, StopWaiting
  <1>2. UNCHANGED nas
    BY DEF StopWaiting
  <1> QED BY <1>1, <1>2
          DEF InstancesOK, NoDuplicateCreate, RootSquashOff, SquashOff

-----------------------------------------------------------------------------
(* The invariant. *)

(* The invariant holds when the controller starts with nothing provisioned. *)
LEMMA InitIInv == Init => IInv
  <1> SUFFICES ASSUME Init PROVE IInv
    OBVIOUS
  <1>1. \A c \in Calls : call[c] = Idle
    BY DEF Init
  <1>2. TypeOK
    <2>1. EmptyQueue \in Queue /\ NoInstance \in Instance /\ NoJob \in Job
      BY DEF EmptyQueue, Queue, NoInstance, Instance, NoJob, Job
    <2> QED BY <2>1, IdleType DEF Init, TypeOK
  <1>3. CallsWellFormed
    BY <1>1, IdleWellFormed DEF CallsWellFormed
  <1>4. JobsWellFormed
    BY DEF Init, JobsWellFormed, NoJob
  <1>5. HeldNamesExclusive /\ PendingIPsExclusive
    BY <1>1 DEF HeldNamesExclusive, PendingIPsExclusive, Idle
  <1>6. QueuesConsistent
    BY DEF Init, QueuesConsistent, MutexMatches, EmptyQueue
  <1>7. NoDuplicateCreate /\ RootSquashOff
    BY <1>1 DEF NoDuplicateCreate, RootSquashOff, SquashOff, ModifiedPCs, ReadyPCs, JobPCs, Idle
  <1> QED BY <1>2, <1>3, <1>4, <1>5, <1>6, <1>7 DEF IInv

(* Every step preserves the type invariant.                                 *)
LEMMA TypeStep == IInv /\ Next => TypeOK'
  <1> SUFFICES ASSUME IInv, Next PROVE TypeOK'
    OBVIOUS
  <1> USE DEF IInv
  <1>1. ASSUME NEW c \in Calls, NEW v \in Volumes, CreateVolume(c, v) \/ DeleteVolume(c, v)
        PROVE  TypeOK'
    BY <1>1, CreateVolumeType, DeleteVolumeType
  <1>2. ASSUME NEW c \in Calls,
               QueueCreate(c) \/ Scan(c) \/ ListNas(c) \/ PvName(c) \/ Fit(c)
        PROVE  TypeOK'
    BY <1>2, QueueCreateType, ScanType, ListNasType, PvNameType, FitType
  <1>3. ASSUME NEW c \in Calls, SetCreating(c)
        PROVE  TypeOK'
    BY <1>3, SetCreatingType DEF CallsWellFormed, WellFormed, SetCreating
  <1>4. ASSUME NEW c \in Calls, ListIPs(c) \/ CreateInstance(c) \/ ModifyInstance(c) \/ CreateOK(c)
        PROVE  TypeOK'
    BY <1>4, ListIPsType, CreateInstanceType, ModifyInstanceType, CreateOKType
  <1>5. ASSUME NEW c \in Calls, GetUnreservedIP(c)
        PROVE  TypeOK'
    BY <1>5, GetUnreservedIPType DEF CallsWellFormed, WellFormed, GetUnreservedIP
  <1>6. ASSUME NEW c \in Calls,
               \/ GetInstance(c) \/ WaitAvailable(c) \/ Refetch(c) \/ RestoreSnapshot(c)
               \/ DelGet(c) \/ DelCheck(c) \/ ApiError(c)
        PROVE  TypeOK'
    BY <1>6, MoveActionsType
  <1>7. ASSUME NEW c \in Calls, CreateJob(c) \/ RecreateJob(c) \/ PollJob(c)
        PROVE  TypeOK'
    BY <1>7, JobActionsType
  <1>8. ASSUME NEW c \in Calls, QueueDelete(c) \/ DeleteInstance(c) \/ LockCreate(c) \/ LockDelete(c)
        PROVE  TypeOK'
    BY <1>8, QueueDeleteType, DeleteInstanceType, LockCreateType, LockDeleteType
  <1>9. ASSUME NEW c \in Calls, Reply(c)
        PROVE  TypeOK'
    BY <1>9, ReplyType
       DEF CallsWellFormed, WellFormed, Reply, ProvisionerBinds, ProvisionerUnbinds, LostReply
  <1>10. ASSUME NEW c \in Calls, StopWaiting(c)
        PROVE  TypeOK'
    BY <1>10, StopWaitingType
  <1>11. ASSUME NEW v \in Volumes, PvAdded(v) \/ PvDeleted(v)
        PROVE  TypeOK'
    BY <1>11, InformerType
  <1>12. ASSUME NEW n \in Names, CloudSettles(n) \/ JobRuns(n) \/ JobVanishes(n)
        PROVE  TypeOK'
    BY <1>12, CloudType
  <1>13. CASE Restart
    BY <1>13, RestartType
  <1> QED
    BY <1>1, <1>2, <1>3, <1>4, <1>5, <1>6, <1>7, <1>8, <1>9, <1>10, <1>11, <1>12, <1>13
    DEF Next, Step

(* Every step keeps the records of the handlers well-formed.                *)
LEMMA WellFormedStep == IInv /\ Next => CallsWellFormed'
  <1> SUFFICES ASSUME IInv, Next PROVE CallsWellFormed'
    OBVIOUS
  <1> USE DEF IInv
  <1>1. ASSUME NEW c \in Calls, NEW v \in Volumes, CreateVolume(c, v) \/ DeleteVolume(c, v)
        PROVE  CallsWellFormed'
    BY <1>1, CreateVolumeWellFormed, DeleteVolumeWellFormed
  <1>2. ASSUME NEW c \in Calls,
               \/ QueueCreate(c) \/ QueueDelete(c) \/ LockDelete(c) \/ LockCreate(c)
               \/ Scan(c) \/ ListNas(c) \/ PvName(c) \/ Fit(c)
        PROVE  CallsWellFormed'
    BY <1>2, QueueWellFormed, LockCreateWellFormed, ScanWellFormed, ListNasWellFormed,
       PvNameWellFormed, FitWellFormed
  <1>3. ASSUME NEW c \in Calls,
               \/ SetCreating(c) \/ ListIPs(c) \/ GetUnreservedIP(c)
               \/ GetInstance(c) \/ CreateInstance(c) \/ WaitAvailable(c) \/ Refetch(c)
               \/ ModifyInstance(c) \/ RestoreSnapshot(c) \/ CreateOK(c)
        PROVE  CallsWellFormed'
    BY <1>3, SetCreatingWellFormed, IPWellFormed, CreateStepsWellFormed, CreateOKWellFormed
  <1>4. ASSUME NEW c \in Calls,
               \/ CreateJob(c) \/ RecreateJob(c) \/ PollJob(c)
               \/ DelGet(c) \/ DelCheck(c) \/ DeleteInstance(c) \/ ApiError(c)
        PROVE  CallsWellFormed'
    BY <1>4, JobStepsWellFormed, DeleteStepsWellFormed
  <1>5. ASSUME NEW c \in Calls, Reply(c)
        PROVE  CallsWellFormed'
    BY <1>5, ReturnWellFormed DEF Reply, ProvisionerBinds, ProvisionerUnbinds, LostReply
  <1>6. ASSUME NEW c \in Calls, StopWaiting(c)
        PROVE  CallsWellFormed'
    BY <1>6, StopWaitingWellFormed
  <1>7. CASE UNCHANGED call
    BY <1>7 DEF CallsWellFormed, WellFormed
  <1>8. CASE Restart
    BY <1>8, RestartWellFormed
  <1>9. ASSUME NEW v \in Volumes, PvAdded(v) \/ PvDeleted(v)
        PROVE  UNCHANGED call
    BY <1>9 DEF PvAdded, PvDeleted
  <1>10. ASSUME NEW n \in Names, CloudSettles(n) \/ JobRuns(n) \/ JobVanishes(n)
        PROVE  UNCHANGED call
    BY <1>10 DEF CloudSettles, JobRuns, JobVanishes
  <1> QED
    BY <1>1, <1>2, <1>3, <1>4, <1>5, <1>6, <1>7, <1>8, <1>9, <1>10 DEF Next, Step

(* Every step keeps the jobs well-formed.                                   *)
LEMMA JobsStep == IInv /\ Next => JobsWellFormed'
  <1> SUFFICES ASSUME IInv, Next PROVE JobsWellFormed'
    OBVIOUS
  <1> USE DEF IInv
  <1>1. ASSUME NEW c \in Calls, CreateJob(c) \/ RecreateJob(c) \/ PollJob(c)
        PROVE  JobsWellFormed'
    BY <1>1, JobStepsJobs
  <1>2. ASSUME NEW n \in Names, CloudSettles(n) \/ JobRuns(n) \/ JobVanishes(n)
        PROVE  JobsWellFormed'
    BY <1>2, CloudJobs
  <1>3. CASE UNCHANGED job
    BY <1>3 DEF JobsWellFormed
  <1>4. ASSUME NEW c \in Calls, NEW v \in Volumes, CreateVolume(c, v) \/ DeleteVolume(c, v)
        PROVE  UNCHANGED job
    BY <1>4 DEF CreateVolume, DeleteVolume
  <1>5. ASSUME NEW c \in Calls,
               \/ QueueCreate(c) \/ LockCreate(c) \/ Scan(c) \/ ListNas(c) \/ PvName(c) \/ Fit(c)
               \/ SetCreating(c) \/ GetInstance(c) \/ ListIPs(c) \/ GetUnreservedIP(c)
        PROVE  UNCHANGED job
    BY <1>5 DEF QueueCreate, LockCreate, Scan, ListNas, PvName, Fit, SetCreating, GetInstance,
                ListIPs, GetUnreservedIP
  <1>6. ASSUME NEW c \in Calls,
               \/ CreateInstance(c) \/ WaitAvailable(c) \/ Refetch(c) \/ ModifyInstance(c)
               \/ RestoreSnapshot(c) \/ CreateOK(c)
        PROVE  UNCHANGED job
    BY <1>6 DEF CreateInstance, WaitAvailable, Refetch, ModifyInstance, RestoreSnapshot, CreateOK
  <1>7. ASSUME NEW c \in Calls,
               \/ DelGet(c) \/ QueueDelete(c) \/ LockDelete(c) \/ DelCheck(c) \/ DeleteInstance(c)
               \/ ApiError(c) \/ Reply(c) \/ StopWaiting(c)
        PROVE  UNCHANGED job
    BY <1>7 DEF DelGet, QueueDelete, LockDelete, DelCheck, DeleteInstance, ApiError, Reply,
                ProvisionerBinds, ProvisionerUnbinds, LostReply, StopWaiting
  <1>8. ASSUME NEW v \in Volumes, PvAdded(v) \/ PvDeleted(v)
        PROVE  UNCHANGED job
    BY <1>8 DEF PvAdded, PvDeleted
  <1>9. CASE Restart
    BY <1>3, <1>9 DEF Restart
  <1> QED
    BY <1>1, <1>2, <1>3, <1>4, <1>5, <1>6, <1>7, <1>8, <1>9 DEF Next, Step

(* Every step keeps names and addresses exclusive.                          *)
LEMMA ExclusiveStep == IInv /\ Next => Exclusive'
  <1> SUFFICES ASSUME IInv, Next PROVE Exclusive'
    OBVIOUS
  <1>0. /\ TypeOK /\ CallsWellFormed /\ Exclusive
    BY DEF IInv, Exclusive
  <1>1. ASSUME NEW c \in Calls, NEW v \in Volumes, CreateVolume(c, v) \/ DeleteVolume(c, v)
        PROVE  Exclusive'
    BY <1>0, <1>1, BeginExclusive
  <1>2. ASSUME NEW c \in Calls, CreateError(c) \/ DeleteError(c)
        PROVE  Exclusive'
    BY <1>0, <1>2, ErrorExclusive
  <1>3. ASSUME NEW c \in Calls, NEW p, Goto(c, p), UNCHANGED <<creatingNames, pendingIPs>>
        PROVE  Exclusive'
    BY <1>0, <1>3, GotoExclusive
  <1>4. ASSUME NEW c \in Calls,
               \/ LockCreate(c) \/ Scan(c) \/ ListNas(c) \/ PvName(c) \/ Fit(c) \/ ListIPs(c)
               \/ StopWaiting(c) \/ SetCreating(c) \/ GetUnreservedIP(c) \/ CreateOK(c)
        PROVE  Exclusive'
    BY <1>0, <1>4, SearchExclusive, SetCreatingExclusive, GetUnreservedIPExclusive,
       CreateOKExclusive
  <1>5. ASSUME NEW c \in Calls,
               \/ QueueCreate(c) \/ GetInstance(c) \/ CreateInstance(c) \/ WaitAvailable(c)
               \/ Refetch(c) \/ ModifyInstance(c) \/ RestoreSnapshot(c)
        PROVE  Exclusive'
    BY <1>2, <1>3, <1>5 DEF QueueCreate, GetInstance, CreateInstance, WaitAvailable, Refetch,
       ModifyInstance, RestoreSnapshot
  <1>6. ASSUME NEW c \in Calls,
               \/ CreateJob(c) \/ RecreateJob(c) \/ PollJob(c) \/ DelGet(c) \/ QueueDelete(c)
               \/ LockDelete(c) \/ DelCheck(c) \/ DeleteInstance(c) \/ ApiError(c)
        PROVE  Exclusive'
    BY <1>2, <1>3, <1>6 DEF CreateJob, RecreateJob, PollJob, DelGet, QueueDelete, LockDelete,
       DelCheck, DeleteInstance, ApiError, Error
  <1>7. ASSUME NEW c \in Calls, Reply(c)
        PROVE  Exclusive'
    BY <1>0, <1>7, ReturnExclusive DEF Reply, ProvisionerBinds, ProvisionerUnbinds, LostReply
  <1>8. CASE UNCHANGED <<call, creatingNames, pendingIPs>>
    BY <1>0, <1>8, KeepHeld
  <1>9. ASSUME NEW v \in Volumes, PvAdded(v) \/ PvDeleted(v)
        PROVE  UNCHANGED <<call, creatingNames, pendingIPs>>
    BY <1>9 DEF PvAdded, PvDeleted
  <1>10. ASSUME NEW n \in Names, CloudSettles(n) \/ JobRuns(n) \/ JobVanishes(n)
        PROVE  UNCHANGED <<call, creatingNames, pendingIPs>>
    BY <1>10 DEF CloudSettles, JobRuns, JobVanishes
  <1>11. CASE Restart
    BY <1>0, <1>11, RestartExclusive
  <1> QED
    BY <1>1, <1>4, <1>5, <1>6, <1>7, <1>8, <1>9, <1>10, <1>11 DEF Next, Step

(* Every step keeps mutexes and entries in line.                            *)
LEMMA QueuesStep == IInv /\ Next => QueuesConsistent'
  <1> SUFFICES ASSUME IInv, Next PROVE QueuesConsistent'
    OBVIOUS
  <1>0. TypeOK /\ CallsWellFormed /\ QueuesConsistent
    BY DEF IInv
  <1>1. CASE UNCHANGED <<creatingQ, deletingQ>>
    BY <1>0, <1>1 DEF QueuesConsistent
  <1>2. ASSUME NEW c \in Calls, CreateError(c) \/ DeleteError(c), call[c].pc # "idle"
        PROVE  QueuesConsistent'
    BY <1>0, <1>2, ErrorQueues DEF CallsWellFormed, WellFormed
  <1>3. ASSUME NEW c \in Calls, NEW v \in Volumes, CreateVolume(c, v) \/ DeleteVolume(c, v)
        PROVE  QueuesConsistent'
    BY <1>1, <1>3 DEF CreateVolume, DeleteVolume
  <1>4. ASSUME NEW c \in Calls, QueueCreate(c) \/ LockCreate(c) \/ QueueDelete(c) \/ LockDelete(c)
        PROVE  QueuesConsistent'
    BY <1>0, <1>4, QueueStepsQueues
  <1>5. ASSUME NEW c \in Calls,
               \/ Scan(c) \/ ListNas(c) \/ PvName(c) \/ Fit(c) \/ SetCreating(c)
               \/ GetInstance(c) \/ ListIPs(c) \/ GetUnreservedIP(c)
        PROVE  QueuesConsistent'
    BY <1>1, <1>2, <1>5 DEF Scan, ListNas, PvName, Fit, SetCreating, GetInstance, ListIPs,
       GetUnreservedIP
  <1>6. ASSUME NEW c \in Calls,
               \/ CreateInstance(c) \/ WaitAvailable(c) \/ Refetch(c) \/ ModifyInstance(c)
               \/ RestoreSnapshot(c) \/ CreateOK(c)
        PROVE  QueuesConsistent'
    BY <1>1, <1>2, <1>6 DEF CreateInstance, WaitAvailable, Refetch, ModifyInstance,
       RestoreSnapshot, CreateOK
  <1>7. ASSUME NEW c \in Calls,
               \/ CreateJob(c) \/ RecreateJob(c) \/ PollJob(c) \/ DelGet(c) \/ DelCheck(c)
               \/ DeleteInstance(c)
        PROVE  QueuesConsistent'
    BY <1>1, <1>2, <1>7 DEF CreateJob, RecreateJob, PollJob, DelGet, DelCheck, DeleteInstance,
       Error
  <1>8. ASSUME NEW c \in Calls, ApiError(c)
        PROVE  QueuesConsistent'
    BY <1>2, <1>8 DEF ApiError, Error, CtxPCs, TodoPCs, JobPCs
  <1>9. ASSUME NEW c \in Calls, Reply(c) \/ StopWaiting(c)
        PROVE  QueuesConsistent'
    BY <1>1, <1>9 DEF Reply, ProvisionerBinds, ProvisionerUnbinds, LostReply, StopWaiting
  <1>10. ASSUME NEW v \in Volumes, PvAdded(v) \/ PvDeleted(v)
        PROVE  QueuesConsistent'
    BY <1>0, <1>10, InformerQueues
  <1>11. ASSUME NEW n \in Names, CloudSettles(n) \/ JobRuns(n) \/ JobVanishes(n)
        PROVE  QueuesConsistent'
    BY <1>1, <1>11 DEF CloudSettles, JobRuns, JobVanishes
  <1>12. CASE Restart
    BY <1>12, RestartQueues
  <1> QED
    BY <1>3, <1>4, <1>5, <1>6, <1>7, <1>8, <1>9, <1>10, <1>11, <1>12 DEF Next, Step

(* No step puts an instance in the place of one a handler has found         *)
(* missing, or has seen without root squash.                                *)
LEMMA InstancesOKStep == IInv /\ Next => InstancesOK'
  <1> SUFFICES ASSUME IInv, Next PROVE InstancesOK'
    OBVIOUS
  <1>0. TypeOK /\ CallsWellFormed /\ HeldNamesExclusive /\ InstancesOK
    BY DEF IInv, InstancesOK
  <1>1. ASSUME NEW c \in Calls, NEW v \in Volumes, CreateVolume(c, v) \/ DeleteVolume(c, v)
        PROVE  InstancesOK'
    <2>1. UNCHANGED nas
      BY <1>1 DEF CreateVolume, DeleteVolume
    <2> QED BY <1>0, <1>1, <2>1, HarmlessActions
  <1>2. ASSUME NEW c \in Calls,
               \/ QueueCreate(c) \/ LockCreate(c) \/ Scan(c) \/ ListNas(c) \/ PvName(c) \/ Fit(c)
               \/ SetCreating(c) \/ CreateOK(c)
        PROVE  InstancesOK'
    <2>1. UNCHANGED nas
      BY <1>2 DEF QueueCreate, LockCreate, Scan, ListNas, PvName, Fit, SetCreating, CreateOK
    <2> QED BY <1>0, <1>2, <2>1, HarmlessActions
  <1>3. ASSUME NEW c \in Calls,
               \/ GetInstance(c) \/ ListIPs(c) \/ GetUnreservedIP(c) \/ CreateInstance(c)
               \/ WaitAvailable(c) \/ Refetch(c) \/ ModifyInstance(c) \/ RestoreSnapshot(c)
        PROVE  InstancesOK'
    BY <1>0, <1>3, CreateStepsInstances, IPInstances, CreateInstanceInstances, ModifyInstances
  <1>4. ASSUME NEW c \in Calls,
               \/ CreateJob(c) \/ RecreateJob(c) \/ PollJob(c) \/ DelGet(c) \/ QueueDelete(c)
               \/ LockDelete(c) \/ DelCheck(c) \/ DeleteInstance(c) \/ ApiError(c)
               \/ StopWaiting(c)
        PROVE  InstancesOK'
    BY <1>0, <1>4, JobStepsInstances, DeleteStepsInstances, StopWaitingInstances
  <1>5. ASSUME \/ \E v \in Volumes : PvAdded(v) \/ PvDeleted(v)
               \/ \E n \in Names : CloudSettles(n) \/ JobRuns(n) \/ JobVanishes(n)
               \/ \E c \in Calls : Reply(c)
               \/ Restart
        PROVE  InstancesOK'
    BY <1>0, <1>5, OtherInstances
  <1> QED
    BY <1>1, <1>2, <1>3, <1>4, <1>5 DEF Next, Step

(* Nor does a stuttering step disturb the invariant.                        *)
LEMMA StutterIInv == IInv /\ UNCHANGED vars => IInv'
  BY DEF IInv, TypeOK, CallsWellFormed, WellFormed, JobsWellFormed, HeldNamesExclusive,
         PendingIPsExclusive, QueuesConsistent, MutexMatches, NoDuplicateCreate, RootSquashOff,
         SquashOff

(* The inductive invariant holds in every behaviour, whatever fails, times  *)
(* out or restarts.                                                         *)
THEOREM Invariance == Spec => []IInv
  <1>1. Init => IInv
    BY InitIInv
  <1>2. IInv /\ [Next]_vars => IInv'
    <2>1. IInv /\ Next => IInv'
      BY TypeStep, WellFormedStep, JobsStep, ExclusiveStep, QueuesStep, InstancesOKStep
      DEF IInv, Exclusive, InstancesOK
    <2> QED BY <2>1, StutterIInv
  <1> QED BY <1>1, <1>2, PTL DEF Spec

(* Every variable keeps its type; the search for a shared instance never    *)
(* leaves the slots there are.                                              *)
THEOREM TypeCorrect == Spec => []TypeOK
  <1>1. IInv => TypeOK
    BY DEF IInv
  <1> QED BY <1>1, Invariance, PTL

(* nasNameHolder works: no two CreateVolume handlers are ever between       *)
(* SetCreating and their return with the same NAS name.                     *)
THEOREM NamesAreExclusive == Spec => []NamesExclusive
  <1>1. IInv => NamesExclusive
    BY NamesDiffer DEF IInv
  <1> QED BY <1>1, Invariance, PTL

(* CreateNasInstance is only called for an instance that is still missing,  *)
(* however long ago GetNasInstance said so.                                 *)
THEOREM NoInstanceIsCreatedTwice == Spec => []NoDuplicateCreate
  <1>1. IInv => NoDuplicateCreate
    BY DEF IInv
  <1> QED BY <1>1, Invariance, PTL

(* ipAllocator works: an address handed out by GetUnreservedIP stays        *)
(* pending and is not handed out again until its handler returns.           *)
THEOREM AddressesAreExclusive == Spec => []PendingIPsExclusive
  <1>1. IInv => PendingIPsExclusive
    BY DEF IInv
  <1> QED BY <1>1, Invariance, PTL

(* Both operation queues keep mutex and entries in line, so that UnsetQueue *)
(* never unlocks an unlocked mutex and a locked one always has an entry     *)
(* that will unlock it.                                                     *)
THEOREM QueuesAreConsistent == Spec => []QueuesConsistent
  <1>1. IInv => QueuesConsistent
    BY DEF IInv
  <1> QED BY <1>1, Invariance, PTL

(* No handler goes on to make a source path, restore a snapshot or return a *)
(* volume on an instance whose root squash is on.                           *)
THEOREM ReadyInstancesLetRootWrite == Spec => []ReadyWithoutRootSquash
  <1>1. IInv => ReadyWithoutRootSquash
    BY DEF IInv, RootSquashOff, SquashOff, ModifiedPCs, ReadyWithoutRootSquash
  <1> QED BY <1>1, Invariance, PTL

=============================================================================
