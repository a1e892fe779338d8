----------------------- MODULE VolumeControllerQueues -----------------------
(***************************************************************************)
(* Map and mutex of OperateResourceQueue implement the abstract queue of   *)
(* ResourceQueue, for any number of requests, with errors, timeouts and    *)
(* restarts.  Every step of the controller takes a queue on by one step of *)
(* the abstract queue, or leaves it alone; what makes that true is that a  *)
(* handler that gets the mutex still has the pending entry it came with.   *)
(***************************************************************************)
EXTENDS VolumeControllerProofs

USE ConstantsAssumption DEF ctrlVars, pvVars, stores, vars, At

(* How a queue changes.                                                     *)
Unsets(q, r) == r = q \/ \E v \in Volumes : r = UnsetQueue(q, v)

Waiters == {"lock", "delLock"}

NoNewWaiter ==
    \A d \in Calls : call'[d].pc \in Waiters
                       => call'[d].pc = call[d].pc /\ call'[d].vol = call[d].vol

(* A step that lets nobody into a queue and takes at most one operating     *)
(* entry out.                                                               *)
Quiet == Unsets(creatingQ, creatingQ') /\ Unsets(deletingQ, deletingQ') /\ NoNewWaiter

EntersCreating(c) ==
    /\ At(c, "queue")
    /\ creatingQ.entry[call[c].vol] = "none"
    /\ creatingQ' = [creatingQ EXCEPT !.entry[call[c].vol] = "pending"]
    /\ UNCHANGED deletingQ
    /\ Goto(c, "lock")

EntersDeleting(c) ==
    /\ At(c, "delQueue")
    /\ deletingQ.entry[call[c].vol] = "none"
    /\ deletingQ' = [deletingQ EXCEPT !.entry[call[c].vol] = "pending"]
    /\ UNCHANGED creatingQ
    /\ Goto(c, "delLock")

-----------------------------------------------------------------------------
(* What the steps of a queue are to the abstract queue. *)

(* None is not a volume.                                                    *)
LEMMA NoneIsNoVolume == None \notin Volumes
  BY ConstantsAssumption

(* The operating entry is the one that operates.                            *)
LEMMA OperatingIs ==
  ASSUME NEW q, MutexMatches(q)
  PROVE  /\ \A v \in Volumes : q.entry[v] = "operating" => Operating(q) = v
         /\ ~q.locked => Operating(q) = None
         /\ Operating(q) # None => q.entry[Operating(q)] = "operating"
  BY DEF MutexMatches, Operating

(* UnsetQueue ends the turn of the operating resource, or does nothing, and *)
(* never touches the ones that wait.                                        *)
LEMMA UnsetIsEnd ==
  ASSUME NEW q \in Queue, NEW r, MutexMatches(q), Unsets(q, r)
  PROVE  /\ Waiting(r) = Waiting(q)
         /\ \/ Operating(r) = Operating(q)
            \/ Operating(q) # None /\ Operating(r) = None
  <1>1. CASE r = q
    BY <1>1
  <1>2. ASSUME NEW v \in Volumes, r = UnsetQueue(q, v), q.entry[v] = "operating"
        PROVE  /\ Waiting(r) = Waiting(q)
               /\ Operating(q) # None /\ Operating(r) = None
    <2>1. r = [entry |-> [q.entry EXCEPT ![v] = "none"], locked |-> FALSE]
      BY <1>2 DEF UnsetQueue
    <2>2. Waiting(r) = Waiting(q)
      BY <1>2, <2>1 DEF Queue, Waiting
    <2>3. MutexMatches(r) /\ ~r.locked
      <3>1. MutexMatches(r)
        BY <1>2, UnsetQueueMatches
      <3>2. ~r.locked
        BY <2>1
      <3> QED BY <3>1, <3>2
    <2>4. Operating(q) = v
      BY <1>2, OperatingIs
    <2>5. Operating(r) = None
      BY <2>3, OperatingIs
    <2> QED BY <2>2, <2>4, <2>5, NoneIsNoVolume
  <1>3. ASSUME NEW v \in Volumes, r = UnsetQueue(q, v), q.entry[v] # "operating"
        PROVE  r = q
    BY <1>3 DEF UnsetQueue
  <1> QED BY <1>1, <1>2, <1>3 DEF Unsets

(* A pending entry is a resource that asks for its turn.                    *)
LEMMA PendingAsks ==
  ASSUME NEW q \in Queue, NEW r, MutexMatches(q), NEW v \in Volumes, q.entry[v] = "none",
         r = [q EXCEPT !.entry[v] = "pending"]
  PROVE  /\ v \notin Waiting(q) \cup {Operating(q)}
         /\ Waiting(r) = Waiting(q) \cup {v}
         /\ Operating(r) = Operating(q)
  <1>1. v \notin Waiting(q)
    BY DEF Waiting
  <1>2. v # Operating(q)
    <2>1. Operating(q) # None => q.entry[Operating(q)] = "operating"
      BY OperatingIs
    <2> QED BY <2>1, NoneIsNoVolume
  <1>3. Waiting(r) = Waiting(q) \cup {v}
    BY DEF Queue, Waiting
  <1>4. \A w \in Volumes : r.entry[w] = "operating" <=> q.entry[w] = "operating"
    BY DEF Queue
  <1>5. MutexMatches(r)
    BY PendingMatches
  <1>6. Operating(r) = Operating(q)
    BY <1>4, <1>5, OperatingIs DEF Operating
  <1> QED BY <1>1, <1>2, <1>3, <1>6

(* Getting the mutex with a pending entry is to start after waiting.        *)
LEMMA LockStarts ==
  ASSUME NEW q \in Queue, NEW r, MutexMatches(q), NEW v \in Volumes, q.entry[v] = "pending",
         ~q.locked,
         r = [entry |-> [q.entry EXCEPT ![v] = "operating"], locked |-> TRUE]
  PROVE  /\ Operating(q) = None /\ v \in Waiting(q)
         /\ Operating(r) = v /\ Waiting(r) = Waiting(q) \ {v}
  <1>1. Operating(q) = None
    BY OperatingIs
  <1>2. MutexMatches(r)
    BY LockMatches
  <1>3. r.entry[v] = "operating"
    BY DEF Queue
  <1>4. Operating(r) = v
    BY <1>2, <1>3, OperatingIs
  <1>5. v \in Waiting(q) /\ Waiting(r) = Waiting(q) \ {v}
    BY DEF Queue, Waiting
  <1> QED BY <1>1, <1>4, <1>5

(* The queue of a new process is empty.                                     *)
LEMMA EmptyIsEmpty == Waiting(EmptyQueue) = {} /\ Operating(EmptyQueue) = None
  BY DEF EmptyQueue, Waiting, Operating

-----------------------------------------------------------------------------
(* What every step of the controller does to the queues. *)

(* Moving on to a point that is not a mutex.                                *)
LEMMA GotoQuiet ==
  ASSUME TypeOK, NEW c \in Calls, NEW p, p \notin Waiters, Goto(c, p)
  PROVE  NoNewWaiter
  BY GotoFields DEF NoNewWaiter

(* Returning.                                                               *)
LEMMA ReturnQuiet ==
  ASSUME TypeOK, NEW c \in Calls, Return(c)
  PROVE  NoNewWaiter
  BY ReturnFields DEF NoNewWaiter, Waiters, Idle

(* The deferred UnsetQueue of an error return.                              *)
LEMMA ErrorQuiet ==
  ASSUME TypeOK, CallsWellFormed, NEW c \in Calls, call[c].pc # "idle",
         CreateError(c) \/ DeleteError(c)
  PROVE  Quiet
  <1>1. call[c].vol \in Volumes
    BY DEF CallsWellFormed, WellFormed
  <1>2. NoNewWaiter
    BY ReturnQuiet DEF CreateError, DeleteError
  <1>3. Unsets(creatingQ, creatingQ') /\ Unsets(deletingQ, deletingQ')
    BY <1>1 DEF CreateError, DeleteError, Unsets
  <1> QED BY <1>2, <1>3 DEF Quiet

(* Queues left alone.                                                       *)
LEMMA SameQuiet ==
  ASSUME NoNewWaiter, UNCHANGED <<creatingQ, deletingQ>>
  PROVE  Quiet
  BY DEF Quiet, Unsets

(* The first steps of the handlers and the search for an instance.          *)
LEMMA SearchQuiet ==
  ASSUME TypeOK, CallsWellFormed, NEW c \in Calls,
         \/ \E v \in Volumes : CreateVolume(c, v) \/ DeleteVolume(c, v)
         \/ Scan(c) \/ ListNas(c) \/ PvName(c) \/ Fit(c) \/ SetCreating(c)
         \/ ListIPs(c) \/ GetUnreservedIP(c) \/ CreateOK(c) \/ StopWaiting(c)
  PROVE  Quiet
  <1> DEFINE Fails == /\ CreateError(c)
                      /\ \/ Scan(c) \/ PvName(c) \/ Fit(c) \/ SetCreating(c)
                         \/ GetUnreservedIP(c)
  <1>1. CASE Fails
    <2>1. call[c].pc # "idle"
      BY <1>1 DEF Scan, PvName, Fit, SetCreating, GetUnreservedIP
    <2> QED BY <1>1, <2>1, ErrorQuiet
  <1>2. CASE ~Fails
    <2> USE <1>2 DEF TypeOK, Call, Waiters
    <2>1. UNCHANGED <<creatingQ, deletingQ>>
      BY DEF CreateVolume, DeleteVolume, Scan, ListNas, PvName, Fit, SetCreating, ListIPs,
             GetUnreservedIP, CreateOK, StopWaiting
    <2>2. call'[c].pc \notin Waiters \/ StopWaiting(c)
      <3>1. ASSUME NEW v \in Volumes, CreateVolume(c, v) \/ DeleteVolume(c, v)
            PROVE  call'[c].pc \notin Waiters
        <4>1. CASE CreateVolume(c, v)
          BY <4>1 DEF CreateVolume, Idle
        <4>2. CASE DeleteVolume(c, v)
          BY <4>2 DEF DeleteVolume, Idle
        <4> QED BY <3>1, <4>1, <4>2
      <3>2. CASE Scan(c)
        BY <3>2 DEF Scan
      <3>3. CASE ListNas(c)
        <4>1. PICK n : Place(c, n)
          BY <3>3 DEF ListNas
        <4> QED BY <4>1 DEF Place
      <3>4. CASE PvName(c)
        <4>1. PICK n : call' = [call EXCEPT ![c].name = n, ![c].pc = "fit"]
          BY <3>4 DEF PvName
        <4> QED BY <4>1
      <3>5. CASE Fit(c)
        BY <3>5 DEF Fit, Place
      <3>6. CASE SetCreating(c) \/ ListIPs(c) \/ CreateOK(c)
        BY <3>6 DEF SetCreating, ListIPs, CreateOK
      <3>7. CASE GetUnreservedIP(c)
        <4>1. PICK ip : call' = [call EXCEPT ![c].ip = ip, ![c].seenIPs = {}, ![c].pc = "create"]
          BY <3>7 DEF GetUnreservedIP
        <4> QED BY <4>1
      <3> QED BY <3>1, <3>2, <3>3, <3>4, <3>5, <3>6, <3>7
    <2>3. \A d \in Calls \ {c} : call'[d] = call[d]
      BY DEF CreateVolume, DeleteVolume, Scan, ListNas, PvName, Fit, Place, SetCreating, ListIPs,
             GetUnreservedIP, CreateOK, StopWaiting
    <2>4. StopWaiting(c) => call'[c].pc = call[c].pc /\ call'[c].vol = call[c].vol
      BY DEF StopWaiting
    <2> QED BY <2>1, <2>2, <2>3, <2>4, SameQuiet DEF NoNewWaiter
  <1> QED BY <1>1, <1>2

(* The other steps of the handlers move on or return.                       *)
LEMMA HandlersQuiet ==
  ASSUME TypeOK, CallsWellFormed, NEW c \in Calls,
         \/ GetInstance(c) \/ CreateInstance(c) \/ WaitAvailable(c) \/ Refetch(c)
         \/ ModifyInstance(c) \/ RestoreSnapshot(c)
         \/ CreateJob(c) \/ RecreateJob(c) \/ PollJob(c)
         \/ DelGet(c) \/ DelCheck(c) \/ DeleteInstance(c)
  PROVE  Quiet
  <1>1. ASSUME NEW p, p \notin Waiters, Goto(c, p), UNCHANGED <<creatingQ, deletingQ>>
        PROVE  Quiet
    BY <1>1, GotoQuiet, SameQuiet
  <1>2. call[c].pc # "idle"
    BY DEF GetInstance, CreateInstance, WaitAvailable, Refetch, ModifyInstance, RestoreSnapshot,
           CreateJob, RecreateJob, PollJob, DelGet, DelCheck, DeleteInstance
  <1>3. CreateError(c) \/ DeleteError(c) => Quiet
    BY <1>2, ErrorQuiet
  <1>4. \A v : AfterPath(v) \notin Waiters /\ AfterReady(v) \notin Waiters
    BY DEF AfterPath, AfterReady, Waiters
  <1>5. CASE GetInstance(c) \/ CreateInstance(c) \/ WaitAvailable(c) \/ Refetch(c)
    BY <1>1, <1>3, <1>4, <1>5 DEF GetInstance, CreateInstance, WaitAvailable, Refetch, Waiters
  <1>6. CASE ModifyInstance(c) \/ RestoreSnapshot(c) \/ CreateJob(c) \/ RecreateJob(c)
    BY <1>1, <1>3, <1>6 DEF ModifyInstance, RestoreSnapshot, CreateJob, RecreateJob, Error,
                            Waiters
  <1>7. CASE PollJob(c) \/ DelGet(c) \/ DelCheck(c) \/ DeleteInstance(c)
    BY <1>1, <1>3, <1>4, <1>7 DEF PollJob, DelGet, DelCheck, DeleteInstance, Error, Waiters
  <1> QED BY <1>5, <1>6, <1>7

(* Every step enters a queue, gets its mutex, empties both queues, or lets  *)
(* nobody in.                                                               *)
LEMMA QueueSteps ==
  ASSUME IInv, Next
  PROVE  \/ Quiet
         \/ \E c \in Calls : EntersCreating(c) \/ LockCreate(c)
         \/ \E c \in Calls : EntersDeleting(c) \/ LockDelete(c)
         \/ Restart
  <1>0. TypeOK /\ CallsWellFormed
    BY DEF IInv
  <1>1. ASSUME NEW c \in Calls,
               \/ \E v \in Volumes : CreateVolume(c, v) \/ DeleteVolume(c, v)
               \/ Scan(c) \/ ListNas(c) \/ PvName(c) \/ Fit(c) \/ SetCreating(c)
               \/ ListIPs(c) \/ GetUnreservedIP(c) \/ CreateOK(c) \/ StopWaiting(c)
        PROVE  Quiet
    BY <1>0, <1>1, SearchQuiet
  <1>2. ASSUME NEW c \in Calls,
               \/ GetInstance(c) \/ CreateInstance(c) \/ WaitAvailable(c) \/ Refetch(c)
               \/ ModifyInstance(c) \/ RestoreSnapshot(c)
               \/ CreateJob(c) \/ RecreateJob(c) \/ PollJob(c)
               \/ DelGet(c) \/ DelCheck(c) \/ DeleteInstance(c)
        PROVE  Quiet
    BY <1>0, <1>2, HandlersQuiet
  <1>3. ASSUME NEW c \in Calls, QueueCreate(c)
        PROVE  Quiet \/ EntersCreating(c)
    BY <1>0, <1>3, ErrorQuiet DEF QueueCreate, EntersCreating
  <1>4. ASSUME NEW c \in Calls, QueueDelete(c)
        PROVE  Quiet \/ EntersDeleting(c)
    BY <1>0, <1>4, ErrorQuiet DEF QueueDelete, EntersDeleting
  <1>5. ASSUME NEW c \in Calls, ApiError(c)
        PROVE  Quiet
    BY <1>0, <1>5, ErrorQuiet DEF ApiError, Error, CtxPCs, TodoPCs, JobPCs
  <1>6. ASSUME NEW c \in Calls, Reply(c)
        PROVE  Quiet
    <2>1. Return(c) /\ UNCHANGED <<creatingQ, deletingQ>>
      BY <1>6 DEF Reply, ProvisionerBinds, ProvisionerUnbinds, LostReply
    <2> QED BY <1>0, <2>1, ReturnQuiet, SameQuiet
  <1>7. ASSUME NEW v \in Volumes, PvAdded(v) \/ PvDeleted(v)
        PROVE  Quiet
    BY <1>7 DEF PvAdded, PvDeleted, Quiet, Unsets, NoNewWaiter
  <1>8. ASSUME NEW n \in Names, CloudSettles(n) \/ JobRuns(n) \/ JobVanishes(n)
        PROVE  Quiet
    BY <1>8 DEF CloudSettles, JobRuns, JobVanishes, Quiet, Unsets, NoNewWaiter
  <1> QED
    BY <1>1, <1>2, <1>3, <1>4, <1>5, <1>6, <1>7, <1>8 DEF Next, Step

-----------------------------------------------------------------------------
(* A handler that waits for a mutex has its own pending entry. *)

(* Nobody enters, and only operating entries go.                            *)
LEMMA QuietInLine ==
  ASSUME TypeOK, CallsWellFormed, WaitersInLine, Quiet
  PROVE  WaitersInLine'
  <1>0. \A d \in Calls : call[d].pc \in Waiters => call[d].vol \in Volumes
    BY DEF CallsWellFormed, WellFormed, Waiters
  <1>1. ASSUME NEW q \in Queue, NEW r, Unsets(q, r), NEW v \in Volumes,
               q.entry[v] = "pending"
        PROVE  r.entry[v] = "pending"
    BY <1>1 DEF Unsets, UnsetQueue, Queue
  <1>2. InLine(creatingQ, "lock")'
    BY <1>1, <1>0 DEF TypeOK, WaitersInLine, InLine, Quiet, NoNewWaiter, Waiters
  <1>3. InLine(deletingQ, "delLock")'
    BY <1>1, <1>0 DEF TypeOK, WaitersInLine, InLine, Quiet, NoNewWaiter, Waiters
  <1> QED BY <1>2, <1>3 DEF WaitersInLine

(* A handler enters a queue that has no entry for its volume, or leaves the *)
(* line for the mutex.                                                      *)
LEMMA QueueStepsInLine ==
  ASSUME TypeOK, CallsWellFormed, WaitersInLine, NEW c \in Calls,
         EntersCreating(c) \/ LockCreate(c) \/ EntersDeleting(c) \/ LockDelete(c)
  PROVE  WaitersInLine'
  <1> DEFINE v == call[c].vol
  <1>1. v \in Volumes
    BY DEF CallsWellFormed, WellFormed, EntersCreating, LockCreate, EntersDeleting, LockDelete
  <1>2. \A d \in Calls \ {c} : call'[d] = call[d]
    BY DEF EntersCreating, LockCreate, EntersDeleting, LockDelete, Goto, TypeOK
  <1>3. CASE EntersCreating(c)
    <2>1. call'[c].pc = "lock" /\ call'[c].vol = v
      BY <1>3, GotoFields DEF EntersCreating
    <2>2. \A w \in Volumes : creatingQ'.entry[w] = IF w = v THEN "pending" ELSE creatingQ.entry[w]
      BY <1>3 DEF EntersCreating, TypeOK, Queue
    <2>3. \A d \in Calls : call[d].pc = "lock" => call[d].vol \in Volumes /\ call[d].vol # v
      BY <1>3 DEF EntersCreating, WaitersInLine, InLine, CallsWellFormed, WellFormed
    <2>4. InLine(creatingQ, "lock")'
      BY <1>1, <1>2, <2>1, <2>2, <2>3 DEF WaitersInLine, InLine
    <2>5. InLine(deletingQ, "delLock")'
      <3>1. UNCHANGED deletingQ
        BY <1>3 DEF EntersCreating
      <3> QED BY <1>2, <2>1, <3>1 DEF WaitersInLine, InLine
    <2> QED BY <2>4, <2>5 DEF WaitersInLine
  <1>4. CASE EntersDeleting(c)
    <2>1. call'[c].pc = "delLock" /\ call'[c].vol = v
      BY <1>4, GotoFields DEF EntersDeleting
    <2>2. \A w \in Volumes : deletingQ'.entry[w] = IF w = v THEN "pending" ELSE deletingQ.entry[w]
      BY <1>4 DEF EntersDeleting, TypeOK, Queue
    <2>3. \A d \in Calls : call[d].pc = "delLock" => call[d].vol \in Volumes /\ call[d].vol # v
      BY <1>4 DEF EntersDeleting, WaitersInLine, InLine, CallsWellFormed, WellFormed
    <2>4. InLine(deletingQ, "delLock")'
      BY <1>1, <1>2, <2>1, <2>2, <2>3 DEF WaitersInLine, InLine
    <2>5. InLine(creatingQ, "lock")'
      <3>1. UNCHANGED creatingQ
        BY <1>4 DEF EntersDeleting
      <3> QED BY <1>2, <2>1, <3>1 DEF WaitersInLine, InLine
    <2> QED BY <2>4, <2>5 DEF WaitersInLine
  <1>5. CASE LockCreate(c)
    <2>1. call'[c].pc = "scan"
      BY <1>5 DEF LockCreate, TypeOK, Call
    <2>2. \A w \in Volumes \ {v} : creatingQ'.entry[w] = creatingQ.entry[w]
      BY <1>5 DEF LockCreate, TypeOK, Queue
    <2>3. \A d \in Calls \ {c} : call[d].pc = "lock" => call[d].vol \in Volumes \ {v}
      BY <1>5 DEF LockCreate, WaitersInLine, InLine, CallsWellFormed, WellFormed
    <2>4. InLine(creatingQ, "lock")'
      BY <1>1, <1>2, <2>1, <2>2, <2>3 DEF WaitersInLine, InLine
    <2>5. InLine(deletingQ, "delLock")'
      <3>1. UNCHANGED deletingQ
        BY <1>5 DEF LockCreate
      <3> QED BY <1>2, <2>1, <3>1 DEF WaitersInLine, InLine
    <2> QED BY <2>4, <2>5 DEF WaitersInLine
  <1>6. CASE LockDelete(c)
    <2>1. call'[c].pc = "job"
      BY <1>6, GotoFields DEF LockDelete
    <2>2. \A w \in Volumes \ {v} : deletingQ'.entry[w] = deletingQ.entry[w]
      BY <1>6 DEF LockDelete, TypeOK, Queue
    <2>3. \A d \in Calls \ {c} : call[d].pc = "delLock" => call[d].vol \in Volumes \ {v}
      BY <1>6 DEF LockDelete, WaitersInLine, InLine, CallsWellFormed, WellFormed
    <2>4. InLine(deletingQ, "delLock")'
      BY <1>1, <1>2, <2>1, <2>2, <2>3 DEF WaitersInLine, InLine
    <2>5. InLine(creatingQ, "lock")'
      <3>1. UNCHANGED creatingQ
        BY <1>6 DEF LockDelete
      <3> QED BY <1>2, <2>1, <3>1 DEF WaitersInLine, InLine
    <2> QED BY <2>4, <2>5 DEF WaitersInLine
  <1> QED BY <1>3, <1>4, <1>5, <1>6

(* After a restart nobody waits.                                            *)
LEMMA RestartInLine ==
  ASSUME Restart
  PROVE  WaitersInLine'
  <1>1. \A d \in Calls : call'[d] = Idle \/ (call'[d] = call[d] /\ call[d].pc = "done")
    BY DEF Restart
  <1>2. \A d \in Calls : call'[d].pc \notin {"lock", "delLock"}
    BY <1>1 DEF Idle
  <1> QED BY <1>2 DEF WaitersInLine, InLine

(* Whoever waits for the mutex of a queue still has the entry it came with. *)
THEOREM WaitersKeepTheirEntry == Spec => []WaitersInLine
  <1>1. Init => WaitersInLine
    BY DEF Init, Idle, WaitersInLine, InLine
  <1>2. IInv /\ WaitersInLine /\ [Next]_vars => WaitersInLine'
    <2>1. ASSUME IInv, WaitersInLine, Next
          PROVE  WaitersInLine'
      <3>1. TypeOK /\ CallsWellFormed
        BY <2>1 DEF IInv
      <3> QED BY <2>1, <3>1, QueueSteps, QuietInLine, QueueStepsInLine, RestartInLine
    <2>2. ASSUME WaitersInLine, UNCHANGED vars
          PROVE  WaitersInLine'
      BY <2>2 DEF WaitersInLine, InLine
    <2> QED BY <2>1, <2>2
  <1> QED BY <1>1, <1>2, Invariance, PTL DEF Spec

-----------------------------------------------------------------------------
(* The refinement. *)

(* A step is a step of the abstract queue of creations, or changes nothing  *)
(* in it.                                                                   *)
LEMMA CreatingStep ==
  ASSUME IInv, WaitersInLine, Next
  PROVE  [CreatingQueue!Next]_(CreatingQueue!queue)
  <1> USE DEF CreatingQueue!Next, CreatingQueue!queue
  <1>0. /\ creatingQ \in Queue /\ MutexMatches(creatingQ) /\ CallsWellFormed
    BY DEF IInv, TypeOK, QueuesConsistent
  <1>1. CASE Unsets(creatingQ, creatingQ')
    <2>1. /\ Waiting(creatingQ)' = Waiting(creatingQ)
          /\ \/ Operating(creatingQ)' = Operating(creatingQ)
             \/ Operating(creatingQ) # None /\ Operating(creatingQ)' = None
      BY <1>0, <1>1, UnsetIsEnd
    <2> QED BY <2>1 DEF CreatingQueue!Ends
  <1>2. ASSUME NEW c \in Calls, EntersCreating(c)
        PROVE  CreatingQueue!Next
    <2>1. call[c].vol \in Volumes
      BY <1>0, <1>2 DEF EntersCreating, CallsWellFormed, WellFormed
    <2>2. /\ call[c].vol \notin Waiting(creatingQ) \cup {Operating(creatingQ)}
          /\ Waiting(creatingQ)' = Waiting(creatingQ) \cup {call[c].vol}
          /\ Operating(creatingQ)' = Operating(creatingQ)
      BY <1>0, <1>2, <2>1, PendingAsks DEF EntersCreating
    <2> QED BY <2>1, <2>2 DEF CreatingQueue!Asks
  <1>3. ASSUME NEW c \in Calls, LockCreate(c)
        PROVE  CreatingQueue!Next
    <2>1. call[c].vol \in Volumes /\ creatingQ.entry[call[c].vol] = "pending"
      BY <1>0, <1>3 DEF LockCreate, CallsWellFormed, WellFormed, WaitersInLine, InLine
    <2>2. /\ Operating(creatingQ) = None /\ call[c].vol \in Waiting(creatingQ)
          /\ Operating(creatingQ)' = call[c].vol
          /\ Waiting(creatingQ)' = Waiting(creatingQ) \ {call[c].vol}
      BY <1>0, <1>3, <2>1, LockStarts DEF LockCreate
    <2> QED BY <2>1, <2>2 DEF CreatingQueue!Starts
  <1>4. CASE Restart
    <2>1. Waiting(creatingQ)' = {} /\ Operating(creatingQ)' = None
      BY <1>4, EmptyIsEmpty DEF Restart
    <2> QED BY <2>1 DEF CreatingQueue!Emptied
  <1>5. ASSUME NEW c \in Calls, EntersDeleting(c) \/ LockDelete(c)
        PROVE  Unsets(creatingQ, creatingQ')
    BY <1>5 DEF EntersDeleting, LockDelete, Unsets
  <1> QED BY <1>1, <1>2, <1>3, <1>4, <1>5, QueueSteps DEF Quiet

(* The same for the queue of deletions.                                     *)
LEMMA DeletingStep ==
  ASSUME IInv, WaitersInLine, Next
  PROVE  [DeletingQueue!Next]_(DeletingQueue!queue)
  <1> USE DEF DeletingQueue!Next, DeletingQueue!queue
  <1>0. /\ deletingQ \in Queue /\ MutexMatches(deletingQ) /\ CallsWellFormed
    BY DEF IInv, TypeOK, QueuesConsistent
  <1>1. CASE Unsets(deletingQ, deletingQ')
    <2>1. /\ Waiting(deletingQ)' = Waiting(deletingQ)
          /\ \/ Operating(deletingQ)' = Operating(deletingQ)
             \/ Operating(deletingQ) # None /\ Operating(deletingQ)' = None
      BY <1>0, <1>1, UnsetIsEnd
    <2> QED BY <2>1 DEF DeletingQueue!Ends
  <1>2. ASSUME NEW c \in Calls, EntersDeleting(c)
        PROVE  DeletingQueue!Next
    <2>1. call[c].vol \in Volumes
      BY <1>0, <1>2 DEF EntersDeleting, CallsWellFormed, WellFormed
    <2>2. /\ call[c].vol \notin Waiting(deletingQ) \cup {Operating(deletingQ)}
          /\ Waiting(deletingQ)' = Waiting(deletingQ) \cup {call[c].vol}
          /\ Operating(deletingQ)' = Operating(deletingQ)
      BY <1>0, <1>2, <2>1, PendingAsks DEF EntersDeleting
    <2> QED BY <2>1, <2>2 DEF DeletingQueue!Asks
  <1>3. ASSUME NEW c \in Calls, LockDelete(c)
        PROVE  DeletingQueue!Next
    <2>1. call[c].vol \in Volumes /\ deletingQ.entry[call[c].vol] = "pending"
      BY <1>0, <1>3 DEF LockDelete, CallsWellFormed, WellFormed, WaitersInLine, InLine
    <2>2. /\ Operating(deletingQ) = None /\ call[c].vol \in Waiting(deletingQ)
          /\ Operating(deletingQ)' = call[c].vol
          /\ Waiting(deletingQ)' = Waiting(deletingQ) \ {call[c].vol}
      BY <1>0, <1>3, <2>1, LockStarts DEF LockDelete
    <2> QED BY <2>1, <2>2 DEF DeletingQueue!Starts
  <1>4. CASE Restart
    <2>1. Waiting(deletingQ)' = {} /\ Operating(deletingQ)' = None
      BY <1>4, EmptyIsEmpty DEF Restart
    <2> QED BY <2>1 DEF DeletingQueue!Emptied
  <1>5. ASSUME NEW c \in Calls, EntersCreating(c) \/ LockCreate(c)
        PROVE  Unsets(deletingQ, deletingQ')
    BY <1>5 DEF EntersCreating, LockCreate, Unsets
  <1> QED BY <1>1, <1>2, <1>3, <1>4, <1>5, QueueSteps DEF Quiet

(* creatingPvsQueue and deletingPvsQueue implement the abstract queue: one  *)
(* volume operates at a time, after it has waited, and an entry that waits  *)
(* is lost to a restart only.                                               *)
THEOREM QueuesImplementTheQueue == Spec => QueuesImplemented
  <1>1. Init => CreatingQueue!Init /\ DeletingQueue!Init
    BY EmptyIsEmpty DEF Init, CreatingQueue!Init, DeletingQueue!Init
  <1>2. IInv /\ WaitersInLine /\ [Next]_vars => [CreatingQueue!Next]_(CreatingQueue!queue)
    <2>1. ASSUME UNCHANGED vars
          PROVE  UNCHANGED CreatingQueue!queue
      <3>1. creatingQ' = creatingQ
        BY <2>1
      <3> QED BY <3>1 DEF CreatingQueue!queue, Waiting, Operating
    <2> QED BY <2>1, CreatingStep
  <1>3. IInv /\ WaitersInLine /\ [Next]_vars => [DeletingQueue!Next]_(DeletingQueue!queue)
    <2>1. ASSUME UNCHANGED vars
          PROVE  UNCHANGED DeletingQueue!queue
      <3>1. deletingQ' = deletingQ
        BY <2>1
      <3> QED BY <3>1 DEF DeletingQueue!queue, Waiting, Operating
    <2> QED BY <2>1, DeletingStep
  <1> QED BY <1>1, <1>2, <1>3, Invariance, WaitersKeepTheirEntry, PTL
          DEF Spec, QueuesImplemented, CreatingQueue!Spec, DeletingQueue!Spec
=============================================================================
