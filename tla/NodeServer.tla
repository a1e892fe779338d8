---------------------------- MODULE NodeServer ----------------------------
(***************************************************************************)
(* NodePublishVolume and NodeUnpublishVolume of the node service: a NAS    *)
(* volume is mounted at, and unmounted from, the target path of a pod.     *)
(*                                                                         *)
(* The handlers take no lock.  The kubelet has one call per path at a      *)
(* time, but a call it stopped waiting for goes on: the mounter knows      *)
(* nothing of the context of the request.                                  *)
(***************************************************************************)
EXTENDS Naturals

CONSTANTS
    Handlers,       \* goroutines of the gRPC server
    Paths,          \* target paths, one per pod and volume
    Impatient,      \* those whose calls the kubelet may stop waiting for
    None,           \* an empty target path
    Faults,         \* what may go wrong; see FaultKinds
    MaxFaults       \* bound on how often something goes wrong

(* A system call or a mount command fails; the kubelet stops waiting; the   *)
(* driver restarts.                                                         *)
FaultKinds == {"call", "timeout", "restart"}

ASSUME NodeAssumption ==
    /\ None \notin Paths /\ Impatient \subseteq Paths
    /\ Faults \subseteq FaultKinds /\ MaxFaults \in Nat

VARIABLES
    call,           \* the handler each goroutine runs
    dir, mounted,   \* does a target path exist, is it a mount point?
    wanted,         \* paths of pods that are not deleted
    known,          \* what the kubelet knows of a path
    faults          \* how often something went wrong

files   == <<dir, mounted>>
kubelet == <<wanted, known>>
vars    == <<call, files, kubelet, faults>>

Ops == {"none", "publish", "unpublish"}
PCs == {"idle", "isMounted", "mkdir", "mount", "toUnmount", "unmount", "ok", "error"}

Call == [op : Ops, path : Paths \cup {None}, pc : PCs, awaited : BOOLEAN]

Idle == [op |-> "none", path |-> None, pc |-> "idle", awaited |-> FALSE]

TypeOK ==
    /\ call \in [Handlers -> Call]
    /\ \A h \in Handlers : call[h].pc # "idle" => call[h].path \in Paths
    /\ dir \in SUBSET Paths /\ mounted \in SUBSET dir
    /\ wanted \in SUBSET Paths
    /\ known \in [Paths -> {"unpublished", "unknown", "published"}]
    /\ faults \in 0..MaxFaults

Init ==
    /\ call = [h \in Handlers |-> Idle]
    /\ dir \in SUBSET Paths /\ mounted = {}
    /\ wanted = Paths /\ known = [p \in Paths |-> "unpublished"]
    /\ faults = 0

Fault(kind) == kind \in Faults /\ faults < MaxFaults /\ faults' = faults + 1

-----------------------------------------------------------------------------
(* The handlers.                                                            *)

At(h, pc) == call[h].pc = pc

Goto(h, pc) == call' = [call EXCEPT ![h].pc = pc]

Begin(h, op, p, pc) ==
    call' = [call EXCEPT ![h] = [op |-> op, path |-> p, pc |-> pc, awaited |-> TRUE]]

(* The kubelet has one call per path at a time.                             *)
NotWaitedFor(p) == \A h \in Handlers : call[h].path = p => ~call[h].awaited

(* Mutant of NodePublishVolume: no check for an empty target path.          *)
NodePublishUnchecked(h, p) ==
    /\ At(h, "idle")
    /\ Begin(h, "publish", p, "isMounted")
    /\ UNCHANGED <<files, kubelet, faults>>

NodePublishVolume(h, p) ==
    /\ At(h, "idle")
    /\ p # None
    /\ NotWaitedFor(p)
    /\ p \in wanted /\ known[p] # "published"
    /\ Begin(h, "publish", p, "isMounted")
    /\ known' = [known EXCEPT ![p] = "unknown"]
    /\ UNCHANGED <<files, wanted, faults>>

NodeUnpublishVolume(h, p) ==
    /\ At(h, "idle")
    /\ p # None
    /\ NotWaitedFor(p)
    /\ p \notin wanted /\ known[p] # "unpublished"
    /\ Begin(h, "unpublish", p, "toUnmount")
    /\ known' = [known EXCEPT ![p] = "unknown"]
    /\ UNCHANGED <<files, wanted, faults>>

(* isDirMounted: a path that is not there is made, one that is mounted      *)
(* needs nothing.                                                           *)
IsDirMounted(h) ==
    LET p == call[h].path IN
    /\ At(h, "isMounted")
    /\ \/ p \notin dir /\ Goto(h, "mkdir")
       \/ p \in mounted /\ Goto(h, "ok")
       \/ p \in dir \ mounted /\ Goto(h, "mount")
    /\ UNCHANGED <<files, kubelet, faults>>

(* Mutant of MkdirAll: as on Windows, the target is not made.               *)
MkdirNone(h) ==
    /\ At(h, "mkdir")
    /\ Goto(h, "mount")
    /\ UNCHANGED <<files, kubelet, faults>>

MkdirAll(h) ==
    /\ At(h, "mkdir")
    /\ dir' = dir \cup {call[h].path}
    /\ Goto(h, "mount")
    /\ UNCHANGED <<mounted, kubelet, faults>>

(* Mutant of Mount: the error of the mounter is not returned.               *)
MountUnchecked(h) ==
    LET p == call[h].path IN
    /\ At(h, "mount")
    /\ \/ p \in dir \ mounted /\ mounted' = mounted \cup {p} /\ UNCHANGED faults
       \/ (p \notin dir \/ p \in mounted) /\ UNCHANGED <<mounted, faults>>
       \/ Fault("call") /\ UNCHANGED mounted
    /\ Goto(h, "ok")
    /\ UNCHANGED <<dir, kubelet>>

(* The volume is mounted.  The kernel refuses to mount it twice, and a      *)
(* command that fails may have mounted it all the same: whatever is there   *)
(* is unmounted then.                                                       *)
Mount(h) ==
    LET p == call[h].path IN
    /\ At(h, "mount")
    /\ \/ /\ p \in dir \ mounted
          /\ mounted' = mounted \cup {p}
          /\ Goto(h, "ok")
          /\ UNCHANGED faults
       \/ /\ p \notin dir \/ p \in mounted
          /\ Goto(h, "toUnmount")
          /\ UNCHANGED <<mounted, faults>>
       \/ /\ Fault("call")
          /\ mounted' \in {mounted, mounted \cup ({p} \cap dir)}
          /\ Goto(h, "toUnmount")
    /\ UNCHANGED <<dir, kubelet>>

(* How a handler ends after unmountPath.                                    *)
Unmounted(h) == Goto(h, IF call[h].op = "publish" THEN "error" ELSE "ok")

(* unmountPath: first isDirMounted, then Unmount.                           *)
UnmountPath(h) ==
    LET p == call[h].path IN
    /\ At(h, "toUnmount")
    /\ \/ p \in mounted /\ Goto(h, "unmount")
       \/ p \notin mounted /\ Unmounted(h)
    /\ UNCHANGED <<files, kubelet, faults>>

(* Mutant of Unmount: it is left to the kubelet.                            *)
UnmountNothing(h) ==
    /\ At(h, "unmount")
    /\ Unmounted(h)
    /\ UNCHANGED <<files, kubelet, faults>>

Unmount(h) ==
    LET p == call[h].path IN
    /\ At(h, "unmount")
    /\ mounted' = mounted \ {p}
    /\ IF p \in mounted THEN Unmounted(h) ELSE Goto(h, "error")
    /\ UNCHANGED <<dir, kubelet, faults>>

(* isDirMounted, MkdirAll or Unmount fails.                                 *)
CallFails(h) ==
    /\ call[h].pc \in {"isMounted", "mkdir", "toUnmount", "unmount"}
    /\ Fault("call")
    /\ Goto(h, "error")
    /\ UNCHANGED <<files, kubelet>>

Restart ==
    /\ Fault("restart")
    /\ call' = [h \in Handlers |-> Idle]
    /\ UNCHANGED <<files, kubelet>>

-----------------------------------------------------------------------------
(* The kubelet.                                                             *)

(* A reply arrives.                                                         *)
Reply(h) ==
    /\ At(h, "ok") \/ At(h, "error")
    /\ known' = IF At(h, "ok") /\ call[h].awaited
                THEN [known EXCEPT ![call[h].path] =
                         IF call[h].op = "publish" THEN "published" ELSE "unpublished"]
                ELSE known
    /\ call' = [call EXCEPT ![h] = Idle]
    /\ UNCHANGED <<files, wanted, faults>>

StopWaiting(h) ==
    /\ call[h].awaited /\ call[h].path \in Impatient
    /\ Fault("timeout")
    /\ call' = [call EXCEPT ![h].awaited = FALSE]
    /\ UNCHANGED <<files, kubelet>>

PodDeleted(p) ==
    /\ p \in wanted
    /\ wanted' = wanted \ {p}
    /\ UNCHANGED <<call, files, known, faults>>

(* The kubelet removes the path of a volume it has unpublished.             *)
PathRemoved(p) ==
    /\ p \in dir \ (mounted \cup wanted) /\ known[p] = "unpublished"
    /\ dir' = dir \ {p}
    /\ UNCHANGED <<call, mounted, kubelet, faults>>

-----------------------------------------------------------------------------

Step(h) ==
    \/ IsDirMounted(h) \/ MkdirAll(h) \/ Mount(h) \/ UnmountPath(h) \/ Unmount(h)
    \/ CallFails(h)

Next ==
    \/ \E h \in Handlers : \/ \E p \in Paths \cup {None} :
                                 NodePublishVolume(h, p) \/ NodeUnpublishVolume(h, p)
                           \/ Step(h) \/ Reply(h) \/ StopWaiting(h)
    \/ \E p \in Paths : PodDeleted(p) \/ PathRemoved(p)
    \/ Restart

Spec == Init /\ [][Next]_vars

(* Handlers run and return, and the kubelet repeats a call that has failed. *)
FairSpec ==
    /\ Spec
    /\ \A h \in Handlers : WF_vars(Step(h)) /\ WF_vars(Reply(h))
    /\ \A p \in Paths : WF_vars(\E h \in Handlers :
                            NodePublishVolume(h, p) \/ NodeUnpublishVolume(h, p))

-----------------------------------------------------------------------------

(* NodePublishVolume mounts the volume: while the kubelet takes a path for  *)
(* published, and a pod writes to it, the volume is mounted there.          *)
PublishedIsMounted(p) == known[p] = "published" => p \in mounted

(* NodeUnpublishVolume unmounts the volume: once the kubelet takes a path   *)
(* for unpublished, and may delete what is in it, nothing is mounted there. *)
UnpublishedIsUnmounted(p) == known[p] = "unpublished" => p \notin mounted

(* Both hold of a path whose calls the kubelet waits for, through failing   *)
(* mounts, restarts at any point, and calls for other paths that go on      *)
(* after the kubelet has given them up.                                     *)
PatientCallsSafe ==
    \A p \in Paths \ Impatient : PublishedIsMounted(p) /\ UnpublishedIsUnmounted(p)

(* What node.go says of parallel requests for a volume, "this needs to be   *)
(* seralized", would give the same for every path.  It does not hold: the   *)
(* cleanup after the failed mount of one call unmounts what the other has   *)
(* mounted, and a call given up mounts after the path was unpublished.      *)
AllCallsSafe == \A p \in Paths : PublishedIsMounted(p) /\ UnpublishedIsUnmounted(p)

(* A finite number of faults, each at any point of a handler, is made good  *)
(* by repeating the call: a pod gets its volume, and a deleted one leaves   *)
(* no mount behind.                                                         *)
RetriesSucceed ==
    \A p \in Paths : /\ p \in wanted ~> (known[p] = "published" \/ p \notin wanted)
                     /\ p \notin wanted ~> known[p] = "unpublished"

=============================================================================
