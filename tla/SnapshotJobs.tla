--------------------------- MODULE SnapshotJobs ---------------------------
(***************************************************************************)
(* CreateSnapshot, DeleteSnapshot, ListSnapshots and restoreSnapshot of    *)
(* the controller.  Each runs one or more restic commands, and each is a   *)
(* Kubernetes job run by doResticJob: create the secret, create the job,   *)
(* poll it, read the log of its pod, delete the job and the secret.        *)
(*                                                                         *)
(* Jobs are found by name.  The handlers share the names of jobs, and the  *)
(* secret of a namespace, and nothing serializes them.                     *)
(***************************************************************************)
EXTENDS Naturals, FiniteSets

CONSTANTS
    Calls,          \* goroutines of the gRPC server
    Requests,       \* VolumeSnapshots, by the name in the request
    Volumes,        \* volumes snapshots are taken of
    Targets,        \* volumes restored from a snapshot
    Ids,            \* short ids of restic snapshots; bounds the backups taken
    None,
    Source,         \* the volume of each request
    Listed,         \* VolumeSnapshots whose status the snapshotter asks for
    RestoreFrom,    \* the VolumeSnapshot each target is restored from
    ClaimNamespace, \* the namespace of the claims
    NewRepository,  \* is the first snapshot of the cluster still to be taken?
    Faults,         \* what may go wrong; see FaultKinds
    MaxFaults       \* bound on how often something goes wrong

(* A call to Kubernetes fails; a restic command fails; a job takes more     *)
(* than 30 minutes; a sidecar stops waiting; the controller restarts.       *)
FaultKinds == {"call", "job", "slow", "timeout", "restart"}

ASSUME SnapshotAssumption ==
    /\ Source \in [Requests -> Volumes]
    /\ RestoreFrom \in [Targets -> Requests]
    /\ Listed \subseteq Requests /\ Requests \cap Targets = {}
    /\ None \notin Requests \cup Targets \cup Volumes \cup Ids
    /\ NewRepository \in BOOLEAN
    /\ Faults \subseteq FaultKinds /\ MaxFaults \in Nat

VARIABLES
    call,           \* the handler each goroutine runs
    secrets,        \* namespaces with a secret "restic-secrets"
    job,            \* jobs by name
    inited, repo,   \* the restic repository: the volume of each snapshot
    contents,       \* what a target holds: None, "partial" or a snapshot
    handle, doomed, removed,    \* VolumeSnapshots: handle, being and been deleted
    restored,       \* targets whose restoration was reported
    faults          \* how often something went wrong

cluster == <<secrets, job>>
storage == <<inited, repo, contents>>
objects == <<handle, doomed, removed, restored>>
vars    == <<call, cluster, storage, objects, faults>>

Namespaces == {"default", ClaimNamespace}

JobNames == ({"list", "init"} \X {None}) \cup ({"backup"} \X Volumes)
                \cup ({"delete", "restore"} \X Ids)

(* A job: the target a restore job mounts, the volume a backup job mounts,  *)
(* and the snapshots named in the log of its pod; "nokey" is a failure      *)
(* whose log says "specified key does not exist".                           *)
Job == [state : {"absent", "pending", "running", "done", "failed", "nokey"},
        target : Targets \cup {None}, source : Volumes \cup {None},
        out : SUBSET Ids, terminating : BOOLEAN]

NoJob == [state |-> "absent", target |-> None, source |-> None, out |-> {},
          terminating |-> FALSE]

Ops    == {"none", "create", "delete", "status", "restore"}
Stages == {"none", "check", "init", "backup", "list", "delete", "restore"}
PCs    == {"idle", "secret", "job", "rejob", "poll", "logs", "unjob",
           "unsecret"}

(* A handler: the command it is at and the step of doResticJob, the snapshot *)
(* it is about, and what doResticJob is going to return.                     *)
Call == [op : Ops, arg : Requests \cup Targets \cup {None}, stage : Stages,
         pc : PCs, snap : Ids \cup {None}, result : {"ok", "nokey", "error"},
         out : SUBSET Ids]

Idle == [op |-> "none", arg |-> None, stage |-> "none", pc |-> "idle",
         snap |-> None, result |-> "ok", out |-> {}]

(* The snapshot a command is about is known when the command is run.        *)
SnapKnown(c) == call[c].stage \in {"delete", "restore", "list"}

TypeOK ==
    /\ call \in [Calls -> Call]
    /\ \A c \in Calls : SnapKnown(c) => call[c].snap \in Ids
    /\ secrets \in SUBSET Namespaces
    /\ job \in [JobNames -> Job]
    /\ inited \in BOOLEAN /\ repo \in [Ids -> Volumes \cup {None}]
    /\ contents \in [Targets -> Ids \cup {None, "partial"}]
    /\ handle \in [Requests -> Ids \cup {None}]
    /\ doomed \in SUBSET Requests /\ removed \in SUBSET doomed
    /\ restored \in SUBSET Targets
    /\ faults \in 0..MaxFaults

Init ==
    /\ call = [c \in Calls |-> Idle]
    /\ secrets = {} /\ job = [n \in JobNames |-> NoJob]
    /\ inited = ~NewRepository /\ repo = [s \in Ids |-> None]
    /\ contents = [t \in Targets |-> None]
    /\ handle = [r \in Requests |-> None] /\ doomed = {} /\ removed = {}
    /\ restored = {} /\ faults = 0

-----------------------------------------------------------------------------
(* The handlers' calls.                                                     *)

At(c, pc) == call[c].pc = pc

Goto(c, pc) == call' = [call EXCEPT ![c].pc = pc]

Fault(kind) == kind \in Faults /\ faults < MaxFaults /\ faults' = faults + 1

(* The handler returns.                                                     *)
Return(c) == call' = [call EXCEPT ![c] = Idle]

(* The first step of doResticJob for a command.                             *)
Run(c, stage, snap) ==
    call' = [call EXCEPT ![c].stage = stage, ![c].snap = snap, ![c].pc = "secret",
                         ![c].result = "ok", ![c].out = {}]

(* Mutant of JobName: backup jobs are not named after the volume.           *)
JobNameOfKind(c) ==
    CASE call[c].stage \in {"check", "list"} -> <<"list", None>>
      [] call[c].stage = "init" -> <<"init", None>>
      [] call[c].stage = "backup" -> <<"backup", CHOOSE v \in Volumes : TRUE>>
      [] OTHER -> <<call[c].stage, call[c].snap>>

(* The name of the job of a command.                                        *)
JobName(c) ==
    CASE call[c].stage \in {"check", "list"} -> <<"list", None>>
      [] call[c].stage = "init" -> <<"init", None>>
      [] call[c].stage = "backup" -> <<"backup", Source[call[c].arg]>>
      [] OTHER -> <<call[c].stage, call[c].snap>>

NamespaceOf(n) == IF n[1] = "backup" THEN ClaimNamespace ELSE "default"

(* What the handler asks Kubernetes to run.                                 *)
JobOf(c) ==
    [NoJob EXCEPT !.state  = "pending",
                  !.target = IF call[c].stage = "restore" THEN call[c].arg ELSE None,
                  !.source = IF call[c].stage = "backup" THEN Source[call[c].arg]
                             ELSE None]

(* Delete with foreground propagation only marks the job; it goes later.    *)
Terminate(n) ==
    job' = IF job[n].state = "absent" THEN job
           ELSE [job EXCEPT ![n].terminating = TRUE]

-----------------------------------------------------------------------------
(* doResticJob.                                                             *)

CreateSecret(c) ==
    /\ At(c, "secret")
    /\ secrets' = secrets \cup {NamespaceOf(JobName(c))}
    /\ Goto(c, "job")
    /\ UNCHANGED <<job, storage, objects, faults>>

(* The handler got no job: only the deletion of the secret is deferred.     *)
NoJobCreated(c) ==
    call' = [call EXCEPT ![c].result = "error", ![c].pc = "unsecret"]

(* A job of that name that is there already is deleted first.               *)
CreateJob(c) ==
    LET n == JobName(c) IN
    /\ At(c, "job")
    /\ UNCHANGED <<secrets, storage, objects, faults>>
    /\ \/ /\ job[n].state = "absent"
          /\ job' = [job EXCEPT ![n] = JobOf(c)]
          /\ Goto(c, "poll")
       \/ /\ job[n].state # "absent"
          /\ Terminate(n)
          /\ Goto(c, "rejob")

(* Mutant of RecreateJob: an error return before the secret's defer.        *)
RecreateJobKeepsSecret(c) ==
    LET n == JobName(c) IN
    /\ At(c, "rejob")
    /\ UNCHANGED <<secrets, storage, objects, faults>>
    /\ \/ /\ job[n].state = "absent"
          /\ job' = [job EXCEPT ![n] = JobOf(c)]
          /\ Goto(c, "poll")
       \/ /\ job[n].state # "absent"
          /\ Return(c)
          /\ UNCHANGED job

(* The second attempt is the last.                                          *)
RecreateJob(c) ==
    LET n == JobName(c) IN
    /\ At(c, "rejob")
    /\ UNCHANGED <<secrets, storage, objects, faults>>
    /\ \/ /\ job[n].state = "absent"
          /\ job' = [job EXCEPT ![n] = JobOf(c)]
          /\ Goto(c, "poll")
       \/ /\ job[n].state # "absent"
          /\ NoJobCreated(c)
          /\ UNCHANGED job

(* The container of a pod starts once the secret is there.                  *)
CanStart(n) == job[n].state = "pending" /\ NamespaceOf(n) \in secrets

Polled(c, result) ==
    call' = [call EXCEPT ![c].result = result, ![c].pc = "logs"]

(* Mutant of PollJob: a failed job counts as completed.                     *)
PollAnyEnd(c) ==
    LET state == job[JobName(c)].state IN
    /\ At(c, "poll")
    /\ \/ state \in {"done", "failed", "nokey"} /\ Polled(c, "ok")
       \/ state = "absent" /\ Polled(c, "error")
       \/ state = "pending" /\ ~CanStart(JobName(c)) /\ Polled(c, "error")
    /\ UNCHANGED <<cluster, storage, objects, faults>>

(* The job of that name is polled until it has ended, is gone, or 30        *)
(* minutes have passed.                                                     *)
PollJob(c) ==
    LET state == job[JobName(c)].state IN
    /\ At(c, "poll")
    /\ \/ state = "done" /\ Polled(c, "ok")
       \/ state \in {"absent", "failed", "nokey"} /\ Polled(c, "error")
       \/ state = "pending" /\ ~CanStart(JobName(c)) /\ Polled(c, "error")
    /\ UNCHANGED <<cluster, storage, objects, faults>>

(* A job that can run is still running after the 30 minutes.                *)
PollExpires(c) ==
    /\ At(c, "poll")
    /\ CanStart(JobName(c)) \/ job[JobName(c)].state = "running"
    /\ Fault("slow")
    /\ Polled(c, "error")
    /\ UNCHANGED <<cluster, storage, objects>>

(* The log of the pod of the job of that name: there is none without a      *)
(* started pod, and it is incomplete while the job runs.  An error of the   *)
(* poll is returned with the log.                                           *)
ReadLogs(c) ==
    LET j == job[JobName(c)] IN
    /\ At(c, "logs")
    /\ \/ /\ j.state \notin {"absent", "pending"}
          /\ call' = [call EXCEPT
                ![c].pc = "unjob",
                ![c].out = IF call[c].stage \in {"backup", "list"} THEN j.out ELSE {},
                ![c].result = IF @ = "error" /\ j.state = "nokey" THEN "nokey" ELSE @]
       \/ /\ j.state \in {"absent", "pending"}
          /\ call' = [call EXCEPT ![c].pc = "unjob", ![c].result = "error"]
    /\ UNCHANGED <<cluster, storage, objects, faults>>

(* The deferred deletion of the job; that of the secret follows below.      *)
DeleteJob(c) ==
    /\ At(c, "unjob")
    /\ Terminate(JobName(c))
    /\ Goto(c, "unsecret")
    /\ UNCHANGED <<secrets, storage, objects, faults>>

-----------------------------------------------------------------------------
(* The handlers, between the commands they run.                             *)

Begin(c, op, arg, stage, snap) ==
    call' = [call EXCEPT ![c] =
                [Idle EXCEPT !.op = op, !.arg = arg, !.stage = stage,
                             !.pc = "secret", !.snap = snap]]

(* A sidecar has one call for an object at a time, and the name holder of   *)
(* CreateVolume keeps two handlers of a volume apart.                       *)
NotHandled(x) == \A d \in Calls : call[d].arg # x

CreateSnapshot(c, r) ==
    /\ At(c, "idle")
    /\ NotHandled(r)
    /\ handle[r] = None
    /\ Begin(c, "create", r, "check", None)
    /\ UNCHANGED <<cluster, storage, objects, faults>>

(* Mutant of DeleteSnapshot: no check for an empty snapshot id.             *)
DeleteSnapshotUnchecked(c, r) ==
    /\ At(c, "idle")
    /\ NotHandled(r)
    /\ r \notin removed
    /\ Begin(c, "delete", r, "delete", handle[r])
    /\ doomed' = doomed \cup {r}
    /\ UNCHANGED <<cluster, storage, handle, removed, restored, faults>>

DeleteSnapshot(c, r) ==
    /\ At(c, "idle")
    /\ NotHandled(r)
    /\ handle[r] # None /\ r \notin removed
    /\ Begin(c, "delete", r, "delete", handle[r])
    /\ doomed' = doomed \cup {r}
    /\ UNCHANGED <<cluster, storage, handle, removed, restored, faults>>

(* ListSnapshots runs the same job as the first step of CreateSnapshot.     *)
ListSnapshots(c, r) ==
    /\ At(c, "idle")
    /\ r \in Listed /\ NotHandled(r)
    /\ handle[r] # None /\ r \notin removed
    /\ Begin(c, "status", r, "check", None)
    /\ UNCHANGED <<cluster, storage, objects, faults>>

(* CreateVolume calls restoreSnapshot, which finds the secrets with the     *)
(* VolumeSnapshot.                                                          *)
RestoreSnapshot(c, t) ==
    LET r == RestoreFrom[t] IN
    /\ At(c, "idle")
    /\ NotHandled(t)
    /\ t \notin restored
    /\ handle[r] # None /\ r \notin removed
    /\ Begin(c, "restore", t, "list", handle[r])
    /\ UNCHANGED <<cluster, storage, objects, faults>>

(* What doResticJob is about to return to a handler.                        *)
Result(c, op, stage, results) ==
    call[c].op = op /\ call[c].stage = stage /\ call[c].result \in results

(* The repository is there, or has to be initialized.                       *)
CheckDone(c) ==
    /\ \/ Result(c, "create", "check", {"ok"}) /\ Run(c, "backup", None)
       \/ Result(c, "create", "check", {"nokey"}) /\ Run(c, "init", None)
       \/ Result(c, "create", "init", {"ok"}) /\ Run(c, "backup", None)
    /\ UNCHANGED objects

(* The summary names the snapshot.                                          *)
BackupDone(c) ==
    /\ Result(c, "create", "backup", {"ok"})
    /\ \E s \in call[c].out : Run(c, "list", s)
    /\ UNCHANGED objects

(* CreateSnapshot returns the snapshot, which is in the list.               *)
ListDone(c) ==
    /\ Result(c, "create", "list", {"ok"})
    /\ call[c].snap \in call[c].out
    /\ handle' = [handle EXCEPT ![call[c].arg] = call[c].snap]
    /\ Return(c)
    /\ UNCHANGED <<doomed, removed, restored>>

(* ListSnapshots returns an error, or what the list says of the snapshot.   *)
StatusDone(c) ==
    /\ call[c].op = "status"
    /\ Return(c)
    /\ UNCHANGED objects

(* restoreSnapshot goes on to restore the snapshot, which is in the list.   *)
RestoreListDone(c) ==
    /\ Result(c, "restore", "list", {"ok"})
    /\ call[c].snap \in call[c].out
    /\ Run(c, "restore", call[c].snap)
    /\ UNCHANGED objects

DeleteDone(c) ==
    /\ Result(c, "delete", "delete", {"ok"})
    /\ removed' = removed \cup {call[c].arg}
    /\ Return(c)
    /\ UNCHANGED <<handle, doomed, restored>>

(* Mutant of RestoreDone: the error of the restore job is only logged.      *)
RestoreDoneUnchecked(c) ==
    /\ Result(c, "restore", "restore", {"ok", "error"})
    /\ restored' = restored \cup {call[c].arg}
    /\ Return(c)
    /\ UNCHANGED <<handle, doomed, removed>>

RestoreDone(c) ==
    /\ Result(c, "restore", "restore", {"ok"})
    /\ restored' = restored \cup {call[c].arg}
    /\ Return(c)
    /\ UNCHANGED <<handle, doomed, removed>>

(* The handler returns an error: of the command, of the parser, or of a     *)
(* snapshot missing in the list.                                            *)
Fails(c) ==
    /\ \/ call[c].result = "error"
       \/ call[c].result = "nokey" /\ call[c].stage # "check"
       \/ call[c].stage = "backup" /\ call[c].out = {}
       \/ call[c].stage = "list" /\ call[c].snap \notin call[c].out
    /\ Return(c)
    /\ UNCHANGED objects

(* The handler's own code between two commands, which calls nobody but, to  *)
(* read, checkBucket and getClusterUID.                                     *)
Handle(c) ==
    \/ CheckDone(c) \/ BackupDone(c) \/ ListDone(c) \/ StatusDone(c) \/ RestoreListDone(c)
    \/ DeleteDone(c) \/ RestoreDone(c) \/ Fails(c)

(* The deferred deletion of the secret, after which the handler goes on.    *)
DeleteSecret(c) ==
    /\ At(c, "unsecret")
    /\ secrets' = secrets \ {NamespaceOf(JobName(c))}
    /\ Handle(c)
    /\ UNCHANGED <<job, storage, faults>>

(* A call to Kubernetes fails: in doResticJob, with no more than a warning  *)
(* where something is deleted, or after it in checkBucket or getClusterUID. *)
CallFails(c) ==
    LET Error(pc) == call' = [call EXCEPT ![c].result = "error", ![c].pc = pc] IN
    /\ Fault("call")
    /\ \/ At(c, "secret") /\ Return(c) /\ UNCHANGED <<secrets, objects>>
       \/ /\ \/ (At(c, "job") \/ At(c, "rejob")) /\ NoJobCreated(c)
             \/ At(c, "job") /\ job[JobName(c)].state # "absent" /\ Goto(c, "rejob")
             \/ At(c, "poll") /\ Error("logs")
             \/ At(c, "logs") /\ Error("unjob")
             \/ At(c, "unjob") /\ Goto(c, "unsecret")
          /\ UNCHANGED <<secrets, objects>>
       \/ At(c, "unsecret") /\ Handle(c) /\ UNCHANGED secrets
       \/ /\ At(c, "unsecret") /\ call[c].op = "create" /\ call[c].stage \in {"check", "init"}
          /\ secrets' = secrets \ {NamespaceOf(JobName(c))}
          /\ Return(c) /\ UNCHANGED objects
    /\ UNCHANGED <<job, storage>>

-----------------------------------------------------------------------------
(* The sidecars, restic and the job controller: code outside this           *)
(* repository, as far as the driver depends on it.                          *)

(* The sidecar's timeout cancels the context of the call.  All calls of the *)
(* handler are made with it and fail from now on, the deferred ones too, so *)
(* that the handler goes without any further effect, as does its reply; the *)
(* last call it made may have been the deletion of the secret.              *)
StopWaiting(c) ==
    /\ ~At(c, "idle")
    /\ Fault("timeout")
    /\ \/ UNCHANGED secrets
       \/ At(c, "unsecret") /\ secrets' = secrets \ {NamespaceOf(JobName(c))}
    /\ Return(c)
    /\ UNCHANGED <<job, storage, objects>>

(* The controller restarts: no deferred call is made.                       *)
Restart ==
    /\ Fault("restart")
    /\ call' = [c \in Calls |-> Idle]
    /\ UNCHANGED <<cluster, storage, objects>>

Ends(n, state, out) == job' = [job EXCEPT ![n].state = state, ![n].out = out]

InRepo == {s \in Ids : repo[s] # None}

Locked == \E n \in JobNames : job[n].state = "running"

JobLists(n) ==
    /\ CanStart(n) /\ n[1] = "list"
    /\ \/ inited /\ Ends(n, "done", InRepo)
       \/ ~inited /\ Ends(n, "nokey", {})
    /\ UNCHANGED <<call, secrets, storage, objects, faults>>

JobInits(n) ==
    /\ CanStart(n) /\ n[1] = "init"
    /\ inited' = TRUE
    /\ Ends(n, IF inited THEN "failed" ELSE "done", {})
    /\ UNCHANGED <<call, secrets, repo, contents, objects, faults>>

(* Backups and restorations take their time.                                *)
JobStartsBackup(n) ==
    /\ CanStart(n) /\ n[1] = "backup" /\ inited
    /\ Ends(n, "running", {})
    /\ UNCHANGED <<call, secrets, storage, objects, faults>>

(* Every backup makes a new snapshot; the last one of Ids is the last one.  *)
JobBacksUp(n) ==
    /\ job[n].state = "running" /\ n[1] = "backup"
    /\ \E s \in Ids :
          /\ repo[s] = None
          /\ \A r \in Requests : handle[r] # s
          /\ \A c \in Calls : call[c].snap # s
          /\ \A k \in JobNames : s \notin job[k].out
          /\ repo' = [repo EXCEPT ![s] = job[n].source]
          /\ Ends(n, "done", {s})
    /\ UNCHANGED <<call, secrets, inited, contents, objects, faults>>

(* forget --prune needs the repository for itself; an unknown snapshot is   *)
(* no error.                                                                *)
JobForgets(n) ==
    /\ CanStart(n) /\ n[1] = "delete"
    /\ \/ ~Locked /\ repo' = [repo EXCEPT ![n[2]] = None] /\ Ends(n, "done", {})
       \/ Locked /\ UNCHANGED repo /\ Ends(n, "failed", {})
    /\ UNCHANGED <<call, secrets, inited, contents, objects, faults>>

JobStartsRestore(n) ==
    /\ CanStart(n) /\ n[1] = "restore"
    /\ \/ /\ repo[n[2]] # None
          /\ contents' = [contents EXCEPT ![job[n].target] = "partial"]
          /\ Ends(n, "running", {})
       \/ repo[n[2]] = None /\ UNCHANGED contents /\ Ends(n, "failed", {})
    /\ UNCHANGED <<call, secrets, inited, repo, objects, faults>>

JobRestores(n) ==
    /\ job[n].state = "running" /\ n[1] = "restore"
    /\ contents' = [contents EXCEPT ![job[n].target] = n[2]]
    /\ Ends(n, "done", {})
    /\ UNCHANGED <<call, secrets, inited, repo, objects, faults>>

JobFails(n) ==
    /\ CanStart(n) \/ job[n].state = "running"
    /\ Fault("job")
    /\ Ends(n, "failed", {})
    /\ UNCHANGED <<call, secrets, storage, objects>>

JobVanishes(n) ==
    /\ job[n].terminating
    /\ job' = [job EXCEPT ![n] = NoJob]
    /\ UNCHANGED <<call, secrets, storage, objects, faults>>

-----------------------------------------------------------------------------

DoResticJob(c) ==
    \/ CreateSecret(c) \/ CreateJob(c) \/ RecreateJob(c) \/ PollJob(c)
    \/ PollExpires(c) \/ ReadLogs(c) \/ DeleteJob(c) \/ DeleteSecret(c)
    \/ CallFails(c)

JobRuns(n) ==
    \/ JobLists(n) \/ JobInits(n) \/ JobForgets(n)
    \/ JobStartsBackup(n) \/ JobBacksUp(n)
    \/ JobStartsRestore(n) \/ JobRestores(n) \/ JobFails(n)

Next ==
    \/ \E c \in Calls : \/ \E r \in Requests : \/ CreateSnapshot(c, r) \/ DeleteSnapshot(c, r)
                                                   \/ ListSnapshots(c, r)
                        \/ \E t \in Targets : RestoreSnapshot(c, t)
                        \/ DoResticJob(c) \/ StopWaiting(c)
    \/ \E n \in JobNames : JobRuns(n) \/ JobVanishes(n)
    \/ Restart

Spec == Init /\ [][Next]_vars

-----------------------------------------------------------------------------
(* Safety.                                                                  *)

(* "snapshotHandle is a snapshotID in the restic repository": as long as    *)
(* nobody asked for its deletion, the handle CreateSnapshot returned names  *)
(* a snapshot that is in the repository, and that was taken of the volume.  *)
LiveHandlesInRepo ==
    \A r \in Requests :
        handle[r] # None /\ r \notin doomed => repo[handle[r]] = Source[r]

(* When DeleteSnapshot has returned, the snapshot is no longer in the       *)
(* repository.                                                              *)
DeletedIsGone == \A r \in removed : repo[handle[r]] = None

(* A volume that CreateVolume returned as restored has the full contents of *)
(* its snapshot.                                                            *)
RestoredIsComplete == \A t \in restored : contents[t] = handle[RestoreFrom[t]]

(* The deferred calls clean up, whatever the interleaving with handlers     *)
(* that use the same jobs and secrets, and although commands fail or take   *)
(* too long: with no call in progress, no secret with the credentials is    *)
(* left, and no job but one being deleted.  Only a failed call, a cancelled *)
(* context or a restart keeps a deferred call from being made.              *)
NothingLeftBehind ==
    /\ \A c \in Calls : At(c, "idle")
    /\ faults = 0 \/ Faults \subseteq {"job", "slow"}
    => /\ secrets = {}
       /\ \A n \in JobNames : job[n].state # "absent" => job[n].terminating

=============================================================================
