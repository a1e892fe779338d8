-------------------------- MODULE SnapshotJobsInv --------------------------
(***************************************************************************)
(* The inductive invariants of SnapshotJobs.  What a handler reports rests *)
(* on what it has read of a job that it finds by name, possibly several    *)
(* calls earlier; the invariants say which handlers a job of some name may *)
(* belong to, and what of it is still true when the handler returns.       *)
(***************************************************************************)
EXTENDS SnapshotJobs

(* What the record of a handler says about its place in the code and about  *)
(* the object it handles.  A handle never changes once it is there, so that *)
(* the snapshot a handler was called for stays that of its object.          *)
Creates(r) ==
    /\ r.op = "create" /\ r.stage \in {"check", "init", "backup", "list"}
    /\ r.arg \in Requests /\ handle[r.arg] = None

Deletes(r) ==
    /\ r.op = "delete" /\ r.stage = "delete"
    /\ r.arg \in doomed /\ r.snap = handle[r.arg]

Asks(r) == r.op = "status" /\ r.stage = "check" /\ r.arg \in Requests

Restores(r) ==
    /\ r.op = "restore" /\ r.stage \in {"list", "restore"}
    /\ r.arg \in Targets /\ r.snap = handle[RestoreFrom[r.arg]]

WellFormed(r) ==
    \/ r = Idle
    \/ r.pc # "idle" /\ (Creates(r) \/ Deletes(r) \/ Asks(r) \/ Restores(r))

CallsWellFormed == \A c \in Calls : WellFormed(call[c])

OneCallPerObject ==
    \A c, d \in Calls : c # d /\ call[c].arg # None => call[c].arg # call[d].arg

(* Only what has a handle is ever deleted.                                  *)
DoomedHaveHandles == \A r \in doomed : handle[r] # None

IInv == TypeOK /\ CallsWellFormed /\ OneCallPerObject /\ DoomedHaveHandles

-----------------------------------------------------------------------------
(* Deletion: a job that forgets a snapshot has been created for a request   *)
(* that is deleted, which keeps the id from being taken again; once the job *)
(* is done the snapshot is gone for good.                                   *)

Done(r) == r.pc \in {"logs", "unjob", "unsecret"} /\ r.result = "ok"

ForgetJobsOwned ==
    \A s \in Ids : job[<<"delete", s>>].state # "absent"
                     => \E r \in doomed : handle[r] = s

ForgetJobsDone ==
    \A s \in Ids : job[<<"delete", s>>].state = "done" => repo[s] = None

DeletesDone ==
    \A c \in Calls : call[c].op = "delete" /\ Done(call[c]) => repo[call[c].snap] = None

DeleteInv == ForgetJobsOwned /\ ForgetJobsDone /\ DeletesDone /\ DeletedIsGone

-----------------------------------------------------------------------------
(* Cleaning up: a secret belongs to a handler that will delete it, and a    *)
(* job to one that will, unless it is being deleted.  Without failing       *)
(* calls, cancelled contexts and restarts this is so at any time.           *)

Tidy == faults = 0 \/ Faults \subseteq {"job", "slow"}

SecretsOwned ==
    \A ns \in secrets : \E c \in Calls : /\ call[c].pc \notin {"idle", "secret"}
                                         /\ NamespaceOf(JobName(c)) = ns

JobsOwned ==
    \A n \in JobNames :
        job[n].state # "absent" /\ ~job[n].terminating
            => \E c \in Calls : /\ call[c].pc \in {"poll", "logs", "unjob"}
                                /\ JobName(c) = n

TidyInv == Tidy => SecretsOwned /\ JobsOwned

-----------------------------------------------------------------------------
(* Backups, when no two requests are for one volume: every id that may      *)
(* still become the handle of a request without one names a snapshot of its *)
(* volume, and ids that are handles already name none of another volume.    *)

OneRequestPerVolume == \A q, r \in Requests : Source[q] = Source[r] => q = r

MayGet(r, s) ==
    \/ s \in job[<<"backup", Source[r]>>].out
    \/ \E c \in Calls :
          /\ call[c].op = "create" /\ call[c].arg = r
          /\ \/ call[c].stage = "backup" /\ s \in call[c].out
             \/ call[c].stage = "list" /\ call[c].snap = s

BackupJobsOwned ==
    \A v \in Volumes : LET j == job[<<"backup", v>>] IN
        j.state # "absent" => j.source = v

CandidatesTaken ==
    \A r \in Requests : handle[r] = None
        => \A s \in Ids : MayGet(r, s) => repo[s] = Source[r]

HandlesTaken ==
    \A r \in Requests : handle[r] # None => repo[handle[r]] \in {Source[r], None}

HandlesDistinct ==
    \A q, r \in Requests : handle[r] # None /\ handle[q] = handle[r] => q = r

BackupInv ==
    /\ BackupJobsOwned
    /\ CandidatesTaken
    /\ HandlesTaken
    /\ HandlesDistinct
    /\ LiveHandlesInRepo

-----------------------------------------------------------------------------
(* Restorations, when in addition no two targets are restored from one      *)
(* snapshot: the job of a snapshot writes to the one target restored from   *)
(* it, and nothing writes there any more once a handler has seen it done.   *)

OneTargetPerSnapshot == \A t, u \in Targets : RestoreFrom[t] = RestoreFrom[u] => t = u

RestoreJobsOwned ==
    \A s \in Ids : LET j == job[<<"restore", s>>] IN
        j.state # "absent" => j.target \in Targets /\ handle[RestoreFrom[j.target]] = s

RestoreJobsDone ==
    \A s \in Ids : LET j == job[<<"restore", s>>] IN
        j.state = "done" => contents[j.target] = s

Settled(t) ==
    LET s == handle[RestoreFrom[t]] IN
    s \in Ids /\ contents[t] = s /\ job[<<"restore", s>>].state \in {"absent", "done"}

RestoresDone ==
    \A c \in Calls : call[c].stage = "restore" /\ Done(call[c]) => Settled(call[c].arg)

RestoredSettled ==
    \A t \in restored : Settled(t) /\ \A c \in Calls : call[c].arg # t

RestoreInv ==
    /\ RestoreJobsOwned
    /\ RestoreJobsDone
    /\ RestoresDone
    /\ RestoredSettled

=============================================================================
