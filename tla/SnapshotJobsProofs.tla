------------------------ MODULE SnapshotJobsProofs ------------------------
(***************************************************************************)
(* Proofs about SnapshotJobs.  The steps are first sorted by what they do  *)
(* to the handlers, the jobs and the objects (StepKinds); each invariant   *)
(* of SnapshotJobsInv is then shown to be preserved kind by kind.          *)
(***************************************************************************)
EXTENDS SnapshotJobsInv, TLAPS

USE SnapshotAssumption DEF cluster, storage, objects, vars, At

(* Only handler c changes.                                                  *)
Only(c) == call' \in [Calls -> Call] /\ \A d \in Calls : d # c => call'[d] = call[d]

(* The handler's step on the job of its command, if any: it is created, or  *)
(* marked for deletion.                                                     *)
JobMove(c) ==
    LET n == JobName(c) IN
    \/ UNCHANGED job
    \/ /\ job[n].state = "absent" /\ call[c].pc \in {"job", "rejob"}
       /\ job' = [job EXCEPT ![n] = JobOf(c)]
    \/ job' = [job EXCEPT ![n].terminating = TRUE]

(* A step of doResticJob: the handler stays at its command, and learns      *)
(* nothing but the state and the log of the job of that name.               *)
Moves(c) ==
    /\ Only(c)
    /\ call[c].pc # "idle" /\ call'[c].pc # "idle"
    /\ call'[c].op = call[c].op /\ call'[c].arg = call[c].arg
    /\ call'[c].stage = call[c].stage /\ call'[c].snap = call[c].snap
    /\ Done(call'[c]) => Done(call[c]) \/ job[JobName(c)].state = "done"
    /\ call'[c].stage = "backup" => call'[c].out \subseteq call[c].out \cup job[JobName(c)].out
    /\ JobMove(c)
    /\ UNCHANGED <<storage, objects>>

(* The handler goes on to its next command.                                 *)
Runs(c) ==
    /\ \/ /\ call[c].op = "create" /\ call[c].stage \in {"check", "init"}
          /\ Run(c, "init", None) \/ Run(c, "backup", None)
       \/ BackupDone(c)
       \/ RestoreListDone(c)
    /\ call[c].pc # "idle"
    /\ UNCHANGED <<job, storage, objects>>

(* Handlers return without an effect.                                       *)
Drops ==
    /\ call' \in [Calls -> Call]
    /\ \A d \in Calls : call'[d] = call[d] \/ call'[d] = Idle
    /\ UNCHANGED <<job, storage, objects>>

(* A handler returns a result.                                              *)
Reports(c) ==
    /\ ListDone(c) \/ DeleteDone(c) \/ RestoreDone(c)
    /\ At(c, "unsecret")
    /\ UNCHANGED <<job, storage>>

Begins(c) ==
    \/ \E r \in Requests : CreateSnapshot(c, r) \/ DeleteSnapshot(c, r) \/ ListSnapshots(c, r)
    \/ \E t \in Targets : RestoreSnapshot(c, t)

-----------------------------------------------------------------------------
(* Names, types and records. *)

(* Pairs are equal if their parts are.                                      *)
LEMMA Pairs == \A a, b, x, y : <<a, x>> = <<b, y>> <=> a = b /\ x = y
  OBVIOUS

(* The kind of a job and what it is about are the parts of its name.        *)
LEMMA JobNamesAre ==
  ASSUME NEW n \in JobNames
  PROVE  /\ n = <<n[1], n[2]>>
         /\ n[1] \in {"list", "init"} => n[2] = None
         /\ n[1] = "backup" => n[2] \in Volumes
         /\ n[1] \in {"delete", "restore"} => n[2] \in Ids
         /\ n[1] \in {"list", "init", "backup", "delete", "restore"}
  BY DEF JobNames

(* Every command on an existing volume or snapshot has a job name.          *)
LEMMA NamesOfJobs ==
  /\ \A v \in Volumes : <<"backup", v>> \in JobNames
  /\ \A s \in Ids : <<"delete", s>> \in JobNames /\ <<"restore", s>> \in JobNames
  /\ <<"list", None>> \in JobNames /\ <<"init", None>> \in JobNames
  BY DEF JobNames

(* The job of a handler's command is of the kind of the command.            *)
LEMMA JobNameIs ==
  ASSUME TypeOK, CallsWellFormed, NEW c \in Calls, call[c].pc # "idle"
  PROVE  /\ JobName(c) \in JobNames
         /\ call[c].stage \in {"check", "list"} => JobName(c) = <<"list", None>>
         /\ call[c].stage = "init" => JobName(c) = <<"init", None>>
         /\ call[c].stage = "backup" => /\ call[c].op = "create" /\ call[c].arg \in Requests
                                        /\ JobName(c) = <<"backup", Source[call[c].arg]>>
         /\ call[c].stage = "delete" => call[c].snap \in Ids /\ JobName(c) = <<"delete", call[c].snap>>
         /\ call[c].stage = "restore" => call[c].snap \in Ids /\ JobName(c) = <<"restore", call[c].snap>>
         /\ call[c].stage \in {"check", "list", "init", "backup", "delete", "restore"}
  <1>1. /\ call[c].stage \in {"check", "list", "init", "backup", "delete", "restore"}
        /\ call[c].stage = "backup" => call[c].op = "create" /\ call[c].arg \in Requests
        /\ call[c].stage \in {"delete", "restore"} => call[c].snap \in Ids
    BY DEF CallsWellFormed, WellFormed, Idle, Creates, Deletes, Asks, Restores, TypeOK, SnapKnown
  <1>2. call[c].stage \in {"check", "list"} => JobName(c) = <<"list", None>>
    BY DEF JobName
  <1>3. call[c].stage = "init" => JobName(c) = <<"init", None>>
    BY DEF JobName
  <1>4. call[c].stage = "backup" => JobName(c) = <<"backup", Source[call[c].arg]>>
    BY DEF JobName
  <1>5. call[c].stage = "delete" => JobName(c) = <<"delete", call[c].snap>>
    BY DEF JobName
  <1>6. call[c].stage = "restore" => JobName(c) = <<"restore", call[c].snap>>
    BY DEF JobName
  <1> QED  BY <1>1, <1>2, <1>3, <1>4, <1>5, <1>6, NamesOfJobs

(* An idle handler is a handler.                                            *)
LEMMA IdleType == Idle \in Call
  BY DEF Idle, Call, Ops, Stages, PCs

(* A missing job is a job.                                                  *)
LEMMA NoJobType == NoJob \in Job
  BY DEF NoJob, Job

(* A job created by a handler is a job.                                     *)
LEMMA JobOfType ==
  ASSUME TypeOK, CallsWellFormed, NEW c \in Calls, call[c].pc # "idle"
  PROVE  JobOf(c) \in Job
  <1>1. call[c].stage = "backup" => Source[call[c].arg] \in Volumes
    BY JobNameIs
  <1>2. call[c].stage = "restore" => call[c].arg \in Targets
    BY DEF CallsWellFormed, WellFormed, Idle, Creates, Deletes, Asks, Restores
  <1> QED  BY <1>1, <1>2 DEF JobOf, NoJob, Job

(* A record of a handler at another step of its command.                    *)
LEMMA OnlyOne ==
  ASSUME TypeOK, NEW c \in Calls, NEW r \in Call, call' = [call EXCEPT ![c] = r]
  PROVE  Only(c) /\ call'[c] = r
  BY DEF Only, TypeOK

-----------------------------------------------------------------------------
(* The kinds of steps. *)

(* A job is marked for deletion, or there is none.                          *)
LEMMA TerminateIs ==
  ASSUME NEW n, Terminate(n)
  PROVE  UNCHANGED job \/ job' = [job EXCEPT ![n].terminating = TRUE]
  BY DEF Terminate

(* The types of a handler's fields.                                         *)
LEMMA FieldTypes ==
  ASSUME TypeOK, NEW c \in Calls
  PROVE  /\ call[c].result \in {"ok", "nokey", "error"} /\ call[c].out \in SUBSET Ids
         /\ call[c].pc \in PCs /\ call[c].snap \in Ids \cup {None}
         /\ call[c].op \in Ops /\ call[c].stage \in Stages
         /\ call[c].arg \in Requests \cup Targets \cup {None}
         /\ call[c] \in Call
  BY DEF TypeOK, Call

(* A step of a handler in doResticJob, given its new record.                *)
LEMMA RecordMoves ==
  ASSUME TypeOK, NEW c \in Calls, NEW r \in Call, call' = [call EXCEPT ![c] = r],
         call[c].pc # "idle", r.pc # "idle",
         r.op = call[c].op, r.arg = call[c].arg, r.stage = call[c].stage, r.snap = call[c].snap,
         Done(r) => Done(call[c]) \/ job[JobName(c)].state = "done",
         r.stage = "backup" => r.out \subseteq call[c].out \cup job[JobName(c)].out,
         JobMove(c), UNCHANGED <<storage, objects>>
  PROVE  Moves(c)
  BY OnlyOne DEF Moves

(* Going on within doResticJob, without having seen the job done.           *)
LEMMA GotoMoves ==
  ASSUME TypeOK, NEW c \in Calls, NEW pc \in PCs \ {"idle"}, call[c].pc # "idle",
         Goto(c, pc), pc \in {"logs", "unjob", "unsecret"} => call[c].pc \in {"logs", "unjob"},
         JobMove(c), UNCHANGED <<storage, objects>>
  PROVE  Moves(c)
  <1> DEFINE r == [call[c] EXCEPT !.pc = pc]
  <1>1. call' = [call EXCEPT ![c] = r]
    BY DEF Goto
  <1>2. /\ r \in Call /\ r.pc = pc /\ r.result = call[c].result /\ r.out = call[c].out
        /\ r.op = call[c].op /\ r.arg = call[c].arg /\ r.stage = call[c].stage
        /\ r.snap = call[c].snap
    BY FieldTypes DEF Call
  <1>3. Done(r) => Done(call[c])
    BY <1>2 DEF Done
  <1> HIDE DEF r
  <1> QED  BY <1>1, <1>2, <1>3, RecordMoves

(* Going on with an error noted.                                            *)
LEMMA ErrorMoves ==
  ASSUME TypeOK, NEW c \in Calls, NEW pc \in PCs \ {"idle"}, call[c].pc # "idle",
         call' = [call EXCEPT ![c].result = "error", ![c].pc = pc],
         JobMove(c), UNCHANGED <<storage, objects>>
  PROVE  Moves(c)
  <1> DEFINE r == [call[c] EXCEPT !.result = "error", !.pc = pc]
  <1>1. call' = [call EXCEPT ![c] = r]
    BY DEF TypeOK
  <1>2. /\ r \in Call /\ r.pc = pc /\ r.result = "error" /\ r.out = call[c].out
        /\ r.op = call[c].op /\ r.arg = call[c].arg /\ r.stage = call[c].stage
        /\ r.snap = call[c].snap
    BY FieldTypes DEF Call
  <1>3. ~Done(r)
    BY <1>2 DEF Done
  <1> HIDE DEF r
  <1> QED  BY <1>1, <1>2, <1>3, RecordMoves

(* The steps of doResticJob before it returns.                              *)
LEMMA JobStepsMove ==
  ASSUME IInv, NEW c \in Calls,
         CreateSecret(c) \/ CreateJob(c) \/ RecreateJob(c) \/ PollJob(c)
           \/ PollExpires(c) \/ ReadLogs(c) \/ DeleteJob(c)
  PROVE  Moves(c)
  <1> USE DEF IInv
  <1>1. call[c].pc # "idle"
    BY DEF CreateSecret, CreateJob, RecreateJob, PollJob, PollExpires, ReadLogs, DeleteJob
  <1>2. {"secret", "job", "rejob", "poll", "logs", "unjob", "unsecret"} = PCs \ {"idle"}
    BY DEF PCs
  <1>3. CASE CreateSecret(c)
    BY <1>1, <1>2, <1>3, GotoMoves DEF CreateSecret, JobMove
  <1>4. CASE CreateJob(c)
    BY <1>1, <1>2, <1>4, GotoMoves, TerminateIs DEF CreateJob, JobMove
  <1>5. CASE RecreateJob(c)
    BY <1>1, <1>2, <1>5, GotoMoves, ErrorMoves DEF RecreateJob, JobMove, NoJobCreated
  <1>6. CASE PollJob(c)
    <2>1. UNCHANGED <<job, storage, objects>> /\ JobMove(c)
      BY <1>6 DEF PollJob, JobMove
    <2>2. CASE Polled(c, "error")
      BY <1>1, <1>2, <2>1, <2>2, ErrorMoves DEF Polled
    <2>3. CASE job[JobName(c)].state = "done" /\ Polled(c, "ok")
      <3> DEFINE r == [call[c] EXCEPT !.result = "ok", !.pc = "logs"]
      <3>1. call' = [call EXCEPT ![c] = r]
        BY <2>3 DEF TypeOK, Polled
      <3>2. /\ r \in Call /\ r.pc = "logs" /\ r.result = "ok" /\ r.out = call[c].out
            /\ r.op = call[c].op /\ r.arg = call[c].arg /\ r.stage = call[c].stage
            /\ r.snap = call[c].snap
        BY FieldTypes, <1>2 DEF Call
      <3> HIDE DEF r
      <3> QED  BY <1>1, <2>1, <2>3, <3>1, <3>2, RecordMoves
    <2> QED  BY <1>6, <2>2, <2>3 DEF PollJob
  <1>7. CASE PollExpires(c)
    BY <1>1, <1>2, <1>7, ErrorMoves DEF PollExpires, JobMove, Polled
  <1>8. CASE ReadLogs(c)
    <2> DEFINE j == job[JobName(c)]
    <2>1. UNCHANGED <<job, storage, objects>> /\ JobMove(c)
      BY <1>8 DEF ReadLogs, JobMove
    <2>2. j \in Job /\ j.out \in SUBSET Ids
      BY <1>1, JobNameIs DEF TypeOK, Job
    <2>3. CASE j.state \notin {"absent", "pending"}
      <3> DEFINE out == IF call[c].stage \in {"backup", "list"} THEN j.out ELSE {}
                 res == IF call[c].result = "error" /\ j.state = "nokey" THEN "nokey"
                        ELSE call[c].result
                 r == [call[c] EXCEPT !.pc = "unjob", !.out = out, !.result = res]
      <3>1. call' = [call EXCEPT ![c] = r]
        BY <1>8, <2>3 DEF TypeOK, ReadLogs
      <3>2. out \in SUBSET Ids /\ res \in {"ok", "nokey", "error"}
        BY <2>2, FieldTypes
      <3> HIDE DEF out, res
      <3>3. /\ r \in Call /\ r.pc = "unjob" /\ r.result = res /\ r.out = out
            /\ r.op = call[c].op /\ r.arg = call[c].arg /\ r.stage = call[c].stage
            /\ r.snap = call[c].snap
        BY <3>2, FieldTypes, <1>2 DEF Call
      <3>4. Done(r) => Done(call[c])
        BY <1>8, <3>3 DEF Done, ReadLogs, res
      <3>5. r.out \subseteq call[c].out \cup job[JobName(c)].out
        BY <3>3, FieldTypes DEF out
      <3> HIDE DEF r
      <3> QED  BY <1>1, <2>1, <3>1, <3>3, <3>4, <3>5, RecordMoves
    <2>4. CASE j.state \in {"absent", "pending"}
      <3>1. call' = [call EXCEPT ![c].pc = "unjob", ![c].result = "error"]
        BY <1>8, <2>4 DEF ReadLogs
      <3>2. call' = [call EXCEPT ![c].result = "error", ![c].pc = "unjob"]
        BY <3>1 DEF TypeOK
      <3> QED  BY <1>1, <1>2, <2>1, <3>2, ErrorMoves
    <2> QED  BY <2>3, <2>4
  <1>9. CASE DeleteJob(c)
    BY <1>1, <1>2, <1>9, GotoMoves, TerminateIs DEF DeleteJob, JobMove
  <1> QED  BY <1>3, <1>4, <1>5, <1>6, <1>7, <1>8, <1>9

(* A return without a result.                                               *)
LEMMA ReturnDrops ==
  ASSUME TypeOK, NEW c \in Calls, Return(c), UNCHANGED <<job, storage, objects>>
  PROVE  Drops
  BY IdleType DEF TypeOK, Return, Drops

(* What a handler does between two commands, and when it returns.           *)
LEMMA HandleKinds ==
  ASSUME IInv, NEW c \in Calls, At(c, "unsecret"), Handle(c), UNCHANGED <<job, storage>>
  PROVE  Runs(c) \/ Drops \/ Reports(c)
  <1>1. CASE CheckDone(c)
    BY <1>1 DEF CheckDone, Runs, Result
  <1>2. CASE BackupDone(c) \/ RestoreListDone(c)
    BY <1>2 DEF BackupDone, RestoreListDone, Runs
  <1>3. CASE StatusDone(c) \/ Fails(c)
    BY <1>3, ReturnDrops DEF StatusDone, Fails, IInv
  <1>4. CASE ListDone(c) \/ DeleteDone(c) \/ RestoreDone(c)
    BY <1>4 DEF Reports
  <1> QED  BY <1>1, <1>2, <1>3, <1>4 DEF Handle

(* A failing call to Kubernetes is a step of doResticJob, or ends the       *)
(* command.                                                                 *)
LEMMA CallFailsKinds ==
  ASSUME IInv, NEW c \in Calls, CallFails(c)
  PROVE  Moves(c) \/ Runs(c) \/ Drops \/ Reports(c)
  <1>1. UNCHANGED <<job, storage>> /\ JobMove(c)
    BY DEF CallFails, JobMove
  <1>2. CASE Return(c) /\ UNCHANGED objects
    BY <1>1, <1>2, ReturnDrops DEF IInv
  <1>3. CASE At(c, "unsecret") /\ Handle(c)
    BY <1>1, <1>3, HandleKinds
  <1>4. CASE /\ UNCHANGED objects
             /\ \/ (At(c, "job") \/ At(c, "rejob")) /\ NoJobCreated(c)
                \/ At(c, "poll") /\ call' = [call EXCEPT ![c].result = "error", ![c].pc = "logs"]
                \/ At(c, "logs") /\ call' = [call EXCEPT ![c].result = "error", ![c].pc = "unjob"]
    BY <1>1, <1>4, ErrorMoves DEF IInv, NoJobCreated, PCs
  <1>5. CASE /\ UNCHANGED objects
             /\ (At(c, "job") /\ Goto(c, "rejob")) \/ (At(c, "unjob") /\ Goto(c, "unsecret"))
    BY <1>1, <1>5, GotoMoves DEF IInv, PCs
  <1> QED  BY <1>2, <1>3, <1>4, <1>5 DEF CallFails

(* Every step is of one of these kinds.                                     *)
LEMMA StepKinds ==
  ASSUME IInv, Next
  PROVE  \/ \E c \in Calls : Moves(c) \/ Runs(c) \/ Reports(c) \/ Begins(c)
         \/ Drops
         \/ \E n \in JobNames : JobRuns(n) \/ JobVanishes(n)
  <1>1. ASSUME NEW c \in Calls, Begins(c)
        PROVE  \E d \in Calls : Begins(d)
    BY <1>1
  <1>2. ASSUME NEW c \in Calls, DoResticJob(c)
        PROVE  Moves(c) \/ Runs(c) \/ Reports(c) \/ Drops
    <2>1. CASE DeleteSecret(c)
      BY <2>1, HandleKinds DEF DeleteSecret
    <2> QED  BY <1>2, <2>1, JobStepsMove, CallFailsKinds DEF DoResticJob
  <1>3. ASSUME NEW c \in Calls, StopWaiting(c)
        PROVE  Drops
    BY <1>3, ReturnDrops DEF StopWaiting, IInv
  <1>4. CASE Restart
    BY <1>4, IdleType DEF Restart, Drops, IInv, TypeOK
  <1>5. ASSUME NEW n \in JobNames, JobRuns(n) \/ JobVanishes(n)
        PROVE  \E m \in JobNames : JobRuns(m) \/ JobVanishes(m)
    BY <1>5
  <1> QED  BY <1>1, <1>2, <1>3, <1>4, <1>5 DEF Next, Begins

(* Secrets are in the namespaces of jobs, and the count of faults stays in  *)
(* its bounds.                                                              *)
LEMMA SecretsAndFaults ==
  ASSUME TypeOK, Next
  PROVE  secrets' \in SUBSET Namespaces /\ faults' \in 0..MaxFaults
  <1>1. \A n : NamespaceOf(n) \in Namespaces
    BY DEF NamespaceOf, Namespaces
  <1>2. \A k : Fault(k) => faults' \in 0..MaxFaults
    BY DEF Fault, TypeOK
  <1>3. faults \in 0..MaxFaults /\ secrets \in SUBSET Namespaces
    BY DEF TypeOK
  <1>4. ASSUME NEW c \in Calls, DoResticJob(c) \/ StopWaiting(c)
        PROVE  secrets' \in SUBSET Namespaces /\ faults' \in 0..MaxFaults
    BY <1>1, <1>2, <1>3, <1>4
       DEF DoResticJob, CreateSecret, CreateJob, RecreateJob, PollJob, PollExpires, ReadLogs,
           DeleteJob, DeleteSecret, CallFails, StopWaiting
  <1>5. ASSUME NEW n \in JobNames, JobRuns(n) \/ JobVanishes(n)
        PROVE  secrets' \in SUBSET Namespaces /\ faults' \in 0..MaxFaults
    BY <1>2, <1>3, <1>5
       DEF JobRuns, JobLists, JobInits, JobForgets, JobStartsBackup, JobBacksUp,
           JobStartsRestore, JobRestores, JobFails, JobVanishes
  <1>6. ASSUME NEW c \in Calls, Begins(c)
        PROVE  secrets' \in SUBSET Namespaces /\ faults' \in 0..MaxFaults
    BY <1>3, <1>6
       DEF Begins, CreateSnapshot, DeleteSnapshot, ListSnapshots, RestoreSnapshot
  <1>7. CASE Restart
    BY <1>2, <1>3, <1>7 DEF Restart
  <1> QED  BY <1>4, <1>5, <1>6, <1>7 DEF Next, Begins

-----------------------------------------------------------------------------
(* Types, and what a handler's record says about its object. *)

(* A job marked for deletion is a job.                                      *)
LEMMA TerminatingType ==
  \A j \in Job : [j EXCEPT !.terminating = TRUE] \in Job
  BY DEF Job

(* The steps of doResticJob preserve IInv.                                  *)
LEMMA MovesIInv ==
  ASSUME IInv, NEW c \in Calls, Moves(c),
         secrets' \in SUBSET Namespaces, faults' \in 0..MaxFaults
  PROVE  IInv'
  <1> USE DEF IInv
  <1>1. job' \in [JobNames -> Job]
    BY JobOfType, JobNameIs, TerminatingType DEF Moves, JobMove, TypeOK
  <1>2. TypeOK'
    BY <1>1 DEF Moves, Only, TypeOK, SnapKnown
  <1>3. CallsWellFormed'
    <2> SUFFICES ASSUME NEW d \in Calls PROVE WellFormed(call[d])'
      BY DEF CallsWellFormed
    <2>1. CASE d # c
      BY <2>1 DEF Moves, Only, CallsWellFormed, WellFormed, Creates, Deletes, Asks, Restores
    <2>2. CASE d = c
      BY <2>2 DEF Moves, Idle, CallsWellFormed, WellFormed, Creates, Deletes, Asks, Restores
    <2> QED  BY <2>1, <2>2
  <1>4. OneCallPerObject'
    BY DEF Moves, Only, OneCallPerObject
  <1>5. DoomedHaveHandles'
    BY DEF Moves, DoomedHaveHandles
  <1> QED  BY <1>2, <1>3, <1>4, <1>5

(* Returns without a result preserve IInv.                                  *)
LEMMA DropsIInv ==
  ASSUME IInv, Drops, secrets' \in SUBSET Namespaces, faults' \in 0..MaxFaults
  PROVE  IInv'
  <1> USE DEF IInv
  <1>1. TypeOK'
    BY DEF Drops, TypeOK, SnapKnown, Idle
  <1>2. CallsWellFormed'
    BY DEF Drops, CallsWellFormed, WellFormed, Creates, Deletes, Asks, Restores
  <1>3. OneCallPerObject'
    BY DEF Drops, OneCallPerObject, Idle
  <1>4. DoomedHaveHandles'
    BY DEF Drops, DoomedHaveHandles
  <1> QED  BY <1>1, <1>2, <1>3, <1>4

(* The record of a handler at the first step of its next command.           *)
LEMMA RunRecord ==
  ASSUME TypeOK, NEW c \in Calls, NEW stage \in Stages, NEW snap \in Ids \cup {None},
         Run(c, stage, snap)
  PROVE  /\ Only(c)
         /\ call'[c].op = call[c].op /\ call'[c].arg = call[c].arg
         /\ call'[c].stage = stage /\ call'[c].snap = snap /\ call'[c].pc = "secret"
         /\ call'[c].out = {}
  <1> DEFINE r == [call[c] EXCEPT !.stage = stage, !.snap = snap, !.pc = "secret",
                                  !.result = "ok", !.out = {}]
  <1>1. call' = [call EXCEPT ![c] = r]
    BY DEF TypeOK, Run
  <1>2. /\ r \in Call /\ r.pc = "secret" /\ r.out = {} /\ r.op = call[c].op
        /\ r.arg = call[c].arg /\ r.stage = stage /\ r.snap = snap
    BY FieldTypes DEF Call, PCs
  <1> HIDE DEF r
  <1> QED  BY <1>1, <1>2, OnlyOne

(* Which command a handler goes on with.                                    *)
LEMMA RunsRecord ==
  ASSUME IInv, NEW c \in Calls, Runs(c)
  PROVE  /\ Only(c)
         /\ call'[c].op = call[c].op /\ call'[c].arg = call[c].arg
         /\ call'[c].pc = "secret" /\ call'[c].out = {}
         /\ \/ /\ call[c].op = "create"
               /\ call'[c].stage \in {"init", "backup"} /\ call'[c].snap = None
            \/ /\ call[c].op = "create" /\ call[c].stage = "backup"
               /\ call'[c].stage = "list" /\ call'[c].snap \in call[c].out
            \/ /\ call[c].op = "restore" /\ call'[c].stage = "restore"
               /\ call'[c].snap = call[c].snap /\ call[c].snap \in Ids
  <1>1. CASE Run(c, "init", None) /\ call[c].op = "create"
    BY <1>1, RunRecord DEF IInv, Stages
  <1>2. CASE Run(c, "backup", None) /\ call[c].op = "create"
    BY <1>2, RunRecord DEF IInv, Stages
  <1>3. CASE BackupDone(c)
    BY <1>3, RunRecord, FieldTypes DEF BackupDone, Result, IInv, Stages
  <1>4. CASE RestoreListDone(c)
    BY <1>4, RunRecord, FieldTypes DEF RestoreListDone, Result, IInv, Stages
  <1> QED  BY <1>1, <1>2, <1>3, <1>4 DEF Runs

(* Going on to the next command preserves IInv.                             *)
LEMMA RunsIInv ==
  ASSUME IInv, NEW c \in Calls, Runs(c),
         secrets' \in SUBSET Namespaces, faults' \in 0..MaxFaults
  PROVE  IInv'
  <1> USE DEF IInv
  <1>0. UNCHANGED <<job, storage, objects>> /\ call[c].pc # "idle"
    BY DEF Runs
  <1>1. TypeOK'
    BY <1>0, RunsRecord, FieldTypes DEF Only, TypeOK, SnapKnown
  <1>2. CallsWellFormed'
    <2> SUFFICES ASSUME NEW d \in Calls PROVE WellFormed(call[d])'
      BY DEF CallsWellFormed
    <2>1. CASE d # c
      BY <1>0, <2>1, RunsRecord DEF Only, CallsWellFormed, WellFormed, Creates, Deletes, Asks, Restores
    <2>2. CASE d = c
      BY <1>0, <2>2, RunsRecord
         DEF Idle, CallsWellFormed, WellFormed, Creates, Deletes, Asks, Restores
    <2> QED  BY <2>1, <2>2
  <1>3. OneCallPerObject'
    BY <1>0, RunsRecord DEF Only, OneCallPerObject
  <1>4. DoomedHaveHandles'
    BY <1>0 DEF DoomedHaveHandles
  <1> QED  BY <1>1, <1>2, <1>3, <1>4

(* The record of a handler that begins.                                     *)
LEMMA BeginRecord ==
  ASSUME TypeOK, NEW c \in Calls, NEW op \in Ops, NEW arg \in Requests \cup Targets,
         NEW stage \in Stages, NEW snap \in Ids \cup {None}, Begin(c, op, arg, stage, snap)
  PROVE  /\ Only(c)
         /\ call'[c].op = op /\ call'[c].arg = arg /\ call'[c].stage = stage
         /\ call'[c].snap = snap /\ call'[c].pc = "secret" /\ call'[c].out = {}
  <1> DEFINE r == [Idle EXCEPT !.op = op, !.arg = arg, !.stage = stage, !.pc = "secret",
                               !.snap = snap]
  <1>1. call' = [call EXCEPT ![c] = r]
    BY DEF Begin
  <1>2. /\ r \in Call /\ r.pc = "secret" /\ r.out = {} /\ r.op = op
        /\ r.arg = arg /\ r.stage = stage /\ r.snap = snap
    BY DEF Call, PCs, Idle
  <1> HIDE DEF r
  <1> QED  BY <1>1, <1>2, OnlyOne

(* A handler begins for an object no handler is at work on.                 *)
LEMMA BeginsRecord ==
  ASSUME IInv, NEW c \in Calls, Begins(c)
  PROVE  /\ Only(c) /\ call[c].pc = "idle"
         /\ call'[c].pc = "secret" /\ call'[c].out = {}
         /\ call'[c].arg # None /\ \A d \in Calls : call[d].arg # call'[c].arg
         /\ \/ /\ call'[c].op = "create" /\ call'[c].stage = "check"
               /\ call'[c].arg \in Requests /\ handle[call'[c].arg] = None
               /\ UNCHANGED doomed
            \/ /\ call'[c].op = "delete" /\ call'[c].stage = "delete"
               /\ call'[c].arg \in Requests /\ handle[call'[c].arg] # None
               /\ call'[c].snap = handle[call'[c].arg]
               /\ doomed' = doomed \cup {call'[c].arg}
            \/ /\ call'[c].op = "status" /\ call'[c].stage = "check"
               /\ call'[c].arg \in Requests /\ UNCHANGED doomed
            \/ /\ call'[c].op = "restore" /\ call'[c].stage = "list"
               /\ call'[c].arg \in Targets \ restored
               /\ call'[c].snap = handle[RestoreFrom[call'[c].arg]]
               /\ handle[RestoreFrom[call'[c].arg]] # None
               /\ UNCHANGED doomed
         /\ UNCHANGED <<job, storage, handle, removed, restored>>
  <1> USE DEF IInv
  <1>0. handle \in [Requests -> Ids \cup {None}]
    BY DEF TypeOK
  <1>1. ASSUME NEW r \in Requests, CreateSnapshot(c, r)
        PROVE  /\ Only(c) /\ call'[c].op = "create" /\ call'[c].arg = r
               /\ call'[c].stage = "check" /\ call'[c].pc = "secret" /\ call'[c].out = {}
    BY <1>1, BeginRecord DEF CreateSnapshot, Ops, Stages
  <1>2. ASSUME NEW r \in Requests, DeleteSnapshot(c, r)
        PROVE  /\ Only(c) /\ call'[c].op = "delete" /\ call'[c].arg = r
               /\ call'[c].stage = "delete" /\ call'[c].pc = "secret" /\ call'[c].out = {}
               /\ call'[c].snap = handle[r]
    BY <1>0, <1>2, BeginRecord DEF DeleteSnapshot, Ops, Stages
  <1>3. ASSUME NEW r \in Requests, ListSnapshots(c, r)
        PROVE  /\ Only(c) /\ call'[c].op = "status" /\ call'[c].arg = r
               /\ call'[c].stage = "check" /\ call'[c].pc = "secret" /\ call'[c].out = {}
    BY <1>3, BeginRecord DEF ListSnapshots, Ops, Stages
  <1>4. ASSUME NEW t \in Targets, RestoreSnapshot(c, t)
        PROVE  /\ Only(c) /\ call'[c].op = "restore" /\ call'[c].arg = t
               /\ call'[c].stage = "list" /\ call'[c].pc = "secret" /\ call'[c].out = {}
               /\ call'[c].snap = handle[RestoreFrom[t]]
    BY <1>0, <1>4, BeginRecord DEF RestoreSnapshot, Ops, Stages
  <1>5. CASE \E r \in Requests : CreateSnapshot(c, r)
    <2>1. PICK r \in Requests : CreateSnapshot(c, r)
      BY <1>5
    <2> QED  BY <1>1, <2>1 DEF CreateSnapshot, NotHandled
  <1>6. CASE \E r \in Requests : DeleteSnapshot(c, r)
    <2>1. PICK r \in Requests : DeleteSnapshot(c, r)
      BY <1>6
    <2> QED  BY <1>2, <2>1 DEF DeleteSnapshot, NotHandled
  <1>7. CASE \E r \in Requests : ListSnapshots(c, r)
    <2>1. PICK r \in Requests : ListSnapshots(c, r)
      BY <1>7
    <2> QED  BY <1>3, <2>1 DEF ListSnapshots, NotHandled
  <1>8. CASE \E t \in Targets : RestoreSnapshot(c, t)
    <2>1. PICK t \in Targets : RestoreSnapshot(c, t)
      BY <1>8
    <2> QED  BY <1>4, <2>1 DEF RestoreSnapshot, NotHandled
  <1> QED  BY <1>5, <1>6, <1>7, <1>8 DEF Begins

(* New calls preserve IInv.                                                 *)
LEMMA BeginsIInv ==
  ASSUME IInv, NEW c \in Calls, Begins(c),
         secrets' \in SUBSET Namespaces, faults' \in 0..MaxFaults
  PROVE  IInv'
  <1> USE DEF IInv
  <1>1. TypeOK'
    BY BeginsRecord DEF Only, TypeOK, SnapKnown
  <1>2. CallsWellFormed'
    <2> SUFFICES ASSUME NEW d \in Calls PROVE WellFormed(call[d])'
      BY DEF CallsWellFormed
    <2>1. CASE d # c
      BY <2>1, BeginsRecord DEF Only, CallsWellFormed, WellFormed, Creates, Deletes, Asks, Restores
    <2>2. CASE d = c
      BY <2>2, BeginsRecord DEF WellFormed, Creates, Deletes, Asks, Restores
    <2> QED  BY <2>1, <2>2
  <1>3. OneCallPerObject'
    BY BeginsRecord DEF Only, OneCallPerObject
  <1>4. DoomedHaveHandles'
    BY BeginsRecord DEF DoomedHaveHandles
  <1> QED  BY <1>1, <1>2, <1>3, <1>4

(* A handler that reports a result: the request had no handle, is doomed,   *)
(* or is a target, and the handler is gone.                                 *)
LEMMA ReportsRecord ==
  ASSUME IInv, NEW c \in Calls, Reports(c)
  PROVE  /\ Only(c) /\ call'[c] = Idle
         /\ call[c].result = "ok" /\ At(c, "unsecret")
         /\ \/ /\ call[c].op = "create" /\ call[c].stage = "list"
               /\ call[c].arg \in Requests /\ handle[call[c].arg] = None
               /\ call[c].snap \in Ids
               /\ handle' = [handle EXCEPT ![call[c].arg] = call[c].snap]
               /\ UNCHANGED <<doomed, removed, restored>>
            \/ /\ call[c].op = "delete" /\ call[c].arg \in doomed
               /\ call[c].snap = handle[call[c].arg]
               /\ removed' = removed \cup {call[c].arg}
               /\ UNCHANGED <<handle, doomed, restored>>
            \/ /\ call[c].op = "restore" /\ call[c].stage = "restore"
               /\ call[c].arg \in Targets /\ call[c].snap = handle[RestoreFrom[call[c].arg]]
               /\ call[c].snap \in Ids
               /\ restored' = restored \cup {call[c].arg}
               /\ UNCHANGED <<handle, doomed, removed>>
         /\ UNCHANGED <<job, storage>>
  <1> USE DEF IInv
  <1>1. Only(c) /\ call'[c] = Idle
    BY IdleType, OnlyOne DEF Reports, ListDone, DeleteDone, RestoreDone, Return
  <1>2. WellFormed(call[c]) /\ call[c] # Idle
    BY DEF Reports, CallsWellFormed, Idle
  <1>3. SnapKnown(c) => call[c].snap \in Ids
    BY DEF TypeOK
  <1>4. CASE ListDone(c)
    BY <1>1, <1>2, <1>3, <1>4
       DEF Reports, ListDone, Result, WellFormed, Creates, Deletes, Asks, Restores, SnapKnown
  <1>5. CASE DeleteDone(c)
    BY <1>1, <1>2, <1>3, <1>5
       DEF Reports, DeleteDone, Result, WellFormed, Creates, Deletes, Asks, Restores, SnapKnown
  <1>6. CASE RestoreDone(c)
    BY <1>1, <1>2, <1>3, <1>6
       DEF Reports, RestoreDone, Result, WellFormed, Creates, Deletes, Asks, Restores, SnapKnown
  <1> QED  BY <1>4, <1>5, <1>6 DEF Reports

(* Results preserve IInv.                                                   *)
LEMMA ReportsIInv ==
  ASSUME IInv, NEW c \in Calls, Reports(c),
         secrets' \in SUBSET Namespaces, faults' \in 0..MaxFaults
  PROVE  IInv'
  <1> USE DEF IInv
  <1>1. TypeOK'
    BY ReportsRecord DEF Only, TypeOK, SnapKnown, Idle
  <1>2. CallsWellFormed'
    <2> SUFFICES ASSUME NEW d \in Calls, d # c, call[d] # Idle PROVE WellFormed(call[d])'
      BY ReportsRecord DEF Only, CallsWellFormed, WellFormed
    <2>1. call'[d] = call[d] /\ call[d].pc # "idle"
      BY ReportsRecord DEF Only, CallsWellFormed, WellFormed
    <2>2. call[c].arg # None => call[d].arg # call[c].arg
      BY DEF OneCallPerObject
    <2>3. call[d].arg \in Requests /\ call[d].arg # call[c].arg
            => handle'[call[d].arg] = handle[call[d].arg]
      BY ReportsRecord DEF TypeOK
    <2>4. CASE Creates(call[d])
      BY <2>1, <2>2, <2>3, <2>4, ReportsRecord DEF WellFormed, Creates
    <2>5. CASE Deletes(call[d])
      BY <2>1, <2>2, <2>3, <2>5, ReportsRecord DEF WellFormed, Deletes, TypeOK
    <2>6. CASE Asks(call[d])
      BY <2>1, <2>6 DEF WellFormed, Asks
    <2>7. CASE Restores(call[d])
      <3>1. call[d].snap \in Ids /\ RestoreFrom[call[d].arg] \in Requests
        BY <2>7 DEF Restores, TypeOK, SnapKnown
      <3>2. handle[RestoreFrom[call[d].arg]] # None
        BY <2>7, <3>1 DEF Restores
      <3>3. handle'[RestoreFrom[call[d].arg]] = handle[RestoreFrom[call[d].arg]]
        BY <3>1, <3>2, ReportsRecord DEF TypeOK
      <3> QED  BY <2>1, <2>7, <3>3 DEF WellFormed, Restores
    <2> QED  BY <2>4, <2>5, <2>6, <2>7 DEF CallsWellFormed, WellFormed
  <1>3. OneCallPerObject'
    BY ReportsRecord DEF Only, OneCallPerObject, Idle
  <1>4. DoomedHaveHandles'
    BY ReportsRecord DEF DoomedHaveHandles, TypeOK
  <1> QED  BY <1>1, <1>2, <1>3, <1>4

(* What changes when a job changes its state.                               *)
LEMMA EndsRecord ==
  ASSUME TypeOK, NEW n \in JobNames, NEW out \in SUBSET Ids,
         NEW state \in {"absent", "pending", "running", "done", "failed", "nokey"},
         Ends(n, state, out)
  PROVE  /\ job' \in [JobNames -> Job]
         /\ \A m \in JobNames : m # n => job'[m] = job[m]
         /\ job'[n].state = state /\ job'[n].out = out
         /\ job'[n].target = job[n].target /\ job'[n].source = job[n].source
         /\ job'[n].terminating = job[n].terminating
  <1> DEFINE j == [job[n] EXCEPT !.state = state, !.out = out]
  <1>1. job' = [job EXCEPT ![n] = j]
    BY DEF TypeOK, Ends
  <1>2. job[n] \in Job
    BY DEF TypeOK
  <1>3. /\ j \in Job /\ j.state = state /\ j.out = out /\ j.target = job[n].target
        /\ j.source = job[n].source
    BY <1>2 DEF Job
  <1>4. j.terminating = job[n].terminating
    BY <1>2 DEF Job
  <1> HIDE DEF j
  <1>5. job' \in [JobNames -> Job] /\ job'[n] = j /\ \A m \in JobNames : m # n => job'[m] = job[m]
    BY <1>1, <1>3 DEF TypeOK
  <1> QED  BY <1>3, <1>4, <1>5

(* What a job does: its own state and, for the command it runs, the         *)
(* repository or the target it writes to.                                   *)
Works(n) ==
    /\ job' \in [JobNames -> Job]
    /\ \A m \in JobNames : m # n => job'[m] = job[m]
    /\ job'[n].target = job[n].target /\ job'[n].source = job[n].source
    /\ job'[n].terminating = job[n].terminating
    /\ job[n].state \in {"pending", "running"}
    /\ job'[n].state \in {"running", "done", "failed", "nokey"}
    /\ UNCHANGED <<call, secrets, objects>>

(* A running job changes no other job, no handler and no object.            *)
LEMMA JobRunsWorks ==
  ASSUME IInv, NEW n \in JobNames, JobRuns(n)
  PROVE  Works(n)
  <1> USE DEF IInv
  <1>1. InRepo \in SUBSET Ids
    BY DEF InRepo
  <1>2. ASSUME JobLists(n) \/ JobInits(n) \/ JobStartsBackup(n) \/ JobFails(n)
        PROVE  Works(n)
    BY <1>1, <1>2, EndsRecord
       DEF JobLists, JobInits, JobStartsBackup, JobFails, Works, CanStart
  <1>3. ASSUME JobForgets(n) \/ JobStartsRestore(n) \/ JobRestores(n)
        PROVE  Works(n)
    BY <1>3, EndsRecord DEF JobForgets, JobStartsRestore, JobRestores, Works, CanStart
  <1>4. ASSUME JobBacksUp(n)
        PROVE  Works(n)
    BY <1>4, EndsRecord DEF JobBacksUp, Works
  <1> QED  BY <1>2, <1>3, <1>4 DEF JobRuns

(* The repository and the targets: what each job writes.                    *)
LEMMA JobRunsStorage ==
  ASSUME IInv, NEW n \in JobNames, JobRuns(n)
  PROVE  /\ inited' \in BOOLEAN
         /\ repo' \in [Ids -> Volumes \cup {None}]
         /\ contents' \in [Targets -> Ids \cup {None, "partial"}]
  <1> USE DEF IInv
  <1>1. /\ inited \in BOOLEAN /\ repo \in [Ids -> Volumes \cup {None}]
        /\ contents \in [Targets -> Ids \cup {None, "partial"}]
        /\ job[n].source \in Volumes \cup {None}
    BY DEF TypeOK, Job
  <1>2. CASE JobLists(n) \/ JobStartsBackup(n) \/ JobFails(n)
    BY <1>1, <1>2 DEF JobLists, JobStartsBackup, JobFails
  <1>3. CASE JobInits(n)
    BY <1>1, <1>3 DEF JobInits
  <1>4. CASE JobForgets(n)
    BY <1>1, <1>4 DEF JobForgets
  <1>5. CASE JobBacksUp(n)
    BY <1>1, <1>5 DEF JobBacksUp
  <1>6. CASE JobStartsRestore(n)
    BY <1>1, <1>6 DEF JobStartsRestore
  <1>7. CASE JobRestores(n)
    BY <1>1, <1>7, JobNamesAre DEF JobRestores
  <1> QED  BY <1>2, <1>3, <1>4, <1>5, <1>6, <1>7 DEF JobRuns

(* A vanishing job had been marked and leaves its name free.                *)
LEMMA VanishesRecord ==
  ASSUME IInv, NEW n \in JobNames, JobVanishes(n)
  PROVE  /\ job' \in [JobNames -> Job]
         /\ \A m \in JobNames : m # n => job'[m] = job[m]
         /\ job'[n].state = "absent" /\ job'[n].out = {} /\ job[n].terminating
         /\ UNCHANGED <<call, secrets, storage, objects, faults>>
  BY NoJobType DEF IInv, TypeOK, JobVanishes, NoJob

(* The jobs preserve IInv.                                                  *)
LEMMA JobRunsIInv ==
  ASSUME IInv, NEW n \in JobNames, JobRuns(n) \/ JobVanishes(n),
         secrets' \in SUBSET Namespaces, faults' \in 0..MaxFaults
  PROVE  IInv'
  <1> USE DEF IInv
  <1>1. UNCHANGED <<call, objects>> /\ job' \in [JobNames -> Job]
    BY JobRunsWorks, VanishesRecord DEF Works
  <1>2. /\ inited' \in BOOLEAN
        /\ repo' \in [Ids -> Volumes \cup {None}]
        /\ contents' \in [Targets -> Ids \cup {None, "partial"}]
    BY JobRunsStorage, VanishesRecord DEF TypeOK
  <1>3. TypeOK'
    BY <1>1, <1>2 DEF TypeOK, SnapKnown
  <1>4. (CallsWellFormed /\ OneCallPerObject /\ DoomedHaveHandles)'
    BY <1>1 DEF CallsWellFormed, OneCallPerObject, DoomedHaveHandles, WellFormed, Creates,
                Deletes, Asks, Restores
  <1> QED  BY <1>3, <1>4

(* IInv holds at the start.                                                 *)
LEMMA InitIInv == Init => IInv
  <1> SUFFICES ASSUME Init PROVE IInv
    OBVIOUS
  <1>1. TypeOK
    BY IdleType, NoJobType DEF Init, TypeOK, SnapKnown, Idle
  <1> QED
    BY <1>1 DEF Init, IInv, CallsWellFormed, WellFormed, OneCallPerObject, Idle, DoomedHaveHandles

(* IInv is inductive.                                                       *)
LEMMA StepIInv == IInv /\ [Next]_vars => IInv'
  <1> SUFFICES ASSUME IInv, [Next]_vars PROVE IInv'
    OBVIOUS
  <1>1. CASE UNCHANGED vars
    <2>1. TypeOK'
      BY <1>1 DEF IInv, TypeOK, SnapKnown
    <2>2. CallsWellFormed'
      BY <1>1 DEF IInv, CallsWellFormed, WellFormed, Creates, Deletes, Asks, Restores
    <2>3. OneCallPerObject' /\ DoomedHaveHandles'
      BY <1>1 DEF IInv, OneCallPerObject, DoomedHaveHandles
    <2> QED  BY <2>1, <2>2, <2>3 DEF IInv
  <1>2. CASE Next
    <2>1. secrets' \in SUBSET Namespaces /\ faults' \in 0..MaxFaults
      BY <1>2, SecretsAndFaults DEF IInv
    <2> QED
      BY <1>2, <2>1, StepKinds, MovesIInv, DropsIInv, RunsIInv, BeginsIInv, ReportsIInv, JobRunsIInv
  <1> QED  BY <1>1, <1>2

(* Handlers know the object they are called for, and no two handlers are at *)
(* work on one object, whatever calls and jobs fail.                        *)
THEOREM SnapshotInvariance == Spec => []IInv
  BY InitIInv, StepIInv, PTL DEF Spec

(* The state of the snapshot handlers, of the jobs and of the repository    *)
(* keeps its types under every fault.                                       *)
THEOREM SnapshotTypeCorrect == Spec => []TypeOK
<1>1. IInv => TypeOK
  BY DEF IInv
<1> QED  BY <1>1, SnapshotInvariance, PTL

-----------------------------------------------------------------------------
(* What a deletion reports. *)

(* What a new job has to do.                                                *)
LEMMA JobOfIs ==
  ASSUME NEW c
  PROVE  /\ JobOf(c).state = "pending" /\ JobOf(c).out = {}
         /\ call[c].stage = "restore" => JobOf(c).target = call[c].arg
         /\ call[c].stage = "backup" => JobOf(c).source = Source[call[c].arg]
  BY DEF JobOf, NoJob

(* A handler touches the job of its command only, and creates it only if    *)
(* there is none.                                                           *)
LEMMA MovesJobs ==
  ASSUME IInv, NEW c \in Calls, Moves(c), NEW m \in JobNames
  PROVE  \/ /\ job'[m].state = job[m].state /\ job'[m].out = job[m].out
            /\ job'[m].target = job[m].target /\ job'[m].source = job[m].source
         \/ /\ m = JobName(c) /\ job[m].state = "absent"
            /\ call[c].pc \in {"job", "rejob"} /\ job'[m] = JobOf(c)
  <1>1. job \in [JobNames -> Job] /\ JobName(c) \in JobNames
    BY JobNameIs DEF IInv, TypeOK, Moves
  <1>2. CASE UNCHANGED job
    BY <1>2
  <1>3. CASE /\ job[JobName(c)].state = "absent" /\ call[c].pc \in {"job", "rejob"}
             /\ job' = [job EXCEPT ![JobName(c)] = JobOf(c)]
    BY <1>1, <1>3
  <1>4. CASE job' = [job EXCEPT ![JobName(c)].terminating = TRUE]
    BY <1>1, <1>4 DEF Job
  <1> QED  BY <1>2, <1>3, <1>4 DEF Moves, JobMove

(* A handler that goes on sees the forget job done only if it is.           *)
LEMMA MovesDeleteInv ==
  ASSUME IInv, DeleteInv, NEW c \in Calls, Moves(c)
  PROVE  DeleteInv'
  <1>0. /\ UNCHANGED <<storage, objects>> /\ call[c].pc # "idle" /\ WellFormed(call[c])
        /\ TypeOK /\ CallsWellFormed
    BY DEF Moves, IInv, CallsWellFormed
  <1>1. ASSUME NEW s \in Ids, job'[<<"delete", s>>].state # job[<<"delete", s>>].state
        PROVE  job'[<<"delete", s>>].state = "pending" /\ \E r \in doomed : handle[r] = s
    <2>1. <<"delete", s>> = JobName(c) /\ job'[<<"delete", s>>].state = "pending"
      BY <1>1, MovesJobs, NamesOfJobs, JobOfIs
    <2>2. call[c].stage = "delete" /\ call[c].snap = s
      BY <1>0, <2>1, JobNameIs, Pairs
    <2>3. Deletes(call[c])
      BY <1>0, <2>2 DEF WellFormed, Idle, Creates, Asks, Restores
    <2> QED  BY <2>1, <2>2, <2>3 DEF Deletes
  <1>2. ForgetJobsOwned' /\ ForgetJobsDone'
    BY <1>0, <1>1 DEF DeleteInv, ForgetJobsOwned, ForgetJobsDone
  <1>3. DeletesDone'
    <2> SUFFICES ASSUME NEW d \in Calls, call'[d].op = "delete", Done(call'[d])
                 PROVE  repo[call'[d].snap] = None
      BY <1>0 DEF DeletesDone, Done
    <2>1. CASE d # c \/ Done(call[c])
      BY <2>1 DEF Moves, Only, DeleteInv, DeletesDone
    <2>2. CASE d = c /\ job[JobName(c)].state = "done"
      <3>1. call[c].stage = "delete" /\ call'[c].snap = call[c].snap
        BY <1>0, <2>2 DEF Moves, WellFormed, Idle, Creates, Deletes, Asks, Restores
      <3>2. call[c].snap \in Ids /\ JobName(c) = <<"delete", call[c].snap>>
        BY <1>0, <3>1, JobNameIs
      <3> QED  BY <2>2, <3>1, <3>2 DEF DeleteInv, ForgetJobsDone
    <2> QED  BY <2>1, <2>2 DEF Moves
  <1>4. DeletedIsGone'
    BY <1>0 DEF DeleteInv, DeletedIsGone
  <1> QED  BY <1>2, <1>3, <1>4 DEF DeleteInv

(* New calls, new commands and returns keep DeleteInv.                      *)
LEMMA HandlersDeleteInv ==
  ASSUME IInv, DeleteInv, Drops \/ \E c \in Calls : Runs(c) \/ Begins(c)
  PROVE  DeleteInv'
  <1>1. CASE Drops
    BY <1>1 DEF DeleteInv, ForgetJobsOwned, ForgetJobsDone, DeletesDone, Done, DeletedIsGone,
                Drops, Idle
  <1>2. ASSUME NEW c \in Calls, Runs(c)
        PROVE  DeleteInv'
    <2>1. UNCHANGED <<job, storage, objects>>
      BY <1>2 DEF Runs
    <2>2. DeletesDone'
      BY <1>2, <2>1, RunsRecord DEF DeleteInv, DeletesDone, Done, Only
    <2> QED  BY <2>1, <2>2 DEF DeleteInv, ForgetJobsOwned, ForgetJobsDone, DeletedIsGone
  <1>3. ASSUME NEW c \in Calls, Begins(c)
        PROVE  DeleteInv'
    <2>1. /\ UNCHANGED <<job, storage, handle, removed>> /\ doomed \subseteq doomed'
          /\ Only(c) /\ call'[c].pc = "secret"
      BY <1>3, BeginsRecord
    <2>2. DeletesDone'
      BY <2>1 DEF DeleteInv, DeletesDone, Done, Only
    <2> QED  BY <2>1, <2>2 DEF DeleteInv, ForgetJobsOwned, ForgetJobsDone, DeletedIsGone
  <1> QED  BY <1>1, <1>2, <1>3

(* A handle, once it is there, stays.                                       *)
LEMMA HandlesStay ==
  ASSUME IInv, NEW c \in Calls, Reports(c), NEW r \in Requests, handle[r] # None
  PROVE  handle'[r] = handle[r]
  BY ReportsRecord DEF IInv, TypeOK

(* A deletion is reported after its snapshot is gone, and a new handle was  *)
(* never deleted.                                                           *)
LEMMA ReportsDeleteInv ==
  ASSUME IInv, DeleteInv, NEW c \in Calls, Reports(c)
  PROVE  DeleteInv'
  <1>0. /\ UNCHANGED <<job, storage, doomed>> /\ doomed \subseteq Requests
        /\ removed \subseteq doomed
    BY ReportsRecord DEF IInv, TypeOK
  <1>1. \A r \in doomed : handle'[r] = handle[r]
    BY <1>0, HandlesStay DEF IInv, DoomedHaveHandles
  <1>2. ForgetJobsOwned' /\ ForgetJobsDone'
    BY <1>0, <1>1 DEF DeleteInv, ForgetJobsOwned, ForgetJobsDone
  <1>3. DeletesDone'
    BY <1>0, ReportsRecord DEF DeleteInv, DeletesDone, Done, Only, Idle
  <1>4. DeletedIsGone'
    <2>1. Done(call[c])
      BY ReportsRecord DEF Done
    <2>2. CASE call[c].op = "delete" /\ removed' = removed \cup {call[c].arg}
      <3>1. call[c].arg \in doomed /\ repo[handle[call[c].arg]] = None
        BY <2>1, <2>2, ReportsRecord DEF DeleteInv, DeletesDone
      <3> QED  BY <1>0, <1>1, <2>2, <3>1 DEF DeleteInv, DeletedIsGone
    <2>3. CASE UNCHANGED removed
      BY <1>0, <1>1, <2>3 DEF DeleteInv, DeletedIsGone
    <2> QED  BY <2>2, <2>3, ReportsRecord
  <1> QED  BY <1>2, <1>3, <1>4 DEF DeleteInv

(* Only deletion jobs take snapshots out of the repository.                 *)
LEMMA JobRunsDeleteInv ==
  ASSUME IInv, DeleteInv, NEW n \in JobNames, JobRuns(n)
  PROVE  DeleteInv'
  <1>0. /\ TypeOK /\ Works(n) /\ UNCHANGED <<call, objects>>
        /\ repo \in [Ids -> Volumes \cup {None}]
        /\ job[n].state # "absent" /\ n = <<n[1], n[2]>>
        /\ \A s \in Ids : <<"delete", s>> \in JobNames
    BY JobRunsWorks, JobNamesAre, NamesOfJobs DEF IInv, TypeOK, Works
  <1>1. ForgetJobsOwned'
    BY <1>0 DEF Works, DeleteInv, ForgetJobsOwned
  <1>2. CASE JobForgets(n)
    <2>1. n[2] \in Ids /\ n = <<"delete", n[2]>>
      BY <1>0, <1>2, JobNamesAre DEF JobForgets
    <2>2. \A s \in Ids : s # n[2] => job'[<<"delete", s>>] = job[<<"delete", s>>]
      BY <1>0, <2>1, Pairs DEF Works
    <2>3. \A s \in Ids : repo[s] = None => repo'[s] = None
      BY <1>0, <1>2 DEF JobForgets
    <2>4. job'[n].state = "done" => repo'[n[2]] = None
      BY <1>0, <1>2, <2>1, EndsRecord DEF JobForgets
    <2>5. ForgetJobsDone'
      BY <2>1, <2>2, <2>3, <2>4 DEF DeleteInv, ForgetJobsDone
    <2>6. DeletesDone' /\ DeletedIsGone'
      <3>1. \A c \in Calls : call[c].op = "delete" => call[c].snap \in Ids
        BY DEF IInv, TypeOK, SnapKnown, CallsWellFormed, WellFormed, Idle, Creates, Deletes, Asks,
               Restores
      <3>2. \A r \in removed : handle[r] \in Ids
        BY DEF IInv, TypeOK, DoomedHaveHandles
      <3> QED  BY <1>0, <2>3, <3>1, <3>2 DEF DeleteInv, DeletesDone, DeletedIsGone, Done
    <2> QED  BY <1>1, <2>5, <2>6 DEF DeleteInv
  <1>3. CASE JobBacksUp(n)
    <2>1. PICK s \in Ids : /\ repo[s] = None
                           /\ \A r \in Requests : handle[r] # s
                           /\ \A c \in Calls : call[c].snap # s
                           /\ repo' = [repo EXCEPT ![s] = job[n].source]
      BY <1>3 DEF JobBacksUp
    <2>2. \A u \in Ids : job'[<<"delete", u>>] = job[<<"delete", u>>]
      <3>1. n[1] = "backup"
        BY <1>3 DEF JobBacksUp
      <3>2. \A u : <<"delete", u>> # n
        BY <3>1
      <3> QED  BY <1>0, <3>2 DEF Works
    <2>3. job[<<"delete", s>>].state = "absent"
      <3>1. doomed \subseteq Requests
        BY DEF IInv, TypeOK
      <3> QED  BY <2>1, <3>1 DEF DeleteInv, ForgetJobsOwned
    <2>4. ForgetJobsDone'
      BY <1>0, <2>1, <2>2, <2>3 DEF DeleteInv, ForgetJobsDone
    <2>5. \A x : x # s => repo'[x] = repo[x]
      BY <1>0, <2>1
    <2>6. DeletesDone' /\ DeletedIsGone'
      BY <1>0, <2>1, <2>5 DEF DeleteInv, DeletesDone, DeletedIsGone, Done, IInv, TypeOK
    <2> QED  BY <1>1, <2>4, <2>6 DEF DeleteInv
  <1>4. CASE \/ JobLists(n) \/ JobInits(n) \/ JobStartsBackup(n) \/ JobStartsRestore(n)
             \/ JobRestores(n) \/ JobFails(n)
    <2>1. UNCHANGED repo
      BY <1>4 DEF JobLists, JobInits, JobStartsBackup, JobStartsRestore, JobRestores, JobFails
    <2>2. n[1] = "delete" => job'[n].state # "done"
      BY <1>0, <1>4, EndsRecord
         DEF JobLists, JobInits, JobStartsBackup, JobStartsRestore, JobRestores, JobFails
    <2>3. ForgetJobsDone'
      BY <1>0, <2>1, <2>2, Pairs DEF Works, DeleteInv, ForgetJobsDone
    <2> QED  BY <1>0, <1>1, <2>1, <2>3 DEF DeleteInv, DeletesDone, DeletedIsGone, Done
  <1> QED  BY <1>2, <1>3, <1>4 DEF JobRuns

(* A vanishing job keeps DeleteInv.                                         *)
LEMMA VanishesDeleteInv ==
  ASSUME IInv, DeleteInv, NEW n \in JobNames, JobVanishes(n)
  PROVE  DeleteInv'
  <1>1. \A m \in JobNames : job'[m].state \in {job[m].state, "absent"}
    BY VanishesRecord
  <1>2. ForgetJobsOwned' /\ ForgetJobsDone'
    BY <1>1, NamesOfJobs, VanishesRecord DEF DeleteInv, ForgetJobsOwned, ForgetJobsDone
  <1> QED  BY <1>2, VanishesRecord DEF DeleteInv, DeletesDone, DeletedIsGone, Done

(* DeleteInv holds at the start.                                            *)
LEMMA InitDeleteInv == Init => DeleteInv
  <1> SUFFICES ASSUME Init PROVE DeleteInv
    OBVIOUS
  <1>1. \A s \in Ids : job[<<"delete", s>>].state = "absent"
    BY NamesOfJobs DEF Init, NoJob
  <1>2. \A c \in Calls : call[c].op = "none"
    BY DEF Init, Idle
  <1>3. removed = {}
    BY DEF Init
  <1> QED
    BY <1>1, <1>2, <1>3 DEF DeleteInv, ForgetJobsOwned, ForgetJobsDone, DeletesDone, DeletedIsGone

(* DeleteInv is inductive, given IInv.                                      *)
LEMMA StepDeleteInv == IInv /\ DeleteInv /\ [Next]_vars => DeleteInv'
  <1> SUFFICES ASSUME IInv, DeleteInv, [Next]_vars PROVE DeleteInv'
    OBVIOUS
  <1>1. CASE UNCHANGED vars
    <2>1. ForgetJobsOwned' /\ ForgetJobsDone' /\ DeletedIsGone'
      BY <1>1 DEF DeleteInv, ForgetJobsOwned, ForgetJobsDone, DeletedIsGone
    <2>2. DeletesDone'
      BY <1>1 DEF DeleteInv, DeletesDone, Done
    <2> QED  BY <2>1, <2>2 DEF DeleteInv
  <1>2. CASE Next
    BY <1>2, StepKinds, MovesDeleteInv, HandlersDeleteInv, ReportsDeleteInv, JobRunsDeleteInv,
       VanishesDeleteInv
  <1> QED  BY <1>1, <1>2

(* When DeleteSnapshot has returned success (snapshot.go), the snapshot is  *)
(* not in the repository and never comes back: for any number of handlers   *)
(* that share jobs, two for one volume or snapshot included, and whatever   *)
(* calls fail, jobs hang, handlers are given up or controllers restart.     *)
THEOREM DeletedSnapshotsAreGone == Spec => []DeletedIsGone
<1>1. DeleteInv => DeletedIsGone
  BY DEF DeleteInv
<1> QED  BY <1>1, InitDeleteInv, StepDeleteInv, SnapshotInvariance, PTL DEF Spec

-----------------------------------------------------------------------------
(* Handles and the snapshots they name. *)

(* BackupInv is kept when no id becomes a candidate that was none and the   *)
(* repository, the handles and the deletions do not change.                 *)
LEMMA BackupInvKept ==
  ASSUME BackupInv, UNCHANGED <<repo, handle>>, doomed \subseteq doomed', BackupJobsOwned',
         \A r \in Requests, s \in Ids : MayGet(r, s)' => MayGet(r, s)
  PROVE  BackupInv'
  <1>1. CandidatesTaken'
    BY DEF BackupInv, CandidatesTaken
  <1>2. HandlesTaken' /\ HandlesDistinct' /\ LiveHandlesInRepo'
    BY DEF BackupInv, HandlesTaken, HandlesDistinct, LiveHandlesInRepo
  <1> QED  BY <1>1, <1>2 DEF BackupInv

(* A handler learns of no snapshot but from the backup job of its volume.   *)
LEMMA MovesBackupInv ==
  ASSUME IInv, BackupInv, NEW c \in Calls, Moves(c)
  PROVE  BackupInv'
  <1>0. UNCHANGED <<storage, objects>> /\ call[c].pc # "idle" /\ TypeOK /\ CallsWellFormed
    BY DEF Moves, IInv
  <1>1. BackupJobsOwned'
    <2> SUFFICES ASSUME NEW v \in Volumes, job'[<<"backup", v>>].state # "absent"
                 PROVE  job'[<<"backup", v>>].source = v
      BY DEF BackupJobsOwned
    <2>1. CASE <<"backup", v>> = JobName(c) /\ job'[<<"backup", v>>] = JobOf(c)
      <3>1. call[c].stage = "backup" /\ v = Source[call[c].arg]
        BY <1>0, <2>1, JobNameIs, Pairs
      <3> QED  BY <2>1, <3>1, JobOfIs
    <2>2. CASE /\ job'[<<"backup", v>>].state = job[<<"backup", v>>].state
               /\ job'[<<"backup", v>>].source = job[<<"backup", v>>].source
      BY <2>2 DEF BackupInv, BackupJobsOwned
    <2> QED  BY <2>1, <2>2, MovesJobs, NamesOfJobs
  <1>2. ASSUME NEW r \in Requests, NEW s \in Ids, MayGet(r, s)'
        PROVE  MayGet(r, s)
    <2>1. Source[r] \in Volumes /\ <<"backup", Source[r]>> \in JobNames
      BY NamesOfJobs
    <2>2. CASE s \in job'[<<"backup", Source[r]>>].out
      BY <2>1, <2>2, MovesJobs, JobOfIs DEF MayGet
    <2>3. ASSUME NEW d \in Calls, call'[d].op = "create", call'[d].arg = r,
                 \/ call'[d].stage = "backup" /\ s \in call'[d].out
                 \/ call'[d].stage = "list" /\ call'[d].snap = s
          PROVE  MayGet(r, s)
      <3>1. CASE d # c \/ call'[d].stage = "list"
        BY <2>3, <3>1 DEF Moves, Only, MayGet
      <3>2. CASE d = c /\ call'[d].stage = "backup"
        <4>1. call[c].stage = "backup" /\ call[c].op = "create" /\ call[c].arg = r
          BY <2>3, <3>2 DEF Moves
        <4>2. JobName(c) = <<"backup", Source[r]>>
          BY <1>0, <4>1, JobNameIs
        <4> QED  BY <2>3, <3>2, <4>1, <4>2 DEF Moves, MayGet
      <3> QED  BY <2>3, <3>1, <3>2
    <2> QED  BY <1>2, <2>2, <2>3 DEF MayGet
  <1> QED  BY <1>0, <1>1, <1>2, BackupInvKept

(* A candidate of a handler that begins, goes on or returns has been one    *)
(* before.                                                                  *)
LEMMA HandlersMayGet ==
  ASSUME IInv, Drops \/ \E c \in Calls : Runs(c) \/ Begins(c) \/ Reports(c)
  PROVE  /\ UNCHANGED <<job, storage>>
         /\ \A r \in Requests, s \in Ids : MayGet(r, s)' => MayGet(r, s)
  <1>1. CASE Drops
    BY <1>1 DEF Drops, MayGet, Idle
  <1>2. ASSUME NEW c \in Calls, Runs(c)
        PROVE  /\ UNCHANGED <<job, storage>>
               /\ \A r \in Requests, s \in Ids : MayGet(r, s)' => MayGet(r, s)
    <2>1. UNCHANGED <<job, storage>>
      BY <1>2 DEF Runs
    <2>2. /\ \A d \in Calls : d # c => call'[d] = call[d]
          /\ call'[c].op = call[c].op /\ call'[c].arg = call[c].arg /\ call'[c].out = {}
          /\ call'[c].op = "create" /\ call'[c].stage = "list"
               => call[c].stage = "backup" /\ call'[c].snap \in call[c].out
      BY <1>2, RunsRecord DEF Only
    <2> QED  BY <2>1, <2>2 DEF MayGet
  <1>3. ASSUME NEW c \in Calls, Begins(c)
        PROVE  /\ UNCHANGED <<job, storage>>
               /\ \A r \in Requests, s \in Ids : MayGet(r, s)' => MayGet(r, s)
    <2>1. /\ UNCHANGED <<job, storage>>
          /\ \A d \in Calls : d # c => call'[d] = call[d]
          /\ call'[c].op = "create" => call'[c].stage = "check"
      BY <1>3, BeginsRecord DEF Only
    <2> QED  BY <2>1 DEF MayGet
  <1>4. ASSUME NEW c \in Calls, Reports(c)
        PROVE  /\ UNCHANGED <<job, storage>>
               /\ \A r \in Requests, s \in Ids : MayGet(r, s)' => MayGet(r, s)
    <2>1. /\ UNCHANGED <<job, storage>>
          /\ \A d \in Calls : d # c => call'[d] = call[d]
          /\ call'[c].op = "none"
      BY <1>4, ReportsRecord DEF Only, Idle
    <2> QED  BY <2>1 DEF MayGet
  <1> QED  BY <1>1, <1>2, <1>3, <1>4

(* New calls, new commands and returns keep BackupInv.                      *)
LEMMA HandlersBackupInv ==
  ASSUME IInv, BackupInv, Drops \/ \E c \in Calls : Runs(c) \/ Begins(c)
  PROVE  BackupInv'
  <1>1. UNCHANGED <<repo, handle>> /\ doomed \subseteq doomed'
    BY BeginsRecord DEF Drops, Runs
  <1>2. BackupJobsOwned'
    BY HandlersMayGet DEF BackupInv, BackupJobsOwned
  <1> QED  BY <1>1, <1>2, HandlersMayGet, BackupInvKept

(* A handle is given to a request: it names a snapshot of its volume, and   *)
(* no other request, being for another volume, has it.                      *)
LEMMA ReportsBackupInv ==
  ASSUME OneRequestPerVolume, IInv, BackupInv, NEW c \in Calls, Reports(c)
  PROVE  BackupInv'
  <1>0. /\ handle \in [Requests -> Ids \cup {None}]
        /\ UNCHANGED <<job, storage, doomed>>
        /\ \A r \in Requests, s \in Ids : MayGet(r, s)' => MayGet(r, s)
    BY HandlersMayGet, ReportsRecord DEF IInv, TypeOK
  <1>1. BackupJobsOwned'
    BY <1>0 DEF BackupInv, BackupJobsOwned
  <1>2. CASE UNCHANGED handle
    BY <1>0, <1>1, <1>2, BackupInvKept
  <1>3. CASE handle' = [handle EXCEPT ![call[c].arg] = call[c].snap]
             /\ call[c].op = "create" /\ call[c].stage = "list"
             /\ call[c].arg \in Requests /\ handle[call[c].arg] = None /\ call[c].snap \in Ids
    <2> DEFINE a == call[c].arg
               x == call[c].snap
    <2>1. repo[x] = Source[a]
      BY <1>3 DEF BackupInv, CandidatesTaken, MayGet
    <2>2. /\ \A r \in Requests : r # a => handle'[r] = handle[r]
          /\ handle'[a] = x /\ x # None
      BY <1>0, <1>3
    <2>3. \A q \in Requests : handle[q] # x
      <3> SUFFICES ASSUME NEW q \in Requests, handle[q] = x PROVE FALSE
        OBVIOUS
      <3>1. Source[a] \in {Source[q], None} /\ Source[a] \in Volumes
        BY <1>3, <2>1, <2>2 DEF BackupInv, HandlesTaken
      <3>2. q = a
        BY <1>3, <3>1 DEF OneRequestPerVolume
      <3> QED  BY <1>3, <3>2
    <2> HIDE DEF a, x
    <2>4. CandidatesTaken'
      BY <1>0, <2>2 DEF BackupInv, CandidatesTaken
    <2>5. HandlesTaken' /\ LiveHandlesInRepo'
      BY <1>0, <2>1, <2>2 DEF BackupInv, HandlesTaken, LiveHandlesInRepo
    <2>6. HandlesDistinct'
      BY <1>0, <2>2, <2>3 DEF BackupInv, HandlesDistinct
    <2> QED  BY <1>1, <2>4, <2>5, <2>6 DEF BackupInv
  <1> QED  BY <1>2, <1>3, ReportsRecord

(* What a job does to the candidates: nothing, unless it is a backup that   *)
(* ends.                                                                    *)
LEMMA JobRunsMayGet ==
  ASSUME IInv, NEW n \in JobNames, JobRuns(n), ~JobBacksUp(n), NEW r \in Requests, NEW s \in Ids,
         MayGet(r, s)'
  PROVE  MayGet(r, s)
  <1>1. Works(n) /\ TypeOK /\ <<"backup", Source[r]>> \in JobNames
    BY JobRunsWorks, NamesOfJobs DEF IInv
  <1>2. n[1] = "backup" => job'[n].out = {}
    BY <1>1, EndsRecord
       DEF JobRuns, JobLists, JobInits, JobForgets, JobStartsBackup, JobStartsRestore, JobRestores,
           JobFails
  <1>3. s \in job'[<<"backup", Source[r]>>].out => s \in job[<<"backup", Source[r]>>].out
    BY <1>1, <1>2 DEF Works
  <1> QED  BY <1>1, <1>3 DEF MayGet, Works

(* What a running backup job has made is a snapshot of its volume.          *)
LEMMA JobRunsBackupJobs ==
  ASSUME IInv, BackupInv, NEW n \in JobNames, JobRuns(n)
  PROVE  BackupJobsOwned'
  BY JobRunsWorks, NamesOfJobs DEF Works, BackupInv, BackupJobsOwned

(* A snapshot is forgotten for a request that is deleted and has it for its *)
(* handle: it is nobody else's handle and nobody's candidate.               *)
LEMMA ForgetsBackupInv ==
  ASSUME OneRequestPerVolume, IInv, DeleteInv, BackupInv, NEW n \in JobNames, JobForgets(n)
  PROVE  BackupInv'
  <1>0. /\ JobRuns(n) /\ ~JobBacksUp(n) /\ n[2] \in Ids /\ n = <<"delete", n[2]>>
        /\ job[n].state # "absent" /\ UNCHANGED objects
        /\ repo \in [Ids -> Volumes \cup {None}] /\ handle \in [Requests -> Ids \cup {None}]
        /\ doomed \subseteq Requests
    BY JobNamesAre DEF JobForgets, JobRuns, JobBacksUp, CanStart, IInv, TypeOK
  <1>1. BackupJobsOwned'
    BY <1>0, JobRunsBackupJobs
  <1>2. PICK q \in doomed : handle[q] = n[2]
    BY <1>0 DEF DeleteInv, ForgetJobsOwned
  <1>3. /\ \A s \in Ids : s # n[2] => repo'[s] = repo[s]
        /\ repo'[n[2]] \in {repo[n[2]], None}
    BY <1>0 DEF JobForgets
  <1>4. CandidatesTaken'
    <2> SUFFICES ASSUME NEW r \in Requests, handle[r] = None, NEW s \in Ids, MayGet(r, s)'
                 PROVE  repo'[s] = Source[r]
      BY <1>0 DEF CandidatesTaken
    <2>1. repo[s] = Source[r]
      BY <1>0, JobRunsMayGet DEF BackupInv, CandidatesTaken
    <2>2. s # n[2]
      <3> SUFFICES ASSUME s = n[2] PROVE FALSE
        OBVIOUS
      <3>1. Source[r] \in {Source[q], None} /\ Source[r] \in Volumes
        BY <1>0, <1>2, <2>1 DEF BackupInv, HandlesTaken
      <3>2. q = r
        BY <1>0, <3>1 DEF OneRequestPerVolume
      <3> QED  BY <1>0, <1>2, <3>2
    <2> QED  BY <1>3, <2>1, <2>2
  <1>5. HandlesTaken' /\ HandlesDistinct'
    BY <1>0, <1>3 DEF BackupInv, HandlesTaken, HandlesDistinct
  <1>6. LiveHandlesInRepo'
    <2> SUFFICES ASSUME NEW r \in Requests, handle[r] # None, r \notin doomed
                 PROVE  repo'[handle[r]] = Source[r]
      BY <1>0 DEF LiveHandlesInRepo
    <2>1. handle[r] # n[2]
      BY <1>0, <1>2 DEF BackupInv, HandlesDistinct
    <2> QED  BY <1>0, <1>3, <2>1 DEF BackupInv, LiveHandlesInRepo
  <1> QED  BY <1>1, <1>4, <1>5, <1>6 DEF BackupInv

(* A backup makes a new snapshot of the volume the job is named after.      *)
LEMMA BacksUpBackupInv ==
  ASSUME OneRequestPerVolume, IInv, BackupInv, NEW n \in JobNames, JobBacksUp(n)
  PROVE  BackupInv'
  <1>0. /\ JobRuns(n) /\ n[2] \in Volumes /\ n = <<"backup", n[2]>>
        /\ job[n].state # "absent" /\ UNCHANGED <<call, objects>>
        /\ repo \in [Ids -> Volumes \cup {None}] /\ handle \in [Requests -> Ids \cup {None}]
        /\ TypeOK
    BY JobNamesAre DEF JobBacksUp, JobRuns, IInv, TypeOK
  <1>1. BackupJobsOwned'
    BY <1>0, JobRunsBackupJobs
  <1>2. PICK x \in Ids : /\ repo[x] = None
                         /\ \A r \in Requests : handle[r] # x
                         /\ repo' = [repo EXCEPT ![x] = job[n].source]
                         /\ Ends(n, "done", {x})
    BY DEF JobBacksUp
  <1>3. job[n].source = n[2]
    BY <1>0 DEF BackupInv, BackupJobsOwned
  <1>4. /\ \A s \in Ids : s # x => repo'[s] = repo[s]
        /\ repo'[x] = n[2]
    BY <1>0, <1>2, <1>3
  <1>5. /\ \A m \in JobNames : m # n => job'[m] = job[m]
        /\ job'[n].out = {x}
    BY <1>0, <1>2, EndsRecord
  <1>6. CandidatesTaken'
    <2> SUFFICES ASSUME NEW r \in Requests, handle[r] = None, NEW s \in Ids, MayGet(r, s)'
                 PROVE  repo'[s] = Source[r]
      BY <1>0 DEF CandidatesTaken
    <2>1. CASE MayGet(r, s)
      <3>1. repo[s] = Source[r] /\ Source[r] \in Volumes
        BY <2>1 DEF BackupInv, CandidatesTaken
      <3> QED  BY <1>2, <1>4, <3>1
    <2>2. CASE ~MayGet(r, s)
      <3>1. s \in job'[<<"backup", Source[r]>>].out
        BY <1>0, <2>2 DEF MayGet
      <3>2. <<"backup", Source[r]>> \in JobNames
        BY NamesOfJobs
      <3>3. <<"backup", Source[r]>> = n
        BY <1>5, <2>2, <3>1, <3>2 DEF MayGet
      <3> QED  BY <1>0, <1>4, <1>5, <3>1, <3>3, Pairs
    <2> QED  BY <2>1, <2>2
  <1>7. HandlesTaken' /\ HandlesDistinct' /\ LiveHandlesInRepo'
    BY <1>0, <1>2, <1>4 DEF BackupInv, HandlesTaken, HandlesDistinct, LiveHandlesInRepo
  <1> QED  BY <1>1, <1>6, <1>7 DEF BackupInv

(* The jobs keep BackupInv: only a backup makes and only a forget job       *)
(* removes snapshots.                                                       *)
LEMMA JobRunsBackupInv ==
  ASSUME OneRequestPerVolume, IInv, DeleteInv, BackupInv, NEW n \in JobNames, JobRuns(n)
  PROVE  BackupInv'
  <1>1. CASE JobForgets(n) \/ JobBacksUp(n)
    BY <1>1, ForgetsBackupInv, BacksUpBackupInv
  <1>2. CASE ~JobForgets(n) /\ ~JobBacksUp(n)
    <2>1. UNCHANGED <<repo, objects>>
      BY <1>2 DEF JobRuns, JobLists, JobInits, JobStartsBackup, JobStartsRestore, JobRestores,
                  JobFails
    <2> QED  BY <1>2, <2>1, JobRunsBackupJobs, JobRunsMayGet, BackupInvKept
  <1> QED  BY <1>1, <1>2

(* A vanishing job keeps BackupInv.                                         *)
LEMMA VanishesBackupInv ==
  ASSUME IInv, BackupInv, NEW n \in JobNames, JobVanishes(n)
  PROVE  BackupInv'
  <1>1. \A m \in JobNames : \/ job'[m] = job[m]
                            \/ job'[m].state = "absent" /\ job'[m].out = {}
    BY VanishesRecord
  <1>2. UNCHANGED <<call, repo, handle, doomed>>
    BY VanishesRecord
  <1>3. BackupJobsOwned'
    BY <1>1, NamesOfJobs DEF BackupInv, BackupJobsOwned
  <1>4. ASSUME NEW r \in Requests, NEW s \in Ids, MayGet(r, s)'
        PROVE  MayGet(r, s)
    <2>1. <<"backup", Source[r]>> \in JobNames
      BY NamesOfJobs
    <2> QED  BY <1>1, <1>2, <1>4, <2>1 DEF MayGet
  <1> QED  BY <1>2, <1>3, <1>4, BackupInvKept

(* BackupInv is inductive, given IInv and DeleteInv.                        *)
LEMMA StepBackupInv ==
  ASSUME OneRequestPerVolume
  PROVE  IInv /\ DeleteInv /\ BackupInv /\ [Next]_vars => BackupInv'
  <1> SUFFICES ASSUME IInv, DeleteInv, BackupInv, [Next]_vars PROVE BackupInv'
    OBVIOUS
  <1>1. CASE UNCHANGED vars
    <2>1. UNCHANGED <<call, job, repo, handle, doomed>>
      BY <1>1 DEF vars, cluster, storage, objects
    <2>2. BackupJobsOwned'
      BY <2>1 DEF BackupInv, BackupJobsOwned
    <2>3. \A r \in Requests, s \in Ids : MayGet(r, s)' => MayGet(r, s)
      BY <2>1 DEF MayGet
    <2> QED  BY <2>1, <2>2, <2>3, BackupInvKept
  <1>2. CASE Next
    BY <1>2, StepKinds, MovesBackupInv, HandlersBackupInv, ReportsBackupInv, JobRunsBackupInv,
       VanishesBackupInv
  <1> QED  BY <1>1, <1>2

(* BackupInv holds at the start.                                            *)
LEMMA InitBackupInv == Init => BackupInv
  <1> SUFFICES ASSUME Init PROVE BackupInv
    OBVIOUS
  <1>1. \A v \in Volumes : /\ job[<<"backup", v>>].state = "absent"
                           /\ job[<<"backup", v>>].out = {}
    BY NamesOfJobs DEF Init, NoJob
  <1>2. \A c \in Calls : call[c].op = "none"
    BY DEF Init, Idle
  <1>3. \A r \in Requests : handle[r] = None
    BY DEF Init
  <1> QED  BY <1>1, <1>2, <1>3 DEF BackupInv, BackupJobsOwned, CandidatesTaken, MayGet,
                                   HandlesTaken, HandlesDistinct, LiveHandlesInRepo

(* The handle of a VolumeSnapshot that nobody asked to delete names a       *)
(* snapshot of its volume in the repository ("snapshotHandle is a           *)
(* snapshotID in the restic repository", README.md:338), whatever fails and *)
(* however often CreateSnapshot is repeated, if no two VolumeSnapshots are  *)
(* taken of one volume.                                                     *)
THEOREM LiveHandlesAreInTheRepository ==
  ASSUME OneRequestPerVolume
  PROVE  Spec => []LiveHandlesInRepo
<1>1. BackupInv => LiveHandlesInRepo
  BY DEF BackupInv
<1> QED
  BY <1>1, InitIInv, StepIInv, InitDeleteInv, StepDeleteInv, InitBackupInv, StepBackupInv, PTL DEF Spec

-----------------------------------------------------------------------------
(* What is left of jobs and secrets. *)

(* The name of the job of a handler depends on its command only.            *)
LEMMA JobNameStays ==
  ASSUME NEW d, call'[d].stage = call[d].stage, call'[d].snap = call[d].snap,
         call'[d].arg = call[d].arg
  PROVE  JobName(d)' = JobName(d)
  BY DEF JobName

(* A job that is there and not being deleted.                               *)
Live(jobs, n) == jobs[n].state # "absent" /\ ~jobs[n].terminating

(* A job that is marked for deletion is not live, and no other job changes. *)
LEMMA TerminateLive ==
  ASSUME TypeOK, NEW n \in JobNames, Terminate(n)
  PROVE  ~Live(job', n) /\ \A m \in JobNames : Live(job', m) => Live(job, m)
  <1>1. job \in [JobNames -> Job]
    BY DEF TypeOK
  <1>2. CASE UNCHANGED job /\ job[n].state = "absent"
    BY <1>2 DEF Live
  <1>3. CASE job' = [job EXCEPT ![n].terminating = TRUE]
    <2>1. \A m \in JobNames : m # n => job'[m] = job[m]
      BY <1>1, <1>3
    <2>2. job'[n].terminating
      BY <1>1, <1>3 DEF Job
    <2> QED  BY <2>1, <2>2 DEF Live
  <1> QED  BY <1>2, <1>3 DEF Terminate

(* A handler in doResticJob: it keeps the job it may still have to delete   *)
(* for its own, or marks it for deletion.                                   *)
Cleans(c) ==
    LET n == JobName(c) IN
    /\ call'[c].pc \notin {"idle", "secret"}
    /\ secrets' \subseteq secrets \cup {NamespaceOf(n)}
    /\ \A m \in JobNames : Live(job', m) => Live(job, m) \/ (m = n /\ call'[c].pc = "poll")
    /\ \/ call[c].pc \notin {"poll", "logs", "unjob"}
       \/ call'[c].pc \in {"poll", "logs", "unjob"}
       \/ ~Live(job', n)

(* The step a handler goes on to.                                           *)
LEMMA NextPc ==
  ASSUME TypeOK, NEW c \in Calls, NEW pc,
         Goto(c, pc) \/ \E res : call' = [call EXCEPT ![c].result = res, ![c].pc = pc]
  PROVE  call'[c].pc = pc
  <1>1. call \in [Calls -> Call]
    BY DEF TypeOK
  <1>2. CASE Goto(c, pc)
    BY <1>1, <1>2 DEF Call, Goto
  <1>3. ASSUME NEW res, call' = [call EXCEPT ![c].result = res, ![c].pc = pc]
        PROVE  call'[c].pc = pc
    <2> DEFINE r == [call[c] EXCEPT !.result = res, !.pc = pc]
    <2>1. call' = [call EXCEPT ![c] = r]
      BY <1>1, <1>3
    <2>2. r.pc = pc
      BY <1>1 DEF Call
    <2> HIDE DEF r
    <2> QED  BY <1>1, <2>1, <2>2
  <1> QED  BY <1>2, <1>3

(* The steps of doResticJob up to the deletion of the secret clean up after *)
(* themselves.                                                              *)
LEMMA JobStepsClean ==
  ASSUME IInv, NEW c \in Calls,
         CreateSecret(c) \/ CreateJob(c) \/ RecreateJob(c) \/ PollJob(c)
           \/ PollExpires(c) \/ ReadLogs(c) \/ DeleteJob(c)
  PROVE  Cleans(c)
  <1> DEFINE n == JobName(c)
  <1>0. /\ TypeOK /\ call[c].pc # "idle" /\ n \in JobNames
        /\ job \in [JobNames -> Job]
    BY JobStepsMove, JobNameIs DEF Moves, IInv, TypeOK
  <1>1. CASE CreateSecret(c)
    <2>1. call'[c].pc = "job" /\ UNCHANGED job /\ call[c].pc = "secret"
      BY <1>0, <1>1, NextPc DEF CreateSecret
    <2> QED  BY <1>1, <2>1 DEF CreateSecret, Cleans, Live
  <1>2. CASE CreateJob(c) \/ RecreateJob(c)
    <2>0. UNCHANGED secrets /\ call[c].pc \in {"job", "rejob"}
      BY <1>2 DEF CreateJob, RecreateJob
    <2>1. CASE job' = [job EXCEPT ![n] = JobOf(c)] /\ Goto(c, "poll")
      <3>1. call'[c].pc = "poll" /\ \A m \in JobNames : m # n => job'[m] = job[m]
        BY <1>0, <2>1, NextPc
      <3> QED  BY <2>0, <3>1 DEF Cleans, Live
    <2>2. CASE Terminate(n) /\ Goto(c, "rejob")
      <3>1. call'[c].pc = "rejob" /\ \A m \in JobNames : Live(job', m) => Live(job, m)
        BY <1>0, <2>2, NextPc, TerminateLive
      <3> QED  BY <2>0, <3>1 DEF Cleans
    <2>3. CASE NoJobCreated(c) /\ UNCHANGED job
      <3>1. call'[c].pc = "unsecret"
        BY <1>0, <2>3, NextPc DEF NoJobCreated
      <3> QED  BY <2>0, <2>3, <3>1 DEF Cleans, Live
    <2> QED  BY <1>2, <2>1, <2>2, <2>3 DEF CreateJob, RecreateJob
  <1>3. CASE PollJob(c) \/ PollExpires(c)
    <2>1. call'[c].pc = "logs" /\ UNCHANGED <<job, secrets>>
      BY <1>0, <1>3, NextPc DEF PollJob, PollExpires, Polled
    <2> QED  BY <2>1 DEF Cleans, Live
  <1>4. CASE ReadLogs(c)
    <2>1. call'[c].pc = "unjob" /\ UNCHANGED <<job, secrets>>
      BY <1>4 DEF ReadLogs, IInv, TypeOK, Call
    <2> QED  BY <2>1 DEF Cleans, Live
  <1>5. CASE DeleteJob(c)
    <2>1. call'[c].pc = "unsecret" /\ UNCHANGED secrets /\ Terminate(n)
      BY <1>0, <1>5, NextPc DEF DeleteJob
    <2> QED  BY <1>0, <2>1, TerminateLive DEF Cleans
  <1> QED  BY <1>1, <1>2, <1>3, <1>4, <1>5

(* Such a step leaves every secret and job with a handler that will delete  *)
(* it.                                                                      *)
LEMMA CleansTidy ==
  ASSUME IInv, SecretsOwned, JobsOwned, NEW c \in Calls, Moves(c), Cleans(c)
  PROVE  SecretsOwned' /\ JobsOwned'
  <1>1. \A d \in Calls : JobName(d)' = JobName(d)
    BY JobNameStays DEF Moves, Only
  <1>2. \A d \in Calls : d # c => call'[d] = call[d]
    BY DEF Moves, Only
  <1>3. SecretsOwned'
    BY <1>1, <1>2 DEF Cleans, SecretsOwned
  <1>4. JobsOwned'
    <2> SUFFICES ASSUME NEW m \in JobNames, Live(job', m)
                 PROVE  \E d \in Calls : /\ call'[d].pc \in {"poll", "logs", "unjob"}
                                         /\ JobName(d)' = m
      BY DEF JobsOwned, Live
    <2>1. CASE m = JobName(c) /\ call'[c].pc = "poll"
      BY <1>1, <2>1
    <2>2. CASE Live(job, m)
      <3>1. PICK d \in Calls : call[d].pc \in {"poll", "logs", "unjob"} /\ JobName(d) = m
        BY <2>2 DEF JobsOwned, Live
      <3>2. d = c => call'[c].pc \in {"poll", "logs", "unjob"}
        BY <3>1 DEF Cleans
      <3> QED  BY <1>1, <1>2, <3>1, <3>2
    <2> QED  BY <2>1, <2>2 DEF Cleans
  <1> QED  BY <1>3, <1>4

(* Between two commands a handler has no job, and has deleted the secret.   *)
LEMMA HandleOnly ==
  ASSUME TypeOK, NEW c \in Calls, Handle(c)
  PROVE  \A d \in Calls : d # c => call'[d] = call[d]
  BY DEF TypeOK, Handle, CheckDone, BackupDone, ListDone, StatusDone, RestoreListDone, DeleteDone,
         RestoreDone, Fails, Run, Return

(* So does the deletion of the secret, by which time the job has been       *)
(* deleted.                                                                 *)
LEMMA DeleteSecretTidy ==
  ASSUME IInv, SecretsOwned, JobsOwned, NEW c \in Calls, DeleteSecret(c)
  PROVE  SecretsOwned' /\ JobsOwned'
  <1>1. /\ \A d \in Calls : d # c => call'[d] = call[d]
        /\ call[c].pc = "unsecret" /\ UNCHANGED job
        /\ secrets' = secrets \ {NamespaceOf(JobName(c))}
    BY HandleOnly DEF DeleteSecret, IInv
  <1>2. \A d \in Calls : d # c => JobName(d)' = JobName(d)
    BY <1>1, JobNameStays
  <1> QED  BY <1>1, <1>2 DEF SecretsOwned, JobsOwned

(* A handler that begins had nothing.                                       *)
LEMMA BeginsTidy ==
  ASSUME IInv, SecretsOwned, JobsOwned, NEW c \in Calls, Begins(c)
  PROVE  SecretsOwned' /\ JobsOwned'
  <1>1. /\ \A d \in Calls : d # c => call'[d] = call[d]
        /\ call[c].pc = "idle" /\ UNCHANGED job
    BY BeginsRecord DEF Only
  <1>2. UNCHANGED secrets
    BY DEF Begins, CreateSnapshot, DeleteSnapshot, ListSnapshots, RestoreSnapshot
  <1>3. \A d \in Calls : d # c => JobName(d)' = JobName(d)
    BY <1>1, JobNameStays
  <1> QED  BY <1>1, <1>2, <1>3 DEF SecretsOwned, JobsOwned

(* The jobs themselves create nothing.                                      *)
LEMMA JobsTidy ==
  ASSUME IInv, SecretsOwned, JobsOwned, NEW n \in JobNames, JobRuns(n) \/ JobVanishes(n)
  PROVE  SecretsOwned' /\ JobsOwned'
  <1>1. UNCHANGED <<call, secrets>> /\ \A m \in JobNames : Live(job', m) => Live(job, m)
    BY JobRunsWorks, VanishesRecord DEF Works, Live
  <1>2. \A d \in Calls : JobName(d)' = JobName(d)
    BY <1>1, JobNameStays
  <1>3. SecretsOwned'
    BY <1>1, <1>2 DEF SecretsOwned
  <1>4. JobsOwned'
    BY <1>1, <1>2 DEF JobsOwned, Live
  <1> QED  BY <1>3, <1>4

(* A fault that keeps deferred calls from being made shows in the count.    *)
LEMMA FaultsShow ==
  ASSUME TypeOK, Fault("call") \/ Fault("timeout") \/ Fault("restart")
  PROVE  ~Tidy'
  BY DEF TypeOK, Fault, Tidy

(* A system without cleanup faults so far had none before.                  *)
LEMMA TidyBefore ==
  ASSUME TypeOK, Next, Tidy'
  PROVE  Tidy
  <1>1. faults' = faults \/ \E k \in FaultKinds : Fault(k)
    <2>1. ASSUME NEW c \in Calls, DoResticJob(c) \/ StopWaiting(c)
          PROVE  faults' = faults \/ \E k \in FaultKinds : Fault(k)
      BY <2>1 DEF FaultKinds, DoResticJob, CreateSecret, CreateJob, RecreateJob, PollJob,
           PollExpires, ReadLogs, DeleteJob, DeleteSecret, CallFails, StopWaiting
    <2>2. ASSUME NEW n \in JobNames, JobRuns(n) \/ JobVanishes(n)
          PROVE  faults' = faults \/ \E k \in FaultKinds : Fault(k)
      BY <2>2 DEF FaultKinds, JobRuns, JobLists, JobInits, JobForgets, JobStartsBackup,
           JobBacksUp, JobStartsRestore, JobRestores, JobFails, JobVanishes
    <2>3. ASSUME NEW c \in Calls, Begins(c)
          PROVE  faults' = faults
      BY <2>3 DEF Begins, CreateSnapshot, DeleteSnapshot, ListSnapshots, RestoreSnapshot
    <2>4. CASE Restart
      BY <2>4 DEF Restart, FaultKinds
    <2> QED  BY <2>1, <2>2, <2>3, <2>4 DEF Next, Begins
  <1>2. faults \in Nat
    BY DEF TypeOK
  <1> QED  BY <1>1, <1>2 DEF Fault, Tidy

(* TidyInv is inductive, given IInv.                                        *)
LEMMA StepTidyInv == IInv /\ TidyInv /\ [Next]_vars => TidyInv'
  <1> SUFFICES ASSUME IInv, TidyInv, [Next]_vars, Tidy'
               PROVE  SecretsOwned' /\ JobsOwned'
    BY DEF TidyInv
  <1>1. CASE UNCHANGED vars
    <2>1. Tidy
      BY <1>1 DEF Tidy
    <2>2. \A d \in Calls : JobName(d)' = JobName(d)
      BY <1>1, JobNameStays
    <2> QED  BY <1>1, <2>1, <2>2 DEF TidyInv, SecretsOwned, JobsOwned
  <1>2. CASE Next
    <2>0. TypeOK /\ Tidy /\ SecretsOwned /\ JobsOwned
      BY <1>2, TidyBefore DEF IInv, TidyInv
    <2>1. ASSUME NEW c \in Calls, DoResticJob(c)
          PROVE  SecretsOwned' /\ JobsOwned'
      <3>1. ~CallFails(c)
        BY <2>0, FaultsShow DEF CallFails
      <3>2. CASE DeleteSecret(c)
        BY <2>0, <3>2, DeleteSecretTidy
      <3>3. CASE ~DeleteSecret(c)
        BY <2>0, <2>1, <3>1, <3>3, JobStepsMove, JobStepsClean, CleansTidy DEF DoResticJob
      <3> QED  BY <3>2, <3>3
    <2>2. ~Restart /\ \A c \in Calls : ~StopWaiting(c)
      BY <2>0, FaultsShow DEF Restart, StopWaiting
    <2> QED
      BY <1>2, <2>0, <2>1, <2>2, BeginsTidy, JobsTidy DEF Next, Begins
  <1> QED  BY <1>1, <1>2

(* TidyInv holds at the start.                                              *)
LEMMA InitTidyInv == Init => TidyInv
  <1> SUFFICES ASSUME Init PROVE TidyInv
    OBVIOUS
  <1>1. \A n \in JobNames : job[n].state = "absent"
    BY DEF Init, NoJob
  <1> QED  BY <1>1 DEF Init, TidyInv, SecretsOwned, JobsOwned

(* The deferred calls of doResticJob (restic.go) clean up, however many     *)
(* handlers share a job or the secret of a namespace, and although restic   *)
(* commands fail and jobs take longer than the poll: with no call in        *)
(* progress no secret with the credentials is left, and no job that is not  *)
(* being deleted.                                                           *)
THEOREM NothingIsLeftBehind == Spec => []NothingLeftBehind
<1>1. TidyInv => NothingLeftBehind
  BY DEF TidyInv, Tidy, SecretsOwned, JobsOwned, NothingLeftBehind
<1> QED  BY <1>1, InitTidyInv, StepTidyInv, SnapshotInvariance, PTL DEF Spec

-----------------------------------------------------------------------------
(* What a restoration reports. *)

(* A snapshot is restored to one target only.                               *)
LEMMA OneTarget ==
  ASSUME OneTargetPerSnapshot, HandlesDistinct, NEW t \in Targets, NEW u \in Targets,
         handle[RestoreFrom[t]] # None, handle[RestoreFrom[u]] = handle[RestoreFrom[t]]
  PROVE  t = u
  BY DEF OneTargetPerSnapshot, HandlesDistinct

(* A volume stays settled while its contents, its handle and its job do.    *)
LEMMA SettledStays ==
  ASSUME NEW t \in Targets, Settled(t), contents'[t] = contents[t],
         handle'[RestoreFrom[t]] = handle[RestoreFrom[t]],
         job'[<<"restore", handle[RestoreFrom[t]]>>].state \in {"absent", "done"}
  PROVE  Settled(t)'
  BY DEF Settled

(* A handler at a restore command is about a target and its snapshot.       *)
LEMMA RestoreCalls ==
  ASSUME IInv, NEW c \in Calls, call[c].stage = "restore"
  PROVE  /\ call[c].pc # "idle" /\ call[c].arg \in Targets /\ call[c].snap \in Ids
         /\ call[c].snap = handle[RestoreFrom[call[c].arg]]
  BY DEF IInv, TypeOK, SnapKnown, CallsWellFormed, WellFormed, Idle, Creates, Deletes, Asks,
         Restores

(* A target nobody restores to keeps its job and its contents.              *)
LEMMA MovesSettled ==
  ASSUME OneTargetPerSnapshot, HandlesDistinct, IInv, NEW c \in Calls, Moves(c),
         NEW t \in Targets, Settled(t),
         call[c].arg # t \/ call[c].pc \notin {"job", "rejob"}
  PROVE  Settled(t)'
  <1> DEFINE s == handle[RestoreFrom[t]]
             n == <<"restore", s>>
  <1>1. s \in Ids /\ n \in JobNames /\ job[n].state \in {"absent", "done"} /\ s # None
    BY NamesOfJobs DEF Settled
  <1>2. UNCHANGED <<storage, objects>> /\ call[c].pc # "idle"
    BY DEF Moves
  <1>3. job'[n].state = job[n].state
    <2> SUFFICES ASSUME n = JobName(c), call[c].pc \in {"job", "rejob"}
                 PROVE  FALSE
      BY <1>1, MovesJobs
    <2>1. call[c].stage = "restore" /\ call[c].snap = s
      BY <1>2, JobNameIs, Pairs DEF IInv
    <2>2. call[c].arg \in Targets /\ handle[RestoreFrom[call[c].arg]] = s
      BY <2>1, RestoreCalls
    <2> QED  BY <1>1, <2>2, OneTarget
  <1> QED  BY <1>1, <1>2, <1>3, SettledStays

(* A handler restores only a volume that is not settled, and sees its job   *)
(* done only after the data is there.                                       *)
LEMMA MovesRestoreInv ==
  ASSUME OneTargetPerSnapshot, HandlesDistinct, IInv, RestoreInv, NEW c \in Calls, Moves(c)
  PROVE  RestoreInv'
  <1>0. /\ UNCHANGED <<storage, objects>> /\ call[c].pc # "idle" /\ TypeOK /\ CallsWellFormed
        /\ restored \subseteq Targets
    BY DEF Moves, IInv, TypeOK
  <1>1. RestoreJobsOwned'
    <2> SUFFICES ASSUME NEW s \in Ids, job'[<<"restore", s>>].state # "absent"
                 PROVE  /\ job'[<<"restore", s>>].target \in Targets
                        /\ handle[RestoreFrom[job'[<<"restore", s>>].target]] = s
      BY <1>0 DEF RestoreJobsOwned
    <2>1. CASE <<"restore", s>> = JobName(c) /\ job'[<<"restore", s>>] = JobOf(c)
      <3>1. call[c].stage = "restore" /\ call[c].snap = s
        BY <1>0, <2>1, JobNameIs, Pairs
      <3> QED  BY <2>1, <3>1, JobOfIs, RestoreCalls
    <2>2. CASE /\ job'[<<"restore", s>>].state = job[<<"restore", s>>].state
               /\ job'[<<"restore", s>>].target = job[<<"restore", s>>].target
      BY <2>2 DEF RestoreInv, RestoreJobsOwned
    <2> QED  BY <2>1, <2>2, MovesJobs, NamesOfJobs
  <1>2. RestoreJobsDone'
    BY <1>0, MovesJobs, NamesOfJobs, JobOfIs DEF RestoreInv, RestoreJobsDone
  <1>3. RestoresDone'
    <2> SUFFICES ASSUME NEW d \in Calls, call'[d].stage = "restore", Done(call'[d]),
                        NEW t, t = call'[d].arg
                 PROVE  Settled(t)'
      BY DEF RestoresDone, Done, Settled
    <2>1. call[d].stage = "restore" /\ call'[d].arg = call[d].arg
      BY DEF Moves, Only
    <2>2. /\ call[d].arg \in Targets /\ call[d].snap \in Ids
          /\ call[d].snap = handle[RestoreFrom[call[d].arg]] /\ call[d].pc # "idle"
      BY <2>1, RestoreCalls
    <2>3. CASE d # c
      <3>1. call[c].arg # call[d].arg
        BY <2>2, <2>3 DEF IInv, OneCallPerObject
      <3>2. Settled(call[d].arg)
        BY <2>1, <2>3 DEF Moves, Only, RestoreInv, RestoresDone
      <3> QED  BY <2>1, <2>2, <3>1, <3>2, MovesSettled
    <2>4. CASE d = c /\ Done(call[c])
      <3>1. Settled(call[c].arg) /\ call[c].pc \notin {"job", "rejob"}
        BY <2>1, <2>4 DEF RestoreInv, RestoresDone, Done
      <3> QED  BY <2>1, <2>2, <2>4, <3>1, MovesSettled
    <2>5. CASE d = c /\ job[JobName(c)].state = "done"
      <3> DEFINE s == call[c].snap
                 n == <<"restore", s>>
      <3>1. n = JobName(c) /\ n \in JobNames
        BY <1>0, <2>1, <2>5, JobNameIs
      <3>2. /\ job[n].target \in Targets /\ handle[RestoreFrom[job[n].target]] = s
            /\ contents[job[n].target] = s
        BY <2>2, <2>5, <3>1 DEF RestoreInv, RestoreJobsOwned, RestoreJobsDone
      <3>3. job[n].target = call[c].arg
        BY <2>2, <2>5, <3>2, OneTarget
      <3>4. job'[n].state = "done"
        BY <2>5, <3>1, MovesJobs
      <3>5. Settled(call[c].arg)
        BY <2>2, <2>5, <3>1, <3>2, <3>3 DEF Settled
      <3> QED  BY <1>0, <2>1, <2>2, <2>5, <3>4, <3>5, SettledStays
    <2> QED  BY <2>3, <2>4, <2>5 DEF Moves
  <1>4. RestoredSettled'
    <2>1. \A d \in Calls : call'[d].arg = call[d].arg
      BY DEF Moves, Only
    <2>2. \A t \in restored : Settled(t)'
      BY <1>0, MovesSettled DEF RestoreInv, RestoredSettled
    <2> QED  BY <1>0, <2>1, <2>2 DEF RestoreInv, RestoredSettled
  <1> QED  BY <1>1, <1>2, <1>3, <1>4 DEF RestoreInv

(* A step that leaves the jobs and the contents alone, and keeps handles.   *)
LEMMA QuietSettled ==
  ASSUME UNCHANGED <<job, contents>>, NEW t \in Targets, Settled(t),
         \A r \in Requests : handle[r] # None => handle'[r] = handle[r]
  PROVE  Settled(t)'
  BY SettledStays DEF Settled

(* Where neither jobs nor contents change the restore jobs remain what they *)
(* were.                                                                    *)
LEMMA QuietRestoreJobs ==
  ASSUME IInv, RestoreInv, UNCHANGED <<job, contents>>,
         \A r \in Requests : handle[r] # None => handle'[r] = handle[r]
  PROVE  RestoreJobsOwned' /\ RestoreJobsDone'
  BY DEF RestoreInv, RestoreJobsOwned, RestoreJobsDone

(* New calls, new commands and returns keep RestoreInv.                     *)
LEMMA HandlersRestoreInv ==
  ASSUME IInv, RestoreInv, Drops \/ \E c \in Calls : Runs(c) \/ Begins(c)
  PROVE  RestoreInv'
  <1>0. UNCHANGED <<job, contents, handle, restored>> /\ restored \subseteq Targets
    BY BeginsRecord DEF Drops, Runs, IInv, TypeOK
  <1>1. RestoreJobsOwned' /\ RestoreJobsDone'
    BY <1>0, QuietRestoreJobs
  <1>2. \A t \in Targets : Settled(t) => Settled(t)'
    BY <1>0, QuietSettled
  <1>3. \A d \in Calls : \/ call'[d] = call[d]
                         \/ ~Done(call'[d]) /\ call'[d].arg \notin restored
    <2>1. CASE Drops
      BY <1>0, <2>1 DEF Drops, Idle, Done
    <2>2. ASSUME NEW c \in Calls, Runs(c)
          PROVE  \A d \in Calls : \/ call'[d] = call[d]
                                  \/ ~Done(call'[d]) /\ call'[d].arg \notin restored
      BY <2>2, RunsRecord DEF Only, Done, RestoreInv, RestoredSettled
    <2>3. ASSUME NEW c \in Calls, Begins(c)
          PROVE  \A d \in Calls : \/ call'[d] = call[d]
                                  \/ ~Done(call'[d]) /\ call'[d].arg \notin restored
      BY <1>0, <2>3, BeginsRecord DEF Only, Done
    <2> QED  BY <2>1, <2>2, <2>3
  <1>4. RestoresDone'
    <2> SUFFICES ASSUME NEW d \in Calls, call'[d].stage = "restore", Done(call'[d]),
                        NEW t, t = call'[d].arg
                 PROVE  Settled(t)'
      BY DEF RestoresDone, Done, Settled
    <2>1. call'[d] = call[d] /\ call[d].arg \in Targets
      BY <1>3, RestoreCalls
    <2> QED  BY <1>2, <2>1 DEF RestoreInv, RestoresDone
  <1>5. RestoredSettled'
    BY <1>0, <1>2, <1>3 DEF RestoreInv, RestoredSettled
  <1> QED  BY <1>1, <1>4, <1>5 DEF RestoreInv

(* The restoration that is reported has been seen done.                     *)
LEMMA ReportsRestoreInv ==
  ASSUME IInv, RestoreInv, NEW c \in Calls, Reports(c)
  PROVE  RestoreInv'
  <1>0. /\ UNCHANGED <<job, contents>> /\ restored \subseteq Targets
        /\ \A r \in Requests : handle[r] # None => handle'[r] = handle[r]
        /\ \A d \in Calls : d # c => call'[d] = call[d]
        /\ call'[c] = Idle /\ Done(call[c])
    BY ReportsRecord, HandlesStay DEF IInv, TypeOK, Only, Done
  <1>1. RestoreJobsOwned' /\ RestoreJobsDone'
    BY <1>0, QuietRestoreJobs
  <1>2. \A t \in Targets : Settled(t) => Settled(t)'
    BY <1>0, QuietSettled
  <1>3. RestoresDone'
    <2> SUFFICES ASSUME NEW d \in Calls, call'[d].stage = "restore", Done(call'[d]),
                        NEW t, t = call'[d].arg
                 PROVE  Settled(t)'
      BY DEF RestoresDone, Done, Settled
    <2>1. call'[d] = call[d] /\ call[d].arg \in Targets
      BY <1>0, RestoreCalls DEF Idle
    <2> QED  BY <1>2, <2>1 DEF RestoreInv, RestoresDone
  <1>4. RestoredSettled'
    <2>0. \A d \in Calls : call'[d].arg \in {call[d].arg, None}
      BY <1>0 DEF Idle
    <2>1. CASE UNCHANGED restored
      BY <1>0, <1>2, <2>0, <2>1 DEF RestoreInv, RestoredSettled
    <2>2. CASE call[c].stage = "restore" /\ restored' = restored \cup {call[c].arg}
      <3>1. call[c].arg \in Targets /\ Settled(call[c].arg)
        BY <1>0, <2>2, RestoreCalls DEF RestoreInv, RestoresDone
      <3>2. \A d \in Calls : call'[d].arg # call[c].arg
        BY <1>0, <3>1 DEF IInv, OneCallPerObject, Idle
      <3> QED  BY <1>0, <1>2, <2>0, <2>2, <3>1, <3>2 DEF RestoreInv, RestoredSettled
    <2> QED  BY <2>1, <2>2, ReportsRecord
  <1> QED  BY <1>1, <1>3, <1>4 DEF RestoreInv

(* What a job writes to: the target of a restore job.                       *)
LEMMA JobRunsContents ==
  ASSUME IInv, NEW n \in JobNames, JobRuns(n)
  PROVE  /\ \A t \in Targets : t # job[n].target => contents'[t] = contents[t]
         /\ n[1] # "restore" => UNCHANGED contents
         /\ /\ n[1] = "restore" /\ job'[n].state = "done" /\ job[n].target \in Targets
            => contents'[job[n].target] = n[2]
  <1>0. contents \in [Targets -> Ids \cup {None, "partial"}] /\ TypeOK
    BY DEF IInv, TypeOK
  <1>1. CASE JobStartsRestore(n)
    <2>1. job'[n].state # "done" /\ n[1] = "restore"
      BY <1>0, <1>1, EndsRecord DEF JobStartsRestore
    <2> QED  BY <1>0, <1>1, <2>1 DEF JobStartsRestore
  <1>2. CASE JobRestores(n)
    BY <1>0, <1>2 DEF JobRestores
  <1>3. CASE JobFails(n)
    <2>1. job'[n].state # "done"
      BY <1>0, <1>3, EndsRecord DEF JobFails
    <2> QED  BY <1>3, <2>1 DEF JobFails
  <1>4. CASE JobLists(n) \/ JobInits(n) \/ JobForgets(n) \/ JobStartsBackup(n) \/ JobBacksUp(n)
    BY <1>4 DEF JobLists, JobInits, JobForgets, JobStartsBackup, JobBacksUp
  <1> QED  BY <1>1, <1>2, <1>3, <1>4 DEF JobRuns

(* A running restore job touches its own target only, and is done when that *)
(* is complete.                                                             *)
LEMMA JobRunsRestoreInv ==
  ASSUME IInv, RestoreInv, NEW n \in JobNames, JobRuns(n)
  PROVE  RestoreInv'
  <1>0. /\ Works(n) /\ UNCHANGED <<call, objects>> /\ restored \subseteq Targets
        /\ n = <<n[1], n[2]>> /\ \A s \in Ids : <<"restore", s>> \in JobNames
        /\ \A m \in JobNames : m # n => job'[m] = job[m]
        /\ job[n].state \in {"pending", "running"}
        /\ n[1] = "restore" => n[2] \in Ids
    BY JobRunsWorks, NamesOfJobs, JobNamesAre DEF Works, IInv, TypeOK
  <1>1. RestoreJobsOwned'
    BY <1>0 DEF Works, RestoreInv, RestoreJobsOwned
  <1>2. n[1] = "restore" => /\ job[n].target \in Targets
                            /\ handle[RestoreFrom[job[n].target]] = n[2]
    BY <1>0 DEF RestoreInv, RestoreJobsOwned
  <1>3. RestoreJobsDone'
    <2> SUFFICES ASSUME NEW s \in Ids, job'[<<"restore", s>>].state = "done"
                 PROVE  contents'[job'[<<"restore", s>>].target] = s
      BY DEF RestoreJobsDone
    <2>1. CASE n = <<"restore", s>>
      <3>1. n[1] = "restore" /\ n[2] = s /\ job'[n].target = job[n].target
        BY <1>0, <2>1 DEF Works
      <3> QED  BY <1>2, <2>1, <3>1, JobRunsContents
    <2>2. CASE n # <<"restore", s>>
      <3> DEFINE j == job[<<"restore", s>>]
      <3>1. job'[<<"restore", s>>] = j /\ j.state = "done"
        BY <1>0, <2>2
      <3>2. j.target \in Targets /\ handle[RestoreFrom[j.target]] = s /\ contents[j.target] = s
        BY <3>1 DEF RestoreInv, RestoreJobsOwned, RestoreJobsDone
      <3>3. n[1] = "restore" => j.target # job[n].target
        BY <1>0, <1>2, <2>2, <3>2
      <3> HIDE DEF j
      <3> QED  BY <3>1, <3>2, <3>3, JobRunsContents
    <2> QED  BY <2>1, <2>2
  <1>4. ASSUME NEW t \in Targets, Settled(t)
        PROVE  Settled(t)'
    <2> DEFINE m == <<"restore", handle[RestoreFrom[t]]>>
    <2>1. m \in JobNames /\ job[m].state \in {"absent", "done"}
      BY <1>0, <1>4 DEF Settled
    <2>2. m # n /\ job'[m] = job[m]
      BY <1>0, <2>1
    <2>3. contents'[t] = contents[t]
      BY <1>0, <1>2, <2>2, JobRunsContents
    <2> QED  BY <1>0, <1>4, <2>1, <2>2, <2>3, SettledStays
  <1>5. RestoresDone'
    BY <1>0, <1>4, RestoreCalls DEF RestoreInv, RestoresDone, Done
  <1>6. RestoredSettled'
    BY <1>0, <1>4 DEF RestoreInv, RestoredSettled
  <1> QED  BY <1>1, <1>3, <1>5, <1>6 DEF RestoreInv

(* A vanishing job keeps RestoreInv.                                        *)
LEMMA VanishesRestoreInv ==
  ASSUME IInv, RestoreInv, NEW n \in JobNames, JobVanishes(n)
  PROVE  RestoreInv'
  <1>0. /\ UNCHANGED <<call, storage, objects>> /\ restored \subseteq Targets
        /\ \A s \in Ids : <<"restore", s>> \in JobNames
        /\ \A m \in JobNames : job'[m] = job[m] \/ job'[m].state = "absent"
    BY VanishesRecord, NamesOfJobs DEF IInv, TypeOK
  <1>1. RestoreJobsOwned' /\ RestoreJobsDone'
    BY <1>0 DEF RestoreInv, RestoreJobsOwned, RestoreJobsDone
  <1>2. ASSUME NEW t \in Targets, Settled(t)
        PROVE  Settled(t)'
    BY <1>0, <1>2 DEF Settled
  <1>3. RestoresDone'
    BY <1>0, <1>2, RestoreCalls DEF RestoreInv, RestoresDone, Done
  <1>4. RestoredSettled'
    BY <1>0, <1>2 DEF RestoreInv, RestoredSettled
  <1> QED  BY <1>1, <1>3, <1>4 DEF RestoreInv

(* RestoreInv is inductive, given IInv and BackupInv.                       *)
LEMMA StepRestoreInv ==
  ASSUME OneTargetPerSnapshot
  PROVE  IInv /\ BackupInv /\ RestoreInv /\ [Next]_vars => RestoreInv'
  <1> SUFFICES ASSUME IInv, BackupInv, RestoreInv, [Next]_vars PROVE RestoreInv'
    OBVIOUS
  <1>1. CASE UNCHANGED vars
    <2>1. UNCHANGED <<call, job, contents, handle, restored>> /\ restored \subseteq Targets
      BY <1>1 DEF IInv, TypeOK
    <2>2. RestoreJobsOwned' /\ RestoreJobsDone'
      BY <2>1, QuietRestoreJobs
    <2>3. \A t \in Targets : Settled(t) => Settled(t)'
      BY <2>1, QuietSettled
    <2>4. RestoresDone' /\ RestoredSettled'
      BY <2>1, <2>3, RestoreCalls DEF RestoreInv, RestoresDone, RestoredSettled, Done
    <2> QED  BY <2>2, <2>4 DEF RestoreInv
  <1>2. CASE Next
    <2>1. HandlesDistinct
      BY DEF BackupInv
    <2> QED
      BY <1>2, <2>1, StepKinds, MovesRestoreInv, HandlersRestoreInv, ReportsRestoreInv,
         JobRunsRestoreInv, VanishesRestoreInv
  <1> QED  BY <1>1, <1>2

(* RestoreInv holds at the start.                                           *)
LEMMA InitRestoreInv == Init => RestoreInv
  <1> SUFFICES ASSUME Init PROVE RestoreInv
    OBVIOUS
  <1>1. \A s \in Ids : job[<<"restore", s>>].state = "absent"
    BY NamesOfJobs DEF Init, NoJob
  <1>2. restored = {} /\ \A c \in Calls : call[c].stage = "none"
    BY DEF Init, Idle
  <1> QED
    BY <1>1, <1>2 DEF RestoreInv, RestoreJobsOwned, RestoreJobsDone, RestoresDone, RestoredSettled

(* A volume that CreateVolume returned as restored (controller.go,          *)
(* restoreSnapshot) holds all of its snapshot and keeps it: no job of an    *)
(* earlier call that failed, was given up or died with the controller       *)
(* writes to it any more.  It holds if no two VolumeSnapshots are of one    *)
(* volume and no two volumes are restored from one VolumeSnapshot.          *)
THEOREM RestoredVolumesAreComplete ==
  ASSUME OneRequestPerVolume, OneTargetPerSnapshot
  PROVE  Spec => []RestoredIsComplete
<1>1. RestoreInv => RestoredIsComplete
  BY DEF RestoreInv, RestoredSettled, Settled, RestoredIsComplete
<1> QED
  BY <1>1, InitIInv, StepIInv, InitDeleteInv, StepDeleteInv, InitBackupInv, StepBackupInv,
     InitRestoreInv, StepRestoreInv, PTL DEF Spec

=============================================================================
