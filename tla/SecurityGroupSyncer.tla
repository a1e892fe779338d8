------------------------ MODULE SecurityGroupSyncer ------------------------
(***************************************************************************)
(* The NAS security group syncer of the controller (NSGSyncer).  Every 30  *)
(* seconds one goroutine runs SyncNasSecurityGroups, which compares the    *)
(* private IPs of the nodes with the CIDRs authorized in the cluster's NAS *)
(* security group, and orders at most one change of the group.             *)
(*                                                                         *)
(* A run takes one step per call to Kubernetes or to the cloud; the nodes, *)
(* the storage classes and the group change in between.                    *)
(***************************************************************************)
EXTENDS Naturals, FiniteSets

CONSTANTS
    Addresses,      \* private IPs of nodes, each standing for its /32 CIDR
    Zones,          \* values of the zone parameter of a storage class
    Instances,      \* NAS instances in the volume handles of the driver's PVs
    RestoreClstID,  \* the option restoreclstid
    None,           \* no zone, nothing remembered
    CloudErrors,    \* may a call to the cloud or to Kubernetes fail?
    Restarts,       \* may the controller restart?
    IPsReturn,      \* may a node come back with an address given up before?
    OperatorEdits,  \* may somebody else edit the security group?
    MaxChanges      \* bound on the disturbances: nodes, operators, restarts

ASSUME SyncerAssumption ==
    /\ RestoreClstID \in BOOLEAN /\ CloudErrors \in BOOLEAN
    /\ Restarts \in BOOLEAN /\ IPsReturn \in BOOLEAN /\ OperatorEdits \in BOOLEAN
    /\ MaxChanges \in Nat
    /\ None \notin Zones
    /\ None \notin [ips : SUBSET Addresses, zone : Zones]

VARIABLES
    pc,                 \* where the current run of SyncNasSecurityGroups is
    doCloudChk,         \* local: this run looks at the cloud in any case
    nodePrivateIps,     \* local: the addresses listed by this run
    nsg,                \* local: the CIDRs of the group fetched by this run
    volumeIDs,          \* local: instances not yet checked by the restoration
    hasTask, restoreClusterID,
    last,               \* lastNodePrivateIps and lastSecurityGroupInput
    nodes, gone,        \* addresses of the nodes; addresses given up
    zone,               \* the zone of the driver's first storage class
    exists, ranges,     \* the group in the cloud and the status of its CIDRs
    restored,           \* instances that are in this cluster's group
    changes             \* how many disturbances there have been

locals == <<pc, doCloudChk, nodePrivateIps, nsg, volumeIDs>>
syncer == <<hasTask, restoreClusterID, last>>
world  == <<nodes, gone, zone, changes>>
cloud  == <<exists, ranges, restored>>
vars   == <<locals, syncer, world, cloud>>

Status == {"none", "authorizing", "authorized", "revoking"}

NoRanges == [ip \in Addresses |-> "none"]

Memory == [ips : SUBSET Addresses, zone : Zones] \cup {None}

TypeOK ==
    /\ pc \in {"idle", "classes", "get", "create", "restore", "repair", "edit"}
    /\ doCloudChk \in BOOLEAN /\ hasTask \in BOOLEAN
    /\ restoreClusterID \in BOOLEAN /\ exists \in BOOLEAN
    /\ nodePrivateIps \in SUBSET Addresses
    /\ nsg \in [Addresses -> Status] /\ ranges \in [Addresses -> Status]
    /\ volumeIDs \in SUBSET Instances /\ restored \in SUBSET Instances
    /\ last \in Memory
    /\ nodes \in SUBSET Addresses /\ gone \in SUBSET Addresses
    /\ zone \in Zones \cup {None}
    /\ changes \in 0..MaxChanges

Init ==
    /\ pc = "idle" /\ doCloudChk = FALSE
    /\ nodePrivateIps = {} /\ nsg = NoRanges /\ volumeIDs = {}
    /\ hasTask = TRUE /\ restoreClusterID = RestoreClstID /\ last = None
    /\ nodes \in SUBSET Addresses /\ gone = {}
    /\ zone \in Zones \cup {None}
    /\ exists = FALSE /\ ranges = NoRanges
    /\ restored \in SUBSET Instances
    /\ changes = 0

(* A bounded number of disturbances: nodes that come and go, edits by an    *)
(* operator, a new storage class, a restart.                                *)
Change == changes < MaxChanges /\ changes' = changes + 1

-----------------------------------------------------------------------------
(* One run of SyncNasSecurityGroups.                                        *)

(* The run returns, with or without an error.                               *)
Return == pc' = "idle" /\ UNCHANGED <<doCloudChk, nodePrivateIps, nsg, volumeIDs>>

Goto(p) == pc' = p /\ UNCHANGED <<doCloudChk, nodePrivateIps, nsg, volumeIDs>>

(* Mutant of Begin: a cloud check is due, but only an internal one is done. *)
BeginInternalOnly(internalChk, cloudChk) ==
    /\ pc = "idle"
    /\ cloudChk => internalChk
    /\ hasTask \/ internalChk
    /\ pc' = "classes"
    /\ doCloudChk' = FALSE
    /\ nodePrivateIps' = nodes
    /\ UNCHANGED <<nsg, volumeIDs, syncer, world, cloud>>

(* The run begins.  Every 10th period is due for an internal check, every   *)
(* 120th also for a cloud check; a run that is due for nothing changes      *)
(* nothing.  The nodes are listed.                                          *)
Begin(internalChk, cloudChk) ==
    /\ pc = "idle"
    /\ cloudChk => internalChk
    /\ hasTask \/ internalChk
    /\ pc' = "classes"
    /\ doCloudChk' = cloudChk
    /\ nodePrivateIps' = nodes
    /\ UNCHANGED <<nsg, volumeIDs, syncer, world, cloud>>

(* Mutant of InternalCheck: a storage class without a zone is accepted.     *)
InternalCheckAnyZone ==
    LET now == [ips |-> nodePrivateIps, zone |-> zone] IN
    /\ pc = "classes"
    /\ last' = now
    /\ hasTask' = (hasTask \/ last # now)
    /\ Goto("get")
    /\ UNCHANGED <<restoreClusterID, world, cloud>>

(* The storage classes are listed.  Nothing has changed since the last run  *)
(* and nothing is left to do, or the run goes on to the cloud.              *)
InternalCheck ==
    LET now == [ips |-> nodePrivateIps, zone |-> zone] IN
    /\ pc = "classes"
    /\ UNCHANGED <<restoreClusterID, world, cloud>>
    /\ \/ zone = None /\ Return /\ UNCHANGED <<hasTask, last>>
       \/ /\ zone # None
          /\ last = now /\ ~hasTask /\ ~doCloudChk
          /\ Return /\ UNCHANGED <<hasTask, last>>
       \/ /\ zone # None
          /\ last = now /\ (hasTask \/ doCloudChk)
          /\ Goto("get") /\ UNCHANGED <<hasTask, last>>
       \/ /\ zone # None
          /\ last # now
          /\ Goto("get") /\ last' = now /\ hasTask' = TRUE

(* Where a run goes once it has the group.                                  *)
AfterGet == IF restoreClusterID THEN "restore" ELSE "edit"

GetNasSecurityGroup ==
    /\ pc = "get"
    /\ UNCHANGED <<syncer, world, cloud>>
    /\ \/ ~exists /\ Goto("create")
       \/ /\ exists
          /\ pc' = AfterGet /\ nsg' = ranges
          /\ UNCHANGED <<doCloudChk, nodePrivateIps, volumeIDs>>

(* The group may exist by now, or be created although an error is returned. *)
CreateNasSecurityGroup ==
    /\ pc = "create"
    /\ UNCHANGED <<syncer, world, ranges, restored>>
    /\ \/ exists /\ Return /\ UNCHANGED exists
       \/ /\ ~exists /\ exists' = TRUE
          /\ \/ CloudErrors /\ Return
             \/ /\ pc' = AfterGet /\ nsg' = NoRanges
                /\ UNCHANGED <<doCloudChk, nodePrivateIps, volumeIDs>>

(* The restoration of the group of the instances of a restored cluster is   *)
(* tried once: the flag goes before anything else is done.                  *)
BeginRestore ==
    /\ pc = "restore"
    /\ restoreClusterID' = FALSE
    /\ UNCHANGED <<hasTask, last, world, cloud>>
    /\ \/ CloudErrors /\ Return
       \/ /\ pc' = "repair" /\ volumeIDs' = Instances
          /\ UNCHANGED <<doCloudChk, nodePrivateIps, nsg>>

(* Mutant of RepairInstance: the loop ends at an instance that needs no     *)
(* change.                                                                  *)
RepairUntilRestored ==
    /\ pc = "repair"
    /\ \/ volumeIDs \cap restored # {} /\ Goto("edit") /\ UNCHANGED restored
       \/ volumeIDs = {} /\ Goto("edit") /\ UNCHANGED restored
       \/ \E i \in volumeIDs :
             /\ restored' = restored \cup {i}
             /\ volumeIDs' = volumeIDs \ {i}
             /\ UNCHANGED <<pc, doCloudChk, nodePrivateIps, nsg>>
    /\ UNCHANGED <<syncer, world, exists, ranges>>

(* The next instance is fetched and, when it is in another group, changed.  *)
RepairInstance ==
    /\ pc = "repair"
    /\ \/ volumeIDs = {} /\ Goto("edit") /\ UNCHANGED restored
       \/ \E i \in volumeIDs :
             /\ restored' = restored \cup {i}
             /\ \/ CloudErrors /\ Return
                \/ /\ volumeIDs' = volumeIDs \ {i}
                   /\ UNCHANGED <<pc, doCloudChk, nodePrivateIps, nsg>>
    /\ UNCHANGED <<syncer, world, exists, ranges>>

Present(r) == {ip \in Addresses : r[ip] # "none"}

(* A change of the group is only possible when the last one is finished.    *)
Editable(r) == \A ip \in Present(r) : r[ip] = "authorized"

(* AuthorizeCIDRIP or RevokeCIDRIP: the CIDR gets status s, whether or not  *)
(* the answer is an error, unless it has come or gone since it was fetched. *)
(* The cloud refuses a change while another one is being carried out; here  *)
(* it accepts it, for OneEditAtATime to show that none is ordered.          *)
Order(ip, s) ==
    ranges' = IF (ranges[ip] = "none") = (nsg[ip] = "none")
              THEN [ranges EXCEPT ![ip] = s] ELSE ranges

(* Mutants of Edit: the state of the other CIDRs is not looked at; a run    *)
(* that has to wait for the group forgets its task.                         *)
EditAnyTime ==
    LET missing == nodePrivateIps \ Present(nsg)
        stale   == Present(nsg) \ nodePrivateIps
    IN
    /\ pc = "edit"
    /\ Return
    /\ hasTask' = (missing \cup stale # {})
    /\ \/ \E ip \in missing : Order(ip, "authorizing")
       \/ missing = {} /\ \E ip \in stale : Order(ip, "revoking")
       \/ missing \cup stale = {} /\ UNCHANGED ranges
    /\ UNCHANGED <<restoreClusterID, last, world, exists, restored>>

EditForgetsPending ==
    LET missing == nodePrivateIps \ Present(nsg)
        stale   == Present(nsg) \ nodePrivateIps
    IN
    /\ pc = "edit"
    /\ Return
    /\ hasTask' = (Editable(nsg) /\ missing \cup stale # {})
    /\ \/ (~Editable(nsg) \/ missing \cup stale = {}) /\ UNCHANGED ranges
       \/ Editable(nsg) /\ \E ip \in missing : Order(ip, "authorizing")
       \/ /\ Editable(nsg) /\ missing = {}
          /\ \E ip \in stale : Order(ip, "revoking")
    /\ UNCHANGED <<restoreClusterID, last, world, exists, restored>>

(* One missing address is authorized; when none is missing, one that is no  *)
(* longer a node's is revoked; when there is none either, all is done.      *)
Edit ==
    LET missing == nodePrivateIps \ Present(nsg)
        stale   == Present(nsg) \ nodePrivateIps
    IN
    /\ pc = "edit"
    /\ Return
    /\ hasTask' = (missing \cup stale # {})
    /\ \/ (~Editable(nsg) \/ missing \cup stale = {}) /\ UNCHANGED ranges
       \/ Editable(nsg) /\ \E ip \in missing : Order(ip, "authorizing")
       \/ /\ Editable(nsg) /\ missing = {}
          /\ \E ip \in stale : Order(ip, "revoking")
    /\ UNCHANGED <<restoreClusterID, last, world, exists, restored>>

(* A call fails and nothing is done by it: the run returns the error.  A    *)
(* failed edit of the group still is a task.                                *)
ApiError ==
    /\ CloudErrors
    /\ \/ /\ pc \in {"classes", "get", "create"}
          /\ UNCHANGED hasTask
       \/ /\ pc = "repair" /\ volumeIDs # {}
          /\ UNCHANGED hasTask
       \/ /\ pc = "edit" /\ Editable(nsg)
          /\ nodePrivateIps # Present(nsg)
          /\ hasTask' = TRUE
    /\ Return
    /\ UNCHANGED <<restoreClusterID, last, world, cloud>>

(* newNSGSyncer                                                             *)
Restart ==
    /\ Restarts
    /\ Change
    /\ pc' = "idle" /\ doCloudChk' = FALSE
    /\ nodePrivateIps' = {} /\ nsg' = NoRanges /\ volumeIDs' = {}
    /\ hasTask' = TRUE /\ restoreClusterID' = RestoreClstID /\ last' = None
    /\ UNCHANGED <<nodes, gone, zone, cloud>>

-----------------------------------------------------------------------------
(* The nodes, the storage class, the cloud and its operator: outside of the *)
(* syncer.                                                                  *)

NodeJoins(ip) ==
    /\ Change
    /\ ip \notin nodes
    /\ IPsReturn \/ ip \notin gone
    /\ nodes' = nodes \cup {ip}
    /\ UNCHANGED <<locals, syncer, gone, zone, cloud>>

NodeLeaves(ip) ==
    /\ Change
    /\ ip \in nodes
    /\ nodes' = nodes \ {ip} /\ gone' = gone \cup {ip}
    /\ UNCHANGED <<locals, syncer, zone, cloud>>

ZoneChanges ==
    /\ Change
    /\ zone' \in (Zones \cup {None}) \ {zone}
    /\ UNCHANGED <<locals, syncer, nodes, gone, cloud>>

(* The cloud finishes a change.                                             *)
CloudSettles(ip) ==
    /\ \/ ranges[ip] = "authorizing" /\ ranges' = [ranges EXCEPT ![ip] = "authorized"]
       \/ ranges[ip] = "revoking" /\ ranges' = [ranges EXCEPT ![ip] = "none"]
    /\ UNCHANGED <<locals, syncer, world, exists, restored>>

(* An operator authorizes or revokes an address in the cloud's console.     *)
OperatorEdit(ip) ==
    /\ OperatorEdits
    /\ Change
    /\ exists /\ Editable(ranges)
    /\ ranges' = [ranges EXCEPT ![ip] = IF @ = "none" THEN "authorizing"
                                        ELSE "revoking"]
    /\ UNCHANGED <<locals, syncer, nodes, gone, zone, exists, restored>>

-----------------------------------------------------------------------------

Sync == InternalCheck \/ GetNasSecurityGroup \/ CreateNasSecurityGroup
        \/ BeginRestore \/ RepairInstance \/ Edit

Next ==
    \/ \E internalChk, cloudChk \in BOOLEAN : Begin(internalChk, cloudChk)
    \/ Sync \/ ApiError \/ Restart
    \/ \E ip \in Addresses :
          NodeJoins(ip) \/ NodeLeaves(ip) \/ CloudSettles(ip) \/ OperatorEdit(ip)
    \/ ZoneChanges

Spec == Init /\ [][Next]_vars

(* The goroutine runs for ever (wait.Forever) and comes, now and then, in a *)
(* period due for a cloud check; no call fails always, not even in those    *)
(* periods; the cloud finishes what it has begun.                           *)
Fairness ==
    /\ SF_vars(Begin(TRUE, TRUE))
    /\ SF_vars(InternalCheck) /\ SF_vars(doCloudChk /\ InternalCheck)
    /\ SF_vars(GetNasSecurityGroup)
    /\ SF_vars(CreateNasSecurityGroup) /\ SF_vars(BeginRestore)
    /\ SF_vars(RepairInstance) /\ SF_vars(Edit)
    /\ \A ip \in Addresses : WF_vars(CloudSettles(ip))

FairSpec == Spec /\ Fairness

-----------------------------------------------------------------------------

(* "Do one task only to wait recovery": a change of the group is never      *)
(* ordered while another one is being carried out, although the order       *)
(* relies on a group fetched several calls, and repairs, earlier.           *)
OneEditAtATime ==
    \A a, b \in Addresses :
        /\ ranges[a] \in {"authorizing", "revoking"}
        /\ ranges[b] \in {"authorizing", "revoking"}
        => a = b

(* "Tasks completed here": once there is no task left, exactly the nodes    *)
(* the syncer remembers have access, or are about to get it, and no error,  *)
(* pending change or change of the nodes in between is forgotten.           *)
Granted == {ip \in Addresses : ranges[ip] \in {"authorizing", "authorized"}}

DoneMeansGranted == ~hasTask => last # None /\ Granted = last.ips

(* After the one try, and if no call fails, every instance of a PV is in    *)
(* the cluster's own group, before the first CIDR is edited.                *)
RestoredBeforeEdits ==
    RestoreClstID /\ ~restoreClusterID /\ pc # "repair" => restored = Instances

(* A run edits the group after a restoration only when the restoration has  *)
(* got through all instances: errors end the run, and none is left in the   *)
(* group of the old cluster because of another one that needed no change.   *)
RestorationCompletes == [][pc = "repair" /\ pc' = "edit" => restored' = Instances]_vars

(* Once the nodes no longer change and there is a storage class, the group  *)
(* comes to authorize exactly the nodes, and stays so, whatever errors,     *)
(* restarts, returning addresses or edits by an operator came before.       *)
Synced == \A ip \in Addresses :
              ranges[ip] = IF ip \in nodes THEN "authorized" ELSE "none"

Converges == <>[](zone # None) => <>[]Synced

=============================================================================
