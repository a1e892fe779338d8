---------------------------- MODULE Configurator ----------------------------
(***************************************************************************)
(* The configurator of the controller (configurator.go).  At the start of  *)
(* the driver it installs the storage classes and the snapshot class, and  *)
(* then, every 300 seconds, compares the CSINodes' annotations, the        *)
(* storage classes and the snapshot secret with what it expects; if        *)
(* anything is missing it asks the cloud for the nodes' private IPs, the   *)
(* zone and the network, recommends a CIDR block of the private LAN that   *)
(* nothing uses, and writes all of it.  One goroutine does this, one call  *)
(* of the API servers after the other, and the classes, the nodes and the  *)
(* driver itself may change or fail between any two calls.                 *)
(***************************************************************************)
EXTENDS CidrDivs, FiniteSets

CONSTANTS
    Nodes,            \* names of the cluster's nodes
    IPs,              \* private IPs a node may have, those of each node its own
    Reporting,        \* nodes whose Kubernetes status shows the private IP
    Templates,        \* names of the storage classes the driver installs
    Custom,           \* names of the user's own storage classes
    KindOf,           \* [classes -> Templates]: same instanceType and shared
    UserParams,       \* parameters a user gives to a storage class
    OwnNetwork,       \* the network and the zone of the cluster's nodes
    OwnZone,
    FirstNetwork,     \* network of the first Hatoba cluster of the account
    CommonPrivate,    \* "net-COMMON_PRIVATE"
    Lans,             \* private LANs to try: [bits, rdbs, pools, statics]
    HatobaModes,      \* settings of the flag "hatoba" to try
    CidrBlkRcmd,      \* flag "recommendcidr"
    CfgSnapRepo,      \* flag "cfgsnaprepo"
    PrivateIPReg,     \* flag "privateipreg" of the nodes
    Buckets,          \* bucket names rand.String may give
    Incomplete,       \* a secret without a repository or a password
    None,
    Faults,           \* kinds of faults that happen, at most MaxFaults
    MaxFaults,
    MaxChanges        \* bound on the changes made by nodes and users

Classes == Templates \cup Custom
Networks == {OwnNetwork, FirstNetwork}
FirstIP == CHOOSE i \in IPs : TRUE

ASSUME SetsAssumption ==
    /\ IPs # {} /\ Reporting \subseteq Nodes
    /\ KindOf \in [Classes -> Templates]
    /\ \A p \in UserParams :
          p = [zone |-> p.zone, networkId |-> p.networkId, cidr |-> p.cidr]
    /\ HatobaModes \subseteq BOOLEAN
    /\ CidrBlkRcmd \in BOOLEAN /\ CfgSnapRepo \in BOOLEAN /\ PrivateIPReg \in BOOLEAN
    /\ None \notin IPs \cup Networks \cup Buckets \cup {OwnZone}
    /\ Incomplete \notin Buckets \cup {None}
    /\ MaxFaults \in Nat /\ MaxChanges \in Nat

(* Every DHCP pool is given by its first and last address.                  *)
ASSUME LanAssumption ==
    \A lan \in Lans :
        /\ lan.bits \in 0..MaxBits
        /\ lan.rdbs \subseteq Int /\ lan.statics \subseteq Int
        /\ \A pool \in lan.pools :
               pool.from \in Int /\ pool.to \in Int /\ pool.from <= pool.to

VARIABLES
    pc,               \* the next call of the configurator
    conf,             \* its fields and locals
    csinode,          \* registered nodes -> annotation privateIp, or None
    ip,               \* [Nodes -> IPs]: private IPs known to the cloud
    class,            \* storage classes of the driver -> their parameters
    snapClass,        \* is there a snapshot class of the driver?
    secret,           \* None, Incomplete or the bucket restic-creds names
    buckets,          \* buckets that were created
    hatoba, lan,      \* flag and LAN of this cluster, chosen at first
    wanted,           \* classes installed or made by users, none deleted since
    faults, changes

world == <<ip, hatoba, lan, changes>>
cluster == <<csinode, class, snapClass, secret, buckets, wanted>>
vars == <<pc, conf, cluster, world, faults>>

-----------------------------------------------------------------------------

Put(f, x, y) == [z \in DOMAIN f \cup {x} |-> IF z = x THEN y ELSE f[z]]
Drop(f, x) == [z \in DOMAIN f \ {x} |-> f[z]]

Empty == [x \in {} |-> None]
NoParams == [zone |-> None, networkId |-> None, cidr |-> None]

(* What the configurator holds.  All but cidr is written again before it is *)
(* read by the next update.                                                 *)
Fresh == [todo      |-> {},      \* of "nodes", "classes", "snapshots"
          nodes     |-> Empty,    \* c.nodes: names -> private IPs
          zone      |-> None,
          networkID |-> None,
          cidr      |-> None,
          divs      |-> << >>,
          left      |-> {},      \* what the running loop has not seen
          listed    |-> Empty]    \* the classes to write -> new parameters

Init ==
    /\ pc = "start" /\ conf = Fresh
    /\ \E registered \in SUBSET Nodes : csinode = [n \in registered |-> None]
    /\ ip = [n \in Nodes |-> FirstIP]
    /\ class = Empty /\ wanted = {}
    /\ snapClass = FALSE /\ secret \in {None, Incomplete} /\ buckets = {}
    /\ hatoba \in HatobaModes /\ lan \in Lans
    /\ faults = 0 /\ changes = 0

(* The end of Init or Update, with or without an error, which is logged.    *)
Finish == pc' = "idle" /\ conf' = [Fresh EXCEPT !.cidr = conf.cidr]

Fault(kind) == kind \in Faults /\ faults < MaxFaults /\ faults' = faults + 1

(* A call is answered and the update goes on, or its effect stands and the  *)
(* answer is lost, which ends the update.                                   *)
Goes(next, c) ==
    \/ pc' = next /\ conf' = c /\ UNCHANGED faults
    \/ Fault("lost") /\ Finish

-----------------------------------------------------------------------------
(* Init: installStorageClasses, installSnapshotClasses.                     *)

ListTemplates ==
    /\ pc = "start" /\ pc' = "install"
    /\ conf' = [conf EXCEPT !.left = Templates \ {KindOf[c] : c \in DOMAIN class}]
    /\ UNCHANGED <<cluster, world, faults>>

InstallClass(t) ==
    /\ pc = "install" /\ t \in conf.left
    /\ IF t \in DOMAIN class
       THEN Finish /\ UNCHANGED <<class, wanted, faults>>
       ELSE /\ class' = Put(class, t, NoParams) /\ wanted' = wanted \cup {t}
            /\ Goes("install", [conf EXCEPT !.left = @ \ {t}])
    /\ UNCHANGED <<csinode, snapClass, secret, buckets, world>>

InstallSnapshotClass ==
    /\ pc = "install" /\ conf.left = {}
    /\ IF CfgSnapRepo /\ ~snapClass
       THEN snapClass' = TRUE /\ Goes("nodes", conf)
       ELSE pc' = "nodes" /\ UNCHANGED <<conf, snapClass, faults>>
    /\ UNCHANGED <<csinode, class, secret, buckets, wanted, world>>

-----------------------------------------------------------------------------
(* Update: what must be written?                                            *)

Update == /\ pc = "idle" /\ pc' = "nodes"
          /\ UNCHANGED <<conf, cluster, world, faults>>

(* The annotation of n is missing, or differs from the status of the node.  *)
Outdated(n) ==
    \/ csinode[n] = None
    \/ n \in Reporting /\ csinode[n] # ip[n]

GetNodeConfigs ==
    /\ pc = "nodes" /\ pc' = "classes"
    /\ conf' = [conf EXCEPT
          !.nodes = [n \in DOMAIN csinode |->
                        IF ~Outdated(n) THEN csinode[n]
                        ELSE IF n \in Reporting THEN ip[n] ELSE None],
          !.todo = IF \E n \in DOMAIN csinode : Outdated(n) THEN {"nodes"} ELSE {}]
    /\ UNCHANGED <<cluster, world, faults>>

(* All classes have the same zone and the same network, and there are some. *)
Agree(classes) ==
    /\ DOMAIN classes # {}
    /\ \A c, d \in DOMAIN classes :
          /\ classes[c].zone # None /\ classes[c].zone = classes[d].zone
          /\ classes[c].networkId # None /\ classes[c].networkId = classes[d].networkId

(* Mutant of GetStorageClasses: classes that do not match are not noticed.  *)
GetStorageClassesUnset ==
    /\ pc = "classes" /\ pc' = "snapshots"
    /\ conf' = [conf EXCEPT !.todo =
          IF \E c \in DOMAIN class : None \in {class[c].zone, class[c].networkId}
          THEN @ \cup {"classes"} ELSE @]
    /\ UNCHANGED <<cluster, world, faults>>

(* The zone and the network read here are never written: if the classes do  *)
(* not agree, configure replaces both.                                      *)
GetStorageClasses ==
    /\ pc = "classes" /\ pc' = "snapshots"
    /\ conf' = [conf EXCEPT !.todo = IF Agree(class) THEN @ ELSE @ \cup {"classes"}]
    /\ UNCHANGED <<cluster, world, faults>>

(* An error in reading the secret counts as a secret that is not there.     *)
GetSnapshotClasses ==
    /\ pc = "snapshots"
    /\ \E misread \in BOOLEAN :
          LET complete == snapClass /\ secret \in Buckets /\ ~misread
              todo == IF complete \/ ~CfgSnapRepo
                      THEN conf.todo ELSE conf.todo \cup {"snapshots"}
          IN  /\ IF misread THEN CfgSnapRepo /\ Fault("read") ELSE UNCHANGED faults
              /\ IF todo = {}
                 THEN Finish
                 ELSE pc' = "cloud" /\ conf' = [conf EXCEPT !.todo = todo]
    /\ UNCHANGED <<cluster, world>>

-----------------------------------------------------------------------------
(* configure: what the cloud says of the nodes.                             *)

NodesKnown(zone, network) ==
    LET writes == conf.todo \cap {"classes", "snapshots"} # {}
        c == [conf EXCEPT !.nodes = [n \in DOMAIN conf.nodes |-> ip[n]],
                          !.zone = IF writes THEN zone ELSE None,
                          !.networkID = IF writes THEN network ELSE None]
    IN  IF "classes" \in conf.todo /\ CidrBlkRcmd /\ network # CommonPrivate
        THEN pc' = "lan" /\ conf' = c
        ELSE /\ pc' = "setnodes"
             /\ conf' = [c EXCEPT !.left = DOMAIN conf.nodes,
                            !.cidr = IF network = CommonPrivate THEN None ELSE @]

(* Computing: every node must be an instance, and there must be one.        *)
ListInstances ==
    /\ pc = "cloud" /\ ~hatoba
    /\ IF DOMAIN conf.nodes = {} THEN Finish ELSE NodesKnown(OwnZone, OwnNetwork)
    /\ UNCHANGED <<cluster, world, faults>>

(* Hatoba: the first cluster that has as many of the nodes as there are     *)
(* nodes.  When no node is registered yet that is the first cluster of the  *)
(* account, and no zone is found.                                           *)
ListClusters ==
    /\ pc = "cloud" /\ hatoba
    /\ IF DOMAIN conf.nodes = {}
       THEN NodesKnown(None, FirstNetwork)
       ELSE NodesKnown(OwnZone, OwnNetwork)
    /\ UNCHANGED <<cluster, world, faults>>

-----------------------------------------------------------------------------
(* configure: the CIDR block recommendation.                                *)

GetPrivateLan ==
    /\ pc = "lan"
    /\ IF Divisible(lan.bits)
       THEN pc' = "rdbs" /\ conf' = [conf EXCEPT !.divs = newCidrDivs(lan.bits)]
       ELSE Finish
    /\ UNCHANGED <<cluster, world, faults>>

ListRdbInstances ==
    /\ pc = "rdbs" /\ pc' = "droprdbs"
    /\ conf' = [conf EXCEPT !.left = lan.rdbs]
    /\ UNCHANGED <<cluster, world, faults>>

(* dropWithIP for the RDB instances and for the static DHCP addresses.      *)
DropAddress(a) ==
    /\ pc \in {"droprdbs", "dropstatics"} /\ a \in conf.left
    /\ conf' = [conf EXCEPT !.left = @ \ {a}, !.divs = dropWithIP(@, a)]
    /\ UNCHANGED <<pc, cluster, world, faults>>

GetDhcpStatus ==
    /\ pc = "droprdbs" /\ conf.left = {} /\ pc' = "droppools"
    /\ conf' = [conf EXCEPT !.left = lan.pools]
    /\ UNCHANGED <<cluster, world, faults>>

DropPool(pool) ==
    /\ pc = "droppools" /\ pool \in conf.left
    /\ conf' = [conf EXCEPT !.left = @ \ {pool},
                            !.divs = dropWithIPRange(@, pool.from, pool.to)]
    /\ UNCHANGED <<pc, cluster, world, faults>>

PoolsDropped ==
    /\ pc = "droppools" /\ conf.left = {} /\ pc' = "dropstatics"
    /\ conf' = [conf EXCEPT !.left = lan.statics]
    /\ UNCHANGED <<cluster, world, faults>>

DetermineCidr ==
    /\ pc = "dropstatics" /\ conf.left = {} /\ pc' = "setnodes"
    /\ conf' = [conf EXCEPT
          !.left = DOMAIN conf.nodes,
          !.divs = << >>,
          !.cidr = IF conf.divs = << >>
                   THEN None
                   ELSE [networkId |-> conf.networkID, block |-> Middle(conf.divs)]]
    /\ UNCHANGED <<cluster, world, faults>>

-----------------------------------------------------------------------------
(* configure: setNodeConfigs, setStorageClasses.                            *)

SetNodeConfig(n) ==
    /\ pc = "setnodes" /\ n \in conf.left
    /\ IF n \notin DOMAIN csinode
       THEN Finish /\ UNCHANGED <<csinode, faults>>
       ELSE /\ csinode' = Put(csinode, n, conf.nodes[n])
            /\ Goes("setnodes", [conf EXCEPT !.left = @ \ {n}])
    /\ UNCHANGED <<class, snapClass, secret, buckets, wanted, world>>

(* After the nodes, or the classes, what is left of todo.                   *)
ThenSnapshots ==
    IF "snapshots" \in conf.todo
    THEN pc' = "secret" /\ UNCHANGED conf
    ELSE Finish

NodesSet ==
    /\ pc = "setnodes" /\ conf.left = {}
    /\ IF "classes" \in conf.todo
       THEN pc' = "list" /\ UNCHANGED conf
       ELSE ThenSnapshots
    /\ UNCHANGED <<cluster, world, faults>>

(* The parameters setStorageClasses gives to a class that it read as old.   *)
NewParams(old) ==
    [zone      |-> conf.zone,
     networkId |-> conf.networkID,
     cidr      |-> IF old.cidr = None THEN conf.cidr ELSE old.cidr]

ListClasses ==
    /\ pc = "list" /\ pc' = "delete"
    /\ LET others == {c \in DOMAIN class : \/ class[c].zone # conf.zone
                                           \/ class[c].networkId # conf.networkID}
       IN  conf' = [conf EXCEPT !.listed = [c \in others |-> NewParams(class[c])]]
    /\ UNCHANGED <<cluster, world, faults>>

(* Mutant of DeleteClass: all the classes to write are deleted at once.     *)
DeleteClassCollection(c) ==
    /\ pc = "delete" /\ c \in DOMAIN conf.listed
    /\ IF c \notin DOMAIN class
       THEN Finish /\ UNCHANGED <<class, faults>>
       ELSE /\ class' = [d \in DOMAIN class \ DOMAIN conf.listed |-> class[d]]
            /\ Goes("create", [conf EXCEPT !.left = {c}])
    /\ UNCHANGED <<csinode, snapClass, secret, buckets, wanted, world>>

(* A class is updated by deleting it and creating it again.                 *)
DeleteClass(c) ==
    /\ pc = "delete" /\ c \in DOMAIN conf.listed
    /\ IF c \notin DOMAIN class
       THEN Finish /\ UNCHANGED <<class, faults>>
       ELSE class' = Drop(class, c) /\ Goes("create", [conf EXCEPT !.left = {c}])
    /\ UNCHANGED <<csinode, snapClass, secret, buckets, wanted, world>>

CreateClass(c) ==
    /\ pc = "create" /\ c \in conf.left
    /\ IF c \in DOMAIN class
       THEN Finish /\ UNCHANGED <<class, faults>>
       ELSE /\ class' = Put(class, c, conf.listed[c])
            /\ Goes("delete", [conf EXCEPT !.left = {}, !.listed = Drop(@, c)])
    /\ UNCHANGED <<csinode, snapClass, secret, buckets, wanted, world>>

ClassesSet ==
    /\ pc = "delete" /\ DOMAIN conf.listed = {}
    /\ ThenSnapshots
    /\ UNCHANGED <<cluster, world, faults>>

-----------------------------------------------------------------------------
(* configure: setSnapshotClasses.                                           *)

(* Mutant of CheckSecret: the secret of the class is not looked at again.   *)
CheckSecretNot ==
    /\ pc = "secret"
    /\ IF snapClass THEN pc' = "replace" /\ UNCHANGED conf ELSE Finish
    /\ UNCHANGED <<cluster, world, faults>>

(* The secret is read again; the class is skipped only if the read shows a  *)
(* complete secret, and an error goes on as if there were none.             *)
CheckSecret ==
    /\ pc = "secret"
    /\ \E misread \in BOOLEAN :
          /\ IF misread THEN Fault("read") ELSE UNCHANGED faults
          /\ IF snapClass /\ (secret \notin Buckets \/ misread)
             THEN pc' = "replace" /\ UNCHANGED conf
             ELSE Finish
    /\ UNCHANGED <<cluster, world>>

(* Mutant of DeleteSecret: the new secret is not created.                   *)
DeleteSecretOnly ==
    /\ pc = "replace" /\ secret # None /\ secret' = None
    /\ Goes("bucket", conf)
    /\ UNCHANGED <<csinode, class, snapClass, buckets, wanted, world>>

DeleteSecret ==
    /\ pc = "replace" /\ secret # None /\ secret' = None
    /\ Goes("replace", conf)
    /\ UNCHANGED <<csinode, class, snapClass, buckets, wanted, world>>

CreateSecret(b) ==
    /\ pc = "replace" /\ secret = None
    /\ b \in Buckets \ buckets /\ secret' = b
    /\ Goes("bucket", conf)
    /\ UNCHANGED <<csinode, class, snapClass, buckets, wanted, world>>

CreateBucket ==
    /\ pc = "bucket" /\ buckets' = buckets \cup {secret} /\ Finish
    /\ UNCHANGED <<csinode, class, snapClass, secret, wanted, world, faults>>

-----------------------------------------------------------------------------
(* Faults of the driver, and what users and nodes do.                       *)

(* The call under way fails without effect and ends the update.             *)
CallFails ==
    /\ pc \notin {"idle", "droppools", "dropstatics"} /\ Fault("call") /\ Finish
    /\ UNCHANGED <<cluster, world>>

Restart ==
    /\ Fault("restart") /\ pc' = "start" /\ conf' = Fresh
    /\ UNCHANGED <<cluster, world>>

Changes == /\ changes < MaxChanges /\ changes' = changes + 1
           /\ UNCHANGED <<pc, conf, snapClass, secret, buckets, hatoba, lan, faults>>

NodeJoins(n) ==
    /\ n \notin DOMAIN csinode /\ csinode' = Put(csinode, n, None)
    /\ Changes /\ UNCHANGED <<ip, class, wanted>>

NodeLeaves(n) ==
    /\ n \in DOMAIN csinode /\ csinode' = Drop(csinode, n)
    /\ Changes /\ UNCHANGED <<ip, class, wanted>>

IPChanges(n, i) ==
    /\ ip[n] # i /\ ip' = [ip EXCEPT ![n] = i]
    /\ Changes /\ UNCHANGED <<csinode, class, wanted>>

(* registerNodePrivateIP: the node's own process annotates its CSINode when *)
(* it starts.  Get and Update are one step: an Update of an object that     *)
(* changed since is refused and tried again.                                *)
RegisterNodePrivateIP(n) ==
    /\ PrivateIPReg /\ n \in DOMAIN csinode /\ csinode' = Put(csinode, n, ip[n])
    /\ Changes /\ UNCHANGED <<ip, class, wanted>>

UserCreates(c, params) ==
    /\ c \notin DOMAIN class /\ class' = Put(class, c, params)
    /\ wanted' = wanted \cup {c}
    /\ Changes /\ UNCHANGED <<csinode, ip>>

UserDeletes(c) ==
    /\ c \in DOMAIN class /\ class' = Drop(class, c)
    /\ wanted' = wanted \ {c}
    /\ Changes /\ UNCHANGED <<csinode, ip>>

-----------------------------------------------------------------------------

Starts == \/ ListTemplates
          \/ \E t \in Templates : InstallClass(t)
          \/ InstallSnapshotClass
Reads == \/ Update \/ GetNodeConfigs \/ GetStorageClasses \/ GetSnapshotClasses
         \/ ListInstances \/ ListClusters
Recommends == \/ GetPrivateLan \/ ListRdbInstances
              \/ \E a \in lan.rdbs \cup lan.statics : DropAddress(a)
              \/ GetDhcpStatus
              \/ \E pool \in lan.pools : DropPool(pool)
              \/ PoolsDropped \/ DetermineCidr
Writes == \/ \E n \in Nodes : SetNodeConfig(n)
          \/ NodesSet \/ ListClasses
          \/ \E c \in Classes : DeleteClass(c) \/ CreateClass(c)
          \/ ClassesSet
          \/ CheckSecret \/ DeleteSecret
          \/ \E b \in Buckets : CreateSecret(b)
          \/ CreateBucket

Step == Starts \/ Reads \/ Recommends \/ Writes

Environment ==
    \/ \E n \in Nodes : NodeJoins(n) \/ NodeLeaves(n) \/ RegisterNodePrivateIP(n)
    \/ \E n \in Nodes, i \in IPs : IPChanges(n, i)
    \/ \E c \in Classes, params \in UserParams : UserCreates(c, params)
    \/ \E c \in Classes : UserDeletes(c)

Next == Step \/ CallFails \/ Restart \/ Environment

Spec == Init /\ [][Next]_vars

(* The goroutine of runUpdate goes on.                                      *)
FairSpec == Spec /\ WF_vars(Step)

-----------------------------------------------------------------------------

Cidrs == [networkId : Networks, block : Block]
UserCidrs == {p.cidr : p \in UserParams}
Params == [zone      : {None, OwnZone} \cup {p.zone : p \in UserParams},
           networkId : {None} \cup Networks \cup {p.networkId : p \in UserParams},
           cidr      : {None} \cup Cidrs \cup UserCidrs]

IsPartial(f, S, T) ==
    DOMAIN f \subseteq S /\ f \in [DOMAIN f -> T]

(* Types of the configurator's fields and of the objects it keeps.          *)
ConfOK ==
    /\ DOMAIN conf = DOMAIN Fresh
    /\ conf.todo \subseteq {"nodes", "classes", "snapshots"}
    /\ IsPartial(conf.nodes, Nodes, IPs \cup {None})
    /\ conf.zone \in {None, OwnZone} /\ conf.networkID \in {None} \cup Networks
    /\ conf.cidr \in {None} \cup Cidrs
    /\ conf.divs \in Seq(Block)
    /\ IsPartial(conf.listed, Classes, Params)

TypeOK ==
    /\ pc \in {"start", "install", "idle", "nodes", "classes", "snapshots",
              "cloud", "lan", "rdbs", "droprdbs", "droppools", "dropstatics",
              "setnodes", "list", "delete", "create", "secret", "replace", "bucket"}
    /\ ConfOK
    /\ IsPartial(csinode, Nodes, IPs \cup {None})
    /\ IsPartial(class, Classes, Params)
    /\ ip \in [Nodes -> IPs]
    /\ snapClass \in BOOLEAN
    /\ secret \in {None, Incomplete} \cup Buckets /\ buckets \subseteq Buckets
    /\ hatoba \in BOOLEAN /\ lan \in Lans
    /\ wanted \subseteq Classes
    /\ faults \in 0..MaxFaults /\ changes \in 0..MaxChanges

(* A block that nothing of the LAN uses: no RDB instance and no static DHCP *)
(* address is in it, and no DHCP pool meets it.                             *)
Free(div) ==
    /\ \A a \in lan.rdbs \cup lan.statics : ~Contains(div, a)
    /\ \A pool \in lan.pools : pool.to < div.first \/ div.last < pool.from

(* A block that the configurator, not a user, has chosen is one of the      *)
(* divisions of the LAN, and free.                                          *)
WellChosen(cidr) ==
    cidr \notin {None} \cup UserCidrs =>
        LET divs == divideNet(lan.bits, MaskOffset(lan.bits))
        IN  Free(cidr.block) /\ \E i \in 1..Len(divs) : cidr.block = divs[i]

(* "recommended CIDR block for NASInstances": a block the configurator has  *)
(* recommended, or written to a class, is one of the divisions of the LAN   *)
(* and free, whatever order the addresses and pools were dropped in.        *)
RecommendedIsFree ==
    \A cidr \in {conf.cidr} \cup {class[c].cidr : c \in DOMAIN class} : WellChosen(cidr)

(* A class with a recommended block is a class of the network the block     *)
(* belongs to: otherwise its volumes get addresses of another LAN.          *)
CidrOfOwnNetwork ==
    \A c \in DOMAIN class :
        class[c].cidr \in {None} \cup UserCidrs
        \/ class[c].cidr.networkId = class[c].networkId

(* A storage class is lost (deleted by the configurator and not by a user)  *)
(* only by a failing call, a lost answer or a restart between Delete and    *)
(* Create, and each of these costs at most one class.                       *)
LostClassesPaid ==
    Cardinality(wanted \ DOMAIN class)
        <= faults + (IF pc = "create" THEN 1 ELSE 0)

(* The secret that names the repository of the snapshots is not removed, or *)
(* replaced by one for a new bucket, because one call failed.               *)
RepositoryKept ==
    [][(secret \in Buckets /\ secret' # secret) => faults' >= 2]_vars

(* The secret names a bucket that exists.  It does not hold: when creating  *)
(* the bucket fails, no later update tries again.                           *)
RepositoryHasBucket == secret \in Buckets => secret \in buckets \/ pc = "bucket"

(* "Auto configure node private IPs, zone, networkID": when there are nodes *)
(* and a LAN that can be divided, the classes come to agree, and each node  *)
(* to have the IP of its status, or some IP if the status shows none.       *)
Configured ==
    /\ DOMAIN class = {} \/ Agree(class)
    /\ \A n \in DOMAIN csinode : ~Outdated(n)

EventuallyConfigured ==
    (Divisible(lan.bits) /\ <>[](DOMAIN csinode # {})) => <>[]Configured

=============================================================================
