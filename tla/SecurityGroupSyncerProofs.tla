--------------------- MODULE SecurityGroupSyncerProofs ---------------------
(***************************************************************************)
(* Proofs about the security group syncer, for any number of nodes,        *)
(* instances and disturbances.  FetchInv says how the group that a run has *)
(* fetched relates to the group in the cloud when it is used; DoneInv what *)
(* becomes of an address that no longer is a node's.                       *)
(***************************************************************************)
EXTENDS SecurityGroupSyncer, TLAPS

USE SyncerAssumption DEF locals, syncer, world, cloud, vars

(* Where a run has listed and remembered the nodes; has fetched the group.  *)
RememberedPCs == {"get", "create", "restore", "repair", "edit"}
FetchedPCs    == {"restore", "repair", "edit"}

(* What becomes of a CIDR of status s while nobody but the cloud acts on it. *)
BecomesInTime(s) == CASE s = "authorizing" -> {"authorizing", "authorized"}
                      [] s = "revoking"    -> {"revoking", "none"}
                      [] OTHER             -> {s}

NoGroupNoRanges == ~exists => ranges = NoRanges

GroupAsFetched ==
    pc \in FetchedPCs =>
        exists /\ \A ip \in Addresses : ranges[ip] \in BecomesInTime(nsg[ip])

FetchInv == TypeOK /\ NoGroupNoRanges /\ GroupAsFetched /\ OneEditAtATime

(* Every address in play is or was a node's, and not both.                  *)
AddressesOfNodes ==
    /\ nodes \cap gone = {}
    /\ Present(ranges) \cup nodePrivateIps \subseteq nodes \cup gone
    /\ pc \in FetchedPCs => Present(nsg) \subseteq nodes \cup gone

(* A node that has been authorized before a run is seen by this run.        *)
GrantedNodesSeen ==
    /\ pc # "idle" => nodes \cap Present(ranges) \subseteq nodePrivateIps
    /\ pc \in FetchedPCs => nodes \cap Present(nsg) \subseteq nodePrivateIps

(* An address that is being revoked is no longer seen nor remembered.       *)
RevokedForgotten ==
    /\ \A ip \in Addresses : ranges[ip] = "revoking" =>
          /\ ip \in gone
          /\ pc # "idle" => ip \notin nodePrivateIps
          /\ last # None => ip \notin last.ips
    /\ pc \in FetchedPCs => \A ip \in Addresses :
          nsg[ip] = "revoking" => ip \notin nodePrivateIps

NodesRemembered ==
    pc \in RememberedPCs => last # None /\ last.ips = nodePrivateIps

(* How far a restoration has come.                                          *)
RepairInv ==
    /\ pc = "repair" => Instances \ volumeIDs \subseteq restored
    /\ restored \subseteq Instances
    /\ volumeIDs \subseteq Instances

(* If no call fails, it comes to its end.                                   *)
RestoreInv ==
    /\ RestoredBeforeEdits
    /\ RepairInv
    /\ pc \in {"repair", "edit"} => ~restoreClusterID

(* What makes DoneMeansGranted inductive.                                   *)
DoneInv ==
    /\ AddressesOfNodes /\ GrantedNodesSeen /\ RevokedForgotten
    /\ NodesRemembered /\ DoneMeansGranted

-----------------------------------------------------------------------------
(* Every step keeps every part.                                             *)

(* The types of the state are kept.                                         *)
LEMMA TypeStep ==
  ASSUME TypeOK, [Next]_vars
  PROVE  TypeOK'
<1> USE DEF TypeOK, Status, Memory
<1>1. ASSUME NEW i \in BOOLEAN, NEW k \in BOOLEAN, Begin(i, k)
      PROVE  TypeOK'
  BY <1>1 DEF Begin
<1>2. CASE InternalCheck
  <2>1. zone # None => [ips |-> nodePrivateIps, zone |-> zone] \in Memory
    OBVIOUS
  <2>2. last' \in Memory
    BY <1>2, <2>1 DEF InternalCheck
  <2>3. pc' \in {"idle", "get"}
    BY <1>2 DEF InternalCheck, Return, Goto
  <2>4. hasTask' \in BOOLEAN
    BY <1>2 DEF InternalCheck
  <2> QED  BY <1>2, <2>2, <2>3, <2>4 DEF InternalCheck, Return, Goto
<1>3. CASE GetNasSecurityGroup
  BY <1>3 DEF GetNasSecurityGroup, Goto, AfterGet, NoRanges
<1>4. CASE CreateNasSecurityGroup
  <2>1. nsg' \in [Addresses -> Status]
    BY <1>4 DEF CreateNasSecurityGroup, Return, NoRanges
  <2>2. pc' \in {"idle", "restore", "edit"}
    BY <1>4 DEF CreateNasSecurityGroup, Return, AfterGet
  <2>3. exists' \in BOOLEAN
    BY <1>4 DEF CreateNasSecurityGroup
  <2>4. UNCHANGED <<doCloudChk, nodePrivateIps, volumeIDs>>
    BY <1>4 DEF CreateNasSecurityGroup, Return
  <2>5. UNCHANGED <<syncer, world, ranges, restored>>
    BY <1>4 DEF CreateNasSecurityGroup
  <2> QED  BY <2>1, <2>2, <2>3, <2>4, <2>5
<1>5. CASE BeginRestore
  BY <1>5 DEF BeginRestore, Return
<1>6. CASE RepairInstance
  BY <1>6 DEF RepairInstance, Goto, Return
<1>7. CASE Edit
  BY <1>7 DEF Edit, Return, Order
<1>8. CASE ApiError
  BY <1>8 DEF ApiError, Return
<1>9. CASE Restart
  <2>1. restoreClusterID' \in BOOLEAN
    BY <1>9 DEF Restart
  <2>2. nsg' \in [Addresses -> Status] /\ changes' \in 0..MaxChanges
    BY <1>9 DEF Restart, Change, NoRanges
  <2>3. UNCHANGED <<nodes, gone, zone, cloud>>
    BY <1>9 DEF Restart
  <2>4. /\ pc' = "idle" /\ nodePrivateIps' = {} /\ volumeIDs' = {}
        /\ doCloudChk' = FALSE /\ hasTask' = TRUE /\ last' = None
    BY <1>9 DEF Restart
  <2> QED  BY <2>1, <2>2, <2>3, <2>4
<1>10. ASSUME NEW ip \in Addresses, NodeJoins(ip)
      PROVE  TypeOK'
  BY <1>10 DEF NodeJoins, Change
<1>11. ASSUME NEW ip \in Addresses, NodeLeaves(ip)
      PROVE  TypeOK'
  BY <1>11 DEF NodeLeaves, Change
<1>12. ASSUME NEW ip \in Addresses, CloudSettles(ip)
      PROVE  TypeOK'
  BY <1>12 DEF CloudSettles
<1>13. ASSUME NEW ip \in Addresses, OperatorEdit(ip)
      PROVE  TypeOK'
  BY <1>13 DEF OperatorEdit, Change
<1>14. CASE ZoneChanges
  BY <1>14 DEF ZoneChanges, Change
<1>15. CASE UNCHANGED vars
  BY <1>15
<1> QED  BY <1>1, <1>2, <1>3, <1>4, <1>5, <1>6, <1>7, <1>8, <1>9, <1>10, <1>11, <1>12, <1>13, <1>14, <1>15 DEF Next, Sync


(* While a run holds a fetched group, the cloud only finishes what it had   *)
(* begun by then, and so a change is ordered when nothing is under way.     *)
LEMMA GroupStep ==
  ASSUME TypeOK, [Next]_vars, ~OperatorEdits,
         NoGroupNoRanges, GroupAsFetched, OneEditAtATime
  PROVE  (NoGroupNoRanges /\ GroupAsFetched /\ OneEditAtATime)'
<1> USE DEF TypeOK, Status, NoGroupNoRanges, GroupAsFetched, OneEditAtATime,
           FetchedPCs, BecomesInTime, NoRanges
<1>1. ASSUME NEW i \in BOOLEAN, NEW k \in BOOLEAN, Begin(i, k)
      PROVE  (NoGroupNoRanges /\ GroupAsFetched /\ OneEditAtATime)'
  BY <1>1 DEF Begin
<1>2. CASE InternalCheck
  BY <1>2 DEF InternalCheck, Return, Goto
<1>3. CASE GetNasSecurityGroup
  BY <1>3 DEF GetNasSecurityGroup, Goto, AfterGet, NoRanges
<1>4. CASE CreateNasSecurityGroup
  BY <1>4 DEF CreateNasSecurityGroup, Return, AfterGet, NoRanges
<1>5. CASE BeginRestore
  BY <1>5 DEF BeginRestore, Return
<1>6. CASE RepairInstance
  BY <1>6 DEF RepairInstance, Goto, Return
<1>7. CASE Edit
  BY <1>7 DEF Edit, Return, Order, Editable, Present
<1>8. CASE ApiError
  BY <1>8 DEF ApiError, Return
<1>9. CASE Restart
  BY <1>9 DEF Restart, Change, NoRanges
<1>10. ASSUME NEW ip \in Addresses, NodeJoins(ip)
      PROVE  (NoGroupNoRanges /\ GroupAsFetched /\ OneEditAtATime)'
  BY <1>10 DEF NodeJoins, Change
<1>11. ASSUME NEW ip \in Addresses, NodeLeaves(ip)
      PROVE  (NoGroupNoRanges /\ GroupAsFetched /\ OneEditAtATime)'
  BY <1>11 DEF NodeLeaves, Change
<1>12. ASSUME NEW ip \in Addresses, CloudSettles(ip)
      PROVE  (NoGroupNoRanges /\ GroupAsFetched /\ OneEditAtATime)'
  BY <1>12 DEF CloudSettles
<1>13. ASSUME NEW ip \in Addresses, OperatorEdit(ip)
      PROVE  (NoGroupNoRanges /\ GroupAsFetched /\ OneEditAtATime)'
  BY <1>13 DEF OperatorEdit, Change
<1>14. CASE ZoneChanges
  BY <1>14 DEF ZoneChanges, Change
<1>15. CASE UNCHANGED vars
  BY <1>15
<1> QED  BY <1>1, <1>2, <1>3, <1>4, <1>5, <1>6, <1>7, <1>8, <1>9, <1>10, <1>11, <1>12, <1>13, <1>14, <1>15 DEF Next, Sync


(* Addresses come from the nodes, and those given up do not come back.      *)
LEMMA AddressesStep ==
  ASSUME TypeOK, [Next]_vars, ~OperatorEdits, FetchInv,
         ~IPsReturn, AddressesOfNodes
  PROVE  AddressesOfNodes'
<1> USE DEF TypeOK, Status, AddressesOfNodes, Present, FetchedPCs
<1>1. ASSUME NEW i \in BOOLEAN, NEW k \in BOOLEAN, Begin(i, k)
      PROVE  AddressesOfNodes'
  BY <1>1 DEF Begin
<1>2. CASE InternalCheck
  BY <1>2 DEF InternalCheck, Return, Goto
<1>3. CASE GetNasSecurityGroup
  BY <1>3 DEF GetNasSecurityGroup, Goto, AfterGet, NoRanges
<1>4. CASE CreateNasSecurityGroup
  BY <1>4 DEF CreateNasSecurityGroup, Return, AfterGet, NoRanges
<1>5. CASE BeginRestore
  BY <1>5 DEF BeginRestore, Return
<1>6. CASE RepairInstance
  BY <1>6 DEF RepairInstance, Goto, Return
<1>7. CASE Edit
  BY <1>7 DEF Edit, Return, Order
<1>8. CASE ApiError
  BY <1>8 DEF ApiError, Return
<1>9. CASE Restart
  BY <1>9 DEF Restart, Change, NoRanges
<1>10. ASSUME NEW ip \in Addresses, NodeJoins(ip)
      PROVE  AddressesOfNodes'
  BY <1>10 DEF NodeJoins, Change
<1>11. ASSUME NEW ip \in Addresses, NodeLeaves(ip)
      PROVE  AddressesOfNodes'
  BY <1>11 DEF NodeLeaves, Change
<1>12. ASSUME NEW ip \in Addresses, CloudSettles(ip)
      PROVE  AddressesOfNodes'
  BY <1>12 DEF CloudSettles
<1>13. ASSUME NEW ip \in Addresses, OperatorEdit(ip)
      PROVE  AddressesOfNodes'
  BY <1>13 DEF OperatorEdit, Change
<1>14. CASE ZoneChanges
  BY <1>14 DEF ZoneChanges, Change
<1>15. CASE UNCHANGED vars
  BY <1>15
<1> QED  BY <1>1, <1>2, <1>3, <1>4, <1>5, <1>6, <1>7, <1>8, <1>9, <1>10, <1>11, <1>12, <1>13, <1>14, <1>15 DEF Next, Sync


(* A node can only be missed by a run that began before it joined, and then *)
(* it has never been authorized.                                            *)
LEMMA SeenStep ==
  ASSUME TypeOK, [Next]_vars, ~OperatorEdits, FetchInv,
         ~IPsReturn, AddressesOfNodes, GrantedNodesSeen
  PROVE  GrantedNodesSeen'
<1> USE DEF TypeOK, Status, AddressesOfNodes, GrantedNodesSeen, Present,
           FetchedPCs
<1>1. ASSUME NEW i \in BOOLEAN, NEW k \in BOOLEAN, Begin(i, k)
      PROVE  GrantedNodesSeen'
  BY <1>1 DEF Begin
<1>2. CASE InternalCheck
  BY <1>2 DEF InternalCheck, Return, Goto
<1>3. CASE GetNasSecurityGroup
  BY <1>3 DEF GetNasSecurityGroup, Goto, AfterGet, NoRanges
<1>4. CASE CreateNasSecurityGroup
  BY <1>4 DEF CreateNasSecurityGroup, Return, AfterGet, NoRanges
<1>5. CASE BeginRestore
  BY <1>5 DEF BeginRestore, Return
<1>6. CASE RepairInstance
  BY <1>6 DEF RepairInstance, Goto, Return
<1>7. CASE Edit
  BY <1>7 DEF Edit, Return, Order
<1>8. CASE ApiError
  BY <1>8 DEF ApiError, Return
<1>9. CASE Restart
  BY <1>9 DEF Restart, Change, NoRanges
<1>10. ASSUME NEW ip \in Addresses, NodeJoins(ip)
      PROVE  GrantedNodesSeen'
  BY <1>10 DEF NodeJoins, Change
<1>11. ASSUME NEW ip \in Addresses, NodeLeaves(ip)
      PROVE  GrantedNodesSeen'
  BY <1>11 DEF NodeLeaves, Change
<1>12. ASSUME NEW ip \in Addresses, CloudSettles(ip)
      PROVE  GrantedNodesSeen'
  BY <1>12 DEF CloudSettles
<1>13. ASSUME NEW ip \in Addresses, OperatorEdit(ip)
      PROVE  GrantedNodesSeen'
  BY <1>13 DEF OperatorEdit, Change
<1>14. CASE ZoneChanges
  BY <1>14 DEF ZoneChanges, Change
<1>15. CASE UNCHANGED vars
  BY <1>15
<1> QED  BY <1>1, <1>2, <1>3, <1>4, <1>5, <1>6, <1>7, <1>8, <1>9, <1>10, <1>11, <1>12, <1>13, <1>14, <1>15 DEF Next, Sync


(* Only addresses that no node has are revoked.                             *)
LEMMA RevokedStep ==
  ASSUME TypeOK, [Next]_vars, ~OperatorEdits, FetchInv,
         ~IPsReturn, AddressesOfNodes, GrantedNodesSeen, RevokedForgotten,
         NodesRemembered
  PROVE  RevokedForgotten'
<1> USE DEF TypeOK, Status, AddressesOfNodes, GrantedNodesSeen,
           RevokedForgotten, NodesRemembered, Present, FetchedPCs,
           RememberedPCs
<1>1. ASSUME NEW i \in BOOLEAN, NEW k \in BOOLEAN, Begin(i, k)
      PROVE  RevokedForgotten'
  BY <1>1 DEF Begin
<1>2. CASE InternalCheck
  BY <1>2 DEF InternalCheck, Return, Goto
<1>3. CASE GetNasSecurityGroup
  BY <1>3 DEF GetNasSecurityGroup, Goto, AfterGet, NoRanges
<1>4. CASE CreateNasSecurityGroup
  BY <1>4 DEF CreateNasSecurityGroup, Return, AfterGet, NoRanges
<1>5. CASE BeginRestore
  BY <1>5 DEF BeginRestore, Return
<1>6. CASE RepairInstance
  BY <1>6 DEF RepairInstance, Goto, Return
<1>7. CASE Edit
  BY <1>7 DEF Edit, Return, Order
<1>8. CASE ApiError
  BY <1>8 DEF ApiError, Return
<1>9. CASE Restart
  BY <1>9 DEF Restart, Change, NoRanges
<1>10. ASSUME NEW ip \in Addresses, NodeJoins(ip)
      PROVE  RevokedForgotten'
  BY <1>10 DEF NodeJoins, Change
<1>11. ASSUME NEW ip \in Addresses, NodeLeaves(ip)
      PROVE  RevokedForgotten'
  BY <1>11 DEF NodeLeaves, Change
<1>12. ASSUME NEW ip \in Addresses, CloudSettles(ip)
      PROVE  RevokedForgotten'
  BY <1>12 DEF CloudSettles
<1>13. ASSUME NEW ip \in Addresses, OperatorEdit(ip)
      PROVE  RevokedForgotten'
  BY <1>13 DEF OperatorEdit, Change
<1>14. CASE ZoneChanges
  BY <1>14 DEF ZoneChanges, Change
<1>15. CASE UNCHANGED vars
  BY <1>15
<1> QED  BY <1>1, <1>2, <1>3, <1>4, <1>5, <1>6, <1>7, <1>8, <1>9, <1>10, <1>11, <1>12, <1>13, <1>14, <1>15 DEF Next, Sync


(* The nodes a run works with are the nodes the syncer remembers.           *)
LEMMA RememberedStep ==
  ASSUME TypeOK, [Next]_vars, NodesRemembered
  PROVE  NodesRemembered'
<1> USE DEF TypeOK, NodesRemembered, RememberedPCs
<1>1. ASSUME NEW i \in BOOLEAN, NEW k \in BOOLEAN, Begin(i, k)
      PROVE  NodesRemembered'
  BY <1>1 DEF Begin
<1>2. CASE InternalCheck
  <2>1. zone # None => [ips |-> nodePrivateIps, zone |-> zone] \in Memory
    BY DEF Memory
  <2>2. \/ pc' = "idle"
        \/ zone # None /\ last' = [ips |-> nodePrivateIps, zone |-> zone]
    BY <1>2 DEF InternalCheck, Return
  <2>3. zone # None => [ips |-> nodePrivateIps, zone |-> zone] # None
    BY <2>1
  <2> QED  BY <1>2, <2>2, <2>3 DEF InternalCheck, Return, Goto
<1>3. CASE GetNasSecurityGroup
  BY <1>3 DEF GetNasSecurityGroup, Goto, AfterGet, NoRanges
<1>4. CASE CreateNasSecurityGroup
  BY <1>4 DEF CreateNasSecurityGroup, Return, AfterGet, NoRanges
<1>5. CASE BeginRestore
  BY <1>5 DEF BeginRestore, Return
<1>6. CASE RepairInstance
  BY <1>6 DEF RepairInstance, Goto, Return
<1>7. CASE Edit
  BY <1>7 DEF Edit, Return, Order
<1>8. CASE ApiError
  BY <1>8 DEF ApiError, Return
<1>9. CASE Restart
  BY <1>9 DEF Restart, Change, NoRanges
<1>10. ASSUME NEW ip \in Addresses, NodeJoins(ip)
      PROVE  NodesRemembered'
  BY <1>10 DEF NodeJoins, Change
<1>11. ASSUME NEW ip \in Addresses, NodeLeaves(ip)
      PROVE  NodesRemembered'
  BY <1>11 DEF NodeLeaves, Change
<1>12. ASSUME NEW ip \in Addresses, CloudSettles(ip)
      PROVE  NodesRemembered'
  BY <1>12 DEF CloudSettles
<1>13. ASSUME NEW ip \in Addresses, OperatorEdit(ip)
      PROVE  NodesRemembered'
  BY <1>13 DEF OperatorEdit, Change
<1>14. CASE ZoneChanges
  BY <1>14 DEF ZoneChanges, Change
<1>15. CASE UNCHANGED vars
  BY <1>15
<1> QED  BY <1>1, <1>2, <1>3, <1>4, <1>5, <1>6, <1>7, <1>8, <1>9, <1>10, <1>11, <1>12, <1>13, <1>14, <1>15 DEF Next, Sync


(* The last task is done, or there is a task.                               *)
LEMMA DoneStep ==
  ASSUME TypeOK, [Next]_vars, ~OperatorEdits, FetchInv,
         RevokedForgotten, NodesRemembered, DoneMeansGranted
  PROVE  DoneMeansGranted'
<1> USE DEF TypeOK, Status, Memory, DoneMeansGranted, Granted
<1>1. ASSUME NEW i \in BOOLEAN, NEW k \in BOOLEAN, Begin(i, k)
      PROVE  DoneMeansGranted'
  BY <1>1 DEF Begin
<1>2. CASE InternalCheck
  BY <1>2 DEF InternalCheck, Return, Goto
<1>3. CASE GetNasSecurityGroup
  BY <1>3 DEF GetNasSecurityGroup, Goto, AfterGet, NoRanges
<1>4. CASE CreateNasSecurityGroup
  BY <1>4 DEF CreateNasSecurityGroup, Return, AfterGet, NoRanges
<1>5. CASE BeginRestore
  BY <1>5 DEF BeginRestore, Return
<1>6. CASE RepairInstance
  BY <1>6 DEF RepairInstance, Goto, Return
<1>7. CASE Edit
  BY <1>7 DEF Edit, Return, Order, Present, RevokedForgotten, NodesRemembered,
                  RememberedPCs, FetchedPCs, FetchInv, GroupAsFetched,
                  BecomesInTime
<1>8. CASE ApiError
  BY <1>8 DEF ApiError, Return
<1>9. CASE Restart
  BY <1>9 DEF Restart, Change, NoRanges
<1>10. ASSUME NEW ip \in Addresses, NodeJoins(ip)
      PROVE  DoneMeansGranted'
  BY <1>10 DEF NodeJoins, Change
<1>11. ASSUME NEW ip \in Addresses, NodeLeaves(ip)
      PROVE  DoneMeansGranted'
  BY <1>11 DEF NodeLeaves, Change
<1>12. ASSUME NEW ip \in Addresses, CloudSettles(ip)
      PROVE  DoneMeansGranted'
  BY <1>12 DEF CloudSettles
<1>13. ASSUME NEW ip \in Addresses, OperatorEdit(ip)
      PROVE  DoneMeansGranted'
  BY <1>13 DEF OperatorEdit, Change
<1>14. CASE ZoneChanges
  BY <1>14 DEF ZoneChanges, Change
<1>15. CASE UNCHANGED vars
  BY <1>15
<1> QED  BY <1>1, <1>2, <1>3, <1>4, <1>5, <1>6, <1>7, <1>8, <1>9, <1>10, <1>11, <1>12, <1>13, <1>14, <1>15 DEF Next, Sync


-----------------------------------------------------------------------------

(* The syncer starts with values of the right types.                        *)
LEMMA InitTypes == Init => TypeOK
<1> SUFFICES ASSUME Init  PROVE TypeOK
  OBVIOUS
<1>1. restoreClusterID \in BOOLEAN
  BY DEF Init
<1>2. nsg \in [Addresses -> Status] /\ ranges \in [Addresses -> Status]
  BY DEF Init, Status, NoRanges
<1>3. last \in Memory
  BY DEF Init, Memory
<1>4. changes \in 0..MaxChanges
  BY DEF Init
<1>5. /\ pc = "idle" /\ doCloudChk = FALSE /\ hasTask = TRUE
      /\ exists = FALSE /\ nodePrivateIps = {} /\ volumeIDs = {} /\ gone = {}
      /\ restored \in SUBSET Instances /\ nodes \in SUBSET Addresses
      /\ zone \in Zones \cup {None}
  BY DEF Init
<1> QED  BY <1>1, <1>2, <1>3, <1>4, <1>5 DEF TypeOK

(* A change of the group is never ordered while another one is carried out  *)
(* (securitygroup_syncer.go:270), however many nodes, errors and restarts   *)
(* there are, as long as only the syncer edits the group.                   *)
THEOREM EditsAreSerialized ==
  ASSUME ~OperatorEdits
  PROVE  Spec => []OneEditAtATime
<1>1. Init => FetchInv
  BY InitTypes DEF Init, FetchInv, NoRanges, NoGroupNoRanges,
                   GroupAsFetched, FetchedPCs, OneEditAtATime
<1>2. FetchInv /\ [Next]_vars => FetchInv'
  BY TypeStep, GroupStep DEF FetchInv
<1>3. FetchInv => OneEditAtATime
  BY DEF FetchInv
<1> QED  BY <1>1, <1>2, <1>3, PTL DEF Spec

(* The types of the state are kept, whoever edits the group.                *)
THEOREM SyncerTypeCorrect == Spec => []TypeOK
<1>1. Init => TypeOK
  BY InitTypes
<1>2. TypeOK /\ [Next]_vars => TypeOK'
  BY TypeStep
<1> QED  BY <1>1, <1>2, PTL DEF Spec

(* When the syncer believes that it has nothing left to do, exactly the     *)
(* nodes it remembers have access (securitygroup_syncer.go:306): for any    *)
(* number of nodes and of errors, if no node comes back with an address     *)
(* that is given up and nobody else edits the group.                        *)
THEOREM DoneIsDone ==
  ASSUME ~OperatorEdits, ~IPsReturn
  PROVE  Spec => []DoneMeansGranted
<1>1. Init => FetchInv /\ DoneInv
  BY InitTypes
     DEF Init, FetchInv, NoRanges, NoGroupNoRanges, GroupAsFetched,
         FetchedPCs, OneEditAtATime, DoneInv, Present,
         AddressesOfNodes, GrantedNodesSeen, RevokedForgotten,
         NodesRemembered, RememberedPCs, DoneMeansGranted
<1>2. FetchInv /\ DoneInv /\ [Next]_vars => (FetchInv /\ DoneInv)'
  <2> SUFFICES ASSUME FetchInv, DoneInv, [Next]_vars
               PROVE  (FetchInv /\ DoneInv)'
    OBVIOUS
  <2>1. FetchInv'
    BY TypeStep, GroupStep DEF FetchInv
  <2>2. DoneInv'
    BY AddressesStep, SeenStep, RevokedStep, RememberedStep, DoneStep
       DEF FetchInv, DoneInv
  <2> QED  BY <2>1, <2>2
<1>3. DoneInv => DoneMeansGranted
  BY DEF DoneInv
<1> QED  BY <1>1, <1>2, <1>3, PTL DEF Spec

(* The instances that are no longer to be checked are in the right group,   *)
(* whatever call fails.                                                     *)
LEMMA RepairStep ==
  ASSUME RepairInv, [Next]_vars
  PROVE  RepairInv'
<1> USE DEF RepairInv
<1>1. ASSUME NEW i \in BOOLEAN, NEW k \in BOOLEAN, Begin(i, k)
      PROVE  RepairInv'
  BY <1>1 DEF Begin
<1>2. CASE InternalCheck
  BY <1>2 DEF InternalCheck, Return, Goto
<1>3. CASE GetNasSecurityGroup
  BY <1>3 DEF GetNasSecurityGroup, Goto, AfterGet
<1>4. CASE CreateNasSecurityGroup
  BY <1>4 DEF CreateNasSecurityGroup, Return, AfterGet
<1>5. CASE BeginRestore
  BY <1>5 DEF BeginRestore, Return
<1>6. CASE RepairInstance
  BY <1>6 DEF RepairInstance, Goto, Return
<1>7. CASE Edit
  BY <1>7 DEF Edit, Return, Order
<1>8. CASE ApiError
  BY <1>8 DEF ApiError, Return
<1>9. CASE Restart
  BY <1>9 DEF Restart, Change
<1>10. ASSUME NEW ip \in Addresses, NodeJoins(ip)
      PROVE  RepairInv'
  BY <1>10 DEF NodeJoins, Change
<1>11. ASSUME NEW ip \in Addresses, NodeLeaves(ip)
      PROVE  RepairInv'
  BY <1>11 DEF NodeLeaves, Change
<1>12. ASSUME NEW ip \in Addresses, CloudSettles(ip)
      PROVE  RepairInv'
  BY <1>12 DEF CloudSettles
<1>13. ASSUME NEW ip \in Addresses, OperatorEdit(ip)
      PROVE  RepairInv'
  BY <1>13 DEF OperatorEdit, Change
<1>14. CASE ZoneChanges
  BY <1>14 DEF ZoneChanges, Change
<1>15. CASE UNCHANGED vars
  BY <1>15
<1> QED  BY <1>1, <1>2, <1>3, <1>4, <1>5, <1>6, <1>7, <1>8, <1>9, <1>10, <1>11, <1>12, <1>13, <1>14, <1>15 DEF Next, Sync

(* A restoration that gets to the edits has moved every instance to the     *)
(* cluster's own group (securitygroup_syncer.go:205), for any number of     *)
(* instances and whatever fails or restarts.                                *)
THEOREM RestorationsComplete == Spec => RestorationCompletes
<1>1. Init => RepairInv
  BY DEF Init, RepairInv
<1>2. RepairInv /\ [Next]_vars => RepairInv'
  BY RepairStep
<1>3. RepairInv /\ [Next]_vars =>
         [pc = "repair" /\ pc' = "edit" => restored' = Instances]_vars
  <2> SUFFICES ASSUME RepairInv, Next, pc = "repair", pc' = "edit"
               PROVE  restored' = Instances
    OBVIOUS
  <2>1. RepairInstance
    BY DEF Next, Sync, Begin, InternalCheck, GetNasSecurityGroup,
           CreateNasSecurityGroup, BeginRestore, Edit, ApiError, Return, Restart,
           NodeJoins, NodeLeaves, CloudSettles, OperatorEdit, ZoneChanges, locals
  <2> QED
    BY <2>1 DEF RepairInstance, Goto, Return, RepairInv
<1> QED  BY <1>1, <1>2, <1>3, PTL DEF Spec, RestorationCompletes

(* An instance is left aside only once it is in the right group.            *)
LEMMA RestoreStep ==
  ASSUME RestoreInv, [Next]_vars, ~CloudErrors
  PROVE  RestoreInv'
<1> USE DEF RestoreInv, RepairInv, RestoredBeforeEdits
<1>1. ASSUME NEW i \in BOOLEAN, NEW k \in BOOLEAN, Begin(i, k)
      PROVE  RestoreInv'
  BY <1>1 DEF Begin
<1>2. CASE InternalCheck
  BY <1>2 DEF InternalCheck, Return, Goto
<1>3. CASE GetNasSecurityGroup
  BY <1>3 DEF GetNasSecurityGroup, Goto, AfterGet
<1>4. CASE CreateNasSecurityGroup
  BY <1>4 DEF CreateNasSecurityGroup, Return, AfterGet
<1>5. CASE BeginRestore
  BY <1>5 DEF BeginRestore, Return
<1>6. CASE RepairInstance
  BY <1>6 DEF RepairInstance, Goto, Return
<1>7. CASE Edit
  BY <1>7 DEF Edit, Return, Order
<1>8. CASE ApiError
  BY <1>8 DEF ApiError, Return
<1>9. CASE Restart
  BY <1>9 DEF Restart, Change
<1>10. ASSUME NEW ip \in Addresses, NodeJoins(ip)
      PROVE  RestoreInv'
  BY <1>10 DEF NodeJoins, Change
<1>11. ASSUME NEW ip \in Addresses, NodeLeaves(ip)
      PROVE  RestoreInv'
  BY <1>11 DEF NodeLeaves, Change
<1>12. ASSUME NEW ip \in Addresses, CloudSettles(ip)
      PROVE  RestoreInv'
  BY <1>12 DEF CloudSettles
<1>13. ASSUME NEW ip \in Addresses, OperatorEdit(ip)
      PROVE  RestoreInv'
  BY <1>13 DEF OperatorEdit, Change
<1>14. CASE ZoneChanges
  BY <1>14 DEF ZoneChanges, Change
<1>15. CASE UNCHANGED vars
  BY <1>15
<1> QED  BY <1>1, <1>2, <1>3, <1>4, <1>5, <1>6, <1>7, <1>8, <1>9, <1>10, <1>11, <1>12, <1>13, <1>14, <1>15 DEF Next, Sync

(* If no call fails, no CIDR is edited before every instance of a PV is in  *)
(* the cluster's own group (securitygroup_syncer.go:183), restarts and any  *)
(* number of instances notwithstanding.                                     *)
THEOREM RestorationComesFirst ==
  ASSUME ~CloudErrors
  PROVE  Spec => []RestoredBeforeEdits
<1>1. Init => RestoreInv
  BY DEF Init, RestoreInv, RepairInv, RestoredBeforeEdits
<1>2. RestoreInv /\ [Next]_vars => RestoreInv'
  BY RestoreStep
<1>3. RestoreInv => RestoredBeforeEdits
  BY DEF RestoreInv
<1> QED  BY <1>1, <1>2, <1>3, PTL DEF Spec

=============================================================================
