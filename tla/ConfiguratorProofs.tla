------------------------- MODULE ConfiguratorProofs -------------------------
(***************************************************************************)
(* Proofs about Configurator, for any cluster, any private LAN, any number *)
(* of faults and any changes made by nodes and users between two calls.    *)
(***************************************************************************)
EXTENDS Configurator, CidrDivsProofs, FiniteSetTheorems

USE SetsAssumption DEF world, cluster, vars

-----------------------------------------------------------------------------
(* The inductive invariant. *)

Divides == pc \in {"rdbs", "droprdbs", "droppools", "dropstatics"}

(* What the running loop has not seen yet is part of what it runs through;  *)
(* the network of a recommendation is known; one class is replaced at a     *)
(* time.                                                                    *)
LoopsOK ==
    /\ pc = "setnodes" => conf.left \subseteq DOMAIN conf.nodes
    /\ Divides \/ pc = "lan" => conf.networkID \in Networks
    /\ pc = "create" => \E c \in DOMAIN conf.listed : conf.left = {c}

(* What the divisions that are left are free of: these addresses and pools. *)
FreeOf(divs, addresses, pools) ==
    \A k \in 1..Len(divs) :
        /\ \A a \in addresses : ~Contains(divs[k], a)
        /\ \A pool \in pools : pool.to < divs[k].first \/ divs[k].last < pool.from

DivsOK ==
    /\ Divides => /\ Ordered(conf.divs)
                  /\ Among(conf.divs, divideNet(lan.bits, MaskOffset(lan.bits)))
    /\ pc = "droprdbs" => FreeOf(conf.divs, lan.rdbs \ conf.left, {})
    /\ pc = "droppools" => FreeOf(conf.divs, lan.rdbs, lan.pools \ conf.left)
    /\ pc = "dropstatics"
          => FreeOf(conf.divs, lan.rdbs \cup (lan.statics \ conf.left), lan.pools)

(* Every block the configurator holds or has written is well chosen.        *)
BlocksOK ==
    /\ WellChosen(conf.cidr)
    /\ \A c \in DOMAIN conf.listed : WellChosen(conf.listed[c].cidr)
    /\ \A c \in DOMAIN class : WellChosen(class[c].cidr)

(* The classes that are lost, apart from the one that is being replaced.    *)
Lost == (wanted \ DOMAIN class) \ (IF pc = "create" THEN conf.left ELSE {})

LossesOK == IsFiniteSet(wanted) /\ Cardinality(Lost) <= faults

(* Nothing is planned before the update has read everything; with a good    *)
(* secret, snapshots are planned after one fault and replaced after two.    *)
SecretOK ==
    /\ pc \in {"start", "install", "idle", "nodes", "classes", "snapshots"}
          => "snapshots" \notin conf.todo
    /\ "snapshots" \in conf.todo /\ snapClass /\ secret \in Buckets /\ pc # "bucket"
          => faults >= 1
    /\ pc = "replace" => snapClass /\ "snapshots" \in conf.todo
    /\ pc = "replace" /\ secret \in Buckets => faults >= 2
    /\ pc = "secret" => "snapshots" \in conf.todo
    /\ pc = "bucket" => secret \in Buckets

IInv == TypeOK /\ LoopsOK /\ DivsOK /\ BlocksOK /\ LossesOK /\ SecretOK

-----------------------------------------------------------------------------
(* Types. *)

(* The fields of conf.                                                      *)
LEMMA Fields ==
  ASSUME ConfOK
  PROVE  DOMAIN conf = {"todo", "nodes", "zone", "networkID", "cidr", "divs", "left", "listed"}
  BY DEF ConfOK, Fresh

(* The function without arguments is a function of any type.                *)
LEMMA EmptyPartial == \A S, T : IsPartial(Empty, S, T)
  BY DEF IsPartial, Empty

(* Writing an entry keeps the type of a partial function.                   *)
LEMMA PutPartial ==
  ASSUME NEW S, NEW T, NEW f, IsPartial(f, S, T), NEW x \in S, NEW y \in T
  PROVE  IsPartial(Put(f, x, y), S, T)
  BY DEF IsPartial, Put

(* So does removing one.                                                    *)
LEMMA DropPartial ==
  ASSUME NEW S, NEW T, NEW f, IsPartial(f, S, T), NEW x
  PROVE  IsPartial(Drop(f, x), S, T)
  BY DEF IsPartial, Drop

(* The fields after the end of an update.                                   *)
LEMMA FinishFields ==
  ASSUME Finish
  PROVE  /\ pc' = "idle" /\ DOMAIN conf' = DOMAIN Fresh
         /\ conf'.todo = {} /\ conf'.nodes = Empty /\ conf'.zone = None
         /\ conf'.networkID = None /\ conf'.cidr = conf.cidr /\ conf'.divs = << >>
         /\ conf'.left = {} /\ conf'.listed = Empty
  BY DEF Finish, Fresh

(* The end of an update leaves fields of their types.                       *)
LEMMA FinishConf ==
  ASSUME ConfOK, Finish
  PROVE  ConfOK'
  <1>1. << >> \in Seq(Block)
    OBVIOUS
  <1>2. /\ IsPartial(conf'.nodes, Nodes, IPs \cup {None})
        /\ IsPartial(conf'.listed, Classes, Params)
    BY FinishFields, EmptyPartial
  <1>3. /\ conf'.todo \subseteq {"nodes", "classes", "snapshots"}
        /\ conf'.zone \in {None, OwnZone} /\ conf'.networkID \in {None} \cup Networks
        /\ conf'.cidr = conf.cidr /\ conf'.divs = << >>
        /\ DOMAIN conf' = DOMAIN Fresh
    BY FinishFields
  <1> QED BY <1>1, <1>2, <1>3 DEF ConfOK

(* So does a new process.                                                   *)
LEMMA FreshConf ==
  ASSUME conf' = Fresh
  PROVE  ConfOK'
  BY EmptyPartial DEF ConfOK, Fresh

(* What the answer of the cloud changes.                                    *)
LEMMA NodesKnownFields ==
  ASSUME ConfOK, NEW zone, NEW network, NodesKnown(zone, network)
  PROVE  /\ DOMAIN conf' = DOMAIN conf
         /\ conf'.nodes = [n \in DOMAIN conf.nodes |-> ip[n]]
         /\ conf'.zone \in {None, zone} /\ conf'.networkID \in {None, network}
         /\ conf'.cidr \in {None, conf.cidr} /\ conf'.todo = conf.todo
         /\ conf'.divs = conf.divs /\ conf'.listed = conf.listed
         /\ \/ pc' = "lan" /\ conf'.networkID = network
            \/ pc' = "setnodes" /\ conf'.left = DOMAIN conf.nodes
  <1> DEFINE writes == conf.todo \cap {"classes", "snapshots"} # {}
             c == [conf EXCEPT !.nodes = [n \in DOMAIN conf.nodes |-> ip[n]],
                               !.zone = IF writes THEN zone ELSE None,
                               !.networkID = IF writes THEN network ELSE None]
             d == [c EXCEPT !.left = DOMAIN conf.nodes,
                            !.cidr = IF network = CommonPrivate THEN None ELSE @]
  <1>1. \/ pc' = "lan" /\ conf' = c /\ "classes" \in conf.todo
        \/ pc' = "setnodes" /\ conf' = d
    BY DEF NodesKnown
  <1>2. "classes" \in conf.todo => writes
    OBVIOUS
  <1> HIDE DEF writes
  <1>3. /\ DOMAIN c = DOMAIN conf
        /\ c.nodes = [n \in DOMAIN conf.nodes |-> ip[n]]
        /\ c.zone \in {None, zone} /\ c.networkID \in {None, network}
        /\ writes => c.networkID = network
        /\ c.cidr = conf.cidr /\ c.todo = conf.todo
        /\ c.divs = conf.divs /\ c.listed = conf.listed
    BY Fields
  <1> HIDE DEF c
  <1>4. /\ DOMAIN d = DOMAIN c /\ d.nodes = c.nodes /\ d.zone = c.zone
        /\ d.networkID = c.networkID /\ d.cidr \in {None, c.cidr} /\ d.todo = c.todo
        /\ d.divs = c.divs /\ d.listed = c.listed /\ d.left = DOMAIN conf.nodes
    BY <1>3, Fields
  <1> HIDE DEF d
  <1> QED BY <1>1, <1>2, <1>3, <1>4

(* The driver's start.                                                      *)
LEMMA StartsConf ==
  ASSUME TypeOK, Starts
  PROVE  ConfOK'
  <1>0. ConfOK
    BY DEF TypeOK
  <1>1. ASSUME NEW X, conf' = [conf EXCEPT !.left = X]
        PROVE  ConfOK'
    BY <1>0, <1>1, Fields DEF ConfOK
  <1>2. CASE ListTemplates
    BY <1>1, <1>2 DEF ListTemplates
  <1>3. ASSUME NEW t \in Templates, InstallClass(t)
        PROVE  ConfOK'
    BY <1>0, <1>1, <1>3, FinishConf DEF InstallClass, Goes
  <1>4. CASE InstallSnapshotClass
    <2>1. Finish \/ UNCHANGED conf
      BY <1>4 DEF InstallSnapshotClass, Goes
    <2> QED BY <1>0, <2>1, FinishConf DEF ConfOK
  <1> QED BY <1>2, <1>3, <1>4 DEF Starts

(* The first half of an update.                                             *)
LEMMA ReadsConf ==
  ASSUME TypeOK, Reads
  PROVE  ConfOK'
  <1>0. ConfOK
    BY DEF TypeOK
  <1>1. CASE Update
    BY <1>0, <1>1 DEF Update, ConfOK
  <1>2. CASE GetNodeConfigs
    <2> DEFINE known == [n \in DOMAIN csinode |->
                            IF ~Outdated(n) THEN csinode[n]
                            ELSE IF n \in Reporting THEN ip[n] ELSE None]
               plan == IF \E n \in DOMAIN csinode : Outdated(n) THEN {"nodes"} ELSE {}
    <2>1. conf' = [conf EXCEPT !.nodes = known, !.todo = plan]
      BY <1>2 DEF GetNodeConfigs
    <2>2. IsPartial(known, Nodes, IPs \cup {None})
      BY DEF TypeOK, IsPartial
    <2>3. plan \subseteq {"nodes", "classes", "snapshots"}
      OBVIOUS
    <2> HIDE DEF known, plan
    <2> QED BY <1>0, <2>1, <2>2, <2>3, Fields DEF ConfOK
  <1>3. ASSUME NEW plan, plan \subseteq {"nodes", "classes", "snapshots"},
               conf' = [conf EXCEPT !.todo = plan]
        PROVE  ConfOK'
    BY <1>0, <1>3, Fields DEF ConfOK
  <1>4. CASE GetStorageClasses
    <2>1. PICK plan : /\ plan = conf.todo \/ plan = conf.todo \cup {"classes"}
                      /\ conf' = [conf EXCEPT !.todo = plan]
      BY <1>4 DEF GetStorageClasses
    <2> QED BY <1>0, <1>3, <2>1 DEF ConfOK
  <1>5. CASE GetSnapshotClasses
    <2>1. \/ Finish
          \/ \E plan : /\ plan = conf.todo \/ plan = conf.todo \cup {"snapshots"}
                       /\ conf' = [conf EXCEPT !.todo = plan]
      BY <1>5 DEF GetSnapshotClasses
    <2> QED BY <1>0, <1>3, <2>1, FinishConf DEF ConfOK
  <1>6. ASSUME NEW zone \in {None, OwnZone}, NEW network \in Networks, NodesKnown(zone, network)
        PROVE  ConfOK'
    <2>1. IsPartial(conf'.nodes, Nodes, IPs \cup {None})
      BY <1>0, <1>6, NodesKnownFields DEF TypeOK, ConfOK, IsPartial
    <2> QED BY <1>0, <1>6, <2>1, NodesKnownFields DEF ConfOK
  <1>7. CASE ListInstances \/ ListClusters
    BY <1>0, <1>6, <1>7, FinishConf DEF ListInstances, ListClusters, Networks
  <1> QED BY <1>1, <1>2, <1>4, <1>5, <1>7 DEF Reads

-----------------------------------------------------------------------------
(* The recommendation. *)

(* What is known of the LAN.                                                *)
LEMMA LanTypes ==
  ASSUME TypeOK
  PROVE  /\ lan.bits \in 0..MaxBits
         /\ \A a \in lan.rdbs \cup lan.statics : a \in Int
         /\ \A pool \in lan.pools :
               pool.from \in Int /\ pool.to \in Int /\ pool.from <= pool.to
  BY LanAssumption DEF TypeOK

(* Divisions picked out of divisions.                                       *)
LEMMA AmongFree ==
  ASSUME NEW r, NEW d, Among(r, d), NEW A, NEW P, FreeOf(d, A, P)
  PROVE  FreeOf(r, A, P)
  BY DEF Among, FreeOf

(* What is left of what is left of the divisions.                           *)
LEMMA AmongTransitive ==
  ASSUME NEW r, NEW d, NEW e, Among(r, d), Among(d, e)
  PROVE  Among(r, e)
  BY DEF Among

(* The division in the middle is one of them.                               *)
LEMMA MiddleIsOne ==
  ASSUME NEW d \in Seq(Block), d # << >>
  PROVE  \E k \in 1..Len(d) : Middle(d) = d[k]
  <1>1. Len(d) \in Nat /\ Len(d) > 0
    OBVIOUS
  <1>2. (Len(d) \div 2) + 1 \in 1..Len(d)
    BY <1>1
  <1> QED BY <1>2 DEF Middle

(* An address, of an RDB instance or of a static mapping, has been dropped. *)
LEMMA DropAddressStep ==
  ASSUME IInv, NEW a \in lan.rdbs \cup lan.statics, DropAddress(a)
  PROVE  ConfOK' /\ DivsOK'
  <1> DEFINE d == conf.divs
             r == dropWithIP(d, a)
             all == divideNet(lan.bits, MaskOffset(lan.bits))
  <1>0. ConfOK /\ TypeOK /\ UNCHANGED <<pc, lan>> /\ pc \in {"droprdbs", "dropstatics"}
    BY DEF IInv, TypeOK, DropAddress
  <1>1. Ordered(d) /\ Among(d, all)
    BY <1>0 DEF IInv, DivsOK, Divides
  <1>2. conf'.left = conf.left \ {a} /\ conf'.divs = r /\ DOMAIN conf' = DOMAIN conf
    BY <1>0, Fields DEF DropAddress
  <1>3. Ordered(r) /\ Among(r, d) /\ \A k \in 1..Len(r) : ~Contains(r[k], a)
    <2>1. a \in Int
      BY <1>0, LanTypes
    <2> QED BY <1>1, <2>1, DropAddressDrops
  <1> HIDE DEF r
  <1>4. ConfOK'
    BY <1>0, <1>2, <1>3, Fields DEF ConfOK, DropAddress, Ordered
  <1>5. Among(r, all)
    BY <1>1, <1>3, AmongTransitive
  <1>6. ASSUME NEW A, NEW P, FreeOf(d, A, P), NEW B, B \subseteq A \cup {a}
        PROVE  FreeOf(r, B, P)
    <2>1. FreeOf(r, A, P)
      BY <1>3, <1>6, AmongFree
    <2> QED BY <1>3, <1>6, <2>1 DEF FreeOf
  <1>7. CASE pc = "droprdbs"
    <2>1. FreeOf(d, lan.rdbs \ conf.left, {})
      BY <1>7 DEF IInv, DivsOK
    <2>2. FreeOf(r, lan.rdbs \ conf'.left, {})
      <3>1. lan.rdbs \ conf'.left \subseteq (lan.rdbs \ conf.left) \cup {a}
        BY <1>2
      <3> QED BY <1>6, <2>1, <3>1
    <2> QED BY <1>0, <1>2, <1>3, <1>4, <1>5, <1>7, <2>2 DEF DivsOK
  <1>8. CASE pc = "dropstatics"
    <2>1. FreeOf(d, lan.rdbs \cup (lan.statics \ conf.left), lan.pools)
      BY <1>8 DEF IInv, DivsOK
    <2>2. FreeOf(r, lan.rdbs \cup (lan.statics \ conf'.left), lan.pools)
      <3>1. lan.rdbs \cup (lan.statics \ conf'.left)
               \subseteq (lan.rdbs \cup (lan.statics \ conf.left)) \cup {a}
        BY <1>2
      <3> QED BY <1>6, <2>1, <3>1
    <2> QED BY <1>0, <1>2, <1>3, <1>4, <1>5, <1>8, <2>2 DEF DivsOK
  <1> QED BY <1>0, <1>7, <1>8

(* A DHCP pool has been dropped.                                            *)
LEMMA DropPoolStep ==
  ASSUME IInv, NEW pool \in lan.pools, DropPool(pool)
  PROVE  ConfOK' /\ DivsOK'
  <1> DEFINE d == conf.divs
             r == dropWithIPRange(d, pool.from, pool.to)
             all == divideNet(lan.bits, MaskOffset(lan.bits))
  <1>0. ConfOK /\ TypeOK /\ UNCHANGED <<pc, lan>> /\ pc = "droppools"
    BY DEF IInv, TypeOK, DropPool
  <1>1. Ordered(d) /\ Among(d, all) /\ FreeOf(d, lan.rdbs, lan.pools \ conf.left)
    BY <1>0 DEF IInv, DivsOK, Divides
  <1>2. conf'.left = conf.left \ {pool} /\ conf'.divs = r /\ DOMAIN conf' = DOMAIN conf
    BY <1>0, Fields DEF DropPool
  <1>3. /\ Ordered(r) /\ Among(r, d)
        /\ \A k \in 1..Len(r) : pool.to < r[k].first \/ r[k].last < pool.from
    <2>1. pool.from \in Int /\ pool.to \in Int /\ pool.from <= pool.to
      BY <1>0, LanTypes
    <2> QED BY <1>1, <2>1, DropPoolDrops
  <1> HIDE DEF r
  <1>4. ConfOK'
    BY <1>0, <1>2, <1>3, Fields DEF ConfOK, DropPool, Ordered
  <1>5. Among(r, all) /\ FreeOf(r, lan.rdbs, lan.pools \ conf.left)
    BY <1>1, <1>3, AmongTransitive, AmongFree
  <1>6. lan.pools \ conf'.left \subseteq (lan.pools \ conf.left) \cup {pool}
    BY <1>2
  <1>7. FreeOf(r, lan.rdbs, lan.pools \ conf'.left)
    BY <1>3, <1>5, <1>6 DEF FreeOf
  <1> QED BY <1>0, <1>2, <1>3, <1>4, <1>5, <1>7 DEF DivsOK

(* The LAN stays the same, and with it what is a good block.                *)
LEMMA SameBlocks ==
  ASSUME BlocksOK, UNCHANGED <<lan, class>>, conf'.cidr \in {None, conf.cidr},
         conf'.listed = conf.listed \/ conf'.listed = Empty
  PROVE  BlocksOK'
  <1>1. WellChosen(conf.cidr)' /\ \A c \in DOMAIN conf'.listed : WellChosen(conf.listed[c].cidr)'
    <2>1. DOMAIN Empty = {}
      BY DEF Empty
    <2> QED BY <2>1 DEF BlocksOK, WellChosen, Free
  <1>2. \A c \in DOMAIN class' : WellChosen(class[c].cidr)'
    BY DEF BlocksOK, WellChosen, Free
  <1> QED BY <1>1, <1>2 DEF BlocksOK

(* The blocks after the end of an update.                                   *)
LEMMA FinishBlocks ==
  ASSUME BlocksOK, Finish, UNCHANGED <<lan, class>>
  PROVE  BlocksOK'
  BY SameBlocks, FinishFields

(* At the end of an update no loop runs.                                    *)
LEMMA FinishLoops ==
  ASSUME Finish
  PROVE  LoopsOK' /\ DivsOK'
  BY FinishFields DEF LoopsOK, DivsOK, Divides

(* The block chosen.                                                        *)
LEMMA DetermineCidrStep ==
  ASSUME IInv, DetermineCidr
  PROVE  ConfOK' /\ DivsOK' /\ LoopsOK' /\ BlocksOK'
  <1> DEFINE d == conf.divs
             all == divideNet(lan.bits, MaskOffset(lan.bits))
             chosen == IF d = << >> THEN None
                       ELSE [networkId |-> conf.networkID, block |-> Middle(d)]
  <1>0. ConfOK /\ pc = "dropstatics" /\ conf.left = {} /\ UNCHANGED <<lan, class>>
    BY DEF IInv, TypeOK, DetermineCidr
  <1>1. /\ conf'.left = DOMAIN conf.nodes /\ conf'.divs = << >> /\ conf'.cidr = chosen
        /\ DOMAIN conf' = DOMAIN conf /\ pc' = "setnodes"
        /\ conf'.nodes = conf.nodes /\ conf'.listed = conf.listed
        /\ conf'.todo = conf.todo /\ conf'.zone = conf.zone /\ conf'.networkID = conf.networkID
    BY <1>0, Fields DEF DetermineCidr
  <1>2. /\ conf.networkID \in Networks /\ d \in Seq(Block) /\ Among(d, all)
        /\ FreeOf(d, lan.rdbs \cup lan.statics, lan.pools)
    BY <1>0 DEF IInv, LoopsOK, DivsOK, Divides, Ordered
  <1>3. d # << >> => /\ Middle(d) \in Block /\ Free(Middle(d))
                     /\ \E i \in 1..Len(all) : Middle(d) = all[i]
    <2> SUFFICES ASSUME d # << >>
                 PROVE  /\ Middle(d) \in Block /\ Free(Middle(d))
                        /\ \E i \in 1..Len(all) : Middle(d) = all[i]
      OBVIOUS
    <2>1. PICK k \in 1..Len(d) : Middle(d) = d[k]
      BY <1>2, MiddleIsOne
    <2>2. Middle(d) \in Block
      BY <1>2, <2>1
    <2>3. Free(Middle(d))
      BY <1>2, <2>1 DEF FreeOf, Free
    <2>4. \E i \in 1..Len(all) : Middle(d) = all[i]
      BY <1>2, <2>1 DEF Among
    <2> QED BY <2>2, <2>3, <2>4
  <1>4. chosen \in {None} \cup Cidrs
    BY <1>2, <1>3 DEF Cidrs
  <1>5. ConfOK'
    <2>1. << >> \in Seq(Block)
      OBVIOUS
    <2> HIDE DEF chosen
    <2> QED BY <1>0, <1>1, <1>4, <2>1 DEF ConfOK
  <1>6. WellChosen(conf.cidr)'
    <2>1. d # << >> => chosen.block = Middle(d)
      OBVIOUS
    <2>2. d = << >> => chosen = None
      OBVIOUS
    <2> HIDE DEF chosen, d
    <2> QED BY <1>0, <1>1, <1>3, <2>1, <2>2 DEF WellChosen, Free
  <1>7. BlocksOK'
    BY <1>0, <1>1, <1>6 DEF IInv, BlocksOK, WellChosen, Free
  <1> QED BY <1>1, <1>5, <1>7 DEF LoopsOK, DivsOK, Divides

(* The whole recommendation keeps the divisions in order, and free of what  *)
(* has been dropped so far.                                                 *)
LEMMA RecommendsStep ==
  ASSUME IInv, Recommends
  PROVE  ConfOK' /\ DivsOK' /\ LoopsOK' /\ BlocksOK'
  <1> DEFINE all == divideNet(lan.bits, MaskOffset(lan.bits))
  <1>0. /\ ConfOK /\ TypeOK /\ LoopsOK /\ DivsOK /\ BlocksOK
        /\ UNCHANGED <<lan, class>>
    BY DEF IInv, TypeOK, Recommends, GetPrivateLan, ListRdbInstances, DropAddress, GetDhcpStatus,
           DropPool, PoolsDropped, DetermineCidr
  <1>1. ASSUME NEW X, conf' = [conf EXCEPT !.left = X]
        PROVE  /\ ConfOK' /\ BlocksOK' /\ conf'.left = X
               /\ conf'.divs = conf.divs /\ conf'.networkID = conf.networkID
    <2>1. /\ DOMAIN conf' = DOMAIN conf /\ conf'.left = X
          /\ conf'.divs = conf.divs /\ conf'.networkID = conf.networkID
          /\ conf'.cidr = conf.cidr /\ conf'.listed = conf.listed
          /\ conf'.todo = conf.todo /\ conf'.zone = conf.zone /\ conf'.nodes = conf.nodes
      BY <1>0, <1>1, Fields
    <2> QED BY <1>0, <2>1, SameBlocks DEF ConfOK
  <1>2. CASE GetPrivateLan
    <2>1. CASE Finish
      BY <1>0, <2>1, FinishConf, FinishLoops, FinishBlocks
    <2>2. CASE /\ Divisible(lan.bits) /\ pc' = "rdbs"
               /\ conf' = [conf EXCEPT !.divs = newCidrDivs(lan.bits)]
      <3>1. Ordered(newCidrDivs(lan.bits)) /\ Among(newCidrDivs(lan.bits), all)
        BY <1>0, <2>2, LanTypes, newCidrDivsOrdered
      <3>2. /\ DOMAIN conf' = DOMAIN conf /\ conf'.divs = newCidrDivs(lan.bits)
            /\ conf'.networkID = conf.networkID
            /\ conf'.cidr = conf.cidr /\ conf'.listed = conf.listed
            /\ conf'.todo = conf.todo /\ conf'.zone = conf.zone /\ conf'.nodes = conf.nodes
        BY <1>0, <2>2, Fields
      <3>3. ConfOK' /\ BlocksOK'
        BY <1>0, <3>1, <3>2, SameBlocks DEF ConfOK, Ordered
      <3>4. conf.networkID \in Networks
        BY <1>0, <1>2 DEF LoopsOK, GetPrivateLan
      <3> QED BY <1>0, <2>2, <3>1, <3>2, <3>3, <3>4 DEF LoopsOK, DivsOK, Divides
    <2> QED BY <1>2, <2>1, <2>2 DEF GetPrivateLan
  <1>3. CASE ListRdbInstances
    <2>1. conf' = [conf EXCEPT !.left = lan.rdbs] /\ pc = "rdbs" /\ pc' = "droprdbs"
      BY <1>3 DEF ListRdbInstances
    <2>2. FreeOf(conf.divs, lan.rdbs \ lan.rdbs, {})
      BY DEF FreeOf
    <2> QED BY <1>0, <1>1, <2>1, <2>2 DEF LoopsOK, DivsOK, Divides
  <1>4. ASSUME NEW a \in lan.rdbs \cup lan.statics, DropAddress(a)
        PROVE  ConfOK' /\ DivsOK' /\ LoopsOK' /\ BlocksOK'
    <2>1. /\ conf'.networkID = conf.networkID /\ UNCHANGED pc
          /\ conf'.cidr = conf.cidr /\ conf'.listed = conf.listed
      BY <1>0, <1>4, Fields DEF DropAddress
    <2>2. pc \in {"droprdbs", "dropstatics"}
      BY <1>4 DEF DropAddress
    <2>3. LoopsOK' /\ BlocksOK'
      BY <1>0, <2>1, <2>2, SameBlocks DEF LoopsOK, Divides
    <2> QED BY <1>4, <2>3, DropAddressStep
  <1>5. CASE GetDhcpStatus
    <2>1. /\ conf' = [conf EXCEPT !.left = lan.pools] /\ pc = "droprdbs" /\ pc' = "droppools"
          /\ conf.left = {}
      BY <1>5 DEF GetDhcpStatus
    <2>2. FreeOf(conf.divs, lan.rdbs, lan.pools \ lan.pools)
      BY <1>0, <2>1 DEF DivsOK, FreeOf
    <2> QED BY <1>0, <1>1, <2>1, <2>2 DEF LoopsOK, DivsOK, Divides
  <1>6. ASSUME NEW pool \in lan.pools, DropPool(pool)
        PROVE  ConfOK' /\ DivsOK' /\ LoopsOK' /\ BlocksOK'
    <2>1. /\ conf'.networkID = conf.networkID /\ UNCHANGED pc
          /\ conf'.cidr = conf.cidr /\ conf'.listed = conf.listed
      BY <1>0, <1>6, Fields DEF DropPool
    <2>2. pc = "droppools"
      BY <1>6 DEF DropPool
    <2>3. LoopsOK' /\ BlocksOK'
      BY <1>0, <2>1, <2>2, SameBlocks DEF LoopsOK, Divides
    <2> QED BY <1>6, <2>3, DropPoolStep
  <1>7. CASE PoolsDropped
    <2>1. /\ conf' = [conf EXCEPT !.left = lan.statics] /\ pc = "droppools"
          /\ pc' = "dropstatics" /\ conf.left = {}
      BY <1>7 DEF PoolsDropped
    <2>2. FreeOf(conf.divs, lan.rdbs \cup (lan.statics \ lan.statics), lan.pools)
      BY <1>0, <2>1 DEF DivsOK, FreeOf
    <2> QED BY <1>0, <1>1, <2>1, <2>2 DEF LoopsOK, DivsOK, Divides
  <1>8. CASE DetermineCidr
    BY <1>8, DetermineCidrStep
  <1> QED BY <1>2, <1>3, <1>4, <1>5, <1>6, <1>7, <1>8 DEF Recommends

-----------------------------------------------------------------------------
(* The other steps of the configurator. *)

Plain == pc \notin {"setnodes", "lan", "rdbs", "droprdbs", "droppools", "dropstatics", "create"}

(* Nothing is claimed of a loop that does not run.                          *)
LEMMA PlainLoops ==
  ASSUME Plain'
  PROVE  LoopsOK' /\ DivsOK'
  BY DEF Plain, LoopsOK, DivsOK, Divides

(* The driver's start.                                                      *)
LEMMA StartsStep ==
  ASSUME IInv, Starts
  PROVE  LoopsOK' /\ DivsOK' /\ BlocksOK'
  <1>0. ConfOK /\ BlocksOK /\ UNCHANGED lan
    BY DEF IInv, TypeOK, Starts, ListTemplates, InstallClass, InstallSnapshotClass
  <1>1. Plain'
    BY DEF Plain, Starts, ListTemplates, InstallClass, InstallSnapshotClass, Goes, Finish
  <1>2. conf'.cidr = conf.cidr /\ (conf'.listed = conf.listed \/ conf'.listed = Empty)
    BY <1>0, Fields, FinishFields
    DEF Starts, ListTemplates, InstallClass, InstallSnapshotClass, Goes
  <1>3. CASE UNCHANGED class
    BY <1>0, <1>1, <1>2, <1>3, PlainLoops, SameBlocks
  <1>4. ASSUME NEW t, class' = Put(class, t, NoParams)
        PROVE  BlocksOK'
    <2>1. \A c \in DOMAIN class' : class'[c].cidr = None
                                   \/ (c \in DOMAIN class /\ class'[c] = class[c])
      BY <1>4 DEF Put, NoParams
    <2>2. \A c \in DOMAIN Empty : FALSE
      BY DEF Empty
    <2> QED BY <1>0, <1>2, <2>1, <2>2 DEF BlocksOK, WellChosen, Free
  <1>5. UNCHANGED class \/ \E t : class' = Put(class, t, NoParams)
    BY DEF Starts, ListTemplates, InstallClass, InstallSnapshotClass
  <1> QED BY <1>1, <1>3, <1>4, <1>5, PlainLoops

(* The first half of an update.                                             *)
LEMMA ReadsStep ==
  ASSUME IInv, Reads
  PROVE  LoopsOK' /\ DivsOK' /\ BlocksOK'
  <1>0. ConfOK /\ BlocksOK /\ UNCHANGED <<lan, class>>
    BY DEF IInv, TypeOK, Reads, Update, GetNodeConfigs, GetStorageClasses, GetSnapshotClasses,
           ListInstances, ListClusters
  <1>1. CASE Update \/ GetNodeConfigs \/ GetStorageClasses \/ GetSnapshotClasses
    <2>1. Plain'
      BY <1>1 DEF Plain, Update, GetNodeConfigs, GetStorageClasses, GetSnapshotClasses, Finish
    <2>2. conf'.cidr = conf.cidr /\ (conf'.listed = conf.listed \/ conf'.listed = Empty)
      BY <1>0, <1>1, Fields, FinishFields
      DEF Update, GetNodeConfigs, GetStorageClasses, GetSnapshotClasses
    <2> QED BY <1>0, <2>1, <2>2, PlainLoops, SameBlocks
  <1>2. ASSUME NEW zone, NEW network \in Networks, NodesKnown(zone, network)
        PROVE  LoopsOK' /\ DivsOK' /\ BlocksOK'
    <2>1. BlocksOK'
      BY <1>0, <1>2, NodesKnownFields, SameBlocks
    <2>2. DivsOK'
      BY <1>0, <1>2, NodesKnownFields DEF DivsOK, Divides
    <2>3. LoopsOK'
      BY <1>0, <1>2, NodesKnownFields DEF LoopsOK, Divides
    <2> QED BY <2>1, <2>2, <2>3
  <1>3. CASE ListInstances \/ ListClusters
    BY <1>0, <1>2, <1>3, FinishLoops, FinishBlocks DEF ListInstances, ListClusters, Networks
  <1> QED BY <1>1, <1>3 DEF Reads

(* The parameters written to a class.                                       *)
LEMMA NewParamsOK ==
  ASSUME IInv, NEW c \in DOMAIN class
  PROVE  NewParams(class[c]) \in Params /\ WellChosen(NewParams(class[c]).cidr)
  <1>1. class[c] \in Params /\ WellChosen(class[c].cidr) /\ WellChosen(conf.cidr)
    BY DEF IInv, TypeOK, IsPartial, BlocksOK
  <1>2. ConfOK
    BY DEF IInv, TypeOK
  <1> QED BY <1>1, <1>2 DEF ConfOK, NewParams, Params

(* Nodes, classes and the secret are written.                               *)
LEMMA WritesStep ==
  ASSUME IInv, Writes
  PROVE  ConfOK' /\ LoopsOK' /\ DivsOK' /\ BlocksOK'
  <1>0. /\ TypeOK /\ ConfOK /\ LoopsOK /\ BlocksOK /\ UNCHANGED lan
    BY DEF IInv, TypeOK, Writes, SetNodeConfig, NodesSet, ListClasses, DeleteClass, CreateClass,
           ClassesSet, CheckSecret, DeleteSecret, CreateSecret, CreateBucket
  <1>1. ASSUME Finish, UNCHANGED class
        PROVE  ConfOK' /\ LoopsOK' /\ DivsOK' /\ BlocksOK'
    BY <1>0, <1>1, FinishConf, FinishLoops, FinishBlocks
  <1>2. ASSUME UNCHANGED <<conf, class>>, Plain'
        PROVE  ConfOK' /\ LoopsOK' /\ DivsOK' /\ BlocksOK'
    BY <1>0, <1>2, PlainLoops, SameBlocks DEF ConfOK
  <1>3. ASSUME NEW n \in Nodes, SetNodeConfig(n)
        PROVE  ConfOK' /\ LoopsOK' /\ DivsOK' /\ BlocksOK'
    <2>1. CASE /\ pc = "setnodes" /\ pc' = "setnodes"
               /\ conf' = [conf EXCEPT !.left = @ \ {n}]
      <3>1. /\ DOMAIN conf' = DOMAIN conf /\ conf'.left = conf.left \ {n}
            /\ conf'.divs = conf.divs /\ conf'.networkID = conf.networkID
            /\ conf'.cidr = conf.cidr /\ conf'.listed = conf.listed
            /\ conf'.todo = conf.todo /\ conf'.zone = conf.zone /\ conf'.nodes = conf.nodes
        BY <1>0, <2>1, Fields
      <3>2. UNCHANGED class
        BY <1>3 DEF SetNodeConfig
      <3> QED BY <1>0, <2>1, <3>1, <3>2, SameBlocks DEF ConfOK, LoopsOK, DivsOK, Divides
    <2> QED BY <1>1, <1>3, <2>1 DEF SetNodeConfig, Goes
  <1>4. CASE NodesSet \/ ClassesSet \/ CheckSecret \/ DeleteSecret \/ CreateBucket
    BY <1>1, <1>2, <1>4 DEF NodesSet, ClassesSet, ThenSnapshots, CheckSecret, DeleteSecret,
                            CreateBucket, Goes, Plain
  <1>5. ASSUME NEW b \in Buckets, CreateSecret(b)
        PROVE  ConfOK' /\ LoopsOK' /\ DivsOK' /\ BlocksOK'
    BY <1>1, <1>2, <1>5 DEF CreateSecret, Goes, Plain
  <1>6. CASE ListClasses
    <2> DEFINE others == {c \in DOMAIN class : \/ class[c].zone # conf.zone
                                               \/ class[c].networkId # conf.networkID}
               new == [c \in others |-> NewParams(class[c])]
    <2>1. conf' = [conf EXCEPT !.listed = new] /\ Plain' /\ UNCHANGED class
      BY <1>6 DEF ListClasses, Plain
    <2>2. \A c \in others : new[c] \in Params /\ WellChosen(new[c].cidr)
      BY NewParamsOK
    <2>3. IsPartial(new, Classes, Params) /\ DOMAIN new = others
      BY <1>0, <2>2 DEF TypeOK, IsPartial
    <2> HIDE DEF new, others
    <2>4. /\ DOMAIN conf' = DOMAIN conf /\ conf'.listed = new /\ conf'.nodes = conf.nodes
          /\ conf'.divs = conf.divs /\ conf'.networkID = conf.networkID
          /\ conf'.cidr = conf.cidr /\ conf'.todo = conf.todo /\ conf'.zone = conf.zone
      BY <1>0, <2>1, Fields
    <2>5. ConfOK'
      BY <1>0, <2>3, <2>4 DEF ConfOK
    <2>6. BlocksOK'
      BY <1>0, <2>1, <2>2, <2>3, <2>4 DEF BlocksOK, WellChosen, Free
    <2> QED BY <2>1, <2>5, <2>6, PlainLoops
  <1>7. ASSUME NEW c \in Classes, DeleteClass(c)
        PROVE  ConfOK' /\ LoopsOK' /\ DivsOK' /\ BlocksOK'
    <2>1. CASE class' = Drop(class, c) /\ Goes("create", [conf EXCEPT !.left = {c}])
      <3>1. DOMAIN class' \subseteq DOMAIN class /\ \A d \in DOMAIN class' : class'[d] = class[d]
        BY <2>1 DEF Drop
      <3>2. \A d \in DOMAIN class' : WellChosen(class[d].cidr)'
        BY <1>0, <3>1 DEF BlocksOK, WellChosen, Free
      <3>3. CASE Finish
        <4>1. \A d \in DOMAIN conf'.listed : FALSE
          BY <3>3, FinishFields DEF Empty
        <4>2. WellChosen(conf.cidr)'
          BY <1>0, <3>3, FinishFields DEF BlocksOK, WellChosen, Free
        <4> QED BY <1>0, <3>2, <3>3, <4>1, <4>2, FinishConf, FinishLoops DEF BlocksOK
      <3>4. CASE pc' = "create" /\ conf' = [conf EXCEPT !.left = {c}]
        <4>1. /\ DOMAIN conf' = DOMAIN conf /\ conf'.left = {c}
              /\ conf'.divs = conf.divs /\ conf'.networkID = conf.networkID
              /\ conf'.cidr = conf.cidr /\ conf'.listed = conf.listed
              /\ conf'.todo = conf.todo /\ conf'.zone = conf.zone /\ conf'.nodes = conf.nodes
          BY <1>0, <3>4, Fields
        <4>2. WellChosen(conf.cidr)' /\ \A d \in DOMAIN conf'.listed : WellChosen(conf.listed[d].cidr)'
          BY <1>0, <4>1 DEF BlocksOK, WellChosen, Free
        <4>3. c \in DOMAIN conf.listed
          BY <1>7 DEF DeleteClass
        <4> QED BY <1>0, <3>2, <3>4, <4>1, <4>2, <4>3
                DEF ConfOK, BlocksOK, LoopsOK, DivsOK, Divides
      <3> QED BY <2>1, <3>3, <3>4 DEF Goes
    <2> QED BY <1>1, <1>7, <2>1 DEF DeleteClass
  <1>8. ASSUME NEW c \in Classes, CreateClass(c)
        PROVE  ConfOK' /\ LoopsOK' /\ DivsOK' /\ BlocksOK'
    <2> DEFINE rest == [conf EXCEPT !.left = {}, !.listed = Drop(@, c)]
    <2>1. CASE class' = Put(class, c, conf.listed[c]) /\ Goes("delete", rest)
      <3>0. c \in DOMAIN conf.listed
        BY <1>0, <1>8 DEF CreateClass, LoopsOK
      <3>1. \A d \in DOMAIN class' : \/ d \in DOMAIN class /\ class'[d] = class[d]
                                     \/ class'[d] = conf.listed[c]
        BY <2>1 DEF Put
      <3>2. \A d \in DOMAIN class' : WellChosen(class[d].cidr)'
        BY <1>0, <3>0, <3>1 DEF BlocksOK, WellChosen, Free
      <3>3. CASE Finish
        <4>1. \A d \in DOMAIN conf'.listed : FALSE
          BY <3>3, FinishFields DEF Empty
        <4>2. WellChosen(conf.cidr)'
          BY <1>0, <3>3, FinishFields DEF BlocksOK, WellChosen, Free
        <4> QED BY <1>0, <3>2, <3>3, <4>1, <4>2, FinishConf, FinishLoops DEF BlocksOK
      <3>4. CASE pc' = "delete" /\ conf' = rest
        <4>1. /\ DOMAIN conf' = DOMAIN conf /\ conf'.listed = Drop(conf.listed, c)
              /\ conf'.divs = conf.divs /\ conf'.networkID = conf.networkID
              /\ conf'.cidr = conf.cidr
              /\ conf'.todo = conf.todo /\ conf'.zone = conf.zone /\ conf'.nodes = conf.nodes
          BY <1>0, <3>4, Fields
        <4>2. IsPartial(conf'.listed, Classes, Params)
          BY <1>0, <4>1, DropPartial DEF ConfOK
        <4>3. \A d \in DOMAIN conf'.listed : d \in DOMAIN conf.listed /\ conf'.listed[d] = conf.listed[d]
          BY <4>1 DEF Drop
        <4>4. WellChosen(conf.cidr)' /\ \A d \in DOMAIN conf'.listed : WellChosen(conf.listed[d].cidr)'
          BY <1>0, <4>1, <4>3 DEF BlocksOK, WellChosen, Free
        <4>5. Plain'
          BY <3>4 DEF Plain
        <4> QED BY <1>0, <3>2, <4>1, <4>2, <4>4, <4>5, PlainLoops DEF ConfOK, BlocksOK
      <3> QED BY <2>1, <3>3, <3>4 DEF Goes
    <2> QED BY <1>1, <1>8, <2>1 DEF CreateClass
  <1> QED BY <1>3, <1>4, <1>5, <1>6, <1>7, <1>8 DEF Writes

(* Failures end an update; a new process holds nothing; what nodes and      *)
(* users do changes no block that the configurator has chosen.              *)
LEMMA OthersStep ==
  ASSUME IInv, CallFails \/ Restart \/ Environment
  PROVE  ConfOK' /\ LoopsOK' /\ DivsOK' /\ BlocksOK'
  <1>0. ConfOK /\ LoopsOK /\ DivsOK /\ BlocksOK /\ UNCHANGED lan
    BY DEF IInv, TypeOK, CallFails, Restart, Environment, Changes, NodeJoins, NodeLeaves,
           RegisterNodePrivateIP, IPChanges, UserCreates, UserDeletes
  <1>1. CASE CallFails
    BY <1>0, <1>1, FinishConf, FinishLoops, FinishBlocks DEF CallFails
  <1>2. CASE Restart
    <2>1. conf' = Fresh /\ Plain' /\ UNCHANGED class
      BY <1>2 DEF Restart, Plain
    <2>2. conf'.cidr = None /\ conf'.listed = Empty
      BY <2>1 DEF Fresh
    <2> QED BY <1>0, <2>1, <2>2, FreshConf, PlainLoops, SameBlocks
  <1>3. CASE Environment
    <2>1. UNCHANGED <<pc, conf>>
      BY <1>3 DEF Environment, Changes, NodeJoins, NodeLeaves, RegisterNodePrivateIP, IPChanges,
                  UserCreates, UserDeletes
    <2>2. ConfOK' /\ LoopsOK' /\ DivsOK'
      BY <1>0, <2>1 DEF ConfOK, LoopsOK, DivsOK, Divides
    <2>3. \A c \in DOMAIN class' : \/ c \in DOMAIN class /\ class'[c] = class[c]
                                   \/ class'[c] \in UserParams
      <3>1. \/ UNCHANGED class
            \/ \E c : \E params \in UserParams : class' = Put(class, c, params)
            \/ \E c : class' = Drop(class, c)
        BY <1>3 DEF Environment, NodeJoins, NodeLeaves, RegisterNodePrivateIP, IPChanges,
                    UserCreates, UserDeletes
      <3>2. ASSUME NEW c, NEW params \in UserParams, class' = Put(class, c, params)
            PROVE  \A d \in DOMAIN class' : \/ d \in DOMAIN class /\ class'[d] = class[d]
                                            \/ class'[d] \in UserParams
        BY <3>2 DEF Put
      <3>3. ASSUME NEW c, class' = Drop(class, c)
            PROVE  \A d \in DOMAIN class' : d \in DOMAIN class /\ class'[d] = class[d]
        BY <3>3 DEF Drop
      <3> QED BY <3>1, <3>2, <3>3
    <2>4. \A c \in DOMAIN class' : WellChosen(class[c].cidr)'
      BY <1>0, <2>3 DEF BlocksOK, WellChosen, Free, UserCidrs
    <2>5. BlocksOK'
      BY <1>0, <2>1, <2>4 DEF BlocksOK, WellChosen, Free
    <2> QED BY <2>2, <2>5
  <1> QED BY <1>1, <1>2, <1>3

-----------------------------------------------------------------------------
(* The objects of the cluster. *)

(* Faults are counted up to their bound.                                    *)
LEMMA FaultCounts ==
  ASSUME NEW kind, faults \in 0..MaxFaults, Fault(kind)
  PROVE  faults' \in 0..MaxFaults /\ faults' = faults + 1
  BY DEF Fault

(* No step makes more than one fault, or takes one back.                    *)
LEMMA FaultsStep ==
  ASSUME TypeOK, Next
  PROVE  faults' \in 0..MaxFaults /\ (faults' = faults \/ faults' = faults + 1)
  <1>0. faults \in 0..MaxFaults
    BY DEF TypeOK
  <1>1. \A n, c : Goes(n, c) => faults' = faults \/ Fault("lost")
    BY DEF Goes
  <1>2. CASE Starts
    BY <1>0, <1>1, <1>2, FaultCounts DEF Starts, ListTemplates, InstallClass, InstallSnapshotClass
  <1>3. CASE Reads
    BY <1>0, <1>3, FaultCounts DEF Reads, Update, GetNodeConfigs, GetStorageClasses,
       GetSnapshotClasses, ListInstances, ListClusters
  <1>4. CASE Recommends
    BY <1>0, <1>4 DEF Recommends, GetPrivateLan, ListRdbInstances, DropAddress, GetDhcpStatus,
       DropPool, PoolsDropped, DetermineCidr
  <1>5. CASE Writes
    BY <1>0, <1>1, <1>5, FaultCounts DEF Writes, SetNodeConfig, NodesSet, ListClasses,
       DeleteClass, CreateClass, ClassesSet, CheckSecret, DeleteSecret, CreateSecret, CreateBucket
  <1>6. CASE CallFails \/ Restart
    BY <1>0, <1>6, FaultCounts DEF CallFails, Restart
  <1>7. CASE Environment
    BY <1>0, <1>7 DEF Environment, Changes, NodeJoins, NodeLeaves, RegisterNodePrivateIP,
       IPChanges, UserCreates, UserDeletes
  <1> QED BY <1>2, <1>3, <1>4, <1>5, <1>6, <1>7 DEF Next, Step

(* The next call.                                                           *)
PCs == {"start", "install", "idle", "nodes", "classes", "snapshots",
        "cloud", "lan", "rdbs", "droprdbs", "droppools", "dropstatics",
        "setnodes", "list", "delete", "create", "secret", "replace", "bucket"}

(* Every step goes on to one of the known calls.                            *)
LEMMA PcStep ==
  ASSUME TypeOK, Next
  PROVE  pc' \in PCs
  <1>0. pc \in PCs
    BY DEF TypeOK, PCs
  <1>1. \A n, c : Goes(n, c) => pc' \in {n, "idle"}
    BY DEF Goes, Finish
  <1>2. CASE Starts
    BY <1>1, <1>2 DEF Starts, ListTemplates, InstallClass, InstallSnapshotClass, Finish, PCs
  <1>3. CASE Reads
    BY <1>3 DEF Reads, Update, GetNodeConfigs, GetStorageClasses, GetSnapshotClasses,
       ListInstances, ListClusters, NodesKnown, Finish, PCs
  <1>4. CASE Recommends
    BY <1>0, <1>4 DEF Recommends, GetPrivateLan, ListRdbInstances, DropAddress, GetDhcpStatus,
       DropPool, PoolsDropped, DetermineCidr, Finish, PCs
  <1>5. CASE Writes
    BY <1>1, <1>5 DEF Writes, SetNodeConfig, NodesSet, ListClasses, DeleteClass, CreateClass,
       ClassesSet, ThenSnapshots, CheckSecret, DeleteSecret, CreateSecret, CreateBucket, Finish,
       PCs
  <1>6. CASE CallFails \/ Restart
    BY <1>6 DEF CallFails, Restart, Finish, PCs
  <1>7. CASE Environment
    BY <1>0, <1>7 DEF Environment, Changes, NodeJoins, NodeLeaves, RegisterNodePrivateIP,
       IPChanges, UserCreates, UserDeletes
  <1> QED BY <1>2, <1>3, <1>4, <1>5, <1>6, <1>7 DEF Next, Step

(* The annotations of the nodes.                                            *)
LEMMA NodesStep ==
  ASSUME TypeOK, LoopsOK, Next
  PROVE  IsPartial(csinode, Nodes, IPs \cup {None})'
  <1>0. ConfOK /\ IsPartial(csinode, Nodes, IPs \cup {None}) /\ ip \in [Nodes -> IPs]
    BY DEF TypeOK
  <1>1. ASSUME NEW n \in Nodes, NEW i \in IPs \cup {None}, csinode' = Put(csinode, n, i)
        PROVE  IsPartial(csinode, Nodes, IPs \cup {None})'
    BY <1>0, <1>1, PutPartial
  <1>2. ASSUME NEW n, csinode' = Drop(csinode, n)
        PROVE  IsPartial(csinode, Nodes, IPs \cup {None})'
    BY <1>0, <1>2, DropPartial
  <1>3. CASE UNCHANGED csinode
    BY <1>0, <1>3
  <1>4. ASSUME NEW n \in Nodes, SetNodeConfig(n)
        PROVE  IsPartial(csinode, Nodes, IPs \cup {None})'
    <2>1. conf.nodes[n] \in IPs \cup {None}
      BY <1>0, <1>4 DEF SetNodeConfig, LoopsOK, ConfOK, IsPartial
    <2> QED BY <1>1, <1>3, <1>4, <2>1 DEF SetNodeConfig
  <1>5. CASE Starts \/ Reads \/ Recommends \/ CallFails \/ Restart
    BY <1>3, <1>5 DEF Starts, ListTemplates, InstallClass, InstallSnapshotClass, Reads, Update,
       GetNodeConfigs, GetStorageClasses, GetSnapshotClasses, ListInstances, ListClusters,
       Recommends, GetPrivateLan, ListRdbInstances, DropAddress, GetDhcpStatus, DropPool,
       PoolsDropped, DetermineCidr, CallFails, Restart
  <1>6. CASE Writes
    BY <1>3, <1>4, <1>6 DEF Writes, NodesSet, ListClasses, DeleteClass, CreateClass, ClassesSet,
       CheckSecret, DeleteSecret, CreateSecret, CreateBucket
  <1>7. CASE Environment
    BY <1>0, <1>1, <1>2, <1>3, <1>7 DEF Environment, NodeJoins, NodeLeaves,
       RegisterNodePrivateIP, IPChanges, UserCreates, UserDeletes
  <1> QED BY <1>5, <1>6, <1>7 DEF Next, Step

(* The storage classes.                                                     *)
LEMMA ClassesStep ==
  ASSUME TypeOK, LoopsOK, Next
  PROVE  IsPartial(class, Classes, Params)' /\ wanted' \subseteq Classes
  <1>0. ConfOK /\ IsPartial(class, Classes, Params) /\ wanted \subseteq Classes
    BY DEF TypeOK
  <1>1. ASSUME NEW c \in Classes, NEW p \in Params, class' = Put(class, c, p)
        PROVE  IsPartial(class, Classes, Params)'
    BY <1>0, <1>1, PutPartial
  <1>2. ASSUME NEW c, class' = Drop(class, c)
        PROVE  IsPartial(class, Classes, Params)'
    BY <1>0, <1>2, DropPartial
  <1>3. CASE UNCHANGED <<class, wanted>>
    BY <1>0, <1>3
  <1>4. ASSUME NEW t \in Templates, InstallClass(t)
        PROVE  IsPartial(class, Classes, Params)' /\ wanted' \subseteq Classes
    <2>1. NoParams \in Params /\ t \in Classes
      BY DEF NoParams, Params, Classes
    <2> QED BY <1>0, <1>1, <1>3, <1>4, <2>1 DEF InstallClass
  <1>5. ASSUME NEW c \in Classes, DeleteClass(c) \/ CreateClass(c)
        PROVE  IsPartial(class, Classes, Params)' /\ wanted' \subseteq Classes
    <2>1. CreateClass(c) => conf.listed[c] \in Params
      BY <1>0 DEF CreateClass, LoopsOK, ConfOK, IsPartial
    <2> QED BY <1>0, <1>1, <1>2, <1>3, <1>5, <2>1 DEF DeleteClass, CreateClass
  <1>6. CASE Starts \/ Reads \/ Recommends \/ CallFails \/ Restart
    BY <1>3, <1>4, <1>6 DEF Starts, ListTemplates, InstallSnapshotClass, Reads, Update,
       GetNodeConfigs, GetStorageClasses, GetSnapshotClasses, ListInstances, ListClusters,
       Recommends, GetPrivateLan, ListRdbInstances, DropAddress, GetDhcpStatus, DropPool,
       PoolsDropped, DetermineCidr, CallFails, Restart
  <1>7. CASE Writes
    BY <1>3, <1>5, <1>7 DEF Writes, SetNodeConfig, NodesSet, ListClasses, ClassesSet,
       CheckSecret, DeleteSecret, CreateSecret, CreateBucket
  <1>8. CASE Environment
    <2>1. UserParams \subseteq Params
      BY DEF Params, UserCidrs
    <2> QED BY <1>0, <1>1, <1>2, <1>3, <1>8, <2>1 DEF Environment, NodeJoins, NodeLeaves,
               RegisterNodePrivateIP, IPChanges, UserCreates, UserDeletes
  <1> QED BY <1>6, <1>7, <1>8 DEF Next, Step

(* Everything else the configurator, the nodes and the users write.         *)
LEMMA WorldStep ==
  ASSUME TypeOK, SecretOK, Next
  PROVE  /\ ip' \in [Nodes -> IPs] /\ snapClass' \in BOOLEAN
         /\ secret' \in {None, Incomplete} \cup Buckets /\ buckets' \subseteq Buckets
         /\ hatoba' \in BOOLEAN /\ lan' \in Lans /\ changes' \in 0..MaxChanges
  <1> USE DEF TypeOK
  <1>1. CASE Starts \/ Reads \/ Recommends \/ CallFails \/ Restart
    BY <1>1 DEF Starts, ListTemplates, InstallClass, InstallSnapshotClass, Reads, Update,
       GetNodeConfigs, GetStorageClasses, GetSnapshotClasses, ListInstances, ListClusters,
       Recommends, GetPrivateLan, ListRdbInstances, DropAddress, GetDhcpStatus, DropPool,
       PoolsDropped, DetermineCidr, CallFails, Restart
  <1>2. CASE Writes
    BY <1>2 DEF Writes, SetNodeConfig, NodesSet, ListClasses, DeleteClass, CreateClass,
       ClassesSet, CheckSecret, DeleteSecret, CreateSecret, CreateBucket, SecretOK
  <1>3. CASE Environment
    BY <1>3 DEF Environment, Changes, NodeJoins, NodeLeaves, RegisterNodePrivateIP, IPChanges,
       UserCreates, UserDeletes
  <1> QED BY <1>1, <1>2, <1>3 DEF Next, Step

-----------------------------------------------------------------------------
(* Lost classes. *)

(* Only a fault loses a class, and no more than one.                        *)
LEMMA LostStep ==
  ASSUME TypeOK, LoopsOK, Next
  PROVE  \/ Lost' \subseteq Lost
         \/ (\E c : Lost' \subseteq Lost \cup {c}) /\ faults' = faults + 1
  <1>0. faults \in 0..MaxFaults
    BY DEF TypeOK
  <1>1. ASSUME UNCHANGED <<class, wanted>>, pc # "create"
        PROVE  Lost' \subseteq Lost
    BY <1>1 DEF Lost
  <1>2. CASE Starts
    <2>1. ASSUME NEW t \in Templates, InstallClass(t)
          PROVE  Lost' \subseteq Lost
      <3>1. pc # "create" /\ pc' # "create"
        BY <2>1 DEF InstallClass, Goes, Finish
      <3>2. CASE class' = Put(class, t, NoParams) /\ wanted' = wanted \cup {t}
        <4>1. DOMAIN class' = DOMAIN class \cup {t}
          BY <3>2 DEF Put
        <4> QED BY <3>1, <3>2, <4>1 DEF Lost
      <3> QED BY <1>1, <2>1, <3>1, <3>2 DEF InstallClass
    <2> QED BY <1>1, <1>2, <2>1 DEF Starts, ListTemplates, InstallSnapshotClass
  <1>3. CASE Reads \/ Recommends
    BY <1>1, <1>3 DEF Reads, Update, GetNodeConfigs, GetStorageClasses, GetSnapshotClasses,
       ListInstances, ListClusters, Recommends, GetPrivateLan, ListRdbInstances, DropAddress,
       GetDhcpStatus, DropPool, PoolsDropped, DetermineCidr
  <1>4. ASSUME NEW c \in Classes, DeleteClass(c)
        PROVE  \/ Lost' \subseteq Lost
               \/ Lost' \subseteq Lost \cup {c} /\ faults' = faults + 1
    <2>1. pc # "create" /\ UNCHANGED wanted
      BY <1>4 DEF DeleteClass
    <2>2. CASE class' = Drop(class, c) /\ Goes("create", [conf EXCEPT !.left = {c}])
      <3>1. DOMAIN class' = DOMAIN class \ {c}
        BY <2>2 DEF Drop
      <3>2. CASE pc' = "create" /\ conf' = [conf EXCEPT !.left = {c}]
        <4>1. conf'.left = {c}
          BY <3>2, Fields DEF TypeOK
        <4> QED BY <2>1, <3>1, <3>2, <4>1 DEF Lost
      <3>3. CASE Fault("lost") /\ Finish
        BY <2>1, <3>1, <3>3 DEF Lost, Fault, Finish
      <3> QED BY <2>2, <3>2, <3>3 DEF Goes
    <2>3. CASE Finish /\ UNCHANGED class
      BY <1>1, <2>1, <2>3
    <2> QED BY <1>4, <2>2, <2>3 DEF DeleteClass
  <1>5. ASSUME NEW c \in Classes, CreateClass(c)
        PROVE  Lost' \subseteq Lost
    <2>1. pc = "create" /\ conf.left = {c} /\ UNCHANGED wanted
      BY <1>5 DEF CreateClass, LoopsOK
    <2>2. DOMAIN class' = DOMAIN class \cup {c}
      BY <1>5 DEF CreateClass, Put
    <2> QED BY <2>1, <2>2 DEF Lost
  <1>6. CASE Writes
    BY <1>1, <1>4, <1>5, <1>6 DEF Writes, SetNodeConfig, NodesSet, ListClasses, ClassesSet,
       CheckSecret, DeleteSecret, CreateSecret, CreateBucket
  <1>7. CASE CallFails \/ Restart
    <2>1. UNCHANGED <<class, wanted>> /\ faults' = faults + 1
      BY <1>7 DEF CallFails, Restart, Fault
    <2>2. CASE pc = "create"
      <3>1. PICK c : conf.left = {c}
        BY <2>2 DEF LoopsOK
      <3> QED BY <2>1, <2>2, <3>1 DEF Lost
    <2> QED BY <1>1, <2>1, <2>2
  <1>8. CASE Environment
    <2>1. UNCHANGED <<pc, conf>>
      BY <1>8 DEF Environment, Changes, NodeJoins, NodeLeaves, RegisterNodePrivateIP, IPChanges,
                  UserCreates, UserDeletes
    <2>2. \/ UNCHANGED <<class, wanted>>
          \/ \E c : DOMAIN class' = DOMAIN class \cup {c} /\ wanted' = wanted \cup {c}
          \/ \E c : DOMAIN class' = DOMAIN class \ {c} /\ wanted' = wanted \ {c}
      BY <1>8 DEF Environment, NodeJoins, NodeLeaves, RegisterNodePrivateIP, IPChanges,
                  UserCreates, UserDeletes, Put, Drop
    <2> QED BY <2>1, <2>2 DEF Lost
  <1> QED BY <1>2, <1>3, <1>6, <1>7, <1>8 DEF Next, Step

(* Every class counted as wanted was added by one step.                     *)
LEMMA WantedStep ==
  ASSUME Next
  PROVE  \E c : wanted' \subseteq wanted \cup {c}
  <1>1. CASE Starts \/ Reads \/ Recommends \/ CallFails \/ Restart
    BY <1>1 DEF Starts, ListTemplates, InstallClass, InstallSnapshotClass, Reads, Update,
       GetNodeConfigs, GetStorageClasses, GetSnapshotClasses, ListInstances, ListClusters,
       Recommends, GetPrivateLan, ListRdbInstances, DropAddress, GetDhcpStatus, DropPool,
       PoolsDropped, DetermineCidr, CallFails, Restart
  <1>2. CASE Writes
    BY <1>2 DEF Writes, SetNodeConfig, NodesSet, ListClasses, DeleteClass, CreateClass,
       ClassesSet, CheckSecret, DeleteSecret, CreateSecret, CreateBucket
  <1>3. CASE Environment
    BY <1>3 DEF Environment, NodeJoins, NodeLeaves, RegisterNodePrivateIP, IPChanges,
       UserCreates, UserDeletes
  <1> QED BY <1>1, <1>2, <1>3 DEF Next, Step

(* A finite set, and the same set with one element more.                    *)
LEMMA OneMore ==
  ASSUME NEW S, IsFiniteSet(S), NEW x, NEW T, T \subseteq S \cup {x}
  PROVE  /\ IsFiniteSet(T) /\ Cardinality(S) \in Nat /\ Cardinality(T) \in Nat
         /\ Cardinality(T) <= Cardinality(S) + 1
         /\ T \subseteq S => Cardinality(T) <= Cardinality(S)
  <1>1. IsFiniteSet(S \cup {x}) /\ Cardinality(S) \in Nat
    BY FS_AddElement, FS_CardinalityType
  <1>2. Cardinality(S \cup {x}) <= Cardinality(S) + 1
    BY <1>1, FS_AddElement
  <1>3. /\ IsFiniteSet(T) /\ Cardinality(T) \in Nat /\ Cardinality(S \cup {x}) \in Nat
        /\ Cardinality(T) <= Cardinality(S \cup {x})
    BY <1>1, FS_Subset, FS_CardinalityType
  <1>4. T \subseteq S => Cardinality(T) <= Cardinality(S)
    BY FS_Subset
  <1> QED BY <1>1, <1>2, <1>3, <1>4

(* Every step keeps the bound on the classes that are lost.                 *)
LEMMA LossesStep ==
  ASSUME IInv, Next
  PROVE  LossesOK'
  <1>0. /\ TypeOK /\ LoopsOK /\ IsFiniteSet(wanted) /\ Cardinality(Lost) <= faults
        /\ faults \in Nat
    BY DEF IInv, LossesOK, TypeOK
  <1>1. IsFiniteSet(wanted')
    <2>1. PICK c : wanted' \subseteq wanted \cup {c}
      BY WantedStep
    <2> QED BY <1>0, <2>1, OneMore
  <1>2. IsFiniteSet(Lost)
    <2>1. Lost \subseteq wanted
      BY DEF Lost
    <2> QED BY <1>0, <2>1, FS_Subset
  <1>3. faults' = faults \/ faults' = faults + 1
    BY <1>0, FaultsStep
  <1>4. CASE Lost' \subseteq Lost
    <2>1. Cardinality(Lost') <= Cardinality(Lost) /\ Cardinality(Lost) \in Nat
          /\ Cardinality(Lost') \in Nat
      BY <1>2, <1>4, OneMore
    <2> QED BY <1>0, <1>1, <1>3, <2>1 DEF LossesOK
  <1>5. ASSUME NEW c, Lost' \subseteq Lost \cup {c}, faults' = faults + 1
        PROVE  LossesOK'
    <2>1. Cardinality(Lost') <= Cardinality(Lost) + 1 /\ Cardinality(Lost) \in Nat
          /\ Cardinality(Lost') \in Nat
      BY <1>2, <1>5, OneMore
    <2> QED BY <1>0, <1>1, <1>5, <2>1 DEF LossesOK
  <1> QED BY <1>0, <1>4, <1>5, LostStep

-----------------------------------------------------------------------------
(* The secret. *)

Early == pc \in {"start", "install", "idle", "nodes", "classes", "snapshots"}
Replaces == pc \in {"secret", "replace", "bucket"}

(* A state in which nothing is planned for the snapshots.                   *)
LEMMA NothingPlanned ==
  ASSUME "snapshots" \notin conf'.todo, ~Replaces'
  PROVE  SecretOK'
  BY DEF SecretOK, Replaces

(* A step between the plan and the secret.                                  *)
LEMMA PlanKept ==
  ASSUME TypeOK, SecretOK, Next, ~Early, ~Early', ~Replaces, ~Replaces',
         conf'.todo = conf.todo, UNCHANGED <<snapClass, secret>>
  PROVE  SecretOK'
  <1>1. faults' >= faults /\ faults \in Nat /\ faults' \in Nat
    BY FaultsStep DEF TypeOK
  <1> QED BY <1>1 DEF SecretOK, Early, Replaces

(* The end of an update, and a new process, plan nothing.                   *)
LEMMA FinishSecret ==
  ASSUME Finish \/ Restart
  PROVE  SecretOK'
  <1>1. CASE Finish
    BY <1>1, FinishFields, NothingPlanned DEF Replaces
  <1>2. CASE Restart
    BY <1>2, NothingPlanned DEF Replaces, Restart, Fresh
  <1> QED BY <1>1, <1>2

(* Before the plan is made, and when it is made.                            *)
LEMMA StartsReadsSecret ==
  ASSUME IInv, Next, Starts \/ Reads
  PROVE  SecretOK'
  <1>0. TypeOK /\ ConfOK /\ SecretOK /\ faults \in Nat
    BY DEF IInv, TypeOK
  <1>1. ASSUME Early, conf'.todo \subseteq conf.todo \cup {"nodes", "classes"}, ~Replaces'
        PROVE  SecretOK'
    BY <1>0, <1>1, NothingPlanned DEF SecretOK, Early
  <1>2. CASE ListTemplates \/ Update
    <2>1. conf'.todo = conf.todo
      BY <1>0, <1>2, Fields DEF ListTemplates, Update
    <2> QED BY <1>1, <1>2, <2>1 DEF ListTemplates, Update, Early, Replaces
  <1>3. ASSUME NEW t \in Templates, InstallClass(t)
        PROVE  SecretOK'
    <2>1. CASE pc' = "install" /\ conf' = [conf EXCEPT !.left = @ \ {t}]
      <3>1. conf'.todo = conf.todo
        BY <1>0, <2>1, Fields
      <3> QED BY <1>1, <1>3, <2>1, <3>1 DEF InstallClass, Early, Replaces
    <2> QED BY <1>3, <2>1, FinishSecret DEF InstallClass, Goes
  <1>4. CASE InstallSnapshotClass
    <2>1. CASE pc' = "nodes" /\ UNCHANGED conf
      BY <1>1, <1>4, <2>1 DEF InstallSnapshotClass, Early, Replaces
    <2> QED BY <1>4, <2>1, FinishSecret DEF InstallSnapshotClass, Goes
  <1>5. CASE GetNodeConfigs
    <2>1. conf'.todo \subseteq {"nodes"}
      BY <1>0, <1>5, Fields DEF GetNodeConfigs
    <2> QED BY <1>1, <1>5, <2>1 DEF GetNodeConfigs, Early, Replaces
  <1>6. CASE GetStorageClasses
    <2>1. conf'.todo \subseteq conf.todo \cup {"classes"}
      BY <1>0, <1>6, Fields DEF GetStorageClasses
    <2> QED BY <1>1, <1>6, <2>1 DEF GetStorageClasses, Early, Replaces
  <1>7. CASE GetSnapshotClasses
    <2>1. PICK misread \in BOOLEAN :
             LET complete == snapClass /\ secret \in Buckets /\ ~misread
                 todo == IF complete \/ ~CfgSnapRepo
                         THEN conf.todo ELSE conf.todo \cup {"snapshots"}
             IN  /\ IF misread THEN CfgSnapRepo /\ Fault("read") ELSE UNCHANGED faults
                 /\ IF todo = {}
                    THEN Finish
                    ELSE pc' = "cloud" /\ conf' = [conf EXCEPT !.todo = todo]
      BY <1>7 DEF GetSnapshotClasses
    <2>2. UNCHANGED <<snapClass, secret>> /\ "snapshots" \notin conf.todo
      BY <1>0, <1>7 DEF GetSnapshotClasses, SecretOK
    <2>3. misread => faults' >= 1
      BY <1>0, <2>1 DEF Fault
    <2>4. CASE /\ pc' = "cloud"
               /\ conf' = [conf EXCEPT !.todo =
                     IF (snapClass /\ secret \in Buckets /\ ~misread) \/ ~CfgSnapRepo
                     THEN conf.todo ELSE conf.todo \cup {"snapshots"}]
      <3>1. conf'.todo = IF (snapClass /\ secret \in Buckets /\ ~misread) \/ ~CfgSnapRepo
                         THEN conf.todo ELSE conf.todo \cup {"snapshots"}
        BY <1>0, <2>4, Fields
      <3>2. "snapshots" \in conf'.todo /\ snapClass' /\ secret' \in Buckets => misread
        BY <2>2, <3>1
      <3> QED BY <2>3, <2>4, <3>2 DEF SecretOK
    <2> QED BY <2>1, <2>4, FinishSecret
  <1>8. CASE ListInstances \/ ListClusters
    <2>1. CASE Finish
      BY <2>1, FinishSecret
    <2>2. ASSUME NEW zone, NEW network, NodesKnown(zone, network)
          PROVE  SecretOK'
      <3>1. conf'.todo = conf.todo /\ pc' \in {"lan", "setnodes"}
        BY <1>0, <2>2, NodesKnownFields
      <3>2. pc = "cloud" /\ UNCHANGED <<snapClass, secret>>
        BY <1>8 DEF ListInstances, ListClusters
      <3> QED BY <1>0, <3>1, <3>2, PlanKept DEF Early, Replaces
    <2> QED BY <1>8, <2>1, <2>2 DEF ListInstances, ListClusters
  <1> QED BY <1>2, <1>3, <1>4, <1>5, <1>6, <1>7, <1>8 DEF Starts, Reads

(* The recommendation of a block.                                           *)
LEMMA RecommendsSecret ==
  ASSUME IInv, Next, Recommends
  PROVE  SecretOK'
  <1>0. TypeOK /\ ConfOK /\ SecretOK
    BY DEF IInv, TypeOK
  <1>1. ~Early /\ ~Replaces /\ UNCHANGED <<snapClass, secret>>
    BY DEF Recommends, GetPrivateLan, ListRdbInstances, DropAddress, GetDhcpStatus, DropPool,
           PoolsDropped, DetermineCidr, Early, Replaces
  <1>2. Finish \/ (~Early' /\ ~Replaces' /\ conf'.todo = conf.todo)
    <2>1. CASE GetPrivateLan
      <3>1. CASE pc' = "rdbs" /\ conf' = [conf EXCEPT !.divs = newCidrDivs(lan.bits)]
        <4>1. conf'.todo = conf.todo
          BY <1>0, <3>1, Fields
        <4> QED BY <3>1, <4>1 DEF Early, Replaces
      <3> QED BY <2>1, <3>1 DEF GetPrivateLan
    <2>2. CASE ListRdbInstances \/ GetDhcpStatus \/ PoolsDropped
      <3>1. PICK X : conf' = [conf EXCEPT !.left = X]
        BY <2>2 DEF ListRdbInstances, GetDhcpStatus, PoolsDropped
      <3>2. conf'.todo = conf.todo
        BY <1>0, <3>1, Fields
      <3> QED BY <2>2, <3>2 DEF ListRdbInstances, GetDhcpStatus, PoolsDropped, Early, Replaces
    <2>3. ASSUME NEW a, DropAddress(a) \/ DropPool(a)
          PROVE  ~Early' /\ ~Replaces' /\ conf'.todo = conf.todo
      <3>1. PICK X, Y : conf' = [conf EXCEPT !.left = X, !.divs = Y]
        BY <2>3 DEF DropAddress, DropPool
      <3>2. conf'.todo = conf.todo
        BY <1>0, <3>1, Fields
      <3> QED BY <2>3, <3>2 DEF DropAddress, DropPool, Early, Replaces
    <2>4. CASE DetermineCidr
      <3>1. PICK X, Y, Z : conf' = [conf EXCEPT !.left = X, !.divs = Y, !.cidr = Z]
        BY <2>4 DEF DetermineCidr
      <3>2. conf'.todo = conf.todo
        BY <1>0, <3>1, Fields
      <3> QED BY <2>4, <3>2 DEF DetermineCidr, Early, Replaces
    <2> QED BY <2>1, <2>2, <2>3, <2>4 DEF Recommends
  <1> QED BY <1>0, <1>1, <1>2, PlanKept, FinishSecret

(* The writes: the secret is replaced only by the last steps.               *)
LEMMA WritesSecret ==
  ASSUME IInv, Next, Writes
  PROVE  SecretOK'
  <1>0. TypeOK /\ ConfOK /\ SecretOK /\ faults \in Nat /\ faults' \in Nat /\ faults' >= faults
    BY FaultsStep DEF IInv, TypeOK
  <1>1. CASE \/ \E n \in Nodes : SetNodeConfig(n)
             \/ ListClasses
             \/ \E c \in Classes : DeleteClass(c) \/ CreateClass(c)
    <2>1. ~Early /\ ~Replaces /\ UNCHANGED <<snapClass, secret>>
      BY <1>1 DEF SetNodeConfig, ListClasses, DeleteClass, CreateClass, Early, Replaces
    <2>2. ASSUME NEW X, NEW Y, \/ conf' = [conf EXCEPT !.left = X]
                               \/ conf' = [conf EXCEPT !.listed = X]
                               \/ conf' = [conf EXCEPT !.left = X, !.listed = Y]
          PROVE  conf'.todo = conf.todo
      BY <1>0, <2>2, Fields
    <2>3. Finish \/ (~Early' /\ ~Replaces' /\ conf'.todo = conf.todo)
      <3>1. ASSUME NEW n \in Nodes, SetNodeConfig(n)
            PROVE  Finish \/ (~Early' /\ ~Replaces' /\ conf'.todo = conf.todo)
        <4>1. Finish \/ \E X, Y : \/ conf' = [conf EXCEPT !.left = X]
                                 \/ conf' = [conf EXCEPT !.left = X, !.listed = Y]
          BY <3>1 DEF SetNodeConfig, Goes
        <4>2. Finish \/ (~Early' /\ ~Replaces')
          BY <3>1 DEF SetNodeConfig, Goes, Early, Replaces
        <4> QED BY <2>2, <4>1, <4>2
      <3>2. CASE ListClasses
        BY <2>2, <3>2 DEF ListClasses, Early, Replaces
      <3>3. ASSUME NEW c \in Classes, DeleteClass(c)
            PROVE  Finish \/ (~Early' /\ ~Replaces' /\ conf'.todo = conf.todo)
        <4>1. Finish \/ \E X, Y : \/ conf' = [conf EXCEPT !.left = X]
                                 \/ conf' = [conf EXCEPT !.left = X, !.listed = Y]
          BY <3>3 DEF DeleteClass, Goes
        <4>2. Finish \/ (~Early' /\ ~Replaces')
          BY <3>3 DEF DeleteClass, Goes, Early, Replaces
        <4> QED BY <2>2, <4>1, <4>2
      <3>4. ASSUME NEW c \in Classes, CreateClass(c)
            PROVE  Finish \/ (~Early' /\ ~Replaces' /\ conf'.todo = conf.todo)
        <4>1. Finish \/ \E X, Y : \/ conf' = [conf EXCEPT !.left = X]
                                 \/ conf' = [conf EXCEPT !.left = X, !.listed = Y]
          BY <3>4 DEF CreateClass, Goes
        <4>2. Finish \/ (~Early' /\ ~Replaces')
          BY <3>4 DEF CreateClass, Goes, Early, Replaces
        <4> QED BY <2>2, <4>1, <4>2
      <3> QED BY <1>1, <3>1, <3>2, <3>3, <3>4
    <2> QED BY <1>0, <2>1, <2>3, PlanKept, FinishSecret
  <1>2. CASE NodesSet \/ ClassesSet
    <2>1. UNCHANGED <<snapClass, secret>> /\ pc \in {"setnodes", "delete"}
      BY <1>2 DEF NodesSet, ClassesSet
    <2>2. \/ Finish
          \/ pc' = "list" /\ UNCHANGED conf
          \/ pc' = "secret" /\ "snapshots" \in conf.todo /\ UNCHANGED conf
      BY <1>2 DEF NodesSet, ClassesSet, ThenSnapshots
    <2> QED BY <1>0, <2>1, <2>2, FinishSecret DEF SecretOK
  <1>3. CASE CheckSecret
    <2>1. pc = "secret" /\ UNCHANGED <<snapClass, secret>>
      BY <1>3 DEF CheckSecret
    <2>2. \/ Finish
          \/ /\ pc' = "replace" /\ UNCHANGED conf /\ snapClass
             /\ secret \notin Buckets \/ faults' = faults + 1
      BY <1>3 DEF CheckSecret, Fault
    <2> QED BY <1>0, <2>1, <2>2, FinishSecret DEF SecretOK
  <1>4. CASE DeleteSecret
    BY <1>0, <1>4, FinishSecret DEF DeleteSecret, Goes, SecretOK
  <1>5. ASSUME NEW b \in Buckets, CreateSecret(b)
        PROVE  SecretOK'
    BY <1>0, <1>5, FinishSecret DEF CreateSecret, Goes, SecretOK
  <1>6. CASE CreateBucket
    BY <1>6, FinishSecret DEF CreateBucket
  <1> QED BY <1>1, <1>2, <1>3, <1>4, <1>5, <1>6 DEF Writes

(* Every step keeps SecretOK.                                               *)
LEMMA SecretStep ==
  ASSUME IInv, Next
  PROVE  SecretOK'
  <1>1. CASE Environment
    <2>1. UNCHANGED <<pc, conf, snapClass, secret, faults>>
      BY <1>1 DEF Environment, Changes, NodeJoins, NodeLeaves, RegisterNodePrivateIP, IPChanges,
                  UserCreates, UserDeletes
    <2> QED BY <2>1 DEF IInv, SecretOK
  <1>2. CASE CallFails \/ Restart
    BY <1>2, FinishSecret DEF CallFails
  <1> QED BY <1>1, <1>2, StartsReadsSecret, RecommendsSecret, WritesSecret DEF Next, Step

-----------------------------------------------------------------------------
(* The theorems. *)

(* A started driver holds nothing, has lost nothing and recommends nothing. *)
LEMMA InitIInv ==
  ASSUME Init
  PROVE  IInv
  <1>1. /\ conf.todo = {} /\ conf.nodes = Empty /\ conf.zone = None /\ conf.networkID = None
        /\ conf.cidr = None /\ conf.divs = << >> /\ conf.listed = Empty
        /\ DOMAIN conf = DOMAIN Fresh /\ pc = "start"
    BY DEF Init, Fresh
  <1>2. ConfOK
    <2>1. << >> \in Seq(Block)
      OBVIOUS
    <2> QED BY <1>1, <2>1, EmptyPartial DEF ConfOK
  <1>3. TypeOK
    <2>1. /\ snapClass \in BOOLEAN /\ secret \in {None, Incomplete} /\ buckets = {}
          /\ hatoba \in BOOLEAN /\ lan \in Lans /\ wanted = {} /\ faults = 0 /\ changes = 0
          /\ class = Empty
      BY DEF Init
    <2>2. IsPartial(csinode, Nodes, IPs \cup {None})
      BY DEF Init, IsPartial
    <2>3. ip \in [Nodes -> IPs]
      BY DEF Init, FirstIP
    <2> QED BY <1>1, <1>2, <2>1, <2>2, <2>3, EmptyPartial DEF TypeOK
  <1>4. LoopsOK /\ DivsOK /\ SecretOK
    BY <1>1 DEF LoopsOK, DivsOK, SecretOK, Divides
  <1>5. BlocksOK
    <2>1. class = Empty
      BY DEF Init
    <2> QED BY <1>1, <2>1 DEF BlocksOK, WellChosen, Empty
  <1>6. LossesOK
    <2>1. wanted = {} /\ faults = 0
      BY DEF Init
    <2>2. Lost = {}
      BY <2>1 DEF Lost
    <2> QED BY <2>1, <2>2, FS_EmptySet DEF LossesOK
  <1> QED BY <1>3, <1>4, <1>5, <1>6 DEF IInv

(* Every step keeps the invariant.                                          *)
LEMMA NextIInv ==
  ASSUME IInv, Next
  PROVE  IInv'
  <1>0. TypeOK /\ LoopsOK /\ SecretOK
    BY DEF IInv
  <1>1. ConfOK' /\ LoopsOK' /\ DivsOK' /\ BlocksOK'
    BY <1>0, StartsConf, StartsStep, ReadsConf, ReadsStep, RecommendsStep, WritesStep, OthersStep
       DEF Next, Step
  <1>2. TypeOK'
    BY <1>0, <1>1, PcStep, NodesStep, ClassesStep, WorldStep, FaultsStep DEF TypeOK, PCs
  <1> QED BY <1>1, <1>2, LossesStep, SecretStep DEF IInv

(* The invariant mentions nothing but the variables.                        *)
LEMMA StutterIInv ==
  ASSUME IInv, UNCHANGED vars
  PROVE  IInv'
  <1>0. /\ pc' = pc /\ conf' = conf /\ csinode' = csinode /\ class' = class
        /\ snapClass' = snapClass /\ secret' = secret /\ buckets' = buckets
        /\ wanted' = wanted /\ ip' = ip /\ hatoba' = hatoba /\ lan' = lan
        /\ changes' = changes /\ faults' = faults
    OBVIOUS
  <1>1. TypeOK'
    BY <1>0 DEF IInv, TypeOK, ConfOK
  <1>2. LoopsOK' /\ DivsOK'
    BY <1>0 DEF IInv, LoopsOK, DivsOK, Divides
  <1>3. BlocksOK' /\ LossesOK' /\ SecretOK'
    BY <1>0 DEF IInv, BlocksOK, WellChosen, Free, LossesOK, Lost, SecretOK
  <1> QED BY <1>1, <1>2, <1>3 DEF IInv

(* The inductive invariant holds in every behaviour of the configurator.    *)
THEOREM ConfiguratorInvariance == Spec => []IInv
  <1>1. Init => IInv
    BY InitIInv
  <1>2. IInv /\ [Next]_vars => IInv'
    BY NextIInv, StutterIInv
  <1> QED BY <1>1, <1>2, PTL DEF Spec

(* Every field of the configurator and every object it keeps has its type:  *)
(* no update writes a class, an annotation or a secret it has not built.    *)
THEOREM ConfiguratorTypeCorrect == Spec => []TypeOK
  <1>1. IInv => TypeOK
    BY DEF IInv
  <1> QED BY <1>1, ConfiguratorInvariance, PTL

(* A recommended block meets no RDB instance, no DHCP pool and no static    *)
(* address of the LAN, whatever the LAN and whatever order they are dropped *)
(* in, and it is a division of the LAN.                                     *)
THEOREM RecommendedBlocksAreFree == Spec => []RecommendedIsFree
  <1>1. IInv => RecommendedIsFree
    BY DEF IInv, BlocksOK, RecommendedIsFree
  <1> QED BY <1>1, ConfiguratorInvariance, PTL

(* However many classes an update replaces, only faults lose classes, and   *)
(* each fault at most one.                                                  *)
THEOREM LostClassesArePaid == Spec => []LostClassesPaid
  <1>1. ASSUME IInv
        PROVE  LostClassesPaid
    <2>0. IsFiniteSet(wanted) /\ Cardinality(Lost) <= faults /\ faults \in Nat
      BY <1>1 DEF IInv, LossesOK, TypeOK
    <2>1. IsFiniteSet(Lost)
      <3>1. Lost \subseteq wanted
        BY DEF Lost
      <3> QED BY <2>0, <3>1, FS_Subset
    <2>2. CASE pc = "create"
      <3>1. PICK c : conf.left = {c}
        BY <1>1, <2>2 DEF IInv, LoopsOK
      <3>2. wanted \ DOMAIN class \subseteq Lost \cup {c}
        BY <2>2, <3>1 DEF Lost
      <3>3. /\ Cardinality(wanted \ DOMAIN class) <= Cardinality(Lost) + 1
            /\ Cardinality(wanted \ DOMAIN class) \in Nat /\ Cardinality(Lost) \in Nat
        BY <2>1, <3>2, OneMore
      <3> QED BY <2>0, <2>2, <3>3 DEF LostClassesPaid
    <2>3. CASE pc # "create"
      <3>1. Lost = wanted \ DOMAIN class
        BY <2>3 DEF Lost
      <3>2. Cardinality(Lost) \in Nat
        BY <2>1, FS_CardinalityType
      <3> QED BY <2>0, <2>3, <3>1, <3>2 DEF LostClassesPaid
    <2> QED BY <2>2, <2>3
  <1> QED BY <1>1, ConfiguratorInvariance, PTL

(* One failing read of the secret does not cost the snapshots their         *)
(* repository: the second read, in setSnapshotClasses, must fail as well.   *)
THEOREM RepositoryIsKept == Spec => RepositoryKept
  <1>1. ASSUME IInv, Next, secret \in Buckets, secret' # secret
        PROVE  faults' >= 2
    <2>1. faults' >= faults /\ faults \in Nat /\ faults' \in Nat
      BY <1>1, FaultsStep DEF IInv, TypeOK
    <2>2. secret # None
      BY <1>1
    <2>3. pc = "replace"
      <3>1. CASE Starts \/ Reads \/ Recommends \/ CallFails \/ Restart
        BY <1>1, <3>1 DEF Starts, ListTemplates, InstallClass, InstallSnapshotClass, Reads,
           Update, GetNodeConfigs, GetStorageClasses, GetSnapshotClasses, ListInstances,
           ListClusters, Recommends, GetPrivateLan, ListRdbInstances, DropAddress,
           GetDhcpStatus, DropPool, PoolsDropped, DetermineCidr, CallFails, Restart
      <3>2. CASE Writes
        BY <1>1, <3>2 DEF Writes, SetNodeConfig, NodesSet, ListClasses, DeleteClass,
           CreateClass, ClassesSet, CheckSecret, DeleteSecret, CreateSecret, CreateBucket
      <3>3. CASE Environment
        BY <1>1, <3>3 DEF Environment, Changes, NodeJoins, NodeLeaves, RegisterNodePrivateIP,
           IPChanges, UserCreates, UserDeletes
      <3> QED BY <1>1, <3>1, <3>2, <3>3 DEF Next, Step
    <2> QED BY <1>1, <2>1, <2>3 DEF IInv, SecretOK
  <1>2. IInv /\ [Next]_vars => [(secret \in Buckets /\ secret' # secret) => faults' >= 2]_vars
    BY <1>1
  <1> QED BY <1>2, ConfiguratorInvariance, PTL DEF Spec, RepositoryKept

=============================================================================
