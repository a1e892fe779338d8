---------------------- MODULE VolumeControllerShared ----------------------
(***************************************************************************)
(* Proofs about the shared volumes and the instances of VolumeController.  *)
(*                                                                         *)
(* In the first half the provisioner waits for its calls and the           *)
(* controller stays up: placements are serialized (SerialInv), so that the *)
(* sum a handler has computed over the PVs of an instance still bounds     *)
(* what is there when the handler's own PV is created (CapacityInv).  The  *)
(* sum is a recursive function over subsets; it is identified with the     *)
(* cardinality of a set, for which there are theorems to cite.             *)
(*                                                                         *)
(* In the second half calls time out and the controller restarts, and at   *)
(* most one volume is shared.  All that a handler, a PV or a job refers to *)
(* belongs to one volume then (FitInv); from there follow the source path  *)
(* of bound volumes (PathInv) and, if no call to the cloud fails, that no  *)
(* instance outlives its volume (LeakInv).  The steps are sorted by what   *)
(* they do to the handlers (CallKinds) and to the stores (StoreKinds).     *)
(***************************************************************************)
EXTENDS VolumeControllerProofs, FiniteSetTheorems

-----------------------------------------------------------------------------
(* The sum of the capacities of some volumes. *)

(* A set with as many elements as a volume requests bytes, and the same for *)
(* the volumes of a set.                                                    *)
Bytes(v) == {v} \X (1..ReqCap[v])

Units(S) == UNION {Bytes(v) : v \in S}

(* A volume has as many units as it requests bytes.                         *)
LEMMA BytesCount ==
  ASSUME NEW v \in Volumes
  PROVE  IsFiniteSet(Bytes(v)) /\ Cardinality(Bytes(v)) = ReqCap[v]
  <1>1. ReqCap[v] \in Nat
    BY ConstantsAssumption
  <1>2. IsFiniteSet(1..ReqCap[v]) /\ Cardinality(1..ReqCap[v]) = ReqCap[v]
    BY <1>1, FS_Interval
  <1>3. IsFiniteSet({v}) /\ Cardinality({v}) = 1
    BY FS_Singleton
  <1>4. /\ IsFiniteSet({v} \X (1..ReqCap[v]))
        /\ Cardinality({v} \X (1..ReqCap[v])) = Cardinality({v}) * Cardinality(1..ReqCap[v])
    BY <1>2, <1>3, FS_Product, Zenon
  <1>5. Cardinality({v}) * Cardinality(1..ReqCap[v]) = ReqCap[v]
    BY <1>1, <1>2, <1>3
  <1> QED  BY <1>4, <1>5, Zenon DEF Bytes

(* Finitely many volumes have finitely many units.                          *)
LEMMA UnitsFinite ==
  ASSUME NEW S \in SUBSET Volumes, IsFiniteSet(S)
  PROVE  IsFiniteSet(Units(S)) /\ Cardinality(Units(S)) \in Nat
  <1>1. IsFiniteSet({Bytes(v) : v \in S})
    <2> DEFINE f == [v \in S |-> Bytes(v)]
    <2>1. f \in Surjection(S, {Bytes(v) : v \in S})
      BY DEF Surjection
    <2> HIDE DEF f
    <2> QED  BY <2>1, FS_Surjection
  <1>2. \A T \in {Bytes(v) : v \in S} : IsFiniteSet(T)
    BY BytesCount
  <1>3. IsFiniteSet(Units(S))
    BY <1>1, <1>2, FS_UNION DEF Units
  <1> QED  BY <1>3, FS_CardinalityType

(* One more volume adds what it requests.                                   *)
LEMMA UnitsAdd ==
  ASSUME NEW S \in SUBSET Volumes, IsFiniteSet(S), NEW v \in Volumes, v \notin S
  PROVE  Cardinality(Units(S \cup {v})) = ReqCap[v] + Cardinality(Units(S))
  <1>1. Units(S \cup {v}) = Units(S) \cup Bytes(v)
    BY DEF Units
  <1>2. Units(S) \cap Bytes(v) = {}
    BY DEF Units, Bytes
  <1>3. IsFiniteSet(Units(S)) /\ Cardinality(Units(S)) \in Nat /\ ReqCap[v] \in Nat
    BY UnitsFinite, ConstantsAssumption
  <1>4. IsFiniteSet(Bytes(v)) /\ Cardinality(Bytes(v)) = ReqCap[v]
    BY BytesCount
  <1>5. Cardinality(Units(S) \cup Bytes(v))
          = Cardinality(Units(S)) + Cardinality(Bytes(v)) - Cardinality({})
    BY <1>2, <1>3, <1>4, FS_Union
  <1>6. Cardinality({}) = 0
    BY FS_EmptySet
  <1>7. Cardinality(Units(S) \cup Bytes(v)) = ReqCap[v] + Cardinality(Units(S))
    BY <1>3, <1>4, <1>5, <1>6
  <1> QED  BY <1>1, <1>7

(* No volumes have no units.                                                *)
LEMMA UnitsEmpty == Cardinality(Units({})) = 0
  <1>1. Units({}) = {}
    BY DEF Units
  <1> QED  BY <1>1, FS_EmptySet

(* The recursion of MapThenSumSet.                                          *)
Sums(f, S) ==
    f = [s \in SUBSET S |-> IF s = {} THEN 0
                            ELSE LET x == CHOOSE x \in s : TRUE
                                 IN  ReqCap[x] + f[s \ {x}]]

(* The number of units obeys the recursion that defines the sum of the      *)
(* requests.                                                                *)
LEMMA UnitsSum ==
  ASSUME NEW S \in SUBSET Volumes, IsFiniteSet(S)
  PROVE  Sums([s \in SUBSET S |-> Cardinality(Units(s))], S)
  <1> DEFINE g == [s \in SUBSET S |-> Cardinality(Units(s))]
  <1>1. ASSUME NEW s \in SUBSET S, s # {}
        PROVE  g[s] = LET x == CHOOSE x \in s : TRUE IN ReqCap[x] + g[s \ {x}]
    <2> DEFINE x == CHOOSE x \in s : TRUE
    <2>1. x \in s
      BY <1>1
    <2> HIDE DEF x
    <2>2. s \ {x} \in SUBSET Volumes /\ x \in Volumes /\ IsFiniteSet(s \ {x})
      BY <2>1, FS_Subset
    <2>3. (s \ {x}) \cup {x} = s
      BY <2>1
    <2>4. Cardinality(Units(s)) = ReqCap[x] + Cardinality(Units(s \ {x}))
      BY <2>2, <2>3, UnitsAdd
    <2> QED  BY <2>4 DEF x
  <1>2. g[{}] = 0
    BY UnitsEmpty
  <1>3. g = [s \in SUBSET S |-> g[s]]
    OBVIOUS
  <1> HIDE DEF g
  <1>4. g = [s \in SUBSET S |-> IF s = {} THEN 0
                                ELSE LET x == CHOOSE x \in s : TRUE
                                     IN  ReqCap[x] + g[s \ {x}]]
    BY <1>1, <1>2, <1>3
  <1>5. Sums(g, S)
    BY <1>4 DEF Sums
  <1> QED  BY <1>5 DEF g

(* The recursion has one solution: a smallest set where two differ is not   *)
(* empty, and they agree on it without its chosen element.                  *)
LEMMA SumsUnique ==
  ASSUME NEW S, IsFiniteSet(S), NEW f, NEW g, Sums(f, S), Sums(g, S)
  PROVE  f[S] = g[S]
  <1> DEFINE D == {s \in SUBSET S : f[s] # g[s]}
  <1> SUFFICES ASSUME D # {} PROVE FALSE
    OBVIOUS
  <1>1. IsWellFoundedOn(StrictSubsetOrdering(S), SUBSET S)
    BY FS_StrictSubsetOrderingWellFounded, FS_FiniteSubsetsOfFinite
  <1>2. PICK m \in D : \A s \in D : <<s, m>> \notin StrictSubsetOrdering(S)
    BY <1>1, WFMin
  <1>3. m \in SUBSET S
    OBVIOUS
  <1>4. CASE m = {}
    BY <1>3, <1>4 DEF Sums
  <1>5. CASE m # {}
    <2> DEFINE x == CHOOSE x \in m : TRUE
    <2>1. x \in m
      BY <1>5
    <2>2. f[m] = ReqCap[x] + f[m \ {x}] /\ g[m] = ReqCap[x] + g[m \ {x}]
      BY <1>3, <1>5 DEF Sums
    <2> HIDE DEF x
    <2>3. m \ {x} \in SUBSET S /\ m \ {x} \subseteq m /\ m \ {x} # m
      BY <1>3, <2>1
    <2>4. <<m \ {x}, m>> \in StrictSubsetOrdering(S)
      BY <1>3, <2>3 DEF StrictSubsetOrdering
    <2>5. f[m \ {x}] = g[m \ {x}]
      BY <1>2, <2>3, <2>4
    <2> QED  BY <2>2, <2>5
  <1> QED  BY <1>4, <1>5

(* The sum of the requests of some volumes is the number of their units.    *)
LEMMA TotalCapIs ==
  ASSUME NEW S \in SUBSET Volumes, IsFiniteSet(S)
  PROVE  TotalCap(S) = Cardinality(Units(S))
  <1> DEFINE g == [s \in SUBSET S |-> Cardinality(Units(s))]
             f == CHOOSE f : Sums(f, S)
  <1>1. Sums(g, S)
    BY UnitsSum
  <1>2. Sums(f, S)
    BY <1>1
  <1>3. TotalCap(S) = f[S]
    BY DEF TotalCap, MapThenSumSet, MapThenFoldSet, Sums
  <1>4. g[S] = Cardinality(Units(S))
    OBVIOUS
  <1> HIDE DEF f, g
  <1> QED  BY <1>1, <1>2, <1>3, <1>4, SumsUnique

(* One more volume adds its request to the sum.                             *)
LEMMA TotalCapAdd ==
  ASSUME NEW S \in SUBSET Volumes, IsFiniteSet(S), NEW v \in Volumes, v \notin S
  PROVE  TotalCap(S \cup {v}) = TotalCap(S) + ReqCap[v]
  <1>1. S \cup {v} \in SUBSET Volumes /\ IsFiniteSet(S \cup {v})
    BY FS_AddElement
  <1>2. Cardinality(Units(S \cup {v})) = ReqCap[v] + Cardinality(Units(S))
    BY UnitsAdd
  <1>3. Cardinality(Units(S)) \in Nat /\ ReqCap[v] \in Nat
    BY UnitsFinite, ConstantsAssumption
  <1>4. TotalCap(S) = Cardinality(Units(S))
    BY TotalCapIs
  <1>5. TotalCap(S \cup {v}) = Cardinality(Units(S \cup {v}))
    BY <1>1, TotalCapIs
  <1> QED  BY <1>2, <1>3, <1>4, <1>5

(* A part of the volumes requests no more than all of them.                 *)
LEMMA TotalCapMonotone ==
  ASSUME NEW T \in SUBSET Volumes, IsFiniteSet(T), NEW S \in SUBSET T
  PROVE  TotalCap(S) \in Nat /\ TotalCap(T) \in Nat /\ TotalCap(S) <= TotalCap(T)
  <1>1. S \in SUBSET Volumes /\ IsFiniteSet(S)
    BY FS_Subset
  <1>2. Units(S) \in SUBSET Units(T)
    BY DEF Units
  <1>3. IsFiniteSet(Units(T)) /\ Cardinality(Units(T)) \in Nat /\ Cardinality(Units(S)) \in Nat
    BY <1>1, UnitsFinite
  <1>4. Cardinality(Units(S)) <= Cardinality(Units(T))
    BY <1>2, <1>3, FS_Subset
  <1>5. TotalCap(S) = Cardinality(Units(S)) /\ TotalCap(T) = Cardinality(Units(T))
    BY <1>1, TotalCapIs
  <1> QED  BY <1>3, <1>4, <1>5

(* No volumes request nothing.                                              *)
LEMMA TotalCapEmpty == TotalCap({}) = 0
  BY TotalCapIs, UnitsEmpty, FS_EmptySet

-----------------------------------------------------------------------------
(* The size of a shared instance. *)

(* Some numbers up to 9, with 9 among them, have a least one.               *)
LEMMA LeastOfNine ==
  ASSUME NEW S \in SUBSET (1..9), 9 \in S
  PROVE  Min(S) \in S
  <1>1. \E x \in S : \A y \in S : x <= y
    <2>1. CASE 1 \in S
      BY <2>1
    <2>2. CASE 1 \notin S /\ 2 \in S
      BY <2>2
    <2>3. CASE 1 \notin S /\ 2 \notin S /\ 3 \in S
      BY <2>3
    <2>4. CASE 1 \notin S /\ 2 \notin S /\ 3 \notin S /\ 4 \in S
      BY <2>4
    <2>5. CASE 1 \notin S /\ 2 \notin S /\ 3 \notin S /\ 4 \notin S /\ 5 \in S
      BY <2>5
    <2>6. CASE /\ 1 \notin S /\ 2 \notin S /\ 3 \notin S /\ 4 \notin S /\ 5 \notin S
               /\ 6 \in S
      BY <2>6
    <2>7. CASE /\ 1 \notin S /\ 2 \notin S /\ 3 \notin S /\ 4 \notin S /\ 5 \notin S
               /\ 6 \notin S /\ 7 \in S
      BY <2>7
    <2>8. CASE /\ 1 \notin S /\ 2 \notin S /\ 3 \notin S /\ 4 \notin S /\ 5 \notin S
               /\ 6 \notin S /\ 7 \notin S
      BY <2>8
    <2> QED  BY <2>1, <2>2, <2>3, <2>4, <2>5, <2>6, <2>7, <2>8
  <1> QED  BY <1>1 DEF Min

(* The storage class asks for no more than the largest instance has.        *)
ClassFits == ClassCapGiB <= 9 * StorageUnit(InstanceType)

(* The sizes of a class and of its instances are numbers; an instance       *)
(* offers what its class promises if the class fits.                        *)
LEMMA InstanceCapIs ==
  /\ SharedCapBytes \in Nat /\ InstanceCapBytes \in Nat
  /\ ClassFits => SharedCapBytes <= InstanceCapBytes
  <1> DEFINE unit == StorageUnit(InstanceType)
             fitting == {i \in 1..9 : GbToBytes(i * unit) >= SharedCapBytes}
             m == Min(fitting \cup {9})
  <1>1. unit \in {100, 1000} /\ GiB \in Nat /\ ClassCapGiB \in Nat
    BY GiBAssumption, ConstantsAssumption DEF StorageUnit
  <1>2. SharedCapBytes \in Nat /\ SharedCapBytes = ClassCapGiB * GiB
    BY <1>1 DEF SharedCapBytes, GbToBytes
  <1>3. m \in fitting \cup {9} /\ m \in 1..9
    BY LeastOfNine
  <1>4. InstanceCapBytes = (unit * m) * GiB
    BY DEF InstanceCapBytes, getAllocatedStorage, GbToBytes
  <1>5. \A i \in 1..9 : i * unit = unit * i /\ unit * i \in Nat
    BY <1>1
  <1> HIDE DEF m
  <1>6. InstanceCapBytes \in Nat
    BY <1>1, <1>3, <1>4, <1>5
  <1>7. ASSUME ClassFits PROVE SharedCapBytes <= InstanceCapBytes
    <2>1. ClassCapGiB <= 9 * unit /\ 9 * unit \in Nat
      BY <1>1, <1>7 DEF ClassFits
    <2> HIDE DEF unit
    <2>2. ASSUME NEW a \in Nat, NEW b \in Nat, a <= b
          PROVE  a * GiB <= b * GiB
      BY <1>1, <2>2
    <2>3. ClassCapGiB * GiB <= (9 * unit) * GiB
      BY <1>1, <2>1, <2>2
    <2>4. 9 \in fitting
      BY <1>2, <2>3 DEF GbToBytes
    <2>5. m \in fitting
      BY <1>3, <2>4
    <2>6. (m * unit) * GiB >= SharedCapBytes
      BY <2>5 DEF GbToBytes
    <2> QED  BY <1>3, <1>4, <1>5, <2>6
  <1> QED  BY <1>2, <1>6, <1>7

-----------------------------------------------------------------------------
(* What a step does to the placement of shared volumes. *)

USE ConstantsAssumption DEF ctrlVars, pvVars, stores, vars, At

(* A handler goes on, with the request it serves; past the search it has an *)
(* instance.                                                                *)
Moves(c) ==
    /\ \A d \in Calls \ {c} : call'[d] = call[d]
    /\ call[c].pc \notin {"idle", "lock", "done"} /\ call'[c].pc # "idle"
    /\ call'[c].op = call[c].op /\ call'[c].vol = call[c].vol
    /\ call'[c].awaited = call[c].awaited
    /\ call[c].pc = "queue" => call'[c].pc = "lock"
    /\ call'[c].op = "create" /\ call'[c].pc \in PlacedPCs => call'[c].name # None
    /\ \/ UNCHANGED creatingQ
       \/ /\ creatingQ.entry[call[c].vol] = "none"
          /\ creatingQ' = [creatingQ EXCEPT !.entry[call[c].vol] = "pending"]
    /\ UNCHANGED <<pv, released, added>>

(* It is not in the search, and its instance is the one it had.             *)
Keeps(c) ==
    /\ ~(call'[c].op = "create" /\ call'[c].pc \in {"pvName", "fit", "listNas"})
    /\ call'[c].op = "create" /\ call'[c].pc \in PlacedPCs
          => call[c].pc \in PlacedPCs /\ call'[c].name = call[c].name

(* A handler returns without a volume.                                      *)
Returns(c) ==
    /\ \A d \in Calls \ {c} : call'[d] = call[d]
    /\ call'[c] = Idle
    /\ \/ UNCHANGED creatingQ
       \/ call[c].op = "create" /\ creatingQ' = UnsetQueue(creatingQ, call[c].vol)
    /\ UNCHANGED <<pv, released, added>>

(* Nothing of it changes.                                                   *)
Elsewhere == UNCHANGED <<call, creatingQ, pv, released, added>>

(* The error paths of all handlers end them without touching PVs.           *)
LEMMA ErrorReturns ==
  ASSUME TypeOK, CallsWellFormed, NEW c \in Calls, UNCHANGED <<pv, released, added>>,
         \/ CreateError(c) /\ call[c].pc \in CreatePCs
         \/ DeleteError(c)
         \/ Error(c)
  PROVE  Returns(c)
  <1>1. Return(c) => (\A d \in Calls \ {c} : call'[d] = call[d]) /\ call'[c] = Idle
    BY ReturnFields
  <1>2. CreateError(c) => Return(c) /\ creatingQ' = UnsetQueue(creatingQ, call[c].vol)
    BY DEF CreateError
  <1>3. DeleteError(c) => Return(c) /\ UNCHANGED creatingQ
    BY DEF DeleteError
  <1>4. call[c].pc \in CreatePCs => call[c].op = "create"
    BY DEF CallsWellFormed, WellFormed
  <1> QED  BY <1>1, <1>2, <1>3, <1>4 DEF Error, Returns

(* A handler that only moves on: past the search, or one that deletes.      *)
LEMMA GotoMoves ==
  ASSUME TypeOK, CallsWellFormed, NEW c \in Calls, NEW p, Goto(c, p),
         \/ call[c].op = "create" /\ call[c].pc \in HoldingPCs /\ p \in HoldingPCs
         \/ call[c].op # "create" /\ call[c].pc \notin {"idle", "lock", "done", "queue"} /\ p # "idle",
         UNCHANGED <<creatingQ, pv, released, added>>
  PROVE  Moves(c) /\ Keeps(c)
  <1>1. /\ \A d \in Calls \ {c} : call'[d] = call[d]
        /\ call'[c].op = call[c].op /\ call'[c].vol = call[c].vol /\ call'[c].name = call[c].name
        /\ call'[c].pc = p /\ call'[c].awaited = call[c].awaited
    BY DEF TypeOK, Call, Goto
  <1>2. call[c].op = "create" /\ call[c].pc \in HoldingPCs => call[c].name # None
    BY DEF CallsWellFormed, WellFormed
  <1> QED  BY <1>1, <1>2 DEF Moves, Keeps, HoldingPCs, JobPCs, PlacedPCs

(* Queueing a shared volume: the handler goes on, or is refused as a        *)
(* duplicate.                                                               *)
LEMMA QueueMoves ==
  ASSUME TypeOK, CallsWellFormed, NEW c \in Calls, QueueCreate(c)
  PROVE  (Moves(c) /\ Keeps(c)) \/ Returns(c)
  <1>1. CASE CreateError(c)
    BY <1>1, ErrorReturns DEF QueueCreate, CreatePCs
  <1>2. CASE ~CreateError(c)
    <2>1. /\ creatingQ.entry[call[c].vol] = "none" /\ call[c].pc = "queue"
          /\ creatingQ' = [creatingQ EXCEPT !.entry[call[c].vol] = "pending"]
          /\ Goto(c, "lock") /\ UNCHANGED <<pv, released, added>>
      BY <1>2 DEF QueueCreate
    <2>2. /\ \A d \in Calls \ {c} : call'[d] = call[d]
          /\ call'[c].op = call[c].op /\ call'[c].vol = call[c].vol
          /\ call'[c].pc = "lock" /\ call'[c].awaited = call[c].awaited
      BY <2>1 DEF TypeOK, Call, Goto
    <2> QED  BY <2>1, <2>2 DEF Moves, Keeps, PlacedPCs, HoldingPCs, JobPCs
  <1> QED  BY <1>1, <1>2

(* The steps between the end of the search and the reply that change more   *)
(* than the handler's place.                                                *)
LEMMA RecordMoves ==
  ASSUME TypeOK, CallsWellFormed, NEW c \in Calls,
         SetCreating(c) \/ ListIPs(c) \/ GetUnreservedIP(c) \/ CreateOK(c)
  PROVE  (Moves(c) /\ Keeps(c)) \/ Returns(c)
  <1>1. CASE CreateError(c)
    BY <1>1, ErrorReturns DEF SetCreating, ListIPs, GetUnreservedIP, CreateOK, CreatePCs
  <1>2. CASE ~CreateError(c)
    <2>1. UNCHANGED <<creatingQ, pv, released, added>>
      BY <1>2 DEF SetCreating, ListIPs, GetUnreservedIP, CreateOK
    <2>2. /\ \A d \in Calls \ {c} : call'[d] = call[d]
          /\ call'[c].op = call[c].op /\ call'[c].vol = call[c].vol
          /\ call'[c].awaited = call[c].awaited /\ call'[c].name = call[c].name
          /\ call'[c].pc \in {"get", "pickIP", "create", "done"}
          /\ call[c].pc \in {"hold", "listIPs", "pickIP", "reply"}
      <3>1. CASE SetCreating(c)
        BY <1>2, <3>1 DEF TypeOK, Call, SetCreating
      <3>2. CASE ListIPs(c)
        BY <1>2, <3>2 DEF TypeOK, Call, ListIPs
      <3>3. CASE GetUnreservedIP(c)
        <4>1. PICK ip : call' = [call EXCEPT ![c].ip = ip, ![c].seenIPs = {}, ![c].pc = "create"]
          BY <1>2, <3>3 DEF GetUnreservedIP
        <4>2. call[c].pc = "pickIP"
          BY <3>3 DEF GetUnreservedIP
        <4> QED  BY <4>1, <4>2 DEF TypeOK, Call
      <3>4. CASE CreateOK(c)
        BY <1>2, <3>4 DEF TypeOK, Call, CreateOK
      <3> QED  BY <3>1, <3>2, <3>3, <3>4
    <2>3. call[c].name # None
      BY <2>2 DEF CallsWellFormed, WellFormed, CreatePCs, HoldingPCs
    <2> QED  BY <2>1, <2>2, <2>3 DEF Moves, Keeps, HoldingPCs, JobPCs, PlacedPCs
  <1> QED  BY <1>1, <1>2

(* The other steps of CreateVolume past the search.                         *)
LEMMA CreateMoves ==
  ASSUME TypeOK, CallsWellFormed, NEW c \in Calls,
         \/ GetInstance(c) \/ CreateInstance(c) \/ WaitAvailable(c) \/ Refetch(c)
         \/ ModifyInstance(c) \/ RestoreSnapshot(c)
  PROVE  (Moves(c) /\ Keeps(c)) \/ Returns(c)
  <1>1. /\ UNCHANGED <<pv, released, added>>
        /\ call[c].pc \in {"get", "create", "waitCreated", "waitModified", "refetch", "refetched",
                           "modify", "restore"}
    BY DEF GetInstance, CreateInstance, WaitAvailable, Refetch, ModifyInstance, RestoreSnapshot
  <1>2. call[c].pc \in HoldingPCs /\ call[c].pc \in CreatePCs /\ call[c].op = "create"
    BY <1>1 DEF HoldingPCs, CreatePCs, CallsWellFormed, WellFormed
  <1>3. AfterReady(call[c].vol) \in HoldingPCs /\ AfterPath(call[c].vol) \in HoldingPCs
    BY DEF AfterReady, AfterPath, HoldingPCs, JobPCs
  <1>4. CASE CreateError(c)
    BY <1>1, <1>2, <1>4, ErrorReturns
  <1>5. CASE ~CreateError(c)
    <2>1. UNCHANGED creatingQ /\ \E p \in HoldingPCs : Goto(c, p)
      <3>1. CASE GetInstance(c)
        BY <1>3, <1>5, <3>1 DEF GetInstance, HoldingPCs
      <3>2. CASE CreateInstance(c) \/ ModifyInstance(c) \/ RestoreSnapshot(c)
        BY <1>3, <1>5, <3>2 DEF CreateInstance, ModifyInstance, RestoreSnapshot, HoldingPCs
      <3>3. CASE WaitAvailable(c)
        BY <1>5, <3>3 DEF WaitAvailable, HoldingPCs
      <3>4. CASE Refetch(c)
        BY <1>3, <1>5, <3>4 DEF Refetch, HoldingPCs
      <3> QED  BY <3>1, <3>2, <3>3, <3>4
    <2> QED  BY <1>1, <1>2, <2>1, GotoMoves
  <1> QED  BY <1>4, <1>5

(* The steps of a job, of CreateVolume or of DeleteVolume.                  *)
LEMMA JobMoves ==
  ASSUME TypeOK, CallsWellFormed, NEW c \in Calls,
         CreateJob(c) \/ RecreateJob(c) \/ PollJob(c)
  PROVE  (Moves(c) /\ Keeps(c)) \/ Returns(c)
  <1>1. UNCHANGED <<pv, released, added>> /\ call[c].pc \in JobPCs
    BY DEF CreateJob, RecreateJob, PollJob, JobPCs
  <1>2. CASE Error(c)
    BY <1>1, <1>2, ErrorReturns
  <1>3. CASE ~Error(c)
    <2>1. AfterPath(call[c].vol) \in HoldingPCs
      BY DEF AfterPath, HoldingPCs
    <2>2. /\ UNCHANGED creatingQ
          /\ \/ \E p \in HoldingPCs : Goto(c, p)
             \/ call[c].op # "create" /\ Goto(c, "delCheck")
      BY <1>3, <2>1 DEF CreateJob, RecreateJob, PollJob, HoldingPCs, JobPCs
    <2>3. call[c].pc \in HoldingPCs /\ call[c].pc \notin {"idle", "lock", "done", "queue"}
          /\ "idle" \notin HoldingPCs
      BY <1>1 DEF HoldingPCs, JobPCs
    <2> QED  BY <1>1, <2>2, <2>3, GotoMoves
  <1> QED  BY <1>2, <1>3

(* The steps of DeleteVolume.                                               *)
LEMMA DeleteMoves ==
  ASSUME TypeOK, CallsWellFormed, NEW c \in Calls,
         DelGet(c) \/ QueueDelete(c) \/ LockDelete(c) \/ DelCheck(c) \/ DeleteInstance(c)
  PROVE  (Moves(c) /\ Keeps(c)) \/ Returns(c)
  <1>1. UNCHANGED <<pv, released, added>> /\ call[c].pc \in DeletePCs
    BY DEF DelGet, QueueDelete, LockDelete, DelCheck, DeleteInstance, DeletePCs
  <1>2. call[c].op # "create" /\ call[c].pc \notin {"idle", "lock", "done", "queue"}
    BY <1>1 DEF CallsWellFormed, WellFormed, DeletePCs
  <1>3. CASE DeleteError(c)
    BY <1>1, <1>3, ErrorReturns
  <1>4. CASE ~DeleteError(c)
    <2>1. UNCHANGED creatingQ /\ \E p \in PCs \ {"idle"} : Goto(c, p)
      <3>1. {"done", "delQueue", "delNas", "delLock", "job"} \subseteq PCs \ {"idle"}
        BY DEF PCs, DeletePCs, JobPCs
      <3>2. CASE DelGet(c)
        BY <3>1, <3>2 DEF DelGet
      <3>3. CASE QueueDelete(c)
        BY <1>4, <3>1, <3>3 DEF QueueDelete
      <3>4. CASE LockDelete(c)
        BY <3>1, <3>4 DEF LockDelete
      <3>5. CASE DelCheck(c)
        BY <1>4, <3>1, <3>5 DEF DelCheck
      <3>6. CASE DeleteInstance(c)
        BY <1>4, <3>1, <3>6 DEF DeleteInstance
      <3> QED  BY <3>2, <3>3, <3>4, <3>5, <3>6
    <2> QED  BY <1>1, <1>2, <2>1, GotoMoves
  <1> QED  BY <1>3, <1>4

(* The search.                                                              *)
LEMMA SearchMoves ==
  ASSUME TypeOK, CallsWellFormed, NEW c \in Calls,
         Scan(c) \/ ListNas(c) \/ PvName(c) \/ Fit(c)
  PROVE  Moves(c) \/ Returns(c)
  <1>1. UNCHANGED <<pv, released, added>> /\ call[c].pc \in {"scan", "listNas", "pvName", "fit"}
    BY DEF Scan, ListNas, PvName, Fit
  <1>2. CASE CreateError(c)
    BY <1>1, <1>2, ErrorReturns DEF CreatePCs
  <1>3. CASE ~CreateError(c)
    <2>1. UNCHANGED creatingQ
      BY <1>3 DEF Scan, ListNas, PvName, Fit
    <2>2. /\ \A d \in Calls \ {c} : call'[d] = call[d]
          /\ call'[c].op = call[c].op /\ call'[c].vol = call[c].vol
          /\ call'[c].awaited = call[c].awaited
          /\ \/ call'[c].pc \in {"scan", "listNas", "pvName", "fit"}
             \/ call'[c].pc = "hold" /\ call'[c].name # None
      <3>1. CASE Scan(c)
        BY <1>3, <3>1 DEF TypeOK, Call, Scan
      <3>2. CASE ListNas(c)
        <4>1. PICK n \in SharedNames : Place(c, n)
          BY <3>2 DEF ListNas
        <4>2. n # None
          BY DEF Names
        <4> QED  BY <4>1, <4>2 DEF TypeOK, Call, Place
      <3>3. CASE PvName(c)
        <4>1. PICK n : call' = [call EXCEPT ![c].name = n, ![c].pc = "fit"]
          BY <1>3, <3>3 DEF PvName
        <4> QED  BY <4>1 DEF TypeOK, Call
      <3>4. CASE Fit(c)
        <4>1. call[c].name # None
          BY <3>4 DEF Fit, CallsWellFormed, WellFormed
        <4> QED  BY <1>3, <3>4, <4>1 DEF TypeOK, Call, Fit, Place
      <3> QED  BY <3>1, <3>2, <3>3, <3>4
    <2> QED  BY <1>1, <2>1, <2>2 DEF Moves, HoldingPCs, JobPCs, PlacedPCs
  <1> QED  BY <1>2, <1>3

(* Every other step: a handler goes on or returns, a request arrives, the   *)
(* search begins, a PV comes or goes, or is reported.                       *)
LEMMA StepKinds ==
  ASSUME TypeOK, CallsWellFormed, ~Timeouts, ~Restarts, Next
  PROVE  \/ \E c \in Calls : (Moves(c) /\ Keeps(c)) \/ Returns(c)
         \/ \E c \in Calls : Scan(c) \/ ListNas(c) \/ PvName(c) \/ Fit(c)
         \/ \E c \in Calls, v \in Volumes : CreateVolume(c, v) \/ DeleteVolume(c, v)
         \/ \E c \in Calls : LockCreate(c) \/ ProvisionerBinds(c) \/ ProvisionerUnbinds(c)
         \/ \E v \in Volumes : PvAdded(v)
         \/ Elsewhere
  <1>1. ASSUME NEW c \in Calls, Step(c) \/ LockDelete(c)
        PROVE  \/ (Moves(c) /\ Keeps(c)) \/ Returns(c)
               \/ Scan(c) \/ ListNas(c) \/ PvName(c) \/ Fit(c)
    <2>1. CASE ApiError(c)
      BY <2>1, ErrorReturns DEF ApiError
    <2> QED  BY <1>1, <2>1, QueueMoves, RecordMoves, CreateMoves, JobMoves, DeleteMoves DEF Step
  <1>2. ASSUME NEW c \in Calls, LostReply(c) PROVE Returns(c)
    BY <1>2, ReturnFields DEF LostReply, Returns
  <1>3. ASSUME NEW c \in Calls PROVE ~StopWaiting(c)
    BY DEF StopWaiting
  <1>4. ~Restart
    BY DEF Restart
  <1>5. ASSUME \/ \E v \in Volumes : PvDeleted(v)
               \/ \E n \in Names : CloudSettles(n) \/ JobRuns(n) \/ JobVanishes(n)
        PROVE  Elsewhere
    BY <1>5 DEF PvDeleted, CloudSettles, JobRuns, JobVanishes, Elsewhere
  <1> QED  BY <1>1, <1>2, <1>3, <1>4, <1>5 DEF Next, Reply

-----------------------------------------------------------------------------
(* One shared volume at a time. *)

(* A volume whose creation a handler serves has no other handler, and its   *)
(* PV has not been reported.                                                *)
LEMMA OnlyHandler ==
  ASSUME TypeOK, CallsWellFormed, SerialInv, NEW c \in Calls, call[c].op = "create"
  PROVE  /\ call[c].vol \in Volumes /\ call[c].vol # None
         /\ \A d \in Calls \ {c} : call[d].vol # call[c].vol
         /\ call[c].vol \notin added
  <1>1. call[c].pc # "idle"
    BY DEF SerialInv, CallsAwaited, Idle
  <1>2. call[c].vol \in Volumes /\ call[c].vol # None
    BY <1>1 DEF CallsWellFormed, WellFormed
  <1> QED  BY <1>2 DEF SerialInv, OneCallPerVolume, CreatesUnbound, AddedBound

(* UnsetQueue leaves the other entries alone.                               *)
LEMMA UnsetQueueEntries ==
  ASSUME NEW q \in Queue, NEW v, NEW w \in Volumes, w # v
  PROVE  UnsetQueue(q, v).entry[w] = q.entry[w]
  BY DEF UnsetQueue, Queue

(* A handler that goes on keeps the order of placements.                    *)
LEMMA MovesSerial ==
  ASSUME TypeOK, CallsWellFormed, SerialInv, NEW c \in Calls, Moves(c)
  PROVE  SerialInv'
  <1>1. /\ \A d \in Calls \ {c} : call'[d] = call[d]
        /\ call[c].pc \notin {"idle", "lock", "done"} /\ call'[c].pc # "idle"
        /\ call'[c].op = call[c].op /\ call'[c].vol = call[c].vol
        /\ call'[c].awaited = call[c].awaited
        /\ call[c].pc = "queue" => call'[c].pc = "lock"
        /\ UNCHANGED <<pv, released, added>>
    BY DEF Moves
  <1>2. CallsAwaited'
    <2>1. call[c].awaited
      BY <1>1 DEF SerialInv, CallsAwaited, Idle
    <2> QED  BY <1>1, <2>1 DEF SerialInv, CallsAwaited
  <1>3. \A d \in Calls : call'[d].op = call[d].op /\ call'[d].vol = call[d].vol
    BY <1>1
  <1>4. OneCallPerVolume' /\ CreatesUnbound' /\ DeletesReleased' /\ AddedBound'
    BY <1>1, <1>3 DEF SerialInv, OneCallPerVolume, CreatesUnbound, DeletesReleased, AddedBound
  <1>5. CreatesNamed'
    <2>1. call'[c].op = "create" /\ call'[c].pc \in PlacedPCs => call'[c].name # None
      BY DEF Moves
    <2> QED  BY <1>1, <2>1 DEF SerialInv, CreatesNamed
  <1>6. PlacingOperates'
    <2> SUFFICES ASSUME NEW v \in Shared, Placing(v)' PROVE creatingQ'.entry[v] = "operating"
      BY DEF PlacingOperates
    <2>1. CASE Placing(v)
      <3>1. creatingQ.entry[v] = "operating" /\ v \in Volumes
        BY <2>1 DEF SerialInv, PlacingOperates
      <3> QED  BY <3>1 DEF Moves, TypeOK, Queue
    <2>2. CASE ~Placing(v)
      <3>1. call'[c].pc \in {"queue", "lock"} \/ call[c].pc \notin {"queue", "lock"}
        BY <1>1
      <3> QED  BY <1>1, <1>3, <2>2, <3>1 DEF Placing
    <2> QED  BY <2>1, <2>2
  <1> QED  BY <1>2, <1>4, <1>5, <1>6 DEF SerialInv

(* A handler that returns takes away no entry but its own.                  *)
LEMMA ReturnsSerial ==
  ASSUME TypeOK, CallsWellFormed, SerialInv, NEW c \in Calls, Returns(c)
  PROVE  SerialInv'
  <1>1. /\ \A d \in Calls \ {c} : call'[d] = call[d]
        /\ call'[c] = Idle /\ call'[c].op = "none" /\ call'[c].vol = None
        /\ UNCHANGED <<pv, released, added>>
    BY DEF Returns, Idle
  <1>2. CallsAwaited' /\ OneCallPerVolume' /\ CreatesUnbound' /\ DeletesReleased' /\ AddedBound'
        /\ CreatesNamed'
    BY <1>1 DEF SerialInv, CallsAwaited, OneCallPerVolume, CreatesUnbound, DeletesReleased,
                AddedBound, CreatesNamed
  <1>3. PlacingOperates'
    <2> SUFFICES ASSUME NEW v \in Shared, Placing(v)' PROVE creatingQ'.entry[v] = "operating"
      BY DEF PlacingOperates
    <2>1. v \in added \/ \E d \in Calls \ {c} : /\ call[d].vol = v /\ call[d].op = "create"
                                                /\ call[d].pc \notin {"queue", "lock"}
      BY <1>1 DEF Placing
    <2>2. creatingQ.entry[v] = "operating" /\ v \in Volumes
      BY <2>1 DEF SerialInv, PlacingOperates, Placing
    <2>3. CASE UNCHANGED creatingQ
      BY <2>2, <2>3
    <2>4. CASE call[c].op = "create" /\ creatingQ' = UnsetQueue(creatingQ, call[c].vol)
      <3>1. v # call[c].vol
        BY <2>1, <2>4, OnlyHandler
      <3> QED  BY <2>2, <2>4, <3>1, UnsetQueueEntries DEF TypeOK
    <2> QED  BY <2>3, <2>4 DEF Returns
  <1> QED  BY <1>2, <1>3 DEF SerialInv

(* The provisioner calls for a volume only when no handler serves it.       *)
LEMMA BeginsSerial ==
  ASSUME TypeOK, CallsWellFormed, SerialInv, NEW c \in Calls, NEW v \in Volumes,
         CreateVolume(c, v) \/ DeleteVolume(c, v)
  PROVE  SerialInv'
  <1>1. /\ \A d \in Calls \ {c} : call'[d] = call[d]
        /\ call'[c].vol = v /\ call'[c].awaited /\ call'[c].pc # "idle"
    <2>1. CASE CreateVolume(c, v)
      BY <2>1 DEF CreateVolume, TypeOK, Idle
    <2>2. CASE DeleteVolume(c, v)
      BY <2>2 DEF DeleteVolume, TypeOK, Idle
    <2> QED  BY <2>1, <2>2
  <1>2. \/ /\ call'[c].op = "create" /\ pv[v] = None /\ v \notin released
           /\ call'[c].pc \in {"queue", "hold"}
           /\ v \in Shared => call'[c].pc = "queue"
           /\ call'[c].pc = "hold" => call'[c].name # None
           /\ UNCHANGED released
        \/ /\ call'[c].op = "delete" /\ released' = released \cup {v} /\ pv[v] # None
    <2>1. CASE CreateVolume(c, v)
      BY <2>1 DEF CreateVolume, TypeOK, Idle
    <2>2. CASE DeleteVolume(c, v)
      BY <2>2 DEF DeleteVolume, TypeOK, Idle
    <2> QED  BY <2>1, <2>2
  <1>3. UNCHANGED <<creatingQ, pv, added>> /\ NotWaitedFor(v)
    BY DEF CreateVolume, DeleteVolume
  <1>4. \A d \in Calls : call[d].vol # v
    BY <1>3 DEF NotWaitedFor, SerialInv, CallsAwaited, Idle
  <1>5. CallsAwaited' /\ OneCallPerVolume' /\ AddedBound'
    BY <1>1, <1>2, <1>3, <1>4 DEF SerialInv, CallsAwaited, OneCallPerVolume, AddedBound
  <1>6. CreatesUnbound' /\ DeletesReleased'
    BY <1>1, <1>2, <1>3, <1>4 DEF SerialInv, CreatesUnbound, DeletesReleased
  <1>7. CreatesNamed'
    BY <1>1, <1>2 DEF SerialInv, CreatesNamed, PlacedPCs, HoldingPCs, JobPCs
  <1>8. \A w \in Shared : Placing(w)' => Placing(w)
    BY <1>1, <1>2, <1>3 DEF Placing
  <1>9. PlacingOperates'
    BY <1>3, <1>8 DEF SerialInv, PlacingOperates
  <1> QED  BY <1>5, <1>6, <1>7, <1>9 DEF SerialInv

(* The mutex is free, and then the entry of the volume operates.            *)
LEMMA LockSerial ==
  ASSUME TypeOK, CallsWellFormed, SerialInv, NEW c \in Calls, LockCreate(c)
  PROVE  SerialInv'
  <1>1. /\ \A d \in Calls \ {c} : call'[d] = call[d]
        /\ call'[c].op = call[c].op /\ call'[c].vol = call[c].vol
        /\ call'[c].pc = "scan" /\ call'[c].awaited = call[c].awaited /\ call[c].pc = "lock"
    BY DEF TypeOK, Call, LockCreate
  <1>2. UNCHANGED <<pv, released, added>>
    BY DEF LockCreate
  <1>3. \A d \in Calls : call'[d].op = call[d].op /\ call'[d].vol = call[d].vol
    BY <1>1
  <1>4. OneCallPerVolume' /\ CreatesUnbound' /\ DeletesReleased' /\ AddedBound'
    BY <1>2, <1>3 DEF SerialInv, OneCallPerVolume, CreatesUnbound, DeletesReleased, AddedBound
  <1>5. CallsAwaited' /\ CreatesNamed'
    <2>1. call[c].awaited
      BY <1>1 DEF SerialInv, CallsAwaited, Idle
    <2>2. CallsAwaited'
      BY <1>1, <2>1 DEF SerialInv, CallsAwaited
    <2>3. CreatesNamed'
      BY <1>1 DEF SerialInv, CreatesNamed, PlacedPCs, HoldingPCs, JobPCs
    <2> QED  BY <2>2, <2>3
  <1>6. \A w \in Volumes : creatingQ'.entry[w] = IF w = call[c].vol THEN "operating"
                                                 ELSE creatingQ.entry[w]
    BY DEF TypeOK, Queue, LockCreate
  <1>7. \A w \in Shared : Placing(w)' => Placing(w) \/ w = call[c].vol
    BY <1>1, <1>2 DEF Placing
  <1>8. PlacingOperates'
    BY <1>6, <1>7 DEF SerialInv, PlacingOperates
  <1> QED  BY <1>4, <1>5, <1>8 DEF SerialInv

(* The PV of a volume comes with an instance, while its entry operates.     *)
LEMMA BindsSerial ==
  ASSUME TypeOK, CallsWellFormed, SerialInv, NEW c \in Calls, ProvisionerBinds(c)
  PROVE  SerialInv'
  <1> DEFINE v == call[c].vol
  <1>1. /\ \A d \in Calls \ {c} : call'[d] = call[d]
        /\ call'[c] = Idle /\ call'[c].op = "none" /\ call'[c].vol = None
    <2>1. Return(c)
      BY DEF ProvisionerBinds
    <2>2. Idle.op = "none" /\ Idle.vol = None
      BY DEF Idle
    <2> QED  BY <2>1, <2>2, ReturnFields
  <1>2. /\ call[c].pc = "done" /\ call[c].op = "create"
        /\ pv' = [pv EXCEPT ![v] = call[c].name] /\ added' = added \cup {v}
        /\ UNCHANGED <<creatingQ, released>>
    BY DEF ProvisionerBinds
  <1>3. v \in Volumes /\ \A d \in Calls \ {c} : call[d].vol # v
    BY <1>2, OnlyHandler
  <1>4. call[c].name # None
    BY <1>2 DEF SerialInv, CreatesNamed, PlacedPCs
  <1>5. \A w \in Volumes : pv'[w] = IF w = v THEN call[c].name ELSE pv[w]
    BY <1>2 DEF TypeOK
  <1>6. CallsAwaited' /\ OneCallPerVolume' /\ DeletesReleased' /\ CreatesNamed'
    BY <1>1, <1>2 DEF SerialInv, CallsAwaited, OneCallPerVolume, DeletesReleased, CreatesNamed
  <1>7. CreatesUnbound'
    <2>1. \A d \in Calls \ {c} : call[d].op = "create" => call[d].vol \in Volumes
      BY OnlyHandler
    <2> QED  BY <1>1, <1>2, <1>3, <1>5, <2>1 DEF SerialInv, CreatesUnbound
  <1>8. AddedBound'
    BY <1>2, <1>3, <1>4, <1>5 DEF SerialInv, AddedBound, TypeOK
  <1>9. \A w \in Shared : Placing(w)' => Placing(w)
    BY <1>1, <1>2 DEF Placing
  <1>10. PlacingOperates'
    BY <1>2, <1>9 DEF SerialInv, PlacingOperates
  <1> QED  BY <1>6, <1>7, <1>8, <1>10 DEF SerialInv

(* A deleted PV had no handler that creates its volume.                     *)
LEMMA UnbindsSerial ==
  ASSUME TypeOK, CallsWellFormed, SerialInv, NEW c \in Calls, ProvisionerUnbinds(c)
  PROVE  SerialInv'
  <1> DEFINE v == call[c].vol
  <1>1. /\ \A d \in Calls \ {c} : call'[d] = call[d]
        /\ call'[c] = Idle /\ call'[c].op = "none" /\ call'[c].vol = None
    <2>1. Return(c)
      BY DEF ProvisionerUnbinds
    <2>2. Idle.op = "none" /\ Idle.vol = None
      BY DEF Idle
    <2> QED  BY <2>1, <2>2, ReturnFields
  <1>2. /\ call[c].pc = "done" /\ call[c].op = "delete"
        /\ pv' = [pv EXCEPT ![v] = None]
        /\ UNCHANGED <<creatingQ, released, added>>
    BY DEF ProvisionerUnbinds
  <1>3. v \in released
    BY <1>2 DEF SerialInv, DeletesReleased
  <1>4. \A w \in Volumes : pv'[w] = IF w = v THEN None ELSE pv[w]
    BY <1>2 DEF TypeOK
  <1>5. CallsAwaited' /\ OneCallPerVolume' /\ DeletesReleased' /\ CreatesNamed'
    BY <1>1, <1>2 DEF SerialInv, CallsAwaited, OneCallPerVolume, DeletesReleased, CreatesNamed
  <1>6. CreatesUnbound'
    <2>1. \A d \in Calls \ {c} : call[d].op = "create" => call[d].vol \in Volumes
      BY OnlyHandler
    <2> QED  BY <1>1, <1>2, <1>4, <2>1 DEF SerialInv, CreatesUnbound
  <1>7. AddedBound'
    <2>1. \A w \in added : w \in Volumes
      BY DEF TypeOK
    <2> QED  BY <1>2, <1>3, <1>4, <2>1 DEF SerialInv, AddedBound
  <1>8. \A w \in Shared : Placing(w)' => Placing(w)
    BY <1>1, <1>2 DEF Placing
  <1>9. PlacingOperates'
    BY <1>2, <1>8 DEF SerialInv, PlacingOperates
  <1> QED  BY <1>5, <1>6, <1>7, <1>9 DEF SerialInv

(* The report of a PV ends the turn of its volume, which no handler creates *)
(* any more.                                                                *)
LEMMA AddedSerial ==
  ASSUME TypeOK, CallsWellFormed, SerialInv, NEW v \in Volumes, PvAdded(v)
  PROVE  SerialInv'
  <1>1. /\ v \in added /\ added' = added \ {v} /\ creatingQ' = UnsetQueue(creatingQ, v)
        /\ UNCHANGED <<call, pv, released>>
    BY DEF PvAdded
  <1>2. CallsAwaited' /\ OneCallPerVolume' /\ CreatesUnbound' /\ DeletesReleased' /\ AddedBound'
        /\ CreatesNamed'
    BY <1>1 DEF SerialInv, CallsAwaited, OneCallPerVolume, CreatesUnbound, DeletesReleased,
                AddedBound, CreatesNamed
  <1>3. \A d \in Calls : call[d].op = "create" => call[d].vol # v
    BY <1>1, OnlyHandler
  <1>4. \A w \in Shared : Placing(w)' => Placing(w) /\ w # v
    BY <1>1, <1>3 DEF Placing
  <1>5. \A w \in Volumes : w # v => creatingQ'.entry[w] = creatingQ.entry[w]
    BY <1>1, UnsetQueueEntries DEF TypeOK
  <1>6. PlacingOperates'
    BY <1>4, <1>5 DEF SerialInv, PlacingOperates
  <1> QED  BY <1>2, <1>6 DEF SerialInv

(* Steps outside the queue, the handlers and the PVs do not matter to the   *)
(* order.                                                                   *)
LEMMA ElsewhereSerial ==
  ASSUME SerialInv, Elsewhere
  PROVE  SerialInv'
  BY DEF SerialInv, Elsewhere, CallsAwaited, OneCallPerVolume, CreatesUnbound, DeletesReleased,
         AddedBound, CreatesNamed, PlacingOperates, Placing

(* With the mutex the volume that is being placed is the only one.          *)
LEMMA OnePlacing ==
  ASSUME TypeOK, QueuesConsistent, SerialInv
  PROVE  SharedCreatesSerialized
  BY DEF QueuesConsistent, MutexMatches, SerialInv, PlacingOperates, SharedCreatesSerialized

(* SerialInv is inductive, given IInv.                                      *)
LEMMA SerialStep ==
  ASSUME IInv, SerialInv, ~Timeouts, ~Restarts, [Next]_vars
  PROVE  SerialInv'
  <1>1. TypeOK /\ CallsWellFormed
    BY DEF IInv
  <1>2. CASE UNCHANGED vars
    BY <1>2, ElsewhereSerial DEF Elsewhere
  <1>3. CASE Next
    <2>1. \A c \in Calls : Scan(c) \/ ListNas(c) \/ PvName(c) \/ Fit(c) => Moves(c) \/ Returns(c)
      BY <1>1, SearchMoves
    <2> QED  BY <1>1, <1>3, <2>1, StepKinds, MovesSerial, ReturnsSerial, BeginsSerial, LockSerial,
                BindsSerial, UnbindsSerial, AddedSerial, ElsewhereSerial
  <1> QED  BY <1>2, <1>3

(* SerialInv holds at the start.                                            *)
LEMMA SerialInit == Init => SerialInv
  BY DEF Init, Idle, SerialInv, CallsAwaited, OneCallPerVolume, CreatesUnbound, DeletesReleased,
         AddedBound, CreatesNamed, PlacingOperates, Placing

(* While the provisioner waits for its calls and the controller stays up,   *)
(* creatingPvsQueue works for the placement of shared volumes: from the     *)
(* moment a CreateVolume has the mutex of the queue until the informer has  *)
(* reported the PV, no other shared volume is placed, whatever fails.       *)
THEOREM SharedVolumesArePlacedInTurn ==
  ASSUME ~Timeouts, ~Restarts
  PROVE  Spec => []SharedCreatesSerialized
  <1>1. Init => SerialInv
    BY SerialInit
  <1>2. IInv /\ SerialInv /\ [Next]_vars => SerialInv'
    BY SerialStep
  <1>3. IInv /\ SerialInv => SharedCreatesSerialized
    BY OnePlacing DEF IInv
  <1> QED  BY <1>1, <1>2, <1>3, Invariance, PTL DEF Spec

-----------------------------------------------------------------------------
(* The volumes on a shared instance fit in it. *)

CapOK(d) ==
    /\ Searches(call[d]) => CountedCovers(call[d])
    /\ Placed(call[d]) => RoomKept(call[d])

(* CapacityInv handler by handler.                                          *)
LEMMA CapacityInvIs == CapacityInv <=> (\A d \in Calls : CapOK(d)) /\ SharedCapacityRespected
  BY DEF CapacityInv, CapOK

(* No PV of a shared volume comes.                                          *)
NoPVComes == \A w \in Shared : pv'[w] \in {pv[w], None}

(* The sums over shared volumes are numbers, and monotone.                  *)
LEMMA SharedTotals ==
  ASSUME IsFiniteSet(Shared), NEW T \in SUBSET Shared, NEW S \in SUBSET T
  PROVE  TotalCap(S) \in Nat /\ TotalCap(T) \in Nat /\ TotalCap(S) <= TotalCap(T)
  <1>1. T \in SUBSET Volumes
    OBVIOUS
  <1>2. IsFiniteSet(T)
    BY FS_Subset
  <1> QED  BY <1>1, <1>2, TotalCapMonotone

(* Without a new PV no instance gets fuller.                                *)
LEMMA OnInstanceShrinks ==
  ASSUME IsFiniteSet(Shared), NoPVComes, NEW n, n # None
  PROVE  /\ OnInstance(n)' \in SUBSET OnInstance(n)
         /\ TotalCap(OnInstance(n))' \in Nat /\ TotalCap(OnInstance(n)) \in Nat
         /\ TotalCap(OnInstance(n))' <= TotalCap(OnInstance(n))
  <1> DEFINE T == {v \in Shared : pv[v] = n}
             S == {v \in Shared : pv'[v] = n}
  <1>1. S \in SUBSET T /\ T \in SUBSET Shared
    BY DEF NoPVComes
  <1>2. TotalCap(S) \in Nat /\ TotalCap(T) \in Nat /\ TotalCap(S) <= TotalCap(T)
    BY <1>1, SharedTotals
  <1> QED  BY <1>1, <1>2 DEF OnInstance

(* Without a new PV no instance becomes overbooked.                         *)
LEMMA KeptCapacity ==
  ASSUME IsFiniteSet(Shared), SharedCapacityRespected, NoPVComes
  PROVE  SharedCapacityRespected'
  <1> SUFFICES ASSUME NEW n \in SharedNames
               PROVE  TotalCap({v \in Shared : pv'[v] = n}) <= InstanceCapBytes
    BY DEF SharedCapacityRespected
  <1>1. n # None
    BY DEF Names
  <1>2. /\ TotalCap(OnInstance(n))' \in Nat /\ TotalCap(OnInstance(n)) \in Nat
        /\ TotalCap(OnInstance(n))' <= TotalCap(OnInstance(n))
    BY <1>1, OnInstanceShrinks
  <1>3. TotalCap(OnInstance(n)) <= InstanceCapBytes
    BY DEF SharedCapacityRespected, OnInstance
  <1>4. InstanceCapBytes \in Nat
    BY InstanceCapIs
  <1>5. TotalCap(OnInstance(n))' <= InstanceCapBytes
    BY <1>2, <1>3, <1>4
  <1> QED  BY <1>5 DEF OnInstance

(* What a handler that does nothing has found stays true.                   *)
LEMMA KeptCapOK ==
  ASSUME IsFiniteSet(Shared), TypeOK, CreatesNamed, NoPVComes, NEW d \in Calls, CapOK(d),
         call'[d] = call[d]
  PROVE  CapOK(d)'
  <1>1. \A i : {v \in Shared : pv'[v] # None /\ pv'[v][1] = i} \subseteq PVsInSlot(i)
    BY DEF NoPVComes, PVsInSlot
  <1>2. CountedCovers(call[d]) => CountedCovers(call[d])'
    BY <1>1 DEF CountedCovers, PVsInSlot
  <1>3. ASSUME Placed(call[d]), RoomKept(call[d]) PROVE RoomKept(call[d])'
    <2> DEFINE n == call[d].name
    <2>1. n # None
      BY <1>3 DEF Placed, CreatesNamed
    <2>2. /\ TotalCap({v \in Shared : pv'[v] = n}) \in Nat /\ TotalCap(OnInstance(n)) \in Nat
          /\ TotalCap({v \in Shared : pv'[v] = n}) <= TotalCap(OnInstance(n))
      <3>1. {v \in Shared : pv'[v] = n} \in SUBSET OnInstance(n)
        BY <2>1 DEF NoPVComes, OnInstance
      <3>2. OnInstance(n) \in SUBSET Shared
        BY DEF OnInstance
      <3> HIDE DEF n
      <3> QED  BY <3>1, <3>2, SharedTotals
    <2>3. TotalCap(OnInstance(n)) + ReqCap[call[d].vol] <= InstanceCapBytes
      BY <1>3 DEF RoomKept
    <2>4. InstanceCapBytes \in Nat /\ ReqCap[call[d].vol] \in Nat
      BY <1>3, InstanceCapIs DEF Placed
    <2>5. TotalCap({v \in Shared : pv'[v] = n}) + ReqCap[call[d].vol] <= InstanceCapBytes
      BY <2>2, <2>3, <2>4
    <2> QED  BY <2>5 DEF RoomKept, OnInstance
  <1>4. (Searches(call[d])' <=> Searches(call[d])) /\ (Placed(call[d])' <=> Placed(call[d]))
    BY DEF Searches, Placed
  <1> QED  BY <1>2, <1>3, <1>4 DEF CapOK

(* A step of one handler that lets no PV come.                              *)
LEMMA HandlerCapacity ==
  ASSUME IsFiniteSet(Shared), TypeOK, CreatesNamed, CapacityInv, NoPVComes, NEW c \in Calls,
         \A d \in Calls \ {c} : call'[d] = call[d], CapOK(c)'
  PROVE  CapacityInv'
  <1>1. \A d \in Calls : CapOK(d)'
    BY KeptCapOK, CapacityInvIs
  <1>2. SharedCapacityRespected'
    BY KeptCapacity, CapacityInvIs
  <1> QED  BY <1>1, <1>2 DEF CapacityInv, CapOK

(* A handler that neither searches nor has been placed has counted nothing. *)
LEMMA IdleCapOK ==
  ASSUME NEW c, ~(call'[c].op = "create" /\ call'[c].vol \in Shared
                   /\ call'[c].pc \in {"pvName", "fit", "listNas"} \cup PlacedPCs)
  PROVE  CapOK(c)'
  BY DEF CapOK, Searches, Placed

(* A handler that goes on after its placement keeps the room it has found.  *)
LEMMA MovesCapacity ==
  ASSUME IsFiniteSet(Shared), TypeOK, CreatesNamed, CapacityInv, NEW c \in Calls,
         Moves(c), Keeps(c)
  PROVE  CapacityInv'
  <1>1. NoPVComes
    BY DEF Moves, NoPVComes
  <1>2. UNCHANGED pv /\ call'[c].vol = call[c].vol /\ call'[c].op = call[c].op
    BY DEF Moves
  <1>3. ~Searches(call[c])'
    BY DEF Keeps, Searches
  <1>4. Placed(call[c])' => Placed(call[c]) /\ call'[c].name = call[c].name
    BY <1>2 DEF Keeps, Placed
  <1>5. Placed(call[c])' => RoomKept(call[c])
    BY <1>4, CapacityInvIs DEF CapOK
  <1>6. Placed(call[c])' => RoomKept(call[c])'
    BY <1>2, <1>4, <1>5 DEF RoomKept, OnInstance
  <1>7. CapOK(c)'
    BY <1>3, <1>6 DEF CapOK
  <1> QED  BY <1>1, <1>7, HandlerCapacity DEF Moves

(* A handler that returns needs no room.                                    *)
LEMMA ReturnsCapacity ==
  ASSUME IsFiniteSet(Shared), TypeOK, CreatesNamed, CapacityInv, NEW c \in Calls, Returns(c)
  PROVE  CapacityInv'
  <1>1. call'[c].op = "none"
    BY DEF Returns, Idle
  <1>2. CapOK(c)'
    BY <1>1, IdleCapOK
  <1> QED  BY <1>2, HandlerCapacity DEF Returns, NoPVComes

(* A handler that begins, or begins to search, has counted nothing yet.     *)
LEMMA BeginsCapacity ==
  ASSUME IsFiniteSet(Shared), TypeOK, CreatesNamed, CapacityInv, NEW c \in Calls,
         \/ \E v \in Volumes : CreateVolume(c, v) \/ DeleteVolume(c, v)
         \/ LockCreate(c)
  PROVE  CapacityInv'
  <1>1. UNCHANGED pv
    BY DEF CreateVolume, DeleteVolume, LockCreate
  <1>2. /\ \A d \in Calls \ {c} : call'[d] = call[d]
        /\ \/ call'[c].op = "delete"
           \/ call'[c].vol \notin Shared
           \/ call'[c].pc \in {"queue", "scan"}
    <2>1. CASE \E v \in Volumes : CreateVolume(c, v)
      <3>1. PICK v \in Volumes : CreateVolume(c, v)
        BY <2>1
      <3> QED  BY <3>1 DEF CreateVolume, TypeOK, Idle
    <2>2. CASE \E v \in Volumes : DeleteVolume(c, v)
      <3>1. PICK v \in Volumes : DeleteVolume(c, v)
        BY <2>2
      <3> QED  BY <3>1 DEF DeleteVolume, TypeOK, Idle
    <2>3. CASE LockCreate(c)
      BY <2>3 DEF LockCreate, TypeOK, Call
    <2> QED  BY <2>1, <2>2, <2>3
  <1>3. CapOK(c)'
    BY <1>2, IdleCapOK DEF PlacedPCs, HoldingPCs, JobPCs
  <1> QED  BY <1>1, <1>2, <1>3, HandlerCapacity DEF NoPVComes

(* A deleted PV makes room.                                                 *)
LEMMA UnbindsCapacity ==
  ASSUME IsFiniteSet(Shared), TypeOK, CreatesNamed, CapacityInv, NEW c \in Calls,
         ProvisionerUnbinds(c)
  PROVE  CapacityInv'
  <1>1. Return(c) /\ pv' = [pv EXCEPT ![call[c].vol] = None]
    BY DEF ProvisionerUnbinds
  <1>2. NoPVComes
    BY <1>1 DEF NoPVComes, TypeOK
  <1>3. (\A d \in Calls \ {c} : call'[d] = call[d]) /\ call'[c] = Idle
    BY <1>1, ReturnFields
  <1>4. call'[c].op = "none"
    BY <1>3 DEF Idle
  <1>5. CapOK(c)'
    BY <1>4, IdleCapOK
  <1> QED  BY <1>2, <1>3, <1>5, HandlerCapacity

(* Steps that change neither handlers nor PVs do not matter to the          *)
(* capacity.                                                                *)
LEMMA QuietCapacity ==
  ASSUME IsFiniteSet(Shared), TypeOK, CreatesNamed, CapacityInv, UNCHANGED <<call, pv>>
  PROVE  CapacityInv'
  <1>1. NoPVComes
    BY DEF NoPVComes
  <1>2. \A d \in Calls : CapOK(d)'
    BY <1>1, KeptCapOK, CapacityInvIs
  <1>3. SharedCapacityRespected'
    BY <1>1, KeptCapacity, CapacityInvIs
  <1> QED  BY <1>2, <1>3 DEF CapacityInv, CapOK

(* convertSharedRequest has counted every PV of the slot.                   *)
LEMMA ScanCapacity ==
  ASSUME IsFiniteSet(Shared), TypeOK, CallsWellFormed, CreatesNamed, CapacityInv,
         NEW c \in Calls, Scan(c), Moves(c)
  PROVE  CapacityInv'
  <1> DEFINE i == call[c].slot
             v == call[c].vol
             r == call'[c]
  <1>1. CASE CreateError(c)
    BY <1>1, ReturnFields DEF CreateError, Moves, Idle
  <1>2. CASE ~CreateError(c)
    <2>1. /\ ReqCap[v] <= SharedCapBytes /\ UNCHANGED pv
          /\ call' = [call EXCEPT ![c].counted = PVsInSlot(i),
                                  ![c].pc = IF TotalCap(PVsInSlot(i)) = 0 THEN "listNas"
                                            ELSE "pvName"]
      BY <1>2 DEF Scan
    <2>2. /\ r.slot = i /\ r.vol = v /\ r.counted = PVsInSlot(i)
          /\ r.pc \in {"listNas", "pvName"}
          /\ r.pc = "listNas" => TotalCap(r.counted) = 0
      BY <2>1 DEF TypeOK, Call
    <2>3. PVsInSlot(i) = {w \in Shared : pv'[w] # None /\ pv'[w][1] = i}
      BY <2>1 DEF PVsInSlot
    <2>4. CountedCovers(call[c])'
      BY <2>1, <2>2, <2>3 DEF CountedCovers, PVsInSlot
    <2>5. ~Placed(call[c])'
      BY <2>2 DEF Placed, PlacedPCs, HoldingPCs, JobPCs
    <2>6. CapOK(c)'
      BY <2>4, <2>5 DEF CapOK
    <2> QED  BY <2>1, <2>6, HandlerCapacity DEF Moves, NoPVComes
  <1> QED  BY <1>1, <1>2

(* getSharedNameFromExistingNas: nothing that needs room is on the          *)
(* instances of the slot.                                                   *)
LEMMA ListNasCapacity ==
  ASSUME IsFiniteSet(Shared), ClassFits, TypeOK, CallsWellFormed, CreatesNamed, CapacityInv,
         NEW c \in Calls, ListNas(c), Moves(c)
  PROVE  CapacityInv'
  <1> DEFINE i == call[c].slot
             v == call[c].vol
             r == call'[c]
  <1>1. PICK n \in SharedNames : n[1] = i /\ Place(c, n)
    BY DEF ListNas, SlotInstances
  <1>2. UNCHANGED pv /\ call[c].pc = "listNas" /\ call[c].op = "create"
    BY DEF ListNas, CallsWellFormed, WellFormed, CreatePCs
  <1>3. r.name = n /\ r.vol = v /\ r.pc = "hold"
    BY <1>1 DEF Place, TypeOK, Call
  <1>4. ASSUME v \in Shared
        PROVE  TotalCap({w \in Shared : pv'[w] = n}) + ReqCap[v] <= InstanceCapBytes
    <2>1. CountedCovers(call[c])
      BY <1>2, <1>4, CapacityInvIs DEF CapOK, Searches
    <2>2. PVsInSlot(i) \subseteq call[c].counted /\ TotalCap(call[c].counted) = 0
          /\ ReqCap[v] <= SharedCapBytes
      BY <1>2, <2>1 DEF CountedCovers
    <2>3. {w \in Shared : pv'[w] = n} \in SUBSET call[c].counted
      <3>1. n # None
        BY DEF Names
      <3> QED  BY <1>1, <1>2, <2>2, <3>1 DEF PVsInSlot
    <2>4. call[c].counted \in SUBSET Shared
      BY DEF TypeOK, Call
    <2>5. /\ TotalCap({w \in Shared : pv'[w] = n}) \in Nat
          /\ TotalCap({w \in Shared : pv'[w] = n}) <= TotalCap(call[c].counted)
      BY <2>3, <2>4, SharedTotals
    <2>6. SharedCapBytes <= InstanceCapBytes /\ SharedCapBytes \in Nat /\ InstanceCapBytes \in Nat
          /\ ReqCap[v] \in Nat
      BY <1>4, InstanceCapIs
    <2> QED  BY <2>2, <2>5, <2>6
  <1>5. Placed(call[c])' => v \in Shared
    BY <1>3 DEF Placed
  <1>6. Placed(call[c])' => RoomKept(call[c])'
    BY <1>3, <1>4, <1>5 DEF RoomKept, OnInstance
  <1>7. ~Searches(call[c])'
    BY <1>3 DEF Searches
  <1>8. CapOK(c)'
    BY <1>6, <1>7 DEF CapOK
  <1> QED  BY <1>2, <1>8, HandlerCapacity DEF Moves, NoPVComes

(* getSharedNameFromExistingPv: an instance of the slot.                    *)
LEMMA PvNameCapacity ==
  ASSUME IsFiniteSet(Shared), TypeOK, CallsWellFormed, CreatesNamed, CapacityInv,
         NEW c \in Calls, PvName(c), Moves(c)
  PROVE  CapacityInv'
  <1> DEFINE i == call[c].slot
             r == call'[c]
  <1>1. CASE CreateError(c)
    BY <1>1, ReturnFields DEF CreateError, Moves, Idle
  <1>2. CASE ~CreateError(c)
    <2>1. PICK w \in PVsInSlot(i) : call' = [call EXCEPT ![c].name = pv[w], ![c].pc = "fit"]
      BY <1>2 DEF PvName
    <2>2. UNCHANGED pv /\ call[c].pc = "pvName"
      BY DEF PvName
    <2>3. /\ r.slot = i /\ r.vol = call[c].vol /\ r.counted = call[c].counted /\ r.pc = "fit"
          /\ r.op = call[c].op /\ r.name = pv[w]
      BY <2>1 DEF TypeOK, Call
    <2>4. r.name[1] = i
      BY <2>3 DEF PVsInSlot
    <2>5. ASSUME Searches(call[c])' PROVE CountedCovers(call[c])'
      <3>1. Searches(call[c])
        BY <2>2, <2>3, <2>5 DEF Searches
      <3>2. CountedCovers(call[c])
        BY <3>1, CapacityInvIs DEF CapOK
      <3>3. PVsInSlot(i) = {u \in Shared : pv'[u] # None /\ pv'[u][1] = i}
        BY <2>2 DEF PVsInSlot
      <3> QED  BY <2>3, <2>4, <3>2, <3>3 DEF CountedCovers, PVsInSlot
    <2>6. ~Placed(call[c])'
      BY <2>3 DEF Placed, PlacedPCs, HoldingPCs, JobPCs
    <2>7. CapOK(c)'
      BY <2>5, <2>6 DEF CapOK
    <2> QED  BY <2>2, <2>7, HandlerCapacity DEF Moves, NoPVComes
  <1> QED  BY <1>1, <1>2

(* The volume is placed where what was counted leaves room for it.          *)
LEMMA FitCapacity ==
  ASSUME IsFiniteSet(Shared), TypeOK, CallsWellFormed, CreatesNamed, CapacityInv,
         NEW c \in Calls, Fit(c), Moves(c)
  PROVE  CapacityInv'
  <1> DEFINE i == call[c].slot
             v == call[c].vol
             n == call[c].name
             r == call'[c]
  <1>1. UNCHANGED pv /\ call[c].pc = "fit" /\ call[c].op = "create" /\ n # None
    BY DEF Fit, CallsWellFormed, WellFormed, CreatePCs
  <1>2. CASE CreateError(c)
    BY <1>2, ReturnFields DEF CreateError, Moves, Idle
  <1>3. CASE ReqCap[v] + TotalCap(call[c].counted) <= InstanceCapBytes /\ Place(c, n)
    <2>1. r.name = n /\ r.vol = v /\ r.pc = "hold"
      BY <1>3 DEF Place, TypeOK, Call
    <2>2. ASSUME v \in Shared
          PROVE  TotalCap({w \in Shared : pv'[w] = n}) + ReqCap[v] <= InstanceCapBytes
      <3>1. CountedCovers(call[c])
        BY <1>1, <2>2, CapacityInvIs DEF CapOK, Searches
      <3>2. PVsInSlot(i) \subseteq call[c].counted /\ n[1] = i
        BY <1>1, <3>1 DEF CountedCovers
      <3>3. {w \in Shared : pv'[w] = n} \in SUBSET call[c].counted
        BY <1>1, <3>2 DEF PVsInSlot
      <3>4. call[c].counted \in SUBSET Shared
        BY DEF TypeOK, Call
      <3>5. /\ TotalCap({w \in Shared : pv'[w] = n}) \in Nat /\ TotalCap(call[c].counted) \in Nat
            /\ TotalCap({w \in Shared : pv'[w] = n}) <= TotalCap(call[c].counted)
        BY <3>3, <3>4, SharedTotals
      <3>6. InstanceCapBytes \in Nat /\ ReqCap[v] \in Nat
        BY <2>2, InstanceCapIs
      <3> QED  BY <1>3, <3>5, <3>6
    <2>3. Placed(call[c])' => v \in Shared
      BY <2>1 DEF Placed
    <2>4. Placed(call[c])' => RoomKept(call[c])'
      BY <2>1, <2>2, <2>3 DEF RoomKept, OnInstance
    <2>5. ~Searches(call[c])'
      BY <2>1 DEF Searches
    <2>6. CapOK(c)'
      BY <2>4, <2>5 DEF CapOK
    <2> QED  BY <1>1, <2>6, HandlerCapacity DEF Moves, NoPVComes
  <1>4. CASE call' = [call EXCEPT ![c].pc = "scan", ![c].slot = @ + 1, ![c].name = None,
                                  ![c].counted = {}]
    <2>1. r.pc = "scan"
      BY <1>4 DEF TypeOK, Call
    <2>2. CapOK(c)'
      BY <2>1, IdleCapOK DEF PlacedPCs, HoldingPCs, JobPCs
    <2> QED  BY <1>1, <2>2, HandlerCapacity DEF Moves, NoPVComes
  <1> QED  BY <1>2, <1>3, <1>4 DEF Fit

(* A PV comes to an instance that has room for it, and no other volume is   *)
(* counting on that room.                                                   *)
LEMMA BindsCapacity ==
  ASSUME IsFiniteSet(Shared), IInv, SerialInv, CapacityInv, NEW c \in Calls, ProvisionerBinds(c)
  PROVE  CapacityInv'
  <1> DEFINE v == call[c].vol
             n == call[c].name
  <1>0. TypeOK /\ CallsWellFormed /\ QueuesConsistent /\ CreatesNamed
    BY DEF IInv, SerialInv
  <1>1. /\ Return(c) /\ pv' = [pv EXCEPT ![v] = n] /\ call[c].pc = "done" /\ call[c].op = "create"
    BY DEF ProvisionerBinds
  <1>2. (\A d \in Calls \ {c} : call'[d] = call[d]) /\ call'[c] = Idle
    BY <1>0, <1>1, ReturnFields
  <1>3. call'[c].op = "none"
    BY <1>2 DEF Idle
  <1>4. CapOK(c)'
    BY <1>3, IdleCapOK
  <1>5. v \in Volumes /\ \A d \in Calls \ {c} : call[d].vol # v
    BY <1>0, <1>1, OnlyHandler
  <1>6. \A w \in Volumes : pv'[w] = IF w = v THEN n ELSE pv[w]
    BY <1>0, <1>1 DEF TypeOK
  <1>7. CASE v \notin Shared
    <2>1. NoPVComes
      BY <1>6, <1>7 DEF NoPVComes
    <2> QED  BY <1>0, <1>2, <1>4, <2>1, HandlerCapacity
  <1>8. CASE v \in Shared
    <2>1. ASSUME NEW d \in Calls \ {c}, Searches(call[d]) \/ Placed(call[d]) PROVE FALSE
      <3>1. Placing(call[d].vol) /\ call[d].vol \in Shared
        BY <2>1 DEF Placing, Searches, Placed, PlacedPCs, HoldingPCs, JobPCs
      <3>2. Placing(v)
        BY <1>1 DEF Placing
      <3>3. call[d].vol = v
        BY <1>0, <1>8, <3>1, <3>2, OnePlacing DEF SharedCreatesSerialized
      <3> QED  BY <1>5, <3>3
    <2>2. \A d \in Calls \ {c} : CapOK(d)'
      BY <1>2, <2>1 DEF CapOK, Searches, Placed
    <2>3. SharedCapacityRespected'
      <3> SUFFICES ASSUME NEW m \in SharedNames
                   PROVE  TotalCap({w \in Shared : pv'[w] = m}) <= InstanceCapBytes
        BY DEF SharedCapacityRespected
      <3>1. pv[v] = None /\ m # None
        BY <1>1 DEF SerialInv, CreatesUnbound, Names
      <3>2. CASE m # n
        <4>1. {w \in Shared : pv'[w] = m} = {w \in Shared : pv[w] = m}
          BY <1>6, <3>1, <3>2
        <4> QED  BY <4>1, CapacityInvIs DEF SharedCapacityRespected
      <3>3. CASE m = n
        <4> DEFINE S == {w \in Shared : pv[w] = m}
        <4>1. {w \in Shared : pv'[w] = m} = S \cup {v}
          BY <1>6, <1>8, <3>3
        <4>2. S \in SUBSET Volumes /\ v \notin S
          BY <3>1
        <4>3. IsFiniteSet(S)
          BY FS_Subset
        <4>4. TotalCap(S \cup {v}) = TotalCap(S) + ReqCap[v]
          BY <1>5, <4>2, <4>3, TotalCapAdd
        <4>5. TotalCap(S) + ReqCap[v] <= InstanceCapBytes
          <5>1. Placed(call[c])
            BY <1>1, <1>8 DEF Placed, PlacedPCs
          <5> QED  BY <3>3, <5>1, CapacityInvIs DEF CapOK, RoomKept, OnInstance
        <4> QED  BY <4>1, <4>4, <4>5
      <3> QED  BY <3>2, <3>3
    <2> QED  BY <1>4, <2>2, <2>3 DEF CapacityInv, CapOK
  <1> QED  BY <1>7, <1>8

(* CapacityInv is inductive, given IInv and SerialInv.                      *)
LEMMA CapacityStep ==
  ASSUME IsFiniteSet(Shared), ClassFits, ~Timeouts, ~Restarts,
         IInv, SerialInv, CapacityInv, [Next]_vars
  PROVE  CapacityInv'
  <1>1. TypeOK /\ CallsWellFormed /\ CreatesNamed
    BY DEF IInv, SerialInv
  <1>2. CASE UNCHANGED vars
    BY <1>1, <1>2, QuietCapacity
  <1>3. ASSUME NEW c \in Calls, Scan(c) \/ ListNas(c) \/ PvName(c) \/ Fit(c) PROVE CapacityInv'
    BY <1>1, <1>3, SearchMoves, ScanCapacity, ListNasCapacity, PvNameCapacity, FitCapacity,
       ReturnsCapacity
  <1>4. ASSUME (\E v \in Volumes : PvAdded(v)) \/ Elsewhere PROVE CapacityInv'
    <2>1. UNCHANGED <<call, pv>>
      BY <1>4 DEF PvAdded, Elsewhere
    <2> QED  BY <1>1, <2>1, QuietCapacity
  <1>5. CASE Next
    BY <1>1, <1>3, <1>4, <1>5, StepKinds, MovesCapacity, ReturnsCapacity, BeginsCapacity,
       BindsCapacity, UnbindsCapacity
  <1> QED  BY <1>2, <1>5

(* CapacityInv holds at the start.                                          *)
LEMMA CapacityInit == Init => CapacityInv
  <1> SUFFICES ASSUME Init PROVE CapacityInv
    OBVIOUS
  <1>1. \A d \in Calls : call[d].op = "none"
    BY DEF Init, Idle
  <1>2. ASSUME NEW n \in SharedNames PROVE TotalCap({v \in Shared : pv[v] = n}) <= InstanceCapBytes
    <2>1. n # None
      BY DEF Names
    <2>2. {v \in Shared : pv[v] = n} = {}
      BY <2>1 DEF Init
    <2>3. InstanceCapBytes \in Nat
      BY InstanceCapIs
    <2>4. TotalCap({v \in Shared : pv[v] = n}) = 0
      BY <2>2, TotalCapEmpty
    <2> QED  BY <2>3, <2>4
  <1> QED  BY <1>1, <1>2 DEF CapacityInv, SharedCapacityRespected, Searches, Placed

(* convertSharedRequest keeps shared instances from being overbooked, for   *)
(* any number of claims, slots and goroutines and whatever calls fail: the  *)
(* PVs on an instance request no more than it holds.  The count of the PVs  *)
(* is taken well before the new PV is there, so this needs the turns of     *)
(* creatingPvsQueue; it also needs a storage class whose instances exist.   *)
THEOREM SharedInstancesAreNotOverbooked ==
  ASSUME ~Timeouts, ~Restarts, IsFiniteSet(Shared), ClassFits
  PROVE  Spec => []SharedCapacityRespected
  <1>1. Init => SerialInv /\ CapacityInv
    BY SerialInit, CapacityInit
  <1>2. IInv /\ SerialInv /\ CapacityInv /\ [Next]_vars => SerialInv' /\ CapacityInv'
    BY SerialStep, CapacityStep
  <1>3. CapacityInv => SharedCapacityRespected
    BY DEF CapacityInv
  <1> QED  BY <1>1, <1>2, <1>3, Invariance, PTL DEF Spec

-----------------------------------------------------------------------------
(* What a step does to the handlers, with timeouts and restarts. *)

Others(c) == \A d \in Calls \ {c} : call'[d] = call[d]

(* A handler has returned, or stays with its request and its instance: it   *)
(* does nothing, goes on past the search, deletes but is not done, or waits *)
(* for the mutex.                                                           *)
Stays(d) ==
    \/ call'[d] = Idle
    \/ /\ call'[d].op = call[d].op /\ call'[d].vol = call[d].vol
       /\ call'[d].name = call[d].name /\ (call'[d].awaited => call[d].awaited)
       /\ \/ call'[d].pc = call[d].pc /\ call'[d].slot = call[d].slot
          \/ /\ call[d].op = "create"
             /\ call[d].pc \in PlacedPCs /\ call'[d].pc \in PlacedPCs
          \/ call[d].op = "delete" /\ call'[d].pc # "done"
          \/ call[d].pc = "queue" /\ call'[d].pc = "lock"

(* It has its source path only if it had.                                   *)
PathKept(d) ==
    call'[d].op = "create" /\ call'[d].vol \in Shared /\ call'[d].pc \in PathPCs
        => /\ call[d].op = "create" /\ call[d].pc \in PathPCs
           /\ call'[d].vol = call[d].vol /\ call'[d].name = call[d].name

(* A handler that does nothing, or is lost, stays.                          *)
LEMMA SameStays ==
  ASSUME NEW d, call'[d] = call[d] \/ call'[d] = Idle
  PROVE  Stays(d) /\ PathKept(d)
  BY DEF Stays, PathKept, Idle

(* A return is no more than that.                                           *)
LEMMA ReturnStays ==
  ASSUME TypeOK, NEW c \in Calls, Return(c)
  PROVE  \A d \in Calls : Stays(d) /\ PathKept(d)
  BY ReturnFields, SameStays

(* Nor is an error path.                                                    *)
LEMMA ErrorStays ==
  ASSUME TypeOK, NEW c \in Calls, CreateError(c) \/ DeleteError(c) \/ Error(c)
  PROVE  \A d \in Calls : Stays(d) /\ PathKept(d)
  <1>1. Return(c)
    BY DEF CreateError, DeleteError, Error
  <1> QED  BY <1>1, ReturnStays

(* A handler that has its instance goes on with it; one that deletes is not *)
(* done before its last step; one that has queued waits for the mutex.      *)
LEMMA GotoStays ==
  ASSUME TypeOK, CallsWellFormed, NEW c \in Calls, NEW p, Goto(c, p),
         \/ call[c].op = "create" /\ call[c].pc \in PlacedPCs /\ p \in PlacedPCs
         \/ call[c].op = "delete" /\ p # "done"
         \/ call[c].pc = "queue" /\ p = "lock"
  PROVE  /\ \A d \in Calls : Stays(d)
         /\ (call[c].op = "create" /\ call[c].vol \in Shared /\ p \in PathPCs
               => call[c].pc \in PathPCs)
               => \A d \in Calls : PathKept(d)
  <1>1. /\ Others(c)
        /\ call'[c].op = call[c].op /\ call'[c].vol = call[c].vol /\ call'[c].name = call[c].name
        /\ call'[c].pc = p /\ call'[c].awaited = call[c].awaited
    BY DEF TypeOK, Call, Goto, Others
  <1>2. Stays(c)
    BY <1>1 DEF Stays
  <1>3. (call[c].op = "create" /\ call[c].vol \in Shared /\ p \in PathPCs
          => call[c].pc \in PathPCs) => PathKept(c)
    BY <1>1 DEF PathKept
  <1> QED  BY <1>1, <1>2, <1>3, SameStays DEF Others

(* A handler that holds a name has an instance.                             *)
LEMMA HoldingIsPlaced == HoldingPCs \subseteq PlacedPCs /\ {"hold", "done"} \subseteq PlacedPCs
  BY DEF PlacedPCs

(* Queueing gives a handler no instance.                                    *)
LEMMA QueueStays ==
  ASSUME TypeOK, CallsWellFormed, NEW c \in Calls, QueueCreate(c)
  PROVE  \A d \in Calls : Stays(d) /\ PathKept(d)
  <1>1. CreateError(c) \/ (call[c].pc = "queue" /\ Goto(c, "lock"))
    BY DEF QueueCreate
  <1>2. "lock" \notin PathPCs
    BY DEF PathPCs
  <1> QED  BY <1>1, <1>2, GotoStays, ErrorStays

(* The steps that note a name or an address keep the instance.              *)
LEMMA RecordStays ==
  ASSUME TypeOK, CallsWellFormed, NEW c \in Calls,
         SetCreating(c) \/ ListIPs(c) \/ GetUnreservedIP(c) \/ CreateOK(c)
  PROVE  \A d \in Calls : Stays(d) /\ PathKept(d)
  <1>1. CASE CreateError(c)
    BY <1>1, ErrorStays
  <1>2. CASE ~CreateError(c)
    <2>1. /\ Others(c)
          /\ call'[c].op = call[c].op /\ call'[c].vol = call[c].vol
          /\ call'[c].awaited = call[c].awaited /\ call'[c].name = call[c].name
          /\ call'[c].pc \in {"get", "pickIP", "create", "done"}
          /\ call[c].pc \in {"hold", "listIPs", "pickIP", "reply"}
          /\ call'[c].pc = "done" => call[c].pc = "reply"
      <3>1. CASE SetCreating(c)
        BY <1>2, <3>1 DEF TypeOK, Call, SetCreating, Others
      <3>2. CASE ListIPs(c)
        BY <1>2, <3>2 DEF TypeOK, Call, ListIPs, Others
      <3>3. CASE GetUnreservedIP(c)
        <4>1. PICK ip : call' = [call EXCEPT ![c].ip = ip, ![c].seenIPs = {}, ![c].pc = "create"]
          BY <1>2, <3>3 DEF GetUnreservedIP
        <4>2. call[c].pc = "pickIP"
          BY <3>3 DEF GetUnreservedIP
        <4> QED  BY <4>1, <4>2 DEF TypeOK, Call, Others
      <3>4. CASE CreateOK(c)
        BY <1>2, <3>4 DEF TypeOK, Call, CreateOK, Others
      <3> QED  BY <3>1, <3>2, <3>3, <3>4
    <2>2. call[c].op = "create"
      BY <2>1 DEF CallsWellFormed, WellFormed, CreatePCs
    <2>3. Stays(c) /\ PathKept(c)
      BY <2>1, <2>2 DEF Stays, PathKept, PathPCs, PlacedPCs, HoldingPCs, JobPCs
    <2> QED  BY <2>1, <2>3, SameStays DEF Others
  <1> QED  BY <1>1, <1>2

(* The calls to the cloud keep the instance.                                *)
LEMMA CreateStays ==
  ASSUME TypeOK, CallsWellFormed, NEW c \in Calls,
         \/ GetInstance(c) \/ CreateInstance(c) \/ WaitAvailable(c) \/ Refetch(c)
         \/ ModifyInstance(c) \/ RestoreSnapshot(c)
  PROVE  \A d \in Calls : Stays(d) /\ PathKept(d)
  <1>1. call[c].pc \in {"get", "create", "waitCreated", "waitModified", "refetch", "refetched",
                        "modify", "restore"}
    BY DEF GetInstance, CreateInstance, WaitAvailable, Refetch, ModifyInstance, RestoreSnapshot
  <1>2. call[c].pc \in HoldingPCs /\ call[c].op = "create"
    BY <1>1 DEF HoldingPCs, CreatePCs, CallsWellFormed, WellFormed
  <1>3. /\ AfterReady(call[c].vol) \in HoldingPCs
        /\ call[c].vol \in Shared => AfterReady(call[c].vol) = "job"
    BY DEF AfterReady, AfterPath, HoldingPCs, JobPCs
  <1>4. CASE CreateError(c)
    BY <1>4, ErrorStays
  <1>5. CASE ~CreateError(c)
    <2>1. \E p \in HoldingPCs : /\ Goto(c, p)
                                /\ call[c].vol \in Shared /\ p \in PathPCs => call[c].pc \in PathPCs
      <3> DEFINE next == {"listIPs", "create", "waitCreated", "modify", AfterReady(call[c].vol)}
      <3>0. next \subseteq HoldingPCs /\ (call[c].vol \in Shared => next \cap PathPCs = {})
        BY <1>3 DEF HoldingPCs, PathPCs
      <3>1. CASE GetInstance(c)
        <4>1. \E p \in next : Goto(c, p)
          BY <1>5, <3>1 DEF GetInstance
        <4> HIDE DEF next
        <4> QED  BY <3>0, <4>1
      <3>2. CASE CreateInstance(c) \/ ModifyInstance(c) \/ RestoreSnapshot(c)
        BY <1>5, <3>2 DEF CreateInstance, ModifyInstance, RestoreSnapshot, HoldingPCs, PathPCs
      <3>3. CASE WaitAvailable(c)
        BY <1>5, <3>3 DEF WaitAvailable, HoldingPCs, PathPCs
      <3>4. CASE Refetch(c)
        <4>1. \E p \in next : Goto(c, p)
          BY <1>5, <3>4 DEF Refetch
        <4> HIDE DEF next
        <4> QED  BY <3>0, <4>1
      <3> QED  BY <3>1, <3>2, <3>3, <3>4
    <2> QED  BY <1>2, <2>1, GotoStays, HoldingIsPlaced
  <1> QED  BY <1>4, <1>5

(* A finished job is what takes a handler on to its source path.            *)
PathFound(c) ==
    /\ call'[c].op = call[c].op /\ call'[c].vol = call[c].vol /\ call'[c].name = call[c].name
    /\ call[c].pc = "poll" /\ job[call[c].name].state = "done"

(* The steps of doNfsJob keep the instance; the poll that sees the job done *)
(* is the only way past it.                                                 *)
LEMMA JobStays ==
  ASSUME TypeOK, CallsWellFormed, NEW c \in Calls,
         CreateJob(c) \/ RecreateJob(c) \/ PollJob(c)
  PROVE  \A d \in Calls : Stays(d) /\ (PathKept(d) \/ PathFound(d))
  <1>1. call[c].pc \in JobPCs
    BY DEF CreateJob, RecreateJob, PollJob, JobPCs
  <1>2. /\ call[c].pc \in HoldingPCs /\ call[c].op \in {"create", "delete"}
        /\ {"poll", "rejob"} \subseteq HoldingPCs /\ {"poll", "rejob"} \cap PathPCs = {}
        /\ AfterPath(call[c].vol) \in HoldingPCs
    BY <1>1 DEF HoldingPCs, JobPCs, CallsWellFormed, WellFormed, TypeOK, Call, AfterPath, PathPCs
  <1>3. CASE Error(c)
    BY <1>3, ErrorStays
  <1>4. CASE ~Error(c) /\ (CreateJob(c) \/ RecreateJob(c))
    <2>1. \E p \in {"poll", "rejob"} : Goto(c, p)
      BY <1>4 DEF CreateJob, RecreateJob
    <2> QED  BY <1>2, <2>1, GotoStays, HoldingIsPlaced
  <1>5. CASE ~Error(c) /\ PollJob(c)
    <2>1. PICK p : /\ Goto(c, p)
                   /\ p = IF call[c].op = "create" THEN AfterPath(call[c].vol) ELSE "delCheck"
      BY <1>5 DEF PollJob
    <2>2. \A d \in Calls : Stays(d)
      BY <1>2, <2>1, GotoStays, HoldingIsPlaced
    <2>3. PathFound(c)
      <3>1. call[c].pc = "poll" /\ job[call[c].name].state = "done"
        BY <1>5 DEF PollJob
      <3> QED  BY <2>1, <3>1, GotoFields DEF PathFound
    <2>4. Others(c)
      BY <2>1 DEF Goto, TypeOK, Others
    <2> QED  BY <2>2, <2>3, <2>4, SameStays DEF Others
  <1> QED  BY <1>3, <1>4, <1>5

(* DeleteVolume until it is done.                                           *)
LEMMA DeleteStays ==
  ASSUME TypeOK, CallsWellFormed, NEW c \in Calls,
         DelGet(c) \/ QueueDelete(c) \/ LockDelete(c) \/ DelCheck(c) \/ DeleteInstance(c)
  PROVE  /\ \A d \in Calls : PathKept(d)
         /\ \/ \A d \in Calls : Stays(d)
            \/ Goto(c, "done") /\ call[c].op = "delete"
  <1>1. call[c].pc \in DeletePCs
    BY DEF DelGet, QueueDelete, LockDelete, DelCheck, DeleteInstance, DeletePCs
  <1>2. call[c].op = "delete"
    BY <1>1 DEF CallsWellFormed, WellFormed, DeletePCs
  <1>3. CASE DeleteError(c)
    BY <1>3, ErrorStays
  <1>4. CASE ~DeleteError(c)
    <2>1. \E p : Goto(c, p)
      BY <1>4 DEF DelGet, QueueDelete, LockDelete, DelCheck, DeleteInstance
    <2>2. PICK p : Goto(c, p)
      BY <2>1
    <2>3. \A d \in Calls : PathKept(d)
      <3>1. Others(c) /\ call'[c].op = call[c].op
        BY <2>2 DEF Goto, TypeOK, Call, Others
      <3>2. PathKept(c)
        BY <1>2, <3>1 DEF PathKept
      <3> QED  BY <3>1, <3>2, SameStays DEF Others
    <2> QED  BY <1>2, <2>2, <2>3, GotoStays
  <1> QED  BY <1>3, <1>4

(* The search, and the beginning of a request.                              *)
Searching(c) == LockCreate(c) \/ Scan(c) \/ ListNas(c) \/ PvName(c) \/ Fit(c)

(* A step of the search changes only its handler's instance and place.      *)
LEMMA SearchingPath ==
  ASSUME TypeOK, CallsWellFormed, NEW c \in Calls, Searching(c)
  PROVE  /\ \A d \in Calls : PathKept(d)
         /\ UNCHANGED <<nas, job, pv, released>> /\ call[c].op = "create"
         /\ \/ \A d \in Calls : Stays(d)
            \/ Others(c) /\ call'[c].op = call[c].op /\ call'[c].vol = call[c].vol
               /\ call'[c].awaited = call[c].awaited
  <1>1. /\ UNCHANGED <<nas, job, pv, released>>
        /\ call[c].pc \in {"lock", "scan", "listNas", "pvName", "fit"}
    BY DEF Searching, LockCreate, Scan, ListNas, PvName, Fit
  <1>2. call[c].op = "create"
    BY <1>1 DEF CallsWellFormed, WellFormed, CreatePCs
  <1>3. CASE LockCreate(c)
    <2>1. Others(c) /\ call'[c].op = call[c].op /\ call'[c].vol = call[c].vol
            /\ call'[c].awaited = call[c].awaited /\ call'[c].pc = "scan"
      BY <1>3 DEF LockCreate, TypeOK, Call, Others
    <2>2. PathKept(c)
      BY <2>1 DEF PathKept, PathPCs
    <2> QED  BY <1>1, <1>2, <2>1, <2>2, SameStays DEF Others
  <1>4. CASE ~LockCreate(c) /\ Returns(c)
    BY <1>1, <1>2, <1>4, SameStays DEF Returns
  <1>5. CASE ~LockCreate(c) /\ Moves(c)
    <2>1. call'[c].pc \notin PathPCs
      <3>1. CASE CreateError(c)
        BY <1>5, <3>1, ReturnFields DEF CreateError, Moves, Idle
      <3>2. CASE ~CreateError(c)
        <4>1. CASE Scan(c)
          BY <3>2, <4>1 DEF Scan, TypeOK, Call, PathPCs
        <4>2. CASE ListNas(c)
          <5>1. PICK n : Place(c, n)
            BY <4>2 DEF ListNas
          <5> QED  BY <5>1 DEF Place, TypeOK, Call, PathPCs
        <4>3. CASE PvName(c)
          <5>1. PICK n : call' = [call EXCEPT ![c].name = n, ![c].pc = "fit"]
            BY <3>2, <4>3 DEF PvName
          <5> QED  BY <5>1 DEF TypeOK, Call, PathPCs
        <4>4. CASE Fit(c)
          BY <3>2, <4>4 DEF Fit, Place, TypeOK, Call, PathPCs
        <4> QED  BY <1>5, <4>1, <4>2, <4>3, <4>4 DEF Searching
      <3> QED  BY <3>1, <3>2
    <2>2. PathKept(c)
      BY <2>1 DEF PathKept
    <2>3. Others(c) /\ call'[c].op = call[c].op /\ call'[c].vol = call[c].vol
            /\ call'[c].awaited = call[c].awaited
      BY <1>5 DEF Moves, Others
    <2> QED  BY <1>1, <1>2, <2>2, <2>3, SameStays DEF Others
  <1> QED  BY <1>3, <1>4, <1>5, SearchMoves DEF Searching

(* What a new handler starts from, and which request the provisioner may    *)
(* make.                                                                    *)
LEMMA BeginFields ==
  ASSUME TypeOK, NEW c \in Calls, NEW v \in Volumes
  PROVE  /\ CreateVolume(c, v) =>
              /\ Others(c) /\ call'[c].op = "create" /\ call'[c].vol = v /\ call'[c].awaited
              /\ call'[c].pc = IF v \in Shared THEN "queue" ELSE "hold"
              /\ call'[c].name = IF v \in Shared THEN None ELSE v
              /\ NotWaitedFor(v) /\ pv[v] = None /\ v \notin released
              /\ UNCHANGED <<nas, job, pv, released>>
         /\ DeleteVolume(c, v) =>
              /\ Others(c) /\ call'[c].op = "delete" /\ call'[c].vol = v /\ call'[c].awaited
              /\ call'[c].pc = "delGet" /\ call'[c].name = pv[v]
              /\ NotWaitedFor(v) /\ pv[v] # None
              /\ released' = released \cup {v} /\ UNCHANGED <<nas, job, pv>>
  <1>1. ASSUME CreateVolume(c, v)
        PROVE  /\ Others(c) /\ call'[c].op = "create" /\ call'[c].vol = v /\ call'[c].awaited
               /\ call'[c].pc = IF v \in Shared THEN "queue" ELSE "hold"
               /\ call'[c].name = IF v \in Shared THEN None ELSE v
    BY <1>1 DEF CreateVolume, TypeOK, Idle, Others
  <1>2. ASSUME DeleteVolume(c, v)
        PROVE  /\ Others(c) /\ call'[c].op = "delete" /\ call'[c].vol = v /\ call'[c].awaited
               /\ call'[c].pc = "delGet" /\ call'[c].name = pv[v]
    BY <1>2 DEF DeleteVolume, TypeOK, Idle, Others
  <1>3. CreateVolume(c, v) => /\ NotWaitedFor(v) /\ pv[v] = None /\ v \notin released
                              /\ UNCHANGED <<nas, job, pv, released>>
    BY DEF CreateVolume
  <1>4. DeleteVolume(c, v) => /\ NotWaitedFor(v) /\ pv[v] # None
                              /\ released' = released \cup {v} /\ UNCHANGED <<nas, job, pv>>
    BY DEF DeleteVolume
  <1> QED  BY <1>1, <1>2, <1>3, <1>4

(* Replies, informer events, the end of a wait, a restart and what the      *)
(* cloud does.                                                              *)
LEMMA OtherStays ==
  ASSUME TypeOK,
         \/ \E c \in Calls : Reply(c) \/ StopWaiting(c)
         \/ \E v \in Volumes : PvAdded(v) \/ PvDeleted(v)
         \/ \E n \in Names : CloudSettles(n) \/ JobRuns(n) \/ JobVanishes(n)
         \/ Restart \/ UNCHANGED vars
  PROVE  \A d \in Calls : Stays(d) /\ PathKept(d)
  <1>1. ASSUME NEW c \in Calls, Reply(c) PROVE \A d \in Calls : Stays(d) /\ PathKept(d)
    BY <1>1, ReturnStays DEF Reply, ProvisionerBinds, ProvisionerUnbinds, LostReply
  <1>2. ASSUME NEW c \in Calls, StopWaiting(c) PROVE \A d \in Calls : Stays(d) /\ PathKept(d)
    <2>1. /\ Others(c) /\ call'[c].op = call[c].op /\ call'[c].vol = call[c].vol
          /\ call'[c].name = call[c].name /\ ~call'[c].awaited
          /\ call'[c].pc = call[c].pc /\ call'[c].slot = call[c].slot
      BY <1>2 DEF StopWaiting, TypeOK, Call, Others
    <2>2. Stays(c) /\ PathKept(c)
      BY <2>1 DEF Stays, PathKept
    <2> QED  BY <2>1, <2>2, SameStays DEF Others
  <1>3. ASSUME Restart PROVE \A d \in Calls : Stays(d) /\ PathKept(d)
    <2>1. \A d \in Calls : call'[d] = call[d] \/ call'[d] = Idle
      BY <1>3 DEF Restart
    <2> QED  BY <2>1, SameStays
  <1>4. ASSUME \/ \E v \in Volumes : PvAdded(v) \/ PvDeleted(v)
               \/ \E n \in Names : CloudSettles(n) \/ JobRuns(n) \/ JobVanishes(n)
               \/ UNCHANGED vars
        PROVE  \A d \in Calls : Stays(d) /\ PathKept(d)
    <2>1. UNCHANGED call
      BY <1>4 DEF PvAdded, PvDeleted, CloudSettles, JobRuns, JobVanishes
    <2> QED  BY <2>1, SameStays
  <1> QED  BY <1>1, <1>2, <1>3, <1>4

DeleteAction(c) ==
    DelGet(c) \/ QueueDelete(c) \/ LockDelete(c) \/ DelCheck(c) \/ DeleteInstance(c)

(* All steps by what they do to the handlers.                               *)
LEMMA CallKinds ==
  ASSUME TypeOK, CallsWellFormed, [Next]_vars
  PROVE  /\ \A d \in Calls : PathKept(d) \/ PathFound(d)
         /\ \/ \A d \in Calls : Stays(d)
            \/ \E c \in Calls, v \in Volumes : CreateVolume(c, v) \/ DeleteVolume(c, v)
            \/ \E c \in Calls : Searching(c) /\ ~(\A d \in Calls : Stays(d))
            \/ \E c \in Calls : DeleteAction(c) /\ Goto(c, "done") /\ call[c].op = "delete"
  <1>1. ASSUME NEW c \in Calls, NEW v \in Volumes, CreateVolume(c, v) \/ DeleteVolume(c, v)
        PROVE  \A d \in Calls : PathKept(d)
    <2>1. Others(c) /\ call'[c].pc \in {"queue", "hold", "delGet"}
      BY <1>1, BeginFields
    <2>2. PathKept(c)
      BY <2>1 DEF PathKept, PathPCs
    <2> QED  BY <2>1, <2>2, SameStays DEF Others
  <1>2. ASSUME NEW c \in Calls, Searching(c) PROVE \A d \in Calls : PathKept(d)
    BY <1>2, SearchingPath
  <1>3. ASSUME NEW c \in Calls, DeleteAction(c)
        PROVE  /\ \A d \in Calls : PathKept(d)
               /\ (\A d \in Calls : Stays(d)) \/ (Goto(c, "done") /\ call[c].op = "delete")
    BY <1>3, DeleteStays DEF DeleteAction
  <1>4. ASSUME NEW c \in Calls, ApiError(c) PROVE \A d \in Calls : Stays(d) /\ PathKept(d)
    BY <1>4, ErrorStays DEF ApiError
  <1>5. ASSUME NEW c \in Calls, Step(c), ~Searching(c), ~DeleteAction(c)
        PROVE  \A d \in Calls : Stays(d) /\ (PathKept(d) \/ PathFound(d))
    BY <1>4, <1>5, QueueStays, RecordStays, CreateStays, JobStays
    DEF Step, Searching, DeleteAction
  <1>6. ASSUME NEW c \in Calls, Step(c) \/ LockCreate(c) \/ LockDelete(c)
        PROVE  \/ Searching(c) \/ DeleteAction(c)
               \/ Step(c) /\ ~Searching(c) /\ ~DeleteAction(c)
    BY <1>6 DEF Searching, DeleteAction
  <1>7. ASSUME \/ \E c \in Calls : Reply(c) \/ StopWaiting(c)
               \/ \E v \in Volumes : PvAdded(v) \/ PvDeleted(v)
               \/ \E n \in Names : CloudSettles(n) \/ JobRuns(n) \/ JobVanishes(n)
               \/ Restart \/ UNCHANGED vars
        PROVE  \A d \in Calls : Stays(d) /\ PathKept(d)
    BY <1>7, OtherStays
  <1> HIDE DEF vars
  <1>8. CASE \E c \in Calls : Step(c) \/ LockCreate(c) \/ LockDelete(c)
    BY <1>2, <1>3, <1>5, <1>6, <1>8
  <1> QED  BY <1>1, <1>7, <1>8 DEF Next

(* What a step does to the stores.                                          *)
LEMMA StoreKinds ==
  ASSUME [Next]_vars
  PROVE  /\ \/ UNCHANGED pv
            \/ \E c \in Calls : ProvisionerBinds(c) \/ ProvisionerUnbinds(c)
         /\ \/ UNCHANGED released
            \/ \E c \in Calls, v \in Volumes : DeleteVolume(c, v)
         /\ \/ UNCHANGED nas
            \/ \E c \in Calls : CreateInstance(c) \/ ModifyInstance(c) \/ DeleteInstance(c)
            \/ \E n \in Names : CloudSettles(n) \/ JobRuns(n)
         /\ \/ UNCHANGED job
            \/ \E c \in Calls : CreateJob(c) \/ RecreateJob(c) \/ PollJob(c)
            \/ \E n \in Names : CloudSettles(n) \/ JobRuns(n) \/ JobVanishes(n)
  <1>1. ASSUME NEW c \in Calls, NEW v \in Volumes, CreateVolume(c, v) \/ DeleteVolume(c, v)
        PROVE  /\ UNCHANGED <<nas, job, pv>>
               /\ UNCHANGED released \/ DeleteVolume(c, v)
    BY <1>1 DEF CreateVolume, DeleteVolume
  <1>2. ASSUME NEW c \in Calls,
               \/ QueueCreate(c) \/ LockCreate(c) \/ Scan(c) \/ ListNas(c) \/ PvName(c) \/ Fit(c)
               \/ SetCreating(c) \/ GetInstance(c) \/ ListIPs(c) \/ GetUnreservedIP(c)
        PROVE  UNCHANGED <<nas, job, pv, released>>
    BY <1>2 DEF QueueCreate, LockCreate, Scan, ListNas, PvName, Fit, SetCreating, GetInstance,
                ListIPs, GetUnreservedIP
  <1>3. ASSUME NEW c \in Calls,
               \/ WaitAvailable(c) \/ Refetch(c) \/ RestoreSnapshot(c) \/ CreateOK(c)
               \/ DelGet(c) \/ QueueDelete(c) \/ LockDelete(c) \/ DelCheck(c) \/ ApiError(c)
               \/ StopWaiting(c) \/ LostReply(c)
        PROVE  UNCHANGED <<nas, job, pv, released>>
    BY <1>3 DEF WaitAvailable, Refetch, RestoreSnapshot, CreateOK, DelGet, QueueDelete, LockDelete,
                DelCheck, ApiError, StopWaiting, LostReply
  <1>4. ASSUME NEW c \in Calls, CreateInstance(c) \/ ModifyInstance(c) \/ DeleteInstance(c)
        PROVE  UNCHANGED <<job, pv, released>>
    BY <1>4 DEF CreateInstance, ModifyInstance, DeleteInstance
  <1>5. ASSUME NEW c \in Calls, CreateJob(c) \/ RecreateJob(c) \/ PollJob(c)
        PROVE  UNCHANGED <<nas, pv, released>>
    BY <1>5 DEF CreateJob, RecreateJob, PollJob
  <1>6. ASSUME NEW c \in Calls, ProvisionerBinds(c) \/ ProvisionerUnbinds(c)
        PROVE  UNCHANGED <<nas, job, released>>
    BY <1>6 DEF ProvisionerBinds, ProvisionerUnbinds
  <1>7. ASSUME (\E v \in Volumes : PvAdded(v) \/ PvDeleted(v)) \/ Restart \/ UNCHANGED vars
        PROVE  UNCHANGED <<nas, job, pv, released>>
    BY <1>7 DEF PvAdded, PvDeleted, Restart
  <1>8. ASSUME NEW n \in Names, CloudSettles(n) \/ JobRuns(n) \/ JobVanishes(n)
        PROVE  /\ UNCHANGED <<pv, released>>
               /\ UNCHANGED nas \/ CloudSettles(n) \/ JobRuns(n)
    BY <1>8 DEF CloudSettles, JobRuns, JobVanishes
  <1> HIDE DEF vars
  <1>9. CASE UNCHANGED vars
    BY <1>7, <1>9
  <1>10. CASE \E c \in Calls, v \in Volumes : CreateVolume(c, v) \/ DeleteVolume(c, v)
    BY <1>1, <1>10
  <1>11. CASE \E c \in Calls :
                 Step(c) \/ LockCreate(c) \/ LockDelete(c) \/ Reply(c) \/ StopWaiting(c)
    <2> PICK c \in Calls :
                 Step(c) \/ LockCreate(c) \/ LockDelete(c) \/ Reply(c) \/ StopWaiting(c)
      BY <1>11
    <2> QED  BY <1>2, <1>3, <1>4, <1>5, <1>6 DEF Step, Reply
  <1>12. CASE \/ \E v \in Volumes : PvAdded(v) \/ PvDeleted(v)
              \/ \E n \in Names : CloudSettles(n) \/ JobRuns(n) \/ JobVanishes(n)
              \/ Restart
    BY <1>7, <1>8, <1>12
  <1> QED  BY <1>9, <1>10, <1>11, <1>12 DEF Next

-----------------------------------------------------------------------------
(* Handlers, PVs and jobs stay with the instances of their volumes. *)

(* A volume and an instance determine each other, but for shared volumes.   *)
LEMMA OwnsShared ==
  ASSUME NEW v \in Volumes, NEW n, Owns(v, n)
  PROVE  (v \in Shared <=> n \in SharedNames) /\ n \in Names /\ (v \notin Shared => n = v)
  BY NamesAssumption DEF Owns, Names, Dedicated

(* With at most one shared volume an instance has one volume.               *)
LEMMA OwnerIs ==
  ASSUME OneSharedVolume, NEW v \in Volumes, NEW w \in Volumes, NEW n, Owns(v, n), Owns(w, n)
  PROVE  v = w
  BY OwnsShared DEF OneSharedVolume

(* The search comes before the placement.                                   *)
LEMMA SearchDisjoint == PlacedPCs \cap SearchPCs = {} /\ SearchPCs \subseteq CreatePCs
  BY DEF PlacedPCs, HoldingPCs, JobPCs, SearchPCs, CreatePCs

(* The part of FitInv about handlers.                                       *)
CallFits(d) ==
    /\ call[d].name # None => Owns(call[d].vol, call[d].name)
    /\ call[d].op = "create" /\ call[d].pc \in PlacedPCs => call[d].name # None
    /\ call[d].pc \in SearchPCs => call[d].vol \in Shared
    /\ call[d].op = "delete" => call[d].vol \in released

(* The part of FitInv about handlers, handler by handler.                   *)
LEMMA CallFitsIs ==
  (\A d \in Calls : CallFits(d)) <=> CallsFit /\ CreatesNamed /\ SearchShared /\ DeletesReleased
  BY DEF CallFits, CallsFit, CreatesNamed, SearchShared, DeletesReleased

(* An idle handler has no instance.                                         *)
LEMMA IdleFits ==
  ASSUME NEW d, call'[d] = Idle
  PROVE  CallFits(d)'
  <1>1. /\ call'[d].name = None /\ call'[d].op = "none" /\ call'[d].pc = "idle"
    BY DEF Idle
  <1>2. "idle" \notin SearchPCs
    BY DEF SearchPCs
  <1> QED  BY <1>1, <1>2 DEF CallFits

(* A handler that stays with its instance fits.                             *)
LEMMA StaysFits ==
  ASSUME CallsWellFormed', NEW d \in Calls, CallFits(d), Stays(d), released \subseteq released'
  PROVE  CallFits(d)'
  <1>1. CASE call'[d] = Idle
    BY <1>1, IdleFits
  <1>2. CASE call'[d] # Idle
    <2>1. /\ call'[d].op = call[d].op /\ call'[d].vol = call[d].vol /\ call'[d].name = call[d].name
          /\ \/ call'[d].pc = call[d].pc
             \/ /\ call[d].op = "create"
                /\ call[d].pc \in PlacedPCs /\ call'[d].pc \in PlacedPCs
             \/ call[d].op = "delete"
             \/ call[d].pc = "queue" /\ call'[d].pc = "lock"
      BY <1>2 DEF Stays
    <2>2. call'[d].pc \in SearchPCs => call'[d].op = "create"
      BY SearchDisjoint DEF CallsWellFormed, WellFormed
    <2>3. "queue" \in SearchPCs /\ "lock" \in SearchPCs
      BY DEF SearchPCs
    <2>4. call'[d].pc \in SearchPCs => call[d].pc \in SearchPCs
      BY <2>1, <2>2, <2>3, SearchDisjoint
    <2>5. call'[d].op = "create" /\ call'[d].pc \in PlacedPCs => call[d].pc \in PlacedPCs
      BY <2>1, <2>3, SearchDisjoint
    <2> QED  BY <2>1, <2>4, <2>5 DEF CallFits
  <1> QED  BY <1>1, <1>2

(* A new handler fits: one that deletes takes the instance from the PV.     *)
LEMMA BeginFits ==
  ASSUME TypeOK, PVsFit, NEW c \in Calls, NEW v \in Volumes,
         CreateVolume(c, v) \/ DeleteVolume(c, v)
  PROVE  CallFits(c)'
  <1>1. CASE CreateVolume(c, v)
    <2>1. /\ call'[c].op = "create" /\ call'[c].vol = v
          /\ call'[c].pc = IF v \in Shared THEN "queue" ELSE "hold"
          /\ call'[c].name = IF v \in Shared THEN None ELSE v
      BY <1>1, BeginFields
    <2>2. v # None /\ "hold" \notin SearchPCs /\ "queue" \notin PlacedPCs
      BY DEF SearchPCs, PlacedPCs, HoldingPCs, JobPCs
    <2> QED  BY <2>1, <2>2 DEF CallFits, Owns
  <1>2. CASE DeleteVolume(c, v)
    <2>1. /\ call'[c].op = "delete" /\ call'[c].vol = v /\ call'[c].pc = "delGet"
          /\ call'[c].name = pv[v] /\ released' = released \cup {v} /\ pv[v] # None
      BY <1>2, BeginFields
    <2>2. Owns(v, pv[v]) /\ "delGet" \notin SearchPCs
      BY <2>1 DEF PVsFit, SearchPCs
    <2>3. Owns(call[c].vol, call[c].name)'
      BY <2>1, <2>2 DEF Owns
    <2> QED  BY <2>1, <2>2, <2>3 DEF CallFits
  <1> QED  BY <1>1, <1>2

(* The search finds instances for shared volumes only.                      *)
LEMMA SearchFits ==
  ASSUME TypeOK, CallsWellFormed, PVsFit, NEW c \in Calls, CallFits(c), Searching(c),
         call'[c].op = call[c].op, call'[c].vol = call[c].vol
  PROVE  CallFits(c)'
  <1>1. /\ call[c].pc \in {"lock", "scan", "listNas", "pvName", "fit"}
    BY DEF Searching, LockCreate, Scan, ListNas, PvName, Fit
  <1>2. call[c].op = "create" /\ call[c].vol \in Shared
    BY <1>1 DEF CallsWellFormed, WellFormed, CreatePCs, CallFits, SearchPCs
  <1>3. CASE CreateError(c)
    BY <1>3, ReturnFields, IdleFits DEF CreateError
  <1>4. CASE ~CreateError(c)
    <2>1. /\ call'[c].name \in SharedNames \cup {None, call[c].name}
          /\ call'[c].pc \in PlacedPCs => call'[c].name # None
      <3>1. CASE LockCreate(c)
        BY <3>1 DEF LockCreate, TypeOK, Call, PlacedPCs, HoldingPCs, JobPCs
      <3>2. CASE Scan(c)
        BY <1>4, <3>2 DEF Scan, TypeOK, Call, PlacedPCs, HoldingPCs, JobPCs
      <3>3. CASE ListNas(c)
        <4>1. PICK n \in SharedNames : Place(c, n)
          BY <3>3 DEF ListNas
        <4>2. n # None
          BY DEF Names
        <4> QED  BY <4>1, <4>2 DEF Place, TypeOK, Call
      <3>4. CASE PvName(c)
        <4>1. PICK w \in PVsInSlot(call[c].slot) :
                     call' = [call EXCEPT ![c].name = pv[w], ![c].pc = "fit"]
          BY <1>4, <3>4 DEF PvName
        <4>2. pv[w] \in SharedNames
          BY DEF PVsInSlot, PVsFit, Owns
        <4> QED  BY <4>1, <4>2 DEF TypeOK, Call, PlacedPCs, HoldingPCs, JobPCs
      <3>5. CASE Fit(c)
        <4>1. call[c].name # None
          BY <3>5 DEF Fit, CallsWellFormed, WellFormed
        <4> QED  BY <1>4, <3>5, <4>1 DEF Fit, Place, TypeOK, Call, PlacedPCs, HoldingPCs, JobPCs
      <3> QED  BY <3>1, <3>2, <3>3, <3>4, <3>5 DEF Searching
    <2>2. call'[c].name # None => call'[c].name \in SharedNames
      BY <1>2, <2>1 DEF CallFits, Owns
    <2> QED  BY <1>2, <2>1, <2>2 DEF CallFits, Owns
  <1> QED  BY <1>3, <1>4

(* A claim once deleted stays deleted.                                      *)
LEMMA ReleasedGrows ==
  ASSUME [Next]_vars
  PROVE  released \subseteq released'
  <1>1. ASSUME NEW c \in Calls, NEW v \in Volumes, DeleteVolume(c, v)
        PROVE  released \subseteq released'
    BY <1>1 DEF DeleteVolume
  <1> HIDE DEF vars
  <1> QED  BY <1>1, StoreKinds

(* The handlers' part of FitInv is preserved.                               *)
LEMMA CallsFitStep ==
  ASSUME IInv, CallsWellFormed', FitInv, [Next]_vars
  PROVE  CallsFit' /\ CreatesNamed' /\ SearchShared' /\ DeletesReleased'
  <1>1. TypeOK /\ CallsWellFormed /\ PVsFit /\ (\A d \in Calls : CallFits(d))
    BY CallFitsIs DEF IInv, FitInv
  <1>2. released \subseteq released'
    BY ReleasedGrows
  <1> HIDE DEF vars
  <1>3. ASSUME NEW c \in Calls, Others(c), CallFits(c)' PROVE \A d \in Calls : CallFits(d)'
    BY <1>1, <1>2, <1>3, StaysFits, SameStays DEF Others
  <1>5. ASSUME NEW c \in Calls, NEW v \in Volumes, CreateVolume(c, v) \/ DeleteVolume(c, v)
        PROVE  \A d \in Calls : CallFits(d)'
    <2>1. Others(c)
      BY <1>1, <1>5, BeginFields
    <2> QED  BY <1>1, <1>3, <1>5, <2>1, BeginFits
  <1>6. ASSUME NEW c \in Calls, Searching(c), ~(\A d \in Calls : Stays(d))
        PROVE  \A d \in Calls : CallFits(d)'
    <2>1. Others(c) /\ call'[c].op = call[c].op /\ call'[c].vol = call[c].vol
      BY <1>1, <1>6, SearchingPath
    <2> QED  BY <1>1, <1>3, <1>6, <2>1, SearchFits
  <1>7. ASSUME NEW c \in Calls, Goto(c, "done"), call[c].op = "delete"
        PROVE  \A d \in Calls : CallFits(d)'
    <2>1. /\ Others(c) /\ call'[c].op = call[c].op /\ call'[c].vol = call[c].vol
          /\ call'[c].name = call[c].name /\ call'[c].pc = "done"
      BY <1>1, <1>7 DEF Goto, TypeOK, Call, Others
    <2>2. CallFits(c)'
      BY <1>1, <1>2, <1>7, <2>1 DEF CallFits, SearchPCs
    <2> QED  BY <1>3, <2>1, <2>2
  <1>8. \A d \in Calls : CallFits(d)'
    BY <1>1, <1>2, <1>5, <1>6, <1>7, CallKinds, StaysFits
  <1> QED  BY <1>8 DEF CallFits, CallsFit, CreatesNamed, SearchShared, DeletesReleased

(* A PV gets the instance of the handler that made its volume.              *)
LEMMA PVsFitStep ==
  ASSUME IInv, FitInv, [Next]_vars
  PROVE  PVsFit'
  <1>0. TypeOK /\ CallsWellFormed /\ PVsFit /\ CallsFit
    BY DEF IInv, FitInv
  <1>1. ASSUME NEW c \in Calls, NEW n, pv' = [pv EXCEPT ![call[c].vol] = n],
               n # None => Owns(call[c].vol, n)
        PROVE  PVsFit'
    <2>1. \A v \in Volumes : pv'[v] = pv[v] \/ (v = call[c].vol /\ pv'[v] = n)
      BY <1>0, <1>1 DEF TypeOK
    <2> QED  BY <1>0, <1>1, <2>1 DEF PVsFit, Owns
  <1>2. ASSUME NEW c \in Calls, ProvisionerBinds(c) \/ ProvisionerUnbinds(c) PROVE PVsFit'
    <2>1. pv' = [pv EXCEPT ![call[c].vol] = call[c].name] \/ pv' = [pv EXCEPT ![call[c].vol] = None]
      BY <1>2 DEF ProvisionerBinds, ProvisionerUnbinds
    <2> QED  BY <1>0, <1>1, <2>1 DEF CallsFit
  <1>3. CASE UNCHANGED pv
    BY <1>0, <1>3 DEF PVsFit, Owns
  <1> HIDE DEF vars
  <1> QED  BY <1>2, <1>3, StoreKinds

(* The part of FitInv about a job.                                          *)
JobFits(n) ==
    job[n].state # "absent" =>
        /\ Owns(job[n].vol, n)
        /\ job[n].vol \in Shared => job[n].cmd \in {"mkdir", "rm"}
        /\ job[n].cmd = "rm" => job[n].vol \in released

(* The part of FitInv about jobs, job by job.                               *)
LEMMA JobFitsIs == JobsFit <=> \A n \in Names : JobFits(n)
  BY DEF JobsFit, JobFits

(* The job is there only if it was, for the same purpose.                   *)
SameJob(n) ==
    job'[n].state # "absent" => /\ job[n].state # "absent"
                                /\ job'[n].vol = job[n].vol /\ job'[n].cmd = job[n].cmd

(* A job that stays the same fits.                                          *)
LEMMA SameJobFits ==
  ASSUME NEW n \in Names, JobFits(n), SameJob(n), released \subseteq released'
  PROVE  JobFits(n)'
  BY DEF JobFits, SameJob, Owns

(* Marking a job for deletion does not change what it is for.               *)
LEMMA TerminateSame ==
  ASSUME TypeOK, NEW m, Terminate(m)
  PROVE  \A n \in Names : SameJob(n) /\ job'[n].state = job[n].state
  BY DEF TypeOK, Job, Terminate, SameJob

(* A job created by a handler fits, and is not done.                        *)
LEMMA NewJobFits ==
  ASSUME IInv, FitInv, NEW c \in Calls, call[c].pc \in JobPCs, UNCHANGED released,
         job' = [job EXCEPT ![call[c].name] = JobOf(c)]
  PROVE  \A n \in Names : JobFits(n)' /\ (job'[n].state = "done" => job[n].state = "done")
  <1>1. TypeOK /\ CallsWellFormed /\ CallsFit /\ JobsFit /\ DeletesReleased
    BY DEF IInv, FitInv
  <1>2. ASSUME NEW n \in Names, n # call[c].name PROVE job'[n] = job[n]
    BY <1>1, <1>2 DEF TypeOK
  <1>3. ASSUME NEW n \in Names, n # call[c].name
        PROVE  JobFits(n)' /\ (job'[n].state = "done" => job[n].state = "done")
    <2>1. SameJob(n)
      BY <1>2, <1>3 DEF SameJob
    <2> QED  BY <1>1, <1>2, <1>3, <2>1, SameJobFits, JobFitsIs
  <1>4. ASSUME NEW n \in Names, n = call[c].name
        PROVE  JobFits(n)' /\ job'[n].state = "running"
    <2>1. /\ job'[n] = JobOf(c)
      BY <1>1, <1>4 DEF TypeOK
    <2>2. /\ JobOf(c).state = "running" /\ JobOf(c).vol = call[c].vol
          /\ JobOf(c).cmd = Command(c)
      BY DEF JobOf
    <2>3. Owns(call[c].vol, n)
      <3>1. n # None
        OBVIOUS
      <3> QED  BY <1>1, <1>4, <3>1 DEF CallsFit
    <2>4. /\ call[c].vol \in Shared => Command(c) \in {"mkdir", "rm"}
          /\ Command(c) = "rm" => call[c].vol \in released
      BY <1>1 DEF Command, DeletesReleased
    <2> QED  BY <2>1, <2>2, <2>3, <2>4 DEF JobFits, Owns
  <1> QED  BY <1>3, <1>4

(* Jobs come from handlers; only a pod that runs finishes one.              *)
LEMMA JobsStepFits ==
  ASSUME IInv, FitInv, [Next]_vars
  PROVE  /\ JobsFit'
         /\ \/ \A n \in Names : job'[n].state = "done" => job[n].state = "done"
            \/ \E n \in Names : JobRuns(n)
  <1>0. TypeOK /\ JobsFit /\ released \subseteq released'
    BY ReleasedGrows DEF IInv, FitInv
  <1>1. ASSUME \A n \in Names : SameJob(n) PROVE JobsFit'
    BY <1>0, <1>1, SameJobFits, JobFitsIs DEF JobFits, JobsFit
  <1>2. ASSUME NEW c \in Calls, CreateJob(c) \/ RecreateJob(c) \/ PollJob(c)
        PROVE  JobsFit' /\ \A n \in Names : job'[n].state = "done" => job[n].state = "done"
    <2>1. UNCHANGED released /\ call[c].pc \in JobPCs
      BY <1>2 DEF CreateJob, RecreateJob, PollJob, JobPCs
    <2>2. \/ job' = [job EXCEPT ![call[c].name] = JobOf(c)]
          \/ Terminate(call[c].name) \/ UNCHANGED job
      BY <1>2 DEF CreateJob, RecreateJob, PollJob
    <2>3. CASE job' = [job EXCEPT ![call[c].name] = JobOf(c)]
      <3>1. \A n \in Names : JobFits(n)' /\ (job'[n].state = "done" => job[n].state = "done")
        BY <2>1, <2>3, NewJobFits
      <3> QED  BY <3>1 DEF JobFits, JobsFit
    <2>4. CASE Terminate(call[c].name)
      BY <1>0, <1>1, <2>4, TerminateSame
    <2>5. CASE UNCHANGED job
      BY <1>1, <2>5 DEF SameJob
    <2> QED  BY <2>2, <2>3, <2>4, <2>5
  <1>3. ASSUME NEW m \in Names, CloudSettles(m) \/ JobVanishes(m)
        PROVE  JobsFit' /\ \A n \in Names : job'[n].state = "done" => job[n].state = "done"
    <2>1. \A n \in Names : SameJob(n) /\ (job'[n].state = "done" => job[n].state = "done")
      <3>1. CASE CloudSettles(m)
        BY <1>0, <3>1 DEF CloudSettles, TypeOK, Job, SameJob
      <3>2. CASE JobVanishes(m)
        BY <1>0, <3>2 DEF JobVanishes, TypeOK, Job, SameJob, NoJob
      <3> QED  BY <1>3, <3>1, <3>2
    <2> QED  BY <1>1, <2>1
  <1>4. ASSUME NEW m \in Names, JobRuns(m) PROVE JobsFit'
    <2>1. PICK st : job' = [job EXCEPT ![m].state = st]
      BY <1>4 DEF JobRuns
    <2>2. job[m].state = "running"
      BY <1>4 DEF JobRuns
    <2>3. \A n \in Names : SameJob(n)
      BY <1>0, <2>1, <2>2 DEF TypeOK, Job, SameJob
    <2> QED  BY <1>1, <2>3
  <1>5. CASE UNCHANGED job
    BY <1>1, <1>5 DEF SameJob
  <1> HIDE DEF vars
  <1> QED  BY <1>2, <1>3, <1>4, <1>5, StoreKinds

(* A deleted instance takes its directories along, and none appear before   *)
(* it is created again.                                                     *)
LEMMA AbsentEmptyStep ==
  ASSUME IInv, FitInv, [Next]_vars
  PROVE  AbsentEmpty'
  <1>0. TypeOK /\ AbsentEmpty
    BY DEF IInv, FitInv
  <1>1. ASSUME NEW c \in Calls, CreateInstance(c) PROVE AbsentEmpty'
    <2>1. PICK i : nas' = [nas EXCEPT ![call[c].name] = i] /\ i.status = "creating"
      <3> DEFINE i == [NoInstance EXCEPT !.status = "creating", !.ip = call[c].ip]
      <3>1. nas' = [nas EXCEPT ![call[c].name] = i]
        BY <1>1 DEF CreateInstance
      <3>2. i.status = "creating"
        BY DEF NoInstance
      <3> QED  BY <3>1, <3>2
    <2> QED  BY <1>0, <2>1 DEF AbsentEmpty, TypeOK
  <1>2. ASSUME NEW c \in Calls, ModifyInstance(c) \/ DeleteInstance(c) PROVE AbsentEmpty'
    <2>1. \A n \in Names : nas'[n].dirs = nas[n].dirs /\ (nas'[n].status = "absent" => nas[n].status = "absent")
      BY <1>0, <1>2 DEF ModifyInstance, DeleteInstance, TypeOK, Instance
    <2> QED  BY <1>0, <2>1 DEF AbsentEmpty
  <1>3. ASSUME NEW m \in Names, CloudSettles(m) PROVE AbsentEmpty'
    BY <1>0, <1>3 DEF CloudSettles, AbsentEmpty, TypeOK, Instance, NoInstance
  <1>4. ASSUME NEW m \in Names, JobRuns(m) PROVE AbsentEmpty'
    <2>1. PICK after : nas' = [nas EXCEPT ![m].dirs = after]
      BY <1>4 DEF JobRuns
    <2>2. nas[m].status # "absent"
      BY <1>4 DEF JobRuns, Reachable
    <2> QED  BY <1>0, <2>1, <2>2 DEF AbsentEmpty, TypeOK, Instance
  <1>5. CASE UNCHANGED nas
    BY <1>0, <1>5 DEF AbsentEmpty
  <1> HIDE DEF vars
  <1> QED  BY <1>1, <1>2, <1>3, <1>4, <1>5, StoreKinds

(* The step of IInv, in the form used here.                                 *)
LEMMA IInvKept ==
  ASSUME IInv, [Next]_vars
  PROVE  IInv'
  <1>1. IInv /\ Next => IInv'
    BY TypeStep, WellFormedStep, JobsStep, ExclusiveStep, QueuesStep, InstancesOKStep
    DEF IInv, Exclusive, InstancesOK
  <1> QED  BY <1>1, StutterIInv

(* FitInv is inductive, given IInv.                                         *)
LEMMA FitStep ==
  ASSUME IInv, FitInv, [Next]_vars
  PROVE  FitInv'
  <1>1. CallsWellFormed'
    BY IInvKept DEF IInv
  <1> QED  BY <1>1, CallsFitStep, PVsFitStep, JobsStepFits, AbsentEmptyStep DEF FitInv

(* FitInv holds at the start.                                               *)
LEMMA FitInit == Init => FitInv
  BY DEF Init, Idle, NoJob, NoInstance, FitInv, CallsFit, CreatesNamed, SearchShared, SearchPCs,
         DeletesReleased, PVsFit, JobsFit, AbsentEmpty

-----------------------------------------------------------------------------
(* The source path of the only shared volume. *)

(* Until its claim is deleted nothing removes the source path of a volume.  *)
DirsKept ==
    \A v \in Shared \ released', n \in SharedNames : v \in nas[n].dirs => v \in nas'[n].dirs

(* The directory of a volume whose claim exists goes only with its instance *)
(* being deleted, which takes a deleted claim.                              *)
LEMMA DirsKeptStep ==
  ASSUME IInv, FitInv, DeletingReleased, [Next]_vars
  PROVE  DirsKept
  <1>0. TypeOK /\ JobsFit /\ AbsentEmpty /\ released \subseteq released' /\ SharedNames \subseteq Names
    BY ReleasedGrows DEF IInv, FitInv, Names
  <1>1. ASSUME NEW c \in Calls, CreateInstance(c) PROVE DirsKept
    <2>1. PICK i : nas' = [nas EXCEPT ![call[c].name] = i]
      BY <1>1 DEF CreateInstance
    <2>2. nas[call[c].name].status = "absent"
      BY <1>1 DEF CreateInstance
    <2>3. \A n \in SharedNames : n = call[c].name => nas[n].dirs = {}
      BY <1>0, <2>2 DEF AbsentEmpty
    <2>4. \A n \in SharedNames : n # call[c].name => nas'[n] = nas[n]
      BY <1>0, <2>1 DEF TypeOK
    <2> QED  BY <2>3, <2>4 DEF DirsKept
  <1>2. ASSUME NEW c \in Calls, ModifyInstance(c) \/ DeleteInstance(c) PROVE DirsKept
    <2>1. \/ UNCHANGED nas
          \/ nas' = [nas EXCEPT ![call[c].name].status = "modifying",
                               ![call[c].name].noRootSquash = TRUE]
          \/ nas' = [nas EXCEPT ![call[c].name].status = "deleting"]
      BY <1>2 DEF ModifyInstance, DeleteInstance
    <2>2. \A n \in Names : nas'[n].dirs = nas[n].dirs
      BY <1>0, <2>1 DEF TypeOK, Instance
    <2> QED  BY <1>0, <2>2 DEF DirsKept
  <1>3. ASSUME NEW m \in Names, CloudSettles(m) PROVE DirsKept
    <2>1. \A n \in Names : nas'[n].dirs = nas[n].dirs \/ (n = m /\ nas[m].status = "deleting")
      BY <1>0, <1>3 DEF CloudSettles, TypeOK, Instance
    <2> QED  BY <1>0, <2>1 DEF DirsKept, DeletingReleased
  <1>4. ASSUME NEW m \in Names, JobRuns(m) PROVE DirsKept
    <2>1. job[m].state # "absent"
      BY <1>4 DEF JobRuns
    <2>2. job[m].cmd = "rm" => job[m].vol \in released
      BY <1>0, <2>1 DEF JobsFit
    <2>3. PICK after : /\ nas' = [nas EXCEPT ![m].dirs = after]
                       /\ \/ nas[m].dirs \subseteq after
                          \/ job[m].cmd = "rm" /\ after = nas[m].dirs \ {job[m].vol}
      BY <1>4 DEF JobRuns
    <2>4. \A n \in Names : nas'[n].dirs = IF n = m THEN after ELSE nas[n].dirs
      BY <1>0, <2>3 DEF TypeOK, Instance
    <2> QED  BY <1>0, <2>2, <2>3, <2>4 DEF DirsKept
  <1>5. CASE UNCHANGED nas
    BY <1>5 DEF DirsKept
  <1> HIDE DEF vars
  <1> QED  BY <1>1, <1>2, <1>3, <1>4, <1>5, StoreKinds

(* Only the handler that deletes the volume deletes its instance.           *)
LEMMA DeletingStep ==
  ASSUME OneSharedVolume, IInv, FitInv, DeletingReleased, [Next]_vars
  PROVE  DeletingReleased'
  <1>0. /\ TypeOK /\ CallsWellFormed /\ CallsFit /\ DeletesReleased
        /\ released \subseteq released' /\ SharedNames \subseteq Names
    BY ReleasedGrows DEF IInv, FitInv, Names
  <1>1. ASSUME \A n \in Names : nas'[n].status = "deleting" => nas[n].status = "deleting"
        PROVE  DeletingReleased'
    BY <1>0, <1>1 DEF DeletingReleased
  <1>2. ASSUME NEW c \in Calls, DeleteInstance(c) PROVE DeletingReleased'
    <2>1. \A n \in Names : nas'[n] = nas[n] \/ n = call[c].name
      BY <1>0, <1>2 DEF DeleteInstance, TypeOK
    <2>2. call[c].pc = "delNas"
      BY <1>2 DEF DeleteInstance
    <2>3. call[c].op = "delete" /\ call[c].vol \in Volumes
      BY <1>0, <2>2 DEF CallsWellFormed, WellFormed, DeletePCs
    <2>4. call[c].vol \in released'
      BY <1>0, <2>3 DEF DeletesReleased
    <2>5. ASSUME NEW n \in SharedNames, n = call[c].name PROVE call[c].vol \in Shared
      <3>1. n # None
        BY <1>0
      <3>2. Owns(call[c].vol, n)
        BY <1>0, <2>5, <3>1 DEF CallsFit
      <3> QED  BY <2>3, <3>2, OwnsShared
    <2>6. ASSUME NEW v \in Shared, NEW n \in SharedNames, nas'[n].status = "deleting"
          PROVE  v \in released'
      <3>1. CASE n = call[c].name
        BY <2>4, <2>5, <3>1 DEF OneSharedVolume
      <3>2. CASE n # call[c].name
        BY <1>0, <2>1, <2>6, <3>2 DEF DeletingReleased
      <3> QED  BY <3>1, <3>2
    <2> QED  BY <2>6 DEF DeletingReleased
  <1>3. ASSUME NEW c \in Calls, CreateInstance(c) PROVE DeletingReleased'
    <2> DEFINE i == [NoInstance EXCEPT !.status = "creating", !.ip = call[c].ip]
    <2>1. nas' = [nas EXCEPT ![call[c].name] = i]
      BY <1>3 DEF CreateInstance
    <2>2. i.status = "creating"
      BY DEF NoInstance
    <2> HIDE DEF i
    <2>3. \A n \in Names : nas'[n].status = "deleting" => nas[n].status = "deleting"
      BY <1>0, <2>1, <2>2 DEF TypeOK
    <2> QED  BY <1>1, <2>3
  <1>4. ASSUME NEW c \in Calls, ModifyInstance(c) PROVE DeletingReleased'
    <2>1. \A n \in Names : nas'[n].status = "deleting" => nas[n].status = "deleting"
      BY <1>0, <1>4 DEF ModifyInstance, TypeOK, Instance
    <2> QED  BY <1>1, <2>1
  <1>5. ASSUME NEW m \in Names, CloudSettles(m) PROVE DeletingReleased'
    <2>1. \A n \in Names : nas'[n].status = "deleting" => nas[n].status = "deleting"
      BY <1>0, <1>5 DEF CloudSettles, TypeOK, Instance, NoInstance
    <2> QED  BY <1>1, <2>1
  <1>6. ASSUME NEW m \in Names, JobRuns(m) PROVE DeletingReleased'
    <2>1. PICK after : nas' = [nas EXCEPT ![m].dirs = after]
      BY <1>6 DEF JobRuns
    <2>2. \A n \in Names : nas'[n].status = nas[n].status
      BY <1>0, <2>1 DEF TypeOK, Instance
    <2> QED  BY <1>1, <2>2
  <1>7. CASE UNCHANGED nas
    BY <1>1, <1>7
  <1> HIDE DEF vars
  <1> QED  BY <1>2, <1>3, <1>4, <1>5, <1>6, <1>7, StoreKinds

(* The three places where a volume is known to have its source path.        *)
JobPath(v)  == \A n \in SharedNames : job[n].state = "done" => v \in nas[n].dirs
CallPath(v) == \A c \in Calls :
                  call[c].op = "create" /\ call[c].vol = v /\ call[c].pc \in PathPCs
                      => v \in nas[call[c].name].dirs
PVPath(v)   == pv[v] # None => v \in nas[pv[v]].dirs

(* PathInv volume by volume.                                                *)
LEMMA PathInvIs ==
  PathInv <=> DeletingReleased /\ \A v \in Shared \ released : JobPath(v) /\ CallPath(v) /\ PVPath(v)
  BY DEF PathInv, JobPath, CallPath, PVPath

(* The job that ends on the instance is the mkdir of this volume.           *)
LEMMA JobPathStep ==
  ASSUME OneSharedVolume, IInv, FitInv, PathInv, [Next]_vars, NEW v \in Shared \ released'
  PROVE  JobPath(v)'
  <1>0. /\ TypeOK /\ JobsFit /\ JobsWellFormed /\ DirsKept /\ JobPath(v)
        /\ v \notin released /\ v \in Shared /\ SharedNames \subseteq Names
    BY DirsKeptStep, PathInvIs, ReleasedGrows DEF IInv, FitInv, Names
  <1>1. CASE \A n \in Names : job'[n].state = "done" => job[n].state = "done"
    BY <1>0, <1>1 DEF JobPath, DirsKept
  <1>2. ASSUME NEW m \in Names, JobRuns(m) PROVE JobPath(v)'
    <2>1. job[m].state = "running"
      BY <1>2 DEF JobRuns
    <2>2. Owns(job[m].vol, m) /\ job[m].vol \in Volumes
          /\ (job[m].vol \in Shared => job[m].cmd \in {"mkdir", "rm"})
          /\ (job[m].cmd = "rm" => job[m].vol \in released)
      BY <1>0, <2>1 DEF JobsFit, JobsWellFormed
    <2>3. ASSUME m \in SharedNames PROVE job[m].vol = v /\ job[m].cmd = "mkdir"
      <3>1. job[m].vol \in Shared
        BY <2>2, <2>3, OwnsShared
      <3> QED  BY <1>0, <2>2, <3>1 DEF OneSharedVolume
    <2>4. ASSUME m \in SharedNames, job'[m].state = "done" PROVE v \in nas'[m].dirs
      <3>1. job[m].vol = v /\ job[m].cmd = "mkdir"
        BY <2>3, <2>4
      <3>2. \/ /\ nas' = [nas EXCEPT ![m].dirs = nas[m].dirs \cup {v}]
            \/ job' = [job EXCEPT ![m].state = "failed"]
        BY <1>2, <3>1 DEF JobRuns
      <3>3. ~(job' = [job EXCEPT ![m].state = "failed"])
        BY <1>0, <2>4 DEF TypeOK, Job
      <3> QED  BY <1>0, <3>2, <3>3 DEF TypeOK, Instance
    <2>5. PICK st : job' = [job EXCEPT ![m].state = st]
      BY <1>2 DEF JobRuns
    <2>6. \A n \in Names : n # m => job'[n] = job[n]
      BY <1>0, <2>5 DEF TypeOK
    <2> QED  BY <1>0, <2>4, <2>6 DEF JobPath, DirsKept
  <1> HIDE DEF vars
  <1> QED  BY <1>1, <1>2, JobsStepFits

(* A handler past its job has seen the job done.                            *)
LEMMA CallPathStep ==
  ASSUME IInv, FitInv, PathInv, [Next]_vars, NEW v \in Shared \ released'
  PROVE  CallPath(v)'
  <1>0. /\ TypeOK /\ CallsWellFormed /\ CallsFit /\ CreatesNamed /\ DirsKept
        /\ JobPath(v) /\ CallPath(v) /\ v \notin released /\ v \in Shared /\ v \in Volumes
    BY DirsKeptStep, PathInvIs, ReleasedGrows DEF IInv, FitInv
  <1> SUFFICES ASSUME NEW c \in Calls, call'[c].op = "create", call'[c].vol = v,
                      call'[c].pc \in PathPCs
               PROVE  v \in nas'[call'[c].name].dirs
    BY DEF CallPath
  <1>1. PathKept(c) \/ PathFound(c)
    <2> HIDE DEF vars
    <2> QED  BY <1>0, CallKinds
  <1>2. /\ call[c].op = "create" /\ call[c].vol = v /\ call'[c].name = call[c].name
        /\ call[c].pc \in PathPCs \/ (call[c].pc = "poll" /\ job[call[c].name].state = "done")
    BY <1>0, <1>1 DEF PathKept, PathFound
  <1>3. call[c].name \in SharedNames
    <2>1. call[c].pc \in PlacedPCs
      BY <1>2 DEF PlacedPCs, HoldingPCs, JobPCs, PathPCs
    <2>2. call[c].name # None
      BY <1>0, <1>2, <2>1 DEF CreatesNamed
    <2>3. Owns(v, call[c].name)
      BY <1>0, <1>2, <2>2 DEF CallsFit
    <2> QED  BY <1>0, <2>3, OwnsShared
  <1>4. v \in nas[call[c].name].dirs
    BY <1>0, <1>2, <1>3 DEF JobPath, CallPath
  <1> QED  BY <1>0, <1>2, <1>3, <1>4 DEF DirsKept

(* A new PV comes from a handler past its job.                              *)
LEMMA PVPathStep ==
  ASSUME IInv, FitInv, PathInv, [Next]_vars, NEW v \in Shared \ released'
  PROVE  PVPath(v)'
  <1>0. /\ TypeOK /\ CallsFit /\ PVsFit /\ PVsFit' /\ DirsKept
        /\ CallPath(v) /\ PVPath(v) /\ v \notin released /\ v \in Shared /\ v \in Volumes
    BY DirsKeptStep, PVsFitStep, PathInvIs, ReleasedGrows DEF IInv, FitInv
  <1> SUFFICES ASSUME pv'[v] # None PROVE v \in nas'[pv'[v]].dirs
    BY DEF PVPath
  <1>1. pv'[v] \in SharedNames
    BY <1>0 DEF PVsFit, Owns
  <1>2. CASE pv'[v] = pv[v]
    BY <1>0, <1>1, <1>2 DEF PVPath, DirsKept
  <1>3. ASSUME NEW c \in Calls, ProvisionerBinds(c) \/ ProvisionerUnbinds(c), pv'[v] # pv[v]
        PROVE  v \in nas'[pv'[v]].dirs
    <2>1. ~ProvisionerUnbinds(c)
      BY <1>0, <1>3 DEF ProvisionerUnbinds, TypeOK
    <2>2. call[c].vol = v /\ pv'[v] = call[c].name
      BY <1>0, <1>3, <2>1 DEF ProvisionerBinds, TypeOK
    <2>3. call[c].op = "create" /\ call[c].pc \in PathPCs
      BY <1>3, <2>1 DEF ProvisionerBinds, PathPCs
    <2>4. v \in nas[pv'[v]].dirs
      BY <1>0, <2>2, <2>3 DEF CallPath
    <2> QED  BY <1>0, <1>1, <2>4 DEF DirsKept
  <1> HIDE DEF vars
  <1> QED  BY <1>2, <1>3, StoreKinds

(* PathInv is inductive, given IInv and FitInv.                             *)
LEMMA PathStep ==
  ASSUME OneSharedVolume, IInv, FitInv, PathInv, [Next]_vars
  PROVE  PathInv'
  <1>1. DeletingReleased'
    BY DeletingStep, PathInvIs
  <1>2. \A v \in Shared \ released' : JobPath(v)' /\ CallPath(v)' /\ PVPath(v)'
    BY JobPathStep, CallPathStep, PVPathStep
  <1> QED  BY <1>1, <1>2 DEF PathInv, JobPath, CallPath, PVPath

(* PathInv holds at the start.                                              *)
LEMMA PathInit == Init => PathInv
  BY DEF Init, Idle, NoJob, NoInstance, PathInv, DeletingReleased, PathPCs, Names

(* A volume that is the only shared one has its directory on the instance   *)
(* its PV names until its claim is deleted, although mkdir and rm run as    *)
(* jobs of the same name, calls fail and are repeated while earlier ones    *)
(* still run, and the controller restarts.  With a second shared volume     *)
(* this does not hold: the two share the job name.                          *)
THEOREM BoundVolumeHasItsPath ==
  ASSUME OneSharedVolume
  PROVE  Spec => []BoundHasSourcePath
  <1>1. Init => FitInv /\ PathInv
    BY FitInit, PathInit
  <1>2. IInv /\ FitInv /\ PathInv /\ [Next]_vars => FitInv' /\ PathInv'
    BY FitStep, PathStep
  <1>3. PathInv => BoundHasSourcePath
    BY DEF PathInv, BoundHasSourcePath
  <1> QED  BY <1>1, <1>2, <1>3, Invariance, PTL DEF Spec

-----------------------------------------------------------------------------
(* The instances of the volumes, of which at most one is shared. *)

(* What an awaited handler may rely on.                                     *)
AwaitedOK(c) ==
    call[c].awaited =>
        /\ call[c].vol \in Volumes
        /\ call[c].op = "create" => pv[call[c].vol] = None /\ call[c].vol \notin released
        /\ call[c].op = "delete" => pv[call[c].vol] = call[c].name /\ call[c].name # None

OneAwaited ==
    \A c, d \in Calls : c # d /\ call[c].awaited /\ call[d].awaited => call[c].vol # call[d].vol

(* AwaitedInv handler by handler.                                           *)
LEMMA AwaitedInvIs == AwaitedInv <=> OneAwaited /\ \A c \in Calls : AwaitedOK(c)
  BY DEF AwaitedInv, OneAwaited, AwaitedOK

(* An awaited handler was awaited before, with the same request.            *)
WasAwaited(d) ==
    call'[d].awaited => /\ call[d].awaited /\ call'[d].vol = call[d].vol
                        /\ call'[d].op = call[d].op
                        /\ call'[d].op = "delete" => call'[d].name = call[d].name

(* A handler that stays is not awaited anew.                                *)
LEMMA StaysAwaited ==
  ASSUME NEW d, Stays(d)
  PROVE  WasAwaited(d)
  BY DEF Stays, WasAwaited, Idle

(* The provisioner creates and deletes a PV on the reply it waits for.      *)
LEMMA ProvisionerAwaits ==
  ASSUME TypeOK, AwaitedInv, NEW c \in Calls, ProvisionerBinds(c) \/ ProvisionerUnbinds(c)
  PROVE  /\ call[c].awaited /\ call[c].vol \in Volumes /\ Others(c) /\ ~call'[c].awaited
         /\ \A w \in Volumes : w # call[c].vol => pv'[w] = pv[w]
  <1>1. call[c].awaited /\ Return(c)
    BY DEF ProvisionerBinds, ProvisionerUnbinds
  <1>2. Others(c) /\ call'[c] = Idle
    BY <1>1, ReturnFields DEF Others
  <1>3. ~call'[c].awaited
    BY <1>2 DEF Idle
  <1>4. call[c].vol \in Volumes
    BY <1>1 DEF AwaitedInv
  <1>5. \A w \in Volumes : w # call[c].vol => pv'[w] = pv[w]
    BY DEF ProvisionerBinds, ProvisionerUnbinds, TypeOK
  <1> QED  BY <1>1, <1>2, <1>3, <1>4, <1>5

(* The PV and the claim of a volume with an awaited handler change only by  *)
(* that handler's reply.                                                    *)
LEMMA WasAwaitedOK ==
  ASSUME TypeOK, AwaitedInv, NEW d \in Calls, WasAwaited(d), UNCHANGED released,
         \/ UNCHANGED pv
         \/ \E c \in Calls : ProvisionerBinds(c) \/ ProvisionerUnbinds(c)
  PROVE  AwaitedOK(d)'
  <1> SUFFICES ASSUME call'[d].awaited PROVE AwaitedOK(d)'
    BY DEF AwaitedOK
  <1>1. /\ call[d].awaited /\ call'[d].vol = call[d].vol /\ call'[d].op = call[d].op
        /\ call'[d].op = "delete" => call'[d].name = call[d].name
    BY DEF WasAwaited
  <1>2. AwaitedOK(d) /\ OneAwaited
    BY AwaitedInvIs
  <1>3. pv'[call[d].vol] = pv[call[d].vol]
    <2>1. ASSUME NEW c \in Calls, ProvisionerBinds(c) \/ ProvisionerUnbinds(c)
          PROVE  pv'[call[d].vol] = pv[call[d].vol]
      <3>1. call[c].awaited /\ ~call'[c].awaited /\ \A w \in Volumes : w # call[c].vol => pv'[w] = pv[w]
        BY <2>1, ProvisionerAwaits
      <3>2. c # d
        BY <3>1
      <3>3. call[d].vol # call[c].vol /\ call[d].vol \in Volumes
        BY <1>1, <1>2, <3>1, <3>2 DEF OneAwaited, AwaitedOK
      <3> QED  BY <3>1, <3>3
    <2> QED  BY <2>1
  <1> QED  BY <1>1, <1>2, <1>3 DEF AwaitedOK

(* AwaitedInv is inductive: the provisioner starts no second call for a     *)
(* volume before it has the reply or has given up.                          *)
LEMMA AwaitedStep ==
  ASSUME IInv, FitInv, AwaitedInv, [Next]_vars
  PROVE  AwaitedInv'
  <1>0. TypeOK /\ CallsWellFormed /\ OneAwaited /\ \A d \in Calls : AwaitedOK(d)
    BY AwaitedInvIs DEF IInv
  <1> HIDE DEF vars
  <1>1. ASSUME \A d \in Calls : WasAwaited(d), UNCHANGED released PROVE AwaitedInv'
    <2>1. \A d \in Calls : AwaitedOK(d)'
      BY <1>0, <1>1, WasAwaitedOK, StoreKinds
    <2>2. OneAwaited'
      BY <1>0, <1>1 DEF OneAwaited, WasAwaited
    <2> QED  BY <2>1, <2>2 DEF AwaitedInv, AwaitedOK, OneAwaited
  <1>2. ASSUME NEW c \in Calls, NEW v \in Volumes, CreateVolume(c, v) \/ DeleteVolume(c, v)
        PROVE  AwaitedInv'
    <2>1. /\ Others(c) /\ call'[c].vol = v /\ NotWaitedFor(v) /\ UNCHANGED pv
          /\ released' \in {released, released \cup {v}}
      BY <1>0, <1>2, BeginFields
    <2>2. \A d \in Calls : call[d].awaited => call[d].vol # v
      BY <2>1 DEF NotWaitedFor
    <2>3. OneAwaited'
      BY <1>0, <2>1, <2>2 DEF OneAwaited, Others
    <2>4. AwaitedOK(c)'
      <3>1. CASE CreateVolume(c, v)
        BY <1>0, <3>1, BeginFields DEF AwaitedOK
      <3>2. CASE DeleteVolume(c, v)
        BY <1>0, <3>2, BeginFields DEF AwaitedOK
      <3> QED  BY <1>2, <3>1, <3>2
    <2>5. \A d \in Calls \ {c} : AwaitedOK(d)'
      BY <1>0, <2>1, <2>2 DEF AwaitedOK, Others
    <2> QED  BY <2>3, <2>4, <2>5 DEF AwaitedInv, AwaitedOK, OneAwaited
  <1>3. ASSUME NEW c \in Calls, Searching(c) PROVE AwaitedInv'
    <2>1. UNCHANGED released /\ call[c].op = "create"
      BY <1>0, <1>3, SearchingPath
    <2>2. \/ \A d \in Calls : Stays(d)
          \/ Others(c) /\ call'[c].op = call[c].op /\ call'[c].vol = call[c].vol
             /\ call'[c].awaited = call[c].awaited
      BY <1>0, <1>3, SearchingPath
    <2>3. \A d \in Calls : WasAwaited(d)
      BY <2>1, <2>2, StaysAwaited DEF WasAwaited, Others
    <2> QED  BY <1>1, <2>1, <2>3
  <1>4. ASSUME NEW c \in Calls, DeleteAction(c), Goto(c, "done") PROVE AwaitedInv'
    <2>1. UNCHANGED released
      BY <1>4 DEF DeleteAction, DelGet, QueueDelete, LockDelete, DelCheck, DeleteInstance
    <2>2. \A d \in Calls : WasAwaited(d)
      BY <1>0, <1>4 DEF Goto, TypeOK, Call, WasAwaited
    <2> QED  BY <1>1, <2>1, <2>2
  <1>5. ASSUME \A d \in Calls : Stays(d) PROVE AwaitedInv'
    <2>1. CASE UNCHANGED released
      BY <1>1, <1>5, <2>1, StaysAwaited
    <2>2. CASE ~UNCHANGED released
      BY <1>2, <2>2, StoreKinds
    <2> QED  BY <2>1, <2>2
  <1> QED  BY <1>0, <1>2, <1>3, <1>4, <1>5, CallKinds

(* The search of the only shared volume.                                    *)
SearchOK(c) ==
    call[c].awaited /\ call[c].op = "create" =>
        /\ call[c].pc \in {"scan", "listNas"} => call[c].slot = 1
        /\ call[c].pc \notin {"pvName", "fit"}
        /\ call[c].pc \in PlacedPCs /\ call[c].vol \in Shared => call[c].name[1] = 1

(* SearchInv handler by handler.                                            *)
LEMMA SearchInvIs == SearchInv <=> \A c \in Calls : SearchOK(c)
  BY DEF SearchInv, SearchOK

(* The points of the search, listed.                                        *)
LEMMA SearchPCsAre ==
  /\ {"scan", "listNas", "pvName", "fit", "lock", "queue"} = SearchPCs
  /\ PlacedPCs \cap {"scan", "listNas", "pvName", "fit", "lock", "queue"} = {}
  BY DEF SearchPCs, PlacedPCs, HoldingPCs, JobPCs

(* A handler that stays with its instance needs no other slot.              *)
LEMMA StaysSearchOK ==
  ASSUME NEW d \in Calls, SearchOK(d), Stays(d)
  PROVE  SearchOK(d)'
  <1>1. CASE call'[d] = Idle
    BY <1>1 DEF Idle, SearchOK
  <1>2. CASE call'[d] # Idle
    <2>1. /\ call'[d].op = call[d].op /\ call'[d].vol = call[d].vol
          /\ call'[d].name = call[d].name /\ (call'[d].awaited => call[d].awaited)
          /\ \/ call'[d].pc = call[d].pc /\ call'[d].slot = call[d].slot
             \/ call[d].pc \in PlacedPCs /\ call'[d].pc \in PlacedPCs
             \/ call[d].op = "delete"
             \/ call'[d].pc = "lock"
      BY <1>2 DEF Stays
    <2> QED  BY <2>1, SearchPCsAre DEF SearchOK
  <1> QED  BY <1>1, <1>2

(* The search of the only shared volume ends in the first slot, where no    *)
(* other PV can be.                                                         *)
LEMMA SearchingOK ==
  ASSUME OneSharedVolume, TypeOK, CallsWellFormed, SearchShared, AwaitedInv,
         NEW c \in Calls, SearchOK(c), Searching(c),
         call'[c].op = call[c].op, call'[c].vol = call[c].vol, call'[c].awaited = call[c].awaited,
         call'[c].awaited
  PROVE  SearchOK(c)'
  <1>1. call[c].pc \in {"lock", "scan", "listNas", "pvName", "fit"}
    BY DEF Searching, LockCreate, Scan, ListNas, PvName, Fit
  <1>2. call[c].op = "create" /\ call[c].vol \in Shared
    BY <1>1 DEF CallsWellFormed, WellFormed, CreatePCs, SearchShared, SearchPCs
  <1>3. CASE CreateError(c)
    BY <1>3, ReturnFields DEF CreateError, Idle
  <1>4. CASE LockCreate(c)
    <2>1. call'[c].pc = "scan" /\ call'[c].slot = 1
      BY <1>4 DEF LockCreate, TypeOK, Call
    <2> QED  BY <2>1, SearchPCsAre DEF SearchOK
  <1>5. CASE Scan(c) /\ ~CreateError(c)
    <2>1. call[c].slot = 1
      BY <1>2, <1>5 DEF SearchOK, Scan
    <2>2. pv[call[c].vol] = None
      BY <1>2 DEF AwaitedInv
    <2>3. PVsInSlot(call[c].slot) = {}
      BY <1>2, <2>2 DEF PVsInSlot, OneSharedVolume
    <2>4. TotalCap(PVsInSlot(call[c].slot)) = 0
      BY <2>3, TotalCapEmpty
    <2>5. call'[c].pc = "listNas" /\ call'[c].slot = 1
      BY <1>5, <2>1, <2>4 DEF Scan, TypeOK, Call
    <2> QED  BY <2>5, SearchPCsAre DEF SearchOK
  <1>6. CASE ListNas(c)
    <2>1. call[c].slot = 1
      BY <1>2, <1>6 DEF SearchOK, ListNas
    <2>2. PICK n \in SharedNames : n[1] = 1 /\ Place(c, n)
      BY <1>6, <2>1 DEF ListNas, SlotInstances
    <2>3. call'[c].pc = "hold" /\ call'[c].name = n
      BY <2>2 DEF Place, TypeOK, Call
    <2> QED  BY <2>2, <2>3 DEF SearchOK
  <1>7. CASE PvName(c) \/ Fit(c)
    BY <1>2, <1>7 DEF PvName, Fit, SearchOK
  <1> QED  BY <1>3, <1>4, <1>5, <1>6, <1>7 DEF Searching

(* SearchInv is inductive, given the invariants before it.                  *)
LEMMA SearchStep ==
  ASSUME OneSharedVolume, IInv, FitInv, AwaitedInv, SearchInv, [Next]_vars
  PROVE  SearchInv'
  <1>0. TypeOK /\ CallsWellFormed /\ SearchShared /\ \A d \in Calls : SearchOK(d)
    BY SearchInvIs DEF IInv, FitInv
  <1> HIDE DEF vars
  <1>1. ASSUME NEW c \in Calls, Others(c), SearchOK(c)' PROVE \A d \in Calls : SearchOK(d)'
    BY <1>0, <1>1, StaysSearchOK, SameStays DEF Others
  <1>2. ASSUME NEW c \in Calls, NEW v \in Volumes, CreateVolume(c, v) \/ DeleteVolume(c, v)
        PROVE  \A d \in Calls : SearchOK(d)'
    <2>1. /\ Others(c) /\ call'[c].vol = v /\ call'[c].pc \in {"queue", "hold", "delGet"}
          /\ call'[c].op = "create" => call'[c].pc = IF v \in Shared THEN "queue" ELSE "hold"
      BY <1>0, <1>2, BeginFields
    <2>2. SearchOK(c)'
      BY <2>1, SearchPCsAre DEF SearchOK
    <2> QED  BY <1>1, <2>1, <2>2
  <1>3. ASSUME NEW c \in Calls, Searching(c), ~(\A d \in Calls : Stays(d))
        PROVE  \A d \in Calls : SearchOK(d)'
    <2>1. Others(c) /\ call'[c].op = call[c].op /\ call'[c].vol = call[c].vol
             /\ call'[c].awaited = call[c].awaited
      BY <1>0, <1>3, SearchingPath
    <2>2. SearchOK(c)'
      <3>1. CASE call'[c].awaited
        BY <1>0, <1>3, <2>1, <3>1, SearchingOK
      <3>2. CASE ~call'[c].awaited
        BY <3>2 DEF SearchOK
      <3> QED  BY <3>1, <3>2
    <2> QED  BY <1>1, <2>1, <2>2
  <1>4. ASSUME NEW c \in Calls, Goto(c, "done"), call[c].op = "delete"
        PROVE  \A d \in Calls : SearchOK(d)'
    <2>1. Others(c) /\ call'[c].op = "delete"
      BY <1>0, <1>4 DEF Goto, TypeOK, Call, Others
    <2>2. SearchOK(c)'
      BY <2>1 DEF SearchOK
    <2> QED  BY <1>1, <2>1, <2>2
  <1>5. \A d \in Calls : SearchOK(d)'
    BY <1>0, <1>2, <1>3, <1>4, CallKinds, StaysSearchOK
  <1> QED  BY <1>5 DEF SearchInv, SearchOK

(* An instance comes up only where CreateVolume orders it.                  *)
LEMMA UpStep ==
  ASSUME TypeOK, [Next]_vars, NEW n \in Names, Up(n)', ~Up(n)
  PROVE  \E c \in Calls : CreateInstance(c) /\ n = call[c].name
  <1>1. ASSUME NEW c \in Calls, CreateInstance(c) PROVE n = call[c].name
    <2>1. PICK i : nas' = [nas EXCEPT ![call[c].name] = i]
      BY <1>1 DEF CreateInstance
    <2>2. n # call[c].name => nas'[n] = nas[n]
      BY <2>1 DEF TypeOK
    <2> QED  BY <2>2 DEF Up
  <1>2. ASSUME NEW c \in Calls, ModifyInstance(c) \/ DeleteInstance(c) PROVE FALSE
    BY <1>2 DEF ModifyInstance, DeleteInstance, TypeOK, Instance, Up
  <1>3. ASSUME NEW m \in Names, CloudSettles(m) PROVE FALSE
    BY <1>3 DEF CloudSettles, TypeOK, Instance, NoInstance, Up
  <1>4. ASSUME NEW m \in Names, JobRuns(m) PROVE FALSE
    <2>1. PICK after : nas' = [nas EXCEPT ![m].dirs = after]
      BY <1>4 DEF JobRuns
    <2>2. nas'[n].status = nas[n].status
      BY <2>1 DEF TypeOK, Instance
    <2> QED  BY <2>2 DEF Up
  <1>5. CASE UNCHANGED nas
    BY <1>5 DEF Up
  <1> HIDE DEF vars
  <1> QED  BY <1>1, <1>2, <1>3, <1>4, <1>5, StoreKinds

(* The handler that orders it is awaited and has been given it.             *)
LEMMA Orders ==
  ASSUME IInv, FitInv, AwaitedInv, SearchInv, NEW c \in Calls, CreateInstance(c),
         call[c].name \in Names
  PROVE  /\ call[c].awaited /\ call[c].op = "create" /\ call[c].pc \in PlacedPCs
         /\ call[c].vol \in Volumes /\ Owns(call[c].vol, call[c].name)
         /\ pv[call[c].vol] = None /\ call[c].vol \notin released
         /\ call[c].vol \in Shared => call[c].name[1] = 1
         /\ UNCHANGED <<pv, released>>
  <1>0. CallsWellFormed /\ CallsFit /\ AwaitedOK(c) /\ SearchOK(c)
    BY AwaitedInvIs, SearchInvIs DEF IInv, FitInv
  <1>1. call[c].awaited /\ call[c].pc = "create" /\ UNCHANGED <<pv, released>>
    BY DEF CreateInstance, CtxWorks
  <1>2. call[c].op = "create" /\ call[c].pc \in PlacedPCs
    BY <1>0, <1>1 DEF CallsWellFormed, WellFormed, CreatePCs, PlacedPCs, HoldingPCs
  <1>3. Owns(call[c].vol, call[c].name)
    <2>1. call[c].name # None
      OBVIOUS
    <2> QED  BY <1>0, <2>1 DEF CallsFit
  <1> QED  BY <1>0, <1>1, <1>2, <1>3 DEF AwaitedOK, SearchOK

(* The parts of UpInv.                                                      *)
UpFirst  == \A n \in SharedNames : Up(n) => n[1] = 1 /\ Shared # {}
UpUnique == \A n, m \in SharedNames : Up(n) /\ Up(m) => n = m
UpBound(v, n) == v \in released \/ pv[v] # None => pv[v] = n
UpGiven(v, n, c) ==
    call[c].awaited /\ call[c].vol = v =>
        /\ call[c].op = "create" /\ call[c].pc \in PlacedPCs => call[c].name = n
        /\ call[c].op = "delete" => call[c].pc # "done"

(* UpInv volume by volume.                                                  *)
LEMMA UpInvIs ==
  UpInv <=> /\ UpFirst /\ UpUnique
            /\ \A v \in Volumes, n \in Names :
                  Owns(v, n) /\ Up(n) => UpBound(v, n) /\ \A c \in Calls : UpGiven(v, n, c)
  BY DEF UpInv, UpFirst, UpUnique, UpBound, UpGiven

(* A second instance for the shared volume is not ordered: the handler      *)
(* would have found the first.                                              *)
LEMMA UpSharedStep ==
  ASSUME IInv, FitInv, AwaitedInv, SearchInv, UpInv, [Next]_vars
  PROVE  UpFirst' /\ UpUnique'
  <1>0. /\ TypeOK /\ UpFirst /\ UpUnique /\ SharedNames \subseteq Names
        /\ \A v \in Volumes, n \in Names :
              Owns(v, n) /\ Up(n) => UpBound(v, n) /\ \A c \in Calls : UpGiven(v, n, c)
    BY UpInvIs DEF IInv, Names
  <1>1. ASSUME NEW n \in SharedNames, Up(n)', ~Up(n)
        PROVE  n[1] = 1 /\ Shared # {} /\ \A m \in SharedNames : Up(m) => m = n
    <2>1. PICK c \in Calls : CreateInstance(c) /\ n = call[c].name
      BY <1>0, <1>1, UpStep
    <2>2. /\ call[c].awaited /\ call[c].op = "create" /\ call[c].pc \in PlacedPCs
          /\ call[c].vol \in Volumes /\ Owns(call[c].vol, n)
          /\ call[c].vol \in Shared => n[1] = 1
      BY <1>0, <2>1, Orders
    <2>3. call[c].vol \in Shared
      BY <2>2, OwnsShared
    <2>4. ASSUME NEW m \in SharedNames, Up(m) PROVE m = n
      <3>1. Owns(call[c].vol, m)
        BY <2>3 DEF Owns
      <3>2. UpGiven(call[c].vol, m, c)
        BY <1>0, <2>2, <2>4, <3>1
      <3> QED  BY <2>1, <2>2, <3>2 DEF UpGiven
    <2> QED  BY <2>2, <2>3, <2>4
  <1>2. ASSUME NEW n \in SharedNames, NEW m \in SharedNames, Up(n)', Up(m)', ~Up(n), ~Up(m)
        PROVE  n = m
    <2>1. PICK c \in Calls : CreateInstance(c) /\ n = call[c].name
      BY <1>0, <1>2, UpStep
    <2>2. PICK i : nas' = [nas EXCEPT ![call[c].name] = i]
      BY <2>1 DEF CreateInstance
    <2>3. m # n => nas'[m] = nas[m]
      BY <1>0, <2>1, <2>2 DEF TypeOK
    <2> QED  BY <1>2, <2>3 DEF Up
  <1>3. UpFirst'
    BY <1>0, <1>1 DEF UpFirst
  <1>4. UpUnique'
    BY <1>0, <1>1, <1>2 DEF UpUnique
  <1> QED  BY <1>3, <1>4

(* An instance of a volume whose claim is bound or deleted is the one in    *)
(* its PV.                                                                  *)
LEMMA UpBoundStep ==
  ASSUME OneSharedVolume, IInv, FitInv, AwaitedInv, SearchInv, UpInv, [Next]_vars,
         NEW v \in Volumes, NEW n \in Names, Owns(v, n), Up(n)'
  PROVE  UpBound(v, n)'
  <1>0. TypeOK
    BY DEF IInv
  <1>1. CASE ~Up(n)
    <2>1. PICK c \in Calls : CreateInstance(c) /\ n = call[c].name
      BY <1>0, <1>1, UpStep
    <2>2. /\ call[c].vol \in Volumes /\ Owns(call[c].vol, n)
          /\ pv[call[c].vol] = None /\ call[c].vol \notin released
          /\ UNCHANGED <<pv, released>>
      BY <2>1, Orders
    <2>3. call[c].vol = v
      BY <2>2, OwnerIs
    <2> QED  BY <2>2, <2>3 DEF UpBound
  <1>2. CASE Up(n)
    <2>0. UpBound(v, n) /\ \A c \in Calls : UpGiven(v, n, c)
      BY <1>2, UpInvIs
    <2>1. ASSUME NEW c \in Calls, ProvisionerBinds(c) \/ ProvisionerUnbinds(c)
          PROVE  UpBound(v, n)'
      <3>1. /\ call[c].awaited /\ call[c].pc = "done"
            /\ \A w \in Volumes : w # call[c].vol => pv'[w] = pv[w]
        BY <1>0, <2>1, ProvisionerAwaits DEF ProvisionerBinds, ProvisionerUnbinds
      <3>2. UNCHANGED released
        BY <2>1 DEF ProvisionerBinds, ProvisionerUnbinds
      <3>3. CASE call[c].vol # v
        BY <2>0, <3>1, <3>2, <3>3 DEF UpBound
      <3>4. CASE call[c].vol = v
        <4>1. call[c].op # "delete"
          BY <2>0, <3>1, <3>4 DEF UpGiven
        <4>2. ProvisionerBinds(c)
          BY <2>1, <4>1 DEF ProvisionerUnbinds
        <4>3. pv'[v] = call[c].name /\ call[c].op = "create"
          BY <1>0, <3>4, <4>2 DEF ProvisionerBinds, TypeOK
        <4>4. call[c].name = n
          BY <2>0, <3>1, <3>4, <4>3 DEF UpGiven, PlacedPCs
        <4> QED  BY <4>3, <4>4 DEF UpBound
      <3> QED  BY <3>3, <3>4
    <2>2. ASSUME UNCHANGED pv PROVE UpBound(v, n)'
      <3>1. ASSUME NEW c \in Calls, NEW w \in Volumes, DeleteVolume(c, w) PROVE UpBound(v, n)'
        <4>1. released' = released \cup {w} /\ pv[w] # None
          BY <3>1 DEF DeleteVolume
        <4> QED  BY <2>0, <2>2, <4>1 DEF UpBound
      <3>2. CASE UNCHANGED released
        BY <2>0, <2>2, <3>2 DEF UpBound
      <3> HIDE DEF vars
      <3> QED  BY <3>1, <3>2, StoreKinds
    <2> HIDE DEF vars
    <2> QED  BY <2>1, <2>2, StoreKinds
  <1> QED  BY <1>1, <1>2

(* The handler of a deletion is done only when the instance is not up.      *)
LEMMA DoneIsDown ==
  ASSUME OneSharedVolume, ~CloudErrors, IInv, FitInv, AwaitedInv, UpInv,
         NEW c \in Calls, DeleteAction(c), Goto(c, "done"), call[c].op = "delete",
         call[c].awaited,
         NEW n \in Names, Owns(call[c].vol, n), Up(n)
  PROVE  ~Up(n)'
  <1> DEFINE v == call[c].vol
  <1>0. TypeOK /\ PVsFit /\ AwaitedOK(c)
    BY AwaitedInvIs DEF IInv, FitInv
  <1>1. v \in Volumes /\ pv[v] = call[c].name /\ call[c].name # None
    BY <1>0 DEF AwaitedOK
  <1>2. UpBound(v, n)
    BY <1>1, UpInvIs
  <1>3. call[c].name = n
    BY <1>1, <1>2 DEF UpBound
  <1>4. call'[c].pc = "done"
    BY <1>0 DEF Goto, TypeOK, Call
  <1>5. ~CtxFails(c)
    BY DEF CtxFails
  <1>6. ASSUME NEW p, Goto(c, p) PROVE p = "done"
    BY <1>0, <1>4, <1>6, GotoFields
  <1>7. ~DelGet(c)
    <2>1. ~(nas[n].status = "absent")
      BY DEF Up
    <2> QED  BY <1>3, <1>5, <1>6, <2>1 DEF DelGet
  <1>8. ASSUME Return(c) PROVE FALSE
    <2>1. call'[c] = Idle
      BY <1>0, <1>8, ReturnFields
    <2> QED  BY <1>4, <2>1 DEF Idle
  <1>9. ~QueueDelete(c) /\ ~LockDelete(c)
    BY <1>6, <1>8 DEF QueueDelete, LockDelete, DeleteError
  <1>10. ~DelCheck(c)
    <2>1. ASSUME NEW w \in Volumes, pv[w] = n PROVE w = v
      <3>1. Owns(w, n)
        BY <1>0, <1>1, <1>3, <2>1 DEF PVsFit
      <3> QED  BY <1>1, <3>1, OwnerIs
    <2>2. {w \in Volumes : pv[w] = call[c].name} \subseteq {v}
      BY <1>3, <2>1
    <2> QED  BY <1>6, <1>8, <2>2 DEF DelCheck, DeleteError
  <1>11. DeleteInstance(c)
    BY <1>7, <1>9, <1>10 DEF DeleteAction
  <1>12. nas' = [nas EXCEPT ![n].status = "deleting"]
    BY <1>3, <1>8, <1>11 DEF DeleteInstance, DeleteError
  <1>13. nas'[n].status = "deleting"
    BY <1>0, <1>12 DEF TypeOK, Instance
  <1> QED  BY <1>13 DEF Up

(* A handler that stays keeps the instance it has been given.               *)
LEMMA StaysGiven ==
  ASSUME NEW v, NEW n, NEW d \in Calls, Stays(d), UpGiven(v, n, d)
  PROVE  UpGiven(v, n, d)'
  <1>1. CASE call'[d] = Idle
    BY <1>1 DEF Idle, UpGiven
  <1>2. CASE call'[d] # Idle
    <2>1. /\ call'[d].op = call[d].op /\ call'[d].vol = call[d].vol
          /\ call'[d].name = call[d].name /\ (call'[d].awaited => call[d].awaited)
          /\ \/ call'[d].pc = call[d].pc
             \/ call[d].op = "create" /\ call[d].pc \in PlacedPCs
             \/ call[d].op = "delete" /\ call'[d].pc # "done"
             \/ call'[d].pc = "lock"
      BY <1>2 DEF Stays
    <2>2. "lock" \notin PlacedPCs
      BY SearchPCsAre
    <2> QED  BY <2>1, <2>2 DEF UpGiven
  <1> QED  BY <1>1, <1>2

(* The awaited handler of a volume works on the instance that is up.        *)
LEMMA UpGivenStep ==
  ASSUME OneSharedVolume, ~CloudErrors, IInv, FitInv, AwaitedInv, SearchInv, UpInv, [Next]_vars,
         NEW v \in Volumes, NEW n \in Names, Owns(v, n), Up(n)', NEW d \in Calls
  PROVE  UpGiven(v, n, d)'
  <1>0. TypeOK /\ CallsWellFormed /\ SearchShared /\ OneAwaited /\ AwaitedOK(d) /\ SearchOK(d)
        /\ UpFirst /\ UpUnique
    BY AwaitedInvIs, SearchInvIs, UpInvIs DEF IInv, FitInv
  <1>1. CASE ~Up(n)
    <2>1. PICK c \in Calls : CreateInstance(c) /\ n = call[c].name
      BY <1>0, <1>1, UpStep
    <2>2. /\ call[c].awaited /\ call[c].op = "create" /\ call[c].vol \in Volumes
          /\ Owns(call[c].vol, n)
      BY <2>1, Orders
    <2>3. call[c].vol = v
      BY <2>2, OwnerIs
    <2>4. UpGiven(v, n, d)
      <3>1. call[d].awaited /\ call[d].vol = v => d = c
        BY <1>0, <2>2, <2>3 DEF OneAwaited
      <3> QED  BY <2>1, <2>2, <3>1 DEF UpGiven
    <2>5. Stays(d)
      BY <1>0, <2>1, CreateStays
    <2> QED  BY <2>4, <2>5, StaysGiven
  <1>2. CASE Up(n)
    <2>0. UpGiven(v, n, d)
      BY <1>2, UpInvIs
    <2>1. CASE Stays(d)
      BY <2>0, <2>1, StaysGiven
    <2>2. ASSUME NEW c \in Calls, NEW w \in Volumes, CreateVolume(c, w) \/ DeleteVolume(c, w)
          PROVE  UpGiven(v, n, d)'
      <3>1. Others(c)
        BY <1>0, <2>2, BeginFields
      <3>2. CASE d # c
        BY <2>1, <3>1, <3>2, SameStays DEF Others
      <3>3. CASE d = c /\ CreateVolume(c, w)
        <4>1. /\ call'[d].op = "create" /\ call'[d].vol = w
              /\ call'[d].pc = IF w \in Shared THEN "queue" ELSE "hold"
              /\ call'[d].name = IF w \in Shared THEN None ELSE w
          BY <1>0, <3>3, BeginFields
        <4>2. "queue" \notin PlacedPCs /\ (v \notin Shared => n = v)
          BY SearchPCsAre, OwnsShared
        <4> QED  BY <4>1, <4>2 DEF UpGiven
      <3>4. CASE d = c /\ DeleteVolume(c, w)
        <4>1. call'[d].op = "delete" /\ call'[d].pc = "delGet"
          BY <1>0, <3>4, BeginFields
        <4> QED  BY <4>1 DEF UpGiven
      <3> QED  BY <2>2, <3>2, <3>3, <3>4
    <2>3. ASSUME NEW c \in Calls, Searching(c), ~(\A e \in Calls : Stays(e))
          PROVE  UpGiven(v, n, d)'
      <3>1. /\ Others(c) /\ call'[c].op = call[c].op /\ call'[c].vol = call[c].vol
            /\ call'[c].awaited = call[c].awaited /\ call[c].op = "create"
        BY <1>0, <2>3, SearchingPath
      <3>2. CASE d # c
        BY <2>1, <3>1, <3>2, SameStays DEF Others
      <3>3. ASSUME d = c, call'[d].awaited, call'[d].vol = v, call'[d].pc \in PlacedPCs
            PROVE  call'[d].name = n
        <4>1. ~CreateError(c)
          BY <1>0, <2>3, ErrorStays
        <4>2. ListNas(c)
          <5>1. ~LockCreate(c)
            <6>1. LockCreate(c) => call'[c].pc = "scan"
              BY <1>0 DEF LockCreate, TypeOK, Call
            <6> QED  BY <3>3, <6>1, SearchPCsAre
          <5>2. ~Scan(c)
            <6>1. Scan(c) => call'[c].pc \in {"listNas", "pvName"}
              BY <1>0, <4>1 DEF Scan, TypeOK, Call
            <6> QED  BY <3>3, <6>1, SearchPCsAre
          <5>3. ~PvName(c) /\ ~Fit(c)
            BY <1>0, <3>1, <3>3 DEF SearchOK, PvName, Fit
          <5> QED  BY <2>3, <5>1, <5>2, <5>3 DEF Searching
        <4>3. call[c].slot = 1
          BY <1>0, <3>1, <3>3, <4>2 DEF SearchOK, ListNas
        <4>4. v \in Shared
          BY <1>0, <3>1, <3>3, <4>2 DEF SearchShared, SearchPCs, ListNas
        <4>5. n \in SharedNames /\ n[1] = 1 /\ n \in SlotInstances(1)
          <5>1. n \in SharedNames
            BY <4>4, OwnsShared
          <5>2. n[1] = 1
            BY <1>0, <1>2, <5>1 DEF UpFirst
          <5> QED  BY <1>2, <5>1, <5>2 DEF SlotInstances, Up
        <4>6. PICK m \in SlotInstances(1) : Place(c, m)
          BY <4>2, <4>3, <4>5 DEF ListNas
        <4>7. m = n
          BY <1>0, <1>2, <4>5 DEF SlotInstances, UpUnique, Up
        <4> QED  BY <1>0, <3>3, <4>6, <4>7 DEF Place, TypeOK, Call
      <3> QED  BY <3>1, <3>2, <3>3 DEF UpGiven
    <2>4. ASSUME NEW c \in Calls, DeleteAction(c), Goto(c, "done"), call[c].op = "delete"
          PROVE  UpGiven(v, n, d)'
      <3>1. /\ Others(c) /\ call'[c].op = call[c].op /\ call'[c].vol = call[c].vol
            /\ call'[c].awaited = call[c].awaited
        BY <1>0, <2>4 DEF Goto, TypeOK, Call, Others
      <3>2. CASE d # c
        BY <2>1, <3>1, <3>2, SameStays DEF Others
      <3>3. ASSUME d = c, call'[d].awaited, call'[d].vol = v PROVE FALSE
        BY <1>2, <2>4, <3>1, <3>3, DoneIsDown
      <3> QED  BY <3>2, <3>3 DEF UpGiven
    <2> HIDE DEF vars
    <2> QED  BY <1>0, <2>1, <2>2, <2>3, <2>4, CallKinds
  <1> QED  BY <1>1, <1>2

(* LeakInv is inductive, given IInv and FitInv.                             *)
LEMMA LeakStep ==
  ASSUME OneSharedVolume, ~CloudErrors, IInv, FitInv, LeakInv, [Next]_vars
  PROVE  LeakInv'
  <1>0. AwaitedInv /\ SearchInv /\ UpInv
    BY DEF LeakInv
  <1>1. AwaitedInv' /\ SearchInv'
    BY <1>0, AwaitedStep, SearchStep
  <1>2. UpFirst' /\ UpUnique'
    BY <1>0, UpSharedStep
  <1>3. \A v \in Volumes, n \in Names :
           Owns(v, n) /\ Up(n)' => UpBound(v, n)' /\ \A c \in Calls : UpGiven(v, n, c)'
    BY <1>0, UpBoundStep, UpGivenStep
  <1>4. UpInv'
    BY <1>2, <1>3 DEF UpInv, UpFirst, UpUnique, UpBound, UpGiven, Owns
  <1> QED  BY <1>1, <1>4 DEF LeakInv

(* LeakInv holds at the start.                                              *)
LEMMA LeakInit == Init => LeakInv
  <1> SUFFICES ASSUME Init PROVE LeakInv
    OBVIOUS
  <1>1. \A c \in Calls : ~call[c].awaited
    BY DEF Init, Idle
  <1>2. \A n \in Names : ~Up(n)
    BY DEF Init, NoInstance, Up
  <1>3. SharedNames \subseteq Names
    BY DEF Names
  <1> QED  BY <1>1, <1>2, <1>3 DEF LeakInv, AwaitedInv, SearchInv, UpInv

(* When every claim is deleted no instance is left, dedicated or shared,    *)
(* although calls for a claim run out of time and are repeated while        *)
(* earlier ones still run, and the controller restarts in between: as long  *)
(* as the calls to the cloud succeed and at most one volume is shared, a    *)
(* volume never has two instances, and DeleteVolume succeeds only when the  *)
(* one in its PV goes.  Two shared volumes may orphan an instance           *)
(* (OrphanAfterRestart), and so may a failing call.                         *)
THEOREM NoInstanceIsLeaked ==
  ASSUME OneSharedVolume, ~CloudErrors
  PROVE  Spec => []NoInstanceLeaked
  <1>1. Init => FitInv /\ LeakInv
    BY FitInit, LeakInit
  <1>2. IInv /\ FitInv /\ LeakInv /\ [Next]_vars => FitInv' /\ LeakInv'
    BY FitStep, LeakStep
  <1>3. LeakInv => NoInstanceLeaked
    <2> SUFFICES ASSUME LeakInv, \A v \in Volumes : v \in released /\ pv[v] = None,
                        NEW n \in Names, Up(n)
                 PROVE  FALSE
      BY DEF NoInstanceLeaked, Up
    <2>1. \E v \in Volumes : Owns(v, n)
      <3>1. CASE n \in SharedNames
        BY <3>1 DEF LeakInv, UpInv, Owns
      <3>2. CASE n \in Dedicated
        BY <3>2 DEF Owns, Dedicated
      <3> QED  BY <3>1, <3>2 DEF Names
    <2>2. PICK v \in Volumes : Owns(v, n)
      BY <2>1
    <2>3. pv[v] = n
      BY <2>2 DEF LeakInv, UpInv
    <2> QED  BY <2>3
  <1> QED  BY <1>1, <1>2, <1>3, Invariance, PTL DEF Spec

=============================================================================
