---------------------------- MODULE NasCapacity ----------------------------
(***************************************************************************)
(* The capacity arithmetic of the controller: what a request asks for and  *)
(* what size of NAS instance is ordered for it.  Sizes are in bytes; GiB   *)
(* is the number of bytes in a GiB (2^30 in the code, small in a model,    *)
(* so that fractions of a GiB stay visible).                               *)
(***************************************************************************)
EXTENDS Naturals, FiniteSetsExt

CONSTANT GiB

ASSUME GiBAssumption == GiB \in Nat \ {0}

GbToBytes(gb) == gb * GiB

(* NAS storage is sold in 9 steps of 100 GiB (type 0) or 1000 GiB (type 1). *)
StorageUnit(instanceType) == IF instanceType = 1 THEN 1000 ELSE 100

(* The size, in GiB, of the instance ordered for capBytes: the first step   *)
(* that holds it, and the ninth when none does.                             *)
getAllocatedStorage(capBytes, instanceType) ==
    LET fitting == {i \in 1..9 :
                      GbToBytes(i * StorageUnit(instanceType)) >= capBytes}
    IN  StorageUnit(instanceType) * Min(fitting \cup {9})

(* The capacity of a request with required_bytes rCap, limit_bytes lCap (0  *)
(* when a field is not set) and the minimum size of a volume.               *)
getRequestCapacity(rCap, lCap, min) ==
    LET atLeastMin == Max({rCap, min})
    IN  IF lCap > 0
        THEN IF rCap = 0 THEN lCap ELSE Min({atLeastMin, lCap})
        ELSE atLeastMin

=============================================================================
