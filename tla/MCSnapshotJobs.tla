-------------------------- MODULE MCSnapshotJobs --------------------------
(* Two VolumeSnapshots, each of its own volume or both of one volume, and   *)
(* restorations of different snapshots or of one.                           *)
EXTENDS SnapshotJobs, TLC

CONSTANTS r1, r2, v1, v2, t1, t2

OneRequest == r1 :> v1
OwnVolumes == r1 :> v1 @@ r2 :> v2
OneVolume  == r1 :> v1 @@ r2 :> v1

NoTargets  == <<>>
OneTarget  == t1 :> r1
OwnSnapshots == t1 :> r1 @@ t2 :> r2
OneSnapshot  == t1 :> r1 @@ t2 :> r1

(* Goroutines and ids are interchangeable, and so are the VolumeSnapshots,  *)
(* with their volumes if they have their own.                               *)
Symmetric == Permutations(Calls) \cup Permutations(Ids)

SymmetricOwn == Symmetric \cup {r1 :> r2 @@ r2 :> r1 @@ v1 :> v2 @@ v2 :> v1}

SymmetricOne == Symmetric \cup {r1 :> r2 @@ r2 :> r1}

=============================================================================
