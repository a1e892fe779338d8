------------------------- MODULE MCVolumeController -------------------------
(* Values for the constants of VolumeController.  Shared instances have     *)
(* 500 GiB and GiB = 1, since only sums and comparisons of sizes matter.    *)
EXTENDS VolumeController, TLC

(* Two volumes of 200 GiB share an instance of 500 GiB, two of 300 GiB do   *)
(* not; 950 GiB is more than the largest instance of type 0 holds.          *)
Size200 == [v \in Volumes |-> 200]
Size300 == [v \in Volumes |-> 300]
Size950 == [v \in Volumes |-> 950]

(* All volumes use the same two reserved addresses.                         *)
TwoAddresses == [v \in Volumes |-> {1, 2}]

(* Volumes of one kind and size, goroutines and suffixes are interchangeable. *)
Symmetric ==
    Permutations(Calls) \cup Permutations(Volumes) \cup Permutations(Suffixes)

=============================================================================
