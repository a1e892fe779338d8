----------------------- MODULE MCSecurityGroupSyncer -----------------------
(* Nodes, NAS instances and zones are interchangeable.                      *)
EXTENDS SecurityGroupSyncer, TLC

Symmetric == Permutations(Addresses) \cup Permutations(Instances)
                 \cup Permutations(Zones)

=============================================================================
