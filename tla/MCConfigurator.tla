--------------------------- MODULE MCConfigurator ---------------------------
(* Values for the constants of Configurator: classes of two kinds, one of   *)
(* the user's own, and private LANs of every size that matters.             *)
EXTENDS Configurator, TLC

CONSTANTS std, shrd, own, n1, n2, z1, z2, userBlock

Kinds == (std :> std) @@ (shrd :> shrd) @@ (own :> shrd)

(* A user leaves the parameters to the driver, or gives the block and the   *)
(* zone and network of somewhere else.                                      *)
Given == {NoParams, [zone |-> z2, networkId |-> n2, cidr |-> userBlock]}

Lan(bits, rdbs, pools, statics) ==
    [bits |-> bits, rdbs |-> rdbs, pools |-> pools, statics |-> statics]
Pool(a, b) == [from |-> a, to |-> b]

(* /23: 16 blocks of 32 addresses, the first and the last not used, with    *)
(* RDB instances at the border of two blocks and a pool across six.  /26:   *)
(* 2 blocks, both in use.  /27: too small.                                  *)
SomeLans == {Lan(9, {63, 64}, {Pool(230, 400)}, {479}),
             Lan(6, {31}, {}, {32}),
             Lan(5, {}, {}, {})}
=============================================================================
