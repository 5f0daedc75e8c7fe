------------------------------ MODULE MCVland ------------------------------
(* Model-checking instance of Vland: two ports, two VLANs with ids 1 and 2 *)
EXTENDS Vland

CONSTANTS p1, p2, v1, v2

MCVidOf == [v \in VlanNames |-> IF v = v1 THEN 1 ELSE 2]

\* Port rows as the CLI leaves them: access, trunk with an explicit list,
\* trunk over all VLANs, native-untagged, and a tag with vlan_mode unset
MCPortRowChoices ==
    { [mode |-> "access",          tag |-> 1,    trunks |-> {}],
      [mode |-> "trunk",           tag |-> NONE, trunks |-> {2}],
      [mode |-> "trunk",           tag |-> NONE, trunks |-> {}],
      [mode |-> "native-untagged", tag |-> 1,    trunks |-> {2}],
      [mode |-> NONE,              tag |-> 2,    trunks |-> {}] }

=============================================================================
