----------------------------- MODULE MCVlandCli -----------------------------
(* Model-checking instance of VlandCli and VlandRunningConfig: an        *)
(* interface p1 and a LAG p2, the default VLAN v1 (id 1) and v2 (id 2),   *)
(* two vtysh sessions                                                      *)
EXTENDS VlandRunningConfig

CONSTANTS p1, p2, v1, v2, s1, s2

MCCliVidOf == [v \in VlanNames |-> IF v = v1 THEN 1 ELSE 2]

\* Sessions are interchangeable
SessionSymmetry == Permutations({s1, s2})

MCPortKind == [p \in Ports |-> IF p = p1 THEN "system" ELSE "lag"]

\* Port rows as the commands leave them, and a new port with no VLAN
\* configuration (vlan_mode, tag and trunks unset)
MCCliPortRowChoices ==
    { [mode |-> "access",          tag |-> 1,    trunks |-> {}],
      [mode |-> "access",          tag |-> 2,    trunks |-> {}],
      [mode |-> "trunk",           tag |-> NONE, trunks |-> {2}],
      [mode |-> "native-untagged", tag |-> 1,    trunks |-> {2}],
      [mode |-> NONE,              tag |-> 1,    trunks |-> {}],
      [mode |-> NONE,              tag |-> NONE, trunks |-> {}] }

\* Fewer starting rows for the runs that split the port handlers, whose
\* transactions in flight multiply the states: one access, one trunk and
\* one unset row, from which the commands reach the other modes
MCSplitPortRowChoices ==
    { [mode |-> "access", tag |-> 1,    trunks |-> {}],
      [mode |-> "trunk",  tag |-> NONE, trunks |-> {2}],
      [mode |-> NONE,     tag |-> NONE, trunks |-> {}] }

\* Ports that all start as access ports of DEFAULT_VLAN, whose
\* running-config replays; the commands take them to the other modes
MCAccessPortRowChoices == { [mode |-> "access", tag |-> 1, trunks |-> {}] }

=============================================================================
