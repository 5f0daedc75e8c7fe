--------------------------- MODULE MCVlandCliRange ---------------------------
(* Model-checking instance of VlandIntRange: the instance of MCVlandCli  *)
(* with the internal VLAN range commands in its sessions                   *)
EXTENDS MCVlandCli, VlandIntRange

=============================================================================
