----------------------------- MODULE VlandStatus -----------------------------
(***************************************************************************)
(* What ops-vland promises about the three VLAN columns it owns            *)
(* (oper_state, oper_state_reason, hw_vlan_config), with no caches, IDL or *)
(* transactions: the store, whether the system is configured and whether  *)
(* the daemon is alive are the whole state.                                *)
(*                                                                         *)
(*  - Clients change Port rows, VLAN admin and the VLAN rows themselves,  *)
(*    and insert VLAN rows the way "vlan <id>" does; they never write the  *)
(*    daemon's columns.                                                    *)
(*  - The daemon writes them, once the system is configured,               *)
(*    only with a state calc_vlan_op_state_n_reason() can produce, and     *)
(*    never on a row reserved for L3.  A write may be stale: it reflects   *)
(*    the store as the daemon last read it.                                *)
(*  - While the daemon is alive and configured and some row does not show *)
(*    the state derived from the current store, it eventually makes every *)
(*    row show it at once (Reconcile, weakly fair).                        *)
(*                                                                         *)
(* Vland instantiates this module as Status, with configured as           *)
(* cur_cfg > 0 and alive as a daemon that has not crashed; its Spec       *)
(* implies Status!StatusSpec.                                              *)
(***************************************************************************)
EXTENDS Naturals

CONSTANTS Ports, VlanNames, VidOf, NONE

VARIABLES portRows, vlanRows, configured, alive

svars == <<portRows, vlanRows, configured, alive>>

\* Reference membership, stated per VLAN id from the port-mode semantics
\* (spec 4.1): a port carries its native VLAN unless it is a plain trunk,
\* the listed trunks in a trunk-family mode, and every existing VLAN when
\* that list is empty.
RefMode(row) ==
    CASE row.mode # NONE -> row.mode
      [] row.tag # NONE  -> "access"
      [] OTHER           -> "trunk"

RefMember(row, vid, existing) ==
    \/ row.tag = vid /\ RefMode(row) # "trunk"
    \/ /\ RefMode(row) # "access"
       /\ IF row.trunks = {} THEN vid \in existing ELSE vid \in row.trunks

StoreVids == {VidOf[v] : v \in {w \in VlanNames : vlanRows[w] # NONE}}

StoreHasMember(v) ==
    \E p \in Ports : portRows[p] # NONE
                     /\ RefMember(portRows[p], VidOf[v], StoreVids)

\* The columns a non-L3 VLAN row should show for its admin and members
ExpectedColumns(v) ==
    LET up == vlanRows[v].admin = "up" /\ StoreHasMember(v)
    IN  [oper |-> IF up THEN "up" ELSE "down",
         reason |-> IF vlanRows[v].admin = "down" THEN "admin_down"
                    ELSE IF up THEN "ok" ELSE "no_member_port",
         hw |-> IF up THEN "enable" ELSE "empty"]

\* The daemon-owned columns of a row
Shown(r) == [oper |-> r.oper, reason |-> r.reason, hw |-> r.hw]

\* What "vlan <id>" inserts
Inserted == [oper |-> "down", reason |-> "admin_down", hw |-> "empty"]

\* Every non-L3 VLAN row shows the state its admin and the ports derive,
\* and every L3 row still has the columns it was inserted with.
StoreConsistent ==
    \A v \in VlanNames : vlanRows[v] # NONE =>
        IF vlanRows[v].l3 THEN Shown(vlanRows[v]) = Inserted
        ELSE Shown(vlanRows[v]) = ExpectedColumns(v)

\* The states calc_vlan_op_state_n_reason() produces, with the
\* hw_vlan_config that goes with each
OpStates ==
    { [oper |-> "up",   reason |-> "ok",             hw |-> "enable"],
      [oper |-> "down", reason |-> "admin_down",     hw |-> "empty"],
      [oper |-> "down", reason |-> "no_member_port", hw |-> "empty"] }

\* The same row, by its generation (a row deleted and inserted again is
\* another row)
SameRow(v) ==
    vlanRows[v] # NONE /\ vlanRows'[v] # NONE /\ vlanRows'[v].gen = vlanRows[v].gen

StatusInit ==
    /\ alive = TRUE
    /\ \A v \in VlanNames : vlanRows[v] # NONE => Shown(vlanRows[v]) = Inserted

\* A client transaction: anything but the daemon's columns of a row that
\* stays, and a row it inserts shows what "vlan <id>" gives it
ClientStep ==
    /\ alive' = alive
    /\ configured' \in {configured, TRUE}
    /\ \A v \in VlanNames : vlanRows'[v] # NONE =>
         IF SameRow(v)
         THEN Shown(vlanRows'[v]) = Shown(vlanRows[v]) /\ vlanRows'[v].l3 = vlanRows[v].l3
         ELSE Shown(vlanRows'[v]) = Inserted

\* The daemon writes its columns of some rows, with possibly stale states
DaemonWrite ==
    /\ alive = TRUE /\ configured = TRUE
    /\ UNCHANGED <<portRows, configured, alive>>
    /\ \A v \in VlanNames :
         /\ (vlanRows'[v] = NONE) = (vlanRows[v] = NONE)
         /\ vlanRows[v] # NONE =>
              /\ SameRow(v)
              /\ vlanRows'[v].admin = vlanRows[v].admin
              /\ vlanRows'[v].l3 = vlanRows[v].l3
              /\ vlanRows[v].l3 => vlanRows'[v] = vlanRows[v]
              /\ vlanRows'[v] # vlanRows[v] => Shown(vlanRows'[v]) \in OpStates

\* The daemon writes the derived state to every row that lacks it
Reconcile ==
    /\ alive = TRUE /\ configured = TRUE
    /\ vlanRows' = [v \in VlanNames |->
                      IF vlanRows[v] = NONE \/ vlanRows[v].l3 THEN vlanRows[v]
                      ELSE [vlanRows[v] EXCEPT !.oper = ExpectedColumns(v).oper,
                                               !.reason = ExpectedColumns(v).reason,
                                               !.hw = ExpectedColumns(v).hw]]
    /\ UNCHANGED <<portRows, configured, alive>>

\* The daemon dies; the store stays as it is
DaemonDies ==
    /\ alive = TRUE /\ alive' = FALSE
    /\ UNCHANGED <<portRows, vlanRows, configured>>

StatusNext == ClientStep \/ DaemonWrite \/ DaemonDies

StatusSpec == StatusInit /\ [][StatusNext]_svars /\ WF_svars(Reconcile)

=============================================================================
