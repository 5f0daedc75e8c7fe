------------------------- MODULE VlandRunningConfig -------------------------
(***************************************************************************)
(* The running-config of the VLAN features                                *)
(* (src/src/cli/vtysh_ovsdb_vlan_context.c), and what it gives back when  *)
(* it is loaded on a switch whose ports are fresh.                         *)
(*                                                                         *)
(* A printed line is a record: the command and its VLAN id.  The          *)
(* formatting (indentation, the "interface" header, "no routing") is left *)
(* out: only the commands that set VLAN columns are replayed.  Replaying   *)
(* a line is running the handler of VlandCli that parses it, on the row   *)
(* the earlier lines left, against the VLAN table the "vlan" contexts     *)
(* recreate.                                                               *)
(***************************************************************************)
EXTENDS VlandCli

Line(cmd, vid) == [cmd |-> cmd, vid |-> vid]

\* vtysh_vlan_context_clientcallback: a "vlan <id>" context for every VLAN
\* that is not internal
VlanContextVids ==
    {VidOf[v] : v \in {w \in VlanNames : vlanRows[w] # NONE /\ ~vlanRows[w].l3}}

\* The VLANs of the switch the configuration is loaded on: DEFAULT_VLAN and
\* the internal VLANs the system creates, and those "vlan <id>" creates
TargetVids ==
    VlanContextVids \cup {DEFAULT_VLAN}
    \cup {VidOf[v] : v \in {w \in VlanNames : vlanRows[w] # NONE /\ vlanRows[w].l3}}

\* vtysh_ovsdb_intftable_parse_vlan: the VLAN lines of one interface,
\* by its vlan_mode; the trunks in the order of the column (ascending)
IntfVlanLines(r) ==
    LET ts == SetToSortSeq(r.trunks, <)
        allowed == [i \in 1..Len(ts) |-> Line("allowed", ts[i])]
        native == IF r.tag # NONE THEN <<Line("native", r.tag)>> ELSE <<>>
    IN  CASE r.mode = NONE              -> <<>>
          [] r.mode = "access"          -> IF r.tag # NONE
                                           THEN <<Line("access", r.tag)>> ELSE <<>>
          [] r.mode = "trunk"           -> allowed
          [] r.mode = "native-untagged" -> native \o allowed
          [] r.mode = "native-tagged"   -> native \o <<Line("native_tag", NONE)>> \o allowed

\* A Port as the system creates it: no vlan_mode, no tag, no trunks
FreshPort == [mode |-> NONE, tag |-> NONE, trunks |-> {}]

\* One line through its interface handler, on the target switch: a line
\* whose VLAN is missing or internal is refused and changes nothing, and
\* "vlan trunk allowed" on an unset vlan_mode kills the replay (line 1345)
ReplayIntfLine(l, acc) ==
    LET r == acc.row
        usable == l.vid \in TargetVids /\ ~IsInternal(l.vid)
    IN  CASE acc.crash -> acc
          [] l.cmd = "access" /\ usable ->
                [acc EXCEPT !.row = AccessRow(l.vid)]
          [] l.cmd = "allowed" /\ usable /\ r.mode = NONE ->
                [acc EXCEPT !.crash = TRUE]
          [] l.cmd = "allowed" /\ usable ->
                [acc EXCEPT !.row = SetColumns(r, IntfTrunkAllowedWrite(r, l.vid))]
          [] l.cmd = "native" /\ usable ->
                [acc EXCEPT !.row = SetColumns(r, TrunkNativeWrite(r, l.vid))]
          [] l.cmd = "native_tag" /\ r.mode # "access" ->
                [acc EXCEPT !.row = SetColumns(r, [mode |-> "native-tagged"])]
          [] OTHER -> acc

\* Loading the lines of a row on a fresh Port
ReplayIntf(r) ==
    ForEachInOrder(ReplayIntfLine, [row |-> FreshPort, crash |-> FALSE], IntfVlanLines(r))

-----------------------------------------------------------------------------
(* Properties                                                              *)

\* Saving the running-config and loading it on a switch with fresh ports
\* gives every interface its VLAN configuration back: the lines
\* vtysh_intf_context_vlan_clientcallback prints, run through the
\* interface handlers of vlan_vty.c on a fresh Port, rebuild the row.
RunningConfigReplays ==
    \A p \in Ports : PortKind[p] = "system" /\ portRows[p] # NONE =>
        LET res == ReplayIntf(portRows[p])
        IN  ~res.crash /\ res.row = portRows[p]

=============================================================================
