------------------------------ MODULE VlandCli ------------------------------
(***************************************************************************)
(* The VLAN commands of the CLI (src/src/cli/vlan_vty.c) as the clients of *)
(* the store that ops-vland (module Vland) reconciles.                     *)
(*                                                                         *)
(* Each command handler reads the replica of its vtysh process and commits *)
(* one transaction with cli_do_config_finish(); a handler is one step.  An *)
(* early return that aborts the transaction changes nothing and is not a   *)
(* step.  A handler that dereferences NULL kills its vtysh process before  *)
(* the commit: the store is unchanged and the fault is recorded in         *)
(* cliFaults.  Ports are either interfaces ("system") or LAGs; the VLAN    *)
(* context of a session (vty->index of "vlan N") is the VLAN id string.    *)
(***************************************************************************)
EXTENDS Vland

CONSTANTS
    PortKind,       \* the type of each port: "system" interface or "lag"
    Sessions,       \* vtysh processes
    DefaultVlanName,\* the row of DEFAULT_VLAN, created by the system
    SplitCommit     \* a port handler's read and its commit are two steps

DEFAULT_VLAN == 1

ASSUME PortKind \in [Ports -> {"system", "lag"}]
ASSUME DefaultVlanName \in VlanNames /\ VidOf[DefaultVlanName] = DEFAULT_VLAN

\* NULL dereferences in the handlers, by the line where they happen
CrashSites == {"admin_825", "no_admin_867", "trunk_allowed_1345",
               "no_trunk_native_1783", "lag_no_trunk_allowed_2384"}

VARIABLES
    vlanCtx,   \* vty->index of each session in VLAN_NODE, or NONE
    cliFaults, \* the crash sites some vtysh process has died at
    cliTxn     \* the port transaction each session has built and not sent

cliVars == <<vlanCtx, cliFaults, cliTxn>>
allVars == <<vars, cliVars>>

NativeModes == {"native-tagged", "native-untagged"}

\* The VLAN row with a given id, by the OVSREC_VLAN_FOR_EACH scans
VlanOfVid(vid) ==
    LET found == {v \in VlanNames : vlanRows[v] # NONE /\ VidOf[v] = vid}
    IN  IF found = {} THEN NONE ELSE CHOOSE v \in found : TRUE

\* check_internal_vlan() / check_if_internal_vlan(): the id is in use by a
\* VLAN reserved for an L3 interface
IsInternal(vid) == VlanOfVid(vid) # NONE /\ vlanRows[VlanOfVid(vid)].l3

\* The Port columns a handler sets with ovsrec_port_set_*(): those in
\* cols, with their values in the row new it computed
Written(cols, new) == [f \in cols |-> new[f]]

\* A row after the columns of w are set and the others kept
SetColumns(row, w) == [f \in DOMAIN row |-> IF f \in DOMAIN w THEN w[f] ELSE row[f]]

\* ovsdb-server applies the columns w of a transaction to Port p
ApplyPortWrite(p, w) ==
    LET r == SetColumns(portRows[p], w)
    IN  /\ portRows' = [portRows EXCEPT ![p] = r]
        /\ pending' = (pending \/ r # portRows[p])
        /\ dirtyPorts' = IF r # portRows[p] THEN dirtyPorts \cup {p} ELSE dirtyPorts
        /\ UNCHANGED <<vlanRows, lastGen, curCfg, dirtyVlans, cacheVars, txn,
                       daemon, lastCommitOk>>

\* cli_do_config_finish() of a handler of session s that set the columns w
\* of Port p.  Without SplitCommit it is applied in the step of the
\* handler's reads; with it the transaction waits in cliTxn[s], with the
\* row as the handler read it, for CliFinish(s).
CommitPort(s, p, w) ==
    IF SplitCommit
    THEN /\ cliTxn' = [cliTxn EXCEPT ![s] = [port |-> p, read |-> portRows[p], w |-> w]]
         /\ UNCHANGED <<portRows, vlanRows, lastGen, curCfg, idlVars, cacheVars,
                        txn, daemon, lastCommitOk, vlanCtx, cliFaults>>
    ELSE /\ ApplyPortWrite(p, w)
         /\ UNCHANGED cliVars

\* The commit of session s's transaction reaches ovsdb-server.  No column
\* was verified, so the columns are written over whatever the row holds
\* now; a transaction that changes nothing in the row as read is
\* TXN_UNCHANGED and not sent.
CliFinish(s) ==
    LET t == cliTxn[s]
    IN  /\ t # NONE
        /\ cliTxn' = [cliTxn EXCEPT ![s] = NONE]
        /\ IF SetColumns(t.read, t.w) = t.read
           THEN UNCHANGED <<portRows, vlanRows, lastGen, curCfg, idlVars,
                            cacheVars, txn, daemon, lastCommitOk>>
           ELSE ApplyPortWrite(t.port, t.w)
        /\ UNCHANGED <<budget, vlanCtx, cliFaults>>

\* Every command costs one unit of the client budget; a vtysh process runs
\* one command at a time, so a session whose transaction is not sent waits
CliStep(s) == budget > 0 /\ budget' = budget - 1 /\ cliTxn[s] = NONE

\* A vtysh process dies at a NULL dereference; nothing is committed
CliCrash(site) ==
    /\ cliFaults' = cliFaults \cup {site}
    /\ UNCHANGED <<portRows, vlanRows, lastGen, curCfg, idlVars, cacheVars,
                   txn, daemon, lastCommitOk, cliTxn>>

-----------------------------------------------------------------------------
(* VLAN commands                                                           *)

\* Mutant: vty->index is set to the "VLANn" name buffer, not the id
VtyshVlanIndexName(s, v) ==
    /\ CliStep(s)
    /\ ~IsInternal(VidOf[v])
    /\ vlanCtx' = [vlanCtx EXCEPT ![s] = v]
    /\ IF VlanOfVid(VidOf[v]) # NONE
       THEN UNCHANGED <<portRows, vlanRows, lastGen, curCfg, idlVars>>
       ELSE /\ lastGen[v] < MaxGen
            /\ vlanRows' = [vlanRows EXCEPT ![v] =
                  [gen |-> lastGen[v] + 1, admin |-> "down", l3 |-> FALSE,
                   hw |-> "empty", oper |-> "down", reason |-> "admin_down"]]
            /\ lastGen' = [lastGen EXCEPT ![v] = @ + 1]
            /\ pending' = TRUE
            /\ dirtyVlans' = dirtyVlans \cup {v}
            /\ UNCHANGED <<portRows, curCfg, dirtyPorts>>
    /\ UNCHANGED <<cacheVars, txn, daemon, lastCommitOk, cliFaults, cliTxn>>

\* vtysh_vlan: "vlan <1-4094>".  An existing VLAN is entered; a missing
\* one is inserted admin down, oper down (admin_down).  The interface-vlan
\* Port "vlanN" it would tag is not in the model (it is created by
\* "interface vlan", outside this file).
VtyshVlan(s, v) ==
    /\ CliStep(s)
    /\ ~IsInternal(VidOf[v])
    /\ vlanCtx' = [vlanCtx EXCEPT ![s] = VidOf[v]]
    /\ IF VlanOfVid(VidOf[v]) # NONE
       THEN UNCHANGED <<portRows, vlanRows, lastGen, curCfg, idlVars>>
       ELSE /\ lastGen[v] < MaxGen
            /\ vlanRows' = [vlanRows EXCEPT ![v] =
                  [gen |-> lastGen[v] + 1, admin |-> "down", l3 |-> FALSE,
                   hw |-> "empty", oper |-> "down", reason |-> "admin_down"]]
            /\ lastGen' = [lastGen EXCEPT ![v] = @ + 1]
            /\ pending' = TRUE
            /\ dirtyVlans' = dirtyVlans \cup {v}
            /\ UNCHANGED <<portRows, curCfg, dirtyPorts>>
    /\ UNCHANGED <<cacheVars, txn, daemon, lastCommitOk, cliFaults, cliTxn>>

\* Mutant: only ports that list the id in their trunks are rewritten
NoVlanPortRowTrunksOnly(p, r, vid) ==
    LET trunks == r.trunks \ {vid}
    IN  IF vid \notin r.trunks THEN r
        ELSE IF trunks # {} THEN [mode |-> "trunk", tag |-> NONE, trunks |-> trunks]
        ELSE IF PortKind[p] = "system"
             THEN [mode |-> "access", tag |-> DEFAULT_VLAN, trunks |-> {}]
             ELSE [r EXCEPT !.trunks = trunks]

\* The Port loop of vtysh_no_vlan for one row: drop vid from the trunks;
\* a port that carried vid becomes a trunk of the rest, or an access port
\* of DEFAULT_VLAN if it is an interface; a LAG is left as it is.
NoVlanPortRow(p, r, vid) ==
    LET trunks == r.trunks \ {vid}
    IN  IF vid \notin r.trunks /\ r.tag # vid THEN r
        ELSE IF trunks # {} THEN [mode |-> "trunk", tag |-> NONE, trunks |-> trunks]
        ELSE IF PortKind[p] = "system"
             THEN [mode |-> "access", tag |-> DEFAULT_VLAN, trunks |-> {}]
             ELSE [r EXCEPT !.trunks = trunks]

\* vtysh_no_vlan: "no vlan <2-4094>", the port cleanup and the row deletion
\* in one transaction
VtyshNoVlan(s, v) ==
    /\ CliStep(s)
    /\ VidOf[v] >= 2
    /\ vlanRows[v] # NONE
    /\ ~vlanRows[v].l3
    /\ LET new == [p \in Ports |->
                     IF portRows[p] = NONE THEN NONE
                     ELSE NoVlanPortRow(p, portRows[p], VidOf[v])]
       IN  /\ portRows' = new
           /\ dirtyPorts' = dirtyPorts \cup {p \in Ports : new[p] # portRows[p]}
    /\ vlanRows' = [vlanRows EXCEPT ![v] = NONE]
    /\ pending' = TRUE
    /\ UNCHANGED <<lastGen, curCfg, dirtyVlans, cacheVars, txn, daemon,
                   lastCommitOk, cliVars>>

\* cli_vlan_admin ("shutdown", refused in DEFAULT_VLAN) and
\* cli_no_vlan_admin ("no shutdown"): the row is looked up by the id of the
\* session's context; when no row has it the loop leaves vlan_row NULL and
\* ovsrec_vlan_set_admin() dereferences it.
SetVlanAdmin(s, a, site) ==
    LET v == VlanOfVid(vlanCtx[s])
    IN  /\ CliStep(s)
        /\ vlanCtx[s] # NONE
        /\ \/ /\ v = NONE
              /\ CliCrash(site)
              /\ vlanCtx' = [vlanCtx EXCEPT ![s] = NONE]
           \/ /\ v # NONE
              /\ vlanRows' = [vlanRows EXCEPT ![v].admin = a]
              /\ pending' = (pending \/ vlanRows[v].admin # a)
              /\ dirtyVlans' = IF vlanRows[v].admin # a
                               THEN dirtyVlans \cup {v} ELSE dirtyVlans
              /\ UNCHANGED <<portRows, lastGen, curCfg, dirtyPorts, cacheVars,
                             txn, daemon, lastCommitOk, cliVars>>

CliVlanAdmin(s) ==
    /\ vlanCtx[s] # DEFAULT_VLAN
    /\ SetVlanAdmin(s, "down", "admin_825")

CliNoVlanAdmin(s) == SetVlanAdmin(s, "up", "no_admin_867")

-----------------------------------------------------------------------------
(* Interface commands (INTERFACE_NODE), on a Port of an interface          *)

VlanExists(vid) == VlanOfVid(vid) # NONE

\* The row "vlan access <id>" writes, on an interface or a LAG
AccessRow(vid) == [mode |-> "access", tag |-> vid, trunks |-> {}]

\* cli_intf_vlan_access: "vlan access <1-4094>"
IntfVlanAccess(s, p, vid) ==
    /\ CliStep(s)
    /\ PortKind[p] = "system"
    /\ ~IsInternal(vid)
    /\ VlanExists(vid)
    /\ CommitPort(s, p, AccessRow(vid))

\* cli_intf_no_vlan_access: "no vlan access [<2-4094>]" on an access port
\* (whose tag the CLI always sets) goes back to DEFAULT_VLAN
IntfNoVlanAccess(s, p, vid) ==
    LET r == portRows[p]
    IN  /\ CliStep(s)
        /\ PortKind[p] = "system"
        /\ \E v \in VlanNames : vlanRows[v] # NONE
        /\ vid # NONE => vid >= 2 /\ VlanExists(vid) /\ r.tag = vid
        /\ r.mode = "access"
        /\ CommitPort(s, p, [mode |-> "access", tag |-> DEFAULT_VLAN, trunks |-> {}])

\* The columns "vlan trunk allowed" sets: the mode unless it is a native
\* one already, and the trunks unless vid is in them (the handler then
\* commits the mode alone)
TrunkAllowedColumns(r, vid) ==
    (IF r.mode \in NativeModes THEN {} ELSE {"mode"})
    \cup (IF vid \in r.trunks THEN {} ELSE {"trunks"})

\* The columns cli_intf_vlan_trunk_allowed sets: any mode but a native
\* one becomes native-untagged, and vid joins the trunks
IntfTrunkAllowedWrite(r, vid) ==
    Written(TrunkAllowedColumns(r, vid),
            [mode |-> "native-untagged", tag |-> r.tag, trunks |-> r.trunks \cup {vid}])

\* cli_intf_vlan_trunk_allowed: "vlan trunk allowed <1-4094>"; strcmp()
\* on an unset vlan_mode dereferences NULL.
IntfVlanTrunkAllowed(s, p, vid) ==
    LET r == portRows[p]
    IN  /\ CliStep(s)
        /\ PortKind[p] = "system"
        /\ ~IsInternal(vid)
        /\ VlanExists(vid)
        /\ \/ /\ r.mode = NONE
              /\ CliCrash("trunk_allowed_1345")
              /\ UNCHANGED vlanCtx
           \/ /\ r.mode # NONE
              /\ CommitPort(s, p, IntfTrunkAllowedWrite(r, vid))

\* The columns "no vlan trunk allowed" sets: the trunks when vid is in
\* them, and all three when a port in mode trunk is left with none (it
\* becomes access in DEFAULT_VLAN); any other mode keeps the empty list.
NoTrunkAllowedWrite(r, vid) ==
    LET trunks == r.trunks \ {vid}
    IN  IF r.mode = "trunk" /\ trunks = {}
        THEN [mode |-> "access", tag |-> DEFAULT_VLAN, trunks |-> {}]
        ELSE Written(IF vid \in r.trunks THEN {"trunks"} ELSE {},
                     [r EXCEPT !.trunks = trunks])

\* cli_intf_no_vlan_trunk_allowed: "no vlan trunk allowed <1-4094>"
IntfNoVlanTrunkAllowed(s, p, vid) ==
    LET r == portRows[p]
    IN  /\ CliStep(s)
        /\ PortKind[p] = "system"
        /\ r.mode \in {NONE, "trunk"} \cup NativeModes
        /\ vid \in r.trunks
        /\ CommitPort(s, p, NoTrunkAllowedWrite(r, vid))

\* "vlan trunk native <1-4094>": the tag, and the mode unless it is a
\* native one already (an unset mode becomes native-untagged)
TrunkNativeWrite(r, vid) ==
    IF r.mode \in NativeModes THEN [tag |-> vid]
    ELSE [mode |-> "native-untagged", tag |-> vid]

\* cli_intf_vlan_trunk_native: "vlan trunk native <1-4094>"
IntfVlanTrunkNative(s, p, vid) ==
    /\ CliStep(s)
    /\ PortKind[p] = "system"
    /\ ~IsInternal(vid)
    /\ VlanExists(vid)
    /\ CommitPort(s, p, TrunkNativeWrite(portRows[p], vid))

\* "no vlan trunk native" (native VLAN back to DEFAULT_VLAN; a port with
\* no trunks becomes access), shared by the interface and LAG handlers
NoNativeRow(r) ==
    IF r.trunks # {} THEN [tag |-> DEFAULT_VLAN, mode |-> "trunk"]
    ELSE [mode |-> "access", tag |-> DEFAULT_VLAN, trunks |-> {}]

\* cli_intf_no_vlan_trunk_native: "no vlan trunk native [<1-4094>]"; with
\* an id, tag[0] is read even when the port has no tag
IntfNoVlanTrunkNative(s, p, vid) ==
    LET r == portRows[p]
    IN  /\ CliStep(s)
        /\ PortKind[p] = "system"
        /\ r.mode \in {NONE} \cup NativeModes
        /\ \/ /\ vid # NONE /\ r.tag = NONE
              /\ CliCrash("no_trunk_native_1783")
              /\ UNCHANGED vlanCtx
           \/ /\ vid = NONE \/ r.tag = vid
              /\ CommitPort(s, p, NoNativeRow(r))

\* cli_intf_vlan_trunk_native_tag: "vlan trunk native tag"
IntfVlanTrunkNativeTag(s, p) ==
    /\ CliStep(s)
    /\ PortKind[p] = "system"
    /\ portRows[p].mode # "access"
    /\ CommitPort(s, p, [mode |-> "native-tagged"])

\* cli_intf_no_vlan_trunk_native_tag: "no vlan trunk native tag"
IntfNoVlanTrunkNativeTag(s, p) ==
    /\ CliStep(s)
    /\ PortKind[p] = "system"
    /\ portRows[p].mode \in {NONE, "native-tagged"}
    /\ CommitPort(s, p, [mode |-> "native-untagged"])

-----------------------------------------------------------------------------
(* LAG commands (LINK_AGGREGATION_NODE), on the Port of a LAG              *)

\* cli_lag_vlan_access: "vlan access <1-4094>" (no internal-VLAN check)
LagVlanAccess(s, p, vid) ==
    /\ CliStep(s)
    /\ PortKind[p] = "lag"
    /\ VlanExists(vid)
    /\ CommitPort(s, p, AccessRow(vid))

\* cli_lag_no_vlan_access: "no vlan access" unsets vlan_mode and tags the
\* LAG with DEFAULT_VLAN
LagNoVlanAccess(s, p) ==
    /\ CliStep(s)
    /\ PortKind[p] = "lag"
    /\ portRows[p].mode \in {NONE, "access"}
    /\ CommitPort(s, p, [mode |-> NONE, tag |-> DEFAULT_VLAN, trunks |-> {}])

\* cli_lag_vlan_trunk_allowed: "vlan trunk allowed <1-4094>"; any mode but
\* a native one becomes trunk
LagVlanTrunkAllowed(s, p, vid) ==
    LET r == portRows[p]
    IN  /\ CliStep(s)
        /\ PortKind[p] = "lag"
        /\ VlanExists(vid)
        /\ CommitPort(s, p, Written(TrunkAllowedColumns(r, vid),
                              [mode |-> "trunk", tag |-> r.tag,
                               trunks |-> r.trunks \cup {vid}]))

\* cli_lag_no_vlan_trunk_allowed: "no vlan trunk allowed <1-4094>".  An id
\* not in the trunks is not refused; the strcmp() of line 2384
\* dereferences an unset vlan_mode, which the check before it lets through.
LagNoVlanTrunkAllowed(s, p, vid) ==
    LET r == portRows[p]
    IN  /\ CliStep(s)
        /\ PortKind[p] = "lag"
        /\ r.mode \in {NONE, "trunk"} \cup NativeModes
        /\ \/ /\ r.mode = NONE
              /\ CliCrash("lag_no_trunk_allowed_2384")
              /\ UNCHANGED vlanCtx
           \/ /\ r.mode # NONE
              /\ CommitPort(s, p, NoTrunkAllowedWrite(r, vid))

\* cli_lag_vlan_trunk_native: "vlan trunk native <1-4094>"
LagVlanTrunkNative(s, p, vid) ==
    /\ CliStep(s)
    /\ PortKind[p] = "lag"
    /\ VlanExists(vid)
    /\ CommitPort(s, p, TrunkNativeWrite(portRows[p], vid))

\* cli_lag_no_vlan_trunk_native: "no vlan trunk native"
LagNoVlanTrunkNative(s, p) ==
    /\ CliStep(s)
    /\ PortKind[p] = "lag"
    /\ portRows[p].mode \in {NONE} \cup NativeModes
    /\ CommitPort(s, p, NoNativeRow(portRows[p]))

\* cli_lag_vlan_trunk_native_tag: "vlan trunk native tag"
LagVlanTrunkNativeTag(s, p) ==
    /\ CliStep(s)
    /\ PortKind[p] = "lag"
    /\ portRows[p].mode # "access"
    /\ CommitPort(s, p, [mode |-> "native-tagged"])

\* cli_lag_no_vlan_trunk_native_tag: "no vlan trunk native tag"
LagNoVlanTrunkNativeTag(s, p) ==
    /\ CliStep(s)
    /\ PortKind[p] = "lag"
    /\ portRows[p].mode \in {NONE, "native-tagged"}
    /\ CommitPort(s, p, [mode |-> "native-untagged"])

-----------------------------------------------------------------------------

\* Every VLAN id a Port row names, as its tag or in its trunks, is the id
\* of a VLAN row
ReferencesExist(r) ==
    \A vid \in r.trunks \cup ({r.tag} \ {NONE}) : VlanExists(vid)

\* The store as the system and the CLI leave it: every port exists with a
\* row the commands produce, DEFAULT_VLAN exists, and no session is in a
\* VLAN context yet.
CliInit ==
    /\ Init
    /\ \A p \in Ports : portRows[p] # NONE
    /\ vlanRows[DefaultVlanName] # NONE /\ ~vlanRows[DefaultVlanName].l3
    /\ \A p \in Ports : ReferencesExist(portRows[p])
    /\ vlanCtx = [s \in Sessions |-> NONE]
    /\ cliFaults = {}
    /\ cliTxn = [s \in Sessions |-> NONE]

OptVids == TagValues \cup {NONE}

CliClientNext ==
    \/ \E s \in Sessions, v \in VlanNames : VtyshVlan(s, v)
    \/ \E s \in Sessions, v \in VlanNames : VtyshNoVlan(s, v)
    \/ \E s \in Sessions : CliVlanAdmin(s) \/ CliNoVlanAdmin(s)
    \/ \E s \in Sessions, p \in Ports, vid \in OptVids :
         IntfNoVlanAccess(s, p, vid) \/ IntfNoVlanTrunkNative(s, p, vid)
    \/ \E s \in Sessions, p \in Ports, vid \in TagValues :
         \/ IntfVlanAccess(s, p, vid)
         \/ IntfVlanTrunkAllowed(s, p, vid)
         \/ IntfNoVlanTrunkAllowed(s, p, vid)
         \/ IntfVlanTrunkNative(s, p, vid)
         \/ LagVlanAccess(s, p, vid)
         \/ LagVlanTrunkAllowed(s, p, vid)
         \/ LagNoVlanTrunkAllowed(s, p, vid)
         \/ LagVlanTrunkNative(s, p, vid)
    \/ \E s \in Sessions, p \in Ports :
         \/ IntfVlanTrunkNativeTag(s, p)
         \/ IntfNoVlanTrunkNativeTag(s, p)
         \/ LagNoVlanAccess(s, p)
         \/ LagNoVlanTrunkNative(s, p)
         \/ LagVlanTrunkNativeTag(s, p)
         \/ LagNoVlanTrunkNativeTag(s, p)
    \/ \E s \in Sessions : CliFinish(s)
    \/ SetCurCfg /\ UNCHANGED cliVars

CliNext == (DaemonNext /\ UNCHANGED cliVars) \/ CliClientNext

CliSpec == CliInit /\ [][CliNext]_allVars /\ Fairness

-----------------------------------------------------------------------------
(* Properties                                                              *)

CliTypeOK ==
    /\ TypeOK
    /\ vlanCtx \in [Sessions -> Vids \cup {NONE}]
    /\ cliFaults \subseteq CrashSites
    /\ \A s \in Sessions : cliTxn[s] # NONE =>
         /\ cliTxn[s].port \in Ports
         /\ DOMAIN cliTxn[s].w \subseteq DOMAIN cliTxn[s].read

\* Interface ports never name a VLAN that does not exist: the interface
\* commands only add ids of existing VLANs, and vtysh_no_vlan rewrites every
\* interface port that carried the id in the transaction that deletes it.
SystemPortsReferenceExistingVlans ==
    \A p \in Ports : PortKind[p] = "system" => ReferencesExist(portRows[p])

\* The same for LAG ports, whose rows vtysh_no_vlan leaves alone when the
\* deleted VLAN was their only one.
LagPortsReferenceExistingVlans ==
    \A p \in Ports : PortKind[p] = "lag" => ReferencesExist(portRows[p])

\* No vtysh process dies at a NULL dereference: "shutdown" and "no
\* shutdown" find the VLAN row of their session's context (a session is
\* never left in the context of a VLAN that is gone, lines 825 and 867),
\* and no port command reads a Port column the row does not have:
\* strcmp() on an unset vlan_mode (lines 1345, 2384) or tag[0] of a port
\* with no tag (line 1783).  Ports the system or another client created
\* carry neither column until a VLAN command sets it.
NoVtyshNullDereference == cliFaults = {}

\* "no vlan N" leaves no interface Port naming N, as tag or trunk, in the
\* transaction that deletes the VLAN: vtysh_no_vlan's port loop rewrites
\* every interface that carried the id, whatever mode it was in.
NoVlanCleansInterfaces ==
    [][\A s \in Sessions, v \in VlanNames :
          VtyshNoVlan(s, v) =>
              \A p \in Ports : PortKind[p] = "system" =>
                  VidOf[v] \notin portRows'[p].trunks \cup {portRows'[p].tag}]_allVars

\* A row that makes its port a member of every VLAN (trunk-family mode
\* with no explicit trunk list, as construct_vlan_bitmap() resolves it)
TrunksAll(r) == Status!RefMode(r) # "access" /\ r.trunks = {}

\* Removing one VLAN from a port with "no vlan trunk allowed" never turns
\* it into a trunk of every VLAN: the handlers send a trunk port whose
\* last allowed VLAN goes back to access in DEFAULT_VLAN; the property says
\* the same must hold for a port in a native mode.
NoTrunkAllByRemoval ==
    [][\A s \in Sessions, p \in Ports, vid \in TagValues :
          /\ IntfNoVlanTrunkAllowed(s, p, vid) \/ LagNoVlanTrunkAllowed(s, p, vid)
          /\ ~TrunksAll(portRows[p])
          => ~TrunksAll(portRows'[p])]_allVars

=============================================================================
