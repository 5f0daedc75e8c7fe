------------------------------- MODULE Vland -------------------------------
(***************************************************************************)
(* The VLAN reconciliation daemon ops-vland (src/src/vland_ovsdb_if.c)     *)
(* and the store it mirrors.                                               *)
(*                                                                         *)
(* The store holds Port rows (vlan_mode, tag, trunks) and VLAN rows        *)
(* (admin, internal_usage, and the daemon-owned hw_vlan_config,            *)
(* oper_state, oper_state_reason).  A VLAN row carries a generation: a row *)
(* deleted and inserted again under the same name is a different row, as  *)
(* it is a different struct ovsrec_vlan in the IDL replica.                *)
(*                                                                         *)
(* One call of vland_run() is one atomic step (DaemonRun): the IDL replica *)
(* does not change while vland_reconfigure() runs.  It stages the writes   *)
(* of handle_vlan_config() in a transaction; ovsdb_idl_txn_commit_block()  *)
(* is a second step (Commit), and other clients of the store may change   *)
(* rows between the two.  Store clients are modelled here as the generic   *)
(* transactional callers of the store contract; VlandCli replaces them by  *)
(* the CLI handlers of src/src/cli/vlan_vty.c.                             *)
(***************************************************************************)
EXTENDS Integers, FiniteSets, SequencesExt

CONSTANTS
    Ports,              \* names of Port rows
    VlanNames,          \* names of VLAN rows
    VidOf,              \* VLAN:id of the row with each name
    TagValues,          \* values a Port:tag or Port:trunks entry takes
    PortRowChoices,     \* Port rows the generic store client writes
    MaxGen,             \* bound: re-insertions of a VLAN row with one name
    CommitMayFail,      \* the daemon's commit may end in an error status
    RecreateBeforePoll, \* a VLAN row may be re-inserted before the daemon saw it go
    MaxChanges,         \* bound: changes the store clients make in a behaviour
    NONE,               \* absent row / optional column not set
    NULL                \* a port_data whose vlans_bitmap is not allocated

Modes == {"access", "trunk", "native-tagged", "native-untagged"}
Admin == {"up", "down"}
OperStates == {"unknown", "down", "up"}
OperReasons == {"unknown", "admin_down", "no_member_port", "ok"}
HwConfigs == {"empty", "enable"}
Gens == 0..MaxGen
Vids == {VidOf[v] : v \in VlanNames}

ASSUME VidOf \in [VlanNames -> TagValues]
ASSUME TagValues \subseteq 0..4095
ASSUME MaxGen \in Nat /\ MaxChanges \in Nat

PortRow == [mode : Modes \cup {NONE}, tag : TagValues \cup {NONE},
            trunks : SUBSET TagValues]
VlanRow == [gen : Gens, admin : Admin, l3 : BOOLEAN, hw : HwConfigs,
            oper : OperStates, reason : OperReasons]

ASSUME PortRowChoices \subseteq PortRow

\* struct port_data and struct vlan_data
PortData == [vlan_mode : Modes, native_vid : TagValues \cup {-1},
             trunk_all_vlans : BOOLEAN,
             vlans_bitmap : (SUBSET TagValues) \cup {NULL}]
VlanData == [idl_cfg : Gens, vid : TagValues, any_member_exists : BOOLEAN,
             admin : Admin, op_state : OperStates,
             op_state_reason : OperReasons]
\* One staged write of handle_vlan_config(), keyed by <<name, generation>>
Write == [oper : OperStates, reason : OperReasons]
TxnKeys == VlanNames \X Gens
NoWrites == [k \in TxnKeys |-> NONE]

VARIABLES
    portRows,          \* Port table
    vlanRows,          \* VLAN table
    lastGen,           \* generation of the last VLAN row inserted per name
    curCfg,            \* Open_vSwitch:cur_cfg
    budget,            \* changes the store clients may still make
    pending,           \* ovsdb_idl_get_seqno(idl) # idl_seqno
    dirtyPorts,        \* Port rows inserted or modified since idl_seqno
    dirtyVlans,        \* VLAN rows inserted or modified since idl_seqno
    system_configured,
    all_ports,
    all_vlans,
    all_vlans_bitmap,
    txn,               \* transaction awaiting ovsdb_idl_txn_commit_block()
    daemon,            \* "running" or "crashed"
    lastCommitOk       \* the last pass's writes reached the store

storeVars == <<portRows, vlanRows, lastGen, curCfg, budget>>
idlVars == <<pending, dirtyPorts, dirtyVlans>>
cacheVars == <<system_configured, all_ports, all_vlans, all_vlans_bitmap>>
vars == <<storeVars, idlVars, cacheVars, txn, daemon, lastCommitOk>>

-----------------------------------------------------------------------------
(* Port cache                                                              *)

VALID_VID(x) == x > 0 /\ x < 4095

\* Folds over the small sets and sequences of one pass.  The community
\* FoldSet and FoldLeft build a function over SUBSET of the domain, which
\* TLC evaluates far too slowly inside a next-state action.
RECURSIVE ForEach(_, _, _)
ForEach(op(_, _), acc, S) ==
    IF S = {} THEN acc
    ELSE LET x == CHOOSE x \in S : TRUE
         IN  ForEach(op, op(x, acc), S \ {x})

RECURSIVE ForEachInOrder(_, _, _)
ForEachInOrder(op(_, _), acc, seq) ==
    IF seq = <<>> THEN acc
    ELSE ForEachInOrder(op, op(Head(seq), acc), Tail(seq))

\* construct_vlan_bitmap(): resolve a Port row against the global bitmap
ConstructVlanBitmap(row, allBitmap) ==
    LET mode == IF row.mode # NONE THEN row.mode
                ELSE IF row.tag # NONE THEN "access" ELSE "trunk"
        native == IF row.tag # NONE /\ mode # "trunk" THEN row.tag ELSE -1
        explicit == row.trunks # {} /\ mode # "access"
        base == IF explicit THEN row.trunks
                ELSE IF mode = "access" THEN {} ELSE allBitmap
    IN  [vlan_mode |-> mode,
         native_vid |-> native,
         trunk_all_vlans |-> ~explicit /\ mode # "access",
         vlans_bitmap |-> base \cup (IF VALID_VID(native) THEN {native} ELSE {})]

\* The daemon state one pass threads through the C functions
DaemonState == [ports |-> all_ports, vlans |-> all_vlans,
                bitmap |-> all_vlans_bitmap, txn |-> NoWrites,
                crash |-> FALSE, dangling |-> FALSE]

\* vlan_lookup_by_vid(): a linear scan of the VLAN cache
VlanLookupByVid(d, vid) ==
    LET found == {v \in VlanNames : d.vlans[v] # NONE /\ d.vlans[v].vid = vid}
    IN  IF found = {} THEN NONE ELSE CHOOSE v \in found : TRUE

\* Mutant: trunk-all ports are counted as members but not given the bit
UpdateVlanMembershipNoForceSet(d, v) ==
    LET vid == d.vlans[v].vid
        live == {p \in Ports : d.ports[p] # NONE}
    IN  IF \E p \in live : ~d.ports[p].trunk_all_vlans
                           /\ d.ports[p].vlans_bitmap = NULL
        THEN [d EXCEPT !.crash = TRUE]
        ELSE [d EXCEPT !.vlans[v].any_member_exists =
                    \E p \in live : d.ports[p].trunk_all_vlans
                                    \/ vid \in d.ports[p].vlans_bitmap]

\* update_vlan_membership(): bitmap_is_set() on a port whose bitmap is
\* still NULL dereferences it (crash).
UpdateVlanMembership(d, v) ==
    LET vid == d.vlans[v].vid
        live == {p \in Ports : d.ports[p] # NONE}
    IN  IF \E p \in live : ~d.ports[p].trunk_all_vlans
                           /\ d.ports[p].vlans_bitmap = NULL
        THEN [d EXCEPT !.crash = TRUE]
        ELSE [d EXCEPT
                !.ports = [p \in Ports |->
                             IF p \in live /\ d.ports[p].trunk_all_vlans
                             THEN [d.ports[p] EXCEPT !.vlans_bitmap = @ \cup {vid}]
                             ELSE d.ports[p]],
                !.vlans[v].any_member_exists =
                    \E p \in live : d.ports[p].trunk_all_vlans
                                    \/ vid \in d.ports[p].vlans_bitmap]

\* calc_vlan_op_state_n_reason()
CalcVlanOpStateNReason(vl) ==
    IF vl.admin = "down" THEN [oper |-> "down", reason |-> "admin_down"]
    ELSE IF ~vl.any_member_exists
         THEN [oper |-> "down", reason |-> "no_member_port"]
         ELSE [oper |-> "up", reason |-> "ok"]

\* Mutant: the "state unchanged" test compares op_state only
HandleVlanConfigStateOnly(d, v, gen, l3) ==
    LET new == CalcVlanOpStateNReason(d.vlans[v])
    IN  IF l3 \/ new.oper = d.vlans[v].op_state
        THEN d
        ELSE [d EXCEPT !.vlans[v].op_state = new.oper,
                       !.vlans[v].op_state_reason = new.reason,
                       !.txn[<<v, gen>>] = new]

\* Mutant: the internal_usage "l3port" check is missing
HandleVlanConfigWritesL3(d, v, gen, l3) ==
    LET new == CalcVlanOpStateNReason(d.vlans[v])
    IN  IF new.oper = d.vlans[v].op_state /\ new.reason = d.vlans[v].op_state_reason
        THEN d
        ELSE [d EXCEPT !.vlans[v].op_state = new.oper,
                       !.vlans[v].op_state_reason = new.reason,
                       !.txn[<<v, gen>>] = new]

\* handle_vlan_config(row, vptr) for the row of generation gen
HandleVlanConfig(d, v, gen, l3) ==
    LET new == CalcVlanOpStateNReason(d.vlans[v])
    IN  IF l3 \/ (new.oper = d.vlans[v].op_state
                  /\ new.reason = d.vlans[v].op_state_reason)
        THEN d
        ELSE [d EXCEPT !.vlans[v].op_state = new.oper,
                       !.vlans[v].op_state_reason = new.reason,
                       !.txn[<<v, gen>>] = new]

\* handle_vlan_config(vlan->idl_cfg, vlan): the pointer saved when the
\* entry was created.  If that row is gone from the replica it is freed
\* memory (dangling); VLAN rows marked for L3 use are never deleted here,
\* so the freed row reads as not L3.
HandleCachedVlanConfig(d, v, vrows) ==
    LET g == d.vlans[v].idl_cfg
        live == vrows[v] # NONE /\ vrows[v].gen = g
    IN  HandleVlanConfig([d EXCEPT !.dangling = @ \/ ~live], v, g,
                         live /\ vrows[v].l3)

\* Loop body shared by del_old_port() and update_port_cache()
RefreshVid(d, vid, vrows) ==
    LET v == VlanLookupByVid(d, vid)
    IN  IF d.crash \/ v = NONE THEN d
        ELSE LET d1 == UpdateVlanMembership(d, v)
             IN  IF d1.crash THEN d1 ELSE HandleCachedVlanConfig(d1, v, vrows)

RefreshVids(d, vids, vrows) ==
    ForEach(LAMBDA vid, acc : RefreshVid(acc, vid, vrows), d, vids)

\* Mutant: the VLANs are refreshed before the entry is removed
DelOldPortRefreshFirst(d, p, vrows) ==
    [RefreshVids(d, d.ports[p].vlans_bitmap, vrows) EXCEPT !.ports[p] = NONE]

\* del_old_port(): remove the entry first, then refresh its VLANs
DelOldPort(d, p, vrows) ==
    RefreshVids([d EXCEPT !.ports[p] = NONE], d.ports[p].vlans_bitmap, vrows)

\* add_new_port(): a blank entry, bitmap not yet allocated
AddNewPort(d, p) ==
    [d EXCEPT !.ports[p] = [vlan_mode |-> "access", native_vid |-> -1,
                            trunk_all_vlans |-> FALSE, vlans_bitmap |-> NULL]]

\* Mutant: only the VLANs of the new bitmap are refreshed
UpdatePortNewOnly(d, p, prow, vrows) ==
    LET new == ConstructVlanBitmap(prow, d.bitmap)
    IN  RefreshVids([d EXCEPT !.ports[p] = new], new.vlans_bitmap, vrows)

\* Body of the "changes in the port row entries" loop
UpdatePort(d, p, prow, vrows) ==
    LET old == IF d.ports[p].vlans_bitmap = NULL THEN {}
               ELSE d.ports[p].vlans_bitmap
        new == ConstructVlanBitmap(prow, d.bitmap)
    IN  RefreshVids([d EXCEPT !.ports[p] = new], old \cup new.vlans_bitmap, vrows)

\* update_port_cache(); order is the shash iteration order of all_ports
UpdatePortCache(d, prows, vrows, dirty, order) ==
    LET idl == {p \in Ports : prows[p] # NONE}
        cached == {p \in Ports : d.ports[p] # NONE}
        d1 == ForEach(LAMBDA p, acc : DelOldPort(acc, p, vrows), d, cached \ idl)
        d2 == ForEach(LAMBDA p, acc : AddNewPort(acc, p), d1, idl \ cached)
    IN  ForEachInOrder(LAMBDA p, acc :
                         IF p \in dirty /\ ~acc.crash
                         THEN UpdatePort(acc, p, prows[p], vrows) ELSE acc,
                       d2, order)

-----------------------------------------------------------------------------
(* VLAN cache                                                              *)

\* Mutant: op_state is left uninitialised
ParseVlanDataNoOpState(row, v) ==
    [idl_cfg |-> row.gen, vid |-> VidOf[v], any_member_exists |-> FALSE,
     admin |-> "down", op_state |-> NONE, op_state_reason |-> "unknown"]

\* parse_vlan_data()
ParseVlanData(row, v) ==
    [idl_cfg |-> row.gen, vid |-> VidOf[v], any_member_exists |-> FALSE,
     admin |-> "down", op_state |-> "unknown", op_state_reason |-> "unknown"]

\* add_new_vlan()
AddNewVlan(d, v, row) ==
    UpdateVlanMembership([d EXCEPT !.vlans[v] = ParseVlanData(row, v),
                                   !.bitmap = @ \cup {VidOf[v]}], v)

\* del_old_vlan()
DelOldVlan(d, v) ==
    LET vid == d.vlans[v].vid
    IN  [d EXCEPT
           !.ports = [p \in Ports |->
                        IF d.ports[p] # NONE /\ d.ports[p].trunk_all_vlans
                        THEN [d.ports[p] EXCEPT !.vlans_bitmap = @ \ {vid}]
                        ELSE d.ports[p]],
           !.bitmap = @ \ {vid},
           !.vlans[v] = NONE]

\* Body of the "changes in the VLAN row entries" loop
UpdateVlanRow(d, v, row) ==
    HandleVlanConfig([d EXCEPT !.vlans[v].admin =
                                  IF row.admin = "up" THEN "up" ELSE "down"],
                     v, row.gen, row.l3)

\* update_vlan_cache()
UpdateVlanCache(d, vrows, dirty) ==
    LET idl == {v \in VlanNames : vrows[v] # NONE}
        cached == {v \in VlanNames : d.vlans[v] # NONE}
        d1 == ForEach(LAMBDA v, acc : DelOldVlan(acc, v), d, cached \ idl)
        d2 == ForEach(LAMBDA v, acc : AddNewVlan(acc, v, vrows[v]), d1,
                      idl \ cached)
    IN  ForEach(LAMBDA v, acc :
                  IF v \in dirty THEN UpdateVlanRow(acc, v, vrows[v]) ELSE acc,
                d2, idl)

\* vland_reconfigure(), once the seqno has changed
VlandReconfigure(order) ==
    LET d == UpdatePortCache(DaemonState, portRows, vlanRows, dirtyPorts, order)
    IN  IF d.crash THEN d ELSE UpdateVlanCache(d, vlanRows, dirtyVlans)

-----------------------------------------------------------------------------
(* The daemon loop                                                         *)

\* vland_run(): vland_chk_for_system_configured(), then vland_reconfigure()
\* with the transaction it fills.
DaemonRun ==
    /\ daemon = "running"
    /\ txn = NONE
    /\ system_configured \/ curCfg > 0
    /\ pending
    /\ system_configured' = TRUE
    /\ pending' = FALSE
    /\ dirtyPorts' = {}
    /\ dirtyVlans' = {}
    /\ \E order \in SetToSeqs({p \in Ports : portRows[p] # NONE}) :
         LET d == VlandReconfigure(order) IN
         \/ /\ d.crash \/ d.dangling
            /\ daemon' = "crashed"
            /\ UNCHANGED <<all_ports, all_vlans, all_vlans_bitmap, txn, lastCommitOk>>
         \/ /\ ~d.crash
            /\ all_ports' = d.ports
            /\ all_vlans' = d.vlans
            /\ all_vlans_bitmap' = d.bitmap
            /\ IF d.txn = NoWrites
               THEN txn' = NONE /\ lastCommitOk' = TRUE
               ELSE txn' = d.txn /\ UNCHANGED lastCommitOk
            /\ UNCHANGED daemon
    /\ UNCHANGED storeVars

\* The columns handle_vlan_config() sets on a row
ApplyWrite(row, w) ==
    [row EXCEPT !.oper = w.oper, !.reason = w.reason,
                !.hw = IF w.oper = "up" THEN "enable" ELSE "empty"]

\* ovsdb_idl_txn_commit_block(); its status is ignored by vland_run().
\* A write to a row that is no longer in the store has no effect.
Commit ==
    /\ daemon = "running"
    /\ txn # NONE
    /\ \/ /\ vlanRows' = [v \in VlanNames |->
                            IF vlanRows[v] # NONE
                               /\ txn[<<v, vlanRows[v].gen>>] # NONE
                            THEN ApplyWrite(vlanRows[v], txn[<<v, vlanRows[v].gen>>])
                            ELSE vlanRows[v]]
          /\ lastCommitOk' = TRUE
       \/ /\ CommitMayFail
          /\ lastCommitOk' = FALSE
          /\ UNCHANGED vlanRows
    /\ txn' = NONE
    /\ UNCHANGED <<portRows, lastGen, curCfg, budget, idlVars, cacheVars, daemon>>

-----------------------------------------------------------------------------
(* Generic store clients: transactional changes to the watched columns.   *)

\* A change to a Port row (insert, modify or delete)
SetPortRow(p, r) ==
    /\ budget > 0
    /\ budget' = budget - 1
    /\ portRows[p] # r
    /\ portRows' = [portRows EXCEPT ![p] = r]
    /\ pending' = TRUE
    /\ dirtyPorts' = IF r # NONE THEN dirtyPorts \cup {p} ELSE dirtyPorts
    /\ UNCHANGED <<vlanRows, lastGen, curCfg, dirtyVlans,
                   cacheVars, txn, daemon, lastCommitOk>>

\* Insert a VLAN row the way "vlan <id>" does (admin down, oper down)
AddVlan(v, l3) ==
    /\ budget > 0
    /\ budget' = budget - 1
    /\ vlanRows[v] = NONE
    /\ lastGen[v] < MaxGen
    /\ RecreateBeforePoll \/ all_vlans[v] = NONE
    /\ vlanRows' = [vlanRows EXCEPT ![v] =
                      [gen |-> lastGen[v] + 1, admin |-> "down", l3 |-> l3,
                       hw |-> "empty", oper |-> "down", reason |-> "admin_down"]]
    /\ lastGen' = [lastGen EXCEPT ![v] = @ + 1]
    /\ pending' = TRUE
    /\ dirtyVlans' = dirtyVlans \cup {v}
    /\ UNCHANGED <<portRows, curCfg, dirtyPorts, cacheVars, txn,
                   daemon, lastCommitOk>>

\* Delete a VLAN row that is not reserved for L3 use
DelVlan(v) ==
    /\ budget > 0
    /\ budget' = budget - 1
    /\ vlanRows[v] # NONE
    /\ ~vlanRows[v].l3
    /\ vlanRows' = [vlanRows EXCEPT ![v] = NONE]
    /\ pending' = TRUE
    /\ UNCHANGED <<portRows, lastGen, curCfg, dirtyPorts, dirtyVlans,
                   cacheVars, txn, daemon, lastCommitOk>>

\* Set VLAN:admin
SetAdmin(v, a) ==
    /\ budget > 0
    /\ budget' = budget - 1
    /\ vlanRows[v] # NONE
    /\ ~vlanRows[v].l3
    /\ vlanRows[v].admin # a
    /\ vlanRows' = [vlanRows EXCEPT ![v].admin = a]
    /\ pending' = TRUE
    /\ dirtyVlans' = dirtyVlans \cup {v}
    /\ UNCHANGED <<portRows, lastGen, curCfg, dirtyPorts,
                   cacheVars, txn, daemon, lastCommitOk>>

\* The configuration daemon finishes: cur_cfg becomes positive
SetCurCfg ==
    /\ budget > 0
    /\ budget' = budget - 1
    /\ curCfg = 0
    /\ curCfg' = 1
    /\ pending' = TRUE
    /\ UNCHANGED <<portRows, vlanRows, lastGen, dirtyPorts,
                   dirtyVlans, cacheVars, txn, daemon, lastCommitOk>>

-----------------------------------------------------------------------------

\* vland_ovsdb_init() and the empty caches.  The store may already hold
\* rows (inserted as "vlan <id>" inserts them); the IDL's first sync
\* reports every one of them as inserted.
InitVlanRow == [gen : {0}, admin : Admin, l3 : BOOLEAN, hw : {"empty"},
                oper : {"down"}, reason : {"admin_down"}]

Init ==
    /\ portRows \in [Ports -> PortRowChoices \cup {NONE}]
    /\ vlanRows \in [VlanNames -> InitVlanRow \cup {NONE}]
    /\ lastGen = [v \in VlanNames |-> IF vlanRows[v] = NONE THEN -1 ELSE 0]
    /\ curCfg \in 0..1
    /\ budget = MaxChanges
    /\ pending = TRUE
    /\ dirtyPorts = {p \in Ports : portRows[p] # NONE}
    /\ dirtyVlans = {v \in VlanNames : vlanRows[v] # NONE}
    /\ system_configured = FALSE
    /\ all_ports = [p \in Ports |-> NONE]
    /\ all_vlans = [v \in VlanNames |-> NONE]
    /\ all_vlans_bitmap = {}
    /\ txn = NONE
    /\ daemon = "running"
    /\ lastCommitOk = TRUE

StoreNext ==
    \/ \E p \in Ports, r \in PortRowChoices \cup {NONE} : SetPortRow(p, r)
    \/ \E v \in VlanNames, l3 \in BOOLEAN : AddVlan(v, l3)
    \/ \E v \in VlanNames : DelVlan(v)
    \/ \E v \in VlanNames, a \in Admin : SetAdmin(v, a)
    \/ SetCurCfg

DaemonNext == DaemonRun \/ Commit

Next == DaemonNext \/ StoreNext

\* vland_run() is called on every wake-up of the main loop, and the loop
\* wakes on every IDL change; commit_block() returns once the server
\* replies.  So both steps are weakly fair.  Commit is stated as
\* WF_vars(Commit).  For DaemonRun, WF_vars(A), that is
\* <>[]ENABLED <<A>>_vars => []<><<A>>_vars, is stated with its enabling
\* condition and the change no other step makes (only DaemonRun clears
\* pending), which is the same formula for the behaviours of Next and
\* spares TLC a run of the whole pass for every state and edge it checks.
DaemonRunEnabled ==
    daemon = "running" /\ txn = NONE /\ (system_configured \/ curCfg > 0)
    /\ pending

Fairness ==
    /\ <>[]DaemonRunEnabled => []<><<pending /\ ~pending'>>_vars
    /\ WF_vars(Commit)

Spec == Init /\ [][Next]_vars /\ Fairness

-----------------------------------------------------------------------------
(* Properties                                                              *)

TypeOK ==
    /\ portRows \in [Ports -> PortRow \cup {NONE}]
    /\ vlanRows \in [VlanNames -> VlanRow \cup {NONE}]
    /\ lastGen \in [VlanNames -> -1..MaxGen]
    /\ curCfg \in 0..1
    /\ budget \in 0..MaxChanges
    /\ pending \in BOOLEAN
    /\ dirtyPorts \subseteq Ports
    /\ dirtyVlans \subseteq VlanNames
    /\ system_configured \in BOOLEAN
    /\ all_ports \in [Ports -> PortData \cup {NONE}]
    /\ all_vlans \in [VlanNames -> VlanData \cup {NONE}]
    /\ all_vlans_bitmap \subseteq TagValues
    /\ txn \in [TxnKeys -> Write \cup {NONE}] \cup {NONE}
    /\ daemon \in {"running", "crashed"}
    /\ lastCommitOk \in BOOLEAN

\* The reference membership (RefMode, RefMember), the derived columns
\* (ExpectedColumns, StoreConsistent) and the abstract specification, over
\* the store of this module.  The refinement mapping: the system is
\* configured once cur_cfg > 0 (vland_chk_for_system_configured), and the
\* daemon is alive until it crashes.
Status == INSTANCE VlandStatus
              WITH configured <- curCfg > 0, alive <- daemon = "running"

\* The daemon has consumed every change and has no commit outstanding
Quiescent ==
    daemon = "running" /\ system_configured /\ ~pending /\ txn = NONE

\* update_vlan_membership() and its callers keep any_member_exists of
\* every cached VLAN equal to "some cached port has the VLAN's bit", after
\* every vland_run() pass, whatever order ports are visited in.
MembershipAccurate ==
    daemon = "running" =>
        \A v \in VlanNames : all_vlans[v] # NONE =>
            (all_vlans[v].any_member_exists <=>
                \E p \in Ports : all_ports[p] # NONE
                                 /\ all_vlans[v].vid \in all_ports[p].vlans_bitmap)

\* Once a pass has consumed every change, the port cache of
\* update_port_cache() and the bitmap edits of add_new_vlan() /
\* del_old_vlan() leave each port carrying exactly the existing VLANs its
\* row makes it a member of, and all_vlans_bitmap is the set of VLAN ids.
PortCacheMirrorsStore ==
    daemon = "running" /\ system_configured /\ ~pending =>
        /\ all_vlans_bitmap = Status!StoreVids
        /\ \A p \in Ports :
             /\ (all_ports[p] = NONE) <=> (portRows[p] = NONE)
             /\ portRows[p] # NONE =>
                  \A vid \in Status!StoreVids :
                     vid \in all_ports[p].vlans_bitmap
                       <=> Status!RefMember(portRows[p], vid, Status!StoreVids)

\* When vland_run() has handled every change and its last transaction
\* committed, the oper_state, oper_state_reason and hw_vlan_config columns
\* in the store are those of calc_vlan_op_state_n_reason() for the rows as
\* they now are (spec 3 and 4.4: a failed write is retried on the next
\* external change).
StoreReflectsDerivedState ==
    Quiescent /\ lastCommitOk => Status!StoreConsistent

\* Once the store clients stop changing it, vland_run() and commit_block()
\* bring the store to the derived state and keep it there (unless the
\* daemon died or the system was never configured).
EventuallyConsistent ==
    <>[](daemon = "crashed" \/ curCfg = 0
         \/ (~pending /\ txn = NONE /\ Status!StoreConsistent))

\* vland_run() and commit_block() keep the promises of VlandStatus: a
\* client never writes the daemon's columns, the daemon writes them only
\* once configured, never on an internal_usage "l3port" row, and only
\* with a state calc_vlan_op_state_n_reason() produces, and while it is
\* alive and configured it eventually writes the derived state to every
\* row.
StatusSpec == Status!StatusSpec

\* The daemon never dies on a NULL or freed pointer
NoDaemonCrash == daemon = "running"

=============================================================================
