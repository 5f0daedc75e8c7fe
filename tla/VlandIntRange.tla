---------------------------- MODULE VlandIntRange ----------------------------
(***************************************************************************)
(* The internal VLAN range: three keys of System:other_config (min, max,  *)
(* policy) that the range commands of vlan_vty.c write, show vlan         *)
(* internal reports and the global running-config context prints.        *)
(*                                                                         *)
(* The commands run in the vtysh sessions of VlandCli, from the same      *)
(* client budget, interleaved with the VLAN and port commands and with    *)
(* vland.  vland does not register System:other_config, so its replica   *)
(* never sees them.  The other keys of other_config are left out: the     *)
(* commands copy them unchanged.                                           *)
(***************************************************************************)
EXTENDS VlandRunningConfig

VARIABLE sysConfig  \* the min, max and policy keys of the System row

rangeVars == <<allVars, sysConfig>>

\* The range in force when none is configured
\* (DFLT_SYSTEM_OTHER_CONFIG_MAP_{MIN,MAX}_INTERNAL_VLAN_ID), and the one
\* the running-config compares with (DEFAULT_INTERNAL_VLAN_{MIN,MAX}_VID_VALUE);
\* both come from OpenSwitch headers outside this repository
DFLT_MIN_INTERNAL == 1024
DFLT_MAX_INTERNAL == 4094
DEFAULT_MIN_VID == 1024
DEFAULT_MAX_VID == 4094

\* Ids given to the range commands (<2-4094>): the bounds of the default
\* range, so that a range may equal the default in none, one or all of
\* its fields, and a range may end below its start
RangeIds == {DFLT_MIN_INTERNAL, DFLT_MAX_INTERNAL}
Policies == {"ascending", "descending"}

\* The min, max and policy keys; NONE for a key that is absent
SysConfig(min, max, policy) == [min |-> min, max |-> max, policy |-> policy]

\* vlan_int_range_add(): the three keys replaced in a clone of other_config
VlanIntRangeAdd(c, min, max, policy) == SysConfig(min, max, policy)

\* cli_vlan_int_range_add takes the policy word by its first letter: 'a'
\* is ascending, anything else descending (the parser passes a prefix of
\* one of the two words)
PolicyOfArg(word) == IF word = "ascending" THEN "ascending" ELSE "descending"

\* cli_vlan_int_range_add: "vlan internal range <min> <max> <policy>"; a
\* range that ends below its start is refused
CliVlanIntRangeAdd(c, min, max, word) ==
    IF max < min THEN c ELSE VlanIntRangeAdd(c, min, max, PolicyOfArg(word))

\* vlan_int_range_del(): the default range when the range given is the
\* one configured, or when none is given (0, 0); otherwise the clone is
\* written back unchanged.  An absent key reads as
\* INTERNAL_VLAN_ID_INVALID, which equals no id a command accepts.
VlanIntRangeDel(c, min, max) ==
    IF (c.min = min /\ c.max = max) \/ (min = 0 /\ max = 0)
    THEN SysConfig(DFLT_MIN_INTERNAL, DFLT_MAX_INTERNAL, "ascending")
    ELSE c

\* cli_vlan_int_range_del_arg: a range that ends below its start is
\* refused; the policy word is not compared
CliVlanIntRangeDel(c, min, max) ==
    IF max < min THEN c ELSE VlanIntRangeDel(c, min, max)

\* The System row as the system creates it: with no range keys, or with
\* the default range written out
FreshSystems ==
    {SysConfig(NONE, NONE, NONE),
     SysConfig(DFLT_MIN_INTERNAL, DFLT_MAX_INTERNAL, "ascending")}

\* show_vlan_int_range(): the range in force, the default one when a key
\* is absent
EffectiveRange(c) ==
    IF c.min = NONE \/ c.max = NONE \/ c.policy = NONE
    THEN SysConfig(DFLT_MIN_INTERNAL, DFLT_MAX_INTERNAL, "ascending")
    ELSE c

\* Mutant: the range is printed only when all three keys differ
GlobalContextLinesAnd(c) ==
    IF c.policy # NONE
       /\ c.min # DEFAULT_MIN_VID /\ c.max # DEFAULT_MAX_VID
       /\ c.policy # "ascending"
    THEN <<[cmd |-> "range", min |-> c.min, max |-> c.max, policy |-> c.policy]>>
    ELSE <<>>

\* vtysh_vlan_global_context_clientcallback: nothing when the policy key is
\* absent; "vlan internal range <min> <max> <policy>" when the range is not
\* the default one
GlobalContextLines(c) ==
    IF c.policy # NONE
       /\ (c.min # DEFAULT_MIN_VID \/ c.max # DEFAULT_MAX_VID
           \/ c.policy # "ascending")
    THEN <<[cmd |-> "range", min |-> c.min, max |-> c.max, policy |-> c.policy]>>
    ELSE <<>>

\* The printed line loaded through cli_vlan_int_range_add
ReplayGlobalLine(l, c) == CliVlanIntRangeAdd(c, l.min, l.max, PolicyOfArg(l.policy))

-----------------------------------------------------------------------------
(* The commands                                                            *)

\* A range command is a vtysh command in one session: it costs a unit of
\* the client budget, and its transaction touches only the System row
RangeCmd(s) ==
    /\ CliStep(s)
    /\ UNCHANGED <<portRows, vlanRows, lastGen, curCfg, idlVars, cacheVars,
                   txn, daemon, lastCommitOk, cliVars>>

\* "vlan internal range <min> <max> <policy>"
CliVlanIntRangeAddCmd(s, min, max, word) ==
    /\ RangeCmd(s)
    /\ sysConfig' = CliVlanIntRangeAdd(sysConfig, min, max, word)

\* "no vlan internal range"
CliVlanIntRangeDelCmd(s) ==
    /\ RangeCmd(s)
    /\ sysConfig' = VlanIntRangeDel(sysConfig, 0, 0)

\* "no vlan internal range <min> <max> <policy>"
CliVlanIntRangeDelArgCmd(s, min, max) ==
    /\ RangeCmd(s)
    /\ sysConfig' = CliVlanIntRangeDel(sysConfig, min, max)

\* The switch as VlandCli starts it, with a System row that has no range
\* keys: nothing in this repository writes them before a command does
RangeInit ==
    /\ CliInit
    /\ sysConfig = SysConfig(NONE, NONE, NONE)

RangeNext ==
    \/ CliNext /\ UNCHANGED sysConfig
    \/ \E s \in Sessions :
         \/ \E min, max \in RangeIds, word \in Policies :
               CliVlanIntRangeAddCmd(s, min, max, word)
         \/ CliVlanIntRangeDelCmd(s)
         \/ \E min, max \in RangeIds : CliVlanIntRangeDelArgCmd(s, min, max)

RangeSpec == RangeInit /\ [][RangeNext]_rangeVars /\ Fairness

-----------------------------------------------------------------------------
(* Properties                                                              *)

\* The saved internal VLAN range survives a reload: whatever sequence of
\* range commands (vlan_int_range_add, vlan_int_range_del) left the keys,
\* the line vtysh_vlan_global_context_clientcallback prints, loaded on a
\* new switch with or without the keys, puts in force the range
\* show_vlan_int_range reports now.  The printer leaves out a range it
\* takes for the default, so its test must agree with the default in force.
GlobalConfigReplays ==
    \A fresh \in FreshSystems :
        EffectiveRange(ForEachInOrder(ReplayGlobalLine, fresh,
                                      GlobalContextLines(sysConfig)))
            = EffectiveRange(sysConfig)

=============================================================================
