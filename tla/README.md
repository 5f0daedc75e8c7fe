# TLA+ models of ops-vland

This directory holds TLA+ specifications of the VLAN reconciliation daemon
`ops-vland` (`src/src/vland.c`, `src/src/vland_ovsdb_if.c`) and of the store
it mirrors, with the TLC configurations that check them.

## The system

| Part | Source | State | Operations |
|---|---|---|---|
| Store (OVSDB) | external | Port rows (`vlan_mode`, `tag`, `trunks`), VLAN rows (`id`, `admin`, `internal_usage`, `hw_vlan_config`, `oper_state`, `oper_state_reason`), `Open_vSwitch:cur_cfg` | transactions from the CLI and other daemons; the daemon's commit |
| IDL replica | `vland_ovsdb_if.c` 779-818 | replica rows, the change seqno, per-row inserted/modified marks | `ovsdb_idl_run`; `omit_alert` on the three columns vland writes |
| Port cache | `vland_ovsdb_if.c` 154-369 | `all_ports`: name → mode, native vid, trunk-all flag, VLAN bitmap | `construct_vlan_bitmap`, `add_new_port`, `del_old_port`, `update_port_cache` |
| VLAN cache | `vland_ovsdb_if.c` 462-771 | `all_vlans`: name → row pointer `idl_cfg`, vid, admin, member flag, op state and reason; `all_vlans_bitmap` | `parse_vlan_data`, `add_new_vlan`, `del_old_vlan`, `update_vlan_membership`, `update_vlan_cache` |
| Op-state calculator | `vland_ovsdb_if.c` 559-656 | none | `calc_vlan_op_state_n_reason`, `handle_vlan_config` (skip L3 rows, skip unchanged state, update cache, stage the writes) |
| Reconciliation loop | `vland_ovsdb_if.c` 829-918, `vland.c` 192-257 | `idl_seqno`, `system_configured`, the lock | `vland_run`: lock check, `cur_cfg > 0` gate, seqno gate, ports then VLANs, `ovsdb_idl_txn_commit_block` with its status ignored |
| CLI | `src/src/cli/vlan_vty.c` | none of its own; it reads the replica of its session | `vlan N`, `no vlan N`, `shutdown`, interface and LAG `vlan access/trunk allowed/trunk native [tag]` and their `no` forms |

How the parts interact: the CLI (or any other store client) commits a
transaction; the daemon's IDL replica receives it, and the seqno changes. On
its next wake-up `vland_run` rebuilds the port cache, then the VLAN cache.
Each VLAN whose derived state changed has its three output columns staged in
one transaction, and `commit_block` waits for the server to apply it. The
cache has taken the new state before the commit's outcome is known.

Hard behaviours found in the code:
- **Port visiting order.** Ports are visited in shash (hash) order. A VLAN's membership is recomputed once per changed port, from bitmaps of ports not yet processed.
- **Uninitialised port bitmap.** A newly added port has a NULL bitmap until its turn comes.
- **Stale row pointer.** The VLAN cache is keyed by name and keeps the row pointer taken at creation. A deleted row, or a row deleted and re-inserted, leaves it pointing at a dead row.
- **Commit race.** Store clients may change rows while `commit_block` waits.
- **Commit failure.** A commit may fail, and the failure is ignored.
- **CLI handlers.** Each handler reads the replica of its own session and commits later, so two sessions, or a session and the daemon, interleave.

## Modules

- `Vland.tla` models the store, the IDL change tracking and the daemon.
  - **Store variables:** `portRows`, `vlanRows` (each VLAN row carries a generation, so a re-inserted row is a different row), `curCfg`.
  - **IDL change tracking:** `pending` is the seqno-changed flag; `dirtyPorts` and `dirtyVlans` are the rows inserted or modified since the last pass.
  - **Daemon caches:** `all_ports`, `all_vlans`, `all_vlans_bitmap`, `system_configured`. The other daemon variables are `txn`, the transaction awaiting commit, and `daemon`, which is `running` or `crashed`.
  - **Functions:** each C function is an operator over a record that one pass threads through (`DaemonState`).
    - Loops over bitmaps and sets are `ForEach`.
    - The shash loop over ports is `ForEachInOrder` over a permutation that `DaemonRun` chooses.
  - **Actions:**
    - `DaemonRun` is one call of `vland_run` that does work.
      - A pass that dereferences NULL crashes the daemon.
      - A pass that reads a freed row either crashes or proceeds with its write lost. This is undefined behaviour, so both outcomes are possible.
    - `Commit` is `commit_block`. It may fail when `CommitMayFail` is set.
    - `SetPortRow`, `AddVlan`, `DelVlan`, `SetAdmin` and `SetCurCfg` are the generic store clients. They change only what a client may change, and `AddVlan` inserts rows with the columns `vlan N` gives them. Each change costs one unit of a budget of `MaxChanges`.
  - **Initial state:** the store may already hold rows. The first IDL sync reports all of them as inserted.
- `VlandCli.tla` extends `Vland` and replaces the generic store clients by the command handlers of `src/src/cli/vlan_vty.c`.
  - **Variables added:** `vlanCtx`, the VLAN context (`vty->index`, the id string) of each vtysh session; `cliFaults`, the NULL dereferences some vtysh process has died at; `cliTxn`, each session's Port transaction not yet sent.
  - **Actions:** one per handler that changes the store: `VtyshVlan`, `VtyshNoVlan`, `CliVlanAdmin`, `CliNoVlanAdmin`, `IntfVlanAccess` ... `IntfNoVlanTrunkNativeTag` and `LagVlanAccess` ... `LagNoVlanTrunkNativeTag`.
    - A handler reads the store and builds its transaction in one step. An early return aborts the transaction and is a guard.
    - A port handler's write is the set of Port columns it sets with `ovsrec_port_set_*()` (`Written`, `TrunkAllowedColumns`, `NoTrunkAllowedWrite`, `TrunkNativeWrite`, `NoNativeRow`); the columns it does not set keep the values the store has when the transaction arrives (`SetColumns`).
    - `CommitPort` models `cli_do_config_finish()`. With `SplitCommit = FALSE` the write is applied in the handler's step; the one-command violation runs use this. With `SplitCommit = TRUE`, as in the `cli` and `cli_stale` runs, it waits in `cliTxn[s]`, with the row as the handler read it, and `CliFinish(s)` sends it later. No handler calls `ovsdb_idl_txn_verify()`, so the columns are written over whatever the row holds by then.
    - A transaction that changes nothing in the row as read is `TXN_UNCHANGED` and is not sent. This is the behaviour of the OVS IDL library, which is outside this repository.
    - A session with a transaction in flight runs no other command (`CliStep(s)`), because a vtysh process runs one command at a time.
    - `VtyshNoVlan` and the `shutdown` handlers stay one step in both modes: they write a VLAN row they read in the same transaction.
    - A handler that dereferences NULL (`CliCrash`) commits nothing and records the line.
    - `VtyshNoVlan` rewrites every Port that carried the id and deletes the row in one transaction, as the code does.
  - **Initial state:** every port exists with a row the commands produce, or with no VLAN configuration; `DEFAULT_VLAN` exists and is not internal; every id a Port names exists.
  - `check_internal_vlan()` is outside this repository. It is modelled as "a VLAN row with that id is reserved for L3".
- `MCVlandCli.tla` instantiates it with an interface `p1`, a LAG `p2`, VLANs `v1` (id 1, the default) and `v2` (id 2), and two sessions (symmetric). `MCSplitPortRowChoices` is a smaller set of starting Port rows (access, trunk, unset) for the split runs, whose transactions in flight multiply the states; the commands reach the native modes from them.
- `VlandStatus.tla` is the abstract specification: what the daemon promises about the three VLAN columns it owns, with no caches, IDL or transactions. Its state is the store and whether the daemon is alive.
  - `ClientStep` is any client transaction. It never writes the daemon's columns of a row that stays, and a row it inserts shows what `vlan N` gives it (`Inserted`, `vlan_vty.c` 286-291).
  - `DaemonWrite` is a daemon transaction. It runs only once `cur_cfg > 0`, never touches an L3 row, and writes only a state that `calc_vlan_op_state_n_reason` can produce (`OpStates`). The state may be stale.
  - `DaemonDies` lets the daemon die.
  - `Reconcile` makes every non-L3 row show the derived state at once. It is weakly fair: this is the promise the daemon loop keeps.
  - `Vland` takes it as the named instance `Status == INSTANCE VlandStatus WITH configured <- curCfg > 0, alive <- daemon = "running"`. `portRows` and `vlanRows` map to the variables of the same name, because `vlanRows` already holds the daemon's columns. The abstract daemon is configured once the daemon has read a positive `cur_cfg`, and alive while it has not crashed. `Vland` reads its reference definitions (`StoreVids`, `RefMember`, `StoreConsistent`) through the instance, and its `Spec` is checked to imply `Status!StatusSpec` (property `StatusSpec`, run `store`).
- `VlandRunningConfig.tla` extends `VlandCli` with the running-config of the VLAN features (`vtysh_ovsdb_vlan_context.c`).
  - `VlanContextVids` are the VLANs it prints a `vlan <id>` context for: every VLAN that is not internal. With the internal VLANs and `DEFAULT_VLAN` they are the VLANs of the switch the lines are loaded on (`TargetVids`).
  - `IntfVlanLines(r)` are the VLAN lines of one interface, by its `vlan_mode`, with the trunks in ascending order (lines 118-180).
  - `ReplayIntf(r)` loads those lines on a fresh Port (no mode, tag or trunks) through the interface handlers of `VlandCli`. A line whose VLAN is missing or internal changes nothing, and `vlan trunk allowed` on an unset mode crashes, as at line 1345.
  - The VLAN contexts themselves (`vlan <id>`, `no shutdown`) are not replayed: the printer writes `no shutdown` exactly when the admin is up and the replay sets up exactly on that line, so a check would hold by construction; and `DEFAULT_VLAN`, whose admin the CLI cannot change (line 807), has an admin on a new switch that is set outside this repository.
- `VlandIntRange.tla` extends `VlandRunningConfig` with the internal VLAN range (`vlan_vty.c` 113-159, 521-776; `vtysh_ovsdb_vlan_context.c` 189-232). Its state is one more variable, `sysConfig`: the min, max and policy keys of `System:other_config`, each possibly absent (NONE).
  - One action per command, each a vtysh command of a session that costs a unit of the client budget (`RangeCmd`): `CliVlanIntRangeAddCmd` (refused when max < min; the policy word read by its first letter), `CliVlanIntRangeDelCmd` (`no vlan internal range`, which resets to the default 1024-4094 ascending) and `CliVlanIntRangeDelArgCmd` (resets only when the range given equals the configured one, else writes back the keys unchanged; its policy is not compared). `RangeNext` interleaves them with `CliNext`; vland does not register `System:other_config`, so its replica and caches are unchanged.
  - `EffectiveRange` is what `show vlan internal` reports (the default when a key is absent), and `GlobalContextLines` what `vtysh_vlan_global_context_clientcallback` prints: nothing without a policy, the range when it differs from the default in any field. `ReplayGlobalLine` loads the line through `cli_vlan_int_range_add` on a new switch (`FreshSystems`: no keys, or the default written out).
  - The default values come from OpenSwitch headers outside the repository (1024 and 4094). The switch starts with no range keys.
- `MCVlandCliRange.tla` extends `MCVlandCli` and `VlandIntRange`: the `cli` run's instance.
  - The LAG context and the formatting (headers, indentation, `no routing`) are left out.
- `MCVland.tla` instantiates `Vland` with:
  - two ports and two VLANs, with ids 1 and 2;
  - five Port rows covering the five ways `construct_vlan_bitmap` resolves a row (access, explicit trunk, trunk-all, native with trunks, and mode unset with a tag).

## Properties

| Property | Kind | What it says |
|---|---|---|
| `TypeOK` | invariant | types of all variables |
| `MembershipAccurate` | invariant | after every pass, each cached VLAN's `any_member_exists` equals "some cached port has its bit", whatever order ports were visited in |
| `PortCacheMirrorsStore` | invariant | once every change is consumed, the cached ports are the Port rows, `all_vlans_bitmap` is the set of VLAN ids, and each port carries exactly the existing VLANs its row makes it a member of. This is checked against `RefMember`, a reference definition of membership written per VLAN id from the port-mode semantics, not from `construct_vlan_bitmap` |
| `StoreReflectsDerivedState` | invariant | when the daemon is quiescent and its last transaction committed, every non-L3 VLAN row shows the oper state, reason and `hw_vlan_config` derived from its admin and the Port rows, and L3 rows are untouched |
| `StatusSpec` | refinement | `Vland` implements `VlandStatus`. Every step is a client step, a daemon write that stays off L3 rows with a producible state, a crash, or stuttering. Under `Vland`'s fairness, a reconcile that is possible forever eventually happens. |
| `EventuallyConsistent` | liveness | once the clients stop, the store reaches that derived state and stays there, unless the daemon crashed or `cur_cfg` never became positive |
| `NoDaemonCrash` | invariant | the daemon never dereferences NULL or freed memory |
| `CliTypeOK` | invariant | types, with the session contexts and crash sites |
| `SystemPortsReferenceExistingVlans` | invariant | an interface Port names, as tag or trunk, only ids of existing VLANs: the commands check existence, and `no vlan N` rewrites the ports in the deleting transaction |
| `NoVlanCleansInterfaces` | action property | the step of `no vlan N` leaves no interface Port naming N |
| `LagPortsReferenceExistingVlans` | invariant | the same for LAG Ports |
| `NoVtyshNullDereference` | invariant | no CLI handler dereferences NULL: `shutdown` / `no shutdown` find the row of their context (lines 825, 867), and no port handler passes an unset `vlan_mode` to `strcmp()` (1345, 2384) or reads `tag[0]` of a port with no tag (1783) |
| `RunningConfigReplays` | invariant | the running-config lines of every interface, loaded on a fresh Port, rebuild its row without a crash |
| `GlobalConfigReplays` | invariant | whatever range commands ran, the `vlan internal range` line the running-config prints (or its absence), loaded on a new switch with or without the range keys, puts in force the range `show vlan internal` reports |
| `NoTrunkAllByRemoval` | action property | `no vlan trunk allowed` never turns a port that was not a trunk of every VLAN into one |

## Runs

| Run | Cfg | Expect | Shows |
|---|---|---|---|
| cache | `MCVlandCache.cfg` | pass | caches exact, with commit failures and VLAN re-creation allowed (`MaxChanges = 2`) |
| store | `MCVland.cfg` | pass | the store converges at every quiescent point (`MaxChanges = 2`), including client changes made while a commit is in flight, and under fairness reaches the derived state once the clients stop (`EventuallyConsistent`). The same behaviours implement `VlandStatus` (`StatusSpec`): a daemon that wrote an L3 row, or failed to converge, breaks it. |
| crash | `MCVlandCrash.cfg` | violation | NULL dereference in `update_vlan_membership` (line 517) when two ports are added in one batch |
| commit_fail | `MCVlandCommitFail.cfg` | violation | a failed commit is never retried, contrary to spec §4.4 |
| recreate | `MCVlandRecreate.cfg` | violation | a VLAN re-created between polls keeps the stale cached state and is never written |
| cli | `MCVlandCliRange.cfg` | pass | the CLI as the only client, each port handler's commit a separate step (`SplitCommit = TRUE`), two commands in any interleaving of two sessions and the daemon: the daemon's caches stay exact (`MembershipAccurate`, `PortCacheMirrorsStore`) and its write-back right (`StoreReflectsDerivedState`) for every Port row the CLI produces, and `no vlan N` cleans the interfaces in its own transaction (`NoVlanCleansInterfaces`). The range commands run in the same sessions from the same budget, and in every state the internal range the running-config prints replays (`GlobalConfigReplays`) |
| cli_null | `MCVlandCliNull.cfg` | violation | no CLI handler may dereference NULL. TLC's shortest trace is one command: `no vlan trunk native 1` on a port with no tag reads `tag[0]` at line 1783. The same invariant covers `vlan trunk allowed` on a port with no `vlan_mode` (NULL to `strcmp()` at line 1345, 2384 for a LAG), and `shutdown` in a `vlan 2` context whose row another session deleted (line 825). Each of these sites is a `CliCrash` disjunct of the run. |
| cli_reload | `MCVlandCliReload.cfg` | violation | from an access port, `vlan trunk allowed 1` then `no vlan trunk native` leave `vlan_mode = trunk`, tag 1, trunks {1}. The running-config prints only `vlan trunk allowed 1`, and loading that on a fresh port crashes at line 1345. The saved configuration does not give the port back. |
| cli_lag_dangling | `MCVlandCliLag.cfg` | violation | `no vlan 2` leaves a LAG with `tag = 2` |
| cli_uaf | `MCVlandCliUaf.cfg` | violation | `no vlan 2` with a member port: the next pass reads the freed row (`vland_ovsdb_if.c:353`) |
| cli_widen | `MCVlandCliWiden.cfg` | violation | a LAG in native-untagged mode with trunks {2}, after `no vlan trunk allowed 2`, has an empty trunk list, which `construct_vlan_bitmap` resolves as every VLAN (`vlan_vty.c:1519`, `:2384`) |
| cli_stale | `MCVlandCliStale.cfg` | violation | session 1 runs `vlan access 2` and its check passes; session 2 commits `no vlan 2`; session 1's transaction then tags the port with the deleted VLAN (`vlan_vty.c:1001`) |

Why the bounds are enough:
- The initial states already include every combination of the five Port rows and the VLAN rows, with admin up or down and L3 or not.
- A budget of 2 client changes (passes and commits of the daemon cost nothing) reaches every interleaving of two client changes with the passes and commits around them. That covers:
  - a change racing a commit;
  - a delete and a port change in one batch;
  - a failure followed by an unrelated change.
- Two ports are the fewest that make visiting order matter.
- Two VLANs are the fewest that make a port's old and new bitmaps differ.
- For the CLI:
  - one interface and one LAG cover both families of handlers;
  - two sessions are needed for a context to go stale;
  - two commands (three for `cli_null`, so that a `vlan 2` context, a `no vlan 2` in the other session and a `shutdown` fit in one trace) reach every two-command interleaving with the daemon's pass and commit;
  - with `SplitCommit`, a transaction's send costs nothing, so two commands are enough for one session's commit to land after another session's whole command (`cli_stale`).
  - the range commands take ids from {1024, 4094}, the bounds of the default range, which gives ranges equal to the default in all, one or none of min and max, and a refused range; two commands (from the shared budget) reach a configured range deleted by its own arguments and an add followed by `no vlan internal range`.

Fairness:
- Weak fairness on `DaemonRun` is justified because the main loop (`vland.c` 236-246) calls `vland_run` on every wake-up and `vland_wait` wakes on every IDL change.
- Weak fairness on `Commit` is justified because `commit_block` returns once the server replies.
- `Fairness` is `WF_vars(DaemonRun) /\ WF_vars(Commit)`.
  - `WF_vars(Commit)` is stated literally.
  - `WF_vars(DaemonRun)` is written out as `<>[]DaemonRunEnabled => []<><<pending /\ ~pending'>>_vars`. Here `DaemonRunEnabled` is the step's guard, and the falling `pending` flag is the one change only `DaemonRun` makes. For behaviours of `Next` this is the same formula. The literal form is not used because TLC evaluates `ENABLED DaemonRun` by running a whole pass on every edge; that took over 15 minutes even with `MaxChanges = 1`.
- The store clients get no fairness: they may stop at any time.
- `VlandStatus` assumes weak fairness of `Reconcile`. `Vland` implements it because `DaemonRun` and `Commit` together make every row show its derived state, while the daemon runs and is configured.

## Not modelled

- **The `ops_vland` lock.** One instance is modelled, holding the lock. A second instance would need its own caches, which doubles the daemon state, and a violation run of its own. The hazard it would show was traced by hand:
  1. Instance A caches `down` for a VLAN.
  2. A loses the lock (`vland_ovsdb_if.c` 885-893). B takes it, sees a port join the VLAN and writes `up`.
  3. The port leaves, and B dies before it commits `down`.
  4. A regains the lock and computes `down`. It compares that with its own cache only (line 627), never with the row, so it skips the write.
  5. The row shows `up` with no member.

  Losing the lock after holding it needs the IDL session to reconnect, which is library behaviour outside this repository. Contention at start-up is safe: the caches are empty, and `op_state` "unknown" forces a write. The daemon writes with `omit_alert`, so one instance never sees the other's writes.
- **Duplicate VLAN ids.** `VidOf` is injective. `vtysh_vlan` enters an existing row with the id, and it names a new row `VLAN<id>`, a unique key, so the CLI cannot create two rows with one id. `spec.md` calls the result of another client doing so undefined. `vlan_lookup_by_vid` (line 468) would then serve only one of the two rows.
- **The wire protocol of the IDL.**
- **Output-only code:** logging, the debug dump, the show commands other than the range `show vlan internal` reports, and the running-config of LAGs. The interface, VLAN-context and global running-config are modelled for what they give back when loaded (`VlandRunningConfig`).
- **`interface vlan` and the interface-vlan Port** that `vlan N` tags: `create_vlan_interface` is outside this repository.
- **A stale replica at read time.** A handler reads the store as it is at its step. A replica that lags the store is the same as a read that happened earlier, which `SplitCommit` already covers.
- **Lost updates between two sessions.** Two sessions editing one port's trunks can overwrite each other in the `cli` run. No property states which update should win, because the code promises neither.
- **Other keys of `System:other_config`.** The range commands write back a clone of the whole map without `ovsdb_idl_txn_verify()` (line 144), so a concurrent writer of another key could lose its update. Those keys are written outside this repository, and the model keeps only the three range keys, which every range transaction writes whole. The range is used when the system allocates internal VLANs, also outside this repository; the CLI's `IsInternal` check takes the internal VLANs as a fixed set.
- **Lost updates of `Bridge:vlans`.** `vtysh_vlan` and `no vlan` rewrite the whole `vlans` array of the bridge without `ovsdb_idl_txn_verify()`. Two sessions creating VLANs at once could drop one from the bridge. The model has no Bridge table: vland never reads it.
- **Process start-up and exit.**
- **The daemon after a crash.** A crashed daemon stays down: nothing in this repository restarts it.

## Plan

1. Done: `Vland` with the daemon core, and the six runs above.
2. Done: `VlandCli` with every store-changing VLAN command, and the six CLI runs above.
   Also done: the split of each port handler into its read and its commit (`SplitCommit`, runs `cli` and `cli_stale`), and the action property `NoTrunkAllByRemoval` (run `cli_widen`).
3. Done: the abstract specification `VlandStatus`, with `Vland` checked to implement it (`StatusSpec` in run `store`).
4. Done: the interface running-config and its reload (`VlandRunningConfig`, run `cli_reload`). The `shutdown` and NULL-read violations are merged into one run, `cli_null`.
5. Done: the internal VLAN range commands as actions (`VlandIntRange`, `GlobalConfigReplays`, run `cli`).
6. Two daemon instances with the `ops_vland` lock, as a violation run for the stale-cache handover under Not modelled. Duplicate VLAN ids are left out for the reason given there.
