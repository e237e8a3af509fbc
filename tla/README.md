# Verification of the prpl WiFi manager (pwhm)

pwhm configures the WiFi of a device: its radios, access points (AP, VAP) and
end points (EP, the station role).  The data model of TR-181 is its interface.
Writing a parameter only stores a value and requests an *action bit*; a state
machine of the radio later executes the requested bits through the function
table of a vendor module.  The vendor module in this repository, wifiGen, drives
hostapd, wpa_supplicant and nl80211.

Everything runs in one thread, on an event loop.  A data model write, an RPC, the
expiry of a timer, an event of a control socket and the end of a child process
are each one handler that runs to its end.  One handler is one action of the
models; what interleaves are the handlers, and the hard behaviours are those in
which a handler finds that the world has changed since the previous one of its
kind: a request that arrives while a commit runs, a process that dies between the
stop and the start of one commit, a report of the driver that answers an older
request, an event that is handled inside of a command that waits for its answer.

This directory holds TLA+ models of that behaviour, TLC instances that check them
and proofs that hold for every number of radios, interfaces, action bits, wiphys,
stations and attempts.

| Files | What they are |
| --- | --- |
| `CommitService.tla` | what the commit machines promise together (abstract) |
| `RadFsm.tla`, `MCRadFsm.tla`, `RadFsm_*.cfg` | the commit machines, their lock, the commit RPCs, the automatic commit manager |
| `RadFsm_proofs.tla`, `HostapdGroup_proofs.tla`, `WpaCtrl_proofs.tla`, `Stations_proofs.tla`, `Scan_proofs.tla`, `Endpoint_proofs.tla`, `NlCore_proofs.tla` | proofs about these modules |
| `Iteration.tla` | lemmas for the proofs: what a loop keeps |
| `HostapdGroup.tla`, `MCHostapdGroup.tla`, `HostapdGroup_*.cfg` | one hostapd process shared by several radios, and the commit actions that stop, configure and start it |
| `HapdApply.tla`, `MCHapdApply.tla`, `HapdApply_*.cfg` | how one commit brings edited parameters into hostapd: the action bits, what they schedule and cancel |
| `WpaCtrl.tla`, `MCWpaCtrl.tla`, `WpaCtrl_settles.cfg` | the control sockets of hostapd and the manager that keeps them connected |
| `ChanMgt.tla`, `MCChanMgt.tla`, `ChanMgt_safe.cfg` | channels of one radio: target and current channel, background and zero-wait DFS, the events of hostapd and of the driver |
| `Scan.tla`, `MCScan.tla`, `Scan_settles.cfg` | scans of several radios that may share a wiphy, their calls, counters and diagnostics |
| `Stations.tla`, `MCStations.tla`, `Stations_settles.cfg` | the associated devices of several access points: events, statistics, delayed signals, roaming |
| `NlCore.tla`, `MCNlCore.tla`, `NlCore_settles.cfg` | requests on the netlink socket, nested reading, and the indexes of interfaces |
| `Endpoint.tla`, `MCEndpoint.tla`, `Endpoint_settles.cfg` | an end point: connection, reconnection, pairing, roaming, the life of wpa_supplicant |
| `PROJECT.json` | components, runs, mutants, the source lines of every definition, hazards, theorems |

The MC modules hold the sets and functions that the configurations give to the
constants.

## 1. The system

### Components

Paths are below `src/src/`.  "Correct" is what the component has to guarantee;
the names in brackets are the properties that state it.

| Component | State | Operations | Hard behaviour | Correct when |
| --- | --- | --- | --- | --- |
| **Commit machine** `RadMgt/wld_rad_fsm.c`, `wld_radio.c` | `FSM_State`, `FSM_Retry`, `FSM_ComPend`, bit arrays of the radio and of each interface, the global lock `s_radioFSMLock` | commit, edit, abort, one state per timer expiry, reset of all radios, redo of the dependencies | radios compete for one lock by polling; requests arrive during a commit; actions fail and are retried; a reset restarts machines in the middle of a commit | one radio configures at a time [`LockExclusion`], nobody waits for a machine that will not move [`NothingStrands`, `ComesToRest`], no request is lost [`ImplementsService`, `LeftoverSynced`], actions run in order [`AscendingExecution`] |
| **Automatic commit manager** `Utils/wld_autoCommitMgr.c` | `Enable`, a timer per radio | notify an edit, timer expiry, enable, change of the delays | does not arm while a commit is pending; stops and rearms on reconfiguration | every edit is committed in the end [`RadioEditsCommitted`] |
| **wifiGen actions** `Plugin/wifiGen_fsm.c` | the bits, in the order of the enumeration at line 80 | dependency hooks, one action per bit, selection of the cheapest way to apply a parameter | an action adds bits to the worklist that is running and cancels others | every edit reaches the running hostapd [`NothingLost`], nothing is sent to a process that is about to be restarted [also `NothingLost`], the worklist ends [`Settles`] |
| **Security daemon and group** `nl80211/wld_secDmn.c`, `nl80211/wld_secDmnGrp.c`, `Utils/wld_daemon.c` | process status, restart timer, per member START/STOP/IDLE, startable and needs-restart marks, the action timer of the group | start, stop, restart, crash, delayed restart, delayed group action | members stop each other inside notifications; a crash races the restart timer and a forced start; members wait for one another | records agree with the process, which never runs for nobody [`ProcessCoherent`]; nobody is forgotten [`ServesEnabled`, `ComesToRest`] |
| **wpaCtrl** `nl80211/wld_wpaCtrl{Connection,Interface,Mngr}.c` | sockets of each interface, `isReady`, a connection timer | enable, open, close, event, ready | sockets appear in any order, one of several fails, the manager polls a bounded number of times | what counts as ready is attached, and while nothing is somebody tries [`Attached`]; the radio is told that hostapd is up [`Settles`] |
| **Channel management** `ChannelManagement/wld_chanmgt.c`, `wld_channel.c` | current and target chanspec, reason, whether applied, a deferred `setChanspec` call and its timer | set target, report, cancel, timeout | a report of an earlier switch arrives after a new request | a call is answered with the fate of its own request [`CallTruth`], the data model follows the radio [`IdleSettled`, `UsableCleared`], it settles [`Settles`] |
| **Background and zero-wait DFS** `ChannelManagement/wld_bgdfs.c`, `wld_zwdfs.c` | status and channel of the clearing; a machine INIT, FG_CLEARING, BG_CLEARING, SWITCHING with a timer | start, stop, clear done, radar, switched, timeout, delayed restart | the handlers of the machine call into the function that starts it | the machine waits only with its timer armed and comes back to INIT [`IdleSettled`], a clearing is its own and one the driver runs [`ClearingOwned`] |
| **Scanning** `RadMgt/wld_rad_scan.c`, `nl80211/wld_nl80211_scan.c` | one scan per radio, its reason, deferred calls, counters, the queue of a shared wiphy, the diagnostic over all radios | start, stop, done, run the next of the queue | events are handled inside of the command that starts or stops a scan | calls, counters, diagnostic and queue agree with the scans that run [`InStep`], every scan ends [`Settles`] |
| **Associated devices** `wld_assocdev.c` | stations per AP, active flags, counters, delayed signals | associate, authenticate, disassociate, move between APs, sync from the driver | two sources that are not in step; lists that shrink under the loops over them | counters agree [`CountersMatch`], sessions are announced with their reason [`Announced`], the list follows hostapd and the radio [`ListFollows`], nothing stays [`Settles`] |
| **Station monitoring** `ApMgt/wld_ap_rssiMonitor.c`, `RadMgt/wld_rad_stamon.c` | monitored stations, a timer, subscribers | enable, tick, add, remove | removal inside the tick | the timer runs exactly while somebody needs it |
| **End points** `wld_endpoint.c`, `EpMgt/wld_tinyRoam.c`, `wld_wps.c` | connection status, reconnection timer, roaming target, WPS session | connect, disconnect, profile, pair, cancel, roam, events | pairing, roaming, reconnection and the monitor of the process overlap | a session is timed and shown while it lasts [`PairingTracked`], what should be connected retries and shows the truth [`Steady`], it connects in the end [`Settles`] |
| **Multi link devices** `wld_mld.c`, `Plugin/wifiGen_mld.c` | links per unit, the primary link | register, unregister, elect | a link leaves while it is the primary | one primary per unit with links |
| **nl80211 core** `nl80211/wld_nl80211_core.c` | pending requests by sequence number, listeners | send, answer, timeout, event | an answer after its timeout; handlers inside of synchronous requests; missed events | a request ends once and its caller goes on [`TypeOK`, `Settles`], indexes follow the kernel [`InStep`] |
| **Vendor modules and event queues** `VendorModule/*`, `Utils/wld_eventing.c`, `Utils/wld_extMod.c` | modules, queues of callbacks | load, unload, trigger, register | a callback removed inside a trigger | no callback after its removal |
| **MAC filter, neighbours, steering** `ApMgt/*` | lists; pending BSS transfer requests | add, remove, request, answer, timeout | a late answer | each request answered once |
| **Interface management** `Plugin/wifiGen_radIfMgt.c`, `RadMgt/wld_rad_macCfg.c` | names, indices and MAC addresses | create, delete | interfaces removed by the driver | unique addresses |
| **Event handlers** `Plugin/wifiGen_eventHandlers.c`, `nl80211/wld_wpaCtrl_events.c` | none | translate events to calls | inputs of `ChanMgt`, `Stations`, `Scan`, `Endpoint`, `WpaCtrl`, `NlCore` | - |
| **Configuration of the daemons** `nl80211/wld_hostapd_*`, `nl80211/wld_wpaSupp_*` | files, control commands | write, send | text; which action applies a parameter is in `HapdApply` | - |
| **Data model of APs and SSIDs, parsing, capabilities, utilities** | values | setters, conversions | none: no control | - |

`PROJECT.json` lists all of them under `components` with their state.

### Interactions

```
 data model writes ---- request bits -----> commit machine (one per radio)
        |  notify edit                          |   lock shared by all radios
        v                                       v
 automatic commit manager -- commit -->   wifiGen actions, bit by bit
                                                |  start/stop/restart, parameters
                                                v
   channel management   <-- events --   security daemon group -- process
   associated devices   <-- events --   wpaCtrl sockets          (hostapd,
   end point            <-- events --                         wpa_supplicant)
   scans                <-- nl80211 --  driver
        |  request bits and commit
        +----------------> commit machine
```

* Setters and event handlers write the request array `FSM_BitActionArray`, or,
  inside `FSM_RUN`, the worklist `FSM_AC_BitActionArray`.
* The lock is shared state of all radios, polled from `FSM_WAIT`.
* The group calls its members back (`s_onStopProcCb`, `s_restartHapdCb`), and
  members call the group inside these callbacks.
* Control sockets turn process output into events; events request bits again.
* A command to the driver reads the netlink socket until its acknowledgement, and
  handles what comes before it inside of the command.

The modules share this picture and cut it at different places.  `RadFsm` runs any
bits; `HapdApply` gives the bits their meaning and takes the connection to
hostapd as one bit; `WpaCtrl` opens that bit up; `HostapdGroup` has several radios and
one process; `ChanMgt` and `Endpoint` reduce the machine to the actions that matter
to channels and to wpa_supplicant.  What one module assumes of its neighbour is named in
its section.

## 2. Plan

The order is by importance: first what every configuration change goes through.

| # | Module | Composes | Abstract specification | State |
| --- | --- | --- | --- | --- |
| 1 | `RadFsm` | - | `CommitService` | done, proved |
| 2 | `HostapdGroup` | the machines of 1, reduced to the lock and to the actions on hostapd | - | done, proved |
| 3 | `ChanMgt` | channel management with background and zero-wait DFS, event handlers, the machine of 1 reduced to the actions on hostapd | - | done, model-checked |
| 4 | `HapdApply` | the machine of 1 with the bits of wifiGen, hostapd's memory, its file and what is on the air | - | done, model-checked |
| 5 | `WpaCtrl` | sockets, their manager, the actions that open and close them, the process | - | done, proved |
| 6 | `Stations` | associated devices of several APs, events, the driver's list | - | done, proved |
| 7 | `Scan` | scans of several radios, the netlink socket with its synchronous commands | - | done, proved |
| 8 | `Endpoint` | connection, WPS, roaming, wpa_supplicant, the machine of 1 reduced to its actions | - | done, proved |
| 9 | `NlCore` | requests of the netlink socket, indexes of interfaces | - | done, proved |
| 10 | `BssTransfer`, `Mld`, `VendorModule`, `IfMgt` | - | - | if later work leaves room |

Bounds: two radios (three in `Scan`, section 8) are the least that compete for a lock or share a process, and
two entities per radio the least that differ in progress; two sockets, two access points
and two wiphys the least of which one fails; three stations the least that overflow a
list with room for two; three channels the least for where the radio is, where
it goes and where it was to go.

Theorems: for 1, types, mutual exclusion, the coherence of the worklists, the
order of execution and the refinement.  For 2 and 5 to 9 the types and the safety
properties that the runs check.  All of these are done.  `HapdApply.NothingLost` remains: it needs
an invariant over all bits of a running commit.

## 3. RadFsm: the commit machines

Models `wld_rad_fsm.c` (the machine and its lock), the RPCs and helpers of
`wld_radio.c` that start or reset it, and `wld_autoCommitMgr.c`.

### State

| Variable | Code |
| --- | --- |
| `st`, `busy`, `timer`, `retry`, `comPend` | `FSM_State`, `fsm_radio_st # FSM_IDLE`, `timer # NULL`, `FSM_Retry`, `FSM_ComPend` |
| `pend`, `ac`, `csc`, `syncAll` | `FSM_BitActionArray`, `FSM_AC_BitActionArray`, `FSM_AC_CSC`, `FSM_SyncAll` of a radio, access point or end point |
| `lock`, `waiting` | `s_radioFSMLock` and `s_radioFSMWaiting`, as radios instead of bits |
| `block` | `blockCommit` and its age against `BLOCK_COMMIT_TIMEOUT` |
| `call`, `reply` | the deferred `commit()` call and what its caller was told |
| `acmEnable`, `acmTimer` | the automatic commit manager and its timer per radio |

### Actions

Each state of the machine is an action (`FsmWait` .. `FsmFinish`), one per expiry
of its timer.  `FSM_ERROR` and `FSM_FATAL` are never entered.  `FsmRun` does one cycle: the
lowest bit of the radio, then each interface whose lowest bit is not above it;
the vendor's actions in `MayFail` may fail for any of the entities.  `ResetAll` is
`doAllRadioReset` with its effects on every busy radio, and is part of the
commit that triggers it.  `RedoDependency` is `wld_rad_fsm_redoDependency`,
which the vendor may call in `FSM_SYNC_GLOBAL`.

The waits of `FSM_WAIT` for access points, WPS, delays and the persistent
configuration are a choice, limited by `FSM_Retry` as in the code.  The
dependency hooks are NULL; those of wifiGen are in `HostapdGroup` (the part on
a shared hostapd) and in `HapdApply`.

### Runs

| Run | Instance | Shows |
| --- | --- | --- |
| `rad_fsm_one` | a radio, an AP, an EP; bits 0 and 1, bit 1 may fail; `waitGlobalSync`; edits of the radio and the automatic commits, switched and reconfigured | worklists coherent, ascending execution, the refinement of `CommitService`, and every edit of the radio committed |
| `rad_fsm_two` | two radios with an AP each; `waitGlobalSync` and the reset hook that frees the lock | the lock under resets and redos; machines come to rest, nobody polls for ever, no call stays unanswered |
| `rad_fsm_acm` | a radio and an AP with one bit, automatic commits | counterexample: a change of `DelayTime` drops the automatic commit of an edit of an AP |

Bounds: `MaxWait` (`WLD_FSM_MAX_WAIT`, 15 cycles in the code) 0 or 1, the limit of 50 pending
commits 1 (`MaxComPend`), and `ComPendCap` stops the counter of pending commits at
that limit.  What matters of both counters is zero, positive, above the limit.
The time condition of the reset (30 s) is a choice.  Two bits suffice for an order
between bits and three entities for an order between entities.

### Proofs (`RadFsm_proofs`)

For any radios, interfaces, bits (each nonempty set of bits has a least one),
parameters, failures and limits, from `EntitiesAssumption`, `BitsAssumption` and
`BoundsAssumption`:

* `TypeCorrect`: `Spec => []TypeOK`.
* `MutualExclusion` and `NobodyStranded`: `LockExclusion`, and `NothingStrands` with its
  three parts `LockNotLeaked`, `MachineCoherent` and `WaitingPolls`.  None is inductive alone: that
  the lock is not leaked needs that a
  machine in a locked state is the holder, that a reset puts every busy machine to
  `FSM_WAIT` needs that idle machines are exactly those not busy, and a waiting mark
  is cleared by its own machine only when it does not hold the lock.
  `LockInv` collects these, `CallInv` the deferred calls and the pending commits.
* `WorklistsCoherent` and `NothingSkipped`: `AcSubset` and `LeftoverSynced`.  `BitInv` adds that the
  copy of the requests, from which a redo restores, covers the worklists in
  `FSM_SYNC_GLOBAL`, so that going back loses nothing.
* `ExecutionOrder`: `AscendingExecution`, from `AcSubset` (the radio's lowest
  bit bounds those of its interfaces) and the condition under which the radio
  drops its bit.
* `ServiceImplemented`: if every radio has an interface, `RadFsm` implements
  `CommitService` with `todo[e] = pend[e] \cup ac[e]`: each step is a step of the
  service or a stutter.  The assumption is needed: `FSM_DEPENDENCY` collects the
  bits of the radio from those of its interfaces, so a radio without interfaces
  clears its request bits and executes nothing.

The lemmas follow the actions: what a commit, a reset, a dependency cycle and a
run cycle do to the types, to the lock and to the bits, each stated once.

## 4. HostapdGroup: one process for several radios

Models `wld_daemon.c`, `wld_secDmnGrp.c`, the parts of `wld_secDmn.c` and
`wifiGen_hapd.c` that start, stop and restart, and the actions of `wifiGen_fsm.c`
on hostapd.

### State

`dmn` is one record: `status`, `enabled`, `timer` of the daemon, `alive` (the
child exists: `amxp` knows this, the code asks it), `isRunning`, `action` (the
action timer) of the group, and per member its state, `isStartable`, the pending
restart request `reqRestart` and `needRestart`.  `loaded` records whether hostapd runs
with the file last written for the radio: it exists for the properties and follows
the writing and reading of that file.  The commit machines are those of `RadFsm`
reduced to the lock (`fsm`), the actions on hostapd (`startBit`) and what users
asked (`want`, `enable`).  `site` never changes: it says what users ask for and
what goes wrong in this behaviour, so that one run holds several environments.

Because members and group call one another inside notifications, their functions
are operators on the record (`StopMember`, `StopGroup`, `Notified`, `StartGroup`,
`TryRestart`) and the actions apply them; a handler that may start the process
returns the set of its possible results.

### Abstractions

* A radio stands for itself and its enabled access points: `enable` is
  `wifiGen_hapd_isStartable`.
* Applying a parameter without a restart (reload, enable, beacon update) is one
  action, `FsmConfHostapd`; which way is taken is in `HapdApply`.  Needing a
  restart after all (`s_schedNextAction`) is `FsmNeedRestart`.
* The control socket of a radio may be missing when it stops (`SocketMisses`).
* A start while the previous child still terminates is refused or replaces the
  child: the process library decides.
* Stopping the process is synchronous, as `amxp_proc_ctrl_stop` is used.
* Members do not join or leave the group, and the switch between one process per
  radio and one per vendor is not modelled.  (`wld_secDmn_addToGrp` with a NULL
  group calls `wld_secDmnGrp_delMember` with NULL instead of the old group.)

### Runs

| Run | Instance | Shows |
| --- | --- | --- |
| `hostapd` | two radios and one process at three sites: radios are restarted and reconfigured while it crashes; radios are enabled and disabled while it crashes and cannot be started; radios are enabled, disabled and synchronised | the records agree whatever fails, hostapd never runs for nobody; where the same radios stay enabled and starts succeed, nobody is forgotten, at rest hostapd serves exactly the enabled radios, and everything comes to rest |
| `hostapd_restart` | crashes, without the monitor | counterexample: a crash between the request of a restart and its execution leaves the request set, and every later `START_HOSTAPD` of that radio is skipped |

Two radios suffice for one to wait for the other, for one to be the last that
stops and for one to keep the process running.  `ServesEnabled` and `ComesToRest`
are stated for the `Steady` site only, where the same radios stay enabled, starts
succeed and a process that may crash is monitored: a radio disabled while
hostapd is down is not stopped (`wifiGen_fsm.c:427` asks whether the daemon is
enabled) and stays counted as started, and without the monitor a crash is final;
both are listed as hazards.  The first
site has the crashes, so what they say of crashes and restarts is not empty.

### Proofs (`HostapdGroup_proofs`)

For any radios and sites:

* `TypeCorrect` and `ProcessesCoherent`: `TypeOK` and `ProcessCoherent`.  Handlers call
  one another, so the proof follows the functions of the record instead of the
  actions: `Coherent(d)` says of a record what `ProcessCoherent` says of `dmn`, and
  each function keeps it from a record that a caller may pass to it.  A
  stop notifies all members in the middle of stopping one; what a caller may rely on after
  such a call is collected in `GroupResult`, `MemberResult`, `LeaveResult` and
  `RestartResult`.
* `NobodyForgotten`: `ServesEnabled`.  It speaks of rest and is far from inductive.  At a steady
  site the invariant adds that whoever is started is enabled, and its process lives or the
  action timer is armed (`Waits`), that a request to restart is pending only while
  the process runs or the timer is armed (`Asks`), and that an enabled member that is not
  started has work in its commit machine or a restart to come (`Covered`).
  The restart timer starts the members one by one while each start may stop all;
  `Due` is the invariant of that loop: who comes later is still to be started.

## 5. ChanMgt: the channels of a radio

Models `wld_chanmgt.c`, `wld_bgdfs.c` and `wld_zwdfs.c`, the flags of
`wld_channel.c`, the functions of `wifiGen_rad.c` that apply a channel and read
the state of the radio, the channel and CAC handlers of
`wifiGen_eventHandlers.c`, and the actions of `wifiGen_fsm.c` that disable, enable,
stop and start hostapd.

### State

| Variable | Code |
| --- | --- |
| `rad` | `currentChanspec`, `targetChanspec` (channel, reason, `isApplied` as unknown/true/false), `channel`, `detailedState` and `detailedStatePrev` (`det`, `prev`); `callIdReqChanspec` and its timer (`call`, `timer`), with the answer it got |
| `zw` | the zero-wait machine: `curState`, `tgtChSpec`, `direct`, its timer, and how many restarts wait in the queue of delayed functions |
| `bg` | `bgdfs_config`: status, channel, enable |
| `band` | the channels flagged PASSIVE, those flagged RADAR_DETECTED |
| `fsm` | the commit machine: requested actions, actions of the running commit, whether it runs, whether a commit was asked for |
| `hapd` | hostapd and the driver: connected (`alive`), off, clearing or on the air, its channel and the configured one, a switch or a background clearing under way, channels cleared and with radar, and the events not yet handled |

hostapd reports on its control socket, the driver through nl80211.  `events` and
`nlEvents` are the two queues; pwhm handles their heads in any order.  An event
that hostapd emits while its socket is not connected is lost.

### Actions

The handlers call one another in the middle of their work: applying a target starts
the zero-wait machine, whose handler applies a target, and whoever updates the state
of the radio runs the machine before the update returns.  Every function is
therefore an operator on a record of all the variables (`World`), and an action
applies the operator of its handler.  `Exec` is `s_execFsm` with its table; it sets
`zw.state` when the handler has returned, as the code does, so that a nested run
finds the old state.  It is RECURSIVE, which is why nothing is proved of this module.

* Users: `SetChanspecCall`, `WriteChannel`, `StartBgDfsClear`, `StopBgDfsClear`,
  `SetPreclearEnable`, and `Toggle`, a setting of the radio that needs hostapd
  to be disabled and enabled.
* Events: `HapdEvent`, `NlEvent`, and `Connected`, when the sockets of a new
  hostapd are ready.
* Timers and delayed functions: `CallTimeout`, `ZwTimeout`, `ZwRestart`.
* The commit machine: `FsmCommit` (with the dependency that restarts hostapd for
  a radio that is not up), `FsmStep`, `FsmDone`.
* The outside: `CsaDone`, `CacDone`, `BgCacDone`, `BgCacAborted`, `Radar`, `NopOver`.

### Abstractions

* A channel stands for a channel specification: bandwidths and the automatic choice
  of a channel are not modelled, nor are end points and other bands than 5 GHz.
* What hostapd and the driver do is not in this repository: a switch is refused to a
  channel with radar or not cleared, clearing is refused while a switch is under way
  or for a channel that is available, radar makes hostapd go to `Home`,
  disabling it gives up what is under way.  A start takes the channel of the file.
* The end of a non-occupancy period comes half an hour after the radar:
  `NopOver` waits for rest.
* **Calm.**  With `Races = FALSE`, pwhm has handled what was reported before a user,
  a timer, the commit machine, hostapd or the driver makes its next step: events
  are handled within milliseconds, while clearing takes a minute and a switch a
  number of beacons.  The reports of one cause on the two sockets still race each other.
  With `Races = TRUE` and two requests, the types and the timer of the zero-wait
  machine still hold; `UsableCleared` does not (the report that an ended clearing
  succeeded clears the
  PASSIVE flag of the channel that a newer clearing is busy with, because
  `s_dfsCacDoneCb` and `wld_bgdfs_notifyClearEnded` do not compare channels), and
  `ShownAsIs` and the second half of `ClearingOwned` fail in windows of
  that kind.

### Run

| Run | Instance | Shows |
| --- | --- | --- |
| `chan_safe` | a channel without DFS, two with; all requests, three of them; two radars, one aborted clearing; fair handlers | the properties below in all 720 000 states |

`ClearingOwned`: background clearing has a channel exactly while it runs, the
driver runs that one, and the one that the zero-wait machine waits for is of its own
target.  `UsableCleared`: no DFS channel is usable that the driver
has not cleared, up to a report of radar not yet handled.
`IdleSettled`: away from INIT the zero-wait machine has its timer or a restart to
come, and when nothing is under way hostapd is up and every machine is at rest; its part
`ShownAsIs`: with nothing left to handle, the channel and the clearing shown are those of hostapd.
`CallTruth`: an ok answer means that the
radio is on the channel that was the target.  `TypeOK` includes that
channel 0, used to force the target to be read again, does not outlive a handler.
`Settles`: the radio ends up on the air, and its state, channel and call say so.

Three channels are the least for where the radio is, where it goes and where it
was to go.  Three requests are the least for one to be stopped by a second
while a third is the one that counts.  In `Settles` the detailed status is excepted
once there was radar: radar on the current channel during a background clearing of another
one ends that clearing in the books of `wld_bgdfs.c` only, and the status stays.

## 6. HapdApply: how an edit reaches hostapd

`RadFsm` runs any bitmap.  Here the bits have the meaning that `wifiGen_fsm.c` gives
them, for one radio with a hostapd of its own.  An edited parameter is sent to
hostapd's memory by a dynamic action (`MOD_AP`, `MOD_SSID`, `MOD_SEC`, `MOD_MLD`,
`ENABLE_AP`).  The command answers what has to follow for the change to be on the air:
nothing, a new beacon, a reload of the keys, SIGHUP, a toggle of the interface, a
restart.  The answer schedules further bits, of the radio and of its access
points, and cancels others that it makes superfluous, while the worklist runs.

### State

`req` and `ac` are the request bits and the worklists of the radio and of each
access point, `commit` and `running` the machine.  `hapd` is the process and what wld knows
of it: daemon status, child, restart timer, connection, interface enabled, set up
under way, which access points have a control socket, which interface is the
main one, `needRestart`.  A parameter is one of `Kinds`, which differ in the bit that
sends them and in what hostapd needs to take them (`Need`); `file`,
`mem` and `live` say per access point which of them the configuration file,
hostapd's memory and the running interface do *not* have as configured.  `mode` is
what the radio supports: plain, multiple BSSIDs, or multi link.

### Actions

`Dependency` is `FSM_DEPENDENCY` with the hooks of wifiGen (`s_checkPreRadDependency`,
`s_checkApDependency`, `s_checkRadDependency`); `RunPass` is one expiry of the timer in
`FSM_RUN`: the action of the radio for its lowest bit, then of each access point
that is not ahead of it; `Compend` ends the commit.  `Connect`, `SetupCompleted`,
`Crash`, `Terminate` and `RestartTimer` are the process, `EditParam`,
`EditApEnable`, `EditRadEnable` and `Call` the user.  `Sched` is
`s_schedNextAction`, `Lower` and `Higher` are read off `sApplyActions`.

### Abstractions

* Commands that hostapd refuses are those of `ENABLE_AP` and `SYNC_STATE`; an answer
  that asks for a restart by an error (`RST_ERROR`) is left out, and so are the MAC
  filter list, country code, channel and DFS actions, clearing before the start and
  the first configuration at boot.
* The sockets do not connect between the `STOP` and the `DISABLE` pass of one commit: the
  passes are 10 ms apart and the first attempt comes 500 ms after the fork
  (`FIRST_DELAY_MS`).
* The run leaves out parameters of classes that other kinds already show:
  a passphrase reloads the keys, a rekeying interval needs a toggle, an MLD unit needs a
  restart.  `isolate`, `ssid` and `keymgmt` can be added to `Kinds`; with `okc` and
  `rekey` together TLC finds `NothingLost` violated (section 14, `s_setParam`).
* A parameter that needs a restart is not edited on a disabled access point
  (guard of `EditParam`): see section 14.
* Users do not edit while a commit runs: see section 14 for what happens to such an edit.

### Runs

| Run | Instance | Shows |
| --- | --- | --- |
| `apply` | two access points in the three modes, kinds `psk`, `rekey`, `mld`, three edits or calls, one crash, fair machine and process | at rest every edit is on the air, whatever was cancelled; no parameter is sent to a process that the same commit restarts; the radio comes to rest with hostapd up exactly if it is to be |

Two access points are the least of which one lags, or of which the main one changes. Three
edits are one to bring a bit, one that cancels it, and one after it.

## 7. WpaCtrl: the control sockets of hostapd

Models `wld_wpaCtrlConnection.c`, `wld_wpaCtrlInterface.c` and
`wld_wpaCtrlMngr.c`, with what opens and closes sockets: the actions of
`wifiGen_fsm.c` on hostapd, `wifiGen_hapd.c`, `wld_daemon.c`, the events of hostapd
about itself and the kernel's news of interfaces.  `HapdApply` takes all this as
one bit.

### State

`ifc` is a `wld_wpaCtrlInterface` per access point: whether it is wanted
(`enable`), `isReady`, the event socket (closed; connected but not attached, "half";
attached, "open"; connected to a server that is gone, "dead") and whether
`CTRL-EVENT-TERMINATING` waits in it.  `mgr` is the connection timer and the number of
attempts, `srv` the process: which access points it has, which sockets it serves
and which files exist, what its configuration file asks for.  `dmn` is what
`wld_daemon` knows, `fsm` the machine with the bits on sockets, `rad` whether the detailed state
is up and whether `fSyncOnRadioUp` was called for this process.

### Actions

`Pass` is one pass of the machine, `ReconnectTimer` the timer of the manager (each
wanted interface is tried; when the first is ready or the attempts are
exhausted it stops), `NewInterface` the kernel's news, `ReadTerminating` the event on a socket,
`NoticeEnd` and `RestartTimer` the end of the process and its restart,
`StatusRead` a refresh of the detailed state.  `Listen` is hostapd creating a socket,
`Die` its end, in order or not.  A command may stay unanswered (`mute`).

### Abstractions

* One radio with multiple BSSIDs, so sockets for the main access point and the
  enabled ones; the main one stays enabled; no multi link devices, no group.
* Starting or stopping by `s_syncOnRadUp` is reduced to the commit that does it.
* Stopping the process is synchronous.  A reload may create all BSSs anew.
* The last attempt is not made before a hostapd that runs serves its sockets (the guard of
  `ReconnectTimer`): there are 20 of them, 500 ms apart.

### Run and excuses

| Run | Instance | Shows |
| --- | --- | --- |
| `wpactrl` | two access points, two attempts, two requests, two faults, fair machine and timers | what counts as ready is attached to a socket that hostapd serves, or the news that it is not are on their way; left alone the radio comes to rest, hostapd running if it is to, the radio told, and the sockets of the enabled access points connected |

One more request with one fault less gives 1.5 million states and no
violation; the run stays below five minutes.

The code leaves some interfaces without a connection, and history variables name
exactly those, so that `Settles` says that no other is left.  `lost` holds an
interface that nothing opens again: the restart after a crash refreshes the `enable` of the main
interface only; `SYNC_STATE` comes before hostapd serves the socket and no timer
runs; an access point is enabled while its file already exists or while nothing is connected, so that
`s_doEnableAp` does not set `enable`; a `TERMINATING` that is not the last closes an
interface without a retry; the kernel's news come before the socket and no timer runs.  `upset` is
"gaveup" when the attempts are exhausted, and "missed" when `s_doStopHostapd` returns early
because no socket file exists yet, so that a stop or restart is skipped.
`Broken` interfaces have a socket whose `ATTACH` was not answered, or a dead one.

### Proofs (`WpaCtrl_proofs`)

For any access points, limits and bounds: `TypeCorrect` (`TypeOK`) and `ReadyIsAttached`
(`Attached`).  The invariant adds that a connection that is not known to be dead leads to a
socket that the process serves (`Linked`), and a process part: `wld_daemon` takes the process for up
exactly while it lives or its end has not been noticed, and has no restart to come
then (`Process`).  The handlers close, connect and attach sockets one at a time, and
in between nobody may be trying: `Base` is the invariant without that part (`Trying`); a close
or a fork keeps `Base`, and what follows it in the same handler restores the
rest.  What the loops over the interfaces keep follows from the lemmas of `Iteration`.

## 8. Scan: scans of radios that may share a wiphy

Models `wld_rad_scan.c`, `wld_nl80211_scan.c`, the synchronous part of
`wld_nl80211_core.c` and the scan events of `wifiGen_eventHandlers.c`.

A driver scans for one radio of a wiphy at a time; `sScanPool` queues scans of radios that
share one, and a delayed call starts the next.  A command waits for its
acknowledgement by reading the netlink socket, and every event and answer that
was queued before it is handled inside of the command: `Drain` does that in the
operators that send one, so that the function that sent it goes on with a state that
changed under it.

`scan` and `call` are the reason of the running scan and of the deferred call,
`counted` the statistics not yet closed, `diag` the neighbouring diagnostic,
`pool` and `late` the queue (entries with an address, for the code compares
addresses) and its delayed calls, `drv` the driver, `nl` the socket, `asked` the
requests for results that the kernel has not answered.

A call is `ScanCall` (the deferred RPC), `FullScan`, `GetSpectrumInfo`, `Diagnostic`
with `DiagnosticAsks` for each further radio, or `StopScan`.  `ReadNl` is one
message from the event loop, `DelayedRun` the delayed call, `ScanEnds`,
`ScanAborted` and `Answers` the driver and the kernel.  A command may be refused: no
interface, busy, nothing to stop.

Left out: arguments and results of scans, the external scan manager, a
request for results that cannot be sent, unsupported channels, and a user who
gives a reason that is reserved for `FullScan` or the diagnostic.  A request that expires after 10 s
is a failed answer.

| Run | Instance | Shows |
| --- | --- | --- |
| `scan_settles` | three radios, all on one wiphy or the third alone on its own, two calls, one stop, one fault | calls, counters and the diagnostic agree with the scans, the queues of shared wiphys are coherent, every scan of a radio that is not stuck ends and its call is answered |

`sScanPool` is one queue for all wiphys, so what a radio is told depends on the radios of
other wiphys too: `HasStarted` looks at the radio itself only while the queue is empty.
Three radios are the least of which one is alone on its wiphy and two share another, and
a diagnostic, one call, asks all three, so that two calls give it a rival and queues of
three.  `Layouts` are the ways the radios are spread over the wiphys; the proofs are
for any.

`upset` is history: "queue" when an abort or a failed stop left the queue
wrong, "unheard" when the end of the scan of a radio alone on its wiphy was dropped,
"diag" when the diagnostic answered before its call was deferred.  All are described in
section 14.  `Settles` excuses only the radio that is stuck: on a shared wiphy by "queue",
alone by "unheard", and a diagnostic only while it waits for such a radio.  With three
calls, one stop and no fault the pair and the third give 1.2 million states, and two radios, of
one wiphy or of two, with three calls, one stop and one fault 0.9 million; neither shows a
violation.

### Proofs (`Scan_proofs`)

For any radios, any wiphys they share and any bounds: `TypeCorrect` (`TypeOK` with
`PoolCoherent`: the queue holds a radio and an address once, and of each wiphy only the first
entry is started) and `CallsInStep` (`InStep`).

A command handles what it finds in the socket, so every handler of a message may run inside of
every function that sends one.  `Good` is what holds whenever a message may be handled. The lemma
`Drained` says that what each handler keeps, handling all that is in the socket keeps;
`Quiet` is what a function can rely on when it goes on: handlers end
scans and start none.  `Good` extends the two invariants to the diagnostic while it asks one
radio after the other: then what it has heard of is all but those that run and those still
to ask (`DiagAsking`), each of them once.  `Budget` bounds the counters by what is
left of `MaxCalls`.

## 9. Stations: the associated devices

Models `wld_assocdev.c`, the list handling of `wld_accesspoint.c`, and the station
events of `wifiGen_eventHandlers.c` and `wifiGen_vap.c`.

What pwhm knows of a station comes from two sources that are not in step: events
of hostapd, queued per access point, and the driver's list, read when
somebody asks for statistics.  An entry that becomes inactive is announced by a
Disassociation signal, at once or 300 ms later, so that a deauthentication frame
can give its reason; only the youngest inactive entries stay in the list.

`link` is the truth in hostapd, `queue` the events not read, `list` the entries
(active, authenticated, notification pending, reason, whether a frame gave it,
whether it is of this session), `nr` and `open` the counters that are kept apart from
the list, `enabled` the switches.  `owed`, `cut` and `lost` are history: sessions that
ended without a signal so far, stations dropped or refused without an
event of their own, access points whose events were lost.  `site` says which
stations come to which access point and bounds what happens there.

`HandleEvent` is a connected, disconnected, deauthentication or disassociation event;
`ReadStations` the statistics with the driver's list; `DelayExpires` the delayed
signal; `DeauthAllRadSta` the disabled radio; `Associate`, `Authorize`, `Leave`,
`Disable`, `Enable`, `DropAll` and `LoseEvents` the outside.  Loops over the list that destroy entries
are recursive functions over its indices, so that what they skip is skipped.
Times are left out: a handler takes the ranks of the stations by age, and whether
two associations fall into one second, as arguments.

Abstractions: `KickRoamingStation` is on; WDS interfaces, affiliated stations of multi
link devices, failure counters, statistics that are answered later, the history of
signal strengths, the debugging calls and the deletion of an access point are left
out.

| Run | Instance | Shows |
| --- | --- | --- |
| `stations` | three stations at an access point with room for two; or one station that roams between two access points beside another, with a disabled access point and a loss of events | counters, list and hostapd agree, sessions are announced once and with their reason, disabling a radio leaves no active entry, nothing stays |

`Announced` excepts a station that was dropped before hostapd's event was read:
it is announced a second time.  Room for two (`MaxSta`) and one sticky entry are
the least for a full list, three stations the least to fill it.

### Proofs (`Stations_proofs`)

For any finite set of access points, any stations and any sizes and bounds: `TypeCorrect`
(`TypeOK`), `CountersCorrect` (`CountersMatch`), `AllAnnounced` (`Announced`) and
`HostapdFollowed` (`ListFollows`, an action property).  The assumption
`ConstantsAssumption` says that the access points, and the stations that may come to
each, are finitely many.

Each handler is a function of a record of the state, so each has a lemma: from a record
that is `Good` it makes one that is `Good`, and what it changes besides.  `Good` is what holds
after every call inside of a handler: counters equal the list, an owed signal is pending in
an entry, a pending one is owed or belongs to a station that was cut, and a fresh frame has
given its reason.  `Tidy`, at most `Sticky` idle entries, holds only between handlers: a
new entry breaks it until it becomes active.

`ListFollows` speaks of states in which all events are read.  Before that, `Told` says what
the queue holds of a station: connections and disconnections in turns (`Story`), from what
pwhm believes to what hostapd has, except that pwhm may be ahead, by the driver's list,
or have cut the station.  Every step of pwhm `Follows`: a session that ends without its event
is cut, and one that starts without its event is one of hostapd's, so that the event is
still to come (`StoryUp`).

The loops over the list are runs of a step (`Iteration`): each step stays in `Reach`, the
states that follow.  That `RemoveAll` leaves no entry active, although each removal shortens
the list, holds because it goes downwards and the cleanup moves entries only
towards the beginning (`Ordered`): all places from the index on are inactive (`DoneFrom`).

## 10. Endpoint: an end point and its wpa_supplicant

Models `wld_endpoint.c`, the sessions of `wld_wps.c`, `wld_tinyRoam.c`,
`wld_epProfile.c`, the handlers of end points in wifiGen, and the actions that
restart wpa_supplicant.

A connection is made by restarting wpa_supplicant: the end point requests
`ENABLE_EP`, a commit stops the process, writes its network and starts it, and what
becomes of it is learned from events.  The reconnection timer, tiny roam and the
monitor that restarts a dead process retry on their own; a WPS session has to keep
them off and to end itself.

`cfg` is what users set (end point, radio, a profile), `ep` the connection
status, the reconnection timer, `WPS_PairingInProgress` with its timer and the delayed
push button, `fsm` the machine, `roam` target and attempts, `supp` the process with its link,
network and session, `evq` its events, `reach` the access points in reach, `calls` the
deferred calls.  `upset` is history: the status of a pairing that
ended without resetting it ("stuck"), a pairing without its timer after a cancel
that could not be sent ("cancel"), the process of a disabled end point
("zombie"), a configuration that was not taken over because of a pairing ("ignored").

Users set the end point, the radio and the profile, push the button (with or without
hostapd on the same radio, which delays it), cancel and roam.  `ReadEvent`,
`DelayedPush`, `SessionTimer`, `Reconnect`, `RoamTimer`, `Pass` and `Restart` are pwhm;
`Attach`, `Connect`, `LinkLost`, `WpsEnds`, `Crash`, `SocketMiss` and `Moves` the
outside.

Left out: several end points, the toggle of the radio after eight tries, the wait for
clearing, `UPDATE_WPASUPP`, the change of the MAC address, roaming inside of
wpa_supplicant, `toggleBssOnReconnect`, and WPS of access points.
The radio itself stays up.  A profile has no BSSID.

| Run | Instance | Shows |
| --- | --- | --- |
| `endpoint` | an end point between two access points, hostapd on the same radio, two roaming attempts, three requests, one fault, two events under way | a session has its timer and is shown while it lasts; outside of a restart what should be connected retries, shows a connection only if there is one, and no process outlives the end point; calls, roaming and retries end, and the end point connects |

Two access points are the least to roam between.  Safety with two faults was
checked in 2.7 million states.  `Settles` and the parts of `PairingTracked` and `Steady`
except what `upset` names; section 14 describes these cases.

### Proofs (`Endpoint_proofs`)

For any access points, numbers of attempts and bounds: `TypeCorrect` (`TypeOK`),
`PairingsTracked` (`PairingTracked`) and `ShowsTheTruth` (`Steady`).  `Steady` speaks of states in
which all events are read.  Before that the invariant says what the queue holds: it
ends with the news of what the link became (`LinkNews`), an end point that shows
a connection without link has a `DISCONNECTED` to come (`LossNews`), and one that shows a pairing with
a link a `CONNECTED` (`PairingNews`).  Outside of a restart what should
be connected has its reconnection timer (`Retried`), and the process of an end point that is off
ends, or its stop is still requested (`Off`); a request is taken by the machine
(`Awaited`).  The part that holds however much is still to be done (`Base`) is kept by
every function of the handlers, the rest (`Calm`) by the handlers as a whole.

## 11. NlCore: requests of the netlink socket, and interface indexes

Models the requests of `wld_nl80211_core.c` and what they are most delicate for: the index of
each access point's interface (`wifiGen_eventHandlers.c`, `wifiGen_hapd.c`,
`wld_rad_nl80211.c`, `wifiGen_radIfMgt.c`).

One thread reads one socket.  `s_sendMsgSync` reads it until its request is gone and
handles what comes before; a handler may send a synchronous request of its own (a new
interface of a multi link radio makes the manager ask for the interfaces of the other links).
`stack` is the stack of the calls that wait, the outermost first, and `look` the loop over the access
points below them, so that the kernel goes on between two reads; `sock` is
the socket, `reqs` the set of the pending requests, `kern` the indexes in the kernel, `index`,
`lis` and `radIndex` those of pwhm and of its listeners.

`ReadHandler` is `s_readHandler` with one message, from the event loop or from a wait,
`Select` a wait of 200 ms in vain, `SyncReturns` the end of a wait with the rest of its caller.
`SyncVapStates` with `RefreshIndex` and `RefreshInterface` is the loop that looks at every
access point during a commit, `RestoreMainIface` the creation of the main interface around a
start of hostapd, `VapStatus` anybody who asks.  `Create`, `Delete`, `ScanEnds`, `OtherEvent` and
`TimeOver` are hostapd, the driver and the clock.  A message may be lost (a full socket), a
request may not be sent, and it may expire while its answer is in the socket.

`doubt` is history: the access points of which an event was lost, or an outdated answer
taken, since the last look that saw them as they are.  `strayed` is history too: the removal of
the main interface was not seen, or an outdated answer about it was taken, after which the radio
may keep an index that is gone.  `InStep` excepts the former, and the index of a radio
without interface after the latter.

Left out: `handlerRunning` (no handler of an answer sends), several messages in one
datagram, left-over acknowledgements, counters, vendor commands and end points.  A request of a nested
handler is for one interface of a link, not for several in a row.

| Run | Instance | Shows |
| --- | --- | --- |
| `nlcore` | two access points, the second with links, four interfaces created or deleted, one message that is lost, not sent or answered too late, two calls of pwhm | a call that waits has its request and every request that is waited for its call; indexes and listeners follow the kernel; no command stops pwhm for ever, and as long as anything is read every other request ends |

Four changes are the least for an interface to be deleted and created again while it is looked at and
once more before the answer is taken.  With a fault and a late answer the run has 1.6 million states,
and no violation.

### Proofs (`NlCore_proofs`)

For any list of access points, any links among them and any bounds: `TypeCorrect` (`TypeOK`, with the
coherence of calls and requests) and `IndexesFollow` (`InStep`), both from `Invariant`.
The assumption `NlAssumption` says that the list names each access point once.

`InStep` speaks of the states between the handlers in which all events are read, while the kernel goes
on wherever a handler waits.  The invariant is therefore `Good(W, k)`, about a record `W` of what pwhm has and the
indexes `k` of the kernel, so that each function of a handler has a lemma: from a good
record it makes a good one.  Its parts:

* `Coherent`: calls that wait and requests that are waited for belong together.
* `Shape`: only the outermost call is one of the look, and its answer is about the access point
  that is looked at; what else is in the socket cannot be taken for it.
* `Unique`: an index is that of one interface only, wherever it still occurs: in the kernel, in a message,
  in an answer that was not taken yet, in pwhm.
* `Trusted`: for an access point that is not in doubt, and for the one that an undisturbed look is
  at, the socket ends with what the kernel has (`Agrees`).  When no event of it is to come, pwhm
  knows the index (`Knows`) or has it in the answer (`Learnt`).
* `Gone`: as long as nothing went astray, an index of the radio that is gone will be removed
  by an event that is still in the socket.  It says so of the indexes that are
  on their way to the radio as well.
* `Shared`: the radio has the index of its access point, except at the end of a restoration,
  which is why it is apart from the rest (`Sound`).

The proof changed the property.  `InStep` used to except the index of a radio without interface only
after a lost message; no invariant implied that, and TLC found the reason with five
changes and no fault: the answer of a look is taken after a later removal
of the same interface.  `strayed` says when this can happen.

## 12. Fairness

Timers of the event loop expire, and a handler that polls is run by a periodic
timer, so a machine whose timer is armed makes its step.  Processes told to
end do end, the driver ends what it began, the kernel answers or the request expires, and
hostapd serves what its file asks for.  That is weak fairness of each such action,
and no module assumes anything of users, crashes, faults or radar: liveness is stated for
behaviours in which they cease, by a bound or by the property itself.

* `RadFsm`: `WF_vars` of each machine and timer.  `FsmStep` includes
  `FSM_SYNC_GLOBAL`: that the vendor lets the machine leave is assumed, its wait has
  no limit in the code.  Actions that fail for ever are excluded from
  `ComesToRest` (`MayFail = {}`): the code retries without limit.
* `HostapdGroup`: `WF_moving` of the machines and timers, where `moving` are
  the variables without the constant `site`.  A commit of a radio with requests is fair, which is
  what the automatic commit manager provides.
* The other modules write weak fairness as `[]<>~guard \/ []<><<Action>>_vars`, with the
  guard of the action in place of `ENABLED`.  The two agree because each of these actions
  changes the state whenever its guard holds.
* `NlCore`: pwhm reads what is in its socket and goes on after each wait, and the time of a request whose
  answer is not coming runs out.  That requests nobody waits for end too assumes that
  something is read again and again (`[]<><<OtherEvent>>_vars` in `Settles`).
* `Stations`: that the event loop goes on is enough, whichever access point it
  serves; the step that reads the head of a queue is recognised by what it
  removes.  As long as an entry is active that the driver does not know,
  somebody asks for the statistics; pwhm does so only when it is asked.
* `Endpoint`: a delayed push button is strongly fair in its guard, since commits
  can put it off again and again.  `RetrySlowly`: from some time on the reconnection
  timer does not expire while an attempt is under way, that is, an attempt takes less than
  `reconnectInterval` (15 s by default).  Without it the timer can interrupt every attempt.

## 13. Only model-checked, and not modelled

* All liveness, and `ImplementsService` for radios without interfaces (where it
  does not hold, see section 3).
* `ChanMgt`, because of the recursion of its machine: the prover has no SMT backend in a
  module that declares a RECURSIVE operator.
* `HapdApply`, whose invariant would relate every bit of a running commit to the file of hostapd, its
  memory and what is on the air.
* What an operator of the library computes by folding: the theorems of the
  library about induction take an operator as a parameter, which the provers cannot
  instantiate.  Loops whose effect a proof needs are therefore written as recursive
  functions over `0..n`, and `Iteration` derives from the order of the natural numbers that
  what each round keeps, all keep.
* The components with status `not_modelled` in `PROJECT.json`.  Steering, multi
  link devices, vendor modules and interface management have control and may follow;
  station monitoring has a timer whose handler only reads statistics (in `Stations`);
  message parsing, configuration files, capabilities, data model setters and
  utilities are conversions, stored values and I/O, and are a large part of
  the source lines.
* In `RadFsm`: deletion of a radio object, `Radio.Reset`, toggling of a whole
  radio, the dependency hooks of vendors.  What the other modules leave out is in
  their sections.

## 14. Where the docs and the code differ

Two differences are findings, each shown by a run that finds the property violated:

* `rad_fsm_acm`: `wld_definitions.odl:244` and `wld_autoCommitMgr.c:177` against
  `s_initAutoCommit`.
* `hostapd_restart`: `wifiGen_fsm.c:96` and `:564` against the restart request
  that outlives its process.

Others were met while modelling; the models follow the code.

**Commits** (`RadFsm`)

* `wld_fsm.h:90` says of `doFinish` that the lock is held; it is called after
  the release of `FSM_COMPEND`.
* `wld_radio.odl:178` says that `commit()` answers when the actions are done; on
  a busy radio it answers at once.
* `wld_radio.odl:168` says that after `edit()` actions are committed from
  `commit()` on; a machine that already runs collects what is written after `edit()`.
* `wld_rad_fsm.c:209` comments that the bits of the radio are collected; without
  interfaces they are dropped.

**Channels** (`ChanMgt`)

* `wld.h:1402` says `Unknown:ongoing` of a target chanspec.  A zero-wait switch that is
  stopped tells nobody (`s_handleFsmStopEvent`, `wld_zwdfs.c:147`): the target
  stays unknown with nothing under way, and writing it again is refused as the same
  chanspec (`wld_chanmgt.c:305`).
* `wld_radio.odl:2267` says that `startBgDfsClear` does not need `PreclearEnable`;
  `wld_bgdfs.c:413` refuses it without.
* `wld_radio.odl:2276` says that `stopBgDfsClear` stops any active clearing; one of a
  zero-wait switch starts again, because the machine takes the change of the state
  of the radio for the end of a good clearing (`wld_zwdfs.c:214`), finds
  the target still passive and restarts.
* `wld_channel.c:426` says that PASSIVE is removed from a channel when it is cleared;
  when reports are late `wld_bgdfs_notifyClearEnded` removes it from the channel that a newer
  clearing is busy with (see "Calm").

**Parameters of hostapd** (`HapdApply`)

* `wld_hostapd_ap_api.c:594` says that the security configuration is set when
  `wld_ap_hostapd_setSecParams` answers `SECDMN_ACTION_OK_DONE`.  It sends what differs from the
  configuration file; a passphrase edited between the pass that sends it and the pass of the
  same commit that writes the file is written unsent, the next commit finds it there, and hostapd
  keeps the old key until it is restarted.
* `s_setParam` keeps "most critical action", but a parameter that is not in its table
  (`okc`, `radius_request_cui`, `disable_pmksa_caching`) answers SIGHUP whatever came before
  (`wld_hostapd_ap_api.c:397`): a rekeying interval, which needs a toggle, changed together
  with one of them is written and set and never on the air.
* A parameter that needs a restart, changed on a disabled access point, is
  answered with "done", written to the file, and never brought to a hostapd that is not
  restarted when the access point is enabled.
* Between the fork of hostapd and its sockets `s_doStopHostapd` returns early, and a
  change that asked for the restart is not taken over (`WpaCtrl`, "missed").

**Sockets** (`WpaCtrl`)

* When the attempts are exhausted and only some of the enabled interfaces are ready, `fMngrReadyCb` is
  never called and the radio is never synchronised.
* An `ATTACH` that is not answered leaves the connection open; when the sockets are created anew,
  `wld_wpaCtrlInterface_open` fails for ever on the dead one, and sending over it
  drops a pending `TERMINATING`.
* A failing `scandir` returns before it counts the attempt.
* The detailed status may be read as up before the manager is ready; the
  synchronisation on the news of an interface is then skipped as "same".

**Stations** (`Stations`)

* A station that is dropped before hostapd's event is read is announced twice; a
  session that ends while the delayed signal of an earlier one waits shares its
  signal; an association within the same second makes an old reason count.
* `s_isAnyStationInfoOld` is false for an empty list, so that `wifiGen_get_station_stats`
  never asks the driver about stations that pwhm missed, though `wifiGen_vap.c:272` says
  "Add new devices from driver maclist".
* The upward loop of `wld_vap_update_seen` skips an entry when the cleanup shifts the
  list, and `dbgClearInactiveEntries` too; the latter loses pending signals.
* `wld_ad_getFarStaCount` counts over `ActiveAssociatedDeviceNumberOfEntries` entries of a
  list that also has inactive ones.
* A delayed cleanup does not refresh `AssociatedDeviceNumberOfEntries`; a WDS event sets an entry
  active without counting it.
* A connected event that is read late can kick a station off the access point it
  has moved to since.

**Scans** (`Scan`)

* A radio alone on its wiphy has no entry in `sScanPool`, and `wld_nl80211_hasStartedScan`
  asks whether it runs a scan only while that list is empty.  When radios that share
  another wiphy have entries, the end of its scan is dropped
  (`wld_nl80211_events.c:304`): the scan runs for ever in the data model, its call is not
  answered, and later calls are refused.
* A scan that the driver aborts on a shared wiphy leaves a started entry at the head of
  the queue, and the queued scans of other radios never run.
* A stop that fails drops the entry of a scan that has not run: the radio
  shows a scan and the call is not answered.
* The answer of an earlier scan, read while a new one is started, frees the entry that
  was just added; `isStarted` is then written to freed memory
  (`wld_nl80211_scan.c:279`).
* A refused start reschedules the started head of another radio, whose scan is
  then reported as failed while the driver runs it.
* The end of a deferred call tests a pointer (`success ?`, `wld_rad_scan.c:999`), so that
  a failed scan of an ordinary call is answered as a good one.
* The diagnostic answers "Error" when the scans of the first radios end while it is
  still asking the others.
* A spectrum refresh is counted as two requests (`wld_radio.odl:2816`) and sends two start
  events; `ScanInProgress` (`wld_radio.odl:1751`) stays true for a lost scan.

**Interfaces** (`NlCore`)

* `wifiGen_hapd.c:478` says "Now as ifIndex are up to date": the answer of a look can be consumed in
  a nested read together with a later event of the same interface, and is then taken over
  after it.
* A late answer to an expired request for an interface is handled as the event of a new
  one, because `s_handleEvent` does not look at the sequence number.
* `wld_nl80211_api_priv.h:72` gives requests a limit, which is checked only after something was read
  (`s_readHandler`): a lost answer to a request that nobody waits for never expires on a
  silent socket; `wld_nl80211_clearAllExpiredRequests` has no caller.
* A deletion is applied by name, whatever its index: one that was queued before a look
  resets the newer index, until the event of the newer interface is read.
* If the event of an interface that pwhm created itself (`wifiGen_rad_addVap`) is lost, the index is right and
  there is no listener; a look compares the index only, and does not repair it.
* If both events of an interface are lost, the radio keeps the index of one that is gone
  (`wifiGen_refreshVapsIfIdx` compares that of the access point only).  So it does if the answer
  of a look is taken after the event that removed the interface (`strayed`).

**End points** (`Endpoint`)

* `wld_endpoint.c:1744` says "Ignore this when we're doing a WPS Pairing!": bad
  credentials, a crash and the safety timer leave the status `WPS_PAIRING` after
  the pairing has ended, and from then on reconnection, configuration and push buttons
  are refused.
* A cancel that cannot be sent leaves `WPS_PairingInProgress` without its timer;
  a session that starts while one is in progress does not restart the timer.
* A profile that is set during a pairing is ignored and not taken over later.
* A `DISCONNECTED` without a profile is ignored and the status stays `CONNECTED`.
* The events of a session that was cancelled can end the next one.
* The reconnection timer restarts wpa_supplicant between the credentials and
  the connection, and during a PIN session, which has no event that announces it.
* A crash and a disable within the delay of the restart start wpa_supplicant
  for a disabled end point.
* The BSSID of a profile overrides the target of tiny roam (`wld_endpoint.c:1968`), so roaming
  never succeeds with a pinned profile.
* `endedCb` of `wld_tinyRoam` is reset after it was called, so that a roam started
  in the callback loses its own, and is not called for an end point that is deleted.
* `s_checkPreRadDependency` (`wifiGen_fsm.c:897`) sets `START_WPASUPP` in the
  requests of the radio, where nothing reads it.
