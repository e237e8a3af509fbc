--------------------------- MODULE HostapdGroup ---------------------------
(***************************************************************************)
(* One hostapd process serves the radios of a vendor: the daemon           *)
(* (src/Utils/wld_daemon.c), the group of the radios that share it         *)
(* (src/nl80211/wld_secDmnGrp.c), a radio's view of it                     *)
(* (src/nl80211/wld_secDmn.c, src/Plugin/wifiGen_hapd.c) and the actions   *)
(* of the commit machines that stop, configure and start it                *)
(* (src/Plugin/wifiGen_fsm.c).                                             *)
(*                                                                         *)
(* A radio is a member of the group.  The process is started when every    *)
(* radio that can be started has asked for it, stopped when the last one   *)
(* has left, and restarted on request once no member has a restart of its  *)
(* own scheduled.  The commit machines are those of RadFsm, reduced to     *)
(* the lock and to the actions on hostapd.                                 *)
(***************************************************************************)
EXTENDS Naturals, FiniteSets, Sequences, SequencesExt

CONSTANTS
  Members,      \* the radios of the vendor, in the order of the group
  Sites,        \* what may be met (site)
  Monitored,    \* is the daemon monitor enabled
  SocketMisses  \* can the control socket of a radio be missing

Radios == Range(Members)

ASSUME ConstantsAssumption ==
  /\ Members \in Seq(Radios) /\ Members # <<>>
  /\ Sites \subseteq [asks : SUBSET {"enable", "start", "sync", "dyn"},
                       crashes : BOOLEAN, startFails : BOOLEAN]
  /\ {Monitored, SocketMisses} \subseteq BOOLEAN

VARIABLES
  site,         \* what users ask of the radios; does the process die of itself, and can it
                \* fail to be started
  enable,       \* the radio and one of its access points are enabled
  want,         \* what is requested of the machine of each radio
  fsm,          \* where the machine of each radio is
  startBit,     \* START_HOSTAPD is among the bits of the active commit
  dmn,          \* the process and its group
  loaded        \* hostapd runs with the file last written for the radio

fsmVars == <<want, fsm, startBit>>
moving == <<enable, fsmVars, dmn, loaded>>
vars == <<site, moving>>

\* "all": FSM_SyncAll; "enable": ENABLE_RAD; "start": STOP_ and START_HOSTAPD;
\* "sync": MOD_COUNTRYCODE or SYNC_RAD on a radio with MultiLink access points;
\* "dyn": a parameter that hostapd may take while it runs.
Requests == {"all", "enable", "start", "sync", "dyn"}

\* STOP, CONF, START and UPDATE are the bits of FSM_RUN that matter here.
Phases == {"IDLE", "WAIT", "DEPENDENCY", "STOP", "CONF", "START", "UPDATE"}

Locked(r) == fsm[r] \notin {"IDLE", "WAIT"}

Daemons ==
  [status : {"DOWN", "UP", "ERROR", "RESTARTING"},
   enabled : BOOLEAN,
   alive : BOOLEAN,                  \* the child process exists
   timer : BOOLEAN,                  \* restart_timer
   isRunning : BOOLEAN,              \* isRunning of the group
   action : BOOLEAN,                 \* actionTimer
   state : [Radios -> {"IDLE", "START", "STOP"}],
   isStartable : [Radios -> BOOLEAN],
   reqRestart : [Radios -> BOOLEAN], \* reqRtmActions
   needRestart : [Radios -> BOOLEAN]]

TypeOK ==
  /\ site \in Sites
  /\ enable \in [Radios -> BOOLEAN]
  /\ want \in [Radios -> SUBSET Requests]
  /\ fsm \in [Radios -> Phases]
  /\ startBit \in [Radios -> BOOLEAN]
  /\ dmn \in Daemons
  /\ loaded \in [Radios -> BOOLEAN]

None == [r \in Radios |-> FALSE]

Init ==
  /\ site \in Sites
  /\ enable \in [Radios -> BOOLEAN]
  /\ want = [r \in Radios |-> {"all"}]
  /\ fsm = [r \in Radios |-> "IDLE"]
  /\ startBit = None
  /\ dmn = [status |-> "DOWN", enabled |-> FALSE, alive |-> FALSE, timer |-> FALSE,
            isRunning |-> FALSE, action |-> FALSE,
            state |-> [r \in Radios |-> "IDLE"], isStartable |-> None,
            reqRestart |-> None, needRestart |-> None]
  /\ loaded = None

---------------------------------------------------------------------------
(***************************************************************************)
(* The daemon and the group, as operators on the record d.  Those that may *)
(* start the process return the set of possible results.                   *)
(***************************************************************************)

Running(d) == d.status = "UP"
InState(d, s) == {r \in Radios : d.state[r] = s}
Startable(d) == {r \in Radios : d.isStartable[r]}

\* Mutant of StartDaemon: the restart timer is not stopped.
StartDaemonKeepsTimer(d) ==
  {[d EXCEPT !.status = "UP", !.enabled = TRUE, !.alive = TRUE, !.isRunning = TRUE]}

\* wld_dmn_startDeamon.  The library refuses or replaces a child that is
\* still terminating.
StartDaemon(d) ==
  {[d EXCEPT !.status = "UP", !.enabled = TRUE, !.alive = TRUE, !.timer = FALSE,
             !.isRunning = TRUE]}
  \cup IF site.startFails \/ d.alive THEN {d} ELSE {}

\* Mutants of Notified: a state of the daemon instead of one of the member, and
\* members that stay started.
NotifiedDown(d) ==
  [d EXCEPT !.isRunning = FALSE, !.state = [r \in Radios |-> "DOWN"],
            !.isStartable = None, !.needRestart = None]

NotifiedKeepsState(d) ==
  [d EXCEPT !.isRunning = FALSE,
            !.state = [r \in Radios |-> IF d.state[r] = "STOP" THEN "IDLE" ELSE d.state[r]],
            !.needRestart = None]

\* s_onStopProcCb of the group, for a process that is not running any more:
\* the members forget that they were started.
Notified(d) ==
  [d EXCEPT !.isRunning = FALSE,
            !.state = [r \in Radios |-> "IDLE"],
            !.isStartable = [r \in Radios |-> d.isStartable[r] /\ d.state[r] # "START"],
            !.needRestart = None]

\* s_stopGrp on a running process: the members that are still started stop
\* too, then wld_dmn_stopDeamon.
StopGroup(d) ==
  [Notified(d) EXCEPT
    !.reqRestart = [r \in Radios |-> d.reqRestart[r] /\ d.state[r] # "START"],
    !.action = FALSE,
    !.status = "DOWN", !.enabled = FALSE, !.alive = FALSE, !.timer = FALSE]

\* Mutant of StopMember: the process is left running for nobody.
StopMemberAlone(d, r) ==
  LET e == [d EXCEPT !.isStartable[r] = FALSE, !.needRestart[r] = FALSE] IN
  IF ~Running(d) THEN [e EXCEPT !.state[r] = "IDLE"]
  ELSE [e EXCEPT !.state[r] = "STOP", !.reqRestart[r] = FALSE]

\* wld_secDmn_stop of a member that is started
StopMember(d, r) ==
  LET e == [d EXCEPT !.isStartable[r] = FALSE, !.needRestart[r] = FALSE]
      f == [e EXCEPT !.state[r] = "STOP", !.reqRestart[r] = FALSE]
  IN IF ~Running(d) THEN [e EXCEPT !.state[r] = "IDLE"]
     ELSE IF InState(f, "START") # {} THEN f
     ELSE StopGroup(f)

\* s_refreshStartableMembers
Refresh(d) == [d EXCEPT !.isStartable = enable]

\* Mutant of StartGroup: nothing looks at the members that wait again.
StartGroupNotDelayed(d) ==
  LET e == Refresh(d)
      startable == Cardinality(Startable(e))
      started == Cardinality(InState(e, "START"))
  IN IF Running(e) THEN {IF startable = 0 THEN StopGroup(e) ELSE e}
     ELSE IF started > 0 /\ started >= startable THEN StartDaemon(e)
     ELSE {e}

\* s_startGrp
StartGroup(d) ==
  LET e == Refresh(d)
      startable == Cardinality(Startable(e))
      started == Cardinality(InState(e, "START"))
  IN IF Running(e) THEN {IF startable = 0 THEN StopGroup(e) ELSE e}
     ELSE IF startable = 0 \/ started = 0 THEN {e}
     ELSE IF started >= startable THEN StartDaemon(e)
     ELSE {[e EXCEPT !.action = TRUE]}

\* wld_secDmn_start
StartMember(d, r) ==
  LET e == [Refresh(d) EXCEPT !.isStartable[r] = TRUE, !.state[r] = "START",
                              !.needRestart[r] = FALSE]
  IN IF Running(d) \/ (d.state[r] = "START" /\ (d.action \/ d.enabled)) THEN {e}
     ELSE StartGroup(e)

---------------------------------------------------------------------------
(***************************************************************************)
(* The restart action of the group.                                        *)
(***************************************************************************)

\* s_hasRtmSchedState: START_HOSTAPD is still to come for the radio.
Scheduled(r) ==
  \/ fsm[r] # "IDLE" /\ "all" \in want[r]
  \/ fsm[r] = "WAIT" /\ "start" \in want[r]
  \/ Locked(r) /\ startBit[r]

\* s_tryGrpRtmAction and wld_dmn_restartDeamon
TryRestart(d) ==
  LET started == InState(d, "START")
      pending == {r \in started : Running(d) /\ Scheduled(r)}
  IN IF \A r \in Radios : ~d.reqRestart[r] THEN d
     ELSE IF ~d.isRunning \/ pending # {} THEN [d EXCEPT !.action = TRUE]
     ELSE IF d.alive /\ \E r \in started : d.reqRestart[r]
          THEN [d EXCEPT !.reqRestart = None, !.status = "RESTARTING",
                         !.enabled = TRUE, !.timer = FALSE]
          ELSE [d EXCEPT !.reqRestart = None]

\* wld_secDmn_restart: an error unless the process runs.
RestartMember(d, r) ==
  IF ~Running(d) THEN d
  ELSE LET e == [d EXCEPT !.needRestart[r] = FALSE] IN
       IF d.state[r] # "START" THEN e
       ELSE TryRestart([e EXCEPT !.reqRestart[r] = TRUE])

\* A process that was started has read the file of every radio.
BecomesDmn(d) ==
  /\ dmn' = d
  /\ loaded' = IF Running(d) /\ ~Running(dmn) THEN [r \in Radios |-> TRUE] ELSE loaded

---------------------------------------------------------------------------
(***************************************************************************)
(* The users.                                                              *)
(***************************************************************************)

Ask(r, what) ==
  /\ what \in site.asks
  /\ want' = [want EXCEPT ![r] = @ \cup {what}]

\* A radio, or its last access point, is enabled or disabled.
SetEnable(r) ==
  /\ Ask(r, "enable")
  /\ enable' = [enable EXCEPT ![r] = ~@]
  /\ UNCHANGED <<fsm, startBit, dmn, loaded>>

\* Another parameter is written.
SetParam(r) ==
  /\ Ask(r, "sync") \/ Ask(r, "dyn")
  /\ UNCHANGED <<enable, fsm, startBit, dmn, loaded>>

\* The machine of the radio is started.
Commit(r) ==
  /\ fsm[r] = "IDLE" /\ want[r] # {}
  /\ fsm' = [fsm EXCEPT ![r] = "WAIT"]
  /\ UNCHANGED <<enable, want, startBit, dmn, loaded>>

\* wifiGen_rad_restart requests and commits.
Restart(r) ==
  /\ Ask(r, "start")
  /\ fsm' = IF fsm[r] = "IDLE" THEN [fsm EXCEPT ![r] = "WAIT"] ELSE fsm
  /\ UNCHANGED <<enable, startBit, dmn, loaded>>

---------------------------------------------------------------------------
(***************************************************************************)
(* The commit machine of a radio.                                          *)
(***************************************************************************)

\* The machine gets the lock.
FsmLock(r) ==
  /\ fsm[r] = "WAIT" /\ \A s \in Radios : ~Locked(s)
  /\ fsm' = [fsm EXCEPT ![r] = "DEPENDENCY"]
  /\ UNCHANGED <<enable, want, startBit, dmn, loaded>>

\* s_checkPreRadDependency and s_checkRadDependency
FsmDependency(r) ==
  LET starts == want[r] \cap {"all", "enable", "start"} # {}
                \/ (dmn.state[r] = "START") # enable[r]
  IN /\ fsm[r] = "DEPENDENCY"
     /\ startBit' = [startBit EXCEPT ![r] = starts \/ "sync" \in want[r]]
     /\ dmn' = [dmn EXCEPT !.needRestart[r] = @ \/ ("sync" \in want[r] /\ ~starts)]
     /\ fsm' = [fsm EXCEPT ![r] = IF startBit'[r] THEN "STOP" ELSE "CONF"]
     /\ want' = [want EXCEPT ![r] = {}]
     /\ UNCHANGED <<enable, loaded>>

\* s_doStopHostapd
FsmStopHostapd(r) ==
  /\ fsm[r] = "STOP"
  /\ fsm' = [fsm EXCEPT ![r] = "CONF"]
  /\ \/ /\ ~dmn.enabled \/ SocketMisses
        /\ UNCHANGED <<dmn, loaded>>
     \/ /\ dmn.enabled /\ dmn.needRestart[r]
        /\ \E d \in IF dmn.state[r] = "START" THEN {dmn} ELSE StartMember(dmn, r) :
             BecomesDmn(RestartMember(d, r))
     \/ /\ dmn.enabled /\ ~dmn.needRestart[r]
        /\ BecomesDmn(IF dmn.state[r] = "START" THEN StopMember(dmn, r) ELSE dmn)
  /\ UNCHANGED <<enable, want, startBit>>

\* s_schedNextAction: hostapd takes a parameter only when it is restarted.
FsmNeedRestart(r) ==
  /\ fsm[r] = "CONF" /\ ~startBit[r]
  /\ Running(dmn) /\ dmn.state[r] = "START"
  /\ startBit' = [startBit EXCEPT ![r] = TRUE]
  /\ dmn' = [dmn EXCEPT !.needRestart[r] = TRUE]
  /\ fsm' = [fsm EXCEPT ![r] = "STOP"]
  /\ UNCHANGED <<enable, want, loaded>>

\* s_doConfHostapd: the file is written; without START_HOSTAPD the running
\* process takes the parameters at once.
FsmConfHostapd(r) ==
  /\ fsm[r] = "CONF"
  /\ fsm' = [fsm EXCEPT ![r] = IF startBit[r] THEN "START" ELSE "IDLE"]
  /\ loaded' = [loaded EXCEPT ![r] = @ /\ ~startBit[r]]
  /\ UNCHANGED <<enable, want, startBit, dmn>>

\* s_doStartHostapd
FsmStartHostapd(r) ==
  LET d == [dmn EXCEPT !.needRestart[r] = FALSE]
      starts == enable[r] /\ ~d.reqRestart[r] /\ d.state[r] # "START"
      updates == starts /\ Running(d) /\ Len(Members) > 1
  IN /\ fsm[r] = "START"
     /\ \E e \in IF starts THEN StartMember(d, r) ELSE {d} : BecomesDmn(e)
     /\ fsm' = [fsm EXCEPT ![r] = IF updates THEN "UPDATE" ELSE "IDLE"]
     /\ startBit' = [startBit EXCEPT ![r] = FALSE]
     /\ UNCHANGED <<enable, want>>

\* s_doUpdateHostapd
FsmUpdateHostapd(r) ==
  /\ fsm[r] = "UPDATE"
  /\ fsm' = [fsm EXCEPT ![r] = "IDLE"]
  /\ loaded' = [loaded EXCEPT ![r] = @ \/ (Running(dmn) /\ dmn.state[r] = "START")]
  /\ UNCHANGED <<enable, want, startBit, dmn>>

FsmStep(r) ==
  \/ FsmLock(r) \/ FsmDependency(r) \/ FsmStopHostapd(r) \/ FsmNeedRestart(r)
  \/ FsmConfHostapd(r) \/ FsmStartHostapd(r) \/ FsmUpdateHostapd(r)

---------------------------------------------------------------------------
(***************************************************************************)
(* The process and the timers.                                             *)
(***************************************************************************)

\* wld_dmn_stopCb of a process that dies of itself
Crash ==
  /\ site.crashes /\ Running(dmn)
  /\ dmn' = [Notified(dmn) EXCEPT !.status = "ERROR", !.alive = FALSE, !.timer = Monitored]
  /\ UNCHANGED <<enable, fsmVars, loaded>>

\* wld_dmn_stopCb of a process that was told to end
Terminate ==
  /\ dmn.status = "RESTARTING" /\ dmn.alive
  /\ dmn' = [Notified(dmn) EXCEPT !.alive = FALSE, !.timer = TRUE]
  /\ UNCHANGED <<enable, fsmVars, loaded>>

\* s_restartHapdCb of one member, on each of the results so far
RestartCb(ds, r) ==
  UNION {LET e == [d EXCEPT !.needRestart[r] = FALSE] IN
         IF enable[r] /\ ~Running(d) THEN StartMember(e, r) ELSE {e} : d \in ds}

\* restart_timer expires: the members are called in order.
Restarted(d) ==
  LET after[k \in 0..Len(Members)] ==
        IF k = 0 THEN {d} ELSE RestartCb(after[k - 1], Members[k])
  IN  after[Len(Members)]

RestartTimer ==
  /\ dmn.timer
  /\ \E d \in Restarted([dmn EXCEPT !.timer = FALSE]) : BecomesDmn(d)
  /\ UNCHANGED <<enable, fsmVars>>

\* Mutant of ActionTimer: the timer is periodic.
ActionTimerPeriodic ==
  /\ dmn.action
  /\ \E d \in StartGroup(dmn) :
       BecomesDmn(IF Running(dmn) /\ Running(d) THEN TryRestart(d) ELSE d)
  /\ UNCHANGED <<enable, fsmVars>>

\* s_processGrpAction
ActionTimer ==
  /\ dmn.action
  /\ \E d \in StartGroup([dmn EXCEPT !.action = FALSE]) :
       BecomesDmn(IF Running(dmn) /\ Running(d) THEN TryRestart(d) ELSE d)
  /\ UNCHANGED <<enable, fsmVars>>

User == \E r \in Radios : SetEnable(r) \/ SetParam(r) \/ Restart(r)

Machine == \E r \in Radios : Commit(r) \/ FsmStep(r)

Timers == Terminate \/ RestartTimer \/ ActionTimer

Next == (User \/ Machine \/ Timers \/ Crash) /\ UNCHANGED site

Spec == Init /\ [][Next]_vars

FairSpec ==
  /\ Spec
  /\ \A r \in Radios : WF_moving(Commit(r) \/ FsmStep(r))
  /\ WF_moving(Terminate) /\ WF_moving(RestartTimer) /\ WF_moving(ActionTimer)

---------------------------------------------------------------------------
(***************************************************************************)
(* Properties.                                                             *)
(***************************************************************************)

\* The records of the process agree: the group calls itself running exactly
\* while a child exists, the restart timer runs only without one, a member
\* that leaves waits in STOP only for a child to end, and hostapd never runs
\* for nobody (wld_secDmnGrp.c stops it with its last member).
ProcessCoherent ==
  /\ dmn.isRunning = dmn.alive
  /\ Running(dmn) => dmn.alive
  /\ dmn.alive => dmn.enabled /\ dmn.status \in {"UP", "RESTARTING"}
  /\ dmn.timer => ~dmn.alive /\ dmn.status \in {"ERROR", "RESTARTING"}
  /\ InState(dmn, "STOP") # {} => dmn.alive
  /\ Running(dmn) => InState(dmn, "START") # {}

\* The machines have no work and the group waits for nothing.
Rest ==
  /\ \A r \in Radios : fsm[r] = "IDLE" /\ want[r] = {}
  /\ ~dmn.action /\ ~dmn.timer
  /\ dmn.alive => Running(dmn)

\* A member that has asked to start and still can is not forgotten: the process
\* runs or ends, or a timer is armed that looks at the members again.  And at
\* rest hostapd serves the enabled radios and no other, also after crashes and
\* restarts: where it can be started, is monitored if it may crash, and the same
\* radios stay enabled.
Steady == /\ ~site.startFails /\ (site.crashes => Monitored)
          /\ site.asks \cap {"enable", "sync"} = {}
ServesEnabled == Steady =>
  /\ \A r \in Radios : dmn.state[r] = "START" /\ enable[r] =>
       dmn.alive \/ dmn.action \/ dmn.timer
  /\ Rest => \A r \in Radios :
       /\ enable[r] <=> dmn.state[r] = "START"
       /\ enable[r] => Running(dmn)

\* Once nobody asks for anything and hostapd stops crashing, everything comes to
\* rest: the members do not wait for each other for ever.
ComesToRest == Steady /\ <>[][~User /\ ~Crash]_moving => <>[]Rest

\* START_HOSTAPD "leads to restarting hostapd" (wifiGen_fsm.c:96): when the
\* action is done for an enabled radio, hostapd runs with its file, reloads it
\* next, or is about to be started.
StartLeadsToRestart ==
  [][\A r \in Radios : FsmStartHostapd(r) /\ enable[r] =>
       \/ Running(dmn') /\ loaded'[r]
       \/ fsm'[r] = "UPDATE"
       \/ dmn'.action \/ dmn'.timer \/ dmn'.status = "RESTARTING"]_vars
===========================================================================
