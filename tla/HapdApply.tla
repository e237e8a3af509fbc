----------------------------- MODULE HapdApply -----------------------------
(***************************************************************************)
(* How one commit of a radio brings its configuration into hostapd:        *)
(* src/src/Plugin/wifiGen_fsm.c with the commands of wld_hostapd_ap_api.c. *)
(*                                                                         *)
(* RadFsm runs any bitmap; here the bits have their meaning.  A parameter  *)
(* that changed is first sent to hostapd's memory by a dynamic action,     *)
(* which answers what has to follow for it to be taken (a beacon, a reload *)
(* of the keys, SIGHUP, a toggle of the interface, a restart); the answer  *)
(* schedules further bits, of the radio and of its access points, and may  *)
(* cancel others it makes superfluous.  The configuration file is written  *)
(* by a bit in the middle.                                                 *)
(*                                                                         *)
(* Data: a parameter is one of Kinds, and file, mem and live say per access *)
(* point which parameters the configuration file, hostapd's memory and the *)
(* running interface do NOT have as configured ("ena": whether the access  *)
(* point is enabled).  One hostapd per radio; see HostapdGroup for groups. *)
(***************************************************************************)
EXTENDS Naturals, Sequences, FiniteSetsExt, SequencesExt

CONSTANTS
  Order,        \* the access points of the radio, in the order of its list
  Kinds,        \* the parameters that are edited
  Modes,        \* "plain", "mbssid" or "mlo"
  MaxEdits,     \* bound on the edits and calls of the user
  MaxCrashes    \* bound on the crashes of hostapd

Aps == Range(Order)

\* wld_secDmn_action_rc_ne
DONE == 0
UPDATE_BEACON_RC == 1
RELOAD_SECKEY_RC == 2
SIGHUP_RC == 3
TOGGLE_RC == 4
RESTART_RC == 5

\* sHapdCfgParamsActionMap, one parameter of each class; "okc" is not in it.
Need(k) == CASE k = "isolate" -> UPDATE_BEACON_RC
             [] k \in {"ssid", "psk"} -> RELOAD_SECKEY_RC
             [] k \in {"keymgmt", "okc"} -> SIGHUP_RC
             [] k = "rekey" -> TOGGLE_RC
             [] k = "mld" -> RESTART_RC
             [] k = "ena" -> UPDATE_BEACON_RC

\* the bits of wifiGen_fsmStates_e that this module gives a meaning, in order
STOP == 0
DISABLE == 2
DISABLE_RAD == 3
SYNC_RAD == 4
MOD_MLD == 7
MOD_SEC == 8
MOD_AP == 9
MOD_SSID == 10
MOD_HOSTAPD == 13
RELOAD_SECKEY == 15
UPDATE_BEACON == 17
ENABLE == 19
ENABLE_RAD == 20
ENABLE_AP == 21
UPDATE == 24
START == 25
SYNC_STATE == 27

Bits == {STOP, DISABLE, DISABLE_RAD, SYNC_RAD, MOD_MLD, MOD_SEC, MOD_AP, MOD_SSID,
         MOD_HOSTAPD, RELOAD_SECKEY, UPDATE_BEACON, ENABLE, ENABLE_RAD, ENABLE_AP,
         UPDATE, START, SYNC_STATE}
DynConf == {MOD_SSID, ENABLE_AP, MOD_SEC, MOD_AP}
Apply == {START, UPDATE, ENABLE, RELOAD_SECKEY, UPDATE_BEACON}

\* the action that sends a parameter to hostapd
BitOf(k) == CASE k = "isolate" -> MOD_AP
              [] k = "ssid" -> MOD_SSID
              [] k \in {"psk", "keymgmt", "okc", "rekey"} -> MOD_SEC
              [] k = "mld" -> MOD_MLD
              [] k = "ena" -> ENABLE_AP

ASSUME ConstantsAssumption ==
  /\ Order \in Seq(Aps) /\ Order # <<>>
  /\ Kinds \subseteq {"isolate", "ssid", "psk", "keymgmt", "okc", "rekey", "mld"}
  /\ Modes \subseteq {"plain", "mbssid", "mlo"}
  /\ MaxEdits \in Nat /\ MaxCrashes \in Nat

VARIABLES
  mode,         \* what the radio supports: it does not change
  radEnable,    \* Radio.Enable
  apEnable,     \* AccessPoint.Enable
  req,          \* the requested bits: [rad, ap]
  ac,           \* the bits of the commit that runs: [rad, ap]
  commit,       \* a commit was asked for and has not been started
  running,      \* the machine is in FSM_RUN
  hapd,         \* the process and what wld knows of it
  file, mem, live,
  edits, crashes

dmVars == <<mode, radEnable, apEnable>>
cfgVars == <<file, mem, live>>
vars == <<dmVars, req, ac, commit, running, hapd, cfgVars, edits, crashes>>

NoBits == [rad |-> {}, ap |-> [a \in Aps |-> {}]]
NoProcess == [status |-> "DOWN", proc |-> "none", timer |-> FALSE, conn |-> FALSE,
              iface |-> FALSE, setup |-> FALSE, ctrl |-> {}, main |-> Order[1],
              needRestart |-> FALSE]

\* The type of the state, and what is known of the process: a timer to start it
\* only while there is none, a connection only to one that runs.
TypeOK ==
  /\ mode \in Modes /\ radEnable \in BOOLEAN /\ apEnable \in [Aps -> BOOLEAN]
  /\ {req, ac} \subseteq [rad : SUBSET Bits, ap : [Aps -> SUBSET Bits]]
  /\ commit \in BOOLEAN /\ running \in BOOLEAN
  /\ hapd \in [status : {"DOWN", "UP", "RESTARTING"}, proc : {"none", "up"},
               timer : BOOLEAN, conn : BOOLEAN, iface : BOOLEAN, setup : BOOLEAN,
               ctrl : SUBSET Aps, main : Aps, needRestart : BOOLEAN]
  /\ \A c \in {file, mem, live} : c \in [Aps -> SUBSET (Kinds \cup {"ena"})]
  /\ hapd.timer => hapd.proc = "none"
  /\ hapd.conn => hapd.proc = "up" /\ hapd.status = "UP"
  /\ edits \in 0..MaxEdits /\ crashes \in 0..MaxCrashes

----------------------------------------------------------------------------
(***************************************************************************)
(* The bits: which are made superfluous by which.                          *)
(***************************************************************************)

\* sApplyActions, the most global first; UPDATE and ENABLE do not stand for
\* each other (s_getLowestEqvAction).
Rank(b) == CASE b = START -> 0 [] b = UPDATE -> 1 [] b = ENABLE -> 2
             [] b = RELOAD_SECKEY -> 3 [] b = UPDATE_BEACON -> 4
RankEqv(b) == IF b = UPDATE THEN Rank(ENABLE) ELSE Rank(b)

Lower(b) == {x \in Apply : Rank(x) > RankEqv(b)}
Higher(b) == {x \in Apply : Rank(x) < Rank(b) /\ RankEqv(x) # Rank(b)}

Clear(bits, drop) == [rad |-> bits.rad \ drop, ap |-> [a \in Aps |-> bits.ap[a] \ drop]]
AddRad(bits, new) == [bits EXCEPT !.rad = @ \cup new]
AddAp(bits, a, new) == [bits EXCEPT !.ap[a] = @ \cup new]

\* s_setApplyAction on the bits of the radio
SetApply(bits, b) ==
  IF bits.rad \cap Higher(b) # {} THEN bits
  ELSE [bits EXCEPT !.rad = (@ \cup {b}) \ Lower(b)]

\* s_schedNextAction; c is the commit: its bits and the record of the process.
SchedRestart(c) ==
  [bits |-> AddRad(Clear(c.bits, Lower(START) \cup DynConf), {START, STOP}),
   hapd |-> [c.hapd EXCEPT !.needRestart = TRUE]]
SchedToggle(c) ==
  IF mode = "mlo" THEN SchedRestart(c)
  ELSE IF c.bits.rad \cap Higher(ENABLE) # {} THEN c
  ELSE [c EXCEPT !.bits = AddRad(SetApply(@, ENABLE), {DISABLE})]
SchedOnAp(c, a, b, more) ==
  IF c.bits.rad \cap Higher(RELOAD_SECKEY) # {} \/ c.bits.ap[a] \cap Higher(b) # {} THEN c
  ELSE [c EXCEPT !.bits = AddRad(AddAp([@ EXCEPT !.ap[a] = @ \ Lower(b)],
                                       a, {b} \cup more), {b} \cup more)]
Sched(c, rc, a) ==
  CASE rc = RESTART_RC -> SchedRestart(c)
    [] rc = TOGGLE_RC -> SchedToggle(c)
    [] rc = SIGHUP_RC -> [c EXCEPT !.bits = SetApply(@, UPDATE)]
    [] rc = RELOAD_SECKEY_RC -> SchedOnAp(c, a, RELOAD_SECKEY, {UPDATE_BEACON})
    [] rc = UPDATE_BEACON_RC -> SchedOnAp(c, a, UPDATE_BEACON, {})
    [] OTHER -> c

----------------------------------------------------------------------------
(***************************************************************************)
(* hapd, and the access points: s is the state a handler works on, a       *)
(* record of the variables that a handler changes.                         *)
(***************************************************************************)

State == [bits |-> ac, req |-> req, hapd |-> hapd, file |-> file, mem |-> mem, live |-> live]

Becomes(s) ==
  /\ ac' = s.bits /\ req' = s.req /\ hapd' = s.hapd
  /\ file' = s.file /\ mem' = s.mem /\ live' = s.live

Startable == radEnable /\ \E a \in Aps : apEnable[a]          \* wifiGen_hapd_isStartable
Started(h) == h.status \in {"UP", "RESTARTING"}                \* wld_dmn_isEnabled
Running(h) == h.status = "UP"
Alive(h) == Running(h) /\ h.conn
SocketsExist(h) == h.proc = "up"
Ready(h, a) == h.conn /\ a \in h.ctrl
Restarting(h) == h.timer /\ h.status = "RESTARTING"            \* wld_secDmn_isRestarting

FirstIn(S) == IF S = {} THEN Order[1] ELSE Order[Min({i \in DOMAIN Order : Order[i] \in S})]
EnabledAps == {a \in Aps : apEnable[a]}
\* wld_rad_hostapd_getCfgMainVap
CfgMain(h) ==
  CASE mode = "plain" -> Order[1]
    [] mode = "mbssid" -> FirstIn(EnabledAps)
    [] mode = "mlo" -> FirstIn(IF h.conn /\ h.ctrl # {} THEN h.ctrl ELSE EnabledAps)
\* wld_hostapd_ap_needWpaCtrlIface
NeedCtrl(h, a) == (apEnable[a] /\ radEnable) \/ a = CfgMain(h) \/ mode = "plain"

\* hostapd reads the whole file: at its start and on SIGHUP.  The control
\* sockets are those that the file asked for when it was written.
FileEnables(s, a) == apEnable[a] # ("ena" \in s.file[a])
ReadFile(s) ==
  LET on == {a \in Aps : FileEnables(s, a)}
      main == IF mode = "plain" THEN Order[1] ELSE FirstIn(on) IN
  [s EXCEPT !.mem = s.file,
            !.hapd.main = main,
            !.hapd.ctrl = IF mode = "plain" THEN Aps ELSE on \cup {main}]
Start(s) ==
  LET r == ReadFile(s) IN
  [r EXCEPT !.live = s.file, !.hapd.proc = "up", !.hapd.iface = TRUE]
\* What the running interface takes of the memory, for classes up to rc.
Takes(s, a, rc) == [s EXCEPT !.live[a] = {k \in @ : k \in s.mem[a] \/ Need(k) > rc}]
TakesAll(s, rc) ==
  [s EXCEPT !.live = [a \in Aps |-> {k \in s.live[a] : k \in s.mem[a] \/ Need(k) > rc}]]

\* An access point that hostapd broadcasts
BssUp(s, a) == s.hapd.proc = "up" /\ s.hapd.iface /\ (apEnable[a] # ("ena" \in s.live[a]))

\* SIGHUP: an access point that was not broadcast starts with what was read.
Sighup(s) ==
  LET r == ReadFile(s)
      rc(a) == IF BssUp(s, a) THEN SIGHUP_RC ELSE TOGGLE_RC IN
  [r EXCEPT !.live = [a \in Aps |-> {k \in @[a] : k \in r.mem[a] \/ Need(k) > rc(a)}]]

\* wifiGen_hapd_writeConfig
WriteFile(s) == [s EXCEPT !.file = [a \in Aps |-> {}]]

\* Mutant of Fork: the timer of an earlier crash goes on.
ForkKeepsTimer(s) ==
  Start([WriteFile(s) EXCEPT !.hapd = [@ EXCEPT !.status = "UP", !.conn = FALSE]])

\* wifiGen_hapd_startDaemon: the file is written, then the process forked.
Fork(s) ==
  Start([WriteFile(s) EXCEPT !.hapd = [@ EXCEPT !.status = "UP", !.timer = FALSE,
                                                !.conn = FALSE, !.setup = FALSE]])
\* wifiGen_hapd_stopDaemon
Kill(s) == [s EXCEPT !.hapd = [NoProcess EXCEPT !.main = s.hapd.main,
                                                !.needRestart = FALSE]]

----------------------------------------------------------------------------
(***************************************************************************)
(* The actions of the radio (actions[], .doRadFsmAction).                  *)
(***************************************************************************)

\* s_doStopHostapd.  A restart only tells the process to end: the daemon
\* starts it again once it has.
StopHostapd(s) ==
  IF ~(SocketsExist(s.hapd) /\ Started(s.hapd)) THEN s
  ELSE IF s.hapd.needRestart /\ Running(s.hapd)
       THEN [s EXCEPT !.hapd = [@ EXCEPT !.status = "RESTARTING", !.conn = FALSE,
                                         !.needRestart = FALSE]]
  ELSE IF s.hapd.needRestart THEN s
  ELSE Kill(s)

\* Mutant of StartHostapd: without looking whether it is to run.
StartHostapdAlways(s) ==
  LET h == [s.hapd EXCEPT !.needRestart = FALSE] IN
  IF Restarting(h) \/ Started(h) THEN [s EXCEPT !.hapd = h]
  ELSE Fork([s EXCEPT !.hapd = h])

\* s_doStartHostapd
StartHostapd(s) ==
  LET h == [s.hapd EXCEPT !.needRestart = FALSE] IN
  IF ~Startable \/ Restarting(h) \/ Started(h) THEN [s EXCEPT !.hapd = h]
  ELSE Fork([s EXCEPT !.hapd = h])

\* s_doDisableHostapd, s_doEnableHostapd: both need a connected socket.
DisableHostapd(s) ==
  IF Alive(s.hapd) THEN [s EXCEPT !.hapd.iface = FALSE, !.hapd.setup = FALSE] ELSE s
EnableHostapd(s) ==
  IF ~Alive(s.hapd) THEN s
  ELSE IF s.hapd.iface THEN s
  ELSE TakesAll([s EXCEPT !.hapd.iface = TRUE, !.hapd.setup = TRUE], TOGGLE_RC)

\* s_doUpdateHostapd: restoreMainIface writes the file again, then SIGHUP.
UpdateHostapd(s) ==
  IF Running(s.hapd) /\ s.hapd.proc = "up" THEN Sighup(WriteFile(s)) ELSE s

\* Enabling a stopped access point starts it with what the memory has; a
\* running one sends its new beacon.
Broadcast(s, a) ==
  LET e == [s EXCEPT !.mem[a] = @ \ {"ena"}] IN
  Takes(e, a, IF BssUp(s, a) THEN UPDATE_BEACON_RC ELSE TOGGLE_RC)

\* wifiGen_hapd_syncVapStates; fails: the access points whose UPDATE_BEACON fails
SyncVapStates(s, fails) ==
  LET due == {a \in Aps : Ready(s.hapd, a) /\ apEnable[a] /\ s.hapd.iface /\ ~BssUp(s, a)}
      OneOf(t, a) == IF a \in due
                     THEN IF a \in fails THEN [t EXCEPT !.mem[a] = @ \ {"ena"}]
                          ELSE Broadcast(t, a)
                     ELSE t IN
  LET after[i \in 0..Len(Order)] == IF i = 0 THEN s ELSE OneOf(after[i - 1], Order[i])
  IN after[Len(Order)]

\* s_doSyncState: the driver cannot clear the unusable channel by itself.
SyncState(s, fails, unusable) ==
  IF Alive(s.hapd) /\ ~s.hapd.iface /\ unusable
  THEN LET c == SchedToggle([bits |-> s.bits, hapd |-> s.hapd]) IN
       [s EXCEPT !.bits = c.bits, !.hapd = c.hapd]
  ELSE SyncVapStates(s, fails)

RadAction(s, b, fails, unusable) ==
  CASE b = STOP -> StopHostapd(s)
    [] b = DISABLE -> DisableHostapd(s)
    [] b = MOD_HOSTAPD -> WriteFile(s)
    [] b = ENABLE -> EnableHostapd(s)
    [] b = UPDATE -> UpdateHostapd(s)
    [] b = START -> StartHostapd(s)
    [] b = SYNC_STATE -> SyncState(s, fails, unusable)
    [] OTHER -> s

----------------------------------------------------------------------------
(***************************************************************************)
(* The actions of the access points (actions[], .doVapFsmAction).          *)
(***************************************************************************)

Scheduled(s, rc, a) ==
  LET c == Sched([bits |-> s.bits, hapd |-> s.hapd], rc, a) IN
  [s EXCEPT !.bits = c.bits, !.hapd = c.hapd]

\* Mutant of ParamsRc: the least critical class is answered.
ParamsRcLeast(s, a, changed) ==
  IF changed = {} \/ (~BssUp(s, a) /\ ~apEnable[a]) THEN DONE
  ELSE Min({Need(k) : k \in changed})

\* s_setChangedMultiParams: what differs from the file goes to the memory and
\* the most critical class is answered, but a parameter that is not in the
\* table answers SIGHUP whatever came before it; nothing is to be done for an
\* access point that is down and stays so.
ParamsRc(s, a, changed) ==
  IF ~BssUp(s, a) /\ ~apEnable[a] THEN DONE
  ELSE IF "okc" \in changed THEN SIGHUP_RC
  ELSE Max({DONE} \cup {Need(k) : k \in changed})

SetParams(s, a, b) ==
  LET changed == {k \in s.file[a] \cap Kinds : BitOf(k) = b} IN
  Scheduled([s EXCEPT !.mem[a] = @ \ changed], ParamsRc(s, a, changed), a)

\* s_doSetApMld, s_doSetApSec, s_doSyncAp, s_doSetSsid
SetMld(s, a) ==
  IF Running(s.hapd) /\ SocketsExist(s.hapd) /\ mode = "mlo" THEN SetParams(s, a, MOD_MLD) ELSE s
SetDyn(s, a, b) == IF Ready(s.hapd, a) THEN SetParams(s, a, b) ELSE s
\* The name is sent whether it changed or not.
SetSsid(s, a) ==
  IF ~Ready(s.hapd, a) THEN s
  ELSE Scheduled([s EXCEPT !.mem[a] = @ \ {"ssid"}],
                 IF ~BssUp(s, a) /\ ~apEnable[a] THEN DONE ELSE RELOAD_SECKEY_RC, a)

\* s_doReloadApSecKey, s_doUpdateBeacon
ReloadSecKey(s, a) ==
  IF Ready(s.hapd, a)
  THEN [s EXCEPT !.live[a] = {k \in @ : k \in s.mem[a] \/ Need(k) # RELOAD_SECKEY_RC}] ELSE s
UpdateBeacon(s, a) ==
  IF Ready(s.hapd, a) /\ apEnable[a] /\ s.hapd.iface THEN Takes(s, a, UPDATE_BEACON_RC) ELSE s

\* s_doEnableAp: a control socket or the main interface that changes needs more
\* than a beacon.  fails: STOP_AP or UPDATE_BEACON is refused.
EnableAp(s, a, fails) ==
  LET h == s.hapd
      mainChanged == h.main # CfgMain(h) /\ a \in {h.main, CfgMain(h)}
      ctrlChanged == (a \in h.ctrl) # NeedCtrl(h, a)
      saved == [s EXCEPT !.mem[a] = @ \ {"ena"}]
      done == IF apEnable[a] THEN Broadcast(s, a) ELSE Takes(saved, a, UPDATE_BEACON_RC)
      refused == a \in fails \/ ~h.iface
      acSync(t) == [t EXCEPT !.bits.rad = @ \cup {SYNC_STATE}] IN
  IF ~radEnable \/ ~Alive(h) THEN s
  ELSE IF mainChanged \/ ctrlChanged
       THEN IF mode = "mlo" THEN Scheduled(s, RESTART_RC, a)
            ELSE LET u == Scheduled(s, SIGHUP_RC, a)
                     t == IF mainChanged THEN Scheduled(u, TOGGLE_RC, a) ELSE u IN
                 [t EXCEPT !.req.rad = @ \cup {SYNC_STATE}]
  ELSE IF ~Ready(h, a) THEN s
  ELSE IF refused THEN Scheduled(acSync(saved), TOGGLE_RC, a)
  ELSE acSync(done)

VapAction(s, a, b, fails) ==
  CASE b = MOD_MLD -> SetMld(s, a)
    [] b \in {MOD_SEC, MOD_AP} -> SetDyn(s, a, b)
    [] b = MOD_SSID -> SetSsid(s, a)
    [] b = RELOAD_SECKEY -> ReloadSecKey(s, a)
    [] b = UPDATE_BEACON -> UpdateBeacon(s, a)
    [] b = ENABLE_AP -> EnableAp(s, a, fails)
    [] OTHER -> s

----------------------------------------------------------------------------
(***************************************************************************)
(* One commit: FSM_DEPENDENCY, then a pass of FSM_RUN per timer.           *)
(***************************************************************************)

\* s_checkPreRadDependency
PreBits ==
  LET up == hapd.proc = "up" /\ hapd.iface IN
  (IF Startable # up THEN {ENABLE_RAD} ELSE {})
    \cup (IF Started(hapd) # Startable THEN {START} ELSE {})

\* s_syncVap and s_checkApDependency: what an access point has to do, and
\* what the radio collects of all of them.
Collected(a) == req.ap[a] \cup req.rad
AsksHapd(a) == Collected(a) \cap (DynConf \cup {MOD_MLD}) # {}
SyncVaps ==
  LET asked == \E a \in Aps : AsksHapd(a) IN
  [rad |-> PreBits \cup UNION {Collected(a) : a \in Aps}
             \cup (IF asked THEN {MOD_HOSTAPD} ELSE {})
             \cup (IF asked /\ ~Alive(hapd) THEN {START} ELSE {}),
   ap |-> [a \in Aps |-> Collected(a)]]

\* s_checkRadDependency: the most global bit stands for the lower ones, and a
\* restart for everything that was to be sent.
WithRestart(bits) ==
  LET r == bits.rad \cup (IF ENABLE_RAD \in bits.rad THEN {DISABLE_RAD, START} ELSE {}) IN
  [bits EXCEPT !.rad = r \cup (IF START \in r THEN {STOP} ELSE {})]
WithSync(c) ==
  IF SYNC_RAD \notin c.bits.rad THEN c
  ELSE LET t == IF START \in c.bits.rad THEN c ELSE SchedToggle(c) IN
       [t EXCEPT !.bits = AddRad(@, {DISABLE_RAD, MOD_HOSTAPD})]
MostGlobal(S) == CHOOSE b \in S : \A x \in S : Rank(b) <= Rank(x)
\* Mutant of Pruned: a restart leaves the parameters to be sent one by one.
PrunedKeepsDyn(bits) ==
  LET applies == bits.rad \cap Apply IN
  Clear(AddRad(bits, {MOD_HOSTAPD}), IF applies = {} THEN {} ELSE Lower(MostGlobal(applies)))

Pruned(bits) ==
  LET applies == bits.rad \cap Apply
      dyn == bits.rad \cap DynConf
      drop == IF applies = {} THEN {}
              ELSE Lower(MostGlobal(applies)) \cup (IF START \in applies THEN DynConf ELSE {}) IN
  Clear(AddRad(bits, IF applies \cup dyn # {} THEN {MOD_HOSTAPD} ELSE {}), drop)

Dependency ==
  /\ ~running /\ commit
  /\ LET c == WithSync([bits |-> WithRestart(SyncVaps), hapd |-> hapd]) IN
     /\ ac' = Pruned(c.bits)
     /\ hapd' = c.hapd
  /\ req' = NoBits /\ running' = TRUE /\ commit' = FALSE
  /\ UNCHANGED <<dmVars, cfgVars, edits, crashes>>

\* One pass: the action of the radio for its lowest bit, then of each access
\* point that is not ahead of it.  The bit is done when no access point lags.
Lowest(S) == IF S = {} THEN SYNC_STATE + 1 ELSE Min(S)
PassAp(p, a, b, fails) ==
  LET v == Lowest(p.st.bits.ap[a])
      done == [VapAction(p.st, a, v, fails) EXCEPT !.bits.ap[a] = @ \ {v}] IN
  IF v > b THEN p
  ELSE [st |-> done, delay |-> p.delay \/ Lowest(done.bits.ap[a]) <= b]
\* Mutant of Pass: the bit of the radio is done whoever lags.
PassNoDelay(b, fails, unusable) ==
  LET start == [st |-> RadAction(State, b, fails, unusable), delay |-> FALSE]
      after[i \in 0..Len(Order)] ==
        IF i = 0 THEN start ELSE PassAp(after[i - 1], Order[i], b, fails)
      end == after[Len(Order)] IN
  [end.st EXCEPT !.bits.rad = @ \ {b}]

Pass(b, fails, unusable) ==
  LET start == [st |-> RadAction(State, b, fails, unusable), delay |-> FALSE]
      after[i \in 0..Len(Order)] ==
        IF i = 0 THEN start ELSE PassAp(after[i - 1], Order[i], b, fails)
      end == after[Len(Order)] IN
  IF end.delay THEN end.st ELSE [end.st EXCEPT !.bits.rad = @ \ {b}]

\* Which commands hostapd refuses in this pass, and whether it is on a channel
\* that it may not use: both are asked only by these two bits.
Refusals(b) == IF b \in {ENABLE_AP, SYNC_STATE} THEN SUBSET Aps ELSE {{}}
Unusable(b) == IF b = SYNC_STATE THEN BOOLEAN ELSE {FALSE}

RunPass ==
  /\ running /\ ac.rad # {}
  /\ LET b == Min(ac.rad) IN
     \E fails \in Refusals(b), unusable \in Unusable(b) :
       \E s \in {Pass(b, fails, unusable)} : Becomes(s)
  /\ UNCHANGED <<dmVars, commit, running, edits, crashes>>

\* FSM_COMPEND
Compend ==
  /\ running /\ ac.rad = {}
  /\ running' = FALSE
  /\ UNCHANGED <<dmVars, req, ac, commit, hapd, cfgVars, edits, crashes>>

----------------------------------------------------------------------------
(***************************************************************************)
(* hostapd by itself.                                                      *)
(***************************************************************************)

\* s_syncOnRadUp: hostapd answers on its sockets, or its main interface came up.
SyncOnRadUp(h) ==
  /\ hapd' = h
  /\ IF h.iface # Startable
     THEN /\ req' = AddRad(req, {IF h.iface THEN DISABLE ELSE ENABLE})
          /\ commit' = TRUE /\ UNCHANGED ac
     ELSE IF running
     THEN ac' = AddRad(ac, {SYNC_STATE}) /\ UNCHANGED <<req, commit>>
     ELSE req' = AddRad(req, {SYNC_STATE}) /\ commit' = TRUE /\ UNCHANGED ac
  /\ UNCHANGED <<dmVars, running, cfgVars, edits, crashes>>

\* The sockets are tried FIRST_DELAY_MS after the fork, and these two passes
\* are 10 ms apart when the first had nothing to stop.
BetweenStopAndDisable == running /\ {DISABLE, START} \subseteq ac.rad /\ STOP \notin ac.rad
Connect ==
  /\ Running(hapd) /\ hapd.proc = "up" /\ ~hapd.conn /\ ~BetweenStopAndDisable
  /\ SyncOnRadUp([hapd EXCEPT !.conn = TRUE])

SetupCompleted ==
  /\ Alive(hapd) /\ hapd.setup
  /\ SyncOnRadUp([hapd EXCEPT !.setup = FALSE])

\* The process ends, unasked or because it was told to restart: s_onStopHapdCb,
\* which writes the file, and a timer to start it again.
Ended == [Kill(WriteFile(State)) EXCEPT !.hapd.timer = TRUE]

Crash ==
  /\ crashes < MaxCrashes /\ Running(hapd) /\ hapd.proc = "up"
  /\ crashes' = crashes + 1
  /\ Becomes(Ended)
  /\ UNCHANGED <<dmVars, commit, running, edits>>

Terminate ==
  /\ hapd.status = "RESTARTING" /\ hapd.proc = "up"
  /\ Becomes(Ended)
  /\ UNCHANGED <<dmVars, commit, running, edits, crashes>>

\* s_restartHapdCb
RestartDaemon ==
  LET off == [WriteFile(State) EXCEPT !.hapd.timer = FALSE] IN
  IF Startable /\ ~Running(hapd) THEN Fork(off) ELSE off

RestartTimer ==
  /\ hapd.timer
  /\ Becomes(RestartDaemon)
  /\ UNCHANGED <<dmVars, commit, running, edits, crashes>>

----------------------------------------------------------------------------
(***************************************************************************)
(* The user: edits of the data model and the calls that restart or refresh *)
(* hostapd.  Every one of them ends in a commit.                           *)
(***************************************************************************)

Asks(bits) ==
  /\ edits < MaxEdits /\ ~running
  /\ edits' = edits + 1 /\ req' = bits /\ commit' = TRUE
  /\ UNCHANGED <<mode, ac, running, hapd, crashes>>

\* A change that needs a restart is left out for a disabled access point: it is
\* answered with DONE (ParamsRc), the file has it, and nothing restarts hostapd
\* when the access point is enabled later.
EditParam(a, k) ==
  /\ k = "mld" => mode = "mlo" /\ apEnable[a]
  /\ Asks(AddAp(req, a, {BitOf(k)}))
  /\ file' = [file EXCEPT ![a] = @ \cup {k}]
  /\ mem' = [mem EXCEPT ![a] = @ \cup {k}]
  /\ live' = [live EXCEPT ![a] = @ \cup {k}]
  /\ UNCHANGED <<radEnable, apEnable>>

Flipped(S) == IF "ena" \in S THEN S \ {"ena"} ELSE S \cup {"ena"}
EditApEnable(a) ==
  /\ Asks(AddAp(req, a, {ENABLE_AP}))
  /\ apEnable' = [apEnable EXCEPT ![a] = ~@]
  /\ file' = [file EXCEPT ![a] = Flipped(@)]
  /\ mem' = [mem EXCEPT ![a] = Flipped(@)]
  /\ live' = [live EXCEPT ![a] = Flipped(@)]
  /\ UNCHANGED radEnable

EditRadEnable ==
  /\ Asks(AddRad(req, {ENABLE_RAD}))
  /\ radEnable' = ~radEnable
  /\ UNCHANGED <<apEnable, cfgVars>>

\* SyncRad: the parameters that are the radio's own (SYNC_RAD); restart, refresh
\* and toggle of the debug calls.
Calls == {{SYNC_RAD, MOD_AP}, {STOP, START}, {UPDATE}, {DISABLE, ENABLE}}
Call ==
  /\ \E bits \in Calls : Asks(AddRad(req, bits))
  /\ UNCHANGED <<radEnable, apEnable, cfgVars>>

----------------------------------------------------------------------------
\* At start every radio is committed as a whole.
Init ==
  /\ mode \in Modes /\ radEnable = TRUE /\ apEnable \in [Aps -> BOOLEAN]
  /\ req = AddRad(NoBits, {ENABLE_RAD}) /\ ac = NoBits
  /\ commit = TRUE /\ running = FALSE
  /\ hapd = NoProcess
  /\ file = [a \in Aps |-> Kinds] /\ mem = file /\ live = file
  /\ edits = 0 /\ crashes = 0

User == (\E a \in Aps : EditApEnable(a) \/ \E k \in Kinds : EditParam(a, k))
          \/ EditRadEnable \/ Call
Next == \/ Dependency \/ RunPass \/ Compend
        \/ Connect \/ SetupCompleted \/ Crash \/ Terminate \/ RestartTimer
        \/ User

\* The machine's timer, the process manager and hostapd keep going: weak
\* fairness, with the guard of the action in place of ENABLED (each of these
\* actions changes the state whenever its guard holds).
Fairness ==
  /\ []<>~(~running /\ commit) \/ []<><<Dependency>>_vars
  /\ []<>~(running /\ ac.rad # {}) \/ []<><<RunPass>>_vars
  /\ []<>~(running /\ ac.rad = {}) \/ []<><<Compend>>_vars
  /\ []<>~(Running(hapd) /\ hapd.proc = "up" /\ ~hapd.conn /\ ~BetweenStopAndDisable)
       \/ []<><<Connect>>_vars
  /\ []<>~(Alive(hapd) /\ hapd.setup) \/ []<><<SetupCompleted>>_vars
  /\ []<>~(hapd.status = "RESTARTING" /\ hapd.proc = "up") \/ []<><<Terminate>>_vars
  /\ []<>~(hapd.timer) \/ []<><<RestartTimer>>_vars
Spec == Init /\ [][Next]_vars
FairSpec == Spec /\ Fairness

----------------------------------------------------------------------------
AtRest == ~running /\ ~commit
Serving == Alive(hapd) /\ hapd.proc = "up" /\ hapd.iface /\ ~hapd.setup

\* While a restart of hostapd is still to be done in a commit, no bit is left,
\* of the radio or of an access point, that sends single parameters to the
\* process that goes: sDynConfActions "without restarting hostapd".
NoWarmBeforeRestart ==
  running /\ START \in ac.rad =>
    /\ ac.rad \cap DynConf = {}
    /\ \A a \in Aps : ac.ap[a] \cap DynConf = {}

\* When no commit runs or is asked for and hostapd serves the radio, every
\* parameter of every enabled access point is the one that is configured, and
\* the access points that are broadcast are those that are enabled: no answer
\* of a dynamic action, no bit cancelled as superfluous and no restart lost one.
\* And a commit ends only when every access point has done all its bits, although
\* bits are added and cancelled while it runs; what it still sends is not sent
\* to a process that it restarts.
NothingLost ==
  /\ AtRest /\ Serving => \A a \in Aps : live[a] \subseteq (IF apEnable[a] THEN {} ELSE Kinds)
  /\ ~running => \A a \in Aps : ac.ap[a] = {}
  /\ NoWarmBeforeRestart

\* Once the user leaves it alone the radio comes to rest, with hostapd serving
\* it if the radio and one of its access points are enabled, and not otherwise.
Settles == <>[](AtRest /\ (Serving <=> Startable) /\ (~Startable => hapd.proc = "none"))

=============================================================================
