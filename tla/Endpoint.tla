------------------------------ MODULE Endpoint ------------------------------
(***************************************************************************)
(* An end point: src/src/wld_endpoint.c, the pairing sessions of wld_wps.c, *)
(* EpMgt/wld_tinyRoam.c, and the wifiGen handlers and actions that drive   *)
(* its wpa_supplicant.                                                     *)
(*                                                                         *)
(* A connection is made by restarting wpa_supplicant: the end point asks   *)
(* for GEN_FSM_ENABLE_EP, a commit stops the process, writes its network   *)
(* and starts it, and what becomes of it is learned from events.  Three    *)
(* things retry on their own: the reconnection timer, tiny roam, and the   *)
(* monitor that restarts a process that died; a WPS session must keep them *)
(* off, and must end itself.                                               *)
(*                                                                         *)
(* Of the radio's machine (RadFsm) only the part of the end point is here. *)
(* IDLE also stands for DISCOVERING, CONNECTING and DISCONNECTED.          *)
(*                                                                         *)
(* upset is history, what the code leaves unrepaired: the status of a      *)
(* pairing after its end (stuck), a pairing without its timer after a      *)
(* cancellation that could not be sent (cancel), a process of a disabled   *)
(* end point (zombie), a configuration that was not taken over because of  *)
(* a pairing (ignored).                                                    *)
(***************************************************************************)
EXTENDS Naturals, Sequences, SequencesExt

CONSTANTS
  Bssids,     \* the access points of the network
  HapdRuns,   \* hostapd runs on the same radio
  MaxTries,   \* maxNumberOfAttempts of wld_tinyRoam_roamTo
  MaxAsks,    \* bound on what the user asks for
  MaxFaults,  \* bound on what goes wrong outside of pwhm
  MaxQueue    \* bound on the events under way

ASSUME ConstantsAssumption ==
  /\ {"none", "any"} \cap Bssids = {} /\ HapdRuns \in BOOLEAN
  /\ {MaxTries, MaxAsks, MaxFaults, MaxQueue} \subseteq Nat /\ MaxTries > 0

Statuses == {"DISABLED", "IDLE", "CONNECTED", "WPS_PAIRING", "WPS_PAIRINGDONE", "ERROR"}
Phases == {"idle", "wait", "stop", "conf", "enable", "start", "finish"}
WpsEvents == {"ACTIVE", "CANCEL", "TIMEOUT", "FAIL", "CRED", "BADCRED"}
Events == {"CONNECTED", "DISCONNECTED"} \cup WpsEvents
Networks == Bssids \cup {"none", "any"}
NoRoam == [target |-> "none", tries |-> 0]

VARIABLES
  cfg,    \* pEP->enable, pRad->enable, and whether a profile is selected
  ep,     \* connectionStatus, the reconnection timer, WPS_PairingInProgress,
          \* the timer of the session (sessionTimer), WPS_PBC_Delay.timer
  fsm,    \* the state of the radio's machine, ENABLE_EP requested, FSM_ComPend
  roam,   \* targetBssid and numberOfAttemptsStarted; its timer runs with a target
  supp,   \* wpa_supplicant: the process, its link, its network, whether it was
          \* told to disconnect, and its WPS session
  evq,    \* its events that pwhm has not read
  reach,  \* access points in reach
  calls,  \* deferred pushButton calls that are not answered
  upset,
  left    \* what remains of the bounds

vars == <<cfg, ep, fsm, roam, supp, evq, reach, calls, upset, left>>

\* what the handlers of pwhm work on
S0 == [cfg |-> cfg, ep |-> ep, fsm |-> fsm, roam |-> roam, supp |-> supp,
       evq |-> evq, calls |-> calls, upset |-> upset]

Become(S) ==
  /\ cfg' = S.cfg /\ ep' = S.ep /\ fsm' = S.fsm /\ roam' = S.roam /\ supp' = S.supp
  /\ evq' = S.evq /\ calls' = S.calls
  /\ upset' = IF S.ep.status = "WPS_PAIRING" THEN S.upset ELSE S.upset \ {"stuck"}

Up(S) == S.supp.st = "up"                            \* control socket ready
Running(S) == S.supp.st \in {"starting", "up", "mute"}   \* wifiGen_wpaSupp_isRunning
Able(S) == S.cfg.enable /\ S.cfg.rad
Ready(S) == Able(S) /\ S.cfg.profile                 \* wld_endpoint_isReady

\* events are read only while the socket is connected
Emit(S, es) == IF Up(S) THEN [S EXCEPT !.evq = @ \o es] ELSE S
Unlinked(S) == IF S.supp.link = "none" THEN <<>> ELSE <<"DISCONNECTED">>

-----------------------------------------------------------------------------
(* Connecting *)

(* wld_rad_doRadioCommit *)
Commit(S) ==
  [S EXCEPT !.fsm.phase = IF @ = "idle" THEN "wait" ELSE @,
            !.fsm.wanted = @ \/ S.fsm.phase # "idle"]

(* wld_endpoint_performConnectCommit *)
ConnectUncommitted(S) ==
  IF S.cfg.profile THEN [S EXCEPT !.fsm.req = TRUE] ELSE [S EXCEPT !.ep.status = "ERROR"]
ConnectCommit(S) ==
  Commit(IF S.cfg.profile THEN [S EXCEPT !.fsm.req = TRUE] ELSE [S EXCEPT !.ep.status = "ERROR"])

(* s_stopRoaming and s_doRoamAttempt *)
StopRoaming(S, reconnect) ==
  LET T == [S EXCEPT !.roam = NoRoam] IN IF reconnect THEN ConnectCommit(T) ELSE T
RoamAttempt(S) == ConnectCommit([S EXCEPT !.roam.tries = @ + 1])

AtTarget(S) == S.ep.status = "CONNECTED" /\ Up(S) /\ S.supp.link = S.roam.target

(* s_processPreviousAttemptResult *)
ProcessPrevious(S) ==
  IF AtTarget(S) THEN StopRoaming(S, FALSE)
  ELSE IF S.roam.tries < MaxTries THEN RoamAttempt(S)
  ELSE StopRoaming(S, TRUE)

(* s_setEndpointStatus, and tiny roam that listens to it *)
SetEndpointStatus(S, s) ==
  LET T == [S EXCEPT !.ep.status = s]
  IN IF s = "CONNECTED" /\ S.ep.status # "CONNECTED" /\ S.roam.target # "none"
     THEN ProcessPrevious(T) ELSE T

(* wld_endpoint_setConnectionStatus: the reconnection timer runs as long as *)
(* the end point should be connected and is not.                           *)
SetConnectionStatusOnce(S, s) ==
  LET T == SetEndpointStatus(S, s)
  IN [T EXCEPT !.ep.retry = s # "CONNECTED" /\ Ready(T) /\ S.ep.status = "CONNECTED"]
SetConnectionStatus(S, s) ==
  LET T == SetEndpointStatus(S, s)
  IN [T EXCEPT !.ep.retry = s # "CONNECTED" /\ Ready(T)]

(* wld_endpoint_sync_connection *)
SyncConnection(S, connected, failed) ==
  SetConnectionStatus(S, CASE ~Able(S) -> "DISABLED"
                           [] Able(S) /\ failed -> "ERROR"
                           [] Able(S) /\ ~failed -> IF connected THEN "CONNECTED" ELSE "IDLE")

(* wifiGen_ep_disconnect *)
Disconnect(S) ==
  IF ~Up(S) THEN S
  ELSE [Emit(S, Unlinked(S)) EXCEPT !.supp.halt = TRUE, !.supp.link = "none"]

(* wld_endpoint_reconfigure: nothing is done while a pairing goes on. *)
Reconfigure(S) ==
  IF S.ep.status = "WPS_PAIRING" THEN [S EXCEPT !.upset = @ \cup {"ignored"}]
  ELSE LET T == Disconnect(S)
       IN IF Ready(T) THEN ConnectCommit(T) ELSE SyncConnection(T, FALSE, FALSE)

-----------------------------------------------------------------------------
(* Pairing *)

(* wld_wps_sendPairingNotification: the timer of the session starts only if *)
(* no session is in progress; "old" is a timer that an earlier one started. *)
NotifyReadyUntimed(S) == [S EXCEPT !.ep.pairing = TRUE]
NotifyReady(S) ==
  [S EXCEPT !.ep.guard = IF ~S.ep.pairing THEN "fresh" ELSE IF @ = "fresh" THEN "old" ELSE @,
            !.ep.pairing = TRUE]
NotifyEnd(S) ==
  [S EXCEPT !.ep.guard = "off", !.ep.pairing = FALSE,
            !.upset = (@ \ {"cancel"}) \cup (IF S.ep.status = "WPS_PAIRING" THEN {"stuck"} ELSE {})]

(* endpoint_wps_start: wpa_supplicant leaves its access point; only a push *)
(* button session is reported active.                                      *)
WpsStart(S, pin) ==
  IF S.ep.status = "WPS_PAIRING" \/ ~Up(S) THEN S
  ELSE NotifyReady([Emit(S, Unlinked(S) \o IF pin THEN <<>> ELSE <<"ACTIVE">>)
                      EXCEPT !.supp.wps = TRUE, !.supp.link = "none"])

(* WPS_PBC_Delay is cleared and its call answered. *)
ForgetDelayed(S) == [S EXCEPT !.ep.delay = FALSE]
AnswerDelayed(S) ==
  [S EXCEPT !.ep.delay = FALSE, !.calls = IF S.ep.delay THEN @ - 1 ELSE @]

(* s_stationWpsCancel, ..Timeout (failed), ..Fail and ..Overlap *)
PairingOver(S, failed) ==
  IF S.ep.pairing THEN NotifyEnd(SyncConnection(S, FALSE, failed)) ELSE S

(* s_stationWpsCredReceivedEvt *)
CredReceived(S, good) ==
  IF good /\ S.ep.pairing THEN NotifyEnd([S EXCEPT !.ep.status = "WPS_PAIRINGDONE"])
  ELSE IF good THEN S
  ELSE NotifyEnd(S)

(* s_stationConnectedEvt and s_syncOnEpConnected *)
Connected(S) ==
  LET T == SyncConnection(S, TRUE, FALSE) IN IF HapdRuns THEN Commit(T) ELSE T

(* s_stationDisconnectedEvt *)
Disconnected(S) ==
  IF S.cfg.profile /\ S.ep.status = "CONNECTED" THEN SyncConnection(S, FALSE, FALSE) ELSE S

Handled(S, ev) ==
  CASE ev = "CONNECTED" -> Connected(S)
    [] ev = "DISCONNECTED" -> Disconnected(S)
    [] ev = "ACTIVE" -> IF S.ep.pairing THEN SetConnectionStatus(S, "WPS_PAIRING") ELSE S
    [] ev \in {"CANCEL", "TIMEOUT"} -> PairingOver(S, TRUE)
    [] ev = "FAIL" -> PairingOver(S, FALSE)
    [] ev \in {"CRED", "BADCRED"} -> CredReceived(S, ev = "CRED")

-----------------------------------------------------------------------------
(* What the user asks for *)

Ask == left.asks > 0 /\ left' = [left EXCEPT !.asks = @ - 1] /\ UNCHANGED reach

(* s_setEnable_pwf *)
SetEnable ==
  /\ Ask
  /\ Become(Commit(Reconfigure([S0 EXCEPT !.cfg.enable = ~@, !.fsm.req = TRUE])))

(* GEN_FSM_ENABLE_RAD of the radio makes ENABLE_EP of the end point. *)
EnableRadio ==
  /\ Ask
  /\ Become(Commit([S0 EXCEPT !.cfg.rad = ~@, !.fsm.req = TRUE]))

(* s_setProfileReference_pwf: the first profile may be that of the network *)
(* which the end point is connected to, after a pairing.                   *)
SetProfile(same) ==
  /\ Ask /\ ~cfg.profile
  /\ same => ep.status = "CONNECTED" /\ Up(S0) /\ supp.link # "none"
  /\ LET S == [S0 EXCEPT !.cfg.profile = TRUE]
     IN Become(IF same THEN S ELSE Reconfigure(S))

(* wld_epProfile_delete *)
DeleteProfile ==
  /\ Ask /\ cfg.profile
  /\ Become(Reconfigure([S0 EXCEPT !.cfg.profile = FALSE]))

(* _pushButton: while the machine works the start is delayed, and only the *)
(* last of several calls is kept.                                          *)
PushButton(pin) ==
  /\ Ask /\ Able(S0)
  /\ LET S == AnswerDelayed(S0)
     IN Become(IF fsm.phase = "idle" THEN WpsStart(S, pin)
               ELSE [S EXCEPT !.ep.delay = TRUE, !.calls = @ + 1])

(* _cancelPairing: the timer of the session is gone even if the command    *)
(* cannot be sent; wpa_supplicant reports the cancellation as well.        *)
CancelPairing ==
  /\ Ask
  /\ LET S == [AnswerDelayed(S0) EXCEPT !.ep.guard = "off"]
         T == [Emit(S, IF supp.wps THEN <<"CANCEL">> ELSE <<>>) EXCEPT !.supp.wps = FALSE]
     IN Become(IF Up(S) THEN PairingOver(T, TRUE)
               ELSE [S EXCEPT !.upset = @ \cup IF ep.pairing THEN {"cancel"} ELSE {}])

(* wld_tinyRoam_roamTo *)
RoamTo(b) ==
  /\ Ask
  /\ Become([S0 EXCEPT !.roam = [target |-> b, tries |-> 0]])

User ==
  \/ SetEnable \/ EnableRadio \/ DeleteProfile \/ CancelPairing
  \/ \E same \in BOOLEAN : SetProfile(same)
  \/ \E pin \in BOOLEAN : PushButton(pin)
  \/ \E b \in Bssids : RoamTo(b)

-----------------------------------------------------------------------------
(* Timers and events *)

Still == UNCHANGED <<reach, left>>

ReadEvent ==
  /\ evq # <<>>
  /\ Become(Handled([S0 EXCEPT !.evq = Tail(@)], Head(evq)))
  /\ Still

(* endpoint_wps_pbc_delayed_time_handler *)
DelayedPush ==
  /\ ep.delay /\ fsm.phase = "idle"
  /\ \E pin \in BOOLEAN :
       Become(AnswerDelayed(IF Able(S0) THEN WpsStart(S0, pin) ELSE S0))
  /\ Still

(* s_pairingTimeoutHandler: WPS_SESSION_TIMEOUT is longer than a session of *)
(* wpa_supplicant, which reports its end.                                  *)
SessionExpires ==
  ep.guard = "old" \/ (ep.guard = "fresh" /\ ~supp.wps /\ WpsEvents \cap Range(evq) = {})
SessionTimer ==
  /\ SessionExpires
  /\ Become(NotifyEnd(S0))
  /\ Still

(* endpoint_reconnect_handler *)
Reconnect ==
  /\ ep.retry /\ ep.status # "WPS_PAIRING"
  /\ Become(ConnectCommit(S0))
  /\ Still

(* s_roamTimerHandle *)
RoamTimer ==
  /\ roam.target # "none"
  /\ Become(IF roam.tries > 0 THEN ProcessPrevious(S0)
            ELSE IF AtTarget(S0) THEN StopRoaming(S0, FALSE)
            ELSE RoamAttempt(S0))
  /\ Still

-----------------------------------------------------------------------------
(* The commit *)

(* FSM_DEPENDENCY: without ENABLE_EP there is nothing to do here. *)
Dependency ==
  /\ fsm.phase = "wait"
  /\ Become([S0 EXCEPT !.fsm = [phase |-> IF fsm.req THEN "stop" ELSE "finish",
                                req |-> FALSE, wanted |-> FALSE]])
  /\ Still

(* s_doStopWpaSupp: a process that died is not stopped, its restart neither. *)
StopWpaSupp ==
  /\ fsm.phase = "stop"
  /\ LET S == [S0 EXCEPT !.fsm.phase = "conf"]
     IN Become(IF ~Running(S) THEN S
               ELSE [S EXCEPT !.supp = [@ EXCEPT !.st = "off", !.link = "none", !.halt = FALSE, !.wps = FALSE],
                              !.evq = <<>>, !.upset = @ \ {"zombie"}])
  /\ Still

(* s_doConfWpaSupp: wld_endpoint_getTargetBssid follows tiny roam. *)
Network == IF ~cfg.profile THEN "none" ELSE IF roam.target # "none" THEN roam.target ELSE "any"
ConfWpaSupp ==
  /\ fsm.phase = "conf"
  /\ Become([S0 EXCEPT !.fsm.phase = "enable", !.supp.net = Network, !.upset = @ \ {"ignored"}])
  /\ Still

(* s_doEnableEp *)
EnableEp ==
  /\ fsm.phase = "enable"
  /\ Become(SetConnectionStatus([S0 EXCEPT !.fsm.phase = "start"], IF Able(S0) THEN "IDLE" ELSE "DISABLED"))
  /\ Still

(* s_doStartWpaSupp *)
StartWpaSupp ==
  /\ fsm.phase = "start"
  /\ Become([S0 EXCEPT !.fsm.phase = "finish",
                       !.supp.st = IF Able(S0) /\ ~Running(S0) THEN "starting" ELSE @])
  /\ Still

Finish ==
  /\ fsm.phase = "finish"
  /\ Become([S0 EXCEPT !.fsm.phase = IF fsm.wanted THEN "wait" ELSE "idle"])
  /\ Still

Pass == Dependency \/ StopWpaSupp \/ ConfWpaSupp \/ EnableEp \/ StartWpaSupp \/ Finish

-----------------------------------------------------------------------------
(* wpa_supplicant *)

(* The control socket is connected; s_mngrReadyCb looks at the link.  A    *)
(* process that searches keeps the end point in its pairing.               *)
Attach ==
  /\ supp.st = "starting"
  /\ LET S == [S0 EXCEPT !.supp.st = "up"]
     IN Become(IF supp.link # "none" THEN Connected(S)
               ELSE SetConnectionStatus(S, IF ep.status = "WPS_PAIRING" /\ supp.net # "none"
                                           THEN "WPS_PAIRING" ELSE "IDLE"))
  /\ Still

(* s_deamonStarter *)
Restart ==
  /\ supp.st = "dead"
  /\ Become([S0 EXCEPT !.supp.st = "starting",
                       !.upset = IF Able(S0) THEN @ ELSE @ \cup {"zombie"}])
  /\ Still

Room == Len(evq) < MaxQueue

Connects(b) ==
  /\ Running(S0) /\ Room /\ b \in reach
  /\ supp.link = "none" /\ ~supp.halt /\ ~supp.wps /\ supp.net \in {b, "any"}
Connect(b) ==
  /\ Connects(b)
  /\ Become([Emit(S0, <<"CONNECTED">>) EXCEPT !.supp.link = b])
  /\ Still

LosesLink == Running(S0) /\ Room /\ supp.link \notin reach \cup {"none"}
LinkLost ==
  /\ LosesLink
  /\ Become([Emit(S0, <<"DISCONNECTED">>) EXCEPT !.supp.link = "none"])
  /\ Still

(* With good credentials wpa_supplicant connects to their network itself. *)
WpsEnds(ev) ==
  /\ supp.wps /\ Room
  /\ LET S == [Emit(S0, <<ev>>) EXCEPT !.supp.wps = FALSE]
     IN Become(IF ev = "CRED" THEN [S EXCEPT !.supp.net = "any", !.supp.halt = FALSE] ELSE S)
  /\ Still

Fault == left.faults > 0 /\ left' = [left EXCEPT !.faults = @ - 1]

Crash ==
  /\ Running(S0) /\ Fault
  /\ Become([S0 EXCEPT !.supp = [@ EXCEPT !.st = "dead", !.link = "none", !.halt = FALSE, !.wps = FALSE],
                       !.evq = <<>>])
  /\ UNCHANGED reach

(* wpaCtrlMngr gives up after MAX_CONNECTION_ATTEMPTS. *)
SocketMiss ==
  /\ supp.st = "starting" /\ Fault
  /\ Become([S0 EXCEPT !.supp.st = "mute"])
  /\ UNCHANGED reach

Moves ==
  /\ Fault
  /\ reach' \in (SUBSET Bssids) \ {reach}
  /\ Become(S0)

-----------------------------------------------------------------------------
Init ==
  /\ cfg \in [enable : {TRUE}, rad : {TRUE}, profile : BOOLEAN]
  /\ ep = [status |-> "DISABLED", retry |-> FALSE, pairing |-> FALSE, guard |-> "off", delay |-> FALSE]
  /\ fsm = [phase |-> "wait", req |-> TRUE, wanted |-> FALSE]
  /\ roam = NoRoam
  /\ supp = [st |-> "off", link |-> "none", net |-> "none", halt |-> FALSE, wps |-> FALSE]
  /\ evq = <<>> /\ reach = Bssids /\ calls = 0 /\ upset = {}
  /\ left = [asks |-> MaxAsks, faults |-> MaxFaults]

Pwhm == ReadEvent \/ DelayedPush \/ SessionTimer \/ Reconnect \/ RoamTimer \/ Pass \/ Restart
Supplicant ==
  \/ Attach \/ LinkLost \/ Crash \/ SocketMiss \/ Moves
  \/ \E b \in Bssids : Connect(b)
  \/ \E ev \in {"TIMEOUT", "FAIL", "CRED", "BADCRED"} : WpsEnds(ev)
Next == User \/ Pwhm \/ Supplicant

Spec == Init /\ [][Next]_vars

(* What is due is done; a push button that commits keep putting off is done *)
(* if it is due again and again.  From some time on an attempt, from its    *)
(* commit to the connection, takes less than reconnectInterval.            *)
Trying ==
  fsm.phase # "idle" \/ supp.st = "starting" \/ evq # <<>> \/ \E b \in Bssids : Connects(b)
RetrySlowly == <>[][ep.retry /\ Reconnect => ~Trying]_vars
Fairness ==
  /\ RetrySlowly
  /\ []<>(fsm.phase = "idle") \/ []<><<Pass>>_vars
  /\ []<>~(ep.retry /\ ep.status # "WPS_PAIRING") \/ []<><<Reconnect>>_vars
  /\ []<>~SessionExpires \/ []<><<SessionTimer>>_vars
  /\ []<>~(roam.target # "none") \/ []<><<RoamTimer>>_vars
  /\ []<>~(supp.st = "dead") \/ []<><<Restart>>_vars
  /\ []<>~LosesLink \/ []<><<LinkLost>>_vars
  /\ []<>~supp.wps \/ []<><<\E ev \in {"TIMEOUT", "FAIL", "CRED", "BADCRED"} : WpsEnds(ev)>>_vars
  /\ []<>(evq = <<>>) \/ []<><<ReadEvent>>_vars
  /\ []<>~(supp.st = "starting") \/ []<><<Attach>>_vars
  /\ <>[]~(ep.delay /\ fsm.phase = "idle") \/ []<><<DelayedPush>>_vars
  /\ \A b \in Bssids : []<>~Connects(b) \/ []<><<Connect(b)>>_vars

FairSpec == Spec /\ Fairness

-----------------------------------------------------------------------------
(* Properties *)

(* Types; a deferred call is outstanding exactly while a push button is     *)
(* delayed, no roam makes more attempts than asked for, and a request is   *)
(* never left to a machine that sleeps.                                    *)
TypeOK ==
  /\ cfg \in [enable : BOOLEAN, rad : BOOLEAN, profile : BOOLEAN]
  /\ ep \in [status : Statuses, retry : BOOLEAN, pairing : BOOLEAN,
             guard : {"off", "fresh", "old"}, delay : BOOLEAN]
  /\ fsm \in [phase : Phases, req : BOOLEAN, wanted : BOOLEAN]
  /\ roam \in [target : Bssids \cup {"none"}, tries : 0..MaxTries]
  /\ supp \in [st : {"off", "starting", "up", "mute", "dead"}, link : Bssids \cup {"none"},
               net : Networks, halt : BOOLEAN, wps : BOOLEAN]
  /\ evq \in Seq(Events) /\ reach \subseteq Bssids
  /\ upset \subseteq {"stuck", "cancel", "zombie", "ignored"}
  /\ calls = IF ep.delay THEN 1 ELSE 0
  /\ fsm.req => fsm.phase # "idle"

(* A session that is in progress is guarded by its timer, unless it was     *)
(* cancelled when the command could not be sent, and the end point shows a *)
(* pairing only while one is in progress, unless it ended in a way that    *)
(* leaves the status alone.                                                *)
PairingTracked ==
  /\ ep.pairing => ep.guard # "off" \/ "cancel" \in upset
  /\ ep.status = "WPS_PAIRING" => ep.pairing \/ "stuck" \in upset

Restarting == fsm.req \/ fsm.phase \in {"stop", "conf", "enable"}

(* Outside of a restart: an end point that should be connected, is not and  *)
(* pairs not, retries; it shows a connection only if there is one, and one *)
(* that it does not show is made again; and no process outlives the end    *)
(* point, except one that was restarted on its own.                        *)
Retries ==
  Ready(S0) /\ ep.status \notin {"CONNECTED", "WPS_PAIRING", "WPS_PAIRINGDONE"} /\ ~Restarting
    => ep.retry
ShowsLink ==
  Ready(S0) /\ Up(S0) /\ ~Restarting /\ evq = <<>> =>
    /\ ep.status = "CONNECTED" => supp.link # "none"
    /\ supp.link # "none" => ep.status = "CONNECTED" \/ ep.retry
OffWhenDisabled ==
  ~Able(S0) /\ fsm.phase = "idle" => supp.st \in {"off", "dead"} \/ "zombie" \in upset

Steady == Retries /\ ShowsLink /\ OffWhenDisabled

(* Retries end, and an end point that should be connected is, if an access  *)
(* point can be reached and nothing was left behind.                       *)
Settled ==
  /\ calls = 0 /\ roam.target = "none"
  /\ Ready(S0) /\ reach # {} /\ upset = {} =>
       ep.status = "CONNECTED" /\ supp.link \in reach /\ fsm.phase = "idle"
Settles == <>[]Settled

=============================================================================
