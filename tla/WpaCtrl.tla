------------------------------- MODULE WpaCtrl -------------------------------
(***************************************************************************)
(* The control sockets of one radio's hostapd and the manager that keeps   *)
(* them connected: nl80211/wld_wpaCtrlMngr.c, wld_wpaCtrlInterface.c and   *)
(* wld_wpaCtrlConnection.c, with what opens and closes them: the actions   *)
(* of wifiGen_fsm.c, the process handlers of wifiGen_hapd.c and            *)
(* Utils/wld_daemon.c, and the events of hostapd and of the kernel.        *)
(*                                                                         *)
(* HapdApply takes the connection as one bit.  Here every access point has *)
(* a socket of its own, which hostapd serves if the configuration file     *)
(* asks for it (only for access points that are enabled, and the main one: *)
(* a radio with multiple BSSIDs).  A socket that is not served yet is      *)
(* tried again by the manager's timer, a bounded number of times; one that *)
(* hostapd drops is learned from an event read from that very socket.      *)
(*                                                                         *)
(* The main access point stays enabled, and each radio has a hostapd of    *)
(* its own (HostapdGroup has the shared ones).  Data: the configuration is *)
(* the set of access points that have a socket in it.                      *)
(***************************************************************************)
EXTENDS Naturals, Sequences, SequencesExt, FiniteSets

CONSTANTS
  Ifaces,      \* the interfaces in the order of the manager's list; the first is the main one
  MaxAttempts, \* MAX_CONNECTION_ATTEMPTS
  MaxAsks,     \* bound on what the user asks for
  MaxFaults    \* bound on the ends of hostapd and on unanswered commands

Nodes == Range(Ifaces)
Main == Ifaces[1]
Others == Nodes \ {Main}
Bits == {"STOP", "MOD", "AP", "UPDATE", "START", "SYNC"}

ASSUME ConstantsAssumption ==
  /\ Ifaces \in Seq(Nodes) /\ Ifaces # <<>> /\ IsInjective(Ifaces)
  /\ {MaxAttempts, MaxAsks, MaxFaults} \subseteq Nat /\ MaxAttempts > 0

VARIABLES
  cfg,   \* Radio.Enable, and the access points that are enabled
  fsm,   \* FSM_BitActionArray (want, aps), a commit asked for, FSM_RUN and its bits
  dmn,   \* the process as wld_daemon knows it: enabled and UP, its restart timer,
         \* and an end that it has not been told of
  srv,   \* the process: alive, its BSSs, the sockets it serves; the files of the
         \* sockets, the configuration file, interfaces created and not yet heard of
  ifc,   \* wld_wpaCtrlInterface: enable, isReady, the event socket, and whether
         \* CTRL-EVENT-TERMINATING waits in it
  mgr,   \* connectTimer, wpaCtrlConnectAttempts
  rad,   \* detailedState is UP; history: fSyncOnRadioUp was called for this process
  lost,  \* history: interfaces that nothing opens again
  upset, \* history: the manager stopped trying ("gaveup"), hostapd was to be stopped and
         \* was left alone for it had no socket yet ("missed")
  left   \* what remains of the bounds

vars == <<cfg, fsm, dmn, srv, ifc, mgr, rad, lost, upset, left>>

\* what the handlers of pwhm work on
S0 == [cfg |-> cfg, fsm |-> fsm, dmn |-> dmn, srv |-> srv, ifc |-> ifc, mgr |-> mgr,
       rad |-> rad, lost |-> lost, upset |-> upset]
Become(S) ==
  /\ cfg' = S.cfg /\ fsm' = S.fsm /\ dmn' = S.dmn /\ srv' = S.srv /\ ifc' = S.ifc
  /\ mgr' = S.mgr /\ rad' = S.rad /\ lost' = S.lost /\ upset' = S.upset

Startable(S) == S.cfg.rad                            \* wifiGen_hapd_isStartable
Need(S) == {Main} \cup IF S.cfg.rad THEN S.cfg.aps ELSE {}  \* wld_hostapd_ap_needWpaCtrlIface
Enabled(S) == {i \in Nodes : S.ifc[i].enable}
Ready(S) == {i \in Nodes : S.ifc[i].ready}
Connected(S) == S.dmn.up /\ Ready(S) # {}            \* wld_wpaCtrlMngr_isConnected, isAlive

-----------------------------------------------------------------------------
(* One interface *)

(* wld_wpaCtrlInterface_close *)
Close(S, i) ==
  [S EXCEPT !.ifc[i] = [@ EXCEPT !.ready = FALSE, !.conn = "closed", !.term = FALSE]]

(* wld_wpaCtrlInterface_open.  A socket that is already connected is kept    *)
(* whatever became of its server; sending over it drops what waits in it.  *)
(* answers: ATTACH is answered in time.                                    *)
Open(S, i, answers) ==
  LET conn == IF S.ifc[i].conn = "closed" /\ i \in S.srv.live THEN "half" ELSE S.ifc[i].conn
      linked == conn \in {"half", "open"} /\ answers
  IN IF ~S.ifc[i].enable THEN S
     ELSE [S EXCEPT !.ifc[i] = [@ EXCEPT !.ready = linked, !.term = FALSE,
                                         !.conn = IF linked THEN "open" ELSE conn],
                    !.lost = IF linked THEN @ \ {i} ELSE @]

(* The sockets of the process go: those connected to them are dead, and the *)
(* attached ones were told so if it had the time.                           *)
Drop(S, gone, told) ==
  [S EXCEPT !.srv.live = @ \ gone,
            !.ifc = [i \in Nodes |->
              LET c == S.ifc[i]
              IN  IF i \notin gone \/ c.conn = "closed" THEN c
                  ELSE [c EXCEPT !.conn = "dead", !.term = c.term \/ (told /\ c.conn = "open")]]]

-----------------------------------------------------------------------------
(* The manager *)

Connect(S) ==                                                             \* ..Mngr_connect
  IF Connected(S) THEN S ELSE [S EXCEPT !.mgr.timer = TRUE, !.upset = @ \ {"gaveup"}]
Disconnect(S) ==                                                          \* ..Mngr_disconnect
  [S EXCEPT !.ifc = [i \in Nodes |-> Close(S, i).ifc[i]],
            !.mgr = [timer |-> FALSE, tries |-> 0]]

Commit(S) == [S EXCEPT !.fsm.commit = TRUE]

(* s_syncOnRadUp: hostapd serves the radio.                                *)
SyncOnRadUp(S) ==
  LET T == [S EXCEPT !.rad = [up |-> TRUE, told |-> TRUE], !.upset = @ \ {"gaveup"}]
  IN IF ~Startable(T) THEN Commit(T)
     ELSE IF T.fsm.run THEN [T EXCEPT !.fsm.bits = @ \cup {"SYNC"}]
     ELSE Commit([T EXCEPT !.fsm.want = @ \cup {"SYNC"}])

(* wld_wpaCtrlMngr_checkAllIfaces: a socket whose file exists is wanted,    *)
(* unless it cannot be opened while another one is.                        *)
CheckIface(S, i, mute) ==
  LET T == Open([S EXCEPT !.ifc[i].enable = TRUE], i, i \notin mute)
  IN IF i \notin S.srv.file \/ ~S.dmn.up \/ S.ifc[i].ready THEN S
     ELSE IF ~T.ifc[i].ready /\ Ready(T) # {} THEN [T EXCEPT !.ifc[i].enable = S.ifc[i].enable]
     ELSE T
CheckAllIfaces(S, mute) ==
  LET after[k \in 0..Len(Ifaces)] ==
        IF k = 0 THEN S ELSE CheckIface(after[k - 1], Ifaces[k], mute)
  IN  after[Len(Ifaces)]

AllReady(S) == Ready(S) # {} /\ Cardinality(Ready(S)) >= Cardinality(Enabled(S))

(* s_reconnectMgrTimer *)
GiveUpKeepsCount(S) == [S EXCEPT !.mgr.timer = FALSE, !.upset = @ \cup {"gaveup"}]
GiveUp(S) == [S EXCEPT !.mgr = [timer |-> FALSE, tries |-> 0], !.upset = @ \cup {"gaveup"}]
ReconnectKeepsOn(S, mute) ==
  LET T == CheckAllIfaces(S, mute)
  IN IF T.dmn.up /\ AllReady(T) THEN SyncOnRadUp([T EXCEPT !.mgr.tries = 0]) ELSE T
Reconnect(S, mute) ==
  LET T == CheckAllIfaces(S, mute)
      tries == T.mgr.tries + 1
  IN IF ~T.dmn.up THEN GiveUp(T)
     ELSE IF AllReady(T) THEN SyncOnRadUp([T EXCEPT !.mgr = [timer |-> FALSE, tries |-> 0]])
     ELSE IF Enabled(T) # {} /\ tries < MaxAttempts THEN [T EXCEPT !.mgr.tries = tries]
     ELSE GiveUp(T)

(* s_newInterfaceCb: the radio is told if its state changed.                *)
NewIface(S, i, mute) ==
  LET T == CheckAllIfaces(S, mute)
      U == [T EXCEPT !.lost = IF T.ifc[i].ready \/ T.mgr.timer THEN @ ELSE @ \cup {i}]
  IN IF AllReady(U) /\ ~U.rad.up THEN SyncOnRadUp(U) ELSE U

(* s_ifaceTerminatingEvt: the manager connects again if this was the last.  *)
TerminatedSilently(S, i) == Close(S, i)
Terminated(S, i) ==
  LET last == Ready(S) = {i}
      T == Close(S, i)
  IN IF last THEN IF S.dmn.up THEN Connect(T) ELSE T
     ELSE [T EXCEPT !.lost = IF i \in T.srv.newif \/ T.mgr.timer THEN @ ELSE @ \cup {i}]

-----------------------------------------------------------------------------
(* The process *)

WriteConf(S) == [S EXCEPT !.srv.conf = Need(S)]      \* wifiGen_hapd_writeConfig

(* wifiGen_hapd_restoreMainIface *)
RestoreMain(S) == [WriteConf(S) EXCEPT !.ifc[Main].enable = TRUE]
EnableIfaces(S) ==                                   \* s_enableWpaCtrlIfaces
  [S EXCEPT !.ifc = [i \in Nodes |-> [@[i] EXCEPT !.enable = i \in Need(S)]]]

(* wld_dmn_startDeamon and s_onStartHapdCb *)
Fork(S) ==
  Connect([S EXCEPT
    !.dmn = [up |-> TRUE, timer |-> FALSE, ended |-> FALSE],
    !.srv = [@ EXCEPT !.alive = TRUE, !.bss = S.srv.conf, !.live = {},
                      !.newif = S.srv.conf \ {Main}],
    !.rad.told = FALSE, !.lost = {}])

(* s_onStopHapdCb, after the connections were closed. *)
OnStop(S) ==
  RestoreMain([Disconnect(S) EXCEPT !.srv.file = {}, !.dmn.up = FALSE, !.rad.up = FALSE,
                                !.upset = {}])

(* wifiGen_hapd_stopDaemon *)
StopDaemon(S) ==
  LET T == OnStop(Drop(S, Nodes, FALSE))
  IN [T EXCEPT !.dmn = [up |-> FALSE, timer |-> FALSE, ended |-> FALSE],
               !.srv = [@ EXCEPT !.alive = FALSE, !.bss = {}, !.newif = {}]]

(* SIGHUP: hostapd takes the file; it drops what is no longer in it, and may *)
(* make all of its BSSs again.                                              *)
Reload(S, all) ==
  LET gone == IF all THEN S.srv.bss ELSE S.srv.bss \ S.srv.conf
      T == Drop(S, gone, TRUE)
  IN IF ~S.srv.alive THEN S
     ELSE [T EXCEPT !.srv.bss = S.srv.conf, !.srv.file = @ \ gone,
                    !.srv.newif = ((@ \cap S.srv.conf)
                                     \cup (S.srv.conf \ (S.srv.bss \ gone))) \ {Main}]

-----------------------------------------------------------------------------
(* The commit *)

(* s_checkPreRadDependency, s_checkApDependency, s_checkRadDependency: what  *)
(* asks for a start stops hostapd first and takes the parameters with it.   *)
Dependency ==
  /\ fsm.commit /\ ~fsm.run
  /\ LET aps == fsm.want \cap {"AP"}
         start == fsm.want \cap {"START"} # {} \/ dmn.up # Startable(S0)
                    \/ rad.up # Startable(S0) \/ (aps # {} /\ ~Connected(S0))
         bits == IF start THEN (fsm.want \ {"AP", "UPDATE"}) \cup {"STOP", "MOD", "START"}
                 ELSE fsm.want \cup IF fsm.want \cap {"AP", "UPDATE"} = {} THEN {} ELSE {"MOD"}
     IN Become([S0 EXCEPT !.fsm = [want |-> {}, commit |-> FALSE, run |-> TRUE, bits |-> bits]])
  /\ UNCHANGED left

Done(S, b) == [S EXCEPT !.fsm.bits = @ \ {b}]
Ahead(b) == CASE b = "STOP" -> {} [] b = "MOD" -> {"STOP"} [] b = "AP" -> {"STOP", "MOD"}
              [] b = "UPDATE" -> {"STOP", "MOD", "AP"}
              [] b = "START" -> {"STOP", "MOD", "AP", "UPDATE"}
              [] b = "SYNC" -> {"STOP", "MOD", "AP", "UPDATE", "START"}
Due(b) == fsm.run /\ b \in fsm.bits /\ fsm.bits \cap Ahead(b) = {}

(* s_doStopHostapd: only a hostapd that has a socket is stopped.            *)
StopHostapd ==
  /\ Due("STOP")
  /\ LET S == Done(S0, "STOP")
     IN Become(IF ~dmn.up THEN S
               ELSE IF srv.file = {} THEN [S EXCEPT !.upset = @ \cup {"missed"}]
               ELSE StopDaemon(S))
  /\ UNCHANGED left

ConfHostapd == Due("MOD") /\ Become(WriteConf(Done(S0, "MOD"))) /\ UNCHANGED left

(* s_doEnableAp, for an access point whose socket has to come or to go: the *)
(* bit that synchronizes the states waits for the next commit.             *)
EnableAp ==
  /\ Due("AP")
  /\ LET S == Done(S0, "AP")
         moved == {i \in Others : (i \in srv.file) # (i \in Need(S))}
         E == [S EXCEPT !.ifc = [i \in Nodes |->
                IF i \in moved THEN [@[i] EXCEPT !.enable = i \in Need(S)] ELSE @[i]]]
         T == IF ~Startable(S) \/ ~Connected(S) THEN S
              ELSE IF moved # {}
              THEN [E EXCEPT !.fsm.bits = @ \cup {"UPDATE"}, !.fsm.want = @ \cup {"SYNC"}]
              ELSE IF Others \cap Ready(S) # {} THEN [S EXCEPT !.fsm.bits = @ \cup {"SYNC"}]
              ELSE S
     IN Become([T EXCEPT !.lost = @ \cup (Need(T) \ Enabled(T))])
  /\ UNCHANGED left

(* s_doUpdateHostapd *)
UpdateHostapd ==
  /\ Due("UPDATE")
  /\ \E all \in BOOLEAN :
       LET S == Done(S0, "UPDATE")
       IN Become(IF ~dmn.up THEN S ELSE Connect(Reload(RestoreMain(S), all)))
  /\ UNCHANGED left

(* s_doStartHostapd *)
StartHostapd ==
  /\ Due("START")
  /\ LET S == Done(S0, "START")
     IN Become(IF ~Startable(S) \/ dmn.up THEN S ELSE Fork(EnableIfaces(RestoreMain(S))))
  /\ UNCHANGED left

(* A command of an open that hostapd does not answer in time is a fault.    *)
Mute == {{}} \cup IF left.faults > 0 THEN {{i} : i \in srv.live} ELSE {}
Spend(mute) == left' = [left EXCEPT !.faults = IF mute = {} THEN @ ELSE @ - 1]

(* wifiGen_hapd_syncVapStates: interfaces that were not heard of are looked  *)
(* at, and those that are needed are opened.                                *)
RefreshIface(S, i, mute) ==
  LET T == IF i \in S.srv.newif THEN NewIface(S, i, mute) ELSE S
  IN IF i \in S.srv.bss /\ S.dmn.up /\ i \in Need(S) /\ ~T.ifc[i].ready
     THEN Open(T, i, i \notin mute) ELSE T
RefreshAll(S, mute) ==
  LET after[k \in 0..Len(Ifaces)] ==
        IF k = 0 THEN S ELSE RefreshIface(after[k - 1], Ifaces[k], mute)
  IN  after[Len(Ifaces)]
SyncState ==
  /\ Due("SYNC")
  /\ \E mute \in Mute :
       LET S == RefreshAll(Done(S0, "SYNC"), mute)
           early == IF S.mgr.timer THEN {} ELSE (Need(S) \cap srv.bss) \ srv.live
       IN Become([S EXCEPT !.lost = @ \cup early]) /\ Spend(mute)

Finish ==
  /\ fsm.run /\ fsm.bits = {}
  /\ Become([S0 EXCEPT !.fsm.run = FALSE])
  /\ UNCHANGED left

Pass == Dependency \/ StopHostapd \/ ConfHostapd \/ EnableAp \/ UpdateHostapd
          \/ StartHostapd \/ SyncState \/ Finish

-----------------------------------------------------------------------------
(* Timers and events *)

(* An attempt is RETRY_DELAY_MS after the other: hostapd serves its sockets  *)
(* before MAX_CONNECTION_ATTEMPTS of them.                                  *)
Serves == srv.bss \subseteq srv.live
ReconnectTimer ==
  /\ mgr.timer /\ (mgr.tries + 1 < MaxAttempts \/ ~srv.alive \/ Serves)
  /\ \E mute \in Mute : Become(Reconnect(S0, mute)) /\ Spend(mute)

NewInterface(i) ==
  /\ i \in srv.newif
  /\ \E mute \in Mute :
       /\ Become(NewIface([S0 EXCEPT !.srv.newif = @ \ {i}], i, mute))
       /\ Spend(mute)

ReadTerminating(i) ==
  /\ ifc[i].term
  /\ Become(Terminated(S0, i))
  /\ UNCHANGED left

(* wld_dmn_stopCb of a monitored process *)
NoticeEnd ==
  /\ dmn.ended
  /\ Become([OnStop(S0) EXCEPT !.dmn = [up |-> FALSE, timer |-> TRUE, ended |-> FALSE]])
  /\ UNCHANGED left

(* s_restartHapdCb: of the interfaces only the main one is looked at again.  *)
RestartTimer ==
  /\ dmn.timer
  /\ LET S == RestoreMain([S0 EXCEPT !.dmn.timer = FALSE])
         left_out == {i \in Need(S) : ~S.ifc[i].enable}
     IN Become(IF ~Startable(S) THEN S ELSE [Fork(Disconnect(S)) EXCEPT !.lost = left_out])
  /\ UNCHANGED left

(* Whoever asks for the status of the radio finds its interface up.         *)
StatusRead ==
  /\ srv.alive /\ Main \in srv.live /\ ~rad.up
  /\ Become([S0 EXCEPT !.rad.up = TRUE])
  /\ UNCHANGED left

-----------------------------------------------------------------------------
(* The user, and hostapd *)

Ask == left.asks > 0 /\ left' = [left EXCEPT !.asks = @ - 1]

SetRadio == Ask /\ Become(Commit([S0 EXCEPT !.cfg.rad = ~@]))
SetAp(i) ==
  /\ Ask
  /\ Become(Commit([S0 EXCEPT !.cfg.aps = IF i \in @ THEN @ \ {i} ELSE @ \cup {i},
                              !.fsm.want = @ \cup {"AP"}]))
(* the debug calls that refresh and restart hostapd *)
Call(bits) == Ask /\ Become(Commit([S0 EXCEPT !.fsm.want = @ \cup bits]))

Listen(i) ==
  /\ srv.alive /\ i \in srv.bss \ srv.live
  /\ Become([S0 EXCEPT !.srv.live = @ \cup {i}, !.srv.file = @ \cup {i}])
  /\ UNCHANGED left

(* It ends by itself, in order (its sockets told and removed) or not.       *)
Die(inOrder) ==
  /\ srv.alive /\ left.faults > 0
  /\ LET T == Drop(S0, srv.live, inOrder)
     IN Become([T EXCEPT !.dmn.ended = TRUE, !.srv.alive = FALSE, !.srv.bss = {},
                         !.srv.newif = {}, !.srv.file = IF inOrder THEN {} ELSE @])
  /\ left' = [left EXCEPT !.faults = @ - 1]

-----------------------------------------------------------------------------
Closed == [enable |-> FALSE, ready |-> FALSE, conn |-> "closed", term |-> FALSE]
Init ==
  /\ cfg \in [rad : {TRUE}, aps : {{Main} \cup S : S \in SUBSET Others}]
  /\ fsm = [want |-> {}, commit |-> TRUE, run |-> FALSE, bits |-> {}]
  /\ dmn = [up |-> FALSE, timer |-> FALSE, ended |-> FALSE]
  /\ srv = [alive |-> FALSE, bss |-> {}, live |-> {}, file |-> {}, conf |-> {}, newif |-> {}]
  /\ ifc = [i \in Nodes |-> Closed]
  /\ mgr = [timer |-> FALSE, tries |-> 0]
  /\ rad = [up |-> FALSE, told |-> FALSE]
  /\ lost = {} /\ upset = {}
  /\ left = [asks |-> MaxAsks, faults |-> MaxFaults]

User == SetRadio \/ (\E i \in Others : SetAp(i)) \/ Call({"UPDATE"}) \/ Call({"START"})
Pwhm == Pass \/ ReconnectTimer \/ NoticeEnd \/ RestartTimer
          \/ \E i \in Nodes : NewInterface(i) \/ ReadTerminating(i)
Around == StatusRead \/ (\E i \in Nodes : Listen(i)) \/ \E inOrder \in BOOLEAN : Die(inOrder)
Next == User \/ Pwhm \/ Around

Spec == Init /\ [][Next]_vars

(* What is due is done, and hostapd serves what it read.                    *)
Fairness ==
  /\ []<>~(fsm.commit \/ fsm.run) \/ []<><<Pass>>_vars
  /\ []<>~mgr.timer \/ []<><<ReconnectTimer>>_vars
  /\ []<>~dmn.ended \/ []<><<NoticeEnd>>_vars
  /\ []<>~dmn.timer \/ []<><<RestartTimer>>_vars
  /\ \A i \in Nodes :
       /\ []<>~(srv.alive /\ i \in srv.bss \ srv.live) \/ []<><<Listen(i)>>_vars
       /\ []<>(i \notin srv.newif) \/ []<><<NewInterface(i)>>_vars
       /\ []<>~ifc[i].term \/ []<><<ReadTerminating(i)>>_vars
FairSpec == Spec /\ Fairness

-----------------------------------------------------------------------------
(* Properties *)

(* Types; only a process that runs serves sockets, it is known to run or its *)
(* end is about to be known, and attempts are counted only while the timer  *)
(* runs.                                                                    *)
TypeOK ==
  /\ cfg \in [rad : BOOLEAN, aps : SUBSET Nodes] /\ Main \in cfg.aps
  /\ fsm \in [want : SUBSET Bits, commit : BOOLEAN, run : BOOLEAN, bits : SUBSET Bits]
  /\ dmn \in [up : BOOLEAN, timer : BOOLEAN, ended : BOOLEAN]
  /\ srv \in [alive : BOOLEAN, bss : SUBSET Nodes, live : SUBSET Nodes, file : SUBSET Nodes,
              conf : SUBSET Nodes, newif : SUBSET Others]
  /\ ifc \in [Nodes -> [enable : BOOLEAN, ready : BOOLEAN, term : BOOLEAN,
                        conn : {"closed", "half", "open", "dead"}]]
  /\ mgr \in [timer : BOOLEAN, tries : 0..MaxAttempts]
  /\ rad \in [up : BOOLEAN, told : BOOLEAN] /\ lost \subseteq Nodes
  /\ upset \subseteq {"gaveup", "missed"}
  /\ srv.live \subseteq srv.bss /\ (srv.bss # {} => srv.alive)
  /\ dmn.up <=> srv.alive \/ dmn.ended
  /\ mgr.tries > 0 => mgr.timer

(* An interface that counts as ready is attached to a socket that the running *)
(* hostapd serves, or the news that it is not are on their way; and while    *)
(* hostapd runs with no interface ready somebody goes on trying.             *)
Attached ==
  /\ \A i \in Ready(S0) :
       \/ ifc[i].conn = "open" /\ i \in srv.live
       \/ ifc[i].conn = "dead" /\ (ifc[i].term \/ dmn.ended)
  /\ srv.alive /\ Ready(S0) = {} => mgr.timer \/ "gaveup" \in upset

(* Left alone the radio comes to rest with hostapd running if it is enabled  *)
(* and not otherwise, the radio told of it, and the socket of every enabled  *)
(* access point that hostapd serves connected, but for those that were lost. *)
Broken(i) == ifc[i].conn \in {"half", "dead"}
Settled ==
  /\ ~fsm.commit /\ ~fsm.run
  /\ srv.alive <=> Startable(S0) \/ (srv.alive /\ upset # {})
  /\ Startable(S0) => rad.told \/ "gaveup" \in upset
  /\ Startable(S0) /\ upset = {} =>
       \A i \in Need(S0) \cap srv.bss : ifc[i].ready \/ i \in lost \/ Broken(i)
Settles == <>[]Settled

=============================================================================
