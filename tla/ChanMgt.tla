------------------------------ MODULE ChanMgt ------------------------------
(***************************************************************************)
(* Channel management of one 5 GHz radio: target and current channel and   *)
(* the setChanspec call (src/ChannelManagement/wld_chanmgt.c), background  *)
(* clearing (wld_bgdfs.c), the zero-wait machine that clears a channel     *)
(* before it moves there (wld_zwdfs.c), the generic plugin that applies a  *)
(* channel (src/Plugin/wifiGen_rad.c) and the handlers of the events of    *)
(* hostapd and of the driver (src/Plugin/wifiGen_eventHandlers.c).         *)
(*                                                                         *)
(* hostapd and the driver report on two sockets: the events of one keep    *)
(* their order, those of different ones do not.  A channel stands for a    *)
(* channel specification; bandwidths are not modelled.                     *)
(*                                                                         *)
(* The handlers call each other in the middle of their work, so they are   *)
(* operators on a record of all the variables, applied one after another.  *)
(***************************************************************************)
EXTENDS Naturals, FiniteSets, Sequences, SequencesExt

CONSTANTS
  Channels,     \* the possible channels of the radio
  Dfs,          \* those that need clearing before use
  Home,         \* the channel in use at the start, hostapd's way out on radar
  NoChan,       \* channel number 0
  Asks,         \* what users ask for
  Races,        \* do users and timers act while events wait to be handled
  MaxAsks,      \* how often users ask
  MaxRadars,    \* how often radar is seen
  MaxAborts     \* how often the driver gives up a background clearing

ASSUME ConstantsAssumption ==
  /\ Dfs \subseteq Channels /\ Home \in Channels \ Dfs /\ NoChan \notin Channels
  /\ Asks \subseteq {"direct", "deferred", "write", "bgStart", "bgStop", "preclear", "toggle"}
  /\ Races \in BOOLEAN
  /\ MaxAsks \in Nat /\ MaxRadars \in Nat /\ MaxAborts \in Nat

VARIABLES
  rad,          \* channel fields of the radio and its pending setChanspec call
  zw,           \* the zero-wait machine
  bg,           \* bgdfs_config
  band,         \* the PASSIVE and RADAR_DETECTED flags of the channels
  fsm,          \* the commit machine, reduced to the actions on hostapd
  hapd,         \* hostapd and the driver, and what they have reported
  left          \* how often the environment may still act

vars == <<rad, zw, bg, band, fsm, hapd, left>>

World == [rad |-> rad, zw |-> zw, bg |-> bg, band |-> band, fsm |-> fsm, hapd |-> hapd]

Become(world) ==
  \E w \in {world} :
    /\ rad' = w.rad /\ zw' = w.zw /\ bg' = w.bg
    /\ band' = w.band /\ fsm' = w.fsm /\ hapd' = w.hapd

Chan0 == Channels \cup {NoChan}

RadStates == {"DOWN", "UP", "FG_CAC", "BG_CAC", "BG_CAC_NS"}
Cac == {"FG_CAC", "BG_CAC", "BG_CAC_NS"}

\* In the order in which the commit machine executes them.
FsmActions == <<"STOP", "DISABLE", "CHANNEL", "ENABLE", "START", "SYNC">>

Events ==
  [type : {"switch", "cacStart", "cacDone", "cacFailed", "radar", "nopOver",
           "started", "aborted"}, chan : Channels]
    \cup [type : {"enabled", "disabled"}]

\* Types; a handler that sets the target to channel 0, to have it read from the
\* driver, has set it again when it returns.
TypeOK ==
  /\ rad.tgt # NoChan
  /\ rad \in [cur : Chan0, tgt : Chan0, channel : Channels,
              reason : {"MANUAL", "DFS", "INITIAL"},
              applied : {"unknown", "true", "false"},
              call : BOOLEAN, timer : BOOLEAN, answer : {"none", "ok", "error"},
              det : RadStates, prev : RadStates]
  /\ zw \in [state : {"INIT", "FG_CLEARING", "BG_CLEARING", "SWITCHING"},
             tgt : Chan0, direct : BOOLEAN, timer : BOOLEAN, restarts : 0 .. 3]
  /\ bg \in [status : {"OFF", "IDLE", "CLEAR"}, chan : Chan0, enable : BOOLEAN]
  /\ band \in [passive : SUBSET Dfs, radar : SUBSET Dfs]
  /\ fsm \in [bits : SUBSET Range(FsmActions), ac : SUBSET Range(FsmActions),
              run : BOOLEAN, commit : BOOLEAN]
  /\ hapd \in [alive : BOOLEAN, mode : {"DOWN", "CAC", "UP"}, chan : Channels, conf : Channels,
               csa : Chan0, bgCac : Chan0, cleared : SUBSET Dfs, nop : SUBSET Dfs,
               events : Seq(Events), nlEvents : Seq(Events)]
  /\ left \in [asks : 0 .. MaxAsks, radars : 0 .. MaxRadars, aborts : 0 .. MaxAborts]

Init ==
  /\ rad = [cur |-> Home, tgt |-> Home, channel |-> Home, reason |-> "MANUAL",
            applied |-> "true", call |-> FALSE, timer |-> FALSE, answer |-> "none",
            det |-> "UP", prev |-> "UP"]
  /\ zw = [state |-> "INIT", tgt |-> NoChan, direct |-> FALSE, timer |-> FALSE, restarts |-> 0]
  /\ bg = [status |-> "IDLE", chan |-> NoChan, enable |-> TRUE]
  /\ band = [passive |-> Dfs, radar |-> {}]
  /\ fsm = [bits |-> {}, ac |-> {}, run |-> FALSE, commit |-> FALSE]
  /\ hapd = [alive |-> TRUE, mode |-> "UP", chan |-> Home, conf |-> Home, csa |-> NoChan, bgCac |-> NoChan,
             cleared |-> {}, nop |-> {}, events |-> <<>>, nlEvents |-> <<>>]
  /\ left = [asks |-> MaxAsks, radars |-> MaxRadars, aborts |-> MaxAborts]

-----------------------------------------------------------------------------
(* Flags of the channels (wld_channel.c). *)

Usable(w, c) == c \in Channels \ (w.band.passive \cup w.band.radar)

Passive(w, c) == c \in w.band.passive \ w.band.radar

-----------------------------------------------------------------------------
(* hostapd and the driver, as the code uses them. *)

\* What hostapd says while its socket is not connected is lost.
Say(w, e) == IF w.hapd.alive THEN [w EXCEPT !.hapd.events = Append(@, e)] ELSE w
SayNl(w, e) == [w EXCEPT !.hapd.nlEvents = Append(@, e)]
About(t, c) == [type |-> t, chan |-> c]

DriverChannel(w) == IF w.hapd.mode = "DOWN" THEN NoChan ELSE w.hapd.chan

\* CHAN_SWITCH; the caller reads "accepted" from the reply.
CsaAccepted(w, c) ==
  /\ w.hapd.mode = "UP" /\ w.hapd.csa = NoChan
  /\ c \notin (Dfs \ w.hapd.cleared) \cup w.hapd.nop

ChanSwitch(w, c) == Say([w EXCEPT !.hapd.csa = c], About("switch", c))

\* The driver clears only what it does not hold as available.
BgCacAccepted(w, c) ==
  /\ w.hapd.mode = "UP" /\ w.hapd.bgCac = NoChan /\ w.hapd.csa = NoChan
  /\ c \in Dfs \ (w.hapd.cleared \cup w.hapd.nop)

BgCacStart(w, c) == SayNl([w EXCEPT !.hapd.bgCac = c], About("started", c))

\* A background clearing that is given up is reported on both sockets.
BgCacStop(w) ==
  IF w.hapd.bgCac = NoChan THEN w
  ELSE LET c == w.hapd.bgCac
       IN  Say(SayNl([w EXCEPT !.hapd.bgCac = NoChan], About("aborted", c)),
               About("cacFailed", c))

HostapdDisable(w) ==
  IF w.hapd.mode = "DOWN" THEN w
  ELSE Say(BgCacStop([w EXCEPT !.hapd.mode = "DOWN", !.hapd.csa = NoChan]),
           [type |-> "disabled"])

\* The channel on which hostapd comes up, and whether it has to clear it first.
ComeUp(w) ==
  LET c == IF w.hapd.conf \in w.hapd.nop THEN Home ELSE w.hapd.conf
  IN  [w EXCEPT !.hapd.chan = c,
                !.hapd.mode = IF c \in Dfs \ w.hapd.cleared THEN "CAC" ELSE "UP"]

HostapdEnable(w) ==
  LET v == ComeUp(w)
  IN  IF ~w.hapd.alive \/ w.hapd.mode # "DOWN" THEN w
      ELSE IF v.hapd.mode = "CAC" THEN Say(v, About("cacStart", v.hapd.chan))
           ELSE Say(v, [type |-> "enabled"])

\* The process ends: what it had not said is lost.
HostapdStop(w) ==
  [BgCacStop(w) EXCEPT !.hapd.alive = FALSE, !.hapd.mode = "DOWN", !.hapd.csa = NoChan,
                       !.hapd.events = <<>>]

\* The new process reads the target from the file.
HostapdStart(w) ==
  IF w.hapd.alive \/ w.hapd.mode # "DOWN" THEN w
  ELSE ComeUp([w EXCEPT !.hapd.conf = IF w.rad.tgt = NoChan THEN Home ELSE w.rad.tgt])

-----------------------------------------------------------------------------
(* Background clearing (wld_bgdfs.c) and the state of the radio. *)

BgRunning(w) == w.bg.status = "CLEAR"

ResetStatus(w) == [w EXCEPT !.bg.status = IF w.bg.enable THEN "IDLE" ELSE "OFF"]

NotifyClearStarted(w, c) == [w EXCEPT !.bg.chan = c, !.bg.status = "CLEAR"]

\* Mutant of NotifyClearEnded: the channel stays.
NotifyClearEndedKeepingChannel(w, result) ==
  ResetStatus([w EXCEPT !.band.passive = IF result = "OK" THEN @ \ {w.bg.chan} ELSE @])

NotifyClearEnded(w, result) ==
  ResetStatus([w EXCEPT !.band.passive = IF result = "OK" THEN @ \ {w.bg.chan} ELSE @,
                        !.bg.chan = NoChan])

IsUpExt(w) == w.rad.det \in Cac \cup {"UP"}

IsDoingDfsScan(w) == w.rad.det \in Cac \/ w.bg.chan # NoChan

\* wifiGen_rad_status()
RadioStatus(w) ==
  LET c == DriverChannel(w)
  IN  IF BgRunning(w) THEN w
      ELSE IF c = NoChan THEN [w EXCEPT !.rad.det = "DOWN"]
      ELSE IF Usable(w, c) /\ (w.hapd.mode = "UP" \/ IsUpExt(w))
           THEN [w EXCEPT !.rad.det = "UP"]
           ELSE w

\* What the zero-wait machine is told when the state of the radio changes.
StatusEvent(w, old) ==
  CASE w.rad.det = "DOWN" -> IF old \in Cac THEN "RADAR" ELSE "END"
    [] w.rad.det = "UP" -> IF old \in Cac /\ w.rad.tgt # NoChan /\ w.rad.tgt = w.zw.tgt
                           THEN "CLEAR_DONE" ELSE "END"
    [] OTHER -> "NONE"

\* The zero-wait machine, s_execFsm(), is defined below.
RECURSIVE Exec(_, _)

\* Whoever listens to the state is called before wld_rad_updateState() returns.
TellState(v) ==
  IF v.rad.det = v.rad.prev THEN v
  ELSE Exec([v EXCEPT !.rad.prev = v.rad.det], StatusEvent(v, v.rad.prev))

UpdateState(w) == TellState(RadioStatus(w))

\* wifiGen_rad_bgDfsStop()
BgDfsStop(w) ==
  IF BgRunning(w) THEN UpdateState(NotifyClearEnded(BgCacStop(w), "OTHER")) ELSE w

\* wifiGen_rad_bgDfsStartExt(); the clearing is noted when the driver reports it.
BgDfsStartOk(w, c) == IsUpExt(w) /\ ~BgRunning(w) /\ BgCacAccepted(w, c)

-----------------------------------------------------------------------------
(* Applying the target (wifiGen_rad.c) through the zero-wait machine.      *)

Commit(w) == [w EXCEPT !.fsm.commit = TRUE]

\* To the running commit, or to the next one, which is asked for.
Schedule(w, actions) ==
  IF w.fsm.run THEN [w EXCEPT !.fsm.ac = @ \cup actions]
  ELSE Commit([w EXCEPT !.fsm.bits = @ \cup actions])

Result(w, rc) == [world |-> w, rc |-> rc]

TargetRunning(w) == w.hapd.mode # "DOWN" /\ w.hapd.chan = w.rad.tgt

\* Warm with a channel switch, else cold by disabling and enabling hostapd.
ApplyTarget(w) ==
  LET cold == [w EXCEPT !.hapd.conf = w.rad.tgt]
      toggle == {"ENABLE"} \cup IF w.hapd.mode = "DOWN" THEN {} ELSE {"DISABLE"}
  IN  CASE ~w.hapd.alive -> Result(Schedule(w, {}), "OK")
        [] w.hapd.alive /\ TargetRunning(w) -> Result(w, "DONE")
        [] w.hapd.alive /\ ~TargetRunning(w) /\ w.hapd.mode # "DOWN" /\ Usable(w, w.rad.tgt) ->
             IF CsaAccepted(w, w.rad.tgt)
             THEN Result(Schedule(ChanSwitch(w, w.rad.tgt), {}), "DONE")
             ELSE Result(Schedule(w, {}), "ERROR")
        [] OTHER -> Result(Schedule(cold, toggle), "OK")

\* s_checkAndStartZwDfs()
NeedsClearing(w) ==
  w.rad.tgt \in Dfs /\ IsUpExt(w) /\ w.bg.status # "OFF" /\ Passive(w, w.rad.tgt) /\ w.bg.enable

\* wld_zwdfs_start(); a machine at work is stopped and started again later.
ZwStart(w, direct) ==
  LET v == [w EXCEPT !.zw.direct = direct]
  IN  IF w.zw.timer THEN Exec([v EXCEPT !.zw.restarts = @ + 1], "STOP")
      ELSE Exec([v EXCEPT !.zw.timer = TRUE], "START")

\* wifiGen_rad_setChanspec()
SetChanspec(w, direct) ==
  CASE NeedsClearing(w) -> Result(ZwStart(w, direct), "CONTINUE")
    [] ~NeedsClearing(w) /\ ~direct -> Result([w EXCEPT !.fsm.bits = @ \cup {"CHANNEL"}], "OK")
    [] OTHER -> ApplyTarget(w)

-----------------------------------------------------------------------------
(* The zero-wait machine (wld_zwdfs.c).  curState is set when the handler  *)
(* returns: what the handler calls meanwhile finds the old one.            *)

InState(w, s) == [w EXCEPT !.zw.state = s]

SwitchFrom(v) == InState(SetChanspec(v, v.zw.direct).world, "SWITCHING")

ClearFrom(v) ==
  IF BgDfsStartOk(v, v.rad.tgt) THEN InState(BgCacStart(v, v.rad.tgt), "BG_CLEARING")
  ELSE SwitchFrom(v)

\* Mutant of HandleStart: the target is not kept.
HandleStartWithoutTarget(w) ==
  CASE w.rad.det = "FG_CAC" -> InState(w, "FG_CLEARING")
    [] w.rad.det # "FG_CAC" /\ (~Passive(w, w.rad.tgt) \/ w.bg.status = "OFF") -> SwitchFrom(w)
    [] OTHER -> ClearFrom(BgDfsStop(w))

HandleStart(w) ==
  LET v == [w EXCEPT !.zw.tgt = w.rad.tgt]
  IN  CASE w.rad.det = "FG_CAC" -> InState(v, "FG_CLEARING")
        [] w.rad.det # "FG_CAC" /\ (~Passive(w, w.rad.tgt) \/ w.bg.status = "OFF") ->
             SwitchFrom(v)
        [] OTHER -> ClearFrom(BgDfsStop(v))

HandleClearDone(w) == InState(SetChanspec(w, TRUE).world, "SWITCHING")

HandleSwitched(w) == InState([w EXCEPT !.zw.tgt = NoChan, !.zw.timer = FALSE], "INIT")

HandleStop(w) ==
  InState([BgDfsStop([w EXCEPT !.zw.tgt = NoChan]) EXCEPT !.zw.timer = FALSE], "INIT")

\* s_execFsm() with the table s_zwdfs_fsmActions
Exec(w, event) ==
  LET s == w.zw.state
      Transition(events, states) == event \in events /\ s \in states
  IN  CASE \/ Transition({"START"}, {"INIT", "BG_CLEARING", "SWITCHING"})
           \/ Transition({"CLEAR_DONE", "RADAR"}, {"FG_CLEARING"}) -> HandleStart(w)
        [] Transition({"CLEAR_DONE"}, {"BG_CLEARING"}) -> HandleClearDone(w)
        [] \/ Transition({"STOP"}, {"FG_CLEARING", "BG_CLEARING", "SWITCHING"})
           \/ Transition({"RADAR"}, {"BG_CLEARING"}) -> HandleStop(w)
        [] Transition({"END"}, {"BG_CLEARING", "SWITCHING"}) -> HandleSwitched(w)
        [] OTHER -> w

-----------------------------------------------------------------------------
(* Target and current channel, and the pending call (wld_chanmgt.c).       *)

\* s_isTargetChanspecValid()
TargetValid(w, c) ==
  /\ ~(/\ w.rad.tgt = c
       /\ w.rad.applied = "unknown" \/ (w.rad.applied = "true" /\ w.rad.cur = c))
  /\ c \notin w.band.radar

\* What becomes of the target when the plugin has answered.
Concluded(r, commit) ==
  Result([r.world EXCEPT !.rad.applied = IF r.rc = "DONE" THEN "true" ELSE @,
                         !.fsm.commit = @ \/ (commit /\ r.rc # "ERROR")],
         r.rc)

\* wld_chanmgt_setTargetChanspec()
SetTarget(w, c, direct, reason) ==
  LET v == [w EXCEPT !.rad.channel = c, !.rad.tgt = c, !.rad.reason = reason,
                     !.rad.applied = "unknown"]
  IN  CASE ~TargetValid(w, c) -> Result(w, "ERROR")
        [] TargetValid(w, c) /\ reason = "INITIAL" -> Result(v, "OK")
        [] OTHER -> Concluded(SetChanspec(v, direct), ~direct)

\* s_setChanspecDone()
CallDone(w, ok) ==
  LET v == [w EXCEPT !.rad.applied = IF @ # "unknown" THEN @ ELSE IF ok THEN "true" ELSE "false"]
  IN  IF ~w.rad.call THEN v
      ELSE [v EXCEPT !.rad.call = FALSE, !.rad.timer = FALSE,
                     !.rad.answer = IF ok THEN "ok" ELSE "error"]

\* s_refreshCurrentChanspec()
RefreshCurrent(w, c) ==
  IF c = w.rad.cur THEN w
  ELSE Exec([w EXCEPT !.rad.cur = c, !.rad.channel = c,
                      !.rad.applied = IF w.rad.tgt = c THEN "true"
                                      ELSE IF @ = "unknown" THEN "false" ELSE @], "END")

\* Mutants of CheckTarget: the target is not filled again; any switch ends the call well.
CheckTargetForDfs(w, c, reason) ==
  LET v == IF w.rad.call THEN CallDone(w, w.rad.tgt = c /\ w.rad.reason = reason) ELSE w
  IN  IF reason = "DFS" /\ v.rad.tgt # c THEN SetTarget(v, c, FALSE, reason).world ELSE v

CheckTargetAnySwitch(w, c, reason) ==
  LET v == IF w.rad.call THEN CallDone(w, TRUE) ELSE w
  IN  IF \/ reason = "DFS" /\ v.rad.tgt # c
         \/ reason = "INITIAL" /\ v.rad.tgt = NoChan
      THEN SetTarget(v, c, FALSE, reason).world
      ELSE v

\* s_checkTargetChanspec()
CheckTarget(w, c, reason) ==
  LET v == IF w.rad.call THEN CallDone(w, w.rad.tgt = c /\ w.rad.reason = reason) ELSE w
  IN  IF \/ reason = "DFS" /\ v.rad.tgt # c
         \/ reason = "INITIAL" /\ v.rad.tgt = NoChan
      THEN SetTarget(v, c, FALSE, reason).world
      ELSE v

\* wld_chanmgt_reportCurrentChanspec()
ReportCurrent(w, c, reason) == CheckTarget(RefreshCurrent(w, c), c, reason)

-----------------------------------------------------------------------------
(* Events of hostapd and of the driver (wifiGen_eventHandlers.c).          *)

\* A channel that is not the one asked for, without anybody else's reason,
\* replaces the target.
SaveChanChanged(w, c, reason) ==
  LET forced == w.rad.reason = reason /\ w.rad.tgt # c
      v == [w EXCEPT !.rad.cur = IF @ = c THEN NoChan ELSE @]
      radar == v.rad.cur \in w.band.radar
  IN  ReportCurrent(IF ~forced THEN w ELSE IF radar THEN v ELSE [v EXCEPT !.rad.tgt = NoChan],
                    c,
                    IF ~forced THEN reason ELSE IF radar THEN "DFS" ELSE "INITIAL")

SyncCurrent(w, reason) ==
  IF DriverChannel(w) = NoChan THEN w ELSE SaveChanChanged(w, DriverChannel(w), reason)

\* Mutant of SaveHapdState: only hostapd being up is noted.
SaveHapdStateUp(w, s) ==
  IF ~IsUpExt(w) /\ s = "UP" THEN [w EXCEPT !.rad.det = s] ELSE w

\* s_saveHapdRadDetState()
SaveHapdState(w, s) ==
  IF ~IsUpExt(w) /\ (s = "UP" \/ ~IsDoingDfsScan(w)) THEN [w EXCEPT !.rad.det = s] ELSE w

\* s_syncOnRadUp(), when hostapd is up as expected
SyncOnRadUp(w) == Schedule(w, {"SYNC"})

\* wifiGen_rad_poschans(): the flags are read anew from the driver.
Poschans(w) ==
  [w EXCEPT !.band.passive = Dfs \ (w.hapd.cleared \cup w.hapd.nop),
            !.band.radar = w.hapd.nop]

ClearPassive(w, c) == [w EXCEPT !.band.passive = @ \ {c}]

\* s_mainApSetupCompletedCb()
ShowUp(v) ==
  LET u == SaveHapdState(ClearPassive(v, v.rad.channel), "UP")
  IN  IF v.rad.det # "UP" /\ u.rad.det = "UP" THEN SyncOnRadUp(u) ELSE u

\* Mutant of OnEnabled: the channel is not read.
OnEnabledUnread(w) == UpdateState(ShowUp(Poschans(w)))

OnEnabled(w) == UpdateState(ShowUp(SyncCurrent(Poschans(w), w.rad.reason)))

\* s_mainApDisabledCb()
ForgetCleared(v) == IF v.rad.det = "DOWN" THEN [v EXCEPT !.band.passive = Dfs] ELSE v

OnDisabled(w) == ForgetCleared(UpdateState(w))

\* s_mngrReadyCb(): the socket of hostapd is connected.
ShowHapdState(v) ==
  LET u == SaveHapdState(v, CASE v.hapd.mode = "UP" -> "UP"
                              [] v.hapd.mode = "CAC" -> "FG_CAC"
                              [] v.hapd.mode = "DOWN" -> "DOWN")
  IN  CASE v.hapd.mode = "UP" -> SyncOnRadUp(ClearPassive(u, u.rad.channel))
        [] v.hapd.mode # "UP" /\ u.rad.det = "DOWN" ->
             Commit([u EXCEPT !.fsm.bits = @ \cup {"ENABLE"}])
        [] OTHER -> u

OnReady(w) ==
  ShowHapdState(SyncCurrent(Poschans([w EXCEPT !.hapd.alive = TRUE]), w.rad.reason))

ShowClearing(v, c) ==
  [v EXCEPT !.band.passive = @ \cup {c},
            !.rad.det = CASE v.rad.cur = c -> "FG_CAC"
                          [] v.rad.cur # c /\ v.rad.tgt = c -> "BG_CAC"
                          [] OTHER -> "BG_CAC_NS"]

OnCacStarted(w, c) ==
  LET reason == IF w.rad.cur \in w.band.radar THEN "DFS" ELSE w.rad.reason
  IN  UpdateState(ShowClearing(IF BgRunning(w) THEN w ELSE SyncCurrent(w, reason), c))

EndClearing(w, result) == IF BgRunning(w) THEN NotifyClearEnded(w, result) ELSE w

OnCacDone(w, c) == UpdateState(EndClearing(ClearPassive(w, c), "OK"))

OnCacFailed(w, c) ==
  UpdateState(EndClearing([w EXCEPT !.rad.det = IF IsDoingDfsScan(w) /\ w.rad.channel = c
                                           THEN "DOWN" ELSE @], "OTHER"))

OnRadar(w, c) == UpdateState(EndClearing([w EXCEPT !.band.radar = @ \cup {c}], "RADAR"))

\* Mutant of OnNopOver: the channel need not be cleared again.
OnNopOverCleared(w, c) == [w EXCEPT !.band.radar = @ \ {c}]

OnNopOver(w, c) == [w EXCEPT !.band.radar = @ \ {c}, !.band.passive = @ \cup {c}]

HandleHapd(w, e) ==
  CASE e.type = "switch" -> SaveChanChanged(w, e.chan, w.rad.reason)
    [] e.type = "enabled" -> OnEnabled(w)
    [] e.type = "disabled" -> OnDisabled(w)
    [] e.type = "cacStart" -> OnCacStarted(w, e.chan)
    [] e.type = "cacDone" -> OnCacDone(w, e.chan)
    [] e.type = "cacFailed" -> OnCacFailed(w, e.chan)
    [] e.type = "radar" -> OnRadar(w, e.chan)
    [] e.type = "nopOver" -> OnNopOver(w, e.chan)

\* s_radarEvtCb()
HandleNl(w, e) ==
  CASE w.bg.status = "OFF" -> w
    [] e.type = "started" /\ w.bg.status = "IDLE" ->
         OnCacStarted(NotifyClearStarted(w, e.chan), e.chan)
    [] e.type = "aborted" /\ BgRunning(w) -> OnCacFailed(Exec(w, "STOP"), e.chan)
    [] e.type = "radar" /\ BgRunning(w) -> OnRadar(Exec(w, "STOP"), e.chan)
    [] OTHER -> w

HapdEvent ==
  /\ hapd.events # <<>>
  /\ Become(HandleHapd([World EXCEPT !.hapd.events = Tail(@)], Head(hapd.events)))
  /\ UNCHANGED left

Connected ==
  /\ ~hapd.alive /\ hapd.mode # "DOWN"
  /\ Become(OnReady(World))
  /\ UNCHANGED left

NlEvent ==
  /\ hapd.nlEvents # <<>>
  /\ Become(HandleNl([World EXCEPT !.hapd.nlEvents = Tail(@)], Head(hapd.nlEvents)))
  /\ UNCHANGED left

\* Everything that was reported has been handled.
Quiet == hapd.events = <<>> /\ hapd.nlEvents = <<>>

Calm == Races \/ Quiet

-----------------------------------------------------------------------------
(* The users. *)

Ask(a) ==
  /\ Calm
  /\ a \in Asks /\ left.asks > 0
  /\ left' = [left EXCEPT !.asks = @ - 1]

\* _Radio_setChanspec(): the call before it ends with an error.
Called(r, old, direct) ==
  IF r.rc = "ERROR" THEN r.world
  ELSE [IF old THEN CallDone(r.world, FALSE) ELSE r.world EXCEPT
          !.rad.call = TRUE, !.rad.timer = TRUE, !.rad.answer = "none",
          !.fsm.commit = @ \/ ~direct]

SetChanspecCall(c, direct) ==
  /\ Ask(IF direct THEN "direct" ELSE "deferred")
  /\ Become(Called(SetTarget(World, c, direct, "MANUAL"), rad.call, direct))

\* s_setChannel_pwf()
WriteChannel(c) ==
  /\ Ask("write")
  /\ c # rad.channel \/ rad.tgt = NoChan
  /\ Become(Commit(SetTarget(World, c, FALSE, "MANUAL").world))

StartBgDfsClear(c) ==
  /\ Ask("bgStart")
  /\ bg.enable /\ bg.chan = NoChan
  /\ BgDfsStartOk(World, c)
  /\ Become(BgCacStart(World, c))

StopBgDfsClear ==
  /\ Ask("bgStop")
  /\ bg.enable /\ bg.chan # NoChan
  /\ Become(BgDfsStop(World))

\* s_setEnable_pwf()
SetPreclearEnable(b) ==
  LET v == [World EXCEPT !.bg.enable = b]
  IN  /\ Ask("preclear")
      /\ bg.enable # b
      /\ Become(ResetStatus(IF b THEN v ELSE BgDfsStop(v)))

\* Another setting of the radio asks for disabling and enabling hostapd.
Toggle ==
  /\ Ask("toggle")
  /\ Become(Commit([World EXCEPT !.fsm.bits = @ \cup {"DISABLE", "ENABLE"}]))

-----------------------------------------------------------------------------
(* Timers and the commit machine. *)

\* Mutant of CallTimeout: the timer forgets to answer.
CallTimeoutSilent ==
  /\ Calm
  /\ rad.call /\ rad.timer
  /\ Become([World EXCEPT !.rad.timer = FALSE])
  /\ UNCHANGED left

\* s_setChanspecTimeout()
CallTimeout ==
  /\ Calm
  /\ rad.call /\ rad.timer
  /\ Become(CallDone(World, FALSE))
  /\ UNCHANGED left

\* Mutant of ZwTimeout: the machine is not stopped.
ZwTimeoutIgnored ==
  /\ Calm
  /\ zw.timer
  /\ Become([World EXCEPT !.zw.timer = FALSE])
  /\ UNCHANGED left

\* s_zwdfsTimeout()
ZwTimeout ==
  /\ Calm
  /\ zw.timer
  /\ Become(Exec([World EXCEPT !.zw.timer = FALSE], "STOP"))
  /\ UNCHANGED left

\* Mutant of ZwRestart: the restart stays planned.
ZwRestartAgain ==
  /\ Calm
  /\ zw.restarts > 0
  /\ Become(ZwStart(World, zw.direct))
  /\ UNCHANGED left

\* s_zwdfs_restart()
ZwRestart ==
  /\ Calm
  /\ zw.restarts > 0
  /\ Become(ZwStart([World EXCEPT !.zw.restarts = @ - 1], zw.direct))
  /\ UNCHANGED left

\* A radio that is to be up and is not restarts hostapd.
FsmCommit ==
  LET restart == IF IsUpExt(World) THEN {} ELSE {"STOP", "START"}
      lower == IF IsUpExt(World) THEN {} ELSE {"ENABLE"}
  IN  /\ Calm
      /\ fsm.commit /\ ~fsm.run
      /\ fsm' = [bits |-> {}, ac |-> (fsm.bits \cup restart) \ lower,
                 run |-> TRUE, commit |-> FALSE]
      /\ UNCHANGED <<rad, zw, bg, band, hapd, left>>

\* s_doSyncState()
SyncState(w) ==
  IF w.hapd.alive /\ w.rad.det = "DOWN"
       /\ (~Usable(w, w.rad.channel) \/ DriverChannel(w) = NoChan)
  THEN [w EXCEPT !.fsm.ac = @ \cup IF "START" \in @ THEN {} ELSE {"DISABLE", "ENABLE"}]
  ELSE w

DoAction(w, a) ==
  CASE a = "STOP" -> UpdateState(HostapdStop(w))
    [] a = "DISABLE" -> IF w.hapd.alive THEN HostapdDisable(w) ELSE w
    [] a = "CHANNEL" -> SetChanspec(w, TRUE).world
    [] a = "ENABLE" -> HostapdEnable(w)
    [] a = "START" -> HostapdStart(w)
    [] a = "SYNC" -> SyncState(w)

FsmStep ==
  LET i == CHOOSE n \in DOMAIN FsmActions :
             /\ FsmActions[n] \in fsm.ac
             /\ \A k \in 1 .. n - 1 : FsmActions[k] \notin fsm.ac
      v == DoAction(World, FsmActions[i])
  IN  /\ Calm
      /\ fsm.run /\ fsm.ac # {}
      /\ Become([v EXCEPT !.fsm.ac = @ \ {FsmActions[i]}])
      /\ UNCHANGED left

\* Mutant of FsmDone: the state of the radio is not looked at.
FsmDoneUnseen ==
  /\ Calm
  /\ fsm.run /\ fsm.ac = {}
  /\ Become([World EXCEPT !.fsm.run = FALSE])
  /\ UNCHANGED left

FsmDone ==
  /\ Calm
  /\ fsm.run /\ fsm.ac = {}
  /\ Become(UpdateState([World EXCEPT !.fsm.run = FALSE]))
  /\ UNCHANGED left

-----------------------------------------------------------------------------
(* hostapd and the driver. *)

CsaDone ==
  /\ Calm
  /\ hapd.csa # NoChan
  /\ Become(Say([World EXCEPT !.hapd.chan = hapd.csa, !.hapd.conf = hapd.csa,
                              !.hapd.csa = NoChan], About("switch", hapd.csa)))
  /\ UNCHANGED left

CacDone ==
  /\ Calm
  /\ hapd.mode = "CAC"
  /\ Become(Say(Say([World EXCEPT !.hapd.mode = "UP", !.hapd.cleared = @ \cup {hapd.chan}],
                    About("cacDone", hapd.chan)), [type |-> "enabled"]))
  /\ UNCHANGED left

BgCacDone ==
  /\ Calm
  /\ hapd.bgCac # NoChan
  /\ Become(Say([World EXCEPT !.hapd.bgCac = NoChan, !.hapd.cleared = @ \cup {hapd.bgCac}],
                About("cacDone", hapd.bgCac)))
  /\ UNCHANGED left

\* hostapd leaves a channel with radar for Home; a clearing in the background ends.
Radar(c) ==
  LET seen == [World EXCEPT !.hapd.nop = @ \cup {c}, !.hapd.cleared = @ \ {c}]
  IN  /\ Calm
      /\ left.radars > 0 /\ c \in Dfs \ hapd.nop
      /\ left' = [left EXCEPT !.radars = @ - 1]
      /\ \/ /\ hapd.bgCac = c
            /\ Become(Say(SayNl([seen EXCEPT !.hapd.bgCac = NoChan], About("radar", c)),
                          About("radar", c)))
         \/ /\ hapd.mode = "CAC" /\ hapd.chan = c
            /\ Become(Say(Say(Say([seen EXCEPT !.hapd.mode = "UP", !.hapd.chan = Home,
                                               !.hapd.conf = Home],
                                  About("radar", c)), About("cacFailed", c)),
                          [type |-> "enabled"]))
         \/ /\ hapd.mode = "UP" /\ hapd.chan = c /\ hapd.csa = NoChan
            /\ Become(ChanSwitch(Say(seen, About("radar", c)), Home))

BgCacAborted ==
  /\ Calm
  /\ left.aborts > 0 /\ hapd.bgCac # NoChan
  /\ Become(BgCacStop(World))
  /\ left' = [left EXCEPT !.aborts = @ - 1]

\* Half an hour later.
NopOver(c) ==
  /\ Quiet /\ ~fsm.run /\ ~fsm.commit /\ hapd.alive /\ hapd.csa = NoChan
  /\ c \in hapd.nop
  /\ Become(Say([World EXCEPT !.hapd.nop = @ \ {c}], About("nopOver", c)))
  /\ UNCHANGED left

-----------------------------------------------------------------------------
Timer == CallTimeout \/ ZwTimeout
Machine == FsmCommit \/ FsmStep \/ FsmDone
Users ==
  \/ \E c \in Channels : \/ \E direct \in BOOLEAN : SetChanspecCall(c, direct)
                         \/ WriteChannel(c)
                         \/ StartBgDfsClear(c)
  \/ StopBgDfsClear
  \/ \E b \in BOOLEAN : SetPreclearEnable(b)
  \/ Toggle
Outside == CsaDone \/ CacDone \/ BgCacDone \/ BgCacAborted
             \/ \E c \in Channels : Radar(c) \/ NopOver(c)

Next == HapdEvent \/ Connected \/ NlEvent \/ ZwRestart \/ Timer \/ Machine \/ Users \/ Outside

Spec == Init /\ [][Next]_vars

\* pwhm is one event loop: what is ready is served some time.  Weak fairness of
\* each of its actions and of the timers, with the guard of the action in place
\* of ENABLED: each of them changes the state whenever its guard holds.
Fairness ==
  /\ []<>(hapd.events = <<>>) \/ []<><<HapdEvent>>_vars
  /\ []<>~(~hapd.alive /\ hapd.mode # "DOWN") \/ []<><<Connected>>_vars
  /\ []<>(hapd.nlEvents = <<>>) \/ []<><<NlEvent>>_vars
  /\ []<>(~Calm \/ zw.restarts = 0) \/ []<><<ZwRestart>>_vars
  /\ []<>~(Calm /\ rad.call /\ rad.timer) \/ []<><<CallTimeout>>_vars
  /\ []<>~(Calm /\ zw.timer) \/ []<><<ZwTimeout>>_vars
  /\ []<>~(Calm /\ (fsm.commit \/ fsm.run)) \/ []<><<Machine>>_vars
  /\ []<>~(Calm /\ hapd.csa # NoChan) \/ []<><<CsaDone>>_vars
  /\ []<>~(Calm /\ hapd.mode = "CAC") \/ []<><<CacDone>>_vars
  /\ []<>~(Calm /\ hapd.bgCac # NoChan) \/ []<><<BgCacDone>>_vars

FairSpec == Spec /\ Fairness

-----------------------------------------------------------------------------
(* Safety. *)

\* The bookkeeping of background clearing never holds half a clearing, one that
\* it holds is one that the driver runs, and one that the zero-wait machine
\* waits for is that of its own target, whatever users started or stopped.
ClearingOwned ==
  /\ BgRunning(World) <=> bg.chan # NoChan
  /\ Quiet /\ BgRunning(World) =>
       /\ hapd.bgCac = bg.chan
       /\ zw.state = "BG_CLEARING" => bg.chan = zw.tgt

\* The data model takes a channel for usable only after the driver has cleared
\* it, and no longer than until the radar on it is reported.
UsableCleared ==
  hapd.alive => \A c \in Dfs : Usable(World, c) =>
    c \in hapd.cleared \/ About("radar", c) \in Range(hapd.events)

\* Once all reports are handled and no switch is under way, the data model shows
\* the channel that the radio is on, and that it is being cleared while hostapd
\* clears it before it comes up, through switches, radar and restarts.
ShownAsIs ==
  Quiet /\ hapd.alive /\ hapd.mode # "DOWN" =>
    /\ hapd.csa = NoChan => rad.cur = hapd.chan
    /\ hapd.mode = "CAC" => rad.det = "FG_CAC"

\* Nothing is under way: whatever happens next comes from a user, from radar or
\* from the end of a non-occupancy period.
Idle ==
  /\ Quiet /\ hapd.alive /\ hapd.mode # "CAC" /\ hapd.csa = NoChan /\ hapd.bgCac = NoChan
  /\ ~zw.timer /\ zw.restarts = 0 /\ ~rad.call /\ ~fsm.run /\ ~fsm.commit

\* Nothing is left waiting: away from INIT the zero-wait machine has its timer,
\* or a restart it has put off is still to come, although its handlers stop and
\* start it in the middle of their own work; and when nothing is under way
\* hostapd is up, zero-wait and background clearing are over, and everybody has
\* been told the state of the radio.  All of it is shown as it is.
IdleSettled ==
  /\ zw.state # "INIT" => zw.timer \/ zw.restarts > 0
  /\ Idle => hapd.mode = "UP" /\ zw.state = "INIT" /\ bg.chan = NoChan /\ rad.prev = rad.det
  /\ ShownAsIs

\* A call is answered with ok only when the radio is on the channel that was
\* the target until then, never on one that radar or a restart chose.
CallTruth ==
  [][rad.call /\ ~rad'.call /\ rad'.answer = "ok" => rad'.cur = rad.tgt]_vars

-----------------------------------------------------------------------------
(* Liveness. *)

\* However requests, clearings, radar and toggles of hostapd cross each other,
\* the radio ends up on the air, on the channel that the data model shows and
\* with its call answered.  Without radar it also shows that it is up: radar on
\* the current channel ends a clearing of another one only in the books of
\* wld_bgdfs.c, and the detailed status can then stay where it was.
Settles ==
  <>[](/\ Idle /\ hapd.mode = "UP" /\ rad.cur = hapd.chan
       /\ left.radars = MaxRadars => rad.det = "UP")

=============================================================================
