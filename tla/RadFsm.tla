------------------------------ MODULE RadFsm ------------------------------
(***************************************************************************)
(* The commit state machine of the radios (src/RadMgt/wld_rad_fsm.c), the  *)
(* commit and edit RPCs that start it (src/wld_radio.c) and the automatic  *)
(* commit manager that calls commit when a parameter has been edited       *)
(* (src/Utils/wld_autoCommitMgr.c).                                        *)
(*                                                                         *)
(* Every radio runs its own machine from its own timer; all run in one     *)
(* thread, so one handler is one step.  A machine collects the action bits *)
(* requested on the radio and on its interfaces (pend), takes the lock     *)
(* shared by all radios, moves the bits to the active worklists (ac) and   *)
(* executes them from the lowest bit up.  Requests go on arriving while    *)
(* the machine runs.                                                       *)
(*                                                                         *)
(* The dependency hooks of the vendor are NULL here.                       *)
(***************************************************************************)
EXTENDS Naturals, FiniteSets

CONSTANTS
  Radios,       \* the radios
  Vaps,         \* the access points
  Eps,          \* the end points
  RadOf,        \* the radio an interface belongs to
  Bits,         \* the action bits, 0 .. nrFsmBits - 1
  RadActs,      \* the bits with a doRadFsmAction
  VapActs,      \* the bits with a doVapFsmAction
  EpActs,       \* the bits with a doEpFsmAction
  Params,       \* the bits parameters request, as <<entity, bit>>
  MayFail,      \* the bits whose vendor actions can return false
  HasGlobalSync,\* does the vendor define waitGlobalSync
  ResetHook,    \* does the vendor register wld_rad_fsm_reset
  EditRadios,   \* the radios on which users call edit()
  AcmUsed,      \* do users configure the automatic commit manager
  MaxWait,      \* WLD_FSM_MAX_WAIT, the cycles spent waiting for configuration
  MaxComPend,   \* pending commits above which the machines are reset
  ComPendCap,   \* bound of the model on the pending commits
  NoRadio       \* the lock is free

Ifaces   == Vaps \cup Eps
Entities == Radios \cup Ifaces

ASSUME EntitiesAssumption ==
  /\ RadOf \in [Ifaces -> Radios]
  /\ Radios \cap Ifaces = {} /\ Vaps \cap Eps = {}
  /\ NoRadio \notin Radios

\* getLowestBitLongArray finds a lowest bit in every array that has one.
ASSUME BitsAssumption ==
  /\ Bits \subseteq Nat /\ Bits # {}
  /\ \A S \in SUBSET Bits : S # {} => \E b \in S : \A c \in S : b <= c
  /\ MayFail \subseteq Bits
  /\ Params \subseteq Entities \X Bits

ASSUME BoundsAssumption ==
  /\ MaxWait \in Nat /\ MaxComPend \in Nat /\ ComPendCap \in Nat
  /\ HasGlobalSync \in BOOLEAN /\ ResetHook \in BOOLEAN
  /\ EditRadios \subseteq Radios /\ AcmUsed \in BOOLEAN

VARIABLES
  st,        \* FSM_State of each radio
  busy,      \* fsm_radio_st # FSM_IDLE
  timer,     \* the timer of the machine exists (and is armed)
  retry,     \* FSM_Retry
  comPend,   \* FSM_ComPend
  pend,      \* FSM_BitActionArray of every entity: requested bits
  ac,        \* FSM_AC_BitActionArray: bits of the active commit
  csc,       \* FSM_AC_CSC: the bits as they were copied to ac
  syncAll,   \* FSM_SyncAll
  lock,      \* s_radioFSMLock, as the radio that holds it
  waiting,   \* s_radioFSMWaiting
  block,     \* blockCommit: "off", "on", or "expired" after BLOCK_COMMIT_TIMEOUT
  call,      \* call_id # 0: a commit() call waits for its deferred reply
  reply,     \* the outcome of the last commit() call
  acmEnable, \* AutoCommitMgr.Enable
  acmTimer   \* the auto commit timer: "none" (NULL), "idle" or "armed"

fsmVars == <<st, busy, timer, retry>>
bitVars == <<pend, ac, csc, syncAll>>
lockVars == <<lock, waiting>>
rpcVars == <<block, call, reply>>
acmVars == <<acmEnable, acmTimer>>
vars == <<fsmVars, comPend, bitVars, lockVars, rpcVars, acmVars>>

States == {"IDLE", "WAIT", "DEPENDENCY", "SYNC_GLOBAL", "RUN", "COMPEND", "FINISH"}

\* The states in which a machine is to hold the lock.
LockedStates == {"DEPENDENCY", "SYNC_GLOBAL", "RUN", "COMPEND"}

TypeOK ==
  /\ st \in [Radios -> States]
  /\ busy \in [Radios -> BOOLEAN]
  /\ timer \in [Radios -> BOOLEAN]
  /\ retry \in [Radios -> 0..MaxWait]
  /\ comPend \in [Radios -> Nat]
  /\ pend \in [Entities -> SUBSET Bits]
  /\ ac \in [Entities -> SUBSET Bits]
  /\ csc \in [Entities -> SUBSET Bits]
  /\ syncAll \in [Entities -> BOOLEAN]
  /\ lock \in Radios \cup {NoRadio}
  /\ waiting \in SUBSET Radios
  /\ block \in [Radios -> {"off", "on", "expired"}]
  /\ call \in [Radios -> BOOLEAN]
  /\ reply \in [Radios -> {"none", "ok", "error"}]
  /\ acmEnable \in BOOLEAN
  /\ acmTimer \in [Radios -> {"none", "idle", "armed"}]

---------------------------------------------------------------------------
(***************************************************************************)
(* The bit arrays.                                                         *)
(***************************************************************************)

IfacesOf(r) == {i \in Ifaces : RadOf[i] = r}
EntitiesOf(r) == {r} \cup IfacesOf(r)
RadioOf(e) == IF e \in Radios THEN e ELSE RadOf[e]

LowestBit(S) == CHOOSE b \in S : \A c \in S : b <= c

\* s_collectDependencies: what a commit of r would have to do.
Collected(r) ==
  IF \E e \in EntitiesOf(r) : syncAll[e] THEN Bits
  ELSE UNION {pend[e] : e \in EntitiesOf(r)}

\* s_checkCommitPending, the case in which the machine starts over.
CommitPending(r) == comPend[r] > 0 /\ Collected(r) # {}

---------------------------------------------------------------------------
Init ==
  /\ st = [r \in Radios |-> "IDLE"]
  /\ busy = [r \in Radios |-> FALSE]
  /\ timer = [r \in Radios |-> FALSE]
  /\ retry = [r \in Radios |-> 0]
  /\ comPend = [r \in Radios |-> 0]
  /\ pend = [e \in Entities |-> {}]
  /\ ac = [e \in Entities |-> {}]
  /\ csc = [e \in Entities |-> {}]
  /\ syncAll = [e \in Entities |-> e \in Radios \cup Vaps]
  /\ lock = NoRadio
  /\ waiting = {}
  /\ block = [r \in Radios |-> "off"]
  /\ call = [r \in Radios |-> FALSE]
  /\ reply = [r \in Radios |-> "none"]
  /\ acmEnable = FALSE
  /\ acmTimer = [r \in Radios |-> "none"]

---------------------------------------------------------------------------
(***************************************************************************)
(* The commit of a radio.                                                  *)
(***************************************************************************)

\* FSM_IDLE with bits to treat: the timer is created and the radio marked busy.
StartMachines(R) ==
  /\ st' = [r \in Radios |-> IF r \in R THEN "WAIT" ELSE st[r]]
  /\ busy' = [r \in Radios |-> r \in R \/ busy[r]]
  /\ timer' = [r \in Radios |-> r \in R \/ timer[r]]
  /\ retry' = [r \in Radios |-> IF r \in R THEN MaxWait ELSE retry[r]]

\* Mutant of ResetAll: the radios are not marked for a full synchronisation.
ResetAllUnsynced ==
  LET R == {r \in Radios : busy[r]} IN
  /\ StartMachines(R)
  /\ comPend' = [r \in Radios |-> IF r \in R THEN 0 ELSE comPend[r]]
  /\ lock' = IF ResetHook /\ lock \in R THEN NoRadio ELSE lock
  /\ UNCHANGED <<syncAll, waiting>>

\* doAllRadioReset: every machine that runs is stopped, its radio is marked
\* for a full synchronisation and started again; the worklists stay as they
\* are, and so does the lock unless the vendor registers wld_rad_fsm_reset.
ResetAll ==
  LET R == {r \in Radios : busy[r]} IN
  /\ StartMachines(R)
  /\ comPend' = [r \in Radios |-> IF r \in R THEN 0 ELSE comPend[r]]
  /\ syncAll' = [e \in Entities |-> e \in R \/ syncAll[e]]
  /\ lock' = IF ResetHook /\ lock \in R THEN NoRadio ELSE lock
  /\ UNCHANGED waiting

\* Does a reset answer the deferred call of r?
ResetAnswers(r) == busy[r] /\ call[r]

\* wld_rad_doRadioCommit on an idle radio: the machine starts if it has work.
CommitIdle(r) ==
  /\ ~busy[r] /\ ~timer[r]
  /\ StartMachines(IF Collected(r) # {} THEN {r} ELSE {})
  /\ UNCHANGED <<comPend, syncAll, lockVars>>

\* wld_rad_doRadioCommit on a busy radio: the commit is marked pending.
CommitBusy(r) ==
  /\ busy[r] \/ timer[r]
  /\ comPend[r] < ComPendCap
  /\ comPend' = [comPend EXCEPT ![r] = @ + 1]
  /\ UNCHANGED <<fsmVars, syncAll, lockVars>>

\* The same, with more than MaxComPend commits pending for over 30 seconds.
CommitStuck(r) ==
  /\ busy[r] \/ timer[r]
  /\ comPend[r] >= MaxComPend
  /\ ResetAll

\* The replies a reset sends to the calls that wait.
AnswerReset ==
  /\ call' = [r \in Radios |-> call[r] /\ ~ResetAnswers(r)]
  /\ reply' = [r \in Radios |-> IF ResetAnswers(r) THEN "error" ELSE reply[r]]

\* A commit asked by the code itself: nobody waits for the answer.
DoRadioCommit(r) ==
  \/ CommitIdle(r) /\ UNCHANGED <<call, reply>>
  \/ CommitBusy(r) /\ UNCHANGED <<call, reply>>
  \/ CommitStuck(r) /\ AnswerReset

\* wld_rad_doCommitIfUnblocked
DoCommitIfUnblocked(r) ==
  IF block[r] = "on"
  THEN UNCHANGED <<fsmVars, comPend, syncAll, lockVars, call, reply>>
  ELSE DoRadioCommit(r)

(***************************************************************************)
(* The RPCs of the data model.                                             *)
(***************************************************************************)

\* Radio.edit(): hold the commits back.
Edit(r) ==
  /\ r \in EditRadios
  /\ block' = [block EXCEPT ![r] = "on"]
  /\ UNCHANGED <<fsmVars, comPend, bitVars, lockVars, call, reply, acmVars>>

\* BLOCK_COMMIT_TIMEOUT seconds pass after edit().
EditExpires(r) ==
  /\ block[r] = "on"
  /\ block' = [block EXCEPT ![r] = "expired"]
  /\ UNCHANGED <<fsmVars, comPend, bitVars, lockVars, call, reply, acmVars>>

\* Radio.commit(): the answer is deferred when the machine goes to FSM_WAIT.
Commit(r) ==
  /\ block' = [block EXCEPT ![r] = "off"]
  /\ \/ /\ CommitIdle(r)
        /\ call' = [call EXCEPT ![r] = st'[r] = "WAIT"]
        /\ reply' = [reply EXCEPT ![r] = IF st'[r] = "WAIT" THEN "none" ELSE "ok"]
     \/ /\ CommitBusy(r)
        /\ reply' = [reply EXCEPT ![r] = "ok"]
        /\ UNCHANGED call
     \/ /\ CommitStuck(r)
        /\ call' = [s \in Radios |-> call[s] /\ ~ResetAnswers(s)]
        /\ reply' = [s \in Radios |-> IF s = r THEN "ok"
                                      ELSE IF ResetAnswers(s) THEN "error" ELSE reply[s]]
  /\ UNCHANGED <<pend, ac, csc, acmVars>>

\* Radio_Commit_Abort: the caller gives up.
CommitAbort(r) ==
  /\ call[r]
  /\ call' = [call EXCEPT ![r] = FALSE]
  /\ UNCHANGED <<fsmVars, comPend, bitVars, lockVars, block, reply, acmVars>>

(***************************************************************************)
(* The automatic commit manager.                                           *)
(***************************************************************************)

\* s_startRadioAutoCommit: does the timer of r get armed?
AutoCommitStarts(r) == acmEnable /\ acmTimer[r] = "idle" /\ comPend[r] = 0

NotifyEdit(r) ==
  acmTimer' = IF AutoCommitStarts(r) THEN [acmTimer EXCEPT ![r] = "armed"] ELSE acmTimer

\* A parameter is written: the handler requests a bit and notifies the manager.
SetParam(e, b) ==
  /\ <<e, b>> \in Params
  /\ pend' = [pend EXCEPT ![e] = @ \cup {b}]
  /\ NotifyEdit(RadioOf(e))
  /\ UNCHANGED <<fsmVars, comPend, ac, csc, syncAll, lockVars, rpcVars, acmEnable>>

\* A parameter that asks for the full synchronisation of the radio or the access point.
SetSyncAll(e) ==
  /\ e \notin Eps
  /\ syncAll' = [syncAll EXCEPT ![e] = TRUE]
  /\ NotifyEdit(RadioOf(e))
  /\ UNCHANGED <<fsmVars, comPend, pend, ac, csc, lockVars, rpcVars, acmEnable>>

\* s_autoCommit_th
AutoCommit(r) ==
  /\ acmTimer[r] = "armed"
  /\ acmTimer' = [acmTimer EXCEPT ![r] = "idle"]
  /\ DoCommitIfUnblocked(r)
  /\ UNCHANGED <<pend, ac, csc, block, acmEnable>>

\* Mutant of InitAutoCommit: the radios are not notified again.
InitAutoCommitSilent == acmTimer' = [r \in Radios |-> "idle"]

\* s_initAutoCommit: every timer is created or stopped, and armed again for
\* the radios that have a request of their own.
InitAutoCommit ==
  acmTimer' = [r \in Radios |->
    IF (syncAll[r] \/ pend[r] # {}) /\ comPend[r] = 0 THEN "armed" ELSE "idle"]

SetAcmEnable(enable) ==
  /\ AcmUsed /\ acmEnable # enable
  /\ acmEnable' = enable
  /\ IF enable THEN InitAutoCommit ELSE acmTimer' = [r \in Radios |-> "none"]
  /\ UNCHANGED <<fsmVars, comPend, bitVars, lockVars, rpcVars>>

\* DelayTime or BootDelayTime is written.
SetAcmDelay ==
  /\ acmEnable
  /\ InitAutoCommit
  /\ UNCHANGED <<fsmVars, comPend, bitVars, lockVars, rpcVars, acmEnable>>

(***************************************************************************)
(* The machine: s_fsmRun_thf runs wld_rad_fsm each time the timer expires. *)
(***************************************************************************)

\* Mutants of FsmWait: no limit to the cycles spent waiting, the lock taken from
\* the radio that holds it, the radio left among the waiting ones.
FsmWaitUnlimited(r) ==
  /\ timer[r] /\ st[r] = "WAIT"
  /\ retry' = [retry EXCEPT ![r] = @ - 1]
  /\ UNCHANGED <<st, busy, timer, comPend, bitVars, lockVars, rpcVars, acmVars>>

FsmWaitSteals(r) ==
  /\ timer[r] /\ st[r] = "WAIT"
  /\ lock' = r
  /\ waiting' = waiting \ {r}
  /\ st' = [st EXCEPT ![r] = "DEPENDENCY"]
  /\ UNCHANGED <<busy, timer, retry, comPend, bitVars, rpcVars, acmVars>>

FsmWaitKeepsMark(r) ==
  /\ timer[r] /\ st[r] = "WAIT"
  /\ IF lock \in {r, NoRadio}
     THEN lock' = r /\ st' = [st EXCEPT ![r] = "DEPENDENCY"] /\ UNCHANGED waiting
     ELSE waiting' = waiting \cup {r} /\ UNCHANGED <<st, lock>>
  /\ UNCHANGED <<busy, timer, retry, comPend, bitVars, rpcVars, acmVars>>

\* FSM_WAIT: wait while the access points, a WPS pairing or the persistent
\* configuration are not ready, MaxWait cycles at most; then poll the lock.
FsmWait(r) ==
  /\ timer[r] /\ st[r] = "WAIT"
  /\ \/ /\ retry[r] > 0
        /\ retry' = [retry EXCEPT ![r] = @ - 1]
        /\ UNCHANGED <<st, lockVars>>
     \/ /\ lock \in {r, NoRadio}
        /\ lock' = r
        /\ waiting' = IF lock = r THEN waiting ELSE waiting \ {r}
        /\ st' = [st EXCEPT ![r] = "DEPENDENCY"]
        /\ retry' = [retry EXCEPT ![r] = MaxWait]
     \/ /\ lock \notin {r, NoRadio}
        /\ waiting' = waiting \cup {r}
        /\ UNCHANGED <<st, retry, lock>>
  /\ UNCHANGED <<busy, timer, comPend, bitVars, rpcVars, acmVars>>

\* s_performSync: the bits of an interface once FSM_SyncAll is applied.
Synced(i) == IF syncAll[i] \/ syncAll[RadOf[i]] THEN Bits ELSE pend[i]

\* FSM_DEPENDENCY: the requests become the worklists of the active commit.
\* The interfaces also get the bits of the radio, and the radio gets those of
\* its interfaces.
FsmDependency(r) ==
  /\ timer[r] /\ st[r] = "DEPENDENCY"
  /\ csc' = [e \in Entities |-> IF e = r THEN pend[r]
                                ELSE IF e \in IfacesOf(r) THEN Synced(e) ELSE csc[e]]
  /\ ac' = [e \in Entities |->
              IF e = r THEN ac[r] \cup UNION {Synced(i) \cup pend[r] : i \in IfacesOf(r)}
              ELSE IF e \in IfacesOf(r) THEN Synced(e) \cup pend[r] ELSE ac[e]]
  /\ pend' = [e \in Entities |-> IF e \in EntitiesOf(r) THEN {} ELSE pend[e]]
  /\ syncAll' = [e \in Entities |-> e \notin EntitiesOf(r) /\ syncAll[e]]
  /\ comPend' = [comPend EXCEPT ![r] = 0]
  /\ st' = [st EXCEPT ![r] = IF HasGlobalSync THEN "SYNC_GLOBAL" ELSE "RUN"]
  /\ UNCHANGED <<busy, timer, retry, lockVars, rpcVars, acmVars>>

\* FSM_SYNC_GLOBAL: waitGlobalSync says that the radio may run (else it is
\* asked again at the next expiry).
FsmSyncGlobal(r) ==
  /\ timer[r] /\ st[r] = "SYNC_GLOBAL"
  /\ st' = [st EXCEPT ![r] = "RUN"]
  /\ UNCHANGED <<busy, timer, retry, comPend, bitVars, lockVars, rpcVars, acmVars>>

\* Mutants of RedoDependency: the requests that came meanwhile are overwritten,
\* the worklists are kept.
RedoDependencyOverwrites(r) ==
  /\ st[r] = "SYNC_GLOBAL"
  /\ pend' = [e \in Entities |-> IF e \in EntitiesOf(r) THEN csc[e] ELSE pend[e]]
  /\ ac' = [e \in Entities |-> IF e \in EntitiesOf(r) THEN {} ELSE ac[e]]
  /\ st' = [st EXCEPT ![r] = "DEPENDENCY"]
  /\ UNCHANGED <<busy, timer, retry, comPend, csc, syncAll, lockVars, rpcVars, acmVars>>

RedoDependencyKeeps(r) ==
  /\ st[r] = "SYNC_GLOBAL"
  /\ pend' = [e \in Entities |-> IF e \in EntitiesOf(r) THEN pend[e] \cup csc[e] ELSE pend[e]]
  /\ st' = [st EXCEPT ![r] = "DEPENDENCY"]
  /\ UNCHANGED <<busy, timer, retry, comPend, ac, csc, syncAll, lockVars, rpcVars, acmVars>>

\* wld_rad_fsm_redoDependency, called by the vendor: back to the requests.
RedoDependency(r) ==
  /\ st[r] = "SYNC_GLOBAL"
  /\ pend' = [e \in Entities |-> IF e \in EntitiesOf(r) THEN pend[e] \cup csc[e] ELSE pend[e]]
  /\ ac' = [e \in Entities |-> IF e \in EntitiesOf(r) THEN {} ELSE ac[e]]
  /\ st' = [st EXCEPT ![r] = "DEPENDENCY"]
  /\ UNCHANGED <<busy, timer, retry, comPend, csc, syncAll, lockVars, rpcVars, acmVars>>

\* Mutant of Executes: every interface with bits executes its lowest one.
ExecutesAny(i, bit) == ac[i] # {}

\* An interface executes its lowest bit when it is not above that of the radio.
Executes(i, bit) == ac[i] # {} /\ LowestBit(ac[i]) <= bit

ActsOf(i) == IF i \in Vaps THEN VapActs ELSE EpActs

\* The entities whose vendor action may return false in this cycle.
CanFail(r, bit) ==
  {e \in EntitiesOf(r) :
     IF e = r THEN bit \in RadActs \cap MayFail
     ELSE Executes(e, bit) /\ LowestBit(ac[e]) \in ActsOf(e) \cap MayFail}

\* Mutant of FsmRunBit: the radio does not mind failed actions.
FsmRunBitIgnoresFailure(r, bit, F) ==
  ac' = [e \in Entities |->
           IF e = r THEN ac[r] \ {bit}
           ELSE IF e \in IfacesOf(r) \ F /\ Executes(e, bit) THEN ac[e] \ {LowestBit(ac[e])}
           ELSE ac[e]]

\* FSM_RUN: one cycle over the radio and its interfaces for the lowest bit of
\* the radio; F is the set of those whose action fails.  The bit leaves the
\* worklist of the radio when nothing failed and no access point is behind.
FsmRunBit(r, bit, F) ==
  LET Left(i) == IF Executes(i, bit) /\ i \notin F THEN ac[i] \ {LowestBit(ac[i])} ELSE ac[i]
      Behind(v) == Executes(v, bit) /\ Left(v) # {} /\ LowestBit(Left(v)) <= bit
      done == F = {} /\ ~\E v \in IfacesOf(r) \cap Vaps : Behind(v)
  IN ac' = [e \in Entities |->
              IF e = r THEN (IF done THEN ac[r] \ {bit} ELSE ac[r])
              ELSE IF e \in IfacesOf(r) THEN Left(e) ELSE ac[e]]

FsmRun(r) ==
  /\ timer[r] /\ st[r] = "RUN"
  /\ \/ /\ ac[r] = {}
        /\ st' = [st EXCEPT ![r] = "COMPEND"]
        /\ UNCHANGED ac
     \/ /\ ac[r] # {}
        /\ \E F \in SUBSET CanFail(r, LowestBit(ac[r])) : FsmRunBit(r, LowestBit(ac[r]), F)
        /\ UNCHANGED st
  /\ UNCHANGED <<busy, timer, retry, comPend, pend, csc, syncAll, lockVars, rpcVars, acmVars>>

\* Mutants of FsmCompend: the lock is kept, the lock is kept while others wait.
FsmCompendKeepsLock(r) ==
  /\ timer[r] /\ st[r] = "COMPEND"
  /\ st' = [st EXCEPT ![r] = "FINISH"]
  /\ comPend' = [comPend EXCEPT ![r] = 0]
  /\ UNCHANGED <<busy, timer, retry, bitVars, lockVars, rpcVars, acmVars>>

FsmCompendFreesIfLast(r) ==
  /\ timer[r] /\ st[r] = "COMPEND"
  /\ st' = [st EXCEPT ![r] = "FINISH"]
  /\ comPend' = [comPend EXCEPT ![r] = 0]
  /\ lock' = IF lock = r /\ waiting = {} THEN NoRadio ELSE lock
  /\ UNCHANGED <<busy, timer, retry, bitVars, waiting, rpcVars, acmVars>>

\* FSM_COMPEND: start over under the same lock when commits are pending, or
\* release the lock.
FsmCompend(r) ==
  /\ timer[r] /\ st[r] = "COMPEND"
  /\ IF CommitPending(r)
     THEN /\ st' = [st EXCEPT ![r] = "DEPENDENCY"]
          /\ UNCHANGED <<comPend, lock>>
     ELSE /\ st' = [st EXCEPT ![r] = "FINISH"]
          /\ comPend' = [comPend EXCEPT ![r] = 0]
          /\ lock' = IF lock = r THEN NoRadio ELSE lock
  /\ UNCHANGED <<busy, timer, retry, bitVars, waiting, rpcVars, acmVars>>

\* Mutant of FsmFinish: the call that waits is not answered.
FsmFinishForgetsCall(r) ==
  /\ timer[r] /\ st[r] = "FINISH" /\ ~CommitPending(r)
  /\ st' = [st EXCEPT ![r] = "IDLE"]
  /\ comPend' = [comPend EXCEPT ![r] = 0]
  /\ busy' = [busy EXCEPT ![r] = FALSE]
  /\ timer' = [timer EXCEPT ![r] = FALSE]
  /\ UNCHANGED <<retry, bitVars, lockVars, rpcVars, acmVars>>

\* FSM_FINISH: wait for the lock again when commits are pending, or stop the
\* machine and answer the call that waits.
FsmFinish(r) ==
  /\ timer[r] /\ st[r] = "FINISH"
  /\ IF CommitPending(r)
     THEN /\ st' = [st EXCEPT ![r] = "WAIT"]
          /\ UNCHANGED <<busy, timer, comPend, call, reply>>
     ELSE /\ st' = [st EXCEPT ![r] = "IDLE"]
          /\ comPend' = [comPend EXCEPT ![r] = 0]
          /\ busy' = [busy EXCEPT ![r] = FALSE]
          /\ timer' = [timer EXCEPT ![r] = FALSE]
          /\ call' = [call EXCEPT ![r] = FALSE]
          /\ reply' = [reply EXCEPT ![r] = IF call[r] THEN "ok" ELSE @]
  /\ UNCHANGED <<retry, bitVars, lockVars, block, acmVars>>

---------------------------------------------------------------------------
FsmStep(r) ==
  \/ FsmWait(r) \/ FsmDependency(r) \/ FsmSyncGlobal(r) \/ FsmRun(r)
  \/ FsmCompend(r) \/ FsmFinish(r)

\* What users and the vendor ask, in any order.
Request ==
  \/ \E r \in Radios : Edit(r) \/ Commit(r) \/ CommitAbort(r) \/ RedoDependency(r)
  \/ \E e \in Entities : SetSyncAll(e) \/ \E b \in Bits : SetParam(e, b)
  \/ \E enable \in BOOLEAN : SetAcmEnable(enable)
  \/ SetAcmDelay

Timeout == \E r \in Radios : FsmStep(r) \/ AutoCommit(r) \/ EditExpires(r)

Next == Request \/ Timeout

Spec == Init /\ [][Next]_vars

\* The timers of the event loop expire; vendors let a machine leave
\* FSM_SYNC_GLOBAL.
Fairness == \A r \in Radios : WF_vars(FsmStep(r)) /\ WF_vars(AutoCommit(r))

FairSpec == Spec /\ Fairness
---------------------------------------------------------------------------
(***************************************************************************)
(* Safety.                                                                 *)
(***************************************************************************)

\* Mutual exclusion: from the dependency checks to the end of the worklist a
\* machine holds the lock, so no two radios configure at a time, whatever
\* resets happen in between.
LockExclusion == \A r \in Radios : st[r] \in LockedStates => lock = r

\* The lock is never left with a machine that will not come back for it.
LockNotLeaked == lock # NoRadio => st[lock] \notin {"IDLE", "FINISH"}

\* The busy mark of the radio, its timer, the call that waits and the pending
\* commits agree with the state: a machine is never marked busy without the
\* timer that moves it, no call waits for a machine that is idle, and an idle
\* machine has no pending commit that would hold back the automatic commit.
MachineCoherent == \A r \in Radios :
  /\ busy[r] <=> st[r] # "IDLE"
  /\ timer[r] <=> busy[r]
  /\ call[r] => busy[r]
  /\ comPend[r] > 0 => busy[r]

\* A radio is registered as waiting for the lock only while it polls it.
WaitingPolls == \A r \in waiting : st[r] = "WAIT" /\ lock # r

\* What the machines remember of each other and of their callers, in the lock,
\* the busy marks, the timers and the waiting calls, is true of the states
\* they are in, whatever resets, aborts and lost timers do in between: nobody
\* can wait for a machine that will never move.
NothingStrands == LockNotLeaked /\ MachineCoherent /\ WaitingPolls

\* What s_checkAcFsmBitsHandling checks, at all times: an interface has no bit
\* that its radio has not, else the machine would finish before it is done.
AcSubset == \A i \in Ifaces : ac[i] \subseteq ac[RadOf[i]]

\* Outside of an active commit nothing is left to do, or the radio is marked
\* for a full synchronisation: a reset in the middle of a commit cannot make
\* the next commit skip what was interrupted.
LeftoverSynced == \A r \in Radios :
  st[r] \notin {"SYNC_GLOBAL", "RUN"} =>
    syncAll[r] \/ \A e \in EntitiesOf(r) : ac[e] = {}

\* Actions are executed in ascending order over the radio and its interfaces:
\* nobody executes a bit while another has a lower one to do.
AscendingExecution == [][
  \A r \in Radios : \A e, x \in EntitiesOf(r) : \A b \in ac[e] \ ac'[e], c \in ac[x] :
    st[r] = "RUN" /\ st'[r] = "RUN" => b <= c]_vars

\* The machines together offer the service CommitService describes.
Service == INSTANCE CommitService WITH
  owner <- lock,
  todo <- [e \in Entities |-> pend[e] \cup ac[e]],
  OwnerOf <- [e \in Entities |-> RadioOf(e)],
  Actions <- Bits,
  Nobody <- NoRadio

\* No request is lost, and requests are served under the lock only.
ImplementsService == Service!Spec

(***************************************************************************)
(* Liveness.                                                               *)
(***************************************************************************)

\* Users stop asking: only timers act from some point on.
RequestsCease == <>[][Timeout]_vars

\* The machines then all come to rest, the lock is free and no call waits.
ComesToRest == RequestsCease =>
  <>[](lock = NoRadio /\ \A r \in Radios : st[r] = "IDLE" /\ ~call[r])

\* The changes the automatic commit manager is to commit on its own.
Uncommitted(e) == acmEnable /\ block[RadioOf(e)] = "off" /\ (syncAll[e] \/ pend[e] # {})

\* A change of a radio parameter is committed, by the automatic commit manager
\* if nobody else, even when the manager is switched on after the change or its
\* delays are changed meanwhile.
RadioEditsCommitted == RequestsCease => \A r \in Radios : <>[]~Uncommitted(r)

(***************************************************************************)
(* What the documentation says and the code does not do.                   *)
(***************************************************************************)

\* wld_definitions.odl on DelayTime: "The time in milliseconds between when the
\* first change happens that triggers the fsm, and triggering the commit".
DelayTimeCommits == RequestsCease => \A e \in Entities :
  acmTimer[RadioOf(e)] = "armed" /\ Uncommitted(e) ~> ~Uncommitted(e)
===========================================================================
