-------------------------- MODULE RadFsm_proofs --------------------------
(***************************************************************************)
(* Proofs about the commit state machines, for any radios, interfaces,     *)
(* action bits and limits.                                                 *)
(***************************************************************************)
EXTENDS RadFsm, TLAPS

LEMMA LowestBitIsLowest ==
  ASSUME NEW S \in SUBSET Bits, S # {}
  PROVE  LowestBit(S) \in S /\ \A c \in S : LowestBit(S) <= c
<1>1. \E b \in S : \A c \in S : b <= c  BY BitsAssumption
<1>2. QED  BY <1>1, Zenon DEF LowestBit

LEMMA EntitiesType ==
  ASSUME NEW r \in Radios
  PROVE  /\ r \in Entities /\ EntitiesOf(r) \subseteq Entities
         /\ IfacesOf(r) \subseteq Ifaces /\ r \notin Ifaces
         /\ \A i \in Ifaces : RadOf[i] \in Radios /\ i \in Entities /\ i \notin Radios
BY EntitiesAssumption DEF Entities, EntitiesOf, IfacesOf, Ifaces

---------------------------------------------------------------------------
(***************************************************************************)
(* Types.                                                                  *)
(***************************************************************************)

LEMMA StartMachinesType ==
  ASSUME TypeOK, NEW R \in SUBSET Radios, StartMachines(R)
  PROVE  /\ st' \in [Radios -> States] /\ busy' \in [Radios -> BOOLEAN]
         /\ timer' \in [Radios -> BOOLEAN] /\ retry' \in [Radios -> 0..MaxWait]
BY BoundsAssumption DEF TypeOK, StartMachines, States

LEMMA ResetAllType ==
  ASSUME TypeOK, ResetAll
  PROVE  /\ st' \in [Radios -> States] /\ busy' \in [Radios -> BOOLEAN]
         /\ timer' \in [Radios -> BOOLEAN] /\ retry' \in [Radios -> 0..MaxWait]
         /\ comPend' \in [Radios -> Nat] /\ syncAll' \in [Entities -> BOOLEAN]
         /\ lock' \in Radios \cup {NoRadio} /\ waiting' \in SUBSET Radios
<1> DEFINE R == {r \in Radios : busy[r]}
<1>1. StartMachines(R)  BY DEF ResetAll
<1>2. /\ st' \in [Radios -> States] /\ busy' \in [Radios -> BOOLEAN]
      /\ timer' \in [Radios -> BOOLEAN] /\ retry' \in [Radios -> 0..MaxWait]
  BY <1>1, StartMachinesType
<1>3. comPend' \in [Radios -> Nat]  BY DEF ResetAll, TypeOK
<1>4. syncAll' \in [Entities -> BOOLEAN]  BY DEF ResetAll, TypeOK
<1>5. lock' \in Radios \cup {NoRadio} /\ waiting' \in SUBSET Radios
  BY DEF ResetAll, TypeOK
<1>6. QED  BY <1>2, <1>3, <1>4, <1>5

\* What a commit may change, whoever asks for it.
LEMMA CommitType ==
  ASSUME TypeOK, NEW r \in Radios, CommitIdle(r) \/ CommitBusy(r) \/ CommitStuck(r)
  PROVE  /\ st' \in [Radios -> States] /\ busy' \in [Radios -> BOOLEAN]
         /\ timer' \in [Radios -> BOOLEAN] /\ retry' \in [Radios -> 0..MaxWait]
         /\ comPend' \in [Radios -> Nat] /\ syncAll' \in [Entities -> BOOLEAN]
         /\ lock' \in Radios \cup {NoRadio} /\ waiting' \in SUBSET Radios
<1>1. CASE CommitIdle(r)
  <2>1. PICK R \in SUBSET Radios : StartMachines(R)
    BY <1>1 DEF CommitIdle
  <2>2. UNCHANGED <<comPend, syncAll, lock, waiting>>
    BY <1>1 DEF CommitIdle, lockVars
  <2>3. QED  BY <2>1, <2>2, StartMachinesType DEF TypeOK
<1>2. CASE CommitBusy(r)
  BY <1>2 DEF CommitBusy, TypeOK, fsmVars, lockVars
<1>3. CASE CommitStuck(r)
  BY <1>3, ResetAllType DEF CommitStuck
<1>4. QED  BY <1>1, <1>2, <1>3

LEMMA AnswerResetType ==
  ASSUME TypeOK, AnswerReset
  PROVE  call' \in [Radios -> BOOLEAN] /\ reply' \in [Radios -> {"none", "ok", "error"}]
BY DEF AnswerReset, TypeOK

LEMMA NotifyEditType ==
  ASSUME TypeOK, NEW r \in Radios, NotifyEdit(r)
  PROVE  acmTimer' \in [Radios -> {"none", "idle", "armed"}]
BY DEF NotifyEdit, TypeOK

LEMMA RequestType ==
  ASSUME TypeOK, Request
  PROVE  TypeOK'
<1> USE DEF fsmVars, bitVars, lockVars, rpcVars, acmVars
<1>1. ASSUME NEW r \in Radios, Edit(r) PROVE TypeOK'
  BY <1>1 DEF Edit, TypeOK
<1>2. ASSUME NEW r \in Radios, Commit(r) PROVE TypeOK'
  <2>1. CommitIdle(r) \/ CommitBusy(r) \/ CommitStuck(r)
    BY <1>2 DEF Commit
  <2>2. block' \in [Radios -> {"off", "on", "expired"}]
    BY <1>2 DEF Commit, TypeOK
  <2>3. UNCHANGED <<pend, ac, csc, acmEnable, acmTimer>>
    BY <1>2 DEF Commit
  <2>4. call' \in [Radios -> BOOLEAN]
    BY <1>2 DEF Commit, TypeOK
  <2>5. reply' \in [Radios -> {"none", "ok", "error"}]
    BY <1>2 DEF Commit, TypeOK
  <2>6. QED  BY <2>1, <2>2, <2>3, <2>4, <2>5, CommitType DEF TypeOK
<1>3. ASSUME NEW r \in Radios, CommitAbort(r) PROVE TypeOK'
  BY <1>3 DEF CommitAbort, TypeOK
<1>4. ASSUME NEW r \in Radios, RedoDependency(r) PROVE TypeOK'
  <2>1. pend' \in [Entities -> SUBSET Bits] /\ ac' \in [Entities -> SUBSET Bits]
    BY <1>4 DEF RedoDependency, TypeOK
  <2>2. QED  BY <1>4, <2>1 DEF RedoDependency, TypeOK, States
<1>5. ASSUME NEW e \in Entities, SetSyncAll(e) PROVE TypeOK'
  <2>1. RadioOf(e) \in Radios
    BY EntitiesAssumption DEF RadioOf, Entities
  <2>2. QED  BY <1>5, <2>1, NotifyEditType DEF SetSyncAll, TypeOK
<1>6. ASSUME NEW e \in Entities, NEW b \in Bits, SetParam(e, b) PROVE TypeOK'
  <2>1. RadioOf(e) \in Radios
    BY EntitiesAssumption DEF RadioOf, Entities
  <2>2. QED  BY <1>6, <2>1, NotifyEditType DEF SetParam, TypeOK
<1>7. ASSUME NEW enable \in BOOLEAN, SetAcmEnable(enable) PROVE TypeOK'
  BY <1>7 DEF SetAcmEnable, InitAutoCommit, TypeOK
<1>8. CASE SetAcmDelay
  BY <1>8 DEF SetAcmDelay, InitAutoCommit, TypeOK
<1>9. QED  BY <1>1, <1>2, <1>3, <1>4, <1>5, <1>6, <1>7, <1>8 DEF Request

\* What one cycle of FSM_RUN does to the worklists.
LEMMA RunBitEffect ==
  ASSUME TypeOK, NEW r \in Radios, NEW bit, NEW F, FsmRunBit(r, bit, F)
  PROVE  /\ ac' \in [Entities -> SUBSET Bits]
         /\ ac'[r] = ac[r] \/ (F = {} /\ ac'[r] = ac[r] \ {bit})
         /\ \A i \in IfacesOf(r) :
              IF Executes(i, bit) /\ i \notin F
              THEN ac'[i] = ac[i] \ {LowestBit(ac[i])} ELSE ac'[i] = ac[i]
         /\ \A e \in Entities \ EntitiesOf(r) : ac'[e] = ac[e]
<1> DEFINE Left(i) == IF Executes(i, bit) /\ i \notin F THEN ac[i] \ {LowestBit(ac[i])} ELSE ac[i]
           Behind(v) == Executes(v, bit) /\ Left(v) # {} /\ LowestBit(Left(v)) <= bit
           done == F = {} /\ ~\E v \in IfacesOf(r) \cap Vaps : Behind(v)
<1>1. ac' = [e \in Entities |->
              IF e = r THEN (IF done THEN ac[r] \ {bit} ELSE ac[r])
              ELSE IF e \in IfacesOf(r) THEN Left(e) ELSE ac[e]]
  BY DEF FsmRunBit
<1>2. done => F = {}
  OBVIOUS
<1>3. \A e \in Entities : Left(e) \in SUBSET Bits
  BY DEF TypeOK
<1> HIDE DEF Left, done
<1>4. ac' \in [Entities -> SUBSET Bits]
  BY <1>1, <1>3, EntitiesType DEF TypeOK
<1>5. ac'[r] = ac[r] \/ (F = {} /\ ac'[r] = ac[r] \ {bit})
  BY <1>1, <1>2, EntitiesType
<1>6. \A i \in IfacesOf(r) : ac'[i] = Left(i)
  BY <1>1, EntitiesType
<1>7. \A e \in Entities \ EntitiesOf(r) : ac'[e] = ac[e]
  BY <1>1 DEF EntitiesOf
<1>8. QED  BY <1>4, <1>5, <1>6, <1>7 DEF Left

LEMMA RunType ==
  ASSUME TypeOK, NEW r \in Radios, FsmRun(r)
  PROVE  ac' \in [Entities -> SUBSET Bits]
<1>1. CASE UNCHANGED ac
  BY <1>1 DEF TypeOK
<1>2. ASSUME NEW bit, NEW F, FsmRunBit(r, bit, F) PROVE ac' \in [Entities -> SUBSET Bits]
  BY <1>2, RunBitEffect
<1>3. QED  BY <1>1, <1>2 DEF FsmRun

LEMMA FsmStepType ==
  ASSUME TypeOK, NEW r \in Radios, FsmStep(r)
  PROVE  TypeOK'
<1> USE DEF fsmVars, bitVars, lockVars, rpcVars, acmVars
<1>1. CASE FsmWait(r)
  BY <1>1, BoundsAssumption DEF FsmWait, TypeOK, States
<1>2. CASE FsmDependency(r)
  <2>1. \A i \in Ifaces : Synced(i) \subseteq Bits
    BY EntitiesAssumption DEF Synced, TypeOK, Entities
  <2>2. csc' \in [Entities -> SUBSET Bits]
    BY <1>2, <2>1, EntitiesType DEF FsmDependency, TypeOK
  <2>3. ac' \in [Entities -> SUBSET Bits]
    BY <1>2, <2>1, EntitiesType DEF FsmDependency, TypeOK
  <2>4. QED  BY <1>2, <2>2, <2>3 DEF FsmDependency, TypeOK, States
<1>3. CASE FsmSyncGlobal(r)
  BY <1>3 DEF FsmSyncGlobal, TypeOK, States
<1>4. CASE FsmRun(r)
  BY <1>4, RunType DEF FsmRun, TypeOK, States
<1>5. CASE FsmCompend(r)
  BY <1>5 DEF FsmCompend, TypeOK, States
<1>6. CASE FsmFinish(r)
  <2>1. UNCHANGED <<retry, pend, ac, csc, syncAll, lock, waiting, block, acmEnable, acmTimer>>
    BY <1>6 DEF FsmFinish
  <2>2. CASE CommitPending(r)
    BY <1>6, <2>1, <2>2 DEF FsmFinish, TypeOK, States
  <2>3. CASE ~CommitPending(r)
    <3>1. /\ st' = [st EXCEPT ![r] = "IDLE"]
          /\ comPend' = [comPend EXCEPT ![r] = 0]
          /\ busy' = [busy EXCEPT ![r] = FALSE]
          /\ timer' = [timer EXCEPT ![r] = FALSE]
          /\ call' = [call EXCEPT ![r] = FALSE]
          /\ reply' = [reply EXCEPT ![r] = IF call[r] THEN "ok" ELSE reply[r]]
      BY <1>6, <2>3 DEF FsmFinish
    <3>2. (IF call[r] THEN "ok" ELSE reply[r]) \in {"none", "ok", "error"}
      BY DEF TypeOK
    <3>3. QED  BY <2>1, <3>1, <3>2 DEF TypeOK, States
  <2>4. QED  BY <2>2, <2>3
<1>7. QED  BY <1>1, <1>2, <1>3, <1>4, <1>5, <1>6 DEF FsmStep

LEMMA TimeoutType ==
  ASSUME TypeOK, Timeout
  PROVE  TypeOK'
<1> USE DEF fsmVars, bitVars, lockVars, rpcVars, acmVars
<1>1. ASSUME NEW r \in Radios, EditExpires(r) PROVE TypeOK'
  BY <1>1 DEF EditExpires, TypeOK
<1>2. ASSUME NEW r \in Radios, AutoCommit(r) PROVE TypeOK'
  <2>1. acmTimer' \in [Radios -> {"none", "idle", "armed"}]
        /\ UNCHANGED <<pend, ac, csc, block, acmEnable>>
    BY <1>2 DEF AutoCommit, TypeOK
  <2>2. CASE DoRadioCommit(r)
    <3>1. CommitIdle(r) \/ CommitBusy(r) \/ CommitStuck(r)
      BY <2>2 DEF DoRadioCommit
    <3>2. call' \in [Radios -> BOOLEAN] /\ reply' \in [Radios -> {"none", "ok", "error"}]
      BY <2>2, AnswerResetType DEF DoRadioCommit, TypeOK
    <3>3. QED  BY <2>1, <3>1, <3>2, CommitType DEF TypeOK
  <2>3. CASE UNCHANGED <<fsmVars, comPend, syncAll, lockVars, call, reply>>
    BY <2>1, <2>3 DEF TypeOK
  <2>4. QED  BY <1>2, <2>2, <2>3 DEF AutoCommit, DoCommitIfUnblocked
<1>3. QED  BY <1>1, <1>2, FsmStepType DEF Timeout

LEMMA InitType == Init => TypeOK
<1> SUFFICES ASSUME Init PROVE TypeOK
  OBVIOUS
<1>1. syncAll \in [Entities -> BOOLEAN]
  BY DEF Init
<1>2. st \in [Radios -> States] /\ retry \in [Radios -> 0..MaxWait]
  BY BoundsAssumption DEF Init, States
<1>3. QED  BY <1>1, <1>2 DEF Init, TypeOK

\* Every reachable state has its type: the retry count never goes below zero
\* and never above WLD_FSM_MAX_WAIT, whatever resets and restarts happen.
THEOREM TypeCorrect == Spec => []TypeOK
<1>1. TypeOK /\ [Next]_vars => TypeOK'
  <2>1. TypeOK /\ UNCHANGED vars => TypeOK'
    BY DEF vars, fsmVars, bitVars, lockVars, rpcVars, acmVars, TypeOK
  <2>2. QED  BY <2>1, RequestType, TimeoutType DEF Next
<1>2. QED  BY InitType, <1>1, PTL DEF Spec

---------------------------------------------------------------------------
(***************************************************************************)
(* The lock.                                                               *)
(***************************************************************************)

Coherent == \A r \in Radios :
  (busy[r] <=> st[r] # "IDLE") /\ (timer[r] <=> busy[r]) /\ (comPend[r] > 0 => busy[r])

LockInv == LockExclusion /\ LockNotLeaked /\ Coherent /\ WaitingPolls

CallInv == \A r \in Radios : call[r] => busy[r]

LEMMA ResetAllLock ==
  ASSUME TypeOK, LockInv, ResetAll
  PROVE  LockInv' /\ \A r \in Radios : busy'[r] = busy[r]
<1>1. \A r \in Radios : st'[r] = (IF busy[r] THEN "WAIT" ELSE st[r])
                        /\ busy'[r] = busy[r] /\ timer'[r] = (busy[r] \/ timer[r])
                        /\ comPend'[r] = IF busy[r] THEN 0 ELSE comPend[r]
  BY DEF ResetAll, StartMachines, TypeOK
<1>2. waiting' = waiting /\ lock' \in {lock, NoRadio}
  BY DEF ResetAll
<1>3. \A r \in Radios : st[r] # "IDLE" <=> busy[r]
  BY DEF LockInv, Coherent, TypeOK
<1>4. LockExclusion'
  BY <1>1, <1>3 DEF LockExclusion, LockedStates
<1>5. LockNotLeaked'
  BY <1>1, <1>2, <1>3 DEF LockInv, LockNotLeaked, TypeOK
<1>6. Coherent'
  BY <1>1, <1>3 DEF LockInv, Coherent, TypeOK
<1>7. WaitingPolls'
  BY <1>1, <1>2, <1>3, EntitiesAssumption DEF LockInv, WaitingPolls, TypeOK
<1>8. QED  BY <1>1, <1>4, <1>5, <1>6, <1>7 DEF LockInv

LEMMA CommitLock ==
  ASSUME TypeOK, LockInv, NEW r \in Radios, CommitIdle(r) \/ CommitBusy(r) \/ CommitStuck(r)
  PROVE  LockInv' /\ \A s \in Radios : busy[s] => busy'[s]
<1>1. CASE CommitIdle(r)
  <2>1. PICK R \in SUBSET {r} : StartMachines(R)
    BY <1>1 DEF CommitIdle
  <2>2. st[r] = "IDLE" /\ ~busy[r]
    BY <1>1 DEF CommitIdle, LockInv, Coherent, TypeOK
  <2>3. UNCHANGED <<comPend, lock, waiting>>
    BY <1>1 DEF CommitIdle, lockVars
  <2>4. \A s \in Radios : /\ st'[s] = IF s \in R THEN "WAIT" ELSE st[s]
                          /\ busy'[s] = (s \in R \/ busy[s])
                          /\ timer'[s] = (s \in R \/ timer[s])
    BY <2>1 DEF StartMachines
  <2>5. LockExclusion' /\ LockNotLeaked'
    BY <2>2, <2>3, <2>4 DEF LockInv, LockExclusion, LockNotLeaked, LockedStates, TypeOK
  <2>6. Coherent'
    BY <2>2, <2>3, <2>4 DEF LockInv, Coherent, TypeOK
  <2>7. WaitingPolls'
    BY <2>2, <2>3, <2>4 DEF LockInv, WaitingPolls, TypeOK
  <2>8. QED  BY <2>4, <2>5, <2>6, <2>7 DEF LockInv
<1>2. CASE CommitBusy(r)
  <2>1. busy[r] /\ UNCHANGED <<st, busy, timer, lock, waiting>>
    BY <1>2 DEF CommitBusy, fsmVars, lockVars, LockInv, Coherent, TypeOK
  <2>2. comPend' = [comPend EXCEPT ![r] = @ + 1]
    BY <1>2 DEF CommitBusy
  <2>3. Coherent'
    BY <2>1, <2>2 DEF LockInv, Coherent, TypeOK
  <2>4. QED  BY <2>1, <2>3 DEF LockInv, LockExclusion, LockNotLeaked, WaitingPolls
<1>3. CASE CommitStuck(r)
  BY <1>3, ResetAllLock DEF CommitStuck
<1>4. QED  BY <1>1, <1>2, <1>3

LEMMA RequestLock ==
  ASSUME TypeOK, LockInv, CallInv, Request
  PROVE  LockInv' /\ CallInv'
<1> USE DEF fsmVars, bitVars, lockVars, rpcVars, acmVars
<1>1. ASSUME UNCHANGED <<st, busy, timer, comPend, lock, waiting, call>>
      PROVE LockInv' /\ CallInv'
  BY <1>1 DEF LockInv, CallInv, LockExclusion, LockNotLeaked, Coherent, WaitingPolls
<1>2. ASSUME NEW r \in Radios, Edit(r) PROVE LockInv' /\ CallInv'
  BY <1>1, <1>2 DEF Edit
<1>3. ASSUME NEW r \in Radios, Commit(r) PROVE LockInv' /\ CallInv'
  <2>1. CommitIdle(r) \/ CommitBusy(r) \/ CommitStuck(r)
    BY <1>3 DEF Commit
  <2>2. LockInv' /\ \A s \in Radios : busy[s] => busy'[s]
    BY <2>1, CommitLock
  <2>3. \A s \in Radios : call'[s] => call[s] \/ st'[s] # "IDLE"
    BY <1>3 DEF Commit, TypeOK
  <2>4. CallInv'
    BY <2>2, <2>3 DEF CallInv, LockInv, Coherent
  <2>5. QED  BY <2>2, <2>4
<1>4. ASSUME NEW r \in Radios, CommitAbort(r) PROVE LockInv' /\ CallInv'
  <2>1. LockInv'
    BY <1>4 DEF CommitAbort, LockInv, LockExclusion, LockNotLeaked, Coherent, WaitingPolls
  <2>2. CallInv'
    BY <1>4 DEF CommitAbort, CallInv, TypeOK
  <2>3. QED  BY <2>1, <2>2
<1>5. ASSUME NEW r \in Radios, RedoDependency(r) PROVE LockInv' /\ CallInv'
  <2>1. st[r] = "SYNC_GLOBAL" /\ st' = [st EXCEPT ![r] = "DEPENDENCY"]
        /\ UNCHANGED <<busy, timer, comPend, lock, waiting, call>>
    BY <1>5 DEF RedoDependency
  <2>2. LockExclusion' /\ LockNotLeaked'
    BY <2>1 DEF LockInv, LockExclusion, LockNotLeaked, LockedStates, TypeOK
  <2>3. Coherent' /\ WaitingPolls' /\ CallInv'
    BY <2>1 DEF LockInv, Coherent, WaitingPolls, CallInv, TypeOK
  <2>4. QED  BY <2>2, <2>3 DEF LockInv
<1>6. ASSUME NEW e \in Entities, SetSyncAll(e) PROVE LockInv' /\ CallInv'
  BY <1>1, <1>6 DEF SetSyncAll
<1>7. ASSUME NEW e \in Entities, NEW b \in Bits, SetParam(e, b) PROVE LockInv' /\ CallInv'
  BY <1>1, <1>7 DEF SetParam
<1>8. ASSUME NEW enable \in BOOLEAN, SetAcmEnable(enable) PROVE LockInv' /\ CallInv'
  BY <1>1, <1>8 DEF SetAcmEnable
<1>9. CASE SetAcmDelay
  BY <1>1, <1>9 DEF SetAcmDelay
<1>10. QED  BY <1>2, <1>3, <1>4, <1>5, <1>6, <1>7, <1>8, <1>9 DEF Request

LEMMA FsmStepLock ==
  ASSUME TypeOK, LockInv, CallInv, NEW r \in Radios, FsmStep(r)
  PROVE  LockInv' /\ CallInv'
<1> USE DEF fsmVars, bitVars, lockVars, rpcVars, acmVars
<1>1. CASE FsmWait(r)
  <2>1. UNCHANGED <<busy, timer, comPend, call>> /\ st[r] = "WAIT"
    BY <1>1 DEF FsmWait
  <2>2. CASE UNCHANGED <<st, lock, waiting>>
    BY <2>1, <2>2
       DEF LockInv, CallInv, LockExclusion, LockNotLeaked, Coherent, WaitingPolls
  <2>3. CASE /\ lock \in {r, NoRadio} /\ lock' = r
             /\ waiting' = IF lock = r THEN waiting ELSE waiting \ {r}
             /\ st' = [st EXCEPT ![r] = "DEPENDENCY"]
    <3>1. LockExclusion' /\ LockNotLeaked'
      BY <2>1, <2>3, EntitiesAssumption
         DEF LockInv, LockExclusion, LockNotLeaked, LockedStates, TypeOK
    <3>2. Coherent' /\ CallInv'
      BY <2>1, <2>3 DEF LockInv, Coherent, CallInv, TypeOK
    <3>3. WaitingPolls'
      BY <2>1, <2>3, EntitiesAssumption DEF LockInv, WaitingPolls, TypeOK
    <3>4. QED  BY <3>1, <3>2, <3>3 DEF LockInv
  <2>4. CASE /\ lock \notin {r, NoRadio} /\ waiting' = waiting \cup {r}
             /\ UNCHANGED <<st, lock>>
    <3>1. LockExclusion' /\ LockNotLeaked' /\ Coherent' /\ CallInv'
      BY <2>1, <2>4 DEF LockInv, LockExclusion, LockNotLeaked, Coherent, CallInv
    <3>2. WaitingPolls'
      BY <2>1, <2>4 DEF LockInv, WaitingPolls
    <3>3. QED  BY <3>1, <3>2 DEF LockInv
  <2>5. QED  BY <1>1, <2>2, <2>3, <2>4 DEF FsmWait
<1>2. ASSUME NEW to \in LockedStates, st' = [st EXCEPT ![r] = to], st[r] \in LockedStates,
             UNCHANGED <<busy, timer, lock, waiting, call>>,
             comPend' = comPend \/ comPend' = [comPend EXCEPT ![r] = 0]
      PROVE LockInv' /\ CallInv'
  <2>1. LockExclusion' /\ LockNotLeaked'
    BY <1>2 DEF LockInv, LockExclusion, LockNotLeaked, LockedStates, TypeOK
  <2>2. Coherent' /\ WaitingPolls' /\ CallInv'
    BY <1>2 DEF LockInv, Coherent, WaitingPolls, CallInv, LockedStates, TypeOK
  <2>3. QED  BY <2>1, <2>2 DEF LockInv
<1>3. CASE FsmDependency(r)
  <2>1. PICK to \in {"SYNC_GLOBAL", "RUN"} : st' = [st EXCEPT ![r] = to]
    BY <1>3 DEF FsmDependency
  <2>2. QED  BY <1>2, <1>3, <2>1 DEF FsmDependency, LockedStates
<1>4. CASE FsmSyncGlobal(r)
  BY <1>2, <1>4 DEF FsmSyncGlobal, LockedStates
<1>5. CASE FsmRun(r)
  <2>1. st[r] = "RUN" /\ UNCHANGED <<busy, timer, comPend, lock, waiting, call>>
    BY <1>5 DEF FsmRun
  <2>2. CASE st' = [st EXCEPT ![r] = "COMPEND"]
    BY <1>2, <2>1, <2>2 DEF LockedStates
  <2>3. CASE UNCHANGED st
    BY <2>1, <2>3
       DEF LockInv, CallInv, LockExclusion, LockNotLeaked, Coherent, WaitingPolls
  <2>4. QED  BY <1>5, <2>2, <2>3 DEF FsmRun
<1>6. CASE FsmCompend(r)
  <2>1. st[r] = "COMPEND" /\ UNCHANGED <<busy, timer, waiting, call>>
    BY <1>6 DEF FsmCompend
  <2>2. CASE CommitPending(r)
    BY <1>2, <1>6, <2>1, <2>2 DEF FsmCompend, LockedStates
  <2>3. CASE ~CommitPending(r)
    <3>1. /\ st' = [st EXCEPT ![r] = "FINISH"] /\ comPend' = [comPend EXCEPT ![r] = 0]
          /\ lock = r /\ lock' = NoRadio
      BY <1>6, <2>1, <2>3 DEF FsmCompend, LockInv, LockExclusion, LockedStates
    <3>2. LockExclusion' /\ LockNotLeaked'
      BY <3>1 DEF LockInv, LockExclusion, LockNotLeaked, LockedStates, TypeOK
    <3>3. Coherent' /\ CallInv'
      BY <2>1, <3>1 DEF LockInv, Coherent, CallInv, TypeOK
    <3>4. WaitingPolls'
      BY <2>1, <3>1, EntitiesAssumption DEF LockInv, WaitingPolls, TypeOK
    <3>5. QED  BY <3>2, <3>3, <3>4 DEF LockInv
  <2>4. QED  BY <2>2, <2>3
<1>7. CASE FsmFinish(r)
  <2>1. st[r] = "FINISH" /\ UNCHANGED <<lock, waiting>> /\ lock # r
    BY <1>7, EntitiesAssumption DEF FsmFinish, LockInv, LockNotLeaked
  <2>2. CASE CommitPending(r)
    <3>1. st' = [st EXCEPT ![r] = "WAIT"] /\ UNCHANGED <<busy, timer, comPend, call>>
      BY <1>7, <2>2 DEF FsmFinish
    <3>2. LockExclusion' /\ LockNotLeaked' /\ WaitingPolls'
      BY <2>1, <3>1
         DEF LockInv, LockExclusion, LockNotLeaked, LockedStates, WaitingPolls, TypeOK
    <3>3. Coherent' /\ CallInv'
      BY <2>1, <3>1 DEF LockInv, Coherent, CallInv, TypeOK
    <3>4. QED  BY <3>2, <3>3 DEF LockInv
  <2>3. CASE ~CommitPending(r)
    <3>1. /\ st' = [st EXCEPT ![r] = "IDLE"]
          /\ comPend' = [comPend EXCEPT ![r] = 0]
          /\ busy' = [busy EXCEPT ![r] = FALSE]
          /\ timer' = [timer EXCEPT ![r] = FALSE]
          /\ call' = [call EXCEPT ![r] = FALSE]
      BY <1>7, <2>3 DEF FsmFinish
    <3>2. LockExclusion' /\ LockNotLeaked' /\ WaitingPolls'
      BY <2>1, <3>1
         DEF LockInv, LockExclusion, LockNotLeaked, LockedStates, WaitingPolls, TypeOK
    <3>3. Coherent'
      BY <2>1, <3>1 DEF LockInv, Coherent, TypeOK
    <3>4. CallInv'
      BY <3>1 DEF CallInv, TypeOK
    <3>5. QED  BY <3>2, <3>3, <3>4 DEF LockInv
  <2>4. QED  BY <2>2, <2>3
<1>8. QED  BY <1>1, <1>3, <1>4, <1>5, <1>6, <1>7 DEF FsmStep

LEMMA TimeoutLock ==
  ASSUME TypeOK, LockInv, CallInv, Timeout
  PROVE  LockInv' /\ CallInv'
<1> USE DEF fsmVars, bitVars, lockVars, rpcVars, acmVars
<1>1. ASSUME UNCHANGED <<st, busy, timer, comPend, lock, waiting, call>>
      PROVE LockInv' /\ CallInv'
  BY <1>1 DEF LockInv, CallInv, LockExclusion, LockNotLeaked, Coherent, WaitingPolls
<1>2. ASSUME NEW r \in Radios, EditExpires(r) PROVE LockInv' /\ CallInv'
  BY <1>1, <1>2 DEF EditExpires
<1>3. ASSUME NEW r \in Radios, AutoCommit(r) PROVE LockInv' /\ CallInv'
  <2>1. CASE DoRadioCommit(r)
    <3>1. CommitIdle(r) \/ CommitBusy(r) \/ CommitStuck(r)
      BY <2>1 DEF DoRadioCommit
    <3>2. LockInv' /\ \A s \in Radios : busy[s] => busy'[s]
      BY <3>1, CommitLock
    <3>3. \A s \in Radios : call'[s] => call[s]
      BY <2>1 DEF DoRadioCommit, AnswerReset
    <3>4. QED  BY <3>2, <3>3 DEF CallInv
  <2>2. CASE UNCHANGED <<fsmVars, comPend, syncAll, lockVars, call, reply>>
    BY <1>1, <2>2
  <2>3. QED  BY <1>3, <2>1, <2>2 DEF AutoCommit, DoCommitIfUnblocked
<1>4. QED  BY <1>2, <1>3, FsmStepLock DEF Timeout

LEMMA InitLock == Init => LockInv /\ CallInv
<1> SUFFICES ASSUME Init PROVE LockInv /\ CallInv
  OBVIOUS
<1>1. LockExclusion /\ LockNotLeaked /\ WaitingPolls /\ CallInv
  BY DEF Init, LockExclusion, LockedStates, LockNotLeaked, WaitingPolls, CallInv
<1>2. \A r \in Radios : st[r] = "IDLE" /\ ~busy[r] /\ ~timer[r] /\ comPend[r] = 0
  BY DEF Init
<1>3. Coherent
  BY <1>2 DEF Coherent
<1>4. QED  BY <1>1, <1>3 DEF LockInv

\* The machines exclude each other, release the lock and keep their marks
\* coherent, for any number of radios and whatever resets happen.
THEOREM MutualExclusion == Spec => [](LockExclusion /\ LockNotLeaked /\ MachineCoherent /\ WaitingPolls)
<1>1. TypeOK /\ LockInv /\ CallInv /\ [Next]_vars => LockInv' /\ CallInv'
  <2>1. LockInv /\ CallInv /\ UNCHANGED vars => LockInv' /\ CallInv'
    BY DEF vars, fsmVars, bitVars, lockVars, rpcVars, acmVars,
           LockInv, CallInv, LockExclusion, LockNotLeaked, Coherent, WaitingPolls
  <2>2. QED  BY <2>1, RequestLock, TimeoutLock DEF Next
<1>2. LockInv /\ CallInv => LockExclusion /\ LockNotLeaked /\ MachineCoherent /\ WaitingPolls
  BY DEF LockInv, CallInv, Coherent, MachineCoherent
<1>3. QED  BY InitLock, <1>1, <1>2, TypeCorrect, PTL DEF Spec

\* What the machines remember of each other and of their callers is true of the
\* states they are in, so that nobody waits for a machine that will never move.
THEOREM NobodyStranded == Spec => []NothingStrands
<1>1. LockNotLeaked /\ MachineCoherent /\ WaitingPolls => NothingStrands
  BY DEF NothingStrands
<1>2. QED  BY <1>1, MutualExclusion, PTL

---------------------------------------------------------------------------
(***************************************************************************)
(* The worklists.                                                          *)
(***************************************************************************)

\* What may be given back is still known where it was copied from.
RedoSafe == \A r \in Radios : st[r] = "SYNC_GLOBAL" =>
  \A e \in EntitiesOf(r) : ac[e] \subseteq UNION {csc[x] : x \in EntitiesOf(r)}

\* A radio without interfaces never has work.
LoneRadio == \A r \in Radios : IfacesOf(r) = {} => ac[r] = {}

BitInv == AcSubset /\ LeftoverSynced /\ RedoSafe /\ LoneRadio

Active == {"SYNC_GLOBAL", "RUN"}

\* The steps that leave the worklists alone.
LEMMA QuietStep ==
  ASSUME BitInv, UNCHANGED <<ac, csc>>,
         \A r \in Radios : syncAll[r] => syncAll'[r],
         \A r \in Radios : st[r] \in Active => st'[r] \in Active \/ syncAll'[r],
         \A r \in Radios : st'[r] = "SYNC_GLOBAL" => st[r] = "SYNC_GLOBAL"
  PROVE  BitInv'
<1>1. AcSubset'
  BY DEF BitInv, AcSubset
<1>2. LeftoverSynced'
  BY DEF BitInv, LeftoverSynced, Active
<1>3. RedoSafe'
  BY DEF BitInv, RedoSafe
<1>4. QED  BY <1>1, <1>2, <1>3 DEF BitInv, LoneRadio

LEMMA CommitBits ==
  ASSUME TypeOK, LockInv, BitInv, UNCHANGED <<ac, csc>>,
         NEW r \in Radios, CommitIdle(r) \/ CommitBusy(r) \/ CommitStuck(r)
  PROVE  BitInv'
<1>1. CASE CommitIdle(r)
  <2>1. PICK R \in SUBSET {r} : StartMachines(R)
    BY <1>1 DEF CommitIdle
  <2>2. st[r] = "IDLE" /\ UNCHANGED syncAll
    BY <1>1 DEF CommitIdle, LockInv, Coherent, TypeOK
  <2>3. \A s \in Radios : st'[s] = IF s \in R THEN "WAIT" ELSE st[s]
    BY <2>1 DEF StartMachines
  <2>4. QED  BY <2>2, <2>3, QuietStep DEF Active
<1>2. CASE CommitBusy(r)
  BY <1>2, QuietStep DEF CommitBusy, fsmVars
<1>3. CASE CommitStuck(r)
  <2>1. \A s \in Radios : /\ st'[s] = (IF busy[s] THEN "WAIT" ELSE st[s])
                          /\ syncAll'[s] <=> busy[s] \/ syncAll[s]
    BY <1>3, EntitiesType DEF CommitStuck, ResetAll, StartMachines, TypeOK
  <2>2. \A s \in Radios : st[s] \in Active => busy[s]
    BY DEF LockInv, Coherent, Active
  <2>3. QED  BY <2>1, <2>2, QuietStep DEF Active
<1>4. QED  BY <1>1, <1>2, <1>3

\* The radio an entity belongs to.
LEMMA EntitiesDisjoint ==
  ASSUME NEW r \in Radios, NEW s \in Radios, s # r
  PROVE  EntitiesOf(r) \cap EntitiesOf(s) = {}
BY EntitiesAssumption DEF EntitiesOf, IfacesOf

LEMMA RedoBits ==
  ASSUME TypeOK, BitInv, NEW r \in Radios, RedoDependency(r)
  PROVE  BitInv'
<1>1. /\ \A e \in EntitiesOf(r) : ac'[e] = {}
      /\ \A e \in Entities \ EntitiesOf(r) : ac'[e] = ac[e]
      /\ UNCHANGED <<csc, syncAll>>
      /\ st'[r] = "DEPENDENCY" /\ \A s \in Radios \ {r} : st'[s] = st[s]
  BY EntitiesType DEF RedoDependency, TypeOK
<1>2. AcSubset'
  <2>1. ASSUME NEW i \in Ifaces PROVE ac'[i] \subseteq ac'[RadOf[i]]
    <3>1. CASE RadOf[i] = r
      BY <1>1, <3>1 DEF EntitiesOf, IfacesOf
    <3>2. CASE RadOf[i] # r
      <4>1. i \notin EntitiesOf(r) /\ RadOf[i] \notin EntitiesOf(r)
        BY <3>2, EntitiesType DEF EntitiesOf, IfacesOf
      <4>2. QED  BY <1>1, <4>1, EntitiesType DEF BitInv, AcSubset
    <3>3. QED  BY <3>1, <3>2
  <2>2. QED  BY <2>1 DEF AcSubset
<1>3. \A s \in Radios \ {r} : \A e \in EntitiesOf(s) : ac'[e] = ac[e]
  BY <1>1, EntitiesDisjoint, EntitiesType
<1>4. LeftoverSynced'
  BY <1>1, <1>3 DEF BitInv, LeftoverSynced
<1>5. RedoSafe'
  BY <1>1, <1>3 DEF BitInv, RedoSafe
<1>6. LoneRadio'
  <2>1. \A s \in Radios : s \in EntitiesOf(s)
    BY DEF EntitiesOf
  <2>2. QED  BY <1>1, <1>3, <2>1 DEF BitInv, LoneRadio
<1>7. QED  BY <1>2, <1>4, <1>5, <1>6 DEF BitInv

\* What FSM_DEPENDENCY makes of the requests.
LEMMA DependencyEffect ==
  ASSUME TypeOK, NEW r \in Radios, FsmDependency(r)
  PROVE  /\ \A i \in IfacesOf(r) : ac'[i] = Synced(i) \cup pend[r] /\ csc'[i] = Synced(i)
         /\ ac'[r] = ac[r] \cup UNION {Synced(i) \cup pend[r] : i \in IfacesOf(r)}
         /\ csc'[r] = pend[r]
         /\ \A e \in Entities \ EntitiesOf(r) :
              ac'[e] = ac[e] /\ csc'[e] = csc[e] /\ pend'[e] = pend[e] /\ (syncAll'[e] <=> syncAll[e])
         /\ \A e \in EntitiesOf(r) : pend'[e] = {}
         /\ st'[r] \in Active /\ \A s \in Radios \ {r} : st'[s] = st[s]
<1>1. r \in Entities /\ IfacesOf(r) \subseteq Entities /\ r \notin IfacesOf(r)
  BY EntitiesType DEF IfacesOf
<1>2. \A i \in IfacesOf(r) : ac'[i] = Synced(i) \cup pend[r] /\ csc'[i] = Synced(i)
  BY <1>1 DEF FsmDependency
<1>3. /\ ac'[r] = ac[r] \cup UNION {Synced(i) \cup pend[r] : i \in IfacesOf(r)}
      /\ csc'[r] = pend[r]
  BY <1>1 DEF FsmDependency
<1>4. \A e \in Entities \ EntitiesOf(r) :
         ac'[e] = ac[e] /\ csc'[e] = csc[e] /\ pend'[e] = pend[e] /\ (syncAll'[e] <=> syncAll[e])
  BY <1>1 DEF FsmDependency, EntitiesOf
<1>5. \A e \in EntitiesOf(r) : pend'[e] = {}
  BY <1>1, EntitiesType DEF FsmDependency
<1>6. st'[r] \in Active /\ \A s \in Radios \ {r} : st'[s] = st[s]
  BY DEF FsmDependency, Active, TypeOK
<1>7. QED  BY <1>2, <1>3, <1>4, <1>5, <1>6

\* A worklist that a reset left behind is contained in what is now to do.
LEMMA LeftoverRedone ==
  ASSUME TypeOK, BitInv, NEW r \in Radios, st[r] \notin Active, NEW i \in IfacesOf(r)
  PROVE  ac[i] \subseteq Synced(i) /\ (ac[r] = {} \/ Synced(i) = Bits)
         /\ pend[i] \subseteq Synced(i) /\ pend[r] \subseteq Bits /\ ac[r] \subseteq Bits
<1>1. RadOf[i] = r /\ i \in Entities /\ r \in Entities /\ i \in EntitiesOf(r) /\ r \in EntitiesOf(r)
  BY EntitiesType DEF IfacesOf, EntitiesOf
<1>2. syncAll[r] \/ (ac[i] = {} /\ ac[r] = {})
  BY <1>1 DEF BitInv, LeftoverSynced, Active
<1>3. ac[i] \subseteq Bits /\ pend[i] \subseteq Bits /\ pend[r] \subseteq Bits /\ ac[r] \subseteq Bits
  BY <1>1 DEF TypeOK
<1>4. QED  BY <1>1, <1>2, <1>3 DEF Synced

LEMMA DependencyBits ==
  ASSUME TypeOK, BitInv, NEW r \in Radios, FsmDependency(r)
  PROVE  BitInv'
<1>1. st[r] \notin Active
  BY DEF FsmDependency, Active
<1>2. AcSubset'
  <2>1. ASSUME NEW i \in Ifaces PROVE ac'[i] \subseteq ac'[RadOf[i]]
    <3>1. CASE RadOf[i] = r
      BY <3>1, DependencyEffect DEF IfacesOf
    <3>2. CASE RadOf[i] # r
      <4>1. i \notin EntitiesOf(r) /\ RadOf[i] \notin EntitiesOf(r)
        BY <3>2, EntitiesType DEF EntitiesOf, IfacesOf
      <4>2. QED  BY <4>1, DependencyEffect, EntitiesType DEF BitInv, AcSubset
    <3>3. QED  BY <3>1, <3>2
  <2>2. QED  BY <2>1 DEF AcSubset
<1>3. \A s \in Radios \ {r} : \A e \in EntitiesOf(s) :
        ac'[e] = ac[e] /\ csc'[e] = csc[e] /\ (syncAll'[e] <=> syncAll[e])
  BY DependencyEffect, EntitiesDisjoint, EntitiesType
<1>4. LeftoverSynced'
  <2>1. \A s \in Radios \ {r} : s \in EntitiesOf(s)
    BY DEF EntitiesOf
  <2>2. QED  BY <1>3, <2>1, DependencyEffect DEF BitInv, LeftoverSynced, Active
<1>5. RedoSafe'
  <2>1. ASSUME NEW e \in EntitiesOf(r)
        PROVE  ac'[e] \subseteq UNION {csc'[x] : x \in EntitiesOf(r)}
    <3>1. r \in EntitiesOf(r) /\ csc'[r] = pend[r] /\ \A i \in IfacesOf(r) : csc'[i] = Synced(i)
      BY DependencyEffect DEF EntitiesOf
    <3>2. pend[r] \subseteq UNION {csc'[x] : x \in EntitiesOf(r)}
      BY <3>1
    <3>3. \A i \in IfacesOf(r) : Synced(i) \subseteq UNION {csc'[x] : x \in EntitiesOf(r)}
      BY <3>1 DEF EntitiesOf
    <3>4. CASE e \in IfacesOf(r)
      BY <3>2, <3>3, <3>4, DependencyEffect
    <3>5. CASE e = r
      <4>1. CASE IfacesOf(r) = {}
        BY <4>1, <3>5, DependencyEffect DEF BitInv, LoneRadio
      <4>2. CASE IfacesOf(r) # {}
        <5>1. ac[r] \subseteq UNION {csc'[x] : x \in EntitiesOf(r)}
          BY <4>2, <1>1, <3>3, LeftoverRedone
        <5>2. QED  BY <5>1, <3>2, <3>3, <3>5, DependencyEffect
      <4>3. QED  BY <4>1, <4>2
    <3>6. QED  BY <3>4, <3>5 DEF EntitiesOf
  <2>2. QED  BY <1>3, <2>1, DependencyEffect DEF BitInv, RedoSafe
<1>6. LoneRadio'
  <2>1. \A s \in Radios : s \in EntitiesOf(s)
    BY DEF EntitiesOf
  <2>2. QED  BY <1>3, <2>1, DependencyEffect DEF BitInv, LoneRadio
<1>7. QED  BY <1>2, <1>4, <1>5, <1>6 DEF BitInv

\* In one cycle of FSM_RUN the interfaces execute the bit of the radio and no
\* other, and the radio drops it only when all of them have.
LEMMA RunBits ==
  ASSUME TypeOK, BitInv, NEW r \in Radios, FsmRun(r), ac[r] # {},
         NEW bit, bit = LowestBit(ac[r]), NEW F, FsmRunBit(r, bit, F)
  PROVE  /\ \A i \in IfacesOf(r) :
              /\ ac'[i] = ac[i] \/ ac'[i] = ac[i] \ {bit}
              /\ F = {} => bit \notin ac'[i]
         /\ \A i \in IfacesOf(r) : ac'[i] \subseteq ac'[r]
<1>1. bit \in ac[r] /\ bit \in Bits /\ \A c \in ac[r] : bit <= c
  BY LowestBitIsLowest, EntitiesType DEF TypeOK
<1>2. ASSUME NEW i \in IfacesOf(r)
      PROVE  /\ ac'[i] = ac[i] \/ ac'[i] = ac[i] \ {bit}
             /\ F = {} => bit \notin ac'[i]
             /\ ac'[i] \subseteq ac'[r]
  <2>1. i \in Ifaces /\ i \in Entities /\ RadOf[i] = r
    BY EntitiesType DEF IfacesOf
  <2>2. ac[i] \subseteq ac[r] /\ ac[i] \in SUBSET Bits
    BY <2>1 DEF BitInv, AcSubset, TypeOK
  <2>3. ac[i] # {} => LowestBit(ac[i]) \in ac[i] /\ \A c \in ac[i] : LowestBit(ac[i]) <= c
    BY <2>2, LowestBitIsLowest
  <2>4. Executes(i, bit) => LowestBit(ac[i]) = bit
    <3>1. Executes(i, bit) => /\ LowestBit(ac[i]) \in Nat /\ bit \in Nat
                              /\ LowestBit(ac[i]) <= bit /\ bit <= LowestBit(ac[i])
      BY <1>1, <2>2, <2>3, BitsAssumption DEF Executes
    <3>2. QED  BY <3>1
  <2>5. bit \in ac[i] => Executes(i, bit)
    BY <2>3 DEF Executes
  <2>6. IF Executes(i, bit) /\ i \notin F
        THEN ac'[i] = ac[i] \ {LowestBit(ac[i])} ELSE ac'[i] = ac[i]
    BY RunBitEffect
  <2>7. ac'[i] = ac[i] \/ ac'[i] = ac[i] \ {bit}
    BY <2>4, <2>6
  <2>8. F = {} => bit \notin ac'[i]
    BY <2>4, <2>5, <2>6
  <2>9. ac'[r] = ac[r] \/ (F = {} /\ ac'[r] = ac[r] \ {bit})
    BY RunBitEffect
  <2>10. ac'[i] \subseteq ac'[r]
    BY <2>2, <2>7, <2>8, <2>9
  <2>11. QED  BY <2>7, <2>8, <2>10
<1>3. QED  BY <1>2

LEMMA FsmRunBits ==
  ASSUME TypeOK, BitInv, NEW r \in Radios, FsmRun(r)
  PROVE  BitInv'
<1>1. st[r] = "RUN" /\ UNCHANGED <<csc, syncAll>>
  BY DEF FsmRun
<1>2. CASE ac[r] = {} /\ st' = [st EXCEPT ![r] = "COMPEND"] /\ UNCHANGED ac
  <2>1. \A e \in EntitiesOf(r) : ac'[e] = {}
    BY <1>2 DEF BitInv, AcSubset, EntitiesOf, IfacesOf
  <2>2. st'[r] = "COMPEND" /\ \A s \in Radios \ {r} : st'[s] = st[s]
    BY <1>2 DEF TypeOK
  <2>3. AcSubset' /\ LoneRadio'
    BY <1>2 DEF BitInv, AcSubset, LoneRadio
  <2>4. LeftoverSynced'
    BY <1>1, <1>2, <2>1, <2>2 DEF BitInv, LeftoverSynced
  <2>5. RedoSafe'
    BY <1>1, <1>2, <2>2 DEF BitInv, RedoSafe
  <2>6. QED  BY <2>3, <2>4, <2>5 DEF BitInv
<1>3. ASSUME ac[r] # {}, UNCHANGED st, NEW F, FsmRunBit(r, LowestBit(ac[r]), F)
      PROVE  BitInv'
  <2>1. \A e \in Entities \ EntitiesOf(r) : ac'[e] = ac[e]
    BY <1>3, RunBitEffect
  <2>2. \A i \in IfacesOf(r) : ac'[i] \subseteq ac'[r]
    BY <1>3, RunBits
  <2>3. \A s \in Radios \ {r} : \A e \in EntitiesOf(s) : ac'[e] = ac[e]
    BY <2>1, EntitiesDisjoint, EntitiesType
  <2>4. AcSubset'
    <3>1. ASSUME NEW i \in Ifaces PROVE ac'[i] \subseteq ac'[RadOf[i]]
      <4>1. CASE RadOf[i] = r
        BY <4>1, <2>2 DEF IfacesOf
      <4>2. CASE RadOf[i] # r
        <5>1. i \notin EntitiesOf(r) /\ RadOf[i] \notin EntitiesOf(r)
          BY <4>2, EntitiesType DEF EntitiesOf, IfacesOf
        <5>2. QED  BY <2>1, <5>1, EntitiesType DEF BitInv, AcSubset
      <4>3. QED  BY <4>1, <4>2
    <3>2. QED  BY <3>1 DEF AcSubset
  <2>5. LeftoverSynced' /\ RedoSafe'
    BY <1>1, <1>3, <2>3 DEF BitInv, LeftoverSynced, RedoSafe
  <2>6. LoneRadio'
    <3>1. ac'[r] \subseteq ac[r]
      BY <1>3, RunBitEffect
    <3>2. \A s \in Radios : s \in EntitiesOf(s)
      BY DEF EntitiesOf
    <3>3. QED  BY <2>3, <3>1, <3>2 DEF BitInv, LoneRadio
  <2>7. QED  BY <2>4, <2>5, <2>6 DEF BitInv
<1>4. QED  BY <1>2, <1>3 DEF FsmRun

LEMMA NextBits ==
  ASSUME TypeOK, LockInv, BitInv, Next
  PROVE  BitInv'
<1> USE DEF fsmVars, bitVars, lockVars, rpcVars, acmVars
<1>1. ASSUME UNCHANGED <<st, ac, csc, syncAll>> PROVE BitInv'
  BY <1>1, QuietStep
<1>2. ASSUME NEW r \in Radios, Edit(r) \/ CommitAbort(r) \/ EditExpires(r) PROVE BitInv'
  BY <1>1, <1>2 DEF Edit, CommitAbort, EditExpires
<1>3. ASSUME NEW r \in Radios, Commit(r) PROVE BitInv'
  BY <1>3, CommitBits DEF Commit
<1>4. ASSUME NEW r \in Radios, AutoCommit(r) PROVE BitInv'
  <2>1. UNCHANGED <<ac, csc>>
    BY <1>4 DEF AutoCommit
  <2>2. CASE DoRadioCommit(r)
    BY <2>1, <2>2, CommitBits DEF DoRadioCommit
  <2>3. CASE UNCHANGED <<fsmVars, syncAll>>
    BY <1>1, <2>1, <2>3
  <2>4. QED  BY <1>4, <2>2, <2>3 DEF AutoCommit, DoCommitIfUnblocked
<1>5. ASSUME NEW e \in Entities, SetSyncAll(e) PROVE BitInv'
  <2>1. UNCHANGED <<st, ac, csc>> /\ \A s \in Radios : syncAll[s] => syncAll'[s]
    BY <1>5, EntitiesType DEF SetSyncAll, TypeOK
  <2>2. QED  BY <2>1, QuietStep
<1>6. ASSUME NEW e \in Entities, NEW b \in Bits, SetParam(e, b) PROVE BitInv'
  BY <1>1, <1>6 DEF SetParam
<1>7. ASSUME NEW enable \in BOOLEAN, SetAcmEnable(enable) PROVE BitInv'
  BY <1>1, <1>7 DEF SetAcmEnable
<1>8. CASE SetAcmDelay
  BY <1>1, <1>8 DEF SetAcmDelay
<1>9. ASSUME NEW r \in Radios, FsmStep(r) PROVE BitInv'
  <2>1. ASSUME NEW to \in States \ Active, st' = [st EXCEPT ![r] = to], st[r] \notin Active,
               UNCHANGED <<ac, csc, syncAll>>
        PROVE  BitInv'
    BY <2>1, QuietStep DEF Active, TypeOK
  <2>2. CASE FsmWait(r)
    BY <1>1, <2>1, <2>2 DEF FsmWait, States, Active
  <2>3. CASE FsmSyncGlobal(r)
    BY <2>3, QuietStep DEF FsmSyncGlobal, Active, TypeOK
  <2>4. CASE FsmCompend(r)
    BY <2>1, <2>4 DEF FsmCompend, States, Active
  <2>5. CASE FsmFinish(r)
    <3>1. /\ st[r] = "FINISH" /\ UNCHANGED <<ac, csc, syncAll>>
          /\ st' = [st EXCEPT ![r] = "WAIT"] \/ st' = [st EXCEPT ![r] = "IDLE"]
      BY <2>5 DEF FsmFinish
    <3>2. QED  BY <2>1, <3>1 DEF States, Active
  <2>6. QED
    BY <1>9, <2>2, <2>3, <2>4, <2>5, DependencyBits, FsmRunBits DEF FsmStep
<1>10. CASE Request
  BY <1>2, <1>3, <1>5, <1>6, <1>7, <1>8, <1>10, RedoBits DEF Request
<1>11. CASE Timeout
  BY <1>2, <1>4, <1>9, <1>11 DEF Timeout
<1>12. QED  BY <1>10, <1>11 DEF Next

LEMMA InitBits == Init => BitInv
<1> SUFFICES ASSUME Init PROVE BitInv
  OBVIOUS
<1>1. \A e \in Entities : ac[e] = {}
  BY DEF Init
<1>2. \A r \in Radios : st[r] = "IDLE"
  BY DEF Init
<1>3. AcSubset
  BY <1>1, EntitiesAssumption DEF AcSubset, Entities
<1>4. LeftoverSynced /\ LoneRadio
  BY <1>1, EntitiesType DEF LeftoverSynced, LoneRadio
<1>5. RedoSafe
  BY <1>2 DEF RedoSafe
<1>6. QED  BY <1>3, <1>4, <1>5 DEF BitInv

LEMMA Invariant == Spec => [](TypeOK /\ LockInv /\ BitInv)
<1>1. TypeOK /\ LockInv /\ CallInv /\ [Next]_vars => LockInv' /\ CallInv'
  <2>1. LockInv /\ CallInv /\ UNCHANGED vars => LockInv' /\ CallInv'
    BY DEF vars, fsmVars, bitVars, lockVars, rpcVars, acmVars,
           LockInv, CallInv, LockExclusion, LockNotLeaked, Coherent, WaitingPolls
  <2>2. QED  BY <2>1, RequestLock, TimeoutLock DEF Next
<1>2. TypeOK /\ LockInv /\ BitInv /\ [Next]_vars => BitInv'
  <2>1. BitInv /\ UNCHANGED vars => BitInv'
    BY DEF vars, fsmVars, bitVars, BitInv, AcSubset, LeftoverSynced, RedoSafe, LoneRadio
  <2>2. QED  BY <2>1, NextBits
<1>3. QED  BY InitLock, InitBits, <1>1, <1>2, TypeCorrect, PTL DEF Spec

\* An interface has no work its radio has not, and what a reset interrupts is
\* redone, for any set of interfaces and action bits.
THEOREM WorklistsCoherent == Spec => [](AcSubset /\ LeftoverSynced)
<1>1. BitInv => AcSubset /\ LeftoverSynced
  BY DEF BitInv
<1>2. QED  BY <1>1, Invariant, PTL

\* Outside of an active commit nothing is left to do, or the radio is marked for
\* a full synchronisation.
THEOREM NothingSkipped == Spec => []LeftoverSynced
<1>1. QED  BY WorklistsCoherent, PTL

---------------------------------------------------------------------------
(***************************************************************************)
(* The order of execution.                                                 *)
(***************************************************************************)

\* Only the machine of a radio touches its worklists, and in FSM_RUN only by
\* executing.
LEMMA OwnWorklists ==
  ASSUME TypeOK, NEW r \in Radios, st[r] = "RUN", Next
  PROVE  (\A e \in EntitiesOf(r) : ac'[e] = ac[e]) \/ FsmRun(r)
<1> USE DEF fsmVars, bitVars, lockVars, rpcVars, acmVars
<1>1. CASE UNCHANGED ac
  BY <1>1
<1>2. ASSUME NEW s \in Radios \ {r}, \A e \in Entities \ EntitiesOf(s) : ac'[e] = ac[e]
      PROVE  \A e \in EntitiesOf(r) : ac'[e] = ac[e]
  BY <1>2, EntitiesDisjoint, EntitiesType
<1>3. ASSUME NEW s \in Radios, RedoDependency(s) PROVE \A e \in EntitiesOf(r) : ac'[e] = ac[e]
  <2>1. s # r /\ \A e \in Entities \ EntitiesOf(s) : ac'[e] = ac[e]
    BY <1>3 DEF RedoDependency
  <2>2. QED  BY <1>2, <2>1
<1>4. ASSUME NEW s \in Radios, FsmDependency(s) PROVE \A e \in EntitiesOf(r) : ac'[e] = ac[e]
  <2>1. s # r /\ \A e \in Entities \ EntitiesOf(s) : ac'[e] = ac[e]
    BY <1>4, DependencyEffect DEF FsmDependency
  <2>2. QED  BY <1>2, <2>1
<1>5. ASSUME NEW s \in Radios \ {r}, FsmRun(s) PROVE \A e \in EntitiesOf(r) : ac'[e] = ac[e]
  <2>1. ASSUME NEW bit, NEW F, FsmRunBit(s, bit, F)
        PROVE  \A e \in EntitiesOf(r) : ac'[e] = ac[e]
    BY <1>2, <2>1, RunBitEffect
  <2>2. QED  BY <1>1, <1>5, <2>1 DEF FsmRun
<1>6. CASE Request
  BY <1>1, <1>3, <1>6
     DEF Request, Edit, Commit, CommitAbort, SetSyncAll, SetParam, SetAcmEnable, SetAcmDelay
<1>7. CASE Timeout
  <2>1. ASSUME NEW s \in Radios, FsmStep(s)
        PROVE  UNCHANGED ac \/ (\A e \in EntitiesOf(r) : ac'[e] = ac[e]) \/ FsmRun(r)
    BY <1>4, <1>5, <2>1 DEF FsmStep, FsmWait, FsmSyncGlobal, FsmCompend, FsmFinish
  <2>2. ASSUME NEW s \in Radios, AutoCommit(s) \/ EditExpires(s) PROVE UNCHANGED ac
    BY <2>2 DEF AutoCommit, EditExpires
  <2>3. QED  BY <1>1, <1>7, <2>1, <2>2 DEF Timeout
<1>8. QED  BY <1>6, <1>7 DEF Next

LEMMA AscendingStep ==
  ASSUME TypeOK, BitInv, Next, NEW r \in Radios, st[r] = "RUN", st'[r] = "RUN",
         NEW e \in EntitiesOf(r), NEW x \in EntitiesOf(r), NEW b \in ac[e] \ ac'[e], NEW c \in ac[x]
  PROVE  b <= c
<1> DEFINE bit == LowestBit(ac[r])
<1>1. FsmRun(r)
  BY OwnWorklists
<1>2. ac[r] # {}
  BY <1>1 DEF FsmRun, TypeOK
<1>3. PICK F : FsmRunBit(r, bit, F)
  BY <1>1, <1>2 DEF FsmRun
<1>4. \A d \in ac[r] : bit <= d
  BY <1>2, LowestBitIsLowest, EntitiesType DEF TypeOK
<1>5. c \in ac[r]
  BY EntitiesType DEF BitInv, AcSubset, EntitiesOf, IfacesOf
<1>6. b = bit
  <2>1. CASE e = r
    BY <1>3, <2>1, RunBitEffect
  <2>2. CASE e \in IfacesOf(r)
    BY <1>1, <1>2, <1>3, <2>2, RunBits
  <2>3. QED  BY <2>1, <2>2 DEF EntitiesOf
<1>7. QED  BY <1>4, <1>5, <1>6

\* Actions are executed in ascending order over a radio and its interfaces,
\* whatever fails and is tried again.
THEOREM ExecutionOrder == Spec => AscendingExecution
<1> DEFINE Ascending ==
      \A r \in Radios : \A e, x \in EntitiesOf(r) : \A b \in ac[e] \ ac'[e], c \in ac[x] :
        st[r] = "RUN" /\ st'[r] = "RUN" => b <= c
<1>1. TypeOK /\ BitInv /\ [Next]_vars => [Ascending]_vars
  BY AscendingStep
<1>2. QED  BY <1>1, Invariant, PTL DEF Spec, AscendingExecution

---------------------------------------------------------------------------
(***************************************************************************)
(* The service the machines offer.                                         *)
(***************************************************************************)

LEMMA ServiceOf ==
  ASSUME NEW r \in Radios
  PROVE  Service!Of(r) = EntitiesOf(r)
BY EntitiesAssumption DEF Service!Of, EntitiesOf, IfacesOf, RadioOf, Entities

Todo == [e \in Entities |-> pend[e] \cup ac[e]]

\* More is asked for and the lock stays where it is.
LEMMA AskStep ==
  ASSUME lock' = lock, \A e \in Entities : pend[e] \cup ac[e] \subseteq pend'[e] \cup ac'[e]
  PROVE  Service!Next
BY DEF Service!Next, Service!Ask

LEMMA QuietService ==
  ASSUME UNCHANGED <<lock, pend, ac>>
  PROVE  Service!Next
BY AskStep

LEMMA CommitService1 ==
  ASSUME TypeOK, UNCHANGED <<pend, ac>>, NEW r \in Radios,
         CommitIdle(r) \/ CommitBusy(r) \/ CommitStuck(r)
  PROVE  Service!Next
<1>1. CASE UNCHANGED lock
  BY <1>1, QuietService
<1>2. ASSUME NEW s \in Radios, lock = s, lock' = NoRadio PROVE Service!Next
  <2>1. Service!Release(s)
    BY <1>2 DEF Service!Release
  <2>2. QED  BY <2>1 DEF Service!Next
<1>3. CommitStuck(r) => UNCHANGED lock \/ (lock \in Radios /\ lock' = NoRadio)
  BY DEF CommitStuck, ResetAll
<1>4. CommitIdle(r) \/ CommitBusy(r) => UNCHANGED lock
  BY DEF CommitIdle, CommitBusy, lockVars
<1>5. QED  BY <1>1, <1>2, <1>3, <1>4

\* FSM_DEPENDENCY forgets no request of a radio that has an interface.
LEMMA DependencyService ==
  ASSUME TypeOK, BitInv, NEW r \in Radios, IfacesOf(r) # {}, FsmDependency(r)
  PROVE  Service!Next
<1>1. lock' = lock /\ st[r] \notin Active
  BY DEF FsmDependency, lockVars, Active
<1>2. \A e \in Entities \ EntitiesOf(r) : ac'[e] = ac[e] /\ pend'[e] = pend[e]
  BY DependencyEffect
<1>3. \A i \in IfacesOf(r) : pend[i] \cup ac[i] \subseteq ac'[i]
  BY <1>1, DependencyEffect, LeftoverRedone
<1>4. pend[r] \cup ac[r] \subseteq ac'[r]
  BY DependencyEffect
<1>5. \A e \in Entities : pend[e] \cup ac[e] \subseteq pend'[e] \cup ac'[e]
  BY <1>2, <1>3, <1>4 DEF EntitiesOf
<1>6. QED  BY <1>1, <1>5, AskStep

\* What a vendor gives back is still asked for.
LEMMA RedoService ==
  ASSUME TypeOK, LockInv, BitInv, NEW r \in Radios, RedoDependency(r)
  PROVE  Service!Next
<1>1. lock = r /\ lock' = r /\ st[r] = "SYNC_GLOBAL"
  BY DEF RedoDependency, lockVars, LockInv, LockExclusion, LockedStates
<1>2. \A e \in EntitiesOf(r) : pend'[e] = pend[e] \cup csc[e]
  BY EntitiesType DEF RedoDependency
<1>3. \A e \in Entities \ EntitiesOf(r) : pend'[e] = pend[e] /\ ac'[e] = ac[e]
  BY DEF RedoDependency
<1>4. \A e \in EntitiesOf(r) : ac[e] \subseteq UNION {csc[x] : x \in EntitiesOf(r)}
  BY <1>1 DEF BitInv, RedoSafe
<1>5. \A e \in EntitiesOf(r) :
        pend[e] \cup ac[e] \subseteq UNION {pend'[x] \cup ac'[x] : x \in EntitiesOf(r)}
  <2>1. ASSUME NEW e \in EntitiesOf(r), NEW b \in pend[e] \cup ac[e]
        PROVE  \E x \in EntitiesOf(r) : b \in pend'[x]
    BY <1>2, <1>4, <2>1
  <2>2. QED  BY <2>1
<1>6. Service!Rearrange(r)
  <2>1. \A e \in EntitiesOf(r) : e \in Entities
    BY EntitiesType
  <2>2. \A e \in EntitiesOf(r) : Todo[e] \subseteq UNION {Todo'[x] : x \in EntitiesOf(r)}
    <3>1. ASSUME NEW e \in EntitiesOf(r), NEW b \in Todo[e]
          PROVE  \E x \in EntitiesOf(r) : b \in Todo'[x]
      BY <1>5, <2>1, <3>1 DEF Todo
    <3>2. QED  BY <3>1
  <2>3. \A e \in Entities \ EntitiesOf(r) : Todo'[e] = Todo[e]
    BY <1>3 DEF Todo
  <2>4. QED  BY <1>1, <2>2, <2>3, ServiceOf DEF Service!Rearrange, Todo
<1>7. QED  BY <1>6 DEF Service!Next

\* A cycle of FSM_RUN serves the lowest action, under the lock.
LEMMA RunService ==
  ASSUME TypeOK, LockInv, BitInv, NEW r \in Radios, FsmRun(r)
  PROVE  Service!Next
<1>1. lock = r /\ lock' = r /\ UNCHANGED pend
  BY DEF FsmRun, lockVars, LockInv, LockExclusion, LockedStates
<1>2. CASE UNCHANGED ac
  BY <1>1, <1>2, QuietService
<1>3. ASSUME ac[r] # {}, NEW bit \in Bits, bit = LowestBit(ac[r]), NEW F, FsmRunBit(r, bit, F)
      PROVE  Service!Next
  <2>2. \A e \in EntitiesOf(r) : ac'[e] = ac[e] \/ ac'[e] = ac[e] \ {bit}
    BY <1>3, RunBits, RunBitEffect DEF EntitiesOf
  <2>3. \A e \in Entities \ EntitiesOf(r) : ac'[e] = ac[e]
    BY <1>3, RunBitEffect
  <2>4. \A e \in EntitiesOf(r) :
          pend[e] \cup ac'[e] \in {pend[e] \cup ac[e], (pend[e] \cup ac[e]) \ {bit}}
    BY <2>2
  <2>5. Service!Serve(r, bit)
    <3>1. \A e \in EntitiesOf(r) : e \in Entities
      BY EntitiesType
    <3>2. \A e \in EntitiesOf(r) : Todo'[e] \in {Todo[e], Todo[e] \ {bit}}
      BY <1>1, <2>4, <3>1 DEF Todo
    <3>3. \A e \in Entities \ EntitiesOf(r) : Todo'[e] = Todo[e]
      BY <1>1, <2>3 DEF Todo
    <3>4. QED  BY <1>1, <3>2, <3>3, ServiceOf DEF Service!Serve, Todo
  <2>6. QED  BY <2>5 DEF Service!Next
<1>4. ac[r] # {} => LowestBit(ac[r]) \in Bits
  BY LowestBitIsLowest, EntitiesType DEF TypeOK
<1>5. QED  BY <1>2, <1>3, <1>4 DEF FsmRun

\* Taking the lock.
LEMMA AcquireStep ==
  ASSUME NEW s \in Radios, lock = NoRadio, lock' = s, UNCHANGED <<pend, ac>>
  PROVE  Service!Next
<1>1. Service!Acquire(s)
  BY DEF Service!Acquire
<1>2. QED  BY <1>1 DEF Service!Next

LEMMA ReleaseStep ==
  ASSUME NEW s \in Radios, lock = s, lock' = NoRadio, UNCHANGED <<pend, ac>>
  PROVE  Service!Next
<1>1. Service!Release(s)
  BY DEF Service!Release
<1>2. QED  BY <1>1 DEF Service!Next

LEMMA FsmStepService ==
  ASSUME TypeOK, LockInv, BitInv, NEW r \in Radios, IfacesOf(r) # {}, FsmStep(r)
  PROVE  Service!Next
<1> USE DEF fsmVars, bitVars, lockVars, rpcVars, acmVars
<1>1. CASE FsmWait(r)
  <2>1. UNCHANGED <<pend, ac>> /\ (lock' = lock \/ (lock = NoRadio /\ lock' = r))
    BY <1>1 DEF FsmWait
  <2>2. QED  BY <2>1, QuietService, AcquireStep
<1>2. CASE FsmCompend(r)
  <2>1. UNCHANGED <<pend, ac>> /\ (lock' = lock \/ (lock = r /\ lock' = NoRadio))
    BY <1>2 DEF FsmCompend
  <2>2. QED  BY <2>1, QuietService, ReleaseStep
<1>3. CASE FsmSyncGlobal(r) \/ FsmFinish(r)
  BY <1>3, QuietService DEF FsmSyncGlobal, FsmFinish
<1>4. QED
  BY <1>1, <1>2, <1>3, DependencyService, RunService DEF FsmStep

LEMMA NextService ==
  ASSUME TypeOK, LockInv, BitInv, \A r \in Radios : IfacesOf(r) # {}, Next
  PROVE  Service!Next
<1> USE DEF fsmVars, bitVars, lockVars, rpcVars, acmVars
<1>1. ASSUME NEW r \in Radios, Edit(r) \/ CommitAbort(r) \/ EditExpires(r) PROVE Service!Next
  BY <1>1, QuietService DEF Edit, CommitAbort, EditExpires
<1>2. ASSUME NEW r \in Radios, Commit(r) PROVE Service!Next
  BY <1>2, CommitService1 DEF Commit
<1>3. ASSUME NEW r \in Radios, AutoCommit(r) PROVE Service!Next
  <2>1. UNCHANGED <<pend, ac>>
    BY <1>3 DEF AutoCommit
  <2>2. CASE DoRadioCommit(r)
    BY <2>1, <2>2, CommitService1 DEF DoRadioCommit
  <2>3. CASE UNCHANGED lockVars
    BY <2>1, <2>3, QuietService
  <2>4. QED  BY <1>3, <2>2, <2>3 DEF AutoCommit, DoCommitIfUnblocked
<1>4. ASSUME NEW e \in Entities, NEW b \in Bits, SetParam(e, b) PROVE Service!Next
  <2>1. lock' = lock /\ ac' = ac /\ \A x \in Entities : pend[x] \subseteq pend'[x]
    BY <1>4 DEF SetParam, TypeOK
  <2>2. QED  BY <2>1, AskStep
<1>5. ASSUME NEW e \in Entities, SetSyncAll(e) PROVE Service!Next
  BY <1>5, QuietService DEF SetSyncAll
<1>6. ASSUME NEW enable \in BOOLEAN, SetAcmEnable(enable) PROVE Service!Next
  BY <1>6, QuietService DEF SetAcmEnable
<1>7. CASE SetAcmDelay
  BY <1>7, QuietService DEF SetAcmDelay
<1>8. CASE Request
  BY <1>1, <1>2, <1>4, <1>5, <1>6, <1>7, <1>8, RedoService DEF Request
<1>9. CASE Timeout
  BY <1>1, <1>3, <1>9, FsmStepService DEF Timeout
<1>10. QED  BY <1>8, <1>9 DEF Next

\* When every radio has an interface, no request gets lost: the machines of any
\* number of radios implement CommitService.  A radio without interfaces is
\* where CommitDoesRequests fails.
THEOREM ServiceImplemented ==
  ASSUME \A r \in Radios : IfacesOf(r) # {}
  PROVE  Spec => ImplementsService
<1>1. Init => Service!Init
  BY DEF Init, Service!Init
<1>2. TypeOK /\ LockInv /\ BitInv /\ [Next]_vars
      => [Service!Next]_<<lock, [e \in Entities |-> pend[e] \cup ac[e]]>>
  <2>1. UNCHANGED vars => UNCHANGED <<lock, [e \in Entities |-> pend[e] \cup ac[e]]>>
    BY DEF vars, bitVars, lockVars
  <2>2. QED  BY <2>1, NextService
<1>3. QED  BY <1>1, <1>2, Invariant, PTL DEF Spec, ImplementsService, Service!Spec
===========================================================================
