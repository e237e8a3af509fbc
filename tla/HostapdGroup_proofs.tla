------------------------- MODULE HostapdGroup_proofs -------------------------
(***************************************************************************)
(* Proofs about the process that several radios share, for any radios, any *)
(* requests and any failures.                                              *)
(***************************************************************************)
EXTENDS HostapdGroup, Iteration, FiniteSetTheorems, TLAPS

(***************************************************************************)
(* The invariants of the process and its group, of a record d as the       *)
(* handlers work on it.                                                    *)
(***************************************************************************)
Coherent(d) ==
  /\ d.isRunning = d.alive
  /\ Running(d) => d.alive
  /\ d.alive => d.enabled /\ d.status \in {"UP", "RESTARTING"}
  /\ d.timer => ~d.alive /\ d.status \in {"ERROR", "RESTARTING"}
  /\ InState(d, "STOP") # {} => d.alive
  /\ Running(d) => InState(d, "START") # {}

\* Where the same radios stay enabled and starts succeed: who is started is
\* enabled and not forgotten, and is asked to restart only while hostapd runs or
\* is about to.
Waits(d) ==
  \A r \in Radios : d.state[r] = "START" => enable[r] /\ (d.alive \/ d.action)
Asks(d) ==
  \A r \in Radios :
    /\ d.needRestart[r] => d.state[r] = "START"
    /\ d.reqRestart[r] => enable[r] /\ IF d.state[r] = "START" THEN Running(d) ELSE d.timer
Kept(d) == Waits(d) /\ Asks(d)

\* The machine of the radio will come to start it.
Work(r) ==
  \/ want[r] # {} \/ fsm[r] \in {"WAIT", "DEPENDENCY"}
  \/ fsm[r] \in {"STOP", "CONF", "START"} /\ startBit[r]

\* An enabled radio that is not started will be: by its machine, or by the restart.
Back(d) == d.timer \/ (d.alive /\ ~Running(d))
Covered(d) == \A r \in Radios : enable[r] /\ d.state[r] # "START" => Back(d) \/ Work(r)

Machines ==
  \A r \in Radios : "sync" \notin want[r] /\ (fsm[r] \in {"STOP", "START"} => startBit[r])

Basic == TypeOK /\ Coherent(dmn)
Steadily == Kept(dmn) /\ Covered(dmn) /\ Machines
IInv == Basic /\ (Steady => Steadily)

-----------------------------------------------------------------------------
(* The group *)

LEMMA RadiosFinite == IsFiniteSet(Radios)
<1> DEFINE n == Len(Members)
<1>1. n \in Nat /\ DOMAIN Members = 1..n
  BY ConstantsAssumption
<1>2. Members \in Surjection(1..n, Radios)
  BY <1>1, ConstantsAssumption DEF Surjection, Radios, Range
<1>3. IsFiniteSet(1..n)
  BY <1>1, FS_Interval
<1> HIDE DEF n
<1>4. QED
  BY <1>2, <1>3, FS_Surjection

\* Everything but isStartable and the action timer is the same.
Like(d, e) ==
  /\ e.status = d.status /\ e.enabled = d.enabled /\ e.alive = d.alive /\ e.timer = d.timer
  /\ e.isRunning = d.isRunning /\ e.state = d.state /\ e.reqRestart = d.reqRestart
  /\ e.needRestart = d.needRestart

LEMMA LikeCoherent ==
  ASSUME NEW d, NEW e, Coherent(d), Like(d, e)
  PROVE  Coherent(e)
  BY DEF Coherent, Like, Running, InState

LEMMA NotifiedEffect ==
  ASSUME NEW d \in Daemons
  PROVE  LET e == Notified(d) IN
         /\ e \in Daemons /\ ~e.isRunning /\ e.status = d.status /\ e.enabled = d.enabled
         /\ e.alive = d.alive /\ e.timer = d.timer /\ e.action = d.action
         /\ \A r \in Radios : e.state[r] = "IDLE" /\ ~e.needRestart[r]
         /\ e.reqRestart = d.reqRestart
<1> DEFINE st == [r \in Radios |-> "IDLE"]
           b(r) == d.isStartable[r] /\ d.state[r] # "START"
           sa == [r \in Radios |-> b(r)]
           e == [d EXCEPT !.isRunning = FALSE, !.state = st, !.isStartable = sa, !.needRestart = None]
<1>1. st \in [Radios -> {"IDLE", "START", "STOP"}] /\ None \in [Radios -> BOOLEAN]
      /\ \A r \in Radios : st[r] = "IDLE" /\ ~None[r]
  BY DEF None
<1>2. sa \in [Radios -> BOOLEAN]
  <2>1. \A r \in Radios : b(r) \in BOOLEAN
    BY DEF Daemons
  <2> HIDE DEF b
  <2>2. QED
    BY <2>1
<1>3. Notified(d) = e
  BY DEF Notified
<1> HIDE DEF st, sa
<1>4. /\ e \in Daemons /\ ~e.isRunning /\ e.status = d.status /\ e.enabled = d.enabled
      /\ e.alive = d.alive /\ e.timer = d.timer /\ e.action = d.action
      /\ e.state = st /\ e.needRestart = None /\ e.reqRestart = d.reqRestart
  BY <1>1, <1>2 DEF Daemons
<1> HIDE DEF e
<1>5. QED
  BY <1>1, <1>3, <1>4

LEMMA StopGroupEffect ==
  ASSUME NEW d \in Daemons
  PROVE  LET e == StopGroup(d) IN
         /\ e \in Daemons /\ Coherent(e) /\ e.status = "DOWN" /\ ~e.alive /\ ~e.timer
         /\ \A r \in Radios : /\ e.state[r] = "IDLE" /\ ~e.needRestart[r]
                              /\ e.reqRestart[r] => d.reqRestart[r] /\ d.state[r] # "START"
<1> DEFINE n == Notified(d)
           b(r) == d.reqRestart[r] /\ d.state[r] # "START"
           q == [r \in Radios |-> b(r)]
           e == [n EXCEPT !.reqRestart = q, !.action = FALSE, !.status = "DOWN", !.enabled = FALSE,
                          !.alive = FALSE, !.timer = FALSE]
<1>1. /\ n \in Daemons /\ ~n.isRunning
      /\ \A r \in Radios : n.state[r] = "IDLE" /\ ~n.needRestart[r]
  BY NotifiedEffect
<1>2. q \in [Radios -> BOOLEAN]
  <2>1. \A r \in Radios : b(r) \in BOOLEAN
    BY DEF Daemons
  <2> HIDE DEF b
  <2>2. QED
    BY <2>1
<1>3. StopGroup(d) = e
  BY DEF StopGroup
<1>4. \A r \in Radios : q[r] => d.reqRestart[r] /\ d.state[r] # "START"
  OBVIOUS
<1> HIDE DEF n, q
<1>5. /\ e \in Daemons /\ ~e.isRunning /\ e.state = n.state /\ e.needRestart = n.needRestart
      /\ e.reqRestart = q /\ e.status = "DOWN" /\ ~e.enabled /\ ~e.alive /\ ~e.timer
  BY <1>1, <1>2 DEF Daemons
<1> HIDE DEF e
<1>6. /\ \A r \in Radios : e.state[r] = "IDLE" /\ ~e.needRestart[r]
      /\ e.isRunning \in BOOLEAN /\ e.alive \in BOOLEAN
  BY <1>1, <1>5 DEF Daemons
<1>7. InState(e, "STOP") = {} /\ ~Running(e) /\ e.isRunning = e.alive
  BY <1>5, <1>6 DEF InState, Running
<1>8. Coherent(e)
  BY <1>5, <1>7 DEF Coherent
<1>9. QED
  BY <1>3, <1>4, <1>5, <1>6, <1>8

\* The radios that can be started, and what s_startGrp counts.
Wanted == {r \in Radios : enable[r]}

LEMMA Counts ==
  ASSUME NEW d \in Daemons, enable \in [Radios -> BOOLEAN]
  PROVE  /\ IsFiniteSet(Wanted) /\ IsFiniteSet(InState(d, "START"))
         /\ Cardinality(Wanted) \in Nat /\ Cardinality(InState(d, "START")) \in Nat
         /\ Cardinality(Wanted) = 0 <=> Wanted = {}
         /\ Cardinality(InState(d, "START")) = 0 <=> InState(d, "START") = {}
         /\ InState(d, "START") \subseteq Wanted
            /\ Cardinality(InState(d, "START")) >= Cardinality(Wanted)
              => InState(d, "START") = Wanted
         /\ Wanted \subseteq InState(d, "START")
              => Cardinality(InState(d, "START")) >= Cardinality(Wanted)
<1> DEFINE S == InState(d, "START")
<1>1. Wanted \in SUBSET Radios /\ S \in SUBSET Radios
  BY DEF Wanted, InState
<1> HIDE DEF S
<1>2. IsFiniteSet(Wanted) /\ IsFiniteSet(S)
  BY <1>1, RadiosFinite, FS_Subset
<1>3. Cardinality(Wanted) \in Nat /\ Cardinality(S) \in Nat
  BY <1>2, FS_CardinalityType
<1>4. (Cardinality(Wanted) = 0 <=> Wanted = {}) /\ (Cardinality(S) = 0 <=> S = {})
  BY <1>2, FS_EmptySet
<1>5. S \subseteq Wanted /\ Cardinality(S) >= Cardinality(Wanted) => S = Wanted
  <2>1. SUFFICES ASSUME S \in SUBSET Wanted, Cardinality(S) >= Cardinality(Wanted)
                 PROVE  S = Wanted
    OBVIOUS
  <2>2. Cardinality(S) <= Cardinality(Wanted) /\ (Cardinality(Wanted) = Cardinality(S) => Wanted = S)
    BY <1>2, <2>1, FS_Subset
  <2>3. Cardinality(Wanted) = Cardinality(S)
    BY <1>3, <2>1, <2>2
  <2>4. QED
    BY <2>2, <2>3
<1>6. Wanted \subseteq S => Cardinality(S) >= Cardinality(Wanted)
  <2>1. SUFFICES ASSUME Wanted \in SUBSET S PROVE Cardinality(S) >= Cardinality(Wanted)
    OBVIOUS
  <2>2. Cardinality(Wanted) <= Cardinality(S)
    BY <1>2, <2>1, FS_Subset
  <2>3. QED
    BY <1>3, <2>2
<1>7. QED
  BY <1>2, <1>3, <1>4, <1>5, <1>6 DEF S

\* A daemon record with another field, and what its records of the members are.
LEMMA Updates ==
  ASSUME NEW d \in Daemons, NEW r \in Radios
  PROVE  /\ \A b \in BOOLEAN : /\ [d EXCEPT !.isRunning = b] \in Daemons
                               /\ [d EXCEPT !.action = b] \in Daemons
                               /\ [d EXCEPT !.needRestart[r] = b] \in Daemons
                               /\ [d EXCEPT !.reqRestart[r] = b] \in Daemons
                               /\ [d EXCEPT !.isStartable[r] = b] \in Daemons
         /\ \A s \in {"IDLE", "START", "STOP"} : [d EXCEPT !.state[r] = s] \in Daemons
  BY DEF Daemons

LEMMA RefreshEffect ==
  ASSUME NEW d \in Daemons, enable \in [Radios -> BOOLEAN]
  PROVE  /\ Refresh(d) \in Daemons /\ Like(d, Refresh(d)) /\ Refresh(d).action = d.action
         /\ Refresh(d).isStartable = enable /\ Startable(Refresh(d)) = Wanted
         /\ InState(Refresh(d), "START") = InState(d, "START")
         /\ Running(Refresh(d)) = Running(d)
  BY DEF Refresh, Like, Daemons, Startable, Wanted, InState, Running

\* What starting the process makes of the records.
Started(d, e) ==
  /\ e.status = "UP" /\ e.enabled /\ e.alive /\ ~e.timer /\ e.isRunning
  /\ e.state = d.state /\ e.reqRestart = d.reqRestart /\ e.needRestart = d.needRestart
  /\ e.action = d.action

LEMMA StartDaemonEffect ==
  ASSUME NEW d \in Daemons, Coherent(d), InState(d, "START") # {}, NEW e \in StartDaemon(d)
  PROVE  /\ e \in Daemons /\ Coherent(e)
         /\ Started(d, e) \/ (e = d /\ (site.startFails \/ d.alive))
<1> DEFINE u == [d EXCEPT !.status = "UP", !.enabled = TRUE, !.alive = TRUE, !.timer = FALSE,
                          !.isRunning = TRUE]
<1>1. e = u \/ (e = d /\ (site.startFails \/ d.alive))
  BY DEF StartDaemon
<1>2. u \in Daemons /\ Started(d, u) /\ u.enabled = TRUE /\ u.alive = TRUE /\ u.isRunning = TRUE
  BY DEF Daemons, Started
<1> HIDE DEF u
<1>3. Coherent(u)
  BY <1>2 DEF Coherent, Started, Running, InState
<1>4. QED
  BY <1>1, <1>2, <1>3

(***************************************************************************)
(* s_startGrp: nothing, where there is nothing to do; a start that the     *)
(* library refuses; the action timer, when members are missing; a start    *)
(* that succeeds; or a stop, when nobody is left.                          *)
(***************************************************************************)
GroupResult(d, e) ==
  \/ /\ Like(d, e) /\ e.action = d.action
     /\ Running(d) \/ Wanted = {} \/ InState(d, "START") = {} \/ site.startFails \/ d.alive
  \/ Like(d, e) /\ e.action /\ ~Running(d) /\ ~(Wanted \subseteq InState(d, "START"))
  \/ /\ Started(d, e) /\ ~Running(d)
     /\ InState(d, "START") \subseteq Wanted => InState(d, "START") = Wanted
  \/ Running(d) /\ Wanted = {} /\ e = StopGroup(Refresh(d))

LEMMA GroupEffect ==
  ASSUME NEW d \in Daemons, Coherent(d), enable \in [Radios -> BOOLEAN], NEW e \in StartGroup(d)
  PROVE  e \in Daemons /\ Coherent(e) /\ GroupResult(d, e)
<1> DEFINE f == Refresh(d)
           w == Cardinality(Wanted)
           n == Cardinality(InState(d, "START"))
           late == [f EXCEPT !.action = TRUE]
<1>1. /\ f \in Daemons /\ Like(d, f) /\ f.action = d.action /\ Startable(f) = Wanted
      /\ InState(f, "START") = InState(d, "START") /\ Running(f) = Running(d)
  BY RefreshEffect
<1>2. Coherent(f)
  BY <1>1, LikeCoherent
<1>3. /\ w \in Nat /\ n \in Nat
      /\ w = 0 <=> Wanted = {}
      /\ n = 0 <=> InState(d, "START") = {}
      /\ InState(d, "START") \subseteq Wanted /\ n >= w => InState(d, "START") = Wanted
      /\ Wanted \subseteq InState(d, "START") => n >= w
  BY Counts
<1>4. e \in IF Running(f) THEN {IF w = 0 THEN StopGroup(f) ELSE f}
            ELSE IF w = 0 \/ n = 0 THEN {f}
            ELSE IF n >= w THEN StartDaemon(f) ELSE {late}
  BY <1>1 DEF StartGroup
<1> HIDE DEF f, w, n
<1>5. CASE Running(f) /\ w = 0
  <2>1. e = StopGroup(f)
    BY <1>4, <1>5
  <2>2. e \in Daemons /\ Coherent(e)
    BY <1>1, <2>1, StopGroupEffect
  <2>3. QED
    BY <1>1, <1>3, <1>5, <2>1, <2>2 DEF GroupResult, f
<1>6. CASE (Running(f) /\ w # 0) \/ (~Running(f) /\ (w = 0 \/ n = 0))
  <2>1. e = f
    BY <1>4, <1>6
  <2>2. QED
    BY <1>1, <1>2, <1>3, <1>6, <2>1 DEF GroupResult
<1>7. CASE ~Running(f) /\ w # 0 /\ n # 0 /\ n >= w
  <2>1. e \in StartDaemon(f)
    BY <1>4, <1>7
  <2>2. InState(f, "START") # {}
    BY <1>1, <1>3, <1>7
  <2>3. /\ e \in Daemons /\ Coherent(e)
        /\ Started(f, e) \/ (e = f /\ (site.startFails \/ f.alive))
    BY <1>1, <1>2, <2>1, <2>2, StartDaemonEffect
  <2>4. Started(f, e) => Started(d, e)
    BY <1>1 DEF Started, Like
  <2>5. f.alive = d.alive
    BY <1>1 DEF Like
  <2>6. QED
    BY <1>1, <1>3, <1>7, <2>3, <2>4, <2>5 DEF GroupResult
<1>8. CASE ~Running(f) /\ w # 0 /\ n # 0 /\ ~(n >= w)
  <2>1. e = late
    BY <1>4, <1>8
  <2>2. late \in Daemons /\ late.action /\ Like(f, late)
    BY <1>1 DEF Daemons, Like
  <2> HIDE DEF late
  <2>3. Coherent(late)
    BY <1>2, <2>2, LikeCoherent
  <2>4. Like(d, late)
    BY <1>1, <2>2 DEF Like
  <2>5. QED
    BY <1>1, <1>3, <1>8, <2>1, <2>2, <2>3, <2>4 DEF GroupResult
<1>9. QED
  BY <1>5, <1>6, <1>7, <1>8

-----------------------------------------------------------------------------
(* The members *)

\* The record as wld_secDmn_start of r gives it to the group.
Asked(d, r) ==
  [Refresh(d) EXCEPT !.isStartable[r] = TRUE, !.state[r] = "START", !.needRestart[r] = FALSE]

LEMMA AskedEffect ==
  ASSUME NEW d \in Daemons, NEW r \in Radios, enable \in [Radios -> BOOLEAN]
  PROVE  LET m == Asked(d, r) IN
         /\ m \in Daemons
         /\ m.status = d.status /\ m.enabled = d.enabled /\ m.alive = d.alive /\ m.timer = d.timer
         /\ m.isRunning = d.isRunning /\ m.reqRestart = d.reqRestart /\ m.action = d.action
         /\ m.state = [d.state EXCEPT ![r] = "START"]
         /\ m.needRestart = [d.needRestart EXCEPT ![r] = FALSE]
         /\ m.state[r] = "START" /\ ~m.needRestart[r]
         /\ \A s \in Radios \ {r} : m.state[s] = d.state[s] /\ m.needRestart[s] = d.needRestart[s]
<1> DEFINE f == Refresh(d)
           st == [d.state EXCEPT ![r] = "START"]
           nr == [d.needRestart EXCEPT ![r] = FALSE]
           sa == [f.isStartable EXCEPT ![r] = TRUE]
           m == [f EXCEPT !.isStartable = sa, !.state = st, !.needRestart = nr]
<1>1. f \in Daemons /\ Like(d, f) /\ f.action = d.action
  BY RefreshEffect
<1>2. Asked(d, r) = m
  BY <1>1 DEF Asked, Like
<1>3. /\ st \in [Radios -> {"IDLE", "START", "STOP"}] /\ nr \in [Radios -> BOOLEAN]
      /\ sa \in [Radios -> BOOLEAN]
  BY <1>1 DEF Daemons
<1>4. /\ st[r] = "START" /\ nr[r] = FALSE
      /\ \A s \in Radios \ {r} : st[s] = d.state[s] /\ nr[s] = d.needRestart[s]
  BY DEF Daemons
<1> HIDE DEF f, st, nr, sa
<1>5. /\ m \in Daemons /\ m.state = st /\ m.needRestart = nr
      /\ m.status = f.status /\ m.enabled = f.enabled /\ m.alive = f.alive /\ m.timer = f.timer
      /\ m.isRunning = f.isRunning /\ m.reqRestart = f.reqRestart /\ m.action = f.action
  BY <1>1, <1>3 DEF Daemons
<1> HIDE DEF m
<1>6. QED
  BY <1>1, <1>2, <1>4, <1>5 DEF Like, st, nr

LEMMA AskedCoherent ==
  ASSUME NEW d \in Daemons, Coherent(d), NEW r \in Radios, enable \in [Radios -> BOOLEAN]
  PROVE  Coherent(Asked(d, r)) /\ r \in InState(Asked(d, r), "START")
<1> DEFINE m == Asked(d, r)
<1>1. /\ m.status = d.status /\ m.enabled = d.enabled /\ m.alive = d.alive /\ m.timer = d.timer
      /\ m.isRunning = d.isRunning /\ m.state[r] = "START"
      /\ \A s \in Radios \ {r} : m.state[s] = d.state[s]
  BY AskedEffect
<1> HIDE DEF m
<1>2. r \in InState(m, "START")
  BY <1>1 DEF InState
<1>3. InState(m, "STOP") \subseteq InState(d, "STOP")
  BY <1>1 DEF InState
<1>4. Coherent(m)
  BY <1>1, <1>2, <1>3 DEF Coherent, Running
<1>5. QED
  BY <1>2, <1>4 DEF m

\* wld_secDmn_start: the record of the member alone changes, or the group goes on.
MemberResult(d, r, e) ==
  \/ /\ e = Asked(d, r)
     /\ Running(d) \/ (d.state[r] = "START" /\ (d.action \/ d.enabled))
  \/ ~Running(d) /\ GroupResult(Asked(d, r), e)

LEMMA MemberEffect ==
  ASSUME NEW d \in Daemons, Coherent(d), NEW r \in Radios, enable \in [Radios -> BOOLEAN],
         NEW e \in StartMember(d, r)
  PROVE  e \in Daemons /\ Coherent(e) /\ MemberResult(d, r, e)
<1> DEFINE m == Asked(d, r)
           b == Running(d) \/ (d.state[r] = "START" /\ (d.action \/ d.enabled))
<1>1. m \in Daemons /\ Coherent(m)
  BY AskedEffect, AskedCoherent
<1>2. e \in IF b THEN {m} ELSE StartGroup(m)
  BY DEF StartMember, Asked
<1> HIDE DEF m
<1>3. CASE b
  BY <1>1, <1>2, <1>3 DEF MemberResult, m
<1>4. CASE ~b
  <2>1. e \in StartGroup(m)
    BY <1>2, <1>4
  <2>2. e \in Daemons /\ Coherent(e) /\ GroupResult(m, e)
    BY <1>1, <2>1, GroupEffect
  <2>3. QED
    BY <1>4, <2>2 DEF MemberResult, m
<1>5. QED
  BY <1>3, <1>4

\* wld_secDmn_stop: the member leaves a process that is not running, waits for
\* the others, or is the last.
LeaveResult(d, r, e) ==
  \/ /\ ~Running(d) /\ e.state = [d.state EXCEPT ![r] = "IDLE"] /\ e.reqRestart = d.reqRestart
     /\ e.needRestart = [d.needRestart EXCEPT ![r] = FALSE]
     /\ e.status = d.status /\ e.alive = d.alive /\ e.timer = d.timer /\ e.action = d.action
  \/ /\ Running(d) /\ e.state = [d.state EXCEPT ![r] = "STOP"]
     /\ e.reqRestart = [d.reqRestart EXCEPT ![r] = FALSE]
     /\ e.needRestart = [d.needRestart EXCEPT ![r] = FALSE]
     /\ e.status = d.status /\ e.alive = d.alive /\ e.timer = d.timer /\ e.action = d.action
  \/ /\ Running(d) /\ e.status = "DOWN" /\ ~e.alive /\ ~e.timer
     /\ \A s \in Radios \ {r} : d.state[s] # "START"
     /\ \A s \in Radios : /\ e.state[s] = "IDLE" /\ ~e.needRestart[s]
                          /\ e.reqRestart[s] => d.reqRestart[s] /\ d.state[s] # "START"

LEMMA LeaveEffect ==
  ASSUME NEW d \in Daemons, Coherent(d), NEW r \in Radios, d.state[r] = "START"
  PROVE  LET e == StopMember(d, r) IN
         e \in Daemons /\ Coherent(e) /\ LeaveResult(d, r, e)
<1> DEFINE nr == [d.needRestart EXCEPT ![r] = FALSE]
           sa == [d.isStartable EXCEPT ![r] = FALSE]
           rr == [d.reqRestart EXCEPT ![r] = FALSE]
           idle == [d.state EXCEPT ![r] = "IDLE"]
           stop == [d.state EXCEPT ![r] = "STOP"]
           g == [d EXCEPT !.isStartable = sa, !.needRestart = nr, !.state = idle]
           f == [d EXCEPT !.isStartable = sa, !.needRestart = nr, !.state = stop, !.reqRestart = rr]
           e == StopMember(d, r)
<1>1. e = IF ~Running(d) THEN g ELSE IF InState(f, "START") # {} THEN f ELSE StopGroup(f)
  BY DEF StopMember, Running, Daemons
<1>2. /\ nr \in [Radios -> BOOLEAN] /\ sa \in [Radios -> BOOLEAN] /\ rr \in [Radios -> BOOLEAN]
      /\ {idle, stop} \subseteq [Radios -> {"IDLE", "START", "STOP"}]
  BY DEF Daemons
<1>3. /\ idle[r] = "IDLE" /\ stop[r] = "STOP" /\ rr[r] = FALSE
      /\ \A s \in Radios \ {r} : /\ idle[s] = d.state[s] /\ stop[s] = d.state[s]
                                 /\ rr[s] = d.reqRestart[s]
  BY DEF Daemons
<1> HIDE DEF nr, sa, rr, idle, stop
<1>4. /\ g \in Daemons /\ g.state = idle /\ g.needRestart = nr /\ g.reqRestart = d.reqRestart
      /\ g.status = d.status /\ g.enabled = d.enabled /\ g.alive = d.alive /\ g.timer = d.timer
      /\ g.isRunning = d.isRunning /\ g.action = d.action
  BY <1>2 DEF Daemons
<1>5. /\ f \in Daemons /\ f.state = stop /\ f.needRestart = nr /\ f.reqRestart = rr
      /\ f.status = d.status /\ f.enabled = d.enabled /\ f.alive = d.alive /\ f.timer = d.timer
      /\ f.isRunning = d.isRunning /\ f.action = d.action
  BY <1>2 DEF Daemons
<1> HIDE DEF e, f, g
<1>6. CASE ~Running(d)
  <2>1. InState(g, "STOP") \subseteq InState(d, "STOP")
    BY <1>3, <1>4 DEF InState
  <2>2. Coherent(g)
    BY <1>4, <1>6, <2>1 DEF Coherent, Running
  <2>3. QED
    BY <1>1, <1>4, <1>6, <2>2 DEF LeaveResult, e, idle, nr
<1>7. CASE Running(d) /\ InState(f, "START") # {}
  <2>1. Coherent(f)
    BY <1>5, <1>7 DEF Coherent, Running
  <2>2. QED
    BY <1>1, <1>5, <1>7, <2>1 DEF LeaveResult, e, stop, nr, rr
<1>8. CASE Running(d) /\ InState(f, "START") = {}
  <2>1. e = StopGroup(f)
    BY <1>1, <1>8
  <2>2. /\ e \in Daemons /\ Coherent(e) /\ e.status = "DOWN" /\ ~e.alive /\ ~e.timer
        /\ \A s \in Radios : /\ e.state[s] = "IDLE" /\ ~e.needRestart[s]
                             /\ e.reqRestart[s] => f.reqRestart[s] /\ f.state[s] # "START"
    BY <1>5, <2>1, StopGroupEffect
  <2>3. \A s \in Radios \ {r} : d.state[s] # "START"
    BY <1>3, <1>5, <1>8 DEF InState
  <2>4. ASSUME NEW s \in Radios, e.reqRestart[s]
        PROVE  d.reqRestart[s] /\ d.state[s] # "START"
    <3>1. rr[s]
      BY <1>5, <2>2, <2>4
    <3>2. QED
      BY <1>3, <2>3, <3>1
  <2>5. QED
    BY <1>8, <2>2, <2>3, <2>4 DEF LeaveResult, e
<1>9. QED
  BY <1>6, <1>7, <1>8

-----------------------------------------------------------------------------
(* The restart *)

\* What a request to restart comes to: nothing, the action timer, or the end of
\* the process, which is started again when it has ended.
RestartResult(d, e) ==
  /\ e.state = d.state /\ e.needRestart = d.needRestart /\ e.alive = d.alive
  /\ \/ e.status = d.status /\ e.timer = d.timer /\ (d.action => e.action)
        /\ \A r \in Radios : e.reqRestart[r] => d.reqRestart[r]
     \/ d.alive /\ e.status = "RESTARTING" /\ ~e.timer /\ e.action = d.action
        /\ \A r \in Radios : ~e.reqRestart[r]

LEMMA TryEffect ==
  ASSUME NEW d \in Daemons, Coherent(d)
  PROVE  LET e == TryRestart(d) IN e \in Daemons /\ Coherent(e) /\ RestartResult(d, e)
<1> DEFINE e == TryRestart(d)
           later == [d EXCEPT !.action = TRUE]
           again == [d EXCEPT !.reqRestart = None, !.status = "RESTARTING",
                              !.enabled = TRUE, !.timer = FALSE]
           done == [d EXCEPT !.reqRestart = None]
<1>1. e = d \/ e = later \/ (e = again /\ d.alive) \/ e = done
  BY DEF TryRestart
<1>2. None \in [Radios -> BOOLEAN] /\ \A r \in Radios : None[r] = FALSE
  BY DEF None
<1> HIDE DEF e
<1>3. CASE e = d
  BY <1>3 DEF RestartResult, e
<1>4. CASE e = later
  <2>1. later \in Daemons /\ Like(d, later) /\ later.action
    BY DEF Daemons, Like
  <2> HIDE DEF later
  <2>2. Coherent(later)
    BY <2>1, LikeCoherent
  <2>3. QED
    BY <1>4, <2>1, <2>2 DEF RestartResult, Like, e
<1>5. CASE e = again /\ d.alive
  <2>1. /\ again \in Daemons /\ again.reqRestart = None /\ again.status = "RESTARTING"
        /\ again.enabled /\ ~again.timer /\ again.state = d.state
        /\ again.needRestart = d.needRestart /\ again.alive = d.alive
        /\ again.isRunning = d.isRunning /\ again.action = d.action
    BY <1>2 DEF Daemons
  <2> HIDE DEF again
  <2>2. Coherent(again)
    BY <1>5, <2>1 DEF Coherent, Running, InState
  <2>3. QED
    BY <1>2, <1>5, <2>1, <2>2 DEF RestartResult, e
<1>6. CASE e = done
  <2>1. /\ done \in Daemons /\ done.reqRestart = None /\ done.status = d.status
        /\ done.enabled = d.enabled /\ done.timer = d.timer /\ done.state = d.state
        /\ done.needRestart = d.needRestart /\ done.alive = d.alive
        /\ done.isRunning = d.isRunning /\ done.action = d.action
    BY <1>2 DEF Daemons
  <2> HIDE DEF done
  <2>2. Coherent(done)
    BY <2>1 DEF Coherent, Running, InState
  <2>3. QED
    BY <1>2, <1>6, <2>1, <2>2 DEF RestartResult, e
<1>7. QED
  BY <1>1, <1>3, <1>4, <1>5, <1>6

\* wld_secDmn_restart
LEMMA RestartMemberEffect ==
  ASSUME NEW d \in Daemons, Coherent(d), NEW r \in Radios
  PROVE  LET e == RestartMember(d, r)
             n == [d EXCEPT !.needRestart[r] = FALSE]
             q == [n EXCEPT !.reqRestart[r] = TRUE] IN
         /\ e \in Daemons /\ Coherent(e)
         /\ \/ e = d /\ ~Running(d)
            \/ e = n /\ n.state[r] # "START"
            \/ RestartResult(q, e) /\ Running(d) /\ n.state[r] = "START"
         /\ n \in Daemons /\ q \in Daemons /\ Coherent(n) /\ Coherent(q)
<1> DEFINE e == RestartMember(d, r)
           n == [d EXCEPT !.needRestart[r] = FALSE]
           q == [n EXCEPT !.reqRestart[r] = TRUE]
<1>1. n \in Daemons
  BY Updates
<1>2. n.state = d.state
  BY DEF Daemons
<1>3. Coherent(n)
  BY DEF Coherent, Daemons, Running, InState
<1>4. e = IF ~Running(d) THEN d ELSE IF n.state[r] # "START" THEN n ELSE TryRestart(q)
  BY <1>2 DEF RestartMember
<1> HIDE DEF n
<1>5. q \in Daemons
  BY <1>1, Updates
<1>6. Coherent(q)
  BY <1>1, <1>3 DEF Coherent, Daemons, Running, InState
<1> HIDE DEF q, e
<1>7. TryRestart(q) \in Daemons /\ Coherent(TryRestart(q)) /\ RestartResult(q, TryRestart(q))
  BY <1>5, <1>6, TryEffect
<1>8. e \in Daemons /\ Coherent(e)
      /\ \/ e = d /\ ~Running(d)
         \/ e = n /\ n.state[r] # "START"
         \/ RestartResult(q, e) /\ Running(d) /\ n.state[r] = "START"
  BY <1>1, <1>3, <1>4, <1>7
<1>9. QED
  BY <1>1, <1>3, <1>5, <1>6, <1>8 DEF n, q, e

\* The members that the restart timer calls, one after the other.
Good(d) == d \in Daemons /\ Coherent(d)

LEMMA CbEffect ==
  ASSUME NEW d, Good(d), NEW r \in Radios, enable \in [Radios -> BOOLEAN], NEW e \in RestartCb({d}, r)
  PROVE  LET n == [d EXCEPT !.needRestart[r] = FALSE] IN
         /\ Good(e) /\ Good(n)
         /\ IF enable[r] /\ ~Running(d) THEN MemberResult(n, r, e) ELSE e = n
<1> DEFINE n == [d EXCEPT !.needRestart[r] = FALSE]
<1>1. n \in Daemons
  BY Updates DEF Good
<1>2. Coherent(n)
  BY DEF Coherent, Daemons, Running, InState, Good
<1>3. e \in IF enable[r] /\ ~Running(d) THEN StartMember(n, r) ELSE {n}
  BY DEF RestartCb
<1> HIDE DEF n
<1>4. CASE enable[r] /\ ~Running(d)
  <2>1. e \in StartMember(n, r)
    BY <1>3, <1>4
  <2>2. QED
    BY <1>1, <1>2, <1>4, <2>1, MemberEffect DEF Good, n
<1>5. CASE ~(enable[r] /\ ~Running(d))
  BY <1>1, <1>2, <1>3, <1>5 DEF Good, n
<1>6. QED
  BY <1>4, <1>5

LEMMA CbUnion ==
  ASSUME NEW ds, NEW r, NEW e \in RestartCb(ds, r)
  PROVE  \E d \in ds : e \in RestartCb({d}, r)
  BY DEF RestartCb

Sound == {d \in Daemons : Coherent(d)}

\* The restart timer leads where calling the members one by one leads: W[k] is
\* a set of records that can be met after the k-th.
LEMMA RestartedFrom ==
  ASSUME NEW d, NEW W, enable \in [Radios -> BOOLEAN], Good(d), d \in W[0],
         \A k \in 1..Len(Members) : \A x \in W[k - 1] : \A e \in RestartCb({x}, Members[k]) :
           Good(x) /\ Good(e) => e \in W[k]
  PROVE  \A e \in Restarted(d) : Good(e) /\ e \in W[Len(Members)]
<1> DEFINE V == SUBSET Sound
           n == Len(Members)
           F(g) == [k \in 0..n |-> IF k = 0 THEN {d} ELSE RestartCb(g[k - 1], Members[k])]
           after == CHOOSE g : g = F(g)
           h == [p \in V \X (1..n) |-> RestartCb(p[1], Members[p[2]])]
<1>1. n \in Nat /\ \A k \in 1..n : Members[k] \in Radios
  BY ConstantsAssumption DEF Radios, Range
<1>2. {d} \in V
  BY DEF Good, Sound
<1>3. ASSUME NEW ds \in V, NEW r \in Radios
      PROVE  RestartCb(ds, r) \in V
  <2>1. SUFFICES ASSUME NEW e \in RestartCb(ds, r) PROVE e \in Sound
    OBVIOUS
  <2>2. PICK x \in ds : e \in RestartCb({x}, r)
    BY CbUnion
  <2>3. Good(x)
    BY DEF Sound, Good
  <2>4. Good(e)
    BY <2>2, <2>3, CbEffect
  <2>5. QED
    BY <2>4 DEF Sound, Good
<1> HIDE DEF V
<1>4. h \in [V \X (1..n) -> V]
  BY <1>1, <1>3
<1>5. \A T \in V, k \in 1..n : h[<<T, k>>] = RestartCb(T, Members[k])
  OBVIOUS
<1> HIDE DEF h, n
<1>6. PICK f : IsRun(f, V, n, {d}, h)
  BY <1>1, <1>2, <1>4, Steps
<1>7. f = F(f)
  <2>1. \A k \in 1..n : k - 1 \in 0..n
    BY <1>1
  <2>2. \A k \in 1..n : f[k] = RestartCb(f[k - 1], Members[k])
    BY <1>5, <1>6, <2>1 DEF IsRun
  <2>3. \A k \in 0..n : f[k] = IF k = 0 THEN {d} ELSE RestartCb(f[k - 1], Members[k])
    BY <1>1, <1>6, <2>2 DEF IsRun
  <2>4. QED
    BY <1>6, <2>3 DEF IsRun
<1>8. after = F(after)
  BY <1>7, Zenon
<1> HIDE DEF after
<1> DEFINE In == {k \in 0..n : \A e \in after[k] : Good(e) /\ e \in W[k]}
<1>9. 0 \in In
  <2>1. 0 \in 0..n
    BY <1>1
  <2>2. after[0] = {d}
    BY <1>8, <2>1
  <2>3. QED
    BY <2>1, <2>2
<1>10. ASSUME NEW k \in 1..n, k - 1 \in In PROVE k \in In
  <2>1. k \in 0..n /\ k # 0 /\ Members[k] \in Radios /\ k \in 1..Len(Members)
    BY <1>1 DEF n
  <2>2. after[k] = RestartCb(after[k - 1], Members[k])
    BY <1>8, <2>1
  <2>3. SUFFICES ASSUME NEW e \in after[k] PROVE Good(e) /\ e \in W[k]
    BY <2>1
  <2>4. PICK x \in after[k - 1] : e \in RestartCb({x}, Members[k])
    BY <2>2, CbUnion
  <2>5. Good(x) /\ x \in W[k - 1]
    BY <1>10
  <2>6. Good(e)
    BY <2>1, <2>4, <2>5, CbEffect
  <2>7. QED
    BY <2>1, <2>4, <2>5, <2>6
<1>11. n \in In
  <2> HIDE DEF In
  <2>1. n \in 0..n
    BY <1>1
  <2>2. QED
    BY <1>1, <1>9, <1>10, <2>1, UpTo
<1>12. Restarted(d) = after[n]
  BY Zenon DEF Restarted, after, n
<1>13. QED
  BY <1>11, <1>12 DEF n

-----------------------------------------------------------------------------
(* Every step keeps the records of the process coherent. *)

LEMMA BecomesGood ==
  ASSUME Basic, NEW d, Good(d), BecomesDmn(d)
  PROVE  Good(dmn') /\ dmn' = d /\ loaded' \in [Radios -> BOOLEAN]
<1>1. dmn' = d
  BY DEF BecomesDmn
<1>2. loaded' \in [Radios -> BOOLEAN]
  BY DEF BecomesDmn, Basic, TypeOK
<1>3. QED
  BY <1>1, <1>2

\* What is left to show of a step that leaves the sites alone.
LEMMA BasicNext ==
  ASSUME Basic, site' = site, Good(dmn'), loaded' \in [Radios -> BOOLEAN],
         enable' \in [Radios -> BOOLEAN], want' \in [Radios -> SUBSET Requests],
         fsm' \in [Radios -> Phases], startBit' \in [Radios -> BOOLEAN]
  PROVE  Basic'
<1>1. TypeOK'
  BY DEF Basic, TypeOK, Good
<1>2. Coherent(dmn')
  BY DEF Good
<1>3. Coherent(dmn)' <=> Coherent(dmn')
  BY DEF Coherent, Running, InState
<1>4. QED
  BY <1>1, <1>2, <1>3 DEF Basic

LEMMA UserBasic ==
  ASSUME Basic, site' = site, NEW r \in Radios,
         SetEnable(r) \/ SetParam(r) \/ Restart(r) \/ Commit(r)
  PROVE  Basic'
<1> USE DEF Basic, TypeOK
<1>1. \A w \in site.asks : w \in Requests
  BY ConstantsAssumption DEF Requests
<1>2. CASE \E w \in site.asks : want' = [want EXCEPT ![r] = @ \cup {w}]
  <2>1. want' \in [Radios -> SUBSET Requests]
    BY <1>1, <1>2
  <2>2. enable' \in [Radios -> BOOLEAN] /\ fsm' \in [Radios -> Phases]
    BY <1>2 DEF SetEnable, SetParam, Restart, Commit, Phases
  <2>3. startBit' = startBit /\ dmn' = dmn /\ loaded' = loaded
    BY DEF SetEnable, SetParam, Restart, Commit
  <2>4. QED
    BY <2>1, <2>2, <2>3, BasicNext DEF Good
<1>3. CASE Commit(r)
  <2>1. fsm' \in [Radios -> Phases]
    BY <1>3 DEF Commit, Phases
  <2>2. QED
    BY <1>3, <2>1, BasicNext DEF Commit, Good
<1>4. QED
  BY <1>2, <1>3 DEF SetEnable, SetParam, Restart, Ask

LEMMA DependencyBasic ==
  ASSUME Basic, site' = site, NEW r \in Radios, FsmLock(r) \/ FsmDependency(r)
  PROVE  Basic'
<1>1. CASE FsmLock(r)
  <2>1. fsm' \in [Radios -> Phases]
    BY <1>1 DEF FsmLock, Phases, Basic, TypeOK
  <2>2. QED
    BY <1>1, <2>1, BasicNext DEF FsmLock, Good, Basic, TypeOK
<1>2. CASE FsmDependency(r)
  <2> DEFINE starts == want[r] \cap {"all", "enable", "start"} # {}
                       \/ (dmn.state[r] = "START") # enable[r]
             asks == starts \/ "sync" \in want[r]
             again == dmn.needRestart[r] \/ ("sync" \in want[r] /\ ~starts)
             e == [dmn EXCEPT !.needRestart[r] = again]
             q == IF startBit'[r] THEN "STOP" ELSE "CONF"
  <2>1. /\ startBit' = [startBit EXCEPT ![r] = asks] /\ dmn' = e
        /\ fsm' = [fsm EXCEPT ![r] = q] /\ want' = [want EXCEPT ![r] = {}]
        /\ enable' = enable /\ loaded' = loaded
    BY <1>2 DEF FsmDependency, Basic, TypeOK, Daemons
  <2>2. asks \in BOOLEAN /\ again \in BOOLEAN /\ q \in Phases
    BY DEF Basic, TypeOK, Daemons, Phases
  <2> HIDE DEF asks, again, q, starts
  <2>3. e \in Daemons
    BY <2>2, Updates DEF Basic, TypeOK
  <2>4. Coherent(e)
    BY DEF Coherent, Daemons, Running, InState, Basic, TypeOK
  <2>5. /\ startBit' \in [Radios -> BOOLEAN] /\ fsm' \in [Radios -> Phases]
        /\ want' \in [Radios -> SUBSET Requests]
    BY <2>1, <2>2 DEF Basic, TypeOK
  <2>6. QED
    BY <2>1, <2>3, <2>4, <2>5, BasicNext DEF Good, Basic, TypeOK
<1>3. QED
  BY <1>1, <1>2

\* What s_doStopHostapd makes of the process.
LEMMA StopHostapdEffect ==
  ASSUME Basic, NEW r \in Radios, FsmStopHostapd(r)
  PROVE  /\ Good(dmn') /\ loaded' \in [Radios -> BOOLEAN]
         /\ \/ dmn' = dmn
            \/ /\ dmn.needRestart[r]
               /\ \E d : /\ Good(d)
                         /\ \/ dmn.state[r] = "START" /\ d = dmn
                            \/ dmn.state[r] # "START" /\ MemberResult(dmn, r, d)
                         /\ dmn' = RestartMember(d, r)
            \/ dmn.state[r] = "START" /\ LeaveResult(dmn, r, dmn')
<1>1. dmn \in Daemons /\ Coherent(dmn) /\ enable \in [Radios -> BOOLEAN] /\ Good(dmn)
      /\ loaded \in [Radios -> BOOLEAN]
  BY DEF Basic, TypeOK, Good
<1>2. CASE UNCHANGED <<dmn, loaded>>
  BY <1>1, <1>2
<1>3. CASE /\ dmn.needRestart[r]
           /\ \E d \in IF dmn.state[r] = "START" THEN {dmn} ELSE StartMember(dmn, r) :
                BecomesDmn(RestartMember(d, r))
  <2>1. PICK d \in IF dmn.state[r] = "START" THEN {dmn} ELSE StartMember(dmn, r) :
          BecomesDmn(RestartMember(d, r))
    BY <1>3
  <2>2. /\ Good(d)
        /\ \/ dmn.state[r] = "START" /\ d = dmn
           \/ dmn.state[r] # "START" /\ MemberResult(dmn, r, d)
    <3>1. CASE dmn.state[r] = "START"
      BY <1>1, <2>1, <3>1
    <3>2. CASE dmn.state[r] # "START"
      <4>1. d \in StartMember(dmn, r)
        BY <2>1, <3>2
      <4>2. QED
        BY <1>1, <3>2, <4>1, MemberEffect DEF Good
    <3>3. QED
      BY <3>1, <3>2
  <2>3. Good(RestartMember(d, r))
    BY <2>2, RestartMemberEffect DEF Good
  <2>4. Good(dmn') /\ dmn' = RestartMember(d, r) /\ loaded' \in [Radios -> BOOLEAN]
    BY <2>1, <2>3, BecomesGood
  <2>5. QED
    BY <1>3, <2>2, <2>4
<1>4. CASE BecomesDmn(IF dmn.state[r] = "START" THEN StopMember(dmn, r) ELSE dmn)
  <2>1. CASE dmn.state[r] = "START"
    <3>1. Good(StopMember(dmn, r)) /\ LeaveResult(dmn, r, StopMember(dmn, r))
      BY <1>1, <2>1, LeaveEffect DEF Good
    <3>2. QED
      BY <1>4, <2>1, <3>1, BecomesGood
  <2>2. CASE dmn.state[r] # "START"
    BY <1>1, <1>4, <2>2, BecomesGood
  <2>3. QED
    BY <2>1, <2>2
<1>5. QED
  BY <1>2, <1>3, <1>4 DEF FsmStopHostapd

LEMMA HostapdBasic ==
  ASSUME Basic, site' = site, NEW r \in Radios, FsmStopHostapd(r) \/ FsmNeedRestart(r) \/ FsmConfHostapd(r)
                                  \/ FsmUpdateHostapd(r)
  PROVE  Basic'
<1>1. CASE FsmStopHostapd(r)
  <2>1. Good(dmn') /\ loaded' \in [Radios -> BOOLEAN]
    BY <1>1, StopHostapdEffect
  <2>2. fsm' \in [Radios -> Phases]
    BY <1>1 DEF FsmStopHostapd, Phases, Basic, TypeOK
  <2>3. QED
    BY <1>1, <2>1, <2>2, BasicNext DEF FsmStopHostapd, Basic, TypeOK
<1>2. CASE FsmNeedRestart(r)
  <2> DEFINE e == [dmn EXCEPT !.needRestart[r] = TRUE]
  <2>1. e \in Daemons
    BY Updates DEF Basic, TypeOK
  <2>2. Coherent(e)
    BY DEF Coherent, Daemons, Running, InState, Basic, TypeOK
  <2>3. fsm' \in [Radios -> Phases] /\ startBit' \in [Radios -> BOOLEAN]
    BY <1>2 DEF FsmNeedRestart, Phases, Basic, TypeOK
  <2>4. QED
    BY <1>2, <2>1, <2>2, <2>3, BasicNext DEF FsmNeedRestart, Basic, TypeOK, Good
<1>3. CASE FsmConfHostapd(r)
  <2>1. fsm' \in [Radios -> Phases]
    BY <1>3 DEF FsmConfHostapd, Phases, Basic, TypeOK
  <2>2. loaded' \in [Radios -> BOOLEAN]
    BY <1>3 DEF FsmConfHostapd, Basic, TypeOK
  <2>3. QED
    BY <1>3, <2>1, <2>2, BasicNext DEF FsmConfHostapd, Basic, TypeOK, Good
<1>4. CASE FsmUpdateHostapd(r)
  <2>1. fsm' \in [Radios -> Phases]
    BY <1>4 DEF FsmUpdateHostapd, Phases, Basic, TypeOK
  <2>2. loaded' \in [Radios -> BOOLEAN]
    BY <1>4 DEF FsmUpdateHostapd, Basic, TypeOK
  <2>3. QED
    BY <1>4, <2>1, <2>2, BasicNext DEF FsmUpdateHostapd, Basic, TypeOK, Good
<1>5. QED
  BY <1>1, <1>2, <1>3, <1>4

\* What s_doStartHostapd makes of the process.
LEMMA StartHostapdEffect ==
  ASSUME Basic, NEW r \in Radios, FsmStartHostapd(r)
  PROVE  LET d == [dmn EXCEPT !.needRestart[r] = FALSE] IN
         /\ Good(d) /\ Good(dmn') /\ loaded' \in [Radios -> BOOLEAN]
         /\ IF enable[r] /\ ~d.reqRestart[r] /\ d.state[r] # "START"
            THEN MemberResult(d, r, dmn') ELSE dmn' = d
<1> DEFINE d == [dmn EXCEPT !.needRestart[r] = FALSE]
           starts == enable[r] /\ ~d.reqRestart[r] /\ d.state[r] # "START"
<1>1. d \in Daemons
  BY Updates DEF Basic, TypeOK
<1>2. Coherent(d)
  BY DEF Coherent, Daemons, Running, InState, Basic, TypeOK
<1>3. PICK e \in IF starts THEN StartMember(d, r) ELSE {d} : BecomesDmn(e)
  BY DEF FsmStartHostapd
<1> HIDE DEF d
<1>4. CASE starts
  <2>1. e \in StartMember(d, r)
    BY <1>3, <1>4
  <2>2. Good(e) /\ MemberResult(d, r, e)
    BY <1>1, <1>2, <2>1, MemberEffect DEF Good, Basic, TypeOK
  <2>3. Good(dmn') /\ dmn' = e /\ loaded' \in [Radios -> BOOLEAN]
    BY <1>3, <2>2, BecomesGood
  <2>4. QED
    BY <1>1, <1>2, <1>4, <2>2, <2>3 DEF Good, d
<1>5. CASE ~starts
  <2>1. e = d
    BY <1>3, <1>5
  <2>2. Good(dmn') /\ dmn' = e /\ loaded' \in [Radios -> BOOLEAN]
    BY <1>1, <1>2, <1>3, <2>1, BecomesGood DEF Good
  <2>3. QED
    BY <1>1, <1>2, <1>5, <2>1, <2>2 DEF Good, d
<1>6. QED
  BY <1>4, <1>5

LEMMA StartBasic ==
  ASSUME Basic, site' = site, NEW r \in Radios, FsmStartHostapd(r)
  PROVE  Basic'
<1>1. Good(dmn') /\ loaded' \in [Radios -> BOOLEAN]
  BY StartHostapdEffect
<1>2. PICK q \in {"UPDATE", "IDLE"} : fsm' = [fsm EXCEPT ![r] = q]
  BY DEF FsmStartHostapd
<1>3. fsm' \in [Radios -> Phases]
  BY <1>2 DEF Phases, Basic, TypeOK
<1>4. startBit' \in [Radios -> BOOLEAN] /\ enable' = enable /\ want' = want
  BY DEF FsmStartHostapd, Basic, TypeOK
<1>5. QED
  BY <1>1, <1>3, <1>4, BasicNext DEF Basic, TypeOK

\* The process dies, or ends as it was told to.
LEMMA EndEffect ==
  ASSUME Basic, Crash \/ Terminate
  PROVE  /\ Good(dmn')
         /\ \A r \in Radios : dmn'.state[r] = "IDLE" /\ ~dmn'.needRestart[r]
         /\ dmn'.reqRestart = dmn.reqRestart /\ ~dmn'.alive
         /\ dmn'.timer \/ (~Monitored /\ site.crashes)
<1> DEFINE n == Notified(dmn)
           down == [n EXCEPT !.status = "ERROR", !.alive = FALSE, !.timer = Monitored]
           over == [n EXCEPT !.alive = FALSE, !.timer = TRUE]
<1>1. /\ n \in Daemons /\ n.isRunning = FALSE /\ n.status = dmn.status
      /\ \A r \in Radios : n.state[r] = "IDLE" /\ ~n.needRestart[r]
      /\ n.reqRestart = dmn.reqRestart
  <2>1. /\ n \in Daemons /\ ~n.isRunning /\ n.status = dmn.status
        /\ \A r \in Radios : n.state[r] = "IDLE" /\ ~n.needRestart[r]
        /\ n.reqRestart = dmn.reqRestart
    BY NotifiedEffect DEF Basic, TypeOK
  <2>2. QED
    BY <2>1 DEF Daemons
<1>2. (Crash /\ dmn' = down) \/ (Terminate /\ dmn' = over)
  BY DEF Crash, Terminate
<1> HIDE DEF n
<1>3. CASE Crash /\ dmn' = down
  <2>1. /\ down \in Daemons /\ down.isRunning = FALSE /\ down.alive = FALSE /\ down.status = "ERROR"
        /\ down.timer = Monitored /\ down.state = n.state /\ down.needRestart = n.needRestart
        /\ down.reqRestart = n.reqRestart
    BY <1>1, ConstantsAssumption DEF Daemons
  <2> HIDE DEF down
  <2>2. InState(down, "STOP") = {} /\ ~Running(down)
    BY <1>1, <2>1 DEF InState, Running
  <2>3. Coherent(down)
    BY <2>1, <2>2 DEF Coherent
  <2>4. Monitored \in BOOLEAN /\ site.crashes
    BY <1>3, ConstantsAssumption DEF Crash
  <2>5. down.timer \/ ~Monitored
    BY <2>1, <2>4
  <2>6. QED
    BY <1>1, <1>3, <2>1, <2>3, <2>4, <2>5 DEF Good
<1>4. CASE Terminate /\ dmn' = over
  <2>1. /\ over \in Daemons /\ over.isRunning = FALSE /\ over.alive = FALSE
        /\ over.status = "RESTARTING"
        /\ over.timer = TRUE /\ over.state = n.state /\ over.needRestart = n.needRestart
        /\ over.reqRestart = n.reqRestart
    BY <1>1, <1>4 DEF Daemons, Terminate
  <2> HIDE DEF over
  <2>2. InState(over, "STOP") = {} /\ ~Running(over)
    BY <1>1, <2>1 DEF InState, Running
  <2>3. Coherent(over)
    BY <2>1, <2>2 DEF Coherent
  <2>4. QED
    BY <1>1, <1>4, <2>1, <2>3 DEF Good
<1>5. QED
  BY <1>2, <1>3, <1>4

\* The record that the restart timer, and the action timer, start from.
LEMMA TimerOff ==
  ASSUME Basic
  PROVE  /\ Good([dmn EXCEPT !.timer = FALSE]) /\ Good([dmn EXCEPT !.action = FALSE])
<1>1. [dmn EXCEPT !.timer = FALSE] \in Daemons /\ [dmn EXCEPT !.action = FALSE] \in Daemons
  BY DEF Daemons, Basic, TypeOK
<1>2. Coherent([dmn EXCEPT !.timer = FALSE])
  BY DEF Coherent, Daemons, Running, InState, Basic, TypeOK
<1>3. Coherent([dmn EXCEPT !.action = FALSE])
  BY DEF Coherent, Daemons, Running, InState, Basic, TypeOK
<1>4. QED
  BY <1>1, <1>2, <1>3 DEF Good

LEMMA RestartTimerBasic ==
  ASSUME Basic, site' = site, RestartTimer
  PROVE  Basic'
<1> DEFINE d == [dmn EXCEPT !.timer = FALSE]
           W == [k \in 0..Len(Members) |-> Sound]
<1>1. Good(d) /\ enable \in [Radios -> BOOLEAN]
  BY TimerOff DEF Basic, TypeOK
<1>2. PICK e \in Restarted(d) : BecomesDmn(e)
  BY DEF RestartTimer
<1> HIDE DEF d
<1>3. Len(Members) \in Nat
  BY ConstantsAssumption
<1>4. d \in W[0]
  BY <1>1, <1>3 DEF Good, Sound
<1>5. ASSUME NEW k \in 1..Len(Members), NEW x \in W[k - 1], NEW y \in RestartCb({x}, Members[k]),
             Good(x), Good(y)
      PROVE  y \in W[k]
  BY <1>3, <1>5 DEF Good, Sound
<1> HIDE DEF W
<1>6. Good(e)
  BY <1>1, <1>4, <1>5, RestartedFrom
<1>7. Good(dmn') /\ loaded' \in [Radios -> BOOLEAN]
  BY <1>2, <1>6, BecomesGood
<1>8. QED
  BY <1>7, BasicNext DEF RestartTimer, fsmVars, Basic, TypeOK

\* s_processGrpAction
LEMMA ActionTimerEffect ==
  ASSUME Basic, ActionTimer
  PROVE  /\ Good(dmn') /\ loaded' \in [Radios -> BOOLEAN]
         /\ LET d == [dmn EXCEPT !.action = FALSE] IN
            \E e : /\ Good(e) /\ GroupResult(d, e)
                   /\ \/ dmn' = e
                      \/ Running(d) /\ Running(e) /\ RestartResult(e, dmn')
<1> DEFINE d == [dmn EXCEPT !.action = FALSE]
<1>1. Good(d) /\ enable \in [Radios -> BOOLEAN] /\ Running(d) = Running(dmn)
  BY TimerOff DEF Basic, TypeOK, Daemons, Running
<1>2. PICK e \in StartGroup(d) :
        BecomesDmn(IF Running(dmn) /\ Running(e) THEN TryRestart(e) ELSE e)
  BY DEF ActionTimer
<1> HIDE DEF d
<1>3. Good(e) /\ GroupResult(d, e)
  BY <1>1, <1>2, GroupEffect DEF Good
<1>4. CASE Running(dmn) /\ Running(e)
  <2>1. Good(TryRestart(e)) /\ RestartResult(e, TryRestart(e))
    BY <1>3, TryEffect DEF Good
  <2>2. Good(dmn') /\ dmn' = TryRestart(e) /\ loaded' \in [Radios -> BOOLEAN]
    BY <1>2, <1>4, <2>1, BecomesGood
  <2>3. QED
    BY <1>1, <1>3, <1>4, <2>1, <2>2 DEF d
<1>5. CASE ~(Running(dmn) /\ Running(e))
  <2>1. Good(dmn') /\ dmn' = e /\ loaded' \in [Radios -> BOOLEAN]
    BY <1>2, <1>3, <1>5, BecomesGood
  <2>2. QED
    BY <1>3, <2>1 DEF d
<1>6. QED
  BY <1>4, <1>5

LEMMA TimersBasic ==
  ASSUME Basic, site' = site, Crash \/ Terminate \/ ActionTimer
  PROVE  Basic'
<1>1. Good(dmn') /\ loaded' \in [Radios -> BOOLEAN]
  BY EndEffect, ActionTimerEffect DEF Crash, Terminate, Basic, TypeOK
<1>2. UNCHANGED <<enable, fsmVars>>
  BY DEF Crash, Terminate, ActionTimer
<1>3. QED
  BY <1>1, <1>2, BasicNext DEF fsmVars, Basic, TypeOK

LEMMA InitBasic == Init => Basic
<1>1. SUFFICES ASSUME Init PROVE Basic
  OBVIOUS
<1>2. None \in [Radios -> BOOLEAN]
  BY DEF None
<1>3. dmn \in Daemons /\ InState(dmn, "STOP") = {} /\ ~Running(dmn)
  BY <1>1, <1>2 DEF Init, Daemons, InState, Running
<1>4. TypeOK
  BY <1>1, <1>2, <1>3 DEF Init, TypeOK, Requests, Phases
<1>5. Coherent(dmn)
  BY <1>1, <1>3 DEF Init, Coherent
<1>6. QED
  BY <1>4, <1>5 DEF Basic

LEMMA BasicStep == Basic /\ [Next]_vars => Basic'
<1>1. SUFFICES ASSUME Basic, [Next]_vars PROVE Basic'
  OBVIOUS
<1>2. CASE UNCHANGED vars
  BY <1>1, <1>2, BasicNext DEF vars, moving, fsmVars, Basic, TypeOK, Good
<1>3. CASE Next
  <2>1. site' = site
    BY <1>3 DEF Next
  <2>2. CASE User \/ \E r \in Radios : Commit(r)
    BY <1>1, <2>1, <2>2, UserBasic DEF User
  <2>3. ASSUME NEW r \in Radios, FsmStep(r)
        PROVE  Basic'
    BY <1>1, <2>1, <2>3, DependencyBasic, HostapdBasic, StartBasic DEF FsmStep
  <2>4. CASE Timers \/ Crash
    BY <1>1, <2>1, <2>4, RestartTimerBasic, TimersBasic DEF Timers
  <2>5. QED
    BY <1>3, <2>2, <2>3, <2>4 DEF Next, Machine
<1>4. QED
  BY <1>1, <1>2, <1>3

\* Every variable keeps its type.
THEOREM TypeCorrect == Spec => []TypeOK
<1>1. Basic => TypeOK
  BY DEF Basic
<1>2. QED
  BY <1>1, InitBasic, BasicStep, PTL DEF Spec

\* The process, the group and its members never disagree on whether hostapd
\* runs, and it never runs for nobody (s_stopGrp, s_onStopProcCb).
THEOREM ProcessesCoherent == Spec => []ProcessCoherent
<1>1. Basic => ProcessCoherent
  BY DEF Basic, Coherent, ProcessCoherent
<1>2. QED
  BY <1>1, InitBasic, BasicStep, PTL DEF Spec

-----------------------------------------------------------------------------
(* Nobody is forgotten, where starts succeed and the same radios stay enabled. *)

\* Who is enabled and not started was not before, when nobody was going to restart it.
Serves(d, e) ==
  \A r \in Radios : enable[r] /\ e.state[r] # "START" =>
    Back(e) \/ (d.state[r] # "START" /\ ~Back(d))

\* s_startGrp leaves only enabled members started, and looks at them again
\* unless the process runs or ends.
LEMMA GroupKeeps ==
  ASSUME NEW d, Good(d), NEW e, Good(e), GroupResult(d, e), ~site.startFails,
         enable \in [Radios -> BOOLEAN], Asks(d), \A r \in Radios : d.state[r] = "START" => enable[r]
  PROVE  Kept(e) /\ Serves(d, e)
<1>1. InState(d, "START") \subseteq Wanted
  BY DEF InState, Wanted
<1>2. CASE /\ Like(d, e) /\ e.action = d.action
           /\ Running(d) \/ Wanted = {} \/ InState(d, "START") = {} \/ d.alive
  <2>1. ASSUME NEW r \in Radios, d.state[r] = "START" PROVE d.alive
    <3>1. r \in Wanted /\ r \in InState(d, "START")
      BY <1>1, <2>1 DEF InState
    <3>2. Running(d) => d.alive
      BY DEF Good, Coherent
    <3>3. QED
      BY <1>2, <3>1, <3>2
  <2>2. Waits(e)
    BY <1>2, <2>1 DEF Waits, Like
  <2>3. Asks(e)
    BY <1>2 DEF Asks, Like, Running
  <2>4. Serves(d, e)
    BY <1>2 DEF Serves, Like, Back, Running
  <2>5. QED
    BY <2>2, <2>3, <2>4 DEF Kept
<1>3. CASE Like(d, e) /\ e.action
  <2>1. Waits(e)
    BY <1>3 DEF Waits, Like
  <2>2. Asks(e)
    BY <1>3 DEF Asks, Like, Running
  <2>3. Serves(d, e)
    BY <1>3 DEF Serves, Like, Back, Running
  <2>4. QED
    BY <2>1, <2>2, <2>3 DEF Kept
<1>4. CASE Started(d, e) /\ ~Running(d) /\ InState(d, "START") = Wanted
  <2>1. \A r \in Radios : enable[r] => e.state[r] = "START"
    BY <1>4 DEF Started, InState, Wanted
  <2>2. Running(e) /\ e.alive
    BY <1>4 DEF Started, Running
  <2>3. Waits(e)
    BY <1>4, <2>2 DEF Waits, Started
  <2>4. Asks(e)
    BY <1>4, <2>1, <2>2 DEF Asks, Started
  <2>5. Serves(d, e)
    BY <2>1 DEF Serves
  <2>6. QED
    BY <2>3, <2>4, <2>5 DEF Kept
<1>5. ~(Running(d) /\ Wanted = {})
  <2>1. Running(d) => InState(d, "START") # {}
    BY DEF Good, Coherent
  <2>2. QED
    BY <1>1, <2>1
<1>6. QED
  BY <1>1, <1>2, <1>3, <1>4, <1>5 DEF GroupResult

\* wld_secDmn_start of an enabled member that was not started and asks for nothing
LEMMA MemberKeeps ==
  ASSUME NEW d, Good(d), NEW e, Good(e), NEW r \in Radios, MemberResult(d, r, e), ~site.startFails,
         enable \in [Radios -> BOOLEAN], Kept(d), enable[r], d.state[r] # "START", ~d.reqRestart[r]
  PROVE  Kept(e) /\ Serves(d, e)
<1> DEFINE m == Asked(d, r)
<1>1. /\ m \in Daemons /\ m.status = d.status /\ m.alive = d.alive /\ m.timer = d.timer
      /\ m.reqRestart = d.reqRestart /\ m.action = d.action
      /\ m.state[r] = "START" /\ ~m.needRestart[r]
      /\ \A s \in Radios \ {r} : m.state[s] = d.state[s] /\ m.needRestart[s] = d.needRestart[s]
  BY AskedEffect, ZenonT(60) DEF Good
<1>2. Good(m)
  BY <1>1, AskedCoherent DEF Good
<1> HIDE DEF m
<1>3. \A s \in Radios : m.state[s] = "START" => enable[s]
  BY <1>1 DEF Kept, Waits
<1>4. Asks(m)
  BY <1>1 DEF Kept, Asks, Running
<1>5. Serves(d, m) /\ \A s \in Radios : m.state[s] # "START" => d.state[s] # "START"
  BY <1>1 DEF Serves, Back, Running
<1>6. CASE e = m /\ Running(d)
  <2>1. m.alive
    BY <1>1, <1>6 DEF Good, Coherent
  <2>2. Waits(m)
    BY <1>3, <2>1 DEF Waits
  <2>3. QED
    BY <1>4, <1>5, <1>6, <2>2 DEF Kept
<1>7. CASE GroupResult(m, e)
  <2>1. Kept(e) /\ Serves(m, e)
    BY <1>2, <1>3, <1>4, <1>7, GroupKeeps
  <2>2. Back(m) = Back(d)
    BY <1>1 DEF Back, Running
  <2>3. Serves(d, e)
    BY <1>5, <2>1, <2>2 DEF Serves
  <2>4. QED
    BY <2>1, <2>3
<1>8. QED
  BY <1>6, <1>7 DEF MemberResult, m

\* wld_dmn_restartDeamon of a group that runs
LEMMA RestartKeeps ==
  ASSUME NEW d, Good(d), NEW e, Good(e), RestartResult(d, e), Running(d), Kept(d)
  PROVE  Kept(e) /\ Serves(d, e)
<1>1. d.alive /\ ~d.timer /\ ~Back(d)
  BY DEF Good, Coherent, Running, Back
<1>2. Waits(e)
  BY <1>1 DEF Kept, Waits, RestartResult
<1>3. Asks(e)
  BY <1>1 DEF Kept, Asks, RestartResult, Running
<1>4. Serves(d, e)
  BY <1>1 DEF Serves, RestartResult
<1>5. QED
  BY <1>2, <1>3, <1>4 DEF Kept

(***************************************************************************)
(* The restart timer calls the members one by one.  After k of them: those *)
(* that are enabled are started, the process runs only when all are, and   *)
(* what the others had asked for is kept until it does.                    *)
(***************************************************************************)
Due(k, d) ==
  /\ ~d.timer /\ (d.alive => Running(d))
  /\ Waits(d)
  /\ \A r \in Radios : /\ d.needRestart[r] => d.state[r] = "START"
                       /\ d.reqRestart[r] => enable[r]
  /\ Running(d) => \A r \in Radios : enable[r] => d.state[r] = "START"
  /\ (\E r \in Radios : d.reqRestart[r] /\ d.state[r] = "START")
       => Running(d) \/ \E r \in Radios : enable[r] /\ d.state[r] # "START"
  /\ \A j \in 1..k : enable[Members[j]] => d.state[Members[j]] = "START"

\* The record of a member that asks, next to the one before.
AskedIs(d, r, m) ==
  /\ m \in Daemons /\ m.status = d.status /\ m.alive = d.alive /\ m.timer = d.timer
  /\ m.enabled = d.enabled /\ m.reqRestart = d.reqRestart /\ m.action = d.action
  /\ m.state[r] = "START" /\ ~m.needRestart[r]
  /\ \A s \in Radios \ {r} : m.state[s] = d.state[s] /\ m.needRestart[s] = d.needRestart[s]

LEMMA AskedSummary ==
  ASSUME NEW d \in Daemons, NEW r \in Radios, enable \in [Radios -> BOOLEAN]
  PROVE  AskedIs(d, r, Asked(d, r))
  BY AskedEffect DEF AskedIs

\* wld_secDmn_start as the restart timer calls it
LEMMA DueAsked ==
  ASSUME NEW k \in Nat, k + 1 \in 1..Len(Members), NEW d, Good(d), Due(k, d), NEW e, Good(e),
         enable \in [Radios -> BOOLEAN], ~site.startFails,
         enable[Members[k + 1]], ~Running(d), MemberResult(d, Members[k + 1], e)
  PROVE  Due(k + 1, e)
<1> DEFINE r == Members[k + 1]
           m == Asked(d, r)
<1>1. r \in Radios /\ \A j \in 1..k : Members[j] \in Radios
  BY ConstantsAssumption DEF Radios, Range
<1> HIDE DEF r
<1>2. /\ m \in Daemons /\ m.status = d.status /\ m.alive = d.alive /\ m.timer = d.timer
      /\ m.enabled = d.enabled /\ m.reqRestart = d.reqRestart /\ m.action = d.action
      /\ m.state[r] = "START" /\ ~m.needRestart[r]
      /\ \A s \in Radios \ {r} : m.state[s] = d.state[s] /\ m.needRestart[s] = d.needRestart[s]
  <2>1. d \in Daemons /\ r \in Radios
    BY <1>1 DEF Good
  <2>2. AskedIs(d, r, m)
    BY <2>1, AskedSummary
  <2> HIDE DEF m
  <2>3. QED
    BY <2>2 DEF AskedIs
<1>3. ~m.alive /\ ~m.timer /\ ~Running(m)
  <2>1. ~d.alive /\ ~d.timer
    BY DEF Due
  <2>2. ~Running(m)
    BY <1>2 DEF Running
  <2> HIDE DEF m
  <2>3. QED
    BY <1>2, <2>1, <2>2
<1> HIDE DEF m
<1>4. /\ enable[r]
      /\ \A s \in Radios : /\ m.state[s] = "START" => enable[s]
                           /\ m.needRestart[s] => m.state[s] = "START"
                           /\ m.reqRestart[s] => enable[s]
                           /\ d.state[s] = "START" => m.state[s] = "START"
  BY <1>1, <1>2 DEF Due, Waits, r
<1>5. \A j \in 1..(k + 1) : enable[Members[j]] => m.state[Members[j]] = "START"
  <2>1. \A j \in 1..k : enable[Members[j]] => m.state[Members[j]] = "START"
    BY <1>1, <1>4 DEF Due
  <2>2. QED
    BY <1>2, <2>1 DEF r
<1>6. CASE e = m /\ d.state[r] = "START" /\ (d.action \/ d.enabled)
  <2>1. \A s \in Radios : m.state[s] = d.state[s]
    BY <1>2, <1>6
  <2>2. Waits(m)
    BY <1>2, <2>1 DEF Due, Waits
  <2>3. (\E s \in Radios : m.reqRestart[s] /\ m.state[s] = "START")
          => \E s \in Radios : enable[s] /\ m.state[s] # "START"
    BY <1>2, <2>1 DEF Due
  <2>4. QED
    BY <1>3, <1>4, <1>5, <1>6, <2>2, <2>3 DEF Due
<1>7. CASE Like(m, e) /\ e.action /\ ~(Wanted \subseteq InState(m, "START"))
  <2>1. \E s \in Radios : enable[s] /\ m.state[s] # "START"
    BY <1>7 DEF Wanted, InState
  <2>2. Waits(e)
    BY <1>4, <1>7 DEF Waits, Like
  <2>3. QED
    BY <1>3, <1>4, <1>5, <1>7, <2>1, <2>2 DEF Due, Like, Running
<1>8. CASE Started(m, e) /\ (InState(m, "START") \subseteq Wanted => InState(m, "START") = Wanted)
  <2>1. \A s \in Radios : enable[s] => m.state[s] = "START"
    BY <1>4, <1>8 DEF Wanted, InState
  <2>2. Waits(e)
    BY <1>4, <1>8 DEF Waits, Started
  <2>3. Running(e) /\ ~e.timer
    BY <1>8 DEF Started, Running
  <2>4. QED
    BY <1>4, <1>5, <1>8, <2>1, <2>2, <2>3 DEF Due, Started
<1>9. r \in Wanted /\ r \in InState(m, "START")
  BY <1>1, <1>2, <1>4 DEF Wanted, InState
<1>10. QED
  BY <1>3, <1>6, <1>7, <1>8, <1>9 DEF MemberResult, GroupResult, r, m

LEMMA DueNext ==
  ASSUME NEW k \in 1..Len(Members), NEW d, Good(d), Due(k - 1, d), NEW e, Good(e),
         e \in RestartCb({d}, Members[k]), enable \in [Radios -> BOOLEAN], ~site.startFails
  PROVE  Due(k, e)
<1> DEFINE r == Members[k]
           n == [d EXCEPT !.needRestart[r] = FALSE]
           i == k - 1
<1>1. r \in Radios /\ i \in Nat /\ i + 1 = k /\ \A j \in 1..k : Members[j] \in Radios
  BY ConstantsAssumption DEF Radios, Range
<1>2. Good(n) /\ IF enable[r] /\ ~Running(d) THEN MemberResult(n, r, e) ELSE e = n
  BY <1>1, CbEffect
<1>3. /\ n.status = d.status /\ n.alive = d.alive /\ n.timer = d.timer /\ n.action = d.action
      /\ n.state = d.state /\ n.reqRestart = d.reqRestart
      /\ \A s \in Radios : n.needRestart[s] => d.needRestart[s]
  BY <1>1 DEF Good, Daemons
<1> HIDE DEF n
<1>4. Due(i, n)
  BY <1>3 DEF Due, Waits, Running
<1>5. CASE enable[r] /\ ~Running(d)
  <2>1. MemberResult(n, r, e) /\ ~Running(n)
    BY <1>2, <1>3, <1>5 DEF Running
  <2> HIDE DEF i
  <2>2. Due(i + 1, e)
    BY <1>1, <1>2, <1>4, <1>5, <2>1, DueAsked DEF r
  <2>3. QED
    BY <1>1, <2>2
<1>6. CASE ~(enable[r] /\ ~Running(d))
  <2>1. e = n
    BY <1>2, <1>6
  <2>2. enable[r] => n.state[r] = "START"
    BY <1>1, <1>3, <1>6 DEF Due
  <2>3. \A j \in 1..k : enable[Members[j]] => n.state[Members[j]] = "START"
    <3>1. \A j \in 1..i : enable[Members[j]] => n.state[Members[j]] = "START"
      BY <1>4 DEF Due
    <3>2. QED
      BY <1>1, <2>2, <3>1
  <2>4. QED
    BY <1>4, <2>1, <2>3 DEF Due
<1>7. QED
  BY <1>5, <1>6

LEMMA RestartTimerSteady ==
  ASSUME Basic, Kept(dmn), RestartTimer, ~site.startFails
  PROVE  Kept(dmn') /\ \A r \in Radios : enable[r] => dmn'.state[r] = "START"
<1> DEFINE d == [dmn EXCEPT !.timer = FALSE]
           n == Len(Members)
           W == [k \in 0..n |-> {e \in Sound : Due(k, e)}]
<1>1. Good(d) /\ enable \in [Radios -> BOOLEAN]
  BY TimerOff DEF Basic, TypeOK
<1>2. /\ d.status = dmn.status /\ d.alive = dmn.alive /\ d.state = dmn.state /\ ~d.timer
      /\ d.action = dmn.action /\ d.reqRestart = dmn.reqRestart /\ d.needRestart = dmn.needRestart
  BY DEF Basic, TypeOK, Daemons
<1>3. PICK e \in Restarted(d) : BecomesDmn(e)
  BY DEF RestartTimer
<1>4. ~dmn.alive /\ ~Running(dmn)
  BY DEF RestartTimer, Basic, Coherent, Running
<1> HIDE DEF d
<1>5. Due(0, d)
  <2>1. ~Running(d) /\ ~d.alive
    BY <1>2, <1>4 DEF Running
  <2>2. Waits(d)
    BY <1>2 DEF Kept, Waits
  <2>3. \A r \in Radios : /\ d.needRestart[r] => d.state[r] = "START"
                          /\ d.reqRestart[r] => enable[r]
                          /\ ~(d.reqRestart[r] /\ d.state[r] = "START")
    BY <1>2, <1>4 DEF Kept, Asks
  <2>4. QED
    BY <1>2, <2>1, <2>2, <2>3 DEF Due
<1>6. n \in Nat
  BY ConstantsAssumption
<1>7. d \in W[0]
  BY <1>1, <1>5, <1>6 DEF Good, Sound
<1>8. ASSUME NEW k \in 1..n, NEW x \in W[k - 1], NEW y \in RestartCb({x}, Members[k]),
             Good(x), Good(y)
      PROVE  y \in W[k]
  <2>1. k - 1 \in 0..n /\ k \in 0..n
    BY <1>6
  <2>2. Due(k - 1, x)
    BY <2>1
  <2>3. Due(k, y)
    BY <1>1, <1>8, <2>2, DueNext
  <2>4. QED
    BY <1>8, <2>1, <2>3 DEF Good, Sound
<1>9. \A k \in 0..n : \A y \in W[k] : Due(k, y)
  OBVIOUS
<1> HIDE DEF W
<1>10. Good(e) /\ e \in W[n]
  BY <1>1, <1>7, <1>8, RestartedFrom
<1>11. Due(n, e)
  BY <1>6, <1>9, <1>10
<1>12. dmn' = e
  BY <1>3 DEF BecomesDmn
<1>13. \A r \in Radios : enable[r] => e.state[r] = "START"
  <2>1. \A r \in Radios : \E j \in 1..n : Members[j] = r
    BY ConstantsAssumption DEF Radios, Range
  <2>2. QED
    BY <1>11, <2>1 DEF Due
<1>14. Kept(e)
  BY <1>11, <1>13 DEF Due, Kept, Asks
<1>15. QED
  BY <1>12, <1>13, <1>14

LEMMA MemberStarted ==
  ASSUME NEW d, Good(d), NEW r \in Radios, NEW e, MemberResult(d, r, e),
         enable \in [Radios -> BOOLEAN]
  PROVE  e.state[r] = "START"
<1> DEFINE m == Asked(d, r)
<1>1. AskedIs(d, r, m)
  BY AskedSummary DEF Good
<1> HIDE DEF m
<1>2. m.state[r] = "START" /\ Running(m) = Running(d)
  BY <1>1 DEF AskedIs, Running
<1>3. GroupResult(m, e) /\ ~Running(m) => e.state = m.state
  BY DEF GroupResult, Like, Started
<1>4. e = m \/ (GroupResult(m, e) /\ ~Running(d))
  BY DEF MemberResult, m
<1>5. QED
  BY <1>2, <1>3, <1>4

\* What is left to show of a step.
LEMMA SteadyNext ==
  ASSUME enable' = enable, Kept(dmn'), Machines',
         \A r \in Radios : enable[r] /\ dmn'.state[r] # "START" => Back(dmn') \/ Work(r)'
  PROVE  Steadily'
<1>1. Kept(dmn)'
  BY DEF Kept, Waits, Asks, Running
<1>2. Covered(dmn)'
  BY DEF Covered, Back, Running
<1>3. QED
  BY <1>1, <1>2 DEF Steadily

\* A step that takes no work from the machines.
LEMMA SteadyServed ==
  ASSUME Steadily, enable' = enable, Kept(dmn'), Machines', Serves(dmn, dmn'),
         \A r \in Radios : Work(r) => Work(r)'
  PROVE  Steadily'
<1>1. \A r \in Radios : enable[r] /\ dmn'.state[r] # "START" => Back(dmn') \/ Work(r)'
  BY DEF Steadily, Covered, Serves
<1>2. QED
  BY <1>1, SteadyNext

\* Nothing happens to the process.
LEMMA SteadySame ==
  ASSUME Steadily, enable' = enable, dmn' = dmn, Machines',
         \A r \in Radios : enable[r] /\ dmn.state[r] # "START" /\ Work(r) => Work(r)'
  PROVE  Steadily'
<1>1. Kept(dmn')
  BY DEF Steadily
<1>2. \A r \in Radios : enable[r] /\ dmn'.state[r] # "START" => Back(dmn') \/ Work(r)'
  BY DEF Steadily, Covered
<1>3. QED
  BY <1>1, <1>2, SteadyNext

LEMMA UserSteady ==
  ASSUME Basic, Steady, Steadily, NEW r \in Radios,
         SetEnable(r) \/ SetParam(r) \/ Restart(r) \/ Commit(r)
  PROVE  Steadily'
<1>1. site.asks \subseteq {"start", "dyn"}
  <2>1. site.asks \subseteq {"enable", "start", "sync", "dyn"}
    BY ConstantsAssumption DEF Basic, TypeOK
  <2>2. QED
    BY <2>1 DEF Steady
<1>2. CASE Commit(r)
  <2>1. \A s \in Radios : Work(s) => Work(s)'
    BY <1>2 DEF Commit, Work, Basic, TypeOK
  <2>2. Machines'
    BY <1>2 DEF Commit, Machines, Steadily, Basic, TypeOK
  <2>3. enable' = enable /\ dmn' = dmn
    BY <1>2 DEF Commit
  <2>4. QED
    BY <2>1, <2>2, <2>3, SteadySame
<1>3. CASE SetEnable(r) \/ SetParam(r) \/ Restart(r)
  <2>1. /\ ~SetEnable(r)
        /\ \E w \in {"start", "dyn"} : want' = [want EXCEPT ![r] = @ \cup {w}]
    BY <1>1, <1>3 DEF SetEnable, SetParam, Restart, Ask
  <2>2. PICK w \in {"start", "dyn"} : want' = [want EXCEPT ![r] = @ \cup {w}]
    BY <2>1
  <2>3. enable' = enable /\ dmn' = dmn /\ startBit' = startBit
    BY <1>3, <2>1 DEF SetParam, Restart
  <2>4. fsm' = fsm \/ (fsm[r] = "IDLE" /\ fsm' = [fsm EXCEPT ![r] = "WAIT"])
    BY <1>3, <2>1 DEF SetParam, Restart
  <2>5. \A s \in Radios : want[s] \subseteq want'[s] /\ ("sync" \in want'[s] => "sync" \in want[s])
    BY <2>2 DEF Basic, TypeOK
  <2>6. \A s \in Radios : fsm'[s] = fsm[s] \/ (fsm[s] = "IDLE" /\ fsm'[s] = "WAIT")
    BY <2>4 DEF Basic, TypeOK
  <2>7. \A s \in Radios : Work(s) => Work(s)'
    BY <2>3, <2>5, <2>6 DEF Work
  <2>8. Machines'
    BY <2>3, <2>5, <2>6 DEF Machines, Steadily
  <2>9. QED
    BY <2>3, <2>7, <2>8, SteadySame
<1>4. QED
  BY <1>2, <1>3

LEMMA DependencySteady ==
  ASSUME Basic, Steadily, NEW r \in Radios, FsmLock(r) \/ FsmDependency(r)
  PROVE  Steadily'
<1>1. CASE FsmLock(r)
  <2>1. \A s \in Radios : Work(s) => Work(s)'
    BY <1>1 DEF FsmLock, Work, Basic, TypeOK
  <2>2. Machines'
    BY <1>1 DEF FsmLock, Machines, Steadily, Basic, TypeOK
  <2>3. enable' = enable /\ dmn' = dmn
    BY <1>1 DEF FsmLock
  <2>4. QED
    BY <2>1, <2>2, <2>3, SteadySame
<1>2. CASE FsmDependency(r)
  <2> DEFINE starts == want[r] \cap {"all", "enable", "start"} # {}
                       \/ (dmn.state[r] = "START") # enable[r]
             q == IF startBit'[r] THEN "STOP" ELSE "CONF"
  <2>1. "sync" \notin want[r]
    BY DEF Steadily, Machines
  <2>2. dmn' = dmn
    <3>1. dmn' = [dmn EXCEPT !.needRestart[r] = dmn.needRestart[r] \/ FALSE]
      BY <1>2, <2>1 DEF FsmDependency
    <3>2. (dmn.needRestart[r] \/ FALSE) = dmn.needRestart[r]
      BY DEF Basic, TypeOK, Daemons
    <3>3. QED
      BY <3>1, <3>2 DEF Basic, TypeOK, Daemons
  <2>3. starts \in BOOLEAN
    OBVIOUS
  <2>4. enable[r] /\ dmn.state[r] # "START" => starts
    BY DEF Basic, TypeOK
  <2>5. /\ startBit' = [startBit EXCEPT ![r] = starts] /\ fsm' = [fsm EXCEPT ![r] = q]
        /\ want' = [want EXCEPT ![r] = {}] /\ enable' = enable
    BY <1>2, <2>1 DEF FsmDependency
  <2> HIDE DEF starts, q
  <2>6. /\ startBit'[r] = starts /\ fsm'[r] = q /\ want'[r] = {}
        /\ \A s \in Radios \ {r} : startBit'[s] = startBit[s] /\ fsm'[s] = fsm[s] /\ want'[s] = want[s]
    BY <2>3, <2>5 DEF Basic, TypeOK
  <2>7. q = IF starts THEN "STOP" ELSE "CONF"
    BY <2>6 DEF q
  <2>8. \A s \in Radios : enable[s] /\ dmn.state[s] # "START" /\ Work(s) => Work(s)'
    BY <2>4, <2>6, <2>7 DEF Work
  <2>9. Machines'
    BY <2>3, <2>6, <2>7 DEF Machines, Steadily
  <2>10. QED
    BY <2>2, <2>5, <2>8, <2>9, SteadySame
<1>3. QED
  BY <1>1, <1>2

LEMMA ConfSteady ==
  ASSUME Basic, Steadily, NEW r \in Radios, FsmConfHostapd(r) \/ FsmUpdateHostapd(r)
  PROVE  Steadily'
<1> DEFINE q == IF fsm[r] = "CONF" /\ startBit[r] THEN "START" ELSE "IDLE"
<1>1. /\ enable' = enable /\ dmn' = dmn /\ want' = want /\ startBit' = startBit
      /\ fsm[r] \in {"CONF", "UPDATE"} /\ fsm' = [fsm EXCEPT ![r] = q]
  BY DEF FsmConfHostapd, FsmUpdateHostapd
<1>2. fsm'[r] = q /\ \A s \in Radios \ {r} : fsm'[s] = fsm[s]
  BY <1>1 DEF Basic, TypeOK
<1>3. \A s \in Radios : Work(s) => Work(s)'
  BY <1>1, <1>2 DEF Work
<1>4. Machines'
  BY <1>1, <1>2 DEF Machines, Steadily
<1>5. QED
  BY <1>1, <1>3, <1>4, SteadySame

LEMMA NeedRestartSteady ==
  ASSUME Basic, Steadily, NEW r \in Radios, FsmNeedRestart(r)
  PROVE  Steadily'
<1> DEFINE e == [dmn EXCEPT !.needRestart[r] = TRUE]
<1>1. /\ e.status = dmn.status /\ e.alive = dmn.alive /\ e.timer = dmn.timer
      /\ e.action = dmn.action /\ e.state = dmn.state /\ e.reqRestart = dmn.reqRestart
      /\ \A s \in Radios \ {r} : e.needRestart[s] = dmn.needRestart[s]
  BY DEF Basic, TypeOK, Daemons
<1>2. dmn' = e /\ dmn.state[r] = "START"
  BY DEF FsmNeedRestart
<1> HIDE DEF e
<1>3. Kept(e)
  BY <1>1, <1>2 DEF Steadily, Kept, Waits, Asks, Running
<1>4. Serves(dmn, e)
  BY <1>1 DEF Serves, Back, Running
<1>5. /\ startBit'[r] = TRUE /\ fsm'[r] = "STOP" /\ want' = want /\ enable' = enable
      /\ \A s \in Radios \ {r} : startBit'[s] = startBit[s] /\ fsm'[s] = fsm[s]
  BY DEF FsmNeedRestart, Basic, TypeOK
<1>6. \A s \in Radios : Work(s) => Work(s)'
  BY <1>5 DEF Work
<1>7. Machines'
  BY <1>5 DEF Machines, Steadily
<1>8. QED
  BY <1>2, <1>3, <1>4, <1>5, <1>6, <1>7, SteadyServed

\* wld_secDmn_restart keeps what is asked and who waits.
LEMMA RestartMemberKeeps ==
  ASSUME NEW d, Good(d), Kept(d), NEW r \in Radios, d.state[r] = "START",
         enable \in [Radios -> BOOLEAN]
  PROVE  Kept(RestartMember(d, r)) /\ Serves(d, RestartMember(d, r))
<1> DEFINE e == RestartMember(d, r)
           n == [d EXCEPT !.needRestart[r] = FALSE]
           q == [n EXCEPT !.reqRestart[r] = TRUE]
<1>1. /\ e \in Daemons /\ Coherent(e)
      /\ \/ e = d /\ ~Running(d)
         \/ e = n /\ n.state[r] # "START"
         \/ RestartResult(q, e) /\ Running(d) /\ n.state[r] = "START"
      /\ q \in Daemons /\ Coherent(q)
  BY RestartMemberEffect DEF Good
<1>2. /\ n.state = d.state /\ q.state = d.state /\ q.status = d.status /\ q.alive = d.alive
      /\ q.timer = d.timer /\ q.action = d.action
      /\ \A s \in Radios : q.needRestart[s] => d.needRestart[s]
      /\ \A s \in Radios : q.reqRestart[s] => d.reqRestart[s] \/ s = r
  BY DEF Good, Daemons
<1> HIDE DEF e, n, q
<1>3. CASE e = d
  BY <1>3 DEF Serves, e
<1>4. CASE RestartResult(q, e) /\ Running(d)
  <2>1. Running(q) /\ enable[r] /\ Waits(q)
    BY <1>2, <1>4 DEF Kept, Waits, Running
  <2>2. Asks(q)
    BY <1>2, <1>4, <2>1 DEF Kept, Asks
  <2>3. Kept(e) /\ Serves(q, e)
    BY <1>1, <1>4, <2>1, <2>2, RestartKeeps DEF Kept, Good
  <2>4. Serves(d, e)
    BY <1>2, <2>3 DEF Serves, Back, Running
  <2>5. QED
    BY <2>3, <2>4 DEF e
<1>5. QED
  BY <1>1, <1>2, <1>3, <1>4

\* wld_secDmn_stop of a member that is started
LEMMA LeaveKeeps ==
  ASSUME NEW d, Good(d), Kept(d), NEW r \in Radios, d.state[r] = "START", NEW e, LeaveResult(d, r, e)
  PROVE  /\ Kept(e)
         /\ \A s \in Radios : enable[s] /\ e.state[s] # "START" =>
              s = r \/ Back(e) \/ (d.state[s] # "START" /\ ~Back(d))
<1> DEFINE Claim == \A s \in Radios : enable[s] /\ e.state[s] # "START" =>
                      s = r \/ Back(e) \/ (d.state[s] # "START" /\ ~Back(d))
<1>1. Running(d) => ~d.timer /\ ~Back(d)
  BY DEF Good, Coherent, Back, Running
<1>2. CASE /\ ~Running(d) /\ e.state = [d.state EXCEPT ![r] = "IDLE"] /\ e.reqRestart = d.reqRestart
           /\ e.needRestart = [d.needRestart EXCEPT ![r] = FALSE]
           /\ e.status = d.status /\ e.alive = d.alive /\ e.timer = d.timer /\ e.action = d.action
  <2>1. /\ e.state[r] = "IDLE" /\ ~e.needRestart[r] /\ ~d.reqRestart[r]
        /\ \A s \in Radios \ {r} : e.state[s] = d.state[s] /\ e.needRestart[s] = d.needRestart[s]
    BY <1>2 DEF Kept, Asks, Good, Daemons
  <2>2. Waits(e)
    BY <1>2, <2>1 DEF Kept, Waits
  <2>3. Asks(e)
    BY <1>2, <2>1 DEF Kept, Asks, Running
  <2>4. Claim
    BY <1>2, <2>1 DEF Back, Running
  <2>5. QED
    BY <2>2, <2>3, <2>4 DEF Kept
<1>3. CASE /\ Running(d) /\ e.state = [d.state EXCEPT ![r] = "STOP"]
           /\ e.reqRestart = [d.reqRestart EXCEPT ![r] = FALSE]
           /\ e.needRestart = [d.needRestart EXCEPT ![r] = FALSE]
           /\ e.status = d.status /\ e.alive = d.alive /\ e.timer = d.timer /\ e.action = d.action
  <2>1. /\ e.state[r] = "STOP" /\ ~e.needRestart[r] /\ ~e.reqRestart[r]
        /\ \A s \in Radios \ {r} : /\ e.state[s] = d.state[s] /\ e.needRestart[s] = d.needRestart[s]
                                   /\ e.reqRestart[s] = d.reqRestart[s]
    BY <1>3 DEF Good, Daemons
  <2>2. Waits(e)
    BY <1>3, <2>1 DEF Kept, Waits
  <2>3. Asks(e)
    BY <1>3, <2>1 DEF Kept, Asks, Running
  <2>4. Claim
    BY <1>1, <1>3, <2>1
  <2>5. QED
    BY <2>2, <2>3, <2>4 DEF Kept
<1>4. CASE /\ Running(d)
           /\ \A s \in Radios \ {r} : d.state[s] # "START"
           /\ \A s \in Radios : /\ e.state[s] = "IDLE" /\ ~e.needRestart[s]
                                /\ e.reqRestart[s] => d.reqRestart[s] /\ d.state[s] # "START"
  <2>1. \A s \in Radios : ~e.reqRestart[s]
    BY <1>1, <1>4 DEF Kept, Asks
  <2>2. Kept(e)
    BY <1>4, <2>1 DEF Kept, Waits, Asks
  <2>3. Claim
    BY <1>1, <1>4
  <2>4. QED
    BY <2>2, <2>3
<1>5. QED
  BY <1>2, <1>3, <1>4 DEF LeaveResult

LEMMA StopSteady ==
  ASSUME Basic, Steadily, NEW r \in Radios, FsmStopHostapd(r)
  PROVE  Steadily'
<1>1. /\ enable' = enable /\ want' = want /\ startBit' = startBit /\ fsm[r] = "STOP"
      /\ fsm'[r] = "CONF" /\ \A s \in Radios \ {r} : fsm'[s] = fsm[s]
  BY DEF FsmStopHostapd, Basic, TypeOK
<1>2. startBit[r]
  BY <1>1 DEF Steadily, Machines
<1>3. Work(r)' /\ \A s \in Radios : Work(s) => Work(s)'
  BY <1>1, <1>2 DEF Work
<1>4. Machines'
  BY <1>1 DEF Machines, Steadily
<1>5. Good(dmn) /\ Kept(dmn) /\ enable \in [Radios -> BOOLEAN]
  BY DEF Basic, TypeOK, Good, Steadily
<1>6. \/ dmn' = dmn
      \/ dmn.state[r] = "START" /\ dmn' = RestartMember(dmn, r)
      \/ dmn.state[r] = "START" /\ LeaveResult(dmn, r, dmn')
  <2>1. dmn.needRestart[r] => dmn.state[r] = "START"
    BY <1>5 DEF Kept, Asks
  <2>2. QED
    BY <2>1, StopHostapdEffect
<1>7. CASE dmn' = dmn
  BY <1>1, <1>3, <1>4, <1>7, SteadySame
<1>8. CASE dmn.state[r] = "START" /\ dmn' = RestartMember(dmn, r)
  <2>1. Kept(dmn') /\ Serves(dmn, dmn')
    BY <1>5, <1>8, RestartMemberKeeps
  <2>2. QED
    BY <1>1, <1>3, <1>4, <2>1, SteadyServed
<1>9. CASE dmn.state[r] = "START" /\ LeaveResult(dmn, r, dmn')
  <2>1. /\ Kept(dmn')
        /\ \A s \in Radios : enable[s] /\ dmn'.state[s] # "START" =>
             s = r \/ Back(dmn') \/ (dmn.state[s] # "START" /\ ~Back(dmn))
    BY <1>5, <1>9, LeaveKeeps
  <2>2. \A s \in Radios : enable[s] /\ dmn'.state[s] # "START" => Back(dmn') \/ Work(s)'
    BY <1>3, <2>1 DEF Steadily, Covered
  <2>3. QED
    BY <1>1, <1>4, <2>1, <2>2, SteadyNext
<1>10. QED
  BY <1>6, <1>7, <1>8, <1>9

LEMMA StartSteady ==
  ASSUME Basic, Steady, Steadily, NEW r \in Radios, FsmStartHostapd(r)
  PROVE  Steadily'
<1> DEFINE d == [dmn EXCEPT !.needRestart[r] = FALSE]
           starts == enable[r] /\ ~d.reqRestart[r] /\ d.state[r] # "START"
<1>1. /\ Good(d) /\ Good(dmn') /\ enable \in [Radios -> BOOLEAN] /\ ~site.startFails
      /\ IF starts THEN MemberResult(d, r, dmn') ELSE dmn' = d
  BY StartHostapdEffect DEF Basic, TypeOK, Steady
<1>2. /\ d.status = dmn.status /\ d.alive = dmn.alive /\ d.timer = dmn.timer
      /\ d.action = dmn.action /\ d.state = dmn.state /\ d.reqRestart = dmn.reqRestart
      /\ \A s \in Radios : d.needRestart[s] => dmn.needRestart[s]
  BY DEF Basic, TypeOK, Daemons
<1> HIDE DEF d
<1>3. Kept(d) /\ Back(d) = Back(dmn)
  BY <1>2 DEF Steadily, Kept, Waits, Asks, Running, Back
<1>4. Kept(dmn') /\ Serves(d, dmn') /\ (enable[r] => dmn'.state[r] = "START" \/ Back(dmn'))
  <2>1. CASE starts
    <3>1. MemberResult(d, r, dmn')
      BY <1>1, <2>1
    <3>2. dmn'.state[r] = "START"
      BY <1>1, <3>1, MemberStarted
    <3>3. Kept(dmn') /\ Serves(d, dmn')
      BY <1>1, <1>3, <2>1, <3>1, MemberKeeps
    <3>4. QED
      BY <3>2, <3>3
  <2>2. CASE ~starts
    <3>1. dmn' = d
      BY <1>1, <2>2
    <3>2. enable[r] => d.state[r] = "START" \/ Back(d)
      BY <1>3, <2>2 DEF Kept, Asks, Back
    <3>3. Serves(d, d)
      BY DEF Serves
    <3>4. QED
      BY <1>3, <3>1, <3>2, <3>3
  <2>3. QED
    BY <2>1, <2>2
<1>5. PICK q \in {"UPDATE", "IDLE"} : fsm' = [fsm EXCEPT ![r] = q]
  BY DEF FsmStartHostapd
<1>6. /\ enable' = enable /\ want' = want /\ fsm'[r] \in {"UPDATE", "IDLE"}
      /\ \A s \in Radios \ {r} : fsm'[s] = fsm[s] /\ startBit'[s] = startBit[s]
  BY <1>5 DEF FsmStartHostapd, Basic, TypeOK
<1>7. \A s \in Radios \ {r} : Work(s) => Work(s)'
  BY <1>6 DEF Work
<1>8. Machines'
  BY <1>6 DEF Machines, Steadily
<1>9. \A s \in Radios : enable[s] /\ dmn'.state[s] # "START" => Back(dmn') \/ Work(s)'
  <2>1. SUFFICES ASSUME NEW s \in Radios, enable[s], dmn'.state[s] # "START", ~Back(dmn')
                 PROVE  Work(s)'
    OBVIOUS
  <2>2. s # r
    BY <1>4, <2>1
  <2>3. dmn.state[s] # "START" /\ ~Back(dmn)
    BY <1>2, <1>3, <1>4, <2>1 DEF Serves
  <2>4. Work(s)
    BY <2>1, <2>3 DEF Steadily, Covered
  <2>5. QED
    BY <1>7, <2>2, <2>4
<1>10. QED
  BY <1>4, <1>6, <1>8, <1>9, SteadyNext

\* The process ends or dies, and the timers expire.
LEMMA TimersSteady ==
  ASSUME Basic, Steady, Steadily, Timers \/ Crash
  PROVE  Steadily'
<1>1. UNCHANGED <<enable, fsmVars>>
  BY DEF Timers, Crash, Terminate, RestartTimer, ActionTimer
<1>2. Machines' /\ \A r \in Radios : Work(r) => Work(r)'
  BY <1>1 DEF Machines, Work, fsmVars, Steadily
<1>3. Kept(dmn) /\ ~site.startFails /\ enable \in [Radios -> BOOLEAN]
  BY DEF Steadily, Steady, Basic, TypeOK
<1>4. CASE Crash \/ Terminate
  <2>1. /\ \A r \in Radios : dmn'.state[r] = "IDLE" /\ ~dmn'.needRestart[r]
        /\ dmn'.reqRestart = dmn.reqRestart /\ dmn'.timer
    BY <1>4, EndEffect DEF Steady
  <2>2. Kept(dmn')
    BY <1>3, <2>1 DEF Kept, Waits, Asks
  <2>3. Serves(dmn, dmn')
    BY <2>1 DEF Serves, Back
  <2>4. QED
    BY <1>1, <1>2, <2>2, <2>3, SteadyServed
<1>5. CASE RestartTimer
  <2>1. Kept(dmn') /\ \A r \in Radios : enable[r] => dmn'.state[r] = "START"
    BY <1>3, <1>5, RestartTimerSteady
  <2>2. Serves(dmn, dmn')
    BY <2>1 DEF Serves
  <2>3. QED
    BY <1>1, <1>2, <2>1, <2>2, SteadyServed
<1>6. CASE ActionTimer
  <2> DEFINE d == [dmn EXCEPT !.action = FALSE]
  <2>1. /\ d.status = dmn.status /\ d.alive = dmn.alive /\ d.timer = dmn.timer
        /\ d.state = dmn.state /\ d.reqRestart = dmn.reqRestart /\ d.needRestart = dmn.needRestart
    BY DEF Basic, TypeOK, Daemons
  <2>2. Good(d) /\ Good(dmn')
    BY <1>6, TimerOff, ActionTimerEffect
  <2>3. PICK e : /\ Good(e) /\ GroupResult(d, e)
                 /\ dmn' = e \/ (Running(d) /\ Running(e) /\ RestartResult(e, dmn'))
    BY <1>6, ActionTimerEffect
  <2> HIDE DEF d
  <2>4. Asks(d) /\ \A r \in Radios : d.state[r] = "START" => enable[r]
    BY <1>3, <2>1 DEF Kept, Waits, Asks, Running
  <2>5. Kept(e) /\ Serves(d, e)
    BY <1>3, <2>2, <2>3, <2>4, GroupKeeps
  <2>6. Back(d) = Back(dmn)
    BY <2>1 DEF Back, Running
  <2>7. Serves(dmn, e)
    BY <2>1, <2>5, <2>6 DEF Serves
  <2>8. CASE dmn' = e
    BY <1>1, <1>2, <2>5, <2>7, <2>8, SteadyServed
  <2>9. CASE Running(d) /\ Running(e) /\ RestartResult(e, dmn')
    <3>1. Kept(dmn') /\ Serves(e, dmn')
      BY <2>2, <2>3, <2>5, <2>9, RestartKeeps
    <3>2. ~Back(e)
      BY <2>3, <2>9 DEF Good, Coherent, Back, Running
    <3>3. Serves(dmn, dmn')
      BY <2>7, <3>1, <3>2 DEF Serves
    <3>4. QED
      BY <1>1, <1>2, <3>1, <3>3, SteadyServed
  <2>10. QED
    BY <2>3, <2>8, <2>9
<1>7. QED
  BY <1>4, <1>5, <1>6 DEF Timers

LEMMA InitSteady == Init => Steadily
<1>1. SUFFICES ASSUME Init PROVE Steadily
  OBVIOUS
<1>2. Waits(dmn) /\ Asks(dmn)
  BY <1>1 DEF Init, Waits, Asks, None
<1>3. Covered(dmn) /\ Machines
  BY <1>1 DEF Init, Covered, Work, Machines
<1>4. QED
  BY <1>2, <1>3 DEF Steadily, Kept

LEMMA SteadyStep == IInv /\ [Next]_vars => IInv'
<1>1. SUFFICES ASSUME IInv, [Next]_vars PROVE IInv'
  OBVIOUS
<1>2. Basic /\ Basic'
  BY <1>1, BasicStep DEF IInv
<1>3. site' = site
  BY <1>1 DEF Next, vars
<1>4. SUFFICES ASSUME Steady PROVE Steadily'
  BY <1>2, <1>3 DEF IInv, Steady
<1>5. Steadily
  BY <1>1, <1>4 DEF IInv
<1>6. CASE UNCHANGED vars
  <2>1. enable' = enable /\ dmn' = dmn /\ want' = want /\ fsm' = fsm /\ startBit' = startBit
    BY <1>6 DEF vars, moving, fsmVars
  <2>2. Machines' /\ \A r \in Radios : Work(r) => Work(r)'
    BY <1>5, <2>1 DEF Machines, Work, Steadily
  <2>3. QED
    BY <1>5, <2>1, <2>2, SteadySame
<1>7. CASE User \/ \E r \in Radios : Commit(r)
  BY <1>2, <1>4, <1>5, <1>7, UserSteady DEF User
<1>8. ASSUME NEW r \in Radios, FsmStep(r)
      PROVE  Steadily'
  BY <1>2, <1>4, <1>5, <1>8, DependencySteady, ConfSteady, NeedRestartSteady, StopSteady,
     StartSteady DEF FsmStep
<1>9. CASE Timers \/ Crash
  BY <1>2, <1>4, <1>5, <1>9, TimersSteady
<1>10. QED
  BY <1>1, <1>6, <1>7, <1>8, <1>9 DEF Next, Machine

\* Where starts succeed, a process that may crash is monitored and the same radios
\* stay enabled, no member that waits is forgotten, and at rest hostapd runs for
\* exactly the enabled radios (s_startGrp, s_processGrpAction, s_restartHapdCb).
THEOREM NobodyForgotten == Spec => []ServesEnabled
<1>1. Init => IInv
  BY InitBasic, InitSteady DEF IInv
<1>2. IInv => ServesEnabled
  <2>1. SUFFICES ASSUME IInv, Steady
                 PROVE  /\ \A r \in Radios : dmn.state[r] = "START" /\ enable[r] =>
                             dmn.alive \/ dmn.action \/ dmn.timer
                        /\ Rest => \A r \in Radios : /\ enable[r] <=> dmn.state[r] = "START"
                                                     /\ enable[r] => Running(dmn)
    BY DEF ServesEnabled
  <2>2. Basic /\ Waits(dmn) /\ Covered(dmn)
    BY <2>1 DEF IInv, Steadily, Kept
  <2>3. ASSUME Rest, NEW r \in Radios
        PROVE  (enable[r] <=> dmn.state[r] = "START") /\ (enable[r] => Running(dmn))
    <3>1. ~Work(r) /\ ~Back(dmn)
      BY <2>3 DEF Rest, Work, Back
    <3>2. enable[r] => dmn.state[r] = "START"
      BY <2>2, <3>1 DEF Covered
    <3>3. dmn.state[r] = "START" => enable[r] /\ Running(dmn)
      BY <2>2, <2>3 DEF Waits, Rest
    <3>4. enable[r] \in BOOLEAN
      BY <2>2 DEF Basic, TypeOK
    <3>5. QED
      BY <3>2, <3>3, <3>4
  <2>4. QED
    BY <2>2, <2>3 DEF Waits
<1>3. QED
  BY <1>1, <1>2, SteadyStep, PTL DEF Spec

==============================================================================
