--------------------------- MODULE Endpoint_proofs ---------------------------
(***************************************************************************)
(* Proofs about the end point, for any access points, numbers of attempts  *)
(* and bounds.                                                             *)
(***************************************************************************)
EXTENDS Endpoint, SequenceTheorems, TLAPS

(***************************************************************************)
(* The handlers work on a record of the state: so do the invariants here.  *)
(***************************************************************************)
Cfgs == [enable : BOOLEAN, rad : BOOLEAN, profile : BOOLEAN]
Eps == [status : Statuses, retry : BOOLEAN, pairing : BOOLEAN,
        guard : {"off", "fresh", "old"}, delay : BOOLEAN]
Fsms == [phase : Phases, req : BOOLEAN, wanted : BOOLEAN]
Roams == [target : Bssids \cup {"none"}, tries : 0..MaxTries]
Supps == [st : {"off", "starting", "up", "mute", "dead"}, link : Bssids \cup {"none"},
          net : Networks, halt : BOOLEAN, wps : BOOLEAN]
Upsets == SUBSET {"stuck", "cancel", "zombie", "ignored"}
State == [cfg : Cfgs, ep : Eps, fsm : Fsms, roam : Roams, supp : Supps,
          evq : Seq(Events), calls : Nat, upset : Upsets]

\* A request is taken by the pass that waits or by the one that is wanted after it.
Awaited(S) == S.fsm.req => S.fsm.phase = "wait" \/ (S.fsm.phase # "idle" /\ S.fsm.wanted)

(***************************************************************************)
(* What holds of the record however much is still to be done: a delayed    *)
(* call is the one outstanding, a session has its timer, a pairing that is *)
(* shown its session, events are read from a connected socket only, a      *)
(* pairing process has no link, and the queue ends with the news of what   *)
(* the link became.                                                        *)
(***************************************************************************)
Later(q, e, f) == \A k \in 1..Len(q) : q[k] = e => \E j \in k+1..Len(q) : q[j] = f
Within(q, e) == \E k \in 1..Len(q) : q[k] = e

Answered(S) == S.calls = IF S.ep.delay THEN 1 ELSE 0
Guarded(S) == S.ep.pairing => S.ep.guard # "off" \/ "cancel" \in S.upset
Shown(S) == S.ep.status = "WPS_PAIRING" => S.ep.pairing \/ "stuck" \in S.upset
Attentive(S) == S.evq # <<>> => Up(S)
Searching(S) == S.supp.wps => S.supp.link = "none"
LinkNews(S) ==
  /\ S.supp.link = "none" => Later(S.evq, "CONNECTED", "DISCONNECTED")
  /\ S.supp.link # "none" => /\ Later(S.evq, "ACTIVE", "CONNECTED")
                            /\ Later(S.evq, "CRED", "CONNECTED")
PairingNews(S) ==
  S.ep.status \in {"WPS_PAIRING", "WPS_PAIRINGDONE"} /\ Up(S) /\ S.supp.link # "none"
    => Within(S.evq, "CONNECTED")

Kept(S) ==
  /\ Answered(S) /\ Shown(S) /\ Attentive(S) /\ Searching(S) /\ LinkNews(S)
Base(S) == Kept(S) /\ Guarded(S) /\ PairingNews(S)

(***************************************************************************)
(* What holds of it once the machine has nothing to do about it any more.  *)
(***************************************************************************)
InRestart(S) == S.fsm.req \/ S.fsm.phase \in {"stop", "conf", "enable"}
Retried(S) ==
  Ready(S) /\ S.ep.status \notin {"CONNECTED", "WPS_PAIRING", "WPS_PAIRINGDONE"} /\ ~InRestart(S)
    => S.ep.retry
LossNews(S) ==
  Ready(S) /\ Up(S) /\ ~InRestart(S) /\ S.ep.status = "CONNECTED" /\ S.supp.link = "none"
    => Within(S.evq, "DISCONNECTED")
Off(S) ==
  ~Able(S) /\ ~S.fsm.req /\ S.fsm.phase # "stop"
    => S.supp.st \in {"off", "dead"} \/ "zombie" \in S.upset

Calm(S) == Awaited(S) /\ Retried(S) /\ LossNews(S) /\ Off(S)

IInv == S0 \in State /\ reach \in SUBSET Bssids /\ Base(S0) /\ Calm(S0)

\* The machine only learns of more to do.
FsmGrows(S, T) ==
  /\ T.fsm.phase = S.fsm.phase \/ (S.fsm.phase = "idle" /\ T.fsm.phase = "wait")
  /\ S.fsm.req => T.fsm.req
  /\ Awaited(S) => Awaited(T)

\* Nothing but the status, the reconnection timer, tiny roam and the machine may have changed.
Outside(S, T) ==
  /\ T.cfg = S.cfg /\ T.supp = S.supp /\ T.evq = S.evq /\ T.calls = S.calls /\ T.upset = S.upset
  /\ T.ep.pairing = S.ep.pairing /\ T.ep.guard = S.ep.guard /\ T.ep.delay = S.ep.delay

LEMMA CommitEffect ==
  ASSUME NEW S \in State
  PROVE  /\ Commit(S) \in State /\ Outside(S, Commit(S)) /\ FsmGrows(S, Commit(S))
         /\ Commit(S).ep = S.ep /\ Commit(S).roam = S.roam
         /\ Commit(S).fsm.req = S.fsm.req /\ Commit(S).fsm.phase # "idle"
         /\ Commit(S).fsm.wanted = (S.fsm.wanted \/ S.fsm.phase # "idle")
         /\ Awaited(Commit(S))
BY DEF State, Fsms, Commit, Phases, Awaited, Outside, FsmGrows

LEMMA ConnectCommitEffect ==
  ASSUME NEW S \in State
  PROVE  /\ ConnectCommit(S) \in State /\ Outside(S, ConnectCommit(S)) /\ FsmGrows(S, ConnectCommit(S))
         /\ ConnectCommit(S).ep.retry = S.ep.retry /\ ConnectCommit(S).roam = S.roam
         /\ ConnectCommit(S).ep.status = IF S.cfg.profile THEN S.ep.status ELSE "ERROR"
         /\ S.cfg.profile => ConnectCommit(S).fsm.req
         /\ ConnectCommit(S).fsm.phase # "idle"
<1>1. CASE S.cfg.profile
  <2> DEFINE U == [S EXCEPT !.fsm.req = TRUE]
  <2>1. /\ U \in State /\ Outside(S, U) /\ U.ep = S.ep /\ U.roam = S.roam
        /\ U.fsm.phase = S.fsm.phase /\ U.fsm.wanted = S.fsm.wanted /\ U.fsm.req
    BY DEF State, Fsms, Outside
  <2>2. ConnectCommit(S) = Commit(U)
    BY <1>1 DEF ConnectCommit
  <2> HIDE DEF U
  <2>3. QED  BY <1>1, <2>1, <2>2, CommitEffect DEF Outside, FsmGrows, Awaited
<1>2. CASE ~S.cfg.profile
  <2> DEFINE U == [S EXCEPT !.ep.status = "ERROR"]
  <2>1. /\ U \in State /\ Outside(S, U) /\ U.fsm = S.fsm /\ U.roam = S.roam
        /\ U.ep.retry = S.ep.retry /\ U.ep.status = "ERROR"
    BY DEF State, Eps, Statuses, Outside
  <2>2. ConnectCommit(S) = Commit(U)
    BY <1>2 DEF ConnectCommit
  <2> HIDE DEF U
  <2>3. QED  BY <1>2, <2>1, <2>2, CommitEffect DEF Outside, FsmGrows, Awaited
<1>3. QED  BY <1>1, <1>2

LEMMA StopRoamingEffect ==
  ASSUME NEW S \in State, NEW again \in BOOLEAN
  PROVE  LET T == StopRoaming(S, again) IN
         /\ T \in State /\ Outside(S, T) /\ FsmGrows(S, T) /\ T.ep.retry = S.ep.retry
         /\ T.ep.status = IF S.cfg.profile \/ ~again THEN S.ep.status ELSE "ERROR"
<1> DEFINE U == [S EXCEPT !.roam = NoRoam]
<1>1. /\ U \in State /\ Outside(S, U) /\ U.fsm = S.fsm /\ U.ep = S.ep
  BY ConstantsAssumption DEF State, Roams, NoRoam, Outside
<1>2. StopRoaming(S, again) = IF again THEN ConnectCommit(U) ELSE U
  BY DEF StopRoaming
<1> HIDE DEF U
<1>3. QED  BY <1>1, <1>2, ConnectCommitEffect DEF Outside, FsmGrows, Awaited

LEMMA RoamAttemptEffect ==
  ASSUME NEW S \in State, S.roam.tries < MaxTries
  PROVE  LET T == RoamAttempt(S) IN
         /\ T \in State /\ Outside(S, T) /\ FsmGrows(S, T) /\ T.ep.retry = S.ep.retry
         /\ T.ep.status = IF S.cfg.profile THEN S.ep.status ELSE "ERROR"
<1> DEFINE U == [S EXCEPT !.roam.tries = @ + 1]
<1>1. /\ U \in State /\ Outside(S, U) /\ U.fsm = S.fsm /\ U.ep = S.ep
  BY ConstantsAssumption DEF State, Roams, Outside
<1>2. RoamAttempt(S) = ConnectCommit(U)
  BY DEF RoamAttempt
<1> HIDE DEF U
<1>3. QED  BY <1>1, <1>2, ConnectCommitEffect DEF Outside, FsmGrows, Awaited

LEMMA ProcessPreviousEffect ==
  ASSUME NEW S \in State
  PROVE  LET T == ProcessPrevious(S) IN
         /\ T \in State /\ Outside(S, T) /\ FsmGrows(S, T) /\ T.ep.retry = S.ep.retry
         /\ T.ep.status = S.ep.status \/ (T.ep.status = "ERROR" /\ ~S.cfg.profile)
BY StopRoamingEffect, RoamAttemptEffect DEF ProcessPrevious

LEMMA SetEndpointStatusEffect ==
  ASSUME NEW S \in State, NEW s \in Statuses
  PROVE  LET T == SetEndpointStatus(S, s) IN
         /\ T \in State /\ Outside(S, T) /\ FsmGrows(S, T) /\ T.ep.retry = S.ep.retry
         /\ T.ep.status = s \/ (s = "CONNECTED" /\ T.ep.status = "ERROR" /\ ~S.cfg.profile)
<1> DEFINE U == [S EXCEPT !.ep.status = s]
<1>1. /\ U \in State /\ Outside(S, U) /\ U.fsm = S.fsm /\ U.roam = S.roam
      /\ U.ep.retry = S.ep.retry /\ U.ep.status = s
  BY DEF State, Eps, Outside
<1>2. SetEndpointStatus(S, s) =
        IF s = "CONNECTED" /\ S.ep.status # "CONNECTED" /\ S.roam.target # "none"
        THEN ProcessPrevious(U) ELSE U
  BY DEF SetEndpointStatus
<1> HIDE DEF U
<1>3. QED  BY <1>1, <1>2, ProcessPreviousEffect DEF Outside, FsmGrows, Awaited

LEMMA SetConnectionStatusEffect ==
  ASSUME NEW S \in State, NEW s \in Statuses
  PROVE  LET T == SetConnectionStatus(S, s) IN
         /\ T \in State /\ Outside(S, T) /\ FsmGrows(S, T)
         /\ T.ep.retry = (s # "CONNECTED" /\ Ready(S))
         /\ T.ep.status = s \/ (s = "CONNECTED" /\ T.ep.status = "ERROR" /\ ~S.cfg.profile)
<1> DEFINE U == SetEndpointStatus(S, s)
           R == s # "CONNECTED" /\ Ready(U)
           T == [U EXCEPT !.ep.retry = R]
<1>1. /\ U \in State /\ Outside(S, U) /\ FsmGrows(S, U)
      /\ U.ep.status = s \/ (s = "CONNECTED" /\ U.ep.status = "ERROR" /\ ~S.cfg.profile)
  BY SetEndpointStatusEffect
<1>2. SetConnectionStatus(S, s) = T
  BY DEF SetConnectionStatus
<1> HIDE DEF U
<1>3. R \in BOOLEAN /\ R = (s # "CONNECTED" /\ Ready(S))
  BY <1>1 DEF Ready, Able, Outside
<1> HIDE DEF R
<1>4. /\ T \in State /\ Outside(U, T) /\ T.fsm = U.fsm /\ T.ep.status = U.ep.status /\ T.ep.retry = R
  BY <1>1, <1>3 DEF State, Eps, Outside
<1> HIDE DEF T
<1>5. QED  BY <1>1, <1>2, <1>3, <1>4 DEF Outside, FsmGrows, Awaited

LEMMA SyncConnectionEffect ==
  ASSUME NEW S \in State, NEW connected \in BOOLEAN, NEW failed \in BOOLEAN
  PROVE  LET T == SyncConnection(S, connected, failed) IN
         /\ T \in State /\ Outside(S, T) /\ FsmGrows(S, T)
         /\ T.ep.status \in {"DISABLED", "ERROR", "IDLE", "CONNECTED"}
         /\ T.ep.status = "CONNECTED" => connected /\ ~failed
         /\ Ready(S) => T.ep.retry \/ T.ep.status = "CONNECTED"
<1> DEFINE s == CASE ~Able(S) -> "DISABLED"
                  [] Able(S) /\ failed -> "ERROR"
                  [] Able(S) /\ ~failed -> IF connected THEN "CONNECTED" ELSE "IDLE"
<1>1. Able(S) \in BOOLEAN /\ (Ready(S) => Able(S) /\ S.cfg.profile)
  BY DEF Able, Ready, State, Cfgs
<1>2. /\ s \in {"DISABLED", "ERROR", "IDLE", "CONNECTED"}
      /\ s = "CONNECTED" => connected /\ ~failed
  BY <1>1
<1>3. SyncConnection(S, connected, failed) = SetConnectionStatus(S, s)
  BY DEF SyncConnection
<1> HIDE DEF s
<1>4. s \in Statuses
  BY <1>2 DEF Statuses
<1>5. LET T == SetConnectionStatus(S, s) IN
      /\ T \in State /\ Outside(S, T) /\ FsmGrows(S, T)
      /\ T.ep.retry = (s # "CONNECTED" /\ Ready(S))
      /\ T.ep.status = s \/ (s = "CONNECTED" /\ T.ep.status = "ERROR" /\ ~S.cfg.profile)
  BY <1>4, SetConnectionStatusEffect
<1>6. QED  BY <1>1, <1>2, <1>3, <1>5

---------------------------------------------------------------------------
(***************************************************************************)
(* What the effects of the handlers leave true.                            *)
(***************************************************************************)
LEMMA OutsideBase ==
  ASSUME NEW S \in State, NEW T \in State, Kept(S), Outside(S, T),
         \/ T.ep.status = S.ep.status /\ PairingNews(S)
         \/ T.ep.status \notin {"WPS_PAIRING", "WPS_PAIRINGDONE"}
  PROVE  Kept(T) /\ PairingNews(T) /\ (Guarded(S) => Guarded(T))
<1>1. Answered(T) /\ Searching(T) /\ (Guarded(S) => Guarded(T))
  BY DEF Kept, Outside, Answered, Guarded, Searching
<1>2. Shown(T)
  BY DEF Kept, Outside, Shown
<1>3. Attentive(T) /\ LinkNews(T)
  BY DEF Kept, Outside, Attentive, LinkNews, Up
<1>4. PairingNews(T)
  BY DEF Outside, PairingNews, Up
<1>5. QED  BY <1>1, <1>2, <1>3, <1>4 DEF Kept

LEMMA OutsideCalm ==
  ASSUME NEW S \in State, NEW T \in State, Awaited(S), Off(S), Outside(S, T), FsmGrows(S, T),
         Ready(S) /\ ~InRestart(T) /\ T.ep.status \notin {"WPS_PAIRING", "WPS_PAIRINGDONE"} =>
           \/ T.ep.status # "CONNECTED" /\ T.ep.retry
           \/ T.ep.status = "CONNECTED" /\ (Up(S) /\ S.supp.link = "none" => Within(S.evq, "DISCONNECTED"))
  PROVE  Calm(T)
<1>1. Awaited(T)
  BY DEF FsmGrows
<1>2. Off(T)
  BY DEF Off, FsmGrows, Outside, Able
<1>3. Retried(T)
  BY DEF Retried, Outside, Ready, Able
<1>4. LossNews(T)
  BY DEF LossNews, Outside, Ready, Able, Up
<1>5. QED  BY <1>1, <1>2, <1>3, <1>4 DEF Calm

\* More work for the machine and nothing else.
LEMMA GrowsGood ==
  ASSUME NEW S \in State, NEW T \in State, Base(S), Calm(S), Outside(S, T), FsmGrows(S, T),
         \/ T.ep.status = S.ep.status /\ T.ep.retry = S.ep.retry
         \/ T.ep.status = "ERROR" /\ ~S.cfg.profile
  PROVE  Base(T) /\ Calm(T)
<1>1. Base(T)
  BY OutsideBase DEF Base
<1>2. Ready(S) => T.ep.status = S.ep.status /\ T.ep.retry = S.ep.retry
  BY DEF Ready
<1>3. InRestart(S) => InRestart(T)
  BY DEF InRestart, FsmGrows
<1>4. Calm(T)
  BY <1>2, <1>3, OutsideCalm DEF Calm, Retried, LossNews
<1>5. QED  BY <1>1, <1>4

\* With a request under way only the request has to be safe.
LEMMA RequestedCalm ==
  ASSUME NEW S, S.fsm.req, Awaited(S)
  PROVE  Calm(S)
BY DEF Calm, Retried, LossNews, Off, InRestart

---------------------------------------------------------------------------
(***************************************************************************)
(* Queues of events.                                                       *)
(***************************************************************************)
LEMMA AddLater ==
  ASSUME NEW q \in Seq(Events), NEW x \in Events, NEW e, NEW f, e # f, x = f \/ (Later(q, e, f) /\ x # e)
  PROVE  q \o <<x>> \in Seq(Events) /\ q \o <<x>> # <<>> /\ Later(q \o <<x>>, e, f)
<1> DEFINE p == q \o <<x>>
<1>1. p \in Seq(Events) /\ Len(p) = Len(q) + 1 /\ p[Len(q) + 1] = x
      /\ \A k \in 1..Len(q) : p[k] = q[k]
  OBVIOUS
<1> HIDE DEF p
<1>2. Later(p, e, f)
  BY <1>1 DEF Later
<1>3. QED  BY <1>1, <1>2 DEF p

LEMMA AddWithin ==
  ASSUME NEW q \in Seq(Events), NEW x \in Events
  PROVE  /\ Within(q \o <<x>>, x)
         /\ \A e : Within(q, e) => Within(q \o <<x>>, e)
<1> DEFINE p == q \o <<x>>
<1>1. p \in Seq(Events) /\ Len(p) = Len(q) + 1 /\ p[Len(q) + 1] = x
      /\ \A k \in 1..Len(q) : p[k] = q[k]
  OBVIOUS
<1> HIDE DEF p
<1>2. Within(p, x) /\ \A e : Within(q, e) => Within(p, e)
  BY <1>1 DEF Within
<1>3. QED  BY <1>2 DEF p

LEMMA ReadLater ==
  ASSUME NEW q \in Seq(Events), q # <<>>
  PROVE  /\ Head(q) \in Events /\ Tail(q) \in Seq(Events)
         /\ \A e, f : Later(q, e, f) => Later(Tail(q), e, f) /\ (Head(q) = e => Within(Tail(q), f))
         /\ \A e : Within(q, e) => Head(q) = e \/ Within(Tail(q), e)
<1> DEFINE p == Tail(q)
<1>1. Head(q) \in Events /\ p \in Seq(Events) /\ Len(q) \in Nat \ {0} /\ Len(p) = Len(q) - 1
      /\ Head(q) = q[1] /\ \A k \in 1..Len(p) : p[k] = q[k + 1]
  <2>1. Head(q) \in Events /\ p \in Seq(Events) /\ Len(p) = Len(q) - 1
        /\ \A k \in 1..Len(p) : p[k] = q[k + 1]
    BY HeadTailProperties
  <2>2. Len(q) \in Nat \ {0} /\ Head(q) = q[1]
    OBVIOUS
  <2>3. QED  BY <2>1, <2>2
<1> HIDE DEF p
<1>2. ASSUME NEW e, NEW f, Later(q, e, f) PROVE Later(p, e, f)
  <2> SUFFICES ASSUME NEW k \in 1..Len(p), p[k] = e PROVE \E j \in k+1..Len(p) : p[j] = f
    BY DEF Later
  <2>1. k + 1 \in 1..Len(q) /\ q[k + 1] = e
    BY <1>1
  <2>2. PICK j \in k+2..Len(q) : q[j] = f
    BY <1>1, <1>2, <2>1 DEF Later
  <2>3. j - 1 \in k+1..Len(p) /\ p[j - 1] = f
    BY <1>1, <2>2
  <2>4. QED  BY <2>3
<1>3. ASSUME NEW e, NEW f, Later(q, e, f), Head(q) = e PROVE Within(p, f)
  <2>1. PICK j \in 2..Len(q) : q[j] = f
    BY <1>1, <1>3 DEF Later
  <2>2. j - 1 \in 1..Len(p) /\ p[j - 1] = f
    BY <1>1, <2>1
  <2>3. QED  BY <2>2 DEF Within
<1>4. ASSUME NEW e, Within(q, e), Head(q) # e PROVE Within(p, e)
  <2>1. PICK j \in 2..Len(q) : q[j] = e
    BY <1>1, <1>4 DEF Within
  <2>2. j - 1 \in 1..Len(p) /\ p[j - 1] = e
    BY <1>1, <2>1
  <2>3. QED  BY <2>2 DEF Within
<1>5. QED  BY <1>1, <1>2, <1>3, <1>4 DEF p

\* An event that says nothing of the link.
LEMMA QuietEvent ==
  ASSUME NEW S \in State, NEW T \in State, Kept(S), Up(S), NEW ev \in WpsEvents,
         T.evq = S.evq \o <<ev>>, T.supp.st = S.supp.st, T.supp.link = "none", S.supp.link = "none",
         T.ep = S.ep, T.calls = S.calls, T.upset = S.upset, T.cfg = S.cfg, T.fsm = S.fsm
  PROVE  /\ Kept(T) /\ PairingNews(T)
         /\ Guarded(S) => Guarded(T)
         /\ LossNews(S) => LossNews(T)
<1>1. ev \in Events /\ ev # "CONNECTED" /\ ev # "DISCONNECTED" /\ S.evq \in Seq(Events)
  BY DEF Events, WpsEvents, State
<1>2. LinkNews(T) /\ Attentive(T)
  BY <1>1, AddLater DEF Kept, LinkNews, Attentive, Up
<1>3. LossNews(S) => LossNews(T)
  BY <1>1, AddWithin DEF LossNews, Ready, Able, Up, InRestart
<1>4. PairingNews(T) /\ Answered(T) /\ (Guarded(S) => Guarded(T)) /\ Shown(T) /\ Searching(T)
  BY DEF Kept, PairingNews, Answered, Guarded, Shown, Searching
<1>5. QED  BY <1>2, <1>3, <1>4 DEF Kept

\* wpa_supplicant leaves its access point.
LEMMA LossEvent ==
  ASSUME NEW S \in State, NEW T \in State, Base(S), Up(S),
         T.evq = S.evq \o Unlinked(S), T.supp.st = S.supp.st, T.supp.link = "none",
         T.ep = S.ep, T.calls = S.calls, T.upset = S.upset, T.cfg = S.cfg, T.fsm = S.fsm
  PROVE  Base(T) /\ (LossNews(S) => LossNews(T))
<1>1. PairingNews(T) /\ Answered(T) /\ Guarded(T) /\ Shown(T) /\ Searching(T) /\ Attentive(T)
  BY DEF Base, Kept, PairingNews, Answered, Guarded, Shown, Searching, Attentive, Up
<1>2. S.evq \in Seq(Events) /\ "DISCONNECTED" \in Events
  BY DEF State, Events
<1>3. CASE S.supp.link = "none"
  <2>1. T.evq = S.evq
    BY <1>2, <1>3 DEF Unlinked
  <2>2. QED  BY <1>1, <1>3, <2>1 DEF Base, Kept, LinkNews, LossNews, Ready, Able, Up, InRestart
<1>4. CASE S.supp.link # "none"
  <2>1. T.evq = S.evq \o <<"DISCONNECTED">>
    BY <1>4 DEF Unlinked
  <2>2. LinkNews(T)
    BY <1>2, <2>1, AddLater DEF LinkNews
  <2>3. LossNews(T)
    BY <1>2, <2>1, AddWithin DEF LossNews
  <2>4. QED  BY <1>1, <2>2, <2>3 DEF Base, Kept
<1>5. QED  BY <1>3, <1>4

LEMMA EventsAssociative ==
  ASSUME NEW p \in Seq(Events), NEW q \in Seq(Events), NEW r \in Seq(Events)
  PROVE  (p \o q) \o r = p \o (q \o r)
BY ConcatAssociative, Z3

LEMMA UnlinkedType ==
  ASSUME NEW S \in State
  PROVE  Unlinked(S) \in Seq(Events) /\ S.evq \o Unlinked(S) \in Seq(Events)
<1>1. <<>> \in Seq(Events) /\ <<"DISCONNECTED">> \in Seq(Events)
  BY DEF Events
<1>2. Unlinked(S) \in Seq(Events)
  BY <1>1 DEF Unlinked
<1>3. S.evq \in Seq(Events)
  BY DEF State
<1>4. QED  BY <1>2, <1>3

LEMMA DisconnectEffect ==
  ASSUME NEW S \in State
  PROVE  LET T == Disconnect(S) IN
         /\ T \in State /\ T.ep = S.ep /\ T.calls = S.calls /\ T.upset = S.upset
         /\ T.cfg = S.cfg /\ T.fsm = S.fsm /\ T.supp.st = S.supp.st
         /\ Base(S) => Base(T)
<1>1. CASE ~Up(S)
  BY <1>1 DEF Disconnect
<1>2. CASE Up(S)
  <2> DEFINE q == S.evq \o Unlinked(S)
             T == [S EXCEPT !.evq = q, !.supp.halt = TRUE, !.supp.link = "none"]
  <2>1. Disconnect(S) = T
    BY <1>2 DEF Disconnect, Emit
  <2>2. q \in Seq(Events)
    BY UnlinkedType
  <2> HIDE DEF q
  <2>3. /\ T \in State /\ T.ep = S.ep /\ T.calls = S.calls /\ T.upset = S.upset
        /\ T.cfg = S.cfg /\ T.fsm = S.fsm /\ T.supp.st = S.supp.st
        /\ T.supp.link = "none" /\ T.evq = q
    BY <2>2 DEF State, Supps
  <2> HIDE DEF T
  <2>4. Base(S) => Base(T)
    BY <1>2, <2>3, LossEvent DEF q
  <2>5. QED  BY <2>1, <2>3, <2>4
<1>3. QED  BY <1>1, <1>2

LEMMA ReconfigureEffect ==
  ASSUME NEW S \in State, Base(S)
  PROVE  LET T == Reconfigure(S) IN
         /\ T \in State /\ T.cfg = S.cfg /\ T.supp.st = S.supp.st /\ Base(T)
         /\ FsmGrows(S, T) /\ ("zombie" \in S.upset => "zombie" \in T.upset)
         /\ IF S.ep.status = "WPS_PAIRING" THEN T.ep.status = "WPS_PAIRING"
            ELSE Ready(S) => T.fsm.req
<1>1. CASE S.ep.status = "WPS_PAIRING"
  <2> DEFINE T == [S EXCEPT !.upset = @ \cup {"ignored"}]
  <2>1. /\ T \in State /\ T.cfg = S.cfg /\ T.supp = S.supp /\ T.ep = S.ep /\ T.evq = S.evq
        /\ T.fsm = S.fsm /\ T.calls = S.calls /\ T.upset = S.upset \cup {"ignored"}
    BY DEF State, Upsets
  <2>2. Reconfigure(S) = T
    BY <1>1 DEF Reconfigure
  <2> HIDE DEF T
  <2>3. Base(T)
    BY <2>1 DEF Base, Kept, Answered, Guarded, Shown, Attentive, Searching, LinkNews, PairingNews, Up
  <2>4. QED  BY <1>1, <2>1, <2>2, <2>3 DEF FsmGrows, Awaited
<1>2. CASE S.ep.status # "WPS_PAIRING"
  <2> DEFINE U == Disconnect(S)
  <2>1. /\ U \in State /\ U.ep = S.ep /\ U.calls = S.calls /\ U.upset = S.upset
        /\ U.cfg = S.cfg /\ U.fsm = S.fsm /\ U.supp.st = S.supp.st /\ Base(U)
    BY DisconnectEffect
  <2>2. Reconfigure(S) = IF Ready(U) THEN ConnectCommit(U) ELSE SyncConnection(U, FALSE, FALSE)
    BY <1>2 DEF Reconfigure
  <2> HIDE DEF U
  <2>3. CASE Ready(U)
    <3>1. U.cfg.profile /\ S.cfg.profile
      BY <2>1, <2>3 DEF Ready
    <3>2. /\ ConnectCommit(U) \in State /\ Outside(U, ConnectCommit(U)) /\ FsmGrows(U, ConnectCommit(U))
          /\ ConnectCommit(U).ep.status = U.ep.status /\ ConnectCommit(U).fsm.req
      BY <2>1, <3>1, ConnectCommitEffect
    <3>3. Base(ConnectCommit(U))
      BY <2>1, <3>2, OutsideBase DEF Base
    <3>4. QED  BY <1>2, <2>1, <2>2, <2>3, <3>2, <3>3 DEF Outside, FsmGrows, Awaited
  <2>4. CASE ~Ready(U)
    <3> DEFINE T == SyncConnection(U, FALSE, FALSE)
    <3>1. /\ T \in State /\ Outside(U, T) /\ FsmGrows(U, T)
          /\ T.ep.status \in {"DISABLED", "ERROR", "IDLE", "CONNECTED"}
      BY <2>1, SyncConnectionEffect
    <3> HIDE DEF T
    <3>2. Base(T)
      BY <2>1, <3>1, OutsideBase DEF Base
    <3>3. ~Ready(S)
      BY <2>1, <2>4 DEF Ready, Able
    <3>4. QED  BY <1>2, <2>1, <2>2, <2>4, <3>1, <3>2, <3>3 DEF Outside, FsmGrows, Awaited, T
  <2>5. QED  BY <2>3, <2>4
<1>3. QED  BY <1>1, <1>2

---------------------------------------------------------------------------
(***************************************************************************)
(* Pairing.                                                                *)
(***************************************************************************)
LEMMA NotifyReadyGood ==
  ASSUME NEW S \in State
  PROVE  LET T == NotifyReady(S) IN
         /\ T \in State
         /\ Base(S) => Base(T)
         /\ Calm(S) => Calm(T)
<1> DEFINE g == IF ~S.ep.pairing THEN "fresh" ELSE IF S.ep.guard = "fresh" THEN "old" ELSE S.ep.guard
           T == [S EXCEPT !.ep.guard = g, !.ep.pairing = TRUE]
<1>1. NotifyReady(S) = T
  BY DEF NotifyReady
<1>2. g \in {"off", "fresh", "old"} /\ (g = "off" => S.ep.pairing /\ S.ep.guard = "off")
  BY DEF State, Eps
<1> HIDE DEF g
<1>3. /\ T \in State /\ T.cfg = S.cfg /\ T.supp = S.supp /\ T.evq = S.evq /\ T.calls = S.calls
      /\ T.upset = S.upset /\ T.fsm = S.fsm /\ T.ep.status = S.ep.status
      /\ T.ep.retry = S.ep.retry /\ T.ep.delay = S.ep.delay /\ T.ep.pairing /\ T.ep.guard = g
  BY <1>2 DEF State, Eps
<1> HIDE DEF T
<1>4. Base(S) => Base(T)
  BY <1>2, <1>3 DEF Base, Kept, Answered, Guarded, Shown, Attentive, Searching, LinkNews, PairingNews, Up
<1>5. Calm(S) => Calm(T)
  BY <1>3 DEF Calm, Awaited, Retried, LossNews, Off, Ready, Able, InRestart, Up
<1>6. QED  BY <1>1, <1>3, <1>4, <1>5

LEMMA NotifyEndEffect ==
  ASSUME NEW S \in State
  PROVE  LET T == NotifyEnd(S) IN
         /\ T \in State
         /\ Kept(S) => Kept(T)
         /\ Guarded(T)
         /\ PairingNews(S) => PairingNews(T)
         /\ Calm(S) => Calm(T)
<1> DEFINE U == (S.upset \ {"cancel"}) \cup (IF S.ep.status = "WPS_PAIRING" THEN {"stuck"} ELSE {})
           T == [S EXCEPT !.ep.guard = "off", !.ep.pairing = FALSE, !.upset = U]
<1>1. NotifyEnd(S) = T
  BY DEF NotifyEnd
<1>2. /\ U \in Upsets /\ (S.ep.status = "WPS_PAIRING" => "stuck" \in U)
      /\ "zombie" \in S.upset => "zombie" \in U
  BY DEF State, Upsets
<1> HIDE DEF U
<1>3. /\ T \in State /\ T.cfg = S.cfg /\ T.supp = S.supp /\ T.evq = S.evq /\ T.calls = S.calls
      /\ T.upset = U /\ T.fsm = S.fsm /\ T.ep.status = S.ep.status
      /\ T.ep.retry = S.ep.retry /\ T.ep.delay = S.ep.delay /\ ~T.ep.pairing
  BY <1>2 DEF State, Eps
<1> HIDE DEF T
<1>4. Guarded(T) /\ (Kept(S) => Kept(T))
  BY <1>2, <1>3 DEF Kept, Answered, Guarded, Shown, Attentive, Searching, LinkNews, Up
<1>5. Calm(S) => Calm(T)
  BY <1>2, <1>3 DEF Calm, Awaited, Retried, LossNews, Off, Ready, Able, InRestart, Up
<1>6. PairingNews(S) => PairingNews(T)
  BY <1>3 DEF PairingNews, Up
<1>7. QED  BY <1>1, <1>3, <1>4, <1>5, <1>6

LEMMA AnswerDelayedEffect ==
  ASSUME NEW S \in State, Base(S), Calm(S)
  PROVE  LET T == AnswerDelayed(S) IN
         /\ T \in State /\ Base(T) /\ Calm(T) /\ ~T.ep.delay /\ T.calls = 0
         /\ T.ep.pairing = S.ep.pairing /\ T.cfg = S.cfg /\ T.fsm = S.fsm /\ T.supp = S.supp
<1> DEFINE n == IF S.ep.delay THEN S.calls - 1 ELSE S.calls
           T == [S EXCEPT !.ep.delay = FALSE, !.calls = n]
<1>1. AnswerDelayed(S) = T
  BY DEF AnswerDelayed
<1>2. n = 0
  BY DEF Base, Kept, Answered, State, Eps
<1> HIDE DEF n
<1>3. /\ T \in State /\ T.cfg = S.cfg /\ T.supp = S.supp /\ T.evq = S.evq /\ T.calls = 0
      /\ T.upset = S.upset /\ T.fsm = S.fsm /\ T.ep.status = S.ep.status
      /\ T.ep.retry = S.ep.retry /\ ~T.ep.delay /\ T.ep.pairing = S.ep.pairing /\ T.ep.guard = S.ep.guard
  BY <1>2 DEF State, Eps
<1> HIDE DEF T
<1>4. Base(T)
  BY <1>3 DEF Base, Kept, Answered, Guarded, Shown, Attentive, Searching, LinkNews, PairingNews, Up
<1>5. Calm(T)
  BY <1>3 DEF Calm, Awaited, Retried, LossNews, Off, Ready, Able, InRestart, Up
<1>6. QED  BY <1>1, <1>3, <1>4, <1>5

LEMMA WpsStartGood ==
  ASSUME NEW S \in State, Base(S), Calm(S), NEW pin \in BOOLEAN
  PROVE  LET T == WpsStart(S, pin) IN T \in State /\ Base(T) /\ Calm(T)
<1>1. CASE S.ep.status = "WPS_PAIRING" \/ ~Up(S)
  BY <1>1 DEF WpsStart
<1>2. CASE ~(S.ep.status = "WPS_PAIRING" \/ ~Up(S))
  <2> DEFINE told == IF pin THEN <<>> ELSE <<"ACTIVE">>
             q == S.evq \o (Unlinked(S) \o told)
             p == S.evq \o Unlinked(S)
             U == [S EXCEPT !.evq = p, !.supp.link = "none"]
             T == [S EXCEPT !.evq = q, !.supp.wps = TRUE, !.supp.link = "none"]
  <2>1. WpsStart(S, pin) = NotifyReady(T)
    BY <1>2 DEF WpsStart, Emit
  <2>2. told \in Seq(Events) /\ S.evq \in Seq(Events) /\ Unlinked(S) \in Seq(Events) /\ p \in Seq(Events)
    <3>1. <<>> \in Seq(Events) /\ <<"ACTIVE">> \in Seq(Events)
      BY DEF Events, WpsEvents
    <3>2. QED  BY <3>1, UnlinkedType DEF State
  <2>4. told = <<>> \/ told = <<"ACTIVE">>
    OBVIOUS
  <2> HIDE DEF told
  <2>3. q = p \o told /\ q \in Seq(Events)
    <3>1. (S.evq \o Unlinked(S)) \o told = S.evq \o (Unlinked(S) \o told)
      BY <2>2, EventsAssociative, Zenon
    <3> HIDE DEF q, p
    <3>2. q = p \o told
      BY <3>1 DEF q, p
    <3>3. QED  BY <2>2, <3>2
  <2> HIDE DEF q, p
  <2>5. /\ U \in State /\ U.ep = S.ep /\ U.calls = S.calls /\ U.upset = S.upset /\ U.cfg = S.cfg
        /\ U.fsm = S.fsm /\ U.evq = p /\ U.supp.st = S.supp.st /\ U.supp.link = "none"
    BY <2>2 DEF State, Supps
  <2>6. /\ T \in State /\ T.ep = U.ep /\ T.calls = U.calls /\ T.upset = U.upset /\ T.cfg = U.cfg
        /\ T.fsm = U.fsm /\ T.evq = q /\ T.supp.st = U.supp.st /\ T.supp.link = "none"
    BY <2>3 DEF State, Supps
  <2> HIDE DEF U, T
  <2>7. Base(U) /\ LossNews(U)
    BY <1>2, <2>5, LossEvent DEF Calm, p
  <2>8. Base(T) /\ LossNews(T)
    <3>1. CASE told = <<>>
      <4>1. T.evq = U.evq
        BY <2>2, <2>3, <2>5, <2>6, <3>1
      <4>2. QED
        BY <2>5, <2>6, <2>7, <4>1
        DEF Base, Kept, Answered, Guarded, Shown, Attentive, Searching, LinkNews, PairingNews,
            LossNews, Up, Ready, Able, InRestart
    <3>2. CASE told = <<"ACTIVE">>
      <4>1. T.evq = U.evq \o <<"ACTIVE">> /\ "ACTIVE" \in WpsEvents /\ Up(U)
        BY <1>2, <2>3, <2>5, <2>6, <3>2 DEF WpsEvents, Up
      <4>2. QED  BY <2>5, <2>6, <2>7, <4>1, QuietEvent DEF Base
    <3>3. QED  BY <2>4, <3>1, <3>2
  <2>9. Calm(T)
    BY <2>5, <2>6, <2>8 DEF Calm, Awaited, Retried, Off, Ready, Able, InRestart
  <2>10. QED  BY <2>1, <2>6, <2>8, <2>9, NotifyReadyGood
<1>3. QED  BY <1>1, <1>2

---------------------------------------------------------------------------
(***************************************************************************)
(* Events: each handler works on the queue that its event has left.        *)
(***************************************************************************)
LEMMA SyncGood ==
  ASSUME NEW S \in State, Kept(S), Awaited(S), Off(S), NEW c \in BOOLEAN, NEW f \in BOOLEAN,
         c => (Up(S) /\ S.supp.link = "none" => Within(S.evq, "DISCONNECTED"))
  PROVE  LET T == SyncConnection(S, c, f) IN
         /\ T \in State /\ Kept(T) /\ PairingNews(T) /\ Calm(T)
         /\ Guarded(S) => Guarded(T)
<1> DEFINE T == SyncConnection(S, c, f)
<1>1. /\ T \in State /\ Outside(S, T) /\ FsmGrows(S, T)
      /\ T.ep.status \in {"DISABLED", "ERROR", "IDLE", "CONNECTED"}
      /\ T.ep.status = "CONNECTED" => c /\ ~f
      /\ Ready(S) => T.ep.retry \/ T.ep.status = "CONNECTED"
  BY SyncConnectionEffect
<1> HIDE DEF T
<1>2. Kept(T) /\ PairingNews(T) /\ (Guarded(S) => Guarded(T))
  BY <1>1, OutsideBase
<1>3. Calm(T)
  BY <1>1, OutsideCalm
<1>4. QED  BY <1>1, <1>2, <1>3 DEF T

LEMMA HandledGood ==
  ASSUME NEW S \in State, Base(S), Calm(S), S.evq # <<>>
  PROVE  LET T == Handled([S EXCEPT !.evq = Tail(@)], Head(S.evq))
         IN  T \in State /\ Base(T) /\ Calm(T)
<1> DEFINE A == [S EXCEPT !.evq = Tail(S.evq)]
           ev == Head(S.evq)
           T == Handled(A, ev)
<1> SUFFICES T \in State /\ Base(T) /\ Calm(T)
  OBVIOUS
<1>1. S.evq \in Seq(Events)
  BY DEF State
<1>2. /\ ev \in Events /\ Tail(S.evq) \in Seq(Events)
      /\ \A e, f : Later(S.evq, e, f) => Later(Tail(S.evq), e, f) /\ (ev = e => Within(Tail(S.evq), f))
      /\ \A e : Within(S.evq, e) => ev = e \/ Within(Tail(S.evq), e)
  BY <1>1, ReadLater
<1> HIDE DEF ev
<1>3. /\ A \in State /\ A.cfg = S.cfg /\ A.ep = S.ep /\ A.fsm = S.fsm /\ A.supp = S.supp
      /\ A.evq = Tail(S.evq) /\ A.calls = S.calls /\ A.upset = S.upset
  BY <1>2 DEF State
<1> HIDE DEF A
<1>4. Kept(A) /\ Guarded(A) /\ Awaited(A) /\ Off(A) /\ Retried(A) /\ Up(A)
  BY <1>2, <1>3 DEF Base, Kept, Calm, Answered, Guarded, Shown, Attentive, Searching, LinkNews,
                    Awaited, Off, Retried, Up, Able, Ready, InRestart
<1>5. ev # "CONNECTED" => PairingNews(A)
  BY <1>2, <1>3 DEF Base, PairingNews, Up
<1>6. ev # "DISCONNECTED" => LossNews(A)
  BY <1>2, <1>3 DEF Calm, LossNews, Up, Able, Ready, InRestart
<1>7. A.supp.link # "none" /\ ev \in {"ACTIVE", "CRED"} => Within(A.evq, "CONNECTED")
  BY <1>2, <1>3 DEF Base, Kept, LinkNews
<1>8. A.supp.link = "none" /\ ev = "CONNECTED" => Within(A.evq, "DISCONNECTED")
  BY <1>2, <1>3 DEF Base, Kept, LinkNews
<1>9. ev # "CONNECTED" => Base(A)
  BY <1>4, <1>5 DEF Base
<1>10. ev # "DISCONNECTED" => Calm(A)
  BY <1>4, <1>6 DEF Calm
<1>11. CASE ev = "CONNECTED"
  <2> DEFINE U == SyncConnection(A, TRUE, FALSE)
  <2>1. U \in State /\ Base(U) /\ Calm(U)
    BY <1>3, <1>4, <1>8, <1>11, SyncGood DEF Base
  <2>2. T = IF HapdRuns THEN Commit(U) ELSE U
    BY <1>11 DEF Handled, Connected
  <2> HIDE DEF U, T
  <2>3. Commit(U) \in State /\ Base(Commit(U)) /\ Calm(Commit(U))
    BY <2>1, CommitEffect, GrowsGood
  <2>4. QED  BY <2>1, <2>2, <2>3
<1>12. CASE ev = "DISCONNECTED"
  <2> DEFINE U == SyncConnection(A, FALSE, FALSE)
  <2>1. U \in State /\ Base(U) /\ Calm(U)
    BY <1>3, <1>4, SyncGood DEF Base
  <2>2. T = IF A.cfg.profile /\ A.ep.status = "CONNECTED" THEN U ELSE A
    BY <1>12 DEF Handled, Disconnected
  <2> HIDE DEF U, T
  <2>3. ~(A.cfg.profile /\ A.ep.status = "CONNECTED") => Calm(A)
    BY <1>4 DEF Calm, LossNews, Ready
  <2>4. QED  BY <1>3, <1>9, <1>12, <2>1, <2>2, <2>3
<1>13. CASE ev = "ACTIVE"
  <2> DEFINE U == SetConnectionStatus(A, "WPS_PAIRING")
  <2>1. T = IF A.ep.pairing THEN U ELSE A
    BY <1>13 DEF Handled
  <2>2. /\ U \in State /\ Outside(A, U) /\ FsmGrows(A, U)
        /\ U.ep.status = "WPS_PAIRING"
    BY <1>3, SetConnectionStatusEffect DEF Statuses
  <2> HIDE DEF U, T
  <2>3. ASSUME A.ep.pairing PROVE Base(U)
    BY <1>4, <1>7, <1>13, <2>2, <2>3
    DEF Base, Kept, Outside, Answered, Guarded, Shown, Attentive, Searching, LinkNews, PairingNews, Up
  <2>4. Calm(U)
    BY <1>3, <1>4, <2>2, OutsideCalm
  <2>5. QED  BY <1>3, <1>9, <1>10, <1>13, <2>1, <2>2, <2>3, <2>4
<1>14. CASE ev \in {"CANCEL", "TIMEOUT", "FAIL"}
  <2>1. PICK failed \in BOOLEAN : T = PairingOver(A, failed)
    BY <1>14 DEF Handled
  <2> DEFINE U == SyncConnection(A, FALSE, failed)
  <2> HIDE DEF T
  <2>2. U \in State /\ Base(U) /\ Calm(U)
    BY <1>3, <1>4, SyncGood DEF Base
  <2> HIDE DEF U
  <2>3. NotifyEnd(U) \in State /\ Base(NotifyEnd(U)) /\ Calm(NotifyEnd(U))
    BY <2>2, NotifyEndEffect DEF Base
  <2>4. PairingOver(A, failed) = IF A.ep.pairing THEN NotifyEnd(U) ELSE A
    BY DEF PairingOver, U
  <2>5. QED  BY <1>3, <1>9, <1>10, <1>14, <2>1, <2>3, <2>4
<1>15. CASE ev = "BADCRED"
  <2>1. T = NotifyEnd(A)
    BY <1>15 DEF Handled, CredReceived
  <2> HIDE DEF T
  <2>2. NotifyEnd(A) \in State /\ Base(NotifyEnd(A)) /\ Calm(NotifyEnd(A))
    BY <1>3, <1>9, <1>10, <1>15, NotifyEndEffect DEF Base
  <2>3. QED  BY <2>1, <2>2
<1>16. CASE ev = "CRED"
  <2> DEFINE U == [A EXCEPT !.ep.status = "WPS_PAIRINGDONE"]
  <2>1. T = IF A.ep.pairing THEN NotifyEnd(U) ELSE A
    BY <1>16 DEF Handled, CredReceived
  <2>2. /\ U \in State /\ Outside(A, U) /\ U.fsm = A.fsm /\ U.ep.status = "WPS_PAIRINGDONE"
    BY <1>3 DEF State, Eps, Statuses, Outside
  <2> HIDE DEF U, T
  <2>3. Base(U)
    BY <1>4, <1>7, <1>16, <2>2
    DEF Base, Kept, Outside, Answered, Guarded, Shown, Attentive, Searching, LinkNews, PairingNews, Up
  <2>4. Calm(U)
    BY <1>3, <1>4, <2>2, OutsideCalm DEF FsmGrows, Awaited
  <2>5. NotifyEnd(U) \in State /\ Base(NotifyEnd(U)) /\ Calm(NotifyEnd(U))
    BY <2>2, <2>3, <2>4, NotifyEndEffect DEF Base
  <2>6. QED  BY <1>3, <1>9, <1>10, <1>16, <2>1, <2>5
<1>17. QED
  BY <1>2, <1>11, <1>12, <1>13, <1>14, <1>15, <1>16 DEF Events, WpsEvents

---------------------------------------------------------------------------
(***************************************************************************)
(* Steps.                                                                  *)
(***************************************************************************)
Good(S) == S \in State /\ Base(S) /\ Calm(S)

LEMMA BecomeGood ==
  ASSUME NEW S, Good(S), Become(S)
  PROVE  Good(S0)'
<1> DEFINE U == IF S.ep.status = "WPS_PAIRING" THEN S.upset ELSE S.upset \ {"stuck"}
           T == [cfg |-> S.cfg, ep |-> S.ep, fsm |-> S.fsm, roam |-> S.roam, supp |-> S.supp,
                 evq |-> S.evq, calls |-> S.calls, upset |-> U]
<1>1. S0' = T
  BY DEF S0, Become
<1>2. U \in Upsets /\ \A u \in S.upset : u # "stuck" => u \in U
  BY DEF State, Upsets, Good
<1>3. S.ep.status = "WPS_PAIRING" => U = S.upset
  OBVIOUS
<1> HIDE DEF U
<1>4. /\ T \in State /\ T.cfg = S.cfg /\ T.ep = S.ep /\ T.fsm = S.fsm /\ T.roam = S.roam
      /\ T.supp = S.supp /\ T.evq = S.evq /\ T.calls = S.calls /\ T.upset = U
  BY <1>2 DEF State, Good
<1> HIDE DEF T
<1>5. Base(T)
  BY <1>2, <1>3, <1>4 DEF Good, Base, Kept, Answered, Guarded, Shown, Attentive, Searching, LinkNews,
                           PairingNews, Up
<1>6. Calm(T)
  BY <1>2, <1>4 DEF Good, Calm, Awaited, Retried, LossNews, Off, Ready, Able, InRestart, Up
<1>7. QED  BY <1>1, <1>4, <1>5, <1>6 DEF Good

LEMMA CommitGood ==
  ASSUME NEW S \in State, Base(S), Calm(S) \/ S.fsm.req
  PROVE  Good(Commit(S))
<1> DEFINE T == Commit(S)
<1>1. /\ T \in State /\ Outside(S, T) /\ FsmGrows(S, T) /\ T.ep = S.ep
      /\ T.fsm.req = S.fsm.req /\ Awaited(T)
  BY CommitEffect
<1> HIDE DEF T
<1>2. Base(T)
  BY <1>1, OutsideBase DEF Base
<1>3. Calm(T)
  BY <1>1, GrowsGood, RequestedCalm
<1>4. QED  BY <1>1, <1>2, <1>3 DEF T, Good

LEMMA UserGood ==
  ASSUME Good(S0), User
  PROVE  \E S : Good(S) /\ Become(S)
<1>1. S0 \in State /\ Base(S0) /\ Calm(S0)
  BY DEF Good
<1>2. /\ S0.cfg = cfg /\ S0.ep = ep /\ S0.fsm = fsm /\ S0.supp = supp /\ S0.roam = roam
      /\ S0.evq = evq /\ S0.calls = calls /\ S0.upset = upset
  BY DEF S0
<1>3. CASE SetEnable
  <2> DEFINE A == [S0 EXCEPT !.cfg.enable = ~@, !.fsm.req = TRUE]
             T == Reconfigure(A)
  <2>1. Become(Commit(T))
    BY <1>3 DEF SetEnable
  <2>2. /\ A \in State /\ A.ep = S0.ep /\ A.supp = S0.supp /\ A.evq = S0.evq /\ A.calls = S0.calls
        /\ A.upset = S0.upset /\ A.fsm.req
    BY <1>1 DEF State, Cfgs, Fsms
  <2> HIDE DEF A
  <2>3. Base(A)
    BY <1>1, <2>2 DEF Base, Kept, Answered, Guarded, Shown, Attentive, Searching, LinkNews,
                      PairingNews, Up
  <2>4. T \in State /\ Base(T) /\ T.fsm.req
    BY <2>2, <2>3, ReconfigureEffect DEF FsmGrows
  <2> HIDE DEF T
  <2>5. QED  BY <2>1, <2>4, CommitGood
<1>4. CASE EnableRadio
  <2> DEFINE A == [S0 EXCEPT !.cfg.rad = ~@, !.fsm.req = TRUE]
  <2>1. Become(Commit(A))
    BY <1>4 DEF EnableRadio
  <2>2. /\ A \in State /\ A.ep = S0.ep /\ A.supp = S0.supp /\ A.evq = S0.evq /\ A.calls = S0.calls
        /\ A.upset = S0.upset /\ A.fsm.req
    BY <1>1 DEF State, Cfgs, Fsms
  <2> HIDE DEF A
  <2>3. Base(A)
    BY <1>1, <2>2 DEF Base, Kept, Answered, Guarded, Shown, Attentive, Searching, LinkNews,
                      PairingNews, Up
  <2>4. QED  BY <2>1, <2>2, <2>3, CommitGood
<1>5. CASE DeleteProfile
  <2> DEFINE A == [S0 EXCEPT !.cfg.profile = FALSE]
             T == Reconfigure(A)
  <2>1. Become(T)
    BY <1>5 DEF DeleteProfile
  <2>2. /\ A \in State /\ A.ep = S0.ep /\ A.supp = S0.supp /\ A.evq = S0.evq /\ A.calls = S0.calls
        /\ A.upset = S0.upset /\ A.fsm = S0.fsm /\ ~A.cfg.profile
        /\ A.cfg.enable = S0.cfg.enable /\ A.cfg.rad = S0.cfg.rad
    BY <1>1 DEF State, Cfgs
  <2> HIDE DEF A
  <2>3. Base(A) /\ Awaited(A) /\ Off(A)
    BY <1>1, <2>2 DEF Base, Kept, Answered, Guarded, Shown, Attentive, Searching, LinkNews,
                      PairingNews, Up, Calm, Awaited, Off, Able
  <2>4. /\ T \in State /\ Base(T) /\ FsmGrows(A, T) /\ T.cfg = A.cfg /\ T.supp.st = A.supp.st
        /\ "zombie" \in A.upset => "zombie" \in T.upset
    BY <2>2, <2>3, ReconfigureEffect
  <2> HIDE DEF T
  <2>5. Calm(T)
    BY <2>2, <2>3, <2>4 DEF Calm, FsmGrows, Retried, LossNews, Off, Ready, Able
  <2>6. QED  BY <2>1, <2>4, <2>5 DEF Good
<1>6. CASE CancelPairing
  <2> DEFINE D == AnswerDelayed(S0)
             S == [D EXCEPT !.ep.guard = "off"]
             q == S.evq \o IF supp.wps THEN <<"CANCEL">> ELSE <<>>
             T == [S EXCEPT !.evq = q, !.supp.wps = FALSE]
             more == IF ep.pairing THEN {"cancel"} ELSE {}
             R == [S EXCEPT !.upset = @ \cup more]
  <2>1. IF Up(S) THEN Become(PairingOver(T, TRUE)) ELSE Become(R)
    BY <1>6 DEF CancelPairing, Emit
  <2>2. /\ D \in State /\ Base(D) /\ Calm(D) /\ D.supp = S0.supp
        /\ D.ep.pairing = S0.ep.pairing
    BY <1>1, AnswerDelayedEffect
  <2> HIDE DEF D
  <2>3. /\ S \in State /\ S.cfg = D.cfg /\ S.supp = D.supp /\ S.evq = D.evq /\ S.calls = D.calls
        /\ S.upset = D.upset /\ S.fsm = D.fsm /\ S.ep.status = D.ep.status
        /\ S.ep.retry = D.ep.retry /\ S.ep.pairing = D.ep.pairing /\ S.ep.delay = D.ep.delay
    BY <2>2 DEF State, Eps
  <2> HIDE DEF S
  <2>4. Calm(S)
    BY <2>2, <2>3 DEF Calm, Awaited, Retried, LossNews, Off, Ready, Able, InRestart, Up
  <2>5. CASE ~Up(S)
    <3>1. /\ R \in State /\ R.cfg = S.cfg /\ R.supp = S.supp /\ R.evq = S.evq /\ R.calls = S.calls
          /\ R.ep = S.ep /\ R.fsm = S.fsm /\ R.upset = S.upset \cup more
      BY <2>3 DEF State, Upsets
    <3>2. S.ep.pairing => "cancel" \in R.upset
      BY <1>2, <2>2, <2>3, <3>1
    <3> HIDE DEF R
    <3>3. Base(R)
      BY <2>2, <2>3, <3>1, <3>2
      DEF Base, Kept, Answered, Guarded, Shown, Attentive, Searching, LinkNews, PairingNews, Up
    <3>4. Calm(R)
      BY <2>4, <3>1 DEF Calm, Awaited, Retried, LossNews, Off, Ready, Able, InRestart, Up
    <3>5. QED  BY <2>1, <2>5, <3>1, <3>3, <3>4 DEF Good
  <2>6. CASE Up(S)
    <3> DEFINE U == SyncConnection(T, FALSE, TRUE)
    <3>1. PairingOver(T, TRUE) = IF T.ep.pairing THEN NotifyEnd(U) ELSE T
      BY DEF PairingOver
    <3>2. /\ q = S.evq \/ q = S.evq \o <<"CANCEL">>
          /\ ~supp.wps => q = S.evq
      <4>1. S.evq \in Seq(Events)
        BY <2>3 DEF State
      <4>2. S.evq \o <<>> = S.evq
        BY <4>1
      <4>3. QED  BY <4>2
    <3>3. S.evq \in Seq(Events) /\ "CANCEL" \in WpsEvents /\ q \in Seq(Events)
      <4>1. S.evq \in Seq(Events)
        BY <2>3 DEF State
      <4>2. "CANCEL" \in WpsEvents /\ "CANCEL" \in Events
        BY DEF WpsEvents, Events
      <4> HIDE DEF q
      <4>3. QED  BY <3>2, <4>1, <4>2
    <3>4. q # S.evq => supp.wps /\ S.supp.link = "none"
      <4>1. S.supp = supp /\ (supp.wps => supp.link = "none")
        BY <1>1, <1>2, <2>2, <2>3 DEF Base, Kept, Searching
      <4>2. QED  BY <3>2, <4>1
    <3> HIDE DEF q
    <3>5. /\ T \in State /\ T.cfg = S.cfg /\ T.evq = q /\ T.calls = S.calls
          /\ T.upset = S.upset /\ T.fsm = S.fsm /\ T.ep = S.ep
          /\ T.supp.st = S.supp.st /\ T.supp.link = S.supp.link /\ ~T.supp.wps
      BY <2>3, <3>3 DEF State, Supps
    <3> HIDE DEF T
    <3>6. Kept(S) /\ PairingNews(S)
      BY <2>2, <2>3 DEF Base, Kept, Answered, Shown, Attentive, Searching, LinkNews, PairingNews, Up
    <3>7. Kept(T) /\ PairingNews(T) /\ LossNews(T)
      <4>1. CASE q = S.evq
        BY <2>4, <3>5, <3>6, <4>1
        DEF Calm, Kept, Answered, Shown, Attentive, Searching, LinkNews, PairingNews, LossNews,
            Up, Ready, Able, InRestart
      <4>2. CASE q # S.evq
        BY <2>3, <2>4, <2>6, <3>2, <3>3, <3>4, <3>5, <3>6, <4>2, QuietEvent, ZenonT(60) DEF Calm
      <4>3. QED  BY <4>1, <4>2
    <3>8. Calm(T)
      BY <2>4, <3>5, <3>7 DEF Calm, Awaited, Retried, Off, Ready, Able, InRestart
    <3>9. U \in State /\ Kept(U) /\ PairingNews(U) /\ Calm(U)
      BY <3>5, <3>7, <3>8, SyncGood DEF Calm
    <3> HIDE DEF U
    <3>10. Good(NotifyEnd(U))
      BY <3>9, NotifyEndEffect DEF Good, Base
    <3>11. ~T.ep.pairing => Good(T)
      BY <3>5, <3>7, <3>8 DEF Good, Base, Guarded
    <3>12. QED  BY <2>1, <2>6, <3>1, <3>10, <3>11
  <2>7. QED  BY <2>5, <2>6
<1>7. ASSUME NEW same \in BOOLEAN, SetProfile(same) PROVE \E S : Good(S) /\ Become(S)
  <2> DEFINE A == [S0 EXCEPT !.cfg.profile = TRUE]
             T == Reconfigure(A)
  <2>1. Become(IF same THEN A ELSE T) /\ (same => ep.status = "CONNECTED" /\ supp.link # "none")
    BY <1>7 DEF SetProfile
  <2>2. /\ A \in State /\ A.ep = S0.ep /\ A.supp = S0.supp /\ A.evq = S0.evq /\ A.calls = S0.calls
        /\ A.upset = S0.upset /\ A.fsm = S0.fsm /\ A.cfg.profile
        /\ A.cfg.enable = S0.cfg.enable /\ A.cfg.rad = S0.cfg.rad
    BY <1>1 DEF State, Cfgs
  <2> HIDE DEF A
  <2>3. Base(A) /\ Awaited(A) /\ Off(A)
    BY <1>1, <2>2 DEF Base, Kept, Answered, Guarded, Shown, Attentive, Searching, LinkNews,
                      PairingNews, Up, Calm, Awaited, Off, Able
  <2>4. CASE same
    <3>1. Calm(A)
      BY <1>2, <2>1, <2>2, <2>3, <2>4 DEF Calm, Retried, LossNews
    <3>2. QED  BY <2>1, <2>2, <2>3, <2>4, <3>1 DEF Good
  <2>5. CASE ~same
    <3>1. /\ T \in State /\ Base(T) /\ FsmGrows(A, T) /\ T.cfg = A.cfg /\ T.supp.st = A.supp.st
          /\ "zombie" \in A.upset => "zombie" \in T.upset
          /\ T.ep.status = "WPS_PAIRING" \/ (Ready(A) => T.fsm.req)
      BY <2>2, <2>3, ReconfigureEffect
    <3> HIDE DEF T
    <3>2. Calm(T)
      BY <2>2, <2>3, <3>1 DEF Calm, FsmGrows, Retried, LossNews, Off, Ready, Able, InRestart
    <3>3. QED  BY <2>1, <2>5, <3>1, <3>2 DEF Good
  <2>6. QED  BY <2>4, <2>5
<1>8. ASSUME NEW pin \in BOOLEAN, PushButton(pin) PROVE \E S : Good(S) /\ Become(S)
  <2> DEFINE D == AnswerDelayed(S0)
             n == D.calls + 1
             L == [D EXCEPT !.ep.delay = TRUE, !.calls = n]
  <2>1. Become(IF fsm.phase = "idle" THEN WpsStart(D, pin) ELSE L)
    BY <1>8 DEF PushButton
  <2>2. D \in State /\ Base(D) /\ Calm(D) /\ ~D.ep.delay /\ D.calls = 0
    BY <1>1, AnswerDelayedEffect
  <2> HIDE DEF D
  <2>3. Good(WpsStart(D, pin)) /\ n = 1
    BY <2>2, WpsStartGood DEF Good
  <2> HIDE DEF n
  <2>4. /\ L \in State /\ L.cfg = D.cfg /\ L.supp = D.supp /\ L.evq = D.evq /\ L.calls = 1
        /\ L.upset = D.upset /\ L.fsm = D.fsm /\ L.ep.status = D.ep.status /\ L.ep.delay
        /\ L.ep.retry = D.ep.retry /\ L.ep.pairing = D.ep.pairing /\ L.ep.guard = D.ep.guard
    BY <2>2, <2>3 DEF State, Eps
  <2> HIDE DEF L
  <2>5. Base(L)
    BY <2>2, <2>4 DEF Base, Kept, Answered, Guarded, Shown, Attentive, Searching, LinkNews,
                      PairingNews, Up
  <2>6. Calm(L)
    BY <2>2, <2>4 DEF Calm, Awaited, Retried, LossNews, Off, Ready, Able, InRestart, Up
  <2>7. QED  BY <2>1, <2>3, <2>4, <2>5, <2>6 DEF Good
<1>9. ASSUME NEW b \in Bssids, RoamTo(b) PROVE \E S : Good(S) /\ Become(S)
  <2> DEFINE T == [S0 EXCEPT !.roam = [target |-> b, tries |-> 0]]
  <2>1. Become(T)
    BY <1>9 DEF RoamTo
  <2>2. T \in State /\ Outside(S0, T) /\ T.ep = S0.ep /\ T.fsm = S0.fsm
    <3>1. [target |-> b, tries |-> 0] \in Roams
      BY ConstantsAssumption DEF Roams
    <3> HIDE DEF S0
    <3>2. QED  BY <1>1, <3>1 DEF State, Outside
  <2> HIDE DEF T
  <2>3. Good(T)
    BY <1>1, <2>2, GrowsGood DEF FsmGrows, Awaited, Good
  <2>4. QED  BY <2>1, <2>3
<1>10. QED
  BY <1>3, <1>4, <1>5, <1>6, <1>7, <1>8, <1>9 DEF User

LEMMA TimerGood ==
  ASSUME Good(S0), ReadEvent \/ DelayedPush \/ SessionTimer \/ Reconnect \/ RoamTimer \/ Restart
  PROVE  \E S : Good(S) /\ Become(S)
<1>1. S0 \in State /\ Base(S0) /\ Calm(S0)
  BY DEF Good
<1>2. /\ S0.cfg = cfg /\ S0.ep = ep /\ S0.fsm = fsm /\ S0.supp = supp /\ S0.roam = roam
      /\ S0.evq = evq /\ S0.calls = calls /\ S0.upset = upset
  BY DEF S0
<1>3. CASE ReadEvent
  <2>1. evq # <<>> /\ Become(Handled([S0 EXCEPT !.evq = Tail(@)], Head(evq)))
    BY <1>3 DEF ReadEvent
  <2>2. Good(Handled([S0 EXCEPT !.evq = Tail(@)], Head(S0.evq)))
    BY <1>1, <1>2, <2>1, HandledGood DEF Good
  <2>3. QED  BY <1>2, <2>1, <2>2
<1>4. CASE DelayedPush
  <2>1. PICK pin \in BOOLEAN : Become(AnswerDelayed(IF Able(S0) THEN WpsStart(S0, pin) ELSE S0))
    BY <1>4 DEF DelayedPush
  <2> DEFINE T == IF Able(S0) THEN WpsStart(S0, pin) ELSE S0
  <2>2. T \in State /\ Base(T) /\ Calm(T)
    BY <1>1, WpsStartGood
  <2> HIDE DEF T
  <2>3. Good(AnswerDelayed(T))
    BY <2>2, AnswerDelayedEffect DEF Good
  <2>4. QED  BY <2>1, <2>3 DEF T
<1>5. CASE SessionTimer
  <2>1. Good(NotifyEnd(S0))
    BY <1>1, NotifyEndEffect DEF Good, Base
  <2>2. QED  BY <1>5, <2>1 DEF SessionTimer
<1>6. CASE Reconnect
  <2> DEFINE T == ConnectCommit(S0)
  <2>1. /\ T \in State /\ Outside(S0, T) /\ FsmGrows(S0, T) /\ T.ep.retry = S0.ep.retry
        /\ T.ep.status = IF S0.cfg.profile THEN S0.ep.status ELSE "ERROR"
    BY <1>1, ConnectCommitEffect
  <2>2. Become(T)
    BY <1>6 DEF Reconnect
  <2> HIDE DEF T
  <2>3. Good(T)
    BY <1>1, <2>1, GrowsGood DEF Good
  <2>4. QED  BY <2>2, <2>3
<1>7. CASE RoamTimer
  <2> DEFINE T == IF roam.tries > 0 THEN ProcessPrevious(S0)
                  ELSE IF AtTarget(S0) THEN StopRoaming(S0, FALSE) ELSE RoamAttempt(S0)
  <2>1. Become(T)
    BY <1>7 DEF RoamTimer
  <2>2. roam.tries \in Nat /\ MaxTries > 0 /\ MaxTries \in Nat /\ S0.roam.tries = roam.tries
    BY <1>1, <1>2, ConstantsAssumption DEF State, Roams
  <2>3. /\ T \in State /\ Outside(S0, T) /\ FsmGrows(S0, T) /\ T.ep.retry = S0.ep.retry
        /\ T.ep.status = S0.ep.status \/ (T.ep.status = "ERROR" /\ ~S0.cfg.profile)
    <3>1. CASE roam.tries > 0
      BY <1>1, <3>1, ProcessPreviousEffect
    <3>2. CASE ~(roam.tries > 0) /\ AtTarget(S0)
      BY <1>1, <3>2, StopRoamingEffect
    <3>3. CASE ~(roam.tries > 0) /\ ~AtTarget(S0)
      BY <1>1, <2>2, <3>3, RoamAttemptEffect
    <3>4. QED  BY <3>1, <3>2, <3>3
  <2> HIDE DEF T
  <2>4. Good(T)
    BY <1>1, <2>3, GrowsGood DEF Good
  <2>5. QED  BY <2>1, <2>4
<1>8. CASE Restart
  <2> DEFINE u == IF Able(S0) THEN upset ELSE upset \cup {"zombie"}
             T == [S0 EXCEPT !.supp.st = "starting", !.upset = u]
  <2>1. Become(T) /\ supp.st = "dead"
    BY <1>2, <1>8 DEF Restart
  <2>2. u \in Upsets /\ upset \subseteq u /\ (~Able(S0) => "zombie" \in u)
    BY <1>1, <1>2 DEF State, Upsets
  <2> HIDE DEF u, S0
  <2>3. /\ T \in State /\ T.cfg = S0.cfg /\ T.evq = S0.evq /\ T.calls = S0.calls
        /\ T.ep = S0.ep /\ T.fsm = S0.fsm /\ T.upset = u /\ T.supp.st = "starting"
        /\ T.supp.link = S0.supp.link /\ T.supp.wps = S0.supp.wps
    BY <1>1, <2>2 DEF State, Supps
  <2> HIDE DEF T
  <2>4. Base(T)
    BY <1>1, <1>2, <2>1, <2>2, <2>3
    DEF Base, Kept, Answered, Guarded, Shown, Attentive, Searching, LinkNews, PairingNews, Up
  <2>5. Calm(T)
    BY <1>1, <1>2, <2>1, <2>2, <2>3
    DEF Calm, Awaited, Retried, LossNews, Off, Ready, Able, InRestart, Up
  <2>6. QED  BY <2>1, <2>3, <2>4, <2>5 DEF Good
<1>9. QED  BY <1>3, <1>4, <1>5, <1>6, <1>7, <1>8

\* What the machine and the process do without the queue of events.
LEMMA PassGood ==
  ASSUME Good(S0), Pass
  PROVE  \E S : Good(S) /\ Become(S)
<1>1. S0 \in State /\ Base(S0) /\ Calm(S0)
  BY DEF Good
<1>2. /\ S0.cfg = cfg /\ S0.ep = ep /\ S0.fsm = fsm /\ S0.supp = supp /\ S0.roam = roam
      /\ S0.evq = evq /\ S0.calls = calls /\ S0.upset = upset
  BY DEF S0
<1>3. CASE Dependency
  <2> DEFINE F == [phase |-> IF fsm.req THEN "stop" ELSE "finish", req |-> FALSE, wanted |-> FALSE]
             T == [S0 EXCEPT !.fsm = F]
  <2>1. Become(T) /\ fsm.phase = "wait"
    BY <1>3 DEF Dependency
  <2>2. F \in Fsms /\ ~F.req /\ F.phase = IF fsm.req THEN "stop" ELSE "finish"
    BY DEF Fsms, Phases
  <2> HIDE DEF F, S0
  <2>3. T \in State /\ Outside(S0, T) /\ T.ep = S0.ep /\ T.fsm = F
    BY <1>1, <2>2 DEF State, Outside
  <2> HIDE DEF T
  <2>4. Base(T)
    BY <1>1, <2>3, OutsideBase DEF Base
  <2>5. Calm(T)
    BY <1>1, <1>2, <2>1, <2>2, <2>3
    DEF Outside, Calm, Awaited, Retried, LossNews, Off, Ready, Able, InRestart, Up
  <2>6. QED  BY <2>1, <2>3, <2>4, <2>5 DEF Good
<1>4. CASE StopWpaSupp
  <2> DEFINE U == [S0 EXCEPT !.fsm.phase = "conf"]
             w == upset \ {"zombie"}
             P == [U.supp EXCEPT !.st = "off", !.link = "none", !.halt = FALSE, !.wps = FALSE]
             T == [U EXCEPT !.supp = P, !.evq = <<>>, !.upset = w]
  <2>1. Become(IF ~Running(U) THEN U ELSE T) /\ fsm.phase = "stop"
    BY <1>4 DEF StopWpaSupp, S0
  <2>2. w \in Upsets /\ \A x \in {"stuck", "cancel"} : x \in w <=> x \in upset
    BY <1>1, <1>2 DEF State, Upsets
  <2>3. /\ U \in State /\ Outside(S0, U) /\ U.ep = S0.ep /\ U.fsm.phase = "conf"
        /\ U.fsm.req = S0.fsm.req /\ U.fsm.wanted = S0.fsm.wanted
    BY <1>1 DEF State, Fsms, Phases, Outside
  <2> HIDE DEF U, w, S0
  <2>4. Base(U)
    BY <1>1, <2>3, OutsideBase DEF Base
  <2>5. Awaited(U) /\ Retried(U) /\ LossNews(U)
    BY <1>1, <1>2, <2>1, <2>3 DEF Calm, Awaited, Retried, LossNews, InRestart
  <2>6. /\ T \in State /\ T.cfg = U.cfg /\ T.evq = <<>> /\ T.calls = U.calls
        /\ T.ep = U.ep /\ T.fsm = U.fsm /\ T.upset = w /\ T.supp.st = "off"
        /\ T.supp.link = "none" /\ ~T.supp.wps
    <3>1. P \in Supps /\ P.st = "off" /\ P.link = "none" /\ ~P.wps
      BY <2>3 DEF State, Supps
    <3>2. <<>> \in Seq(Events)
      OBVIOUS
    <3> HIDE DEF P
    <3>3. QED  BY <2>2, <2>3, <3>1, <3>2 DEF State
  <2> HIDE DEF T
  <2>7. Good(T)
    <3>1. Later(<<>>, "CONNECTED", "DISCONNECTED")
      BY DEF Later
    <3>2. Base(T)
      BY <1>2, <2>2, <2>3, <2>4, <2>6, <3>1
      DEF Base, Kept, Answered, Guarded, Shown, Attentive, Searching, LinkNews, PairingNews, Up, Outside
    <3>3. Calm(T)
      BY <2>5, <2>6 DEF Calm, Awaited, Retried, LossNews, Off, Ready, Able, InRestart, Up
    <3>4. QED  BY <2>6, <3>2, <3>3 DEF Good
  <2>8. ~Running(U) => Good(U)
    <3>1. ~Running(U) => U.supp.st \in {"off", "dead"}
      BY <2>3 DEF Running, State, Supps
    <3>2. QED  BY <2>3, <2>4, <2>5, <3>1 DEF Good, Calm, Off
  <2>9. QED  BY <2>1, <2>7, <2>8
<1>5. CASE ConfWpaSupp
  <2> DEFINE u == upset \ {"ignored"}
             T == [S0 EXCEPT !.fsm.phase = "enable", !.supp.net = Network, !.upset = u]
  <2>1. Become(T) /\ fsm.phase = "conf"
    BY <1>5 DEF ConfWpaSupp, S0
  <2>2. u \in Upsets /\ \A x \in {"stuck", "cancel", "zombie"} : x \in u <=> x \in upset
    BY <1>1, <1>2 DEF State, Upsets
  <2>3. Network \in Networks
    BY <1>1, <1>2 DEF Network, Networks, State, Roams
  <2> HIDE DEF u, S0
  <2>4. /\ T \in State /\ T.cfg = S0.cfg /\ T.evq = S0.evq /\ T.calls = S0.calls
        /\ T.ep = S0.ep /\ T.fsm.phase = "enable" /\ T.fsm.req = S0.fsm.req
        /\ T.fsm.wanted = S0.fsm.wanted /\ T.upset = u
        /\ T.supp.st = S0.supp.st /\ T.supp.link = S0.supp.link /\ T.supp.wps = S0.supp.wps
    BY <1>1, <2>2, <2>3 DEF State, Supps, Fsms, Phases
  <2> HIDE DEF T
  <2>5. Base(T)
    BY <1>1, <1>2, <2>2, <2>4
    DEF Base, Kept, Answered, Guarded, Shown, Attentive, Searching, LinkNews, PairingNews, Up
  <2>6. Calm(T)
    BY <1>1, <1>2, <2>1, <2>2, <2>4
    DEF Calm, Awaited, Retried, LossNews, Off, Ready, Able, InRestart, Up
  <2>7. QED  BY <2>1, <2>4, <2>5, <2>6 DEF Good
<1>6. CASE EnableEp
  <2> DEFINE U == [S0 EXCEPT !.fsm.phase = "start"]
             s == IF Able(S0) THEN "IDLE" ELSE "DISABLED"
             T == SetConnectionStatus(U, s)
  <2>1. Become(T) /\ fsm.phase = "enable"
    BY <1>6 DEF EnableEp
  <2>2. /\ U \in State /\ Outside(S0, U) /\ U.ep = S0.ep /\ U.fsm.phase = "start"
        /\ U.fsm.req = S0.fsm.req /\ U.fsm.wanted = S0.fsm.wanted
    BY <1>1 DEF State, Fsms, Phases, Outside
  <2> HIDE DEF U, S0
  <2>3. s \in Statuses /\ s \notin {"CONNECTED", "WPS_PAIRING", "WPS_PAIRINGDONE"}
    BY DEF Statuses
  <2>4. Base(U) /\ Awaited(U) /\ Off(U)
    BY <1>1, <1>2, <2>1, <2>2, OutsideBase DEF Base, Calm, Awaited, Off, Outside, Able
  <2> HIDE DEF s
  <2>5. /\ T \in State /\ Outside(U, T) /\ FsmGrows(U, T) /\ T.ep.status = s
        /\ T.ep.retry = (s # "CONNECTED" /\ Ready(U))
    BY <2>2, <2>3, SetConnectionStatusEffect
  <2> HIDE DEF T
  <2>6. Base(T)
    BY <2>2, <2>3, <2>4, <2>5, OutsideBase DEF Base
  <2>7. Calm(T)
    BY <2>2, <2>3, <2>4, <2>5, OutsideCalm
  <2>8. QED  BY <2>1, <2>5, <2>6, <2>7 DEF Good
<1>7. CASE StartWpaSupp
  <2> DEFINE new == IF Able(S0) /\ ~Running(S0) THEN "starting" ELSE supp.st
             T == [S0 EXCEPT !.fsm.phase = "finish", !.supp.st = new]
  <2>1. Become(T) /\ fsm.phase = "start"
    BY <1>7 DEF StartWpaSupp, S0
  <2>2. /\ new \in {"off", "starting", "up", "mute", "dead"}
        /\ new = "up" <=> supp.st = "up"
        /\ new # supp.st => Able(S0)
    BY <1>1, <1>2 DEF State, Supps, Running
  <2> HIDE DEF new, S0
  <2>3. /\ T \in State /\ T.cfg = S0.cfg /\ T.evq = S0.evq /\ T.calls = S0.calls
        /\ T.ep = S0.ep /\ T.fsm.phase = "finish" /\ T.fsm.req = S0.fsm.req
        /\ T.fsm.wanted = S0.fsm.wanted /\ T.upset = S0.upset
        /\ T.supp.st = new /\ T.supp.link = S0.supp.link /\ T.supp.wps = S0.supp.wps
    BY <1>1, <2>2 DEF State, Supps, Fsms, Phases
  <2> HIDE DEF T
  <2>4. Base(T)
    BY <1>1, <1>2, <2>2, <2>3
    DEF Base, Kept, Answered, Guarded, Shown, Attentive, Searching, LinkNews, PairingNews, Up
  <2>5. Calm(T)
    BY <1>1, <1>2, <2>1, <2>2, <2>3
    DEF Calm, Awaited, Retried, LossNews, Off, Ready, Able, InRestart, Up
  <2>6. QED  BY <2>1, <2>3, <2>4, <2>5 DEF Good
<1>8. CASE Finish
  <2> DEFINE p == IF fsm.wanted THEN "wait" ELSE "idle"
             T == [S0 EXCEPT !.fsm.phase = p]
  <2>1. Become(T) /\ fsm.phase = "finish"
    BY <1>8 DEF Finish
  <2>2. p \in Phases /\ p # "stop" /\ p # "conf" /\ p # "enable" /\ (fsm.wanted => p = "wait")
    BY DEF Phases
  <2> HIDE DEF p, S0
  <2>3. /\ T \in State /\ Outside(S0, T) /\ T.ep = S0.ep /\ T.fsm.phase = p
        /\ T.fsm.req = S0.fsm.req /\ T.fsm.wanted = S0.fsm.wanted
    BY <1>1, <2>2 DEF State, Fsms, Outside
  <2> HIDE DEF T
  <2>4. Base(T)
    BY <1>1, <2>3, OutsideBase DEF Base
  <2>5. Calm(T)
    BY <1>1, <1>2, <2>1, <2>2, <2>3
    DEF Outside, Calm, Awaited, Retried, LossNews, Off, Ready, Able, InRestart, Up
  <2>6. QED  BY <2>1, <2>3, <2>4, <2>5 DEF Good
<1>9. QED  BY <1>3, <1>4, <1>5, <1>6, <1>7, <1>8 DEF Pass

LEMMA SupplicantGood ==
  ASSUME Good(S0), reach \in SUBSET Bssids, Supplicant
  PROVE  (\E S : Good(S) /\ Become(S)) /\ reach' \in SUBSET Bssids
<1>1. S0 \in State /\ Base(S0) /\ Calm(S0)
  BY DEF Good
<1>2. /\ S0.cfg = cfg /\ S0.ep = ep /\ S0.fsm = fsm /\ S0.supp = supp /\ S0.roam = roam
      /\ S0.evq = evq /\ S0.calls = calls /\ S0.upset = upset
  BY DEF S0
<1>3. CASE Attach
  <2> DEFINE U == [S0 EXCEPT !.supp.st = "up"]
             s == IF ep.status = "WPS_PAIRING" /\ supp.net # "none" THEN "WPS_PAIRING" ELSE "IDLE"
             T == IF supp.link # "none" THEN Connected(U) ELSE SetConnectionStatus(U, s)
  <2>1. Become(T) /\ supp.st = "starting" /\ reach' = reach
    BY <1>3 DEF Attach, S0, Still
  <2>2. /\ U \in State /\ U.cfg = S0.cfg /\ U.evq = S0.evq /\ U.calls = S0.calls /\ U.ep = S0.ep
        /\ U.fsm = S0.fsm /\ U.upset = S0.upset /\ U.supp.st = "up"
        /\ U.supp.link = S0.supp.link /\ U.supp.wps = S0.supp.wps
    BY <1>1 DEF State, Supps
  <2> HIDE DEF U, S0
  <2>3. Kept(U) /\ Guarded(U) /\ Awaited(U) /\ Off(U)
    BY <1>1, <1>2, <2>1, <2>2
    DEF Base, Kept, Answered, Guarded, Shown, Attentive, Searching, LinkNews, Calm, Awaited, Off, Able, Up
  <2>4. CASE supp.link # "none"
    <3> DEFINE V == SyncConnection(U, TRUE, FALSE)
    <3>1. V \in State /\ Base(V) /\ Calm(V)
      BY <1>2, <2>2, <2>3, <2>4, SyncGood DEF Base
    <3>2. T = IF HapdRuns THEN Commit(V) ELSE V
      BY <2>4 DEF Connected
    <3> HIDE DEF V, T
    <3>3. QED  BY <2>1, <3>1, <3>2, CommitGood DEF Good
  <2>5. CASE supp.link = "none"
    <3>1. s \in Statuses /\ s # "CONNECTED" /\ (s = ep.status \/ s = "IDLE")
      BY DEF Statuses
    <3>2. T = SetConnectionStatus(U, s)
      BY <2>5
    <3> HIDE DEF s, T
    <3>3. /\ T \in State /\ Outside(U, T) /\ FsmGrows(U, T) /\ T.ep.status = s
          /\ T.ep.retry = (s # "CONNECTED" /\ Ready(U))
      BY <2>2, <3>1, <3>2, SetConnectionStatusEffect
    <3>4. PairingNews(U)
      BY <1>2, <2>2, <2>5 DEF PairingNews
    <3>5. Base(T)
      BY <1>2, <2>2, <2>3, <3>1, <3>3, <3>4, OutsideBase DEF Base
    <3>6. Calm(T)
      BY <2>2, <2>3, <3>1, <3>3, OutsideCalm
    <3>7. QED  BY <2>1, <3>3, <3>5, <3>6 DEF Good
  <2>6. QED  BY <2>1, <2>4, <2>5
<1>4. ASSUME NEW b \in Bssids, Connect(b)
      PROVE  (\E S : Good(S) /\ Become(S)) /\ reach' \in SUBSET Bssids
  <2> DEFINE q == IF Up(S0) THEN evq \o <<"CONNECTED">> ELSE evq
             T == [S0 EXCEPT !.evq = q, !.supp.link = b]
  <2>1. Become(T) /\ reach' = reach /\ supp.link = "none" /\ ~supp.wps
    <3>1. S0 = [S0 EXCEPT !.evq = evq]
      BY DEF S0
    <3>2. QED  BY <1>4, <3>1 DEF Connect, Connects, Emit, S0, Still
  <2>2. q \in Seq(Events) /\ evq \in Seq(Events) /\ "CONNECTED" \in Events
    <3>1. evq \in Seq(Events) /\ "CONNECTED" \in Events
      BY <1>1, <1>2 DEF State, Events
    <3>2. QED  BY <3>1
  <2>3. b # "none"
    BY ConstantsAssumption
  <2> HIDE DEF S0
  <2>5. Up(S0) => q = evq \o <<"CONNECTED">>
    OBVIOUS
  <2>6. ~Up(S0) => q = evq /\ evq = <<>>
    BY <1>1, <1>2 DEF Base, Kept, Attentive
  <2> HIDE DEF q
  <2>7. /\ T \in State /\ T.cfg = S0.cfg /\ T.evq = q /\ T.calls = S0.calls /\ T.ep = S0.ep
        /\ T.fsm = S0.fsm /\ T.upset = S0.upset /\ T.supp.st = S0.supp.st
        /\ T.supp.link = b /\ T.supp.wps = S0.supp.wps
    BY <1>1, <2>2 DEF State, Supps
  <2> HIDE DEF T
  <2>8. LinkNews(T) /\ PairingNews(T) /\ LossNews(T) /\ Attentive(T)
    <3>1. CASE Up(S0)
      <4>1. Later(q, "ACTIVE", "CONNECTED") /\ Later(q, "CRED", "CONNECTED")
        <5>1. Later(evq \o <<"CONNECTED">>, "ACTIVE", "CONNECTED")
          BY <2>2, AddLater
        <5>2. Later(evq \o <<"CONNECTED">>, "CRED", "CONNECTED")
          BY <2>2, AddLater
        <5>3. QED  BY <2>5, <3>1, <5>1, <5>2
      <4>2. Within(q, "CONNECTED")
        BY <2>2, <2>5, <3>1, AddWithin
      <4>3. QED  BY <2>3, <2>7, <3>1, <4>1, <4>2 DEF LinkNews, PairingNews, LossNews, Attentive, Up
    <3>2. CASE ~Up(S0)
      BY <1>1, <1>2, <2>3, <2>6, <2>7, <3>2
      DEF LinkNews, PairingNews, LossNews, Attentive, Up, Later
    <3>3. QED  BY <3>1, <3>2
  <2>9. Good(T)
    BY <1>1, <1>2, <2>1, <2>7, <2>8
    DEF Good, Base, Kept, Answered, Guarded, Shown, Searching, Calm, Awaited, Retried, Off,
        Ready, Able, InRestart
  <2>10. QED  BY <2>1, <2>9
<1>5. CASE LinkLost
  <2> DEFINE q == IF Up(S0) THEN evq \o <<"DISCONNECTED">> ELSE evq
             T == [S0 EXCEPT !.evq = q, !.supp.link = "none"]
  <2>1. Become(T) /\ reach' = reach /\ supp.link # "none"
    <3>1. S0 = [S0 EXCEPT !.evq = evq]
      BY DEF S0
    <3>2. QED  BY <1>5, <3>1 DEF LinkLost, LosesLink, Emit, S0, Still
  <2>2. q \in Seq(Events) /\ evq \in Seq(Events)
    <3>1. evq \in Seq(Events) /\ "DISCONNECTED" \in Events
      BY <1>1, <1>2 DEF State, Events
    <3>2. QED  BY <3>1
  <2> HIDE DEF S0
  <2>3. Up(S0) => q = S0.evq \o Unlinked(S0)
    BY <1>2, <2>1 DEF Unlinked
  <2>4. ~Up(S0) => q = evq /\ evq = <<>>
    BY <1>1, <1>2 DEF Base, Kept, Attentive
  <2> HIDE DEF q
  <2>5. /\ T \in State /\ T.cfg = S0.cfg /\ T.evq = q /\ T.calls = S0.calls /\ T.ep = S0.ep
        /\ T.fsm = S0.fsm /\ T.upset = S0.upset /\ T.supp.st = S0.supp.st
        /\ T.supp.link = "none" /\ T.supp.wps = S0.supp.wps
    BY <1>1, <2>2 DEF State, Supps
  <2> HIDE DEF T
  <2>6. Base(T) /\ LossNews(T)
    <3>1. CASE Up(S0)
      BY <1>1, <2>3, <2>5, <3>1, LossEvent DEF Calm
    <3>2. CASE ~Up(S0)
      BY <1>1, <1>2, <2>4, <2>5, <3>2
      DEF Base, Kept, Answered, Guarded, Shown, Attentive, Searching, LinkNews, PairingNews,
          LossNews, Up, Later
    <3>3. QED  BY <3>1, <3>2
  <2>7. Good(T)
    BY <1>1, <2>5, <2>6 DEF Good, Calm, Awaited, Retried, Off, Ready, Able, InRestart
  <2>8. QED  BY <2>1, <2>7
<1>6. ASSUME NEW ev \in {"TIMEOUT", "FAIL", "CRED", "BADCRED"}, WpsEnds(ev)
      PROVE  (\E S : Good(S) /\ Become(S)) /\ reach' \in SUBSET Bssids
  <2> DEFINE q == IF Up(S0) THEN evq \o <<ev>> ELSE evq
             U == [Emit(S0, <<ev>>) EXCEPT !.supp.wps = FALSE]
             T == IF ev = "CRED" THEN [U EXCEPT !.supp.net = "any", !.supp.halt = FALSE] ELSE U
  <2>1. Become(T) /\ reach' = reach /\ supp.wps
    BY <1>6 DEF WpsEnds, Still
  <2>2. q \in Seq(Events) /\ evq \in Seq(Events) /\ ev \in WpsEvents
    <3>1. evq \in Seq(Events) /\ ev \in Events /\ ev \in WpsEvents
      BY <1>1, <1>2 DEF State, Events, WpsEvents
    <3>2. QED  BY <3>1
  <2>3. Emit(S0, <<ev>>) = IF Up(S0) THEN [S0 EXCEPT !.evq = q] ELSE S0
    BY <1>2 DEF Emit
  <2> HIDE DEF S0
  <2>4. Up(S0) => q = S0.evq \o <<ev>>
    BY <1>2
  <2>5. ~Up(S0) => q = evq
    OBVIOUS
  <2> HIDE DEF q
  <2>6. /\ U \in State /\ U.cfg = S0.cfg /\ U.evq = q /\ U.calls = S0.calls /\ U.ep = S0.ep
        /\ U.fsm = S0.fsm /\ U.upset = S0.upset
        /\ U.supp.st = S0.supp.st /\ U.supp.link = S0.supp.link /\ ~U.supp.wps
    BY <1>1, <1>2, <2>2, <2>3, <2>5 DEF State, Supps
  <2> HIDE DEF U
  <2>7. /\ T \in State /\ T.cfg = U.cfg /\ T.evq = U.evq /\ T.calls = U.calls /\ T.ep = U.ep
        /\ T.fsm = U.fsm /\ T.upset = U.upset
        /\ T.supp.st = U.supp.st /\ T.supp.link = U.supp.link /\ ~T.supp.wps
    BY <2>6 DEF State, Supps, Networks
  <2> HIDE DEF T
  <2>8. supp.link = "none"
    BY <1>1, <1>2, <2>1 DEF Base, Kept, Searching
  <2>9. Base(T) /\ LossNews(T)
    <3>1. CASE Up(S0)
      BY <1>1, <1>2, <2>2, <2>4, <2>6, <2>7, <2>8, <3>1, QuietEvent DEF Base, Calm
    <3>2. CASE ~Up(S0)
      BY <1>1, <1>2, <2>5, <2>6, <2>7, <2>8, <3>2
      DEF Base, Kept, Answered, Guarded, Shown, Attentive, Searching, LinkNews, PairingNews,
          LossNews, Up
    <3>3. QED  BY <3>1, <3>2
  <2>10. Good(T)
    BY <1>1, <1>2, <2>6, <2>7, <2>9 DEF Good, Calm, Awaited, Retried, Off, Ready, Able, InRestart
  <2>11. QED  BY <2>1, <2>10
<1>7. CASE Crash
  <2> DEFINE P == [supp EXCEPT !.st = "dead", !.link = "none", !.halt = FALSE, !.wps = FALSE]
             T == [S0 EXCEPT !.supp = P, !.evq = <<>>]
  <2>1. Become(T) /\ reach' = reach
    BY <1>7 DEF Crash, S0
  <2>2. P \in Supps /\ P.st = "dead" /\ P.link = "none" /\ ~P.wps
    BY <1>1, <1>2 DEF State, Supps
  <2> HIDE DEF S0, P
  <2>3. /\ T \in State /\ T.cfg = S0.cfg /\ T.evq = <<>> /\ T.calls = S0.calls /\ T.ep = S0.ep
        /\ T.fsm = S0.fsm /\ T.upset = S0.upset /\ T.supp = P
    <3>1. <<>> \in Seq(Events)
      OBVIOUS
    <3>2. QED  BY <1>1, <2>2, <3>1 DEF State
  <2> HIDE DEF T
  <2>4. Base(T)
    BY <1>1, <1>2, <2>2, <2>3
    DEF Base, Kept, Answered, Guarded, Shown, Attentive, Searching, LinkNews, PairingNews, Up, Later
  <2>5. Calm(T)
    BY <1>1, <1>2, <2>2, <2>3
    DEF Calm, Awaited, Retried, LossNews, Off, Ready, Able, InRestart, Up
  <2>6. QED  BY <2>1, <2>3, <2>4, <2>5 DEF Good
<1>8. CASE SocketMiss
  <2> DEFINE T == [S0 EXCEPT !.supp.st = "mute"]
  <2>1. Become(T) /\ reach' = reach /\ supp.st = "starting"
    BY <1>8 DEF SocketMiss
  <2> HIDE DEF S0
  <2>2. /\ T \in State /\ T.cfg = S0.cfg /\ T.evq = S0.evq /\ T.calls = S0.calls /\ T.ep = S0.ep
        /\ T.fsm = S0.fsm /\ T.upset = S0.upset /\ T.supp.st = "mute"
        /\ T.supp.link = S0.supp.link /\ T.supp.wps = S0.supp.wps
    BY <1>1 DEF State, Supps
  <2> HIDE DEF T
  <2>3. Base(T)
    BY <1>1, <1>2, <2>1, <2>2
    DEF Base, Kept, Answered, Guarded, Shown, Attentive, Searching, LinkNews, PairingNews, Up
  <2>4. Calm(T)
    BY <1>1, <1>2, <2>1, <2>2
    DEF Calm, Awaited, Retried, LossNews, Off, Ready, Able, InRestart, Up
  <2>5. QED  BY <2>1, <2>2, <2>3, <2>4 DEF Good
<1>9. CASE Moves
  BY <1>9 DEF Moves
<1>10. QED
  BY <1>3, <1>4, <1>5, <1>6, <1>7, <1>8, <1>9 DEF Supplicant

---------------------------------------------------------------------------
LEMMA InitInductive == Init => IInv
<1> SUFFICES ASSUME Init PROVE IInv
  OBVIOUS
<1>1. /\ cfg \in Cfgs /\ cfg.enable /\ cfg.rad
      /\ ep \in Eps /\ ep.status = "DISABLED" /\ ~ep.pairing /\ ~ep.delay
      /\ fsm \in Fsms /\ fsm.phase = "wait" /\ fsm.req
      /\ roam \in Roams
      /\ supp \in Supps /\ supp.st = "off" /\ supp.link = "none" /\ ~supp.wps
      /\ evq \in Seq(Events) /\ evq = <<>> /\ calls = 0 /\ calls \in Nat /\ upset \in Upsets
  <2>1. cfg \in Cfgs /\ cfg.enable /\ cfg.rad
    BY DEF Init, Cfgs
  <2>2. ep \in Eps /\ ep.status = "DISABLED" /\ ~ep.pairing /\ ~ep.delay
    BY DEF Init, Eps, Statuses
  <2>3. fsm \in Fsms /\ fsm.phase = "wait" /\ fsm.req
    BY DEF Init, Fsms, Phases
  <2>4. roam \in Roams
    BY ConstantsAssumption DEF Init, Roams, NoRoam
  <2>5. supp \in Supps /\ supp.st = "off" /\ supp.link = "none" /\ ~supp.wps
    BY DEF Init, Supps, Networks
  <2>6. evq \in Seq(Events) /\ evq = <<>> /\ calls = 0 /\ calls \in Nat /\ upset \in Upsets
    BY DEF Init, Upsets
  <2>7. QED  BY <2>1, <2>2, <2>3, <2>4, <2>5, <2>6
<1>2. S0 \in State
  BY <1>1 DEF S0, State
<1>3. Base(S0)
  BY <1>1 DEF S0, Base, Kept, Answered, Guarded, Shown, Attentive, Searching, LinkNews, PairingNews, Later
<1>4. Calm(S0)
  BY <1>1 DEF S0, Calm, Awaited, Retried, LossNews, Off, InRestart
<1>5. QED  BY <1>2, <1>3, <1>4 DEF IInv, Init

LEMMA NextInductive == IInv /\ [Next]_vars => IInv'
<1> SUFFICES ASSUME IInv, [Next]_vars PROVE IInv'
  OBVIOUS
<1>1. Good(S0) /\ reach \in SUBSET Bssids
  BY DEF IInv, Good
<1>2. CASE UNCHANGED vars
  BY <1>2 DEF vars, IInv, S0, Base, Kept, Answered, Guarded, Shown, Attentive, Searching, LinkNews,
              PairingNews, Calm, Awaited, Retried, LossNews, Off, InRestart, Ready, Able, Up
<1>3. ASSUME \E S : Good(S) /\ Become(S), reach' \in SUBSET Bssids PROVE IInv'
  BY <1>3, BecomeGood DEF IInv, Good
<1>4. CASE User
  BY <1>1, <1>3, <1>4, UserGood
  DEF User, Ask, SetEnable, EnableRadio, DeleteProfile, CancelPairing, SetProfile, PushButton, RoamTo
<1>5. CASE Pass
  BY <1>1, <1>3, <1>5, PassGood
  DEF Pass, Still, Dependency, StopWpaSupp, ConfWpaSupp, EnableEp, StartWpaSupp, Finish
<1>6. CASE ReadEvent \/ DelayedPush \/ SessionTimer \/ Reconnect \/ RoamTimer \/ Restart
  BY <1>1, <1>3, <1>6, TimerGood
  DEF Still, ReadEvent, DelayedPush, SessionTimer, Reconnect, RoamTimer, Restart
<1>7. CASE Supplicant
  BY <1>1, <1>3, <1>7, SupplicantGood
<1>8. QED  BY <1>2, <1>4, <1>5, <1>6, <1>7 DEF Next, Pwhm

(***************************************************************************)
(* The records of the end point keep their types: a deferred push button   *)
(* call is outstanding exactly while its timer runs, tiny roam makes no     *)
(* more attempts than asked for, and a requested GEN_FSM_ENABLE_EP is never *)
(* left to a machine that sleeps.                                          *)
(***************************************************************************)
THEOREM TypeCorrect == Spec => []TypeOK
<1>1. IInv => TypeOK
  <2> SUFFICES ASSUME IInv PROVE TypeOK
    OBVIOUS
  <2>1. /\ S0 \in State /\ Answered(S0) /\ Awaited(S0) /\ reach \in SUBSET Bssids
    BY DEF IInv, Base, Kept, Calm
  <2>2. QED  BY <2>1 DEF S0, State, Answered, Awaited, TypeOK, Cfgs, Eps, Fsms, Roams, Supps, Upsets
<1>2. QED  BY <1>1, InitInductive, NextInductive, PTL DEF Spec

(***************************************************************************)
(* A pairing session has its timer unless a cancellation that could not be  *)
(* sent took it (_cancelPairing), and the end point shows a pairing only     *)
(* while there is one, but for the ends that leave its status alone         *)
(* (s_pairingTimeoutHandler, bad credentials).                              *)
(***************************************************************************)
THEOREM PairingsTracked == Spec => []PairingTracked
<1>1. IInv => PairingTracked
  BY DEF IInv, Base, Kept, Guarded, Shown, PairingTracked, S0
<1>2. QED  BY <1>1, InitInductive, NextInductive, PTL DEF Spec

(***************************************************************************)
(* Outside of a restart of wpa_supplicant an end point that should be       *)
(* connected and is not has its reconnection timer running, what it shows   *)
(* of its link is true once the events are read, and no process outlives    *)
(* it but one that s_deamonStarter started again.                           *)
(***************************************************************************)
THEOREM ShowsTheTruth == Spec => []Steady
<1>1. IInv => Steady
  <2> SUFFICES ASSUME IInv PROVE Steady
    OBVIOUS
  <2>1. /\ S0.ep = ep /\ S0.fsm = fsm /\ S0.supp = supp /\ S0.evq = evq /\ S0.upset = upset
        /\ S0 \in State /\ Retried(S0) /\ LossNews(S0) /\ PairingNews(S0) /\ Off(S0) /\ Awaited(S0)
    BY DEF IInv, Base, Calm, S0
  <2> HIDE DEF S0
  <2>2. Retries
    BY <2>1 DEF Retries, Retried, Restarting, InRestart
  <2>3. evq = <<>> => ~Within(S0.evq, "CONNECTED") /\ ~Within(S0.evq, "DISCONNECTED")
    BY <2>1 DEF Within
  <2>4. ShowsLink
    BY <2>1, <2>2, <2>3 DEF ShowsLink, LossNews, PairingNews, Retries, Restarting, InRestart
  <2>5. OffWhenDisabled
    BY <2>1 DEF OffWhenDisabled, Off, Awaited
  <2>6. QED  BY <2>2, <2>4, <2>5 DEF Steady
<1>2. QED  BY <1>1, InitInductive, NextInductive, PTL DEF Spec

==============================================================================
