---------------------------- MODULE WpaCtrl_proofs ----------------------------
(***************************************************************************)
(* Proofs about the control sockets, for any access points and bounds.     *)
(***************************************************************************)
EXTENDS WpaCtrl, Iteration, TLAPS

(***************************************************************************)
(* The handlers work on a record of the state: so do the invariants here.  *)
(***************************************************************************)
Conns == {"closed", "half", "open", "dead"}
Sockets == [enable : BOOLEAN, ready : BOOLEAN, term : BOOLEAN, conn : Conns]
Cfgs == [rad : BOOLEAN, aps : SUBSET Nodes]
Fsms == [want : SUBSET Bits, commit : BOOLEAN, run : BOOLEAN, bits : SUBSET Bits]
Dmns == [up : BOOLEAN, timer : BOOLEAN, ended : BOOLEAN]
Srvs == [alive : BOOLEAN, bss : SUBSET Nodes, live : SUBSET Nodes, file : SUBSET Nodes,
         conf : SUBSET Nodes, newif : SUBSET Others]
Mgrs == [timer : BOOLEAN, tries : 0..MaxAttempts]
Rads == [up : BOOLEAN, told : BOOLEAN]
Upsets == SUBSET {"gaveup", "missed"}
State == [cfg : Cfgs, fsm : Fsms, dmn : Dmns, srv : Srvs, ifc : [Nodes -> Sockets],
          mgr : Mgrs, rad : Rads, lost : SUBSET Nodes, upset : Upsets]

\* The process, and what wld_daemon knows of it.
Process(S) ==
  /\ S.srv.live \subseteq S.srv.bss /\ (S.srv.bss # {} => S.srv.alive)
  /\ S.dmn.up <=> S.srv.alive \/ S.dmn.ended
  /\ ~(S.srv.alive /\ S.dmn.ended)
  /\ S.dmn.timer => ~S.dmn.up

\* Connections that are not known to be dead lead to sockets that are served, and
\* an interface that counts as ready is connected or has news to come.
Linked(S) == \A i \in Nodes : S.ifc[i].conn \in {"half", "open"} => i \in S.srv.live
Truthful(S) ==
  \A i \in Nodes : S.ifc[i].ready =>
    S.ifc[i].conn = "open" \/ (S.ifc[i].conn = "dead" /\ (S.ifc[i].term \/ S.dmn.ended))

\* While hostapd runs with no interface ready, somebody tries.
Trying(S) == S.srv.alive /\ Ready(S) = {} => S.mgr.timer \/ "gaveup" \in S.upset

Base(S) ==
  /\ S \in State /\ Main \in S.cfg.aps /\ Process(S) /\ Linked(S) /\ Truthful(S)
  /\ S.mgr.tries > 0 => S.mgr.timer
Good(S) == Base(S) /\ Trying(S)

IInv == Good(S0)

-----------------------------------------------------------------------------
(* One interface *)

LEMMA NodeFacts ==
  /\ Main \in Nodes /\ Others \subseteq Nodes /\ Len(Ifaces) \in Nat
  /\ \A k \in 1..Len(Ifaces) : Ifaces[k] \in Nodes
<1>1. Len(Ifaces) \in Nat /\ DOMAIN Ifaces = 1..Len(Ifaces) /\ Len(Ifaces) # 0
  BY ConstantsAssumption
<1>2. \A k \in 1..Len(Ifaces) : Ifaces[k] \in Nodes
  BY <1>1 DEF Nodes, Range
<1>3. QED
  BY <1>1, <1>2 DEF Main, Others

\* Another socket changes nothing but itself.
LEMMA SetSocket ==
  ASSUME NEW S \in State, NEW i \in Nodes, NEW c \in Sockets
  PROVE  LET T == [S EXCEPT !.ifc[i] = c] IN
         /\ T \in State /\ T.ifc[i] = c /\ \A j \in Nodes \ {i} : T.ifc[j] = S.ifc[j]
         /\ T.cfg = S.cfg /\ T.fsm = S.fsm /\ T.dmn = S.dmn /\ T.srv = S.srv /\ T.mgr = S.mgr
         /\ T.rad = S.rad /\ T.lost = S.lost /\ T.upset = S.upset
  BY DEF State

\* Only the sockets, and what is said of them, differ.
OnlySockets(S, T) ==
  /\ T.cfg = S.cfg /\ T.fsm = S.fsm /\ T.dmn = S.dmn /\ T.srv = S.srv /\ T.mgr = S.mgr
  /\ T.rad = S.rad /\ T.upset = S.upset

LEMMA OpenKeeps ==
  ASSUME NEW S, Good(S), NEW i \in Nodes, ~S.ifc[i].ready, NEW answers \in BOOLEAN
  PROVE  Good(Open(S, i, answers)) /\ OnlySockets(S, Open(S, i, answers))
<1> DEFINE conn == IF S.ifc[i].conn = "closed" /\ i \in S.srv.live THEN "half" ELSE S.ifc[i].conn
           linked == conn \in {"half", "open"} /\ answers
           c == [S.ifc[i] EXCEPT !.ready = linked, !.term = FALSE,
                                 !.conn = IF linked THEN "open" ELSE conn]
           U == [S EXCEPT !.ifc[i] = c]
           lost2 == IF linked THEN S.lost \ {i} ELSE S.lost
           T == [U EXCEPT !.lost = lost2]
<1>1. S \in State /\ S.ifc[i] \in Sockets
  BY DEF Good, Base, State
<1>2. CASE ~S.ifc[i].enable
  BY <1>2 DEF Open, OnlySockets
<1>3. CASE S.ifc[i].enable
  <2>1. c \in Sockets /\ c.ready = linked /\ c.conn = (IF linked THEN "open" ELSE conn)
    BY <1>1 DEF Sockets, Conns
  <2>2. conn \in {"half", "open"} => i \in S.srv.live
    BY DEF Good, Base, Linked
  <2>3. Open(S, i, answers) = T
    BY <1>1, <1>3 DEF Open, State
  <2>4. linked => conn \in {"half", "open"}
    OBVIOUS
  <2>5. lost2 \in SUBSET Nodes
    BY <1>1 DEF State
  <2> HIDE DEF c, linked, conn, lost2
  <2>6. /\ U \in State /\ U.ifc[i] = c /\ \A j \in Nodes \ {i} : U.ifc[j] = S.ifc[j]
        /\ U.cfg = S.cfg /\ U.fsm = S.fsm /\ U.dmn = S.dmn /\ U.srv = S.srv /\ U.mgr = S.mgr
        /\ U.rad = S.rad /\ U.upset = S.upset
    BY <1>1, <2>1, SetSocket
  <2> HIDE DEF U
  <2>7. T \in State /\ T.ifc = U.ifc /\ OnlySockets(S, T)
    BY <2>5, <2>6 DEF State, OnlySockets
  <2> HIDE DEF T
  <2>8. Linked(T) /\ Truthful(T)
    <3>1. SUFFICES ASSUME NEW j \in Nodes
                   PROVE  /\ T.ifc[j].conn \in {"half", "open"} => j \in T.srv.live
                          /\ T.ifc[j].ready =>
                               \/ T.ifc[j].conn = "open"
                               \/ T.ifc[j].conn = "dead" /\ (T.ifc[j].term \/ T.dmn.ended)
      BY DEF Linked, Truthful
    <3>2. CASE j = i
      BY <2>1, <2>2, <2>4, <2>6, <2>7, <3>2 DEF OnlySockets
    <3>3. CASE j # i
      BY <2>6, <2>7, <3>3 DEF OnlySockets, Good, Base, Linked, Truthful
    <3>4. QED
      BY <3>2, <3>3
  <2>9. Ready(S) \subseteq Ready(T)
    BY <2>6, <2>7 DEF Ready
  <2>10. Good(T)
    BY <2>7, <2>8, <2>9 DEF Good, Base, Process, Trying, OnlySockets
  <2>11. QED
    BY <2>3, <2>7, <2>10
<1>4. QED
  BY <1>2, <1>3

\* Whether a socket is wanted, and what is lost, matters to neither part.
LEMMA WantedKeeps ==
  ASSUME NEW S, Good(S), NEW f \in [Nodes -> BOOLEAN], NEW lost2 \in SUBSET Nodes
  PROVE  LET T == [S EXCEPT !.ifc = [i \in Nodes |-> [S.ifc[i] EXCEPT !.enable = f[i]]],
                            !.lost = lost2]
         IN  Good(T) /\ OnlySockets(S, T) /\ Ready(T) = Ready(S)
<1> DEFINE g == [i \in Nodes |-> [S.ifc[i] EXCEPT !.enable = f[i]]]
           T == [S EXCEPT !.ifc = g, !.lost = lost2]
<1>1. S \in State /\ S.ifc \in [Nodes -> Sockets]
  BY DEF Good, Base, State
<1>2. g \in [Nodes -> Sockets]
  BY <1>1 DEF Sockets
<1>3. \A i \in Nodes : g[i].ready = S.ifc[i].ready /\ g[i].conn = S.ifc[i].conn /\ g[i].term = S.ifc[i].term
  BY <1>1 DEF Sockets
<1> HIDE DEF g
<1>4. T \in State /\ OnlySockets(S, T) /\ T.ifc = g
  BY <1>1, <1>2 DEF State, OnlySockets
<1> HIDE DEF T
<1>5. Ready(T) = Ready(S)
  BY <1>3, <1>4 DEF Ready
<1>6. Linked(T) /\ Truthful(T)
  BY <1>3, <1>4 DEF Good, Base, Linked, Truthful, OnlySockets
<1>7. Good(T)
  BY <1>4, <1>5, <1>6 DEF Good, Base, Process, Trying, OnlySockets
<1>8. QED
  BY <1>4, <1>5, <1>7 DEF T, g

-----------------------------------------------------------------------------
(* The manager *)

LEMMA CheckIfaceKeeps ==
  ASSUME NEW S, Good(S), NEW i \in Nodes, NEW mute
  PROVE  Good(CheckIface(S, i, mute)) /\ OnlySockets(S, CheckIface(S, i, mute))
<1> DEFINE f == [j \in Nodes |-> IF j = i THEN TRUE ELSE S.ifc[j].enable]
           A == [S EXCEPT !.ifc = [j \in Nodes |-> [S.ifc[j] EXCEPT !.enable = f[j]]], !.lost = S.lost]
           T == Open(A, i, i \notin mute)
           U == [T EXCEPT !.ifc[i].enable = S.ifc[i].enable]
           h == [j \in Nodes |-> IF j = i THEN S.ifc[i].enable ELSE T.ifc[j].enable]
           B == [T EXCEPT !.ifc = [j \in Nodes |-> [T.ifc[j] EXCEPT !.enable = h[j]]], !.lost = T.lost]
<1>1. S \in State /\ S.ifc \in [Nodes -> Sockets] /\ S.lost \in SUBSET Nodes
  BY DEF Good, Base, State
<1>2. CASE S.ifc[i].ready
  BY <1>2 DEF CheckIface, OnlySockets
<1>3. CASE ~S.ifc[i].ready
  <2>1. f \in [Nodes -> BOOLEAN]
    BY <1>1 DEF Sockets
  <2>2. A = [S EXCEPT !.ifc[i].enable = TRUE]
    <3>1. [j \in Nodes |-> [S.ifc[j] EXCEPT !.enable = f[j]]] = [S.ifc EXCEPT ![i].enable = TRUE]
      BY <1>1 DEF Sockets
    <3>2. QED
      BY <1>1, <3>1 DEF State
  <2> HIDE DEF f
  <2>3. Good(A) /\ OnlySockets(S, A) /\ Ready(A) = Ready(S)
    BY <1>1, <2>1, WantedKeeps
  <2>4. A.ifc[i].ready = S.ifc[i].ready
    BY <1>1, <2>2 DEF State, Sockets
  <2> HIDE DEF A
  <2>5. Good(T) /\ OnlySockets(A, T)
    <3> DEFINE ok == i \notin mute
    <3>1. ok \in BOOLEAN
      OBVIOUS
    <3> HIDE DEF ok
    <3>2. Good(Open(A, i, ok)) /\ OnlySockets(A, Open(A, i, ok))
      BY <1>3, <2>3, <2>4, <3>1, OpenKeeps
    <3>3. QED
      BY <3>2 DEF ok
  <2> HIDE DEF T
  <2>6. T \in State /\ T.ifc \in [Nodes -> Sockets] /\ T.lost \in SUBSET Nodes
    BY <2>5 DEF Good, Base, State
  <2>7. h \in [Nodes -> BOOLEAN]
    BY <1>1, <2>6 DEF Sockets
  <2>8. B = U
    <3>1. [j \in Nodes |-> [T.ifc[j] EXCEPT !.enable = h[j]]]
            = [T.ifc EXCEPT ![i].enable = S.ifc[i].enable]
      BY <2>6 DEF Sockets
    <3>2. QED
      BY <2>6, <3>1 DEF State
  <2> HIDE DEF h
  <2>9. Good(B) /\ OnlySockets(T, B)
    BY <2>5, <2>6, <2>7, WantedKeeps
  <2>10. CheckIface(S, i, mute) \in {S, T, U}
    BY <2>2 DEF CheckIface, T
  <2> HIDE DEF B, U
  <2>11. QED
    BY <2>3, <2>5, <2>8, <2>9, <2>10 DEF OnlySockets
<1>4. QED
  BY <1>2, <1>3

LEMMA CheckAllKeeps ==
  ASSUME NEW S, Good(S), NEW mute
  PROVE  Good(CheckAllIfaces(S, mute)) /\ OnlySockets(S, CheckAllIfaces(S, mute))
<1> DEFINE V == {T \in State : Good(T) /\ OnlySockets(S, T)}
           n == Len(Ifaces)
           F(g) == [k \in 0..n |-> IF k = 0 THEN S ELSE CheckIface(g[k - 1], Ifaces[k], mute)]
           after == CHOOSE g : g = F(g)
           h == [p \in V \X (1..n) |-> CheckIface(p[1], Ifaces[p[2]], mute)]
<1>1. n \in Nat /\ \A k \in 1..n : Ifaces[k] \in Nodes
  BY NodeFacts
<1>2. S \in V
  BY DEF Good, Base, OnlySockets
<1>3. ASSUME NEW T \in V, NEW i \in Nodes
      PROVE  CheckIface(T, i, mute) \in V
  <2>1. Good(CheckIface(T, i, mute)) /\ OnlySockets(T, CheckIface(T, i, mute))
    BY CheckIfaceKeeps
  <2>2. QED
    BY <2>1 DEF OnlySockets, Good, Base
<1> HIDE DEF V
<1>4. h \in [V \X (1..n) -> V]
  BY <1>1, <1>3
<1>5. \A T \in V, k \in 1..n : h[<<T, k>>] = CheckIface(T, Ifaces[k], mute)
  OBVIOUS
<1> HIDE DEF h, n
<1>6. PICK f : IsRun(f, V, n, S, h)
  BY <1>1, <1>2, <1>4, Steps
<1>7. f = F(f)
  <2>1. \A k \in 1..n : k - 1 \in 0..n
    BY <1>1
  <2>2. \A k \in 1..n : f[k] = CheckIface(f[k - 1], Ifaces[k], mute)
    BY <1>5, <1>6, <2>1 DEF IsRun
  <2>3. \A k \in 0..n : f[k] = IF k = 0 THEN S ELSE CheckIface(f[k - 1], Ifaces[k], mute)
    BY <1>1, <1>6, <2>2 DEF IsRun
  <2>4. QED
    BY <1>6, <2>3 DEF IsRun
<1>8. after = F(after)
  BY <1>7, Zenon
<1> HIDE DEF after
<1> DEFINE In == {k \in 0..n : after[k] \in V}
<1>9. 0 \in In
  <2>1. 0 \in 0..n
    BY <1>1
  <2>2. QED
    BY <1>2, <1>8, <2>1
<1>10. ASSUME NEW k \in 1..n, k - 1 \in In PROVE k \in In
  <2>1. k \in 0..n /\ k # 0
    BY <1>1
  <2>2. after[k] = CheckIface(after[k - 1], Ifaces[k], mute)
    BY <1>8, <2>1
  <2>3. QED
    BY <1>1, <1>3, <1>10, <2>1, <2>2
<1>11. n \in In
  <2> HIDE DEF In
  <2>1. n \in 0..n
    BY <1>1
  <2>2. QED
    BY <1>1, <1>9, <1>10, <2>1, UpTo
<1>12. CheckAllIfaces(S, mute) = after[n]
  BY Zenon DEF CheckAllIfaces, after, n
<1>13. QED
  BY <1>11, <1>12 DEF V

\* What tells the machine of the radio something, and no more.
LEMMA TellKeeps ==
  ASSUME NEW S, Good(S), NEW fsm2 \in Fsms, NEW rad2 \in Rads, NEW upset2 \in Upsets,
         "gaveup" \in upset2 \/ Ready(S) # {} \/ S.upset \subseteq upset2
  PROVE  LET T == [S EXCEPT !.fsm = fsm2, !.rad = rad2, !.upset = upset2] IN
         /\ Good(T) /\ T.mgr = S.mgr /\ T.dmn = S.dmn /\ T.srv = S.srv /\ T.ifc = S.ifc /\ T.cfg = S.cfg
<1> DEFINE T == [S EXCEPT !.fsm = fsm2, !.rad = rad2, !.upset = upset2]
<1>1. S \in State
  BY DEF Good, Base
<1>2. /\ T \in State /\ T.mgr = S.mgr /\ T.dmn = S.dmn /\ T.srv = S.srv /\ T.ifc = S.ifc
      /\ T.cfg = S.cfg /\ T.upset = upset2
  BY <1>1 DEF State
<1> HIDE DEF T
<1>3. Good(T)
  BY <1>2 DEF Good, Base, Process, Linked, Truthful, Trying, Ready
<1>4. QED
  BY <1>2, <1>3 DEF T

LEMMA SyncOnRadUpKeeps ==
  ASSUME NEW S, Good(S), Ready(S) # {}
  PROVE  Good(SyncOnRadUp(S)) /\ SyncOnRadUp(S).mgr = S.mgr
<1> DEFINE U == SyncOnRadUp(S)
           rad2 == [up |-> TRUE, told |-> TRUE]
           upset2 == S.upset \ {"gaveup"}
           f1 == [S.fsm EXCEPT !.commit = TRUE]
           f2 == [S.fsm EXCEPT !.bits = @ \cup {"SYNC"}]
           f3 == [S.fsm EXCEPT !.want = @ \cup {"SYNC"}, !.commit = TRUE]
<1>1. S \in State /\ S.fsm \in Fsms /\ S.upset \in Upsets
  BY DEF Good, Base, State
<1>2. rad2 \in Rads /\ upset2 \in Upsets
  BY <1>1 DEF Rads, Upsets
<1>3. f1 \in Fsms /\ f2 \in Fsms /\ f3 \in Fsms
  BY <1>1 DEF Fsms, Bits
<1>4. \E g \in {f1, f2, f3} : U = [S EXCEPT !.fsm = g, !.rad = rad2, !.upset = upset2]
  BY <1>1 DEF SyncOnRadUp, Commit, State, Startable, Fsms
<1> HIDE DEF f1, f2, f3, U, rad2, upset2
<1>5. PICK g \in Fsms : U = [S EXCEPT !.fsm = g, !.rad = rad2, !.upset = upset2]
  BY <1>3, <1>4
<1>6. Good(U) /\ U.mgr = S.mgr
  BY <1>2, <1>5, TellKeeps, ZenonT(60)
<1>7. QED
  BY <1>6 DEF U

LEMMA NewIfaceKeeps ==
  ASSUME NEW S, Good(S), NEW i \in Nodes, NEW mute
  PROVE  Good(NewIface(S, i, mute))
<1> DEFINE T == CheckAllIfaces(S, mute)
           lost2 == IF T.ifc[i].ready \/ T.mgr.timer THEN T.lost ELSE T.lost \cup {i}
           f == [j \in Nodes |-> T.ifc[j].enable]
           U == [T EXCEPT !.lost = lost2]
           W == [T EXCEPT !.ifc = [j \in Nodes |-> [T.ifc[j] EXCEPT !.enable = f[j]]], !.lost = lost2]
<1>1. Good(T)
  BY CheckAllKeeps
<1> HIDE DEF T
<1>2. T \in State /\ T.ifc \in [Nodes -> Sockets] /\ T.lost \in SUBSET Nodes
  BY <1>1 DEF Good, Base, State
<1>3. f \in [Nodes -> BOOLEAN] /\ lost2 \in SUBSET Nodes
  BY <1>2 DEF Sockets
<1>4. W = U
  <2>1. [j \in Nodes |-> [T.ifc[j] EXCEPT !.enable = f[j]]] = T.ifc
    BY <1>2 DEF Sockets
  <2>2. QED
    BY <1>2, <2>1 DEF State
<1>5. NewIface(S, i, mute) = IF AllReady(U) /\ ~U.rad.up THEN SyncOnRadUp(U) ELSE U
  <2>1. U = [T EXCEPT !.lost = IF T.ifc[i].ready \/ T.mgr.timer THEN @ ELSE @ \cup {i}]
    BY <1>2 DEF State
  <2>2. QED
    BY <2>1 DEF NewIface, T
<1> HIDE DEF f, lost2
<1>6. Good(W)
  BY <1>1, <1>3, WantedKeeps
<1> HIDE DEF U, W
<1>7. QED
  BY <1>4, <1>5, <1>6, SyncOnRadUpKeeps DEF AllReady

LEMMA RefreshIfaceKeeps ==
  ASSUME NEW S, Good(S), NEW i \in Nodes, NEW mute
  PROVE  Good(RefreshIface(S, i, mute))
<1> DEFINE T == IF i \in S.srv.newif THEN NewIface(S, i, mute) ELSE S
           ok == i \notin mute
<1>1. Good(T)
  BY NewIfaceKeeps
<1>2. ok \in BOOLEAN
  OBVIOUS
<1>3. RefreshIface(S, i, mute) =
        IF i \in S.srv.bss /\ S.dmn.up /\ i \in Need(S) /\ ~T.ifc[i].ready THEN Open(T, i, ok) ELSE T
  BY DEF RefreshIface
<1> HIDE DEF T, ok
<1>4. QED
  BY <1>1, <1>2, <1>3, OpenKeeps

LEMMA RefreshAllKeeps ==
  ASSUME NEW S, Good(S), NEW mute
  PROVE  Good(RefreshAll(S, mute))
<1> DEFINE V == {T \in State : Good(T)}
           n == Len(Ifaces)
           F(g) == [k \in 0..n |-> IF k = 0 THEN S ELSE RefreshIface(g[k - 1], Ifaces[k], mute)]
           after == CHOOSE g : g = F(g)
           h == [p \in V \X (1..n) |-> RefreshIface(p[1], Ifaces[p[2]], mute)]
<1>1. n \in Nat /\ \A k \in 1..n : Ifaces[k] \in Nodes
  BY NodeFacts
<1>2. S \in V
  BY DEF Good, Base
<1>3. ASSUME NEW T \in V, NEW i \in Nodes
      PROVE  RefreshIface(T, i, mute) \in V
  <2>1. Good(RefreshIface(T, i, mute))
    BY RefreshIfaceKeeps
  <2>2. QED
    BY <2>1 DEF Good, Base
<1> HIDE DEF V
<1>4. h \in [V \X (1..n) -> V]
  BY <1>1, <1>3
<1>5. \A T \in V, k \in 1..n : h[<<T, k>>] = RefreshIface(T, Ifaces[k], mute)
  OBVIOUS
<1> HIDE DEF h, n
<1>6. PICK f : IsRun(f, V, n, S, h)
  BY <1>1, <1>2, <1>4, Steps
<1>7. f = F(f)
  <2>1. \A k \in 1..n : k - 1 \in 0..n
    BY <1>1
  <2>2. \A k \in 1..n : f[k] = RefreshIface(f[k - 1], Ifaces[k], mute)
    BY <1>5, <1>6, <2>1 DEF IsRun
  <2>3. \A k \in 0..n : f[k] = IF k = 0 THEN S ELSE RefreshIface(f[k - 1], Ifaces[k], mute)
    BY <1>1, <1>6, <2>2 DEF IsRun
  <2>4. QED
    BY <1>6, <2>3 DEF IsRun
<1>8. after = F(after)
  BY <1>7, Zenon
<1> HIDE DEF after
<1> DEFINE In == {k \in 0..n : after[k] \in V}
<1>9. 0 \in In
  <2>1. 0 \in 0..n
    BY <1>1
  <2>2. QED
    BY <1>2, <1>8, <2>1
<1>10. ASSUME NEW k \in 1..n, k - 1 \in In PROVE k \in In
  <2>1. k \in 0..n /\ k # 0
    BY <1>1
  <2>2. after[k] = RefreshIface(after[k - 1], Ifaces[k], mute)
    BY <1>8, <2>1
  <2>3. QED
    BY <1>1, <1>3, <1>10, <2>1, <2>2
<1>11. n \in In
  <2> HIDE DEF In
  <2>1. n \in 0..n
    BY <1>1
  <2>2. QED
    BY <1>1, <1>9, <1>10, <2>1, UpTo
<1>12. RefreshAll(S, mute) = after[n]
  BY Zenon DEF RefreshAll, after, n
<1>13. QED
  BY <1>11, <1>12 DEF V

\* Whoever connects sees to it that somebody tries.
LEMMA ConnectGood ==
  ASSUME NEW S, Base(S), S.srv.alive => S.dmn.up
  PROVE  Good(Connect(S))
<1>1. S \in State /\ S.mgr \in Mgrs /\ S.upset \in Upsets
  BY DEF Base, State
<1>2. CASE Connected(S)
  BY <1>2 DEF Connect, Connected, Good, Trying
<1>3. CASE ~Connected(S)
  <2> DEFINE m == [S.mgr EXCEPT !.timer = TRUE]
             u == S.upset \ {"gaveup"}
             T == [S EXCEPT !.mgr = m, !.upset = u]
  <2>1. m \in Mgrs /\ m.timer /\ u \in Upsets
    BY <1>1 DEF Mgrs, Upsets
  <2>2. Connect(S) = T
    BY <1>1, <1>3 DEF Connect, State
  <2> HIDE DEF m, u
  <2>3. /\ T \in State /\ T.mgr.timer /\ T.srv = S.srv /\ T.dmn = S.dmn /\ T.ifc = S.ifc
        /\ T.cfg = S.cfg
    BY <1>1, <2>1 DEF State
  <2> HIDE DEF T
  <2>4. Good(T)
    BY <2>3 DEF Good, Base, Process, Linked, Truthful, Trying
  <2>5. QED
    BY <2>2, <2>4
<1>4. QED
  BY <1>2, <1>3

LEMMA CloseKeeps ==
  ASSUME NEW S, Base(S), NEW i \in Nodes
  PROVE  LET T == Close(S, i) IN
         /\ Base(T) /\ Ready(T) = Ready(S) \ {i} /\ T.mgr = S.mgr /\ T.dmn = S.dmn /\ T.srv = S.srv
         /\ T.upset = S.upset /\ T.lost = S.lost /\ T.cfg = S.cfg
<1> DEFINE c == [S.ifc[i] EXCEPT !.ready = FALSE, !.conn = "closed", !.term = FALSE]
           T == [S EXCEPT !.ifc[i] = c]
<1>1. S \in State /\ S.ifc \in [Nodes -> Sockets]
  BY DEF Base, State
<1>2. c \in Sockets /\ ~c.ready /\ c.conn = "closed"
  BY <1>1 DEF Sockets, Conns
<1>3. Close(S, i) = T
  BY <1>1 DEF Close, State
<1> HIDE DEF c
<1>4. /\ T \in State /\ T.ifc[i] = c /\ \A j \in Nodes \ {i} : T.ifc[j] = S.ifc[j]
      /\ T.cfg = S.cfg /\ T.fsm = S.fsm /\ T.dmn = S.dmn /\ T.srv = S.srv /\ T.mgr = S.mgr
      /\ T.rad = S.rad /\ T.lost = S.lost /\ T.upset = S.upset
  BY <1>1, <1>2, SetSocket
<1> HIDE DEF T
<1>5. Ready(T) = Ready(S) \ {i}
  BY <1>2, <1>4 DEF Ready
<1>6. Linked(T) /\ Truthful(T)
  <2>1. \A j \in Nodes : j = i \/ T.ifc[j] = S.ifc[j]
    BY <1>4
  <2>2. QED
    BY <1>2, <1>4, <2>1 DEF Base, Linked, Truthful
<1>7. Base(T)
  BY <1>4, <1>6 DEF Base, Process
<1>8. QED
  BY <1>3, <1>4, <1>5, <1>7

\* The lost ones are history.
LEMMA LostKeeps ==
  ASSUME NEW S, Good(S), NEW lost2 \in SUBSET Nodes
  PROVE  Good([S EXCEPT !.lost = lost2])
<1> DEFINE T == [S EXCEPT !.lost = lost2]
<1>1. S \in State
  BY DEF Good, Base
<1>2. T \in State /\ OnlySockets(S, T) /\ T.ifc = S.ifc
  BY <1>1 DEF State, OnlySockets
<1> HIDE DEF T
<1>3. Good(T)
  BY <1>2 DEF Good, Base, Process, Linked, Truthful, Trying, Ready, OnlySockets
<1>4. QED
  BY <1>3 DEF T

LEMMA TerminatedKeeps ==
  ASSUME NEW S, Good(S), NEW i \in Nodes
  PROVE  Good(Terminated(S, i))
<1> DEFINE T == Close(S, i)
           lost2 == IF i \in T.srv.newif \/ T.mgr.timer THEN T.lost ELSE T.lost \cup {i}
<1>1. /\ Base(T) /\ Ready(T) = Ready(S) \ {i} /\ T.mgr = S.mgr /\ T.dmn = S.dmn /\ T.srv = S.srv
      /\ T.upset = S.upset
  BY CloseKeeps DEF Good
<1>2. T.srv.alive => T.dmn.up
  BY <1>1 DEF Base, Process
<1>3. Terminated(S, i) = IF Ready(S) = {i} THEN IF S.dmn.up THEN Connect(T) ELSE T
                         ELSE [T EXCEPT !.lost = lost2]
  <2>1. [T EXCEPT !.lost = lost2]
          = [T EXCEPT !.lost = IF i \in T.srv.newif \/ T.mgr.timer THEN @ ELSE @ \cup {i}]
    BY <1>1 DEF Base, State
  <2>2. QED
    BY <2>1 DEF Terminated
<1>4. lost2 \in SUBSET Nodes
  BY <1>1 DEF Base, State
<1> HIDE DEF T, lost2
<1>5. CASE Ready(S) = {i}
  <2>1. ~S.dmn.up => Good(T)
    BY <1>1, <1>2 DEF Good, Trying
  <2>2. S.dmn.up => Good(Connect(T))
    BY <1>1, <1>2, ConnectGood
  <2>3. QED
    BY <1>3, <1>5, <2>1, <2>2
<1>6. CASE Ready(S) # {i}
  <2>1. Ready(T) = {} => Ready(S) = {}
    BY <1>1, <1>6
  <2>2. Good(T)
    BY <1>1, <2>1 DEF Good, Trying
  <2>3. QED
    BY <1>3, <1>4, <1>6, <2>2, LostKeeps
<1>7. QED
  BY <1>5, <1>6

-----------------------------------------------------------------------------
(* The process *)

\* What differs matters to no part: files, what is wanted, what is lost, what is to be done.
Alike(S, T) ==
  /\ T \in State /\ T.cfg.aps = S.cfg.aps /\ T.dmn = S.dmn /\ T.mgr = S.mgr
  /\ S.upset \subseteq T.upset
  /\ T.srv.alive = S.srv.alive /\ T.srv.bss = S.srv.bss /\ T.srv.live = S.srv.live
  /\ \A i \in Nodes : /\ T.ifc[i].conn = S.ifc[i].conn /\ T.ifc[i].ready = S.ifc[i].ready
                      /\ T.ifc[i].term = S.ifc[i].term

LEMMA AlikeKeeps ==
  ASSUME NEW S, NEW T, Alike(S, T)
  PROVE  /\ Base(S) => Base(T)
         /\ Good(S) => Good(T)
         /\ Ready(T) = Ready(S)
<1>1. Ready(T) = Ready(S)
  BY DEF Ready, Alike
<1>2. Linked(S) => Linked(T)
  BY DEF Linked, Alike
<1>3. Truthful(S) => Truthful(T)
  BY DEF Truthful, Alike
<1>4. Process(S) => Process(T)
  BY DEF Process, Alike
<1>5. Base(S) => Base(T)
  BY <1>2, <1>3, <1>4 DEF Base, Alike
<1>6. Trying(S) => Trying(T)
  BY <1>1 DEF Trying, Alike
<1>7. QED
  BY <1>1, <1>5, <1>6 DEF Good

LEMMA WriteConfAlike ==
  ASSUME NEW S \in State
  PROVE  Alike(S, WriteConf(S)) /\ WriteConf(S).ifc = S.ifc /\ WriteConf(S).rad = S.rad
         /\ WriteConf(S).cfg = S.cfg /\ WriteConf(S).upset = S.upset
<1> DEFINE s == [S.srv EXCEPT !.conf = Need(S)]
           T == [S EXCEPT !.srv = s]
<1>1. S.srv \in Srvs /\ Need(S) \in SUBSET Nodes
  BY NodeFacts DEF State, Cfgs, Need
<1>2. s \in Srvs /\ s.alive = S.srv.alive /\ s.bss = S.srv.bss /\ s.live = S.srv.live
  BY <1>1 DEF Srvs
<1>3. WriteConf(S) = T
  BY DEF WriteConf, State
<1> HIDE DEF s
<1>4. T \in State /\ T.srv = s /\ T.ifc = S.ifc /\ T.rad = S.rad /\ T.cfg = S.cfg
      /\ T.dmn = S.dmn /\ T.mgr = S.mgr /\ T.upset = S.upset
  BY <1>2 DEF State
<1> HIDE DEF T
<1>5. QED
  BY <1>2, <1>3, <1>4 DEF Alike

LEMMA RestoreMainAlike ==
  ASSUME NEW S \in State
  PROVE  Alike(S, RestoreMain(S)) /\ RestoreMain(S).rad = S.rad /\ RestoreMain(S).cfg = S.cfg
         /\ RestoreMain(S).upset = S.upset
<1> DEFINE W == WriteConf(S)
           c == [W.ifc[Main] EXCEPT !.enable = TRUE]
           T == [W EXCEPT !.ifc[Main] = c]
<1>1. Alike(S, W) /\ W.ifc = S.ifc /\ W.rad = S.rad /\ W.cfg = S.cfg /\ W.upset = S.upset
  BY WriteConfAlike
<1> HIDE DEF W
<1>2. W \in State /\ W.ifc[Main] \in Sockets /\ Main \in Nodes
  BY <1>1, NodeFacts DEF Alike, State
<1>3. c \in Sockets /\ c.conn = W.ifc[Main].conn /\ c.ready = W.ifc[Main].ready /\ c.term = W.ifc[Main].term
  BY <1>2 DEF Sockets
<1>4. RestoreMain(S) = T
  BY <1>2 DEF RestoreMain, W, State
<1> HIDE DEF c
<1>5. /\ T \in State /\ T.ifc[Main] = c /\ \A j \in Nodes \ {Main} : T.ifc[j] = W.ifc[j]
      /\ T.cfg = W.cfg /\ T.dmn = W.dmn /\ T.srv = W.srv /\ T.mgr = W.mgr /\ T.rad = W.rad
      /\ T.upset = W.upset
  BY <1>2, <1>3, SetSocket
<1> HIDE DEF T
<1>6. \A i \in Nodes : /\ T.ifc[i].conn = S.ifc[i].conn /\ T.ifc[i].ready = S.ifc[i].ready
                       /\ T.ifc[i].term = S.ifc[i].term
  <2>1. \A i \in Nodes : i = Main \/ T.ifc[i] = W.ifc[i]
    BY <1>5
  <2>2. QED
    BY <1>1, <1>3, <1>5, <2>1
<1>7. QED
  BY <1>1, <1>4, <1>5, <1>6 DEF Alike

LEMMA EnableIfacesAlike ==
  ASSUME NEW S \in State
  PROVE  Alike(S, EnableIfaces(S))
<1> DEFINE g == [i \in Nodes |-> [S.ifc[i] EXCEPT !.enable = i \in Need(S)]]
           T == [S EXCEPT !.ifc = g]
<1>1. S.ifc \in [Nodes -> Sockets]
  BY DEF State
<1>2. ASSUME NEW i \in Nodes
      PROVE  /\ g[i] \in Sockets /\ g[i].ready = S.ifc[i].ready
             /\ g[i].conn = S.ifc[i].conn /\ g[i].term = S.ifc[i].term
  <2> DEFINE b == i \in Need(S)
  <2>1. b \in BOOLEAN
    OBVIOUS
  <2>2. g[i] = [S.ifc[i] EXCEPT !.enable = b]
    OBVIOUS
  <2> HIDE DEF b, g
  <2>3. QED
    BY <1>1, <2>1, <2>2 DEF Sockets
<1>3. g \in [Nodes -> Sockets]
  BY <1>2
<1>4. EnableIfaces(S) = T
  BY DEF EnableIfaces, State
<1> HIDE DEF g
<1>5. T \in State /\ T.ifc = g /\ T.cfg = S.cfg /\ T.dmn = S.dmn /\ T.mgr = S.mgr
      /\ T.upset = S.upset /\ T.srv = S.srv
  BY <1>3 DEF State
<1> HIDE DEF T
<1>6. QED
  BY <1>2, <1>4, <1>5 DEF Alike

AllClosed(S) == \A i \in Nodes : S.ifc[i].conn = "closed" /\ ~S.ifc[i].ready

LEMMA DisconnectEffect ==
  ASSUME NEW S \in State
  PROVE  LET T == Disconnect(S) IN
         /\ T \in State /\ AllClosed(T) /\ T.mgr = [timer |-> FALSE, tries |-> 0]
         /\ T.cfg = S.cfg /\ T.dmn = S.dmn /\ T.srv = S.srv /\ T.rad = S.rad /\ T.upset = S.upset
<1> DEFINE g == [i \in Nodes |-> Close(S, i).ifc[i]]
           m == [timer |-> FALSE, tries |-> 0]
           T == [S EXCEPT !.ifc = g, !.mgr = m]
<1>1. S.ifc \in [Nodes -> Sockets]
  BY DEF State
<1>2. ASSUME NEW i \in Nodes
      PROVE  g[i] \in Sockets /\ g[i].conn = "closed" /\ ~g[i].ready
  <2>1. Close(S, i).ifc[i] = [S.ifc[i] EXCEPT !.ready = FALSE, !.conn = "closed", !.term = FALSE]
    BY <1>1 DEF Close, State
  <2>2. g[i] = Close(S, i).ifc[i]
    OBVIOUS
  <2> HIDE DEF g
  <2>3. S.ifc[i] \in Sockets
    BY <1>1
  <2>4. QED
    BY <2>1, <2>2, <2>3 DEF Sockets, Conns
<1>3. g \in [Nodes -> Sockets]
  BY <1>2
<1>4. m \in Mgrs
  BY ConstantsAssumption DEF Mgrs
<1>5. Disconnect(S) = T
  BY DEF Disconnect, State
<1> HIDE DEF g, m
<1>6. /\ T \in State /\ T.ifc = g /\ T.mgr = m
      /\ T.cfg = S.cfg /\ T.dmn = S.dmn /\ T.srv = S.srv /\ T.rad = S.rad /\ T.upset = S.upset
  BY <1>3, <1>4 DEF State
<1> HIDE DEF T
<1>7. AllClosed(T)
  BY <1>2, <1>6 DEF AllClosed
<1>8. QED
  BY <1>5, <1>6, <1>7 DEF m

\* All connections closed leave nothing to be wrong about.
LEMMA ClosedBase ==
  ASSUME NEW S \in State, AllClosed(S), Main \in S.cfg.aps, Process(S),
         S.mgr.tries > 0 => S.mgr.timer
  PROVE  Base(S)
  BY DEF AllClosed, Base, Linked, Truthful

LEMMA ForkGood ==
  ASSUME NEW S, Base(S), ~S.dmn.up
  PROVE  Good(Fork(S)) /\ Fork(S).cfg = S.cfg
<1> DEFINE d == [up |-> TRUE, timer |-> FALSE, ended |-> FALSE]
           s == [S.srv EXCEPT !.alive = TRUE, !.bss = S.srv.conf, !.live = {},
                              !.newif = S.srv.conf \ {Main}]
           r == [S.rad EXCEPT !.told = FALSE]
           T == [S EXCEPT !.dmn = d, !.srv = s, !.rad = r, !.lost = {}]
<1>1. S \in State /\ S.srv \in Srvs /\ S.rad \in Rads
  BY DEF Base, State
<1>2. d \in Dmns /\ r \in Rads
  BY <1>1 DEF Dmns, Rads
<1>3. s \in Srvs /\ s.alive /\ s.bss = S.srv.conf /\ s.live = {}
  BY <1>1, NodeFacts DEF Srvs, Others
<1>4. Fork(S) = Connect(T)
  BY <1>1 DEF Fork, State
<1> HIDE DEF s, r
<1>5. /\ T \in State /\ T.dmn = d /\ T.srv = s /\ T.ifc = S.ifc /\ T.mgr = S.mgr /\ T.cfg = S.cfg
  BY <1>1, <1>2, <1>3 DEF State
<1> HIDE DEF T
<1>6. \A i \in Nodes : i \notin S.srv.live
  BY DEF Base, Process
<1>7. Base(T)
  BY <1>3, <1>5, <1>6 DEF Base, Process, Linked, Truthful
<1>8. T.dmn.up
  BY <1>5
<1>9. Connect(T).cfg = T.cfg
  BY <1>5 DEF Connect, State
<1>10. QED
  BY <1>4, <1>5, <1>7, <1>8, <1>9, ConnectGood

\* The process goes, or some of its sockets do.
Dropped(S, T, gone, told) ==
  /\ T \in State /\ T.srv = [S.srv EXCEPT !.live = @ \ gone]
  /\ T.cfg = S.cfg /\ T.fsm = S.fsm /\ T.dmn = S.dmn /\ T.mgr = S.mgr /\ T.rad = S.rad
  /\ T.upset = S.upset /\ T.lost = S.lost /\ Ready(T) = Ready(S)
  /\ \A i \in Nodes :
       IF i \notin gone \/ S.ifc[i].conn = "closed" THEN T.ifc[i] = S.ifc[i]
       ELSE /\ T.ifc[i].conn = "dead" /\ T.ifc[i].ready = S.ifc[i].ready
            /\ T.ifc[i].term <=> S.ifc[i].term \/ (told /\ S.ifc[i].conn = "open")

LEMMA DropEffect ==
  ASSUME NEW S \in State, NEW gone \in SUBSET Nodes, NEW told \in BOOLEAN
  PROVE  Dropped(S, Drop(S, gone, told), gone, told)
<1> DEFINE t(i) == S.ifc[i].term \/ (told /\ S.ifc[i].conn = "open")
           g == [i \in Nodes |-> IF i \notin gone \/ S.ifc[i].conn = "closed" THEN S.ifc[i]
                                 ELSE [S.ifc[i] EXCEPT !.conn = "dead", !.term = t(i)]]
           s == [S.srv EXCEPT !.live = S.srv.live \ gone]
           T == [S EXCEPT !.srv = s, !.ifc = g]
<1>1. S.ifc \in [Nodes -> Sockets] /\ S.srv \in Srvs
  BY DEF State
<1>2. \A i \in Nodes : t(i) \in BOOLEAN
  BY <1>1 DEF Sockets
<1>3. Drop(S, gone, told) = T
  BY <1>1 DEF Drop, State
<1>4. s \in Srvs
  BY <1>1 DEF Srvs
<1> HIDE DEF t
<1>5. \A i \in Nodes : /\ g[i] \in Sockets /\ g[i].ready = S.ifc[i].ready
        /\ IF i \notin gone \/ S.ifc[i].conn = "closed" THEN g[i] = S.ifc[i]
           ELSE g[i].conn = "dead" /\ (g[i].term = t(i))
  BY <1>1, <1>2 DEF Sockets, Conns
<1>6. g \in [Nodes -> Sockets]
  BY <1>5
<1> HIDE DEF g, s
<1>7. /\ T \in State /\ T.srv = s /\ T.ifc = g
      /\ T.cfg = S.cfg /\ T.fsm = S.fsm /\ T.dmn = S.dmn /\ T.mgr = S.mgr /\ T.rad = S.rad
      /\ T.upset = S.upset /\ T.lost = S.lost
  BY <1>4, <1>6 DEF State
<1> HIDE DEF T
<1>8. Ready(T) = Ready(S)
  BY <1>5, <1>7 DEF Ready
<1>9. Dropped(S, T, gone, told)
  BY <1>5, <1>7, <1>8 DEF Dropped, s, t
<1>10. QED
  BY <1>3, <1>9

LEMMA OnStopEffect ==
  ASSUME NEW S \in State
  PROVE  LET T == OnStop(S) IN
         /\ T \in State /\ AllClosed(T) /\ T.mgr = [timer |-> FALSE, tries |-> 0]
         /\ T.cfg = S.cfg /\ T.srv.alive = S.srv.alive /\ T.srv.bss = S.srv.bss
         /\ T.srv.live = S.srv.live
<1> DEFINE D == Disconnect(S)
           s == [D.srv EXCEPT !.file = {}]
           d == [D.dmn EXCEPT !.up = FALSE]
           r == [D.rad EXCEPT !.up = FALSE]
           U == [D EXCEPT !.srv = s, !.dmn = d, !.rad = r, !.upset = {}]
           T == RestoreMain(U)
<1>1. /\ D \in State /\ AllClosed(D) /\ D.mgr = [timer |-> FALSE, tries |-> 0]
      /\ D.cfg = S.cfg /\ D.dmn = S.dmn /\ D.srv = S.srv
  BY DisconnectEffect
<1> HIDE DEF D
<1>2. D.srv \in Srvs /\ D.dmn \in Dmns /\ D.rad \in Rads
  BY <1>1 DEF State
<1>3. /\ s \in Srvs /\ s.alive = D.srv.alive /\ s.bss = D.srv.bss /\ s.live = D.srv.live
      /\ d \in Dmns /\ r \in Rads /\ {} \in Upsets
  BY <1>2 DEF Srvs, Dmns, Rads, Upsets
<1>4. OnStop(S) = T
  BY <1>1 DEF OnStop, D, State
<1> HIDE DEF s, d, r
<1>5. /\ U \in State /\ U.srv = s /\ U.dmn = d /\ U.ifc = D.ifc /\ U.mgr = D.mgr /\ U.cfg = D.cfg
  BY <1>1, <1>3 DEF State
<1> HIDE DEF U
<1>6. Alike(U, T) /\ T.cfg = U.cfg
  BY <1>5, RestoreMainAlike
<1> HIDE DEF T
<1>7. AllClosed(T)
  BY <1>1, <1>5, <1>6 DEF AllClosed, Alike
<1>8. QED
  BY <1>1, <1>3, <1>4, <1>5, <1>6, <1>7 DEF Alike

\* A process that is gone, and known to be.
LEMMA StoppedGood ==
  ASSUME NEW S \in State, Main \in S.cfg.aps,
         NEW d \in Dmns, ~d.up, ~d.ended,
         NEW s \in Srvs, ~s.alive, s.bss = {}, s.live = {}
  PROVE  Good([OnStop(S) EXCEPT !.dmn = d, !.srv = s])
<1> DEFINE O == OnStop(S)
           T == [O EXCEPT !.dmn = d, !.srv = s]
<1>1. /\ O \in State /\ AllClosed(O) /\ O.mgr = [timer |-> FALSE, tries |-> 0] /\ O.cfg = S.cfg
  BY OnStopEffect
<1> HIDE DEF O
<1>2. /\ T \in State /\ T.dmn = d /\ T.srv = s /\ T.ifc = O.ifc /\ T.mgr = O.mgr /\ T.cfg = S.cfg
  BY <1>1 DEF State
<1>3. T.mgr.tries = 0
  BY <1>1, <1>2
<1> HIDE DEF T
<1>4. AllClosed(T) /\ Process(T)
  BY <1>1, <1>2 DEF AllClosed, Process
<1>5. Base(T)
  BY <1>2, <1>3, <1>4, ClosedBase
<1>6. Good(T)
  BY <1>2, <1>5 DEF Good, Trying
<1>7. QED
  BY <1>6 DEF T, O

LEMMA StopDaemonGood ==
  ASSUME NEW S, Good(S)
  PROVE  Good(StopDaemon(S))
<1> DEFINE D == Drop(S, Nodes, FALSE)
           O == OnStop(D)
           d == [up |-> FALSE, timer |-> FALSE, ended |-> FALSE]
           s == [O.srv EXCEPT !.alive = FALSE, !.bss = {}, !.newif = {}]
<1>1. S \in State /\ Main \in S.cfg.aps /\ S.srv \in Srvs
  BY DEF Good, Base, State
<1>2. Dropped(S, D, Nodes, FALSE)
  BY <1>1, DropEffect
<1> HIDE DEF D
<1>3. D \in State /\ D.cfg = S.cfg /\ D.srv = [S.srv EXCEPT !.live = @ \ Nodes]
  BY <1>2 DEF Dropped
<1>4. D.srv.live = {}
  BY <1>1, <1>3 DEF Srvs
<1>5. O \in State /\ O.srv.live = {} /\ O.srv \in Srvs
  <2>1. O \in State /\ O.srv.live = D.srv.live
    BY <1>3, OnStopEffect
  <2> HIDE DEF O
  <2>2. QED
    BY <1>4, <2>1 DEF State
<1>6. StopDaemon(S) = [O EXCEPT !.dmn = d, !.srv = s]
  BY <1>5 DEF StopDaemon, D, State
<1> HIDE DEF O
<1>7. s \in Srvs /\ ~s.alive /\ s.bss = {} /\ s.live = {}
  BY <1>5 DEF Srvs
<1>8. d \in Dmns
  BY DEF Dmns
<1> HIDE DEF s
<1>9. Good([OnStop(D) EXCEPT !.dmn = d, !.srv = s])
  <2>1. ~d.up /\ ~d.ended
    OBVIOUS
  <2> HIDE DEF d
  <2>2. QED
    BY <1>1, <1>3, <1>7, <1>8, <2>1, StoppedGood
<1>10. QED
  BY <1>6, <1>9 DEF O

\* hostapd reads its file; what it drops is told.
LEMMA ReloadKeeps ==
  ASSUME NEW S, Good(S), NEW all \in BOOLEAN
  PROVE  Good(Reload(S, all))
<1> DEFINE gone == IF all THEN S.srv.bss ELSE S.srv.bss \ S.srv.conf
           D == Drop(S, gone, TRUE)
           new == ((D.srv.newif \cap S.srv.conf) \cup (S.srv.conf \ (S.srv.bss \ gone))) \ {Main}
           s == [D.srv EXCEPT !.bss = S.srv.conf, !.file = D.srv.file \ gone, !.newif = new]
           T == [D EXCEPT !.srv = s]
<1>1. S \in State /\ S.srv \in Srvs
  BY DEF Good, Base, State
<1>2. gone \in SUBSET Nodes /\ S.srv.bss \ gone \subseteq S.srv.conf
  BY <1>1 DEF Srvs
<1> HIDE DEF gone
<1>3. Dropped(S, D, gone, TRUE)
  BY <1>1, <1>2, DropEffect
<1> HIDE DEF D
<1>4. D \in State /\ D.srv = [S.srv EXCEPT !.live = @ \ gone] /\ D.dmn = S.dmn /\ D.cfg = S.cfg
      /\ D.mgr = S.mgr /\ D.upset = S.upset /\ Ready(D) = Ready(S)
  BY <1>3 DEF Dropped
<1>5. CASE ~S.srv.alive
  BY <1>5 DEF Reload
<1>6. CASE S.srv.alive
  <2>1. Reload(S, all) = T
    BY <1>4, <1>6 DEF Reload, gone, D, State, Srvs
  <2>2. D.srv \in Srvs /\ D.srv.alive = S.srv.alive /\ D.srv.live = S.srv.live \ gone
    BY <1>1, <1>4 DEF Srvs
  <2>3. new \in SUBSET Others
    BY <1>1, <2>2 DEF Srvs, Others
  <2> HIDE DEF new
  <2>4. s \in Srvs /\ s.alive /\ s.bss = S.srv.conf /\ s.live = S.srv.live \ gone
    BY <1>1, <1>6, <2>2, <2>3 DEF Srvs
  <2> HIDE DEF s
  <2>5. /\ T \in State /\ T.srv = s /\ T.ifc = D.ifc /\ T.dmn = S.dmn /\ T.cfg = S.cfg
        /\ T.mgr = S.mgr /\ T.upset = S.upset
    BY <1>4, <2>4 DEF State
  <2> HIDE DEF T
  <2>6. Ready(T) = Ready(S)
    BY <1>4, <2>5 DEF Ready
  <2>7. Process(T)
    BY <1>2, <1>6, <2>4, <2>5 DEF Good, Base, Process
  <2>8. Linked(T) /\ Truthful(T)
    <3>1. SUFFICES ASSUME NEW i \in Nodes
                   PROVE  /\ T.ifc[i].conn \in {"half", "open"} => i \in T.srv.live
                          /\ T.ifc[i].ready =>
                               \/ T.ifc[i].conn = "open"
                               \/ T.ifc[i].conn = "dead" /\ (T.ifc[i].term \/ T.dmn.ended)
      BY DEF Linked, Truthful
    <3>2. /\ S.ifc[i].conn \in {"half", "open"} => i \in S.srv.live
          /\ S.ifc[i].ready =>
               \/ S.ifc[i].conn = "open"
               \/ S.ifc[i].conn = "dead" /\ (S.ifc[i].term \/ S.dmn.ended)
      BY DEF Good, Base, Linked, Truthful
    <3>3. CASE i \notin gone \/ S.ifc[i].conn = "closed"
      <4>1. T.ifc[i] = S.ifc[i]
        BY <1>3, <2>5, <3>3 DEF Dropped
      <4>2. S.ifc[i].conn \in {"half", "open"} => i \notin gone
        BY <3>3
      <4>3. QED
        BY <2>4, <2>5, <3>2, <4>1, <4>2
    <3>4. CASE ~(i \notin gone \/ S.ifc[i].conn = "closed")
      <4>1. /\ T.ifc[i].conn = "dead" /\ T.ifc[i].ready = S.ifc[i].ready
            /\ T.ifc[i].term <=> S.ifc[i].term \/ S.ifc[i].conn = "open"
        BY <1>3, <2>5, <3>4 DEF Dropped
      <4>2. QED
        BY <2>5, <3>2, <4>1
    <3>5. QED
      BY <3>3, <3>4
  <2>9. Good(T)
    BY <2>4, <2>5, <2>6, <2>7, <2>8, <1>6 DEF Good, Base, Trying
  <2>10. QED
    BY <2>1, <2>9
<1>7. QED
  BY <1>5, <1>6

-----------------------------------------------------------------------------
(* The steps *)

LEMMA S0Fields ==
  /\ S0.cfg = cfg /\ S0.fsm = fsm /\ S0.dmn = dmn /\ S0.srv = srv /\ S0.ifc = ifc
  /\ S0.mgr = mgr /\ S0.rad = rad /\ S0.lost = lost /\ S0.upset = upset
  BY DEF S0

\* The variables take over what a handler has worked on.
LEMMA BecomeGood ==
  ASSUME NEW S, Good(S), Become(S)
  PROVE  IInv'
<1>1. S \in State
  BY DEF Good, Base
<1>2. (S0 \in State)'
  BY <1>1 DEF Become, S0, State
<1>3. /\ S0'.cfg = S.cfg /\ S0'.dmn = S.dmn /\ S0'.srv = S.srv /\ S0'.ifc = S.ifc
      /\ S0'.mgr = S.mgr /\ S0'.upset = S.upset
  BY DEF Become, S0
<1>4. QED
  BY <1>2, <1>3 DEF IInv, Good, Base, Process, Linked, Truthful, Trying, Ready

LEMMA FsmKeeps ==
  ASSUME NEW S, Good(S), NEW f \in Fsms
  PROVE  LET T == [S EXCEPT !.fsm = f] IN
         /\ Good(T) /\ T.dmn = S.dmn /\ T.srv = S.srv /\ T.ifc = S.ifc /\ T.cfg = S.cfg
         /\ T.upset = S.upset /\ T.mgr = S.mgr
<1> DEFINE T == [S EXCEPT !.fsm = f]
<1>1. S \in State
  BY DEF Good, Base
<1>2. /\ T \in State /\ T.mgr = S.mgr /\ T.dmn = S.dmn /\ T.srv = S.srv /\ T.ifc = S.ifc
      /\ T.cfg = S.cfg /\ T.upset = S.upset
  BY <1>1 DEF State
<1> HIDE DEF T
<1>3. Good(T)
  BY <1>2 DEF Good, Base, Process, Linked, Truthful, Trying, Ready
<1>4. QED
  BY <1>2, <1>3 DEF T

LEMMA DoneKeeps ==
  ASSUME NEW S, Good(S), NEW b
  PROVE  /\ Good(Done(S, b)) /\ Done(S, b).dmn = S.dmn /\ Done(S, b).srv = S.srv
         /\ Done(S, b).cfg = S.cfg /\ Done(S, b).ifc = S.ifc /\ Done(S, b).upset = S.upset
<1> DEFINE f == [S.fsm EXCEPT !.bits = @ \ {b}]
<1>1. S \in State /\ S.fsm \in Fsms
  BY DEF Good, Base, State
<1>2. f \in Fsms
  BY <1>1 DEF Fsms
<1>3. Done(S, b) = [S EXCEPT !.fsm = f]
  BY <1>1 DEF Done, State
<1> HIDE DEF f
<1>4. QED
  BY <1>2, <1>3, FsmKeeps

LEMMA MgrKeeps ==
  ASSUME NEW S, Good(S), NEW m \in Mgrs, m.tries > 0 => m.timer, NEW u \in Upsets,
         m.timer \/ "gaveup" \in u \/ Ready(S) # {}
  PROVE  Good([S EXCEPT !.mgr = m, !.upset = u]) /\ Ready([S EXCEPT !.mgr = m, !.upset = u]) = Ready(S)
<1> DEFINE T == [S EXCEPT !.mgr = m, !.upset = u]
<1>1. S \in State
  BY DEF Good, Base
<1>2. /\ T \in State /\ T.mgr = m /\ T.upset = u /\ T.ifc = S.ifc /\ T.dmn = S.dmn
      /\ T.srv = S.srv /\ T.cfg = S.cfg
  BY <1>1 DEF State
<1> HIDE DEF T
<1>3. Ready(T) = Ready(S)
  BY <1>2 DEF Ready
<1>4. Good(T)
  BY <1>2, <1>3 DEF Good, Base, Process, Linked, Truthful, Trying
<1>5. QED
  BY <1>3, <1>4 DEF T

LEMMA DependencyStep == IInv /\ Dependency => IInv'
<1> SUFFICES ASSUME IInv, Dependency PROVE IInv'
  OBVIOUS
<1> DEFINE aps == fsm.want \cap {"AP"}
           start == fsm.want \cap {"START"} # {} \/ dmn.up # Startable(S0)
                      \/ rad.up # Startable(S0) \/ (aps # {} /\ ~Connected(S0))
           bits == IF start THEN (fsm.want \ {"AP", "UPDATE"}) \cup {"STOP", "MOD", "START"}
                   ELSE fsm.want \cup IF fsm.want \cap {"AP", "UPDATE"} = {} THEN {} ELSE {"MOD"}
           f == [want |-> {}, commit |-> FALSE, run |-> TRUE, bits |-> bits]
<1>1. S0 \in State /\ fsm \in Fsms
  BY S0Fields DEF IInv, Good, Base, State
<1> HIDE DEF start
<1>2. bits \in SUBSET Bits
  BY <1>1 DEF Fsms, Bits
<1>3. Become([S0 EXCEPT !.fsm = f])
  BY DEF Dependency, start
<1> HIDE DEF bits
<1>4. f \in Fsms
  BY <1>2 DEF Fsms
<1> HIDE DEF f
<1>5. Good([S0 EXCEPT !.fsm = f])
  BY <1>4, FsmKeeps DEF IInv
<1>6. QED
  BY <1>3, <1>5, BecomeGood

LEMMA StopHostapdStep == IInv /\ StopHostapd => IInv'
<1> SUFFICES ASSUME IInv, StopHostapd PROVE IInv'
  OBVIOUS
<1> DEFINE S == Done(S0, "STOP")
           u == S.upset \cup {"missed"}
           T == [S EXCEPT !.upset = u]
<1>1. Good(S)
  BY DoneKeeps DEF IInv
<1>2. Become(S) \/ Become(T) \/ Become(StopDaemon(S))
  BY DEF StopHostapd
<1> HIDE DEF S
<1>3. S \in State /\ S.fsm \in Fsms /\ S.rad \in Rads /\ S.upset \in Upsets
  BY <1>1 DEF Good, Base, State
<1>4. u \in Upsets /\ S.upset \subseteq u
  BY <1>3 DEF Upsets
<1>5. T = [S EXCEPT !.fsm = S.fsm, !.rad = S.rad, !.upset = u]
  BY <1>3 DEF State
<1> HIDE DEF u
<1>6. Good([S EXCEPT !.fsm = S.fsm, !.rad = S.rad, !.upset = u])
  BY <1>1, <1>3, <1>4, TellKeeps
<1> HIDE DEF T
<1>7. QED
  BY <1>1, <1>2, <1>5, <1>6, BecomeGood, StopDaemonGood

LEMMA ConfHostapdStep == IInv /\ ConfHostapd => IInv'
<1> SUFFICES ASSUME IInv, ConfHostapd PROVE IInv'
  OBVIOUS
<1> DEFINE S == Done(S0, "MOD")
<1>1. Good(S)
  BY DoneKeeps DEF IInv
<1>2. Become(WriteConf(S))
  BY DEF ConfHostapd
<1> HIDE DEF S
<1>3. Good(WriteConf(S))
  <2>1. S \in State
    BY <1>1 DEF Good, Base
  <2>2. Alike(S, WriteConf(S))
    BY <2>1, WriteConfAlike
  <2>3. QED
    BY <1>1, <2>2, AlikeKeeps
<1>4. QED
  BY <1>2, <1>3, BecomeGood

LEMMA EnableApStep == IInv /\ EnableAp => IInv'
<1> SUFFICES ASSUME IInv, EnableAp PROVE IInv'
  OBVIOUS
<1> DEFINE S == Done(S0, "AP")
           moved == {i \in Others : (i \in srv.file) # (i \in Need(S))}
           E == [S EXCEPT !.ifc = [i \in Nodes |->
                  IF i \in moved THEN [@[i] EXCEPT !.enable = i \in Need(S)] ELSE @[i]]]
           T1 == [E EXCEPT !.fsm.bits = @ \cup {"UPDATE"}, !.fsm.want = @ \cup {"SYNC"}]
           T2 == [S EXCEPT !.fsm.bits = @ \cup {"SYNC"}]
           T == IF ~Startable(S) \/ ~Connected(S) THEN S
                ELSE IF moved # {} THEN T1
                ELSE IF Others \cap Ready(S) # {} THEN T2
                ELSE S
           lost2 == T.lost \cup (Need(T) \ Enabled(T))
<1>1. Good(S)
  BY DoneKeeps DEF IInv
<1>2. Become([T EXCEPT !.lost = lost2])
  <2>1. [T EXCEPT !.lost = @ \cup (Need(T) \ Enabled(T))] = [T EXCEPT !.lost = lost2]
    OBVIOUS
  <2>2. QED
    BY <2>1, Zenon DEF EnableAp
<1> HIDE DEF S, moved
<1>3. S \in State /\ S.ifc \in [Nodes -> Sockets] /\ S.fsm \in Fsms /\ S.lost \in SUBSET Nodes
  BY <1>1 DEF Good, Base, State
<1>4. Good(E) /\ E.fsm = S.fsm
  <2> DEFINE b(i) == i \in Need(S)
             f == [i \in Nodes |-> IF i \in moved THEN b(i) ELSE S.ifc[i].enable]
             g == [i \in Nodes |-> [S.ifc[i] EXCEPT !.enable = f[i]]]
             U == [S EXCEPT !.ifc = g, !.lost = S.lost]
  <2>1. \A i \in Nodes : b(i) \in BOOLEAN
    OBVIOUS
  <2>2. E = [S EXCEPT !.ifc = [i \in Nodes |->
               IF i \in moved THEN [S.ifc[i] EXCEPT !.enable = b(i)] ELSE S.ifc[i]]]
    OBVIOUS
  <2> HIDE DEF b, E
  <2>3. f \in [Nodes -> BOOLEAN]
    BY <1>3, <2>1 DEF Sockets
  <2>4. [i \in Nodes |-> IF i \in moved THEN [S.ifc[i] EXCEPT !.enable = b(i)] ELSE S.ifc[i]] = g
    <3>1. ASSUME NEW i \in Nodes
          PROVE  (IF i \in moved THEN [S.ifc[i] EXCEPT !.enable = b(i)] ELSE S.ifc[i])
                   = [S.ifc[i] EXCEPT !.enable = f[i]]
      BY <1>3, <2>1 DEF Sockets
    <3>2. QED
      BY <3>1
  <2> HIDE DEF f
  <2>5. Good(U) /\ U.fsm = S.fsm
    <3>1. Good(U) /\ OnlySockets(S, U)
      BY <1>1, <1>3, <2>3, WantedKeeps
    <3>2. QED
      BY <3>1 DEF OnlySockets
  <2>6. E = U
    <3>1. E = [S EXCEPT !.ifc = g]
      BY <2>2, <2>4
    <3> HIDE DEF g
    <3>2. QED
      BY <1>3, <3>1 DEF State
  <2>7. QED
    BY <2>5, <2>6
<1> HIDE DEF E
<1>5. Good(T1)
  <2> DEFINE f == [E.fsm EXCEPT !.bits = @ \cup {"UPDATE"}, !.want = @ \cup {"SYNC"}]
  <2>1. f \in Fsms
    BY <1>3, <1>4 DEF Fsms, Bits
  <2>2. T1 = [E EXCEPT !.fsm = f]
    BY <1>4 DEF Good, Base, State
  <2> HIDE DEF f, T1
  <2>3. QED
    BY <1>4, <2>1, <2>2, FsmKeeps
<1>6. Good(T2)
  <2> DEFINE f == [S.fsm EXCEPT !.bits = @ \cup {"SYNC"}]
  <2>1. f \in Fsms
    BY <1>3 DEF Fsms, Bits
  <2>2. T2 = [S EXCEPT !.fsm = f]
    BY <1>3 DEF State
  <2> HIDE DEF f, T2
  <2>3. QED
    BY <1>1, <2>1, <2>2, FsmKeeps
<1> HIDE DEF T1, T2
<1>7. Good(T)
  BY <1>1, <1>5, <1>6
<1> HIDE DEF T
<1>8. lost2 \in SUBSET Nodes
  <2>1. T.lost \in SUBSET Nodes /\ T.cfg \in Cfgs
    BY <1>7 DEF Good, Base, State
  <2>2. QED
    BY <2>1, NodeFacts DEF Need, Cfgs
<1> HIDE DEF lost2
<1>9. QED
  BY <1>2, <1>7, <1>8, LostKeeps, BecomeGood

LEMMA UpdateHostapdStep == IInv /\ UpdateHostapd => IInv'
<1> SUFFICES ASSUME IInv, UpdateHostapd PROVE IInv'
  OBVIOUS
<1> DEFINE S == Done(S0, "UPDATE")
           R == RestoreMain(S)
<1>1. Good(S)
  BY DoneKeeps DEF IInv
<1>2. PICK all \in BOOLEAN : Become(S) \/ Become(Connect(Reload(R, all)))
  BY DEF UpdateHostapd
<1> HIDE DEF S
<1>3. Good(R)
  <2>1. S \in State
    BY <1>1 DEF Good, Base
  <2>2. Alike(S, R)
    BY <2>1, RestoreMainAlike
  <2>3. QED
    BY <1>1, <2>2, AlikeKeeps
<1> HIDE DEF R
<1>4. Good(Reload(R, all))
  BY <1>3, ReloadKeeps
<1>5. Good(Connect(Reload(R, all)))
  <2> DEFINE T == Reload(R, all)
  <2> HIDE DEF T
  <2>1. Good(T)
    BY <1>4 DEF T
  <2>2. T.srv.alive => T.dmn.up
    BY <2>1 DEF Good, Base, Process
  <2>3. Good(Connect(T))
    BY <2>1, <2>2, ConnectGood DEF Good
  <2>4. QED
    BY <2>3 DEF T
<1>6. QED
  BY <1>1, <1>2, <1>5, BecomeGood

LEMMA StartHostapdStep == IInv /\ StartHostapd => IInv'
<1> SUFFICES ASSUME IInv, StartHostapd PROVE IInv'
  OBVIOUS
<1> DEFINE S == Done(S0, "START")
           R == RestoreMain(S)
           E == EnableIfaces(R)
<1>1. Good(S)
  BY DoneKeeps DEF IInv
<1>2. Become(IF ~Startable(S) \/ dmn.up THEN S ELSE Fork(E))
  BY DEF StartHostapd
<1>3. S.dmn = dmn
  BY DoneKeeps, S0Fields DEF IInv
<1> HIDE DEF S
<1>4. CASE ~Startable(S) \/ dmn.up
  BY <1>1, <1>2, <1>4, BecomeGood
<1>5. CASE ~dmn.up /\ Startable(S)
  <2>1. S \in State
    BY <1>1 DEF Good, Base
  <2>2. Alike(S, R)
    BY <2>1, RestoreMainAlike
  <2>3. Good(R) /\ R \in State /\ R.dmn = S.dmn
    BY <1>1, <2>2, AlikeKeeps DEF Alike
  <2> HIDE DEF R
  <2>4. Alike(R, E)
    BY <2>3, EnableIfacesAlike
  <2>5. Good(E) /\ E.dmn = R.dmn
    BY <2>3, <2>4, AlikeKeeps DEF Alike
  <2> HIDE DEF E
  <2>6. Good(Fork(E))
    BY <1>3, <1>5, <2>3, <2>5, ForkGood DEF Good
  <2>7. QED
    BY <1>2, <1>5, <2>6, BecomeGood
<1>6. QED
  BY <1>4, <1>5

LEMMA SyncStateStep == IInv /\ SyncState => IInv'
<1> SUFFICES ASSUME IInv, SyncState PROVE IInv'
  OBVIOUS
<1> DEFINE D == Done(S0, "SYNC")
<1>1. PICK mute \in Mute :
        LET S == RefreshAll(D, mute)
            early == IF S.mgr.timer THEN {} ELSE (Need(S) \cap srv.bss) \ srv.live
        IN Become([S EXCEPT !.lost = @ \cup early])
  BY DEF SyncState
<1> DEFINE S == RefreshAll(D, mute)
           early == IF S.mgr.timer THEN {} ELSE (Need(S) \cap srv.bss) \ srv.live
           lost2 == S.lost \cup early
<1>2. Become([S EXCEPT !.lost = lost2])
  BY <1>1
<1>3. Good(D)
  BY DoneKeeps DEF IInv
<1> HIDE DEF D
<1>4. Good(S)
  BY <1>3, RefreshAllKeeps
<1> HIDE DEF S
<1>5. lost2 \in SUBSET Nodes
  <2>1. S.lost \in SUBSET Nodes /\ S.cfg \in Cfgs
    BY <1>4 DEF Good, Base, State
  <2>2. QED
    BY <2>1, NodeFacts DEF Need, Cfgs
<1> HIDE DEF lost2
<1>6. QED
  BY <1>2, <1>4, <1>5, LostKeeps, BecomeGood

LEMMA FinishStep == IInv /\ Finish => IInv'
<1> SUFFICES ASSUME IInv, Finish PROVE IInv'
  OBVIOUS
<1> DEFINE f == [S0.fsm EXCEPT !.run = FALSE]
<1>1. S0 \in State /\ S0.fsm \in Fsms
  BY DEF IInv, Good, Base, State
<1>2. f \in Fsms
  BY <1>1 DEF Fsms
<1>3. Become([S0 EXCEPT !.fsm = f])
  BY DEF Finish
<1> HIDE DEF f
<1>4. QED
  BY <1>2, <1>3, FsmKeeps, BecomeGood DEF IInv

LEMMA ReconnectTimerStep == IInv /\ ReconnectTimer => IInv'
<1> SUFFICES ASSUME IInv, ReconnectTimer PROVE IInv'
  OBVIOUS
<1>1. PICK mute \in Mute : Become(Reconnect(S0, mute))
  BY DEF ReconnectTimer
<1> DEFINE T == CheckAllIfaces(S0, mute)
           none == [timer |-> FALSE, tries |-> 0]
           tries == T.mgr.tries + 1
           up == T.upset \cup {"gaveup"}
           m == [T.mgr EXCEPT !.tries = tries]
           same == T.upset
           A == [T EXCEPT !.mgr = none, !.upset = up]
           B == [T EXCEPT !.mgr = none, !.upset = same]
           C == [T EXCEPT !.mgr = m, !.upset = same]
<1>2. Good(T) /\ T.mgr = mgr
  BY CheckAllKeeps, S0Fields DEF IInv, OnlySockets
<1>3. Reconnect(S0, mute) =
        IF ~T.dmn.up THEN GiveUp(T)
        ELSE IF AllReady(T) THEN SyncOnRadUp([T EXCEPT !.mgr = none])
        ELSE IF Enabled(T) # {} /\ tries < MaxAttempts THEN [T EXCEPT !.mgr.tries = tries]
        ELSE GiveUp(T)
  BY DEF Reconnect
<1> HIDE DEF T
<1>4. T \in State /\ T.mgr \in Mgrs /\ T.upset \in Upsets /\ T.mgr.timer
  BY <1>2, S0Fields DEF Good, Base, State, ReconnectTimer
<1>5. up \in Upsets /\ "gaveup" \in up /\ same \in Upsets
  BY <1>4 DEF Upsets
<1>6. none \in Mgrs
  BY ConstantsAssumption DEF Mgrs
<1>7. GiveUp(T) = A /\ [T EXCEPT !.mgr = none] = B /\ [T EXCEPT !.mgr.tries = tries] = C
  BY <1>4 DEF GiveUp, State
<1>8. tries < MaxAttempts => m \in Mgrs /\ m.timer
  BY <1>4, ConstantsAssumption DEF Mgrs
<1> HIDE DEF up, same, m
<1>9. Good(A)
  <2>1. none.tries > 0 => none.timer
    OBVIOUS
  <2> HIDE DEF none
  <2>2. QED
    BY <1>2, <1>5, <1>6, <2>1, MgrKeeps
<1>10. Ready(T) # {} => Good(B) /\ Ready(B) # {}
  <2>1. none.tries > 0 => none.timer
    OBVIOUS
  <2> HIDE DEF none
  <2>2. QED
    BY <1>2, <1>5, <1>6, <2>1, MgrKeeps
<1>11. tries < MaxAttempts => Good(C)
  BY <1>2, <1>5, <1>8, MgrKeeps
<1> HIDE DEF A, B, C, tries, none
<1>12. AllReady(T) => Good(SyncOnRadUp(B))
  BY <1>10, SyncOnRadUpKeeps DEF AllReady
<1>13. Good(Reconnect(S0, mute))
  BY <1>3, <1>7, <1>9, <1>11, <1>12
<1>14. QED
  BY <1>1, <1>13, BecomeGood

LEMMA NewInterfaceStep == ASSUME NEW i \in Nodes PROVE IInv /\ NewInterface(i) => IInv'
<1> SUFFICES ASSUME IInv, NewInterface(i) PROVE IInv'
  OBVIOUS
<1> DEFINE s == [S0.srv EXCEPT !.newif = @ \ {i}]
           T == [S0 EXCEPT !.srv = s]
<1>1. PICK mute \in Mute : Become(NewIface([S0 EXCEPT !.srv.newif = @ \ {i}], i, mute))
  BY DEF NewInterface
<1>2. S0 \in State /\ S0.srv \in Srvs
  BY DEF IInv, Good, Base, State
<1>3. [S0 EXCEPT !.srv.newif = @ \ {i}] = T
  BY <1>2 DEF State
<1>4. s \in Srvs /\ s.alive = S0.srv.alive /\ s.bss = S0.srv.bss /\ s.live = S0.srv.live
  BY <1>2 DEF Srvs
<1> HIDE DEF s
<1>5. T \in State /\ T.srv = s /\ T.cfg = S0.cfg /\ T.dmn = S0.dmn /\ T.mgr = S0.mgr
      /\ T.upset = S0.upset /\ T.ifc = S0.ifc
  BY <1>2, <1>4 DEF State
<1> HIDE DEF T
<1>6. Alike(S0, T)
  BY <1>4, <1>5 DEF Alike
<1>7. Good(T)
  BY <1>6, AlikeKeeps DEF IInv
<1>8. QED
  BY <1>1, <1>3, <1>7, NewIfaceKeeps, BecomeGood

LEMMA ReadTerminatingStep == ASSUME NEW i \in Nodes PROVE IInv /\ ReadTerminating(i) => IInv'
  BY TerminatedKeeps, BecomeGood DEF IInv, ReadTerminating

LEMMA NoticeEndStep == IInv /\ NoticeEnd => IInv'
<1> SUFFICES ASSUME IInv, NoticeEnd PROVE IInv'
  OBVIOUS
<1> DEFINE O == OnStop(S0)
           d == [up |-> FALSE, timer |-> TRUE, ended |-> FALSE]
           s == O.srv
<1>1. Become([O EXCEPT !.dmn = d])
  BY DEF NoticeEnd
<1>2. S0 \in State /\ Main \in S0.cfg.aps
  BY DEF IInv, Good, Base
<1>3. ~S0.srv.alive /\ S0.srv.bss = {} /\ S0.srv.live = {}
  BY S0Fields DEF NoticeEnd, IInv, Good, Base, Process
<1>4. O \in State /\ ~O.srv.alive /\ O.srv.bss = {} /\ O.srv.live = {}
  BY <1>2, <1>3, OnStopEffect
<1> HIDE DEF O
<1>5. s \in Srvs /\ [O EXCEPT !.dmn = d] = [O EXCEPT !.dmn = d, !.srv = s]
  BY <1>4 DEF State
<1>6. ~s.alive /\ s.bss = {} /\ s.live = {}
  BY <1>4
<1>7. d \in Dmns /\ ~d.up /\ ~d.ended
  BY DEF Dmns
<1> HIDE DEF s, d
<1>8. Good([OnStop(S0) EXCEPT !.dmn = d, !.srv = s])
  BY <1>2, <1>5, <1>6, <1>7, StoppedGood
<1>9. Good([O EXCEPT !.dmn = d])
  BY <1>5, <1>8 DEF O
<1>10. QED
  BY <1>1, <1>9, BecomeGood

LEMMA RestartTimerStep == IInv /\ RestartTimer => IInv'
<1> SUFFICES ASSUME IInv, RestartTimer PROVE IInv'
  OBVIOUS
<1> DEFINE d == [S0.dmn EXCEPT !.timer = FALSE]
           T == [S0 EXCEPT !.dmn = d]
           S == RestoreMain(T)
           D == Disconnect(S)
           out == {i \in Need(S) : ~S.ifc[i].enable}
<1>1. S0 \in State /\ S0.dmn \in Dmns
  BY DEF IInv, Good, Base, State
<1>2. d \in Dmns /\ d.up = S0.dmn.up /\ d.ended = S0.dmn.ended /\ ~d.timer
  BY <1>1 DEF Dmns
<1>3. ~S0.dmn.up
  BY S0Fields DEF RestartTimer, IInv, Good, Base, Process
<1>4. [S0 EXCEPT !.dmn.timer = FALSE] = T
  BY <1>1 DEF State
<1>5. Become(IF ~Startable(S) THEN S ELSE [Fork(D) EXCEPT !.lost = out])
  BY <1>4 DEF RestartTimer
<1> HIDE DEF d
<1>6. T \in State /\ T.dmn = d /\ T.cfg = S0.cfg /\ T.srv = S0.srv /\ T.ifc = S0.ifc
      /\ T.mgr = S0.mgr /\ T.upset = S0.upset
  BY <1>1, <1>2 DEF State
<1> HIDE DEF T
<1>7. Good(T)
  BY <1>2, <1>3, <1>6 DEF IInv, Good, Base, Process, Linked, Truthful, Trying, Ready
<1>8. Alike(T, S)
  BY <1>6, RestoreMainAlike
<1> HIDE DEF S
<1>9. Good(S) /\ S.dmn = d /\ S \in State
  BY <1>6, <1>7, <1>8, AlikeKeeps DEF Alike
<1>10. D \in State /\ AllClosed(D) /\ D.mgr = [timer |-> FALSE, tries |-> 0]
       /\ D.cfg = S.cfg /\ D.dmn = S.dmn /\ D.srv = S.srv
  BY <1>9, DisconnectEffect
<1> HIDE DEF D
<1>11. Base(D)
  <2>1. Process(D) /\ Main \in D.cfg.aps /\ D.mgr.tries = 0
    BY <1>9, <1>10 DEF Good, Base, Process
  <2>2. QED
    BY <1>10, <2>1, ClosedBase
<1>12. Good(Fork(D))
  BY <1>2, <1>3, <1>9, <1>10, <1>11, ForkGood
<1>13. out \in SUBSET Nodes
  <2>1. S.cfg \in Cfgs
    BY <1>9 DEF State
  <2>2. QED
    BY <2>1, NodeFacts DEF Need, Cfgs
<1> HIDE DEF out
<1>14. Good([Fork(D) EXCEPT !.lost = out])
  BY <1>12, <1>13, LostKeeps
<1>15. QED
  BY <1>5, <1>9, <1>14, BecomeGood

LEMMA StatusReadStep == IInv /\ StatusRead => IInv'
<1> SUFFICES ASSUME IInv, StatusRead PROVE IInv'
  OBVIOUS
<1> DEFINE r == [S0.rad EXCEPT !.up = TRUE]
           T == [S0 EXCEPT !.rad = r]
<1>1. S0 \in State /\ S0.rad \in Rads
  BY DEF IInv, Good, Base, State
<1>2. r \in Rads
  BY <1>1 DEF Rads
<1>3. Become(T)
  <2>1. [S0 EXCEPT !.rad.up = TRUE] = T
    BY <1>1 DEF State
  <2>2. QED
    BY <2>1 DEF StatusRead
<1> HIDE DEF r
<1>4. T \in State /\ T.dmn = S0.dmn /\ T.cfg = S0.cfg /\ T.srv = S0.srv /\ T.ifc = S0.ifc
      /\ T.mgr = S0.mgr /\ T.upset = S0.upset
  BY <1>1, <1>2 DEF State
<1> HIDE DEF T
<1>5. Good(T)
  BY <1>4 DEF IInv, Good, Base, Process, Linked, Truthful, Trying, Ready
<1>6. QED
  BY <1>3, <1>5, BecomeGood

\* A request of a user.
LEMMA AskedKeeps ==
  ASSUME NEW S, Good(S), NEW c \in Cfgs, Main \in c.aps, NEW f \in Fsms
  PROVE  Good([S EXCEPT !.cfg = c, !.fsm = f])
<1> DEFINE T == [S EXCEPT !.cfg = c, !.fsm = f]
<1>1. S \in State
  BY DEF Good, Base
<1>2. T \in State /\ T.dmn = S.dmn /\ T.cfg = c /\ T.srv = S.srv /\ T.ifc = S.ifc
      /\ T.mgr = S.mgr /\ T.upset = S.upset
  BY <1>1 DEF State
<1> HIDE DEF T
<1>3. Good(T)
  BY <1>2 DEF Good, Base, Process, Linked, Truthful, Trying, Ready
<1>4. QED
  BY <1>3 DEF T

LEMMA UserStep == IInv /\ User => IInv'
<1> SUFFICES ASSUME IInv, User PROVE IInv'
  OBVIOUS
<1>1. S0 \in State /\ S0.cfg \in Cfgs /\ S0.fsm \in Fsms /\ Main \in S0.cfg.aps
  BY DEF IInv, Good, Base, State
<1>2. ASSUME NEW c \in Cfgs, Main \in c.aps, NEW want \in SUBSET Bits,
             Become(Commit([S0 EXCEPT !.cfg = c, !.fsm.want = @ \cup want]))
      PROVE  IInv'
  <2> DEFINE f == [S0.fsm EXCEPT !.want = @ \cup want, !.commit = TRUE]
  <2>1. f \in Fsms
    BY <1>1 DEF Fsms
  <2>2. Commit([S0 EXCEPT !.cfg = c, !.fsm.want = @ \cup want]) = [S0 EXCEPT !.cfg = c, !.fsm = f]
    BY <1>1 DEF Commit, State, Fsms
  <2> HIDE DEF f
  <2>3. QED
    BY <1>2, <2>1, <2>2, AskedKeeps, BecomeGood DEF IInv
<1>3. CASE SetRadio
  <2> DEFINE c == [S0.cfg EXCEPT !.rad = ~@]
             f == [S0.fsm EXCEPT !.commit = TRUE]
  <2>1. c \in Cfgs /\ c.aps = S0.cfg.aps /\ f \in Fsms
    BY <1>1 DEF Cfgs, Fsms
  <2>2. Commit([S0 EXCEPT !.cfg.rad = ~@]) = [S0 EXCEPT !.cfg = c, !.fsm = f]
    <3>1. [S0 EXCEPT !.cfg.rad = ~@] = [S0 EXCEPT !.cfg = c]
      BY <1>1 DEF State
    <3> HIDE DEF c
    <3>2. Commit([S0 EXCEPT !.cfg = c]) = [S0 EXCEPT !.cfg = c, !.fsm = f]
      BY <1>1 DEF Commit, State
    <3>3. QED
      BY <3>1, <3>2
  <2>3. Become(Commit([S0 EXCEPT !.cfg.rad = ~@]))
    BY <1>3 DEF SetRadio
  <2> HIDE DEF c, f
  <2>4. QED
    BY <1>1, <2>1, <2>2, <2>3, AskedKeeps, BecomeGood DEF IInv
<1>4. ASSUME NEW i \in Others, SetAp(i) PROVE IInv'
  <2> DEFINE a == IF i \in S0.cfg.aps THEN S0.cfg.aps \ {i} ELSE S0.cfg.aps \cup {i}
             c == [S0.cfg EXCEPT !.aps = a]
  <2>1. a \in SUBSET Nodes /\ Main \in a
    BY <1>1, NodeFacts DEF Cfgs, Others
  <2>2. Commit([S0 EXCEPT !.cfg.aps = IF i \in @ THEN @ \ {i} ELSE @ \cup {i},
                          !.fsm.want = @ \cup {"AP"}])
          = Commit([S0 EXCEPT !.cfg = c, !.fsm.want = @ \cup {"AP"}])
    BY <1>1 DEF State, Fsms
  <2>3. Become(Commit([S0 EXCEPT !.cfg.aps = IF i \in @ THEN @ \ {i} ELSE @ \cup {i},
                                 !.fsm.want = @ \cup {"AP"}]))
    BY <1>4 DEF SetAp
  <2> HIDE DEF a
  <2>4. c \in Cfgs /\ Main \in c.aps
    BY <1>1, <2>1 DEF Cfgs
  <2> HIDE DEF c
  <2>5. {"AP"} \in SUBSET Bits
    BY DEF Bits
  <2>6. QED
    BY <1>2, <2>2, <2>3, <2>4, <2>5
<1>5. ASSUME NEW bits \in SUBSET Bits, Call(bits) PROVE IInv'
  <2> DEFINE c == S0.cfg
  <2>1. Commit([S0 EXCEPT !.fsm.want = @ \cup bits])
          = Commit([S0 EXCEPT !.cfg = c, !.fsm.want = @ \cup bits])
    BY <1>1 DEF State, Fsms
  <2>2. Become(Commit([S0 EXCEPT !.fsm.want = @ \cup bits]))
    BY <1>5 DEF Call
  <2>3. c \in Cfgs /\ Main \in c.aps
    BY <1>1
  <2> HIDE DEF c
  <2>4. QED
    BY <1>2, <2>1, <2>2, <2>3
<1>6. {"UPDATE"} \in SUBSET Bits /\ {"START"} \in SUBSET Bits
  BY DEF Bits
<1>7. QED
  BY <1>3, <1>4, <1>5, <1>6 DEF User

LEMMA ListenStep == ASSUME NEW i \in Nodes PROVE IInv /\ Listen(i) => IInv'
<1> SUFFICES ASSUME IInv, Listen(i) PROVE IInv'
  OBVIOUS
<1> DEFINE s == [S0.srv EXCEPT !.live = @ \cup {i}, !.file = @ \cup {i}]
           T == [S0 EXCEPT !.srv = s]
<1>1. S0 \in State /\ S0.srv \in Srvs
  BY DEF IInv, Good, Base, State
<1>2. s \in Srvs /\ s.alive = S0.srv.alive /\ s.bss = S0.srv.bss /\ s.live = S0.srv.live \cup {i}
  BY <1>1 DEF Srvs
<1>3. Become(T)
  <2>1. [S0 EXCEPT !.srv.live = @ \cup {i}, !.srv.file = @ \cup {i}] = T
    BY <1>1 DEF State, Srvs
  <2>2. QED
    BY <2>1 DEF Listen
<1>4. i \in S0.srv.bss
  BY S0Fields DEF Listen
<1> HIDE DEF s
<1>5. T \in State /\ T.dmn = S0.dmn /\ T.cfg = S0.cfg /\ T.srv = s /\ T.ifc = S0.ifc
      /\ T.mgr = S0.mgr /\ T.upset = S0.upset
  BY <1>1, <1>2 DEF State
<1> HIDE DEF T
<1>6. Good(T)
  BY <1>2, <1>4, <1>5 DEF IInv, Good, Base, Process, Linked, Truthful, Trying, Ready
<1>7. QED
  BY <1>3, <1>6, BecomeGood

LEMMA DieStep == ASSUME NEW inOrder \in BOOLEAN PROVE IInv /\ Die(inOrder) => IInv'
<1> SUFFICES ASSUME IInv, Die(inOrder) PROVE IInv'
  OBVIOUS
<1> DEFINE D == Drop(S0, srv.live, inOrder)
           d == [D.dmn EXCEPT !.ended = TRUE]
           f == IF inOrder THEN {} ELSE D.srv.file
           s == [D.srv EXCEPT !.alive = FALSE, !.bss = {}, !.newif = {}, !.file = f]
           T == [D EXCEPT !.dmn = d, !.srv = s]
<1>1. S0 \in State /\ S0.srv \in Srvs /\ srv.live \in SUBSET Nodes
  <2>1. S0 \in State /\ S0.srv \in Srvs
    BY DEF IInv, Good, Base, State
  <2>2. QED
    BY <2>1, S0Fields DEF Srvs
<1>2. Dropped(S0, D, srv.live, inOrder)
  BY <1>1, DropEffect
<1>3. S0.srv.alive /\ S0.dmn.up
  BY S0Fields DEF IInv, Good, Base, Process, Die
<1>4. Become([D EXCEPT !.dmn.ended = TRUE, !.srv.alive = FALSE, !.srv.bss = {},
                       !.srv.newif = {}, !.srv.file = IF inOrder THEN {} ELSE @])
  BY DEF Die
<1> HIDE DEF D
<1>5. D \in State /\ D.srv = [S0.srv EXCEPT !.live = @ \ srv.live] /\ D.dmn = S0.dmn
      /\ D.cfg = S0.cfg /\ D.mgr = S0.mgr /\ D.upset = S0.upset
  BY <1>2 DEF Dropped
<1>6. D.srv \in Srvs /\ D.dmn \in Dmns
  BY <1>5 DEF State
<1>7. D.srv.live = {}
  BY <1>1, <1>5, S0Fields DEF Srvs
<1>8. T = [D EXCEPT !.dmn.ended = TRUE, !.srv.alive = FALSE, !.srv.bss = {},
                    !.srv.newif = {}, !.srv.file = IF inOrder THEN {} ELSE @]
  BY <1>5 DEF State
<1>9. s \in Srvs /\ ~s.alive /\ s.bss = {} /\ s.live = {}
  BY <1>6, <1>7 DEF Srvs
<1>10. d \in Dmns /\ d.ended /\ d.up = S0.dmn.up /\ d.timer = S0.dmn.timer
  BY <1>5, <1>6 DEF Dmns
<1> HIDE DEF s, d
<1>11. /\ T \in State /\ T.dmn = d /\ T.cfg = S0.cfg /\ T.srv = s /\ T.ifc = D.ifc
       /\ T.mgr = S0.mgr /\ T.upset = S0.upset
  BY <1>5, <1>9, <1>10 DEF State
<1> HIDE DEF T
<1>12. Process(T)
  BY <1>3, <1>9, <1>10, <1>11 DEF IInv, Good, Base, Process
<1>13. Linked(T) /\ Truthful(T)
  <2>1. SUFFICES ASSUME NEW i \in Nodes
                 PROVE  /\ T.ifc[i].conn \notin {"half", "open"}
                        /\ T.ifc[i].ready => T.ifc[i].conn = "dead"
    BY <1>10, <1>11 DEF Linked, Truthful
  <2>2. /\ S0.ifc[i].conn \in {"half", "open"} => i \in srv.live
        /\ S0.ifc[i].ready => S0.ifc[i].conn \in {"open", "dead"}
    BY S0Fields DEF IInv, Good, Base, Linked, Truthful
  <2>3. CASE i \notin srv.live \/ S0.ifc[i].conn = "closed"
    <3>1. T.ifc[i] = S0.ifc[i]
      BY <1>2, <1>11, <2>3 DEF Dropped
    <3>2. QED
      BY <2>2, <2>3, <3>1
  <2>4. CASE ~(i \notin srv.live \/ S0.ifc[i].conn = "closed")
    BY <1>2, <1>11, <2>4 DEF Dropped
  <2>5. QED
    BY <2>3, <2>4
<1>14. Good(T)
  BY <1>9, <1>11, <1>12, <1>13 DEF IInv, Good, Base, Trying
<1>15. QED
  BY <1>4, <1>8, <1>14, BecomeGood

LEMMA InitIInv == Init => IInv
<1> SUFFICES ASSUME Init PROVE IInv
  OBVIOUS
<1>1. Main \in Nodes /\ Others \subseteq Nodes /\ MaxAttempts \in Nat
  BY NodeFacts, ConstantsAssumption
<1>2. cfg \in Cfgs /\ Main \in cfg.aps
  BY <1>1 DEF Init, Cfgs
<1>3. fsm \in Fsms /\ dmn \in Dmns /\ srv \in Srvs /\ mgr \in Mgrs /\ rad \in Rads
  BY <1>1 DEF Init, Fsms, Dmns, Srvs, Mgrs, Rads
<1>4. ifc \in [Nodes -> Sockets]
  BY DEF Init, Closed, Sockets, Conns
<1>5. S0 \in State
  BY <1>2, <1>3, <1>4 DEF S0, State, Init, Upsets
<1>6. AllClosed(S0)
  BY S0Fields DEF Init, Closed, AllClosed
<1>7. Process(S0) /\ S0.mgr.tries = 0 /\ ~S0.srv.alive
  BY S0Fields DEF Init, Process
<1>8. Base(S0)
  BY <1>2, <1>5, <1>6, <1>7, ClosedBase, S0Fields
<1>9. QED
  BY <1>7, <1>8 DEF IInv, Good, Trying

LEMMA NextIInv == IInv /\ [Next]_vars => IInv'
<1> SUFFICES ASSUME IInv, [Next]_vars PROVE IInv'
  OBVIOUS
<1>1. CASE User
  BY <1>1, UserStep
<1>2. CASE Pass
  BY <1>2, DependencyStep, StopHostapdStep, ConfHostapdStep, EnableApStep, UpdateHostapdStep,
     StartHostapdStep, SyncStateStep, FinishStep DEF Pass
<1>3. CASE ReconnectTimer \/ NoticeEnd \/ RestartTimer
  BY <1>3, ReconnectTimerStep, NoticeEndStep, RestartTimerStep
<1>4. ASSUME NEW i \in Nodes, NewInterface(i) \/ ReadTerminating(i) PROVE IInv'
  BY <1>4, NewInterfaceStep, ReadTerminatingStep
<1>5. CASE Around
  BY <1>5, StatusReadStep, ListenStep, DieStep DEF Around
<1>6. CASE UNCHANGED vars
  <2>1. UNCHANGED S0
    BY <1>6 DEF vars, S0
  <2>2. QED
    BY <2>1 DEF IInv, Good, Base, Process, Linked, Truthful, Trying, Ready
<1>7. QED
  BY <1>1, <1>2, <1>3, <1>4, <1>5, <1>6 DEF Next, Pwhm

LEMMA Invariance == Spec => []IInv
  BY InitIInv, NextIInv, PTL DEF Spec

\* Every reachable state has its type, for any access points: in particular only a
\* process that runs serves sockets, wld_daemon takes it for up while it runs or its
\* end is not noticed, and connectTimer runs while attempts are counted.
THEOREM TypeCorrect == Spec => []TypeOK
<1>1. IInv => TypeOK
  <2> SUFFICES ASSUME IInv PROVE TypeOK
    OBVIOUS
  <2>1. S0 \in State /\ Process(S0) /\ Main \in S0.cfg.aps /\ (S0.mgr.tries > 0 => S0.mgr.timer)
    BY DEF IInv, Good, Base
  <2>2. /\ cfg \in Cfgs /\ fsm \in Fsms /\ dmn \in Dmns /\ srv \in Srvs
        /\ ifc \in [Nodes -> Sockets] /\ mgr \in Mgrs /\ rad \in Rads /\ lost \in SUBSET Nodes
        /\ upset \in Upsets
    BY <2>1, S0Fields DEF State
  <2>3. QED
    BY <2>1, <2>2, S0Fields
       DEF TypeOK, Process, Cfgs, Fsms, Dmns, Srvs, Sockets, Conns, Mgrs, Rads, Upsets
<1>2. QED
  BY <1>1, Invariance, PTL

\* What wld_wpaCtrlInterface_isReady says is true or about to be corrected: a ready
\* interface is attached to a socket that the running hostapd serves, or the news that
\* it is not are on their way; and while hostapd runs with no interface ready, the
\* manager's timer runs or its attempts were exhausted.
THEOREM ReadyIsAttached == Spec => []Attached
<1>1. IInv => Attached
  <2> SUFFICES ASSUME IInv PROVE Attached
    OBVIOUS
  <2>1. Linked(S0) /\ Truthful(S0) /\ Trying(S0)
    BY DEF IInv, Good, Base
  <2>2. ASSUME NEW i \in Ready(S0)
        PROVE  \/ ifc[i].conn = "open" /\ i \in srv.live
               \/ ifc[i].conn = "dead" /\ (ifc[i].term \/ dmn.ended)
    <3>1. i \in Nodes /\ S0.ifc[i].ready
      BY DEF Ready
    <3>2. QED
      BY <2>1, <3>1, S0Fields DEF Linked, Truthful
  <2>3. QED
    BY <2>1, <2>2, S0Fields DEF Attached, Trying
<1>2. QED
  BY <1>1, Invariance, PTL

==============================================================================
