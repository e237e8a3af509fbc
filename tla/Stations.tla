------------------------------ MODULE Stations ------------------------------
(***************************************************************************)
(* The associated devices of the access points: src/src/wld_assocdev.c,    *)
(* the list handling of wld_accesspoint.c and the station events of        *)
(* Plugin/wifiGen_eventHandlers.c and Plugin/wifiGen_vap.c.                *)
(*                                                                         *)
(* What pwhm knows of a station comes from two sources that are not in     *)
(* step: the events of hostapd, queued per access point, and the driver's  *)
(* list of stations, read whenever somebody asks for station statistics.   *)
(* A list of entries per access point is kept from both; an entry that     *)
(* becomes inactive is announced by a Disassociation signal, at once or    *)
(* 300 ms later, and only the youngest inactive entries stay in the list.  *)
(*                                                                         *)
(* Times (latestStateChangeTime, associationTime, in seconds) are left out: *)
(* a handler takes the ranks p of the stations by age, and whether two     *)
(* associations fall in one second, as arguments.  owed, cut and lost are  *)
(* history.                                                                *)
(***************************************************************************)
EXTENDS Integers, Sequences, FiniteSetsExt, SequencesExt, Functions

CONSTANTS
  Aps,        \* access points, each on a radio of its own
  Sites,      \* what is run: stas, the stations that may come to each access
              \* point, and the bounds on the associations (joins), on the
              \* events of an access point under way (queue), on the losses of
              \* events, and on the times that access points and radios are
              \* disabled (offs)
  Sticky,     \* NR_OF_STICKY_UNAUTHORIZED_STATIONS
  MaxSta      \* wld_getMaxNrSta()

MaxEntries == MaxSta + Sticky            \* MAXNROF_STAENTRY
Orders(M) == {p \in [M -> 1..Cardinality(M)] : IsInjective(p)}
Listings(M) == {q \in [1..Cardinality(M) -> M] : IsInjective(q)}
Events == {"ASSOC", "CONNECTED", "DISCONNECTED", "DEAUTH"}
Reasons == {"none", "frame"}             \* lastDeauthReason

ASSUME ConstantsAssumption ==
  /\ IsFiniteSet(Aps) /\ Sticky \in Nat /\ MaxSta \in Nat
  /\ \A s \in Sites : \A a \in Aps : IsFiniteSet(s.stas[a])

VARIABLES
  site,     \* the element of Sites
  link,     \* the state of each station in hostapd and the driver
  queue,    \* the events of hostapd that pwhm has not read
  list,     \* pAP->AssociatedDevice
  nr,       \* pAP->ActiveAssociatedDeviceNumberOfEntries
  open,     \* AssociationCount.Success - AssociationCount.Disconnect
  enabled,  \* pAP->enable and pAP->pRadio->enable
  sent,     \* the Disassociation signals of the last step
  owed,     \* stations whose session ended and was not announced yet
  cut,      \* stations removed, or refused, without an event of theirs
  lost,     \* whether events of the access point were lost
  left      \* what remains of the bounds

Stas == site.stas
Macs == UNION {s.stas[a] : s \in Sites, a \in Aps}

vars == <<site, link, queue, list, nr, open, enabled, sent, owed, cut, lost, left>>

\* what the handlers of pwhm work on, and the stations they kick
S0 == [list |-> list, nr |-> nr, open |-> open, sent |-> {}, owed |-> owed, cut |-> cut, kicks |-> {}]

NewEntry(m) == [mac |-> m, active |-> FALSE, auth |-> FALSE, delayed |-> FALSE,
                reason |-> "none", framed |-> FALSE, fresh |-> FALSE]

MacsOf(l) == {l[i].mac : i \in DOMAIN l}
Active(l) == {e.mac : e \in {f \in Range(l) : f.active}}
Auth(l) == {e.mac : e \in {f \in Range(l) : f.auth}}
Entry(l, m) == CHOOSE e \in Range(l) : e.mac = m
Put(l, m, e) == [i \in DOMAIN l |-> IF l[i].mac = m THEN e ELSE l[i]]
Present(a) == {m \in Stas[a] : link[a][m] # "none"}

-----------------------------------------------------------------------------
(* The list of entries *)

(* wld_vap_syncNrDev *)
SyncNr(S, a) == [S EXCEPT !.nr[a] = Cardinality(Active(S.list[a]))]

\* the entries of l that are in K, in their order
Keep(l, K) ==
  LET kept[i \in 0..Len(l)] ==
        IF i = 0 THEN <<>> ELSE IF l[i] \in K THEN Append(kept[i-1], l[i]) ELSE kept[i-1]
  IN kept[Len(l)]

(* wld_vap_cleanup_stationlist: of the inactive entries those above Sticky, *)
(* the oldest first, are destroyed unless their notification is pending.   *)
Idle(l) == MacsOf(l) \ Active(l)
Young(l, p) == {m \in Idle(l) : Cardinality({n \in Idle(l) : p[n] > p[m]}) < Sticky}
CleanedEager(l, p) == Keep(l, {e \in Range(l) : e.active \/ e.mac \in Young(l, p)})
Cleaned(l, p) == Keep(l, {e \in Range(l) : e.active \/ e.delayed \/ e.mac \in Young(l, p)})

(* s_sendDisassocNotification *)
Signal(S, a, m) ==
  LET e == Entry(S.list[a], m)
  IN [ap |-> a, mac |-> m, reason |-> e.reason, fresh |-> e.fresh,
      due |-> m \in S.owed[a], cut |-> m \in S.cut[a]]
Announce(S, a, m) ==
  [S EXCEPT !.sent = S.sent \cup {Signal(S, a, m)}, !.owed[a] = S.owed[a] \ {m}]

(* s_delayDisassocNotifHdlr *)
NotDelayed(l, m) == Put(l, m, [Entry(l, m) EXCEPT !.delayed = FALSE])
NotifyKeepsEntry(S, a, m, p) ==
  [Announce(S, a, m) EXCEPT !.list[a] = NotDelayed(S.list[a], m)]
Notify(S, a, m, p) ==
  [Announce(S, a, m) EXCEPT !.list[a] = Cleaned(NotDelayed(S.list[a], m), p)]

(* wld_ad_finalizeDelayedDisassocNotif, at every access point *)
Finalize(S, m, p) ==
  LET aps == SetToSeq(Aps)
      Step(T, a) ==
        IF m \in MacsOf(T.list[a]) /\ Entry(T.list[a], m).delayed THEN Notify(T, a, m, p) ELSE T
      after[i \in 0..Len(aps)] == IF i = 0 THEN S ELSE Step(after[i-1], aps[i])
  IN after[Len(aps)]

(* wld_vap_findOrCreateAssociatedDevice; a full list refuses the station. *)
FindOrCreate(S, a, m, p) ==
  IF m \in MacsOf(S.list[a]) THEN S
  ELSE LET T == Finalize(S, m, p)
       IN IF Len(T.list[a]) >= MaxEntries THEN [T EXCEPT !.cut[a] = T.cut[a] \cup {m}]
          ELSE [T EXCEPT !.list[a] = Append(T.list[a], NewEntry(m))]

(* s_activate: a station that is active elsewhere is kicked there. *)
Activate(S, a, m) ==
  LET e == Entry(S.list[a], m)
      elsewhere == {b \in Aps \ {a} : m \in Active(S.list[b])}
  IN [S EXCEPT !.list[a] = Put(S.list[a], m, [e EXCEPT !.active = TRUE, !.auth = FALSE]),
               !.kicks = S.kicks \cup (elsewhere \X {m})]

(* wld_ad_add_connection_try *)
ConnectionTryAgain(S, a, m) == SyncNr(Activate(S, a, m), a)
ConnectionTry(S, a, m) ==
  IF m \in Active(S.list[a]) THEN S ELSE SyncNr(Activate(S, a, m), a)

(* wld_ad_add_connection_success; associationTime is new, unless it is the *)
(* same second: then the last frame still counts as one of this session.   *)
Succeed(S, a, m, fast) ==
  LET T == ConnectionTry(S, a, m)
      e == Entry(T.list[a], m)
      f == [e EXCEPT !.auth = TRUE, !.framed = e.framed /\ fast, !.fresh = FALSE]
  IN [T EXCEPT !.list[a] = Put(T.list[a], m, f),
               !.open[a] = T.open[a] + 1,
               !.cut[a] = IF e.delayed THEN T.cut[a] ELSE T.cut[a] \ {m}]
ConnectionSuccessTwice(S, a, m, fast) == Succeed(S, a, m, fast)
ConnectionSuccess(S, a, m, fast) ==
  IF m \in Auth(S.list[a]) THEN S ELSE Succeed(S, a, m, fast)

(* s_add_dc_sta of an active entry *)
EndSession(S, a, m, keep, p) ==
  LET e == Entry(S.list[a], m)
      f == [e EXCEPT !.reason = IF keep THEN e.reason ELSE "none"]
      T == [S EXCEPT !.list[a] = Put(S.list[a], m, f), !.open[a] = S.open[a] - 1,
                     !.owed[a] = S.owed[a] \cup {m}]
      U == IF ~e.auth THEN S ELSE IF e.delayed THEN T ELSE Announce(T, a, m)
      g == [Entry(U.list[a], m) EXCEPT !.active = FALSE, !.auth = FALSE]
  IN SyncNr([U EXCEPT !.list[a] = Cleaned(Put(U.list[a], m, g), p)], a)

(* wld_ad_deauthWithReason and wld_ad_add_disconnection (~keep: no reason) *)
Disconnection(S, a, m, keep, p) ==
  IF m \in Active(S.list[a]) THEN EndSession(S, a, m, keep, p) ELSE S

\* a session ended by the list of the driver, or by pwhm itself
Drop(S, a, m, p) ==
  Disconnection([S EXCEPT !.cut[a] = S.cut[a] \cup {m}], a, m, FALSE, p)

CleanUp(S, a, p) == [S EXCEPT !.list[a] = Cleaned(S.list[a], p)]

(* wld_vap_update_seen: the loop goes by index over the list it changes. *)
UpdateSeenKeepsUnseen(S, a, seen, p) ==
  LET known == SelectSeq(S.list[a], LAMBDA e : e.mac \in seen)
  IN FoldLeft(LAMBDA T, e : ConnectionTry(T, a, e.mac), S, known)
UpdateSeen(S, a, seen, p) ==
  LET n == Len(S.list[a])
      Step(T, i) ==
        IF i > Len(T.list[a]) THEN T
        ELSE LET e == T.list[a][i]
             IN IF e.mac \in seen THEN ConnectionTry(T, a, e.mac)
                ELSE IF e.active THEN Drop(T, a, e.mac, p) ELSE T
      after[i \in 0..n] == IF i = 0 THEN S ELSE Step(after[i-1], i)
  IN CleanUp(after[n], a, p)

(* wld_vap_remove_all: the same loop from the end of the list *)
RemoveAllUpwards(S, a, p) ==
  LET n == Len(S.list[a])
      Step(T, i) ==
        IF i > Len(T.list[a]) \/ ~T.list[a][i].active THEN T
        ELSE Drop(T, a, T.list[a][i].mac, p)
      after[i \in 0..n] == IF i = 0 THEN S ELSE Step(after[i-1], i)
  IN CleanUp(after[n], a, p)
RemoveAll(S, a, p) ==
  LET n == Len(S.list[a])
      Step(T, i) ==
        IF i > Len(T.list[a]) \/ ~T.list[a][i].active THEN T
        ELSE Drop(T, a, T.list[a][i].mac, p)
      after[i \in 0..n] == IF i = 0 THEN S ELSE Step(after[i-1], n + 1 - i)
  IN CleanUp(after[n], a, p)

-----------------------------------------------------------------------------
(* Events of hostapd *)

(* s_commonAssocReqCb *)
AssocReq(S, a, m, p) ==
  LET T == FindOrCreate(S, a, m, p)
  IN IF m \in MacsOf(T.list[a]) THEN ConnectionTry(T, a, m) ELSE T

(* s_apStationConnectedEvt *)
Connected(S, a, m, fast, p) ==
  LET T == FindOrCreate(S, a, m, p)
  IN IF m \in MacsOf(T.list[a]) THEN ConnectionSuccess(T, a, m, fast) ELSE T

(* s_apStationDisconnectedEvt: a frame of this session gives the reason,   *)
(* else the notification waits for one.                                    *)
DisconnectedNow(S, a, m, p) ==
  IF m \notin MacsOf(S.list[a]) THEN S
  ELSE Disconnection(S, a, m, FALSE, p)
Disconnected(S, a, m, p) ==
  IF m \notin MacsOf(S.list[a]) THEN S
  ELSE LET e == Entry(S.list[a], m)
       IN IF e.framed THEN Disconnection(S, a, m, TRUE, p)
          ELSE Disconnection([S EXCEPT !.list[a] = Put(@, m, [e EXCEPT !.delayed = TRUE])],
                             a, m, FALSE, p)

(* s_deauthCb, s_disassocCb and their counterparts for frames that were sent *)
DeauthFrame(S, a, m) ==
  IF m \notin MacsOf(S.list[a]) THEN S
  ELSE [S EXCEPT !.list[a] = Put(@, m, [Entry(@, m) EXCEPT !.reason = "frame", !.framed = TRUE,
                                                        !.fresh = TRUE])]

Handled(S, a, ev, fast, p) ==
  CASE ev.kind = "ASSOC" -> AssocReq(S, a, ev.mac, p)
    [] ev.kind = "CONNECTED" -> Connected(S, a, ev.mac, fast, p)
    [] ev.kind = "DISCONNECTED" -> Disconnected(S, a, ev.mac, p)
    [] ev.kind = "DEAUTH" -> DeauthFrame(S, a, ev.mac)

(* wifiGen_get_station_stats: nothing is asked while there is no entry that *)
(* is old.  New stations come in the order q.                              *)
Refreshed(S, a, fast, p, q) ==
  LET Fill(T, m) ==
        LET U == FindOrCreate(T, a, m, p)
        IN IF link[a][m] = "auth" /\ m \in MacsOf(U.list[a])
           THEN ConnectionSuccess(U, a, m, fast) ELSE U
      dump == SetToSeq(Present(a) \cap MacsOf(S.list[a])) \o q
      after[i \in 0..Len(dump)] == IF i = 0 THEN S ELSE Fill(after[i-1], dump[i])
  IN IF S.list[a] = <<>> THEN S ELSE UpdateSeen(after[Len(dump)], a, Present(a), p)

(* s_addStaStatsValues *)
Reported(S, a, p) == SyncNr(IF enabled[a] THEN S ELSE RemoveAll(S, a, p), a)

-----------------------------------------------------------------------------
(* Steps *)

(* The events with which hostapd tells that a station is gone: a deauth    *)
(* frame may come before or after, or none at all.                         *)
Ev(k, m) == [kind |-> k, mac |-> m]
Goodbyes == {<<"DEAUTH", "DISCONNECTED">>, <<"DISCONNECTED", "DEAUTH">>}
Bye(ms, bye) ==
  LET s == SetToSeq(ms)
  IN [k \in 1..(2 * Len(s)) |-> Ev(bye[IF k % 2 = 1 THEN 1 ELSE 2], s[(k + 1) \div 2])]

\* hostapd loses the stations out[a] of each access point a
HapdDrops(out, Q, bye) ==
  /\ link' = [a \in Aps |-> [m \in Stas[a] |-> IF m \in out[a] THEN "none" ELSE link[a][m]]]
  /\ queue' = [a \in Aps |-> Q[a] \o Bye({m \in out[a] : link[a][m] = "auth"}, bye)]

\* the state of pwhm becomes that of S
PwhmBecomes(S) ==
  /\ list' = S.list /\ nr' = S.nr /\ open' = S.open
  /\ sent' = S.sent /\ owed' = S.owed /\ cut' = S.cut

Becomes(S, Q) ==
  /\ PwhmBecomes(S)
  /\ LET out == [a \in Aps |-> {m \in Stas[a] : <<a, m>> \in S.kicks}]
     IN \E bye \in IF S.kicks = {} THEN {<<>>} ELSE Goodbyes : HapdDrops(out, Q, bye)

\* the ages the stations may have, and whether two associations of one of
\* them may fall in the same second
Ages(a) == Orders(Present(a) \cup UNION {MacsOf(list[b]) : b \in Aps})
Fast(a) == {FALSE} \cup {e.framed : e \in {f \in Range(list[a]) : ~f.auth}}

PwhmUnchanged == UNCHANGED <<list, nr, open, owed, cut>> /\ sent' = {}

HandleEvent(a) ==
  /\ queue[a] # <<>>
  /\ UNCHANGED <<enabled, lost, left>>
  /\ \E S \in {Handled(S0, a, Head(queue[a]), fast, p) : fast \in Fast(a), p \in Ages(a)} :
       Becomes(S, [queue EXCEPT ![a] = Tail(@)])

(* The timer of wld_ad_startDelayDisassocNotifTimer *)
DelayExpires(a, m) ==
  /\ m \in MacsOf(list[a]) /\ Entry(list[a], m).delayed
  /\ \E S \in {Notify(S0, a, m, p) : p \in Ages(a)} : Becomes(S, queue)
  /\ UNCHANGED <<enabled, lost, left>>

(* getStationStats of the data model, or a sample of the RSSI monitor, *)
(* which does not touch the data model                                 *)
Readings(a, fast, p, q) ==
  LET T == Refreshed(S0, a, fast, p, q) IN {T, Reported(T, a, p)}
ReadStations(a) ==
  /\ list[a] # <<>>
  /\ \E fast \in Fast(a), p \in Ages(a), q \in Listings(Present(a) \ MacsOf(list[a])) :
       \E S \in Readings(a, fast, p, q) : Becomes(S, queue)
  /\ UNCHANGED <<enabled, lost, left>>

(* s_deauthAllRadSta when the radio is disabled *)
DeauthAllRadSta(a) ==
  /\ enabled[a] /\ left.offs > 0
  /\ enabled' = [enabled EXCEPT ![a] = FALSE]
  /\ \E S \in {RemoveAll(S0, a, p) : p \in Ages(a)} : PwhmBecomes(S)
  /\ \E bye \in Goodbyes : HapdDrops([b \in Aps |-> IF b = a THEN Stas[a] ELSE {}], queue, bye)
  /\ left' = [left EXCEPT !.offs = @ - 1]
  /\ UNCHANGED lost

(* The user disables the access point: the commit that follows lets hostapd *)
(* drop its stations later.                                                *)
Disable(a) ==
  /\ enabled[a] /\ left.offs > 0
  /\ enabled' = [enabled EXCEPT ![a] = FALSE]
  /\ left' = [left EXCEPT !.offs = @ - 1]
  /\ PwhmUnchanged /\ UNCHANGED <<link, queue, lost>>

Enable(a) ==
  /\ ~enabled[a] /\ Present(a) = {}
  /\ enabled' = [enabled EXCEPT ![a] = TRUE]
  /\ PwhmUnchanged /\ UNCHANGED <<link, queue, lost, left>>

-----------------------------------------------------------------------------
(* hostapd and the stations *)

Quiet(a) == Len(queue[a]) < site.queue

Associate(a, m) ==
  /\ enabled[a] /\ Quiet(a) /\ left.joins > 0
  /\ link[a][m] = "none" /\ Cardinality(Present(a)) < MaxSta
  /\ link' = [link EXCEPT ![a][m] = "assoc"]
  /\ queue' = [queue EXCEPT ![a] = Append(@, Ev("ASSOC", m))]
  /\ left' = [left EXCEPT !.joins = @ - 1]
  /\ PwhmUnchanged /\ UNCHANGED <<enabled, lost>>

Authorize(a, m) ==
  /\ link[a][m] = "assoc" /\ Quiet(a)
  /\ link' = [link EXCEPT ![a][m] = "auth"]
  /\ queue' = [queue EXCEPT ![a] = Append(@, Ev("CONNECTED", m))]
  /\ PwhmUnchanged /\ UNCHANGED <<enabled, lost, left>>

Leave(a, m) ==
  /\ link[a][m] # "none" /\ Quiet(a)
  /\ \E bye \in Goodbyes : HapdDrops([b \in Aps |-> IF b = a THEN {m} ELSE {}], queue, bye)
  /\ PwhmUnchanged /\ UNCHANGED <<enabled, lost, left>>

DropAll(a) ==
  /\ ~enabled[a] /\ Present(a) # {} /\ Quiet(a)
  /\ \E bye \in Goodbyes : HapdDrops([b \in Aps |-> IF b = a THEN Stas[a] ELSE {}], queue, bye)
  /\ PwhmUnchanged /\ UNCHANGED <<enabled, lost, left>>

(* The control socket is lost with what was in it. *)
LoseEvents(a) ==
  /\ left.losses > 0 /\ queue[a] # <<>>
  /\ queue' = [queue EXCEPT ![a] = <<>>]
  /\ lost' = [lost EXCEPT ![a] = TRUE]
  /\ left' = [left EXCEPT !.losses = @ - 1]
  /\ PwhmUnchanged /\ UNCHANGED <<link, enabled>>

-----------------------------------------------------------------------------
Init ==
  /\ site \in Sites
  /\ link = [a \in Aps |-> [m \in Stas[a] |-> "none"]]
  /\ queue = [a \in Aps |-> <<>>] /\ list = [a \in Aps |-> <<>>]
  /\ nr = [a \in Aps |-> 0] /\ open = [a \in Aps |-> 0]
  /\ enabled = [a \in Aps |-> TRUE]
  /\ sent = {} /\ owed = [a \in Aps |-> {}] /\ cut = [a \in Aps |-> {}]
  /\ lost = [a \in Aps |-> FALSE]
  /\ left = [joins |-> site.joins, losses |-> site.losses, offs |-> site.offs]

\* an access point that no station comes to does nothing
Used == {a \in Aps : Stas[a] # {}}

Pwhm ==
  \E a \in Used :
    \/ HandleEvent(a) \/ ReadStations(a) \/ DeauthAllRadSta(a)
    \/ \E m \in Stas[a] : DelayExpires(a, m)
Env ==
  \E a \in Used :
    \/ Disable(a) \/ Enable(a) \/ DropAll(a) \/ LoseEvents(a)
    \/ \E m \in Stas[a] : Associate(a, m) \/ Authorize(a, m) \/ Leave(a, m)
Next == (Pwhm \/ Env) /\ UNCHANGED site

Spec == Init /\ [][Next]_vars

(* pwhm reads its sockets and its timers fire; as long as an entry is       *)
(* active that the driver does not know, somebody asks for the statistics. *)
(* That the event loop goes on is enough, whichever access point it serves: *)
(* weak fairness with the guard in place of ENABLED.                        *)
HeadRead(a) == queue[a] # <<>> /\ queue'[a] = Tail(queue[a])
Stale(a) == ~ (Active(list[a]) \subseteq Present(a))
StaleRead(a) == queue'[a] = queue[a] /\ Stale(a) /\ ReadStations(a)
Waits(a, m) == m \in MacsOf(list[a]) /\ Entry(list[a], m).delayed
Announces(a, m) == list'[a] # list[a] /\ Waits(a, m) /\ ~Waits(a, m)' /\ DelayExpires(a, m)
Fairness ==
  /\ []<>(\A a \in Aps : queue[a] = <<>>) \/ []<><<\E a \in Aps : HeadRead(a)>>_vars
  /\ []<>(\A a \in Aps : ~Stale(a)) \/ []<><<\E a \in Aps : StaleRead(a)>>_vars
  /\ \/ []<>(\A a \in Aps, m \in Macs : ~Waits(a, m))
     \/ []<><<\E a \in Aps, m \in Macs : Announces(a, m)>>_vars
FairSpec == Spec /\ Fairness

-----------------------------------------------------------------------------
(* Properties *)

(* Types; a list has one entry per station, no more entries than there is  *)
(* room for, and between handlers at most Sticky inactive ones that are    *)
(* not kept for a notification (cleanup on every path that ends a session). *)
TypeOK ==
  /\ \A a \in Aps :
       /\ list[a] \in Seq([mac : Stas[a], active : BOOLEAN, auth : BOOLEAN, delayed : BOOLEAN,
                           reason : Reasons, framed : BOOLEAN, fresh : BOOLEAN])
       /\ Cardinality(MacsOf(list[a])) = Len(list[a]) /\ Len(list[a]) <= MaxEntries
       /\ Auth(list[a]) \subseteq Active(list[a])
       /\ Cardinality({m \in Idle(list[a]) : ~Entry(list[a], m).delayed}) <= Sticky
       /\ link[a] \in [Stas[a] -> {"none", "assoc", "auth"}]
       /\ queue[a] \in Seq([kind : Events, mac : Stas[a]])
       /\ owed[a] \subseteq Stas[a] /\ cut[a] \subseteq Stas[a]
  /\ nr \in [Aps -> Nat] /\ open \in [Aps -> Int]
  /\ enabled \in [Aps -> BOOLEAN] /\ lost \in [Aps -> BOOLEAN]

(* The counters of the access point are kept apart from the list, changed  *)
(* in several handlers: the active ones are counted right, and Success     *)
(* minus Disconnect is the number of authenticated stations, although      *)
(* events and the driver's list both report each of them.                  *)
CountersMatch ==
  \A a \in Aps : nr[a] = Cardinality(Active(list[a])) /\ open[a] = Cardinality(Auth(list[a]))

(* No session ends without a Disassociation signal: until it is sent the   *)
(* entry stays in the list with its timer running, whatever cleans the list *)
(* in between.  And no signal is sent unless a session ended since the     *)
(* last one, except for stations that were dropped before hostapd's event  *)
(* was read: those are announced twice.  And what the delay is for: a      *)
(* deauth or disassoc frame of the session gives its reason to the signal, *)
(* whether it was read before or after hostapd's event.                    *)
Announced ==
  /\ \A a \in Aps : \A m \in owed[a] : m \in MacsOf(list[a]) /\ Entry(list[a], m).delayed
  /\ \A n \in sent : n.due \/ n.cut \/ lost[n.ap]
  /\ \A n \in sent : n.fresh /\ ~n.cut /\ ~lost[n.ap] => n.reason = "frame"

(* When all events are read, the authenticated stations of pwhm are those  *)
(* of hostapd, although the driver's list was mixed with older events.     *)
InSync ==
  \A a \in Aps : queue[a] = <<>> /\ ~lost[a] =>
    LET up == {m \in Stas[a] : link[a][m] = "auth"}
    IN Auth(list[a]) \subseteq up /\ up \ cut[a] \subseteq Auth(list[a])

(* When the radio is disabled no entry stays active, although the list     *)
(* shrinks under the loop that removes them.                               *)
AllRemoved == \A a \in Aps : DeauthAllRadSta(a) => Active(list'[a]) = {}

(* Every step leaves the list in step with hostapd, and with the radio.    *)
ListFollows == [][InSync' /\ AllRemoved]_vars

(* Every delayed signal is sent, and entries whose events were lost do not *)
(* stay active.                                                            *)
Settles ==
  <>[](\A a \in Aps : owed[a] = {} /\ ~Stale(a) /\ \A e \in Range(list[a]) : ~e.delayed)

=============================================================================
