------------------------------- MODULE NlCore -------------------------------
(***************************************************************************)
(* The netlink socket of pwhm: the requests of nl80211/wld_nl80211_core.c   *)
(* and, as what they are used for, the indexes of the access points'       *)
(* interfaces (Plugin/wifiGen_eventHandlers.c).                            *)
(*                                                                         *)
(* One thread reads one socket, in which events and answers come in order. *)
(* A synchronous request reads it until the request is gone, and handles   *)
(* all that comes before; a handler may send a synchronous request of its  *)
(* own.  The stack of the calls that wait, and the loop over the access    *)
(* points below them, are explicit here, so that the kernel goes on between *)
(* two reads.                                                              *)
(*                                                                         *)
(* hostapd deletes and creates the interfaces of the access points while it *)
(* starts and stops.  pwhm follows the events, and looks again at every     *)
(* index when it synchronises its access points, "in case we missed BSS    *)
(* re-creation nl80211 event".  doubt is history: the access points of     *)
(* which an event was lost, or a stale answer taken, since the last good look; *)
(* strayed tells whether this could leave the radio with an index that is gone. *)
(***************************************************************************)
EXTENDS Integers, FiniteSetsExt, SequencesExt

CONSTANTS
  Order,        \* the access points of the radio, in the order of its list
  Main,         \* the one on the interface of the radio itself
  Mlo,          \* those with control sockets per link
  MaxChanges,   \* bound on the interfaces deleted and created
  MaxFaults,    \* bound on messages lost, requests not sent, and requests that expire
                \* with the answer in the socket
  MaxCalls      \* bound on what pwhm starts: requests, synchronisations, scans

Names == ToSet(Order)

ASSUME NlAssumption ==
  /\ Order \in Seq(Names) /\ Len(Order) = Cardinality(Names)
  /\ Main \in Names /\ Mlo \subseteq Names
  /\ {MaxChanges, MaxFaults, MaxCalls} \subseteq Nat

VARIABLES
  kern,     \* the index of each interface in the kernel, 0 when there is none
  sock,     \* the socket: what pwhm has not read
  reqs,     \* state->requests
  stack,    \* the synchronous requests that pwhm is in, the outermost first
  look,     \* the loop of wifiGen_refreshVapsIfIdx that it is in below them
  index,    \* pAP->index
  lis,      \* pAP->nl80211Listener: the index it listens for, 0 without
  radIndex, \* pRad->index
  doubt, strayed,
  left      \* what remains of the bounds

vars == <<kern, sock, reqs, stack, look, index, lis, radIndex, doubt, strayed, left>>

\* What a handler works on.
World == [sock |-> sock, reqs |-> reqs, stack |-> stack, look |-> look, index |-> index,
          lis |-> lis, radIndex |-> radIndex, doubt |-> doubt, strayed |-> strayed, left |-> left]

Become(W) ==
  /\ sock' = W.sock /\ reqs' = W.reqs /\ stack' = W.stack /\ look' = W.look
  /\ index' = W.index /\ lis' = W.lis /\ radIndex' = W.radIndex
  /\ doubt' = W.doubt /\ strayed' = W.strayed /\ left' = W.left

\* What remains to be looked at, and what is known of the first of it
LookAt(todo) == [todo |-> todo, cur |-> 0, crossed |-> FALSE, clean |-> FALSE]
Idle(W) == W.stack = <<>> /\ W.look.todo = <<>>

\* seq is 0 in an event.
Msg(t, seq, n, i) == [type |-> t, seq |-> seq, name |-> n, index |-> i]
About(q, n) == \E j \in DOMAIN q : q[j].type \in {"new", "del"} /\ q[j].name = n

\* A sequence number that nothing refers to any more
Fresh(W) ==
  LET used == {r.seq : r \in W.reqs} \cup {W.sock[j].seq : j \in DOMAIN W.sock}
                \cup {W.stack[j].seq : j \in DOMAIN W.stack}
  IN  CHOOSE s \in 1..(Cardinality(used) + 1) : s \notin used

\* s_findRequest
Pending(W, seq) == \E r \in W.reqs : r.seq = seq
\* s_sendMsgSync waits.
Waits(W) == W.stack # <<>> /\ Pending(W, Last(W.stack).seq)

\* The kernel never uses an index again.
NewIndex == Len(Order) + 1 + MaxChanges - left.changes

-----------------------------------------------------------------------------
(* Requests *)

\* What becomes of a request: the kernel puts the answer into the socket while it is
\* sent, or has no room for it, or does not take the request.
Fates(W) == IF W.left.faults = 0 THEN {"answered"} ELSE {"answered", "lost", "unsent"}

Pay(W, fate) == IF fate = "answered" THEN W ELSE [W EXCEPT !.left.faults = @ - 1]

\* s_sendMsg, and the answer m to it
SendMsg(W, sync, m, fate) ==
  [Pay(W, fate) EXCEPT
     !.reqs = @ \cup {[seq |-> m.seq, sync |-> sync, over |-> FALSE]},
     !.sock = IF fate = "lost" THEN @ ELSE Append(@, m)]

\* s_sendMsgSync up to its wait
SendMsgSync(W, why, m, fate) ==
  IF fate = "unsent" THEN Pay(W, fate)
  ELSE [SendMsg(W, TRUE, m, fate) EXCEPT
          !.stack = Append(@, [why |-> why, seq |-> m.seq, got |-> "none",
                               name |-> Main, index |-> 0])]

\* The kernel's answer of type t to a command on interface i
Answer(W, t, i) ==
  IF \E n \in Names : kern[n] = i
  THEN Msg(t, Fresh(W), CHOOSE n \in Names : kern[n] = i, i)
  ELSE Msg("error", Fresh(W), Main, 0)

\* wld_nl80211_getInterfaceInfo
GetInterface(W, why, i, fate) == SendMsgSync(W, why, Answer(W, "new", i), fate)

\* The handlers of the requests seqs have their last call, and the requests are freed.
EndRequestsUntold(W, seqs, got, n, i) == [W EXCEPT !.reqs = {r \in @ : r.seq \notin seqs}]
EndRequests(W, seqs, got, n, i) ==
  LET Told(f) == IF f.seq \in seqs THEN [f EXCEPT !.got = got, !.name = n, !.index = i] ELSE f
  IN  [W EXCEPT !.reqs = {r \in @ : r.seq \notin seqs},
                !.stack = [j \in DOMAIN W.stack |-> Told(W.stack[j])]]

\* s_clearExpiredRequests
ClearExpiredAsync(W) ==
  EndRequests(W, {r.seq : r \in {q \in W.reqs : q.over /\ ~q.sync}}, "error", Main, 0)
ClearExpired(W) ==
  EndRequests(W, {r.seq : r \in {q \in W.reqs : q.over}}, "error", Main, 0)

-----------------------------------------------------------------------------
(* The interfaces of the access points *)

\* The look at n that is under way has its answer: what comes now is newer.
Answered(W, n) ==
  /\ W.stack # <<>> /\ W.stack[1].why = "refresh" /\ W.stack[1].got = "ok"
  /\ Head(W.look.todo) = n

Crossed(W, n) == IF Answered(W, n) THEN [W EXCEPT !.look.crossed = TRUE] ELSE W

\* s_delInterfaceCb: the access point by its name, the radio by its index
DelInterface(W, n, i) ==
  [W EXCEPT !.lis[n] = 0, !.index[n] = 0, !.radIndex = IF @ = i THEN 0 ELSE @]

\* s_newInterfaceCb
NewInterfaceEarly(W, n, i) ==
  [W EXCEPT !.radIndex = IF n = Main THEN i ELSE @, !.lis[n] = W.index[n], !.index[n] = i]
NewInterface(W, n, i) ==
  [W EXCEPT !.radIndex = IF n = Main THEN i ELSE @, !.index[n] = i, !.lis[n] = i]

\* What wld_wpaCtrlMngr_checkAllIfaces comes to in the end of it: ask is the index of a
\* link's interface that it asks for, 0 when it asks for none.
CheckAllIfaces(W, why, ask, fate) == IF ask = 0 THEN W ELSE GetInterface(W, why, ask, fate)

Asks == {0} \cup {kern[n] : n \in Mlo}

-----------------------------------------------------------------------------
(* Reading *)

\* s_handleReply for a message that answers a pending request
HandleReply(W, m) ==
  CASE m.type \in {"new", "ack"} -> EndRequests(W, {m.seq}, "ok", m.name, m.index)
    [] m.type = "part" -> [W EXCEPT !.sock = Append(@, Msg("done", m.seq, Main, 0))]
    [] OTHER -> EndRequests(W, {m.seq}, "error", Main, 0)

\* s_scanDoneCb: events of an interface that the radio does not know are ignored.  Of its
\* access points wld_rad_hasLinkIfIndex asks the kernel, by name (wld_ssid_getLinkIfIndex).
ScanDone(W, i, fate) ==
  LET m == Msg("part", Fresh(W), Main, 0)
  IN  IF i \notin {kern[n] : n \in Names} \cup {W.radIndex} THEN W
      ELSE IF fate = "unsent" THEN Pay(W, fate)
      ELSE SendMsg(W, FALSE, m, fate)

\* s_handleEvent; an answer that comes when its request is gone is one as well, and
\* one to a GET_INTERFACE has the form of the event of a new interface.
HandleEvent(W, m, ask, fate) ==
  CASE m.type = "new" ->
         CheckAllIfaces(NewInterface(Crossed(W, m.name), m.name, m.index), "event", ask, fate)
    [] m.type = "del" -> DelInterface(Crossed(W, m.name), m.name, m.index)
    [] m.type = "scan" -> ScanDone(W, m.index, fate)
    [] OTHER -> W

\* s_readHandler with a message; when the handler waits, the end of it is in SyncReturns.
Handled(W, ask, fate) ==
  LET m == Head(W.sock)
      V == [W EXCEPT !.sock = Tail(@)]
      H == IF Pending(W, m.seq) THEN HandleReply(V, m) ELSE HandleEvent(V, m, ask, fate)
  IN  IF Len(H.stack) > Len(W.stack) THEN H ELSE ClearExpired(H)

\* From the event loop, or while a request waits
ReadHandler ==
  /\ Idle(World) \/ Waits(World)
  /\ sock # <<>>
  /\ \E ask \in Asks, fate \in Fates(World) : Become(Handled(World, ask, fate))
  /\ UNCHANGED kern

\* select() has waited 200 ms in vain.
Select ==
  /\ Waits(World) /\ sock = <<>>
  /\ \E r \in reqs : r.over
  /\ Become(ClearExpired(World))
  /\ UNCHANGED kern

-----------------------------------------------------------------------------
(* Calls of pwhm *)

\* The rest of a call of wifiGen_refreshVapsIfIdx
NextAp(W) == [W EXCEPT !.look = LookAt(Tail(W.look.todo))]

\* A look f at n that nothing has disturbed ends every doubt; one that finds the index
\* right does not see that there is no listener.
Looked(W, n, f) ==
  [W EXCEPT !.doubt = IF f.crossed THEN @ \cup {n}
                      ELSE IF f.clean /\ (f.cur > 0 \/ W.lis[n] = W.index[n]) THEN @ \ {n} ELSE @,
            !.strayed = @ \/ (f.crossed /\ n = Main)]

\* The first part of the loop: the index by ioctl, and s_delInterfaceCb when it differs
RefreshIndex ==
  /\ stack = <<>> /\ look.todo # <<>> /\ look.cur = 0
  /\ LET n == Head(look.todo)
         V == IF index[n] > 0 /\ index[n] # kern[n] THEN DelInterface(World, n, index[n]) ELSE World
         f == [look EXCEPT !.clean = ~About(sock, n)]
     IN  Become(IF kern[n] = 0 \/ V.index[n] = kern[n]
                THEN NextAp(Looked(V, n, f))
                ELSE [V EXCEPT !.look = [f EXCEPT !.cur = kern[n]]])
  /\ UNCHANGED kern

\* The second part: what the kernel knows of it
RefreshInterface ==
  /\ stack = <<>> /\ look.todo # <<>> /\ look.cur > 0
  /\ \E fate \in Fates(World) :
       LET W == GetInterface(World, "refresh", look.cur, fate)
       IN  Become(IF fate = "unsent" THEN NextAp(W) ELSE W)
  /\ UNCHANGED kern

\* s_restoreMainAp ends, whatever came of it.
Restored(W) == [W EXCEPT !.radIndex = W.index[Main]]

\* wld_rad_nl80211_addInterface has a command to send.
Restore(W, why, m, fate) ==
  IF fate = "unsent" THEN Restored(Pay(W, fate)) ELSE SendMsgSync(W, why, m, fate)

\* wifiGen_rad_addVap: the interface is there, its index is that of the name now.
AddVap(W, fate) ==
  IF kern[Main] = 0 THEN Restored(W)
  ELSE Restore([W EXCEPT !.index[Main] = kern[Main]], "info", Answer(W, "new", kern[Main]), fate)

\* s_sendMsgSync returns.  The answer of a look is taken as the news of an interface.
LookEnds(W, f) == NewInterface(NextAp(Looked(W, f.name, W.look)), f.name, f.index)

Returned(W, ask, fate) ==
  LET f == Last(W.stack)
      V == [W EXCEPT !.stack = Front(@)]
  IN  CASE f.why = "event" -> ClearExpired(V)
        [] f.why = "refresh" /\ f.got = "ok" -> CheckAllIfaces(LookEnds(V, f), "link", ask, fate)
        [] f.why = "refresh" /\ f.got # "ok" -> NextAp(V)
        [] f.why = "set" /\ f.got = "ok" -> Restore(V, "check", Answer(V, "new", f.index), fate)
        [] f.why \in {"check", "create"} /\ f.got = "ok" -> AddVap(V, fate)
        [] f.why = "info" \/ (f.why \in {"set", "check", "create"} /\ f.got # "ok") -> Restored(V)
        [] f.why \in {"link", "status"} -> V

SyncReturns ==
  /\ stack # <<>> /\ ~Waits(World)
  /\ \E ask \in Asks, fate \in Fates(World) : Become(Returned(World, ask, fate))
  /\ UNCHANGED kern

\* Anything that pwhm starts
Start(W) == [W EXCEPT !.left.calls = @ - 1]

\* wifiGen_hapd_syncVapStates, from a commit
SyncVapStates ==
  /\ Idle(World) /\ left.calls > 0
  /\ Become([Start(World) EXCEPT !.look = LookAt(Order)])
  /\ UNCHANGED kern

\* What pwhm sees of the interface that it creates, before the answer
Created(W, lost) ==
  [W EXCEPT !.left.changes = @ - 1, !.left.faults = IF lost THEN @ - 1 ELSE @,
            !.doubt = IF lost THEN @ \cup {Main} ELSE @,
            !.sock = IF lost THEN @ ELSE Append(@, Msg("new", 0, Main, NewIndex))]

\* wifiGen_hapd_restoreMainIface, before hostapd starts and after it has stopped: the
\* main interface that pwhm has no index of is looked for, or created.
RestoreMainIface ==
  /\ Idle(World) /\ left.calls > 0 /\ index[Main] = 0
  /\ LET W == Start(World)
     IN  IF radIndex > 0 \/ kern[Main] > 0
         THEN /\ \E fate \in Fates(W) :
                   Become(IF radIndex > 0 THEN Restore(W, "set", Answer(W, "ack", radIndex), fate)
                          ELSE Restore(W, "check", Answer(W, "new", kern[Main]), fate))
              /\ UNCHANGED kern
         ELSE \/ /\ left.faults > 0
                 /\ Become(Restored(Pay(W, "unsent")))
                 /\ UNCHANGED kern
              \/ /\ left.changes > 0
                 /\ kern' = [kern EXCEPT ![Main] = NewIndex]
                 /\ \E fate \in Fates(W) \ {"unsent"}, lost \in BOOLEAN :
                      LET V == Created(W, lost)
                      IN  /\ lost => left.faults > (IF fate = "answered" THEN 0 ELSE 1)
                          /\ Become(SendMsgSync(V, "create", Msg("new", Fresh(V), Main, NewIndex),
                                                fate))

\* Anybody who asks for an interface, such as wifiGen_vap_status
VapStatus(n) ==
  /\ Idle(World) /\ left.calls > 0 /\ index[n] > 0
  /\ \E fate \in Fates(World) :
       Become(GetInterface(Start(World), "status", index[n], fate))
  /\ UNCHANGED kern

-----------------------------------------------------------------------------
(* The kernel, and time *)

\* An event about n.  Lost during a look, it spoils the look.
Notify(n, m, lost) ==
  /\ lost => left.faults > 0
  /\ left' = [left EXCEPT !.changes = @ - 1, !.faults = IF lost THEN @ - 1 ELSE @]
  /\ sock' = IF lost THEN sock ELSE Append(sock, m)
  /\ doubt' = IF lost THEN doubt \cup {n} ELSE doubt
  /\ strayed' = (strayed \/ (lost /\ n = Main /\ m.type = "del"))
  /\ look' = IF lost THEN [look EXCEPT !.clean = FALSE] ELSE look
  /\ UNCHANGED <<reqs, stack, index, lis, radIndex>>

\* hostapd creates an interface.
Create(n) ==
  /\ kern[n] = 0 /\ left.changes > 0
  /\ kern' = [kern EXCEPT ![n] = NewIndex]
  /\ \E lost \in BOOLEAN : Notify(n, Msg("new", 0, n, NewIndex), lost)

Delete(n) ==
  /\ kern[n] > 0 /\ left.changes > 0
  /\ kern' = [kern EXCEPT ![n] = 0]
  /\ \E lost \in BOOLEAN : Notify(n, Msg("del", 0, n, kern[n]), lost)

\* A scan that pwhm has started on the interface of the radio is done.
ScanEnds ==
  /\ left.calls > 0 /\ kern[Main] > 0
  /\ left' = [left EXCEPT !.calls = @ - 1]
  /\ sock' = Append(sock, Msg("scan", 0, Main, kern[Main]))
  /\ UNCHANGED <<kern, reqs, stack, look, index, lis, radIndex, doubt, strayed>>

\* Anything else that is told to all
OtherEvent ==
  /\ sock = <<>>
  /\ sock' = <<Msg("other", 0, Main, 0)>>
  /\ UNCHANGED <<kern, reqs, stack, look, index, lis, radIndex, doubt, strayed, left>>

\* The time of a request is over, because nothing is coming or because pwhm is slow.
TimeOver ==
  /\ \E r \in reqs :
       LET coming == \E k \in DOMAIN sock : sock[k].seq = r.seq
       IN  /\ ~r.over
           /\ coming => left.faults > 0
           /\ reqs' = (reqs \ {r}) \cup {[r EXCEPT !.over = TRUE]}
           /\ left' = [left EXCEPT !.faults = IF coming THEN @ - 1 ELSE @]
  /\ UNCHANGED <<kern, sock, stack, look, index, lis, radIndex, doubt, strayed>>

-----------------------------------------------------------------------------
Init ==
  /\ kern = [n \in Names |-> CHOOSE j \in DOMAIN Order : Order[j] = n]
  /\ index = kern /\ lis = kern /\ radIndex = kern[Main]
  /\ sock = <<>> /\ reqs = {} /\ stack = <<>> /\ look = LookAt(<<>>)
  /\ doubt = {} /\ strayed = FALSE
  /\ left = [changes |-> MaxChanges, faults |-> MaxFaults, calls |-> MaxCalls]

Goes == ReadHandler \/ Select \/ RefreshIndex \/ RefreshInterface \/ SyncReturns

Next ==
  \/ Goes
  \/ SyncVapStates \/ RestoreMainIface
  \/ \E n \in Names : VapStatus(n) \/ Create(n) \/ Delete(n)
  \/ ScanEnds \/ OtherEvent \/ TimeOver

Spec == Init /\ [][Next]_vars

\* pwhm runs, and time passes: weak fairness, with the guards in place of ENABLED.
CanGo == sock # <<>> \/ (~Idle(World) /\ (~Waits(World) \/ \E r \in reqs : r.over))
Runs == \E r \in reqs : ~r.over /\ \A k \in DOMAIN sock : sock[k].seq # r.seq
Fairness ==
  /\ []<>~CanGo \/ []<><<Goes>>_vars
  /\ []<>~Runs \/ []<><<TimeOver>>_vars

FairSpec == Spec /\ Fairness

-----------------------------------------------------------------------------
(* Properties *)

Messages == [type : {"new", "del", "ack", "error", "part", "done", "scan", "other"}, seq : Nat,
             name : Names, index : Nat]
Requests == [seq : Nat \ {0}, sync : BOOLEAN, over : BOOLEAN]
Frames == [why : {"refresh", "link", "event", "status", "set", "check", "create", "info"},
           seq : Nat \ {0}, got : {"none", "ok", "error"}, name : Names, index : Nat]
Looks == [todo : Seq(Names), cur : Nat, crossed : BOOLEAN, clean : BOOLEAN]

\* Types, with the coherence of the requests: a call that waits has no answer yet and
\* one that is gone has, and every request that is waited for has its call.
TypeOK ==
  /\ kern \in [Names -> Nat] /\ index \in [Names -> Nat] /\ lis \in [Names -> Nat]
  /\ radIndex \in Nat /\ doubt \subseteq Names /\ strayed \in BOOLEAN
  /\ sock \in Seq(Messages) /\ reqs \subseteq Requests
  /\ stack \in Seq(Frames) /\ look \in Looks
  /\ \A j \in DOMAIN stack : stack[j].got = "none" <=> Pending(World, stack[j].seq)
  /\ \A r \in reqs : r.sync <=> \E j \in DOMAIN stack : stack[j].seq = r.seq

\* When pwhm has read all that concerns an interface, and no event of it was lost since
\* it last looked, it has the index of the kernel and listens for it, whatever nested
\* reads, expired requests and late answers were in between; so has the radio, unless an
\* index that is gone may have been left with it.
InStep ==
  Idle(World) =>
    \A n \in Names : ~About(sock, n) =>
      /\ n \notin doubt => index[n] = kern[n] /\ lis[n] = kern[n]
      /\ n = Main => \/ radIndex = kern[n]
                     \/ IF kern[n] = 0 THEN strayed ELSE n \in doubt

\* No request stops pwhm for ever; and as long as anything is read at all, a request that is not
\* waited for ends too, with an answer or without.
Settles ==
  /\ []<>Idle(World)
  /\ []<><<OtherEvent>>_vars => []<>(reqs = {})

=============================================================================
