-------------------------------- MODULE Scan --------------------------------
(***************************************************************************)
(* Scans of the radios: RadMgt/wld_rad_scan.c, nl80211/wld_nl80211_scan.c   *)
(* and the scan events of Plugin/wifiGen_eventHandlers.c.                  *)
(*                                                                         *)
(* A driver scans for one radio of a wiphy at a time.  Where radios share  *)
(* one, sScanPool queues their scans and a delayed call starts the next.   *)
(* Commands to the driver are synchronous: while pwhm waits for the        *)
(* acknowledgement it reads the netlink socket, and handles, inside of the *)
(* command, every event and answer that was queued before it.              *)
(*                                                                         *)
(* Scan arguments and results are left out; a scan is its scanReason, which *)
(* gives its scanType.  upset is history: what has gone wrong in a way the *)
(* README describes.                                                       *)
(***************************************************************************)
EXTENDS Integers, FiniteSetsExt, SequencesExt, Functions

CONSTANTS
  Radios,
  RadioOrder,   \* the radios in the order of the data model
  Wiphys,
  Layouts,      \* the ways the radios may be spread over the wiphys
  NoRad,
  MaxCalls,     \* bound on the scans asked for
  MaxStops,     \* bound on the calls of stopScan
  MaxFaults     \* bound on refused commands, aborted scans and failed dumps

ASSUME ScanAssumption ==
  /\ Radios # {} /\ NoRad \notin Radios
  /\ RadioOrder \in Seq(Radios) /\ ToSet(RadioOrder) = Radios /\ IsInjective(RadioOrder)
  /\ Layouts \subseteq [Radios -> Wiphys]
  /\ MaxCalls \in Nat /\ MaxStops \in Nat /\ MaxFaults \in Nat

Deferred == {"ScanCall", "FullScan", "getSpectrumInfo"}
Reasons == {"StartCall", "NeighboringDiag"} \cup Deferred
Counted == Reasons \cup {"ForcedSpectrumRefresh"}
Addrs == 1..Cardinality(Radios) + 1        \* where scanInfo_t may be allocated
Events == {"done", "aborted", "results", "noResults"}

VARIABLES
  wiphy,    \* the wiphy of each radio, as detected at start
  scan,     \* scanState.scanReason, "None" when no scan runs
  call,     \* scanState.scanFunInfo: the kind of scan the deferred call waits for
  counted,  \* scanState.stats: scans requested and neither done nor failed
  diag,     \* g_neighWiFiDiag, and the radios its call has still to ask
  pool,     \* sScanPool
  late,     \* delayed calls of s_runScan: the addresses they were given
  drv,      \* the scan that the driver of each wiphy runs
  nl,       \* the netlink socket: what pwhm has not read
  asked,    \* requests for results that the kernel has not answered
  left,     \* what remains of the bounds
  upset

vars == <<wiphy, scan, call, counted, diag, pool, late, drv, nl, asked, left, upset>>

\* What a handler works on.  rc is the result of a command, hit the radios
\* whose abort it has handled.
World == [scan |-> scan, call |-> call, counted |-> counted, diag |-> diag, pool |-> pool,
          late |-> late, drv |-> drv, nl |-> nl, asked |-> asked, rc |-> "none", hit |-> {},
          upset |-> upset]

Idle == [rad |-> NoRad, aborting |-> FALSE]
Shared(r) == \E q \in Radios \ {r} : wiphy[q] = wiphy[r]     \* wld_rad_countWiphyRads > 1
Running(S, r) == S.scan[r] # "None"                          \* wld_scan_isRunning

\* Positions in the queue: of a radio, of a wiphy
OfRadio(S, r) == {i \in DOMAIN S.pool : S.pool[i].rad = r}
OfWiphy(S, w) == {i \in DOMAIN S.pool : wiphy[S.pool[i].rad] = w}
HasEntry(S, r) == OfRadio(S, r) # {}                         \* s_findScan
NextScan(S, w) == S.pool[Min(OfWiphy(S, w))]                 \* s_getNextScan, if there is one

-----------------------------------------------------------------------------
(* The end of a scan *)

\* s_sendNeighboringWifiDiagnosticResult, also when the call is not deferred yet.
SendDiag(S) ==
  [S EXCEPT !.diag = [@ EXCEPT !.call = FALSE, !.listens = FALSE, !.completed = {}, !.failed = {}],
            !.upset = IF S.diag.call THEN @ ELSE @ \cup {"diag"}]

\* s_radScanStatusUpdateCb at the end of a scan
DiagEnd(S, r, ok) ==
  LET D == [S EXCEPT !.diag.running = @ \ {r},
                     !.diag.completed = IF ok THEN @ \cup {r} ELSE @,
                     !.diag.failed = IF ok THEN @ ELSE @ \cup {r}]
  IN  IF ~S.diag.listens \/ S.scan[r] # "NeighboringDiag" \/ r \notin S.diag.running THEN S
      ELSE IF D.diag.running = {} THEN SendDiag(D) ELSE D

\* The scan is over before those who follow it are told.
DoneClearedFirst(S, r, ok) ==
  IF ~Running(S, r) THEN S
  ELSE [DiagEnd([S EXCEPT !.counted[r][S.scan[r]] = @ - 1, !.scan[r] = "None"], r, ok)
          EXCEPT !.call[r] = "none"]

\* wld_scan_done, wld_rad_scan_FinishScanCall
Done(S, r, ok) ==
  IF ~Running(S, r) THEN S
  ELSE [DiagEnd([S EXCEPT !.counted[r][S.scan[r]] = @ - 1], r, ok)
          EXCEPT !.call[r] = "none", !.scan[r] = "None"]

\* s_delScan
DelScan(S, r) ==
  IF HasEntry(S, r) THEN [S EXCEPT !.pool = RemoveAt(@, Min(OfRadio(S, r)))] ELSE S

\* s_scheduleNextScan
ScheduleNext(S, r) ==
  LET T == DelScan(S, r)
  IN  IF OfWiphy(T, wiphy[r]) = {} THEN T
      ELSE [T EXCEPT !.late = Append(@, NextScan(T, wiphy[r]).addr)]

-----------------------------------------------------------------------------
(* What is read from the driver *)

\* wld_nl80211_hasStartedScan
HasStarted(S, r) ==
  IF S.pool = <<>> THEN Running(S, r) ELSE \E e \in ToSet(S.pool) : e.rad = r /\ e.started

\* A radio alone on its wiphy is never in the queue: while other radios are, the end of
\* its scan is dropped.
Unheard(S, r) == IF Running(S, r) /\ ~Shared(r) THEN {"unheard"} ELSE {}

\* s_scanDoneCb, s_scanAbortedCb and s_scanResultsCb, with those below them
Handle(S, m) ==
  CASE m.event = "done" -> IF HasStarted(S, m.rad) THEN [S EXCEPT !.asked = Append(@, m.rad)]
                           ELSE [S EXCEPT !.upset = @ \cup Unheard(S, m.rad)]
    [] m.event = "aborted" -> [Done(S, m.rad, FALSE) EXCEPT !.hit = @ \cup {m.rad}]
    [] OTHER -> ScheduleNext(Done(S, m.rad, m.event = "results"), m.rad)

\* s_sendMsgSync: what came before the acknowledgement is handled before it.
Drain(S) ==
  LET after[i \in 0..Len(S.nl)] ==
        IF i = 0 THEN [S EXCEPT !.nl = <<>>] ELSE Handle(after[i - 1], S.nl[i])
  IN  after[Len(S.nl)]

-----------------------------------------------------------------------------
(* Commands to the driver *)

\* s_addScan, without the search for an entry of the radio
AddAnother(S, r, a) == [S EXCEPT !.pool = Append(@, [rad |-> r, started |-> FALSE, addr |-> a])]
\* s_addScan
AddScan(S, r, a) ==
  IF HasEntry(S, r) THEN S
  ELSE [S EXCEPT !.pool = Append(@, [rad |-> r, started |-> FALSE, addr |-> a])]

\* The driver takes the scan.  isStarted is set after the wait, in an entry that
\* may have been freed meanwhile.
Trigger(S, r) ==
  LET D == Drain([S EXCEPT !.drv[wiphy[r]].rad = r])
      Mark(e) == IF e.rad = r THEN [e EXCEPT !.started = TRUE] ELSE e
  IN  [D EXCEPT !.rc = "ok", !.pool = [i \in DOMAIN @ |-> Mark(D.pool[i])],
                !.upset = IF HasEntry(S, r) /\ ~HasEntry(D, r) THEN @ \cup {"queue"} ELSE @]

Refused(S, r) == [ScheduleNext(S, r) EXCEPT !.rc = "error"]

\* wld_rad_nl80211_startScanExt
StartExt(S, r, fault, a) ==
  LET T == IF Shared(r) THEN AddScan(S, r, a) ELSE S
  IN  IF fault = "noIface" THEN Refused(S, r)
      ELSE IF Shared(r) /\ NextScan(T, wiphy[r]).rad # r THEN [T EXCEPT !.rc = "continue"]
      ELSE IF fault = "refused" \/ S.drv[wiphy[r]].rad # NoRad THEN Refused(Drain(T), r)
      ELSE Trigger(T, r)

\* s_notifyStartScan
Notify(S, r, reason) ==
  [S EXCEPT !.scan[r] = reason, !.counted[r][reason] = @ + 1,
            !.diag.running = IF reason = "NeighboringDiag" /\ S.diag.listens THEN @ \cup {r} ELSE @]

\* wld_scan_start
ScanStart(S, r, reason, fault, a) ==
  LET T == StartExt(S, r, fault, a) IN IF T.rc = "error" THEN T ELSE Notify(T, r, reason)

\* s_startScan, s_isScanRequestReady
StartScan(S, r, reason, fault, a) ==
  IF Running(S, r) THEN [S EXCEPT !.rc = "error"] ELSE ScanStart(S, r, reason, fault, a)

\* s_runScan, for the entry that is at the address now
RunScanSilent(S, a, fault) ==
  LET r == (CHOOSE e \in ToSet(S.pool) : e.addr = a).rad
  IN  IF \A e \in ToSet(S.pool) : e.addr # a THEN S ELSE StartExt(S, r, fault, a)
RunScan(S, a, fault) ==
  LET r == (CHOOSE e \in ToSet(S.pool) : e.addr = a).rad
      T == StartExt(S, r, fault, a)
  IN  IF \A e \in ToSet(S.pool) : e.addr # a THEN S
      ELSE IF T.rc = "error" THEN Done(T, r, FALSE) ELSE T

\* A stop that fails drops the entry of a scan that has still to be run.
Dropped(S, r) == HasEntry(S, r) /\ Running(S, r) /\ r \notin ToSet(S.asked)

\* wld_scan_stop, wld_rad_nl80211_abortScan.  The driver aborts what it runs on
\* the wiphy; early: it reports so before the acknowledgement.
ScanStop(S, r, fault, early) ==
  LET d == S.drv[wiphy[r]]
      ok == fault = "none" /\ d.rad # NoRad
      T == IF ~ok THEN S
           ELSE IF ~early THEN [S EXCEPT !.drv[wiphy[r]].aborting = TRUE]
           ELSE [S EXCEPT !.drv[wiphy[r]] = Idle,
                          !.nl = Append(@, [event |-> "aborted", rad |-> d.rad])]
      U == ScheduleNext(Drain(T), r)
  IN  IF ok THEN Done(U, r, FALSE)
      ELSE IF Dropped(Drain(T), r) THEN [U EXCEPT !.upset = @ \cup {"queue"}] ELSE U

-----------------------------------------------------------------------------
\* An abort leaves the entry of the radio at the head of the queue.
StaleHead(S) == \E e \in ToSet(S.pool) : e.started /\ e.rad \in S.hit

Become(S) ==
  /\ scan' = S.scan /\ call' = S.call /\ counted' = S.counted /\ diag' = S.diag
  /\ pool' = S.pool /\ late' = S.late /\ drv' = S.drv /\ nl' = S.nl /\ asked' = S.asked
  /\ upset' = S.upset \cup (IF StaleHead(S) THEN {"queue"} ELSE {})
  /\ UNCHANGED wiphy

Init ==
  /\ wiphy \in Layouts
  /\ scan = [r \in Radios |-> "None"] /\ call = [r \in Radios |-> "none"]
  /\ counted = [r \in Radios |-> [k \in Counted |-> 0]]
  /\ diag = [call |-> FALSE, listens |-> FALSE, todo |-> <<>>,
             running |-> {}, completed |-> {}, failed |-> {}]
  /\ pool = <<>> /\ late = <<>> /\ drv = [w \in Wiphys |-> Idle] /\ nl = <<>> /\ asked = <<>>
  /\ left = [calls |-> MaxCalls, stops |-> MaxStops, faults |-> MaxFaults]
  /\ upset = {}

\* pwhm is one thread: between two radios of one diagnostic it does nothing else.
Free == diag.todo = <<>>

Faults == {"none", "noIface", "refused"}
Spend(fault) == fault # "none" => left.faults > 0
Paid(l, fault) == IF fault = "none" THEN l ELSE [l EXCEPT !.faults = @ - 1]
FreeAddrs == Addrs \ {e.addr : e \in ToSet(pool)}

-----------------------------------------------------------------------------
(* Calls *)

\* Calls that are refused because a scan runs change nothing and are left out.
Asked(r, fault) == Free /\ left.calls > 0 /\ Spend(fault) /\ ~Running(World, r)
CallPaid(fault) == left' = Paid([left EXCEPT !.calls = @ - 1], fault)
Defer(S, r, kind) == IF S.rc = "error" THEN S ELSE [S EXCEPT !.call[r] = kind]

\* _scan and _scanCombinedData; _Radio_startScan, which does not wait
ScanCall(r, fault, a) ==
  /\ Asked(r, fault)
  /\ \/ Become(Defer(StartScan(World, r, "ScanCall", fault, a), r, "ScanCall"))
     \/ Become(StartScan(World, r, "StartCall", fault, a))
  /\ CallPaid(fault)

\* _Radio_FullScan
FullScan(r, fault, a) ==
  /\ Asked(r, fault) /\ call[r] = "none"
  /\ Become(Defer(StartScan(World, r, "FullScan", fault, a), r, "FullScan"))
  /\ CallPaid(fault)

\* _getSpectrumInfo with update: the start is notified twice.
Refreshed(S, r) == IF S.rc = "error" THEN S ELSE Notify(S, r, "getSpectrumInfo")
GetSpectrumInfo(r, fault, a) ==
  /\ Asked(r, fault)
  /\ Become(Defer(Refreshed(ScanStart(World, r, "ForcedSpectrumRefresh", fault, a), r),
                  r, "getSpectrumInfo"))
  /\ CallPaid(fault)

\* _NeighboringWiFiDiagnostic up to its loop over the radios
Diagnostic ==
  /\ Free /\ left.calls > 0 /\ ~diag.call
  /\ diag' = [call |-> FALSE, listens |-> TRUE, todo |-> RadioOrder,
              running |-> {}, completed |-> {}, failed |-> {}]
  /\ left' = [left EXCEPT !.calls = @ - 1]
  /\ UNCHANGED <<wiphy, scan, call, counted, pool, late, drv, nl, asked, upset>>

\* The loop for one radio; after the last the call is deferred if a scan runs.
DiagnosticAsks(fault, a) ==
  LET r == Head(diag.todo)
      S == StartScan(World, r, "NeighboringDiag", fault, a)
      T == IF S.rc = "error" THEN [S EXCEPT !.diag.failed = @ \cup {r}] ELSE S
      waits == T.diag.running # {}
  IN  /\ ~Free /\ Spend(fault)
      /\ Become([T EXCEPT !.diag.todo = Tail(@),
                          !.diag.call = IF Len(diag.todo) = 1 THEN waits ELSE @,
                          !.diag.listens = IF Len(diag.todo) = 1 THEN @ /\ waits ELSE @])
      /\ left' = Paid(left, fault)

\* _stopScan
StopScan(r, fault, early) ==
  /\ Free /\ left.stops > 0 /\ Spend(fault)
  /\ Running(World, r)
  /\ Become(ScanStop(World, r, fault, early))
  /\ left' = Paid([left EXCEPT !.stops = @ - 1], fault)

-----------------------------------------------------------------------------
(* The event loop *)

ReadNl ==
  /\ Free /\ nl # <<>>
  /\ Become(Handle([World EXCEPT !.nl = Tail(@)], Head(nl)))
  /\ UNCHANGED left

DelayedRun(fault) ==
  /\ Free /\ late # <<>> /\ Spend(fault)
  /\ Become(RunScan([World EXCEPT !.late = Tail(@)], Head(late), fault))
  /\ left' = Paid(left, fault)

-----------------------------------------------------------------------------
(* The driver *)

Report(m) == nl' = Append(nl, m) /\ UNCHANGED <<wiphy, scan, call, counted, diag, pool, late, upset>>

ScanEnds(w) ==
  /\ drv[w].rad # NoRad
  /\ drv' = [drv EXCEPT ![w] = Idle]
  /\ Report([event |-> IF drv[w].aborting THEN "aborted" ELSE "done", rad |-> drv[w].rad])
  /\ UNCHANGED <<asked, left>>

\* The driver gives a scan up of itself.
ScanAborted(w) ==
  /\ drv[w].rad # NoRad /\ ~drv[w].aborting /\ left.faults > 0
  /\ drv' = [drv EXCEPT ![w] = Idle]
  /\ Report([event |-> "aborted", rad |-> drv[w].rad])
  /\ left' = [left EXCEPT !.faults = @ - 1]
  /\ UNCHANGED asked

Answers(ok) ==
  /\ asked # <<>> /\ (ok \/ left.faults > 0)
  /\ asked' = Tail(asked)
  /\ Report([event |-> IF ok THEN "results" ELSE "noResults", rad |-> Head(asked)])
  /\ left' = IF ok THEN left ELSE [left EXCEPT !.faults = @ - 1]
  /\ UNCHANGED drv

-----------------------------------------------------------------------------
Asks == \E fault \in Faults, a \in FreeAddrs : DiagnosticAsks(fault, a)
Runs == \E fault \in Faults : DelayedRun(fault)
Ends == \E w \in Wiphys : ScanEnds(w) \/ ScanAborted(w)
Answered == \E ok \in BOOLEAN : Answers(ok)

Next ==
  \/ \E r \in Radios, fault \in Faults :
       \/ \E a \in FreeAddrs :
            ScanCall(r, fault, a) \/ FullScan(r, fault, a) \/ GetSpectrumInfo(r, fault, a)
       \/ \E early \in BOOLEAN : StopScan(r, fault, early)
  \/ Diagnostic \/ Asks \/ ReadNl \/ Runs \/ Ends \/ Answered

Spec == Init /\ [][Next]_vars

\* pwhm serves what is ready and the driver ends what it runs: weak fairness,
\* with the guard of each action in place of ENABLED.
Fairness ==
  /\ []<>Free \/ []<><<Asks>>_vars
  /\ []<>~(Free /\ nl # <<>>) \/ []<><<ReadNl>>_vars
  /\ []<>~(Free /\ late # <<>>) \/ []<><<Runs>>_vars
  /\ []<>(\A w \in Wiphys : drv[w].rad = NoRad) \/ []<><<Ends>>_vars
  /\ []<>(asked = <<>>) \/ []<><<Answered>>_vars

FairSpec == Spec /\ Fairness

-----------------------------------------------------------------------------
(* Properties *)

\* The queue holds a radio once, an address once, and of each wiphy only the
\* first scan is started.
PoolCoherent ==
  /\ \A i, j \in DOMAIN pool : i # j => pool[i].rad # pool[j].rad /\ pool[i].addr # pool[j].addr
  /\ \A i \in DOMAIN pool :
       pool[i].started => \A j \in 1..(i - 1) : wiphy[pool[j].rad] # wiphy[pool[i].rad]

\* Types, with the coherence of sScanPool.
TypeOK ==
  /\ wiphy \in [Radios -> Wiphys]
  /\ scan \in [Radios -> Reasons \cup {"None"}]
  /\ call \in [Radios -> Deferred \cup {"none"}]
  /\ counted \in [Radios -> [Counted -> 0..MaxCalls]]
  /\ diag \in [call : BOOLEAN, listens : BOOLEAN, todo : Seq(Radios), running : SUBSET Radios,
               completed : SUBSET Radios, failed : SUBSET Radios]
  /\ pool \in Seq([rad : Radios, started : BOOLEAN, addr : Addrs])
  /\ late \in Seq(Addrs)
  /\ drv \in [Wiphys -> [rad : Radios \cup {NoRad}, aborting : BOOLEAN]]
  /\ nl \in Seq([event : Events, rad : Radios]) /\ asked \in Seq(Radios)
  /\ upset \subseteq {"queue", "diag", "unheard"}
  /\ PoolCoherent

\* Scans, calls and counters go together: a deferred call waits for the scan of
\* its own kind, every scan that ended was counted so once, and a diagnostic is
\* pending exactly for the radios whose diagnostic scan runs, having heard of
\* each of the others.
InStep ==
  /\ \A r \in Radios : call[r] # "none" => scan[r] = call[r]
  /\ \A r \in Radios, k \in Reasons : counted[r][k] = IF scan[r] = k THEN 1 ELSE 0
  /\ Free /\ "diag" \notin upset =>
       /\ diag.call <=> diag.running # {}
       /\ diag.running = {r \in Radios : scan[r] = "NeighboringDiag"}
       /\ diag.call => diag.completed \cup diag.failed = Radios \ diag.running

\* What a radio does not get over: on a shared wiphy an abort or a failed stop that has left
\* the queue wrong, alone on its wiphy an end that was dropped.
Stuck(r) == (IF Shared(r) THEN "queue" ELSE "unheard") \in upset

\* Every scan ends, in the data model too, and with it the call that waits for it, but for
\* those of a radio that is stuck; and a diagnostic ends unless it waits for such a radio.
Settles ==
  <>[](/\ \A r \in Radios : Stuck(r) \/ (scan[r] = "None" /\ call[r] = "none")
       /\ diag.call => \E r \in diag.running : Stuck(r))

=============================================================================
