----------------------------- MODULE Scan_proofs -----------------------------
(***************************************************************************)
(* Proofs about scans, for any radios, wiphys and bounds.                  *)
(***************************************************************************)
EXTENDS Scan, SequenceTheorems, Iteration, TLAPS

(***************************************************************************)
(* The handlers work on a record of the state: so do the invariants here.  *)
(***************************************************************************)
Scans == Reasons \cup {"None"}
Kinds == Deferred \cup {"none"}
Diags == [call : BOOLEAN, listens : BOOLEAN, todo : Seq(Radios), running : SUBSET Radios,
          completed : SUBSET Radios, failed : SUBSET Radios]
Infos == [rad : Radios, started : BOOLEAN, addr : Addrs]
Drvs == [rad : Radios \cup {NoRad}, aborting : BOOLEAN]
Msgs == [event : Events, rad : Radios]
Counters == [Counted -> Nat]
State == [scan : [Radios -> Scans], call : [Radios -> Kinds], counted : [Radios -> Counters],
          diag : Diags, pool : Seq(Infos), late : Seq(Addrs), drv : [Wiphys -> Drvs],
          nl : Seq(Msgs), asked : Seq(Radios), rc : {"none", "ok", "error", "continue"},
          hit : SUBSET Radios, upset : SUBSET {"queue", "diag", "unheard"}]

Waiting(S) == \A r \in Radios : S.call[r] # "none" => S.scan[r] = S.call[r]
Counting(S) == \A r \in Radios, k \in Reasons : S.counted[r][k] = IF S.scan[r] = k THEN 1 ELSE 0

\* The diagnostic, after its call and while it asks one radio after the other.
DiagRuns(S) == S.diag.running = {r \in Radios : S.scan[r] = "NeighboringDiag"}
DiagPending(S) ==
  /\ S.diag.call <=> S.diag.running # {}
  /\ S.diag.listens <=> S.diag.call
  /\ S.diag.call => S.diag.completed \cup S.diag.failed = Radios \ S.diag.running
DiagAsking(S) ==
  /\ S.diag.listens /\ ~S.diag.call
  /\ S.diag.running \cap ToSet(S.diag.todo) = {}
  /\ S.diag.completed \cup S.diag.failed = Radios \ (S.diag.running \cup ToSet(S.diag.todo))
Diagnosed(S) ==
  "diag" \notin S.upset => /\ DiagRuns(S)
                           /\ IF S.diag.todo = <<>> THEN DiagPending(S) ELSE DiagAsking(S)

\* The queue: PoolCoherent of a record.
Before(S, i) == \A j \in 1..(i - 1) : wiphy[S.pool[j].rad] # wiphy[S.pool[i].rad]
Queued(S) ==
  /\ \A i, j \in DOMAIN S.pool :
       i # j => S.pool[i].rad # S.pool[j].rad /\ S.pool[i].addr # S.pool[j].addr
  /\ \A i \in DOMAIN S.pool : S.pool[i].started => Before(S, i)

Good(S) ==
  /\ S \in State /\ IsInjective(S.diag.todo)
  /\ Waiting(S) /\ Counting(S) /\ Diagnosed(S) /\ Queued(S)

\* What a handler of a message may do besides: end scans.
Quiet(S, T) ==
  /\ \A q \in Radios : T.scan[q] \in {S.scan[q], "None"}
  /\ \A q \in Radios : T.counted[q]["ForcedSpectrumRefresh"] = S.counted[q]["ForcedSpectrumRefresh"]
  /\ T.diag.todo = S.diag.todo /\ S.upset \subseteq T.upset

\* The scan of the radio, if it is in the queue, is the next one of its wiphy.
First(S, r) == \A i \in DOMAIN S.pool : S.pool[i].rad = r => Before(S, i)

\* Nothing but queues and the driver differs.
SameScans(S, T) ==
  /\ T.scan = S.scan /\ T.call = S.call /\ T.counted = S.counted /\ T.diag = S.diag
  /\ T.upset = S.upset

\* Scans are counted as long as there is something left of MaxCalls.
Budget ==
  /\ left \in [calls : 0..MaxCalls, stops : 0..MaxStops, faults : 0..MaxFaults]
  /\ \A r \in Radios : counted[r]["ForcedSpectrumRefresh"] + left.calls <= MaxCalls
  /\ left.calls = MaxCalls => Free /\ \A r \in Radios : scan[r] = "None"

IInv == wiphy \in [Radios -> Wiphys] /\ Good(World) /\ Budget

-----------------------------------------------------------------------------
(* The socket, read while a command waits *)

\* What holds of the state as a command is sent, and is kept by each handler,
\* holds when its acknowledgement is read.
LEMMA Drained ==
  ASSUME NEW V, NEW S \in State, [S EXCEPT !.nl = <<>>] \in V,
         \A T \in V, m \in Msgs : Handle(T, m) \in V
  PROVE  Drain(S) \in V
<1> DEFINE n == Len(S.nl)
           b == [S EXCEPT !.nl = <<>>]
           F(g) == [i \in 0..n |-> IF i = 0 THEN b ELSE Handle(g[i - 1], S.nl[i])]
           after == CHOOSE g : g = F(g)
           h == [p \in V \X (1..n) |-> Handle(p[1], S.nl[p[2]])]
<1>1. S.nl \in Seq(Msgs) /\ n \in Nat
  BY DEF State
<1>2. \A i \in 1..n : S.nl[i] \in Msgs
  BY <1>1
<1>3. h \in [V \X (1..n) -> V]
  BY <1>2
<1>4. \A T \in V, i \in 1..n : h[<<T, i>>] = Handle(T, S.nl[i])
  OBVIOUS
<1> HIDE DEF h, b, n
<1>5. b \in V
  BY DEF b
<1>6. PICK f : IsRun(f, V, n, b, h)
  <2>1. n \in Nat
    BY <1>1
  <2>2. QED
    BY <1>3, <1>5, <2>1, Steps
<1>7. f = F(f)
  <2>1. \A k \in 1..n : k - 1 \in 0..n
    BY <1>1
  <2>2. \A k \in 1..n : f[k] = Handle(f[k - 1], S.nl[k])
    BY <1>4, <1>6, <2>1 DEF IsRun
  <2>3. \A k \in 0..n : f[k] = IF k = 0 THEN b ELSE Handle(f[k - 1], S.nl[k])
    BY <1>1, <1>6, <2>2 DEF IsRun
  <2>4. QED
    BY <1>6, <2>3 DEF IsRun
<1>8. after = F(after)
  BY <1>7, Zenon
<1> HIDE DEF after
<1> DEFINE In == {k \in 0..n : after[k] \in V}
<1>9. 0 \in In
  <2>1. 0 \in 0..n
    BY <1>1
  <2>2. after[0] = b
    BY <1>8, <2>1
  <2>3. QED
    BY <1>5, <2>1, <2>2
<1>10. ASSUME NEW k \in 1..n, k - 1 \in In
       PROVE  k \in In
  <2>1. k \in 0..n /\ k # 0
    BY <1>1
  <2>2. after[k] = Handle(after[k - 1], S.nl[k])
    BY <1>8, <2>1
  <2>3. QED
    BY <1>2, <1>10, <2>1, <2>2
<1>11. n \in In
  <2> HIDE DEF In
  <2>1. n \in 0..n
    BY <1>1
  <2>2. QED
    BY <1>1, <1>9, <1>10, <2>1, UpTo
<1>12. after[n] \in V
  BY <1>11
<1>13. Drain(S) = after[n]
  BY Zenon DEF Drain, after, n, b
<1>14. QED
  BY <1>12, <1>13

-----------------------------------------------------------------------------
(* The queue *)

LEMMA SameScansKeep ==
  ASSUME NEW S, NEW T, Good(S), T \in State, SameScans(S, T), Queued(T)
  PROVE  Good(T) /\ Quiet(S, T)
<1>1. S \in State /\ IsInjective(T.diag.todo)
  BY DEF Good, SameScans
<1>2. Waiting(T) /\ Counting(T)
  BY DEF Good, SameScans, Waiting, Counting
<1>3. Diagnosed(T)
  BY DEF Good, SameScans, Diagnosed, DiagRuns, DiagPending, DiagAsking
<1>4. Quiet(S, T)
  BY DEF SameScans, Quiet
<1>5. QED
  BY <1>1, <1>2, <1>3, <1>4 DEF Good

\* An entry is removed: the others stay in their order.
LEMMA DelScanKeeps ==
  ASSUME NEW S, Good(S), NEW r \in Radios
  PROVE  LET T == DelScan(S, r) IN
         /\ T \in State /\ SameScans(S, T) /\ T.late = S.late /\ Queued(T)
         /\ \A q \in Radios : First(S, q) => First(T, q)
<1> DEFINE I == OfRadio(S, r)
           k == Min(I)
           T == DelScan(S, r)
<1>1. S \in State /\ Queued(S) /\ S.pool \in Seq(Infos) /\ Len(S.pool) \in Nat
      /\ DOMAIN S.pool = 1..Len(S.pool)
  BY DEF Good, State
<1>2. CASE ~HasEntry(S, r)
  BY <1>1, <1>2 DEF DelScan, SameScans
<1>3. CASE HasEntry(S, r)
  <2>1. I \in SUBSET Nat /\ I # {} /\ I \subseteq 1..Len(S.pool)
    BY <1>1, <1>3 DEF OfRadio, HasEntry
  <2>2. k \in 1..Len(S.pool)
    BY <2>1, MinNat
  <2> HIDE DEF k
  <2> DEFINE p == RemoveAt(S.pool, k)
             at(j) == IF j < k THEN j ELSE j + 1
  <2>3. /\ p \in Seq(Infos) /\ Len(p) = Len(S.pool) - 1
        /\ \A j \in 1..(Len(S.pool) - 1) : p[j] = S.pool[at(j)]
    BY <1>1, <2>2, RemoveAtFacts
  <2> HIDE DEF p
  <2>4. T = [S EXCEPT !.pool = p]
    BY <1>3 DEF DelScan, p, k
  <2>5. T \in State /\ SameScans(S, T) /\ T.late = S.late /\ T.pool = p
    BY <1>1, <2>3, <2>4 DEF State, SameScans
  <2> HIDE DEF T
  <2>6. DOMAIN T.pool = 1..(Len(S.pool) - 1)
    BY <2>3, <2>5
  <2>7. \A j \in DOMAIN T.pool : at(j) \in DOMAIN S.pool /\ T.pool[j] = S.pool[at(j)]
    BY <1>1, <2>2, <2>3, <2>5, <2>6
  <2>8. ASSUME NEW j \in DOMAIN T.pool, Before(S, at(j))
        PROVE  Before(T, j)
    <3>1. SUFFICES ASSUME NEW l \in 1..(j - 1)
                   PROVE  wiphy[T.pool[l].rad] # wiphy[T.pool[j].rad]
      BY DEF Before
    <3>2. l \in DOMAIN T.pool /\ at(l) \in 1..(at(j) - 1)
      BY <2>2, <2>6, <1>1
    <3>3. QED
      BY <2>7, <2>8, <3>2 DEF Before
  <2>9. Queued(T)
    <3>1. ASSUME NEW i \in DOMAIN T.pool, NEW j \in DOMAIN T.pool, i # j
          PROVE  T.pool[i].rad # T.pool[j].rad /\ T.pool[i].addr # T.pool[j].addr
      <4>1. at(i) # at(j)
        BY <2>2, <2>6, <1>1, <3>1
      <4>2. QED
        BY <1>1, <2>7, <4>1 DEF Queued
    <3>2. ASSUME NEW i \in DOMAIN T.pool, T.pool[i].started
          PROVE  Before(T, i)
      BY <1>1, <2>7, <2>8, <3>2 DEF Queued
    <3>3. QED
      BY <3>1, <3>2 DEF Queued
  <2>10. ASSUME NEW q \in Radios, First(S, q)
         PROVE  First(T, q)
    BY <2>7, <2>8, <2>10 DEF First
  <2>11. QED
    BY <2>5, <2>9, <2>10 DEF T
<1>4. QED
  BY <1>2, <1>3

\* s_scheduleNextScan
LEMMA ScheduleNextKeeps ==
  ASSUME NEW S, Good(S), NEW r \in Radios
  PROVE  LET T == ScheduleNext(S, r) IN
         Good(T) /\ Quiet(S, T) /\ \A q \in Radios : First(S, q) => First(T, q)
<1> DEFINE U == DelScan(S, r)
           T == ScheduleNext(S, r)
           I == OfWiphy(U, wiphy[r])
           n == NextScan(U, wiphy[r])
<1>1. U \in State /\ SameScans(S, U) /\ Queued(U) /\ \A q \in Radios : First(S, q) => First(U, q)
  BY DelScanKeeps
<1> HIDE DEF U
<1>2. U.pool \in Seq(Infos) /\ Len(U.pool) \in Nat /\ DOMAIN U.pool = 1..Len(U.pool)
  BY <1>1 DEF State
<1>3. T = IF I = {} THEN U ELSE [U EXCEPT !.late = Append(@, n.addr)]
  BY DEF ScheduleNext, U
<1>4. I # {} => n \in Infos
  <2>1. SUFFICES ASSUME I # {} PROVE n \in Infos
    OBVIOUS
  <2>2. I \in SUBSET Nat /\ I \subseteq 1..Len(U.pool)
    BY <1>2 DEF OfWiphy
  <2>3. Min(I) \in I
    BY <2>1, <2>2, MinNat
  <2>4. Min(I) \in 1..Len(U.pool)
    BY <2>2, <2>3
  <2>5. n = U.pool[Min(I)]
    BY DEF NextScan
  <2> HIDE DEF I, n
  <2>6. QED
    BY <1>2, <2>4, <2>5
<1> HIDE DEF I, n
<1>5. I # {} => Append(U.late, n.addr) \in Seq(Addrs)
  BY <1>1, <1>4 DEF State, Infos
<1>6. T \in State /\ SameScans(U, T) /\ T.pool = U.pool
  BY <1>1, <1>3, <1>5, ZenonT(60) DEF State, SameScans
<1> HIDE DEF T
<1>7. SameScans(S, T) /\ Queued(T)
  BY <1>1, <1>6 DEF SameScans, Queued, Before
<1>8. \A q \in Radios : First(S, q) => First(T, q)
  BY <1>1, <1>6 DEF First, Before
<1>9. QED
  BY <1>6, <1>7, <1>8, SameScansKeep DEF T

-----------------------------------------------------------------------------
(* The end of a scan *)

LEMMA ReasonFacts ==
  /\ Deferred \subseteq Reasons /\ Reasons \subseteq Counted
  /\ "ForcedSpectrumRefresh" \notin Reasons /\ "ForcedSpectrumRefresh" \in Counted
  /\ "NeighboringDiag" \in Reasons /\ "NeighboringDiag" \notin Deferred
  /\ "None" \notin Counted /\ "none" \notin Counted
  BY DEF Reasons, Deferred, Counted

\* What follows the diagnostic takes the radio out of it, and ends it with the last.
Outside(S, r) ==
  ~S.diag.listens \/ S.scan[r] # "NeighboringDiag" \/ r \notin S.diag.running
DiagEnded(S, T, r) ==
  /\ T \in State /\ T.diag.todo = S.diag.todo
  /\ T.scan = S.scan /\ T.call = S.call /\ T.counted = S.counted /\ T.pool = S.pool
  /\ Outside(S, r) => T.diag = S.diag /\ T.upset = S.upset
  /\ ~Outside(S, r) /\ S.diag.running \ {r} = {} =>
       /\ ~T.diag.call /\ ~T.diag.listens /\ T.diag.running = {}
       /\ T.upset = IF S.diag.call THEN S.upset ELSE S.upset \cup {"diag"}
  /\ ~Outside(S, r) /\ S.diag.running \ {r} # {} =>
       /\ T.diag.call = S.diag.call /\ T.diag.listens = S.diag.listens
       /\ T.diag.running = S.diag.running \ {r}
       /\ T.diag.completed \cup T.diag.failed = S.diag.completed \cup S.diag.failed \cup {r}
       /\ T.upset = S.upset

LEMMA DiagEndEffect ==
  ASSUME NEW S \in State, NEW r \in Radios, NEW ok \in BOOLEAN
  PROVE  DiagEnded(S, DiagEnd(S, r, ok), r)
<1> DEFINE D == [S EXCEPT !.diag.running = @ \ {r},
                          !.diag.completed = IF ok THEN @ \cup {r} ELSE @,
                          !.diag.failed = IF ok THEN @ ELSE @ \cup {r}]
           T == DiagEnd(S, r, ok)
<1>1. /\ D \in State
      /\ D.scan = S.scan /\ D.call = S.call /\ D.counted = S.counted /\ D.pool = S.pool
      /\ D.upset = S.upset
      /\ D.diag.todo = S.diag.todo /\ D.diag.call = S.diag.call
      /\ D.diag.listens = S.diag.listens /\ D.diag.running = S.diag.running \ {r}
  BY ZenonT(60) DEF State, Diags
<1>2. D.diag.completed \cup D.diag.failed = S.diag.completed \cup S.diag.failed \cup {r}
  BY DEF State, Diags
<1> HIDE DEF D
<1>3. T = IF ~S.diag.listens \/ S.scan[r] # "NeighboringDiag" \/ r \notin S.diag.running THEN S
          ELSE IF D.diag.running = {} THEN SendDiag(D) ELSE D
  BY DEF DiagEnd, D
<1> HIDE DEF T
<1>4. LET E == SendDiag(D) IN
      /\ E \in State
      /\ E.scan = D.scan /\ E.call = D.call /\ E.counted = D.counted /\ E.pool = D.pool
      /\ E.diag.todo = D.diag.todo /\ E.diag.running = D.diag.running
      /\ ~E.diag.call /\ ~E.diag.listens
      /\ E.upset = IF D.diag.call THEN D.upset ELSE D.upset \cup {"diag"}
  BY <1>1 DEF State, Diags, SendDiag
<1>5. QED
  BY <1>1, <1>2, <1>3, <1>4 DEF T, DiagEnded, Outside

\* wld_scan_done
LEMMA DoneKeeps ==
  ASSUME NEW S, Good(S), NEW r \in Radios, NEW ok \in BOOLEAN
  PROVE  LET T == Done(S, r, ok) IN
         /\ Good(T) /\ Quiet(S, T) /\ T.pool = S.pool /\ T.scan[r] = "None"
         /\ \A q \in Radios : T.scan[q] = "NeighboringDiag" <=> q # r /\ S.scan[q] = "NeighboringDiag"
<1> DEFINE C == [S EXCEPT !.counted[r][S.scan[r]] = @ - 1]
           D == DiagEnd(C, r, ok)
           T == Done(S, r, ok)
<1>1. /\ S \in State /\ S.scan[r] \in Scans /\ S.counted \in [Radios -> Counters]
      /\ S.scan \in [Radios -> Scans] /\ S.call \in [Radios -> Kinds]
  BY DEF Good, State
<1>2. CASE ~Running(S, r)
  <2>1. T = S
    BY <1>2 DEF Done
  <2>2. Quiet(S, S)
    BY DEF Quiet
  <2>3. QED
    BY <1>2, <2>1, <2>2 DEF Running
<1>3. CASE Running(S, r)
  <2>1. S.scan[r] \in Reasons /\ S.counted[r][S.scan[r]] = 1
    BY <1>1, <1>3, ReasonFacts DEF Running, Scans, Good, Counting
  <2> DEFINE c == [S.counted EXCEPT ![r][S.scan[r]] = @ - 1]
  <2>2. /\ c \in [Radios -> Counters]
        /\ \A q \in Radios, k \in Counted :
             c[q][k] = IF q = r /\ k = S.scan[r] THEN 0 ELSE S.counted[q][k]
    BY <1>1, <2>1, ReasonFacts DEF Counters
  <2>3. C = [S EXCEPT !.counted = c]
    BY <1>1 DEF State
  <2> HIDE DEF c
  <2>4. /\ C \in State /\ C.scan = S.scan /\ C.call = S.call /\ C.diag = S.diag /\ C.pool = S.pool
        /\ C.upset = S.upset /\ C.counted = c
    BY <1>1, <2>2, <2>3 DEF State
  <2> HIDE DEF C
  <2> DEFINE skip == ~S.diag.listens \/ S.scan[r] # "NeighboringDiag" \/ r \notin S.diag.running
             over == S.diag.running \ {r} = {}
  <2>5. DiagEnded(C, D, r)
    BY <2>4, DiagEndEffect
  <2>6. /\ D \in State /\ D.diag.todo = S.diag.todo
        /\ D.scan = S.scan /\ D.call = S.call /\ D.counted = c /\ D.pool = S.pool
    BY <2>4, <2>5 DEF DiagEnded
  <2>7. skip => D.diag = S.diag /\ D.upset = S.upset
    BY <2>4, <2>5 DEF DiagEnded, Outside
  <2>8. ~skip /\ over => /\ ~D.diag.call /\ ~D.diag.listens /\ D.diag.running = {}
                         /\ D.upset = IF S.diag.call THEN S.upset ELSE S.upset \cup {"diag"}
    BY <2>4, <2>5 DEF DiagEnded, Outside
  <2>9. ~skip /\ ~over =>
              /\ D.diag.call = S.diag.call /\ D.diag.listens = S.diag.listens
              /\ D.diag.running = S.diag.running \ {r}
              /\ D.diag.completed \cup D.diag.failed = S.diag.completed \cup S.diag.failed \cup {r}
              /\ D.upset = S.upset
    BY <2>4, <2>5 DEF DiagEnded, Outside
  <2> HIDE DEF D
  <2>10. T = [D EXCEPT !.call[r] = "none", !.scan[r] = "None"]
    BY <1>3 DEF Done, D, C
  <2> DEFINE sc == [S.scan EXCEPT ![r] = "None"]
             cl == [S.call EXCEPT ![r] = "none"]
  <2>21. sc \in [Radios -> Scans] /\ cl \in [Radios -> Kinds]
    BY <1>1 DEF Scans, Kinds
  <2>22. T = [D EXCEPT !.call = cl, !.scan = sc]
    BY <2>6, <2>10 DEF State
  <2>23. /\ sc[r] = "None" /\ cl[r] = "none"
         /\ \A q \in Radios \ {r} : sc[q] = S.scan[q] /\ cl[q] = S.call[q]
    BY <1>1
  <2> HIDE DEF sc, cl, T
  <2>11. /\ T \in State /\ T.diag = D.diag /\ T.counted = c /\ T.pool = S.pool
         /\ T.upset = D.upset /\ T.scan = sc /\ T.call = cl
    BY <2>6, <2>21, <2>22 DEF State
  <2>12. /\ T.scan[r] = "None" /\ T.call[r] = "none"
         /\ \A q \in Radios \ {r} : T.scan[q] = S.scan[q] /\ T.call[q] = S.call[q]
    BY <2>11, <2>23
  <2>13. Waiting(T)
    BY <2>12 DEF Good, Waiting
  <2>14. Counting(T)
    <3>1. SUFFICES ASSUME NEW q \in Radios, NEW k \in Reasons
                   PROVE  T.counted[q][k] = IF T.scan[q] = k THEN 1 ELSE 0
      BY DEF Counting
    <3>2. k \in Counted /\ k # "None"
      BY ReasonFacts
    <3>3. S.counted[q][k] = IF S.scan[q] = k THEN 1 ELSE 0
      BY DEF Good, Counting
    <3>4. QED
      BY <2>2, <2>11, <2>12, <3>2, <3>3
  <2>15. \A q \in Radios : T.scan[q] = "NeighboringDiag" <=> q # r /\ S.scan[q] = "NeighboringDiag"
    BY <2>12
  <2>16. Diagnosed(T)
    <3>1. SUFFICES ASSUME "diag" \notin T.upset
                   PROVE  /\ DiagRuns(T)
                          /\ IF T.diag.todo = <<>> THEN DiagPending(T) ELSE DiagAsking(T)
      BY DEF Diagnosed
    <3>2. "diag" \notin S.upset /\ (~skip /\ over => S.diag.call)
      BY <2>7, <2>8, <2>9, <2>11, <3>1
    <3>3. DiagRuns(S) /\ IF S.diag.todo = <<>> THEN DiagPending(S) ELSE DiagAsking(S)
      BY <3>2 DEF Good, Diagnosed
    <3>4. S.scan[r] = "NeighboringDiag" => ~skip
      <4>1. SUFFICES ASSUME S.scan[r] = "NeighboringDiag" PROVE ~skip
        OBVIOUS
      <4>2. r \in S.diag.running
        BY <3>3, <4>1 DEF DiagRuns
      <4>3. S.diag.listens
        BY <3>3, <4>2 DEF DiagPending, DiagAsking
      <4>4. QED
        BY <4>1, <4>2, <4>3
    <3>5. T.diag.running = S.diag.running \ {r}
      BY <2>7, <2>8, <2>9, <2>11, <3>3, <3>4 DEF DiagRuns
    <3>6. DiagRuns(T)
      BY <2>15, <3>3, <3>5 DEF DiagRuns
    <3>7. CASE S.diag.todo = <<>>
      <4>1. DiagPending(S)
        BY <3>3, <3>7
      <4>2. DiagPending(T)
        BY <2>7, <2>8, <2>9, <2>11, <3>5, <4>1 DEF DiagPending
      <4>3. QED
        BY <2>6, <2>11, <3>6, <3>7, <4>2
    <3>8. CASE S.diag.todo # <<>>
      <4>1. DiagAsking(S)
        BY <3>3, <3>8
      <4>2. DiagAsking(T)
        <5>1. skip \/ ~over
          BY <3>2, <4>1 DEF DiagAsking
        <5>2. CASE skip
          BY <2>7, <2>11, <4>1, <5>2 DEF DiagAsking
        <5>3. CASE ~skip /\ ~over
          <6>1. r \in S.diag.running /\ r \notin ToSet(S.diag.todo)
            BY <4>1, <5>3 DEF DiagAsking
          <6>2. QED
            BY <2>6, <2>9, <2>11, <4>1, <5>3, <6>1, ZenonT(60) DEF DiagAsking
        <5>4. QED
          BY <5>1, <5>2, <5>3
      <4>3. QED
        BY <2>6, <2>11, <3>6, <3>8, <4>2
    <3>9. QED
      BY <3>7, <3>8
  <2>17. Queued(T)
    BY <2>11 DEF Good, Queued, Before
  <2>18. IsInjective(T.diag.todo)
    BY <2>6, <2>11 DEF Good
  <2>19. Quiet(S, T)
    <3>1. \A q \in Radios : T.scan[q] \in {S.scan[q], "None"}
      BY <2>12
    <3>2. \A q \in Radios : T.counted[q]["ForcedSpectrumRefresh"] = S.counted[q]["ForcedSpectrumRefresh"]
      BY <2>1, <2>2, <2>11, ReasonFacts
    <3>3. S.upset \subseteq T.upset
      BY <2>7, <2>8, <2>9, <2>11
    <3>4. QED
      BY <2>6, <2>11, <3>1, <3>2, <3>3 DEF Quiet
  <2>20. QED
    BY <2>11, <2>12, <2>13, <2>14, <2>15, <2>16, <2>17, <2>18, <2>19 DEF Good, T
<1>4. QED
  BY <1>2, <1>3

\* s_scanDoneCb, s_scanAbortedCb and s_scanResultsCb
\* A scan whose end is dropped goes on in the data model.
LEMMA MarkKeeps ==
  ASSUME NEW S, Good(S), NEW u, u \subseteq {"unheard"}
  PROVE  LET T == [S EXCEPT !.upset = @ \cup u] IN
         Good(T) /\ Quiet(S, T) /\ \A q \in Radios : First(S, q) => First(T, q)
<1> DEFINE T == [S EXCEPT !.upset = @ \cup u]
<1>1. S \in State
  BY DEF Good
<1>2. /\ T \in State /\ T.scan = S.scan /\ T.call = S.call /\ T.counted = S.counted
      /\ T.diag = S.diag /\ T.pool = S.pool /\ T.upset = S.upset \cup u
  BY <1>1 DEF State
<1> HIDE DEF T
<1>3. Waiting(T) /\ Counting(T)
  BY <1>2 DEF Good, Waiting, Counting
<1>4. "diag" \in T.upset <=> "diag" \in S.upset
  BY <1>2
<1>5. Diagnosed(T)
  BY <1>2, <1>4 DEF Good, Diagnosed, DiagRuns, DiagPending, DiagAsking
<1>6. Queued(T) /\ \A q \in Radios : First(S, q) => First(T, q)
  BY <1>2 DEF Good, Queued, First, Before
<1>7. Quiet(S, T)
  BY <1>2 DEF Quiet
<1>8. IsInjective(T.diag.todo)
  BY <1>2 DEF Good
<1>9. QED
  BY <1>2, <1>3, <1>5, <1>6, <1>7, <1>8 DEF Good, T

LEMMA HandleKeeps ==
  ASSUME NEW S, Good(S), NEW m \in Msgs
  PROVE  LET T == Handle(S, m) IN
         Good(T) /\ Quiet(S, T) /\ \A q \in Radios : First(S, q) => First(T, q)
<1> DEFINE T == Handle(S, m)
<1>1. S \in State /\ m.rad \in Radios /\ m.event \in Events
  BY DEF Good, Msgs
<1>2. CASE m.event = "done"
  <2>1. CASE HasStarted(S, m.rad)
    <3>1. T = [S EXCEPT !.asked = Append(@, m.rad)]
      BY <1>2, <2>1 DEF Handle
    <3>2. Append(S.asked, m.rad) \in Seq(Radios)
      BY <1>1 DEF State
    <3>3. T \in State /\ SameScans(S, T) /\ T.pool = S.pool
      BY <1>1, <3>1, <3>2 DEF State, SameScans
    <3> HIDE DEF T
    <3>4. Queued(T) /\ \A q \in Radios : First(S, q) => First(T, q)
      BY <3>3 DEF Good, Queued, First, Before
    <3>5. QED
      BY <3>3, <3>4, SameScansKeep DEF T
  <2>2. CASE ~HasStarted(S, m.rad)
    <3> DEFINE u == Unheard(S, m.rad)
    <3>1. T = [S EXCEPT !.upset = @ \cup u]
      BY <1>2, <2>2 DEF Handle
    <3>2. u \subseteq {"unheard"}
      BY DEF Unheard
    <3> HIDE DEF u, T
    <3>3. QED
      BY <3>1, <3>2, MarkKeeps DEF T
  <2>3. QED
    BY <2>1, <2>2
<1>3. CASE m.event = "aborted"
  <2> DEFINE D == Done(S, m.rad, FALSE)
  <2>1. Good(D) /\ Quiet(S, D) /\ D.pool = S.pool
    BY <1>1, DoneKeeps, ZenonT(60)
  <2>2. T = [D EXCEPT !.hit = @ \cup {m.rad}]
    BY <1>3 DEF Handle
  <2> HIDE DEF D, T
  <2>8. D \in State
    BY <2>1 DEF Good
  <2>3. T \in State /\ SameScans(D, T) /\ T.pool = S.pool
    BY <1>1, <2>1, <2>2, <2>8 DEF State, SameScans
  <2>4. Queued(T) /\ \A q \in Radios : First(S, q) => First(T, q)
    BY <2>3 DEF Good, Queued, First, Before
  <2>5. Good(T) /\ Quiet(D, T)
    BY <2>1, <2>3, <2>4, SameScansKeep
  <2>6. Quiet(S, T)
    BY <2>1, <2>5 DEF Quiet
  <2>7. QED
    BY <2>4, <2>5, <2>6 DEF T
<1>4. CASE m.event \notin {"done", "aborted"}
  <2> DEFINE ok == m.event = "results"
             D == Done(S, m.rad, ok)
  <2>7. ok \in BOOLEAN
    OBVIOUS
  <2> HIDE DEF ok
  <2>1. Good(D) /\ Quiet(S, D) /\ D.pool = S.pool
    BY <1>1, <2>7, DoneKeeps
  <2>2. T = ScheduleNext(D, m.rad)
    BY <1>4 DEF Handle, ok
  <2> HIDE DEF D, T
  <2>3. Good(T) /\ Quiet(D, T) /\ \A q \in Radios : First(D, q) => First(T, q)
    BY <1>1, <2>1, <2>2, ScheduleNextKeeps
  <2>4. Quiet(S, T)
    BY <2>1, <2>3 DEF Quiet
  <2>5. \A q \in Radios : First(S, q) => First(T, q)
    BY <2>1, <2>3 DEF First, Before
  <2>6. QED
    BY <2>3, <2>4, <2>5 DEF T
<1>5. QED
  BY <1>2, <1>3, <1>4

\* What is handled inside of a command.
LEMMA DrainKeeps ==
  ASSUME NEW S, Good(S)
  PROVE  LET T == Drain(S) IN
         Good(T) /\ Quiet(S, T) /\ \A q \in Radios : First(S, q) => First(T, q)
<1> DEFINE V == {T \in State : Good(T) /\ Quiet(S, T) /\ \A q \in Radios : First(S, q) => First(T, q)}
           b == [S EXCEPT !.nl = <<>>]
<1>1. S \in State
  BY DEF Good
<1>2. b \in V
  <2>1. <<>> \in Seq(Msgs)
    OBVIOUS
  <2>2. b \in State /\ SameScans(S, b) /\ b.pool = S.pool
    BY <1>1, <2>1 DEF State, SameScans
  <2> HIDE DEF b
  <2>3. Queued(b) /\ \A q \in Radios : First(S, q) => First(b, q)
    BY <2>2 DEF Good, Queued, First, Before
  <2>4. Good(b) /\ Quiet(S, b)
    BY <2>2, <2>3, SameScansKeep
  <2>5. QED
    BY <2>2, <2>3, <2>4
<1>3. ASSUME NEW T \in V, NEW m \in Msgs
      PROVE  Handle(T, m) \in V
  <2>1. Good(Handle(T, m)) /\ Quiet(T, Handle(T, m))
        /\ \A q \in Radios : First(T, q) => First(Handle(T, m), q)
    BY HandleKeeps
  <2>2. Quiet(S, Handle(T, m))
    BY <2>1 DEF Quiet
  <2>3. Handle(T, m) \in State
    BY <2>1 DEF Good
  <2>4. QED
    BY <2>1, <2>2, <2>3
<1>4. Drain(S) \in V
  <2> HIDE DEF V
  <2>1. QED
    BY <1>1, <1>2, <1>3, Drained
<1>5. QED
  BY <1>4

-----------------------------------------------------------------------------
(* Commands to the driver *)

LEMMA QuietFacts ==
  ASSUME NEW S, NEW T, NEW U
  PROVE  /\ Quiet(S, S)
         /\ Quiet(S, T) /\ Quiet(T, U) => Quiet(S, U)
  BY DEF Quiet

\* The scan that s_getNextScan finds is the first of its wiphy.
LEMMA NextIsFirst ==
  ASSUME NEW S, Good(S), NEW r \in Radios, OfWiphy(S, wiphy[r]) # {},
         NextScan(S, wiphy[r]).rad = r
  PROVE  First(S, r)
<1> DEFINE I == OfWiphy(S, wiphy[r])
           k == Min(I)
<1>1. S.pool \in Seq(Infos) /\ Len(S.pool) \in Nat /\ DOMAIN S.pool = 1..Len(S.pool) /\ Queued(S)
  BY DEF Good, State
<1>2. I \in SUBSET Nat /\ I # {}
  BY <1>1 DEF OfWiphy
<1>3. k \in I /\ \A j \in I : k <= j
  BY <1>2, MinNat
<1>4. S.pool[k].rad = r
  BY DEF NextScan
<1> HIDE DEF k
<1>5. k \in DOMAIN S.pool
  BY <1>3 DEF OfWiphy
<1>6. SUFFICES ASSUME NEW i \in DOMAIN S.pool, S.pool[i].rad = r
               PROVE  Before(S, i)
  BY DEF First
<1>7. i = k
  BY <1>1, <1>4, <1>5, <1>6 DEF Queued
<1>8. SUFFICES ASSUME NEW j \in 1..(k - 1), wiphy[S.pool[j].rad] = wiphy[S.pool[k].rad]
               PROVE  FALSE
  BY <1>7 DEF Before
<1>9. j \in DOMAIN S.pool /\ j < k
  BY <1>1, <1>5
<1>10. j \in I
  BY <1>4, <1>8, <1>9 DEF OfWiphy
<1>11. QED
  BY <1>1, <1>3, <1>5, <1>9, <1>10

\* A radio that shares its wiphy with no other is always the first.
LEMMA AloneIsFirst ==
  ASSUME NEW S, Good(S), NEW r \in Radios, ~Shared(r)
  PROVE  First(S, r)
<1>1. S.pool \in Seq(Infos) /\ Len(S.pool) \in Nat /\ DOMAIN S.pool = 1..Len(S.pool) /\ Queued(S)
  BY DEF Good, State
<1>2. SUFFICES ASSUME NEW i \in DOMAIN S.pool, S.pool[i].rad = r, NEW j \in 1..(i - 1)
               PROVE  wiphy[S.pool[j].rad] # wiphy[S.pool[i].rad]
  BY DEF First, Before
<1>3. j \in DOMAIN S.pool /\ j # i
  BY <1>1
<1>4. S.pool[j] \in Infos
  BY <1>1, <1>3
<1>5. S.pool[j].rad \in Radios /\ S.pool[j].rad # r
  BY <1>1, <1>2, <1>3, <1>4 DEF Queued, Infos
<1>6. QED
  BY <1>2, <1>5 DEF Shared

\* s_addScan: a new entry comes last, at an address of its own.
LEMMA AddScanKeeps ==
  ASSUME NEW S, Good(S), NEW r \in Radios, NEW a \in Addrs,
         HasEntry(S, r) \/ \A i \in DOMAIN S.pool : S.pool[i].addr # a
  PROVE  LET T == AddScan(S, r, a) IN
         Good(T) /\ Quiet(S, T) /\ OfWiphy(T, wiphy[r]) # {}
<1> DEFINE T == AddScan(S, r, a)
           e == [rad |-> r, started |-> FALSE, addr |-> a]
           n == Len(S.pool) + 1
<1>1. /\ S \in State /\ Queued(S) /\ S.pool \in Seq(Infos) /\ Len(S.pool) \in Nat
      /\ DOMAIN S.pool = 1..Len(S.pool)
  BY DEF Good, State
<1>2. CASE HasEntry(S, r)
  <2>1. T = S
    BY <1>2 DEF AddScan
  <2>2. OfWiphy(S, wiphy[r]) # {}
    BY <1>2 DEF HasEntry, OfRadio, OfWiphy
  <2>3. QED
    BY <2>1, <2>2, QuietFacts
<1>3. CASE ~HasEntry(S, r)
  <2>1. e \in Infos
    BY DEF Infos
  <2> DEFINE p == Append(S.pool, e)
  <2>2. /\ p \in Seq(Infos) /\ Len(p) = n /\ p[n] = e
        /\ \A i \in 1..Len(S.pool) : p[i] = S.pool[i]
    BY <1>1, <2>1
  <2> HIDE DEF p
  <2>3. T = [S EXCEPT !.pool = p]
    BY <1>3 DEF AddScan, p
  <2>4. T \in State /\ SameScans(S, T) /\ T.pool = p
    BY <1>1, <2>2, <2>3 DEF State, SameScans
  <2> HIDE DEF T
  <2>5. DOMAIN T.pool = 1..n
    BY <1>1, <2>2, <2>4
  <2>6. \A i \in DOMAIN T.pool : i # n => i \in DOMAIN S.pool /\ T.pool[i] = S.pool[i]
    BY <1>1, <2>2, <2>4, <2>5
  <2>7. T.pool[n].rad = r /\ T.pool[n].addr = a /\ ~T.pool[n].started /\ n \in DOMAIN T.pool
    BY <1>1, <2>2, <2>4, <2>5
  <2>8. \A i \in DOMAIN S.pool : S.pool[i].rad # r /\ S.pool[i].addr # a
    BY <1>3 DEF HasEntry, OfRadio
  <2>9. Queued(T)
    <3>1. ASSUME NEW i \in DOMAIN T.pool, NEW j \in DOMAIN T.pool, i # j
          PROVE  T.pool[i].rad # T.pool[j].rad /\ T.pool[i].addr # T.pool[j].addr
      BY <1>1, <2>6, <2>7, <2>8, <3>1 DEF Queued
    <3>2. ASSUME NEW i \in DOMAIN T.pool, T.pool[i].started
          PROVE  Before(T, i)
      <4>1. i # n /\ i \in DOMAIN S.pool /\ S.pool[i].started
        BY <2>6, <2>7, <3>2
      <4>2. Before(S, i)
        BY <1>1, <4>1 DEF Queued
      <4>3. SUFFICES ASSUME NEW j \in 1..(i - 1)
                     PROVE  wiphy[T.pool[j].rad] # wiphy[T.pool[i].rad]
        BY DEF Before
      <4>4. j \in DOMAIN T.pool /\ j # n
        BY <1>1, <2>5, <4>1
      <4>5. QED
        BY <2>6, <4>1, <4>2, <4>4 DEF Before
    <3>3. QED
      BY <3>1, <3>2 DEF Queued
  <2>10. OfWiphy(T, wiphy[r]) # {}
    BY <2>7 DEF OfWiphy
  <2>11. QED
    BY <2>4, <2>9, <2>10, SameScansKeep DEF T
<1>4. QED
  BY <1>2, <1>3

\* The driver takes the scan that is the first of its wiphy.
LEMMA TriggerKeeps ==
  ASSUME NEW S, Good(S), wiphy \in [Radios -> Wiphys], NEW r \in Radios, First(S, r)
  PROVE  LET T == Trigger(S, r) IN Good(T) /\ Quiet(S, T) /\ T.rc = "ok"
<1> DEFINE B == [S EXCEPT !.drv[wiphy[r]].rad = r]
           D == Drain(B)
           Mark(e) == IF e.rad = r THEN [e EXCEPT !.started = TRUE] ELSE e
           T == Trigger(S, r)
<1>1. S \in State /\ wiphy[r] \in Wiphys
  BY DEF Good
<1>2. B \in State /\ SameScans(S, B) /\ B.pool = S.pool
  <2> DEFINE d == [S.drv EXCEPT ![wiphy[r]].rad = r]
  <2>1. S.drv \in [Wiphys -> Drvs]
    BY <1>1 DEF State
  <2>2. [S.drv[wiphy[r]] EXCEPT !.rad = r] \in Drvs
    BY <1>1, <2>1 DEF Drvs
  <2>3. d \in [Wiphys -> Drvs]
    BY <1>1, <2>1, <2>2
  <2>4. B = [S EXCEPT !.drv = d]
    BY <1>1 DEF State
  <2> HIDE DEF d, B
  <2>5. QED
    BY <1>1, <2>3, <2>4 DEF State, SameScans
<1> HIDE DEF B
<1>3. Good(B) /\ Quiet(S, B) /\ First(B, r)
  <2>1. Queued(B) /\ First(B, r)
    BY <1>2 DEF Good, Queued, First, Before
  <2>2. QED
    BY <1>2, <2>1, SameScansKeep
<1>4. Good(D) /\ Quiet(B, D) /\ First(D, r)
  BY <1>3, DrainKeeps
<1>5. T = [D EXCEPT !.rc = "ok", !.pool = [i \in DOMAIN @ |-> Mark(D.pool[i])],
                    !.upset = IF HasEntry(S, r) /\ ~HasEntry(D, r) THEN @ \cup {"queue"} ELSE @]
  BY DEF Trigger, B
<1> HIDE DEF D
<1> DEFINE p == [i \in DOMAIN D.pool |-> Mark(D.pool[i])]
           u == IF HasEntry(S, r) /\ ~HasEntry(D, r) THEN D.upset \cup {"queue"} ELSE D.upset
<1>6. D \in State /\ D.pool \in Seq(Infos) /\ Len(D.pool) \in Nat /\ DOMAIN D.pool = 1..Len(D.pool)
  BY <1>4 DEF Good, State
<1>7. \A i \in DOMAIN D.pool : D.pool[i] \in Infos
  BY <1>6
<1>8. \A i \in DOMAIN D.pool : p[i] \in Infos /\ p[i].rad = D.pool[i].rad /\ p[i].addr = D.pool[i].addr
                               /\ (p[i].started => D.pool[i].started \/ D.pool[i].rad = r)
  BY <1>7 DEF Infos
<1>9. p \in Seq(Infos) /\ DOMAIN p = DOMAIN D.pool
  <2>1. DOMAIN p = 1..Len(D.pool)
    BY <1>6
  <2>2. p \in [1..Len(D.pool) -> Infos]
    BY <1>6, <1>8, <2>1
  <2> HIDE DEF p
  <2>3. p \in Seq(Infos)
    BY <1>6, <2>2
  <2>4. QED
    BY <1>6, <2>1, <2>3
<1>10. T = [D EXCEPT !.rc = "ok", !.pool = p, !.upset = u]
  BY <1>5, <1>6 DEF State
<1>11. u \in SUBSET {"queue", "diag", "unheard"} /\ D.upset \subseteq u /\ ("diag" \in u => "diag" \in D.upset)
  BY <1>6 DEF State
<1> HIDE DEF p, u, T
<1>12. /\ T \in State /\ T.scan = D.scan /\ T.call = D.call /\ T.counted = D.counted
       /\ T.diag = D.diag /\ T.pool = p /\ T.upset = u /\ T.rc = "ok"
  BY <1>6, <1>9, <1>10, <1>11 DEF State
<1>13. Queued(T)
  <2>1. \A i \in DOMAIN D.pool : \A j \in 1..(i - 1) : j \in DOMAIN D.pool
    BY <1>6
  <2>2. \A i \in DOMAIN D.pool : Before(D, i) => Before(T, i)
    BY <1>8, <1>12, <2>1 DEF Before
  <2>3. ASSUME NEW i \in DOMAIN T.pool, T.pool[i].started
        PROVE  Before(T, i)
    <3>1. i \in DOMAIN D.pool /\ (D.pool[i].started \/ D.pool[i].rad = r)
      BY <1>8, <1>9, <1>12, <2>3
    <3>2. Before(D, i)
      BY <1>4, <3>1 DEF Good, Queued, First
    <3>3. QED
      BY <2>2, <3>1, <3>2
  <2>4. QED
    BY <1>4, <1>8, <1>9, <1>12, <2>3 DEF Good, Queued
<1>14. Waiting(T) /\ Counting(T) /\ IsInjective(T.diag.todo)
  BY <1>4, <1>12 DEF Good, Waiting, Counting
<1>15. Diagnosed(T)
  <2>1. Diagnosed(D)
    BY <1>4 DEF Good
  <2>2. QED
    BY <1>11, <1>12, <2>1 DEF Diagnosed, DiagRuns, DiagPending, DiagAsking
<1>16. Quiet(D, T)
  BY <1>11, <1>12 DEF Quiet
<1>17. QED
  BY <1>3, <1>4, <1>12, <1>13, <1>14, <1>15, <1>16, QuietFacts DEF Good, T

\* A command whose result is all that is set besides.
LEMMA ResultKeeps ==
  ASSUME NEW S, Good(S), NEW c \in {"none", "ok", "error", "continue"}
  PROVE  LET T == [S EXCEPT !.rc = c] IN Good(T) /\ Quiet(S, T) /\ T.rc = c
<1> DEFINE T == [S EXCEPT !.rc = c]
<1>1. S \in State
  BY DEF Good
<1>2. T \in State /\ SameScans(S, T) /\ T.pool = S.pool /\ T.rc = c
  BY <1>1 DEF State, SameScans
<1> HIDE DEF T
<1>3. Queued(T)
  BY <1>2 DEF Good, Queued, Before
<1>4. QED
  BY <1>2, <1>3, SameScansKeep DEF T

LEMMA RefusedKeeps ==
  ASSUME NEW S, Good(S), NEW r \in Radios
  PROVE  LET T == Refused(S, r) IN Good(T) /\ Quiet(S, T) /\ T.rc = "error"
<1>1. Good(ScheduleNext(S, r)) /\ Quiet(S, ScheduleNext(S, r))
  BY ScheduleNextKeeps
<1>2. QED
  BY <1>1, ResultKeeps, QuietFacts DEF Refused

\* wld_rad_nl80211_startScanExt
LEMMA StartExtKeeps ==
  ASSUME NEW S, Good(S), wiphy \in [Radios -> Wiphys], NEW r \in Radios, NEW fault \in Faults,
         NEW a \in Addrs, HasEntry(S, r) \/ \A i \in DOMAIN S.pool : S.pool[i].addr # a
  PROVE  LET T == StartExt(S, r, fault, a) IN
         Good(T) /\ Quiet(S, T) /\ T.rc \in {"ok", "error", "continue"}
<1> DEFINE A == IF Shared(r) THEN AddScan(S, r, a) ELSE S
           T == StartExt(S, r, fault, a)
<1>1. Good(A) /\ Quiet(S, A) /\ (Shared(r) => OfWiphy(A, wiphy[r]) # {})
  BY AddScanKeeps, QuietFacts
<1> HIDE DEF A
<1>2. T = IF fault = "noIface" THEN Refused(S, r)
          ELSE IF Shared(r) /\ NextScan(A, wiphy[r]).rad # r THEN [A EXCEPT !.rc = "continue"]
          ELSE IF fault = "refused" \/ S.drv[wiphy[r]].rad # NoRad THEN Refused(Drain(A), r)
          ELSE Trigger(A, r)
  BY DEF StartExt, A
<1> HIDE DEF T
<1>3. CASE T = Refused(S, r)
  BY <1>3, RefusedKeeps DEF T
<1>4. CASE T = [A EXCEPT !.rc = "continue"]
  <2>1. Good(T) /\ Quiet(A, T) /\ T.rc = "continue"
    BY <1>1, <1>4, ResultKeeps
  <2>2. QED
    BY <1>1, <2>1, QuietFacts DEF T
<1>5. CASE T = Refused(Drain(A), r)
  <2>1. Good(Drain(A)) /\ Quiet(A, Drain(A))
    BY <1>1, DrainKeeps
  <2>2. Good(T) /\ Quiet(Drain(A), T) /\ T.rc = "error"
    BY <1>5, <2>1, RefusedKeeps
  <2>3. QED
    BY <1>1, <2>1, <2>2, QuietFacts DEF T
<1>6. CASE T = Trigger(A, r) /\ ~(Shared(r) /\ NextScan(A, wiphy[r]).rad # r)
  <2>1. First(A, r)
    BY <1>1, <1>6, NextIsFirst, AloneIsFirst
  <2>2. Good(T) /\ Quiet(A, T) /\ T.rc = "ok"
    BY <1>1, <1>6, <2>1, TriggerKeeps
  <2>3. QED
    BY <1>1, <2>2, QuietFacts DEF T
<1>7. QED
  BY <1>2, <1>3, <1>4, <1>5, <1>6

\* A scan of the radio has been taken: its reason, its count and perhaps the
\* call that waits for it go together.
Started(S, T, r, reason, kind) ==
  /\ T.scan = [S.scan EXCEPT ![r] = reason]
  /\ T.call = [S.call EXCEPT ![r] = kind]
  /\ \A q \in Radios, k \in Reasons :
       T.counted[q][k] = S.counted[q][k] + IF q = r /\ k = reason THEN 1 ELSE 0
  /\ T.pool = S.pool /\ T.upset = S.upset

LEMMA StartedKeeps ==
  ASSUME NEW S, Good(S), NEW T \in State, NEW r \in Radios, S.scan[r] = "None",
         NEW reason \in Reasons, NEW kind \in {"none", reason}, Started(S, T, r, reason, kind),
         IsInjective(T.diag.todo), Diagnosed(T)
  PROVE  Good(T)
<1>1. S \in State /\ S.scan \in [Radios -> Scans] /\ S.call \in [Radios -> Kinds]
  BY DEF Good, State
<1>2. T.scan[r] = reason /\ T.call[r] = kind
      /\ \A q \in Radios \ {r} : T.scan[q] = S.scan[q] /\ T.call[q] = S.call[q]
  BY <1>1 DEF Started
<1>3. Waiting(T)
  BY <1>2 DEF Good, Waiting
<1>4. Counting(T)
  <2>1. SUFFICES ASSUME NEW q \in Radios, NEW k \in Reasons
                 PROVE  T.counted[q][k] = IF T.scan[q] = k THEN 1 ELSE 0
    BY DEF Counting
  <2>2. S.counted[q][k] = IF S.scan[q] = k THEN 1 ELSE 0
    BY DEF Good, Counting
  <2>3. "None" \notin Reasons
    BY ReasonFacts
  <2>4. CASE q = r
    BY <1>2, <2>2, <2>3, <2>4 DEF Started
  <2>5. CASE q # r
    BY <1>2, <2>2, <2>5 DEF Started
  <2>6. QED
    BY <2>4, <2>5
<1>5. Queued(T)
  BY DEF Good, Queued, Before, Started
<1>6. QED
  BY <1>3, <1>4, <1>5 DEF Good

\* The diagnostic does not see the start of another scan.
LEMMA OtherStarts ==
  ASSUME NEW S, Diagnosed(S), NEW T, NEW r \in Radios, S.scan \in [Radios -> Scans],
         S.scan[r] = "None",
         NEW reason, reason # "NeighboringDiag", T.scan = [S.scan EXCEPT ![r] = reason],
         T.diag = S.diag, T.upset = S.upset
  PROVE  Diagnosed(T)
<1>1. \A q \in Radios : T.scan[q] = "NeighboringDiag" <=> S.scan[q] = "NeighboringDiag"
  OBVIOUS
<1>2. QED
  BY <1>1 DEF Diagnosed, DiagRuns, DiagPending, DiagAsking

\* s_notifyStartScan
Notified(S, T, r, reason) ==
  /\ T \in State
  /\ T.scan = [S.scan EXCEPT ![r] = reason] /\ T.call = S.call
  /\ T.pool = S.pool /\ T.upset = S.upset /\ T.rc = S.rc
  /\ \A q \in Radios, k \in Counted :
       T.counted[q][k] = S.counted[q][k] + IF q = r /\ k = reason THEN 1 ELSE 0
  /\ reason # "NeighboringDiag" => T.diag = S.diag
  /\ T.diag.running = IF reason = "NeighboringDiag" /\ S.diag.listens
                      THEN S.diag.running \cup {r} ELSE S.diag.running
  /\ T.diag.todo = S.diag.todo /\ T.diag.call = S.diag.call /\ T.diag.listens = S.diag.listens
  /\ T.diag.completed = S.diag.completed /\ T.diag.failed = S.diag.failed

LEMMA NotifyEffect ==
  ASSUME NEW S \in State, NEW r \in Radios, NEW reason \in Reasons
  PROVE  Notified(S, Notify(S, r, reason), r, reason)
<1> DEFINE c == [S.counted EXCEPT ![r][reason] = @ + 1]
           sc == [S.scan EXCEPT ![r] = reason]
           run == IF reason = "NeighboringDiag" /\ S.diag.listens
                  THEN S.diag.running \cup {r} ELSE S.diag.running
           d == [S.diag EXCEPT !.running = run]
           T == Notify(S, r, reason)
<1>1. S.counted \in [Radios -> Counters] /\ S.diag \in Diags
  BY DEF State
<1>2. reason \in Counted
  BY ReasonFacts
<1>3. /\ c \in [Radios -> Counters]
      /\ \A q \in Radios, k \in Counted :
           c[q][k] = S.counted[q][k] + IF q = r /\ k = reason THEN 1 ELSE 0
  BY <1>1, <1>2 DEF Counters
<1>4. sc \in [Radios -> Scans]
  BY DEF State, Scans
<1>5. /\ d \in Diags /\ d.running = run /\ d.todo = S.diag.todo /\ d.call = S.diag.call
      /\ d.listens = S.diag.listens /\ d.completed = S.diag.completed /\ d.failed = S.diag.failed
      /\ (run = S.diag.running => d = S.diag)
  BY <1>1 DEF Diags
<1>6. T = [S EXCEPT !.scan = sc, !.counted = c, !.diag = d]
  BY DEF Notify, State
<1> HIDE DEF c, sc, d, T
<1>7. /\ T \in State /\ T.scan = sc /\ T.counted = c /\ T.diag = d /\ T.call = S.call
      /\ T.pool = S.pool /\ T.upset = S.upset /\ T.rc = S.rc
  BY <1>3, <1>4, <1>5, <1>6 DEF State
<1>8. QED
  BY <1>3, <1>5, <1>7 DEF T, sc, Notified

-----------------------------------------------------------------------------
(* The invariant *)

Lefts == [calls : 0..MaxCalls, stops : 0..MaxStops, faults : 0..MaxFaults]

LEMMA WorldFields ==
  /\ World.scan = scan /\ World.call = call /\ World.counted = counted /\ World.diag = diag
  /\ World.pool = pool /\ World.late = late /\ World.drv = drv /\ World.nl = nl
  /\ World.asked = asked /\ World.rc = "none" /\ World.hit = {} /\ World.upset = upset
  BY DEF World

\* The variables take over what a handler has worked on.
LEMMA BecomeGood ==
  ASSUME NEW S, Good(S), Become(S)
  PROVE  Good(World)'
<1>1. /\ scan' = S.scan /\ call' = S.call /\ counted' = S.counted /\ diag' = S.diag
      /\ pool' = S.pool /\ late' = S.late /\ drv' = S.drv /\ nl' = S.nl /\ asked' = S.asked
      /\ upset' = S.upset \cup (IF StaleHead(S) THEN {"queue"} ELSE {})
      /\ wiphy' = wiphy
  BY DEF Become
<1>2. S \in State /\ IsInjective(S.diag.todo) /\ Waiting(S) /\ Counting(S) /\ Diagnosed(S) /\ Queued(S)
  BY DEF Good
<1>3. /\ World'.scan = S.scan /\ World'.call = S.call /\ World'.counted = S.counted
      /\ World'.diag = S.diag /\ World'.pool = S.pool /\ World'.late = S.late
      /\ World'.drv = S.drv /\ World'.nl = S.nl /\ World'.asked = S.asked
      /\ World'.rc = "none" /\ World'.hit = {} /\ World'.upset = upset'
  BY <1>1 DEF World
<1>4. upset' \in SUBSET {"queue", "diag", "unheard"} /\ ("diag" \in upset' <=> "diag" \in S.upset)
  BY <1>1, <1>2 DEF State
<1>5. (World \in State)'
  BY <1>1, <1>2, <1>4 DEF World, State
<1>6. Waiting(World)' /\ Counting(World)'
  BY <1>2, <1>3 DEF Waiting, Counting
<1>7. Diagnosed(World)'
  BY <1>2, <1>3, <1>4 DEF Diagnosed, DiagRuns, DiagPending, DiagAsking
<1>8. Queued(World)'
  BY <1>1, <1>2, <1>3 DEF Queued, Before
<1>9. IsInjective(World.diag.todo)'
  BY <1>2, <1>3
<1>10. QED
  BY <1>5, <1>6, <1>7, <1>8, <1>9 DEF Good

\* Handlers that start nothing.
LEMMA QuietStep ==
  ASSUME IInv, NEW S, Good(S), Quiet(World, S), Become(S), left' \in Lefts,
         left'.calls = left.calls
  PROVE  IInv'
<1>1. wiphy' \in [Radios -> Wiphys] /\ Good(World)'
  BY BecomeGood DEF IInv, Become
<1>2. scan' = S.scan /\ counted' = S.counted /\ diag' = S.diag
  BY DEF Become
<1>3. /\ \A r \in Radios : counted'[r]["ForcedSpectrumRefresh"] = counted[r]["ForcedSpectrumRefresh"]
      /\ \A r \in Radios : scan'[r] \in {scan[r], "None"}
      /\ diag'.todo = diag.todo
  BY <1>2, WorldFields DEF Quiet
<1>4. Budget'
  BY <1>3 DEF IInv, Budget, Free, Lefts
<1>5. QED
  BY <1>1, <1>4 DEF IInv

\* Calls, each of which is paid for.
LEMMA CallStep ==
  ASSUME IInv, NEW S, Good(S), Become(S), left' \in Lefts,
         left.calls > 0, left'.calls = left.calls - 1,
         \A r \in Radios : S.counted[r]["ForcedSpectrumRefresh"]
                             <= counted[r]["ForcedSpectrumRefresh"] + 1
  PROVE  IInv'
<1>1. wiphy' \in [Radios -> Wiphys] /\ Good(World)'
  BY BecomeGood DEF IInv, Become
<1>2. counted' = S.counted
  BY DEF Become
<1>3. \A r \in Radios : counted[r]["ForcedSpectrumRefresh"] \in Nat
                        /\ counted'[r]["ForcedSpectrumRefresh"] \in Nat
  BY <1>2, ReasonFacts, WorldFields DEF IInv, Good, State, Counters
<1>4. left.calls \in 0..MaxCalls /\ left'.calls < MaxCalls /\ MaxCalls \in Nat
  BY ScanAssumption DEF IInv, Budget
<1>5. \A r \in Radios : counted'[r]["ForcedSpectrumRefresh"] + left'.calls <= MaxCalls
  BY <1>2, <1>3, <1>4 DEF IInv, Budget
<1>6. Budget'
  BY <1>4, <1>5 DEF Budget, Lefts
<1>7. QED
  BY <1>1, <1>6 DEF IInv

LEMMA PaidFacts ==
  ASSUME NEW l \in Lefts, NEW fault \in Faults, fault # "none" => l.faults > 0
  PROVE  Paid(l, fault) \in Lefts /\ Paid(l, fault).calls = l.calls
  BY ScanAssumption DEF Paid, Lefts

\* A call of another kind than the diagnostic, deferred or not.
LEMMA StartKeeps ==
  ASSUME NEW S, Good(S), wiphy \in [Radios -> Wiphys], NEW r \in Radios, NEW fault \in Faults,
         NEW a \in Addrs, \A i \in DOMAIN S.pool : S.pool[i].addr # a, S.scan[r] = "None",
         NEW reason \in Reasons, reason # "NeighboringDiag"
  PROVE  LET T == StartScan(S, r, reason, fault, a)
             U == Defer(T, r, reason) IN
         /\ Good(T) /\ (reason \in Deferred => Good(U))
         /\ \A q \in Radios : /\ T.counted[q]["ForcedSpectrumRefresh"] = S.counted[q]["ForcedSpectrumRefresh"]
                              /\ U.counted[q]["ForcedSpectrumRefresh"] = S.counted[q]["ForcedSpectrumRefresh"]
<1> DEFINE E == StartExt(S, r, fault, a)
           T == StartScan(S, r, reason, fault, a)
           U == Defer(T, r, reason)
<1>1. Good(E) /\ Quiet(S, E)
  BY StartExtKeeps
<1>2. T = IF E.rc = "error" THEN E ELSE Notify(E, r, reason)
  BY DEF StartScan, ScanStart, Running
<1> HIDE DEF E, T
<1>3. E \in State /\ E.scan \in [Radios -> Scans] /\ E.call \in [Radios -> Kinds]
      /\ IsInjective(E.diag.todo) /\ Diagnosed(E)
  BY <1>1 DEF Good, State
<1>4. E.scan[r] = "None" /\ E.call[r] = "none"
  <2>1. E.scan[r] = "None"
    BY <1>1 DEF Quiet
  <2>2. E.call[r] = "none" \/ E.call[r] \in Deferred
    BY <1>3 DEF Kinds
  <2>3. QED
    BY <1>1, <2>1, <2>2, ReasonFacts DEF Good, Waiting
<1>5. \A q \in Radios : E.counted[q]["ForcedSpectrumRefresh"] = S.counted[q]["ForcedSpectrumRefresh"]
  BY <1>1 DEF Quiet
<1>6. CASE E.rc = "error"
  <2>1. T = E /\ U = E
    BY <1>2, <1>6 DEF Defer
  <2>2. QED
    BY <1>1, <1>5, <2>1 DEF T
<1>7. CASE E.rc # "error"
  <2>1. T = Notify(E, r, reason)
    BY <1>2, <1>7
  <2>15. Notified(E, T, r, reason)
    BY <1>3, <2>1, NotifyEffect
  <2>2. /\ T \in State /\ T.scan = [E.scan EXCEPT ![r] = reason] /\ T.call = E.call
        /\ T.pool = E.pool /\ T.upset = E.upset /\ T.rc = E.rc /\ T.diag = E.diag
    BY <2>15 DEF Notified
  <2>3. \A q \in Radios, k \in Counted :
          T.counted[q][k] = E.counted[q][k] + IF q = r /\ k = reason THEN 1 ELSE 0
    BY <2>15 DEF Notified
  <2>4. \A q \in Radios, k \in Reasons :
          T.counted[q][k] = E.counted[q][k] + IF q = r /\ k = reason THEN 1 ELSE 0
    BY <2>3, ReasonFacts
  <2>5. Diagnosed(T)
    BY <1>3, <1>4, <2>2, OtherStarts
  <2>6. T.call = [E.call EXCEPT ![r] = "none"]
    BY <1>3, <1>4, <2>2
  <2>7. Good(T)
    <3>1. Started(E, T, r, reason, "none")
      BY <2>2, <2>4, <2>6 DEF Started
    <3>2. IsInjective(T.diag.todo)
      BY <1>3, <2>2
    <3>3. QED
      BY <1>1, <1>4, <2>2, <2>5, <3>1, <3>2, StartedKeeps
  <2>8. \A q \in Radios : T.counted[q]["ForcedSpectrumRefresh"] = S.counted[q]["ForcedSpectrumRefresh"]
    <3>1. \A q \in Radios : E.counted[q]["ForcedSpectrumRefresh"] \in Nat
      BY <1>3, ReasonFacts DEF State, Counters
    <3>2. QED
      BY <1>5, <2>3, <3>1, ReasonFacts
  <2> DEFINE c == [T.call EXCEPT ![r] = reason]
  <2>9. U = [T EXCEPT !.call = c]
    BY <1>7, <2>2 DEF Defer, State
  <2>10. c = [E.call EXCEPT ![r] = reason] /\ (reason \in Deferred => c \in [Radios -> Kinds])
    BY <1>3, <2>2 DEF Kinds
  <2> HIDE DEF c, U
  <2>11. /\ U.scan = T.scan /\ U.counted = T.counted /\ U.pool = T.pool /\ U.upset = T.upset
         /\ U.diag = T.diag /\ U.call = c
         /\ reason \in Deferred => U \in State
    BY <2>2, <2>9, <2>10 DEF State
  <2>12. Diagnosed(U)
    BY <2>5, <2>11 DEF Diagnosed, DiagRuns, DiagPending, DiagAsking
  <2>13. reason \in Deferred => Good(U)
    <3>1. IsInjective(U.diag.todo)
      BY <1>3, <2>2, <2>11
    <3>2. \A q \in Radios, k \in Reasons :
            U.counted[q][k] = E.counted[q][k] + IF q = r /\ k = reason THEN 1 ELSE 0
      BY <2>4, <2>11
    <3>3. U.scan = [E.scan EXCEPT ![r] = reason] /\ U.call = [E.call EXCEPT ![r] = reason]
          /\ U.pool = E.pool /\ U.upset = E.upset
      BY <2>2, <2>10, <2>11
    <3>4. Started(E, U, r, reason, reason)
      BY <3>2, <3>3 DEF Started
    <3>5. QED
      BY <1>1, <1>4, <2>11, <2>12, <3>1, <3>4, StartedKeeps
  <2>14. QED
    BY <2>7, <2>8, <2>11, <2>13 DEF T, U
<1>8. QED
  BY <1>6, <1>7

-----------------------------------------------------------------------------
(* One lemma per action *)

LEMMA FreeAddrFacts ==
  ASSUME NEW a \in FreeAddrs
  PROVE  a \in Addrs /\ \A i \in DOMAIN World.pool : World.pool[i].addr # a
  BY WorldFields DEF FreeAddrs, ToSet

LEMMA AskedFacts ==
  ASSUME IInv, NEW r \in Radios, NEW fault \in Faults, Asked(r, fault), CallPaid(fault)
  PROVE  /\ World.scan[r] = "None" /\ left.calls > 0
         /\ left' \in Lefts /\ left'.calls = left.calls - 1
<1> DEFINE l == [left EXCEPT !.calls = @ - 1]
<1>1. left \in Lefts /\ left.calls > 0
  BY DEF IInv, Budget, Lefts, Asked
<1>2. l \in Lefts /\ l.calls = left.calls - 1 /\ l.faults = left.faults
  BY <1>1, ScanAssumption DEF Lefts
<1>3. left' = Paid(l, fault) /\ (fault # "none" => l.faults > 0)
  BY <1>2 DEF CallPaid, Asked, Spend
<1> HIDE DEF l
<1>4. left' \in Lefts /\ left'.calls = l.calls
  BY <1>2, <1>3, PaidFacts
<1>5. QED
  BY <1>1, <1>2, <1>4, WorldFields DEF Asked, Running

LEMMA StartStep ==
  ASSUME IInv, NEW r \in Radios, NEW fault \in Faults, NEW a \in FreeAddrs,
         Asked(r, fault), CallPaid(fault), NEW reason \in Reasons, reason # "NeighboringDiag",
         \/ Become(StartScan(World, r, reason, fault, a))
         \/ reason \in Deferred /\ Become(Defer(StartScan(World, r, reason, fault, a), r, reason))
  PROVE  IInv'
<1> DEFINE T == StartScan(World, r, reason, fault, a)
           U == Defer(T, r, reason)
<1>1. Good(World) /\ wiphy \in [Radios -> Wiphys]
  BY DEF IInv
<1>2. a \in Addrs /\ \A i \in DOMAIN World.pool : World.pool[i].addr # a
  BY FreeAddrFacts
<1>3. /\ World.scan[r] = "None" /\ left.calls > 0
      /\ left' \in Lefts /\ left'.calls = left.calls - 1
  BY AskedFacts
<1>4. /\ Good(T) /\ (reason \in Deferred => Good(U))
      /\ \A q \in Radios :
           /\ T.counted[q]["ForcedSpectrumRefresh"] = World.counted[q]["ForcedSpectrumRefresh"]
           /\ U.counted[q]["ForcedSpectrumRefresh"] = World.counted[q]["ForcedSpectrumRefresh"]
  BY <1>1, <1>2, <1>3, StartKeeps
<1> HIDE DEF T, U
<1>5. \A q \in Radios : World.counted[q]["ForcedSpectrumRefresh"] \in Nat
  BY <1>1, ReasonFacts DEF Good, State, Counters
<1>6. CASE Become(T)
  BY <1>3, <1>4, <1>5, <1>6, WorldFields, CallStep
<1>7. CASE reason \in Deferred /\ Become(U)
  BY <1>3, <1>4, <1>5, <1>7, WorldFields, CallStep
<1>8. QED
  BY <1>6, <1>7 DEF T, U

LEMMA ScanCallStep ==
  ASSUME IInv, NEW r \in Radios, NEW fault \in Faults, NEW a \in FreeAddrs, ScanCall(r, fault, a)
  PROVE  IInv'
<1>1. Asked(r, fault) /\ CallPaid(fault)
  BY DEF ScanCall
<1>2. "ScanCall" \in Reasons /\ "ScanCall" \in Deferred /\ "StartCall" \in Reasons
  BY DEF Reasons, Deferred
<1>3. CASE Become(Defer(StartScan(World, r, "ScanCall", fault, a), r, "ScanCall"))
  BY <1>1, <1>2, <1>3, StartStep
<1>4. CASE Become(StartScan(World, r, "StartCall", fault, a))
  BY <1>1, <1>2, <1>4, StartStep
<1>5. QED
  BY <1>3, <1>4 DEF ScanCall

LEMMA FullScanStep ==
  ASSUME IInv, NEW r \in Radios, NEW fault \in Faults, NEW a \in FreeAddrs, FullScan(r, fault, a)
  PROVE  IInv'
<1>1. Asked(r, fault) /\ CallPaid(fault)
      /\ Become(Defer(StartScan(World, r, "FullScan", fault, a), r, "FullScan"))
  BY DEF FullScan
<1>2. "FullScan" \in Reasons /\ "FullScan" \in Deferred
  BY DEF Reasons, Deferred
<1>3. QED
  BY <1>1, <1>2, StartStep

\* Its start is notified twice, and counted under two reasons.
LEMMA GetSpectrumInfoStep ==
  ASSUME IInv, NEW r \in Radios, NEW fault \in Faults, NEW a \in FreeAddrs,
         GetSpectrumInfo(r, fault, a)
  PROVE  IInv'
<1> DEFINE fsr == "ForcedSpectrumRefresh"
           gsi == "getSpectrumInfo"
           E == StartExt(World, r, fault, a)
           T == ScanStart(World, r, fsr, fault, a)
           U == Defer(Refreshed(T, r), r, gsi)
<1>1. Good(World) /\ wiphy \in [Radios -> Wiphys]
  BY DEF IInv
<1>2. a \in Addrs /\ \A i \in DOMAIN World.pool : World.pool[i].addr # a
  BY FreeAddrFacts
<1>3. Asked(r, fault) /\ CallPaid(fault) /\ Become(U)
  BY DEF GetSpectrumInfo
<1>4. /\ World.scan[r] = "None" /\ left.calls > 0
      /\ left' \in Lefts /\ left'.calls = left.calls - 1
  BY <1>3, AskedFacts
<1>5. Good(E) /\ Quiet(World, E)
  BY <1>1, <1>2, StartExtKeeps
<1>6. T = IF E.rc = "error" THEN E ELSE Notify(E, r, fsr)
  BY DEF ScanStart
<1> HIDE DEF E
<1>7. E \in State /\ E.scan \in [Radios -> Scans] /\ E.call \in [Radios -> Kinds]
      /\ E.counted \in [Radios -> Counters] /\ IsInjective(E.diag.todo) /\ Diagnosed(E)
      /\ E.diag \in Diags
  BY <1>5 DEF Good, State
<1>8. E.scan[r] = "None"
  BY <1>4, <1>5 DEF Quiet
<1>9. \A q \in Radios : E.counted[q][fsr] \in Nat /\ E.counted[q][fsr] = counted[q][fsr]
  BY <1>5, <1>7, ReasonFacts, WorldFields DEF Quiet, Counters
<1>10. CASE E.rc = "error"
  <2>1. U = E
    BY <1>6, <1>10 DEF Defer, Refreshed
  <2>2. Become(E)
    BY <1>3, <2>1
  <2>3. QED
    BY <1>4, <1>5, <1>9, <2>2, CallStep
<1>11. CASE E.rc # "error"
  <2> DEFINE c1 == [E.counted EXCEPT ![r][fsr] = @ + 1]
             c2 == [c1 EXCEPT ![r][gsi] = @ + 1]
             s1 == [E.scan EXCEPT ![r] = fsr]
             s2 == [s1 EXCEPT ![r] = gsi]
             d2 == [E.call EXCEPT ![r] = gsi]
  <2>1. T = [E EXCEPT !.scan = s1, !.counted = c1]
    <3>1. T = Notify(E, r, fsr)
      BY <1>6, <1>11
    <3>2. [E EXCEPT !.scan = s1, !.counted = c1, !.diag.running = E.diag.running]
            = [E EXCEPT !.scan = s1, !.counted = c1]
      BY <1>7 DEF State, Diags
    <3>3. QED
      BY <3>1, <3>2, <1>7 DEF Notify, State
  <2>2. gsi \in Reasons /\ gsi \in Deferred /\ gsi \in Counted /\ fsr \in Counted /\ gsi # fsr
        /\ gsi \in Scans /\ gsi \in Kinds /\ gsi # "NeighboringDiag"
    BY DEF Reasons, Deferred, Counted, Scans, Kinds
  <2>3. c1 \in [Radios -> Counters]
        /\ \A q \in Radios, k \in Counted :
             c1[q][k] = E.counted[q][k] + IF q = r /\ k = fsr THEN 1 ELSE 0
    BY <1>7, <2>2 DEF Counters
  <2>4. s2 = [E.scan EXCEPT ![r] = gsi] /\ s2 \in [Radios -> Scans]
    BY <1>7, <2>2
  <2>5. d2 \in [Radios -> Kinds]
    BY <1>7, <2>2
  <2> HIDE DEF c1
  <2>6. c2 \in [Radios -> Counters]
        /\ \A q \in Radios, k \in Counted :
             c2[q][k] = c1[q][k] + IF q = r /\ k = gsi THEN 1 ELSE 0
    BY <2>2, <2>3 DEF Counters
  <2>7. /\ T.rc = E.rc /\ T.diag = E.diag /\ T.scan = s1 /\ T.counted = c1 /\ T.call = E.call
        /\ T.pool = E.pool /\ T.upset = E.upset
    BY <1>7, <2>1 DEF State
  <2>8. U = [E EXCEPT !.scan = s2, !.counted = c2, !.call = d2]
    <3>1. Refreshed(T, r) = Notify(T, r, gsi)
      BY <1>11, <2>7 DEF Refreshed
    <3>2. Notify(T, r, gsi) = [E EXCEPT !.scan = s2, !.counted = c2]
      <4>1. Notify(T, r, gsi) = [T EXCEPT !.scan[r] = gsi, !.counted[r][gsi] = @ + 1,
                                          !.diag.running = E.diag.running]
        BY <2>2, <2>7 DEF Notify
      <4> HIDE DEF T
      <4>2. [T EXCEPT !.scan[r] = gsi, !.counted[r][gsi] = @ + 1, !.diag.running = E.diag.running]
              = [E EXCEPT !.scan = s2, !.counted = c2]
        <5>1. E.diag = [E.diag EXCEPT !.running = E.diag.running]
          BY <1>7 DEF Diags
        <5>2. [T EXCEPT !.scan[r] = gsi, !.counted[r][gsi] = @ + 1, !.diag.running = E.diag.running]
                = [T EXCEPT !.scan = s2, !.counted = c2, !.diag = E.diag]
          BY <2>7, <5>1
        <5> HIDE DEF s1, s2, c2
        <5>3. [T EXCEPT !.scan = s2, !.counted = c2, !.diag = E.diag]
                = [E EXCEPT !.scan = s2, !.counted = c2]
          BY <1>7, <2>1 DEF State
        <5>4. QED
          BY <5>2, <5>3
      <4>3. QED
        BY <4>1, <4>2
    <3> HIDE DEF T, s2, c2
    <3>3. QED
      BY <1>7, <1>11, <3>1, <3>2 DEF Defer, State
  <2> HIDE DEF T, U, s2, c2, d2
  <2>9. /\ U \in State /\ U.scan = s2 /\ U.counted = c2 /\ U.call = d2 /\ U.diag = E.diag
        /\ U.pool = E.pool /\ U.upset = E.upset
    BY <1>7, <2>4, <2>5, <2>6, <2>8 DEF State
  <2>10. Diagnosed(U)
    BY <1>7, <1>8, <2>2, <2>4, <2>9, OtherStarts
  <2>11. \A q \in Radios, k \in Reasons :
           U.counted[q][k] = E.counted[q][k] + IF q = r /\ k = gsi THEN 1 ELSE 0
    <3>1. SUFFICES ASSUME NEW q \in Radios, NEW k \in Reasons
                   PROVE  U.counted[q][k] = E.counted[q][k] + IF q = r /\ k = gsi THEN 1 ELSE 0
      OBVIOUS
    <3>2. k \in Counted /\ k # fsr
      BY ReasonFacts
    <3>3. E.counted[q][k] \in Nat
      BY <1>7, <3>2 DEF Counters
    <3>4. QED
      BY <2>3, <2>6, <2>9, <3>2, <3>3
  <2>12. Good(U)
    <3>1. Started(E, U, r, gsi, gsi)
      BY <2>4, <2>9, <2>11 DEF Started, d2
    <3>2. IsInjective(U.diag.todo)
      BY <1>7, <2>9
    <3>3. QED
      BY <1>5, <1>8, <2>2, <2>9, <2>10, <3>1, <3>2, StartedKeeps
  <2>13. \A q \in Radios : U.counted[q][fsr] <= counted[q][fsr] + 1
    BY <1>9, <2>2, <2>3, <2>6, <2>9
  <2>14. QED
    BY <1>3, <1>4, <2>12, <2>13, CallStep
<1>12. QED
  BY <1>10, <1>11

LEMMA LeftFacts ==
  ASSUME IInv
  PROVE  left \in Lefts /\ left.calls \in 0..MaxCalls /\ MaxCalls \in Nat
  BY ScanAssumption DEF IInv, Budget, Lefts

LEMMA DiagnosticStep ==
  ASSUME IInv, Diagnostic
  PROVE  IInv'
<1> DEFINE d == [call |-> FALSE, listens |-> TRUE, todo |-> RadioOrder,
                 running |-> {}, completed |-> {}, failed |-> {}]
           S == [World EXCEPT !.diag = d]
<1>1. Good(World) /\ World \in State
  BY DEF IInv, Good
<1>2. d \in Diags
  BY ScanAssumption DEF Diags
<1>3. /\ S \in State /\ S.diag = d
      /\ S.scan = scan /\ S.call = call /\ S.counted = counted /\ S.pool = pool /\ S.late = late
      /\ S.drv = drv /\ S.nl = nl /\ S.asked = asked /\ S.hit = {} /\ S.upset = upset
  BY <1>1, <1>2, WorldFields DEF State
<1> HIDE DEF S
<1>4. Waiting(S) /\ Counting(S) /\ Queued(S)
  BY <1>1, <1>3, WorldFields DEF Good, Waiting, Counting, Queued, Before
<1>5. Diagnosed(S)
  <2>1. SUFFICES ASSUME "diag" \notin upset PROVE DiagRuns(S) /\ DiagAsking(S)
    <3>1. RadioOrder # <<>>
      BY ScanAssumption DEF ToSet
    <3>2. QED
      BY <1>3, <2>1, <3>1 DEF Diagnosed
  <2>2. DiagRuns(World) /\ DiagPending(World) /\ ~diag.call
    BY <1>1, <2>1, WorldFields DEF Good, Diagnosed, Diagnostic, Free
  <2>3. {r \in Radios : scan[r] = "NeighboringDiag"} = {}
    BY <2>2, WorldFields DEF DiagRuns, DiagPending
  <2>4. DiagRuns(S)
    BY <1>3, <2>3 DEF DiagRuns
  <2>5. DiagAsking(S)
    BY <1>3, ScanAssumption DEF DiagAsking
  <2>6. QED
    BY <2>4, <2>5
<1>6. Good(S)
  BY <1>3, <1>4, <1>5, ScanAssumption DEF Good
<1>7. Become(S)
  BY <1>3 DEF Become, StaleHead, Diagnostic
<1>8. left' \in Lefts /\ left.calls > 0 /\ left'.calls = left.calls - 1
  BY LeftFacts DEF Diagnostic, Lefts
<1>9. \A r \in Radios : S.counted[r]["ForcedSpectrumRefresh"]
                           <= counted[r]["ForcedSpectrumRefresh"] + 1
  BY <1>1, <1>3, ReasonFacts, WorldFields DEF State, Counters
<1>10. QED
  BY <1>6, <1>7, <1>8, <1>9, CallStep

\* The radios that the diagnostic has still to ask, without the one it asks now.
LEMMA TodoFacts ==
  ASSUME NEW q \in Seq(Radios), q # <<>>, IsInjective(q)
  PROVE  /\ Head(q) \in Radios /\ Tail(q) \in Seq(Radios) /\ IsInjective(Tail(q))
         /\ ToSet(q) = {Head(q)} \cup ToSet(Tail(q)) /\ Head(q) \notin ToSet(Tail(q))
         /\ Tail(q) = <<>> <=> Len(q) = 1
<1> DEFINE t == Tail(q)
           n == Len(q)
<1>1. /\ n \in Nat \ {0} /\ DOMAIN q = 1..n
      /\ Head(q) = q[1] /\ q[1] \in Radios
      /\ t \in Seq(Radios) /\ Len(t) = n - 1 /\ DOMAIN t = 1..(n - 1)
      /\ \A i \in 1..(n - 1) : t[i] = q[i + 1]
  BY EmptySeq, HeadTailProperties
<1> HIDE DEF t, n
<1>2. IsInjective(t)
  <2>1. SUFFICES ASSUME NEW i \in 1..(n - 1), NEW j \in 1..(n - 1), t[i] = t[j]
                 PROVE  i = j
    BY <1>1 DEF IsInjective
  <2>2. i + 1 \in DOMAIN q /\ j + 1 \in DOMAIN q /\ q[i + 1] = q[j + 1]
    BY <1>1, <2>1
  <2>3. i + 1 = j + 1
    BY <2>2 DEF IsInjective
  <2>4. QED
    BY <2>3
<1>3. q[1] \notin ToSet(t)
  <2>1. SUFFICES ASSUME NEW i \in 1..(n - 1), t[i] = q[1]
                 PROVE  FALSE
    BY <1>1 DEF ToSet
  <2>2. i + 1 \in DOMAIN q /\ 1 \in DOMAIN q /\ q[i + 1] = q[1]
    BY <1>1, <2>1
  <2>3. i + 1 = 1
    BY <2>2 DEF IsInjective
  <2>4. QED
    BY <2>3
<1>4. ToSet(q) = {q[1]} \cup ToSet(t)
  <2>1. ASSUME NEW x \in ToSet(q) PROVE x \in {q[1]} \cup ToSet(t)
    <3>1. PICK i \in 1..n : x = q[i]
      BY <1>1 DEF ToSet
    <3>2. CASE i = 1
      BY <3>1, <3>2
    <3>3. CASE i # 1
      <4>1. i - 1 \in 1..(n - 1) /\ t[i - 1] = q[i]
        BY <1>1, <3>3
      <4>2. QED
        BY <1>1, <3>1, <4>1 DEF ToSet
    <3>4. QED
      BY <3>2, <3>3
  <2>2. ASSUME NEW x \in {q[1]} \cup ToSet(t) PROVE x \in ToSet(q)
    <3>1. CASE x = q[1]
      BY <1>1, <3>1 DEF ToSet
    <3>2. CASE x \in ToSet(t)
      <4>1. PICK i \in 1..(n - 1) : x = t[i]
        BY <1>1, <3>2 DEF ToSet
      <4>2. i + 1 \in DOMAIN q /\ x = q[i + 1]
        BY <1>1, <4>1
      <4>3. QED
        BY <4>2 DEF ToSet
    <3>3. QED
      BY <2>2, <3>1, <3>2
  <2>3. QED
    BY <2>1, <2>2
<1>5. t = <<>> <=> n = 1
  BY <1>1, EmptySeq
<1>6. QED
  BY <1>1, <1>2, <1>3, <1>4, <1>5 DEF t, n

\* The diagnostic has asked the radio at the head of its list, which either
\* scans now or has failed.
HasAsked(T) ==
  LET t == Tail(T.diag.todo) IN
  /\ T \in State /\ Waiting(T) /\ Counting(T) /\ Queued(T)
  /\ IsInjective(T.diag.todo) /\ T.diag.todo # <<>>
  /\ "diag" \notin T.upset =>
       /\ DiagRuns(T) /\ T.diag.listens /\ ~T.diag.call
       /\ T.diag.running \cap ToSet(t) = {}
       /\ T.diag.completed \cup T.diag.failed = Radios \ (T.diag.running \cup ToSet(t))

LEMMA AskFails ==
  ASSUME NEW S, Good(S), S.diag.todo # <<>>
  PROVE  HasAsked([S EXCEPT !.diag.failed = @ \cup {Head(S.diag.todo)}])
<1> DEFINE r == Head(S.diag.todo)
           d == [S.diag EXCEPT !.failed = @ \cup {r}]
           T == [S EXCEPT !.diag.failed = @ \cup {r}]
           t == Tail(S.diag.todo)
<1>1. S \in State /\ S.diag \in Diags /\ S.diag.todo \in Seq(Radios) /\ IsInjective(S.diag.todo)
  BY DEF Good, State, Diags
<1>2. r \in Radios /\ ToSet(S.diag.todo) = {r} \cup ToSet(t) /\ r \notin ToSet(t)
  BY <1>1, TodoFacts
<1> HIDE DEF r, t
<1>3. /\ d \in Diags /\ d.todo = S.diag.todo /\ d.call = S.diag.call /\ d.listens = S.diag.listens
      /\ d.running = S.diag.running /\ d.completed = S.diag.completed
      /\ d.failed = S.diag.failed \cup {r}
  BY <1>1, <1>2 DEF Diags
<1>4. T = [S EXCEPT !.diag = d]
  BY <1>1 DEF State
<1> HIDE DEF d, T
<1>5. /\ T \in State /\ T.diag = d /\ T.scan = S.scan /\ T.call = S.call /\ T.counted = S.counted
      /\ T.pool = S.pool /\ T.upset = S.upset
  BY <1>1, <1>3, <1>4 DEF State
<1>6. Waiting(T) /\ Counting(T) /\ Queued(T)
  BY <1>5 DEF Good, Waiting, Counting, Queued, Before
<1>7. ASSUME "diag" \notin T.upset
      PROVE  /\ DiagRuns(T) /\ T.diag.listens /\ ~T.diag.call
             /\ T.diag.running \cap ToSet(t) = {}
             /\ T.diag.completed \cup T.diag.failed = Radios \ (T.diag.running \cup ToSet(t))
  <2>1. DiagRuns(S) /\ DiagAsking(S)
    BY <1>5, <1>7 DEF Good, Diagnosed
  <2>2. DiagRuns(T)
    BY <1>3, <1>5, <2>1 DEF DiagRuns
  <2>3. r \notin S.diag.running
    BY <1>2, <2>1 DEF DiagAsking
  <2>4. QED
    BY <1>2, <1>3, <1>5, <2>1, <2>2, <2>3 DEF DiagAsking
<1>8. T.diag.todo = S.diag.todo
  BY <1>3, <1>5
<1>9. HasAsked(T)
  BY <1>1, <1>5, <1>6, <1>7, <1>8 DEF HasAsked, t
<1>10. QED
  BY <1>9 DEF T, r

LEMMA AskStarts ==
  ASSUME NEW S, Good(S), S.diag.todo # <<>>, S.scan[Head(S.diag.todo)] = "None"
  PROVE  HasAsked(Notify(S, Head(S.diag.todo), "NeighboringDiag"))
<1> DEFINE r == Head(S.diag.todo)
           nd == "NeighboringDiag"
           T == Notify(S, r, nd)
           t == Tail(S.diag.todo)
<1>1. S \in State /\ S.diag \in Diags /\ S.diag.todo \in Seq(Radios) /\ IsInjective(S.diag.todo)
      /\ S.scan \in [Radios -> Scans] /\ S.call \in [Radios -> Kinds]
  BY DEF Good, State, Diags
<1>2. r \in Radios /\ ToSet(S.diag.todo) = {r} \cup ToSet(t) /\ r \notin ToSet(t)
  BY <1>1, TodoFacts
<1>3. nd \in Reasons /\ nd \notin Deferred
  BY ReasonFacts
<1>4. S.scan[r] = "None"
  OBVIOUS
<1> HIDE DEF r, t, nd
<1>5. Notified(S, T, r, nd)
  BY <1>1, <1>2, <1>3, NotifyEffect
<1> HIDE DEF T
<1>6. /\ T \in State /\ T.scan = [S.scan EXCEPT ![r] = nd] /\ T.call = S.call
      /\ T.pool = S.pool /\ T.upset = S.upset /\ T.diag.todo = S.diag.todo
      /\ T.diag.call = S.diag.call /\ T.diag.listens = S.diag.listens
      /\ T.diag.completed = S.diag.completed /\ T.diag.failed = S.diag.failed
  BY <1>5 DEF Notified
<1>7. S.diag.listens => T.diag.running = S.diag.running \cup {r}
  BY <1>5 DEF Notified, nd
<1>8. T.scan[r] = nd /\ \A q \in Radios \ {r} : T.scan[q] = S.scan[q]
  BY <1>1, <1>2, <1>6
<1>9. Waiting(T)
  <2>1. S.call[r] = "none" \/ S.call[r] \in Deferred
    BY <1>1, <1>2 DEF Kinds
  <2>2. S.call[r] = "none"
    BY <1>2, <1>4, <2>1, ReasonFacts DEF Good, Waiting
  <2>3. QED
    BY <1>6, <1>8, <2>2 DEF Good, Waiting
<1>10. Counting(T)
  <2>1. SUFFICES ASSUME NEW q \in Radios, NEW k \in Reasons
                 PROVE  T.counted[q][k] = IF T.scan[q] = k THEN 1 ELSE 0
    BY DEF Counting
  <2>2. S.counted[q][k] = IF S.scan[q] = k THEN 1 ELSE 0
    BY DEF Good, Counting
  <2>3. k # "None" /\ k \in Counted
    BY ReasonFacts
  <2>4. T.counted[q][k] = S.counted[q][k] + IF q = r /\ k = nd THEN 1 ELSE 0
    BY <1>5, <2>3 DEF Notified
  <2>5. CASE q = r
    BY <1>4, <1>8, <2>2, <2>3, <2>4, <2>5
  <2>6. CASE q # r
    BY <1>8, <2>2, <2>4, <2>6
  <2>7. QED
    BY <2>5, <2>6
<1>11. Queued(T)
  BY <1>6 DEF Good, Queued, Before
<1>12. ASSUME "diag" \notin T.upset
       PROVE  /\ DiagRuns(T) /\ T.diag.listens /\ ~T.diag.call
              /\ T.diag.running \cap ToSet(t) = {}
              /\ T.diag.completed \cup T.diag.failed = Radios \ (T.diag.running \cup ToSet(t))
  <2>1. DiagRuns(S) /\ DiagAsking(S)
    BY <1>6, <1>12 DEF Good, Diagnosed
  <2>2. T.diag.running = S.diag.running \cup {r}
    BY <1>7, <2>1 DEF DiagAsking
  <2>3. DiagRuns(T)
    BY <1>2, <1>8, <2>1, <2>2 DEF DiagRuns, nd
  <2>4. QED
    BY <1>2, <1>6, <2>1, <2>2, <2>3 DEF DiagAsking
<1>13. HasAsked(T)
  BY <1>1, <1>6, <1>9, <1>10, <1>11, <1>12 DEF HasAsked, t
<1>14. QED
  BY <1>13 DEF T, r, nd

\* After the last radio the call is deferred if a scan runs.
NextAsked(T) ==
  LET waits == T.diag.running # {} IN
  [T EXCEPT !.diag.todo = Tail(@),
            !.diag.call = IF Len(T.diag.todo) = 1 THEN waits ELSE @,
            !.diag.listens = IF Len(T.diag.todo) = 1 THEN @ /\ waits ELSE @]

LEMMA NextAskedGood ==
  ASSUME NEW T, HasAsked(T)
  PROVE  /\ Good(NextAsked(T))
         /\ NextAsked(T).counted = T.counted /\ NextAsked(T).hit = T.hit
<1> DEFINE t == Tail(T.diag.todo)
           last == Len(T.diag.todo) = 1
           waits == T.diag.running # {}
           d == [T.diag EXCEPT !.todo = t, !.call = IF last THEN waits ELSE @,
                               !.listens = IF last THEN @ /\ waits ELSE @]
           F == NextAsked(T)
<1>1. T \in State /\ T.diag \in Diags /\ T.diag.todo \in Seq(Radios) /\ IsInjective(T.diag.todo)
      /\ T.diag.todo # <<>>
  BY DEF HasAsked, State, Diags
<1>2. t \in Seq(Radios) /\ IsInjective(t) /\ (t = <<>> <=> last)
  BY <1>1, TodoFacts
<1>3. /\ d \in Diags /\ d.todo = t /\ d.running = T.diag.running
      /\ d.completed = T.diag.completed /\ d.failed = T.diag.failed
      /\ d.call = IF last THEN waits ELSE T.diag.call
      /\ d.listens = IF last THEN T.diag.listens /\ waits ELSE T.diag.listens
  BY <1>1, <1>2 DEF Diags
<1>4. F = [T EXCEPT !.diag = d]
  BY <1>1 DEF NextAsked, State, Diags
<1> HIDE DEF d, F
<1>5. /\ F \in State /\ F.diag = d /\ F.scan = T.scan /\ F.call = T.call /\ F.counted = T.counted
      /\ F.pool = T.pool /\ F.upset = T.upset /\ F.hit = T.hit
  BY <1>1, <1>3, <1>4 DEF State
<1>6. Waiting(F) /\ Counting(F) /\ Queued(F)
  BY <1>5 DEF HasAsked, Waiting, Counting, Queued, Before
<1>7. Diagnosed(F)
  <2>1. SUFFICES ASSUME "diag" \notin T.upset
                 PROVE  DiagRuns(F) /\ IF last THEN DiagPending(F) ELSE DiagAsking(F)
    BY <1>2, <1>3, <1>5 DEF Diagnosed
  <2>2. /\ DiagRuns(T) /\ T.diag.listens /\ ~T.diag.call
        /\ T.diag.running \cap ToSet(t) = {}
        /\ T.diag.completed \cup T.diag.failed = Radios \ (T.diag.running \cup ToSet(t))
    BY <2>1 DEF HasAsked
  <2>3. DiagRuns(F)
    BY <1>3, <1>5, <2>2 DEF DiagRuns
  <2>4. CASE last
    <3>1. ToSet(t) = {}
      BY <1>2, <2>4 DEF ToSet
    <3>2. DiagPending(F)
      BY <1>3, <1>5, <2>2, <2>4, <3>1 DEF DiagPending
    <3>3. QED
      BY <2>3, <2>4, <3>2
  <2>5. CASE ~last
    BY <1>3, <1>5, <2>2, <2>3, <2>5 DEF DiagAsking
  <2>6. QED
    BY <2>4, <2>5
<1>8. QED
  BY <1>2, <1>3, <1>5, <1>6, <1>7 DEF Good, F

LEMMA DiagnosticAsksStep ==
  ASSUME IInv, NEW fault \in Faults, NEW a \in FreeAddrs, DiagnosticAsks(fault, a)
  PROVE  IInv'
<1> DEFINE r == Head(diag.todo)
           E == StartExt(World, r, fault, a)
           S == StartScan(World, r, "NeighboringDiag", fault, a)
           T == IF S.rc = "error" THEN [S EXCEPT !.diag.failed = @ \cup {r}] ELSE S
           waits == T.diag.running # {}
           fsr == "ForcedSpectrumRefresh"
           F == [T EXCEPT !.diag.todo = Tail(@),
                          !.diag.call = IF Len(diag.todo) = 1 THEN waits ELSE @,
                          !.diag.listens = IF Len(diag.todo) = 1 THEN @ /\ waits ELSE @]
<1>1. ~Free /\ Become(F) /\ left' = Paid(left, fault) /\ (fault # "none" => left.faults > 0)
  BY DEF DiagnosticAsks, Spend
<1>2. Good(World) /\ wiphy \in [Radios -> Wiphys] /\ World \in State
      /\ diag.todo \in Seq(Radios) /\ diag.todo # <<>> /\ IsInjective(diag.todo)
  BY <1>1, WorldFields DEF IInv, Good, State, Diags, Free
<1>3. r \in Radios
  BY <1>2, TodoFacts
<1>4. a \in Addrs /\ \A i \in DOMAIN World.pool : World.pool[i].addr # a
  BY FreeAddrFacts
<1> DEFINE Same(U) == U.diag.todo = diag.todo /\ \A q \in Radios : U.counted[q][fsr] = counted[q][fsr]
<1>5. Same(World)
  BY WorldFields
<1>6. HasAsked(T) /\ Same(T)
  <2>1. CASE Running(World, r)
    <3>1. S = [World EXCEPT !.rc = "error"]
      BY <2>1 DEF StartScan
    <3>2. Good(S) /\ Quiet(World, S) /\ S.rc = "error"
      BY <1>2, <3>1, ResultKeeps
    <3>3. Same(S)
      BY <1>5, <3>2 DEF Quiet
    <3>4. S \in State
      BY <3>2 DEF Good
    <3> HIDE DEF S
    <3>5. T = [S EXCEPT !.diag.failed = @ \cup {Head(S.diag.todo)}]
      BY <3>2, <3>3
    <3>6. HasAsked(T)
      BY <1>2, <3>2, <3>3, <3>5, AskFails
    <3>7. Same(T)
      BY <3>3, <3>4, <3>5 DEF State, Diags
    <3>8. QED
      BY <3>6, <3>7
  <2>2. CASE ~Running(World, r)
    <3>1. S = IF E.rc = "error" THEN E ELSE Notify(E, r, "NeighboringDiag")
      BY <2>2 DEF StartScan, ScanStart
    <3>2. Good(E) /\ Quiet(World, E)
      BY <1>2, <1>3, <1>4, StartExtKeeps
    <3>3. Same(E) /\ E.scan[r] = "None"
      BY <1>3, <1>5, <2>2, <3>2, WorldFields DEF Quiet, Running
    <3>4. E \in State
      BY <3>2 DEF Good
    <3> HIDE DEF E, S
    <3>5. CASE E.rc = "error"
      <4>1. T = [E EXCEPT !.diag.failed = @ \cup {Head(E.diag.todo)}]
        BY <3>1, <3>3, <3>5
      <4> HIDE DEF T
      <4>2. HasAsked(T)
        BY <1>2, <3>2, <3>3, <4>1, AskFails
      <4>3. Same(T)
        BY <3>3, <3>4, <4>1 DEF State, Diags
      <4>4. QED
        BY <4>2, <4>3
    <3>6. CASE E.rc # "error"
      <4> DEFINE nd == "NeighboringDiag"
      <4>1. S = Notify(E, r, nd) /\ r = Head(E.diag.todo)
        BY <3>1, <3>3, <3>6
      <4>2. nd \in Reasons /\ nd # fsr /\ fsr \in Counted
        BY ReasonFacts
      <4> HIDE DEF nd
      <4>3. Notified(E, S, r, nd)
        BY <1>3, <3>4, <4>1, <4>2, NotifyEffect
      <4>4. T = S
        BY <3>6, <4>3 DEF Notified
      <4>5. HasAsked(S)
        BY <1>2, <3>2, <3>3, <4>1, AskStarts DEF nd
      <4>6. Same(S)
        <5>1. \A q \in Radios : S.counted[q][fsr] = E.counted[q][fsr] + 0
          BY <4>2, <4>3 DEF Notified
        <5>2. \A q \in Radios : E.counted[q][fsr] \in Nat
          BY <3>4, <4>2 DEF State, Counters
        <5>3. S.diag.todo = E.diag.todo
          BY <4>3 DEF Notified
        <5>4. QED
          BY <3>3, <5>1, <5>2, <5>3
      <4>7. QED
        BY <4>4, <4>5, <4>6
    <3>7. QED
      BY <3>5, <3>6
  <2>3. QED
    BY <2>1, <2>2
<1> HIDE DEF T
<1>7. F = NextAsked(T)
  BY <1>6 DEF NextAsked
<1> HIDE DEF F
<1>8. Good(F) /\ F.counted = T.counted
  BY <1>6, <1>7, NextAskedGood
<1>9. wiphy' \in [Radios -> Wiphys] /\ Good(World)'
  BY <1>1, <1>2, <1>8, BecomeGood DEF Become
<1>10. left' \in Lefts /\ left'.calls = left.calls
  BY <1>1, LeftFacts, PaidFacts
<1>11. left.calls # MaxCalls
  BY <1>1 DEF IInv, Budget
<1>12. \A q \in Radios : counted'[q][fsr] = counted[q][fsr]
  BY <1>1, <1>6, <1>8 DEF Become
<1>13. Budget'
  BY <1>10, <1>11, <1>12 DEF IInv, Budget, Lefts
<1>14. QED
  BY <1>9, <1>13 DEF IInv

\* wld_scan_stop
LEMMA StopScanStep ==
  ASSUME IInv, NEW r \in Radios, NEW fault \in Faults, NEW early \in BOOLEAN,
         StopScan(r, fault, early)
  PROVE  IInv'
<1> DEFINE d == drv[wiphy[r]]
           ok == fault = "none" /\ d.rad # NoRad
           T == IF ~ok THEN World
                ELSE IF ~early THEN [World EXCEPT !.drv[wiphy[r]].aborting = TRUE]
                ELSE [World EXCEPT !.drv[wiphy[r]] = Idle,
                                   !.nl = Append(@, [event |-> "aborted", rad |-> d.rad])]
           D == Drain(T)
           U == ScheduleNext(D, r)
           S == ScanStop(World, r, fault, early)
           l == [left EXCEPT !.stops = @ - 1]
<1>1. Good(World) /\ wiphy \in [Radios -> Wiphys] /\ World \in State /\ wiphy[r] \in Wiphys
  BY DEF IInv, Good
<1>2. d \in Drvs /\ d.rad \in Radios \cup {NoRad}
  BY <1>1, WorldFields DEF State, Drvs
<1>3. Good(T) /\ Quiet(World, T)
  <2>1. CASE ~ok
    BY <1>1, <2>1, QuietFacts
  <2>2. CASE ok /\ ~early
    <3> DEFINE v == [drv EXCEPT ![wiphy[r]].aborting = TRUE]
    <3>1. drv \in [Wiphys -> Drvs]
      BY <1>1, WorldFields DEF State
    <3>2. v \in [Wiphys -> Drvs]
      BY <1>1, <3>1 DEF Drvs
    <3>3. T = [World EXCEPT !.drv = v]
      BY <2>2 DEF World
    <3> HIDE DEF v, T
    <3>4. T \in State /\ SameScans(World, T) /\ T.pool = World.pool
      BY <1>1, <3>2, <3>3 DEF State, SameScans
    <3>5. Queued(T)
      BY <1>1, <3>4 DEF Good, Queued, Before
    <3>6. QED
      BY <1>1, <3>4, <3>5, SameScansKeep
  <2>3. CASE ok /\ early
    <3> DEFINE v == [drv EXCEPT ![wiphy[r]] = Idle]
               m == [event |-> "aborted", rad |-> d.rad]
               n == Append(nl, m)
    <3>1. v \in [Wiphys -> Drvs]
      BY <1>1, WorldFields DEF State, Drvs, Idle
    <3>2. m \in Msgs
      BY <1>2, <2>3 DEF Msgs, Events
    <3>3. nl \in Seq(Msgs)
      BY <1>1, WorldFields DEF State
    <3>4. n \in Seq(Msgs)
      BY <3>2, <3>3
    <3>5. T = [World EXCEPT !.drv = v, !.nl = n]
      BY <2>3 DEF World
    <3> HIDE DEF v, n, T
    <3>6. T \in State /\ SameScans(World, T) /\ T.pool = World.pool
      BY <1>1, <3>1, <3>4, <3>5 DEF State, SameScans
    <3>7. Queued(T)
      BY <1>1, <3>6 DEF Good, Queued, Before
    <3>8. QED
      BY <1>1, <3>6, <3>7, SameScansKeep
  <2>4. QED
    BY <2>1, <2>2, <2>3
<1>4. S = IF ok THEN Done(U, r, FALSE)
          ELSE IF Dropped(D, r) THEN [U EXCEPT !.upset = @ \cup {"queue"}] ELSE U
  BY WorldFields DEF ScanStop
<1> HIDE DEF T
<1>5. Good(D) /\ Quiet(T, D)
  BY <1>3, DrainKeeps
<1> HIDE DEF D
<1>6. Good(U) /\ Quiet(D, U)
  BY <1>5, ScheduleNextKeeps
<1> HIDE DEF U
<1>7. Quiet(World, U)
  BY <1>3, <1>5, <1>6, QuietFacts
<1>8. Good(S) /\ Quiet(World, S)
  <2> HIDE DEF S
  <2>1. CASE S = Done(U, r, FALSE)
    <3>1. Good(S) /\ Quiet(U, S)
      BY <1>6, <2>1, DoneKeeps
    <3>2. QED
      BY <1>7, <3>1, QuietFacts
  <2>2. CASE S = [U EXCEPT !.upset = @ \cup {"queue"}]
    <3>1. U \in State
      BY <1>6 DEF Good
    <3>2. /\ S \in State /\ S.scan = U.scan /\ S.call = U.call /\ S.counted = U.counted
          /\ S.diag = U.diag /\ S.pool = U.pool
          /\ U.upset \subseteq S.upset /\ ("diag" \in S.upset => "diag" \in U.upset)
      BY <2>2, <3>1 DEF State
    <3>3. Waiting(S) /\ Counting(S) /\ Queued(S) /\ IsInjective(S.diag.todo)
      BY <1>6, <3>2 DEF Good, Waiting, Counting, Queued, Before
    <3>4. Diagnosed(S)
      BY <1>6, <3>2 DEF Good, Diagnosed, DiagRuns, DiagPending, DiagAsking
    <3>5. Quiet(U, S)
      BY <3>2 DEF Quiet
    <3>6. QED
      BY <1>7, <3>2, <3>3, <3>4, <3>5, QuietFacts DEF Good
  <2>3. CASE S = U
    BY <1>6, <1>7, <2>3
  <2>4. QED
    BY <1>4, <2>1, <2>2, <2>3
<1>9. left' \in Lefts /\ left'.calls = left.calls
  <2>1. l \in Lefts /\ l.calls = left.calls /\ l.faults = left.faults
    BY LeftFacts, ScanAssumption DEF StopScan, Lefts
  <2>2. left' = Paid(l, fault) /\ (fault # "none" => l.faults > 0)
    BY <2>1 DEF StopScan, Spend
  <2> HIDE DEF l
  <2>3. QED
    BY <2>1, <2>2, PaidFacts
<1>10. Become(S)
  BY DEF StopScan
<1> HIDE DEF S
<1>11. QED
  BY <1>8, <1>9, <1>10, QuietStep

LEMMA ReadNlStep ==
  ASSUME IInv, ReadNl
  PROVE  IInv'
<1> DEFINE W == [World EXCEPT !.nl = Tail(@)]
           m == Head(nl)
           S == Handle(W, m)
<1>1. Good(World) /\ World \in State /\ nl \in Seq(Msgs) /\ nl # <<>>
  BY WorldFields DEF IInv, Good, State, ReadNl
<1>2. m \in Msgs /\ Tail(nl) \in Seq(Msgs)
  BY <1>1, HeadTailProperties
<1>3. Good(W) /\ Quiet(World, W)
  <2>1. W \in State /\ SameScans(World, W) /\ W.pool = World.pool
    BY <1>1, <1>2, WorldFields DEF State, SameScans
  <2> HIDE DEF W
  <2>2. Queued(W)
    BY <1>1, <2>1 DEF Good, Queued, Before
  <2>3. QED
    BY <1>1, <2>1, <2>2, SameScansKeep
<1>4. Become(S) /\ left' = left
  BY DEF ReadNl
<1> HIDE DEF W, m
<1>5. Good(S) /\ Quiet(W, S)
  BY <1>2, <1>3, HandleKeeps
<1> HIDE DEF S
<1>6. Quiet(World, S)
  BY <1>3, <1>5, QuietFacts
<1>7. QED
  BY <1>4, <1>5, <1>6, LeftFacts, QuietStep

\* s_runScan
LEMMA DelayedRunStep ==
  ASSUME IInv, NEW fault \in Faults, DelayedRun(fault)
  PROVE  IInv'
<1> DEFINE W == [World EXCEPT !.late = Tail(@)]
           a == Head(late)
           e == CHOOSE x \in ToSet(W.pool) : x.addr = a
           E == StartExt(W, e.rad, fault, a)
           S == RunScan(W, a, fault)
<1>1. Good(World) /\ World \in State /\ late \in Seq(Addrs) /\ late # <<>>
      /\ wiphy \in [Radios -> Wiphys]
  BY WorldFields DEF IInv, Good, State, DelayedRun
<1>2. a \in Addrs /\ Tail(late) \in Seq(Addrs)
  BY <1>1, HeadTailProperties
<1>3. Good(W) /\ Quiet(World, W)
  <2>1. W \in State /\ SameScans(World, W) /\ W.pool = World.pool
    BY <1>1, <1>2, WorldFields DEF State, SameScans
  <2> HIDE DEF W
  <2>2. Queued(W)
    BY <1>1, <2>1 DEF Good, Queued, Before
  <2>3. QED
    BY <1>1, <2>1, <2>2, SameScansKeep
<1>4. Become(S) /\ left' = Paid(left, fault) /\ (fault # "none" => left.faults > 0)
  BY DEF DelayedRun, Spend
<1>5. S = IF \A x \in ToSet(W.pool) : x.addr # a THEN W
          ELSE IF E.rc = "error" THEN Done(E, e.rad, FALSE) ELSE E
  BY DEF RunScan
<1> HIDE DEF W, a, S
<1>6. Good(S) /\ Quiet(World, S)
  <2>1. CASE \A x \in ToSet(W.pool) : x.addr # a
    BY <1>3, <1>5, <2>1
  <2>2. CASE ~ \A x \in ToSet(W.pool) : x.addr # a
    <3>1. e \in ToSet(W.pool)
      BY <2>2
    <3>2. W.pool \in Seq(Infos)
      BY <1>3 DEF Good, State
    <3> HIDE DEF e
    <3>3. PICK i \in DOMAIN W.pool : e = W.pool[i]
      BY <3>1 DEF ToSet
    <3>4. e \in Infos
      BY <3>2, <3>3
    <3>5. e.rad \in Radios /\ HasEntry(W, e.rad)
      BY <3>3, <3>4 DEF Infos, HasEntry, OfRadio
    <3>6. Good(E) /\ Quiet(W, E)
      BY <1>1, <1>2, <1>3, <3>5, StartExtKeeps
    <3> HIDE DEF E
    <3>7. Quiet(World, E)
      BY <1>3, <3>6, QuietFacts
    <3>8. CASE E.rc = "error"
      <4>1. S = Done(E, e.rad, FALSE)
        BY <1>5, <2>2, <3>8
      <4>2. Good(S) /\ Quiet(E, S)
        BY <3>5, <3>6, <4>1, DoneKeeps
      <4>3. QED
        BY <3>7, <4>2, QuietFacts
    <3>9. CASE E.rc # "error"
      BY <1>5, <2>2, <3>6, <3>7, <3>9
    <3>10. QED
      BY <3>8, <3>9
  <2>3. QED
    BY <2>1, <2>2
<1>7. left' \in Lefts /\ left'.calls = left.calls
  BY <1>4, LeftFacts, PaidFacts
<1>8. QED
  BY <1>4, <1>6, <1>7, QuietStep

\* The driver and the kernel: a message more in the socket.
LEMMA ReportStep ==
  ASSUME IInv, NEW m \in Msgs, Report(m), drv' \in [Wiphys -> Drvs], asked' \in Seq(Radios),
         left' \in Lefts, left'.calls = left.calls
  PROVE  IInv'
<1> DEFINE n == Append(nl, m)
<1>1. Good(World) /\ World \in State /\ nl \in Seq(Msgs)
  BY WorldFields DEF IInv, Good, State
<1>2. n \in Seq(Msgs)
  BY <1>1
<1>3. /\ wiphy' = wiphy /\ scan' = scan /\ call' = call /\ counted' = counted /\ diag' = diag
      /\ pool' = pool /\ late' = late /\ upset' = upset /\ nl' = n
  BY DEF Report
<1> HIDE DEF n
<1>4. (World \in State)'
  BY <1>1, <1>2, <1>3 DEF World, State
<1>5. Good(World)'
  <2>1. /\ World'.scan = World.scan /\ World'.call = World.call /\ World'.counted = World.counted
        /\ World'.diag = World.diag /\ World'.pool = World.pool /\ World'.upset = World.upset
    BY <1>3 DEF World
  <2>2. Waiting(World)' /\ Counting(World)'
    BY <1>1, <2>1 DEF Good, Waiting, Counting
  <2>3. Diagnosed(World)'
    BY <1>1, <2>1 DEF Good, Diagnosed, DiagRuns, DiagPending, DiagAsking
  <2>4. Queued(World)'
    BY <1>1, <1>3, <2>1 DEF Good, Queued, Before
  <2>5. IsInjective(World.diag.todo)'
    BY <1>1, <2>1 DEF Good
  <2>6. QED
    BY <1>4, <2>2, <2>3, <2>4, <2>5 DEF Good
<1>6. Budget'
  BY <1>3 DEF IInv, Budget, Free, Lefts
<1>7. QED
  BY <1>3, <1>5, <1>6 DEF IInv

LEMMA DriverFacts ==
  ASSUME IInv
  PROVE  /\ drv \in [Wiphys -> Drvs] /\ asked \in Seq(Radios)
         /\ \A w \in Wiphys : /\ drv[w].rad \in Radios \cup {NoRad}
                              /\ [drv EXCEPT ![w] = Idle] \in [Wiphys -> Drvs]
<1>1. drv \in [Wiphys -> Drvs] /\ asked \in Seq(Radios)
  BY WorldFields DEF IInv, Good, State
<1>2. Idle \in Drvs
  BY DEF Idle, Drvs
<1>3. QED
  BY <1>1, <1>2 DEF Drvs

LEMMA EndsStep ==
  ASSUME IInv, Ends
  PROVE  IInv'
<1>1. PICK w \in Wiphys : ScanEnds(w) \/ ScanAborted(w)
  BY DEF Ends
<1> DEFINE m(e) == [event |-> e, rad |-> drv[w].rad]
<1>2. drv[w].rad \in Radios /\ drv' \in [Wiphys -> Drvs] /\ asked' \in Seq(Radios)
  BY <1>1, DriverFacts DEF ScanEnds, ScanAborted
<1>3. m("aborted") \in Msgs /\ m("done") \in Msgs
  BY <1>2 DEF Msgs, Events
<1>4. left' \in Lefts /\ left'.calls = left.calls
  BY <1>1, LeftFacts, ScanAssumption DEF ScanEnds, ScanAborted, Lefts
<1>5. Report(m("aborted")) \/ Report(m("done"))
  BY <1>1 DEF ScanEnds, ScanAborted
<1> HIDE DEF m
<1>6. QED
  BY <1>2, <1>3, <1>4, <1>5, ReportStep

LEMMA AnswersStep ==
  ASSUME IInv, NEW ok \in BOOLEAN, Answers(ok)
  PROVE  IInv'
<1> DEFINE m(e) == [event |-> e, rad |-> Head(asked)]
<1>1. Head(asked) \in Radios /\ asked' \in Seq(Radios)
  BY DriverFacts, HeadTailProperties DEF Answers
<1>2. m("results") \in Msgs /\ m("noResults") \in Msgs
  BY <1>1 DEF Msgs, Events
<1>3. left' \in Lefts /\ left'.calls = left.calls
  BY LeftFacts, ScanAssumption DEF Answers, Lefts
<1>4. drv' \in [Wiphys -> Drvs]
  BY DriverFacts DEF Answers
<1>5. Report(m("results")) \/ Report(m("noResults"))
  BY DEF Answers
<1> HIDE DEF m
<1>6. QED
  BY <1>1, <1>2, <1>3, <1>4, <1>5, ReportStep

-----------------------------------------------------------------------------
(* The theorems *)

LEMMA InitIInv == Init => IInv
<1> SUFFICES ASSUME Init PROVE IInv
  OBVIOUS
<1>1. World \in State
  <2>1. <<>> \in Seq(Radios) /\ <<>> \in Seq(Infos) /\ <<>> \in Seq(Addrs) /\ <<>> \in Seq(Msgs)
    OBVIOUS
  <2>2. [r \in Radios |-> [k \in Counted |-> 0]] \in [Radios -> Counters]
    BY DEF Counters
  <2>3. diag \in Diags
    BY <2>1 DEF Init, Diags
  <2>4. drv \in [Wiphys -> Drvs]
    BY DEF Init, Drvs, Idle
  <2>5. scan \in [Radios -> Scans] /\ call \in [Radios -> Kinds]
    BY DEF Init, Scans, Kinds
  <2>6. QED
    BY <2>1, <2>2, <2>3, <2>4, <2>5 DEF Init, World, State
<1>2. Waiting(World) /\ Counting(World)
  BY WorldFields, ReasonFacts DEF Init, Waiting, Counting
<1>3. Diagnosed(World)
  BY WorldFields DEF Init, Diagnosed, DiagRuns, DiagPending
<1>4. Queued(World) /\ IsInjective(World.diag.todo)
  BY WorldFields DEF Init, Queued, IsInjective
<1>5. Budget
  BY ScanAssumption, ReasonFacts DEF Init, Budget, Free
<1>6. QED
  BY <1>1, <1>2, <1>3, <1>4, <1>5, ScanAssumption DEF Init, IInv, Good

LEMMA StutterIInv ==
  ASSUME IInv, UNCHANGED vars
  PROVE  IInv'
<1>1. Good(World)'
  BY DEF IInv, Good, vars, World, Waiting, Counting, Diagnosed, DiagRuns, DiagPending, DiagAsking,
         Queued, Before
<1>2. Budget'
  BY DEF IInv, Budget, Free, vars
<1>3. QED
  BY <1>1, <1>2 DEF IInv, vars

LEMMA NextIInv == IInv /\ [Next]_vars => IInv'
<1> SUFFICES ASSUME IInv, [Next]_vars PROVE IInv'
  OBVIOUS
<1>1. ASSUME NEW r \in Radios, NEW fault \in Faults, NEW a \in FreeAddrs,
             ScanCall(r, fault, a) \/ FullScan(r, fault, a) \/ GetSpectrumInfo(r, fault, a)
      PROVE  IInv'
  BY <1>1, ScanCallStep, FullScanStep, GetSpectrumInfoStep
<1>2. ASSUME NEW r \in Radios, NEW fault \in Faults, NEW early \in BOOLEAN,
             StopScan(r, fault, early)
      PROVE  IInv'
  BY <1>2, StopScanStep
<1>3. CASE Diagnostic
  BY <1>3, DiagnosticStep
<1>4. CASE Asks
  BY <1>4, DiagnosticAsksStep DEF Asks
<1>5. CASE ReadNl
  BY <1>5, ReadNlStep
<1>6. CASE Runs
  BY <1>6, DelayedRunStep DEF Runs
<1>7. CASE Ends
  BY <1>7, EndsStep
<1>8. CASE Answered
  BY <1>8, AnswersStep DEF Answered
<1>9. CASE UNCHANGED vars
  BY <1>9, StutterIInv
<1>10. QED
  BY <1>1, <1>2, <1>3, <1>4, <1>5, <1>6, <1>7, <1>8, <1>9 DEF Next

LEMMA Invariance == Spec => []IInv
  BY InitIInv, NextIInv, PTL DEF Spec

\* Every reachable state has its type: in particular a scan is counted at most once
\* per reason and call, and sScanPool is coherent: it holds a radio once, an
\* address once, and of each wiphy only the first scan is started, whatever is
\* handled inside of the commands that add, start and remove entries.
THEOREM TypeCorrect == Spec => []TypeOK
<1>1. IInv => TypeOK
  <2> SUFFICES ASSUME IInv PROVE TypeOK
    OBVIOUS
  <2>1. World \in State /\ Queued(World) /\ Counting(World)
    BY DEF IInv, Good
  <2>2. /\ scan \in [Radios -> Scans] /\ call \in [Radios -> Kinds]
        /\ counted \in [Radios -> Counters] /\ diag \in Diags /\ pool \in Seq(Infos)
        /\ late \in Seq(Addrs) /\ drv \in [Wiphys -> Drvs] /\ nl \in Seq(Msgs)
        /\ asked \in Seq(Radios) /\ upset \in SUBSET {"queue", "diag", "unheard"}
    BY <2>1, WorldFields DEF State
  <2>3. counted \in [Radios -> [Counted -> 0..MaxCalls]]
    <3>1. SUFFICES ASSUME NEW r \in Radios, NEW k \in Counted
                   PROVE  counted[r][k] \in 0..MaxCalls
      BY <2>2 DEF Counters
    <3>2. counted[r][k] \in Nat /\ left.calls \in 0..MaxCalls /\ MaxCalls \in Nat
      BY <2>2, LeftFacts DEF Counters
    <3>3. CASE k = "ForcedSpectrumRefresh"
      BY <3>2, <3>3 DEF IInv, Budget
    <3>4. CASE k # "ForcedSpectrumRefresh"
      <4>1. k \in Reasons /\ k # "None"
        BY <3>4, ReasonFacts DEF Counted
      <4>2. counted[r][k] = IF scan[r] = k THEN 1 ELSE 0
        BY <2>1, <4>1, WorldFields DEF Counting
      <4>3. scan[r] = k => left.calls # MaxCalls
        BY <4>1 DEF IInv, Budget
      <4>4. QED
        BY <3>2, <4>2, <4>3
    <3>5. QED
      BY <3>3, <3>4
  <2>4. PoolCoherent
    BY <2>1, WorldFields DEF Queued, Before, PoolCoherent
  <2>5. QED
    BY <2>2, <2>3, <2>4 DEF IInv, TypeOK, Scans, Kinds, Diags, Infos, Drvs, Msgs
<1>2. QED
  BY <1>1, Invariance, PTL

\* Calls, counters and the diagnostic agree with the scans that run: a deferred
\* call waits for a scan of its own kind, an ended scan was counted so once, and
\* the diagnostic waits for exactly the radios whose diagnostic scan runs.
THEOREM CallsInStep == Spec => []InStep
<1>1. IInv => InStep
  <2> SUFFICES ASSUME IInv PROVE InStep
    OBVIOUS
  <2>1. Waiting(World) /\ Counting(World) /\ Diagnosed(World)
    BY DEF IInv, Good
  <2>2. Free /\ "diag" \notin upset => DiagRuns(World) /\ DiagPending(World)
    BY <2>1, WorldFields DEF Diagnosed, Free
  <2>3. QED
    BY <2>1, <2>2, WorldFields DEF InStep, Waiting, Counting, DiagRuns, DiagPending
<1>2. QED
  BY <1>1, Invariance, PTL

==============================================================================
