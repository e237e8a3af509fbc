--------------------------- MODULE Stations_proofs ---------------------------
(***************************************************************************)
(* Proofs about the associated devices, for any access points, stations    *)
(* and bounds.                                                             *)
(***************************************************************************)
EXTENDS Stations, Iteration, FiniteSetTheorems, TLAPS

(***************************************************************************)
(* The handlers work on a record of the state: so do the invariants here.  *)
(***************************************************************************)
Entries == [mac : Macs, active : BOOLEAN, auth : BOOLEAN, delayed : BOOLEAN,
            reason : Reasons, framed : BOOLEAN, fresh : BOOLEAN]
Signals == [ap : Aps, mac : Macs, reason : Reasons, fresh : BOOLEAN, due : BOOLEAN, cut : BOOLEAN]

\* A station has one entry.
Unique(l) == \A i, j \in DOMAIN l : l[i].mac = l[j].mac => i = j
Lists == {l \in Seq(Entries) : Unique(l)}
State == [list : [Aps -> Lists], nr : [Aps -> Nat], open : [Aps -> Int], sent : SUBSET Signals,
          owed : [Aps -> SUBSET Macs], cut : [Aps -> SUBSET Macs], kicks : SUBSET (Aps \X Macs)]

(***************************************************************************)
(* What holds of an access point between any two steps of a handler: a     *)
(* pending notification has its reason to be, a frame of the session is its *)
(* reason, and what is counted and owed is in the list.  X are stations    *)
(* whose notification is pending before their session has ended.           *)
(***************************************************************************)
Delayed(l) == {e.mac : e \in {f \in Range(l) : f.delayed}}
Framed(l, C) == \A e \in Range(l) : e.fresh => e.framed /\ (e.reason = "frame" \/ e.mac \in C)
FineBut(S, a, X) ==
  LET l == S.list[a]
  IN /\ Len(l) <= MaxEntries /\ MacsOf(l) \subseteq Stas[a] /\ S.cut[a] \subseteq Stas[a]
     /\ Auth(l) \subseteq Active(l)
     /\ S.nr[a] = Cardinality(Active(l)) /\ S.open[a] = Cardinality(Auth(l))
     /\ S.owed[a] \subseteq Delayed(l)
     /\ lost[a] \/ Delayed(l) \subseteq S.owed[a] \cup S.cut[a] \cup X
     /\ Framed(l, S.cut[a])
Fine(S, a) == FineBut(S, a, {})

\* A signal was due, and gives the reason that it should.
Right(n) ==
  /\ n.due \/ n.cut \/ lost[n.ap]
  /\ n.fresh /\ ~n.cut /\ ~lost[n.ap] => n.reason = "frame"
Good(S) == S \in State /\ (\A a \in Aps : Fine(S, a)) /\ \A n \in S.sent : Right(n)

\* What holds of it between handlers: the cleanup left no more than Sticky.
Loose(l) == Idle(l) \ Delayed(l)
Tidy(l) == Cardinality(Loose(l)) <= Sticky

(***************************************************************************)
(* The events under way tell of a station, in turns, that it is there and  *)
(* that it is not, from what was told last to what it is now.              *)
(***************************************************************************)
Tales == {"up", "down"}
Tells(ev, m) == ev.mac = m /\ ev.kind \in {"CONNECTED", "DISCONNECTED"}
Tale(ev) == IF ev.kind = "CONNECTED" THEN "up" ELSE "down"
Turn(ev, m, b, c) == IF Tells(ev, m) THEN c = Tale(ev) /\ b # c ELSE b = c
Story(q, m, b, c) ==
  \E v \in [0..Len(q) -> Tales] :
    v[0] = b /\ v[Len(q)] = c /\ \A i \in 1..Len(q) : Turn(q[i], m, v[i-1], v[i])
ToCome(q, m) == \E i \in 1..Len(q) : q[i] = Ev("CONNECTED", m)

Now(s) == IF s = "auth" THEN "up" ELSE "down"
Told(q, m, l, C, s) ==
  \E b \in Tales :
    /\ Story(q, m, b, Now(s))
    /\ b = "up" /\ m \notin C => m \in Auth(l)
    /\ b = "down" /\ m \in Auth(l) => ToCome(q, m)

Links == {"none", "assoc", "auth"}
Outside ==
  /\ site \in Sites /\ enabled \in [Aps -> BOOLEAN] /\ lost \in [Aps -> BOOLEAN]
  /\ DOMAIN link = Aps /\ DOMAIN queue = Aps
  /\ \A a \in Aps : link[a] \in [Stas[a] -> Links] /\ queue[a] \in Seq([kind : Events, mac : Stas[a]])

IInv ==
  /\ Outside /\ Good(S0) /\ \A n \in sent : Right(n)
  /\ \A a \in Aps : Tidy(list[a])
  /\ \A a \in Aps : \A m \in Stas[a] : lost[a] \/ Told(queue[a], m, list[a], cut[a], link[a][m])

-----------------------------------------------------------------------------
(* Lists of entries *)

LEMMA ListFacts ==
  ASSUME NEW l \in Lists
  PROVE  /\ Len(l) \in Nat /\ DOMAIN l = 1..Len(l) /\ l \in Seq(Entries) /\ Unique(l)
         /\ Range(l) \in SUBSET Entries /\ MacsOf(l) = {e.mac : e \in Range(l)}
         /\ MacsOf(l) \in SUBSET Macs
<1>1. l \in Seq(Entries) /\ Unique(l)
  BY DEF Lists
<1>2. Len(l) \in Nat /\ DOMAIN l = 1..Len(l) /\ \A i \in 1..Len(l) : l[i] \in Entries
  BY <1>1
<1>3. \A i \in 1..Len(l) : l[i].mac \in Macs
  BY <1>2 DEF Entries
<1>4. QED
  BY <1>1, <1>2, <1>3 DEF Range, MacsOf

LEMMA EntryOf ==
  ASSUME NEW l \in Lists, NEW e \in Range(l)
  PROVE  e \in Entries /\ e.mac \in MacsOf(l) /\ Entry(l, e.mac) = e
<1>1. e \in Entries /\ e.mac \in MacsOf(l)
  BY ListFacts
<1>2. \A f \in Range(l) : f.mac = e.mac => f = e
  BY ListFacts DEF Range, Unique
<1>3. QED
  BY <1>1, <1>2, Zenon DEF Entry

LEMMA InList ==
  ASSUME NEW l \in Lists, NEW m \in MacsOf(l)
  PROVE  Entry(l, m) \in Range(l) /\ Entry(l, m) \in Entries /\ Entry(l, m).mac = m
<1>1. PICK e \in Range(l) : e.mac = m
  BY ListFacts
<1>2. QED
  BY <1>1, EntryOf

\* The station of a flag, in terms of its entry.
LEMMA Flags ==
  ASSUME NEW l \in Lists
  PROVE  /\ \A m : m \in Active(l) <=> m \in MacsOf(l) /\ Entry(l, m).active
         /\ \A m : m \in Auth(l) <=> m \in MacsOf(l) /\ Entry(l, m).auth
         /\ \A m : m \in Delayed(l) <=> m \in MacsOf(l) /\ Entry(l, m).delayed
         /\ \A e \in Range(l) : /\ e.active <=> e.mac \in Active(l)
                                /\ e.auth <=> e.mac \in Auth(l)
                                /\ e.delayed <=> e.mac \in Delayed(l)
<1>1. \A e \in Range(l) : e.mac \in MacsOf(l) /\ Entry(l, e.mac) = e
  BY EntryOf
<1>2. \A m \in MacsOf(l) : Entry(l, m) \in Range(l) /\ Entry(l, m).mac = m
  BY InList
<1>3. \A m : m \in Active(l) <=> \E e \in Range(l) : e.mac = m /\ e.active
  BY DEF Active
<1>4. \A m : m \in Auth(l) <=> \E e \in Range(l) : e.mac = m /\ e.auth
  BY DEF Auth
<1>5. \A m : m \in Delayed(l) <=> \E e \in Range(l) : e.mac = m /\ e.delayed
  BY DEF Delayed
<1>6. \A m : m \in Active(l) <=> m \in MacsOf(l) /\ Entry(l, m).active
  BY <1>1, <1>2, <1>3
<1>7. \A m : m \in Auth(l) <=> m \in MacsOf(l) /\ Entry(l, m).auth
  BY <1>1, <1>2, <1>4
<1>8. \A m : m \in Delayed(l) <=> m \in MacsOf(l) /\ Entry(l, m).delayed
  BY <1>1, <1>2, <1>5
<1>9. QED
  BY <1>1, <1>6, <1>7, <1>8, Zenon

\* Lists hold no stations but those of the access point, which are finitely many.
LEMMA Numbers ==
  ASSUME NEW l \in Lists
  PROVE  /\ IsFiniteSet(MacsOf(l)) /\ Cardinality(MacsOf(l)) = Len(l)
         /\ IsFiniteSet(Active(l)) /\ IsFiniteSet(Auth(l)) /\ IsFiniteSet(Loose(l))
<1> DEFINE n == Len(l)
           g == [i \in 1..n |-> l[i].mac]
<1>1. n \in Nat /\ DOMAIN l = 1..n /\ Unique(l)
  BY ListFacts
<1>2. MacsOf(l) = {g[i] : i \in 1..n}
  BY <1>1 DEF MacsOf
<1>3. g \in Injection(1..n, MacsOf(l)) /\ g \in Surjection(1..n, MacsOf(l))
  BY <1>1, <1>2 DEF Injection, Surjection, IsInjective, Unique
<1> HIDE DEF g, n
<1>4. IsFiniteSet(1..n) /\ Cardinality(1..n) = n
  <2>1. /\ IsFiniteSet(1..n)
        /\ Cardinality(1..n) = IF 1 > n THEN 0 ELSE n - 1 + 1
    BY <1>1, FS_Interval
  <2>2. QED
    BY <1>1, <2>1
<1>5. IsFiniteSet(MacsOf(l)) /\ Cardinality(MacsOf(l)) = n
  BY <1>3, <1>4, FS_Surjection
<1>6. Active(l) \in SUBSET MacsOf(l) /\ Auth(l) \in SUBSET MacsOf(l) /\ Loose(l) \in SUBSET MacsOf(l)
  BY Flags DEF Loose, Idle
<1>7. QED
  BY <1>5, <1>6, FS_Subset DEF n

\* The entry of one station is replaced.
LEMMA PutFacts ==
  ASSUME NEW l \in Lists, NEW m \in MacsOf(l), NEW e \in Entries, e.mac = m
  PROVE  LET k == Put(l, m, e) IN
         /\ k \in Lists /\ Len(k) = Len(l) /\ MacsOf(k) = MacsOf(l)
         /\ Entry(k, m) = e /\ \A n \in MacsOf(l) \ {m} : Entry(k, n) = Entry(l, n)
         /\ \A f \in Range(k) : f = e \/ (f \in Range(l) /\ f.mac # m)
         /\ \A i \in 1..Len(l) : k[i] = IF l[i].mac = m THEN e ELSE l[i]
<1> DEFINE k == Put(l, m, e)
<1>1. Len(l) \in Nat /\ DOMAIN l = 1..Len(l) /\ Unique(l) /\ \A i \in 1..Len(l) : l[i] \in Entries
  BY ListFacts
<1>2. k = [i \in 1..Len(l) |-> IF l[i].mac = m THEN e ELSE l[i]]
  BY <1>1 DEF Put
<1>3. k \in Seq(Entries) /\ Len(k) = Len(l) /\ DOMAIN k = 1..Len(l)
  BY <1>1, <1>2
<1>4. \A i \in 1..Len(l) : k[i].mac = l[i].mac
  BY <1>2
<1>5. Unique(k)
  BY <1>1, <1>3, <1>4 DEF Unique
<1>6. k \in Lists
  BY <1>3, <1>5 DEF Lists
<1>7. MacsOf(k) = MacsOf(l)
  BY <1>1, <1>3, <1>4 DEF MacsOf
<1>8. \A f \in Range(k) : f = e \/ (f \in Range(l) /\ f.mac # m)
  BY <1>1, <1>2, <1>3 DEF Range
<1>9. Entry(k, m) = e
  BY <1>6, <1>7, <1>8, InList
<1>10. ASSUME NEW n \in MacsOf(l) \ {m} PROVE Entry(k, n) = Entry(l, n)
  <2>1. Entry(k, n) \in Range(l) /\ Entry(k, n).mac = n
    BY <1>6, <1>7, <1>8, <1>10, InList
  <2>2. QED
    BY <2>1, EntryOf
<1> HIDE DEF k
<1>11. QED
  BY <1>2, <1>3, <1>6, <1>7, <1>8, <1>9, <1>10 DEF k

LEMMA PutFlags ==
  ASSUME NEW l \in Lists, NEW m \in MacsOf(l), NEW e \in Entries, e.mac = m
  PROVE  LET k == Put(l, m, e) IN
         /\ Active(k) = IF e.active THEN Active(l) \cup {m} ELSE Active(l) \ {m}
         /\ Auth(k) = IF e.auth THEN Auth(l) \cup {m} ELSE Auth(l) \ {m}
         /\ Delayed(k) = IF e.delayed THEN Delayed(l) \cup {m} ELSE Delayed(l) \ {m}
<1> DEFINE k == Put(l, m, e)
<1>1. /\ k \in Lists /\ MacsOf(k) = MacsOf(l) /\ Entry(k, m) = e
      /\ \A n \in MacsOf(l) \ {m} : Entry(k, n) = Entry(l, n)
  BY PutFacts
<1> HIDE DEF k
<1>2. \A n : n \in Active(k) <=> IF n = m THEN e.active ELSE n \in Active(l)
  BY <1>1, Flags
<1>3. \A n : n \in Auth(k) <=> IF n = m THEN e.auth ELSE n \in Auth(l)
  BY <1>1, Flags
<1>4. \A n : n \in Delayed(k) <=> IF n = m THEN e.delayed ELSE n \in Delayed(l)
  BY <1>1, Flags
<1>5. Active(k) = IF e.active THEN Active(l) \cup {m} ELSE Active(l) \ {m}
  BY <1>2
<1>6. Auth(k) = IF e.auth THEN Auth(l) \cup {m} ELSE Auth(l) \ {m}
  BY <1>3
<1>7. Delayed(k) = IF e.delayed THEN Delayed(l) \cup {m} ELSE Delayed(l) \ {m}
  BY <1>4
<1>8. QED
  BY <1>5, <1>6, <1>7 DEF k

\* What is kept of a list, and at which places.
LEMMA KeepFacts ==
  ASSUME NEW l \in Lists, NEW K
  PROVE  LET c == Keep(l, K) IN
         /\ c \in Lists /\ Len(c) <= Len(l) /\ Range(c) = Range(l) \cap K
         /\ \A i \in 1..Len(c) : \E j \in i..Len(l) : c[i] = l[j]
<1> DEFINE n == Len(l)
           V == Seq(Entries)
           none == <<>>
           F(g) == [i \in 0..n |-> IF i = 0 THEN none
                                   ELSE IF l[i] \in K THEN Append(g[i - 1], l[i]) ELSE g[i - 1]]
           kept == CHOOSE g : g = F(g)
           h == [p \in V \X (1..n) |-> IF l[p[2]] \in K THEN Append(p[1], l[p[2]]) ELSE p[1]]
<1>1. n \in Nat /\ DOMAIN l = 1..n /\ Unique(l) /\ \A i \in 1..n : l[i] \in Entries
  BY ListFacts
<1>2. h \in [V \X (1..n) -> V]
  BY <1>1
<1>3. \A T \in V, i \in 1..n : h[<<T, i>>] = IF l[i] \in K THEN Append(T, l[i]) ELSE T
  OBVIOUS
<1>4. none \in V
  OBVIOUS
<1> HIDE DEF h, n, none
<1>5. PICK f : IsRun(f, V, n, none, h)
  <2> HIDE DEF V
  <2>1. QED
    BY <1>1, <1>2, <1>4, Steps
<1>6. f = F(f)
  <2>1. \A k \in 1..n : k - 1 \in 0..n
    BY <1>1
  <2>2. \A k \in 1..n : f[k] = IF l[k] \in K THEN Append(f[k - 1], l[k]) ELSE f[k - 1]
    BY <1>3, <1>5, <2>1 DEF IsRun
  <2>3. \A k \in 0..n : f[k] = IF k = 0 THEN none
                               ELSE IF l[k] \in K THEN Append(f[k - 1], l[k]) ELSE f[k - 1]
    <3>1. f[0] = none
      BY <1>5 DEF IsRun
    <3>2. \A k \in 0..n : k = 0 \/ k \in 1..n
      BY <1>1
    <3>3. QED
      BY <2>2, <3>1, <3>2
  <2>4. QED
    BY <1>5, <2>3 DEF IsRun
<1>7. kept = F(kept)
  BY <1>6, Zenon
<1> HIDE DEF kept
<1> DEFINE Places(c, k) == \A i \in 1..Len(c) : \E j \in i..k : c[i] = l[j] /\ l[j] \in K
           Whole(c, k) == \A j \in 1..k : l[j] \in K => \E i \in 1..Len(c) : c[i] = l[j]
           Is(c, k) == c \in V /\ Len(c) <= k /\ Unique(c) /\ Places(c, k) /\ Whole(c, k)
           In == {k \in 0..n : Is(kept[k], k)}
<1>8. 0 \in In
  <2>1. 0 \in 0..n
    BY <1>1
  <2>2. kept[0] = <<>>
    BY <1>7, <2>1 DEF none
  <2>3. Is(<<>>, 0)
    <3>1. <<>> \in V /\ Len(<<>>) = 0 /\ DOMAIN <<>> = {}
      OBVIOUS
    <3>2. Unique(<<>>)
      BY <3>1 DEF Unique
    <3>3. Places(<<>>, 0) /\ Whole(<<>>, 0)
      BY <3>1
    <3>4. QED
      BY <3>1, <3>2, <3>3
  <2>4. QED
    BY <2>1, <2>2, <2>3
<1>9. ASSUME NEW k \in 1..n, k - 1 \in In PROVE k \in In
  <2>1. k \in 0..n /\ k # 0 /\ k - 1 \in 0..n /\ k \in Nat /\ k - 1 \in Nat
    BY <1>1
  <2> DEFINE b == kept[k - 1]
             c == kept[k]
  <2>2. c = IF l[k] \in K THEN Append(b, l[k]) ELSE b
    BY <1>7, <2>1
  <2>3. Is(b, k - 1)
    BY <1>9
  <2> HIDE DEF b, c
  <2>4. Len(b) \in Nat /\ DOMAIN b = 1..Len(b) /\ b \in V
    BY <2>3
  <2>5. CASE l[k] \notin K
    <3>1. c = b
      BY <2>2, <2>5
    <3>2. Places(b, k)
      <4>1. ASSUME NEW i \in 1..Len(b) PROVE \E j \in i..k : b[i] = l[j] /\ l[j] \in K
        <5>1. PICK j \in i..(k - 1) : b[i] = l[j] /\ l[j] \in K
          BY <2>3
        <5>2. j \in i..k
          BY <2>1, <2>4
        <5>3. QED
          BY <5>1, <5>2
      <4>2. QED
        BY <4>1
    <3>3. Whole(b, k)
      <4>1. ASSUME NEW j \in 1..k, l[j] \in K PROVE \E i \in 1..Len(b) : b[i] = l[j]
        <5>1. j \in 1..(k - 1)
          BY <2>1, <2>5, <4>1
        <5>2. QED
          BY <2>3, <4>1, <5>1
      <4>2. QED
        BY <4>1
    <3>4. Is(b, k)
      BY <2>1, <2>3, <2>4, <3>2, <3>3
    <3>5. QED
      BY <2>1, <3>1, <3>4 DEF c
  <2>6. CASE l[k] \in K
    <3>1. c = Append(b, l[k]) /\ l[k] \in Entries
      BY <1>1, <2>2, <2>6
    <3>2. /\ c \in V /\ Len(c) = Len(b) + 1 /\ c[Len(b) + 1] = l[k]
          /\ \A i \in 1..Len(b) : c[i] = b[i]
          /\ DOMAIN c = 1..(Len(b) + 1)
      BY <2>4, <3>1
    <3>3. Places(c, k)
      <4>1. ASSUME NEW i \in 1..Len(c) PROVE \E j \in i..k : c[i] = l[j] /\ l[j] \in K
        <5>1. CASE i = Len(b) + 1
          <6>1. k \in i..k
            BY <2>1, <2>3, <2>4, <5>1
          <6>2. QED
            BY <2>6, <3>2, <5>1, <6>1
        <5>2. CASE i # Len(b) + 1
          <6>1. i \in 1..Len(b)
            BY <2>4, <3>2, <5>2
          <6>2. PICK j \in i..(k - 1) : b[i] = l[j] /\ l[j] \in K
            BY <2>3, <6>1
          <6>3. j \in i..k
            BY <2>1, <6>1
          <6>4. QED
            BY <3>2, <6>1, <6>2, <6>3
        <5>3. QED
          BY <5>1, <5>2
      <4>2. QED
        BY <4>1
    <3>4. Whole(c, k)
      <4>1. ASSUME NEW j \in 1..k, l[j] \in K PROVE \E i \in 1..Len(c) : c[i] = l[j]
        <5>1. CASE j = k
          BY <2>4, <3>2, <5>1
        <5>2. CASE j # k
          <6>1. j \in 1..(k - 1)
            BY <2>1, <5>2
          <6>2. PICK i \in 1..Len(b) : b[i] = l[j]
            BY <2>3, <4>1, <6>1
          <6>3. i \in 1..Len(c)
            BY <2>4, <3>2
          <6>4. QED
            BY <3>2, <6>2, <6>3
        <5>3. QED
          BY <5>1, <5>2
      <4>2. QED
        BY <4>1
    <3>5. Unique(c)
      <4>1. ASSUME NEW i \in 1..Len(b) PROVE c[i].mac # l[k].mac
        <5>1. PICK j \in i..(k - 1) : b[i] = l[j]
          BY <2>3
        <5>2. j \in 1..n /\ j # k
          BY <1>1, <2>1, <2>4
        <5>3. l[j].mac # l[k].mac
          BY <1>1, <2>1, <5>2 DEF Unique
        <5>4. QED
          BY <3>2, <5>1, <5>3
      <4>2. Unique(b)
        BY <2>3
      <4>3. QED
        BY <2>4, <3>2, <4>1, <4>2 DEF Unique
    <3>6. Is(c, k)
      BY <2>1, <2>3, <2>4, <3>2, <3>3, <3>4, <3>5
    <3>7. QED
      BY <2>1, <3>6 DEF c
  <2>7. QED
    BY <2>5, <2>6
<1>10. n \in In
  <2> HIDE DEF In
  <2>1. n \in 0..n
    BY <1>1
  <2>2. QED
    BY <1>1, <1>8, <1>9, <2>1, UpTo
<1> DEFINE c == kept[n]
<1>11. Is(c, n)
  BY <1>10
<1>12. Keep(l, K) = c
  BY Zenon DEF Keep, kept, n, none
<1> HIDE DEF c
<1>13. c \in Lists /\ Len(c) \in Nat /\ DOMAIN c = 1..Len(c)
  BY <1>11 DEF Lists
<1>14. Range(c) \in SUBSET (Range(l) \cap K)
  <2>1. ASSUME NEW i \in 1..Len(c) PROVE c[i] \in Range(l) \cap K
    <3>1. PICK j \in i..n : c[i] = l[j] /\ l[j] \in K
      BY <1>11
    <3>2. j \in 1..n
      BY <1>1, <1>13
    <3>3. QED
      BY <1>1, <3>1, <3>2 DEF Range
  <2>2. QED
    BY <1>13, <2>1 DEF Range
<1>15. Range(l) \cap K \in SUBSET Range(c)
  <2>1. ASSUME NEW j \in 1..n, l[j] \in K PROVE l[j] \in Range(c)
    BY <1>11, <1>13, <2>1 DEF Range
  <2>2. QED
    BY <1>1, <2>1 DEF Range
<1>16. \A i \in 1..Len(c) : \E j \in i..n : c[i] = l[j]
  BY <1>11
<1>17. QED
  BY <1>11, <1>12, <1>13, <1>14, <1>15, <1>16 DEF n

\* The ages of the stations M.
Ranked(M, p) == \A m \in M : p[m] \in Nat /\ \A n \in M : p[m] = p[n] => m = n

LEMMA YoungFew ==
  ASSUME NEW l \in Lists, NEW p, Ranked(MacsOf(l), p)
  PROVE  IsFiniteSet(Young(l, p)) /\ Cardinality(Young(l, p)) <= Sticky
<1> DEFINE Y == Young(l, p)
           Older(m) == {n \in Idle(l) : p[n] > p[m]}
<1>1. /\ Idle(l) \in SUBSET MacsOf(l)
      /\ Y = {m \in Idle(l) : Cardinality(Older(m)) < Sticky}
  BY DEF Idle, Young
<1>2. IsFiniteSet(Idle(l)) /\ IsFiniteSet(Y)
  BY <1>1, Numbers, FS_Subset
<1>3. Sticky \in Nat /\ \A m \in Y : m \in MacsOf(l) /\ p[m] \in Nat
  BY <1>1, ConstantsAssumption DEF Ranked
<1> HIDE DEF Y
<1>4. CASE Y = {}
  BY <1>2, <1>3, <1>4, FS_EmptySet DEF Y
<1>5. CASE Y # {}
  <2> DEFINE R == {p[m] : m \in Y}
  <2>1. R \in SUBSET Nat /\ R # {}
    BY <1>3, <1>5
  <2>2. PICK r \in R : \A s \in R : r <= s
    BY <2>1, LeastNat
  <2>3. PICK y \in Y : p[y] = r
    BY <2>2
  <2>4. \A m \in Y : p[y] <= p[m]
    BY <2>2, <2>3
  <2> DEFINE O == Older(y)
  <2>5. Y \ {y} \in SUBSET O
    <3>1. ASSUME NEW m \in Y \ {y} PROVE m \in O
      <4>1. p[m] # p[y] /\ p[m] \in Nat /\ p[y] \in Nat
        BY <1>1, <2>3, <3>1 DEF Ranked
      <4>2. p[y] <= p[m]
        BY <2>4, <3>1
      <4>3. QED
        BY <1>1, <3>1, <4>1, <4>2
    <3>2. QED
      BY <3>1
  <2>6. Cardinality(O) < Sticky
    BY <1>1, <2>3
  <2>7. O \in SUBSET Idle(l)
    OBVIOUS
  <2> HIDE DEF O
  <2>8. IsFiniteSet(O) /\ Cardinality(O) \in Nat
    BY <1>2, <2>7, FS_Subset, FS_CardinalityType
  <2>9. Cardinality(Y \ {y}) = Cardinality(Y) - 1 /\ Cardinality(Y) \in Nat
    BY <1>2, <2>3, FS_RemoveElement, FS_CardinalityType
  <2>10. Cardinality(Y \ {y}) <= Cardinality(O)
    BY <2>5, <2>8, FS_Subset
  <2>11. Cardinality(Y) <= Sticky
    BY <1>3, <2>6, <2>8, <2>9, <2>10
  <2>12. QED
    BY <1>2, <2>11 DEF Y
<1>6. QED
  BY <1>4, <1>5

\* The cleanup destroys none but inactive entries whose notification is not
\* pending, and enough of them.
LEMMA CleanedFacts ==
  ASSUME NEW l \in Lists, NEW p, Ranked(MacsOf(l), p), Auth(l) \subseteq Active(l)
  PROVE  LET c == Cleaned(l, p) IN
         /\ c \in Lists /\ Len(c) <= Len(l) /\ Range(c) \in SUBSET Range(l)
         /\ MacsOf(c) \in SUBSET MacsOf(l)
         /\ Active(c) = Active(l) /\ Auth(c) = Auth(l) /\ Delayed(c) = Delayed(l)
         /\ Tidy(c)
         /\ \A i \in 1..Len(c) : \E j \in i..Len(l) : c[i] = l[j]
<1> DEFINE K == {e \in Range(l) : e.active \/ e.delayed \/ e.mac \in Young(l, p)}
           c == Cleaned(l, p)
<1>1. c = Keep(l, K)
  BY DEF Cleaned
<1>2. /\ c \in Lists /\ Len(c) <= Len(l) /\ Range(c) = Range(l) \cap K
      /\ \A i \in 1..Len(c) : \E j \in i..Len(l) : c[i] = l[j]
  <2> HIDE DEF K, c
  <2>1. QED
    BY <1>1, KeepFacts
<1> HIDE DEF c
<1>3. Range(c) \in SUBSET Range(l)
  BY <1>2
<1>4. MacsOf(c) \in SUBSET MacsOf(l)
  BY <1>2, <1>3, ListFacts
<1>5. \A e \in Range(l) : e.active \/ e.delayed => e \in Range(c)
  BY <1>2
<1>6. \A m \in MacsOf(c) : Entry(c, m) = Entry(l, m)
  BY <1>2, <1>3, InList, EntryOf
<1>7. \A m \in MacsOf(l) : Entry(l, m).active \/ Entry(l, m).delayed => m \in MacsOf(c)
  BY <1>2, <1>5, InList, EntryOf
<1>8. Active(c) = Active(l)
  BY <1>2, <1>4, <1>6, <1>7, Flags
<1>9. Delayed(c) = Delayed(l)
  BY <1>2, <1>4, <1>6, <1>7, Flags
<1>10. Auth(c) = Auth(l)
  BY <1>2, <1>4, <1>6, <1>7, Flags
<1>11. Tidy(c)
  <2>1. Loose(c) \in SUBSET Young(l, p)
    <3>1. ASSUME NEW m \in Loose(c) PROVE m \in Young(l, p)
      <4>1. m \in MacsOf(c) /\ ~Entry(c, m).active /\ ~Entry(c, m).delayed /\ Entry(c, m) \in Range(c)
            /\ Entry(c, m).mac = m
        BY <1>2, <3>1, Flags, InList DEF Loose, Idle
      <4>2. Entry(c, m) \in K
        BY <1>2, <4>1
      <4>3. QED
        BY <4>1, <4>2
    <3>2. QED
      BY <3>1
  <2>2. IsFiniteSet(Young(l, p)) /\ Cardinality(Young(l, p)) <= Sticky
    BY YoungFew
  <2>3. Cardinality(Loose(c)) <= Cardinality(Young(l, p)) /\ IsFiniteSet(Loose(c))
    BY <2>1, <2>2, FS_Subset
  <2>4. Cardinality(Loose(c)) \in Nat /\ Cardinality(Young(l, p)) \in Nat
    BY <2>2, <2>3, FS_CardinalityType
  <2>5. QED
    BY <2>2, <2>3, <2>4, ConstantsAssumption DEF Tidy
<1>12. QED
  BY <1>2, <1>3, <1>4, <1>8, <1>9, <1>10, <1>11 DEF c

\* What there is to notify and to clean up after the entry of a station was replaced.
LEMMA PutLoose ==
  ASSUME NEW l \in Lists, NEW m \in MacsOf(l), NEW e \in Entries, e.mac = m
  PROVE  Loose(Put(l, m, e)) = IF e.active \/ e.delayed THEN Loose(l) \ {m} ELSE Loose(l) \cup {m}
<1> DEFINE k == Put(l, m, e)
<1>1. /\ MacsOf(k) = MacsOf(l)
      /\ Active(k) = IF e.active THEN Active(l) \cup {m} ELSE Active(l) \ {m}
      /\ Delayed(k) = IF e.delayed THEN Delayed(l) \cup {m} ELSE Delayed(l) \ {m}
  BY PutFacts, PutFlags
<1> HIDE DEF k
<1>2. \A n : n \in Loose(k) <=> IF n = m THEN ~e.active /\ ~e.delayed ELSE n \in Loose(l)
  BY <1>1 DEF Loose, Idle
<1>3. Loose(k) = IF e.active \/ e.delayed THEN Loose(l) \ {m} ELSE Loose(l) \cup {m}
  BY <1>2
<1>4. QED
  BY <1>3 DEF k

LEMMA TidySubset ==
  ASSUME NEW l \in Lists, NEW k \in Lists, Loose(k) \subseteq Loose(l), Tidy(l)
  PROVE  Tidy(k)
<1>1. IsFiniteSet(Loose(l)) /\ Cardinality(Loose(k)) <= Cardinality(Loose(l))
  BY Numbers, FS_Subset
<1>2. Cardinality(Loose(l)) \in Nat /\ Cardinality(Loose(k)) \in Nat
  BY Numbers, FS_CardinalityType
<1>3. QED
  BY <1>1, <1>2, ConstantsAssumption DEF Tidy

LEMMA FramedSubset ==
  ASSUME NEW l, NEW k, NEW C, Framed(l, C), Range(k) \subseteq Range(l)
  PROVE  Framed(k, C)
  BY DEF Framed

LEMMA FramedPut ==
  ASSUME NEW l \in Lists, NEW m \in MacsOf(l), NEW e \in Entries, e.mac = m, NEW C, NEW D,
         Framed(l, C), C \ {m} \subseteq D,
         e.fresh => e.framed /\ (e.reason = "frame" \/ m \in D)
  PROVE  Framed(Put(l, m, e), D)
<1>1. \A f \in Range(Put(l, m, e)) : f = e \/ (f \in Range(l) /\ f.mac # m)
  BY PutFacts
<1>2. QED
  BY <1>1 DEF Framed

-----------------------------------------------------------------------------
(* The access points *)

\* At the other access points nothing has changed.
Elsewhere(S, T, a) ==
  \A b \in Aps \ {a} : /\ T.list[b] = S.list[b] /\ T.nr[b] = S.nr[b] /\ T.open[b] = S.open[b]
                       /\ T.owed[b] = S.owed[b] /\ T.cut[b] = S.cut[b]

LEMMA GoodAt ==
  ASSUME NEW S, Good(S), NEW T \in State, NEW a \in Aps, Elsewhere(S, T, a), Fine(T, a),
         \A n \in T.sent : Right(n)
  PROVE  Good(T)
<1>1. ASSUME NEW b \in Aps \ {a} PROVE Fine(T, b)
  <2>1. Fine(S, b)
    BY DEF Good
  <2>2. /\ T.list[b] = S.list[b] /\ T.nr[b] = S.nr[b] /\ T.open[b] = S.open[b]
        /\ T.owed[b] = S.owed[b] /\ T.cut[b] = S.cut[b]
    BY DEF Elsewhere
  <2>3. QED
    BY <2>1, <2>2, Zenon DEF Fine, FineBut
<1>2. QED
  BY <1>1 DEF Good

LEMMA StateFacts ==
  ASSUME NEW S \in State, NEW a \in Aps
  PROVE  /\ S.list[a] \in Lists /\ S.nr[a] \in Nat /\ S.open[a] \in Int
         /\ S.owed[a] \in SUBSET Macs /\ S.cut[a] \in SUBSET Macs
  BY DEF State

LEMMA SignalFacts ==
  ASSUME NEW S \in State, NEW a \in Aps, NEW m \in MacsOf(S.list[a])
  PROVE  /\ Signal(S, a, m) \in Signals /\ Signal(S, a, m).ap = a
         /\ Signal(S, a, m).reason = Entry(S.list[a], m).reason
         /\ Signal(S, a, m).fresh = Entry(S.list[a], m).fresh
         /\ Signal(S, a, m).due <=> m \in S.owed[a]
         /\ Signal(S, a, m).cut <=> m \in S.cut[a]
<1> DEFINE e == Entry(S.list[a], m)
<1>1. e \in Entries /\ m \in Macs
  BY StateFacts, InList, ListFacts
<1> HIDE DEF e
<1>2. e.reason \in Reasons /\ e.fresh \in BOOLEAN
  BY <1>1 DEF Entries
<1> DEFINE due == m \in S.owed[a]
           cuts == m \in S.cut[a]
<1>3. Signal(S, a, m) = [ap |-> a, mac |-> m, reason |-> e.reason, fresh |-> e.fresh,
                         due |-> due, cut |-> cuts]
  BY DEF Signal, e
<1>4. due \in BOOLEAN /\ cuts \in BOOLEAN
  OBVIOUS
<1>5. (due <=> m \in S.owed[a]) /\ (cuts <=> m \in S.cut[a])
  OBVIOUS
<1> HIDE DEF due, cuts
<1>6. /\ Signal(S, a, m) \in Signals /\ Signal(S, a, m).ap = a
      /\ Signal(S, a, m).reason = e.reason /\ Signal(S, a, m).fresh = e.fresh
      /\ Signal(S, a, m).due = due /\ Signal(S, a, m).cut = cuts
  BY <1>1, <1>2, <1>3, <1>4 DEF Signals
<1>7. QED
  BY <1>5, <1>6 DEF e

\* The list after the notification of a station, with the cleanup that follows.
LEMMA NotifiedList ==
  ASSUME NEW l \in Lists, NEW m \in Delayed(l), NEW p, Ranked(MacsOf(l), p),
         Auth(l) \subseteq Active(l), NEW C, Framed(l, C)
  PROVE  LET c == Cleaned(NotDelayed(l, m), p) IN
         /\ c \in Lists /\ Len(c) <= Len(l) /\ MacsOf(c) \subseteq MacsOf(l) /\ Tidy(c)
         /\ Active(c) = Active(l) /\ Auth(c) = Auth(l) /\ Delayed(c) = Delayed(l) \ {m}
         /\ Framed(c, C)
<1> DEFINE e == Entry(l, m)
           f == [e EXCEPT !.delayed = FALSE]
           k == Put(l, m, f)
           c == Cleaned(k, p)
<1>1. m \in MacsOf(l) /\ e \in Range(l) /\ e \in Entries /\ e.mac = m
  BY Flags, InList
<1> HIDE DEF e
<1>2. /\ f \in Entries /\ f.mac = m /\ f.active = e.active /\ f.auth = e.auth /\ ~f.delayed
      /\ f.fresh = e.fresh /\ f.framed = e.framed /\ f.reason = e.reason
  BY <1>1 DEF Entries
<1> HIDE DEF f
<1>3. (e.active <=> m \in Active(l)) /\ (e.auth <=> m \in Auth(l))
  BY <1>1, Flags
<1>4. /\ k \in Lists /\ Len(k) = Len(l) /\ MacsOf(k) = MacsOf(l)
      /\ Active(k) = Active(l) /\ Auth(k) = Auth(l) /\ Delayed(k) = Delayed(l) \ {m}
  <2>1. k \in Lists /\ Len(k) = Len(l) /\ MacsOf(k) = MacsOf(l)
    BY <1>1, <1>2, PutFacts
  <2>2. /\ Active(k) = IF f.active THEN Active(l) \cup {m} ELSE Active(l) \ {m}
        /\ Auth(k) = IF f.auth THEN Auth(l) \cup {m} ELSE Auth(l) \ {m}
        /\ Delayed(k) = IF f.delayed THEN Delayed(l) \cup {m} ELSE Delayed(l) \ {m}
    BY <1>1, <1>2, PutFlags
  <2> HIDE DEF k
  <2>3. Active(k) = Active(l)
    BY <1>2, <1>3, <2>2
  <2>4. Auth(k) = Auth(l)
    BY <1>2, <1>3, <2>2
  <2>5. QED
    BY <1>2, <2>1, <2>2, <2>3, <2>4
<1>5. Framed(k, C)
  <2>1. f.fresh => f.framed /\ (f.reason = "frame" \/ m \in C)
    BY <1>1, <1>2 DEF Framed
  <2>2. QED
    BY <1>1, <1>2, <2>1, FramedPut
<1> HIDE DEF k
<1>6. /\ c \in Lists /\ Len(c) <= Len(k) /\ Range(c) \in SUBSET Range(k)
      /\ MacsOf(c) \in SUBSET MacsOf(k) /\ Tidy(c)
      /\ Active(c) = Active(k) /\ Auth(c) = Auth(k) /\ Delayed(c) = Delayed(k)
  BY <1>4, CleanedFacts
<1>7. Framed(c, C)
  BY <1>5, <1>6, FramedSubset
<1>8. c = Cleaned(NotDelayed(l, m), p)
  BY DEF c, k, f, e, NotDelayed
<1> HIDE DEF c
<1>9. QED
  BY <1>4, <1>6, <1>7, <1>8

LEMMA FineFacts ==
  ASSUME NEW S, Good(S), NEW a \in Aps
  PROVE  /\ S \in State /\ Fine(S, a) /\ S.list[a] \in Lists
         /\ Len(S.list[a]) <= MaxEntries /\ MacsOf(S.list[a]) \subseteq Stas[a]
         /\ S.cut[a] \subseteq Stas[a] /\ Auth(S.list[a]) \subseteq Active(S.list[a])
         /\ S.nr[a] = Cardinality(Active(S.list[a])) /\ S.open[a] = Cardinality(Auth(S.list[a]))
         /\ S.owed[a] \subseteq Delayed(S.list[a])
         /\ lost[a] \/ Delayed(S.list[a]) \subseteq S.owed[a] \cup S.cut[a]
         /\ Framed(S.list[a], S.cut[a])
<1>1. S \in State /\ Fine(S, a)
  BY DEF Good
<1>2. S.list[a] \in Lists
  BY <1>1, StateFacts
<1>3. QED
  BY <1>1, <1>2 DEF Fine, FineBut

\* A signal whose notification was pending is right.
LEMMA PendingRight ==
  ASSUME NEW S, Good(S), NEW a \in Aps, NEW m \in Delayed(S.list[a])
  PROVE  Signal(S, a, m) \in Signals /\ Right(Signal(S, a, m))
<1> DEFINE e == Entry(S.list[a], m)
           n == Signal(S, a, m)
<1>1. S \in State /\ S.list[a] \in Lists /\ m \in MacsOf(S.list[a]) /\ e \in Range(S.list[a]) /\ e.mac = m
  BY FineFacts, Flags, InList
<1>2. /\ n \in Signals /\ n.ap = a /\ n.reason = e.reason /\ n.fresh = e.fresh
      /\ (n.due <=> m \in S.owed[a]) /\ (n.cut <=> m \in S.cut[a])
  BY <1>1, SignalFacts
<1>3. lost[a] \/ m \in S.owed[a] \cup S.cut[a]
  BY FineFacts
<1>4. e.fresh => e.reason = "frame" \/ m \in S.cut[a]
  BY <1>1, FineFacts DEF Framed
<1> HIDE DEF n, e
<1>5. QED
  BY <1>2, <1>3, <1>4 DEF Right, n

\* A pending notification is made, and the list cleaned up.
LEMMA NotifyGood ==
  ASSUME NEW S, Good(S), NEW a \in Aps, NEW m \in Delayed(S.list[a]), NEW p,
         Ranked(MacsOf(S.list[a]), p)
  PROVE  LET T == Notify(S, a, m, p) IN
         /\ Good(T) /\ Elsewhere(S, T, a)
         /\ MacsOf(T.list[a]) \subseteq MacsOf(S.list[a]) /\ Tidy(T.list[a])
         /\ Active(T.list[a]) = Active(S.list[a]) /\ Auth(T.list[a]) = Auth(S.list[a])
         /\ T.cut[a] = S.cut[a]
<1> DEFINE l == S.list[a]
           c == Cleaned(NotDelayed(l, m), p)
           n == Signal(S, a, m)
           T == Notify(S, a, m, p)
<1>1. /\ S \in State /\ l \in Lists /\ Auth(l) \subseteq Active(l) /\ Framed(l, S.cut[a])
  BY FineFacts
<1>2. /\ c \in Lists /\ Len(c) <= Len(l) /\ MacsOf(c) \subseteq MacsOf(l) /\ Tidy(c)
      /\ Active(c) = Active(l) /\ Auth(c) = Auth(l) /\ Delayed(c) = Delayed(l) \ {m}
      /\ Framed(c, S.cut[a])
  <2> HIDE DEF l
  <2>1. Delayed(S.list[a]) = Delayed(l) /\ Ranked(MacsOf(l), p)
    BY DEF l
  <2>2. QED
    BY <1>1, <2>1, NotifiedList
<1>3. n \in Signals /\ Right(n)
  BY PendingRight
<1>4. T = [[S EXCEPT !.sent = S.sent \cup {n}, !.owed[a] = S.owed[a] \ {m}] EXCEPT !.list[a] = c]
  BY DEF Notify, Announce
<1> HIDE DEF T, c, n
<1>5. /\ T \in State /\ T.list = [S.list EXCEPT ![a] = c] /\ T.sent = S.sent \cup {n}
      /\ T.owed = [S.owed EXCEPT ![a] = S.owed[a] \ {m}] /\ T.cut = S.cut
      /\ T.nr = S.nr /\ T.open = S.open
  BY <1>1, <1>2, <1>3, <1>4 DEF State
<1>6. T.list[a] = c /\ T.owed[a] = S.owed[a] \ {m}
  BY <1>1, <1>5 DEF State
<1>7. Elsewhere(S, T, a)
  BY <1>1, <1>5 DEF State, Elsewhere
<1>8. Fine(T, a)
  <2>1. /\ Len(l) <= MaxEntries /\ MacsOf(l) \subseteq Stas[a] /\ S.cut[a] \subseteq Stas[a]
        /\ S.nr[a] = Cardinality(Active(l)) /\ S.open[a] = Cardinality(Auth(l))
        /\ S.owed[a] \subseteq Delayed(l) /\ (lost[a] \/ Delayed(l) \subseteq S.owed[a] \cup S.cut[a])
    BY FineFacts
  <2>2. Len(c) \in Nat /\ Len(l) \in Nat /\ MaxEntries \in Nat
    BY <1>1, <1>2, ListFacts, ConstantsAssumption DEF MaxEntries
  <2> HIDE DEF l
  <2>3. Len(c) <= MaxEntries
    BY <1>2, <2>1, <2>2
  <2>4. QED
    BY <1>1, <1>2, <1>5, <1>6, <2>1, <2>3 DEF Fine, FineBut
<1>9. Good(T)
  <2>1. \A x \in T.sent : Right(x)
    BY <1>3, <1>5 DEF Good
  <2>2. QED
    BY <1>5, <1>7, <1>8, <2>1, GoodAt
<1>10. QED
  BY <1>2, <1>5, <1>6, <1>7, <1>9 DEF T

\* The list that SetToSeq makes of a set.
LEMMA SetToSeqFacts ==
  ASSUME NEW M, IsFiniteSet(M)
  PROVE  LET q == SetToSeq(M) IN
         /\ q \in Seq(M) /\ Len(q) = Cardinality(M) /\ Len(q) \in Nat
         /\ \A i, j \in 1..Len(q) : q[i] = q[j] => i = j
         /\ \A m \in M : \E i \in 1..Len(q) : q[i] = m
<1> DEFINE n == Cardinality(M)
           q == SetToSeq(M)
<1>1. n \in Nat /\ ExistsBijection(1..n, M)
  BY FS_CardinalityType
<1> HIDE DEF n
<1>2. PICK f : f \in Bijection(1..n, M)
  BY <1>1 DEF ExistsBijection
<1>3. f \in [1..n -> M] /\ IsInjective(f)
  BY <1>2 DEF Bijection, Injection
<1>4. q = CHOOSE g \in [1..n -> M] : IsInjective(g)
  BY DEF SetToSeq, n
<1> HIDE DEF q
<1>5. q \in [1..n -> M] /\ IsInjective(q)
  BY <1>3, <1>4, Zenon
<1>6. q \in Seq(M) /\ Len(q) = n
  BY <1>1, <1>5
<1>7. q \in Injection(1..n, M)
  BY <1>5 DEF Injection
<1>8. Cardinality(1..n) = n
  <2>1. Cardinality(1..n) = IF 1 > n THEN 0 ELSE n - 1 + 1
    BY <1>1, FS_Interval
  <2>2. QED
    BY <1>1, <2>1
<1>9. q \in Surjection(1..n, M)
  BY <1>7, <1>8, FS_Injection DEF n
<1>10. QED
  BY <1>1, <1>5, <1>6, <1>9 DEF IsInjective, Surjection, q, n

\* What a notification leaves as it is, at every access point.
Alike(S, T, m) ==
  \A b \in Aps :
    /\ MacsOf(T.list[b]) \subseteq MacsOf(S.list[b])
    /\ Active(T.list[b]) = Active(S.list[b]) /\ Auth(T.list[b]) = Auth(S.list[b])
    /\ T.cut[b] = S.cut[b] /\ (Tidy(S.list[b]) => Tidy(T.list[b]))
    /\ m \notin MacsOf(S.list[b]) => T.list[b] = S.list[b]

AllRanked(S, p) == \A b \in Aps : Ranked(MacsOf(S.list[b]), p)

LEMMA FinalizeGood ==
  ASSUME NEW S, Good(S), NEW m, NEW p, AllRanked(S, p)
  PROVE  Good(Finalize(S, m, p)) /\ Alike(S, Finalize(S, m, p), m)
<1> DEFINE aps == SetToSeq(Aps)
           n == Len(aps)
           V == {T \in State : Good(T) /\ Alike(S, T, m)}
           Do(T, a) == IF m \in MacsOf(T.list[a]) /\ Entry(T.list[a], m).delayed
                       THEN Notify(T, a, m, p) ELSE T
           F(g) == [i \in 0..n |-> IF i = 0 THEN S ELSE Do(g[i - 1], aps[i])]
           after == CHOOSE g : g = F(g)
           h == [x \in V \X (1..n) |-> Do(x[1], aps[x[2]])]
<1>1. n \in Nat /\ \A i \in 1..n : aps[i] \in Aps
  BY SetToSeqFacts, ConstantsAssumption
<1>2. S \in V
  BY DEF Good, Alike
<1>3. ASSUME NEW T \in V, NEW a \in Aps PROVE Do(T, a) \in V
  <2>1. CASE m \in MacsOf(T.list[a]) /\ Entry(T.list[a], m).delayed
    <3>1. m \in Delayed(T.list[a])
      BY <2>1, StateFacts, Flags
    <3>2. Ranked(MacsOf(T.list[a]), p)
      BY DEF AllRanked, Alike, Ranked
    <3> DEFINE U == Notify(T, a, m, p)
    <3>3. /\ Good(U) /\ Elsewhere(T, U, a)
          /\ MacsOf(U.list[a]) \subseteq MacsOf(T.list[a]) /\ Tidy(U.list[a])
          /\ Active(U.list[a]) = Active(T.list[a]) /\ Auth(U.list[a]) = Auth(T.list[a])
          /\ U.cut[a] = T.cut[a]
      BY <3>1, <3>2, NotifyGood
    <3>4. U = Do(T, a)
      BY <2>1
    <3> HIDE DEF U
    <3>5. ASSUME NEW b \in Aps
          PROVE  /\ MacsOf(U.list[b]) \subseteq MacsOf(S.list[b])
                 /\ Active(U.list[b]) = Active(S.list[b]) /\ Auth(U.list[b]) = Auth(S.list[b])
                 /\ U.cut[b] = S.cut[b] /\ (Tidy(S.list[b]) => Tidy(U.list[b]))
                 /\ m \notin MacsOf(S.list[b]) => U.list[b] = S.list[b]
      <4>1. /\ MacsOf(T.list[b]) \subseteq MacsOf(S.list[b])
            /\ Active(T.list[b]) = Active(S.list[b]) /\ Auth(T.list[b]) = Auth(S.list[b])
            /\ T.cut[b] = S.cut[b] /\ (Tidy(S.list[b]) => Tidy(T.list[b]))
            /\ m \notin MacsOf(S.list[b]) => T.list[b] = S.list[b]
        BY DEF Alike
      <4>2. CASE b = a
        BY <2>1, <3>3, <4>1, <4>2
      <4>3. CASE b # a
        BY <3>3, <4>1, <4>3 DEF Elsewhere
      <4>4. QED
        BY <4>2, <4>3
    <3>6. Alike(S, U, m) /\ U \in State
      BY <3>3, <3>5 DEF Alike, Good
    <3>7. QED
      BY <3>3, <3>4, <3>6
  <2>2. CASE ~ (m \in MacsOf(T.list[a]) /\ Entry(T.list[a], m).delayed)
    BY <2>2
  <2>3. QED
    BY <2>1, <2>2
<1>4. \A T, i : Do(T, aps[i]) = IF m \in MacsOf(T.list[aps[i]]) /\ Entry(T.list[aps[i]], m).delayed
                                THEN Notify(T, aps[i], m, p) ELSE T
  OBVIOUS
<1>5. Finalize(S, m, p) = after[n]
  BY Zenon DEF Finalize
<1> HIDE DEF n, aps, V, Do
<1>6. h \in [V \X (1..n) -> V]
  BY <1>1, <1>3
<1>7. \A T \in V, i \in 1..n : h[<<T, i>>] = Do(T, aps[i])
  OBVIOUS
<1> HIDE DEF h
<1>8. PICK f : IsRun(f, V, n, S, h)
  BY <1>1, <1>2, <1>6, Steps
<1>9. f = F(f)
  <2>1. \A k \in 1..n : f[k] = Do(f[k - 1], aps[k])
    <3>1. \A k \in 1..n : k - 1 \in 0..n
      BY <1>1
    <3>2. QED
      BY <1>7, <1>8, <3>1 DEF IsRun
  <2>2. \A k \in 0..n : k = 0 \/ k \in 1..n
    BY <1>1
  <2>3. \A k \in 0..n : f[k] = IF k = 0 THEN S ELSE Do(f[k - 1], aps[k])
    BY <1>8, <2>1, <2>2 DEF IsRun
  <2>4. QED
    BY <1>8, <2>3 DEF IsRun
<1>10. after = F(after)
  BY <1>9, Zenon
<1> HIDE DEF after
<1>11. \A k \in 0..n : after[k] \in V
  <2> DEFINE In == {k \in 0..n : after[k] \in V}
  <2>1. 0 \in In
    BY <1>1, <1>2, <1>10
  <2>2. ASSUME NEW k \in 1..n, k - 1 \in In PROVE k \in In
    <3>1. k \in 0..n /\ k # 0
      BY <1>1
    <3>2. after[k] = Do(after[k - 1], aps[k])
      BY <1>10, <3>1
    <3>3. QED
      BY <1>1, <1>3, <2>2, <3>1, <3>2
  <2> HIDE DEF In
  <2>3. \A k \in 0..n : k \in In
    BY <1>1, <2>1, <2>2, UpTo
  <2>4. QED
    BY <2>3 DEF In
<1>12. after[n] \in V
  BY <1>1, <1>11
<1>13. QED
  BY <1>5, <1>12 DEF V

\* The entry of a station becomes active.
LEMMA TryGood ==
  ASSUME NEW S, Good(S), NEW a \in Aps, NEW m \in MacsOf(S.list[a])
  PROVE  LET T == ConnectionTry(S, a, m) IN
         /\ Good(T) /\ Elsewhere(S, T, a) /\ T.cut[a] = S.cut[a]
         /\ MacsOf(T.list[a]) = MacsOf(S.list[a]) /\ Auth(T.list[a]) = Auth(S.list[a])
         /\ Active(T.list[a]) = Active(S.list[a]) \cup {m}
         /\ Loose(T.list[a]) = Loose(S.list[a]) \ {m}
<1>1. CASE m \in Active(S.list[a])
  <2>1. ConnectionTry(S, a, m) = S
    BY <1>1, Zenon DEF ConnectionTry
  <2>2. Good(S) /\ Elsewhere(S, S, a) /\ m \notin Loose(S.list[a])
    BY <1>1 DEF Elsewhere, Loose, Idle
  <2>3. QED
    BY <1>1, <2>1, <2>2
<1>2. CASE m \notin Active(S.list[a])
  <2> DEFINE l == S.list[a]
             e == Entry(l, m)
             f == [e EXCEPT !.active = TRUE, !.auth = FALSE]
             k == Put(l, m, f)
             ks == S.kicks \cup ({b \in Aps \ {a} : m \in Active(S.list[b])} \X {m})
             T == ConnectionTry(S, a, m)
  <2>1. /\ S \in State /\ l \in Lists /\ Auth(l) \subseteq Active(l) /\ Framed(l, S.cut[a])
        /\ e \in Range(l) /\ e \in Entries /\ e.mac = m /\ m \in Macs
    BY FineFacts, InList, ListFacts
  <2>2. T = [[S EXCEPT !.list[a] = k, !.kicks = ks] EXCEPT !.nr[a] = Cardinality(Active([S EXCEPT !.list[a] = k, !.kicks = ks].list[a]))]
    BY <1>2, Zenon DEF ConnectionTry, SyncNr, Activate
  <2> HIDE DEF e, T
  <2>3. /\ f \in Entries /\ f.mac = m /\ f.active /\ ~f.auth /\ f.delayed = e.delayed
        /\ f.fresh = e.fresh /\ f.framed = e.framed /\ f.reason = e.reason
    BY <2>1 DEF Entries
  <2>4. m \notin Auth(l) /\ (e.delayed <=> m \in Delayed(l))
    BY <1>2, <2>1, Flags
  <2> HIDE DEF f
  <2>5. /\ k \in Lists /\ Len(k) = Len(l) /\ MacsOf(k) = MacsOf(l)
        /\ Active(k) = Active(l) \cup {m} /\ Auth(k) = Auth(l) /\ Delayed(k) = Delayed(l)
        /\ Loose(k) = Loose(l) \ {m}
    <3>1. k \in Lists /\ Len(k) = Len(l) /\ MacsOf(k) = MacsOf(l)
      BY <2>1, <2>3, PutFacts
    <3>2. /\ Active(k) = IF f.active THEN Active(l) \cup {m} ELSE Active(l) \ {m}
          /\ Auth(k) = IF f.auth THEN Auth(l) \cup {m} ELSE Auth(l) \ {m}
          /\ Delayed(k) = IF f.delayed THEN Delayed(l) \cup {m} ELSE Delayed(l) \ {m}
      BY <2>1, <2>3, PutFlags
    <3>3. Loose(k) = IF f.active \/ f.delayed THEN Loose(l) \ {m} ELSE Loose(l) \cup {m}
      BY <2>1, <2>3, PutLoose
    <3> HIDE DEF k
    <3>4. Active(k) = Active(l) \cup {m} /\ Loose(k) = Loose(l) \ {m}
      BY <2>3, <3>2, <3>3
    <3>5. Auth(k) = Auth(l)
      BY <2>3, <2>4, <3>2
    <3>6. Delayed(k) = Delayed(l)
      BY <2>3, <2>4, <3>2
    <3>7. QED
      BY <3>1, <3>4, <3>5, <3>6
  <2>6. Framed(k, S.cut[a])
    <3>1. f.fresh => f.framed /\ (f.reason = "frame" \/ m \in S.cut[a])
      BY <2>1, <2>3 DEF Framed
    <3>2. QED
      BY <2>1, <2>3, <3>1, FramedPut
  <2>7. ks \in SUBSET (Aps \X Macs)
    BY <2>1 DEF State
  <2>8. Cardinality(Active(k)) \in Nat
    BY <2>5, Numbers, FS_CardinalityType
  <2> HIDE DEF k, ks
  <2>9. /\ T \in State /\ T.list = [S.list EXCEPT ![a] = k] /\ T.sent = S.sent
        /\ T.owed = S.owed /\ T.cut = S.cut
        /\ T.nr = [S.nr EXCEPT ![a] = Cardinality(Active(k))] /\ T.open = S.open
    <3> DEFINE S1 == [S EXCEPT !.list[a] = k, !.kicks = ks]
    <3>1. /\ S1 \in State /\ S1.list = [S.list EXCEPT ![a] = k] /\ S1.list[a] = k /\ S1.sent = S.sent
          /\ S1.owed = S.owed /\ S1.cut = S.cut /\ S1.nr = S.nr /\ S1.open = S.open
      BY <2>1, <2>5, <2>7 DEF State
    <3>2. T = [S1 EXCEPT !.nr[a] = Cardinality(Active(S1.list[a]))]
      BY <2>2
    <3> HIDE DEF S1
    <3>3. T = [S1 EXCEPT !.nr[a] = Cardinality(Active(k))]
      BY <3>1, <3>2
    <3>4. QED
      BY <2>8, <3>1, <3>3 DEF State
  <2>10. T.list[a] = k /\ T.nr[a] = Cardinality(Active(k))
    BY <2>1, <2>9 DEF State
  <2>11. Elsewhere(S, T, a)
    BY <2>1, <2>9 DEF State, Elsewhere
  <2>12. Fine(T, a)
    <3>1. /\ Len(l) <= MaxEntries /\ MacsOf(l) \subseteq Stas[a] /\ S.cut[a] \subseteq Stas[a]
          /\ S.open[a] = Cardinality(Auth(l))
          /\ S.owed[a] \subseteq Delayed(l) /\ (lost[a] \/ Delayed(l) \subseteq S.owed[a] \cup S.cut[a])
      BY FineFacts
    <3> HIDE DEF l
    <3>2. QED
      BY <2>1, <2>5, <2>6, <2>9, <2>10, <3>1 DEF Fine, FineBut
  <2>13. Good(T)
    <3>1. \A x \in T.sent : Right(x)
      BY <2>9 DEF Good
    <3>2. QED
      BY <2>9, <2>11, <2>12, <3>1, GoodAt
  <2>14. QED
    BY <2>5, <2>9, <2>10, <2>11, <2>13 DEF T
<1>3. QED
  BY <1>1, <1>2

LEMMA ElsewhereTwice ==
  ASSUME NEW S, NEW T, NEW U, NEW a, Elsewhere(S, T, a), Elsewhere(T, U, a)
  PROVE  Elsewhere(S, U, a)
  BY DEF Elsewhere

\* A station is authenticated.
LEMMA SuccessGood ==
  ASSUME NEW S, Good(S), NEW a \in Aps, NEW m \in MacsOf(S.list[a]), NEW fast \in BOOLEAN
  PROVE  LET U == ConnectionSuccess(S, a, m, fast) IN
         /\ Good(U) /\ Elsewhere(S, U, a)
         /\ U.cut[a] \subseteq S.cut[a] /\ S.cut[a] \ {m} \subseteq U.cut[a]
         /\ MacsOf(U.list[a]) = MacsOf(S.list[a]) /\ Auth(U.list[a]) = Auth(S.list[a]) \cup {m}
         /\ Active(U.list[a]) = Active(S.list[a]) \cup {m}
         /\ Loose(U.list[a]) = Loose(S.list[a]) \ {m}
<1>1. CASE m \in Auth(S.list[a])
  <2>1. ConnectionSuccess(S, a, m, fast) = S
    BY <1>1, Zenon DEF ConnectionSuccess
  <2>2. m \in Active(S.list[a]) /\ m \notin Loose(S.list[a])
    BY <1>1, FineFacts DEF Loose, Idle
  <2>3. Elsewhere(S, S, a)
    BY DEF Elsewhere
  <2>4. QED
    BY <1>1, <2>1, <2>2, <2>3
<1>2. CASE m \notin Auth(S.list[a])
  <2> DEFINE T == ConnectionTry(S, a, m)
             l == T.list[a]
             e == Entry(l, m)
             f == [e EXCEPT !.auth = TRUE, !.framed = e.framed /\ fast, !.fresh = FALSE]
             k == Put(l, m, f)
             ct == IF e.delayed THEN T.cut[a] ELSE T.cut[a] \ {m}
             U == ConnectionSuccess(S, a, m, fast)
  <2>1. /\ Good(T) /\ Elsewhere(S, T, a) /\ T.cut[a] = S.cut[a]
        /\ MacsOf(T.list[a]) = MacsOf(S.list[a]) /\ Auth(T.list[a]) = Auth(S.list[a])
        /\ Active(T.list[a]) = Active(S.list[a]) \cup {m}
        /\ Loose(T.list[a]) = Loose(S.list[a]) \ {m}
    BY TryGood, SMTT(30)
  <2>2. U = [T EXCEPT !.list[a] = k, !.open[a] = T.open[a] + 1, !.cut[a] = ct]
    BY <1>2, Zenon DEF ConnectionSuccess, Succeed
  <2> HIDE DEF T, U
  <2>3. /\ T \in State /\ l \in Lists /\ Auth(l) \subseteq Active(l) /\ Framed(l, T.cut[a])
        /\ e \in Range(l) /\ e \in Entries /\ e.mac = m /\ m \in MacsOf(l) /\ m \in Active(l)
        /\ m \notin Auth(l) /\ m \notin Loose(l) /\ T.cut[a] \in SUBSET Macs
    BY <1>2, <2>1, FineFacts, InList, StateFacts
  <2> HIDE DEF e
  <2>4. /\ f \in Entries /\ f.mac = m /\ f.active = e.active /\ f.auth /\ f.delayed = e.delayed /\ ~f.fresh
    BY <2>3 DEF Entries
  <2>5. (e.delayed <=> m \in Delayed(l)) /\ e.active
    BY <2>3, Flags
  <2> HIDE DEF f
  <2>6. /\ k \in Lists /\ Len(k) = Len(l) /\ MacsOf(k) = MacsOf(l)
        /\ Active(k) = Active(l) /\ Auth(k) = Auth(l) \cup {m} /\ Delayed(k) = Delayed(l)
        /\ Loose(k) = Loose(l)
    <3>1. k \in Lists /\ Len(k) = Len(l) /\ MacsOf(k) = MacsOf(l)
      BY <2>3, <2>4, PutFacts
    <3>2. /\ Active(k) = IF f.active THEN Active(l) \cup {m} ELSE Active(l) \ {m}
          /\ Auth(k) = IF f.auth THEN Auth(l) \cup {m} ELSE Auth(l) \ {m}
          /\ Delayed(k) = IF f.delayed THEN Delayed(l) \cup {m} ELSE Delayed(l) \ {m}
      BY <2>3, <2>4, PutFlags
    <3>3. Loose(k) = IF f.active \/ f.delayed THEN Loose(l) \ {m} ELSE Loose(l) \cup {m}
      BY <2>3, <2>4, PutLoose
    <3> HIDE DEF k, l
    <3>4. Active(k) = Active(l) /\ Loose(k) = Loose(l)
      BY <2>3, <2>4, <2>5, <3>2, <3>3
    <3>5. Auth(k) = Auth(l) \cup {m}
      BY <2>4, <3>2
    <3>6. Delayed(k) = Delayed(l)
      BY <2>4, <2>5, <3>2
    <3>7. QED
      BY <3>1, <3>4, <3>5, <3>6
  <2>7. /\ ct \in SUBSET Macs /\ ct \subseteq T.cut[a] /\ T.cut[a] \ {m} \subseteq ct
        /\ m \in Delayed(l) => ct = T.cut[a]
    BY <2>3, <2>5
  <2> HIDE DEF ct
  <2>8. Framed(k, ct)
    BY <2>3, <2>4, <2>7, FramedPut
  <2> HIDE DEF k
  <2>9. /\ U \in State /\ U.list = [T.list EXCEPT ![a] = k] /\ U.sent = T.sent
        /\ U.owed = T.owed /\ U.cut = [T.cut EXCEPT ![a] = ct]
        /\ U.nr = T.nr /\ U.open = [T.open EXCEPT ![a] = T.open[a] + 1]
    <3> DEFINE o == T.open[a] + 1
    <3>1. o \in Int
      BY <2>3, StateFacts
    <3>2. U = [T EXCEPT !.list[a] = k, !.open[a] = o, !.cut[a] = ct]
      BY <2>2
    <3> HIDE DEF o
    <3>3. QED
      BY <2>3, <2>6, <2>7, <3>1, <3>2 DEF State, o
  <2>10. U.list[a] = k /\ U.open[a] = T.open[a] + 1 /\ U.cut[a] = ct
    BY <2>3, <2>9 DEF State
  <2>11. Elsewhere(T, U, a)
    BY <2>3, <2>9 DEF State, Elsewhere
  <2>12. Fine(U, a)
    <3>1. /\ Len(l) <= MaxEntries /\ MacsOf(l) \subseteq Stas[a] /\ T.cut[a] \subseteq Stas[a]
          /\ T.open[a] = Cardinality(Auth(l)) /\ T.nr[a] = Cardinality(Active(l))
          /\ T.owed[a] \subseteq Delayed(l) /\ (lost[a] \/ Delayed(l) \subseteq T.owed[a] \cup T.cut[a])
      BY <2>1, FineFacts
    <3> HIDE DEF l
    <3>2. Cardinality(Auth(k)) = Cardinality(Auth(l)) + 1
      <4>1. IsFiniteSet(Auth(l))
        BY <2>3, Numbers
      <4>2. QED
        BY <2>3, <2>6, <4>1, FS_AddElement
    <3>3. lost[a] \/ Delayed(k) \subseteq T.owed[a] \cup ct
      BY <2>6, <2>7, <3>1
    <3>4. ct \subseteq Stas[a] /\ Auth(k) \subseteq Active(k)
      BY <2>3, <2>6, <2>7, <3>1
    <3>5. QED
      BY <2>3, <2>6, <2>8, <2>9, <2>10, <3>1, <3>2, <3>3, <3>4 DEF Fine, FineBut
  <2>13. Good(U)
    <3>1. \A x \in U.sent : Right(x)
      BY <2>1, <2>9 DEF Good
    <3>2. QED
      BY <2>1, <2>9, <2>11, <2>12, <3>1, GoodAt
  <2>14. Elsewhere(S, U, a)
    BY <2>1, <2>11, ElsewhereTwice
  <2>15. QED
    BY <2>1, <2>3, <2>6, <2>7, <2>10, <2>13, <2>14 DEF U
<1>3. QED
  BY <1>1, <1>2

LEMMA AppendFacts ==
  ASSUME NEW l \in Lists, NEW m \in Macs, m \notin MacsOf(l)
  PROVE  LET k == Append(l, NewEntry(m)) IN
         /\ k \in Lists /\ Len(k) = Len(l) + 1 /\ MacsOf(k) = MacsOf(l) \cup {m}
         /\ Active(k) = Active(l) /\ Auth(k) = Auth(l) /\ Delayed(k) = Delayed(l)
         /\ Loose(k) = Loose(l) \cup {m}
         /\ \A C : Framed(l, C) => Framed(k, C)
<1> DEFINE e == NewEntry(m)
           k == Append(l, e)
<1>1. /\ e \in Entries /\ e.mac = m /\ ~e.active /\ ~e.auth /\ ~e.delayed /\ ~e.fresh
  BY DEF NewEntry, Entries, Reasons
<1> HIDE DEF e
<1>2. /\ Len(l) \in Nat /\ DOMAIN l = 1..Len(l) /\ l \in Seq(Entries) /\ Unique(l)
      /\ MacsOf(l) = {f.mac : f \in Range(l)}
  BY ListFacts
<1>3. /\ k \in Seq(Entries) /\ Len(k) = Len(l) + 1 /\ DOMAIN k = 1..(Len(l) + 1)
      /\ k[Len(l) + 1] = e /\ \A i \in 1..Len(l) : k[i] = l[i]
  BY <1>1, <1>2
<1> HIDE DEF k
<1>4. Range(k) = Range(l) \cup {e}
  <2>1. \A i \in 1..(Len(l) + 1) : i = Len(l) + 1 \/ i \in 1..Len(l)
    BY <1>2
  <2>2. \A i \in 1..Len(l) : i \in 1..(Len(l) + 1)
    BY <1>2
  <2>3. Len(l) + 1 \in 1..(Len(l) + 1)
    BY <1>2
  <2>4. QED
    BY <1>2, <1>3, <2>1, <2>2, <2>3 DEF Range
<1>5. Unique(k)
  <2>1. \A i \in 1..Len(l) : l[i].mac # m
    BY <1>2 DEF MacsOf
  <2>2. \A i \in 1..(Len(l) + 1) : i = Len(l) + 1 \/ i \in 1..Len(l)
    BY <1>2
  <2>3. QED
    BY <1>1, <1>2, <1>3, <2>1, <2>2 DEF Unique
<1>6. k \in Lists
  BY <1>3, <1>5 DEF Lists
<1>7. MacsOf(k) = MacsOf(l) \cup {m}
  BY <1>1, <1>2, <1>4, <1>6, ListFacts
<1>8. Active(k) = Active(l)
  BY <1>1, <1>4 DEF Active
<1>9. Auth(k) = Auth(l)
  BY <1>1, <1>4 DEF Auth
<1>10. Delayed(k) = Delayed(l)
  BY <1>1, <1>4 DEF Delayed
<1>11. m \notin Active(l) /\ m \notin Delayed(l)
  BY Flags
<1>12. Loose(k) = Loose(l) \cup {m}
  BY <1>7, <1>8, <1>10, <1>11 DEF Loose, Idle
<1>13. \A C : Framed(l, C) => Framed(k, C)
  BY <1>1, <1>4 DEF Framed
<1>14. QED
  BY <1>3, <1>6, <1>7, <1>8, <1>9, <1>10, <1>12, <1>13 DEF k, e

LEMMA StasMacs ==
  ASSUME site \in Sites, NEW a \in Aps
  PROVE  Stas[a] \subseteq Macs
<1>1. site.stas[a] \in {s.stas[b] : s \in Sites, b \in Aps}
  OBVIOUS
<1>2. QED
  BY <1>1 DEF Macs, Stas

\* At the other access points no session starts or ends.
Apart(S, T, a) ==
  \A b \in Aps \ {a} :
    /\ MacsOf(T.list[b]) \subseteq MacsOf(S.list[b])
    /\ Active(T.list[b]) = Active(S.list[b]) /\ Auth(T.list[b]) = Auth(S.list[b])
    /\ T.cut[b] = S.cut[b] /\ (Tidy(S.list[b]) => Tidy(T.list[b]))

LEMMA ApartTwice ==
  ASSUME NEW S, NEW T, NEW U, NEW a, Apart(S, T, a), Apart(T, U, a) \/ Elsewhere(T, U, a)
  PROVE  Apart(S, U, a)
<1>1. ASSUME NEW b \in Aps \ {a}
      PROVE  /\ MacsOf(U.list[b]) \subseteq MacsOf(S.list[b])
             /\ Active(U.list[b]) = Active(S.list[b]) /\ Auth(U.list[b]) = Auth(S.list[b])
             /\ U.cut[b] = S.cut[b] /\ (Tidy(S.list[b]) => Tidy(U.list[b]))
  <2>1. /\ MacsOf(T.list[b]) \subseteq MacsOf(S.list[b])
        /\ Active(T.list[b]) = Active(S.list[b]) /\ Auth(T.list[b]) = Auth(S.list[b])
        /\ T.cut[b] = S.cut[b] /\ (Tidy(S.list[b]) => Tidy(T.list[b]))
    BY DEF Apart
  <2>2. CASE Apart(T, U, a)
    BY <2>1, <2>2 DEF Apart
  <2>3. CASE Elsewhere(T, U, a)
    <3>1. U.list[b] = T.list[b] /\ U.cut[b] = T.cut[b]
      BY <2>3 DEF Elsewhere
    <3>2. QED
      BY <2>1, <3>1
  <2>4. QED
    BY <2>2, <2>3
<1>2. QED
  BY <1>1 DEF Apart

LEMMA ApartSame ==
  ASSUME NEW S, NEW T, NEW a, Elsewhere(S, T, a)
  PROVE  Apart(S, T, a)
<1>1. Apart(S, S, a)
  BY DEF Apart
<1>2. QED
  BY <1>1, ApartTwice

\* A station is removed or refused.
LEMMA CutGood ==
  ASSUME NEW S, Good(S), NEW a \in Aps, NEW m \in Macs, m \in Stas[a]
  PROVE  LET T == [S EXCEPT !.cut[a] = S.cut[a] \cup {m}] IN
         Good(T) /\ Elsewhere(S, T, a) /\ T.cut[a] = S.cut[a] \cup {m} /\ T.list = S.list
<1> DEFINE l == S.list[a]
           ct == S.cut[a] \cup {m}
           T == [S EXCEPT !.cut[a] = ct]
<1>1. /\ S \in State /\ l \in Lists /\ Len(l) <= MaxEntries /\ MacsOf(l) \subseteq Stas[a]
      /\ S.cut[a] \subseteq Stas[a] /\ Auth(l) \subseteq Active(l) /\ S.cut[a] \in SUBSET Macs
      /\ S.nr[a] = Cardinality(Active(l)) /\ S.open[a] = Cardinality(Auth(l))
      /\ S.owed[a] \subseteq Delayed(l) /\ Framed(l, S.cut[a])
      /\ lost[a] \/ Delayed(l) \subseteq S.owed[a] \cup S.cut[a]
  BY FineFacts, StateFacts
<1>2. ct \in SUBSET Macs /\ ct \subseteq Stas[a]
  BY <1>1
<1>3. Framed(l, ct) /\ (lost[a] \/ Delayed(l) \subseteq S.owed[a] \cup ct)
  BY <1>1 DEF Framed
<1> HIDE DEF l, ct
<1>4. /\ T \in State /\ T.list = S.list /\ T.sent = S.sent /\ T.owed = S.owed
      /\ T.cut = [S.cut EXCEPT ![a] = ct] /\ T.nr = S.nr /\ T.open = S.open
  BY <1>1, <1>2 DEF State
<1> HIDE DEF T
<1>5. T.cut[a] = ct /\ T.list[a] = l
  BY <1>1, <1>4 DEF State, l
<1>6. Elsewhere(S, T, a)
  BY <1>1, <1>4 DEF State, Elsewhere
<1>7. Fine(T, a)
  BY <1>1, <1>2, <1>3, <1>4, <1>5 DEF Fine, FineBut
<1>8. Good(T)
  <2>1. \A x \in T.sent : Right(x)
    BY <1>4 DEF Good
  <2>2. QED
    BY <1>4, <1>6, <1>7, <2>1, GoodAt
<1>9. QED
  BY <1>4, <1>5, <1>6, <1>8 DEF T, ct

\* A station is found, or gets an entry, or there is no room for it.
LEMMA FindGood ==
  ASSUME site \in Sites, NEW S, Good(S), NEW a \in Aps, NEW m \in Stas[a], NEW p, AllRanked(S, p)
  PROVE  LET T == FindOrCreate(S, a, m, p) IN
         /\ Good(T) /\ Apart(S, T, a)
         /\ MacsOf(T.list[a]) \subseteq MacsOf(S.list[a]) \cup {m}
         /\ Active(T.list[a]) = Active(S.list[a]) /\ Auth(T.list[a]) = Auth(S.list[a])
         /\ Loose(T.list[a]) \subseteq Loose(S.list[a]) \cup {m}
         /\ S.cut[a] \subseteq T.cut[a] /\ T.cut[a] \subseteq S.cut[a] \cup {m}
         /\ m \in MacsOf(T.list[a]) \/ (m \in T.cut[a] /\ T.list[a] = S.list[a])
<1> DEFINE U == Finalize(S, m, p)
           T == FindOrCreate(S, a, m, p)
           l == S.list[a]
           k == Append(l, NewEntry(m))
<1>1. CASE m \in MacsOf(l)
  <2>1. T = S
    BY <1>1, Zenon DEF FindOrCreate
  <2>2. Elsewhere(S, S, a)
    BY DEF Elsewhere
  <2>3. Apart(S, S, a)
    BY <2>2, ApartSame
  <2>4. QED
    BY <1>1, <2>1, <2>3
<1>2. CASE m \notin MacsOf(l)
  <2>1. Good(U) /\ Alike(S, U, m)
    BY FinalizeGood
  <2>2. U.list[a] = l /\ U.cut[a] = S.cut[a]
    BY <1>2, <2>1 DEF Alike
  <2>3. Apart(S, U, a)
    BY <2>1 DEF Apart, Alike
  <2>4. T = IF Len(U.list[a]) >= MaxEntries THEN [U EXCEPT !.cut[a] = U.cut[a] \cup {m}]
            ELSE [U EXCEPT !.list[a] = Append(U.list[a], NewEntry(m))]
    BY <1>2, Zenon DEF FindOrCreate
  <2>5. m \in Macs
    BY StasMacs
  <2>6. /\ U \in State /\ l \in Lists /\ Len(l) <= MaxEntries /\ MacsOf(l) \subseteq Stas[a]
        /\ U.cut[a] \subseteq Stas[a] /\ Auth(l) \subseteq Active(l) /\ U.cut[a] \in SUBSET Macs
        /\ U.nr[a] = Cardinality(Active(l)) /\ U.open[a] = Cardinality(Auth(l))
        /\ U.owed[a] \subseteq Delayed(l)
        /\ lost[a] \/ Delayed(l) \subseteq U.owed[a] \cup U.cut[a]
        /\ Framed(l, U.cut[a])
    BY <2>1, <2>2, FineFacts, StateFacts
  <2> HIDE DEF T, U
  <2>7. CASE Len(l) >= MaxEntries
    <3> DEFINE W == [U EXCEPT !.cut[a] = U.cut[a] \cup {m}]
    <3>1. Good(W) /\ Elsewhere(U, W, a) /\ W.cut[a] = U.cut[a] \cup {m} /\ W.list = U.list
      BY <2>1, <2>5, CutGood
    <3>2. T = W
      BY <2>2, <2>4, <2>7
    <3> HIDE DEF W
    <3>3. Apart(S, T, a)
      BY <2>3, <3>1, <3>2, ApartTwice
    <3>4. QED
      BY <2>2, <3>1, <3>2, <3>3 DEF T
  <2>8. CASE ~ (Len(l) >= MaxEntries)
    <3>1. T = [U EXCEPT !.list[a] = k]
      BY <2>2, <2>4, <2>8
    <3>2. /\ k \in Lists /\ Len(k) = Len(l) + 1 /\ MacsOf(k) = MacsOf(l) \cup {m}
          /\ Active(k) = Active(l) /\ Auth(k) = Auth(l) /\ Delayed(k) = Delayed(l)
          /\ Loose(k) = Loose(l) \cup {m} /\ Framed(k, U.cut[a])
      <4> HIDE DEF l
      <4>1. m \notin MacsOf(l) /\ l \in Lists
        BY <1>2, <2>6
      <4>2. QED
        BY <2>5, <2>6, <4>1, AppendFacts
    <3> HIDE DEF k
    <3>3. /\ T \in State /\ T.list = [U.list EXCEPT ![a] = k] /\ T.sent = U.sent /\ T.owed = U.owed
          /\ T.cut = U.cut /\ T.nr = U.nr /\ T.open = U.open
      BY <2>6, <3>1, <3>2 DEF State
    <3>4. T.list[a] = k
      BY <2>6, <3>3 DEF State
    <3>5. Elsewhere(U, T, a)
      BY <2>6, <3>3 DEF State, Elsewhere
    <3>6. Fine(T, a)
      <4> HIDE DEF l
      <4>1. Len(k) <= MaxEntries
        <5>1. Len(l) \in Nat /\ MaxEntries \in Nat
          BY <2>6, ListFacts, ConstantsAssumption DEF MaxEntries
        <5>2. QED
          BY <2>8, <3>2, <5>1
      <4>2. QED
        BY <2>6, <3>2, <3>3, <3>4, <4>1 DEF Fine, FineBut
    <3>7. Good(T)
      <4>1. \A x \in T.sent : Right(x)
        BY <2>1, <3>3 DEF Good
      <4>2. QED
        BY <2>1, <3>3, <3>5, <3>6, <4>1, GoodAt
    <3>8. Apart(S, T, a)
      BY <2>3, <3>5, ApartTwice
    <3>9. QED
      BY <2>2, <3>2, <3>3, <3>4, <3>7, <3>8 DEF T
  <2>9. QED
    BY <2>7, <2>8
<1>3. QED
  BY <1>1, <1>2

-----------------------------------------------------------------------------
(* The end of a session *)

\* A session whose notification was started already is about to end.
Almost(S, a, X) ==
  /\ S \in State /\ \A b \in Aps \ {a} : Fine(S, b)
  /\ FineBut(S, a, X) /\ \A n \in S.sent : Right(n)

LEMMA GoodAlmost ==
  ASSUME NEW S, NEW a \in Aps, Good(S) \/ Almost(S, a, {}), NEW X
  PROVE  Almost(S, a, X)
<1>1. S \in State /\ (\A b \in Aps \ {a} : Fine(S, b)) /\ Fine(S, a) /\ \A n \in S.sent : Right(n)
  BY DEF Almost, Good, Fine
<1>2. QED
  BY <1>1 DEF Almost, Fine, FineBut

LEMMA AlmostFacts ==
  ASSUME NEW S, NEW a \in Aps, NEW X, Almost(S, a, X)
  PROVE  /\ S \in State /\ S.list[a] \in Lists
         /\ Len(S.list[a]) <= MaxEntries /\ MacsOf(S.list[a]) \subseteq Stas[a]
         /\ S.cut[a] \subseteq Stas[a] /\ Auth(S.list[a]) \subseteq Active(S.list[a])
         /\ S.nr[a] = Cardinality(Active(S.list[a])) /\ S.open[a] = Cardinality(Auth(S.list[a]))
         /\ S.owed[a] \subseteq Delayed(S.list[a])
         /\ lost[a] \/ Delayed(S.list[a]) \subseteq S.owed[a] \cup S.cut[a] \cup X
         /\ Framed(S.list[a], S.cut[a])
<1>1. S \in State /\ FineBut(S, a, X)
  BY DEF Almost
<1>2. QED
  BY <1>1, StateFacts DEF FineBut

LEMMA GoodAgain ==
  ASSUME NEW S, NEW a \in Aps, NEW X, Almost(S, a, X), NEW T \in State, Elsewhere(S, T, a),
         Fine(T, a), \A n \in T.sent : Right(n)
  PROVE  Good(T)
<1>1. ASSUME NEW b \in Aps \ {a} PROVE Fine(T, b)
  <2>1. Fine(S, b)
    BY DEF Almost
  <2>2. /\ T.list[b] = S.list[b] /\ T.nr[b] = S.nr[b] /\ T.open[b] = S.open[b]
        /\ T.owed[b] = S.owed[b] /\ T.cut[b] = S.cut[b]
    BY DEF Elsewhere
  <2>3. QED
    BY <2>1, <2>2, Zenon DEF Fine, FineBut
<1>2. QED
  BY <1>1 DEF Good

\* The entries of a list stay in their order, or move to its beginning.
Ordered(c, l) == Len(c) <= Len(l) /\ \A i \in 1..Len(c) : \E j \in i..Len(l) : c[i].mac = l[j].mac

\* The session is counted out and told, or will be; the entry is active yet.
Ended(S, U, a, m) ==
  LET l == S.list[a]
      k == U.list[a]
  IN /\ U \in State /\ Elsewhere(S, U, a) /\ \A n \in U.sent : Right(n)
     /\ Len(k) = Len(l) /\ MacsOf(k) = MacsOf(l) /\ \A i \in 1..Len(l) : k[i].mac = l[i].mac
     /\ Active(k) = Active(l) /\ Auth(k) = Auth(l) /\ Delayed(k) = Delayed(l)
     /\ Framed(k, S.cut[a]) /\ U.cut[a] = S.cut[a] /\ U.nr[a] = S.nr[a]
     /\ U.open[a] = Cardinality(Auth(l) \ {m})
     /\ U.owed[a] \subseteq Delayed(l)
     /\ lost[a] \/ Delayed(l) \subseteq U.owed[a] \cup S.cut[a]

\* What EndSession does before the entry becomes inactive.
Ending(S, a, m, keep) ==
  LET e == Entry(S.list[a], m)
      f == [e EXCEPT !.reason = IF keep THEN e.reason ELSE "none"]
      T == [S EXCEPT !.list[a] = Put(S.list[a], m, f), !.open[a] = S.open[a] - 1,
                     !.owed[a] = S.owed[a] \cup {m}]
  IN IF ~e.auth THEN S ELSE IF e.delayed THEN T ELSE Announce(T, a, m)

LEMMA EndingEnds ==
  ASSUME NEW S, NEW a \in Aps, NEW m, Almost(S, a, Auth(S.list[a]) \cap {m}), m \in Active(S.list[a]),
         NEW keep \in BOOLEAN, keep \/ m \in S.cut[a] \/ ~Entry(S.list[a], m).fresh
  PROVE  Ended(S, Ending(S, a, m, keep), a, m)
<1> DEFINE l == S.list[a]
           e == Entry(l, m)
           X == Auth(l) \cap {m}
<1>1. /\ S \in State /\ l \in Lists /\ Auth(l) \subseteq Active(l) /\ Framed(l, S.cut[a])
      /\ S.open[a] = Cardinality(Auth(l)) /\ S.owed[a] \subseteq Delayed(l)
      /\ lost[a] \/ Delayed(l) \subseteq S.owed[a] \cup S.cut[a] \cup X
      /\ S.owed[a] \in SUBSET Macs /\ S.open[a] \in Int
  BY AlmostFacts, StateFacts
<1>2. m \in MacsOf(l) /\ e \in Range(l) /\ e \in Entries /\ e.mac = m /\ m \in Macs
  BY <1>1, Flags, InList, ListFacts
<1>3. (e.auth <=> m \in Auth(l)) /\ (e.delayed <=> m \in Delayed(l)) /\ e.active
  BY <1>1, <1>2, Flags
<1>4. \A n \in S.sent : Right(n)
  BY DEF Almost
<1>5. CASE ~e.auth
  <2>1. Ending(S, a, m, keep) = S
    BY <1>5, Zenon DEF Ending
  <2>2. X = {} /\ Auth(l) \ {m} = Auth(l)
    BY <1>3, <1>5
  <2>3. Elsewhere(S, S, a)
    BY DEF Elsewhere
  <2>4. Ended(S, S, a, m)
    BY <1>1, <1>4, <2>2, <2>3 DEF Ended
  <2>5. QED
    BY <2>1, <2>4
<1>6. CASE e.auth
  <2> DEFINE f == [e EXCEPT !.reason = IF keep THEN e.reason ELSE "none"]
             k == Put(l, m, f)
             o == S.open[a] - 1
             ow == S.owed[a] \cup {m}
             T == [S EXCEPT !.list[a] = k, !.open[a] = o, !.owed[a] = ow]
             U == Ending(S, a, m, keep)
  <2>1. U = IF e.delayed THEN T ELSE Announce(T, a, m)
    BY <1>6, Zenon DEF Ending
  <2> HIDE DEF e, U
  <2>2. /\ f \in Entries /\ f.mac = m /\ f.active = e.active /\ f.auth = e.auth
        /\ f.delayed = e.delayed /\ f.fresh = e.fresh /\ f.framed = e.framed
        /\ f.reason = IF keep THEN e.reason ELSE "none"
    BY <1>2 DEF Entries, Reasons
  <2>3. f.fresh => f.framed /\ (f.reason = "frame" \/ m \in S.cut[a])
    BY <1>1, <1>2, <2>2 DEF Framed, e
  <2> HIDE DEF f
  <2>4. /\ k \in Lists /\ Len(k) = Len(l) /\ MacsOf(k) = MacsOf(l)
        /\ Active(k) = Active(l) /\ Auth(k) = Auth(l) /\ Delayed(k) = Delayed(l)
        /\ Entry(k, m) = f
    <3>1. k \in Lists /\ Len(k) = Len(l) /\ MacsOf(k) = MacsOf(l) /\ Entry(k, m) = f
      BY <1>1, <1>2, <2>2, PutFacts
    <3>2. /\ Active(k) = IF f.active THEN Active(l) \cup {m} ELSE Active(l) \ {m}
          /\ Auth(k) = IF f.auth THEN Auth(l) \cup {m} ELSE Auth(l) \ {m}
          /\ Delayed(k) = IF f.delayed THEN Delayed(l) \cup {m} ELSE Delayed(l) \ {m}
      BY <1>1, <1>2, <2>2, PutFlags
    <3> HIDE DEF k, l
    <3>3. Active(k) = Active(l)
      <4>1. m \in Active(l)
        BY DEF l
      <4>2. QED
        BY <1>3, <2>2, <3>2, <4>1
    <3>4. Auth(k) = Auth(l)
      BY <1>3, <2>2, <3>2
    <3>5. Delayed(k) = Delayed(l)
      BY <1>3, <2>2, <3>2
    <3>6. QED
      BY <3>1, <3>3, <3>4, <3>5
  <2>5. \A i \in 1..Len(l) : k[i].mac = l[i].mac
    BY <1>1, <1>2, <2>2, PutFacts
  <2>6. Framed(k, S.cut[a])
    BY <1>1, <1>2, <2>2, <2>3, FramedPut
  <2>7. o = Cardinality(Auth(l) \ {m}) /\ o \in Int
    <3>1. IsFiniteSet(Auth(l)) /\ m \in Auth(l)
      BY <1>1, <1>3, <1>6, Numbers
    <3>2. Cardinality(Auth(l) \ {m}) = Cardinality(Auth(l)) - 1
      BY <3>1, FS_RemoveElement
    <3>3. QED
      BY <1>1, <3>2
  <2>8. ow \in SUBSET Macs /\ m \in ow /\ m \in Auth(l)
    BY <1>1, <1>2, <1>3, <1>6
  <2> HIDE DEF k, o, ow
  <2>9. /\ T \in State /\ T.list = [S.list EXCEPT ![a] = k] /\ T.sent = S.sent
        /\ T.owed = [S.owed EXCEPT ![a] = ow] /\ T.cut = S.cut
        /\ T.nr = S.nr /\ T.open = [S.open EXCEPT ![a] = o]
    BY <1>1, <2>4, <2>7, <2>8 DEF State
  <2> HIDE DEF T
  <2>10. T.list[a] = k /\ T.open[a] = o /\ T.owed[a] = ow
    BY <1>1, <2>9 DEF State
  <2>11. Elsewhere(S, T, a)
    BY <1>1, <2>9 DEF State, Elsewhere
  <2>12. CASE e.delayed
    <3>1. U = T
      BY <2>1, <2>12
    <3>2. ow \subseteq Delayed(l)
      BY <1>1, <1>3, <2>12 DEF ow
    <3>3. lost[a] \/ Delayed(l) \subseteq ow \cup S.cut[a]
      BY <1>1 DEF ow
    <3>4. Ended(S, T, a, m)
      BY <1>4, <2>4, <2>5, <2>6, <2>7, <2>9, <2>10, <2>11, <3>2, <3>3 DEF Ended
    <3>5. QED
      BY <3>1, <3>4 DEF U
  <2>13. CASE ~e.delayed
    <3> DEFINE n == Signal(T, a, m)
               rest == ow \ {m}
    <3>1. U = [T EXCEPT !.sent = T.sent \cup {n}, !.owed[a] = rest]
      BY <2>1, <2>10, <2>13 DEF Announce
    <3>2. m \in MacsOf(T.list[a])
      BY <1>2, <2>4, <2>10
    <3>3. /\ n \in Signals /\ n.ap = a /\ n.reason = f.reason /\ n.fresh = f.fresh
          /\ n.due /\ (n.cut <=> m \in S.cut[a])
      <4>1. /\ n \in Signals /\ n.ap = a /\ n.reason = Entry(T.list[a], m).reason
            /\ n.fresh = Entry(T.list[a], m).fresh
            /\ (n.due <=> m \in T.owed[a]) /\ (n.cut <=> m \in T.cut[a])
        <5>1. T \in State
          BY <2>9
        <5>2. QED
          BY <3>2, <5>1, SignalFacts
      <4> HIDE DEF n
      <4>2. QED
        BY <2>4, <2>8, <2>9, <2>10, <4>1
    <3>4. Right(n)
      <4> HIDE DEF n
      <4>1. QED
        BY <2>3, <3>3 DEF Right
    <3>5. rest \in SUBSET Macs /\ rest = S.owed[a]
      BY <1>1, <1>3, <2>13 DEF ow
    <3> HIDE DEF n, rest
    <3>6. /\ U \in State /\ U.list = T.list /\ U.sent = T.sent \cup {n}
          /\ U.owed = [T.owed EXCEPT ![a] = rest] /\ U.cut = T.cut
          /\ U.nr = T.nr /\ U.open = T.open
      BY <2>9, <3>1, <3>3, <3>5 DEF State
    <3>7. U.owed[a] = S.owed[a]
      BY <2>9, <3>5, <3>6 DEF State
    <3>8. Elsewhere(T, U, a)
      BY <2>9, <3>6 DEF State, Elsewhere
    <3>9. Elsewhere(S, U, a)
      BY <2>11, <3>8, ElsewhereTwice
    <3>10. \A x \in U.sent : Right(x)
      BY <1>4, <2>9, <3>4, <3>6
    <3>11. lost[a] \/ Delayed(l) \subseteq S.owed[a] \cup S.cut[a]
      BY <1>1, <1>3, <2>13
    <3>12. U.list[a] = k /\ U.open[a] = o /\ U.nr[a] = S.nr[a] /\ U.cut[a] = S.cut[a]
      BY <2>9, <2>10, <3>6
    <3>13. Ended(S, U, a, m)
      BY <1>1, <2>4, <2>5, <2>6, <2>7, <3>6, <3>7, <3>9, <3>10, <3>11, <3>12 DEF Ended
    <3>14. QED
      BY <3>13 DEF U
  <2>14. QED
    BY <2>12, <2>13
<1>7. QED
  BY <1>5, <1>6

\* The session of m is over.
Over(S, T, a, m) ==
  /\ Good(T) /\ Elsewhere(S, T, a) /\ T.cut[a] = S.cut[a] /\ Tidy(T.list[a])
  /\ MacsOf(T.list[a]) \subseteq MacsOf(S.list[a]) /\ Ordered(T.list[a], S.list[a])
  /\ Active(T.list[a]) = Active(S.list[a]) \ {m} /\ Auth(T.list[a]) = Auth(S.list[a]) \ {m}

\* The session of an active entry ends, and the list is cleaned up.
LEMMA EndGood ==
  ASSUME NEW S, NEW a \in Aps, NEW m, Almost(S, a, Auth(S.list[a]) \cap {m}), m \in Active(S.list[a]),
         NEW keep \in BOOLEAN, keep \/ m \in S.cut[a] \/ ~Entry(S.list[a], m).fresh,
         NEW p, Ranked(MacsOf(S.list[a]), p)
  PROVE  Over(S, EndSession(S, a, m, keep, p), a, m)
<1> DEFINE l == S.list[a]
           U == Ending(S, a, m, keep)
           u == U.list[a]
           e == Entry(u, m)
           g == [e EXCEPT !.active = FALSE, !.auth = FALSE]
           k == Put(u, m, g)
           c == Cleaned(k, p)
           T == EndSession(S, a, m, keep, p)
<1>1. T = SyncNr([U EXCEPT !.list[a] = c], a)
  BY Zenon DEF EndSession, Ending
<1>2. Ended(S, U, a, m)
  BY EndingEnds
<1> HIDE DEF T, U
<1>3. /\ U \in State /\ Elsewhere(S, U, a) /\ (\A n \in U.sent : Right(n))
      /\ Len(u) = Len(l) /\ MacsOf(u) = MacsOf(l)
      /\ (\A i \in 1..Len(l) : u[i].mac = l[i].mac)
      /\ Active(u) = Active(l) /\ Auth(u) = Auth(l) /\ Delayed(u) = Delayed(l)
      /\ Framed(u, S.cut[a]) /\ U.cut[a] = S.cut[a]
      /\ U.open[a] = Cardinality(Auth(l) \ {m}) /\ U.owed[a] \subseteq Delayed(l)
      /\ lost[a] \/ Delayed(l) \subseteq U.owed[a] \cup S.cut[a]
  BY <1>2, Zenon DEF Ended
<1>4. /\ l \in Lists /\ Auth(l) \subseteq Active(l) /\ m \in MacsOf(l)
      /\ Len(l) <= MaxEntries /\ MacsOf(l) \subseteq Stas[a] /\ S.cut[a] \subseteq Stas[a]
  BY AlmostFacts, Flags
<1>5. u \in Lists
  BY <1>3, StateFacts
<1> HIDE DEF u
<1>6. e \in Entries /\ e.mac = m /\ e \in Range(u) /\ (e.delayed <=> m \in Delayed(l))
  BY <1>3, <1>4, <1>5, InList, Flags
<1> HIDE DEF e
<1>7. /\ g \in Entries /\ g.mac = m /\ ~g.active /\ ~g.auth /\ g.delayed = e.delayed
      /\ g.fresh = e.fresh /\ g.framed = e.framed /\ g.reason = e.reason
  BY <1>6 DEF Entries
<1> HIDE DEF g
<1>8. /\ k \in Lists /\ Len(k) = Len(l) /\ MacsOf(k) = MacsOf(l)
      /\ Active(k) = Active(l) \ {m} /\ Auth(k) = Auth(l) \ {m} /\ Delayed(k) = Delayed(l)
  <2>1. k \in Lists /\ Len(k) = Len(l) /\ MacsOf(k) = MacsOf(l)
    BY <1>3, <1>4, <1>5, <1>7, PutFacts
  <2>2. /\ Active(k) = IF g.active THEN Active(u) \cup {m} ELSE Active(u) \ {m}
        /\ Auth(k) = IF g.auth THEN Auth(u) \cup {m} ELSE Auth(u) \ {m}
        /\ Delayed(k) = IF g.delayed THEN Delayed(u) \cup {m} ELSE Delayed(u) \ {m}
    <3>1. m \in MacsOf(u)
      BY <1>3, <1>4
    <3>2. QED
      BY <1>5, <1>7, <3>1, PutFlags
  <2> HIDE DEF k, l
  <2>3. Active(k) = Active(l) \ {m} /\ Auth(k) = Auth(l) \ {m}
    BY <1>3, <1>7, <2>2
  <2>4. Delayed(k) = Delayed(l)
    BY <1>3, <1>6, <1>7, <2>2
  <2>5. QED
    BY <2>1, <2>3, <2>4
<1>9. \A i \in 1..Len(l) : k[i].mac = l[i].mac
  BY <1>3, <1>4, <1>5, <1>7, PutFacts
<1>10. Framed(k, S.cut[a])
  <2>1. g.fresh => g.framed /\ (g.reason = "frame" \/ m \in S.cut[a])
    BY <1>3, <1>6, <1>7 DEF Framed
  <2>2. Framed(u, S.cut[a]) /\ m \in MacsOf(u)
    BY <1>3, <1>4
  <2>3. S.cut[a] \ {m} \subseteq S.cut[a]
    OBVIOUS
  <2>4. QED
    BY <1>5, <1>7, <2>1, <2>2, <2>3, FramedPut
<1> HIDE DEF k
<1>11. /\ c \in Lists /\ Len(c) <= Len(k) /\ Range(c) \in SUBSET Range(k)
       /\ MacsOf(c) \in SUBSET MacsOf(k) /\ Tidy(c)
       /\ Active(c) = Active(k) /\ Auth(c) = Auth(k) /\ Delayed(c) = Delayed(k)
       /\ \A i \in 1..Len(c) : \E j \in i..Len(k) : c[i] = k[j]
  <2>1. Auth(k) \subseteq Active(k)
    BY <1>4, <1>8
  <2>2. Ranked(MacsOf(k), p)
    BY <1>8
  <2>3. QED
    BY <1>8, <2>1, <2>2, CleanedFacts
<1>12. Framed(c, S.cut[a])
  BY <1>10, <1>11, FramedSubset
<1>13. Ordered(c, l)
  <2>1. Len(c) \in Nat /\ Len(l) \in Nat
    BY <1>4, <1>11, ListFacts
  <2>2. ASSUME NEW i \in 1..Len(c) PROVE \E j \in i..Len(l) : c[i].mac = l[j].mac
    <3>1. PICK j \in i..Len(l) : c[i] = k[j]
      BY <1>8, <1>11
    <3>2. j \in 1..Len(l)
      BY <2>1
    <3>3. QED
      BY <1>9, <3>1, <3>2
  <2>3. QED
    BY <1>8, <1>11, <2>2 DEF Ordered
<1> HIDE DEF c
<1>14. /\ T \in State /\ T.list = [U.list EXCEPT ![a] = c] /\ T.sent = U.sent
       /\ T.owed = U.owed /\ T.cut = U.cut /\ T.open = U.open
       /\ T.nr = [U.nr EXCEPT ![a] = Cardinality(Active(c))]
  <2> DEFINE W == [U EXCEPT !.list[a] = c]
             n == Cardinality(Active(c))
  <2>1. /\ W \in State /\ W.list = [U.list EXCEPT ![a] = c] /\ W.list[a] = c /\ W.sent = U.sent
        /\ W.owed = U.owed /\ W.cut = U.cut /\ W.nr = U.nr /\ W.open = U.open
    BY <1>3, <1>11 DEF State
  <2>2. T = [W EXCEPT !.nr[a] = Cardinality(Active(W.list[a]))]
    BY <1>1 DEF SyncNr
  <2>3. n \in Nat
    BY <1>11, Numbers, FS_CardinalityType
  <2> HIDE DEF W, n
  <2>4. T = [W EXCEPT !.nr[a] = n]
    BY <2>1, <2>2 DEF n
  <2>5. QED
    BY <2>1, <2>3, <2>4 DEF State, n
<1>15. T.list[a] = c /\ T.nr[a] = Cardinality(Active(c))
  BY <1>3, <1>14 DEF State
<1>16. Elsewhere(S, T, a)
  <2>1. Elsewhere(U, T, a)
    BY <1>3, <1>14 DEF State, Elsewhere
  <2>2. QED
    BY <1>3, <2>1, ElsewhereTwice
<1>17. Fine(T, a)
  <2>1. Len(c) <= MaxEntries
    <3>1. Len(c) \in Nat /\ Len(l) \in Nat /\ MaxEntries \in Nat
      BY <1>4, <1>11, ListFacts, ConstantsAssumption DEF MaxEntries
    <3>2. QED
      BY <1>4, <1>8, <1>11, <3>1
  <2>2. MacsOf(c) \subseteq Stas[a] /\ Auth(c) \subseteq Active(c)
    BY <1>4, <1>8, <1>11
  <2>3. T.open[a] = Cardinality(Auth(c)) /\ T.owed[a] = U.owed[a] /\ T.cut[a] = S.cut[a]
    BY <1>3, <1>8, <1>11, <1>14
  <2>4. T.owed[a] \subseteq Delayed(c) /\ (lost[a] \/ Delayed(c) \subseteq T.owed[a] \cup T.cut[a])
    BY <1>3, <1>8, <1>11, <2>3
  <2>5. T.cut[a] \subseteq Stas[a] /\ Framed(c, T.cut[a])
    BY <1>4, <1>12, <2>3
  <2> HIDE DEF l
  <2>6. QED
    BY <1>15, <2>1, <2>2, <2>3, <2>4, <2>5 DEF Fine, FineBut
<1>18. Good(T)
  <2>1. \A x \in T.sent : Right(x)
    BY <1>3, <1>14
  <2>2. QED
    BY <1>14, <1>16, <1>17, <2>1, GoodAgain
<1>19. T.cut[a] = S.cut[a]
  BY <1>3, <1>14
<1>20. QED
  BY <1>8, <1>11, <1>13, <1>15, <1>16, <1>18, <1>19 DEF T, Over

\* A session is ended by the list of the driver, or by pwhm itself.
LEMMA DropGood ==
  ASSUME site \in Sites, NEW S, Good(S), NEW a \in Aps, NEW m, m \in Active(S.list[a]),
         NEW p, Ranked(MacsOf(S.list[a]), p)
  PROVE  LET T == Drop(S, a, m, p) IN
         /\ Good(T) /\ Elsewhere(S, T, a) /\ T.cut[a] = S.cut[a] \cup {m}
         /\ MacsOf(T.list[a]) \subseteq MacsOf(S.list[a]) /\ Ordered(T.list[a], S.list[a])
         /\ Active(T.list[a]) = Active(S.list[a]) \ {m} /\ Auth(T.list[a]) = Auth(S.list[a]) \ {m}
<1> DEFINE W == [S EXCEPT !.cut[a] = S.cut[a] \cup {m}]
           none == FALSE
           T == EndSession(W, a, m, none, p)
<1>1. m \in Stas[a] /\ m \in Macs
  BY FineFacts, Flags, StasMacs
<1>2. Good(W) /\ Elsewhere(S, W, a) /\ W.cut[a] = S.cut[a] \cup {m} /\ W.list = S.list
  BY <1>1, CutGood
<1>3. Drop(S, a, m, p) = IF m \in Active(W.list[a]) THEN T ELSE W
  BY Zenon DEF Drop, Disconnection
<1> HIDE DEF W, none
<1>4. none \in BOOLEAN
  BY DEF none
<1>5. Almost(W, a, Auth(W.list[a]) \cap {m}) /\ m \in Active(W.list[a]) /\ m \in W.cut[a]
      /\ Ranked(MacsOf(W.list[a]), p)
  BY <1>2, GoodAlmost
<1>6. Over(W, T, a, m)
  BY <1>4, <1>5, EndGood
<1> HIDE DEF T
<1>7. Elsewhere(S, T, a)
  BY <1>2, <1>6, ElsewhereTwice DEF Over
<1>8. QED
  BY <1>2, <1>3, <1>5, <1>6, <1>7 DEF Over

LEMMA CleanUpGood ==
  ASSUME NEW S, Good(S), NEW a \in Aps, NEW p, Ranked(MacsOf(S.list[a]), p)
  PROVE  LET T == CleanUp(S, a, p) IN
         /\ Good(T) /\ Elsewhere(S, T, a) /\ T.cut[a] = S.cut[a] /\ Tidy(T.list[a])
         /\ MacsOf(T.list[a]) \subseteq MacsOf(S.list[a])
         /\ Active(T.list[a]) = Active(S.list[a]) /\ Auth(T.list[a]) = Auth(S.list[a])
<1> DEFINE l == S.list[a]
           c == Cleaned(l, p)
           T == CleanUp(S, a, p)
<1>1. /\ S \in State /\ l \in Lists /\ Len(l) <= MaxEntries /\ MacsOf(l) \subseteq Stas[a]
      /\ S.cut[a] \subseteq Stas[a] /\ Auth(l) \subseteq Active(l)
      /\ S.nr[a] = Cardinality(Active(l)) /\ S.open[a] = Cardinality(Auth(l))
      /\ S.owed[a] \subseteq Delayed(l) /\ Framed(l, S.cut[a])
      /\ lost[a] \/ Delayed(l) \subseteq S.owed[a] \cup S.cut[a]
  BY FineFacts
<1>2. Ranked(MacsOf(l), p)
  OBVIOUS
<1>3. T = [S EXCEPT !.list[a] = c]
  BY DEF CleanUp
<1> HIDE DEF T, l
<1>4. /\ c \in Lists /\ Len(c) <= Len(l) /\ Range(c) \in SUBSET Range(l)
      /\ MacsOf(c) \in SUBSET MacsOf(l) /\ Tidy(c)
      /\ Active(c) = Active(l) /\ Auth(c) = Auth(l) /\ Delayed(c) = Delayed(l)
  BY <1>1, <1>2, CleanedFacts
<1>5. Framed(c, S.cut[a])
  BY <1>1, <1>4, FramedSubset
<1>6. Len(c) <= MaxEntries
  <2>1. Len(c) \in Nat /\ Len(l) \in Nat /\ MaxEntries \in Nat
    BY <1>1, <1>4, ListFacts, ConstantsAssumption DEF MaxEntries
  <2>2. QED
    BY <1>1, <1>4, <2>1
<1> HIDE DEF c
<1>7. /\ T \in State /\ T.list = [S.list EXCEPT ![a] = c] /\ T.sent = S.sent /\ T.owed = S.owed
      /\ T.cut = S.cut /\ T.nr = S.nr /\ T.open = S.open
  BY <1>1, <1>3, <1>4 DEF State
<1>8. T.list[a] = c
  BY <1>1, <1>7 DEF State
<1>9. Elsewhere(S, T, a)
  BY <1>1, <1>7 DEF State, Elsewhere
<1>10. Fine(T, a)
  BY <1>1, <1>4, <1>5, <1>6, <1>7, <1>8 DEF Fine, FineBut
<1>11. Good(T)
  <2>1. \A x \in T.sent : Right(x)
    BY <1>7 DEF Good
  <2>2. QED
    BY <1>7, <1>9, <1>10, <2>1, GoodAt
<1>12. QED
  BY <1>4, <1>7, <1>8, <1>9, <1>11 DEF T, l

-----------------------------------------------------------------------------
(* The loops of the handlers *)

\* No session of an access point ends or starts unseen: those that end without
\* an event are cut, and those that start are of the stations U at a.
Follows(S, T, a, U) ==
  /\ Apart(S, T, a)
  /\ Auth(S.list[a]) \ Auth(T.list[a]) \subseteq T.cut[a]
  /\ S.cut[a] \ T.cut[a] \subseteq Auth(T.list[a])
  /\ Auth(T.list[a]) \subseteq Auth(S.list[a]) \cup U

LEMMA FollowsTwice ==
  ASSUME NEW S, NEW T, NEW W, NEW a, NEW U, Follows(S, T, a, U), Follows(T, W, a, U)
  PROVE  Follows(S, W, a, U)
<1>1. Apart(S, W, a)
  BY ApartTwice DEF Follows
<1>2. /\ Auth(S.list[a]) \ Auth(T.list[a]) \subseteq T.cut[a]
      /\ S.cut[a] \ T.cut[a] \subseteq Auth(T.list[a])
      /\ Auth(T.list[a]) \subseteq Auth(S.list[a]) \cup U
      /\ Auth(T.list[a]) \ Auth(W.list[a]) \subseteq W.cut[a]
      /\ T.cut[a] \ W.cut[a] \subseteq Auth(W.list[a])
      /\ Auth(W.list[a]) \subseteq Auth(T.list[a]) \cup U
  BY DEF Follows
<1>3. QED
  BY <1>1, <1>2 DEF Follows

\* What a loop over the list of a leads to from S.
Reach(S, a, U, M) ==
  {T \in State : Good(T) /\ Follows(S, T, a, U) /\ MacsOf(T.list[a]) \subseteq M}

LEMMA ReachStart ==
  ASSUME NEW S, Good(S), NEW a, NEW U, NEW M, MacsOf(S.list[a]) \subseteq M
  PROVE  S \in Reach(S, a, U, M)
<1>1. Elsewhere(S, S, a) /\ S \in State
  BY DEF Elsewhere, Good
<1>2. Apart(S, S, a)
  BY <1>1, ApartSame
<1>3. Follows(S, S, a, U)
  BY <1>2 DEF Follows
<1>4. QED
  BY <1>1, <1>3 DEF Reach

LEMMA ReachOn ==
  ASSUME NEW S, NEW a, NEW U, NEW M, NEW T \in Reach(S, a, U, M), NEW W, Good(W), Follows(T, W, a, U),
         MacsOf(W.list[a]) \subseteq M
  PROVE  W \in Reach(S, a, U, M)
<1>1. Follows(S, T, a, U) /\ W \in State
  BY DEF Reach, Good
<1>2. Follows(S, W, a, U)
  BY <1>1, FollowsTwice
<1>3. QED
  BY <1>1, <1>2 DEF Reach

LEMMA FollowsDrop ==
  ASSUME site \in Sites, NEW S, NEW a \in Aps, NEW U, NEW M, NEW p, Ranked(M, p),
         NEW T \in Reach(S, a, U, M), NEW m, m \in Active(T.list[a])
  PROVE  Drop(T, a, m, p) \in Reach(S, a, U, M)
<1> DEFINE W == Drop(T, a, m, p)
<1>1. Good(T) /\ MacsOf(T.list[a]) \subseteq M
  BY DEF Reach
<1>2. Ranked(MacsOf(T.list[a]), p)
  BY <1>1 DEF Ranked
<1>3. /\ Good(W) /\ Elsewhere(T, W, a) /\ W.cut[a] = T.cut[a] \cup {m}
      /\ MacsOf(W.list[a]) \subseteq MacsOf(T.list[a]) /\ Auth(W.list[a]) = Auth(T.list[a]) \ {m}
  BY <1>1, <1>2, DropGood
<1> HIDE DEF W
<1>4. Apart(T, W, a)
  BY <1>3, ApartSame
<1>5. Follows(T, W, a, U)
  BY <1>3, <1>4 DEF Follows
<1>6. W \in Reach(S, a, U, M)
  BY <1>1, <1>3, <1>5, ReachOn
<1>7. QED
  BY <1>3, <1>6 DEF W

LEMMA FollowsTry ==
  ASSUME NEW S, NEW a \in Aps, NEW U, NEW M,
         NEW T \in Reach(S, a, U, M), NEW m \in MacsOf(T.list[a])
  PROVE  ConnectionTry(T, a, m) \in Reach(S, a, U, M)
<1> DEFINE W == ConnectionTry(T, a, m)
<1>1. Good(T) /\ MacsOf(T.list[a]) \subseteq M
  BY DEF Reach
<1>2. /\ Good(W) /\ Elsewhere(T, W, a) /\ W.cut[a] = T.cut[a]
      /\ MacsOf(W.list[a]) = MacsOf(T.list[a]) /\ Auth(W.list[a]) = Auth(T.list[a])
  BY <1>1, TryGood
<1> HIDE DEF W
<1>3. Apart(T, W, a)
  BY <1>2, ApartSame
<1>4. Follows(T, W, a, U)
  BY <1>2, <1>3 DEF Follows
<1>5. QED
  BY <1>1, <1>2, <1>4, ReachOn DEF W

LEMMA FollowsCleanUp ==
  ASSUME NEW S, NEW a \in Aps, NEW U, NEW M, NEW p, Ranked(M, p), NEW T \in Reach(S, a, U, M)
  PROVE  LET W == CleanUp(T, a, p) IN
         W \in Reach(S, a, U, M) /\ Tidy(W.list[a]) /\ Active(W.list[a]) = Active(T.list[a])
<1> DEFINE W == CleanUp(T, a, p)
<1>1. Good(T) /\ MacsOf(T.list[a]) \subseteq M
  BY DEF Reach
<1>2. Ranked(MacsOf(T.list[a]), p)
  BY <1>1 DEF Ranked
<1>3. /\ Good(W) /\ Elsewhere(T, W, a) /\ W.cut[a] = T.cut[a] /\ Tidy(W.list[a])
      /\ MacsOf(W.list[a]) \subseteq MacsOf(T.list[a])
      /\ Active(W.list[a]) = Active(T.list[a]) /\ Auth(W.list[a]) = Auth(T.list[a])
  BY <1>1, <1>2, CleanUpGood
<1> HIDE DEF W
<1>4. Apart(T, W, a)
  BY <1>3, ApartSame
<1>5. Follows(T, W, a, U)
  BY <1>3, <1>4 DEF Follows
<1>6. W \in Reach(S, a, U, M)
  BY <1>1, <1>3, <1>5, ReachOn
<1>7. QED
  BY <1>3, <1>6 DEF W

\* The list is compared with the one of the driver.
LEMMA SeenGood ==
  ASSUME site \in Sites, NEW S, Good(S), NEW a \in Aps, NEW seen, NEW M, NEW p, Ranked(M, p),
         NEW R, NEW U, S \in Reach(R, a, U, M)
  PROVE  UpdateSeen(S, a, seen, p) \in Reach(R, a, U, M) /\ Tidy(UpdateSeen(S, a, seen, p).list[a])
<1> DEFINE n == Len(S.list[a])
           V == Reach(R, a, U, M)
           Do(T, i) == IF i > Len(T.list[a]) THEN T
                       ELSE IF T.list[a][i].mac \in seen THEN ConnectionTry(T, a, T.list[a][i].mac)
                       ELSE IF T.list[a][i].active THEN Drop(T, a, T.list[a][i].mac, p) ELSE T
           F(g) == [i \in 0..n |-> IF i = 0 THEN S ELSE Do(g[i - 1], i)]
           after == CHOOSE g : g = F(g)
           h == [x \in V \X (1..n) |-> Do(x[1], x[2])]
<1>1. n \in Nat
  BY FineFacts, ListFacts
<1>2. ASSUME NEW T \in V, NEW i \in 1..n PROVE Do(T, i) \in V
  <2>1. CASE i > Len(T.list[a])
    BY <2>1
  <2>2. CASE ~ (i > Len(T.list[a]))
    <3> DEFINE e == T.list[a][i]
    <3>1. T.list[a] \in Lists
      BY StateFacts DEF Reach
    <3>2. i \in 1..Len(T.list[a])
      BY <1>1, <2>2, <3>1, ListFacts
    <3>3. e \in Range(T.list[a]) /\ e.mac \in MacsOf(T.list[a])
      BY <3>1, <3>2, ListFacts DEF Range, MacsOf
    <3>4. e.active => e.mac \in Active(T.list[a])
      BY <3>1, <3>3, Flags
    <3>5. Do(T, i) = IF e.mac \in seen THEN ConnectionTry(T, a, e.mac)
                     ELSE IF e.active THEN Drop(T, a, e.mac, p) ELSE T
      BY <2>2
    <3> HIDE DEF Do, V, e
    <3>6. ConnectionTry(T, a, e.mac) \in V
      BY <3>3, FollowsTry DEF V
    <3>7. e.active => Drop(T, a, e.mac, p) \in V
      BY <3>4, FollowsDrop DEF V
    <3>8. QED
      BY <3>5, <3>6, <3>7
  <2>3. QED
    BY <2>1, <2>2
<1>3. UpdateSeen(S, a, seen, p) = CleanUp(after[n], a, p)
  BY Zenon DEF UpdateSeen
<1> HIDE DEF n, V, Do
<1>4. S \in V
  BY DEF V
<1>5. h \in [V \X (1..n) -> V]
  BY <1>2
<1>6. \A T \in V, i \in 1..n : h[<<T, i>>] = Do(T, i)
  OBVIOUS
<1> HIDE DEF h
<1>7. PICK f : IsRun(f, V, n, S, h)
  BY <1>1, <1>4, <1>5, Steps
<1>8. f = F(f)
  <2>1. \A k \in 1..n : f[k] = Do(f[k - 1], k)
    <3>1. \A k \in 1..n : k - 1 \in 0..n
      BY <1>1
    <3>2. QED
      BY <1>6, <1>7, <3>1 DEF IsRun
  <2>2. \A k \in 0..n : k = 0 \/ k \in 1..n
    BY <1>1
  <2>3. \A k \in 0..n : f[k] = IF k = 0 THEN S ELSE Do(f[k - 1], k)
    BY <1>7, <2>1, <2>2 DEF IsRun
  <2>4. QED
    BY <1>7, <2>3 DEF IsRun
<1>9. after = F(after)
  BY <1>8, Zenon
<1> HIDE DEF after
<1>10. \A k \in 0..n : after[k] \in V
  <2> DEFINE In == {k \in 0..n : after[k] \in V}
  <2>1. 0 \in In
    BY <1>1, <1>4, <1>9
  <2>2. ASSUME NEW k \in 1..n, k - 1 \in In PROVE k \in In
    <3>1. k \in 0..n /\ k # 0
      BY <1>1
    <3>2. after[k] = Do(after[k - 1], k)
      BY <1>9, <3>1
    <3>3. QED
      BY <1>2, <2>2, <3>1, <3>2
  <2> HIDE DEF In
  <2>3. \A k \in 0..n : k \in In
    BY <1>1, <2>1, <2>2, UpTo
  <2>4. QED
    BY <2>3 DEF In
<1>11. after[n] \in Reach(R, a, U, M)
  BY <1>1, <1>10 DEF V
<1>12. QED
  BY <1>3, <1>11, FollowsCleanUp

\* No entry is active from the place i on.
DoneFrom(l, i) == \A j \in 1..Len(l) : j >= i => ~l[j].active

\* All entries are made inactive.
LEMMA RemoveAllGood ==
  ASSUME site \in Sites, NEW S, Good(S), NEW a \in Aps, NEW M, NEW p, Ranked(M, p),
         NEW R, NEW U, S \in Reach(R, a, U, M)
  PROVE  LET T == RemoveAll(S, a, p) IN
         T \in Reach(R, a, U, M) /\ Tidy(T.list[a]) /\ Active(T.list[a]) = {}
<1> DEFINE n == Len(S.list[a])
           V == Reach(R, a, U, M)
           Do(T, i) == IF i > Len(T.list[a]) \/ ~T.list[a][i].active THEN T
                       ELSE Drop(T, a, T.list[a][i].mac, p)
           F(g) == [i \in 0..n |-> IF i = 0 THEN S ELSE Do(g[i - 1], n + 1 - i)]
           after == CHOOSE g : g = F(g)
           h == [x \in V \X (1..n) |-> Do(x[1], n + 1 - x[2])]
<1>1. n \in Nat
  BY FineFacts, ListFacts
<1>2. ASSUME NEW T \in V, NEW i \in 1..n
      PROVE  Do(T, i) \in V /\ (DoneFrom(T.list[a], i + 1) => DoneFrom(Do(T, i).list[a], i))
  <2>1. T.list[a] \in Lists
    BY StateFacts DEF Reach
  <2>2. Len(T.list[a]) \in Nat /\ i \in Nat /\ i >= 1
    BY <1>1, <2>1, ListFacts
  <2>3. CASE i > Len(T.list[a]) \/ ~T.list[a][i].active
    <3>1. Do(T, i) = T
      BY <2>3
    <3>2. ASSUME DoneFrom(T.list[a], i + 1), NEW j \in 1..Len(T.list[a]), j >= i
          PROVE  ~T.list[a][j].active
      <4>1. CASE j = i
        BY <2>2, <2>3, <4>1
      <4>2. CASE j # i
        <5>1. j >= i + 1
          BY <2>2, <3>2, <4>2
        <5>2. QED
          BY <3>2, <5>1 DEF DoneFrom
      <4>3. QED
        BY <4>1, <4>2
    <3>3. DoneFrom(T.list[a], i + 1) => DoneFrom(T.list[a], i)
      BY <3>2 DEF DoneFrom
    <3>4. QED
      BY <3>1, <3>3
  <2>4. CASE ~ (i > Len(T.list[a]) \/ ~T.list[a][i].active)
    <3> DEFINE l == T.list[a]
               m == l[i].mac
               W == Drop(T, a, m, p)
               c == W.list[a]
    <3>1. i \in 1..Len(l) /\ l[i] \in Range(l) /\ m \in MacsOf(l)
      BY <2>1, <2>2, <2>4, ListFacts DEF Range, MacsOf
    <3>2. m \in Active(l)
      BY <2>1, <2>4, <3>1, Flags
    <3>3. W \in V /\ Ordered(c, l) /\ Active(c) = Active(l) \ {m}
      <4> HIDE DEF m, W
      <4>1. m \in Active(T.list[a])
        BY <3>2
      <4>2. Drop(T, a, m, p) \in V /\ Ordered(Drop(T, a, m, p).list[a], T.list[a])
            /\ Active(Drop(T, a, m, p).list[a]) = Active(T.list[a]) \ {m}
        <5>1. T \in Reach(R, a, U, M)
          OBVIOUS
        <5>2. site \in Sites /\ Ranked(M, p)
          OBVIOUS
        <5> HIDE DEF Do, V, l
        <5>3. Drop(T, a, m, p) \in Reach(R, a, U, M)
          BY <4>1, <5>1, <5>2, FollowsDrop
        <5>4. Good(T) /\ Ranked(MacsOf(T.list[a]), p)
          BY <5>1, <5>2 DEF Reach, Ranked
        <5>5. /\ Active(Drop(T, a, m, p).list[a]) = Active(T.list[a]) \ {m}
              /\ Ordered(Drop(T, a, m, p).list[a], T.list[a])
          BY <4>1, <5>2, <5>4, DropGood, SMTT(30)
        <5>6. QED
          BY <5>3, <5>5 DEF V
      <4>3. QED
        BY <4>2 DEF W
    <3>4. Do(T, i) = W
      BY <2>4
    <3>5. ASSUME DoneFrom(l, i + 1) PROVE DoneFrom(c, i)
      <4>1. c \in Lists
        BY <3>3, StateFacts DEF Reach
      <4> HIDE DEF l, m, c
      <4>2. SUFFICES ASSUME NEW j \in 1..Len(c), j >= i, c[j].active PROVE FALSE
        BY DEF DoneFrom
      <4>3. c[j] \in Range(c)
        BY <4>1, ListFacts DEF Range
      <4>4. c[j].mac \in Active(l) /\ c[j].mac # m
        BY <3>3, <4>1, <4>2, <4>3, Flags
      <4>5. PICK k \in j..Len(l) : c[j].mac = l[k].mac
        BY <3>3 DEF Ordered
      <4>6. Len(l) \in Nat /\ Len(c) \in Nat
        BY <2>1, <4>1, ListFacts DEF l
      <4>7. k \in 1..Len(l) /\ k >= i
        BY <2>2, <4>2, <4>6
      <4>8. k # i
        BY <4>4, <4>5 DEF m
      <4>9. ~l[k].active
        BY <2>2, <3>5, <4>7, <4>8 DEF DoneFrom
      <4>10. l[k] \in Range(l)
        BY <2>1, <4>7, ListFacts DEF Range, l
      <4>11. l[k].mac \notin Active(l)
        <5>1. l \in Lists
          BY <2>1 DEF l
        <5>2. QED
          BY <4>9, <4>10, <5>1, Flags
      <4>12. QED
        BY <4>4, <4>5, <4>11
    <3> HIDE DEF W, V, Do
    <3>6. QED
      BY <3>3, <3>4, <3>5
  <2>5. QED
    BY <2>3, <2>4
<1>3. RemoveAll(S, a, p) = CleanUp(after[n], a, p)
  BY Zenon DEF RemoveAll
<1>4. DoneFrom(S.list[a], n + 1)
  BY <1>1 DEF DoneFrom
<1> HIDE DEF n, V, Do
<1>5. S \in V
  BY DEF V
<1>6. \A i \in 1..n : n + 1 - i \in 1..n
  BY <1>1
<1>7. h \in [V \X (1..n) -> V]
  BY <1>2, <1>6
<1>8. \A T \in V, i \in 1..n : h[<<T, i>>] = Do(T, n + 1 - i)
  OBVIOUS
<1> HIDE DEF h
<1>9. PICK f : IsRun(f, V, n, S, h)
  BY <1>1, <1>5, <1>7, Steps
<1>10. f = F(f)
  <2>1. \A k \in 1..n : f[k] = Do(f[k - 1], n + 1 - k)
    <3>1. \A k \in 1..n : k - 1 \in 0..n
      BY <1>1
    <3>2. QED
      BY <1>8, <1>9, <3>1 DEF IsRun
  <2>2. \A k \in 0..n : k = 0 \/ k \in 1..n
    BY <1>1
  <2>3. \A k \in 0..n : f[k] = IF k = 0 THEN S ELSE Do(f[k - 1], n + 1 - k)
    BY <1>9, <2>1, <2>2 DEF IsRun
  <2>4. QED
    BY <1>9, <2>3 DEF IsRun
<1>11. after = F(after)
  BY <1>10, Zenon
<1> HIDE DEF after
<1>12. \A k \in 0..n : after[k] \in V /\ DoneFrom(after[k].list[a], n + 1 - k)
  <2> DEFINE In == {k \in 0..n : after[k] \in V /\ DoneFrom(after[k].list[a], n + 1 - k)}
  <2>1. 0 \in In
    <3>1. 0 \in 0..n /\ n + 1 - 0 = n + 1
      BY <1>1
    <3>2. after[0] = S
      BY <1>11, <3>1
    <3>3. QED
      BY <1>4, <1>5, <3>1, <3>2
  <2>2. ASSUME NEW k \in 1..n, k - 1 \in In PROVE k \in In
    <3>1. k \in 0..n /\ k # 0 /\ n + 1 - k \in 1..n /\ n + 1 - (k - 1) = (n + 1 - k) + 1
      BY <1>1
    <3>2. after[k] = Do(after[k - 1], n + 1 - k)
      BY <1>11, <3>1
    <3>3. after[k - 1] \in V /\ DoneFrom(after[k - 1].list[a], (n + 1 - k) + 1)
      BY <2>2, <3>1
    <3>4. after[k] \in V /\ DoneFrom(after[k].list[a], n + 1 - k)
      BY <1>2, <3>1, <3>2, <3>3
    <3>5. QED
      BY <3>1, <3>4
  <2> HIDE DEF In
  <2>3. \A k \in 0..n : k \in In
    BY <1>1, <2>1, <2>2, UpTo
  <2>4. QED
    BY <2>3 DEF In
<1> DEFINE T == after[n]
<1>13. T \in Reach(R, a, U, M) /\ DoneFrom(T.list[a], 1)
  <2>1. n \in 0..n /\ n + 1 - n = 1
    BY <1>1
  <2>2. QED
    BY <1>12, <2>1 DEF V
<1> HIDE DEF T
<1>14. Active(T.list[a]) = {}
  <2>1. T.list[a] \in Lists
    BY <1>13, StateFacts DEF Reach
  <2>2. \A e \in Range(T.list[a]) : ~e.active
    BY <1>13, <2>1, ListFacts DEF Range, DoneFrom
  <2>3. QED
    BY <2>2 DEF Active
<1>15. RemoveAll(S, a, p) = CleanUp(T, a, p)
  BY <1>3 DEF T
<1>16. QED
  BY <1>13, <1>14, <1>15, FollowsCleanUp

-----------------------------------------------------------------------------
(* The events of hostapd *)

LEMMA AssocReqGood ==
  ASSUME site \in Sites, NEW S, Good(S), NEW a \in Aps, NEW m \in Stas[a], NEW p, AllRanked(S, p),
         Tidy(S.list[a])
  PROVE  LET T == AssocReq(S, a, m, p) IN Good(T) /\ Follows(S, T, a, {}) /\ Tidy(T.list[a])
<1> DEFINE U == FindOrCreate(S, a, m, p)
           W == ConnectionTry(U, a, m)
<1>1. /\ Good(U) /\ Apart(S, U, a)
      /\ Auth(U.list[a]) = Auth(S.list[a]) /\ Loose(U.list[a]) \subseteq Loose(S.list[a]) \cup {m}
      /\ S.cut[a] \subseteq U.cut[a]
      /\ m \in MacsOf(U.list[a]) \/ (m \in U.cut[a] /\ U.list[a] = S.list[a])
  BY FindGood
<1>2. AssocReq(S, a, m, p) = IF m \in MacsOf(U.list[a]) THEN W ELSE U
  BY Zenon DEF AssocReq
<1> HIDE DEF U
<1>3. Follows(S, U, a, {})
  BY <1>1 DEF Follows
<1>4. CASE m \notin MacsOf(U.list[a])
  BY <1>1, <1>2, <1>3, <1>4
<1>5. CASE m \in MacsOf(U.list[a])
  <2>1. /\ Good(W) /\ Elsewhere(U, W, a) /\ W.cut[a] = U.cut[a]
        /\ Auth(W.list[a]) = Auth(U.list[a]) /\ Loose(W.list[a]) = Loose(U.list[a]) \ {m}
    BY <1>1, <1>5, TryGood
  <2> HIDE DEF W
  <2>2. Apart(U, W, a)
    BY <2>1, ApartSame
  <2>3. Follows(U, W, a, {})
    BY <2>1, <2>2 DEF Follows
  <2>4. Follows(S, W, a, {})
    BY <1>3, <2>3, FollowsTwice
  <2>5. Tidy(W.list[a])
    <3>1. W.list[a] \in Lists /\ S.list[a] \in Lists
      BY <2>1, FineFacts
    <3>2. Loose(W.list[a]) \subseteq Loose(S.list[a])
      BY <1>1, <2>1
    <3>3. QED
      BY <3>1, <3>2, TidySubset
  <2>6. QED
    BY <1>2, <1>5, <2>1, <2>4, <2>5
<1>6. QED
  BY <1>4, <1>5

LEMMA ConnectedGood ==
  ASSUME site \in Sites, NEW S, Good(S), NEW a \in Aps, NEW m \in Stas[a], NEW p, AllRanked(S, p),
         Tidy(S.list[a]), NEW fast \in BOOLEAN
  PROVE  LET T == Connected(S, a, m, fast, p) IN
         /\ Good(T) /\ Follows(S, T, a, {m}) /\ Tidy(T.list[a])
         /\ m \in Auth(T.list[a]) \/ m \in T.cut[a]
<1> DEFINE U == FindOrCreate(S, a, m, p)
           W == ConnectionSuccess(U, a, m, fast)
<1>1. /\ Good(U) /\ Apart(S, U, a)
      /\ Auth(U.list[a]) = Auth(S.list[a]) /\ Loose(U.list[a]) \subseteq Loose(S.list[a]) \cup {m}
      /\ S.cut[a] \subseteq U.cut[a]
      /\ m \in MacsOf(U.list[a]) \/ (m \in U.cut[a] /\ U.list[a] = S.list[a])
  BY FindGood
<1>2. Connected(S, a, m, fast, p) = IF m \in MacsOf(U.list[a]) THEN W ELSE U
  BY Zenon DEF Connected
<1> HIDE DEF U
<1>3. Follows(S, U, a, {m})
  BY <1>1 DEF Follows
<1>4. CASE m \notin MacsOf(U.list[a])
  BY <1>1, <1>2, <1>3, <1>4
<1>5. CASE m \in MacsOf(U.list[a])
  <2>1. /\ Good(W) /\ Elsewhere(U, W, a) /\ W.cut[a] \subseteq U.cut[a] /\ U.cut[a] \ {m} \subseteq W.cut[a]
        /\ Auth(W.list[a]) = Auth(U.list[a]) \cup {m} /\ Loose(W.list[a]) = Loose(U.list[a]) \ {m}
    BY <1>1, <1>5, SuccessGood
  <2> HIDE DEF W
  <2>2. Apart(U, W, a)
    BY <2>1, ApartSame
  <2>3. Follows(U, W, a, {m})
    BY <2>1, <2>2 DEF Follows
  <2>4. Follows(S, W, a, {m})
    BY <1>3, <2>3, FollowsTwice
  <2>5. Tidy(W.list[a])
    <3>1. W.list[a] \in Lists /\ S.list[a] \in Lists
      BY <2>1, FineFacts
    <3>2. Loose(W.list[a]) \subseteq Loose(S.list[a])
      BY <1>1, <2>1
    <3>3. QED
      BY <3>1, <3>2, TidySubset
  <2>6. m \in Auth(W.list[a])
    BY <2>1
  <2>7. QED
    BY <1>2, <1>5, <2>1, <2>4, <2>5, <2>6
<1>6. QED
  BY <1>4, <1>5

LEMMA DeauthGood ==
  ASSUME NEW S, Good(S), NEW a \in Aps, NEW m, Tidy(S.list[a])
  PROVE  LET T == DeauthFrame(S, a, m) IN
         /\ Good(T) /\ Elsewhere(S, T, a) /\ T.cut[a] = S.cut[a]
         /\ Auth(T.list[a]) = Auth(S.list[a]) /\ Tidy(T.list[a])
<1> DEFINE l == S.list[a]
           e == Entry(l, m)
           f == [e EXCEPT !.reason = "frame", !.framed = TRUE, !.fresh = TRUE]
           k == Put(l, m, f)
           T == DeauthFrame(S, a, m)
<1>1. CASE m \notin MacsOf(l)
  <2>1. T = S
    BY <1>1, Zenon DEF DeauthFrame
  <2>2. Elsewhere(S, S, a)
    BY DEF Elsewhere
  <2>3. QED
    BY <2>1, <2>2
<1>2. CASE m \in MacsOf(l)
  <2>1. T = [S EXCEPT !.list[a] = k]
    BY <1>2 DEF DeauthFrame
  <2>2. /\ S \in State /\ l \in Lists /\ Framed(l, S.cut[a])
        /\ e \in Entries /\ e.mac = m /\ Auth(l) \subseteq Active(l)
    BY <1>2, FineFacts, InList
  <2>3. /\ e.active <=> m \in Active(l)
        /\ e.auth <=> m \in Auth(l)
        /\ e.delayed <=> m \in Delayed(l)
    BY <1>2, <2>2, Flags
  <2> HIDE DEF e, T
  <2>4. /\ f \in Entries /\ f.mac = m /\ f.active = e.active /\ f.auth = e.auth
        /\ f.delayed = e.delayed /\ f.framed /\ f.reason = "frame"
    BY <2>2 DEF Entries, Reasons
  <2> HIDE DEF f
  <2>5. /\ k \in Lists /\ Len(k) = Len(l) /\ MacsOf(k) = MacsOf(l)
        /\ Active(k) = Active(l) /\ Auth(k) = Auth(l) /\ Delayed(k) = Delayed(l)
    <3>1. k \in Lists /\ Len(k) = Len(l) /\ MacsOf(k) = MacsOf(l)
      BY <1>2, <2>2, <2>4, PutFacts
    <3>2. /\ Active(k) = IF f.active THEN Active(l) \cup {m} ELSE Active(l) \ {m}
          /\ Auth(k) = IF f.auth THEN Auth(l) \cup {m} ELSE Auth(l) \ {m}
          /\ Delayed(k) = IF f.delayed THEN Delayed(l) \cup {m} ELSE Delayed(l) \ {m}
      BY <1>2, <2>2, <2>4, PutFlags
    <3> HIDE DEF k, l
    <3>3. Active(k) = Active(l)
      BY <2>3, <2>4, <3>2
    <3>4. Auth(k) = Auth(l)
      BY <2>3, <2>4, <3>2
    <3>5. Delayed(k) = Delayed(l)
      BY <2>3, <2>4, <3>2
    <3>6. QED
      BY <3>1, <3>3, <3>4, <3>5
  <2>6. Framed(k, S.cut[a])
    <3>1. f.fresh => f.framed /\ (f.reason = "frame" \/ m \in S.cut[a])
      BY <2>4
    <3>2. S.cut[a] \ {m} \subseteq S.cut[a]
      OBVIOUS
    <3>3. QED
      BY <1>2, <2>2, <2>4, <3>1, <3>2, FramedPut
  <2> HIDE DEF k
  <2>7. /\ T \in State /\ T.list = [S.list EXCEPT ![a] = k] /\ T.sent = S.sent
        /\ T.owed = S.owed /\ T.cut = S.cut /\ T.nr = S.nr /\ T.open = S.open
    BY <2>1, <2>2, <2>5 DEF State
  <2>8. T.list[a] = k
    BY <2>2, <2>7 DEF State
  <2>9. Elsewhere(S, T, a)
    BY <2>2, <2>7 DEF State, Elsewhere
  <2>10. Fine(T, a)
    <3>1. /\ Len(l) <= MaxEntries /\ MacsOf(l) \subseteq Stas[a] /\ S.cut[a] \subseteq Stas[a]
          /\ S.nr[a] = Cardinality(Active(l)) /\ S.open[a] = Cardinality(Auth(l))
          /\ S.owed[a] \subseteq Delayed(l) /\ (lost[a] \/ Delayed(l) \subseteq S.owed[a] \cup S.cut[a])
      BY FineFacts
    <3> HIDE DEF l
    <3>2. QED
      BY <2>2, <2>5, <2>6, <2>7, <2>8, <3>1 DEF Fine, FineBut
  <2>11. Good(T)
    <3>1. \A x \in T.sent : Right(x)
      BY <2>7 DEF Good
    <3>2. QED
      BY <2>7, <2>9, <2>10, <3>1, GoodAt
  <2>12. Tidy(k)
    <3>1. Loose(k) = Loose(l)
      BY <2>5 DEF Loose, Idle
    <3>2. QED
      BY <3>1 DEF Tidy
  <2>13. QED
    BY <2>5, <2>7, <2>8, <2>9, <2>11, <2>12 DEF T
<1>3. QED
  BY <1>1, <1>2

\* The event that ends a session: it comes when the station is authenticated,
\* or was cut.
LEMMA DisconnectedGood ==
  ASSUME NEW S, Good(S), NEW a \in Aps, NEW m, NEW p, Ranked(MacsOf(S.list[a]), p), Tidy(S.list[a]),
         lost[a] \/ m \in S.cut[a] \/ m \in Auth(S.list[a])
  PROVE  LET T == Disconnected(S, a, m, p) IN
         /\ Good(T) /\ Elsewhere(S, T, a) /\ T.cut[a] = S.cut[a]
         /\ Auth(T.list[a]) = Auth(S.list[a]) \ {m} /\ Tidy(T.list[a])
<1> DEFINE l == S.list[a]
           e == Entry(l, m)
           f == [e EXCEPT !.delayed = TRUE]
           k == Put(l, m, f)
           W == [S EXCEPT !.list[a] = k]
           yes == TRUE
           no == FALSE
<1>1. /\ S \in State /\ l \in Lists /\ Framed(l, S.cut[a]) /\ Auth(l) \subseteq Active(l)
      /\ Len(l) <= MaxEntries /\ MacsOf(l) \subseteq Stas[a] /\ S.cut[a] \subseteq Stas[a]
      /\ S.nr[a] = Cardinality(Active(l)) /\ S.open[a] = Cardinality(Auth(l))
      /\ S.owed[a] \subseteq Delayed(l) /\ (lost[a] \/ Delayed(l) \subseteq S.owed[a] \cup S.cut[a])
  BY FineFacts
<1>2. Active(l) \subseteq MacsOf(l) /\ Elsewhere(S, S, a) /\ yes \in BOOLEAN /\ no \in BOOLEAN /\ yes /\ ~no
  BY <1>1, Flags DEF Elsewhere
<1>3. Disconnected(S, a, m, p) =
        IF m \notin MacsOf(l) THEN S
        ELSE IF e.framed THEN IF m \in Active(l) THEN EndSession(S, a, m, yes, p) ELSE S
        ELSE IF m \in Active(W.list[a]) THEN EndSession(W, a, m, no, p) ELSE W
  BY Zenon DEF Disconnected, Disconnection
<1> HIDE DEF yes, no
<1>4. CASE m \notin Active(l) /\ (m \notin MacsOf(l) \/ e.framed)
  <2>1. Disconnected(S, a, m, p) = S
    BY <1>3, <1>4, Zenon
  <2>2. Auth(l) = Auth(l) \ {m}
    BY <1>1, <1>4
  <2>3. QED
    BY <1>2, <2>1, <2>2
<1>5. CASE m \in Active(l) /\ e.framed
  <2> DEFINE T == EndSession(S, a, m, yes, p)
  <2>1. Disconnected(S, a, m, p) = T
    BY <1>2, <1>3, <1>5, Zenon
  <2>2. Almost(S, a, Auth(S.list[a]) \cap {m}) /\ m \in Active(S.list[a])
    BY <1>5, GoodAlmost
  <2>3. yes \in BOOLEAN /\ (yes \/ m \in S.cut[a] \/ ~Entry(S.list[a], m).fresh)
    BY <1>2
  <2> HIDE DEF l, e, f, k, W
  <2>4. Over(S, T, a, m)
    BY <2>2, <2>3, EndGood
  <2>5. QED
    BY <2>1, <2>4 DEF Over
<1>6. CASE m \in MacsOf(l) /\ ~e.framed
  <2>1. e \in Range(l) /\ e \in Entries /\ e.mac = m
    BY <1>1, <1>6, InList
  <2>2. ~e.fresh
    BY <1>1, <1>6, <2>1 DEF Framed
  <2>3. /\ e.active <=> m \in Active(l)
        /\ e.auth <=> m \in Auth(l)
    BY <1>1, <1>6, Flags
  <2>4. Disconnected(S, a, m, p) = IF m \in Active(W.list[a]) THEN EndSession(W, a, m, no, p) ELSE W
    BY <1>3, <1>6, Zenon
  <2> HIDE DEF e
  <2>5. /\ f \in Entries /\ f.mac = m /\ f.active = e.active /\ f.auth = e.auth
        /\ f.delayed /\ ~f.fresh
    BY <2>1, <2>2 DEF Entries
  <2> HIDE DEF f
  <2>6. /\ k \in Lists /\ Len(k) = Len(l) /\ MacsOf(k) = MacsOf(l) /\ Entry(k, m) = f
        /\ Active(k) = Active(l) /\ Auth(k) = Auth(l) /\ Delayed(k) = Delayed(l) \cup {m}
        /\ Loose(k) = Loose(l) \ {m}
    <3>1. k \in Lists /\ Len(k) = Len(l) /\ MacsOf(k) = MacsOf(l) /\ Entry(k, m) = f
      BY <1>1, <1>6, <2>5, PutFacts
    <3>2. /\ Active(k) = IF f.active THEN Active(l) \cup {m} ELSE Active(l) \ {m}
          /\ Auth(k) = IF f.auth THEN Auth(l) \cup {m} ELSE Auth(l) \ {m}
          /\ Delayed(k) = IF f.delayed THEN Delayed(l) \cup {m} ELSE Delayed(l) \ {m}
      BY <1>1, <1>6, <2>5, PutFlags
    <3>3. Loose(k) = IF f.active \/ f.delayed THEN Loose(l) \ {m} ELSE Loose(l) \cup {m}
      BY <1>1, <1>6, <2>5, PutLoose
    <3> HIDE DEF k, l
    <3>4. Active(k) = Active(l)
      BY <2>3, <2>5, <3>2
    <3>5. Auth(k) = Auth(l)
      BY <2>3, <2>5, <3>2
    <3>6. QED
      BY <2>5, <3>1, <3>2, <3>3, <3>4, <3>5
  <2>7. Framed(k, S.cut[a])
    <3>1. f.fresh => f.framed /\ (f.reason = "frame" \/ m \in S.cut[a])
      BY <2>5
    <3>2. S.cut[a] \ {m} \subseteq S.cut[a] /\ Framed(l, S.cut[a]) /\ l \in Lists
      BY <1>1
    <3> HIDE DEF l
    <3>3. QED
      BY <1>6, <2>5, <3>1, <3>2, FramedPut
  <2> HIDE DEF k
  <2>8. /\ W \in State /\ W.list = [S.list EXCEPT ![a] = k] /\ W.sent = S.sent
        /\ W.owed = S.owed /\ W.cut = S.cut /\ W.nr = S.nr /\ W.open = S.open
    BY <1>1, <2>6 DEF State
  <2> HIDE DEF W
  <2>9. W.list[a] = k
    BY <1>1, <2>8 DEF State
  <2>10. Elsewhere(S, W, a)
    BY <1>1, <2>8 DEF State, Elsewhere
  <2>11. \A x \in W.sent : Right(x)
    BY <2>8 DEF Good
  <2>12. ASSUME NEW X, lost[a] \/ m \in S.cut[a] \cup X PROVE FineBut(W, a, X)
    <3>1. lost[a] \/ Delayed(k) \subseteq S.owed[a] \cup S.cut[a] \cup X
      BY <1>1, <2>6, <2>12
    <3>2. S.owed[a] \subseteq Delayed(k)
      BY <1>1, <2>6
    <3> HIDE DEF l
    <3>3. QED
      BY <1>1, <2>6, <2>7, <2>8, <2>9, <3>1, <3>2 DEF FineBut
  <2>13. CASE m \in Active(l)
    <3> DEFINE T == EndSession(W, a, m, no, p)
               X == Auth(W.list[a]) \cap {m}
    <3>1. Disconnected(S, a, m, p) = T
      BY <2>4, <2>6, <2>9, <2>13
    <3>2. Almost(W, a, X)
      <4>1. \A b \in Aps \ {a} : Fine(W, b)
        <5>1. ASSUME NEW b \in Aps \ {a} PROVE Fine(W, b)
          <6>1. Fine(S, b)
            BY DEF Good
          <6>2. /\ W.list[b] = S.list[b] /\ W.nr[b] = S.nr[b] /\ W.open[b] = S.open[b]
                /\ W.owed[b] = S.owed[b] /\ W.cut[b] = S.cut[b]
            BY <2>10 DEF Elsewhere
          <6>3. QED
            BY <6>1, <6>2, Zenon DEF Fine, FineBut
        <5>2. QED
          BY <5>1
      <4>2. lost[a] \/ m \in S.cut[a] \cup X
        BY <2>6, <2>9
      <4> HIDE DEF X
      <4>3. QED
        BY <2>8, <2>11, <2>12, <4>1, <4>2 DEF Almost
    <3>3. m \in Active(W.list[a]) /\ ~Entry(W.list[a], m).fresh /\ Ranked(MacsOf(W.list[a]), p)
      BY <2>5, <2>6, <2>9, <2>13
    <3>4. Over(W, T, a, m)
      <4>1. no \in BOOLEAN /\ (no \/ m \in W.cut[a] \/ ~Entry(W.list[a], m).fresh)
        BY <1>2, <3>3
      <4> HIDE DEF l
      <4>2. QED
        BY <3>2, <3>3, <4>1, EndGood
    <3> HIDE DEF T
    <3>5. Elsewhere(S, T, a)
      BY <2>10, <3>4, ElsewhereTwice DEF Over
    <3>6. QED
      BY <2>6, <2>8, <2>9, <3>1, <3>4, <3>5 DEF Over
  <2>14. CASE m \notin Active(l)
    <3>1. Disconnected(S, a, m, p) = W
      BY <2>4, <2>6, <2>9, <2>14
    <3>2. m \notin Auth(l)
      BY <1>1, <2>14
    <3>3. FineBut(W, a, {})
      BY <2>12, <3>2
    <3>4. Good(W)
      BY <2>8, <2>10, <2>11, <3>3, GoodAt DEF Fine
    <3>5. Tidy(k)
      <4>1. Loose(k) \subseteq Loose(l) /\ k \in Lists
        BY <2>6
      <4>2. QED
        BY <1>1, <4>1, TidySubset
    <3>6. QED
      BY <2>6, <2>8, <2>9, <2>10, <3>1, <3>2, <3>4, <3>5
  <2>15. QED
    BY <2>13, <2>14
<1>7. QED
  BY <1>2, <1>4, <1>5, <1>6

-----------------------------------------------------------------------------
(* The list of the driver *)

\* A station of the list of the driver, which may be authenticated there.
Fill(T, a, m, fast, p) ==
  LET U == FindOrCreate(T, a, m, p)
  IN IF link[a][m] = "auth" /\ m \in MacsOf(U.list[a])
     THEN ConnectionSuccess(U, a, m, fast) ELSE U

Up(a) == {m \in Stas[a] : link[a][m] = "auth"}

LEMMA FillGood ==
  ASSUME site \in Sites, NEW S, NEW a \in Aps, NEW M, NEW p, AllRanked(S, p), Ranked(M, p),
         NEW fast \in BOOLEAN, NEW T \in Reach(S, a, Up(a), M), NEW m \in Stas[a], m \in M
  PROVE  Fill(T, a, m, fast, p) \in Reach(S, a, Up(a), M)
<1> DEFINE U == FindOrCreate(T, a, m, p)
           W == ConnectionSuccess(U, a, m, fast)
<1>1. Good(T) /\ Apart(S, T, a) /\ MacsOf(T.list[a]) \subseteq M
  BY DEF Reach, Follows
<1>2. AllRanked(T, p)
  <2>1. ASSUME NEW b \in Aps PROVE Ranked(MacsOf(T.list[b]), p)
    <3>1. CASE b = a
      BY <1>1, <3>1 DEF Ranked
    <3>2. CASE b # a
      <4>1. MacsOf(T.list[b]) \subseteq MacsOf(S.list[b]) /\ Ranked(MacsOf(S.list[b]), p)
        BY <1>1, <3>2 DEF Apart, AllRanked
      <4>2. QED
        BY <4>1 DEF Ranked
    <3>3. QED
      BY <3>1, <3>2
  <2>2. QED
    BY <2>1 DEF AllRanked
<1>3. /\ Good(U) /\ Apart(T, U, a) /\ MacsOf(U.list[a]) \subseteq MacsOf(T.list[a]) \cup {m}
      /\ Auth(U.list[a]) = Auth(T.list[a]) /\ T.cut[a] \subseteq U.cut[a]
  BY <1>1, <1>2, FindGood
<1>4. Fill(T, a, m, fast, p) = IF link[a][m] = "auth" /\ m \in MacsOf(U.list[a]) THEN W ELSE U
  BY Zenon DEF Fill
<1> HIDE DEF U
<1>5. Follows(T, U, a, Up(a)) /\ MacsOf(U.list[a]) \subseteq M
  BY <1>1, <1>3 DEF Follows
<1>6. CASE link[a][m] = "auth" /\ m \in MacsOf(U.list[a])
  <2>1. /\ Good(W) /\ Elsewhere(U, W, a) /\ W.cut[a] \subseteq U.cut[a] /\ U.cut[a] \ {m} \subseteq W.cut[a]
        /\ Auth(W.list[a]) = Auth(U.list[a]) \cup {m} /\ MacsOf(W.list[a]) = MacsOf(U.list[a])
    BY <1>3, <1>6, SuccessGood
  <2> HIDE DEF W
  <2>2. Apart(U, W, a) /\ m \in Up(a)
    BY <1>6, <2>1, ApartSame DEF Up
  <2>3. Follows(U, W, a, Up(a))
    BY <2>1, <2>2 DEF Follows
  <2>4. Follows(T, W, a, Up(a))
    BY <1>5, <2>3, FollowsTwice
  <2>5. W \in Reach(S, a, Up(a), M)
    BY <1>5, <2>1, <2>4, ReachOn
  <2>6. QED
    BY <1>4, <1>6, <2>5
<1>7. CASE ~ (link[a][m] = "auth" /\ m \in MacsOf(U.list[a]))
  <2>1. U \in Reach(S, a, Up(a), M)
    BY <1>3, <1>5, ReachOn
  <2>2. QED
    BY <1>4, <1>7, <2>1
<1>8. QED
  BY <1>6, <1>7

\* The list is filled with the stations of the driver, and compared with them.
LEMMA RefreshedGood ==
  ASSUME site \in Sites, NEW S, Good(S), NEW a \in Aps, NEW M, NEW p, AllRanked(S, p), Ranked(M, p),
         NEW fast \in BOOLEAN, NEW q \in Seq(Present(a)),
         MacsOf(S.list[a]) \subseteq M, Present(a) \subseteq M, Tidy(S.list[a])
  PROVE  LET T == Refreshed(S, a, fast, p, q) IN
         T \in Reach(S, a, Up(a), M) /\ Tidy(T.list[a])
<1> DEFINE P == Present(a) \cap MacsOf(S.list[a])
           dump == SetToSeq(P) \o q
           n == Len(dump)
           V == Reach(S, a, Up(a), M)
           Do(T, m) == Fill(T, a, m, fast, p)
           F(g) == [i \in 0..n |-> IF i = 0 THEN S ELSE Do(g[i - 1], dump[i])]
           after == CHOOSE g : g = F(g)
           h == [x \in V \X (1..n) |-> Do(x[1], dump[x[2]])]
<1>1. n \in Nat /\ \A i \in 1..n : dump[i] \in Present(a)
  <2>1. IsFiniteSet(P)
    <3>1. IsFiniteSet(MacsOf(S.list[a])) /\ P \in SUBSET MacsOf(S.list[a])
      BY FineFacts, Numbers
    <3> HIDE DEF P
    <3>2. QED
      BY <3>1, FS_Subset
  <2>2. SetToSeq(P) \in Seq(P)
    BY <2>1, SetToSeqFacts
  <2>3. SetToSeq(P) \in Seq(Present(a))
    <3>1. P \subseteq Present(a)
      OBVIOUS
    <3> HIDE DEF P
    <3>2. QED
      BY <2>2, <3>1
  <2> HIDE DEF P
  <2>4. dump \in Seq(Present(a))
    BY <2>3
  <2> HIDE DEF dump
  <2>5. QED
    BY <2>4
<1>2. S \in V
  BY ReachStart
<1>3. ASSUME NEW T \in V, NEW i \in 1..n PROVE Do(T, dump[i]) \in V
  <2>1. dump[i] \in Stas[a] /\ dump[i] \in M
    BY <1>1 DEF Present
  <2> HIDE DEF dump, n
  <2>2. QED
    BY <2>1, FillGood
<1>4. Refreshed(S, a, fast, p, q) = IF S.list[a] = <<>> THEN S ELSE UpdateSeen(after[n], a, Present(a), p)
  BY Zenon DEF Refreshed, Fill
<1> HIDE DEF n, dump, V, Do
<1>5. h \in [V \X (1..n) -> V]
  BY <1>3
<1>6. \A T \in V, i \in 1..n : h[<<T, i>>] = Do(T, dump[i])
  OBVIOUS
<1> HIDE DEF h
<1>7. PICK f : IsRun(f, V, n, S, h)
  BY <1>1, <1>2, <1>5, Steps
<1>8. f = F(f)
  <2>1. \A k \in 1..n : f[k] = Do(f[k - 1], dump[k])
    <3>1. \A k \in 1..n : k - 1 \in 0..n
      BY <1>1
    <3>2. QED
      BY <1>6, <1>7, <3>1 DEF IsRun
  <2>2. \A k \in 0..n : k = 0 \/ k \in 1..n
    BY <1>1
  <2>3. \A k \in 0..n : f[k] = IF k = 0 THEN S ELSE Do(f[k - 1], dump[k])
    BY <1>7, <2>1, <2>2 DEF IsRun
  <2>4. QED
    BY <1>7, <2>3 DEF IsRun
<1>9. after = F(after)
  BY <1>8, Zenon
<1> HIDE DEF after
<1>10. \A k \in 0..n : after[k] \in V
  <2> DEFINE In == {k \in 0..n : after[k] \in V}
  <2>1. 0 \in In
    BY <1>1, <1>2, <1>9
  <2>2. ASSUME NEW k \in 1..n, k - 1 \in In PROVE k \in In
    <3>1. k \in 0..n /\ k # 0
      BY <1>1
    <3>2. after[k] = Do(after[k - 1], dump[k])
      BY <1>9, <3>1
    <3>3. QED
      BY <1>3, <2>2, <3>1, <3>2
  <2> HIDE DEF In
  <2>3. \A k \in 0..n : k \in In
    BY <1>1, <2>1, <2>2, UpTo
  <2>4. QED
    BY <2>3 DEF In
<1> DEFINE T == after[n]
<1>11. T \in Reach(S, a, Up(a), M) /\ Good(T)
  BY <1>1, <1>10 DEF V, Reach
<1> HIDE DEF T
<1>12. /\ UpdateSeen(T, a, Present(a), p) \in Reach(S, a, Up(a), M)
       /\ Tidy(UpdateSeen(T, a, Present(a), p).list[a])
  BY <1>11, SeenGood
<1>13. Refreshed(S, a, fast, p, q) = IF S.list[a] = <<>> THEN S ELSE UpdateSeen(T, a, Present(a), p)
  BY <1>4 DEF T
<1>14. QED
  BY <1>2, <1>12, <1>13 DEF V

LEMMA SyncSame ==
  ASSUME NEW S, Good(S), NEW a \in Aps
  PROVE  SyncNr(S, a) = S
<1>1. S \in State /\ S.nr[a] = Cardinality(Active(S.list[a]))
  BY FineFacts
<1>2. SyncNr(S, a) = [S EXCEPT !.nr[a] = S.nr[a]]
  BY <1>1 DEF SyncNr
<1>3. QED
  BY <1>1, <1>2 DEF State

LEMMA ReportedGood ==
  ASSUME site \in Sites, NEW S, NEW a \in Aps, NEW M, NEW p, Ranked(M, p), NEW R, NEW U,
         S \in Reach(R, a, U, M), Tidy(S.list[a])
  PROVE  LET T == Reported(S, a, p) IN T \in Reach(R, a, U, M) /\ Tidy(T.list[a])
<1> DEFINE T == IF enabled[a] THEN S ELSE RemoveAll(S, a, p)
<1>1. Good(S)
  BY DEF Reach
<1>2. RemoveAll(S, a, p) \in Reach(R, a, U, M) /\ Tidy(RemoveAll(S, a, p).list[a])
  BY <1>1, RemoveAllGood
<1>3. T \in Reach(R, a, U, M) /\ Tidy(T.list[a])
  BY <1>2
<1>4. Reported(S, a, p) = SyncNr(T, a)
  BY Zenon DEF Reported
<1> HIDE DEF T
<1>5. SyncNr(T, a) = T
  BY <1>3, SyncSame DEF Reach
<1>6. QED
  BY <1>3, <1>4, <1>5

\* What is made of an event: of the other stations no session ends or starts
\* unseen, and the event is believed.
Heeds(S, T, a, ev) ==
  /\ Good(T) /\ Tidy(T.list[a]) /\ Apart(S, T, a)
  /\ \A n : IF Tells(ev, n)
            THEN IF ev.kind = "CONNECTED" THEN n \in Auth(T.list[a]) \/ n \in T.cut[a]
                 ELSE n \notin Auth(T.list[a])
            ELSE /\ n \in Auth(S.list[a]) => n \in Auth(T.list[a]) \/ n \in T.cut[a]
                 /\ n \in S.cut[a] => n \in T.cut[a] \/ n \in Auth(T.list[a])
                 /\ n \in Auth(T.list[a]) => n \in Auth(S.list[a])

LEMMA HandledGood ==
  ASSUME site \in Sites, NEW S, Good(S), NEW a \in Aps, NEW ev \in [kind : Events, mac : Stas[a]],
         NEW p, AllRanked(S, p), Tidy(S.list[a]), NEW fast \in BOOLEAN,
         ev.kind = "DISCONNECTED" => lost[a] \/ ev.mac \in S.cut[a] \/ ev.mac \in Auth(S.list[a])
  PROVE  Heeds(S, Handled(S, a, ev, fast, p), a, ev)
<1> DEFINE m == ev.mac
           T == Handled(S, a, ev, fast, p)
<1>1. m \in Stas[a] /\ ev.kind \in Events /\ Ranked(MacsOf(S.list[a]), p)
  BY DEF AllRanked
<1>2. CASE ev.kind = "ASSOC"
  <2>1. T = AssocReq(S, a, m, p)
    BY <1>2 DEF Handled
  <2>2. Good(T) /\ Follows(S, T, a, {}) /\ Tidy(T.list[a])
    BY <1>1, <2>1, AssocReqGood
  <2> HIDE DEF T
  <2>3. \A n : ~Tells(ev, n)
    BY <1>2 DEF Tells
  <2>4. QED
    BY <2>2, <2>3 DEF Heeds, Follows, T
<1>3. CASE ev.kind = "CONNECTED"
  <2>1. T = Connected(S, a, m, fast, p)
    BY <1>3 DEF Handled
  <2>2. Good(T) /\ Follows(S, T, a, {m}) /\ Tidy(T.list[a]) /\ (m \in Auth(T.list[a]) \/ m \in T.cut[a])
    BY <1>1, <2>1, ConnectedGood
  <2> HIDE DEF T
  <2>3. \A n : Tells(ev, n) <=> n = m
    BY <1>3 DEF Tells
  <2>4. QED
    BY <1>3, <2>2, <2>3 DEF Heeds, Follows, T
<1>4. CASE ev.kind = "DISCONNECTED"
  <2>1. T = Disconnected(S, a, m, p)
    BY <1>4 DEF Handled
  <2>2. Good(T) /\ Elsewhere(S, T, a) /\ T.cut[a] = S.cut[a] /\ Auth(T.list[a]) = Auth(S.list[a]) \ {m}
        /\ Tidy(T.list[a])
    BY <1>1, <1>4, <2>1, DisconnectedGood
  <2> HIDE DEF T
  <2>3. \A n : Tells(ev, n) <=> n = m
    BY <1>4 DEF Tells
  <2>4. Apart(S, T, a)
    BY <2>2, ApartSame
  <2>5. QED
    BY <1>4, <2>2, <2>3, <2>4 DEF Heeds, T
<1>5. CASE ev.kind = "DEAUTH"
  <2>1. T = DeauthFrame(S, a, m)
    BY <1>5 DEF Handled
  <2>2. Good(T) /\ Elsewhere(S, T, a) /\ T.cut[a] = S.cut[a] /\ Auth(T.list[a]) = Auth(S.list[a])
        /\ Tidy(T.list[a])
    BY <2>1, DeauthGood
  <2> HIDE DEF T
  <2>3. \A n : ~Tells(ev, n)
    BY <1>5 DEF Tells
  <2>4. Apart(S, T, a)
    BY <2>2, ApartSame
  <2>5. QED
    BY <2>2, <2>3, <2>4 DEF Heeds, T
<1>6. QED
  BY <1>1, <1>2, <1>3, <1>4, <1>5 DEF Events

-----------------------------------------------------------------------------
(* The events under way *)

\* Who is authenticated was told to be.
LEMMA StoryUp ==
  ASSUME NEW X, NEW q \in Seq([kind : Events, mac : X]), NEW m, Story(q, m, "down", "up")
  PROVE  ToCome(q, m)
<1>1. PICK v \in [0..Len(q) -> Tales] :
        v[0] = "down" /\ v[Len(q)] = "up" /\ \A i \in 1..Len(q) : Turn(q[i], m, v[i-1], v[i])
  BY DEF Story
<1>2. Len(q) \in Nat
  OBVIOUS
<1> DEFINE N == {i \in 0..Len(q) : v[i] = "up"}
<1>3. N \in SUBSET Nat /\ Len(q) \in N
  BY <1>1, <1>2
<1>4. PICK i \in N : \A j \in N : i <= j
  BY <1>3, LeastNat
<1>5. i \in 1..Len(q) /\ i - 1 \in 0..Len(q) /\ v[i] = "up" /\ v[i-1] # "up"
  BY <1>1, <1>2, <1>4
<1>6. Tells(q[i], m) /\ Tale(q[i]) = "up"
  BY <1>1, <1>5 DEF Turn
<1>7. q[i] \in [kind : Events, mac : X] /\ q[i].kind = "CONNECTED" /\ q[i].mac = m
  <2>1. q[i] \in [kind : Events, mac : X]
    BY <1>5
  <2>2. q[i].kind = "CONNECTED"
    BY <1>6 DEF Tale
  <2>3. q[i].mac = m
    BY <1>6 DEF Tells
  <2>4. QED
    BY <2>1, <2>2, <2>3
<1>8. q[i] = Ev("CONNECTED", m)
  BY <1>7 DEF Ev
<1>9. QED
  BY <1>5, <1>8 DEF ToCome

\* Nothing is told.
LEMMA StoryEmpty ==
  ASSUME NEW m, NEW b \in Tales, NEW c \in Tales
  PROVE  Story(<<>>, m, b, c) <=> b = c
<1>1. ASSUME b = c PROVE Story(<<>>, m, b, c)
  <2> DEFINE v == [i \in 0..0 |-> b]
  <2>1. Len(<<>>) = 0 /\ v \in [0..0 -> Tales] /\ v[0] = b
    OBVIOUS
  <2> HIDE DEF v
  <2>2. \A i \in 1..0 : Turn(<<>>[i], m, v[i-1], v[i])
    OBVIOUS
  <2>3. v \in [0..Len(<<>>) -> Tales] /\ v[0] = b /\ v[Len(<<>>)] = c
        /\ \A i \in 1..Len(<<>>) : Turn(<<>>[i], m, v[i-1], v[i])
    BY <1>1, <2>1, <2>2
  <2>4. QED
    BY <2>3, Zenon DEF Story
<1>2. ASSUME Story(<<>>, m, b, c) PROVE b = c
  BY <1>2 DEF Story
<1>3. QED
  BY <1>1, <1>2

\* The first event is read.
LEMMA StoryTail ==
  ASSUME NEW X, NEW q \in Seq(X), q # <<>>, NEW m, NEW b \in Tales, NEW c \in Tales, Story(q, m, b, c)
  PROVE  \E d \in Tales : Turn(Head(q), m, b, d) /\ Story(Tail(q), m, d, c)
<1>1. PICK v \in [0..Len(q) -> Tales] :
        v[0] = b /\ v[Len(q)] = c /\ \A i \in 1..Len(q) : Turn(q[i], m, v[i-1], v[i])
  BY DEF Story
<1> DEFINE r == Tail(q)
           w == [i \in 0..Len(r) |-> v[i+1]]
<1>2. /\ Len(q) \in Nat \ {0} /\ Head(q) = q[1] /\ Len(r) \in Nat /\ Len(q) = Len(r) + 1
      /\ \A i \in 1..Len(r) : r[i] = q[i+1]
  OBVIOUS
<1> HIDE DEF r
<1>3. w \in [0..Len(r) -> Tales] /\ w[0] = v[1] /\ w[Len(r)] = c
  BY <1>1, <1>2
<1>4. ASSUME NEW i \in 1..Len(r) PROVE Turn(r[i], m, w[i-1], w[i])
  <2>1. i + 1 \in 1..Len(q) /\ w[i-1] = v[(i+1)-1] /\ w[i] = v[i+1] /\ r[i] = q[i+1]
    BY <1>2
  <2>2. Turn(q[i+1], m, v[(i+1)-1], v[i+1])
    BY <1>1, <2>1
  <2>3. QED
    BY <2>1, <2>2
<1> HIDE DEF w
<1>5. Story(r, m, v[1], c)
  BY <1>3, <1>4 DEF Story
<1>6. Turn(q[1], m, b, v[1]) /\ v[1] \in Tales
  <2>1. 1 \in 1..Len(q) /\ 1 - 1 = 0 /\ 1 \in 0..Len(q)
    BY <1>2
  <2>2. QED
    BY <1>1, <2>1
<1>7. QED
  BY <1>2, <1>5, <1>6 DEF r

\* One story goes on with another.
LEMMA StoryConcat ==
  ASSUME NEW X, NEW q \in Seq(X), NEW r \in Seq(X), NEW m, NEW b \in Tales, NEW c \in Tales,
         NEW d \in Tales, Story(q, m, b, c), Story(r, m, c, d)
  PROVE  Story(q \o r, m, b, d)
<1>1. PICK v \in [0..Len(q) -> Tales] :
        v[0] = b /\ v[Len(q)] = c /\ \A i \in 1..Len(q) : Turn(q[i], m, v[i-1], v[i])
  BY DEF Story
<1>2. PICK w \in [0..Len(r) -> Tales] :
        w[0] = c /\ w[Len(r)] = d /\ \A i \in 1..Len(r) : Turn(r[i], m, w[i-1], w[i])
  BY DEF Story
<1> DEFINE s == q \o r
           u == [i \in 0..Len(s) |-> IF i <= Len(q) THEN v[i] ELSE w[i - Len(q)]]
<1>3. /\ Len(q) \in Nat /\ Len(r) \in Nat /\ Len(s) = Len(q) + Len(r) /\ Len(s) \in Nat
      /\ \A i \in 1..Len(s) : s[i] = IF i <= Len(q) THEN q[i] ELSE r[i - Len(q)]
  OBVIOUS
<1> HIDE DEF s
<1>4. u \in [0..Len(s) -> Tales]
  BY <1>1, <1>2, <1>3
<1>5. u[0] = b /\ u[Len(s)] = d
  BY <1>1, <1>2, <1>3
<1>6. ASSUME NEW i \in 1..Len(s) PROVE Turn(s[i], m, u[i-1], u[i])
  <2>1. CASE i <= Len(q)
    <3>1. i \in 1..Len(q) /\ s[i] = q[i] /\ u[i] = v[i] /\ u[i-1] = v[i-1]
      BY <1>3, <2>1
    <3>2. QED
      BY <1>1, <3>1
  <2>2. CASE ~(i <= Len(q))
    <3>1. i - Len(q) \in 1..Len(r) /\ s[i] = r[i - Len(q)] /\ u[i] = w[i - Len(q)]
      BY <1>3, <2>2
    <3>2. u[i-1] = w[(i - Len(q)) - 1]
      <4>1. i - 1 \in 0..Len(s) /\ u[i-1] = IF i - 1 <= Len(q) THEN v[i-1] ELSE w[(i-1) - Len(q)]
        BY <1>3
      <4>2. CASE i = Len(q) + 1
        <5>1. i - 1 = Len(q) /\ (i - Len(q)) - 1 = 0
          BY <1>3, <4>2
        <5>2. QED
          BY <1>1, <1>2, <1>3, <4>1, <5>1
      <4>3. CASE i # Len(q) + 1
        <5>1. ~(i - 1 <= Len(q)) /\ (i - Len(q)) - 1 = (i-1) - Len(q)
          BY <1>3, <2>2, <4>3
        <5>2. QED
          BY <4>1, <5>1
      <4>4. QED
        BY <4>2, <4>3
    <3>3. QED
      BY <1>2, <3>1, <3>2
  <2>3. QED
    BY <2>1, <2>2
<1> HIDE DEF u
<1>7. QED
  BY <1>4, <1>5, <1>6 DEF Story, s

\* An event that tells of no station, or of one.
LEMMA StoryOne ==
  ASSUME NEW ev, NEW m, NEW b \in Tales, NEW c \in Tales, Turn(ev, m, b, c)
  PROVE  Story(<<ev>>, m, b, c)
<1> DEFINE v == [i \in 0..1 |-> IF i = 0 THEN b ELSE c]
<1>1. Len(<<ev>>) = 1 /\ <<ev>>[1] = ev
  OBVIOUS
<1>2. v \in [0..1 -> Tales] /\ v[0] = b /\ v[1] = c
  OBVIOUS
<1> HIDE DEF v
<1>3. ASSUME NEW i \in 1..1 PROVE Turn(<<ev>>[i], m, v[i-1], v[i])
  <2>1. i = 1 /\ i - 1 = 0
    OBVIOUS
  <2>2. Turn(<<ev>>[1], m, v[0], v[1])
    BY <1>1, <1>2, Zenon
  <2>3. QED
    BY <2>1, <2>2
<1>4. QED
  BY <1>1, <1>2, <1>3 DEF Story

\* The farewell of the stations ms tells that each of them is gone.
LEMMA ByeFacts ==
  ASSUME NEW M, NEW ms, IsFiniteSet(ms), ms \subseteq M, NEW bye, bye \in Goodbyes \/ ms = {}
  PROVE  /\ Bye(ms, bye) \in Seq([kind : Events, mac : M])
         /\ \A m \in ms : Story(Bye(ms, bye), m, "up", "down")
         /\ \A m, b : b \in Tales /\ m \notin ms => Story(Bye(ms, bye), m, b, b)
<1> DEFINE s == SetToSeq(ms)
           n == Len(s)
           q == Bye(ms, bye)
<1>1. /\ s \in Seq(ms) /\ n \in Nat /\ n = Cardinality(ms)
      /\ \A i, j \in 1..n : s[i] = s[j] => i = j
      /\ \A m \in ms : \E i \in 1..n : s[i] = m
  BY SetToSeqFacts
<1>2. q = [k \in 1..(2 * n) |-> Ev(bye[IF k % 2 = 1 THEN 1 ELSE 2], s[(k + 1) \div 2])]
  BY Zenon DEF Bye
<1>3. \A i \in 1..n : s[i] \in ms
  BY <1>1
<1> HIDE DEF s, n, q
<1>4. CASE ms = {}
  <2>1. n = 0
    BY <1>1, <1>4, FS_EmptySet
  <2>2. q = <<>>
    BY <1>2, <2>1
  <2>3. q \in Seq([kind : Events, mac : M])
    BY <2>2
  <2>4. \A m, b : b \in Tales => Story(q, m, b, b)
    BY <2>2, StoryEmpty
  <2>5. QED
    BY <1>4, <2>3, <2>4 DEF q
<1>5. CASE bye \in Goodbyes
  <2> DEFINE d == IF bye[1] = "DISCONNECTED" THEN 1 ELSE 2
             one(k) == IF k % 2 = 1 THEN 1 ELSE 2
             at(k) == (k + 1) \div 2
  <2>1. \A x \in {1, 2} : bye[x] \in Events /\ (bye[x] = "DISCONNECTED" <=> x = d)
                          /\ bye[x] # "CONNECTED"
    BY <1>5 DEF Goodbyes, Events
  <2>2. \A k \in 1..(2 * n) : one(k) \in {1, 2} /\ at(k) \in 1..n
                              /\ k = IF one(k) = 1 THEN 2 * at(k) - 1 ELSE 2 * at(k)
    BY <1>1
  <2>3. \A k \in 1..(2 * n) : q[k] = Ev(bye[one(k)], s[at(k)])
    BY <1>2
  <2>4. d \in {1, 2}
    OBVIOUS
  <2> HIDE DEF d, one, at
  <2>5. ASSUME NEW k \in 1..(2 * n)
        PROVE  /\ q[k] \in [kind : Events, mac : M] /\ q[k].mac = s[at(k)]
               /\ \A m : Tells(q[k], m) <=> s[at(k)] = m /\ one(k) = d
               /\ one(k) = d => Tale(q[k]) = "down"
    <3>1. q[k].kind = bye[one(k)] /\ q[k].mac = s[at(k)] /\ bye[one(k)] \in Events /\ s[at(k)] \in M
          /\ q[k] = [kind |-> bye[one(k)], mac |-> s[at(k)]]
      BY <1>3, <2>1, <2>2, <2>3 DEF Ev
    <3>2. q[k] \in [kind : Events, mac : M]
      BY <3>1
    <3>3. bye[one(k)] = "DISCONNECTED" <=> one(k) = d
      BY <2>1, <2>2
    <3>4. bye[one(k)] # "CONNECTED"
      BY <2>1, <2>2
    <3>5. \A m : Tells(q[k], m) <=> s[at(k)] = m /\ one(k) = d
      BY <3>1, <3>3, <3>4 DEF Tells
    <3>6. one(k) = d => Tale(q[k]) = "down"
      BY <3>1, <3>3 DEF Tale
    <3>7. QED
      BY <3>1, <3>2, <3>5, <3>6
  <2>6. 2 * n \in Nat /\ q \in Seq([kind : Events, mac : M]) /\ Len(q) = 2 * n
    <3> DEFINE N == 2 * n
               E == [kind : Events, mac : M]
               X(k) == Ev(bye[IF k % 2 = 1 THEN 1 ELSE 2], s[(k + 1) \div 2])
    <3>1. N \in Nat
      BY <1>1
    <3>2. q = [k \in 1..N |-> X(k)]
      BY <1>2
    <3>3. \A k \in 1..N : X(k) \in E
      <4>1. \A k \in 1..N : q[k] = X(k)
        BY <3>2
      <4>2. \A k \in 1..N : q[k] \in E
        BY <2>5
      <4> HIDE DEF X, E
      <4>3. QED
        BY <4>1, <4>2
    <3> HIDE DEF N, E, X
    <3>4. q \in Seq(E) /\ Len(q) = N
      BY <3>1, <3>2, <3>3
    <3>5. QED
      BY <3>1, <3>4 DEF N, E
  <2>7. ASSUME NEW m, NEW b \in Tales, m \notin ms PROVE Story(q, m, b, b)
    <3> DEFINE v == [i \in 0..Len(q) |-> b]
    <3>1. v \in [0..Len(q) -> Tales] /\ v[0] = b /\ v[Len(q)] = b
      BY <2>6
    <3>2. ASSUME NEW i \in 1..Len(q) PROVE Turn(q[i], m, v[i-1], v[i])
      <4>1. v[i-1] = b /\ v[i] = b
        BY <2>6
      <4>2. ~Tells(q[i], m)
        BY <1>3, <2>2, <2>5, <2>6, <2>7
      <4> HIDE DEF v
      <4>3. QED
        BY <4>1, <4>2 DEF Turn
    <3> HIDE DEF v
    <3>3. QED
      BY <3>1, <3>2 DEF Story
  <2>8. ASSUME NEW m \in ms PROVE Story(q, m, "up", "down")
    <3>1. PICK j \in 1..n : s[j] = m
      BY <1>1
    <3> DEFINE pos == IF d = 1 THEN 2 * j - 1 ELSE 2 * j
               v == [i \in 0..Len(q) |-> IF i < pos THEN "up" ELSE "down"]
    <3>2. pos \in 1..Len(q)
      BY <1>1, <2>6
    <3>3. v \in [0..Len(q) -> Tales] /\ v[0] = "up" /\ v[Len(q)] = "down"
      BY <2>6, <3>2 DEF Tales
    <3>4. ASSUME NEW i \in 1..Len(q) PROVE Turn(q[i], m, v[i-1], v[i])
      <4>1. i \in Nat /\ pos \in Nat /\ i - 1 \in 0..Len(q) /\ i \in 0..Len(q)
        BY <2>6, <3>2
      <4>2. v[i-1] = (IF i - 1 < pos THEN "up" ELSE "down") /\ v[i] = IF i < pos THEN "up" ELSE "down"
        BY <4>1
      <4>3. Tells(q[i], m) <=> i = pos
        <5>1. Tells(q[i], m) <=> at(i) = j /\ one(i) = d
          BY <1>1, <2>2, <2>5, <2>6, <3>1
        <5>2. i = (IF one(i) = 1 THEN 2 * at(i) - 1 ELSE 2 * at(i)) /\ one(i) \in {1, 2} /\ at(i) \in Nat
          BY <1>1, <2>2, <2>6
        <5>3. QED
          BY <1>1, <2>4, <5>1, <5>2, SMTT(30)
      <4>4. i = pos => Tale(q[i]) = "down"
        BY <2>5, <2>6, <4>3
      <4> HIDE DEF pos, v
      <4>5. CASE i = pos
        <5>1. v[i-1] = "up" /\ v[i] = "down"
          BY <4>1, <4>2, <4>5
        <5>2. QED
          BY <4>3, <4>4, <4>5, <5>1 DEF Turn
      <4>6. CASE i # pos
        <5>1. v[i-1] = v[i]
          BY <4>1, <4>2, <4>6
        <5>2. QED
          BY <4>3, <4>6, <5>1 DEF Turn
      <4>7. QED
        BY <4>5, <4>6
    <3> HIDE DEF v
    <3>5. QED
      BY <3>3, <3>4 DEF Story
  <2>9. QED
    BY <2>6, <2>7, <2>8 DEF q
<1>6. QED
  BY <1>4, <1>5

\* What is told of a station after a step of pwhm, which saw to it that who is
\* not authenticated any more, or not again, was cut.
LEMMA ToldStill ==
  ASSUME NEW X, NEW q \in Seq([kind : Events, mac : X]), NEW m, NEW l, NEW C, NEW k, NEW D, NEW s,
         Told(q, m, l, C, s),
         m \in Auth(l) => m \in Auth(k) \/ m \in D,
         m \in C => m \in D \/ m \in Auth(k),
         m \in Auth(k) => m \in Auth(l) \/ s = "auth"
  PROVE  Told(q, m, k, D, s)
<1>1. PICK b \in Tales :
        /\ Story(q, m, b, Now(s))
        /\ b = "up" /\ m \notin C => m \in Auth(l)
        /\ b = "down" /\ m \in Auth(l) => ToCome(q, m)
  BY DEF Told
<1>2. b = "up" /\ m \notin D => m \in Auth(k)
  BY <1>1
<1>3. ASSUME b = "down", m \in Auth(k) PROVE ToCome(q, m)
  <2>1. CASE m \in Auth(l)
    BY <1>1, <1>3, <2>1
  <2>2. CASE s = "auth"
    <3>1. Story(q, m, "down", "up")
      BY <1>1, <1>3, <2>2 DEF Now
    <3>2. QED
      BY <3>1, StoryUp
  <2>3. QED
    BY <1>3, <2>1, <2>2
<1>4. QED
  BY <1>1, <1>2, <1>3 DEF Told

\* More is told of it.
LEMMA ToldOn ==
  ASSUME NEW X, NEW q \in Seq(X), NEW r \in Seq(X), NEW m, NEW l, NEW C, NEW s, NEW t,
         Told(q, m, l, C, s), Story(r, m, Now(s), Now(t))
  PROVE  Told(q \o r, m, l, C, t)
<1>1. PICK b \in Tales :
        /\ Story(q, m, b, Now(s))
        /\ b = "up" /\ m \notin C => m \in Auth(l)
        /\ b = "down" /\ m \in Auth(l) => ToCome(q, m)
  BY DEF Told
<1>2. Now(s) \in Tales /\ Now(t) \in Tales
  BY DEF Now, Tales
<1>3. Story(q \o r, m, b, Now(t))
  BY <1>1, <1>2, StoryConcat
<1>4. ToCome(q, m) => ToCome(q \o r, m)
  <2>1. Len(q) \in Nat /\ Len(r) \in Nat /\ Len(q \o r) = Len(q) + Len(r)
        /\ \A i \in 1..Len(q) : (q \o r)[i] = q[i]
    OBVIOUS
  <2>2. \A i \in 1..Len(q) : i \in 1..Len(q \o r)
    BY <2>1
  <2>3. QED
    BY <2>1, <2>2 DEF ToCome
<1>5. QED
  BY <1>1, <1>3, <1>4 DEF Told

\* The first event is read.
LEMMA ToldHead ==
  ASSUME NEW M, NEW q \in Seq([kind : Events, mac : M]), q # <<>>, NEW S, NEW T, NEW a,
         Heeds(S, T, a, Head(q)), NEW m, NEW s, Told(q, m, S.list[a], S.cut[a], s)
  PROVE  Told(Tail(q), m, T.list[a], T.cut[a], s)
<1> DEFINE ev == Head(q)
           r == Tail(q)
<1>1. /\ r \in Seq([kind : Events, mac : M]) /\ Len(r) \in Nat /\ Len(q) = Len(r) + 1
      /\ ev = q[1] /\ ev \in [kind : Events, mac : M] /\ \A i \in 1..Len(r) : r[i] = q[i+1]
  <2> DEFINE E == [kind : Events, mac : M]
  <2>1. q \in Seq(E)
    OBVIOUS
  <2> HIDE DEF E
  <2>2. /\ r \in Seq(E) /\ Len(r) \in Nat /\ Len(q) = Len(r) + 1
        /\ ev = q[1] /\ ev \in E /\ \A i \in 1..Len(r) : r[i] = q[i+1]
    BY <2>1
  <2>3. QED
    BY <2>2 DEF E
<1>2. PICK b \in Tales :
        /\ Story(q, m, b, Now(s))
        /\ b = "up" /\ m \notin S.cut[a] => m \in Auth(S.list[a])
        /\ b = "down" /\ m \in Auth(S.list[a]) => ToCome(q, m)
  BY DEF Told
<1>3. Now(s) \in Tales
  BY DEF Now, Tales
<1>4. PICK d \in Tales : Turn(ev, m, b, d) /\ Story(r, m, d, Now(s))
  BY <1>2, <1>3, StoryTail
<1>5. IF Tells(ev, m)
      THEN IF ev.kind = "CONNECTED" THEN m \in Auth(T.list[a]) \/ m \in T.cut[a]
           ELSE m \notin Auth(T.list[a])
      ELSE /\ m \in Auth(S.list[a]) => m \in Auth(T.list[a]) \/ m \in T.cut[a]
           /\ m \in S.cut[a] => m \in T.cut[a] \/ m \in Auth(T.list[a])
           /\ m \in Auth(T.list[a]) => m \in Auth(S.list[a])
  BY DEF Heeds
<1> HIDE DEF ev, r
<1>6. CASE Tells(ev, m)
  <2>1. d = Tale(ev)
    BY <1>4, <1>6 DEF Turn
  <2>2. d = "up" => m \in Auth(T.list[a]) \/ m \in T.cut[a]
    BY <1>5, <1>6, <2>1 DEF Tale
  <2>3. d = "down" => m \notin Auth(T.list[a])
    BY <1>5, <1>6, <2>1 DEF Tale
  <2>4. QED
    BY <1>4, <2>2, <2>3 DEF Told, r
<1>7. CASE ~Tells(ev, m)
  <2>1. d = b
    BY <1>4, <1>7 DEF Turn
  <2>2. d = "up" /\ m \notin T.cut[a] => m \in Auth(T.list[a])
    BY <1>2, <1>5, <1>7, <2>1
  <2>3. ToCome(q, m) => ToCome(r, m)
    <3>1. SUFFICES ASSUME NEW i \in 1..Len(q), q[i] = Ev("CONNECTED", m) PROVE ToCome(r, m)
      BY DEF ToCome
    <3>2. i # 1
      <4>1. Tells(Ev("CONNECTED", m), m)
        BY DEF Tells, Ev
      <4>2. QED
        BY <1>1, <1>7, <3>1, <4>1
    <3>3. i - 1 \in 1..Len(r) /\ r[i-1] = q[(i-1)+1] /\ (i-1)+1 = i
      BY <1>1, <3>2
    <3>4. QED
      BY <3>1, <3>3 DEF ToCome
  <2>4. d = "down" /\ m \in Auth(T.list[a]) => ToCome(r, m)
    BY <1>2, <1>5, <1>7, <2>1, <2>3
  <2>5. QED
    BY <1>4, <2>2, <2>4 DEF Told, r
<1>8. QED
  BY <1>6, <1>7

-----------------------------------------------------------------------------
(* Steps *)

\* What remains to be seen of a step after which the state of pwhm is T.
LEMMA Step ==
  ASSUME NEW T, Good(T), PwhmBecomes(T), \A a \in Aps : Tidy(T.list[a]), site \in Sites, site' = site,
         enabled' \in [Aps -> BOOLEAN], lost' \in [Aps -> BOOLEAN], \A a \in Aps : lost[a] => lost'[a],
         DOMAIN link' = Aps, DOMAIN queue' = Aps,
         \A a \in Aps : link'[a] \in [Stas[a] -> Links] /\ queue'[a] \in Seq([kind : Events, mac : Stas[a]]),
         \A a \in Aps : \A m \in Stas[a] :
           lost'[a] \/ Told(queue'[a], m, T.list[a], T.cut[a], link'[a][m])
  PROVE  IInv'
<1>1. /\ list' = T.list /\ nr' = T.nr /\ open' = T.open /\ sent' = T.sent /\ owed' = T.owed /\ cut' = T.cut
      /\ S0' = [list |-> T.list, nr |-> T.nr, open |-> T.open, sent |-> {}, owed |-> T.owed, cut |-> T.cut,
                kicks |-> {}]
      /\ Stas' = Stas
  BY DEF PwhmBecomes, S0, Stas
<1>2. T \in State
  BY DEF Good
<1>3. S0' \in State
  BY <1>1, <1>2 DEF State
<1>4. ASSUME NEW a \in Aps PROVE Fine(S0, a)'
  <2>1. Fine(T, a)
    BY DEF Good
  <2>2. S0.list'[a] = T.list[a] /\ S0.nr'[a] = T.nr[a] /\ S0.open'[a] = T.open[a]
        /\ S0.owed'[a] = T.owed[a] /\ S0.cut'[a] = T.cut[a]
    BY <1>1
  <2>3. QED
    BY <1>1, <2>1, <2>2 DEF Fine, FineBut
<1>5. ASSUME NEW n \in sent' PROVE Right(n)'
  <2>1. Right(n) /\ n.ap \in Aps
    BY <1>1, <1>2 DEF Good, State, Signals
  <2>2. QED
    BY <2>1 DEF Right
<1>6. Good(S0)'
  <2>1. S0'.sent = {}
    BY <1>1
  <2>2. QED
    BY <1>3, <1>4, <2>1 DEF Good
<1>7. Outside'
  BY <1>1 DEF Outside
<1>8. QED
  BY <1>1, <1>5, <1>6, <1>7 DEF IInv

\* What is told of the stations by the events Q under way, with the links L.
Said(T, Q, L) ==
  \A a \in Aps : \A m \in Stas[a] : lost[a] \/ Told(Q[a], m, T.list[a], T.cut[a], L[a][m])
Queues(Q) == \A a \in Aps : Q[a] \in Seq([kind : Events, mac : Stas[a]])
Gone(out, bye) == \A a \in Aps : out[a] \subseteq Stas[a] /\ (bye \in Goodbyes \/ out[a] = {})

\* hostapd loses stations, those that pwhm kicks or others.
LEMMA Dropped ==
  ASSUME Outside, NEW T, NEW Q, NEW out, NEW bye, HapdDrops(out, Q, bye),
         Queues(Q), Gone(out, bye),
         Said(T, Q, link)
  PROVE  /\ DOMAIN link' = Aps /\ DOMAIN queue' = Aps
         /\ \A a \in Aps : link'[a] \in [Stas[a] -> Links]
         /\ Queues(queue')
         /\ Said(T, queue', link')
<1>1. DOMAIN link' = Aps /\ DOMAIN queue' = Aps
  BY DEF HapdDrops
<1>2. ASSUME NEW a \in Aps
      PROVE  /\ link'[a] \in [Stas[a] -> Links] /\ queue'[a] \in Seq([kind : Events, mac : Stas[a]])
             /\ \A m \in Stas[a] : lost[a] \/ Told(queue'[a], m, T.list[a], T.cut[a], link'[a][m])
  <2> DEFINE ms == {m \in out[a] : link[a][m] = "auth"}
             B == Bye(ms, bye)
             E == [kind : Events, mac : Stas[a]]
  <2>1. /\ link'[a] = [m \in Stas[a] |-> IF m \in out[a] THEN "none" ELSE link[a][m]]
        /\ queue'[a] = Q[a] \o B
    BY DEF HapdDrops
  <2>2. link[a] \in [Stas[a] -> Links] /\ site \in Sites
    BY DEF Outside
  <2>3. link'[a] \in [Stas[a] -> Links]
    BY <2>1, <2>2 DEF Links
  <2>4. IsFiniteSet(ms) /\ ms \subseteq Stas[a]
    <3>1. IsFiniteSet(Stas[a])
      BY <2>2, ConstantsAssumption DEF Stas
    <3>2. ms \subseteq Stas[a]
      BY DEF Gone
    <3>3. QED
      BY <3>1, <3>2, FS_Subset
  <2>5. bye \in Goodbyes \/ ms = {}
    BY DEF Gone
  <2> HIDE DEF B
  <2>6. /\ B \in Seq(E)
        /\ \A m \in ms : Story(B, m, "up", "down")
        /\ \A m, b : b \in Tales /\ m \notin ms => Story(B, m, b, b)
    <3> HIDE DEF ms
    <3>1. QED
      BY <2>4, <2>5, ByeFacts DEF B
  <2>7. Q[a] \in Seq(E)
    BY DEF Queues
  <2>8. ASSUME NEW m \in Stas[a] PROVE lost[a] \/ Told(queue'[a], m, T.list[a], T.cut[a], link'[a][m])
    <3>1. SUFFICES ASSUME ~lost[a] PROVE Told(queue'[a], m, T.list[a], T.cut[a], link'[a][m])
      OBVIOUS
    <3>2. Told(Q[a], m, T.list[a], T.cut[a], link[a][m])
      BY <3>1 DEF Said
    <3>3. link'[a][m] = IF m \in out[a] THEN "none" ELSE link[a][m]
      BY <2>1
    <3>4. Story(B, m, Now(link[a][m]), Now(link'[a][m]))
      <4>1. CASE m \in ms
        <5>1. link[a][m] = "auth" /\ link'[a][m] = "none"
          BY <3>3, <4>1
        <5>2. Now(link[a][m]) = "up" /\ Now(link'[a][m]) = "down"
          BY <5>1 DEF Now
        <5>3. QED
          BY <2>6, <4>1, <5>2
      <4>2. CASE m \notin ms
        <5>1. Now(link[a][m]) = Now(link'[a][m]) /\ Now(link[a][m]) \in Tales
          BY <3>3, <4>2 DEF Now, Tales
        <5>2. QED
          BY <2>6, <4>2, <5>1
      <4>3. QED
        BY <4>1, <4>2
    <3> HIDE DEF E
    <3>5. Told(Q[a] \o B, m, T.list[a], T.cut[a], link'[a][m])
      BY <2>6, <2>7, <3>2, <3>4, ToldOn
    <3>6. QED
      BY <2>1, <3>5
  <2>9. Q[a] \o B \in Seq(E)
    <3> HIDE DEF E
    <3>1. QED
      BY <2>6, <2>7
  <2>10. QED
    BY <2>1, <2>3, <2>8, <2>9
<1>3. QED
  BY <1>1, <1>2 DEF Said, Queues

\* pwhm comes to the state T, and hostapd loses stations.
LEMMA Comes ==
  ASSUME IInv, NEW T, Good(T), \A a \in Aps : Tidy(T.list[a]), PwhmBecomes(T),
         NEW Q, NEW out, NEW bye, HapdDrops(out, Q, bye),
         Queues(Q), Gone(out, bye),
         Said(T, Q, link),
         site' = site, lost' = lost, enabled' \in [Aps -> BOOLEAN]
  PROVE  IInv'
<1>1. Outside /\ site \in Sites /\ lost' \in [Aps -> BOOLEAN]
  BY DEF IInv, Outside
<1>2. /\ DOMAIN link' = Aps /\ DOMAIN queue' = Aps
      /\ \A a \in Aps : link'[a] \in [Stas[a] -> Links]
      /\ Queues(queue')
      /\ Said(T, queue', link')
  BY <1>1, Dropped
<1>3. QED
  BY <1>1, <1>2, Step DEF Said, Queues

\* pwhm comes to the state T and has stations kicked.
LEMMA Kicks ==
  ASSUME IInv, NEW T, Good(T), \A a \in Aps : Tidy(T.list[a]),
         NEW Q, Queues(Q), Becomes(T, Q),
         Said(T, Q, link),
         site' = site, UNCHANGED <<enabled, lost, left>>
  PROVE  IInv'
<1> DEFINE out == [a \in Aps |-> {m \in Stas[a] : <<a, m>> \in T.kicks}]
<1>1. PICK bye \in IF T.kicks = {} THEN {<<>>} ELSE Goodbyes : HapdDrops(out, Q, bye)
  BY Zenon DEF Becomes
<1>2. Gone(out, bye)
  BY <1>1 DEF Gone
<1>3. PwhmBecomes(T) /\ enabled' \in [Aps -> BOOLEAN] /\ lost' = lost
  BY DEF Becomes, IInv, Outside
<1> HIDE DEF out
<1>4. QED
  BY <1>1, <1>2, <1>3, Comes

LEMMA Before ==
  ASSUME IInv
  PROVE  /\ S0.list = list /\ S0.nr = nr /\ S0.open = open /\ S0.owed = owed /\ S0.cut = cut
         /\ S0.sent = {} /\ S0.kicks = {}
         /\ Good(S0) /\ Outside /\ site \in Sites /\ \A a \in Aps : Tidy(S0.list[a])
         /\ Said(S0, queue, link) /\ Queues(queue)
<1>1. S0.list = list /\ S0.nr = nr /\ S0.open = open /\ S0.owed = owed /\ S0.cut = cut
      /\ S0.sent = {} /\ S0.kicks = {}
  BY DEF S0
<1>2. Good(S0) /\ Outside /\ site \in Sites /\ \A a \in Aps : Tidy(S0.list[a])
  BY <1>1 DEF IInv, Outside
<1>3. Said(S0, queue, link)
  BY <1>1, Zenon DEF IInv, Said
<1>4. Queues(queue)
  BY <1>2 DEF Outside, Queues
<1>5. QED
  BY <1>1, <1>2, <1>3, <1>4

\* The stations that have an age.
Known(a) == Present(a) \cup UNION {MacsOf(list[b]) : b \in Aps}

LEMMA AgesRanked ==
  ASSUME IInv, NEW a \in Aps, NEW p \in Ages(a)
  PROVE  AllRanked(S0, p) /\ Ranked(Known(a), p) /\ Present(a) \subseteq Known(a)
         /\ MacsOf(S0.list[a]) \subseteq Known(a)
<1> DEFINE M == Known(a)
<1>1. p \in Orders(M)
  BY Zenon DEF Ages, Known
<1>2. p \in [M -> 1..Cardinality(M)] /\ \A m, n \in M : p[m] = p[n] => m = n
  BY <1>1 DEF Orders, IsInjective
<1>3. \A i \in 1..Cardinality(M) : i \in Nat
  OBVIOUS
<1> HIDE DEF M
<1>4. Ranked(M, p)
  BY <1>2, <1>3 DEF Ranked
<1>5. Present(a) \subseteq M /\ \A b \in Aps : MacsOf(S0.list[b]) \subseteq M
  BY Before, Zenon DEF M, Known
<1>6. AllRanked(S0, p)
  BY <1>4, <1>5 DEF AllRanked, Ranked
<1>7. QED
  BY <1>4, <1>5, <1>6 DEF M

LEMMA FastBoolean ==
  ASSUME IInv, NEW a \in Aps
  PROVE  Fast(a) \subseteq BOOLEAN
<1>1. list[a] \in Lists
  BY Before, FineFacts
<1>2. Range(list[a]) \in SUBSET Entries
  BY <1>1, ListFacts
<1>3. \A e \in Range(list[a]) : e.framed \in BOOLEAN
  BY <1>2 DEF Entries
<1>4. QED
  BY <1>3 DEF Fast

\* A step of pwhm at a that follows what is told changes nothing in that.
LEMMA SaidStill ==
  ASSUME NEW S, NEW T, NEW a \in Aps, Follows(S, T, a, Up(a)), Queues(queue), Said(S, queue, link)
  PROVE  Said(T, queue, link)
<1>1. ASSUME NEW b \in Aps, NEW m \in Stas[b], ~lost[b]
      PROVE  Told(queue[b], m, T.list[b], T.cut[b], link[b][m])
  <2> DEFINE q == queue[b]
             X == Stas[b]
             l == S.list[b]
             C == S.cut[b]
             k == T.list[b]
             D == T.cut[b]
             s == link[b][m]
  <2>1. q \in Seq([kind : Events, mac : X]) /\ Told(q, m, l, C, s)
    BY <1>1, Zenon DEF Queues, Said
  <2>2. /\ m \in Auth(l) => m \in Auth(k) \/ m \in D
        /\ m \in C => m \in D \/ m \in Auth(k)
        /\ m \in Auth(k) => m \in Auth(l) \/ s = "auth"
    <3>1. CASE b = a
      BY <3>1 DEF Follows, Up
    <3>2. CASE b # a
      BY <3>2 DEF Follows, Apart
    <3>3. QED
      BY <3>1, <3>2
  <2> HIDE DEF q, X, l, C, k, D, s
  <2>3. Told(q, m, k, D, s)
    BY <2>1, <2>2, ToldStill
  <2>4. QED
    BY <2>3 DEF q, k, D, s
<1>2. QED
  BY <1>1, Zenon DEF Said

LEMMA TidyApart ==
  ASSUME NEW S, NEW T, NEW a \in Aps, Apart(S, T, a), Tidy(T.list[a]), \A b \in Aps : Tidy(S.list[b])
  PROVE  \A b \in Aps : Tidy(T.list[b])
BY Zenon DEF Apart

\* What pwhm makes of the event that it reads.
LEMMA HandleEventStep ==
  ASSUME IInv, NEW a \in Aps, HandleEvent(a), UNCHANGED site
  PROVE  IInv'
<1> DEFINE ev == Head(queue[a])
           Q == [queue EXCEPT ![a] = Tail(@)]
           X == [kind : Events, mac : Stas[a]]
<1>1. queue[a] # <<>> /\ UNCHANGED <<enabled, lost, left>>
  BY DEF HandleEvent
<1>2. PICK fast \in Fast(a), p \in Ages(a) : Becomes(Handled(S0, a, ev, fast, p), Q)
  <2> DEFINE H(f, o) == Handled(S0, a, ev, f, o)
  <2>1. \E S \in {H(f, o) : f \in Fast(a), o \in Ages(a)} : Becomes(S, Q)
    BY DEF HandleEvent
  <2> HIDE DEF H, Q
  <2>2. \E f \in Fast(a), o \in Ages(a) : Becomes(H(f, o), Q)
    BY <2>1
  <2>3. QED
    BY <2>2 DEF H
<1> DEFINE T == Handled(S0, a, ev, fast, p)
<1>3. queue[a] \in Seq(X) /\ ev \in X /\ Tail(queue[a]) \in Seq(X)
  <2>1. queue[a] \in Seq(X)
    BY Before DEF Queues
  <2> HIDE DEF X
  <2>2. QED
    BY <1>1, <2>1
<1>4. ev.kind = "DISCONNECTED" => lost[a] \/ ev.mac \in S0.cut[a] \/ ev.mac \in Auth(S0.list[a])
  <2>1. SUFFICES ASSUME ev.kind = "DISCONNECTED", ~lost[a]
                 PROVE  ev.mac \in S0.cut[a] \/ ev.mac \in Auth(S0.list[a])
    OBVIOUS
  <2> DEFINE m == ev.mac
  <2>2. m \in Stas[a]
    BY <1>3
  <2>3. Told(queue[a], m, S0.list[a], S0.cut[a], link[a][m])
    BY <2>1, <2>2, Before, Zenon DEF Said
  <2>4. PICK b \in Tales :
          /\ Story(queue[a], m, b, Now(link[a][m]))
          /\ b = "up" /\ m \notin S0.cut[a] => m \in Auth(S0.list[a])
    BY <2>3, Zenon DEF Told
  <2>5. Now(link[a][m]) \in Tales
    BY DEF Now, Tales
  <2>6. PICK d \in Tales : Turn(ev, m, b, d)
    BY <1>1, <1>3, <2>4, <2>5, StoryTail
  <2>7. Tells(ev, m) /\ Tale(ev) = "down"
    BY <2>1 DEF Tells, Tale
  <2>8. b # "down" /\ b \in Tales
    BY <2>6, <2>7 DEF Turn
  <2>9. QED
    BY <2>4, <2>8 DEF Tales
<1>5. Heeds(S0, T, a, ev)
  <2>1. AllRanked(S0, p) /\ fast \in BOOLEAN /\ Tidy(S0.list[a]) /\ site \in Sites /\ Good(S0)
    BY AgesRanked, FastBoolean, Before
  <2> HIDE DEF ev
  <2>2. QED
    BY <1>3, <1>4, <2>1, HandledGood
<1>6. Good(T) /\ Apart(S0, T, a) /\ \A b \in Aps : Tidy(T.list[b])
  <2> HIDE DEF T, ev
  <2>1. Good(T) /\ Apart(S0, T, a) /\ Tidy(T.list[a])
    BY <1>5 DEF Heeds
  <2>2. QED
    BY <2>1, TidyApart, Before
<1>7. DOMAIN queue = Aps /\ Queues(queue) /\ Said(S0, queue, link)
  BY Before DEF Outside
<1>8. \A b \in Aps : Q[b] = IF b = a THEN Tail(queue[a]) ELSE queue[b]
  BY <1>7
<1>9. Becomes(T, Q)
  BY <1>2
<1> HIDE DEF T, Q, ev
<1>10. Queues(Q)
  BY <1>3, <1>7, <1>8 DEF Queues
<1>11. Said(T, Q, link)
  <2>1. ASSUME NEW b \in Aps, NEW m \in Stas[b], ~lost[b]
        PROVE  Told(Q[b], m, T.list[b], T.cut[b], link[b][m])
    <3>1. Told(queue[b], m, S0.list[b], S0.cut[b], link[b][m])
      BY <1>7, <2>1, Zenon DEF Said
    <3>2. CASE b = a
      <4>1. Told(Tail(queue[a]), m, T.list[a], T.cut[a], link[a][m])
        BY <1>1, <1>3, <1>5, <3>1, <3>2, ToldHead DEF ev
      <4>2. QED
        BY <1>8, <3>2, <4>1
    <3>3. CASE b # a
      <4> DEFINE q == queue[b]
                 E == Stas[b]
                 l == S0.list[b]
                 C == S0.cut[b]
                 k == T.list[b]
                 D == T.cut[b]
                 s == link[b][m]
      <4>1. q \in Seq([kind : Events, mac : E]) /\ Told(q, m, l, C, s)
        BY <1>7, <3>1 DEF Queues
      <4>2. Auth(k) = Auth(l) /\ D = C
        BY <1>6, <3>3, Zenon DEF Apart
      <4> HIDE DEF q, E, l, C, k, D, s
      <4>3. Told(q, m, k, D, s)
        BY <4>1, <4>2, ToldStill
      <4>4. QED
        BY <1>8, <3>3, <4>3 DEF q, k, D, s
    <3>4. QED
      BY <3>2, <3>3
  <2>2. QED
    BY <2>1, Zenon DEF Said
<1>12. QED
  BY <1>1, <1>6, <1>9, <1>10, <1>11, Kicks

\* The time of a notification comes.
LEMMA DelayExpiresStep ==
  ASSUME IInv, NEW a \in Aps, NEW m, DelayExpires(a, m), UNCHANGED site
  PROVE  IInv'
<1>1. m \in MacsOf(list[a]) /\ Entry(list[a], m).delayed /\ UNCHANGED <<enabled, lost, left>>
  BY DEF DelayExpires
<1>2. PICK p \in Ages(a) : Becomes(Notify(S0, a, m, p), queue)
  BY DEF DelayExpires
<1> DEFINE T == Notify(S0, a, m, p)
<1>3. m \in Delayed(S0.list[a])
  <2>1. list[a] \in Lists /\ S0.list = list
    BY Before, FineFacts
  <2>2. QED
    BY <1>1, <2>1, Flags
<1>4. Ranked(MacsOf(S0.list[a]), p)
  BY AgesRanked DEF AllRanked
<1>5. /\ Good(T) /\ Elsewhere(S0, T, a) /\ Tidy(T.list[a])
      /\ Auth(T.list[a]) = Auth(S0.list[a]) /\ T.cut[a] = S0.cut[a]
  BY <1>3, <1>4, Before, NotifyGood
<1>6. Becomes(T, queue)
  BY <1>2
<1> HIDE DEF T
<1>7. Follows(S0, T, a, Up(a))
  <2>1. Apart(S0, T, a)
    BY <1>5, ApartSame
  <2>2. QED
    BY <1>5, <2>1 DEF Follows
<1>8. Said(T, queue, link) /\ Queues(queue)
  BY <1>7, Before, SaidStill
<1>9. \A b \in Aps : Tidy(T.list[b])
  BY <1>5, <1>7, Before, TidyApart DEF Follows
<1>10. QED
  BY <1>1, <1>5, <1>6, <1>8, <1>9, Kicks

\* A state that a loop at a leads to.
LEMMA Reached ==
  ASSUME IInv, NEW a \in Aps, NEW M, NEW T \in Reach(S0, a, Up(a), M), Tidy(T.list[a])
  PROVE  Good(T) /\ (\A b \in Aps : Tidy(T.list[b])) /\ Said(T, queue, link) /\ Queues(queue)
<1>1. Good(T) /\ Follows(S0, T, a, Up(a))
  BY DEF Reach
<1>2. Said(T, queue, link) /\ Queues(queue)
  BY <1>1, Before, SaidStill
<1>3. \A b \in Aps : Tidy(T.list[b])
  BY <1>1, Before, TidyApart DEF Follows
<1>4. QED
  BY <1>1, <1>2, <1>3

\* The driver lists no more stations than there are at the access point.
LEMMA Listed ==
  ASSUME site \in Sites, NEW a \in Aps, NEW M, M \subseteq Present(a), NEW q \in Listings(M)
  PROVE  q \in Seq(Present(a))
<1>1. IsFiniteSet(Stas[a]) /\ M \subseteq Stas[a]
  BY ConstantsAssumption DEF Stas, Present
<1>2. IsFiniteSet(M)
  BY <1>1, FS_Subset
<1>3. Cardinality(M) \in Nat
  BY <1>2, FS_CardinalityType
<1>4. q \in [1..Cardinality(M) -> M]
  BY DEF Listings
<1>5. QED
  BY <1>3, <1>4

\* The list of the driver is read, and the data model is filled from it.
LEMMA ReadStationsStep ==
  ASSUME IInv, NEW a \in Aps, ReadStations(a), UNCHANGED site
  PROVE  IInv'
<1> DEFINE M == Present(a) \ MacsOf(list[a])
           R(fast, p, q) == Refreshed(S0, a, fast, p, q)
           D(T, p) == Reported(T, a, p)
<1>1. UNCHANGED <<enabled, lost, left>>
  BY DEF ReadStations
<1>2. PICK fast \in Fast(a), p \in Ages(a), q \in Listings(M) :
        \E T \in Readings(a, fast, p, q) : Becomes(T, queue)
  BY DEF ReadStations
<1>3. Readings(a, fast, p, q) = {R(fast, p, q), D(R(fast, p, q), p)}
  BY DEF Readings
<1>4. \E T \in {R(fast, p, q), D(R(fast, p, q), p)} : Becomes(T, queue)
  <2> HIDE DEF R, D, M
  <2>1. QED
    BY <1>2, <1>3
<1>5. site \in Sites /\ Good(S0) /\ Tidy(S0.list[a])
  BY Before
<1>6. AllRanked(S0, p) /\ Ranked(Known(a), p) /\ MacsOf(S0.list[a]) \subseteq Known(a)
      /\ Present(a) \subseteq Known(a)
  BY AgesRanked
<1>7. fast \in BOOLEAN /\ q \in Seq(Present(a))
  BY <1>5, FastBoolean, Listed
<1> DEFINE F == R(fast, p, q)
<1>8. F \in Reach(S0, a, Up(a), Known(a)) /\ Tidy(F.list[a])
  BY <1>5, <1>6, <1>7, RefreshedGood
<1> HIDE DEF F
<1>9. D(F, p) \in Reach(S0, a, Up(a), Known(a)) /\ Tidy(D(F, p).list[a])
  BY <1>5, <1>6, <1>8, ReportedGood
<1>10. PICK T \in {F, D(F, p)} : Becomes(T, queue)
  <2> HIDE DEF R, D, M
  <2>1. QED
    BY <1>4 DEF F
<1>11. T \in Reach(S0, a, Up(a), Known(a)) /\ Tidy(T.list[a])
  <2> HIDE DEF D
  <2>1. QED
    BY <1>8, <1>9
<1>12. Good(T) /\ (\A b \in Aps : Tidy(T.list[b])) /\ Said(T, queue, link) /\ Queues(queue)
  BY <1>11, Reached
<1>13. QED
  BY <1>1, <1>10, <1>12, Kicks

\* The radio is disabled: no entry of the access point stays active.
LEMMA DeauthAllRadStaStep ==
  ASSUME IInv, NEW a \in Aps, DeauthAllRadSta(a), UNCHANGED site
  PROVE  IInv' /\ Active(list'[a]) = {}
<1> DEFINE out == [b \in Aps |-> IF b = a THEN Stas[a] ELSE {}]
           R(p) == RemoveAll(S0, a, p)
<1>1. enabled' = [enabled EXCEPT ![a] = FALSE] /\ lost' = lost
  BY DEF DeauthAllRadSta
<1>2. PICK p \in Ages(a) : PwhmBecomes(R(p))
  BY DEF DeauthAllRadSta
<1>3. PICK bye \in Goodbyes : HapdDrops(out, queue, bye)
  BY DEF DeauthAllRadSta
<1> DEFINE T == R(p)
<1>4. site \in Sites /\ Good(S0) /\ Ranked(Known(a), p) /\ MacsOf(S0.list[a]) \subseteq Known(a)
  BY Before, AgesRanked
<1>5. S0 \in Reach(S0, a, Up(a), Known(a))
  BY <1>4, ReachStart
<1>6. T \in Reach(S0, a, Up(a), Known(a)) /\ Tidy(T.list[a]) /\ Active(T.list[a]) = {}
  BY <1>4, <1>5, RemoveAllGood
<1>7. PwhmBecomes(T)
  BY <1>2
<1> HIDE DEF T, R
<1>8. Good(T) /\ (\A b \in Aps : Tidy(T.list[b])) /\ Said(T, queue, link) /\ Queues(queue)
  BY <1>6, Reached
<1>9. Gone(out, bye)
  BY DEF Gone
<1>10. enabled' \in [Aps -> BOOLEAN]
  BY <1>1, Before DEF Outside
<1> HIDE DEF out
<1>11. IInv'
  BY <1>1, <1>3, <1>7, <1>8, <1>9, <1>10, Comes
<1>12. list' = T.list
  BY <1>7 DEF PwhmBecomes
<1>13. QED
  BY <1>6, <1>11, <1>12

\* hostapd tells of a station that changes its state.
LEMMA Says ==
  ASSUME IInv, NEW a \in Aps, NEW m \in Stas[a], NEW k \in Events, NEW s \in Links,
         link' = [link EXCEPT ![a][m] = s], queue' = [queue EXCEPT ![a] = Append(@, Ev(k, m))],
         Turn(Ev(k, m), m, Now(link[a][m]), Now(s)),
         PwhmUnchanged, UNCHANGED <<site, lost, enabled>>
  PROVE  IInv'
<1> DEFINE X(b) == [kind : Events, mac : Stas[b]]
           ev == Ev(k, m)
<1>1. /\ Good(S0) /\ Outside /\ site \in Sites /\ \A b \in Aps : Tidy(S0.list[b])
      /\ Said(S0, queue, link) /\ Queues(queue) /\ S0.sent = {}
  BY Before
<1>2. PwhmBecomes(S0)
  BY Before DEF PwhmBecomes, PwhmUnchanged
<1>3. /\ DOMAIN link = Aps /\ DOMAIN queue = Aps
      /\ \A b \in Aps : link[b] \in [Stas[b] -> Links] /\ queue[b] \in Seq(X(b))
      /\ enabled \in [Aps -> BOOLEAN] /\ lost \in [Aps -> BOOLEAN]
  BY <1>1 DEF Outside
<1>4. ev \in X(a) /\ ev.mac = m
  BY DEF Ev
<1>5. DOMAIN link' = Aps /\ DOMAIN queue' = Aps
  BY <1>3
<1>6. ASSUME NEW b \in Aps
      PROVE  /\ link'[b] = IF b = a THEN [link[a] EXCEPT ![m] = s] ELSE link[b]
             /\ queue'[b] = IF b = a THEN queue[a] \o <<ev>> ELSE queue[b]
             /\ link'[b] \in [Stas[b] -> Links] /\ queue'[b] \in Seq(X(b))
  <2>1. link'[b] = (IF b = a THEN [link[a] EXCEPT ![m] = s] ELSE link[b])
        /\ queue'[b] = IF b = a THEN Append(queue[a], ev) ELSE queue[b]
    BY <1>3
  <2>2. queue[a] \in Seq(X(a))
    BY <1>3
  <2> HIDE DEF X, ev
  <2>3. Append(queue[a], ev) = queue[a] \o <<ev>> /\ Append(queue[a], ev) \in Seq(X(a))
    BY <1>4, <2>2
  <2>4. link'[b] \in [Stas[b] -> Links]
    BY <1>3, <2>1
  <2>5. QED
    BY <1>3, <2>1, <2>3, <2>4
<1>7. ASSUME NEW b \in Aps, NEW n \in Stas[b], ~lost[b]
      PROVE  Told(queue'[b], n, S0.list[b], S0.cut[b], link'[b][n])
  <2>1. Told(queue[b], n, S0.list[b], S0.cut[b], link[b][n])
    BY <1>1, <1>7, Zenon DEF Said
  <2>2. CASE b # a
    BY <1>6, <2>1, <2>2
  <2>3. CASE b = a
    <3>1. Story(<<ev>>, n, Now(link[a][n]), Now(link'[a][n]))
      <4>1. Now(link[a][n]) \in Tales /\ Now(link'[a][n]) \in Tales
        BY DEF Now, Tales
      <4>2. Turn(ev, n, Now(link[a][n]), Now(link'[a][n]))
        <5>1. CASE n = m
          BY <1>3, <1>6, <5>1
        <5>2. CASE n # m
          <6>1. link'[a][n] = link[a][n]
            BY <1>3, <1>6, <2>3, <5>2
          <6>2. ~Tells(ev, n)
            BY <1>4, <5>2 DEF Tells
          <6>3. QED
            BY <6>1, <6>2 DEF Turn
        <5>3. QED
          BY <5>1, <5>2
      <4> HIDE DEF ev
      <4>3. QED
        BY <4>1, <4>2, StoryOne
    <3>2. queue[a] \in Seq(X(a)) /\ <<ev>> \in Seq(X(a))
      <4>1. queue[a] \in Seq(X(a))
        BY <1>3
      <4> HIDE DEF X, ev
      <4>2. QED
        BY <1>4, <4>1
    <3> HIDE DEF X, ev
    <3>3. Told(queue[a] \o <<ev>>, n, S0.list[a], S0.cut[a], link'[a][n])
      BY <2>1, <2>3, <3>1, <3>2, ToldOn
    <3>4. QED
      BY <1>6, <2>3, <3>3
  <2>4. QED
    BY <2>2, <2>3
<1>8. \A b \in Aps : link'[b] \in [Stas[b] -> Links] /\ queue'[b] \in Seq([kind : Events, mac : Stas[b]])
  BY <1>6
<1>9. \A b \in Aps : \A n \in Stas[b] :
        lost'[b] \/ Told(queue'[b], n, S0.list[b], S0.cut[b], link'[b][n])
  BY <1>7
<1> HIDE DEF X, ev
<1>10. QED
  BY <1>1, <1>2, <1>3, <1>5, <1>8, <1>9, Step

\* hostapd loses the stations M of an access point.
LEMMA Loses ==
  ASSUME IInv, NEW a \in Aps, NEW M, M \subseteq Stas[a], NEW bye \in Goodbyes,
         HapdDrops([b \in Aps |-> IF b = a THEN M ELSE {}], queue, bye),
         PwhmUnchanged, UNCHANGED <<site, lost, enabled>>
  PROVE  IInv'
<1> DEFINE out == [b \in Aps |-> IF b = a THEN M ELSE {}]
<1>1. /\ Good(S0) /\ Outside /\ \A b \in Aps : Tidy(S0.list[b])
      /\ Said(S0, queue, link) /\ Queues(queue)
  BY Before
<1>2. PwhmBecomes(S0)
  BY Before DEF PwhmBecomes, PwhmUnchanged
<1>3. Gone(out, bye) /\ HapdDrops(out, queue, bye)
  BY DEF Gone
<1>4. enabled' \in [Aps -> BOOLEAN]
  BY <1>1 DEF Outside
<1> HIDE DEF out
<1>5. QED
  BY <1>1, <1>2, <1>3, <1>4, Comes

\* Nothing changes but who is enabled and which events were lost.
LEMMA Settings ==
  ASSUME IInv, NEW a \in Aps, PwhmUnchanged, link' = link, site' = site,
         Disable(a) \/ Enable(a) \/ LoseEvents(a)
  PROVE  IInv'
<1>1. /\ Good(S0) /\ Outside /\ site \in Sites /\ \A b \in Aps : Tidy(S0.list[b])
      /\ Said(S0, queue, link) /\ S0.sent = {}
  BY Before
<1>2. PwhmBecomes(S0)
  BY Before DEF PwhmBecomes, PwhmUnchanged
<1>3. /\ DOMAIN link = Aps /\ DOMAIN queue = Aps
      /\ \A b \in Aps : link[b] \in [Stas[b] -> Links]
                        /\ queue[b] \in Seq([kind : Events, mac : Stas[b]])
      /\ enabled \in [Aps -> BOOLEAN] /\ lost \in [Aps -> BOOLEAN]
  BY <1>1 DEF Outside
<1>4. CASE Disable(a) \/ Enable(a)
  <2>1. queue' = queue /\ lost' = lost /\ enabled' \in [Aps -> BOOLEAN]
    BY <1>3, <1>4 DEF Disable, Enable
  <2>2. \A b \in Aps : \A n \in Stas[b] :
          lost'[b] \/ Told(queue'[b], n, S0.list[b], S0.cut[b], link'[b][n])
    BY <1>1, <2>1, Zenon DEF Said
  <2>3. QED
    BY <1>1, <1>2, <1>3, <2>1, <2>2, Step
<1>5. CASE LoseEvents(a)
  <2>1. /\ queue' = [queue EXCEPT ![a] = <<>>] /\ lost' = [lost EXCEPT ![a] = TRUE]
        /\ enabled' = enabled
    BY <1>5 DEF LoseEvents
  <2>2. lost' \in [Aps -> BOOLEAN] /\ \A b \in Aps : (lost[b] => lost'[b]) /\ (b # a => lost'[b] = lost[b])
    BY <1>3, <2>1
  <2>3. DOMAIN queue' = Aps /\ lost'[a]
        /\ \A b \in Aps : queue'[b] = IF b = a THEN <<>> ELSE queue[b]
    BY <1>3, <2>1
  <2>4. \A b \in Aps : queue'[b] \in Seq([kind : Events, mac : Stas[b]])
    <3>1. ASSUME NEW b \in Aps, NEW X, queue[b] \in Seq(X) PROVE queue'[b] \in Seq(X)
      <4>1. queue'[b] = <<>> \/ queue'[b] = queue[b]
        BY <2>3
      <4>2. <<>> \in Seq(X)
        OBVIOUS
      <4>3. QED
        BY <3>1, <4>1, <4>2
    <3>2. QED
      BY <1>3, <3>1
  <2>5. \A b \in Aps : \A n \in Stas[b] :
          lost'[b] \/ Told(queue'[b], n, S0.list[b], S0.cut[b], link'[b][n])
    BY <1>1, <2>2, <2>3 DEF Said
  <2>6. QED
    BY <1>1, <1>2, <1>3, <2>1, <2>2, <2>3, <2>4, <2>5, Step
<1>6. QED
  BY <1>4, <1>5

LEMMA EnvStep ==
  ASSUME IInv, Env, UNCHANGED site
  PROVE  IInv'
<1>1. PICK a \in Used :
        \/ Disable(a) \/ Enable(a) \/ DropAll(a) \/ LoseEvents(a)
        \/ \E m \in Stas[a] : Associate(a, m) \/ Authorize(a, m) \/ Leave(a, m)
  BY DEF Env
<1>2. a \in Aps
  BY DEF Used
<1>3. ASSUME Disable(a) \/ Enable(a) \/ LoseEvents(a) PROVE IInv'
  <2>1. PwhmUnchanged /\ link' = link
    BY <1>3 DEF Disable, Enable, LoseEvents
  <2>2. QED
    BY <1>2, <1>3, <2>1, Settings
<1>4. ASSUME DropAll(a) PROVE IInv'
  BY <1>2, <1>4, Loses DEF DropAll
<1>5. ASSUME NEW m \in Stas[a], Leave(a, m) PROVE IInv'
  <2>1. {m} \subseteq Stas[a]
    OBVIOUS
  <2>2. QED
    BY <1>2, <1>5, <2>1, Loses DEF Leave
<1>6. ASSUME NEW m \in Stas[a], Associate(a, m) PROVE IInv'
  <2>1. "ASSOC" \in Events /\ "assoc" \in Links
    BY DEF Events, Links
  <2>2. Turn(Ev("ASSOC", m), m, Now(link[a][m]), Now("assoc"))
    BY <1>6 DEF Associate, Turn, Tells, Ev, Now
  <2>3. QED
    BY <1>2, <1>6, <2>1, <2>2, Says DEF Associate
<1>7. ASSUME NEW m \in Stas[a], Authorize(a, m) PROVE IInv'
  <2>1. "CONNECTED" \in Events /\ "auth" \in Links
    BY DEF Events, Links
  <2>2. Turn(Ev("CONNECTED", m), m, Now(link[a][m]), Now("auth"))
    BY <1>7 DEF Authorize, Turn, Tells, Tale, Ev, Now
  <2>3. QED
    BY <1>2, <1>7, <2>1, <2>2, Says DEF Authorize
<1>8. QED
  BY <1>1, <1>3, <1>4, <1>5, <1>6, <1>7

LEMMA PwhmStep ==
  ASSUME IInv, Pwhm, UNCHANGED site
  PROVE  IInv'
<1>1. PICK a \in Used :
        \/ HandleEvent(a) \/ ReadStations(a) \/ DeauthAllRadSta(a)
        \/ \E m \in Stas[a] : DelayExpires(a, m)
  BY DEF Pwhm
<1>2. a \in Aps
  BY DEF Used
<1>3. CASE HandleEvent(a)
  BY <1>2, <1>3, HandleEventStep
<1>4. CASE ReadStations(a)
  BY <1>2, <1>4, ReadStationsStep
<1>5. CASE DeauthAllRadSta(a)
  BY <1>2, <1>5, DeauthAllRadStaStep
<1>6. CASE \E m \in Stas[a] : DelayExpires(a, m)
  BY <1>2, <1>6, DelayExpiresStep
<1>7. QED
  BY <1>1, <1>3, <1>4, <1>5, <1>6

LEMMA Kept ==
  ASSUME IInv, [Next]_vars
  PROVE  IInv'
<1>1. CASE UNCHANGED vars
  <2>1. S0' = S0 /\ Stas' = Stas
    BY <1>1 DEF S0, Stas, vars
  <2>2. Outside'
    BY <1>1, <2>1 DEF IInv, Outside, vars
  <2>3. \A n : Right(n) => Right(n)'
    BY <1>1 DEF Right, vars
  <2>4. \A a \in Aps : Fine(S0, a)'
    BY <1>1, <2>1 DEF IInv, Good, Fine, FineBut, vars
  <2>5. Good(S0)'
    BY <2>1, <2>3, <2>4 DEF IInv, Good
  <2>6. \A a \in Aps : \A m \in Stas'[a] :
          lost'[a] \/ Told(queue'[a], m, list'[a], cut'[a], link'[a][m])
    BY <1>1, <2>1 DEF IInv, vars
  <2>7. (\A n \in sent' : Right(n)') /\ \A a \in Aps : Tidy(list'[a])
    BY <1>1, <2>3 DEF IInv, vars
  <2>8. QED
    BY <2>2, <2>5, <2>6, <2>7 DEF IInv
<1>2. CASE Next
  BY <1>2, PwhmStep, EnvStep DEF Next
<1>3. QED
  BY <1>1, <1>2

LEMMA Started ==
  ASSUME Init
  PROVE  IInv
<1> DEFINE l == <<>>
<1>1. /\ l \in Lists /\ Len(l) = 0 /\ DOMAIN l = {} /\ Range(l) = {} /\ MacsOf(l) = {}
      /\ Active(l) = {} /\ Auth(l) = {} /\ Delayed(l) = {} /\ Loose(l) = {}
  BY DEF Lists, Unique, Range, MacsOf, Active, Auth, Delayed, Loose, Idle
<1>2. Cardinality({}) = 0 /\ Sticky \in Nat /\ MaxEntries \in Nat
  BY FS_EmptySet, ConstantsAssumption DEF MaxEntries
<1>3. \A a \in Aps : list[a] = l /\ queue[a] = <<>> /\ nr[a] = 0 /\ open[a] = 0 /\ owed[a] = {}
                     /\ cut[a] = {} /\ \A m \in Stas[a] : link[a][m] = "none"
  BY DEF Init
<1> HIDE DEF l
<1>4. S0 \in State
  <2>1. /\ list \in [Aps -> Lists] /\ nr \in [Aps -> Nat] /\ open \in [Aps -> Int]
        /\ owed \in [Aps -> SUBSET Macs] /\ cut \in [Aps -> SUBSET Macs]
    BY <1>1 DEF Init, l
  <2>2. QED
    BY <2>1 DEF S0, State
<1>5. ASSUME NEW a \in Aps PROVE Fine(S0, a)
  <2>1. S0.list[a] = l /\ S0.nr[a] = 0 /\ S0.open[a] = 0 /\ S0.owed[a] = {} /\ S0.cut[a] = {}
    BY <1>3 DEF S0
  <2>2. Len(l) <= MaxEntries /\ MacsOf(l) \subseteq Stas[a] /\ Auth(l) \subseteq Active(l)
    BY <1>1, <1>2
  <2>3. Cardinality(Active(l)) = 0 /\ Cardinality(Auth(l)) = 0
    BY <1>1, <1>2
  <2>4. Framed(l, {}) /\ Delayed(l) = {}
    BY <1>1 DEF Framed
  <2>5. QED
    BY <2>1, <2>2, <2>3, <2>4 DEF Fine, FineBut
<1>6. Good(S0)
  <2>1. S0.sent = {}
    BY DEF S0
  <2>2. QED
    BY <1>4, <1>5, <2>1 DEF Good
<1>7. Outside
  BY DEF Init, Outside, Links
<1>8. ASSUME NEW m PROVE Told(<<>>, m, l, {}, "none")
  <2>1. Now("none") = "down" /\ "down" \in Tales
    BY DEF Now, Tales
  <2>2. Story(<<>>, m, "down", "down")
    BY <2>1, StoryEmpty
  <2>3. QED
    BY <1>1, <2>1, <2>2 DEF Told
<1>9. \A a \in Aps : \A m \in Stas[a] : lost[a] \/ Told(queue[a], m, list[a], cut[a], link[a][m])
  BY <1>3, <1>8
<1>10. \A a \in Aps : Tidy(list[a])
  <2>1. Cardinality(Loose(l)) = 0
    BY <1>1, <1>2
  <2>2. Tidy(l)
    BY <1>2, <2>1 DEF Tidy
  <2>3. QED
    BY <1>3, <2>2
<1>11. sent = {}
  BY DEF Init
<1>12. QED
  BY <1>6, <1>7, <1>9, <1>10, <1>11 DEF IInv

LEMMA Inductive == Spec => []IInv
<1>1. Init => IInv
  BY Started
<1>2. IInv /\ [Next]_vars => IInv'
  BY Kept
<1>3. QED
  BY <1>1, <1>2, PTL DEF Spec

-----------------------------------------------------------------------------
(* Theorems *)

LEMMA Types ==
  ASSUME IInv
  PROVE  TypeOK
<1>1. /\ S0.list = list /\ S0.nr = nr /\ S0.open = open /\ S0.owed = owed /\ S0.cut = cut
      /\ Good(S0) /\ Outside
  BY Before
<1>2. S0 \in State
  BY <1>1 DEF Good
<1>3. nr \in [Aps -> Nat] /\ open \in [Aps -> Int]
  BY <1>1, <1>2 DEF State
<1>4. enabled \in [Aps -> BOOLEAN] /\ lost \in [Aps -> BOOLEAN]
  BY <1>1 DEF Outside
<1>5. ASSUME NEW a \in Aps
      PROVE  /\ list[a] \in Seq([mac : Stas[a], active : BOOLEAN, auth : BOOLEAN, delayed : BOOLEAN,
                                 reason : Reasons, framed : BOOLEAN, fresh : BOOLEAN])
             /\ Cardinality(MacsOf(list[a])) = Len(list[a]) /\ Len(list[a]) <= MaxEntries
             /\ Auth(list[a]) \subseteq Active(list[a])
             /\ Cardinality({m \in Idle(list[a]) : ~Entry(list[a], m).delayed}) <= Sticky
             /\ link[a] \in [Stas[a] -> {"none", "assoc", "auth"}]
             /\ queue[a] \in Seq([kind : Events, mac : Stas[a]])
             /\ owed[a] \subseteq Stas[a] /\ cut[a] \subseteq Stas[a]
  <2> DEFINE l == list[a]
  <2>1. /\ l \in Lists /\ Len(l) <= MaxEntries /\ MacsOf(l) \subseteq Stas[a]
        /\ cut[a] \subseteq Stas[a] /\ Auth(l) \subseteq Active(l)
        /\ owed[a] \subseteq Delayed(l)
    BY <1>1, FineFacts
  <2>2. Tidy(l)
    BY DEF IInv
  <2>3. link[a] \in [Stas[a] -> {"none", "assoc", "auth"}]
        /\ queue[a] \in Seq([kind : Events, mac : Stas[a]])
    BY <1>1 DEF Outside, Links
  <2> HIDE DEF l
  <2>4. Cardinality(MacsOf(l)) = Len(l)
    BY <2>1, Numbers
  <2>5. \A m : m \in Delayed(l) <=> m \in MacsOf(l) /\ Entry(l, m).delayed
    BY <2>1, Flags
  <2>6. {m \in Idle(l) : ~Entry(l, m).delayed} = Loose(l)
    BY <2>5 DEF Loose, Idle
  <2>7. Delayed(l) \subseteq Stas[a]
    BY <2>1, <2>5
  <2>8. l \in Seq([mac : Stas[a], active : BOOLEAN, auth : BOOLEAN, delayed : BOOLEAN,
                   reason : Reasons, framed : BOOLEAN, fresh : BOOLEAN])
    <3> DEFINE E == [mac : Stas[a], active : BOOLEAN, auth : BOOLEAN, delayed : BOOLEAN,
                     reason : Reasons, framed : BOOLEAN, fresh : BOOLEAN]
    <3>1. l \in Seq(Entries) /\ Len(l) \in Nat
      BY <2>1 DEF Lists
    <3>2. ASSUME NEW i \in 1..Len(l) PROVE l[i] \in E
      <4>1. l[i] \in Entries
        BY <3>1
      <4>2. l[i].mac \in Stas[a]
        BY <2>1, <3>1 DEF MacsOf
      <4>3. QED
        BY <4>1, <4>2 DEF Entries
    <3>3. l = [i \in 1..Len(l) |-> l[i]]
      BY <3>1
    <3> HIDE DEF E
    <3>4. l \in [1..Len(l) -> E]
      BY <3>2, <3>3
    <3>5. l \in Seq(E)
      BY <3>1, <3>4
    <3>6. QED
      BY <3>5 DEF E
  <2>9. QED
    BY <2>1, <2>2, <2>3, <2>4, <2>6, <2>7, <2>8 DEF l, Tidy
<1>6. QED
  BY <1>3, <1>4, <1>5 DEF TypeOK

\* A list has one entry per station, no more than there is room for, and
\* between handlers at most Sticky inactive ones that await no notification
\* (wld_vap_cleanup_stationlist on every path that ends a session).
THEOREM TypeCorrect == Spec => []TypeOK
<1>1. IInv => TypeOK
  BY Types
<1>2. QED
  BY <1>1, Inductive, PTL

\* The counters of an access point, changed in several handlers, are those of
\* its list: ActiveAssociatedDeviceNumberOfEntries the active entries, and
\* AssociationCount.Success less Disconnect the authenticated ones.
THEOREM CountersCorrect == Spec => []CountersMatch
<1>1. IInv => CountersMatch
  <2>1. SUFFICES ASSUME IInv, NEW a \in Aps
                 PROVE  nr[a] = Cardinality(Active(list[a])) /\ open[a] = Cardinality(Auth(list[a]))
    BY DEF CountersMatch
  <2>2. /\ S0.list = list /\ S0.nr = nr /\ S0.open = open /\ Good(S0)
    BY <2>1, Before
  <2>3. QED
    BY <2>2, FineFacts
<1>2. QED
  BY <1>1, Inductive, PTL

\* No session ends without a Disassociation signal, no signal is sent without
\* a session that ended, and it gives the reason of the frame that ended it
\* (s_delayDisassocNotifHdlr, s_sendDisassocNotification, s_add_dc_sta).
THEOREM AllAnnounced == Spec => []Announced
<1>1. IInv => Announced
  <2>1. SUFFICES ASSUME IInv PROVE Announced
    OBVIOUS
  <2>2. \A n \in sent : Right(n)
    BY <2>1 DEF IInv
  <2>3. ASSUME NEW a \in Aps, NEW m \in owed[a]
        PROVE  m \in MacsOf(list[a]) /\ Entry(list[a], m).delayed
    <3>1. list[a] \in Lists /\ owed[a] \subseteq Delayed(list[a])
      <4>1. S0.list = list /\ S0.owed = owed /\ Good(S0)
        BY <2>1, Before
      <4>2. QED
        BY <4>1, FineFacts
    <3>2. QED
      BY <3>1, Flags
  <2>4. QED
    BY <2>2, <2>3 DEF Announced, Right
<1>2. QED
  BY <1>1, Inductive, PTL

LEMMA Synced ==
  ASSUME IInv
  PROVE  InSync
<1>1. SUFFICES ASSUME NEW a \in Aps, queue[a] = <<>>, ~lost[a], NEW m
               PROVE  /\ m \in Auth(list[a]) => m \in Up(a)
                      /\ m \in Up(a) /\ m \notin cut[a] => m \in Auth(list[a])
  BY DEF InSync, Up
<1>2. m \in Auth(list[a]) => m \in Stas[a]
  <2>1. S0.list = list /\ Good(S0)
    BY Before
  <2>2. list[a] \in Lists /\ MacsOf(list[a]) \subseteq Stas[a]
    BY <2>1, FineFacts
  <2>3. QED
    BY <2>2, Flags
<1>3. SUFFICES ASSUME m \in Stas[a]
               PROVE  /\ m \in Auth(list[a]) => m \in Up(a)
                      /\ m \in Up(a) /\ m \notin cut[a] => m \in Auth(list[a])
  BY <1>2 DEF Up
<1>4. Told(<<>>, m, list[a], cut[a], link[a][m])
  BY <1>1, <1>3, Zenon DEF IInv
<1>5. PICK b \in Tales :
        /\ Story(<<>>, m, b, Now(link[a][m]))
        /\ b = "up" /\ m \notin cut[a] => m \in Auth(list[a])
        /\ b = "down" /\ m \in Auth(list[a]) => ToCome(<<>>, m)
  BY <1>4 DEF Told
<1>6. Now(link[a][m]) \in Tales
  BY DEF Now, Tales
<1>7. b = Now(link[a][m])
  BY <1>5, <1>6, StoryEmpty
<1>8. ~ToCome(<<>>, m)
  BY DEF ToCome
<1>9. (b = "up" <=> link[a][m] = "auth") /\ (b = "down" <=> link[a][m] # "auth")
  BY <1>7 DEF Now
<1>10. QED
  BY <1>3, <1>5, <1>8, <1>9 DEF Up

\* When the events of an access point are read, and none was lost, its
\* authenticated stations are those of hostapd; and when its radio is
\* disabled no entry stays active (s_deauthAllRadSta, wld_vap_remove_all).
THEOREM HostapdFollowed == Spec => ListFollows
<1>1. IInv => InSync
  BY Synced
<1>2. IInv /\ [Next]_vars => IInv'
  BY Kept
<1>3. IInv /\ Next => AllRemoved
  BY DeauthAllRadStaStep DEF AllRemoved, Next
<1>4. QED
  BY <1>1, <1>2, <1>3, Inductive, PTL DEF Spec, ListFollows

==============================================================================
