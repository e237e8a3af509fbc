---------------------------- MODULE NlCore_proofs ----------------------------
(***************************************************************************)
(* Theorems about the netlink socket: a call that waits has its request,   *)
(* and the indexes of pwhm follow those of the kernel.                     *)
(***************************************************************************)
EXTENDS NlCore, SequenceTheorems, FiniteSetTheorems, TLAPS

-----------------------------------------------------------------------------
(* The invariant speaks of the world W of pwhm and of the interfaces k of  *)
(* the kernel, so that it can be stated of every point within a handler.   *)

Lefts == [changes : 0..MaxChanges, faults : Int, calls : Int]
Worlds == [sock : Seq(Messages), reqs : SUBSET Requests, stack : Seq(Frames), look : Looks,
           index : [Names -> Nat], lis : [Names -> Nat], radIndex : Nat,
           doubt : SUBSET Names, strayed : BOOLEAN, left : Lefts]
Kernels == [Names -> Nat]

Typed(W, k) == W \in Worlds /\ k \in Kernels /\ IsFiniteSet(W.reqs)

\* Calls and requests that are waited for belong together.
CallsWait(W) == \A j \in DOMAIN W.stack : W.stack[j].got = "none" <=> Pending(W, W.stack[j].seq)
SyncAwaited(W) == \A r \in W.reqs : r.sync <=> \E j \in DOMAIN W.stack : W.stack[j].seq = r.seq
Coherent(W) == CallsWait(W) /\ SyncAwaited(W)

\* What a message or a frame looks like.  Only the outermost call is one for the look at the
\* access points; its answer is about the one that is looked at.
GoodMsg(m) ==
  /\ m.type = "del" => m.seq = 0
  /\ m.type \in {"new", "del", "ack"} => m.index > 0
GoodFrame(f) == f.got = "ok" => f.index > 0
LooksAt(W, n) == W.look.todo # <<>> /\ W.look.cur > 0 /\ n = Head(W.look.todo)
LookFrame(W) == W.stack # <<>> /\ W.stack[1].why = "refresh"
OwnAnswer(W, m) ==
  m.seq = W.stack[1].seq => m.type # "ack" /\ (m.type = "new" => LooksAt(W, m.name))
Shape(W) ==
  /\ \A j \in DOMAIN W.sock : GoodMsg(W.sock[j])
  /\ \A j \in DOMAIN W.stack : GoodFrame(W.stack[j]) /\ (j > 1 => W.stack[j].why = "event")
  /\ LookFrame(W) =>
       /\ LooksAt(W, Head(W.look.todo))
       /\ W.stack[1].got = "ok" => LooksAt(W, W.stack[1].name)
       /\ \A j \in DOMAIN W.sock : OwnAnswer(W, W.sock[j])

\* Where the number i occurs as the index of n.  It is that of one interface only, for ever.
Tells(m, n, i) == m.type \in {"new", "del", "ack"} /\ m.name = n /\ m.index = i
Held(W, k, n, i) ==
  \/ k[n] = i \/ W.index[n] = i \/ W.lis[n] = i
  \/ n = Main /\ W.radIndex = i
  \/ \E j \in DOMAIN W.sock : Tells(W.sock[j], n, i)
  \/ \E j \in DOMAIN W.stack : W.stack[j].got = "ok" /\ W.stack[j].name = n /\ W.stack[j].index = i
  \/ W.look.cur = i /\ LooksAt(W, n)
Limit(W) == Len(Order) + 1 + MaxChanges - W.left.changes
Unique(W, k) ==
  \A i \in Nat \ {0}, n \in Names :
    Held(W, k, n, i) => i < Limit(W) /\ \A o \in Names : Held(W, k, o, i) => o = n

\* What is in the socket q about an interface n, when it ends with what the kernel has, v
IsAbout(m, n) == m.type \in {"new", "del"} /\ m.name = n
IsEvent(m, n) == IsAbout(m, n) /\ m.seq = 0
Final(q, j, n) == \A i \in DOMAIN q : i > j => ~IsEvent(q[i], n)
Says(m) == IF m.type = "del" THEN 0 ELSE m.index
Agrees(q, n, v) == \A j \in DOMAIN q : IsAbout(q[j], n) /\ Final(q, j, n) => Says(q[j]) = v
Calm(q, n) == \A j \in DOMAIN q : ~IsEvent(q[j], n)

\* So it is for those that are not in doubt, and for the one that a clean look is at; and
\* when no event of it is to come, pwhm knows it, or has learnt it from the answer.
Watched(W, n) == n \notin W.doubt \/ (W.look.clean /\ LooksAt(W, n))
Knows(W, k, n) == n \notin W.doubt /\ Calm(W.sock, n) => W.index[n] = k[n] /\ W.lis[n] = k[n]
Learnt(W, k, n) ==
  Watched(W, n) /\ Answered(W, n) /\ ~W.look.crossed /\ Calm(W.sock, n) => W.stack[1].index = k[n]
Trusted(W, k) ==
  \A n \in Names : (Watched(W, n) => Agrees(W.sock, n, k[n])) /\ Knows(W, k, n) /\ Learnt(W, k, n)

\* As long as nothing went astray, an index of the radio that is gone will be removed by an
\* event that is still to be read; v is the index that the kernel has now.
Removes(m, i) == m.type = "del" /\ m.name = Main /\ m.index = i
RemovedAfter(q, j, i) == \E p \in DOMAIN q : p > j /\ Removes(q[p], i)
Alive(q, v, i) == i = 0 \/ v = i \/ RemovedAfter(q, 0, i)
News(q, v) ==
  \A j \in DOMAIN q :
    q[j].type = "new" /\ q[j].name = Main => v = q[j].index \/ RemovedAfter(q, j, q[j].index)
Gone(W, v) ==
  ~W.strayed =>
    /\ Alive(W.sock, v, W.radIndex) /\ Alive(W.sock, v, W.index[Main]) /\ News(W.sock, v)
    /\ Answered(W, Main) /\ ~W.look.crossed => Alive(W.sock, v, W.stack[1].index)

\* The radio has the index of its access point, if that has one, but for the end of a restoration.
Shared(W) ==
  W.index[Main] > 0 =>
    W.radIndex = W.index[Main] \/ (W.stack # <<>> /\ W.stack[1].why = "info")

Sound(W, k) ==
  Typed(W, k) /\ Coherent(W) /\ Shape(W) /\ Unique(W, k) /\ Trusted(W, k) /\ Gone(W, k[Main])
Good(W, k) == Sound(W, k) /\ Shared(W)
IInv == Good(World, kern)

\* What a handler takes, and what the kernel adds
Read(W) == [W EXCEPT !.sock = Tail(@)]
Takes(W, V, n) == V = Crossed(Read(W), n)
Popped(W) == [W EXCEPT !.stack = Front(@)]
Grown(q, m, lost) == IF lost THEN q ELSE Append(q, m)

-----------------------------------------------------------------------------
(* The socket *)

LEMMA TailFacts ==
  ASSUME NEW X, NEW q \in Seq(X), q # <<>>
  PROVE  /\ Len(q) \in Nat /\ Len(q) > 0 /\ DOMAIN q = 1..Len(q)
         /\ Head(q) = q[1] /\ q[1] \in X
         /\ Tail(q) \in Seq(X) /\ DOMAIN Tail(q) = 1..(Len(q) - 1)
         /\ \A i \in 1..(Len(q) - 1) : Tail(q)[i] = q[i + 1]
<1>1. Len(q) \in Nat /\ DOMAIN q = 1..Len(q) /\ Len(q) > 0
  BY EmptySeq, LenProperties
<1>2. QED
  BY <1>1, HeadTailProperties, LenProperties, ElementOfSeq

LEMMA AppendFacts ==
  ASSUME NEW X, NEW q \in Seq(X), NEW e \in X
  PROVE  /\ Len(q) \in Nat /\ DOMAIN q = 1..Len(q)
         /\ Append(q, e) \in Seq(X) /\ Append(q, e) # <<>> /\ Len(Append(q, e)) = Len(q) + 1
         /\ DOMAIN Append(q, e) = 1..(Len(q) + 1)
         /\ \A i \in 1..Len(q) : Append(q, e)[i] = q[i]
         /\ Append(q, e)[Len(q) + 1] = e
BY AppendProperties, LenProperties

LEMMA AgreesTail ==
  ASSUME NEW q \in Seq(Messages), q # <<>>, NEW n, NEW v, Agrees(q, n, v)
  PROVE  Agrees(Tail(q), n, v)
<1>1. SUFFICES ASSUME NEW j \in DOMAIN Tail(q), IsAbout(Tail(q)[j], n), Final(Tail(q), j, n)
               PROVE  Says(Tail(q)[j]) = v
  BY DEF Agrees
<1>2. j + 1 \in DOMAIN q /\ Tail(q)[j] = q[j + 1]
  BY TailFacts
<1>3. ASSUME NEW i \in DOMAIN q, i > j + 1 PROVE ~IsEvent(q[i], n)
  <2>1. i - 1 \in DOMAIN Tail(q) /\ i - 1 > j /\ Tail(q)[i - 1] = q[i]
    BY <1>3, TailFacts
  <2>2. QED
    BY <1>1, <2>1, Zenon DEF Final
<1>4. Final(q, j + 1, n)
  BY <1>3 DEF Final
<1>5. QED
  BY <1>1, <1>2, <1>4 DEF Agrees

LEMMA CalmTail ==
  ASSUME NEW q \in Seq(Messages), q # <<>>, NEW n, ~IsEvent(Head(q), n)
  PROVE  Calm(Tail(q), n) <=> Calm(q, n)
<1>1. ASSUME Calm(Tail(q), n), NEW j \in DOMAIN q PROVE ~IsEvent(q[j], n)
  <2>1. CASE j = 1
    BY <2>1, TailFacts
  <2>2. CASE j # 1
    <3>1. j - 1 \in DOMAIN Tail(q) /\ Tail(q)[j - 1] = q[j]
      BY <2>2, TailFacts
    <3>2. QED
      BY <1>1, <3>1, Zenon DEF Calm
  <2>3. QED
    BY <2>1, <2>2
<1>2. ASSUME Calm(q, n), NEW j \in DOMAIN Tail(q) PROVE ~IsEvent(Tail(q)[j], n)
  <2>1. j + 1 \in DOMAIN q /\ Tail(q)[j] = q[j + 1]
    BY TailFacts
  <2>2. QED
    BY <1>2, <2>1, Zenon DEF Calm
<1>3. QED
  BY <1>1, <1>2 DEF Calm

\* The first message is the last word when no event follows.
LEMMA HeadSays ==
  ASSUME NEW q \in Seq(Messages), q # <<>>, NEW n, NEW v, Agrees(q, n, v),
         IsAbout(Head(q), n), Calm(Tail(q), n)
  PROVE  Says(Head(q)) = v
<1>1. 1 \in DOMAIN q /\ Head(q) = q[1]
  BY TailFacts
<1>2. ASSUME NEW i \in DOMAIN q, i > 1 PROVE ~IsEvent(q[i], n)
  <2>1. i - 1 \in DOMAIN Tail(q) /\ Tail(q)[i - 1] = q[i]
    BY <1>2, TailFacts
  <2>2. QED
    BY <2>1, Zenon DEF Calm
<1>3. QED
  BY <1>1, <1>2 DEF Agrees, Final

LEMMA CalmAppend ==
  ASSUME NEW q \in Seq(Messages), NEW m \in Messages, NEW n
  PROVE  Calm(Append(q, m), n) <=> Calm(q, n) /\ ~IsEvent(m, n)
<1> DEFINE a == Append(q, m)
<1>1. /\ Len(q) \in Nat /\ DOMAIN q = 1..Len(q) /\ DOMAIN a = 1..(Len(q) + 1)
      /\ \A i \in 1..Len(q) : a[i] = q[i]
      /\ a[Len(q) + 1] = m
  BY AppendFacts
<1> HIDE DEF a
<1>2. QED
  BY <1>1 DEF Calm

LEMMA AgreesAppend ==
  ASSUME NEW q \in Seq(Messages), NEW m \in Messages, NEW n, NEW v,
         IsAbout(m, n) => Says(m) = v,
         Agrees(q, n, v) \/ IsEvent(m, n)
  PROVE  Agrees(Append(q, m), n, v)
<1> DEFINE a == Append(q, m)
<1>1. /\ Len(q) \in Nat /\ DOMAIN q = 1..Len(q) /\ DOMAIN a = 1..(Len(q) + 1)
      /\ \A i \in 1..Len(q) : a[i] = q[i]
      /\ a[Len(q) + 1] = m
  BY AppendFacts
<1> HIDE DEF a
<1>2. SUFFICES ASSUME NEW j \in DOMAIN a, IsAbout(a[j], n), Final(a, j, n) PROVE Says(a[j]) = v
  BY DEF Agrees, a
<1>3. CASE j = Len(q) + 1
  BY <1>1, <1>2, <1>3
<1>4. CASE j # Len(q) + 1
  <2>1. j \in DOMAIN q /\ a[j] = q[j]
    BY <1>1, <1>4
  <2>2. ~IsEvent(m, n)
    BY <1>1, <1>2, <2>1 DEF Final
  <2>3. Final(q, j, n)
    BY <1>1, <1>2 DEF Final
  <2>4. QED
    BY <1>2, <2>1, <2>2, <2>3 DEF Agrees
<1>5. QED
  BY <1>3, <1>4

LEMMA RemovedTail ==
  ASSUME NEW q \in Seq(Messages), q # <<>>, NEW j \in Nat, NEW i, RemovedAfter(q, j + 1, i)
  PROVE  RemovedAfter(Tail(q), j, i)
<1>1. PICK p \in DOMAIN q : p > j + 1 /\ Removes(q[p], i)
  BY DEF RemovedAfter
<1>2. p - 1 \in DOMAIN Tail(q) /\ p - 1 > j /\ Tail(q)[p - 1] = q[p]
  BY <1>1, TailFacts
<1>3. QED
  BY <1>1, <1>2, Zenon DEF RemovedAfter

LEMMA AliveTail ==
  ASSUME NEW q \in Seq(Messages), q # <<>>, NEW v, NEW i, Alive(q, v, i), ~Removes(Head(q), i)
  PROVE  Alive(Tail(q), v, i)
<1>1. CASE RemovedAfter(q, 0, i)
  <2>1. PICK p \in DOMAIN q : p > 0 /\ Removes(q[p], i)
    BY <1>1 DEF RemovedAfter
  <2>2. p > 1
    BY <2>1, TailFacts
  <2>3. RemovedAfter(q, 0 + 1, i)
    BY <2>1, <2>2 DEF RemovedAfter
  <2>4. QED
    BY <2>3, RemovedTail DEF Alive
<1>2. QED
  BY <1>1 DEF Alive

\* The news that a new interface is there are alive when they are read.
LEMMA AliveHead ==
  ASSUME NEW q \in Seq(Messages), q # <<>>, NEW v, News(q, v),
         Head(q).type = "new", Head(q).name = Main
  PROVE  Alive(Tail(q), v, Head(q).index)
<1>1. v = Head(q).index \/ RemovedAfter(q, 0 + 1, Head(q).index)
  BY TailFacts DEF News
<1>2. QED
  BY <1>1, RemovedTail DEF Alive

LEMMA NewsTail ==
  ASSUME NEW q \in Seq(Messages), q # <<>>, NEW v, News(q, v)
  PROVE  News(Tail(q), v)
<1>1. SUFFICES ASSUME NEW j \in DOMAIN Tail(q), Tail(q)[j].type = "new", Tail(q)[j].name = Main
               PROVE  v = Tail(q)[j].index \/ RemovedAfter(Tail(q), j, Tail(q)[j].index)
  BY DEF News
<1>2. j \in Nat /\ j + 1 \in DOMAIN q /\ Tail(q)[j] = q[j + 1]
  BY TailFacts
<1>3. v = q[j + 1].index \/ RemovedAfter(q, j + 1, q[j + 1].index)
  BY <1>1, <1>2 DEF News
<1>4. QED
  BY <1>2, <1>3, RemovedTail

\* What is added removes what the kernel has had and has no more.
LEMMA RemovedAppend ==
  ASSUME NEW q \in Seq(Messages), NEW m \in Messages, NEW j \in Nat, NEW i
  PROVE  /\ RemovedAfter(q, j, i) => RemovedAfter(Append(q, m), j, i)
         /\ Removes(m, i) /\ j <= Len(q) => RemovedAfter(Append(q, m), j, i)
<1> DEFINE a == Append(q, m)
<1>1. /\ Len(q) \in Nat /\ DOMAIN q = 1..Len(q) /\ DOMAIN a = 1..(Len(q) + 1)
      /\ \A p \in 1..Len(q) : a[p] = q[p]
      /\ a[Len(q) + 1] = m
  BY AppendFacts
<1> HIDE DEF a
<1>2. RemovedAfter(q, j, i) => RemovedAfter(a, j, i)
  BY <1>1 DEF RemovedAfter
<1>3. Removes(m, i) /\ j <= Len(q) => RemovedAfter(a, j, i)
  BY <1>1 DEF RemovedAfter
<1>4. QED
  BY <1>2, <1>3 DEF a

LEMMA AliveAppend ==
  ASSUME NEW q \in Seq(Messages), NEW m \in Messages, NEW v, NEW w, NEW i, Alive(q, v, i),
         v = w \/ v = 0 \/ Removes(m, v)
  PROVE  Alive(Append(q, m), w, i)
<1>1. RemovedAfter(q, 0, i) => RemovedAfter(Append(q, m), 0, i)
  BY RemovedAppend
<1>2. Removes(m, i) => RemovedAfter(Append(q, m), 0, i)
  BY RemovedAppend, AppendFacts
<1>3. QED
  BY <1>1, <1>2 DEF Alive

LEMMA NewsAppend ==
  ASSUME NEW q \in Seq(Messages), NEW m \in Messages, NEW v, NEW w, News(q, v),
         v = w \/ Removes(m, v) \/ (v = 0 /\ \A j \in DOMAIN q : GoodMsg(q[j])),
         m.type = "new" /\ m.name = Main => m.index = w
  PROVE  News(Append(q, m), w)
<1> DEFINE a == Append(q, m)
<1>1. /\ Len(q) \in Nat /\ DOMAIN q = 1..Len(q) /\ DOMAIN a = 1..(Len(q) + 1)
      /\ \A i \in 1..Len(q) : a[i] = q[i]
      /\ a[Len(q) + 1] = m
  BY AppendFacts
<1>2. \A j \in 1..Len(q) : \A i : /\ RemovedAfter(q, j, i) => RemovedAfter(a, j, i)
                                  /\ Removes(m, i) => RemovedAfter(a, j, i)
  BY <1>1, RemovedAppend
<1> HIDE DEF a
<1>3. SUFFICES ASSUME NEW j \in DOMAIN a, a[j].type = "new", a[j].name = Main
               PROVE  w = a[j].index \/ RemovedAfter(a, j, a[j].index)
  BY DEF News, a
<1>4. CASE j = Len(q) + 1
  BY <1>1, <1>3, <1>4
<1>5. CASE j # Len(q) + 1
  <2>1. j \in DOMAIN q /\ j \in 1..Len(q) /\ a[j] = q[j]
    BY <1>1, <1>5
  <2>2. v = q[j].index \/ RemovedAfter(q, j, q[j].index)
    BY <1>3, <2>1 DEF News
  <2>3. v = 0 /\ GoodMsg(q[j]) => v # q[j].index
    BY <1>3, <2>1 DEF GoodMsg
  <2>4. QED
    BY <1>2, <2>1, <2>2, <2>3
<1>6. QED
  BY <1>4, <1>5

-----------------------------------------------------------------------------
(* Worlds that are alike *)

LEMMA WorldFields ==
  ASSUME NEW W \in Worlds
  PROVE  /\ W.sock \in Seq(Messages) /\ W.reqs \subseteq Requests /\ W.stack \in Seq(Frames)
         /\ W.look \in Looks /\ W.index \in [Names -> Nat] /\ W.lis \in [Names -> Nat]
         /\ W.radIndex \in Nat /\ W.doubt \subseteq Names /\ W.strayed \in BOOLEAN
         /\ W.left \in Lefts /\ W.left.changes \in Int /\ W.left.changes <= MaxChanges
BY NlAssumption DEF Worlds, Lefts

LEMMA LimitIsInt ==
  ASSUME NEW W \in Worlds
  PROVE  Limit(W) \in Int /\ Len(Order) \in Nat
<1>1. Len(Order) \in Nat /\ MaxChanges \in Nat
  BY NlAssumption, LenProperties
<1>2. QED
  BY <1>1, WorldFields DEF Limit

LEMMA UniqueKept ==
  ASSUME NEW W, NEW V, NEW k, NEW l, Unique(W, k), Limit(W) \in Int, Limit(V) \in Int,
         Limit(W) <= Limit(V),
         \A n \in Names, i \in Nat \ {0} : Held(V, l, n, i) => Held(W, k, n, i)
  PROVE  Unique(V, l)
<1>1. SUFFICES ASSUME NEW i \in Nat \ {0}, NEW n \in Names, Held(V, l, n, i)
               PROVE  i < Limit(V) /\ \A o \in Names : Held(V, l, o, i) => o = n
  BY DEF Unique
<1>2. Held(W, k, n, i)
  BY <1>1
<1>3. i < Limit(W) /\ \A o \in Names : Held(W, k, o, i) => o = n
  BY <1>2 DEF Unique
<1>4. QED
  BY <1>1, <1>3

\* V tells of the interfaces what W does.
SameKnown(W, V) ==
  /\ V.index = W.index /\ V.lis = W.lis /\ V.radIndex = W.radIndex
  /\ V.doubt = W.doubt /\ V.strayed = W.strayed /\ V.left.changes = W.left.changes

\* The invariants but for those of the requests
Indexed(W, k) == Shape(W) /\ Unique(W, k) /\ Trusted(W, k) /\ Gone(W, k[Main])

LEMMA SameIndexed ==
  ASSUME NEW W \in Worlds, NEW V \in Worlds, NEW k, SameKnown(W, V), V.look = W.look,
         V.sock = W.sock, V.stack = W.stack, Indexed(W, k)
  PROVE  Indexed(V, k) /\ (Shared(W) => Shared(V))
<1> USE DEF SameKnown
<1>1. Shape(V)
  BY DEF Indexed, Shape, LookFrame, OwnAnswer, LooksAt
<1>2. Unique(V, k)
  BY DEF Indexed, Unique, Held, LooksAt, Limit
<1>3. Trusted(V, k)
  BY DEF Indexed, Trusted, Knows, Learnt, Watched, LooksAt, Answered
<1>4. Gone(V, k[Main])
  BY DEF Indexed, Gone, Answered
<1>5. Shared(W) => Shared(V)
  BY DEF Shared
<1>6. QED
  BY <1>1, <1>2, <1>3, <1>4, <1>5 DEF Indexed

LEMMA SameWorld ==
  ASSUME NEW W \in Worlds, NEW V \in Worlds, NEW k, SameKnown(W, V), V.look = W.look,
         V.sock = W.sock, V.reqs = W.reqs, V.stack = W.stack
  PROVE  /\ Sound(W, k) => Sound(V, k)
         /\ Good(W, k) => Good(V, k)
<1>1. Typed(W, k) => Typed(V, k)
  BY DEF Typed
<1>2. Coherent(W) => Coherent(V)
  BY DEF Coherent, CallsWait, SyncAwaited, Pending
<1>3. QED
  BY <1>1, <1>2, SameIndexed DEF Sound, Good, Indexed

-----------------------------------------------------------------------------
(* Requests *)

LEMMA FreshSeq ==
  ASSUME NEW W \in Worlds, IsFiniteSet(W.reqs)
  PROVE  /\ Fresh(W) \in Nat \ {0}
         /\ ~Pending(W, Fresh(W))
         /\ \A j \in DOMAIN W.sock : W.sock[j].seq # Fresh(W)
         /\ \A j \in DOMAIN W.stack : W.stack[j].seq # Fresh(W)
<1> DEFINE a == {r.seq : r \in W.reqs}
           b == {W.sock[j].seq : j \in DOMAIN W.sock}
           c == {W.stack[j].seq : j \in DOMAIN W.stack}
           used == a \cup b \cup c
<1>1. IsFiniteSet(a)
  <2> DEFINE f == [r \in W.reqs |-> r.seq]
  <2>1. f \in Surjection(W.reqs, a)
    BY DEF Surjection
  <2> HIDE DEF f, a
  <2>2. QED
    BY <2>1, FS_Surjection
<1>2. IsFiniteSet(b)
  <2> DEFINE f == [j \in DOMAIN W.sock |-> W.sock[j].seq]
  <2>1. f \in Surjection(DOMAIN W.sock, b)
    BY DEF Surjection
  <2>2. IsFiniteSet(DOMAIN W.sock)
    BY WorldFields, LenProperties, FS_Interval
  <2> HIDE DEF f, b
  <2>3. QED
    BY <2>1, <2>2, FS_Surjection
<1>3. IsFiniteSet(c)
  <2> DEFINE f == [j \in DOMAIN W.stack |-> W.stack[j].seq]
  <2>1. f \in Surjection(DOMAIN W.stack, c)
    BY DEF Surjection
  <2>2. IsFiniteSet(DOMAIN W.stack)
    BY WorldFields, LenProperties, FS_Interval
  <2> HIDE DEF f, c
  <2>3. QED
    BY <2>1, <2>2, FS_Surjection
<1>4. IsFiniteSet(used) /\ Cardinality(used) \in Nat
  <2> HIDE DEF a, b, c
  <2>1. IsFiniteSet(a \cup b)
    BY <1>1, <1>2, FS_Union
  <2>2. QED
    BY <1>3, <2>1, FS_Union, FS_CardinalityType
<1> DEFINE K == Cardinality(used) + 1
<1>5. \E x \in 1..K : x \notin used
  <2> HIDE DEF used
  <2>1. SUFFICES ASSUME 1..K \in SUBSET used PROVE FALSE
    OBVIOUS
  <2>2. Cardinality(1..K) <= Cardinality(used)
    BY <1>4, <2>1, FS_Subset
  <2>3. Cardinality(1..K) = K
    BY <1>4, FS_Interval
  <2>4. QED
    BY <1>4, <2>2, <2>3
<1>6. Fresh(W) = CHOOSE x \in 1..K : x \notin used
  BY DEF Fresh
<1>7. Fresh(W) \in 1..K /\ Fresh(W) \notin used
  <2> HIDE DEF used, K
  <2>1. QED
    BY <1>5, <1>6
<1>8. Fresh(W) \in Nat \ {0}
  <2> HIDE DEF used
  <2>1. QED
    BY <1>4, <1>7
<1>9. QED
  BY <1>7, <1>8 DEF Pending

LEMMA PendingAdded ==
  ASSUME NEW W, NEW V, NEW r, V.reqs = W.reqs \cup {r}
  PROVE  \A x : Pending(V, x) <=> Pending(W, x) \/ x = r.seq
<1>1. \A q : q \in V.reqs <=> q \in W.reqs \/ q = r
  OBVIOUS
<1>2. QED
  BY <1>1, Zenon DEF Pending

Request(s, sync) == [seq |-> s, sync |-> sync, over |-> FALSE]

\* A request that nobody waits for
LEMMA RequestAdded ==
  ASSUME NEW W \in Worlds, NEW V \in Worlds, NEW k, NEW s \in Nat \ {0},
         SameKnown(W, V), V.look = W.look, V.sock = W.sock, V.stack = W.stack,
         V.reqs = W.reqs \cup {Request(s, FALSE)},
         \A j \in DOMAIN W.stack : W.stack[j].seq # s, Good(W, k)
  PROVE  Good(V, k)
<1> DEFINE r == Request(s, FALSE)
<1>0. r.seq = s /\ ~r.sync
  BY DEF Request
<1> HIDE DEF r
<1>1. Typed(V, k)
  BY FS_AddElement DEF Good, Sound, Typed
<1>2. \A x : Pending(V, x) <=> Pending(W, x) \/ x = s
  <2>1. V.reqs = W.reqs \cup {r}
    BY DEF r
  <2>2. QED
    BY <1>0, <2>1, PendingAdded
<1>3. CallsWait(V)
  BY <1>2, Zenon DEF Good, Sound, Coherent, CallsWait
<1>4. SyncAwaited(V)
  <2>1. SUFFICES ASSUME NEW x \in V.reqs
                 PROVE  x.sync <=> \E j \in DOMAIN W.stack : W.stack[j].seq = x.seq
    BY Zenon DEF SyncAwaited
  <2>2. x \in W.reqs \/ x = r
    BY <2>1 DEF r
  <2>3. CASE x = r
    BY <1>0, <2>3, Zenon
  <2>4. CASE x \in W.reqs
    BY <2>4, Zenon DEF Good, Sound, Coherent, SyncAwaited
  <2>5. QED
    BY <2>2, <2>3, <2>4
<1>5. QED
  BY <1>1, <1>3, <1>4, SameIndexed DEF Good, Sound, Coherent, Indexed

\* A call that waits for the answer to its request
Call(why, s) == [why |-> why, seq |-> s, got |-> "none", name |-> Main, index |-> 0]

LEMMA CallAdded ==
  ASSUME NEW W \in Worlds, NEW V \in Worlds, NEW k, NEW s \in Nat \ {0}, NEW why,
         SameKnown(W, V), V.look = W.look, V.sock = W.sock,
         Call(why, s) \in Frames, V.stack = Append(W.stack, Call(why, s)),
         V.reqs = W.reqs \cup {Request(s, TRUE)},
         ~Pending(W, s), \A j \in DOMAIN W.stack : W.stack[j].seq # s,
         \A j \in DOMAIN W.sock : W.sock[j].seq # s,
         why = "event" \/ W.stack = <<>>,
         why = "refresh" => LooksAt(W, Head(W.look.todo)),
         Sound(W, k), Shared(W) \/ (W.stack = <<>> /\ why = "info")
  PROVE  Good(V, k)
<1> DEFINE f == Call(why, s)
           n == Len(W.stack)
           p == Request(s, TRUE)
<1>0. p.seq = s /\ p.sync
  BY DEF Request
<1> HIDE DEF p
<1> USE DEF SameKnown
<1>1. /\ n \in Nat /\ DOMAIN W.stack = 1..n /\ DOMAIN V.stack = 1..(n + 1) /\ V.stack # <<>>
      /\ \A j \in 1..n : V.stack[j] = W.stack[j]
      /\ V.stack[n + 1] = f
      /\ W.stack = <<>> <=> n = 0
  BY AppendFacts, WorldFields, EmptySeq, SMTT(30)
<1>2. f.why = why /\ f.seq = s /\ f.got = "none"
  BY DEF Call
<1> HIDE DEF f, n
<1>3. V.stack[1] = IF W.stack = <<>> THEN f ELSE W.stack[1]
  BY <1>1
<1>4. Typed(V, k)
  BY FS_AddElement DEF Sound, Typed
<1>5. \A x : Pending(V, x) <=> Pending(W, x) \/ x = s
  <2>1. V.reqs = W.reqs \cup {p}
    BY DEF p
  <2>2. QED
    BY <1>0, <2>1, PendingAdded
<1>6. CallsWait(V)
  <2>1. SUFFICES ASSUME NEW j \in DOMAIN V.stack
                 PROVE  V.stack[j].got = "none" <=> Pending(V, V.stack[j].seq)
    BY Zenon DEF CallsWait
  <2>2. CASE j = n + 1
    BY <1>1, <1>2, <1>5, <2>2
  <2>3. CASE j \in 1..n
    BY <1>1, <1>5, <2>3 DEF Sound, Coherent, CallsWait
  <2>4. QED
    BY <1>1, <2>2, <2>3
<1>7. SyncAwaited(V)
  <2>1. SUFFICES ASSUME NEW r \in V.reqs
                 PROVE  r.sync <=> \E j \in DOMAIN V.stack : V.stack[j].seq = r.seq
    BY Zenon DEF SyncAwaited
  <2>2. CASE r.seq = s
    <3>1. r.sync
      BY <1>0, <2>1, <2>2 DEF Pending, p
    <3>2. n + 1 \in DOMAIN V.stack /\ V.stack[n + 1].seq = r.seq
      BY <1>1, <1>2, <2>2
    <3>3. QED
      BY <3>1, <3>2
  <2>3. CASE r.seq # s
    <3>1. r \in W.reqs
      BY <1>0, <2>1, <2>3 DEF p
    <3>2. r.sync <=> \E j \in 1..n : W.stack[j].seq = r.seq
      BY <1>1, <3>1 DEF Sound, Coherent, SyncAwaited
    <3>3. \A j \in 1..(n + 1) : V.stack[j].seq = r.seq => j \in 1..n
      BY <1>1, <1>2, <2>3
    <3>4. QED
      BY <1>1, <3>2, <3>3
  <2>4. QED
    BY <2>2, <2>3
<1>8. Shape(V)
  <2>1. \A j \in DOMAIN V.sock : GoodMsg(V.sock[j])
    BY DEF Sound, Shape
  <2>2. \A j \in DOMAIN V.stack : GoodFrame(V.stack[j]) /\ (j > 1 => V.stack[j].why = "event")
    BY <1>1, <1>2 DEF Sound, Shape, GoodFrame
  <2>3. CASE W.stack = <<>>
    BY <1>2, <1>3, <2>1, <2>2, <2>3 DEF Shape, LookFrame, OwnAnswer, LooksAt
  <2>4. CASE W.stack # <<>>
    BY <1>1, <1>3, <2>1, <2>2, <2>4 DEF Sound, Shape, LookFrame, OwnAnswer, LooksAt
  <2>5. QED
    BY <2>3, <2>4
<1>9. Unique(V, k)
  <2>1. \A x \in Names, i \in Nat \ {0} : Held(V, k, x, i) => Held(W, k, x, i)
    BY <1>1, <1>2 DEF Held, LooksAt
  <2>2. QED
    BY <2>1, UniqueKept, LimitIsInt DEF Sound, Limit
<1>10. \A x : Answered(V, x) => Answered(W, x) /\ V.stack[1] = W.stack[1]
  BY <1>2, <1>3 DEF Answered
<1>11. Trusted(V, k)
  BY <1>10 DEF Sound, Trusted, Knows, Learnt, Watched, LooksAt
<1>12. Gone(V, k[Main])
  BY <1>10 DEF Sound, Gone
<1>13. Shared(V)
  BY <1>1, <1>2, <1>3 DEF Shared
<1>14. QED
  BY <1>4, <1>6, <1>7, <1>8, <1>9, <1>11, <1>12, <1>13 DEF Good, Sound, Coherent

\* A message of the driver that tells nothing new
LEMMA MessageAdded ==
  ASSUME NEW W \in Worlds, NEW V \in Worlds, NEW k, NEW m \in Messages,
         SameKnown(W, V), V.look = W.look, V.stack = W.stack, V.reqs = W.reqs,
         V.sock = Append(W.sock, m),
         GoodMsg(m), m.type # "del", m.type = "new" => m.seq # 0 /\ m.index = k[m.name],
         m.type = "ack" => k[m.name] = m.index, LookFrame(W) => OwnAnswer(W, m), Good(W, k)
  PROVE  Good(V, k)
<1> DEFINE q == W.sock
           n == Len(q)
<1> USE DEF SameKnown
<1>1. /\ n \in Nat /\ DOMAIN q = 1..n /\ DOMAIN V.sock = 1..(n + 1)
      /\ \A j \in 1..n : V.sock[j] = q[j]
      /\ V.sock[n + 1] = m
      /\ q \in Seq(Messages)
  BY AppendFacts, WorldFields
<1> HIDE DEF n
<1>2. Typed(V, k)
  BY DEF Good, Sound, Typed
<1>3. Coherent(V)
  BY DEF Good, Sound, Coherent, CallsWait, SyncAwaited, Pending
<1>4. Shape(V)
  BY <1>1 DEF Good, Sound, Shape, LookFrame, OwnAnswer, LooksAt
<1>5. Unique(V, k)
  <2>1. ASSUME NEW x \in Names, NEW i \in Nat \ {0}, NEW j \in DOMAIN V.sock,
               Tells(V.sock[j], x, i)
        PROVE  k[x] = i \/ \E p \in DOMAIN W.sock : Tells(W.sock[p], x, i)
    BY <1>1, <2>1 DEF Tells
  <2>2. \A x \in Names, i \in Nat \ {0} : Held(V, k, x, i) => Held(W, k, x, i)
    BY <2>1 DEF Held, LooksAt
  <2>3. QED
    BY <2>2, UniqueKept, LimitIsInt DEF Good, Sound, Limit
<1>6. \A x : Calm(V.sock, x) <=> Calm(W.sock, x)
  BY <1>1, CalmAppend DEF IsEvent, IsAbout
<1>7. \A x \in Names : Agrees(W.sock, x, k[x]) => Agrees(V.sock, x, k[x])
  BY <1>1, AgreesAppend DEF IsAbout, Says
<1>8. Trusted(V, k)
  BY <1>6, <1>7 DEF Good, Sound, Trusted, Knows, Learnt, Watched, LooksAt, Answered
<1>9. News(W.sock, k[Main]) => News(V.sock, k[Main])
  BY <1>1, NewsAppend
<1>10. \A i : Alive(W.sock, k[Main], i) => Alive(V.sock, k[Main], i)
  BY <1>1, AliveAppend
<1>11. Gone(V, k[Main]) /\ Shared(V)
  BY <1>9, <1>10 DEF Good, Sound, Gone, Answered, Shared
<1>12. QED
  BY <1>2, <1>3, <1>4, <1>5, <1>8, <1>11 DEF Good, Sound

-----------------------------------------------------------------------------
(* Sending *)

LEMMA PayKeeps ==
  ASSUME NEW W \in Worlds, NEW fate
  PROVE  /\ Pay(W, fate) \in Worlds /\ SameKnown(W, Pay(W, fate))
         /\ Pay(W, fate).look = W.look /\ Pay(W, fate).sock = W.sock
         /\ Pay(W, fate).reqs = W.reqs /\ Pay(W, fate).stack = W.stack
         /\ \A k : /\ Sound(W, k) => Sound(Pay(W, fate), k)
                   /\ Good(W, k) => Good(Pay(W, fate), k)
<1> DEFINE V == Pay(W, fate)
<1>1. /\ V \in Worlds /\ SameKnown(W, V) /\ V.look = W.look /\ V.sock = W.sock
      /\ V.reqs = W.reqs /\ V.stack = W.stack
  <2>1. CASE fate = "answered"
    BY <2>1 DEF Pay, SameKnown
  <2>2. CASE fate # "answered"
    <3>1. [W.left EXCEPT !.faults = @ - 1] \in Lefts
      <4>1. W.left \in Lefts
        BY WorldFields
      <4>2. W.left.faults - 1 \in Int
        BY <4>1 DEF Lefts
      <4>3. QED
        BY <4>1, <4>2 DEF Lefts
    <3>2. V = [W EXCEPT !.left = [W.left EXCEPT !.faults = @ - 1]]
      BY <2>2 DEF Pay, Worlds
    <3>3. [W.left EXCEPT !.faults = @ - 1].changes = W.left.changes
      BY WorldFields DEF Lefts
    <3>4. QED
      BY <3>1, <3>2, <3>3 DEF Worlds, SameKnown
  <2>3. QED
    BY <2>1, <2>2
<1> HIDE DEF V
<1>2. \A k : (Sound(W, k) => Sound(V, k)) /\ (Good(W, k) => Good(V, k))
  BY <1>1, SameWorld
<1>3. QED
  BY <1>1, <1>2 DEF V

\* A new sequence number, and a message of the driver that may come under it
IsNew(W, s) ==
  /\ s \in Nat \ {0} /\ ~Pending(W, s)
  /\ \A j \in DOMAIN W.sock : W.sock[j].seq # s
  /\ \A j \in DOMAIN W.stack : W.stack[j].seq # s
Truthful(m, k) ==
  /\ m \in Messages /\ GoodMsg(m) /\ m.type # "del"
  /\ m.type \in {"new", "ack"} => m.index = k[m.name]

LEMMA SendMsgKeeps ==
  ASSUME NEW W \in Worlds, NEW k, NEW fate, NEW m, IsNew(W, m.seq), Truthful(m, k), Good(W, k)
  PROVE  Good(SendMsg(W, FALSE, m, fate), k)
<1> DEFINE P == Pay(W, fate)
           Q == [P EXCEPT !.reqs = @ \cup {Request(m.seq, FALSE)}]
           R == SendMsg(W, FALSE, m, fate)
<1>1. /\ P \in Worlds /\ SameKnown(W, P) /\ P.look = W.look /\ P.sock = W.sock
      /\ P.reqs = W.reqs /\ P.stack = W.stack /\ Good(P, k)
  BY PayKeeps
<1>2. R = IF fate = "lost" THEN Q ELSE [Q EXCEPT !.sock = Append(@, m)]
  BY <1>1 DEF SendMsg, Request, Worlds
<1> HIDE DEF P, R
<1>3. m.seq \in Nat \ {0} /\ Request(m.seq, FALSE) \in Requests
  BY DEF IsNew, Request, Requests
<1>4. /\ Q \in Worlds /\ SameKnown(P, Q) /\ Q.look = P.look /\ Q.sock = P.sock
      /\ Q.stack = P.stack /\ Q.reqs = P.reqs \cup {Request(m.seq, FALSE)}
  BY <1>1, <1>3 DEF Worlds, SameKnown
<1> HIDE DEF Q
<1>5. Good(Q, k)
  BY <1>1, <1>3, <1>4, RequestAdded DEF IsNew
<1>6. CASE fate = "lost"
  BY <1>2, <1>5, <1>6 DEF R
<1>7. CASE fate # "lost"
  <2>1. Append(Q.sock, m) \in Seq(Messages)
    BY <1>4, AppendFacts, WorldFields DEF Truthful
  <2>2. /\ R \in Worlds /\ SameKnown(Q, R) /\ R.look = Q.look /\ R.stack = Q.stack
        /\ R.reqs = Q.reqs /\ R.sock = Append(Q.sock, m)
    BY <1>2, <1>4, <1>7, <2>1 DEF Worlds, SameKnown
  <2>3. LookFrame(Q) => m.seq # Q.stack[1].seq
    <3>1. Q.stack = W.stack /\ W.stack \in Seq(Frames)
      BY <1>1, <1>4, WorldFields
    <3>2. W.stack # <<>> => 1 \in DOMAIN W.stack
      BY <3>1, TailFacts
    <3>3. QED
      BY <3>1, <3>2 DEF LookFrame, IsNew
  <2>4. LookFrame(Q) => OwnAnswer(Q, m)
    BY <2>3 DEF OwnAnswer
  <2>5. /\ m \in Messages /\ GoodMsg(m) /\ m.type # "del"
        /\ m.type = "new" => m.seq # 0 /\ m.index = k[m.name]
        /\ m.type = "ack" => k[m.name] = m.index
    BY <1>3 DEF Truthful
  <2>6. Good(R, k)
    BY <1>4, <1>5, <2>2, <2>4, <2>5, MessageAdded
  <2>7. QED
    BY <2>6 DEF R
<1>8. QED
  BY <1>6, <1>7 DEF R

\* Of a call that cannot be sent, PayKeeps tells all.
LEMMA CallKeeps ==
  ASSUME NEW W \in Worlds, NEW k, NEW fate, NEW why, NEW m, fate # "unsent",
         IsNew(W, m.seq), Truthful(m, k), Call(why, m.seq) \in Frames,
         why = "event" \/ W.stack = <<>>,
         why = "refresh" => /\ LooksAt(W, Head(W.look.todo)) /\ m.type # "ack"
                            /\ m.type = "new" => LooksAt(W, m.name),
         Sound(W, k), Shared(W) \/ (W.stack = <<>> /\ why = "info")
  PROVE  Good(SendMsgSync(W, why, m, fate), k)
<1> DEFINE P == Pay(W, fate)
           f == Call(why, m.seq)
           p == Request(m.seq, TRUE)
           Q == [P EXCEPT !.reqs = @ \cup {p}, !.stack = Append(@, f)]
           R == SendMsgSync(W, why, m, fate)
<1>1. /\ P \in Worlds /\ SameKnown(W, P) /\ P.look = W.look /\ P.sock = W.sock
      /\ P.reqs = W.reqs /\ P.stack = W.stack /\ Sound(P, k)
  BY PayKeeps
<1>2. R = IF fate = "lost" THEN Q ELSE [Q EXCEPT !.sock = Append(@, m)]
  BY <1>1 DEF SendMsgSync, SendMsg, Request, Call, Worlds
<1> HIDE DEF P, R
<1>3. m.seq \in Nat \ {0} /\ p \in Requests
  BY DEF IsNew, Request, Requests
<1> HIDE DEF f, p
<1>4. Append(P.stack, f) \in Seq(Frames) /\ Append(P.stack, f) # <<>>
  <2>1. P.stack \in Seq(Frames) /\ f \in Frames
    BY <1>1, WorldFields DEF f
  <2>2. QED
    BY <2>1, AppendFacts
<1>5. /\ Q \in Worlds /\ SameKnown(P, Q) /\ Q.look = P.look /\ Q.sock = P.sock
      /\ Q.stack = Append(P.stack, f) /\ Q.reqs = P.reqs \cup {p}
  BY <1>1, <1>3, <1>4 DEF Worlds, SameKnown
<1> HIDE DEF Q
<1>6. Shared(P) \/ (P.stack = <<>> /\ why = "info")
  BY <1>1 DEF Shared, SameKnown
<1>7. ~Pending(P, m.seq)
  BY <1>1 DEF IsNew, Pending
<1>8. why = "refresh" => LooksAt(P, Head(P.look.todo))
  BY <1>1 DEF LooksAt
<1>9. Good(Q, k)
  <2>1. /\ \A j \in DOMAIN P.stack : P.stack[j].seq # m.seq
        /\ \A j \in DOMAIN P.sock : P.sock[j].seq # m.seq
        /\ why = "event" \/ P.stack = <<>>
    BY <1>1 DEF IsNew
  <2>2. QED
    BY <1>1, <1>3, <1>5, <1>6, <1>7, <1>8, <2>1, CallAdded DEF f, p
<1>10. CASE fate = "lost"
  BY <1>2, <1>9, <1>10 DEF R
<1>11. CASE fate # "lost"
  <2>1. Append(Q.sock, m) \in Seq(Messages)
    BY <1>5, AppendFacts, WorldFields DEF Truthful
  <2>2. /\ R \in Worlds /\ SameKnown(Q, R) /\ R.look = Q.look /\ R.stack = Q.stack
        /\ R.reqs = Q.reqs /\ R.sock = Append(Q.sock, m)
    BY <1>2, <1>5, <1>11, <2>1 DEF Worlds, SameKnown
  <2>3. LookFrame(Q) => OwnAnswer(Q, m)
    <3>1. CASE W.stack = <<>>
      <4>1. Q.stack[1] = f
        BY <1>1, <1>4, <1>5, <3>1, AppendFacts, EmptySeq, WorldFields DEF f
      <4>2. Q.stack[1].why = why
        BY <4>1 DEF f, Call
      <4>3. QED
        BY <1>1, <1>5, <4>2 DEF LookFrame, OwnAnswer, LooksAt
    <3>2. CASE W.stack # <<>>
      <4>1. 1 \in DOMAIN W.stack /\ Q.stack[1] = W.stack[1]
        BY <1>1, <1>5, <3>2, AppendFacts, TailFacts, WorldFields DEF f
      <4>2. QED
        BY <4>1 DEF OwnAnswer, IsNew
    <3>3. QED
      BY <3>1, <3>2
  <2>4. /\ m \in Messages /\ GoodMsg(m) /\ m.type # "del"
        /\ m.type = "new" => m.seq # 0 /\ m.index = k[m.name]
        /\ m.type = "ack" => k[m.name] = m.index
    BY <1>3 DEF Truthful
  <2>5. Good(R, k)
    BY <1>5, <1>9, <2>2, <2>3, <2>4, MessageAdded
  <2>6. QED
    BY <2>5 DEF R
<1>12. QED
  BY <1>10, <1>11 DEF R

LEMMA AnswerIs ==
  ASSUME NEW W \in Worlds, IsFiniteSet(W.reqs), kern \in Kernels, NEW t \in {"new", "ack"},
         NEW i \in Nat \ {0}
  PROVE  /\ IsNew(W, Answer(W, t, i).seq) /\ Truthful(Answer(W, t, i), kern)
         /\ Answer(W, t, i).type \in {t, "error"}
         /\ Answer(W, t, i).type = t => kern[Answer(W, t, i).name] = i
<1>1. IsNew(W, Fresh(W))
  BY FreshSeq DEF IsNew
<1>2. Fresh(W) \in Nat
  BY <1>1 DEF IsNew
<1>3. CASE \E n \in Names : kern[n] = i
  <2> DEFINE n == CHOOSE n \in Names : kern[n] = i
  <2>1. n \in Names /\ kern[n] = i
    BY <1>3
  <2>2. Answer(W, t, i) = Msg(t, Fresh(W), n, i)
    BY <1>3 DEF Answer
  <2> HIDE DEF n
  <2>3. QED
    BY <1>1, <1>2, <2>1, <2>2 DEF Msg, Truthful, Messages, GoodMsg
<1>4. CASE ~\E n \in Names : kern[n] = i
  <2>1. Answer(W, t, i) = Msg("error", Fresh(W), Main, 0)
    BY <1>4 DEF Answer
  <2>2. QED
    BY <1>1, <1>2, <2>1, NlAssumption DEF Msg, Truthful, Messages, GoodMsg
<1>5. QED
  BY <1>3, <1>4

\* A look at an interface of the kernel, and any other question
LEMMA GetInterfaceKeeps ==
  ASSUME NEW W \in Worlds, NEW why \in {"refresh", "link", "event", "status"}, NEW i \in Nat \ {0},
         NEW fate, why = "event" \/ W.stack = <<>>,
         why = "refresh" => LooksAt(W, Head(W.look.todo)) /\ i = W.look.cur,
         Good(W, kern)
  PROVE  Good(GetInterface(W, why, i, fate), kern)
<1> DEFINE m == Answer(W, "new", i)
<1>1. /\ IsNew(W, m.seq) /\ Truthful(m, kern) /\ m.type \in {"new", "error"}
      /\ m.type = "new" => kern[m.name] = i
  BY AnswerIs DEF Good, Sound, Typed
<1>2. GetInterface(W, why, i, fate) = SendMsgSync(W, why, m, fate)
  BY DEF GetInterface
<1> HIDE DEF m
<1>3. CASE fate = "unsent"
  BY <1>2, <1>3, PayKeeps DEF SendMsgSync
<1>4. CASE fate # "unsent"
  <2>1. why = "refresh" /\ m.type = "new" => LooksAt(W, m.name)
    <3>1. SUFFICES ASSUME why = "refresh", m.type = "new" PROVE LooksAt(W, m.name)
      OBVIOUS
    <3>2. m.name \in Names /\ Head(W.look.todo) \in Names
      <4>1. W.look.todo \in Seq(Names) /\ W.look.todo # <<>>
        BY <3>1, WorldFields DEF Looks, LooksAt
      <4>2. QED
        BY <1>1, <4>1, TailFacts DEF Truthful, Messages
    <3>3. Held(W, kern, m.name, i) /\ Held(W, kern, Head(W.look.todo), i)
      BY <1>1, <3>1 DEF Held
    <3>4. m.name = Head(W.look.todo)
      BY <3>2, <3>3 DEF Good, Sound, Unique
    <3>5. QED
      BY <3>1, <3>4
  <2>2. Call(why, m.seq) \in Frames
    BY <1>1, NlAssumption DEF IsNew, Call, Frames
  <2>3. m.type # "ack"
    BY <1>1
  <2>4. QED
    BY <1>1, <1>2, <1>4, <2>1, <2>2, <2>3, CallKeeps DEF Good
<1>5. QED
  BY <1>3, <1>4

-----------------------------------------------------------------------------
(* Answers and expired requests *)

\* An index that belongs to one interface may be learnt.
Free(W, k, n, i) == i < Limit(W) /\ \A o \in Names : Held(W, k, o, i) => o = n

LEMMA UniqueLearnt ==
  ASSUME NEW W, NEW V, NEW k, NEW l, NEW n, NEW i, Unique(W, k), Limit(W) \in Int,
         Limit(V) \in Int, Limit(W) <= Limit(V), i < Limit(V),
         \A o \in Names : Held(W, k, o, i) => o = n,
         \A x \in Names, j \in Nat \ {0} : Held(V, l, x, j) => Held(W, k, x, j) \/ (x = n /\ j = i)
  PROVE  Unique(V, l)
<1>1. SUFFICES ASSUME NEW j \in Nat \ {0}, NEW x \in Names, Held(V, l, x, j)
               PROVE  j < Limit(V) /\ \A o \in Names : Held(V, l, o, j) => o = x
  BY DEF Unique
<1>2. Held(W, k, x, j) \/ (x = n /\ j = i)
  BY <1>1
<1>3. Held(W, k, x, j) => j < Limit(W) /\ \A o \in Names : Held(W, k, o, j) => o = x
  BY DEF Unique
<1>4. j < Limit(V)
  BY <1>2, <1>3
<1>5. ASSUME NEW o \in Names, Held(V, l, o, j) PROVE o = x
  <2>1. Held(W, k, o, j) \/ (o = n /\ j = i)
    BY <1>5
  <2>2. QED
    BY <1>2, <1>3, <2>1
<1>6. QED
  BY <1>4, <1>5

\* What the outermost call may be told when it is a look
Answers(W, k, n, i) ==
  /\ LooksAt(W, n)
  /\ Watched(W, n) /\ Calm(W.sock, n) => i = k[n]
  /\ n = Main /\ ~W.strayed => Alive(W.sock, k[Main], i)

LEMMA EndRequestsKeeps ==
  ASSUME NEW W \in Worlds, NEW k, NEW seqs, NEW got \in {"ok", "error"}, NEW n \in Names,
         NEW i \in Nat, \A s \in seqs : Pending(W, s),
         got = "ok" => i > 0 /\ Free(W, k, n, i),
         got = "ok" /\ LookFrame(W) /\ W.stack[1].seq \in seqs => Answers(W, k, n, i),
         Good(W, k)
  PROVE  Good(EndRequests(W, seqs, got, n, i), k)
<1> DEFINE V == EndRequests(W, seqs, got, n, i)
           N == Len(W.stack)
           g(f) == IF f.seq \in seqs THEN [f EXCEPT !.got = got, !.name = n, !.index = i] ELSE f
<1>1. /\ N \in Nat /\ DOMAIN W.stack = 1..N /\ \A j \in 1..N : W.stack[j] \in Frames
      /\ W.stack \in Seq(Frames) /\ (W.stack = <<>> <=> N = 0)
  BY WorldFields, LenProperties, ElementOfSeq, EmptySeq
<1>2. \A f \in Frames : /\ g(f) \in Frames /\ g(f).seq = f.seq /\ g(f).why = f.why
                        /\ f.seq \notin seqs => g(f) = f
                        /\ f.seq \in seqs => g(f).got = got /\ g(f).name = n /\ g(f).index = i
  BY DEF Frames
<1>3. V = [W EXCEPT !.reqs = {r \in W.reqs : r.seq \notin seqs},
                    !.stack = [j \in 1..N |-> g(W.stack[j])]]
  BY <1>1 DEF EndRequests, Worlds
<1> HIDE DEF V, g, N
<1> DEFINE T == [j \in 1..N |-> g(W.stack[j])]
<1>4. T \in Seq(Frames) /\ DOMAIN T = 1..N /\ \A j \in 1..N : T[j] = g(W.stack[j])
  <2>1. T \in [1..N -> Frames]
    BY <1>1, <1>2
  <2>2. QED
    BY <1>1, <2>1, SeqDef
<1> HIDE DEF T
<1>5. /\ V \in Worlds /\ SameKnown(W, V) /\ V.look = W.look /\ V.sock = W.sock
      /\ V.stack = T /\ V.reqs = {r \in W.reqs : r.seq \notin seqs}
  BY <1>3, <1>4 DEF Worlds, SameKnown, T
<1>6. W.stack = <<>> <=> V.stack = <<>>
  BY <1>1, <1>4, <1>5, EmptySeq
<1>7. W.stack # <<>> => 1 \in 1..N /\ V.stack[1] = g(W.stack[1]) /\ W.stack[1] \in Frames
  BY <1>1, <1>4, <1>5
<1>8. Typed(V, k)
  BY <1>5, FS_Subset DEF Good, Sound, Typed
<1>9. \A x : Pending(V, x) <=> Pending(W, x) /\ x \notin seqs
  BY <1>5 DEF Pending
<1>10. CallsWait(V)
  <2>1. SUFFICES ASSUME NEW j \in 1..N
                 PROVE  T[j].got = "none" <=> Pending(V, T[j].seq)
    BY <1>4, <1>5, Zenon DEF CallsWait
  <2>2. W.stack[j] \in Frames /\ T[j] = g(W.stack[j])
    BY <1>1, <1>4
  <2>3. W.stack[j].got = "none" <=> Pending(W, W.stack[j].seq)
    BY <1>1 DEF Good, Sound, Coherent, CallsWait
  <2>4. QED
    BY <1>2, <1>9, <2>2, <2>3
<1>11. SyncAwaited(V)
  <2>1. \A j \in 1..N : T[j].seq = W.stack[j].seq
    BY <1>1, <1>2, <1>4
  <2>2. \A r \in W.reqs : r.sync <=> \E j \in 1..N : W.stack[j].seq = r.seq
    BY <1>1 DEF Good, Sound, Coherent, SyncAwaited
  <2>3. QED
    BY <1>4, <1>5, <2>1, <2>2 DEF SyncAwaited
<1>12. Shape(V)
  <2>1. \A j \in DOMAIN V.sock : GoodMsg(V.sock[j])
    BY <1>5 DEF Good, Sound, Shape
  <2>2. ASSUME NEW j \in 1..N PROVE GoodFrame(T[j]) /\ (j > 1 => T[j].why = "event")
    <3>1. W.stack[j] \in Frames /\ T[j] = g(W.stack[j])
      BY <1>1, <1>4
    <3>2. GoodFrame(W.stack[j]) /\ (j > 1 => W.stack[j].why = "event")
      BY <1>1 DEF Good, Sound, Shape
    <3>3. QED
      BY <1>2, <3>1, <3>2 DEF GoodFrame
  <2>3. LookFrame(V) => LookFrame(W)
    BY <1>2, <1>6, <1>7 DEF LookFrame
  <2>4. \A x : LooksAt(V, x) <=> LooksAt(W, x)
    BY <1>5 DEF LooksAt
  <2>5. ASSUME LookFrame(V)
        PROVE  /\ LooksAt(V, Head(V.look.todo))
               /\ V.stack[1].got = "ok" => LooksAt(V, V.stack[1].name)
               /\ \A j \in DOMAIN V.sock : OwnAnswer(V, V.sock[j])
    <3>1. /\ LookFrame(W) /\ LooksAt(W, Head(W.look.todo))
          /\ W.stack[1].got = "ok" => LooksAt(W, W.stack[1].name)
          /\ \A j \in DOMAIN W.sock : OwnAnswer(W, W.sock[j])
      BY <2>3, <2>5 DEF Good, Sound, Shape
    <3>2. V.stack[1].seq = W.stack[1].seq
      BY <1>2, <1>7, <3>1 DEF LookFrame
    <3>3. LooksAt(V, Head(V.look.todo))
      BY <1>5, <2>4, <3>1
    <3>4. V.stack[1].got = "ok" => LooksAt(V, V.stack[1].name)
      BY <1>2, <1>7, <2>4, <3>1 DEF LookFrame, Answers
    <3>5. \A j \in DOMAIN V.sock : OwnAnswer(V, V.sock[j])
      BY <1>5, <2>4, <3>1, <3>2 DEF OwnAnswer
    <3>6. QED
      BY <3>3, <3>4, <3>5
  <2>6. QED
    BY <1>4, <1>5, <2>1, <2>2, <2>5 DEF Shape
<1>13. Unique(V, k)
  <2>1. ASSUME NEW x \in Names, NEW j \in Nat \ {0}, Held(V, k, x, j)
        PROVE  Held(W, k, x, j) \/ (got = "ok" /\ x = n /\ j = i)
    <3>1. CASE \E p \in 1..N : T[p].got = "ok" /\ T[p].name = x /\ T[p].index = j
      <4>1. PICK p \in 1..N : T[p].got = "ok" /\ T[p].name = x /\ T[p].index = j
        BY <3>1
      <4>2. W.stack[p] \in Frames /\ T[p] = g(W.stack[p]) /\ p \in DOMAIN W.stack
        BY <1>1, <1>4
      <4>3. QED
        BY <1>2, <4>1, <4>2 DEF Held
    <3>2. CASE ~\E p \in 1..N : T[p].got = "ok" /\ T[p].name = x /\ T[p].index = j
      BY <1>4, <1>5, <2>1, <3>2 DEF Held, SameKnown, LooksAt
    <3>3. QED
      BY <3>1, <3>2
  <2>2. Limit(W) \in Int /\ Limit(V) = Limit(W)
    BY <1>5, LimitIsInt DEF Limit, SameKnown
  <2>3. Unique(W, k)
    BY DEF Good, Sound
  <2>4. CASE got = "ok"
    <3>1. i < Limit(V) /\ \A o \in Names : Held(W, k, o, i) => o = n
      BY <2>2, <2>4 DEF Free
    <3>2. QED
      BY <2>1, <2>2, <2>3, <3>1, UniqueLearnt
  <2>5. CASE got # "ok"
    BY <2>1, <2>2, <2>3, <2>5, UniqueKept
  <2>6. QED
    BY <2>4, <2>5
<1>14. \A x : Answered(V, x) =>
         \/ Answered(W, x) /\ V.stack[1].index = W.stack[1].index
         \/ V.stack[1].index = i /\ x = n /\ Answers(W, k, n, i)
  <2>1. SUFFICES ASSUME NEW x, Answered(V, x)
                 PROVE  \/ Answered(W, x) /\ V.stack[1].index = W.stack[1].index
                        \/ V.stack[1].index = i /\ x = n /\ Answers(W, k, n, i)
    OBVIOUS
  <2>2. W.stack # <<>> /\ W.stack[1].why = "refresh" /\ V.stack[1].got = "ok" /\ Head(W.look.todo) = x
    BY <1>2, <1>5, <1>6, <1>7, <2>1 DEF Answered
  <2>3. CASE W.stack[1].seq \in seqs
    <3>1. got = "ok" /\ V.stack[1].index = i
      BY <1>2, <1>7, <2>2, <2>3
    <3>2. Answers(W, k, n, i)
      BY <2>2, <2>3, <3>1 DEF LookFrame
    <3>3. QED
      BY <2>2, <3>1, <3>2 DEF Answers, LooksAt
  <2>4. CASE W.stack[1].seq \notin seqs
    BY <1>2, <1>7, <2>2, <2>4 DEF Answered
  <2>5. QED
    BY <2>3, <2>4
<1>15. \A x : Watched(V, x) <=> Watched(W, x)
  BY <1>5 DEF Watched, LooksAt, SameKnown
<1>16. Trusted(V, k)
  BY <1>5, <1>14, <1>15 DEF Good, Sound, Trusted, Knows, Learnt, Answers, SameKnown
<1>17. Gone(V, k[Main])
  BY <1>5, <1>14 DEF Good, Sound, Gone, Answers, SameKnown
<1>18. Shared(V)
  BY <1>2, <1>5, <1>6, <1>7 DEF Good, Shared, SameKnown
<1>19. QED
  BY <1>8, <1>10, <1>11, <1>12, <1>13, <1>16, <1>17, <1>18 DEF Good, Sound, Coherent, V

LEMMA ClearExpiredKeeps ==
  ASSUME NEW W \in Worlds, NEW k, Good(W, k)
  PROVE  Good(ClearExpired(W), k)
<1>1. \A s \in {r.seq : r \in {q \in W.reqs : q.over}} : Pending(W, s)
  BY DEF Pending
<1>2. Main \in Names
  BY NlAssumption
<1>3. QED
  BY <1>1, <1>2, EndRequestsKeeps DEF ClearExpired

-----------------------------------------------------------------------------
(* Reading *)

\* Whatever is not an event leaves the socket without a trace.
LEMMA ReadKeeps ==
  ASSUME NEW W \in Worlds, NEW V \in Worlds, NEW k, SameKnown(W, V), V.look = W.look,
         V.stack = W.stack, V.reqs = W.reqs, W.sock # <<>>, V.sock = Tail(W.sock),
         Head(W.sock).type # "del", Head(W.sock).type = "new" => Head(W.sock).seq # 0,
         Good(W, k)
  PROVE  Good(V, k)
<1> DEFINE q == W.sock
<1> USE DEF SameKnown
<1>1. /\ q \in Seq(Messages) /\ Len(q) \in Nat /\ DOMAIN q = 1..Len(q)
      /\ DOMAIN V.sock = 1..(Len(q) - 1)
      /\ \A j \in 1..(Len(q) - 1) : V.sock[j] = q[j + 1]
  BY TailFacts, WorldFields
<1>2. Typed(V, k)
  BY DEF Good, Sound, Typed
<1>3. Coherent(V)
  BY DEF Good, Sound, Coherent, CallsWait, SyncAwaited, Pending
<1>4. \A j \in DOMAIN V.sock : j + 1 \in DOMAIN q /\ V.sock[j] = q[j + 1]
  BY <1>1
<1>5. Shape(V)
  BY <1>4 DEF Good, Sound, Shape, LookFrame, OwnAnswer, LooksAt
<1>6. Unique(V, k)
  <2>1. \A x \in Names, i \in Nat \ {0} : Held(V, k, x, i) => Held(W, k, x, i)
    BY <1>4 DEF Held, LooksAt
  <2>2. QED
    BY <2>1, UniqueKept, LimitIsInt DEF Good, Sound, Limit
<1>7. \A x : Calm(V.sock, x) <=> Calm(q, x)
  BY <1>1, CalmTail DEF IsEvent, IsAbout
<1>8. \A x, v : Agrees(q, x, v) => Agrees(V.sock, x, v)
  BY <1>1, AgreesTail
<1>9. Trusted(V, k)
  BY <1>7, <1>8 DEF Good, Sound, Trusted, Knows, Learnt, Watched, LooksAt, Answered
<1>10. News(q, k[Main]) => News(V.sock, k[Main])
  BY <1>1, NewsTail
<1>11. \A i : Alive(q, k[Main], i) => Alive(V.sock, k[Main], i)
  BY <1>1, AliveTail DEF Removes
<1>12. Gone(V, k[Main]) /\ Shared(V)
  BY <1>10, <1>11 DEF Good, Sound, Gone, Answered, Shared
<1>13. QED
  BY <1>2, <1>3, <1>5, <1>6, <1>9, <1>12 DEF Good, Sound

\* All but what pwhm knows of n and, as pwhm is about to be told, what the radio has
Told(W, k, n) ==
  /\ Typed(W, k) /\ Coherent(W) /\ Shape(W) /\ Unique(W, k)
  /\ \A x \in Names : /\ Watched(W, x) => Agrees(W.sock, x, k[x])
                      /\ x # n => Knows(W, k, x)
                      /\ Learnt(W, k, x)

\* What is read about an interface
LEMMA EventRead ==
  ASSUME NEW W \in Worlds, NEW V \in Worlds, NEW k, NEW n, NEW m, W.sock # <<>>, m = Head(W.sock),
         m.type \in {"new", "del"}, n = m.name,
         Takes(W, V, n), Good(W, k)
  PROVE  /\ n \in Names /\ m.index \in Nat \ {0} /\ Told(V, k, n) /\ Free(V, k, n, m.index)
         /\ n \notin V.doubt /\ Calm(V.sock, n) => Says(m) = k[n]
         /\ Shared(V) /\ V.stack = W.stack /\ SameKnown(W, V)
         /\ m.type = "new" =>
              Gone(V, k[Main]) /\ (n = Main /\ ~V.strayed => Alive(V.sock, k[Main], m.index))
         /\ ~V.strayed =>
              /\ V.radIndex # m.index \/ n # Main => Alive(V.sock, k[Main], V.radIndex)
              /\ n # Main => Alive(V.sock, k[Main], V.index[Main])
              /\ News(V.sock, k[Main])
              /\ Answered(V, Main) /\ ~V.look.crossed => Alive(V.sock, k[Main], V.stack[1].index)
<1> DEFINE q == W.sock
<1>1. /\ q \in Seq(Messages) /\ Len(q) \in Nat /\ DOMAIN q = 1..Len(q) /\ 1 \in DOMAIN q
      /\ m = q[1] /\ m \in Messages
      /\ Tail(q) \in Seq(Messages) /\ DOMAIN Tail(q) = 1..(Len(q) - 1)
      /\ \A j \in 1..(Len(q) - 1) : Tail(q)[j] = q[j + 1]
  BY TailFacts, WorldFields
<1>2. /\ V.sock = Tail(q) /\ V.reqs = W.reqs /\ V.stack = W.stack /\ SameKnown(W, V)
      /\ V.look.todo = W.look.todo /\ V.look.cur = W.look.cur /\ V.look.clean = W.look.clean
      /\ V.look.crossed = (W.look.crossed \/ Answered(W, n))
  BY WorldFields DEF Takes, Read, Crossed, Worlds, Looks, SameKnown, Answered
<1> USE DEF SameKnown
<1>3. n \in Names /\ GoodMsg(m) /\ m.index \in Nat \ {0}
  BY <1>1 DEF Messages, Good, Sound, Shape, GoodMsg
<1>4. \A j \in DOMAIN V.sock : j + 1 \in DOMAIN q /\ V.sock[j] = q[j + 1]
  <2> DEFINE u == Tail(q)
  <2>1. DOMAIN u = 1..(Len(q) - 1) /\ \A j \in 1..(Len(q) - 1) : u[j] = q[j + 1]
    BY <1>1
  <2> HIDE DEF u
  <2>2. \A j \in DOMAIN u : j + 1 \in DOMAIN q /\ u[j] = q[j + 1]
    BY <1>1, <2>1
  <2>3. V.sock = u
    BY <1>2 DEF u
  <2>4. QED
    BY <2>2, <2>3
<1>5. Typed(V, k) /\ Coherent(V)
  BY <1>2 DEF Good, Sound, Typed, Coherent, CallsWait, SyncAwaited, Pending
<1>6. Shape(V)
  BY <1>2, <1>4 DEF Good, Sound, Shape, LookFrame, OwnAnswer, LooksAt
<1>7. \A x \in Names, i \in Nat \ {0} : Held(V, k, x, i) => Held(W, k, x, i)
  BY <1>2, <1>4 DEF Held, LooksAt
<1>8. Unique(V, k)
  BY <1>2, <1>7, UniqueKept, LimitIsInt DEF Good, Sound, Limit
<1>9. Free(V, k, n, m.index)
  <2>1. Held(W, k, n, m.index)
    BY <1>1 DEF Held, Tells
  <2>2. m.index < Limit(W) /\ \A o \in Names : Held(W, k, o, m.index) => o = n
    BY <1>3, <2>1 DEF Good, Sound, Unique
  <2>3. QED
    BY <1>2, <1>3, <1>7, <2>2 DEF Free, Limit
<1>10. \A x : (Watched(V, x) <=> Watched(W, x)) /\ (Answered(V, x) <=> Answered(W, x))
  BY <1>2 DEF Watched, LooksAt, Answered
<1>11. \A x : x # n => (Calm(V.sock, x) <=> Calm(q, x))
  BY <1>1, <1>2, CalmTail DEF IsEvent, IsAbout
<1>12. \A x, v : Agrees(q, x, v) => Agrees(V.sock, x, v)
  BY <1>1, <1>2, AgreesTail
<1>13. ASSUME NEW x \in Names
       PROVE  /\ Watched(V, x) => Agrees(V.sock, x, k[x])
              /\ x # n => Knows(V, k, x)
              /\ Learnt(V, k, x)
  <2>1. (Watched(W, x) => Agrees(q, x, k[x])) /\ Knows(W, k, x) /\ Learnt(W, k, x)
    BY DEF Good, Sound, Trusted
  <2>2. Learnt(V, k, x)
    BY <1>2, <1>10, <1>11, <2>1 DEF Learnt, Answered
  <2>3. x # n => Knows(V, k, x)
    BY <1>2, <1>11, <2>1 DEF Knows
  <2>4. QED
    BY <1>10, <1>12, <2>1, <2>2, <2>3
<1>14. Told(V, k, n)
  BY <1>5, <1>6, <1>8, <1>13 DEF Told
<1>15. n \notin V.doubt /\ Calm(V.sock, n) => Says(m) = k[n]
  <2>1. SUFFICES ASSUME n \notin V.doubt, Calm(V.sock, n) PROVE Says(m) = k[n]
    OBVIOUS
  <2>2. Agrees(q, n, k[n])
    BY <1>2, <1>3, <2>1 DEF Good, Sound, Trusted, Watched
  <2>3. IsAbout(Head(q), n)
    BY DEF IsAbout
  <2>4. QED
    BY <1>1, <1>2, <2>1, <2>2, <2>3, HeadSays
<1>16. Shared(V)
  BY <1>2 DEF Good, Shared
<1>17. News(q, k[Main]) => News(V.sock, k[Main])
  BY <1>1, <1>2, NewsTail
<1>18. \A i : Alive(q, k[Main], i) /\ (m.type = "new" \/ n # Main \/ i # m.index)
                => Alive(V.sock, k[Main], i)
  BY <1>1, <1>2, AliveTail DEF Removes
<1>19. /\ Alive(q, k[Main], W.radIndex) \/ W.strayed
       /\ Alive(q, k[Main], W.index[Main]) \/ W.strayed
       /\ News(q, k[Main]) \/ W.strayed
       /\ Answered(W, Main) /\ ~W.look.crossed => Alive(q, k[Main], W.stack[1].index) \/ W.strayed
  BY DEF Good, Sound, Gone
<1>20. m.type = "new" => Gone(V, k[Main])
  BY <1>2, <1>10, <1>17, <1>18, <1>19 DEF Gone
<1>21. m.type = "new" /\ n = Main /\ ~V.strayed => Alive(V.sock, k[Main], m.index)
  BY <1>1, <1>2, <1>19, AliveHead
<1>22. Answered(V, Main) /\ ~V.look.crossed => n # Main
  BY <1>2, <1>10 DEF Answered
<1>23. ~V.strayed =>
         /\ V.radIndex # m.index \/ n # Main => Alive(V.sock, k[Main], V.radIndex)
         /\ n # Main => Alive(V.sock, k[Main], V.index[Main])
         /\ News(V.sock, k[Main])
         /\ Answered(V, Main) /\ ~V.look.crossed => Alive(V.sock, k[Main], V.stack[1].index)
  BY <1>2, <1>10, <1>17, <1>18, <1>19, <1>22
<1>24. QED
  BY <1>2, <1>3, <1>9, <1>14, <1>15, <1>16, <1>20, <1>21, <1>23

\* s_newInterfaceCb
LEMMA NewInterfaceKeeps ==
  ASSUME NEW W \in Worlds, NEW k, NEW n \in Names, NEW i \in Nat \ {0}, Told(W, k, n),
         Free(W, k, n, i), n \notin W.doubt /\ Calm(W.sock, n) => i = k[n],
         Gone(W, k[Main]), n = Main /\ ~W.strayed => Alive(W.sock, k[Main], i), Shared(W)
  PROVE  /\ Good(NewInterface(W, n, i), k)
         /\ NewInterface(W, n, i) \in Worlds /\ NewInterface(W, n, i).stack = W.stack
<1> DEFINE V == NewInterface(W, n, i)
<1>1. /\ V \in Worlds /\ V.sock = W.sock /\ V.reqs = W.reqs /\ V.stack = W.stack
      /\ V.look = W.look /\ V.doubt = W.doubt /\ V.strayed = W.strayed /\ V.left = W.left
      /\ V.radIndex = IF n = Main THEN i ELSE W.radIndex
      /\ V.index = [W.index EXCEPT ![n] = i] /\ V.lis = [W.lis EXCEPT ![n] = i]
  BY DEF NewInterface, Worlds
<1> HIDE DEF V
<1>2. /\ \A x \in Names : V.index[x] = (IF x = n THEN i ELSE W.index[x])
      /\ \A x \in Names : V.lis[x] = (IF x = n THEN i ELSE W.lis[x])
      /\ Main \in Names
  BY <1>1, WorldFields, NlAssumption
<1>3. Typed(V, k) /\ Coherent(V) /\ Shape(V)
  BY <1>1 DEF Told, Typed, Coherent, CallsWait, SyncAwaited, Pending, Shape, LookFrame, OwnAnswer,
              LooksAt
<1>4. Unique(V, k)
  <2>1. \A x \in Names, j \in Nat \ {0} :
          Held(V, k, x, j) => Held(W, k, x, j) \/ (x = n /\ j = i)
    BY <1>1, <1>2 DEF Held, LooksAt
  <2>2. Limit(V) = Limit(W) /\ Limit(W) \in Int
    BY <1>1, LimitIsInt DEF Limit
  <2>3. /\ Unique(W, k) /\ i < Limit(V) /\ \A o \in Names : Held(W, k, o, i) => o = n
        /\ Limit(V) \in Int /\ Limit(W) <= Limit(V)
    BY <2>2 DEF Told, Free
  <2>4. QED
    BY <2>1, <2>2, <2>3, UniqueLearnt
<1>5. Trusted(V, k)
  <2>1. SUFFICES ASSUME NEW x \in Names
                 PROVE  /\ Watched(V, x) => Agrees(V.sock, x, k[x])
                        /\ Knows(V, k, x) /\ Learnt(V, k, x)
    BY DEF Trusted
  <2>2. /\ Watched(W, x) => Agrees(W.sock, x, k[x])
        /\ x # n => Knows(W, k, x)
        /\ Learnt(W, k, x)
    BY DEF Told
  <2>3. Knows(V, k, x)
    BY <1>1, <1>2, <2>2 DEF Knows
  <2>4. QED
    BY <1>1, <2>2, <2>3 DEF Watched, LooksAt, Learnt, Answered
<1>6. Gone(V, k[Main])
  BY <1>1, <1>2 DEF Gone, Answered
<1>7. Shared(V)
  BY <1>1, <1>2 DEF Shared
<1>8. QED
  BY <1>1, <1>3, <1>4, <1>5, <1>6, <1>7 DEF Good, Sound, V

\* s_delInterfaceCb
LEMMA DelInterfaceKeeps ==
  ASSUME NEW W \in Worlds, NEW k, NEW n \in Names, NEW i \in Nat \ {0}, Told(W, k, n),
         n # Main => W.radIndex # i, n \notin W.doubt /\ Calm(W.sock, n) => k[n] = 0,
         ~W.strayed =>
           /\ W.radIndex # i => Alive(W.sock, k[Main], W.radIndex)
           /\ n # Main => Alive(W.sock, k[Main], W.index[Main])
           /\ News(W.sock, k[Main])
           /\ Answered(W, Main) /\ ~W.look.crossed => Alive(W.sock, k[Main], W.stack[1].index),
         Shared(W)
  PROVE  /\ Good(DelInterface(W, n, i), k)
         /\ DelInterface(W, n, i) \in Worlds /\ DelInterface(W, n, i).stack = W.stack
<1> DEFINE V == DelInterface(W, n, i)
<1>1. /\ V \in Worlds /\ V.sock = W.sock /\ V.reqs = W.reqs /\ V.stack = W.stack
      /\ V.look = W.look /\ V.doubt = W.doubt /\ V.strayed = W.strayed /\ V.left = W.left
      /\ V.radIndex = IF W.radIndex = i THEN 0 ELSE W.radIndex
      /\ V.index = [W.index EXCEPT ![n] = 0] /\ V.lis = [W.lis EXCEPT ![n] = 0]
  BY DEF DelInterface, Worlds
<1> HIDE DEF V
<1>2. /\ \A x \in Names : V.index[x] = (IF x = n THEN 0 ELSE W.index[x])
      /\ \A x \in Names : V.lis[x] = (IF x = n THEN 0 ELSE W.lis[x])
      /\ Main \in Names
  BY <1>1, WorldFields, NlAssumption
<1>3. Typed(V, k) /\ Coherent(V) /\ Shape(V)
  BY <1>1 DEF Told, Typed, Coherent, CallsWait, SyncAwaited, Pending, Shape, LookFrame, OwnAnswer,
              LooksAt
<1>4. Unique(V, k)
  <2>1. \A x \in Names, j \in Nat \ {0} : Held(V, k, x, j) => Held(W, k, x, j)
    BY <1>1, <1>2 DEF Held, LooksAt
  <2>2. Limit(V) = Limit(W) /\ Limit(W) \in Int
    BY <1>1, LimitIsInt DEF Limit
  <2>3. Unique(W, k) /\ Limit(V) \in Int /\ Limit(W) <= Limit(V)
    BY <2>2 DEF Told
  <2>4. QED
    BY <2>1, <2>2, <2>3, UniqueKept
<1>5. Trusted(V, k)
  <2>1. SUFFICES ASSUME NEW x \in Names
                 PROVE  /\ Watched(V, x) => Agrees(V.sock, x, k[x])
                        /\ Knows(V, k, x) /\ Learnt(V, k, x)
    BY DEF Trusted
  <2>2. /\ Watched(W, x) => Agrees(W.sock, x, k[x])
        /\ x # n => Knows(W, k, x)
        /\ Learnt(W, k, x)
    BY DEF Told
  <2>3. Knows(V, k, x)
    BY <1>1, <1>2, <2>2 DEF Knows
  <2>4. QED
    BY <1>1, <2>2, <2>3 DEF Watched, LooksAt, Learnt, Answered
<1>6. Gone(V, k[Main])
  BY <1>1, <1>2 DEF Gone, Answered, Alive
<1>7. Shared(V)
  BY <1>1, <1>2 DEF Shared
<1>8. QED
  BY <1>1, <1>3, <1>4, <1>5, <1>6, <1>7 DEF Good, Sound, V

LEMMA CheckAllIfacesKeeps ==
  ASSUME NEW W \in Worlds, NEW why \in {"event", "link"}, NEW ask \in Asks, NEW fate,
         why = "event" \/ W.stack = <<>>, Good(W, kern)
  PROVE  Good(CheckAllIfaces(W, why, ask, fate), kern)
<1>1. CASE ask = 0
  BY <1>1 DEF CheckAllIfaces
<1>2. CASE ask # 0
  <2>1. ask \in Nat \ {0}
    BY <1>2, NlAssumption DEF Asks, Good, Sound, Typed, Kernels
  <2>2. Good(GetInterface(W, why, ask, fate), kern)
    BY <2>1, GetInterfaceKeeps
  <2>3. QED
    BY <1>2, <2>2 DEF CheckAllIfaces
<1>3. QED
  BY <1>1, <1>2

\* An answer comes to the request that waits for it.
LEMMA HandleReplyKeeps ==
  ASSUME NEW W \in Worlds, NEW k, NEW V, NEW m, W.sock # <<>>, m = Head(W.sock),
         V = Read(W), Pending(W, m.seq), Good(W, k)
  PROVE  Good(HandleReply(V, m), k)
<1> DEFINE q == W.sock
           n == m.name
           i == m.index
<1>1. /\ q \in Seq(Messages) /\ m = q[1] /\ 1 \in DOMAIN q /\ m \in Messages
      /\ Tail(q) \in Seq(Messages)
  BY TailFacts, WorldFields
<1>2. /\ V \in Worlds /\ SameKnown(W, V) /\ V.look = W.look /\ V.stack = W.stack
      /\ V.reqs = W.reqs /\ V.sock = Tail(q)
  BY <1>1 DEF Worlds, SameKnown, Read
<1>3. m.seq \in Nat \ {0} /\ GoodMsg(m) /\ m.type # "del" /\ n \in Names /\ i \in Nat
  BY <1>1 DEF Pending, Worlds, Requests, Good, Sound, Shape, GoodMsg, Messages
<1>4. Good(V, k)
  BY <1>2, <1>3, ReadKeeps
<1>5. \A s \in {m.seq} : Pending(V, s)
  BY <1>2 DEF Pending
<1>6. CASE m.type \in {"new", "ack"}
  <2>1. i > 0
    BY <1>3, <1>6 DEF GoodMsg
  <2>2. Free(V, k, n, i)
    <3>1. Held(W, k, n, i)
      BY <1>1, <1>6 DEF Held, Tells
    <3>2. i < Limit(W) /\ \A o \in Names : Held(W, k, o, i) => o = n
      BY <1>3, <2>1, <3>1 DEF Good, Sound, Unique
    <3>3. \A j \in DOMAIN V.sock : \E p \in DOMAIN q : V.sock[j] = q[p]
      BY <1>1, <1>2, TailFacts
    <3>4. \A o \in Names : Held(V, k, o, i) => Held(W, k, o, i)
      BY <1>2, <3>3 DEF Held, LooksAt, SameKnown
    <3>5. QED
      BY <1>2, <3>2, <3>4 DEF Free, Limit, SameKnown
  <2>3. LookFrame(V) /\ V.stack[1].seq \in {m.seq} => Answers(V, k, n, i)
    <3>1. SUFFICES ASSUME LookFrame(V), V.stack[1].seq = m.seq PROVE Answers(V, k, n, i)
      BY Zenon
    <3>2. OwnAnswer(W, m)
      BY <1>1, <1>2, <3>1 DEF Good, Sound, Shape, LookFrame
    <3>3. m.type = "new" /\ LooksAt(W, n)
      BY <1>2, <1>6, <3>1, <3>2 DEF OwnAnswer
    <3>4. ASSUME Watched(V, n), Calm(V.sock, n) PROVE i = k[n]
      <4>1. Agrees(q, n, k[n])
        BY <1>2, <1>3, <3>4 DEF Good, Sound, Trusted, Watched, LooksAt, SameKnown
      <4>2. IsAbout(Head(q), n)
        BY <3>3 DEF IsAbout
      <4>3. QED
        BY <1>1, <1>2, <3>3, <3>4, <4>1, <4>2, HeadSays DEF Says
    <3>5. ASSUME n = Main, ~V.strayed PROVE Alive(V.sock, k[Main], i)
      <4>1. News(q, k[Main])
        BY <1>2, <3>5 DEF Good, Sound, Gone, SameKnown
      <4>2. QED
        BY <1>1, <1>2, <3>3, <3>5, <4>1, AliveHead
    <3>6. QED
      BY <1>2, <3>3, <3>4, <3>5 DEF Answers, LooksAt
  <2>4. Good(EndRequests(V, {m.seq}, "ok", n, i), k)
    BY <1>2, <1>3, <1>4, <1>5, <2>1, <2>2, <2>3, EndRequestsKeeps
  <2>5. QED
    BY <1>6, <2>4 DEF HandleReply
<1>7. CASE m.type = "part"
  <2> DEFINE d == Msg("done", m.seq, Main, 0)
             R == [V EXCEPT !.sock = Append(@, d)]
  <2>1. d \in Messages /\ d.type = "done"
    BY <1>3, NlAssumption DEF Msg, Messages
  <2> HIDE DEF d
  <2>2. Append(V.sock, d) \in Seq(Messages)
    BY <1>1, <1>2, <2>1, AppendFacts
  <2>3. /\ R \in Worlds /\ SameKnown(V, R) /\ R.look = V.look /\ R.stack = V.stack
        /\ R.reqs = V.reqs /\ R.sock = Append(V.sock, d)
    BY <1>2, <2>2 DEF Worlds, SameKnown
  <2> HIDE DEF R
  <2>4. GoodMsg(d) /\ OwnAnswer(V, d)
    BY <2>1 DEF GoodMsg, OwnAnswer
  <2>5. Good(R, k)
    BY <1>2, <1>4, <2>1, <2>3, <2>4, MessageAdded
  <2>6. HandleReply(V, m) = R
    BY <1>7 DEF HandleReply, R, d
  <2>7. QED
    BY <2>5, <2>6
<1>8. CASE m.type \notin {"new", "ack", "part"}
  <2>1. Good(EndRequests(V, {m.seq}, "error", Main, 0), k)
    BY <1>2, <1>4, <1>5, EndRequestsKeeps, NlAssumption
  <2>2. QED
    BY <1>8, <2>1 DEF HandleReply
<1>9. QED
  BY <1>6, <1>7, <1>8

LEMMA ScanDoneKeeps ==
  ASSUME NEW W \in Worlds, NEW k, NEW i, NEW fate, Good(W, k)
  PROVE  Good(ScanDone(W, i, fate), k)
<1> DEFINE m == Msg("part", Fresh(W), Main, 0)
<1>1. IsNew(W, Fresh(W))
  BY FreshSeq DEF IsNew, Good, Sound, Typed
<1>2. m.seq = Fresh(W) /\ Truthful(m, k)
  BY <1>1, NlAssumption DEF Msg, Truthful, Messages, GoodMsg, IsNew
<1> HIDE DEF m
<1>3. Good(SendMsg(W, FALSE, m, fate), k)
  BY <1>1, <1>2, SendMsgKeeps
<1>4. Good(Pay(W, fate), k)
  BY PayKeeps
<1>5. QED
  BY <1>3, <1>4 DEF ScanDone, m

\* Everything else
LEMMA HandleEventKeeps ==
  ASSUME NEW W \in Worlds, NEW V, NEW m, NEW ask \in Asks, NEW fate, W.sock # <<>>,
         m = Head(W.sock), V = Read(W), Good(W, kern)
  PROVE  Good(HandleEvent(V, m, ask, fate), kern)
<1> DEFINE U == Crossed(V, m.name)
<1>1. V \in Worlds /\ U \in Worlds
  <2>1. Tail(W.sock) \in Seq(Messages)
    BY TailFacts, WorldFields
  <2>2. V \in Worlds
    BY <2>1 DEF Worlds, Read
  <2>3. QED
    BY <2>2 DEF Worlds, Crossed, Looks
<1>2. CASE m.type = "new"
  <2>1. /\ m.name \in Names /\ m.index \in Nat \ {0} /\ Told(U, kern, m.name)
        /\ Free(U, kern, m.name, m.index)
        /\ m.name \notin U.doubt /\ Calm(U.sock, m.name) => m.index = kern[m.name]
        /\ Shared(U) /\ Gone(U, kern[Main])
        /\ m.name = Main /\ ~U.strayed => Alive(U.sock, kern[Main], m.index)
    BY <1>1, <1>2, EventRead DEF Says, Takes
  <2> DEFINE N == NewInterface(U, m.name, m.index)
  <2> HIDE DEF U
  <2>2. Good(N, kern) /\ N \in Worlds
    BY <1>1, <2>1, NewInterfaceKeeps
  <2> HIDE DEF N
  <2>3. Good(CheckAllIfaces(N, "event", ask, fate), kern)
    BY <2>2, CheckAllIfacesKeeps
  <2>4. QED
    BY <1>2, <2>3 DEF HandleEvent, N, U
<1>3. CASE m.type = "del"
  <2>1. /\ m.name \in Names /\ m.index \in Nat \ {0} /\ Told(U, kern, m.name)
        /\ Free(U, kern, m.name, m.index)
        /\ m.name \notin U.doubt /\ Calm(U.sock, m.name) => kern[m.name] = 0
        /\ Shared(U)
        /\ ~U.strayed =>
             /\ U.radIndex # m.index => Alive(U.sock, kern[Main], U.radIndex)
             /\ m.name # Main => Alive(U.sock, kern[Main], U.index[Main])
             /\ News(U.sock, kern[Main])
             /\ Answered(U, Main) /\ ~U.look.crossed
                  => Alive(U.sock, kern[Main], U.stack[1].index)
    BY <1>1, <1>3, EventRead DEF Says, Takes
  <2> HIDE DEF U
  <2>2. m.name # Main => U.radIndex # m.index
    BY <2>1, NlAssumption DEF Free, Held
  <2>3. Good(DelInterface(U, m.name, m.index), kern)
    BY <1>1, <2>1, <2>2, DelInterfaceKeeps
  <2>4. QED
    BY <1>3, <2>3 DEF HandleEvent, U
<1>4. CASE m.type \notin {"new", "del"}
  <2>1. /\ SameKnown(W, V) /\ V.look = W.look /\ V.stack = W.stack
        /\ V.reqs = W.reqs /\ V.sock = Tail(W.sock)
    BY DEF Worlds, SameKnown, Read
  <2>2. Good(V, kern)
    BY <1>1, <1>4, <2>1, ReadKeeps
  <2>3. Good(ScanDone(V, m.index, fate), kern)
    BY <1>1, <2>2, ScanDoneKeeps
  <2>4. QED
    BY <1>4, <2>2, <2>3 DEF HandleEvent
<1>5. QED
  BY <1>2, <1>3, <1>4

LEMMA HandledKeeps ==
  ASSUME NEW W \in Worlds, NEW ask \in Asks, NEW fate, W.sock # <<>>, Good(W, kern)
  PROVE  Good(Handled(W, ask, fate), kern)
<1> DEFINE m == Head(W.sock)
           V == Read(W)
           H == IF Pending(W, m.seq) THEN HandleReply(V, m) ELSE HandleEvent(V, m, ask, fate)
<1>1. Good(H, kern)
  BY HandleReplyKeeps, HandleEventKeeps
<1>2. Handled(W, ask, fate) = IF Len(H.stack) > Len(W.stack) THEN H ELSE ClearExpired(H)
  BY DEF Handled, Read
<1> HIDE DEF H
<1>3. Good(ClearExpired(H), kern)
  BY <1>1, ClearExpiredKeeps DEF Good, Sound, Typed
<1>4. QED
  BY <1>1, <1>2, <1>3

-----------------------------------------------------------------------------
(* Calls *)

LEMMA FrontFacts ==
  ASSUME NEW X, NEW q \in Seq(X), q # <<>>
  PROVE  /\ Len(q) \in Nat \ {0} /\ DOMAIN q = 1..Len(q) /\ Last(q) = q[Len(q)] /\ Last(q) \in X
         /\ Front(q) \in Seq(X) /\ DOMAIN Front(q) = 1..(Len(q) - 1)
         /\ \A j \in 1..(Len(q) - 1) : Front(q)[j] = q[j]
         /\ Front(q) = <<>> <=> Len(q) = 1
<1>1. Len(q) \in Nat \ {0} /\ DOMAIN q = 1..Len(q) /\ Last(q) = q[Len(q)] /\ Last(q) \in X
  BY EmptySeq, LenProperties, ElementOfSeq DEF Last
<1>2. /\ Front(q) \in Seq(X) /\ Len(Front(q)) = Len(q) - 1
      /\ \A j \in 1..(Len(q) - 1) : Front(q)[j] = q[j]
  BY <1>1, SubSeqProperties DEF Front
<1>3. DOMAIN Front(q) = 1..(Len(q) - 1) /\ (Front(q) = <<>> <=> Len(q) = 1)
  BY <1>1, <1>2, LenProperties, EmptySeq
<1>4. QED
  BY <1>1, <1>2, <1>3

\* The innermost call returns.
LEMMA ReturnKeeps ==
  ASSUME NEW W \in Worlds, NEW V, NEW k, W.stack # <<>>, V = Popped(W),
         ~Pending(W, Last(W.stack).seq), Good(W, k)
  PROVE  /\ V \in Worlds /\ SameKnown(W, V) /\ V.look = W.look /\ V.sock = W.sock
         /\ V.reqs = W.reqs /\ Sound(V, k)
         /\ Last(W.stack).why # "info" => Good(V, k)
         /\ Last(W.stack).why # "event" => V.stack = <<>> /\ Last(W.stack) = W.stack[1]
<1> DEFINE N == Len(W.stack)
           f == Last(W.stack)
<1>1. /\ N \in Nat \ {0} /\ DOMAIN W.stack = 1..N /\ f = W.stack[N] /\ f \in Frames
      /\ Front(W.stack) \in Seq(Frames) /\ DOMAIN Front(W.stack) = 1..(N - 1)
      /\ \A j \in 1..(N - 1) : Front(W.stack)[j] = W.stack[j]
      /\ Front(W.stack) = <<>> <=> N = 1
  BY FrontFacts, WorldFields
<1>2. /\ V \in Worlds /\ SameKnown(W, V) /\ V.look = W.look /\ V.sock = W.sock /\ V.reqs = W.reqs
      /\ V.stack = Front(W.stack)
  BY <1>1 DEF Worlds, SameKnown, Popped
<1> HIDE DEF f, N
<1>3. /\ DOMAIN V.stack = 1..(N - 1) /\ \A j \in 1..(N - 1) : V.stack[j] = W.stack[j]
      /\ V.stack = <<>> <=> N = 1
  BY <1>1, <1>2
<1>4. V.stack # <<>> => V.stack[1] = W.stack[1]
  BY <1>1, <1>3
<1>5. V.stack = <<>> \/ f.why = "event"
  BY <1>1, <1>3 DEF Good, Sound, Shape
<1>6. V.stack = <<>> => f = W.stack[1]
  BY <1>1, <1>3
<1>7. Typed(V, k)
  BY <1>2 DEF Good, Sound, Typed
<1>8. CallsWait(V)
  <2>1. \A j \in 1..N : W.stack[j].got = "none" <=> Pending(W, W.stack[j].seq)
    BY <1>1 DEF Good, Sound, Coherent, CallsWait
  <2>2. \A x : Pending(V, x) <=> Pending(W, x)
    BY <1>2 DEF Pending
  <2>3. QED
    BY <1>1, <1>3, <2>1, <2>2 DEF CallsWait
<1>9. SyncAwaited(V)
  <2>1. SUFFICES ASSUME NEW r \in V.reqs
                 PROVE  r.sync <=> \E j \in 1..(N - 1) : W.stack[j].seq = r.seq
    BY <1>3 DEF SyncAwaited
  <2>2. r.sync <=> \E j \in 1..N : W.stack[j].seq = r.seq
    BY <1>1, <1>2 DEF Good, Sound, Coherent, SyncAwaited
  <2>3. W.stack[N].seq # r.seq
    BY <1>1, <1>2 DEF Pending, f
  <2>4. \A j : j \in 1..N <=> j \in 1..(N - 1) \/ j = N
    BY <1>1
  <2>5. QED
    BY <2>2, <2>3, <2>4, Zenon
<1>10. Shape(V)
  <2>1. LookFrame(V) => LookFrame(W) /\ V.stack[1] = W.stack[1]
    BY <1>1, <1>3, <1>4 DEF LookFrame
  <2>2. \A x : LooksAt(V, x) <=> LooksAt(W, x)
    BY <1>2 DEF LooksAt
  <2>3. \A j \in DOMAIN V.sock : GoodMsg(V.sock[j])
    BY <1>2 DEF Good, Sound, Shape
  <2>4. ASSUME NEW j \in DOMAIN V.stack
        PROVE  GoodFrame(V.stack[j]) /\ (j > 1 => V.stack[j].why = "event")
    <3>1. j \in DOMAIN W.stack /\ V.stack[j] = W.stack[j]
      BY <1>1, <1>3
    <3>2. QED
      BY <3>1 DEF Good, Sound, Shape
  <2>5. LookFrame(V) => /\ LooksAt(V, Head(V.look.todo))
                        /\ V.stack[1].got = "ok" => LooksAt(V, V.stack[1].name)
                        /\ \A j \in DOMAIN V.sock : OwnAnswer(V, V.sock[j])
    BY <1>2, <2>1, <2>2 DEF Good, Sound, Shape, OwnAnswer
  <2>6. QED
    BY <2>3, <2>4, <2>5 DEF Shape
<1>11. Unique(V, k)
  <2>1. \A j \in DOMAIN V.stack : j \in DOMAIN W.stack /\ V.stack[j] = W.stack[j]
    BY <1>1, <1>3
  <2>2. \A x \in Names, i \in Nat \ {0} : Held(V, k, x, i) => Held(W, k, x, i)
    BY <1>2, <2>1 DEF Held, LooksAt, SameKnown
  <2>3. QED
    BY <1>2, <2>2, UniqueKept, LimitIsInt DEF Good, Sound, Limit, SameKnown
<1>12. \A x : Answered(V, x) => Answered(W, x) /\ V.stack[1] = W.stack[1]
  BY <1>2, <1>4 DEF Answered
<1>13. Trusted(V, k)
  BY <1>2, <1>12 DEF Good, Sound, Trusted, Knows, Learnt, Watched, LooksAt, SameKnown
<1>14. Gone(V, k[Main])
  BY <1>2, <1>12 DEF Good, Sound, Gone, SameKnown
<1>15. f.why # "info" => Shared(V)
  BY <1>2, <1>4, <1>5, <1>6 DEF Good, Shared, SameKnown
<1>16. QED
  BY <1>2, <1>5, <1>6, <1>7, <1>8, <1>9, <1>10, <1>11, <1>13, <1>14, <1>15
     DEF Good, Sound, Coherent, f

\* With no call, a look that has not begun tells nothing.
Quiet(W) == W.stack = <<>>

LEMMA NoLookKeeps ==
  ASSUME NEW W \in Worlds, NEW V \in Worlds, NEW k, SameKnown(W, V), Quiet(W),
         V.stack = W.stack, V.sock = W.sock, V.reqs = W.reqs, V.look.cur = 0, Good(W, k)
  PROVE  Good(V, k)
<1> USE DEF SameKnown, Quiet
<1>1. Typed(V, k) /\ Coherent(V)
  BY DEF Good, Sound, Typed, Coherent, CallsWait, SyncAwaited, Pending
<1>2. Shape(V)
  BY DEF Good, Sound, Shape, LookFrame
<1>3. Unique(V, k)
  <2>1. \A x \in Names, i \in Nat \ {0} : Held(V, k, x, i) => Held(W, k, x, i)
    BY DEF Held, LooksAt
  <2>2. QED
    BY <2>1, UniqueKept, LimitIsInt DEF Good, Sound, Limit
<1>4. Trusted(V, k)
  BY DEF Good, Sound, Trusted, Knows, Learnt, Watched, LooksAt, Answered
<1>5. Gone(V, k[Main]) /\ Shared(V)
  BY DEF Good, Sound, Gone, Answered, Shared
<1>6. QED
  BY <1>1, <1>2, <1>3, <1>4, <1>5 DEF Good, Sound

LEMMA NextApKeeps ==
  ASSUME NEW W \in Worlds, NEW k, Quiet(W), W.look.todo # <<>>, Good(W, k)
  PROVE  Good(NextAp(W), k)
<1> DEFINE V == NextAp(W)
<1>1. W.look.todo \in Seq(Names) /\ Tail(W.look.todo) \in Seq(Names)
  BY TailFacts, WorldFields DEF Looks
<1>2. LookAt(Tail(W.look.todo)) \in Looks
  BY <1>1 DEF Looks, LookAt
<1>3. /\ V \in Worlds /\ SameKnown(W, V) /\ V.stack = W.stack /\ V.sock = W.sock
      /\ V.reqs = W.reqs /\ V.look.cur = 0
  BY <1>2 DEF NextAp, Worlds, SameKnown, LookAt
<1> HIDE DEF V
<1>4. Good(V, k)
  BY <1>3, NoLookKeeps
<1>5. QED
  BY <1>4 DEF V

\* The end of a look at n, with what f tells of it.
LEMMA LookedKeeps ==
  ASSUME NEW W \in Worlds, NEW k, NEW n \in Names, NEW f \in Looks, NEW V,
         V = NextAp(Looked(W, n, f)), Quiet(W), W.look.todo # <<>>,
         f.clean /\ ~f.crossed => Agrees(W.sock, n, k[n]), Good(W, k)
  PROVE  /\ V \in Worlds /\ Told(V, k, n) /\ Gone(V, k[Main]) /\ Shared(V)
         /\ V.stack = <<>> /\ V.sock = W.sock /\ V.index = W.index /\ V.lis = W.lis
         /\ V.strayed = (W.strayed \/ (f.crossed /\ n = Main))
         /\ \A x \in Names : \A i : Held(V, k, x, i) => Held(W, k, x, i)
         /\ Limit(V) = Limit(W)
         /\ n \notin V.doubt <=>
              /\ ~f.crossed
              /\ n \notin W.doubt \/ (f.clean /\ (f.cur > 0 \/ W.lis[n] = W.index[n]))
<1> DEFINE U == Looked(W, n, f)
<1>1. W.look.todo \in Seq(Names) /\ Tail(W.look.todo) \in Seq(Names)
  BY TailFacts, WorldFields DEF Looks
<1>2. LookAt(Tail(W.look.todo)) \in Looks
  BY <1>1 DEF Looks, LookAt
<1>3. /\ U \in Worlds /\ U.sock = W.sock /\ U.reqs = W.reqs /\ U.stack = W.stack /\ U.look = W.look
      /\ U.index = W.index /\ U.lis = W.lis /\ U.radIndex = W.radIndex /\ U.left = W.left
      /\ U.strayed = (W.strayed \/ (f.crossed /\ n = Main))
      /\ \A x \in Names : x # n => (x \in U.doubt <=> x \in W.doubt)
      /\ n \notin U.doubt <=>
           /\ ~f.crossed
           /\ n \notin W.doubt \/ (f.clean /\ (f.cur > 0 \/ W.lis[n] = W.index[n]))
  BY DEF Looked, Worlds, Looks
<1> HIDE DEF U
<1>4. /\ V \in Worlds /\ V.sock = W.sock /\ V.reqs = W.reqs /\ V.stack = <<>> /\ W.stack = <<>>
      /\ V.index = W.index /\ V.lis = W.lis /\ V.radIndex = W.radIndex /\ V.left = W.left
      /\ V.strayed = U.strayed /\ V.doubt = U.doubt /\ V.look.cur = 0
  BY <1>2, <1>3 DEF NextAp, Worlds, Quiet, LookAt, U
<1>5. Typed(V, k) /\ Coherent(V)
  BY <1>4 DEF Good, Sound, Typed, Coherent, CallsWait, SyncAwaited, Pending
<1>6. Shape(V)
  BY <1>4 DEF Good, Sound, Shape, LookFrame
<1>7. \A x \in Names : \A i : Held(V, k, x, i) => Held(W, k, x, i)
  BY <1>4 DEF Held, LooksAt
<1>8. Limit(V) = Limit(W)
  BY <1>4 DEF Limit
<1>9. Unique(V, k)
  BY <1>7, <1>8, UniqueKept, LimitIsInt DEF Good, Sound
<1>10. ASSUME NEW x \in Names
       PROVE  /\ Watched(V, x) => Agrees(V.sock, x, k[x])
              /\ x # n => Knows(V, k, x)
              /\ Learnt(V, k, x)
  <2>1. (Watched(W, x) => Agrees(W.sock, x, k[x])) /\ Knows(W, k, x)
    BY DEF Good, Sound, Trusted
  <2>2. Watched(V, x) => x \notin V.doubt
    BY <1>4 DEF Watched, LooksAt
  <2>3. ~Answered(V, x)
    BY <1>4 DEF Answered
  <2>4. CASE x = n
    BY <1>3, <1>4, <2>1, <2>2, <2>3, <2>4 DEF Watched, Learnt
  <2>5. CASE x # n
    BY <1>3, <1>4, <2>1, <2>2, <2>3, <2>5 DEF Watched, Learnt, Knows
  <2>6. QED
    BY <2>4, <2>5
<1>11. Told(V, k, n)
  BY <1>5, <1>6, <1>9, <1>10 DEF Told
<1>12. Gone(V, k[Main]) /\ Shared(V)
  BY <1>3, <1>4 DEF Good, Sound, Gone, Answered, Shared
<1>13. QED
  BY <1>3, <1>4, <1>7, <1>8, <1>11, <1>12

LEMMA RestoredKeeps ==
  ASSUME NEW W \in Worlds, NEW k, Sound(W, k)
  PROVE  Good(Restored(W), k)
<1> DEFINE V == Restored(W)
<1>1. /\ V \in Worlds /\ V.sock = W.sock /\ V.reqs = W.reqs /\ V.stack = W.stack
      /\ V.look = W.look /\ V.doubt = W.doubt /\ V.strayed = W.strayed /\ V.left = W.left
      /\ V.index = W.index /\ V.lis = W.lis /\ V.radIndex = W.index[Main]
  BY NlAssumption DEF Restored, Worlds
<1> HIDE DEF V
<1>2. Typed(V, k) /\ Coherent(V) /\ Shape(V)
  BY <1>1 DEF Sound, Typed, Coherent, CallsWait, SyncAwaited, Pending, Shape, LookFrame, OwnAnswer,
              LooksAt
<1>3. Unique(V, k)
  <2>1. \A x \in Names, i \in Nat \ {0} : Held(V, k, x, i) => Held(W, k, x, i)
    BY <1>1 DEF Held, LooksAt
  <2>2. Limit(V) = Limit(W) /\ Limit(W) \in Int
    BY <1>1, LimitIsInt DEF Limit
  <2>3. Limit(W) <= Limit(V) /\ Limit(V) \in Int /\ Unique(W, k)
    BY <2>2 DEF Sound
  <2>4. QED
    BY <2>1, <2>2, <2>3, UniqueKept
<1>4. Trusted(V, k)
  BY <1>1 DEF Sound, Trusted, Knows, Learnt, Watched, LooksAt, Answered
<1>5. Gone(V, k[Main]) /\ Shared(V)
  BY <1>1 DEF Sound, Gone, Answered, Shared
<1>6. QED
  BY <1>2, <1>3, <1>4, <1>5 DEF Good, Sound, V

\* A step of the restoration: a command and the answer to it
LEMMA RestoreKeeps ==
  ASSUME NEW W \in Worlds, NEW why \in {"set", "check", "info"}, NEW t \in {"new", "ack"},
         NEW i \in Nat \ {0}, NEW fate, Quiet(W), Sound(W, kern), Shared(W) \/ why = "info"
  PROVE  Good(Restore(W, why, Answer(W, t, i), fate), kern)
<1> DEFINE m == Answer(W, t, i)
<1>1. IsNew(W, m.seq) /\ Truthful(m, kern)
  BY AnswerIs DEF Sound, Typed
<1> HIDE DEF m
<1>2. CASE fate = "unsent"
  BY <1>2, PayKeeps, RestoredKeeps DEF Restore
<1>3. CASE fate # "unsent"
  <2>1. Call(why, m.seq) \in Frames
    BY <1>1, NlAssumption DEF IsNew, Call, Frames
  <2>2. W.stack = <<>>
    BY DEF Quiet
  <2>3. Good(SendMsgSync(W, why, m, fate), kern)
    BY <1>1, <1>3, <2>1, <2>2, CallKeeps
  <2>4. QED
    BY <1>3, <2>3 DEF Restore, m
<1>4. QED
  BY <1>2, <1>3

LEMMA AddVapKeeps ==
  ASSUME NEW W \in Worlds, NEW fate, Quiet(W), Good(W, kern)
  PROVE  Good(AddVap(W, fate), kern)
<1>1. CASE kern[Main] = 0
  BY <1>1, RestoredKeeps DEF AddVap, Good
<1>2. CASE kern[Main] # 0
  <2> DEFINE i == kern[Main]
             V == [W EXCEPT !.index[Main] = i]
  <2>1. i \in Nat \ {0} /\ Main \in Names
    BY <1>2, NlAssumption DEF Good, Sound, Typed, Kernels
  <2>2. /\ V \in Worlds /\ V.sock = W.sock /\ V.reqs = W.reqs /\ V.stack = W.stack
        /\ V.look = W.look /\ V.doubt = W.doubt /\ V.strayed = W.strayed /\ V.left = W.left
        /\ V.radIndex = W.radIndex /\ V.lis = W.lis
        /\ \A x \in Names : V.index[x] = (IF x = Main THEN i ELSE W.index[x])
    BY <2>1 DEF Worlds
  <2>3. AddVap(W, fate) = Restore(V, "info", Answer(W, "new", i), fate)
    BY <1>2 DEF AddVap
  <2>4. Answer(W, "new", i) = Answer(V, "new", i)
    BY <2>2 DEF Answer, Fresh
  <2> HIDE DEF V
  <2>5. Typed(V, kern) /\ Coherent(V) /\ Shape(V)
    BY <2>2 DEF Good, Sound, Typed, Coherent, CallsWait, SyncAwaited, Pending, Shape, LookFrame,
                OwnAnswer, LooksAt
  <2>6. Unique(V, kern)
    <3>1. \A x \in Names, j \in Nat \ {0} : Held(V, kern, x, j) => Held(W, kern, x, j)
      BY <2>2 DEF Held, LooksAt
    <3>2. Limit(V) = Limit(W) /\ Limit(W) \in Int
      BY <2>2, LimitIsInt DEF Limit
    <3>3. Limit(W) <= Limit(V) /\ Limit(V) \in Int /\ Unique(W, kern)
      BY <3>2 DEF Good, Sound
    <3>4. QED
      BY <3>1, <3>2, <3>3, UniqueKept
  <2>7. Trusted(V, kern)
    BY <2>2 DEF Good, Sound, Trusted, Knows, Learnt, Watched, LooksAt, Answered
  <2>8. Gone(V, kern[Main])
    BY <2>1, <2>2 DEF Good, Sound, Gone, Answered, Alive
  <2>9. Sound(V, kern) /\ Quiet(V)
    BY <2>2, <2>5, <2>6, <2>7, <2>8 DEF Sound, Quiet
  <2>10. QED
    BY <2>1, <2>2, <2>3, <2>4, <2>9, RestoreKeeps
<1>3. QED
  BY <1>1, <1>2

-----------------------------------------------------------------------------
(* The steps *)

LEMMA Becomes ==
  ASSUME NEW W \in Worlds, Become(W)
  PROVE  World' = W
BY DEF Become, World, Worlds

LEMMA GoodBecomes ==
  ASSUME NEW W, Good(W, kern), Become(W), UNCHANGED kern
  PROVE  IInv'
<1>1. W \in Worlds
  BY DEF Good, Sound, Typed
<1>2. World' = W /\ kern' = kern
  BY <1>1, Becomes
<1>3. Good(World', kern')
  BY <1>2
<1>4. QED
  BY <1>3 DEF IInv

LEMMA WorldIs ==
  ASSUME IInv
  PROVE  /\ World \in Worlds /\ IsFiniteSet(reqs) /\ kern \in Kernels /\ Good(World, kern)
         /\ World.sock = sock /\ World.reqs = reqs /\ World.stack = stack /\ World.look = look
         /\ World.index = index /\ World.lis = lis /\ World.radIndex = radIndex
         /\ World.doubt = doubt /\ World.strayed = strayed /\ World.left = left
BY DEF IInv, Good, Sound, Typed, World

LEMMA ReadHandlerKeeps ==
  ASSUME IInv, ReadHandler
  PROVE  IInv'
<1>1. PICK ask \in Asks, fate \in Fates(World) : Become(Handled(World, ask, fate))
  BY DEF ReadHandler
<1>2. World.sock # <<>> /\ World \in Worlds /\ Good(World, kern)
  BY WorldIs DEF ReadHandler
<1>3. Good(Handled(World, ask, fate), kern)
  BY <1>2, HandledKeeps
<1>4. QED
  BY <1>1, <1>3, GoodBecomes DEF ReadHandler

LEMMA SelectKeeps ==
  ASSUME IInv, Select
  PROVE  IInv'
<1>1. Good(ClearExpired(World), kern)
  BY WorldIs, ClearExpiredKeeps
<1>2. QED
  BY <1>1, GoodBecomes DEF Select

LEMMA StartKeeps ==
  ASSUME NEW W \in Worlds, NEW k, Good(W, k)
  PROVE  /\ Start(W) \in Worlds /\ SameKnown(W, Start(W)) /\ Start(W).look = W.look
         /\ Start(W).sock = W.sock /\ Start(W).reqs = W.reqs /\ Start(W).stack = W.stack
         /\ Good(Start(W), k)
<1> DEFINE V == Start(W)
           l == [W.left EXCEPT !.calls = @ - 1]
<1>1. l \in Lefts /\ l.changes = W.left.changes
  <2>1. W.left \in Lefts
    BY WorldFields
  <2>2. QED
    BY <2>1 DEF Lefts
<1>2. V = [W EXCEPT !.left = l]
  BY DEF Start
<1> HIDE DEF V, l
<1>3. /\ V \in Worlds /\ SameKnown(W, V) /\ V.look = W.look /\ V.sock = W.sock
      /\ V.reqs = W.reqs /\ V.stack = W.stack
  BY <1>1, <1>2 DEF Worlds, SameKnown
<1>4. Good(V, k)
  BY <1>3, SameWorld
<1>5. QED
  BY <1>3, <1>4 DEF V

LEMMA SyncVapStatesKeeps ==
  ASSUME IInv, SyncVapStates
  PROVE  IInv'
<1> DEFINE W == Start(World)
           V == [W EXCEPT !.look = LookAt(Order)]
<1>1. /\ W \in Worlds /\ SameKnown(World, W) /\ W.sock = World.sock
      /\ W.reqs = World.reqs /\ W.stack = World.stack /\ Good(W, kern)
  BY WorldIs, StartKeeps
<1>2. World.stack = <<>>
  BY DEF SyncVapStates, Idle
<1>3. Become(V)
  BY DEF SyncVapStates
<1> HIDE DEF W
<1>4. LookAt(Order) \in Looks
  BY NlAssumption DEF LookAt, Looks
<1>5. /\ V \in Worlds /\ SameKnown(W, V) /\ V.stack = W.stack /\ V.sock = W.sock
      /\ V.reqs = W.reqs /\ V.look.cur = 0 /\ Quiet(W)
  BY <1>1, <1>2, <1>4 DEF Worlds, SameKnown, LookAt, Quiet
<1> HIDE DEF V
<1>6. Good(V, kern)
  BY <1>1, <1>5, NoLookKeeps
<1>7. QED
  BY <1>3, <1>6, GoodBecomes DEF SyncVapStates

LEMMA VapStatusKeeps ==
  ASSUME IInv, NEW n \in Names, VapStatus(n)
  PROVE  IInv'
<1> DEFINE W == Start(World)
<1>1. W \in Worlds /\ W.stack = World.stack /\ Good(W, kern)
  BY WorldIs, StartKeeps
<1>2. World.stack = <<>> /\ index[n] \in Nat \ {0}
  BY WorldIs, WorldFields DEF VapStatus, Idle
<1>3. PICK fate \in Fates(World) : Become(GetInterface(W, "status", index[n], fate))
  BY DEF VapStatus
<1> HIDE DEF W
<1>4. Good(GetInterface(W, "status", index[n], fate), kern)
  BY <1>1, <1>2, GetInterfaceKeeps
<1>5. QED
  BY <1>3, <1>4, GoodBecomes DEF VapStatus

\* The second part of a look
LEMMA RefreshInterfaceKeeps ==
  ASSUME IInv, RefreshInterface
  PROVE  IInv'
<1>1. /\ World \in Worlds /\ Good(World, kern) /\ World.stack = <<>> /\ World.look = look
      /\ look.todo # <<>> /\ look.cur \in Nat \ {0}
  BY WorldIs, WorldFields DEF RefreshInterface, Looks
<1>2. PICK fate \in Fates(World) :
        LET W == GetInterface(World, "refresh", look.cur, fate)
        IN  Become(IF fate = "unsent" THEN NextAp(W) ELSE W)
  BY DEF RefreshInterface
<1> DEFINE W == GetInterface(World, "refresh", look.cur, fate)
<1>3. Good(W, kern)
  <2>1. LooksAt(World, Head(World.look.todo))
    BY <1>1 DEF LooksAt
  <2>2. QED
    BY <1>1, <2>1, GetInterfaceKeeps
<1>4. CASE fate = "unsent"
  <2>1. W = Pay(World, fate)
    BY <1>4 DEF GetInterface, SendMsgSync
  <2>2. W \in Worlds /\ Quiet(W) /\ W.look.todo # <<>>
    BY <1>1, <2>1, PayKeeps DEF Quiet
  <2> HIDE DEF W
  <2>3. Good(NextAp(W), kern)
    BY <1>3, <2>2, NextApKeeps
  <2>4. Become(NextAp(W))
    BY <1>2, <1>4 DEF W
  <2>5. QED
    BY <2>3, <2>4, GoodBecomes DEF RefreshInterface
<1>5. CASE fate # "unsent"
  <2>1. Become(W)
    BY <1>2, <1>5
  <2>2. QED
    BY <1>3, <2>1, GoodBecomes DEF RefreshInterface
<1>6. QED
  BY <1>4, <1>5

\* The first part: what is wrong is removed, and what is right needs no second part.
LEMMA RefreshIndexKeeps ==
  ASSUME IInv, RefreshIndex
  PROVE  IInv'
<1> DEFINE n == Head(look.todo)
           V == IF index[n] > 0 /\ index[n] # kern[n] THEN DelInterface(World, n, index[n]) ELSE World
           f == [look EXCEPT !.clean = ~About(sock, n)]
           N == NextAp(Looked(V, n, f))
           X == [V EXCEPT !.look = [f EXCEPT !.cur = kern[n]]]
<1>1. /\ World \in Worlds /\ Good(World, kern) /\ World.stack = <<>> /\ look \in Looks
      /\ look.todo # <<>> /\ look.cur = 0 /\ look.todo \in Seq(Names)
  BY WorldIs, WorldFields DEF RefreshIndex, Looks
<1>2. n \in Names /\ index[n] \in Nat /\ kern[n] \in Nat
  BY <1>1, TailFacts, WorldIs, WorldFields DEF Kernels
<1>3. /\ f \in Looks /\ f.cur = 0 /\ f.clean = ~About(sock, n)
      /\ [f EXCEPT !.cur = kern[n]] \in Looks /\ [f EXCEPT !.cur = kern[n]].cur = kern[n]
      /\ [f EXCEPT !.cur = kern[n]].clean = ~About(sock, n)
      /\ [f EXCEPT !.cur = kern[n]].todo = look.todo
  BY <1>1, <1>2 DEF Looks
<1>4. Become(IF kern[n] = 0 \/ V.index[n] = kern[n] THEN N ELSE X) /\ UNCHANGED kern
  BY DEF RefreshIndex
<1> HIDE DEF n
<1>5. /\ Good(V, kern) /\ V \in Worlds /\ V.stack = <<>> /\ V.look = look /\ V.sock = sock
      /\ kern[n] = 0 => V.index[n] = 0
  <2>1. CASE index[n] > 0 /\ index[n] # kern[n]
    <3>1. /\ Told(World, kern, n) /\ Shared(World) /\ Gone(World, kern[Main])
          /\ Knows(World, kern, n) /\ Unique(World, kern)
      BY <1>1, <1>2 DEF Good, Sound, Told, Trusted
    <3>2. n # Main => World.radIndex # index[n]
      <4>1. Held(World, kern, n, index[n])
        BY WorldIs DEF Held
      <4>2. \A o \in Names : Held(World, kern, o, index[n]) => o = n
        BY <1>2, <2>1, <3>1, <4>1 DEF Unique
      <4>3. QED
        BY <4>2, NlAssumption DEF Held
    <3>3. ~(n \notin World.doubt /\ Calm(World.sock, n))
      BY <2>1, <3>1, WorldIs DEF Knows
    <3>4. ~World.strayed =>
            /\ World.radIndex # index[n] => Alive(World.sock, kern[Main], World.radIndex)
            /\ n # Main => Alive(World.sock, kern[Main], World.index[Main])
            /\ News(World.sock, kern[Main])
            /\ Answered(World, Main) /\ ~World.look.crossed
                 => Alive(World.sock, kern[Main], World.stack[1].index)
      BY <3>1 DEF Gone
    <3>5. index[n] \in Nat \ {0}
      BY <1>2, <2>1
    <3>6. Good(DelInterface(World, n, index[n]), kern)
          /\ DelInterface(World, n, index[n]) \in Worlds
          /\ DelInterface(World, n, index[n]).stack = World.stack
      BY <1>1, <1>2, <3>1, <3>2, <3>3, <3>4, <3>5, DelInterfaceKeeps
    <3>7. /\ DelInterface(World, n, index[n]).look = World.look
          /\ DelInterface(World, n, index[n]).sock = World.sock
          /\ DelInterface(World, n, index[n]).index[n] = 0
      BY <1>1, <1>2 DEF DelInterface, Worlds
    <3>8. QED
      BY <1>1, <2>1, <3>6, <3>7, WorldIs
  <2>2. CASE ~(index[n] > 0 /\ index[n] # kern[n])
    BY <1>1, <1>2, <2>2, WorldIs
  <2>3. QED
    BY <2>1, <2>2
<1>6. ~About(sock, n) => Agrees(sock, n, kern[n])
  BY DEF About, Agrees, IsAbout
<1> HIDE DEF V
<1>7. CASE kern[n] = 0 \/ V.index[n] = kern[n]
  <2>1. N = NextAp(Looked(V, n, f))
    OBVIOUS
  <2> HIDE DEF N, f
  <2>2. /\ N \in Worlds /\ Told(N, kern, n) /\ Gone(N, kern[Main]) /\ Shared(N)
        /\ N.sock = sock /\ N.index = V.index /\ N.lis = V.lis
        /\ n \notin N.doubt => n \notin V.doubt \/ V.lis[n] = V.index[n]
    <3>1. Quiet(V) /\ V.look.todo # <<>>
      BY <1>1, <1>5 DEF Quiet
    <3>2. f.clean /\ ~f.crossed => Agrees(V.sock, n, kern[n])
      BY <1>3, <1>5, <1>6
    <3>3. QED
      BY <1>2, <1>3, <1>5, <2>1, <3>1, <3>2, LookedKeeps
  <2>3. V.index[n] = kern[n]
    BY <1>5, <1>7
  <2>4. Knows(V, kern, n)
    BY <1>2, <1>5 DEF Good, Sound, Trusted
  <2>5. Knows(N, kern, n)
    BY <1>5, <2>2, <2>3, <2>4 DEF Knows
  <2>6. Good(N, kern)
    BY <2>2, <2>5 DEF Told, Good, Sound, Trusted
  <2>7. QED
    BY <1>4, <1>7, <2>6, GoodBecomes
<1>8. CASE ~(kern[n] = 0 \/ V.index[n] = kern[n])
  <2> DEFINE g == [f EXCEPT !.cur = kern[n]]
  <2>1. g \in Looks /\ g.cur = kern[n] /\ g.clean = ~About(sock, n) /\ g.todo = look.todo
    BY <1>3
  <2> HIDE DEF g
  <2>2. /\ X \in Worlds /\ SameKnown(V, X) /\ X.sock = V.sock /\ X.reqs = V.reqs
        /\ X.stack = <<>> /\ X.look = g
    BY <1>5, <2>1 DEF Worlds, SameKnown, g
  <2> HIDE DEF X, f
  <2>3. Typed(X, kern) /\ Coherent(X)
    BY <1>5, <2>2 DEF Good, Sound, Typed, Coherent, CallsWait, SyncAwaited, Pending
  <2>4. Shape(X)
    BY <1>5, <2>2 DEF Good, Sound, Shape, LookFrame
  <2>5. Unique(X, kern)
    <3>1. \A x \in Names, i \in Nat \ {0} : Held(X, kern, x, i) => Held(V, kern, x, i)
      BY <1>5, <2>1, <2>2 DEF Held, LooksAt, SameKnown, n
    <3>2. QED
      BY <1>5, <2>2, <3>1, UniqueKept, LimitIsInt DEF Good, Sound, Limit, SameKnown
  <2>6. \A x : Watched(X, x) => x \notin V.doubt \/ (x = n /\ ~About(sock, n))
    BY <2>1, <2>2 DEF Watched, LooksAt, SameKnown, n
  <2>7. \A x \in Names : Watched(X, x) => Agrees(X.sock, x, kern[x])
    BY <1>5, <1>6, <2>2, <2>6 DEF Good, Sound, Trusted, Watched
  <2>8. Trusted(X, kern)
    BY <1>5, <2>2, <2>7 DEF Good, Sound, Trusted, Knows, Learnt, Answered, SameKnown
  <2>9. Gone(X, kern[Main]) /\ Shared(X)
    BY <1>5, <2>2 DEF Good, Sound, Gone, Answered, Shared, SameKnown
  <2>10. Good(X, kern)
    BY <2>3, <2>4, <2>5, <2>8, <2>9 DEF Good, Sound
  <2>11. QED
    BY <1>4, <1>8, <2>10, GoodBecomes
<1>9. QED
  BY <1>7, <1>8

\* A look has its answer.
LEMMA LookEndsKeeps ==
  ASSUME NEW W \in Worlds, NEW V, NEW k, NEW f, W.stack # <<>>, V = Popped(W),
         f = Last(W.stack), f.why = "refresh", f.got = "ok", ~Pending(W, f.seq), Good(W, k)
  PROVE  Good(LookEnds(V, f), k) /\ LookEnds(V, f) \in Worlds /\ LookEnds(V, f).stack = <<>>
<1> DEFINE n == f.name
           i == f.index
<1>1. /\ V \in Worlds /\ SameKnown(W, V) /\ V.look = W.look /\ V.sock = W.sock
      /\ V.stack = <<>> /\ f = W.stack[1] /\ Good(V, k)
  BY ReturnKeeps
<1>2. f \in Frames /\ 1 \in DOMAIN W.stack
  BY <1>1, FrontFacts, WorldFields
<1>3. n \in Names /\ i \in Nat \ {0} /\ LooksAt(W, n) /\ Answered(W, n)
  BY <1>1, <1>2 DEF Frames, Good, Sound, Shape, GoodFrame, LookFrame, LooksAt, Answered
<1>4. Held(W, k, n, i)
  BY <1>1, <1>2 DEF Held
<1>5. i < Limit(W) /\ \A o \in Names : Held(W, k, o, i) => o = n
  BY <1>3, <1>4 DEF Good, Sound, Unique
<1>6. Free(V, k, n, i)
  <2>1. \A o \in Names : Held(V, k, o, i) => Held(W, k, o, i)
    BY <1>1 DEF Held, LooksAt, SameKnown
  <2>2. QED
    BY <1>1, <1>5, <2>1 DEF Free, Limit, SameKnown
<1> DEFINE N == NextAp(Looked(V, n, V.look))
<1>7. N = NextAp(Looked(V, n, V.look))
  OBVIOUS
<1> HIDE DEF N
<1>8. Learnt(W, k, n) /\ (Watched(W, n) => Agrees(W.sock, n, k[n]))
  BY <1>3 DEF Good, Sound, Trusted
<1>9. V.look.clean => Watched(W, n)
  BY <1>1, <1>3 DEF Watched
<1>10. /\ N \in Worlds /\ Told(N, k, n) /\ Gone(N, k[Main]) /\ Shared(N)
       /\ N.stack = <<>> /\ N.sock = W.sock
       /\ N.strayed = (W.strayed \/ (W.look.crossed /\ n = Main))
       /\ \A x \in Names : \A j : Held(N, k, x, j) => Held(V, k, x, j)
       /\ Limit(N) = Limit(V)
       /\ n \notin N.doubt => ~W.look.crossed /\ Watched(W, n)
  <2>1. Quiet(V) /\ V.look.todo # <<>> /\ V.look \in Looks
    BY <1>1, <1>3, WorldFields DEF Quiet, LooksAt
  <2>2. V.look.clean /\ ~V.look.crossed => Agrees(V.sock, n, k[n])
    BY <1>1, <1>8, <1>9
  <2> DEFINE g == V.look
  <2> HIDE DEF g, n
  <2>3. /\ N \in Worlds /\ Told(N, k, n) /\ Gone(N, k[Main]) /\ Shared(N)
        /\ N.stack = <<>> /\ N.sock = V.sock
        /\ N.strayed = (V.strayed \/ (g.crossed /\ n = Main))
        /\ \A x \in Names : \A j : Held(N, k, x, j) => Held(V, k, x, j)
        /\ Limit(N) = Limit(V)
        /\ n \notin N.doubt => ~g.crossed /\ (n \notin V.doubt \/ g.clean)
    <3>1. g \in Looks /\ N = NextAp(Looked(V, n, g))
          /\ (g.clean /\ ~g.crossed => Agrees(V.sock, n, k[n]))
      BY <1>7, <2>1, <2>2 DEF g
    <3>2. V \in Worlds /\ Good(V, k) /\ n \in Names
      BY <1>1, <1>3
    <3>3. QED
      BY <2>1, <3>1, <3>2, LookedKeeps, SMTT(30)
  <2>4. n \notin V.doubt => Watched(W, n)
    BY <1>1 DEF Watched, SameKnown
  <2>5. QED
    BY <1>1, <1>9, <2>3, <2>4 DEF SameKnown, g
<1>11. Free(N, k, n, i)
  BY <1>6, <1>10 DEF Free
<1>12. n \notin N.doubt /\ Calm(N.sock, n) => i = k[n]
  BY <1>1, <1>3, <1>8, <1>10 DEF Learnt
<1>13. n = Main /\ ~N.strayed => Alive(N.sock, k[Main], i)
  BY <1>1, <1>3, <1>10 DEF Good, Sound, Gone
<1>14. LookEnds(V, f) = NewInterface(N, n, i)
  BY <1>7 DEF LookEnds
<1>15. QED
  BY <1>3, <1>10, <1>11, <1>12, <1>13, <1>14, NewInterfaceKeeps

LEMMA ReturnedKeeps ==
  ASSUME NEW W \in Worlds, NEW ask \in Asks, NEW fate, W.stack # <<>>, ~Waits(W), Good(W, kern)
  PROVE  Good(Returned(W, ask, fate), kern)
<1> DEFINE f == Last(W.stack)
           V == Popped(W)
<1>1. f \in Frames /\ 1 \in DOMAIN W.stack /\ ~Pending(W, f.seq)
  BY FrontFacts, WorldFields DEF Waits
<1>2. V = Popped(W)
  OBVIOUS
<1> HIDE DEF V
<1>3. /\ V \in Worlds /\ V.look = W.look /\ Sound(V, kern)
      /\ f.why # "info" => Good(V, kern)
      /\ f.why # "event" => V.stack = <<>> /\ f = W.stack[1]
  BY <1>1, <1>2, ReturnKeeps
<1>4. f = Last(W.stack)
  OBVIOUS
<1> HIDE DEF f
<1>5. CASE f.why = "event"
  BY <1>3, <1>5, ClearExpiredKeeps DEF Returned, f, V, Popped
<1>6. CASE f.why = "refresh" /\ f.got = "ok"
  <2>1. Good(LookEnds(V, f), kern) /\ LookEnds(V, f) \in Worlds /\ LookEnds(V, f).stack = <<>>
    BY <1>1, <1>2, <1>4, <1>6, LookEndsKeeps
  <2>2. Good(CheckAllIfaces(LookEnds(V, f), "link", ask, fate), kern)
    BY <2>1, CheckAllIfacesKeeps
  <2>3. Returned(W, ask, fate) = CheckAllIfaces(LookEnds(V, f), "link", ask, fate)
    BY <1>6 DEF Returned, f, V, Popped
  <2>4. QED
    BY <2>2, <2>3
<1>7. CASE f.why = "refresh" /\ f.got # "ok"
  <2>1. V.look.todo # <<>> /\ Quiet(V)
    BY <1>3, <1>7 DEF Good, Sound, Shape, LookFrame, LooksAt, Quiet
  <2>2. Returned(W, ask, fate) = NextAp(V)
    BY <1>7 DEF Returned, f, V, Popped
  <2>3. QED
    BY <1>3, <1>7, <2>1, <2>2, NextApKeeps
<1>8. CASE f.why = "set" /\ f.got = "ok"
  <2>1. f.index \in Nat \ {0}
    BY <1>1, <1>3, <1>8 DEF Frames, Good, Sound, Shape, GoodFrame
  <2>2. Good(Restore(V, "check", Answer(V, "new", f.index), fate), kern)
    BY <1>3, <1>8, <2>1, RestoreKeeps DEF Good, Quiet
  <2>3. Returned(W, ask, fate) = Restore(V, "check", Answer(V, "new", f.index), fate)
    BY <1>8 DEF Returned, f, V, Popped
  <2>4. QED
    BY <2>2, <2>3
<1>9. CASE f.why \in {"check", "create"} /\ f.got = "ok"
  <2>1. Returned(W, ask, fate) = AddVap(V, fate)
    BY <1>9 DEF Returned, f, V, Popped
  <2>2. QED
    BY <1>3, <1>9, <2>1, AddVapKeeps DEF Quiet
<1>10. CASE f.why = "info" \/ (f.why \in {"set", "check", "create"} /\ f.got # "ok")
  <2>1. Returned(W, ask, fate) = Restored(V)
    BY <1>10 DEF Returned, f, V, Popped
  <2>2. QED
    BY <1>3, <2>1, RestoredKeeps
<1>11. CASE f.why \in {"link", "status"}
  <2>1. Returned(W, ask, fate) = V
    BY <1>11 DEF Returned, f, V, Popped
  <2>2. QED
    BY <1>3, <1>11, <2>1
<1>12. QED
  BY <1>1, <1>5, <1>6, <1>7, <1>8, <1>9, <1>10, <1>11 DEF Frames

LEMMA SyncReturnsKeeps ==
  ASSUME IInv, SyncReturns
  PROVE  IInv'
<1>1. PICK ask \in Asks, fate \in Fates(World) : Become(Returned(World, ask, fate))
  BY DEF SyncReturns
<1>2. World \in Worlds /\ Good(World, kern) /\ World.stack # <<>> /\ ~Waits(World)
  BY WorldIs DEF SyncReturns
<1>3. Good(Returned(World, ask, fate), kern)
  BY <1>2, ReturnedKeeps
<1>4. QED
  BY <1>1, <1>3, GoodBecomes DEF SyncReturns

\* The kernel deletes or creates an interface, and tells of it, or the event is lost.
Changed(k, n, t, i, limit) ==
  \/ t = "new" /\ k[n] = 0 /\ i = limit
  \/ t = "del" /\ k[n] = i /\ i > 0

KernelStep(W, V, k, l, n, t, i, lost) ==
  /\ Changed(k, n, t, i, Limit(W)) /\ l = [k EXCEPT ![n] = IF t = "new" THEN i ELSE 0]
  /\ V.reqs = W.reqs /\ V.stack = W.stack
  /\ V.index = W.index /\ V.lis = W.lis /\ V.radIndex = W.radIndex
  /\ V.look.todo = W.look.todo /\ V.look.cur = W.look.cur /\ V.look.crossed = W.look.crossed
  /\ V.look.clean => W.look.clean
  /\ lost => ~V.look.clean \/ W.look.todo = <<>>
  /\ V.left.changes = W.left.changes - 1
  /\ V.sock = IF lost THEN W.sock ELSE Append(W.sock, Msg(t, 0, n, i))
  /\ V.doubt = IF lost THEN W.doubt \cup {n} ELSE W.doubt
  /\ V.strayed = (W.strayed \/ (lost /\ n = Main /\ t = "del"))

LEMMA ChangeKeeps ==
  ASSUME NEW W \in Worlds, NEW V \in Worlds, NEW k, NEW l, NEW n \in Names, NEW t, NEW i,
         NEW lost \in BOOLEAN, Good(W, k), KernelStep(W, V, k, l, n, t, i, lost)
  PROVE  Good(V, l)
<1> SUFFICES
      ASSUME Changed(k, n, t, i, Limit(W)),
         l = [k EXCEPT ![n] = IF t = "new" THEN i ELSE 0],
         V.reqs = W.reqs, V.stack = W.stack, V.index = W.index, V.lis = W.lis,
         V.radIndex = W.radIndex, V.look.todo = W.look.todo, V.look.cur = W.look.cur,
         V.look.crossed = W.look.crossed, V.look.clean => W.look.clean,
         lost => ~V.look.clean \/ W.look.todo = <<>>,
         V.left.changes = W.left.changes - 1,
         V.sock = Grown(W.sock, Msg(t, 0, n, i), lost),
         V.doubt = IF lost THEN W.doubt \cup {n} ELSE W.doubt,
         V.strayed = (W.strayed \/ (lost /\ n = Main /\ t = "del"))
      PROVE  Good(V, l)
  BY DEF KernelStep, Grown
<1> DEFINE q == W.sock
           m == Msg(t, 0, n, i)
           N == Len(q)
<1>1. /\ Limit(W) \in Nat \ {0} /\ Limit(V) = Limit(W) + 1 /\ q \in Seq(Messages)
      /\ Main \in Names
  <2>1. /\ Len(Order) \in Nat /\ MaxChanges \in Nat /\ W.left.changes \in Int
        /\ W.left.changes <= MaxChanges
    BY LimitIsInt, WorldFields, NlAssumption
  <2>2. Limit(V) = Limit(W) + 1
    <3>1. V.left.changes = W.left.changes - 1
      OBVIOUS
    <3>2. QED
      BY <2>1, <3>1 DEF Limit
  <2>3. Limit(W) \in Nat \ {0}
    BY <2>1 DEF Limit
  <2>4. QED
    BY <2>2, <2>3, WorldFields, NlAssumption
<1>2. k \in Kernels /\ t \in {"new", "del"} /\ i \in Nat \ {0}
  BY <1>1 DEF Good, Sound, Typed, Changed, Kernels
<1>3. l \in Kernels /\ l[n] = (IF t = "new" THEN i ELSE 0) /\ \A x \in Names : x # n => l[x] = k[x]
  BY <1>2 DEF Kernels
<1>4. m \in Messages /\ m.type = t /\ m.seq = 0 /\ m.name = n /\ m.index = i
  BY <1>2 DEF Msg, Messages
<1>5. /\ N \in Nat /\ DOMAIN q = 1..N
      /\ ~lost => /\ DOMAIN V.sock = 1..(N + 1) /\ V.sock[N + 1] = m
                  /\ \A j \in 1..N : V.sock[j] = q[j]
  BY <1>1, <1>4, AppendFacts DEF Grown
<1>6. ~lost => V.sock = Append(q, m)
  BY DEF Grown
<1> HIDE DEF m, N
<1>7. \A j \in DOMAIN V.sock : V.sock[j] = m \/ \E p \in DOMAIN q : V.sock[j] = q[p]
  <2>1. CASE lost
    BY <2>1 DEF Grown
  <2>2. CASE ~lost
    BY <1>5, <2>2
  <2>3. QED
    BY <2>1, <2>2
<1>8. lost => V.sock = q
  BY DEF Grown
<1>9. Typed(V, l) /\ Coherent(V)
  BY <1>3 DEF Good, Sound, Typed, Coherent, CallsWait, SyncAwaited, Pending
<1>10. Shape(V)
  <2>1. \A x : LooksAt(V, x) <=> LooksAt(W, x)
    BY DEF LooksAt
  <2>2. LookFrame(V) <=> LookFrame(W)
    BY DEF LookFrame
  <2>3. GoodMsg(m)
    BY <1>2, <1>4 DEF GoodMsg
  <2>4. LookFrame(W) => m.seq # W.stack[1].seq
    <3>1. W.stack # <<>> => W.stack[1] \in Frames
      BY TailFacts, WorldFields
    <3>2. QED
      BY <1>4, <3>1 DEF LookFrame, Frames
  <2>5. \A j \in DOMAIN V.sock : GoodMsg(V.sock[j]) /\ (LookFrame(V) => OwnAnswer(V, V.sock[j]))
    BY <1>7, <2>1, <2>2, <2>3, <2>4 DEF Good, Sound, Shape, OwnAnswer
  <2>6. QED
    BY <2>1, <2>2, <2>5 DEF Good, Sound, Shape
<1>11. Unique(V, l)
  <2>1. Unique(W, k)
    BY DEF Good, Sound
  <2>2. t = "del" => Held(W, k, n, i)
    BY DEF Changed, Held
  <2>3. ASSUME NEW x \in Names, NEW j \in Nat \ {0}, Held(V, l, x, j)
        PROVE  Held(W, k, x, j) \/ (x = n /\ j = i)
    <3>1. l[x] = j => k[x] = j \/ (x = n /\ j = i)
      BY <1>3
    <3>2. \A p \in DOMAIN V.sock : Tells(V.sock[p], x, j) =>
            (x = n /\ j = i) \/ \E r \in DOMAIN q : Tells(q[r], x, j)
      BY <1>4, <1>7 DEF Tells
    <3>3. QED
      BY <2>3, <3>1, <3>2 DEF Held, LooksAt
  <2>4. i < Limit(V) /\ \A o \in Names : Held(W, k, o, i) => o = n
    <3>1. CASE t = "new"
      BY <1>1, <1>2, <2>1, <3>1 DEF Changed, Unique
    <3>2. CASE t = "del"
      BY <1>1, <1>2, <2>1, <2>2, <3>2 DEF Unique
    <3>3. QED
      BY <1>2, <3>1, <3>2
  <2>5. Limit(W) \in Int /\ Limit(V) \in Int /\ Limit(W) <= Limit(V)
    BY <1>1
  <2>6. \A x \in Names, j \in Nat \ {0} :
          Held(V, l, x, j) => Held(W, k, x, j) \/ (x = n /\ j = i)
    BY <2>3
  <2>7. QED
    <3>1. SUFFICES ASSUME NEW j \in Nat \ {0}, NEW x \in Names, Held(V, l, x, j)
                   PROVE  j < Limit(V) /\ \A o \in Names : Held(V, l, o, j) => o = x
      BY DEF Unique
    <3>2. Held(W, k, x, j) => j < Limit(W) /\ \A o \in Names : Held(W, k, o, j) => o = x
      BY <2>1 DEF Unique
    <3>3. Held(W, k, x, j) \/ (x = n /\ j = i)
      BY <2>6, <3>1
    <3>4. j < Limit(V)
      BY <2>4, <2>5, <3>2, <3>3
    <3>5. ASSUME NEW o \in Names, Held(V, l, o, j) PROVE o = x
      BY <2>4, <2>6, <3>2, <3>3, <3>5
    <3>6. QED
      BY <3>4, <3>5
<1>12. \A x : Watched(V, x) => Watched(W, x)
  BY DEF Watched, LooksAt
<1>13. lost => ~Watched(V, n)
  BY DEF Watched, LooksAt
<1>14. \A x : Answered(V, x) <=> Answered(W, x)
  BY DEF Answered
<1>15. \A x : Calm(V.sock, x) => Calm(q, x) /\ (x = n => lost)
  <2>1. CASE lost
    BY <1>8, <2>1
  <2>2. CASE ~lost
    <3>1. \A x : Calm(V.sock, x) => Calm(q, x) /\ ~IsEvent(m, x)
      BY <1>1, <1>4, <1>6, <2>2, CalmAppend
    <3>2. IsEvent(m, n)
      BY <1>2, <1>4 DEF IsEvent, IsAbout
    <3>3. QED
      BY <3>1, <3>2
  <2>3. QED
    BY <2>1, <2>2
<1>16. ASSUME NEW x \in Names, Watched(V, x) PROVE Agrees(V.sock, x, l[x])
  <2>1. Agrees(q, x, k[x])
    BY <1>12, <1>16 DEF Good, Sound, Trusted
  <2>2. CASE lost
    BY <1>3, <1>8, <1>13, <1>16, <2>1, <2>2
  <2>3. CASE ~lost
    <3>1. IsAbout(m, x) => x = n /\ IsEvent(m, x) /\ Says(m) = l[x]
      BY <1>2, <1>3, <1>4 DEF IsAbout, IsEvent, Says
    <3>2. x # n => l[x] = k[x]
      BY <1>3
    <3>3. IsEvent(m, n)
      BY <1>2, <1>4 DEF IsEvent, IsAbout
    <3>4. (IsAbout(m, x) => Says(m) = l[x]) /\ (Agrees(q, x, l[x]) \/ IsEvent(m, x))
      BY <2>1, <3>1, <3>2, <3>3
    <3>5. QED
      BY <1>1, <1>4, <1>6, <2>3, <3>4, AgreesAppend
  <2>4. QED
    BY <2>2, <2>3
<1>17. ASSUME NEW x \in Names PROVE Knows(V, l, x) /\ Learnt(V, l, x)
  <2>1. Knows(W, k, x) /\ Learnt(W, k, x)
    BY DEF Good, Sound, Trusted
  <2>2. CASE x = n
    BY <1>13, <1>15, <2>2 DEF Knows, Learnt, Watched
  <2>3. CASE x # n
    <3>1. x \notin V.doubt => x \notin W.doubt
      OBVIOUS
    <3>2. QED
      BY <1>3, <1>12, <1>14, <1>15, <2>1, <2>3, <3>1 DEF Knows, Learnt
  <2>4. QED
    BY <2>2, <2>3
<1>18. Trusted(V, l)
  BY <1>16, <1>17 DEF Trusted
<1>19. ASSUME ~V.strayed
       PROVE  /\ News(q, k[Main]) => News(V.sock, l[Main])
              /\ \A z : Alive(q, k[Main], z) => Alive(V.sock, l[Main], z)
  <2>1. \A j \in DOMAIN q : GoodMsg(q[j])
    BY DEF Good, Sound, Shape
  <2>2. \/ k[Main] = l[Main] \/ k[Main] = 0
        \/ ~lost /\ Removes(m, k[Main])
    BY <1>1, <1>2, <1>3, <1>4, <1>19 DEF Changed, Removes
  <2>3. m.type = "new" /\ m.name = Main => m.index = l[Main]
    BY <1>3, <1>4
  <2>4. CASE lost
    <3>1. \A z : Alive(q, k[Main], z) => Alive(q, l[Main], z)
      BY <2>2, <2>4 DEF Alive
    <3>2. News(q, k[Main]) => News(q, l[Main])
      <4>1. CASE k[Main] = l[Main]
        BY <4>1
      <4>2. CASE k[Main] = 0
        BY <1>1, <2>1, <4>2 DEF News, GoodMsg
      <4>3. QED
        BY <2>2, <2>4, <4>1, <4>2
    <3>3. QED
      BY <1>8, <2>4, <3>1, <3>2
  <2>5. CASE ~lost
    <3>1. News(q, k[Main]) => News(V.sock, l[Main])
      <4>1. \/ k[Main] = l[Main] \/ Removes(m, k[Main])
            \/ k[Main] = 0 /\ \A j \in DOMAIN q : GoodMsg(q[j])
        BY <2>1, <2>2
      <4>2. News(q, k[Main]) => News(Append(q, m), l[Main])
        BY <1>1, <1>4, <2>3, <4>1, NewsAppend, Zenon
      <4>3. QED
        BY <1>6, <2>5, <4>2
    <3>2. \A z : Alive(q, k[Main], z) => Alive(V.sock, l[Main], z)
      BY <1>1, <1>4, <1>6, <2>2, <2>5, AliveAppend
    <3>3. QED
      BY <3>1, <3>2
  <2>6. QED
    BY <2>4, <2>5
<1>20. Gone(V, l[Main]) /\ Shared(V)
  BY <1>14, <1>19 DEF Good, Sound, Gone, Shared
<1>21. QED
  BY <1>9, <1>10, <1>11, <1>18, <1>20 DEF Good, Sound

LEMMA NewIndexIs ==
  ASSUME IInv
  PROVE  NewIndex = Limit(World)
BY DEF NewIndex, Limit, World

\* What Notify does to the world
LEMMA NotifyKeeps ==
  ASSUME IInv, NEW n \in Names, NEW t, NEW i, NEW lost \in BOOLEAN,
         Changed(kern, n, t, i, Limit(World)), left.changes > 0, Notify(n, Msg(t, 0, n, i), lost),
         kern' = [kern EXCEPT ![n] = IF t = "new" THEN i ELSE 0]
  PROVE  IInv'
<1> DEFINE m == Msg(t, 0, n, i)
           V == World'
<1>1. /\ World \in Worlds /\ Good(World, kern) /\ sock \in Seq(Messages) /\ look \in Looks
      /\ left \in Lefts /\ doubt \subseteq Names /\ strayed \in BOOLEAN
  BY WorldIs, WorldFields
<1>2. m \in Messages /\ m.type = t
  <2>1. t \in {"new", "del"}
    BY DEF Changed
  <2>2. i \in Nat
    <3>1. Limit(World) \in Nat
      <4>1. /\ Len(Order) \in Nat /\ MaxChanges \in Nat /\ World.left.changes \in Int
            /\ World.left.changes <= MaxChanges
        BY <1>1, LimitIsInt, WorldFields, NlAssumption
      <4>2. QED
        BY <4>1 DEF Limit
    <3>2. QED
      BY <3>1, WorldIs DEF Changed, Kernels
  <2>3. QED
    BY <2>1, <2>2 DEF Msg, Messages
<1>3. Append(sock, m) \in Seq(Messages)
  BY <1>1, <1>2, AppendFacts
<1>4. left' = [left EXCEPT !.changes = @ - 1, !.faults = IF lost THEN @ - 1 ELSE @]
  BY DEF Notify
<1>5. left' \in Lefts /\ left'.changes = left.changes - 1
  <2>1. left.changes - 1 \in 0..MaxChanges /\ left.faults - 1 \in Int
    BY <1>1, NlAssumption DEF Lefts
  <2>2. QED
    BY <1>1, <1>4, <2>1 DEF Lefts
<1>6. look' = IF lost THEN [look EXCEPT !.clean = FALSE] ELSE look
  BY DEF Notify
<1>7. /\ look' \in Looks /\ look'.todo = look.todo /\ look'.cur = look.cur
      /\ look'.crossed = look.crossed
      /\ look'.clean => look.clean
      /\ lost => ~look'.clean
  BY <1>1, <1>6 DEF Looks
<1>8. /\ sock' = (IF lost THEN sock ELSE Append(sock, m))
      /\ doubt' = (IF lost THEN doubt \cup {n} ELSE doubt)
      /\ strayed' = (strayed \/ (lost /\ n = Main /\ t = "del"))
      /\ reqs' = reqs /\ stack' = stack /\ index' = index /\ lis' = lis /\ radIndex' = radIndex
  BY <1>2 DEF Notify
<1>9. V = [sock |-> sock', reqs |-> reqs, stack |-> stack, look |-> look', index |-> index,
           lis |-> lis, radIndex |-> radIndex, doubt |-> doubt', strayed |-> strayed',
           left |-> left']
  BY <1>8 DEF World
<1>10. V \in Worlds
  BY <1>1, <1>3, <1>5, <1>7, <1>8, <1>9, WorldIs, WorldFields DEF Worlds
<1>11. /\ V.sock = sock' /\ V.reqs = reqs /\ V.stack = stack /\ V.look = look'
       /\ V.index = index /\ V.lis = lis /\ V.radIndex = radIndex
       /\ V.doubt = doubt' /\ V.strayed = strayed' /\ V.left = left'
  BY <1>9
<1> HIDE DEF V
<1> DEFINE W == World
           l == kern'
<1>12. /\ W.sock = sock /\ W.reqs = reqs /\ W.stack = stack /\ W.look = look
       /\ W.index = index /\ W.lis = lis /\ W.radIndex = radIndex
       /\ W.doubt = doubt /\ W.strayed = strayed /\ W.left = left /\ W \in Worlds
       /\ Good(W, kern) /\ Changed(kern, n, t, i, Limit(W))
  BY WorldIs
<1>13. l = [kern EXCEPT ![n] = IF t = "new" THEN i ELSE 0]
  OBVIOUS
<1> HIDE DEF W, l
<1>14. Good(V, l)
  <2>1. V.sock = IF lost THEN W.sock ELSE Append(W.sock, Msg(t, 0, n, i))
    BY <1>8, <1>11, <1>12
  <2>2. V.doubt = IF lost THEN W.doubt \cup {n} ELSE W.doubt
    BY <1>8, <1>11, <1>12
  <2>3. V.strayed = (W.strayed \/ (lost /\ n = Main /\ t = "del"))
    BY <1>8, <1>11, <1>12
  <2>4. /\ V.reqs = W.reqs /\ V.stack = W.stack /\ V.index = W.index /\ V.lis = W.lis
        /\ V.radIndex = W.radIndex /\ V.look.todo = W.look.todo /\ V.look.cur = W.look.cur
        /\ V.look.crossed = W.look.crossed
        /\ V.look.clean => W.look.clean
        /\ lost => ~V.look.clean \/ W.look.todo = <<>>
        /\ V.left.changes = W.left.changes - 1
    BY <1>5, <1>7, <1>8, <1>11, <1>12
  <2>5. KernelStep(W, V, kern, l, n, t, i, lost)
    BY <1>12, <1>13, <2>1, <2>2, <2>3, <2>4 DEF KernelStep
  <2>6. QED
    BY <1>10, <1>12, <2>5, ChangeKeeps
<1>15. QED
  BY <1>14 DEF V, l, IInv

LEMMA CreateKeeps ==
  ASSUME IInv, NEW n \in Names, Create(n)
  PROVE  IInv'
<1>1. PICK lost \in BOOLEAN : Notify(n, Msg("new", 0, n, NewIndex), lost)
  BY DEF Create
<1>2. Changed(kern, n, "new", NewIndex, Limit(World)) /\ left.changes > 0
  BY NewIndexIs DEF Create, Changed
<1>3. kern' = [kern EXCEPT ![n] = IF "new" = "new" THEN NewIndex ELSE 0]
  BY DEF Create
<1>4. QED
  BY <1>1, <1>2, <1>3, NotifyKeeps

LEMMA DeleteKeeps ==
  ASSUME IInv, NEW n \in Names, Delete(n)
  PROVE  IInv'
<1>1. PICK lost \in BOOLEAN : Notify(n, Msg("del", 0, n, kern[n]), lost)
  BY DEF Delete
<1>2. Changed(kern, n, "del", kern[n], Limit(World)) /\ left.changes > 0
  BY DEF Delete, Changed
<1>3. kern' = [kern EXCEPT ![n] = IF "del" = "new" THEN kern[n] ELSE 0]
  BY DEF Delete
<1>4. QED
  BY <1>1, <1>2, <1>3, NotifyKeeps

\* An event that is not about an interface
LEMMA EventAdded ==
  ASSUME IInv, NEW m \in Messages, m.seq = 0, m.type \in {"scan", "other"},
         sock' = Append(sock, m), left' \in Lefts, left'.changes = left.changes,
         UNCHANGED <<kern, reqs, stack, look, index, lis, radIndex, doubt, strayed>>
  PROVE  IInv'
<1> DEFINE V == World'
           W == World
<1>1. /\ W \in Worlds /\ Good(W, kern) /\ W.sock = sock /\ W.reqs = reqs /\ W.stack = stack
      /\ W.look = look /\ W.index = index /\ W.lis = lis /\ W.radIndex = radIndex
      /\ W.doubt = doubt /\ W.strayed = strayed /\ W.left = left
  BY WorldIs
<1>2. V = [sock |-> sock', reqs |-> reqs, stack |-> stack, look |-> look, index |-> index,
           lis |-> lis, radIndex |-> radIndex, doubt |-> doubt, strayed |-> strayed,
           left |-> left']
  BY DEF World
<1> HIDE DEF V, W
<1>3. sock' \in Seq(Messages)
  BY <1>1, AppendFacts, WorldFields
<1>4. /\ V \in Worlds /\ SameKnown(W, V) /\ V.look = W.look /\ V.stack = W.stack
      /\ V.reqs = W.reqs /\ V.sock = Append(W.sock, m)
  BY <1>1, <1>2, <1>3, WorldFields DEF Worlds, SameKnown
<1>5. LookFrame(W) => OwnAnswer(W, m)
  <2>1. W.stack # <<>> => W.stack[1] \in Frames
    BY <1>1, TailFacts, WorldFields
  <2>2. QED
    BY <2>1 DEF LookFrame, OwnAnswer, Frames
<1>6. Good(V, kern)
  BY <1>1, <1>4, <1>5, MessageAdded DEF GoodMsg
<1>7. QED
  BY <1>6 DEF V, IInv

LEMMA ScanEndsKeeps ==
  ASSUME IInv, ScanEnds
  PROVE  IInv'
<1>1. kern[Main] \in Nat /\ left \in Lefts
  BY WorldIs, WorldFields, NlAssumption DEF Kernels
<1>2. [left EXCEPT !.calls = @ - 1] \in Lefts /\ [left EXCEPT !.calls = @ - 1].changes = left.changes
  BY <1>1 DEF Lefts
<1> DEFINE m == Msg("scan", 0, Main, kern[Main])
<1>3. m \in Messages /\ m.seq = 0 /\ m.type = "scan"
  BY <1>1, NlAssumption DEF Msg, Messages
<1>4. sock' = Append(sock, m) /\ left' = [left EXCEPT !.calls = @ - 1]
  BY DEF ScanEnds
<1> HIDE DEF m
<1>5. QED
  BY <1>2, <1>3, <1>4, EventAdded DEF ScanEnds

LEMMA OtherEventKeeps ==
  ASSUME IInv, OtherEvent
  PROVE  IInv'
<1> DEFINE m == Msg("other", 0, Main, 0)
<1>1. m \in Messages /\ m.seq = 0 /\ m.type = "other"
  BY NlAssumption DEF Msg, Messages
<1>2. sock' = Append(sock, m)
  BY DEF OtherEvent
<1>3. left \in Lefts
  BY WorldIs, WorldFields
<1> HIDE DEF m
<1>4. QED
  BY <1>1, <1>2, <1>3, EventAdded DEF OtherEvent

LEMMA TimeOverKeeps ==
  ASSUME IInv, TimeOver
  PROVE  IInv'
<1>1. PICK r \in reqs : reqs' = (reqs \ {r}) \cup {[r EXCEPT !.over = TRUE]}
  BY DEF TimeOver
<1>2. left' \in Lefts /\ left'.changes = left.changes
  <2>1. PICK b \in BOOLEAN : left' = [left EXCEPT !.faults = IF b THEN @ - 1 ELSE @]
    BY DEF TimeOver
  <2>2. left \in Lefts
    BY WorldIs, WorldFields
  <2>3. QED
    BY <2>1, <2>2 DEF Lefts
<1> DEFINE V == World'
           W == World
           p == [r EXCEPT !.over = TRUE]
<1>3. /\ W \in Worlds /\ Good(W, kern) /\ W.sock = sock /\ W.reqs = reqs /\ W.stack = stack
      /\ W.look = look /\ W.index = index /\ W.lis = lis /\ W.radIndex = radIndex
      /\ W.doubt = doubt /\ W.strayed = strayed /\ W.left = left /\ reqs \subseteq Requests
      /\ IsFiniteSet(reqs)
  BY WorldIs, WorldFields
<1>4. p \in Requests /\ p.seq = r.seq /\ p.sync = r.sync
  BY <1>3 DEF Requests
<1>5. V = [sock |-> sock, reqs |-> reqs', stack |-> stack, look |-> look, index |-> index,
           lis |-> lis, radIndex |-> radIndex, doubt |-> doubt, strayed |-> strayed,
           left |-> left']
  BY DEF World, TimeOver
<1>6. UNCHANGED kern
  BY DEF TimeOver
<1> HIDE DEF V, W, p
<1>7. /\ V \in Worlds /\ SameKnown(W, V) /\ V.look = W.look /\ V.stack = W.stack
      /\ V.sock = W.sock /\ V.reqs = (reqs \ {r}) \cup {p}
  BY <1>1, <1>2, <1>3, <1>4, <1>5, WorldFields DEF Worlds, SameKnown, p
<1>8. Typed(V, kern)
  <2>1. IsFiniteSet(reqs \ {r})
    BY <1>3, FS_Subset
  <2>2. IsFiniteSet(V.reqs)
    BY <1>7, <2>1, FS_AddElement
  <2>3. QED
    BY <1>3, <1>7, <2>2 DEF Typed, Good, Sound
<1>9. \A x : Pending(V, x) <=> Pending(W, x)
  BY <1>3, <1>4, <1>7 DEF Pending
<1>10. CallsWait(V) /\ SyncAwaited(V)
  <2>1. CallsWait(V)
    BY <1>3, <1>7, <1>9 DEF Good, Sound, Coherent, CallsWait
  <2>2. SyncAwaited(V)
    BY <1>1, <1>3, <1>4, <1>7 DEF Good, Sound, Coherent, SyncAwaited
  <2>3. QED
    BY <2>1, <2>2
<1>11. Indexed(V, kern) /\ Shared(V)
  BY <1>3, <1>7, SameIndexed DEF Good, Sound, Indexed
<1>12. Good(V, kern)
  BY <1>8, <1>10, <1>11 DEF Good, Sound, Coherent, Indexed
<1>13. QED
  BY <1>6, <1>12 DEF V, IInv

\* The main interface is asked for, or created.
LEMMA CreatedKeeps ==
  ASSUME NEW W \in Worlds, NEW l, NEW lost \in BOOLEAN, Good(W, kern), NewIndex = Limit(W),
         W.left.changes > 0, W.look.todo = <<>>, kern[Main] = 0,
         l = [kern EXCEPT ![Main] = NewIndex]
  PROVE  /\ Created(W, lost) \in Worlds /\ Created(W, lost).stack = W.stack
         /\ Good(Created(W, lost), l)
<1> DEFINE V == Created(W, lost)
           m == Msg("new", 0, Main, NewIndex)
           r == [W.left EXCEPT !.changes = @ - 1, !.faults = IF lost THEN @ - 1 ELSE @]
<1>1. W.left \in Lefts /\ W.sock \in Seq(Messages) /\ W.doubt \subseteq Names /\ Main \in Names
  BY WorldFields, NlAssumption
<1>2. r \in Lefts /\ r.changes = W.left.changes - 1
  <2>1. W.left.changes - 1 \in 0..MaxChanges /\ W.left.faults - 1 \in Int
    BY <1>1, NlAssumption DEF Lefts
  <2>2. QED
    BY <1>1, <2>1 DEF Lefts
<1>3. Append(W.sock, m) \in Seq(Messages)
  <2>1. NewIndex \in Nat
    <3>1. /\ Len(Order) \in Nat /\ MaxChanges \in Nat /\ W.left.changes \in Int
          /\ W.left.changes <= MaxChanges
      BY LimitIsInt, WorldFields, NlAssumption
    <3>2. QED
      BY <3>1 DEF Limit
  <2>2. m \in Messages
    BY <1>1, <2>1 DEF Msg, Messages
  <2>3. QED
    BY <1>1, <2>2, AppendFacts
<1>4. V = [W EXCEPT !.left = r, !.doubt = IF lost THEN @ \cup {Main} ELSE @,
                    !.sock = IF lost THEN @ ELSE Append(@, m)]
  BY <1>1 DEF Created, Worlds, Lefts
<1> HIDE DEF V, m, r
<1>5. /\ V \in Worlds /\ V.reqs = W.reqs /\ V.stack = W.stack /\ V.index = W.index
      /\ V.lis = W.lis /\ V.radIndex = W.radIndex /\ V.look = W.look /\ V.strayed = W.strayed
      /\ V.left = r
      /\ V.sock = (IF lost THEN W.sock ELSE Append(W.sock, m))
      /\ V.doubt = (IF lost THEN W.doubt \cup {Main} ELSE W.doubt)
  BY <1>1, <1>2, <1>3, <1>4 DEF Worlds
<1>6. KernelStep(W, V, kern, l, Main, "new", NewIndex, lost)
  <2>1. V.strayed = (W.strayed \/ (lost /\ Main = Main /\ "new" = "del"))
    BY <1>5, WorldFields
  <2>2. l = [kern EXCEPT ![Main] = IF "new" = "new" THEN NewIndex ELSE 0]
    OBVIOUS
  <2>3. Changed(kern, Main, "new", NewIndex, Limit(W))
    BY DEF Changed
  <2>4. V.left.changes = W.left.changes - 1
    BY <1>2, <1>5
  <2>5. QED
    BY <1>5, <2>1, <2>2, <2>3, <2>4 DEF KernelStep, m
<1>7. Good(V, l)
  BY <1>1, <1>5, <1>6, ChangeKeeps
<1>8. QED
  BY <1>5, <1>7 DEF V

LEMMA RestoreMainIfaceKeeps ==
  ASSUME IInv, RestoreMainIface
  PROVE  IInv'
<1> DEFINE W == Start(World)
<1>1. /\ World \in Worlds /\ World.stack = <<>> /\ World.look.todo = <<>>
      /\ World.radIndex = radIndex /\ World.left = left
      /\ radIndex \in Nat /\ kern[Main] \in Nat
  BY WorldIs, WorldFields, NlAssumption DEF RestoreMainIface, Idle, Kernels
<1>2. /\ W \in Worlds /\ Good(W, kern) /\ Quiet(W) /\ W.look.todo = <<>>
      /\ W.left.changes = left.changes /\ SameKnown(World, W)
  BY <1>1, WorldIs, StartKeeps DEF Quiet, SameKnown
<1>3. Sound(W, kern) /\ Shared(W)
  BY <1>2 DEF Good
<1>4. CASE radIndex > 0 \/ kern[Main] > 0
  <2>1. PICK fate \in Fates(W) :
          Become(IF radIndex > 0 THEN Restore(W, "set", Answer(W, "ack", radIndex), fate)
                 ELSE Restore(W, "check", Answer(W, "new", kern[Main]), fate))
    BY <1>4 DEF RestoreMainIface
  <2>2. UNCHANGED kern
    BY <1>4 DEF RestoreMainIface
  <2> HIDE DEF W
  <2>3. CASE radIndex > 0
    <3>1. Good(Restore(W, "set", Answer(W, "ack", radIndex), fate), kern)
      BY <1>1, <1>2, <1>3, <2>3, RestoreKeeps
    <3>2. QED
      BY <2>1, <2>2, <2>3, <3>1, GoodBecomes
  <2>4. CASE ~(radIndex > 0)
    <3>1. Good(Restore(W, "check", Answer(W, "new", kern[Main]), fate), kern)
      BY <1>1, <1>2, <1>3, <1>4, <2>4, RestoreKeeps
    <3>2. QED
      BY <2>1, <2>2, <2>4, <3>1, GoodBecomes
  <2>5. QED
    BY <2>3, <2>4
<1>5. CASE Become(Restored(Pay(W, "unsent"))) /\ UNCHANGED kern
  <2>1. Good(Restored(Pay(W, "unsent")), kern)
    BY <1>2, <1>3, PayKeeps, RestoredKeeps
  <2>2. QED
    BY <1>5, <2>1, GoodBecomes
<1>6. ASSUME kern[Main] = 0, left.changes > 0, kern' = [kern EXCEPT ![Main] = NewIndex],
             NEW fate \in Fates(W) \ {"unsent"}, NEW lost \in BOOLEAN,
             Become(SendMsgSync(Created(W, lost), "create",
                                Msg("new", Fresh(Created(W, lost)), Main, NewIndex), fate))
      PROVE  IInv'
  <2> DEFINE V == Created(W, lost)
             l == kern'
             m == Msg("new", Fresh(V), Main, NewIndex)
             R == SendMsgSync(V, "create", m, fate)
  <2>1. NewIndex = Limit(W)
    BY <1>2, NewIndexIs DEF Limit, SameKnown
  <2>2. l = [kern EXCEPT ![Main] = NewIndex]
    BY <1>6
  <2> HIDE DEF W, l
  <2>3. V \in Worlds /\ V.stack = W.stack /\ Good(V, l)
    BY <1>2, <1>6, <2>1, <2>2, CreatedKeeps
  <2>4. Become(R)
    BY <1>6
  <2> HIDE DEF V
  <2>5. IsNew(V, Fresh(V))
    BY <2>3, FreshSeq DEF IsNew, Good, Sound, Typed
  <2>6. l[Main] = NewIndex
    BY <2>2, NlAssumption, WorldIs DEF Kernels
  <2>7. NewIndex \in Nat \ {0}
    <3>1. /\ Len(Order) \in Nat /\ MaxChanges \in Nat /\ W.left.changes \in Int
          /\ W.left.changes <= MaxChanges
      BY <1>2, LimitIsInt, WorldFields, NlAssumption
    <3>2. QED
      BY <2>1, <3>1 DEF Limit
  <2>8. m.seq = Fresh(V) /\ m.type = "new" /\ Truthful(m, l)
    BY <2>5, <2>6, <2>7, NlAssumption DEF Msg, Truthful, Messages, GoodMsg, IsNew
  <2> HIDE DEF m, R
  <2>9. Call("create", m.seq) \in Frames
    BY <2>5, <2>8, NlAssumption DEF IsNew, Call, Frames
  <2>10. Good(R, l)
    <3>1. Sound(V, l) /\ Shared(V) /\ V.stack = <<>> /\ fate # "unsent"
      BY <1>2, <1>6, <2>3 DEF Good, Quiet
    <3>2. Good(SendMsgSync(V, "create", m, fate), l)
      BY <2>3, <2>5, <2>8, <2>9, <3>1, CallKeeps
    <3>3. QED
      BY <3>2 DEF R
  <2>11. R \in Worlds
    BY <2>10 DEF Good, Sound, Typed
  <2>12. World' = R
    BY <2>4, <2>11, Becomes
  <2>13. QED
    BY <2>10, <2>12 DEF IInv, l
<1>7. QED
  <2>1. CASE radIndex > 0 \/ kern[Main] > 0
    BY <1>4, <2>1
  <2>2. CASE ~(radIndex > 0 \/ kern[Main] > 0)
    <3>1. kern[Main] = 0
      BY <1>1, <2>2
    <3>2. \/ Become(Restored(Pay(W, "unsent"))) /\ UNCHANGED kern
          \/ /\ left.changes > 0 /\ kern' = [kern EXCEPT ![Main] = NewIndex]
             /\ \E fate \in Fates(W) \ {"unsent"}, lost \in BOOLEAN :
                  Become(SendMsgSync(Created(W, lost), "create",
                                     Msg("new", Fresh(Created(W, lost)), Main, NewIndex), fate))
      BY <2>2 DEF RestoreMainIface
    <3>3. QED
      BY <1>5, <1>6, <3>1, <3>2
  <2>3. QED
    BY <2>1, <2>2

-----------------------------------------------------------------------------
(* The theorems *)

LEMMA InitKeeps ==
  ASSUME Init
  PROVE  IInv
<1> DEFINE W == World
<1>1. /\ Order \in Seq(Names) /\ Len(Order) \in Nat /\ DOMAIN Order = 1..Len(Order)
      /\ MaxChanges \in Nat /\ Main \in Names
      /\ {MaxFaults, MaxCalls} \subseteq Int
  BY NlAssumption, LenProperties
<1>2. \A n \in Names : \E j \in DOMAIN Order : Order[j] = n
  BY DEF Names, ToSet
<1>3. \A n \in Names : kern[n] \in 1..Len(Order) /\ Order[kern[n]] = n
  BY <1>1, <1>2 DEF Init
<1>4. kern \in Kernels /\ DOMAIN kern = Names
  BY <1>1, <1>3 DEF Init, Kernels
<1>5. /\ W.sock = <<>> /\ W.reqs = {} /\ W.stack = <<>> /\ W.look = LookAt(<<>>)
      /\ W.index = kern /\ W.lis = kern /\ W.radIndex = kern[Main]
      /\ W.doubt = {} /\ W.strayed = FALSE
      /\ W.left = [changes |-> MaxChanges, faults |-> MaxFaults, calls |-> MaxCalls]
      /\ W = [sock |-> W.sock, reqs |-> W.reqs, stack |-> W.stack, look |-> W.look,
              index |-> W.index, lis |-> W.lis, radIndex |-> W.radIndex, doubt |-> W.doubt,
              strayed |-> W.strayed, left |-> W.left]
  BY DEF Init, World
<1> HIDE DEF W
<1>6. LookAt(<<>>) \in Looks /\ LookAt(<<>>).todo = <<>>
  BY EmptySeq DEF LookAt, Looks
<1>7. W.left \in Lefts /\ W.left.changes = MaxChanges
  BY <1>1, <1>5 DEF Lefts
<1>8. W \in Worlds
  <2>1. /\ W.sock \in Seq(Messages) /\ W.stack \in Seq(Frames) /\ W.reqs \in SUBSET Requests
        /\ W.look \in Looks /\ W.radIndex \in Nat /\ W.index \in [Names -> Nat]
        /\ W.lis \in [Names -> Nat] /\ W.doubt \in SUBSET Names /\ W.strayed \in BOOLEAN
        /\ W.left \in Lefts
    BY <1>1, <1>4, <1>5, <1>6, <1>7, EmptySeq DEF Kernels
  <2>2. QED
    BY <1>5, <2>1 DEF Worlds
<1>9. Typed(W, kern)
  BY <1>4, <1>5, <1>8, FS_EmptySet DEF Typed
<1>10. Coherent(W) /\ Shape(W)
  BY <1>5, EmptySeq DEF Coherent, CallsWait, SyncAwaited, Shape, LookFrame
<1>11. Unique(W, kern)
  <2>1. \A n \in Names : \A i : Held(W, kern, n, i) => kern[n] = i
    BY <1>5, <1>6, EmptySeq DEF Held, LooksAt
  <2>2. Limit(W) = Len(Order) + 1
    BY <1>1, <1>7 DEF Limit
  <2>3. QED
    BY <1>1, <1>3, <2>1, <2>2 DEF Unique
<1>12. Trusted(W, kern)
  BY <1>5, EmptySeq DEF Trusted, Agrees, Knows, Learnt, Answered
<1>13. Gone(W, kern[Main]) /\ Shared(W)
  BY <1>5, EmptySeq DEF Gone, Alive, News, Answered, Shared
<1>14. QED
  BY <1>9, <1>10, <1>11, <1>12, <1>13 DEF IInv, Good, Sound, W

LEMMA StepKeeps ==
  ASSUME IInv, [Next]_vars
  PROVE  IInv'
<1>1. CASE Goes
  BY <1>1, ReadHandlerKeeps, SelectKeeps, RefreshIndexKeeps, RefreshInterfaceKeeps,
     SyncReturnsKeeps DEF Goes
<1>2. CASE SyncVapStates \/ RestoreMainIface
  BY <1>2, SyncVapStatesKeeps, RestoreMainIfaceKeeps
<1>3. ASSUME NEW n \in Names, VapStatus(n) \/ Create(n) \/ Delete(n) PROVE IInv'
  BY <1>3, VapStatusKeeps, CreateKeeps, DeleteKeeps
<1>4. CASE ScanEnds \/ OtherEvent \/ TimeOver
  BY <1>4, ScanEndsKeeps, OtherEventKeeps, TimeOverKeeps
<1>5. CASE UNCHANGED vars
  <2>1. World' = World /\ kern' = kern
    BY <1>5 DEF vars, World
  <2>2. Good(World', kern')
    BY <2>1 DEF IInv
  <2>3. QED
    BY <2>2 DEF IInv
<1>6. QED
  BY <1>1, <1>2, <1>3, <1>4, <1>5 DEF Next

\* What the inductive invariant says of the indexes when pwhm has nothing to do
LEMMA InvInStep ==
  ASSUME IInv
  PROVE  InStep
<1>1. SUFFICES ASSUME Idle(World), NEW n \in Names, ~About(sock, n)
               PROVE  /\ n \notin doubt => index[n] = kern[n] /\ lis[n] = kern[n]
                      /\ n = Main => \/ radIndex = kern[n]
                                     \/ IF kern[n] = 0 THEN strayed ELSE n \in doubt
  BY DEF InStep
<1>2. /\ Knows(World, kern, n) /\ Gone(World, kern[Main]) /\ Shared(World)
      /\ World.stack = <<>> /\ kern[n] \in Nat
  BY <1>1, WorldIs DEF Good, Sound, Trusted, Idle, Kernels
<1>3. Calm(sock, n)
  BY <1>1 DEF About, Calm, IsEvent, IsAbout
<1>4. n \notin doubt => index[n] = kern[n] /\ lis[n] = kern[n]
  BY <1>2, <1>3, WorldIs DEF Knows
<1>5. ASSUME n = Main, kern[n] = 0, ~strayed PROVE radIndex = kern[n]
  <2>1. Alive(sock, kern[Main], radIndex)
    BY <1>2, <1>5, WorldIs DEF Gone
  <2>2. ~RemovedAfter(sock, 0, radIndex)
    BY <1>1, <1>5 DEF About, RemovedAfter, Removes
  <2>3. QED
    BY <1>5, <2>1, <2>2 DEF Alive
<1>6. ASSUME n = Main, kern[n] # 0, n \notin doubt PROVE radIndex = kern[n]
  BY <1>2, <1>4, <1>6, WorldIs DEF Shared
<1>7. QED
  BY <1>4, <1>5, <1>6

LEMMA InvType ==
  ASSUME IInv
  PROVE  TypeOK
<1>1. /\ World \in Worlds /\ kern \in [Names -> Nat] /\ CallsWait(World) /\ SyncAwaited(World)
  BY WorldIs DEF Good, Sound, Coherent, Kernels
<1>2. /\ sock \in Seq(Messages) /\ reqs \subseteq Requests /\ stack \in Seq(Frames) /\ look \in Looks
      /\ index \in [Names -> Nat] /\ lis \in [Names -> Nat] /\ radIndex \in Nat
      /\ doubt \subseteq Names /\ strayed \in BOOLEAN
  BY <1>1, WorldIs, WorldFields
<1>3. \A j \in DOMAIN stack : stack[j].got = "none" <=> Pending(World, stack[j].seq)
  BY <1>1, WorldIs DEF CallsWait
<1>4. \A r \in reqs : r.sync <=> \E j \in DOMAIN stack : stack[j].seq = r.seq
  BY <1>1, WorldIs DEF SyncAwaited
<1>5. QED
  BY <1>1, <1>2, <1>3, <1>4 DEF TypeOK

\* Whatever is in the socket and in the kernel, the invariant holds.
THEOREM Invariant == Spec => []IInv
<1>1. Init => IInv
  BY InitKeeps
<1>2. IInv /\ [Next]_vars => IInv'
  BY StepKeeps
<1>3. QED
  BY <1>1, <1>2, PTL DEF Spec

\* A call of s_sendMsgSync that waits has its request, a call whose request is gone was
\* told the outcome, and no request that is waited for is left without its call: with any
\* nesting of reads, lost and late answers and expired requests.
THEOREM TypeCorrect == Spec => []TypeOK
<1>1. IInv => TypeOK
  BY InvType
<1>2. QED
  BY <1>1, Invariant, PTL

\* When pwhm has read all that concerns an interface, its index and its listener are those of
\* the kernel unless an event was lost since it last looked, and so is the radio's index unless
\* an index that is gone may have been left with it; s_newInterfaceCb, s_delInterfaceCb,
\* wifiGen_refreshVapsIfIdx and the restoration of the main interface together.
THEOREM IndexesFollow == Spec => []InStep
<1>1. IInv => InStep
  BY InvInStep
<1>2. QED
  BY <1>1, Invariant, PTL

=============================================================================
