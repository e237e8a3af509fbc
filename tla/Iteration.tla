------------------------------ MODULE Iteration ------------------------------
(***************************************************************************)
(* Facts about least numbers, about functions that are computed step by    *)
(* step, and about lists from which an element is removed, for the proofs  *)
(* about modules whose handlers loop.                                      *)
(***************************************************************************)
EXTENDS Integers, SequencesExt, FiniteSetsExt, SequenceTheorems, WellFoundedInduction, NaturalsInduction, TLAPS

\* A nonempty set of numbers has a least element.
LEMMA LeastNat ==
  ASSUME NEW T \in SUBSET Nat, T # {}
  PROVE  \E n \in T : \A m \in T : n <= m
<1> DEFINE R == OpToRel(<,Nat)
<1>1. IsWellFoundedOn(R, Nat)
  BY NatLessThanWellFounded
<1>2. \A m, n \in Nat : m < n => <<m, n>> \in R
  BY Zenon DEF OpToRel
<1> HIDE DEF R
<1>3. \E n \in T : \A m \in T : ~(<<m, n>> \in R)
  BY <1>1, WFMin
<1>4. PICK n \in T : \A m \in T : ~(<<m, n>> \in R)
  BY <1>3
<1>5. \A m \in T : ~(m < n)
  BY <1>2, <1>4, Zenon
<1>6. \A m \in T : n <= m
  BY <1>5
<1>7. QED
  BY <1>6

\* It is the one that Min chooses.
LEMMA MinNat ==
  ASSUME NEW T \in SUBSET Nat, T # {}
  PROVE  Min(T) \in T /\ \A m \in T : Min(T) <= m
<1>1. PICK n \in T : \A m \in T : n <= m
  BY LeastNat
<1>2. QED
  BY <1>1, Zenon DEF Min

\* A set that holds 0, and with each number of 0..n the next, holds n.
LEMMA UpTo ==
  ASSUME NEW n \in Nat, NEW T, 0 \in T,
         \A k \in 1..n : k - 1 \in T => k \in T
  PROVE  \A k \in 0..n : k \in T
<1> DEFINE Out == {k \in 0..n : k \notin T}
<1>1. SUFFICES ASSUME Out # {} PROVE FALSE
  OBVIOUS
<1>2. Out \in SUBSET Nat
  OBVIOUS
<1>3. PICK k \in Out : \A m \in Out : k <= m
  BY <1>1, <1>2, LeastNat
<1>4. k \in 1..n /\ k - 1 \in 0..n
  BY <1>3
<1>5. k - 1 \in T
  BY <1>3, <1>4
<1>6. QED
  BY <1>3, <1>4, <1>5

\* f is what the steps h make of b, one after the other.
IsRun(f, V, n, b, h) ==
  f \in [0..n -> V] /\ f[0] = b /\ \A k \in 1..n : f[k] = h[<<f[k - 1], k>>]

\* n steps h lead from one member of V to another.
LEMMA Steps ==
  ASSUME NEW V, NEW n \in Nat, NEW b \in V, NEW h \in [V \X (1..n) -> V]
  PROVE  \E f : IsRun(f, V, n, b, h)
<1> DEFINE Run(f, m) == IsRun(f, V, m, b, h)
           Found(m) == \E f : Run(f, m)
           T == {m \in 0..n : Found(m)}
<1>1. Found(0)
  <2>1. Run([k \in 0..0 |-> b], 0)
    BY DEF IsRun
  <2> HIDE DEF Run
  <2>2. QED
    BY <2>1
<1>2. ASSUME NEW m \in 1..n, Found(m - 1)
      PROVE  Found(m)
  <2>1. PICK f : Run(f, m - 1)
    BY <1>2
  <2> DEFINE g == [k \in 0..m |-> IF k = m THEN h[<<f[m - 1], m>>] ELSE f[k]]
  <2>2. m - 1 \in 0..(m - 1) /\ f[m - 1] \in V
    BY <2>1 DEF IsRun
  <2>3. h[<<f[m - 1], m>>] \in V
    BY <2>2
  <2>4. g \in [0..m -> V]
    BY <2>1, <2>3 DEF IsRun
  <2>5. g[0] = b
    BY <2>1 DEF IsRun
  <2>6. ASSUME NEW k \in 1..m PROVE g[k] = h[<<g[k - 1], k>>]
    <3>1. k - 1 \in 0..m /\ k \in 0..m /\ k - 1 # m
      OBVIOUS
    <3>2. g[k - 1] = f[k - 1]
      BY <3>1
    <3>3. CASE k = m
      BY <3>1, <3>2, <3>3
    <3>4. CASE k # m
      <4>1. k \in 1..(m - 1)
        BY <3>4
      <4>2. f[k] = h[<<f[k - 1], k>>]
        BY <2>1, <4>1 DEF IsRun
      <4>3. g[k] = f[k]
        BY <3>1, <3>4
      <4>4. QED
        BY <3>2, <4>2, <4>3
    <3>5. QED
      BY <3>3, <3>4
  <2>7. Run(g, m)
    BY <2>4, <2>5, <2>6 DEF IsRun
  <2> HIDE DEF g, Run
  <2>8. QED
    BY <2>7
<1> HIDE DEF Found
<1>3. 0 \in T
  BY <1>1
<1>4. ASSUME NEW k \in 1..n, k - 1 \in T PROVE k \in T
  BY <1>2, <1>4
<1>5. \A k \in 0..n : k \in T
  <2> HIDE DEF T
  <2>1. QED
    BY <1>3, <1>4, UpTo
<1>6. Found(n)
  BY <1>5
<1>7. QED
  BY <1>6, Zenon DEF Found

\* What is left of a sequence when its element at i is removed.
LEMMA RemoveAtFacts ==
  ASSUME NEW X, NEW q \in Seq(X), NEW i \in 1..Len(q)
  PROVE  /\ RemoveAt(q, i) \in Seq(X)
         /\ Len(RemoveAt(q, i)) = Len(q) - 1
         /\ \A j \in 1..(Len(q) - 1) : RemoveAt(q, i)[j] = q[IF j < i THEN j ELSE j + 1]
<1> DEFINE a == SubSeq(q, 1, i - 1)
           b == SubSeq(q, i + 1, Len(q))
<1>1. Len(q) \in Nat
  OBVIOUS
<1>2. a \in Seq(X) /\ Len(a) = i - 1 /\ \A j \in 1..(i - 1) : a[j] = q[j]
  BY SubSeqProperties
<1>3. b \in Seq(X) /\ Len(b) = Len(q) - i /\ \A j \in 1..(Len(q) - i) : b[j] = q[i + j]
  BY SubSeqProperties
<1> HIDE DEF a, b
<1>4. RemoveAt(q, i) = a \o b
  BY DEF RemoveAt, a, b
<1>5. QED
  BY <1>1, <1>2, <1>3, <1>4, ConcatProperties, SMTT(30)

=============================================================================
