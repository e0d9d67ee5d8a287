---------------------------- MODULE QueueProofs ----------------------------
(***************************************************************************)
(* What Retain does to any sequence: the elements that stay are those it   *)
(* is to keep, each as often as it was there, and in the same order.       *)
(***************************************************************************)
EXTENDS Queues, FiniteSetTheorems, TLAPS

\* A part of a finite set that has its size is the set.
LEMMA SameSize ==
    ASSUME NEW A, NEW B, IsFiniteSet(B), A \subseteq B, Cardinality(A) = Cardinality(B)
    PROVE  A = B
  <1>1. A \in SUBSET B
    OBVIOUS
  <1> QED
    BY <1>1, FS_Subset

\* pos tells where in s each element of t comes from: from a place of its own, in
\* the order of the places, and from all places of what is kept.
Places(pos, s, kept, t) ==
    /\ pos \in [1 .. Len(t) -> 1 .. Len(s)]
    /\ \A n \in 1 .. Len(t) : t[n] = s[pos[n]] /\ s[pos[n]] \in kept
    /\ \A m, n \in 1 .. Len(t) : m < n => pos[m] < pos[n]
    /\ \A i \in 1 .. Len(s) : s[i] \in kept => \E n \in 1 .. Len(t) : pos[n] = i

\* Each element that stays has its place.
LEMMA RetainOrder ==
    ASSUME NEW S, NEW s \in Seq(S), NEW kept
    PROVE  Retain(s, kept) \in Seq(S) /\ \E pos : Places(pos, s, kept, Retain(s, kept))
  <1> DEFINE at == {i \in 1 .. Len(s) : s[i] \in kept}
             upto(i) == {j \in at : j <= i}
             N == Cardinality(at)
             rank == [i \in at |-> Cardinality(upto(i))]
             pos(n) == CHOOSE i \in at : Cardinality(upto(i)) = n
             t == [n \in 1 .. N |-> s[pos(n)]]
  <1>1. Retain(s, kept) = t
    BY DEF Retain
  <1>2. /\ Len(s) \in Nat /\ at \subseteq 1 .. Len(s) /\ \A i \in at : i \in Nat /\ s[i] \in S /\ s[i] \in kept
        /\ \A i \in 1 .. Len(s) : s[i] \in kept => i \in at
    OBVIOUS
  <1> HIDE DEF at
  <1>3. IsFiniteSet(at) /\ N \in Nat
    <2>1. IsFiniteSet(1 .. Len(s))
      BY <1>2, FS_Interval
    <2>2. IsFiniteSet(at)
      BY <1>2, <2>1, FS_Subset
    <2> QED
      BY <2>2, FS_CardinalityType
  <1>4. ASSUME NEW i \in at
        PROVE  /\ i \in upto(i) /\ upto(i) \subseteq at /\ IsFiniteSet(upto(i))
               /\ Cardinality(upto(i)) \in 1 .. N
    <2>1. i \in upto(i) /\ upto(i) \subseteq at
      BY <1>2
    <2>2. IsFiniteSet(upto(i)) /\ Cardinality(upto(i)) <= N
      BY <1>3, <2>1, FS_Subset
    <2>3. Cardinality(upto(i)) \in Nat
      BY <2>2, FS_CardinalityType
    <2>4. Cardinality(upto(i)) # 0
      BY <2>1, <2>2, FS_EmptySet
    <2> QED
      BY <1>3, <2>1, <2>2, <2>3, <2>4
  <1>5. ASSUME NEW i \in at, NEW j \in at, Cardinality(upto(i)) = Cardinality(upto(j))
        PROVE  i = j
    <2>1. ASSUME NEW k \in at, NEW l \in at, k < l, Cardinality(upto(k)) = Cardinality(upto(l))
          PROVE  FALSE
      <3>1. upto(k) \subseteq upto(l) /\ l \in upto(l) /\ l \notin upto(k)
        <4>1. k \in Nat /\ l \in Nat /\ \A n \in at : n \in Nat
          BY <1>2
        <4>2. k < l
          BY <2>1
        <4>3. \A n \in Nat : n <= k => n <= l
          BY <4>1, <4>2
        <4>4. upto(k) \subseteq upto(l)
          BY <4>1, <4>3
        <4>5. l <= l /\ ~(l <= k)
          BY <4>1, <4>2
        <4> QED
          BY <4>4, <4>5
      <3>2. IsFiniteSet(upto(l))
        BY <1>4
      <3> HIDE DEF upto
      <3>3. upto(k) = upto(l)
        BY <2>1, <3>1, <3>2, SameSize
      <3> QED
        BY <3>1, <3>3
    <2>2. i \in Nat /\ j \in Nat
      BY <1>2
    <2> QED
      BY <1>5, <2>1, <2>2
  <1>6. \A n \in 1 .. N : \E i \in at : Cardinality(upto(i)) = n
    <2>1. rank \in Injection(at, 1 .. N)
      <3>1. rank \in [at -> 1 .. N]
        BY <1>4
      <3>2. \A i, j \in at : rank[i] = rank[j] => i = j
        <4> HIDE DEF upto
        <4> QED BY <1>5
      <3> HIDE DEF rank
      <3> QED
        BY <3>1, <3>2 DEF Injection, IsInjective
    <2>2. IsFiniteSet(1 .. N) /\ Cardinality(1 .. N) = N
      BY <1>3, FS_Interval
    <2>3. rank \in Surjection(at, 1 .. N)
      <3> HIDE DEF rank
      <3> QED BY <2>1, <2>2, FS_Injection
    <2>4. \A n \in 1 .. N : \E i \in at : rank[i] = n
      <3> HIDE DEF rank
      <3> QED BY <2>3 DEF Surjection
    <2> HIDE DEF upto
    <2> QED
      BY <2>4
  <1>7. \A n \in 1 .. N : pos(n) \in at /\ Cardinality(upto(pos(n))) = n
    <2> HIDE DEF upto
    <2> QED BY <1>6
  <1>8. \A i \in at : Cardinality(upto(i)) \in 1 .. N /\ pos(Cardinality(upto(i))) = i
    <2>1. \A i \in at : Cardinality(upto(i)) \in 1 .. N
      BY <1>4
    <2> HIDE DEF upto
    <2>2. \A i \in at : pos(Cardinality(upto(i))) \in at
                         /\ Cardinality(upto(pos(Cardinality(upto(i))))) = Cardinality(upto(i))
      BY <1>7, <2>1
    <2> HIDE DEF pos
    <2> QED
      BY <1>5, <2>1, <2>2
  <1> HIDE DEF pos, upto, N
  <1>9. t \in Seq(S) /\ Len(t) = N /\ \A n \in 1 .. N : t[n] = s[pos(n)]
    <2>1. \A n \in 1 .. N : s[pos(n)] \in S
      BY <1>2, <1>7
    <2>2. t \in [1 .. N -> S]
      BY <2>1
    <2>3. t \in Seq(S)
      BY <1>3, <2>2
    <2>4. Len(t) = N
      BY <1>3
    <2> QED
      BY <2>3, <2>4
  <1> HIDE DEF t
  <1>10. ASSUME NEW m \in 1 .. N, NEW n \in 1 .. N, m < n
         PROVE  pos(m) < pos(n)
    <2>1. PICK x : x = pos(m)
      OBVIOUS
    <2>2. PICK y : y = pos(n)
      OBVIOUS
    <2>3. /\ x \in at /\ y \in at /\ Cardinality(upto(x)) = m /\ Cardinality(upto(y)) = n
          /\ x \in Nat /\ y \in Nat /\ m \in Nat /\ n \in Nat
      <3>1. x \in at /\ y \in at /\ Cardinality(upto(x)) = m /\ Cardinality(upto(y)) = n
        BY <1>7, <2>1, <2>2
      <3> QED
        BY <1>2, <1>3, <3>1
    <2>4. CASE y <= x
      <3>1. \A j \in at : j <= y => j <= x
        BY <1>2, <2>3, <2>4
      <3>2. upto(y) \subseteq upto(x) /\ IsFiniteSet(upto(x))
        BY <1>4, <2>3, <3>1 DEF upto
      <3>3. Cardinality(upto(y)) <= Cardinality(upto(x))
        BY <3>2, FS_Subset
      <3> QED
        BY <1>10, <2>3, <3>3
    <2> QED
      BY <2>1, <2>2, <2>3, <2>4
  <1>11. \A i \in 1 .. Len(s) : s[i] \in kept => \E n \in 1 .. N : pos(n) = i
    BY <1>2, <1>8
  <1>12. PICK p : p = [n \in 1 .. N |-> pos(n)]
    OBVIOUS
  <1>13. p \in [1 .. N -> 1 .. Len(s)] /\ \A n \in 1 .. N : p[n] = pos(n)
    BY <1>2, <1>7, <1>12
  <1>14. \A n \in 1 .. N : t[n] = s[p[n]] /\ s[p[n]] \in kept
    BY <1>2, <1>7, <1>9, <1>13
  <1>15. \A m, n \in 1 .. N : m < n => p[m] < p[n]
    BY <1>10, <1>13
  <1>16. \A i \in 1 .. Len(s) : s[i] \in kept => \E n \in 1 .. N : p[n] = i
    BY <1>11, <1>13
  <1>17. Places(p, s, kept, t)
    BY <1>9, <1>13, <1>14, <1>15, <1>16 DEF Places
  <1> QED
    BY <1>1, <1>9, <1>17

\* Retain keeps the elements it is to keep, each as often as it was there.
LEMMA RetainLemma ==
    ASSUME NEW S, NEW s \in Seq(S), NEW kept
    PROVE  LET t == Retain(s, kept)
           IN  /\ t \in Seq(S)
               /\ \A f : (\E n \in 1 .. Len(t) : t[n] = f)
                           <=> f \in kept /\ \E i \in 1 .. Len(s) : s[i] = f
               /\ (\A i, j \in 1 .. Len(s) : s[i] = s[j] => i = j)
                      => \A m, n \in 1 .. Len(t) : t[m] = t[n] => m = n
  <1>1. PICK t : t = Retain(s, kept)
    OBVIOUS
  <1>2. t \in Seq(S) /\ Len(t) \in Nat
    BY <1>1, RetainOrder
  <1>3. PICK pos : Places(pos, s, kept, t)
    BY <1>1, RetainOrder
  <1>4. \A f : (\E n \in 1 .. Len(t) : t[n] = f) <=> f \in kept /\ \E i \in 1 .. Len(s) : s[i] = f
    <2>1. ASSUME NEW n \in 1 .. Len(t)
          PROVE  t[n] \in kept /\ \E i \in 1 .. Len(s) : s[i] = t[n]
      BY <1>3 DEF Places
    <2>2. ASSUME NEW i \in 1 .. Len(s), s[i] \in kept
          PROVE  \E n \in 1 .. Len(t) : t[n] = s[i]
      BY <1>3, <2>2 DEF Places
    <2> QED
      BY <2>1, <2>2
  <1>5. ASSUME \A i, j \in 1 .. Len(s) : s[i] = s[j] => i = j,
               NEW m \in 1 .. Len(t), NEW n \in 1 .. Len(t), t[m] = t[n]
        PROVE  m = n
    <2>1. pos[m] = pos[n]
      BY <1>3, <1>5 DEF Places
    <2>2. m \in Nat /\ n \in Nat /\ pos[m] \in Nat
      <3>1. pos[m] \in 1 .. Len(s)
        BY <1>3 DEF Places
      <3> QED
        BY <1>2, <3>1
    <2> QED
      BY <1>3, <2>1, <2>2 DEF Places
  <1> QED
    BY <1>1, <1>2, <1>4, <1>5
=============================================================================
