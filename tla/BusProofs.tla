----------------------------- MODULE BusProofs ------------------------------
(***************************************************************************)
(* Theorems about the services of moonshell, for any levels, applications, *)
(* notification ids and changes of the world: the battery, the tray and the*)
(* notifications, and what all proofs about the bus are made of.  A wake-up*)
(* folds a handler over a batch of messages; the results along the way are *)
(* obtained by induction over the positions of the batch, and what is kept *)
(* is stated of the messages that are still to be handled.                 *)
(***************************************************************************)
EXTENDS Services, QueueProofs, Integers, SequenceTheorems, WellFoundedInduction

-----------------------------------------------------------------------------
(* Induction, stated over sets: the theorems of the library are stated     *)
(* over operators, which the provers cannot instantiate.                   *)

\* Of the numbers in T, one is the least.
LEMMA Least ==
    ASSUME NEW T \in SUBSET Nat, T # {}
    PROVE  \E n \in T : \A m \in T : n <= m
  <1>1. PICK R : R = OpToRel(<, Nat)
    OBVIOUS
  <1>2. IsWellFoundedOn(R, Nat)
    BY <1>1, NatLessThanWellFounded
  <1>3. PICK n \in T : \A m \in T : <<m, n>> \notin R
    BY <1>2, WFMin
  <1>4. ASSUME NEW m \in T, m < n
        PROVE  <<m, n>> \in R
    BY <1>1, <1>4 DEF OpToRel
  <1>5. ASSUME NEW m \in T
        PROVE  n <= m
    <2>1. m < n \/ n <= m
      OBVIOUS
    <2> QED
      BY <1>3, <1>4, <2>1
  <1> QED
    BY <1>5

\* What holds at 0, and passes on to the next number up to n, holds up to n.
LEMMA Induction ==
    ASSUME NEW n \in Nat, NEW G \in SUBSET (0 .. n), 0 \in G,
           \A i \in 1 .. n : i - 1 \in G => i \in G
    PROVE  G = 0 .. n
  <1>1. SUFFICES ASSUME 0 .. n \ G # {}
                 PROVE  FALSE
    OBVIOUS
  <1>2. PICK T : T = (0 .. n) \ G
    OBVIOUS
  <1>3. T \in SUBSET Nat /\ T # {}
    BY <1>1, <1>2
  <1>4. PICK i \in T : \A m \in T : i <= m
    BY <1>3, Least
  <1>5. i \in 0 .. n /\ i \notin G /\ i # 0
    BY <1>2, <1>4
  <1>6. i \in 1 .. n /\ i - 1 \in 0 .. n /\ ~(i <= i - 1)
    BY <1>5
  <1>7. i - 1 \in G
    BY <1>2, <1>4, <1>6
  <1> QED
    BY <1>5, <1>6, <1>7

-----------------------------------------------------------------------------
(* FoldLeft.  Its definition goes over the sets of positions; F is the     *)
(* operator that is folded, as a function over what it is applied to.      *)

\* A set of numbers that is not empty has its maximum.
LEMMA MaxLemma ==
    ASSUME NEW n \in Nat, NEW t \in SUBSET (1 .. n), t # {}
    PROVE  Max(t) \in t /\ \A m \in t : m <= Max(t)
  <1>1. PICK T : T = {n - m : m \in t}
    OBVIOUS
  <1>2. T \in SUBSET Nat /\ T # {}
    <2>1. \A m \in t : n - m \in Nat
      OBVIOUS
    <2> QED
      BY <1>1, <2>1
  <1>3. PICK d \in T : \A m \in T : d <= m
    BY <1>2, Least
  <1>4. PICK x \in t : d = n - x
    BY <1>1, <1>3
  <1>5. ASSUME NEW m \in t
        PROVE  x >= m
    <2>1. n - m \in T
      BY <1>1
    <2>2. n - x <= n - m
      BY <1>3, <1>4, <2>1
    <2> QED
      BY <1>4, <2>2
  <1>6. \E y \in t : \A m \in t : y >= m
    BY <1>5
  <1>7. Max(t) \in t /\ \A m \in t : Max(t) >= m
    BY <1>6 DEF Max
  <1> QED
    BY <1>7

IsFold(it, base, F, s, n) ==
    it = [t \in SUBSET (1 .. n) |-> IF t = {} THEN base ELSE F[<<it[t \ {Max(t)}], s[Max(t)]>>]]

\* A fold over the first positions of a sequence, in order, exists.
LEMMA FoldExists ==
    ASSUME NEW Acc, NEW Msg, NEW F \in [Acc \X Msg -> Acc], NEW base \in Acc, NEW s \in Seq(Msg)
    PROVE  \E it \in [SUBSET (1 .. Len(s)) -> Acc] : IsFold(it, base, F, s, Len(s))
  <1>1. PICK G : G = {n \in 0 .. Len(s) : \E it \in [SUBSET (1 .. n) -> Acc] : IsFold(it, base, F, s, n)}
    OBVIOUS
  <1>2. Len(s) \in Nat
    OBVIOUS
  <1>3. 0 \in G
    <2>1. PICK it : it = [t \in SUBSET (1 .. 0) |-> base]
      OBVIOUS
    <2>2. it \in [SUBSET (1 .. 0) -> Acc]
      BY <2>1
    <2>3. SUBSET (1 .. 0) = {{}}
      OBVIOUS
    <2>4. IsFold(it, base, F, s, 0)
      BY <2>1, <2>3 DEF IsFold
    <2>5. 0 \in 0 .. Len(s)
      BY <1>2
    <2> QED
      BY <1>1, <2>2, <2>4, <2>5
  <1>4. ASSUME NEW n \in 1 .. Len(s), n - 1 \in G
        PROVE  n \in G
    <2>1. PICK it \in [SUBSET (1 .. n - 1) -> Acc] : IsFold(it, base, F, s, n - 1)
      BY <1>1, <1>4
    <2>2. PICK jt : jt = [t \in SUBSET (1 .. n) |->
                            IF n \in t THEN F[<<it[t \ {n}], s[n]>>] ELSE it[t]]
      OBVIOUS
    <2>3. n \in Nat /\ n - 1 \in Nat /\ s[n] \in Msg
      BY <1>2
    <2>4. ASSUME NEW t \in SUBSET (1 .. n)
          PROVE  t \ {n} \in SUBSET (1 .. n - 1) /\ (n \notin t => t \in SUBSET (1 .. n - 1))
      BY <2>3
    <2>5. jt \in [SUBSET (1 .. n) -> Acc]
      <3>1. ASSUME NEW t \in SUBSET (1 .. n)
            PROVE  (IF n \in t THEN F[<<it[t \ {n}], s[n]>>] ELSE it[t]) \in Acc
        <4>1. CASE n \in t
          <5>1. it[t \ {n}] \in Acc
            BY <2>4
          <5> QED
            BY <2>3, <4>1, <5>1
        <4>2. CASE n \notin t
          BY <2>4, <4>2
        <4> QED
          BY <4>1, <4>2
      <3> QED
        BY <2>2, <3>1
    <2>6. ASSUME NEW t \in SUBSET (1 .. n - 1)
          PROVE  jt[t] = it[t]
      <3>1. t \in SUBSET (1 .. n) /\ n \notin t
        BY <2>3
      <3> QED
        BY <2>2, <3>1
    <2>7. ASSUME NEW t \in SUBSET (1 .. n)
          PROVE  jt[t] = IF t = {} THEN base ELSE F[<<jt[t \ {Max(t)}], s[Max(t)]>>]
      <3>1. CASE n \in t
        <4>1. Max(t) = n
          <5>1. Max(t) \in 1 .. n /\ n <= Max(t)
            BY <2>3, <3>1, MaxLemma
          <5> QED
            BY <2>3, <5>1
        <4>2. jt[t \ {n}] = it[t \ {n}]
          BY <2>4, <2>6
        <4>3. jt[t] = F[<<it[t \ {n}], s[n]>>]
          BY <2>2, <3>1
        <4> QED
          BY <3>1, <4>1, <4>2, <4>3
      <3>2. CASE n \notin t
        <4>1. t \in SUBSET (1 .. n - 1)
          BY <2>4, <3>2
        <4>2. jt[t] = it[t]
          BY <2>6, <4>1
        <4>3. it[t] = IF t = {} THEN base ELSE F[<<it[t \ {Max(t)}], s[Max(t)]>>]
          BY <2>1, <4>1 DEF IsFold
        <4>4. jt[t \ {Max(t)}] = it[t \ {Max(t)}]
          <5>1. t \ {Max(t)} \in SUBSET (1 .. n - 1)
            BY <4>1
          <5> QED
            BY <2>6, <5>1
        <4> QED
          BY <4>2, <4>3, <4>4
      <3> QED
        BY <3>1, <3>2
    <2>8. IsFold(jt, base, F, s, n)
      <3>1. jt = [t \in SUBSET (1 .. n) |-> jt[t]]
        BY <2>5
      <3>2. \A t \in SUBSET (1 .. n) : jt[t] = IF t = {} THEN base ELSE F[<<jt[t \ {Max(t)}], s[Max(t)]>>]
        BY <2>7
      <3>3. [t \in SUBSET (1 .. n) |-> jt[t]]
              = [t \in SUBSET (1 .. n) |-> IF t = {} THEN base ELSE F[<<jt[t \ {Max(t)}], s[Max(t)]>>]]
        BY <3>2
      <3> QED
        BY <3>1, <3>3 DEF IsFold
    <2> QED
      BY <1>1, <2>5, <2>8
  <1>5. G \in SUBSET (0 .. Len(s)) /\ \A n \in 1 .. Len(s) : n - 1 \in G => n \in G
    BY <1>1, <1>4
  <1>6. G = 0 .. Len(s)
    BY <1>2, <1>3, <1>5, Induction
  <1>7. Len(s) \in G
    BY <1>2, <1>6
  <1> QED
    BY <1>1, <1>7

Run(run, Acc, F, base, s) ==
    /\ run \in [0 .. Len(s) -> Acc] /\ run[0] = base
    /\ \A n \in 1 .. Len(s) : run[n] = F[<<run[n - 1], s[n]>>]

Along(r, Acc, F, base, s) == \E run : Run(run, Acc, F, base, s) /\ run[Len(s)] = r

Applies(it, Acc, F, s) ==
    \A n \in 1 .. Len(s) : it[1 .. n - 1] \in Acc => it[1 .. n] = F[<<it[1 .. n - 1], s[n]>>]

\* The results along the way, of an operator that is F where F applies.
LEMMA FoldRun ==
    ASSUME NEW Acc, NEW Msg, NEW F \in [Acc \X Msg -> Acc], NEW base \in Acc, NEW s \in Seq(Msg),
           NEW it, it[{}] = base, Applies(it, Acc, F, s)
    PROVE  Along(it[1 .. Len(s)], Acc, F, base, s)
  <1>1. PICK run : run = [n \in 0 .. Len(s) |-> it[1 .. n]]
    OBVIOUS
  <1>2. Len(s) \in Nat /\ \A n \in 1 .. Len(s) : s[n] \in Msg /\ n - 1 \in 0 .. Len(s) /\ n \in 0 .. Len(s)
    OBVIOUS
  <1>3. 1 .. 0 = {} /\ run[0] = base /\ run[Len(s)] = it[1 .. Len(s)]
    BY <1>1, <1>2
  <1>4. PICK G : G = {n \in 0 .. Len(s) : run[n] \in Acc}
    OBVIOUS
  <1>5. ASSUME NEW n \in 1 .. Len(s), run[n - 1] \in Acc
        PROVE  run[n] \in Acc /\ run[n] = F[<<run[n - 1], s[n]>>]
    <2>1. run[n - 1] = it[1 .. n - 1] /\ run[n] = it[1 .. n]
      BY <1>1, <1>2
    <2>2. run[n] = F[<<run[n - 1], s[n]>>]
      BY <1>5, <2>1 DEF Applies
    <2> QED
      BY <1>2, <1>5, <2>2
  <1>6. G \in SUBSET (0 .. Len(s)) /\ 0 \in G /\ \A n \in 1 .. Len(s) : n - 1 \in G => n \in G
    <2>1. 0 \in 0 .. Len(s)
      BY <1>2
    <2>2. 0 \in G
      BY <1>3, <1>4, <2>1
    <2> QED
      BY <1>2, <1>4, <1>5, <2>2
  <1>7. G = 0 .. Len(s)
    BY <1>2, <1>6, Induction
  <1>8. \A n \in 0 .. Len(s) : run[n] \in Acc
    BY <1>4, <1>7
  <1>9. run \in [0 .. Len(s) -> Acc]
    BY <1>1, <1>8
  <1> QED
    BY <1>2, <1>3, <1>5, <1>8, <1>9 DEF Run, Along

\* The last of the numbers up to n is n.
LEMMA MaxUpto ==
    ASSUME NEW n \in Nat \ {0}
    PROVE  1 .. n # {} /\ Max(1 .. n) = n /\ (1 .. n) \ {n} = 1 .. n - 1
  <1>1. 1 .. n # {} /\ n \in 1 .. n /\ (1 .. n) \ {n} = 1 .. n - 1
    OBVIOUS
  <1>2. Max(1 .. n) \in 1 .. n /\ n <= Max(1 .. n)
    BY <1>1, MaxLemma
  <1> QED
    BY <1>1, <1>2

-----------------------------------------------------------------------------
(* Sequences.                                                              *)

\* What is kept of a stretch of s is the stretch, if it is all there is to keep.
LEMMA RetainStretch ==
    ASSUME NEW S, NEW s \in Seq(S), NEW kept, NEW a \in Nat \ {0}, NEW b \in Nat, b <= Len(s),
           \A i \in 1 .. Len(s) : s[i] \in kept <=> a <= i /\ i <= b
    PROVE  Retain(s, kept) = SubSeq(s, a, b)
  <1>1. PICK at : at = {i \in 1 .. Len(s) : s[i] \in kept}
    OBVIOUS
  <1>2. Len(s) \in Nat /\ at = a .. b
    BY <1>1
  <1>3. \A i \in Int : IsFiniteSet(a .. i) /\ Cardinality(a .. i) = IF a > i THEN 0 ELSE i - a + 1
    BY FS_Interval
  <1>4. \A i \in at : {j \in at : j <= i} = a .. i
    BY <1>2
  <1>5. ASSUME NEW i \in at
        PROVE  Cardinality({j \in at : j <= i}) = i - a + 1
    <2>1. i \in Int /\ ~(a > i) /\ a \in Int
      BY <1>2
    <2>2. Cardinality(a .. i) = i - a + 1
      BY <1>3, <2>1
    <2> QED
      BY <1>4, <2>2
  <1>6. PICK N : N = Cardinality(at)
    OBVIOUS
  <1>7. N = IF a > b THEN 0 ELSE b - a + 1
    BY <1>2, <1>3, <1>6
  <1>8. ASSUME NEW n \in 1 .. N
        PROVE  (CHOOSE i \in at : Cardinality({j \in at : j <= i}) = n) = n + a - 1
    <2>1. n + a - 1 \in at /\ \A i \in at : i - a + 1 = n <=> i = n + a - 1
      BY <1>2, <1>7
    <2> QED
      BY <1>5, <2>1
  <1>9. Retain(s, kept) = [n \in 1 .. N |-> s[CHOOSE i \in at : Cardinality({j \in at : j <= i}) = n]]
    BY <1>1, <1>6 DEF Retain
  <1>10. Retain(s, kept) = [n \in 1 .. N |-> s[n + a - 1]]
    BY <1>8, <1>9
  <1>11. SubSeq(s, a, b) = [n \in 1 .. N |-> s[n + a - 1]]
    <2>1. b - a + 1 \in Int /\ 1 .. b - a + 1 = 1 .. N
      BY <1>7
    <2>2. SubSeq(s, a, b) = [n \in 1 .. b - a + 1 |-> s[a + n - 1]]
      BY <1>2
    <2> QED
      BY <2>1, <2>2
  <1> QED
    BY <1>10, <1>11

\* A queue that loses nothing stays as it is.
LEMMA RetainAll ==
    ASSUME NEW S, NEW s \in Seq(S), NEW kept, \A i \in 1 .. Len(s) : s[i] \in kept
    PROVE  Retain(s, kept) = s
  <1>1. Len(s) \in Nat /\ 1 \in Nat \ {0} /\ Len(s) <= Len(s)
        /\ \A i \in 1 .. Len(s) : s[i] \in kept <=> 1 <= i /\ i <= Len(s)
    OBVIOUS
  <1>2. Retain(s, kept) = SubSeq(s, 1, Len(s))
    BY <1>1, RetainStretch
  <1> QED
    BY <1>2, SubSeqFull

Removed(t, s, i) ==
    /\ Len(t) = Len(s) - 1
    /\ \A k \in 1 .. Len(t) : t[k] = IF k < i THEN s[k] ELSE s[k + 1]
    /\ \A k \in 1 .. Len(s) : k # i => \E m \in 1 .. Len(t) : t[m] = s[k]

\* One element leaves a sequence, and those behind it move up.
LEMMA RemoveAtLemma ==
    ASSUME NEW S, NEW s \in Seq(S), NEW i \in 1 .. Len(s)
    PROVE  RemoveAt(s, i) \in Seq(S) /\ Removed(RemoveAt(s, i), s, i)
  <1>1. PICK a : a = SubSeq(s, 1, i - 1)
    OBVIOUS
  <1>2. PICK b : b = SubSeq(s, i + 1, Len(s))
    OBVIOUS
  <1>3. PICK t : t = a \o b
    OBVIOUS
  <1>4. t = RemoveAt(s, i) /\ Len(s) \in Nat /\ i \in Nat /\ 1 <= i /\ i <= Len(s)
    BY <1>1, <1>2, <1>3 DEF RemoveAt
  <1>5. a \in Seq(S) /\ Len(a) = i - 1
    BY <1>1, <1>4
  <1>6. \A k \in 1 .. i - 1 : a[k] = s[k]
    BY <1>1, <1>4
  <1>7. b \in Seq(S) /\ Len(b) = Len(s) - i
    BY <1>2, <1>4
  <1>8. \A k \in 1 .. Len(s) - i : b[k] = s[k + i]
    BY <1>2, <1>4
  <1>9. t \in Seq(S) /\ Len(t) = Len(a) + Len(b)
        /\ \A k \in 1 .. Len(a) + Len(b) : t[k] = IF k <= Len(a) THEN a[k] ELSE b[k - Len(a)]
    BY <1>3, <1>5, <1>7, ConcatProperties
  <1>10. Len(t) = Len(s) - 1 /\ \A k \in 1 .. Len(s) - 1 : t[k] = IF k <= i - 1 THEN a[k] ELSE b[k - (i - 1)]
    BY <1>4, <1>5, <1>7, <1>9
  <1>11. ASSUME NEW k \in 1 .. Len(s) - 1
         PROVE  t[k] = IF k < i THEN s[k] ELSE s[k + 1]
    <2>1. CASE k < i
      <3>1. k \in 1 .. i - 1 /\ k <= i - 1
        BY <1>4, <2>1
      <3> QED
        BY <1>6, <1>10, <2>1, <3>1
    <2>2. CASE ~(k < i)
      <3>1. k - (i - 1) \in 1 .. Len(s) - i /\ ~(k <= i - 1) /\ k - (i - 1) + i = k + 1
        BY <1>4, <2>2
      <3>2. b[k - (i - 1)] = s[k - (i - 1) + i]
        BY <1>8, <3>1
      <3> QED
        BY <1>10, <2>2, <3>1, <3>2
    <2> QED
      BY <2>1, <2>2
  <1>12. ASSUME NEW k \in 1 .. Len(s), k # i
         PROVE  \E m \in 1 .. Len(t) : t[m] = s[k]
    <2>1. CASE k < i
      <3>1. k \in 1 .. Len(s) - 1 /\ t[k] = s[k]
        BY <1>4, <1>11, <2>1
      <3> QED
        BY <1>10, <3>1
    <2>2. CASE ~(k < i)
      <3>1. k - 1 \in 1 .. Len(s) - 1 /\ ~(k - 1 < i) /\ k - 1 + 1 = k
        BY <1>4, <1>12, <2>2
      <3>2. t[k - 1] = s[k]
        BY <1>11, <3>1
      <3> QED
        BY <1>10, <3>1, <3>2
    <2> QED
      BY <2>1, <2>2
  <1>13. Removed(t, s, i)
    BY <1>10, <1>11, <1>12 DEF Removed
  <1> QED
    BY <1>4, <1>9, <1>13

\* An element may be appended before or after two sequences are joined.
LEMMA ConcatOne ==
    ASSUME NEW S, NEW a \in Seq(S), NEW b \in Seq(S), NEW x \in S
    PROVE  (a \o b) \o <<x>> = a \o (b \o <<x>>)
  OBVIOUS

\* Appending is joining with a sequence of one.
LEMMA AppendOne ==
    ASSUME NEW S, NEW s \in Seq(S), NEW x \in S
    PROVE  Append(s, x) = s \o <<x>> /\ Append(s, x) \in Seq(S)
  OBVIOUS

\* A wake-up handles what set-up held back, then what is on the wire.
LEMMA BatchLemma ==
    ASSUME NEW S, held \in Seq(S), wire \in Seq(S)
    PROVE  /\ Batch \in Seq(S) /\ Len(Batch) = Len(held) + Len(wire)
           /\ Len(held) \in Nat /\ Len(wire) \in Nat
           /\ (held = <<>> => Batch = wire)
  <1>1. Batch \in Seq(S) /\ Len(Batch) = Len(held) + Len(wire)
    BY ConcatProperties DEF Batch
  <1>2. held = <<>> => Batch = wire
    BY ConcatEmptySeq DEF Batch
  <1> QED
    BY <1>1, <1>2

\* What comes in is last.
LEMMA AppendBatch ==
    ASSUME NEW S, held \in Seq(S), wire \in Seq(S), NEW msg \in S,
           held' = held, wire' = Append(wire, msg)
    PROVE  Batch' = Append(Batch, msg) /\ wire' \in Seq(S)
  <1>1. Batch' = held \o Append(wire, msg)
    BY DEF Batch
  <1>2. wire' = wire \o <<msg>> /\ Append(Batch, msg) = Batch \o <<msg>> /\ wire' \in Seq(S)
    <2>1. Batch \in Seq(S)
      BY BatchLemma
    <2> QED
      BY <2>1, AppendOne
  <1>3. (held \o wire) \o <<msg>> = held \o (wire \o <<msg>>)
    BY ConcatOne
  <1> QED
    BY <1>1, <1>2, <1>3 DEF Batch

\* The messages after one more has come in.
LEMMA AppendFacts ==
    ASSUME NEW S, NEW s \in Seq(S), NEW msg \in S
    PROVE  /\ Append(s, msg) \in Seq(S) /\ Len(Append(s, msg)) = Len(s) + 1 /\ Len(s) \in Nat
           /\ \A i \in 1 .. Len(s) : i \in 1 .. Len(s) + 1 /\ Append(s, msg)[i] = s[i]
           /\ Append(s, msg)[Len(s) + 1] = msg
           /\ \A i \in 1 .. Len(s) + 1 : i \in 1 .. Len(s) \/ i = Len(s) + 1
  OBVIOUS

\* A blocking call takes the first reply on the wire.
LEMMA FirstReplyLemma ==
    ASSUME NEW S, wire \in Seq(S), FirstReply > 0
    PROVE  /\ FirstReply \in 1 .. Len(wire) /\ wire[FirstReply].kind = "reply"
           /\ \A i \in 1 .. Len(wire) : wire[i].kind = "reply" => FirstReply <= i
  <1>1. PICK I : I = {i \in 1 .. Len(wire) : wire[i].kind = "reply"}
    OBVIOUS
  <1>2. FirstReply = IF I # {} THEN Min(I) ELSE 0
    BY <1>1 DEF FirstReply, SelectInSeq
  <1>3. I # {} /\ FirstReply = Min(I) /\ I \in SUBSET Nat
    BY <1>1, <1>2
  <1>4. \E x \in I : \A y \in I : x <= y
    BY <1>3, Least
  <1>5. Min(I) \in I /\ \A y \in I : Min(I) <= y
    BY <1>4 DEF Min
  <1> QED
    BY <1>1, <1>3, <1>5

\* The state is what the signals and the reply taken ahead of them leave.
LEMMA ReplyTaken ==
    ASSUME NEW S, wire \in Seq(S), held \in Seq(S), ReadReply
    PROVE  /\ wire' \in Seq(S) /\ held' \in Seq(S)
           /\ held = <<>> => Batch' = RemoveAt(wire, FirstReply)
  <1>1. /\ held' = held \o SubSeq(wire, 1, FirstReply - 1) /\ wire' = SubSeq(wire, FirstReply + 1, Len(wire))
        /\ FirstReply \in 1 .. Len(wire)
    BY FirstReplyLemma DEF ReadReply
  <1>2. PICK a : a = SubSeq(wire, 1, FirstReply - 1)
    OBVIOUS
  <1>3. PICK b : b = SubSeq(wire, FirstReply + 1, Len(wire))
    OBVIOUS
  <1>4. PICK f : f = FirstReply
    OBVIOUS
  <1>5. a \in Seq(S) /\ b \in Seq(S)
    BY <1>1, <1>2, <1>3, <1>4
  <1>6. held' = held \o a /\ wire' = b
    BY <1>1, <1>2, <1>3
  <1>7. held' \in Seq(S)
    BY <1>5, <1>6, ConcatProperties
  <1>8. held = <<>> => held' = a
    BY <1>5, <1>6, ConcatEmptySeq
  <1> QED
    BY <1>2, <1>3, <1>5, <1>6, <1>7, <1>8 DEF Batch, RemoveAt

\* All messages are of one kind.
LEMMA AllOfKind ==
    ASSUME NEW S, NEW s \in Seq(S), NEW kind, \A i \in 1 .. Len(s) : s[i].kind = kind
    PROVE  OfKind(s, kind) = s
  <1>1. PICK kept : kept = {msg \in ToSet(s) : msg.kind = kind}
    OBVIOUS
  <1>2. Len(s) \in Nat /\ DOMAIN s = 1 .. Len(s)
    OBVIOUS
  <1>3. \A i \in 1 .. Len(s) : s[i] \in kept
    BY <1>1, <1>2 DEF ToSet
  <1>4. Retain(s, kept) = s
    BY <1>3, RetainAll
  <1> QED
    BY <1>1, <1>4 DEF OfKind

\* What is in two sequences is in their concatenation, and nothing else.
LEMMA ToSetConcat ==
    ASSUME NEW S, NEW a \in Seq(S), NEW b \in Seq(S)
    PROVE  ToSet(a \o b) = ToSet(a) \cup ToSet(b)
  <1>1. /\ Len(a) \in Nat /\ Len(b) \in Nat /\ Len(a \o b) = Len(a) + Len(b)
        /\ \A i \in 1 .. Len(a) + Len(b) : (a \o b)[i] = IF i <= Len(a) THEN a[i] ELSE b[i - Len(a)]
    BY ConcatProperties
  <1>2. DOMAIN a = 1 .. Len(a) /\ DOMAIN b = 1 .. Len(b) /\ DOMAIN (a \o b) = 1 .. Len(a) + Len(b)
    BY <1>1, ConcatProperties
  <1>3. ASSUME NEW i \in 1 .. Len(a) + Len(b)
        PROVE  (a \o b)[i] \in ToSet(a) \cup ToSet(b)
    <2>1. CASE i <= Len(a)
      BY <1>1, <1>2, <2>1 DEF ToSet
    <2>2. CASE ~(i <= Len(a))
      <3>1. i - Len(a) \in 1 .. Len(b)
        BY <1>1, <2>2
      <3> QED
        BY <1>1, <1>2, <2>2, <3>1 DEF ToSet
    <2> QED
      BY <2>1, <2>2
  <1>4. ASSUME NEW i \in 1 .. Len(a)
        PROVE  a[i] \in ToSet(a \o b)
    <2>1. i \in 1 .. Len(a) + Len(b) /\ i <= Len(a)
      BY <1>1
    <2> QED
      BY <1>1, <1>2, <2>1 DEF ToSet
  <1>5. ASSUME NEW i \in 1 .. Len(b)
        PROVE  b[i] \in ToSet(a \o b)
    <2>1. i + Len(a) \in 1 .. Len(a) + Len(b) /\ ~(i + Len(a) <= Len(a)) /\ i + Len(a) - Len(a) = i
      BY <1>1
    <2>2. (a \o b)[i + Len(a)] = b[i + Len(a) - Len(a)]
      BY <1>1, <2>1
    <2> QED
      BY <1>2, <2>1, <2>2 DEF ToSet
  <1> QED
    BY <1>2, <1>3, <1>4, <1>5 DEF ToSet

\* What the empty sequence and one of a single element hold.
LEMMA ToSetOne == ToSet(<<>>) = {} /\ \A x : ToSet(<<x>>) = {x}
  BY DEF ToSet

\* The messages of s after the first j.
Rest(s, j) == {s[m] : m \in j + 1 .. Len(s)}

\* The rest of a batch shrinks by each message handled, grows by each that
\* comes.
LEMMA RestFacts ==
    ASSUME NEW S, NEW s \in Seq(S)
    PROVE  /\ Rest(s, Len(s)) = {}
           /\ \A j \in 1 .. Len(s) : Rest(s, j - 1) = Rest(s, j) \cup {s[j]}
           /\ \A x \in S : /\ \A j \in 0 .. Len(s) : Rest(Append(s, x), j) = Rest(s, j) \cup {x}
                           /\ Rest(Append(s, x), Len(s) + 1) = {}
  <1>1. Len(s) \in Nat
    OBVIOUS
  <1>2. Rest(s, Len(s)) = {}
    BY <1>1 DEF Rest
  <1>3. ASSUME NEW j \in 1 .. Len(s)
        PROVE  Rest(s, j - 1) = Rest(s, j) \cup {s[j]}
    <2>1. j - 1 + 1 .. Len(s) = (j + 1 .. Len(s)) \cup {j}
      BY <1>1
    <2> QED
      BY <2>1 DEF Rest
  <1>4. ASSUME NEW x \in S, NEW t, t = Append(s, x)
        PROVE  /\ \A j \in 0 .. Len(s) : Rest(t, j) = Rest(s, j) \cup {x}
               /\ Rest(t, Len(s) + 1) = {}
    <2>1. /\ Len(t) = Len(s) + 1 /\ t[Len(s) + 1] = x
          /\ \A i \in 1 .. Len(s) : t[i] = s[i]
      BY <1>4, AppendFacts
    <2>2. ASSUME NEW j \in 0 .. Len(s)
          PROVE  Rest(t, j) = Rest(s, j) \cup {x}
      <3>1. j + 1 .. Len(t) = (j + 1 .. Len(s)) \cup {Len(s) + 1} /\ j + 1 .. Len(s) \subseteq 1 .. Len(s)
        BY <1>1, <2>1
      <3> QED
        BY <2>1, <3>1 DEF Rest
    <2>3. Rest(t, Len(s) + 1) = {}
      BY <1>1, <2>1 DEF Rest
    <2> QED
      BY <2>2, <2>3
  <1> QED
    BY <1>2, <1>3, <1>4

\* Message k is taken out of its turn.
LEMMA RestRemoved ==
    ASSUME NEW S, NEW s \in Seq(S), NEW t \in Seq(S), NEW k \in 1 .. Len(s), Removed(t, s, k)
    PROVE  /\ Rest(s, 0) = Rest(t, 0) \cup {s[k]}
           /\ Rest(s, k) \subseteq Rest(t, 0)
           /\ \A j \in 1 .. Len(t) : \E i \in 1 .. Len(s) :
                 t[j] = s[i] /\ Rest(s, i) \subseteq Rest(t, j) \cup {s[k]}
  <1>1. /\ Len(s) \in Nat /\ Len(t) = Len(s) - 1 /\ k \in Nat
        /\ \A n \in 1 .. Len(t) : t[n] = IF n < k THEN s[n] ELSE s[n + 1]
    BY DEF Removed
  <1>2. ASSUME NEW j \in 0 .. Len(t), NEW m \in 1 .. Len(s), m # k, j < k => j < m, ~(j < k) => j + 1 < m
        PROVE  s[m] \in Rest(t, j)
    <2>1. CASE m < k
      <3>1. m \in 1 .. Len(t) /\ j < m
        BY <1>1, <1>2, <2>1
      <3>2. m \in j + 1 .. Len(t) /\ t[m] = s[m]
        BY <1>1, <2>1, <3>1
      <3> QED
        BY <3>2 DEF Rest
    <2>2. CASE m > k
      <3>1. m - 1 \in j + 1 .. Len(t) /\ m - 1 \in 1 .. Len(t) /\ ~(m - 1 < k) /\ m - 1 + 1 = m
        BY <1>1, <1>2, <2>2
      <3>2. t[m - 1] = s[m]
        BY <1>1, <3>1
      <3> QED
        BY <3>1, <3>2 DEF Rest
    <2> QED
      BY <1>1, <1>2, <2>1, <2>2
  <1>3. Rest(s, 0) = Rest(t, 0) \cup {s[k]}
    <2>1. ASSUME NEW m \in 1 .. Len(s)
          PROVE  s[m] \in Rest(t, 0) \cup {s[k]}
      BY <1>1, <1>2
    <2>2. ASSUME NEW n \in 1 .. Len(t)
          PROVE  t[n] \in {s[m] : m \in 1 .. Len(s)}
      BY <1>1
    <2> QED
      BY <1>1, <2>1, <2>2 DEF Rest
  <1>4. Rest(s, k) \subseteq Rest(t, 0)
    BY <1>1, <1>2 DEF Rest
  <1>5. ASSUME NEW j \in 1 .. Len(t)
        PROVE  \E i \in 1 .. Len(s) : t[j] = s[i] /\ Rest(s, i) \subseteq Rest(t, j) \cup {s[k]}
    <2>1. PICK i : i = IF j < k THEN j ELSE j + 1
      OBVIOUS
    <2>2. i \in 1 .. Len(s) /\ t[j] = s[i]
      BY <1>1, <2>1
    <2>3. ASSUME NEW m \in i + 1 .. Len(s)
          PROVE  s[m] \in Rest(t, j) \cup {s[k]}
      <3>1. m \in 1 .. Len(s) /\ (j < k => j < m) /\ (~(j < k) => j + 1 < m)
        BY <1>1, <2>1
      <3>2. j \in 0 .. Len(t)
        BY <1>1
      <3> QED
        BY <1>2, <3>1, <3>2
    <2> QED
      BY <2>2, <2>3 DEF Rest
  <1> QED
    BY <1>3, <1>4, <1>5

\* What is read while a reply is waited for stays in its order; the reply does not.
LEMMA ReplyRemoved ==
    ASSUME NEW S, wire \in Seq(S), held \in Seq(S), ReadReply
    PROVE  /\ wire' \in Seq(S) /\ held' \in Seq(S) /\ Batch' \in Seq(S)
           /\ Len(held) + FirstReply \in 1 .. Len(Batch) /\ Batch[Len(held) + FirstReply] = wire[FirstReply]
           /\ Removed(Batch', Batch, Len(held) + FirstReply)
  <1>1. PICK f : f = FirstReply
    OBVIOUS
  <1>2. /\ held' = held \o SubSeq(wire, 1, f - 1) /\ wire' = SubSeq(wire, f + 1, Len(wire))
        /\ f \in 1 .. Len(wire)
    BY <1>1, FirstReplyLemma DEF ReadReply
  <1>3. PICK a : a = SubSeq(wire, 1, f - 1)
    OBVIOUS
  <1>4. PICK b : b = SubSeq(wire, f + 1, Len(wire))
    OBVIOUS
  <1>5. PICK h : h = held \o a
    OBVIOUS
  <1>6. /\ a \in Seq(S) /\ b \in Seq(S) /\ Len(a) = f - 1 /\ Len(b) = Len(wire) - f
        /\ Len(wire) \in Nat /\ f \in Nat /\ Len(held) \in Nat
    BY <1>2, <1>3, <1>4
  <1>7. (\A i \in 1 .. f - 1 : a[i] = wire[i]) /\ (\A i \in 1 .. Len(wire) - f : b[i] = wire[f + i])
    BY <1>2, <1>3, <1>4, <1>6
  <1>8. /\ h \in Seq(S) /\ Len(h) = Len(held) + (f - 1)
        /\ \A i \in 1 .. Len(held) + Len(a) : h[i] = IF i <= Len(held) THEN held[i] ELSE a[i - Len(held)]
    <2>1. /\ h \in Seq(S) /\ Len(h) = Len(held) + Len(a)
          /\ \A i \in 1 .. Len(held) + Len(a) : h[i] = IF i <= Len(held) THEN held[i] ELSE a[i - Len(held)]
      BY <1>5, <1>6, ConcatProperties
    <2> QED
      BY <1>6, <2>1
  <1>9. PICK t : t = h \o b
    OBVIOUS
  <1>10. /\ t \in Seq(S) /\ Len(t) = Len(h) + Len(b)
         /\ \A i \in 1 .. Len(h) + Len(b) : t[i] = IF i <= Len(h) THEN h[i] ELSE b[i - Len(h)]
    BY <1>6, <1>8, <1>9, ConcatProperties
  <1>11. PICK s : s = held \o wire
    OBVIOUS
  <1>12. /\ s \in Seq(S) /\ Len(s) = Len(held) + Len(wire)
         /\ \A i \in 1 .. Len(held) + Len(wire) : s[i] = IF i <= Len(held) THEN held[i] ELSE wire[i - Len(held)]
    BY <1>11, ConcatProperties
  <1>13. Batch = s /\ Batch' = t /\ held' = h /\ wire' = b
    BY <1>2, <1>3, <1>4, <1>5, <1>9, <1>11 DEF Batch
  <1>14. PICK k : k = Len(held) + f
    OBVIOUS
  <1>15. k \in 1 .. Len(s) /\ s[k] = wire[f] /\ Len(t) = Len(s) - 1
    <2>1. k \in 1 .. Len(held) + Len(wire) /\ ~(k <= Len(held)) /\ k - Len(held) = f
      BY <1>2, <1>6, <1>14
    <2>2. Len(t) = Len(s) - 1
      BY <1>6, <1>8, <1>10, <1>12
    <2> QED
      BY <1>12, <2>1, <2>2
  <1>16. ASSUME NEW i \in 1 .. Len(t)
         PROVE  t[i] = IF i < k THEN s[i] ELSE s[i + 1]
    <2>1. i \in 1 .. Len(h) + Len(b)
      BY <1>10
    <2>2. CASE i < k
      <3>1. i <= Len(h) /\ i \in 1 .. Len(held) + Len(a) /\ i \in 1 .. Len(held) + Len(wire)
        BY <1>2, <1>6, <1>8, <1>14, <2>2
      <3>2. t[i] = IF i <= Len(held) THEN held[i] ELSE a[i - Len(held)]
        BY <1>8, <1>10, <2>1, <3>1
      <3>3. CASE i <= Len(held)
        BY <1>12, <2>2, <3>1, <3>2, <3>3
      <3>4. CASE ~(i <= Len(held))
        <4>1. i - Len(held) \in 1 .. f - 1
          BY <1>6, <1>8, <3>1, <3>4
        <4> QED
          BY <1>7, <1>12, <2>2, <3>1, <3>2, <3>4, <4>1
      <3> QED
        BY <3>3, <3>4
    <2>3. CASE ~(i < k)
      <3>1. ~(i <= Len(h)) /\ i - Len(h) \in 1 .. Len(wire) - f
        BY <1>6, <1>8, <1>10, <1>14, <2>3
      <3>2. t[i] = wire[f + (i - Len(h))]
        BY <1>7, <1>10, <2>1, <3>1
      <3>3. i + 1 \in 1 .. Len(held) + Len(wire) /\ ~(i + 1 <= Len(held)) /\ i + 1 - Len(held) = f + (i - Len(h))
        BY <1>6, <1>8, <1>10, <1>14, <2>3
      <3>4. s[i + 1] = wire[i + 1 - Len(held)]
        BY <1>12, <3>3
      <3> QED
        BY <2>3, <3>2, <3>3, <3>4
    <2> QED
      BY <2>2, <2>3
  <1>17. ASSUME NEW i \in 1 .. Len(s), i # k
         PROVE  \E m \in 1 .. Len(t) : t[m] = s[i]
    <2>1. CASE i < k
      <3>1. i \in 1 .. Len(t)
        BY <1>12, <1>15, <2>1, <1>6
      <3> QED
        BY <1>16, <2>1, <3>1
    <2>2. CASE ~(i < k)
      <3>1. i - 1 \in 1 .. Len(t) /\ ~(i - 1 < k) /\ i - 1 + 1 = i
        BY <1>6, <1>12, <1>14, <1>15, <1>17, <2>2
      <3>2. t[i - 1] = s[i - 1 + 1]
        BY <1>16, <3>1
      <3> QED
        BY <3>1, <3>2
    <2> QED
      BY <2>1, <2>2
  <1>18. Removed(t, s, k)
    BY <1>15, <1>16, <1>17 DEF Removed
  <1> QED
    BY <1>1, <1>6, <1>8, <1>10, <1>13, <1>14, <1>15, <1>18

-----------------------------------------------------------------------------
\* Where nothing overtakes, the signals and then the replies are the batch itself.
LEMMA InOrder ==
    ASSUME NEW S, NEW s \in Seq(S), \A i \in 1 .. Len(s) : s[i].kind \in {"signal", "reply"}, ~Overtakes(s)
    PROVE  Signals(s) \o Replies(s) = s
  <1>1. PICK n \in Nat : n = Len(s)
    OBVIOUS
  <1>2. \A i, j \in 1 .. n : i < j => s[i].kind = "signal" \/ s[j].kind = "reply"
    <2>1. ASSUME NEW i \in 1 .. n, NEW j \in 1 .. n, i < j, s[i].kind # "signal", s[j].kind # "reply"
          PROVE  FALSE
      <3>1. Queue(s[i].kind) = 3 /\ Queue(s[j].kind) = 2
        BY <1>1, <2>1 DEF Queue
      <3>2. DOMAIN s = 1 .. n
        BY <1>1
      <3> QED
        BY <2>1, <3>1, <3>2 DEF Overtakes
    <2> QED
      BY <2>1
  <1>3. PICK I : I = {i \in 1 .. n : s[i].kind = "signal"}
    OBVIOUS
  <1>4. PICK k \in 0 .. n : \A i \in 1 .. n : s[i].kind = "signal" <=> i <= k
    <2>1. CASE I = {}
      <3>1. 0 \in 0 .. n /\ \A i \in 1 .. n : s[i].kind = "signal" <=> i <= 0
        BY <1>3, <2>1
      <3> QED
        BY <3>1
    <2>2. CASE I # {}
      <3>1. I \in SUBSET (1 .. n)
        BY <1>3
      <3>2. PICK k : k = Max(I)
        OBVIOUS
      <3>3. k \in I /\ \A m \in I : m <= k
        BY <2>2, <3>1, <3>2, MaxLemma
      <3>4. k \in 1 .. n /\ s[k].kind = "signal"
        BY <1>3, <3>3
      <3>5. ASSUME NEW i \in 1 .. n, i <= k
            PROVE  s[i].kind = "signal"
        BY <1>2, <3>4, <3>5
      <3>6. ASSUME NEW i \in 1 .. n, s[i].kind = "signal"
            PROVE  i <= k
        BY <1>3, <3>3, <3>6
      <3>7. k \in 0 .. n
        BY <3>4
      <3> QED
        BY <3>5, <3>6, <3>7
    <2> QED
      BY <2>1, <2>2
  <1>5. DOMAIN s = 1 .. n /\ k \in Nat /\ k <= n
    BY <1>1, <1>4
  <1>6. Signals(s) = SubSeq(s, 1, k)
    <2>1. PICK kept : kept = {msg \in ToSet(s) : msg.kind = "signal"}
      OBVIOUS
    <2>2. \A i \in 1 .. Len(s) : s[i] \in kept <=> 1 <= i /\ i <= k
      BY <1>1, <1>4, <1>5, <2>1 DEF ToSet
    <2>3. 1 \in Nat \ {0} /\ k <= Len(s)
      BY <1>1, <1>5
    <2>4. Retain(s, kept) = SubSeq(s, 1, k)
      BY <1>5, <2>2, <2>3, RetainStretch
    <2> QED
      BY <2>1, <2>4 DEF Signals, OfKind
  <1>7. Replies(s) = SubSeq(s, k + 1, n)
    <2>1. PICK kept : kept = {msg \in ToSet(s) : msg.kind = "reply"}
      OBVIOUS
    <2>2. \A i \in 1 .. n : s[i].kind = "reply" <=> k + 1 <= i
      <3>1. \A i \in 1 .. n : s[i].kind = "reply" <=> ~(i <= k)
        BY <1>1, <1>4
      <3> QED
        BY <1>5, <3>1
    <2>3. \A i \in 1 .. Len(s) : s[i] \in kept <=> k + 1 <= i /\ i <= n
      BY <1>1, <1>5, <2>1, <2>2 DEF ToSet
    <2>4. k + 1 \in Nat \ {0} /\ n <= Len(s)
      BY <1>1, <1>5
    <2>5. Retain(s, kept) = SubSeq(s, k + 1, n)
      BY <1>1, <2>3, <2>4, RetainStretch
    <2> QED
      BY <2>1, <2>5 DEF Replies, OfKind
  <1>8. SubSeq(s, 1, k) \o SubSeq(s, k + 1, n) = s
    <2>1. PICK a : a = SubSeq(s, 1, k)
      OBVIOUS
    <2>2. PICK b : b = SubSeq(s, k + 1, n)
      OBVIOUS
    <2>3. a \in Seq(S) /\ Len(a) = k /\ \A i \in 1 .. k : a[i] = s[i]
      BY <1>1, <1>5, <2>1
    <2>4. b \in Seq(S) /\ Len(b) = n - k /\ \A i \in 1 .. n - k : b[i] = s[k + i]
      BY <1>1, <1>5, <2>2
    <2>5. /\ a \o b \in Seq(S) /\ Len(a \o b) = n
          /\ \A i \in 1 .. n : (a \o b)[i] = IF i <= k THEN a[i] ELSE b[i - k]
      BY <1>5, <2>3, <2>4, ConcatProperties
    <2>6. \A i \in 1 .. n : (a \o b)[i] = s[i]
      <3>1. ASSUME NEW i \in 1 .. n, ~(i <= k)
            PROVE  b[i - k] = s[i]
        <4>1. i - k \in 1 .. n - k /\ k + (i - k) = i
          BY <1>5, <3>1
        <4> QED
          BY <2>4, <4>1
      <3> QED
        BY <1>5, <2>3, <2>5, <3>1
    <2> QED
      BY <1>1, <2>1, <2>2, <2>5, <2>6, SeqEqual
  <1> QED
    BY <1>6, <1>7, <1>8

\* In any case they are messages.
LEMMA SortedType ==
    ASSUME NEW S, NEW s \in Seq(S)
    PROVE  /\ Signals(s) \in Seq(S) /\ Replies(s) \in Seq(S) /\ Calls(s) \in Seq(S)
           /\ Signals(s) \o Replies(s) \in Seq(S)
  <1>1. Signals(s) \in Seq(S) /\ Replies(s) \in Seq(S) /\ Calls(s) \in Seq(S)
    BY RetainOrder DEF Signals, Replies, Calls, OfKind
  <1> QED
    BY <1>1, ConcatProperties

-----------------------------------------------------------------------------
(* The notification daemon.                                                *)

NotifyCalls == [kind : {"call"}, what : {"notify"}, replaces : Nat, timed : BOOLEAN]
CloseCalls  == [kind : {"call"}, what : {"close"}, id : Nat]
ClientCalls == NotifyCalls \cup CloseCalls
Notes       == [id : Nat, timed : BOOLEAN]
CallAccs    == [active : Seq(Notes), next : Nat, told : SUBSET Nat, armed : Seq(Nat)]

Distinct(active) == \A i, j \in 1 .. Len(active) : active[i].id = active[j].id => i = j

\* What is closed is gone, and the rest stays as it was, in its order.
Pruned(t, active, id) ==
    /\ t \in Seq(Notes)
    /\ \A n \in 1 .. Len(t) : t[n].id # id /\ \E i \in 1 .. Len(active) : t[n] = active[i]
    /\ Distinct(active) => Distinct(t)

\* Closing an id takes its notifications out and leaves the others in order.
LEMMA ClosedLemma ==
    ASSUME NEW active \in Seq(Notes), NEW id
    PROVE  Pruned(Closed(active, id), active, id)
  <1>1. PICK kept : kept = {n \in ToSet(active) : n.id # id}
    OBVIOUS
  <1>2. PICK t : t = Closed(active, id)
    OBVIOUS
  <1>3. t = Retain(active, kept)
    BY <1>1, <1>2 DEF Closed
  <1>4. t \in Seq(Notes) /\ Len(t) \in Nat
    BY <1>3, RetainOrder
  <1>5. PICK pos : Places(pos, active, kept, t)
    BY <1>3, RetainOrder
  <1>6. \A n \in 1 .. Len(t) : t[n].id # id /\ \E i \in 1 .. Len(active) : t[n] = active[i]
    <2>1. ASSUME NEW n \in 1 .. Len(t)
          PROVE  t[n] \in kept /\ pos[n] \in 1 .. Len(active) /\ t[n] = active[pos[n]]
      BY <1>5 DEF Places
    <2> QED
      BY <1>1, <2>1
  <1>7. ASSUME Distinct(active),
               NEW m \in 1 .. Len(t), NEW n \in 1 .. Len(t), t[m].id = t[n].id
        PROVE  m = n
    <2>1. pos[m] = pos[n] /\ pos[m] \in 1 .. Len(active)
      BY <1>5, <1>7 DEF Places, Distinct
    <2>2. m \in Nat /\ n \in Nat /\ pos[m] \in Nat
      BY <1>4, <2>1
    <2> QED
      BY <1>5, <2>1, <2>2 DEF Places
  <1>8. Distinct(active) => Distinct(t)
    BY <1>7 DEF Distinct
  <1> QED
    BY <1>2, <1>4, <1>6, <1>8 DEF Pruned

\* A call leaves notifications and timers of their types.
LEMMA CallType ==
    ASSUME NEW acc \in CallAccs, NEW call \in ClientCalls
    PROVE  HandleCall(acc, call) \in CallAccs
  <1>1. \A id : Closed(acc.active, id) \in Seq(Notes)
    BY ClosedLemma DEF CallAccs, Pruned
  <1>2. CASE call.what = "close"
    BY <1>1, <1>2 DEF HandleCall, CallAccs
  <1>3. CASE call.what # "close"
    <2>1. call \in NotifyCalls
      BY <1>3 DEF ClientCalls, CloseCalls
    <2>2. PICK id : id = NotifyId(acc, call)
      OBVIOUS
    <2>3. id \in Nat
      BY <2>1, <2>2 DEF NotifyId, NotifyCalls, CallAccs
    <2>4. PICK kept : kept = IF call.replaces = 0 THEN acc.active ELSE Closed(acc.active, call.replaces)
      OBVIOUS
    <2>5. kept \in Seq(Notes)
      BY <1>1, <2>4 DEF CallAccs
    <2>6. [id |-> id, timed |-> call.timed] \in Notes
      BY <2>1, <2>3 DEF Notes, NotifyCalls
    <2>7. Append(kept, [id |-> id, timed |-> call.timed]) \in Seq(Notes)
      BY <2>5, <2>6
    <2>8. acc.armed \o (IF call.timed THEN <<id>> ELSE <<>>) \in Seq(Nat)
      BY <2>3 DEF CallAccs
    <2>9. (IF call.replaces = 0 THEN id ELSE acc.next) \in Nat /\ acc.told \cup {id} \in SUBSET Nat
      BY <2>3 DEF CallAccs
    <2> QED
      BY <1>3, <2>2, <2>4, <2>7, <2>8, <2>9 DEF HandleCall, CallAccs
  <1> QED
    BY <1>2, <1>3

\* A wake-up handles the calls one after the other.
LEMMA CallsRun ==
    ASSUME NEW base \in CallAccs, NEW s \in Seq(ClientCalls)
    PROVE  \E run \in [0 .. Len(s) -> CallAccs] :
              /\ run[0] = base /\ run[Len(s)] = FoldLeft(HandleCall, base, s)
              /\ \A n \in 1 .. Len(s) : run[n] = HandleCall(run[n - 1], s[n])
  <1>1. PICK r : r = FoldLeft(HandleCall, base, s)
    OBVIOUS
  <1>2. PICK it : /\ it = CHOOSE g : g = [t \in SUBSET DOMAIN s |->
                                IF t = {} THEN base ELSE HandleCall(g[t \ {Max(t)}], s[Max(t)])]
                  /\ r = it[DOMAIN s]
    BY <1>1 DEF FoldLeft, MapThenFoldSet
  <1>3. PICK F : F = [p \in CallAccs \X ClientCalls |-> HandleCall(p[1], p[2])]
    OBVIOUS
  <1>4. F \in [CallAccs \X ClientCalls -> CallAccs]
        /\ \A a \in CallAccs, m \in ClientCalls : F[<<a, m>>] = HandleCall(a, m)
    BY <1>3, CallType
  <1>5. PICK jt \in [SUBSET (1 .. Len(s)) -> CallAccs] : IsFold(jt, base, F, s, Len(s))
    BY <1>4, FoldExists
  <1>6. Len(s) \in Nat /\ DOMAIN s = 1 .. Len(s) /\ \A n \in 1 .. Len(s) : s[n] \in ClientCalls
    OBVIOUS
  <1>7. ASSUME NEW t \in SUBSET (1 .. Len(s)), t # {}
        PROVE  F[<<jt[t \ {Max(t)}], s[Max(t)]>>] = HandleCall(jt[t \ {Max(t)}], s[Max(t)])
    <2>1. Max(t) \in 1 .. Len(s)
      BY <1>6, <1>7, MaxLemma
    <2>2. jt[t \ {Max(t)}] \in CallAccs
      OBVIOUS
    <2> QED
      BY <1>4, <1>6, <2>1, <2>2
  <1>8. jt = [t \in SUBSET DOMAIN s |-> IF t = {} THEN base ELSE HandleCall(jt[t \ {Max(t)}], s[Max(t)])]
    BY <1>5, <1>6, <1>7 DEF IsFold
  <1>9. it = [t \in SUBSET DOMAIN s |-> IF t = {} THEN base ELSE HandleCall(it[t \ {Max(t)}], s[Max(t)])]
    BY <1>2, <1>8
  <1>10. it[{}] = base
    BY <1>9
  <1>11. ASSUME NEW n \in 1 .. Len(s), it[1 .. n - 1] \in CallAccs
         PROVE  it[1 .. n] = F[<<it[1 .. n - 1], s[n]>>]
    <2>1. 1 .. n # {} /\ Max(1 .. n) = n /\ (1 .. n) \ {n} = 1 .. n - 1 /\ 1 .. n \in SUBSET DOMAIN s
      BY <1>6, MaxUpto
    <2>2. it[1 .. n] = HandleCall(it[1 .. n - 1], s[n])
      BY <1>9, <2>1
    <2> QED
      BY <1>4, <1>6, <1>11, <2>2
  <1>12. PICK run : Run(run, CallAccs, F, base, s) /\ run[Len(s)] = it[1 .. Len(s)]
    <2>1. Applies(it, CallAccs, F, s)
      BY <1>11 DEF Applies
    <2>2. F \in [CallAccs \X ClientCalls -> CallAccs]
      BY <1>4
    <2>3. Along(it[1 .. Len(s)], CallAccs, F, base, s)
      BY <1>10, <2>1, <2>2, FoldRun
    <2> QED
      BY <2>3 DEF Along
  <1>13. run[0] = base /\ run \in [0 .. Len(s) -> CallAccs]
    BY <1>12 DEF Run
  <1>14. \A n \in 1 .. Len(s) : run[n] = HandleCall(run[n - 1], s[n])
    <2>1. ASSUME NEW n \in 1 .. Len(s)
          PROVE  run[n] = HandleCall(run[n - 1], s[n])
      <3>1. n - 1 \in 0 .. Len(s)
        BY <1>6
      <3>2. run[n - 1] \in CallAccs
        BY <1>13, <3>1
      <3>3. run[n] = F[<<run[n - 1], s[n]>>]
        BY <1>12 DEF Run
      <3> QED
        BY <1>4, <1>6, <3>2, <3>3
    <2> QED
      BY <2>1
  <1> QED
    BY <1>1, <1>2, <1>6, <1>12, <1>13, <1>14

\* An id names one of the active notifications; ids are handed out in their order.
Named(active, next, told) ==
    /\ Distinct(active)
    /\ \A i \in 1 .. Len(active) : active[i].id \in told
    /\ \A id \in told : id <= next
Timed(active, armed) ==
    \A i \in 1 .. Len(active) : active[i].timed => \E k \in 1 .. Len(armed) : armed[k] = active[i].id

\* Calls in flight replace what their clients were told.
Replaces(calls, told) == \A i \in 1 .. Len(calls) : calls[i].what = "notify" => calls[i].replaces \in told \cup {0}

NotificationsTyped ==
    /\ held = <<>> /\ wire \in Seq(ClientCalls)
    /\ model \in [active : Seq(Notes), next : Nat]
    /\ world \in [told : SUBSET Nat, wild : BOOLEAN]
    /\ pending \in Seq(Nat)

NotificationsShown == shown = model.active \/ (shown = Nothing /\ model.active = <<>>)

NotificationsIInv ==
    /\ NotificationsTyped
    /\ NotificationsShown
    /\ Timed(model.active, pending)
    /\ ~world.wild => Named(model.active, model.next, world.told) /\ Replaces(wire, world.told)

\* What a call leaves: a timer for each notification with a timeout.
LEMMA CallTimed ==
    ASSUME NEW acc \in CallAccs, NEW call \in ClientCalls, NEW before \in Seq(Nat),
           Timed(acc.active, before \o acc.armed)
    PROVE  LET new == HandleCall(acc, call) IN Timed(new.active, before \o new.armed)
  <1>1. PICK new : new = HandleCall(acc, call)
    OBVIOUS
  <1>2. new \in CallAccs
    BY <1>1, CallType
  <1>3. PICK all : all = before \o acc.armed
    OBVIOUS
  <1>4. PICK more : more = before \o new.armed
    OBVIOUS
  <1>5. acc.armed \in Seq(Nat) /\ new.armed \in Seq(Nat) /\ acc.active \in Seq(Notes) /\ all \in Seq(Nat) /\ more \in Seq(Nat)
    BY <1>2, <1>3, <1>4 DEF CallAccs
  <1>6. ASSUME NEW id, NEW t, t = Closed(acc.active, id)
        PROVE  t \in Seq(Notes) /\ Timed(t, all)
    <2>1. Pruned(t, acc.active, id)
      BY <1>5, <1>6, ClosedLemma
    <2>2. ASSUME NEW n \in 1 .. Len(t), t[n].timed
          PROVE  \E k \in 1 .. Len(all) : all[k] = t[n].id
      <3>1. PICK i \in 1 .. Len(acc.active) : t[n] = acc.active[i]
        BY <2>1 DEF Pruned
      <3> QED
        BY <1>3, <2>2, <3>1 DEF Timed
    <2> QED
      BY <2>1, <2>2 DEF Timed, Pruned
  <1>7. CASE call.what = "close"
    <2>1. new.active = Closed(acc.active, call.id) /\ new.armed = acc.armed
      BY <1>1, <1>7 DEF HandleCall, CallAccs
    <2> QED
      BY <1>1, <1>3, <1>6, <2>1
  <1>8. CASE call.what # "close"
    <2>1. call \in NotifyCalls
      BY <1>8 DEF ClientCalls, CloseCalls
    <2>2. PICK id : id = NotifyId(acc, call)
      OBVIOUS
    <2>3. id \in Nat
      BY <2>1, <2>2 DEF NotifyId, NotifyCalls, CallAccs
    <2>4. PICK kept : kept = IF call.replaces = 0 THEN acc.active ELSE Closed(acc.active, call.replaces)
      OBVIOUS
    <2>5. kept \in Seq(Notes) /\ Timed(kept, all)
      BY <1>3, <1>5, <1>6, <2>4
    <2>6. new.active = Append(kept, [id |-> id, timed |-> call.timed])
          /\ new.armed = acc.armed \o (IF call.timed THEN <<id>> ELSE <<>>)
      BY <1>1, <1>8, <2>2, <2>4 DEF HandleCall
    <2>11. call.timed => more = all \o <<id>>
      <3>1. \A a, b \in Seq(Nat), x \in Nat : (a \o b) \o <<x>> = a \o (b \o <<x>>)
        BY ConcatOne
      <3>2. (before \o acc.armed) \o <<id>> = before \o (acc.armed \o <<id>>)
        BY <1>5, <2>3, <3>1, Zenon
      <3> QED
        BY <1>3, <1>4, <2>6, <3>2
    <2>12. ~call.timed => more = all
      BY <1>3, <1>4, <1>5, <2>6
    <2>7. \A k \in 1 .. Len(all) : k \in 1 .. Len(more) /\ more[k] = all[k]
      <3>1. CASE call.timed
        BY <2>11, <1>5, <2>3, <3>1
      <3>2. CASE ~call.timed
        BY <2>12, <3>2
      <3> QED
        BY <3>1, <3>2
    <2>8. call.timed => Len(more) \in 1 .. Len(more) /\ more[Len(more)] = id
      BY <1>5, <2>3, <2>11
    <2>9. ASSUME NEW i \in 1 .. Len(new.active), new.active[i].timed
          PROVE  \E k \in 1 .. Len(more) : more[k] = new.active[i].id
      <3>1. CASE i \in 1 .. Len(kept)
        <4>1. new.active[i] = kept[i]
          BY <2>5, <2>6, <3>1
        <4>2. PICK k \in 1 .. Len(all) : all[k] = kept[i].id
          BY <2>5, <2>9, <3>1, <4>1 DEF Timed
        <4> QED
          BY <2>7, <4>1, <4>2
      <3>2. CASE i \notin 1 .. Len(kept)
        <4>1. new.active[i] = [id |-> id, timed |-> call.timed]
          BY <2>5, <2>6, <3>2
        <4> QED
          BY <2>8, <2>9, <4>1
      <3> QED
        BY <3>1, <3>2
    <2> QED
      BY <1>1, <1>4, <2>9 DEF Timed
  <1> QED
    BY <1>7, <1>8

\* And names that differ, if it replaces what was told.
LEMMA CallNamed ==
    ASSUME NEW acc \in CallAccs, NEW call \in ClientCalls, Named(acc.active, acc.next, acc.told),
           call.what = "notify" => call.replaces \in acc.told \cup {0}
    PROVE  LET new == HandleCall(acc, call)
           IN  Named(new.active, new.next, new.told) /\ acc.told \subseteq new.told
  <1>1. PICK new : new = HandleCall(acc, call)
    OBVIOUS
  <1>2. new \in CallAccs
    BY <1>1, CallType
  <1>3. acc.active \in Seq(Notes) /\ acc.next \in Nat /\ acc.told \in SUBSET Nat
    BY DEF CallAccs
  <1>4. ASSUME NEW id, NEW t, t = Closed(acc.active, id)
        PROVE  t \in Seq(Notes) /\ Named(t, acc.next, acc.told) /\ \A n \in 1 .. Len(t) : t[n].id # id
    <2>1. Pruned(t, acc.active, id)
      BY <1>3, <1>4, ClosedLemma
    <2>2. Distinct(t) /\ t \in Seq(Notes)
      BY <2>1 DEF Pruned, Named
    <2>3. \A n \in 1 .. Len(t) : t[n].id # id /\ t[n].id \in acc.told
      BY <2>1 DEF Pruned, Named
    <2> QED
      BY <2>2, <2>3 DEF Named
  <1>5. CASE call.what = "close"
    <2>1. new.active = Closed(acc.active, call.id) /\ new.next = acc.next /\ new.told = acc.told
      BY <1>1, <1>5 DEF HandleCall, CallAccs
    <2> QED
      BY <1>1, <1>4, <2>1
  <1>6. CASE call.what # "close"
    <2>1. call \in NotifyCalls /\ call.replaces \in acc.told \cup {0}
      BY <1>6 DEF ClientCalls, CloseCalls, NotifyCalls
    <2>2. PICK id : id = NotifyId(acc, call)
      OBVIOUS
    <2>3. id \in Nat
      BY <2>1, <2>2 DEF NotifyId, NotifyCalls, CallAccs
    <2>4. PICK kept : kept = IF call.replaces = 0 THEN acc.active ELSE Closed(acc.active, call.replaces)
      OBVIOUS
    <2>5. kept \in Seq(Notes) /\ Named(kept, acc.next, acc.told) /\ \A n \in 1 .. Len(kept) : kept[n].id # id
      <3>1. CASE call.replaces = 0
        <4>1. kept = acc.active /\ id = acc.next + 1
          BY <2>2, <2>4, <3>1 DEF NotifyId
        <4>2. \A n \in 1 .. Len(kept) : kept[n].id <= acc.next /\ kept[n].id \in Nat
          BY <1>3, <4>1 DEF Named, Notes
        <4> QED
          BY <1>3, <4>1, <4>2
      <3>2. CASE call.replaces # 0
        <4>1. kept = Closed(acc.active, call.replaces) /\ id = call.replaces
          BY <2>2, <2>4, <3>2 DEF NotifyId
        <4> QED
          BY <1>4, <4>1
      <3> QED
        BY <3>1, <3>2
    <2>6. PICK note : note = [id |-> id, timed |-> call.timed]
      OBVIOUS
    <2>7. /\ new.active = Append(kept, note) /\ new.told = acc.told \cup {id}
          /\ new.next = IF call.replaces = 0 THEN id ELSE acc.next
      BY <1>1, <1>6, <2>2, <2>4, <2>6 DEF HandleCall
    <2>8. note.id = id /\ Len(kept) \in Nat
      BY <2>5, <2>6
    <2>9. \A i \in 1 .. Len(new.active) :
              \/ i \in 1 .. Len(kept) /\ new.active[i] = kept[i]
              \/ i = Len(kept) + 1 /\ new.active[i] = note
      BY <2>5, <2>7, <2>8
    <2>10. Distinct(new.active)
      <3>1. ASSUME NEW i \in 1 .. Len(new.active), NEW j \in 1 .. Len(new.active),
                   new.active[i].id = new.active[j].id
            PROVE  i = j
        BY <2>5, <2>8, <2>9, <3>1 DEF Named, Distinct
      <3> QED
        BY <3>1 DEF Distinct
    <2>11. \A i \in 1 .. Len(new.active) : new.active[i].id \in new.told
      BY <2>5, <2>7, <2>8, <2>9 DEF Named
    <2>12. \A x \in new.told : x <= new.next
      <3>1. ASSUME NEW x \in new.told
            PROVE  x <= new.next
        <4>1. \A y \in acc.told : y <= acc.next /\ y \in Nat
          BY <1>3 DEF Named
        <4>2. CASE call.replaces = 0
          <5>1. id = acc.next + 1 /\ new.next = id
            BY <2>2, <2>7, <4>2 DEF NotifyId
          <5> QED
            BY <1>3, <2>7, <4>1, <5>1
        <4>3. CASE call.replaces # 0
          <5>1. id \in acc.told /\ new.next = acc.next
            BY <2>1, <2>2, <2>7, <4>3 DEF NotifyId
          <5> QED
            BY <2>7, <4>1, <5>1
        <4> QED
          BY <4>2, <4>3
      <3> QED
        BY <3>1
    <2>13. acc.told \subseteq new.told
      BY <2>7
    <2> QED
      BY <1>1, <2>10, <2>11, <2>12, <2>13 DEF Named
  <1> QED
    BY <1>5, <1>6

\* A wake-up leaves a timer for each timeout, and names that differ.
LEMMA WakeCalls ==
    ASSUME NEW base \in CallAccs, NEW s \in Seq(ClientCalls), NEW before \in Seq(Nat),
           Timed(base.active, before \o base.armed), NEW tame \in BOOLEAN,
           tame => Named(base.active, base.next, base.told) /\ Replaces(s, base.told)
    PROVE  LET after == FoldLeft(HandleCall, base, s)
           IN  /\ after \in CallAccs
               /\ Timed(after.active, before \o after.armed)
               /\ tame => Named(after.active, after.next, after.told)
  <1>1. PICK run \in [0 .. Len(s) -> CallAccs] :
              /\ run[0] = base /\ run[Len(s)] = FoldLeft(HandleCall, base, s)
              /\ \A n \in 1 .. Len(s) : run[n] = HandleCall(run[n - 1], s[n])
    BY CallsRun
  <1> DEFINE Good(n) == /\ Timed(run[n].active, before \o run[n].armed)
                        /\ tame => /\ Named(run[n].active, run[n].next, run[n].told)
                                   /\ base.told \subseteq run[n].told
  <1>2. PICK G : G = {n \in 0 .. Len(s) : Good(n)}
    OBVIOUS
  <1>3. Len(s) \in Nat /\ 0 \in 0 .. Len(s) /\ Len(s) \in 0 .. Len(s)
        /\ \A n \in 1 .. Len(s) : s[n] \in ClientCalls /\ n \in 0 .. Len(s) /\ n - 1 \in 0 .. Len(s)
    OBVIOUS
  <1>4. Good(0)
    BY <1>1
  <1>5. ASSUME NEW n \in 1 .. Len(s), Good(n - 1)
        PROVE  Good(n)
    <2>1. PICK acc : acc = run[n - 1]
      OBVIOUS
    <2>2. PICK call : call = s[n]
      OBVIOUS
    <2>3. acc \in CallAccs /\ call \in ClientCalls /\ run[n] = HandleCall(acc, call)
      BY <1>1, <1>3, <2>1, <2>2
    <2>4. Timed(acc.active, before \o acc.armed)
      BY <1>5, <2>1
    <2>5. Timed(run[n].active, before \o run[n].armed)
      BY <2>3, <2>4, CallTimed
    <2>6. ASSUME tame
          PROVE  Named(run[n].active, run[n].next, run[n].told) /\ base.told \subseteq run[n].told
      <3>1. Named(acc.active, acc.next, acc.told) /\ base.told \subseteq acc.told
        BY <1>5, <2>1, <2>6
      <3>2. call.what = "notify" => call.replaces \in acc.told \cup {0}
        BY <2>2, <2>6, <3>1 DEF Replaces
      <3>3. Named(run[n].active, run[n].next, run[n].told) /\ acc.told \subseteq run[n].told
        BY <2>3, <3>1, <3>2, CallNamed
      <3> QED
        BY <3>1, <3>3
    <2> QED
      BY <2>5, <2>6
  <1> HIDE DEF Good
  <1>6. G \in SUBSET (0 .. Len(s)) /\ 0 \in G /\ \A n \in 1 .. Len(s) : n - 1 \in G => n \in G
    BY <1>2, <1>3, <1>4, <1>5
  <1>7. G = 0 .. Len(s)
    BY <1>3, <1>6, Induction
  <1>8. Good(Len(s))
    BY <1>2, <1>3, <1>7
  <1>9. run[Len(s)] \in CallAccs
    BY <1>3
  <1> QED
    BY <1>1, <1>8, <1>9 DEF Good

-----------------------------------------------------------------------------
\* The daemon starts with nothing shown and no id told.
LEMMA NotificationsStart == NotificationsInit => NotificationsIInv
  <1> SUFFICES ASSUME NotificationsInit
               PROVE  NotificationsIInv
    OBVIOUS
  <1>1. /\ held = <<>> /\ wire = <<>> /\ pending = <<>> /\ shown = Nothing
        /\ model = [active |-> <<>>, next |-> 0] /\ world = [told |-> {}, wild |-> FALSE]
    BY DEF NotificationsInit, BusInit
  <1>2. model.active = <<>> /\ model.next = 0 /\ world.told = {}
    BY <1>1
  <1>3. NotificationsTyped
    BY <1>1 DEF NotificationsTyped
  <1>4. Timed(model.active, pending) /\ NotificationsShown
    BY <1>1, <1>2 DEF Timed, NotificationsShown
  <1>5. Named(model.active, model.next, world.told) /\ Replaces(wire, world.told)
    BY <1>1, <1>2 DEF Named, Distinct, Replaces
  <1> QED
    BY <1>3, <1>4, <1>5 DEF NotificationsIInv

\* Each step of the daemon and of its clients keeps the invariant.
LEMMA NotificationsStep ==
    ASSUME NotificationsIInv, [NotificationsNext]_bus
    PROVE  NotificationsIInv'
  <1>0. /\ held = <<>> /\ wire \in Seq(ClientCalls) /\ pending \in Seq(Nat)
        /\ model \in [active : Seq(Notes), next : Nat]
        /\ world \in [told : SUBSET Nat, wild : BOOLEAN]
        /\ model.active \in Seq(Notes) /\ model.next \in Nat
        /\ world.told \in SUBSET Nat /\ world.wild \in BOOLEAN
    BY DEF NotificationsIInv, NotificationsTyped
  <1>1. CASE ClientNotifies
    <2>1. /\ model' = model /\ pending' = pending /\ shown' = shown /\ held' = held
      BY <1>1 DEF ClientNotifies
    <2>2. PICK replaces \in 0 .. MaxId, timed \in BOOLEAN :
              /\ wire' = Append(wire, [kind |-> "call", what |-> "notify",
                                       replaces |-> replaces, timed |-> timed])
              /\ world' = [world EXCEPT !.wild = @ \/ replaces \notin world.told \cup {0}]
      BY <1>1 DEF ClientNotifies
    <2>3. PICK call : call = [kind |-> "call", what |-> "notify", replaces |-> replaces, timed |-> timed]
      OBVIOUS
    <2>4. replaces \in Nat
      BY <2>2, MaxIdAssumption
    <2>5. call \in ClientCalls /\ call.what = "notify" /\ call.replaces = replaces
      BY <2>2, <2>3, <2>4 DEF ClientCalls, NotifyCalls
    <2>6. wire' = Append(wire, call) /\ wire' \in Seq(ClientCalls)
      BY <1>0, <2>2, <2>3, <2>5
    <2>7. world' \in [told : SUBSET Nat, wild : BOOLEAN] /\ world'.told = world.told
          /\ (~world'.wild => ~world.wild /\ replaces \in world.told \cup {0})
      BY <1>0, <2>2
    <2>8. NotificationsTyped'
      BY <1>0, <2>1, <2>6, <2>7 DEF NotificationsTyped
    <2>9. ~world'.wild => Replaces(wire', world'.told)
      <3>1. SUFFICES ASSUME ~world'.wild
                     PROVE  Replaces(wire', world'.told)
        OBVIOUS
      <3>2. Replaces(wire, world.told) /\ replaces \in world.told \cup {0}
        BY <2>7, <3>1 DEF NotificationsIInv
      <3>3. \A i \in 1 .. Len(wire') : (i \in 1 .. Len(wire) /\ wire'[i] = wire[i]) \/ wire'[i] = call
        BY <1>0, <2>6
      <3> QED
        BY <2>5, <2>7, <3>2, <3>3 DEF Replaces
    <2> QED
      BY <2>1, <2>7, <2>8, <2>9 DEF NotificationsIInv, NotificationsShown
  <1>2. CASE ClientCloses
    <2>1. /\ model' = model /\ pending' = pending /\ shown' = shown /\ held' = held /\ world' = world
      BY <1>2 DEF ClientCloses
    <2>2. PICK id \in world.told : wire' = Append(wire, [kind |-> "call", what |-> "close", id |-> id])
      BY <1>2 DEF ClientCloses
    <2>3. PICK call : call = [kind |-> "call", what |-> "close", id |-> id]
      OBVIOUS
    <2>4. call \in ClientCalls /\ call.what = "close"
      BY <1>0, <2>2, <2>3 DEF ClientCalls, CloseCalls
    <2>5. wire' = Append(wire, call) /\ wire' \in Seq(ClientCalls)
      BY <1>0, <2>2, <2>3, <2>4
    <2>6. NotificationsTyped'
      BY <1>0, <2>1, <2>5 DEF NotificationsTyped
    <2>7. Replaces(wire, world.told) => Replaces(wire', world.told)
      <3>1. \A i \in 1 .. Len(wire') : (i \in 1 .. Len(wire) /\ wire'[i] = wire[i]) \/ wire'[i] = call
        BY <1>0, <2>5
      <3> QED
        BY <2>4, <3>1 DEF Replaces
    <2> QED
      BY <2>1, <2>6, <2>7 DEF NotificationsIInv, NotificationsShown
  <1>3. CASE NotificationsOwn
    BY <1>3 DEF NotificationsOwn, NotificationsIInv, NotificationsTyped, NotificationsShown
  <1>4. CASE NotificationsWake
    <2>1. PICK base : base = [active |-> model.active, next |-> model.next,
                              told |-> world.told, armed |-> <<>>]
      OBVIOUS
    <2>2. PICK after : after = FoldLeft(HandleCall, base, Calls(Batch))
      OBVIOUS
    <2>3. /\ model' = [active |-> after.active, next |-> after.next]
          /\ world' = [world EXCEPT !.told = after.told]
          /\ pending' = pending \o after.armed
          /\ shown' = after.active
          /\ wire' = <<>> /\ held' = <<>>
      BY <1>4, <2>1, <2>2 DEF NotificationsWake, ReadAll, Armed
    <2>4. Batch = wire
      BY <1>0 DEF Batch
    <2>5. Calls(Batch) = wire
      <3>1. \A i \in 1 .. Len(wire) : wire[i].kind = "call"
        BY <1>0 DEF ClientCalls, NotifyCalls, CloseCalls
      <3> QED
        BY <1>0, <2>4, <3>1, AllOfKind DEF Calls
    <2>6. base \in CallAccs /\ base.active = model.active /\ base.next = model.next
          /\ base.told = world.told /\ base.armed = <<>>
      BY <1>0, <2>1 DEF CallAccs
    <2>7. pending \o base.armed = pending
      BY <1>0, <2>6
    <2>8. Timed(base.active, pending \o base.armed)
      BY <2>6, <2>7 DEF NotificationsIInv
    <2>9. PICK tame : tame = ~world.wild
      OBVIOUS
    <2>10. tame \in BOOLEAN
           /\ (tame => Named(base.active, base.next, base.told) /\ Replaces(wire, base.told))
      BY <1>0, <2>6, <2>9 DEF NotificationsIInv
    <2>11. after \in CallAccs /\ Timed(after.active, pending \o after.armed)
           /\ (tame => Named(after.active, after.next, after.told))
      BY <1>0, <2>2, <2>5, <2>6, <2>8, <2>10, WakeCalls
    <2>12. after.active \in Seq(Notes) /\ after.next \in Nat /\ after.told \in SUBSET Nat
           /\ after.armed \in Seq(Nat)
      BY <2>11 DEF CallAccs
    <2>13. model'.active = after.active /\ model'.next = after.next
           /\ world'.told = after.told /\ world'.wild = world.wild
      BY <1>0, <2>3
    <2>14. NotificationsTyped'
      <3>1. wire' \in Seq(ClientCalls) /\ held' = <<>> /\ pending' \in Seq(Nat)
        BY <1>0, <2>3, <2>12
      <3>2. model' \in [active : Seq(Notes), next : Nat]
        BY <2>3, <2>12
      <3>3. world' \in [told : SUBSET Nat, wild : BOOLEAN]
        BY <1>0, <2>3, <2>12
      <3> QED
        BY <3>1, <3>2, <3>3 DEF NotificationsTyped
    <2>15. Timed(model'.active, pending') /\ NotificationsShown'
      BY <2>3, <2>11, <2>13 DEF NotificationsShown
    <2>16. ~world'.wild => Named(model'.active, model'.next, world'.told) /\ Replaces(wire', world'.told)
      <3>1. Replaces(wire', world'.told)
        BY <2>3 DEF Replaces
      <3> QED
        BY <2>9, <2>11, <2>13, <3>1
    <2> QED
      BY <2>14, <2>15, <2>16 DEF NotificationsIInv
  <1>5. CASE Expires
    <2>1. PICK i \in DOMAIN pending :
              /\ pending' = RemoveAt(pending, i)
              /\ model' = [model EXCEPT !.active = Closed(@, pending[i])]
      BY <1>5 DEF Expires
    <2>2. /\ shown' = IF model' # model THEN model'.active ELSE shown
          /\ world' = world /\ wire' = wire /\ held' = held
      BY <1>5 DEF Expires
    <2>3. PICK t : t = Closed(model.active, pending[i])
      OBVIOUS
    <2>4. Pruned(t, model.active, pending[i])
      BY <1>0, <2>3, ClosedLemma
    <2>5. t \in Seq(Notes) /\ model' = [model EXCEPT !.active = t] /\ model'.active = t
          /\ model'.next = model.next /\ model' \in [active : Seq(Notes), next : Nat]
      <3>1. t \in Seq(Notes)
        BY <2>4 DEF Pruned
      <3>2. model' = [model EXCEPT !.active = t]
        BY <2>1, <2>3
      <3> QED
        BY <1>0, <3>1, <3>2
    <2>6. i \in 1 .. Len(pending) /\ Len(pending) \in Nat
      BY <1>0
    <2>7. pending' \in Seq(Nat)
          /\ \A k \in 1 .. Len(pending) : k # i => \E m \in 1 .. Len(pending') : pending'[m] = pending[k]
      <3>1. PICK rest : rest = RemoveAt(pending, i)
        OBVIOUS
      <3>2. rest \in Seq(Nat) /\ Removed(rest, pending, i)
        BY <1>0, <2>6, <3>1, RemoveAtLemma
      <3> QED
        BY <2>1, <3>1, <3>2 DEF Removed
    <2>8. NotificationsTyped'
      BY <1>0, <2>2, <2>5, <2>7 DEF NotificationsTyped
    <2>9. NotificationsShown'
      <3>1. CASE model' # model
        BY <2>2, <3>1 DEF NotificationsShown
      <3>2. CASE model' = model
        BY <2>2, <3>2 DEF NotificationsShown, NotificationsIInv
      <3> QED
        BY <3>1, <3>2
    <2>10. Timed(t, pending')
      <3>1. ASSUME NEW n \in 1 .. Len(t), t[n].timed
            PROVE  \E m \in 1 .. Len(pending') : pending'[m] = t[n].id
        <4>1. t[n].id # pending[i] /\ \E j \in 1 .. Len(model.active) : t[n] = model.active[j]
          BY <2>4 DEF Pruned
        <4>2. PICK k \in 1 .. Len(pending) : pending[k] = t[n].id
          BY <3>1, <4>1 DEF NotificationsIInv, Timed
        <4>3. k # i
          BY <4>1, <4>2
        <4> QED
          BY <2>7, <4>2, <4>3
      <3> QED
        BY <3>1 DEF Timed
    <2>11. ~world.wild => Named(t, model.next, world.told) /\ Replaces(wire, world.told)
      <3>1. SUFFICES ASSUME ~world.wild
                     PROVE  Named(t, model.next, world.told) /\ Replaces(wire, world.told)
        OBVIOUS
      <3>2. Named(model.active, model.next, world.told) /\ Replaces(wire, world.told)
        BY <3>1 DEF NotificationsIInv
      <3>3. Distinct(t) /\ \A n \in 1 .. Len(t) : t[n].id \in world.told
        BY <2>4, <3>2 DEF Pruned, Named
      <3> QED
        BY <3>2, <3>3 DEF Named
    <2> QED
      BY <2>2, <2>5, <2>8, <2>9, <2>10, <2>11 DEF NotificationsIInv
  <1>6. CASE NotificationsBusLost
    <2>1. /\ model' = model /\ pending' = pending /\ shown' = shown /\ world' = world
          /\ wire' = <<>> /\ held' = <<>>
      BY <1>6 DEF NotificationsBusLost
    <2>2. NotificationsTyped' /\ Replaces(wire', world'.told)
      BY <1>0, <2>1 DEF NotificationsTyped, Replaces
    <2> QED
      BY <2>1, <2>2 DEF NotificationsIInv, NotificationsShown
  <1>7. CASE UNCHANGED bus
    BY <1>7 DEF bus, NotificationsIInv, NotificationsTyped, NotificationsShown
  <1> QED
    BY <1>1, <1>2, <1>3, <1>4, <1>5, <1>6, <1>7 DEF NotificationsNext

\* The number of elements of a sequence without repetition.
LEMMA NotificationsHold == NotificationsIInv => NotificationsInv
  <1> SUFFICES ASSUME NotificationsIInv
               PROVE  NotificationsInv
    OBVIOUS
  <1>1. model.active \in Seq(Notes) /\ Len(model.active) \in Nat /\ DOMAIN model.active = 1 .. Len(model.active)
    BY DEF NotificationsIInv, NotificationsTyped
  <1>2. \A i \in DOMAIN model.active : model.active[i].timed => Contains(pending, model.active[i].id)
    BY <1>1 DEF NotificationsIInv, Timed, Contains
  <1>3. ASSUME ~world.wild
        PROVE  Len(model.active) = Cardinality(Ids(model.active))
    <2>1. PICK f : f = [i \in 1 .. Len(model.active) |-> model.active[i].id]
      OBVIOUS
    <2>2. f \in [1 .. Len(model.active) -> Ids(model.active)]
      BY <1>1, <2>1 DEF Ids
    <2>3. \A i, j \in 1 .. Len(model.active) : f[i] = f[j] => i = j
      BY <1>3, <2>1 DEF NotificationsIInv, Named, Distinct
    <2>4. \A id \in Ids(model.active) : \E i \in 1 .. Len(model.active) : f[i] = id
      BY <1>1, <2>1 DEF Ids
    <2>5. f \in Bijection(1 .. Len(model.active), Ids(model.active))
      BY <2>2, <2>3, <2>4 DEF Bijection, Injection, Surjection, IsInjective
    <2>6. IsFiniteSet(1 .. Len(model.active)) /\ Cardinality(1 .. Len(model.active)) = Len(model.active)
      BY <1>1, FS_Interval
    <2> QED
      BY <2>5, <2>6, FS_Bijection DEF ExistsBijection
  <1> QED
    BY <1>2, <1>3 DEF NotificationsInv, NotificationsIInv, NotificationsShown

\* The daemon shows the active notifications and keeps a timer for each timeout,
\* whatever clients send; and an id is of one of them, unless a client made it up.
THEOREM NotificationsTheorem == NotificationsSpec => []NotificationsInv
  <1>1. NotificationsInit => NotificationsIInv
    BY NotificationsStart
  <1>2. NotificationsIInv /\ [NotificationsNext]_bus => NotificationsIInv'
    BY NotificationsStep
  <1>3. NotificationsIInv => NotificationsInv
    BY NotificationsHold
  <1> QED
    BY <1>1, <1>2, <1>3, PTL DEF NotificationsSpec

-----------------------------------------------------------------------------
(* The battery.                                                            *)

Keys        == {"available", "percent", "charging"}
Values      == BOOLEAN \cup Nat
Devices     == [available : BOOLEAN, percent : Levels, charging : BOOLEAN]
Props       == UNION {[some -> Values] : some \in SUBSET Keys}
PropSignals == [kind : {"signal"}, props : Props]
PropReplies == [kind : {"reply"}, ok : BOOLEAN, props : Devices]
PropMsgs    == PropSignals \cup PropReplies
PropAccs    == [model : [Keys -> Values], changed : BOOLEAN]

\* A device is given by its properties.
LEMMA DeviceFacts ==
    ASSUME NEW device \in Devices
    PROVE  /\ device \in [Keys -> Values] /\ DOMAIN device = Keys /\ device \in Props
           /\ \A raw \in [Keys -> Values] : (\A k \in Keys : raw[k] = device[k]) => raw = device
  <1>1. DOMAIN device = Keys /\ device = [k \in Keys |-> device[k]]
    BY DEF Devices, Keys
  <1>2. \A k \in Keys : device[k] \in BOOLEAN \cup Levels
    BY DEF Devices, Keys
  <1>3. \A k \in Keys : device[k] \in Values
    <2>1. Levels \subseteq Nat
      BY LevelsAssumption
    <2> QED
      BY <1>2, <2>1 DEF Values
  <1>4. device \in [Keys -> Values]
    BY <1>1, <1>3
  <1>5. device \in Props
    BY <1>4 DEF Props
  <1>6. ASSUME NEW raw \in [Keys -> Values], \A k \in Keys : raw[k] = device[k]
        PROVE  raw = device
    BY <1>1, <1>6
  <1> QED
    BY <1>1, <1>4, <1>5, <1>6

\* Of each property the message's value is taken if it has one, else the old
\* one.
LEMMA ApplyType ==
    ASSUME NEW raw \in [Keys -> Values], NEW props \in Props
    PROVE  /\ ApplyProps(raw, props) \in [Keys -> Values]
           /\ \A k \in Keys : ApplyProps(raw, props)[k] = IF k \in DOMAIN props THEN props[k] ELSE raw[k]
  <1>1. PICK some \in SUBSET Keys : props \in [some -> Values]
    BY DEF Props
  <1>2. DOMAIN raw = Keys /\ DOMAIN props = some
    BY <1>1
  <1>3. ApplyProps(raw, props) = [k \in Keys |-> IF k \in DOMAIN props THEN props[k] ELSE raw[k]]
    BY <1>2 DEF ApplyProps
  <1>4. \A k \in Keys : (IF k \in DOMAIN props THEN props[k] ELSE raw[k]) \in Values
    BY <1>1, <1>2
  <1> QED
    BY <1>3, <1>4

\* A signal leaves a device of its type.
LEMMA PropsType ==
    ASSUME NEW acc \in PropAccs, NEW call \in PropSignals
    PROVE  HandleProps(acc, call) \in PropAccs
  <1>1. PICK now : now = ApplyProps(acc.model, call.props)
    OBVIOUS
  <1>2. acc.model \in [Keys -> Values] /\ call.props \in Props /\ acc.changed \in BOOLEAN
    BY DEF PropAccs, PropSignals
  <1>3. now \in [Keys -> Values]
    BY <1>1, <1>2, ApplyType
  <1>4. PICK changed : changed = (acc.changed \/ BatterySnapshot(now) # BatterySnapshot(acc.model))
    OBVIOUS
  <1>5. changed \in BOOLEAN
    BY <1>4
  <1>6. HandleProps(acc, call) = [model |-> now, changed |-> changed]
    BY <1>1, <1>4 DEF HandleProps
  <1> QED
    BY <1>3, <1>5, <1>6 DEF PropAccs

\* The defaults are a device.
LEMMA NoBatteryType == NoBattery \in [Keys -> Values]
  <1>1. PICK raw : raw = NoBattery
    OBVIOUS
  <1>2. raw \in [available : BOOLEAN, percent : Nat, charging : BOOLEAN]
    BY <1>1 DEF NoBattery
  <1>3. DOMAIN raw = Keys /\ raw = [k \in Keys |-> raw[k]]
    BY <1>2 DEF Keys
  <1>4. \A k \in Keys : raw[k] \in Values
    BY <1>2 DEF Keys, Values
  <1> QED
    BY <1>1, <1>3, <1>4

\* A wake-up handles the signals one after the other.
LEMMA PropsRun ==
    ASSUME NEW base \in PropAccs, NEW s \in Seq(PropSignals)
    PROVE  \E run \in [0 .. Len(s) -> PropAccs] :
              /\ run[0] = base /\ run[Len(s)] = FoldLeft(HandleProps, base, s)
              /\ \A n \in 1 .. Len(s) : run[n] = HandleProps(run[n - 1], s[n])
  <1>1. PICK r : r = FoldLeft(HandleProps, base, s)
    OBVIOUS
  <1>2. PICK it : /\ it = CHOOSE g : g = [t \in SUBSET DOMAIN s |->
                                IF t = {} THEN base ELSE HandleProps(g[t \ {Max(t)}], s[Max(t)])]
                  /\ r = it[DOMAIN s]
    BY <1>1 DEF FoldLeft, MapThenFoldSet
  <1>3. PICK F : F = [p \in PropAccs \X PropSignals |-> HandleProps(p[1], p[2])]
    OBVIOUS
  <1>4. F \in [PropAccs \X PropSignals -> PropAccs]
        /\ \A a \in PropAccs, m \in PropSignals : F[<<a, m>>] = HandleProps(a, m)
    BY <1>3, PropsType
  <1>5. PICK jt \in [SUBSET (1 .. Len(s)) -> PropAccs] : IsFold(jt, base, F, s, Len(s))
    BY <1>4, FoldExists
  <1>6. Len(s) \in Nat /\ DOMAIN s = 1 .. Len(s) /\ \A n \in 1 .. Len(s) : s[n] \in PropSignals
    OBVIOUS
  <1>7. ASSUME NEW t \in SUBSET (1 .. Len(s)), t # {}
        PROVE  F[<<jt[t \ {Max(t)}], s[Max(t)]>>] = HandleProps(jt[t \ {Max(t)}], s[Max(t)])
    <2>1. Max(t) \in 1 .. Len(s)
      BY <1>6, <1>7, MaxLemma
    <2>2. jt[t \ {Max(t)}] \in PropAccs
      OBVIOUS
    <2> QED
      BY <1>4, <1>6, <2>1, <2>2
  <1>8. jt = [t \in SUBSET DOMAIN s |-> IF t = {} THEN base ELSE HandleProps(jt[t \ {Max(t)}], s[Max(t)])]
    BY <1>5, <1>6, <1>7 DEF IsFold
  <1>9. it = [t \in SUBSET DOMAIN s |-> IF t = {} THEN base ELSE HandleProps(it[t \ {Max(t)}], s[Max(t)])]
    BY <1>2, <1>8
  <1>10. it[{}] = base
    BY <1>9
  <1>11. ASSUME NEW n \in 1 .. Len(s), it[1 .. n - 1] \in PropAccs
         PROVE  it[1 .. n] = F[<<it[1 .. n - 1], s[n]>>]
    <2>1. 1 .. n # {} /\ Max(1 .. n) = n /\ (1 .. n) \ {n} = 1 .. n - 1 /\ 1 .. n \in SUBSET DOMAIN s
      BY <1>6, MaxUpto
    <2>2. it[1 .. n] = HandleProps(it[1 .. n - 1], s[n])
      BY <1>9, <2>1
    <2> QED
      BY <1>4, <1>6, <1>11, <2>2
  <1>12. PICK run : Run(run, PropAccs, F, base, s) /\ run[Len(s)] = it[1 .. Len(s)]
    <2>1. Applies(it, PropAccs, F, s)
      BY <1>11 DEF Applies
    <2>2. F \in [PropAccs \X PropSignals -> PropAccs]
      BY <1>4
    <2>3. Along(it[1 .. Len(s)], PropAccs, F, base, s)
      BY <1>10, <2>1, <2>2, FoldRun
    <2> QED
      BY <2>3 DEF Along
  <1>13. run[0] = base /\ run \in [0 .. Len(s) -> PropAccs]
    BY <1>12 DEF Run
  <1>14. \A n \in 1 .. Len(s) : run[n] = HandleProps(run[n - 1], s[n])
    <2>1. ASSUME NEW n \in 1 .. Len(s)
          PROVE  run[n] = HandleProps(run[n - 1], s[n])
      <3>1. n - 1 \in 0 .. Len(s)
        BY <1>6
      <3>2. run[n - 1] \in PropAccs
        BY <1>13, <3>1
      <3>3. run[n] = F[<<run[n - 1], s[n]>>]
        BY <1>12 DEF Run
      <3> QED
        BY <1>4, <1>6, <3>2, <3>3
    <2> QED
      BY <2>1
  <1> QED
    BY <1>1, <1>2, <1>6, <1>12, <1>13, <1>14

\* Of what message j of s says, key k is said again by a later signal.
SaidAgain(s, j, k) == \E m \in 1 .. Len(s) : j < m /\ s[m].kind = "signal" /\ k \in DOMAIN s[m].props

\* What is said is so, or said again; what the model holds (before all that is
\* still to be heard from n on) is so, or will be said.
SaysTruth(s) ==
    \A j \in 1 .. Len(s), k \in Keys :
        k \in DOMAIN s[j].props => s[j].props[k] = world[k] \/ SaidAgain(s, j, k)
HoldsTruth(raw, s, n) == \A k \in Keys : raw[k] = world[k] \/ SaidAgain(s, n, k)

AllSignals(s) == \A i \in 1 .. Len(s) : s[i].kind = "signal"

BatteryTyped ==
    /\ world \in Devices /\ model \in [Keys -> Values]
    /\ wire \in Seq(PropMsgs) /\ held \in Seq(PropMsgs)

BatteryPhases ==
    /\ phase \notin {"matched", "waiting", "on"} => wire = <<>>
    /\ phase # "waiting" => asked = <<>>
    /\ phase # "on" => held = <<>>
    /\ phase # "waiting" => AllSignals(Batch)
    /\ asked # <<>> => AllSignals(wire)
    /\ \A i, j \in 1 .. Len(wire) : wire[i].kind = "reply" /\ wire[j].kind = "reply" => i = j

BatteryIInv ==
    /\ BatteryTyped
    /\ BatteryPhases
    /\ SaysTruth(Batch)
    /\ phase = "on" => /\ HoldsTruth(model, Batch, 0) /\ HoldsTruth(model, wire, 0)
                       /\ seed \/ shown = BatterySnapshot(model)

\* The model a wake-up leaves has heard all, and `changed` tells whether what it
\* shows has changed.
LEMMA WakeProps ==
    ASSUME NEW raw \in [Keys -> Values], NEW s \in Seq(PropSignals), SaysTruth(s), HoldsTruth(raw, s, 0)
    PROVE  LET after == FoldLeft(HandleProps, [model |-> raw, changed |-> FALSE], s)
           IN  /\ after \in PropAccs
               /\ \A k \in Keys : after.model[k] = world[k]
               /\ ~after.changed => BatterySnapshot(after.model) = BatterySnapshot(raw)
  <1>1. PICK base : base = [model |-> raw, changed |-> FALSE]
    OBVIOUS
  <1>2. base \in PropAccs /\ base.model = raw /\ base.changed = FALSE
    BY <1>1 DEF PropAccs
  <1>3. PICK run \in [0 .. Len(s) -> PropAccs] :
              /\ run[0] = base /\ run[Len(s)] = FoldLeft(HandleProps, base, s)
              /\ \A n \in 1 .. Len(s) : run[n] = HandleProps(run[n - 1], s[n])
    BY <1>2, PropsRun
  <1> DEFINE Good(n) == /\ HoldsTruth(run[n].model, s, n)
                        /\ ~run[n].changed => BatterySnapshot(run[n].model) = BatterySnapshot(raw)
  <1>4. PICK G : G = {n \in 0 .. Len(s) : Good(n)}
    OBVIOUS
  <1>5. Len(s) \in Nat /\ 0 \in 0 .. Len(s) /\ Len(s) \in 0 .. Len(s)
        /\ \A n \in 1 .. Len(s) : s[n] \in PropSignals /\ n \in 0 .. Len(s) /\ n - 1 \in 0 .. Len(s) /\ n \in Nat
    OBVIOUS
  <1>6. Good(0)
    BY <1>2, <1>3
  <1>7. ASSUME NEW n \in 1 .. Len(s), Good(n - 1)
        PROVE  Good(n)
    <2>1. PICK acc : acc = run[n - 1]
      OBVIOUS
    <2>2. PICK sig : sig = s[n]
      OBVIOUS
    <2>3. PICK now : now = ApplyProps(acc.model, sig.props)
      OBVIOUS
    <2>4. /\ acc \in PropAccs /\ sig \in PropSignals /\ run[n] = HandleProps(acc, sig)
          /\ acc.model \in [Keys -> Values] /\ sig.props \in Props /\ sig.kind = "signal"
      BY <1>3, <1>5, <2>1, <2>2 DEF PropAccs, PropSignals
    <2>5. \A k \in Keys : now[k] = IF k \in DOMAIN sig.props THEN sig.props[k] ELSE acc.model[k]
      BY <2>3, <2>4, ApplyType
    <2>6. /\ run[n].model = now
          /\ run[n].changed = (acc.changed \/ BatterySnapshot(now) # BatterySnapshot(acc.model))
      BY <2>3, <2>4 DEF HandleProps
    <2>7. HoldsTruth(now, s, n)
      <3>1. ASSUME NEW k \in Keys
            PROVE  now[k] = world[k] \/ SaidAgain(s, n, k)
        <4>1. CASE k \in DOMAIN sig.props
          BY <2>2, <2>5, <4>1 DEF SaysTruth
        <4>2. CASE k \notin DOMAIN sig.props
          <5>1. acc.model[k] = world[k] \/ SaidAgain(s, n - 1, k)
            BY <1>7, <2>1 DEF HoldsTruth
          <5>2. CASE acc.model[k] = world[k]
            BY <2>5, <4>2, <5>2
          <5>3. CASE SaidAgain(s, n - 1, k)
            <6>1. PICK m \in 1 .. Len(s) : n - 1 < m /\ s[m].kind = "signal" /\ k \in DOMAIN s[m].props
              BY <5>3 DEF SaidAgain
            <6>2. m # n
              BY <2>2, <4>2, <6>1
            <6>3. n < m
              BY <1>5, <6>1, <6>2
            <6> QED
              BY <6>1, <6>3 DEF SaidAgain
          <5> QED
            BY <5>1, <5>2, <5>3
        <4> QED
          BY <4>1, <4>2
      <3> QED
        BY <3>1 DEF HoldsTruth
    <2>8. ~run[n].changed => BatterySnapshot(now) = BatterySnapshot(raw)
      BY <1>7, <2>1, <2>6
    <2> QED
      BY <2>6, <2>7, <2>8
  <1> HIDE DEF Good
  <1>8. G \in SUBSET (0 .. Len(s)) /\ 0 \in G /\ \A n \in 1 .. Len(s) : n - 1 \in G => n \in G
    BY <1>4, <1>5, <1>6, <1>7
  <1>9. G = 0 .. Len(s)
    BY <1>5, <1>8, Induction
  <1>10. Good(Len(s))
    BY <1>4, <1>5, <1>9
  <1>11. \A k \in Keys : ~SaidAgain(s, Len(s), k)
    BY <1>5 DEF SaidAgain
  <1>12. run[Len(s)] \in PropAccs
    BY <1>5
  <1> QED
    BY <1>1, <1>3, <1>10, <1>11, <1>12 DEF Good, HoldsTruth

-----------------------------------------------------------------------------
\* The battery starts with nothing said.
LEMMA BatteryStart == BatteryInit => BatteryIInv
  <1> SUFFICES ASSUME BatteryInit
               PROVE  BatteryIInv
    OBVIOUS
  <1>1. /\ phase = "new" /\ asked = <<>> /\ wire = <<>> /\ held = <<>>
        /\ world \in Devices /\ model = NoBattery
    BY DEF BatteryInit, BusInit, Devices
  <1>2. NoBattery \in [Keys -> Values]
    BY NoBatteryType
  <1>3. Batch = <<>>
    BY <1>1 DEF Batch
  <1>4. BatteryTyped
    BY <1>1, <1>2 DEF BatteryTyped
  <1>5. BatteryPhases
    BY <1>1, <1>3 DEF BatteryPhases, AllSignals
  <1>6. SaysTruth(Batch)
    BY <1>3 DEF SaysTruth
  <1> QED
    BY <1>1, <1>4, <1>5, <1>6 DEF BatteryIInv

\* A change is said by a signal that has what is different.
LEMMA ChangeSaid ==
    ASSUME NEW s \in Seq(PropMsgs), NEW sig \in PropSignals, NEW to \in Devices, world \in Devices,
           sig.props = [k \in {k \in DOMAIN to : to[k] # world[k]} |-> to[k]], world' = to,
           NEW t, t = Append(s, sig)
    PROVE  /\ SaysTruth(s) => SaysTruth(t)'
           /\ \A raw : HoldsTruth(raw, s, 0) => HoldsTruth(raw, t, 0)'
  <1>1. DOMAIN to = Keys
    BY DeviceFacts
  <1>2. /\ DOMAIN sig.props = {k \in Keys : to[k] # world[k]} /\ sig.kind = "signal"
        /\ \A k \in DOMAIN sig.props : sig.props[k] = to[k]
    BY <1>1 DEF PropSignals
  <1>3. sig \in PropMsgs
    BY DEF PropMsgs
  <1>4. /\ Len(t) = Len(s) + 1 /\ Len(s) \in Nat /\ t[Len(s) + 1] = sig
        /\ \A i \in 1 .. Len(s) : i \in 1 .. Len(t) /\ t[i] = s[i]
        /\ \A i \in 1 .. Len(t) : i \in 1 .. Len(s) \/ i = Len(s) + 1
    BY <1>3, AppendFacts
  <1>5. ASSUME NEW j \in 0 .. Len(s), NEW k \in Keys, SaidAgain(s, j, k) \/ to[k] # world[k]
        PROVE  SaidAgain(t, j, k)
    <2>1. CASE SaidAgain(s, j, k)
      <3>1. PICK m \in 1 .. Len(s) : j < m /\ s[m].kind = "signal" /\ k \in DOMAIN s[m].props
        BY <2>1 DEF SaidAgain
      <3> QED
        BY <1>4, <3>1 DEF SaidAgain
    <2>2. CASE to[k] # world[k]
      <3>1. Len(s) + 1 \in 1 .. Len(t) /\ j < Len(s) + 1
        BY <1>4
      <3> QED
        BY <1>2, <1>4, <2>2, <3>1 DEF SaidAgain
    <2> QED
      BY <1>5, <2>1, <2>2
  <1>6. ASSUME SaysTruth(s), NEW j \in 1 .. Len(t), NEW k \in Keys, k \in DOMAIN t[j].props
        PROVE  t[j].props[k] = to[k] \/ SaidAgain(t, j, k)
    <2>1. CASE j \in 1 .. Len(s)
      <3>1. s[j].props[k] = world[k] \/ SaidAgain(s, j, k)
        BY <1>4, <1>6, <2>1 DEF SaysTruth
      <3>2. j \in 0 .. Len(s)
        BY <2>1
      <3> QED
        BY <1>4, <1>5, <2>1, <3>1, <3>2
    <2>2. CASE j = Len(s) + 1
      BY <1>2, <1>4, <1>6, <2>2
    <2> QED
      BY <1>4, <2>1, <2>2
  <1>7. SaysTruth(s) => SaysTruth(t)'
    BY <1>6 DEF SaysTruth, SaidAgain
  <1>8. ASSUME NEW raw, HoldsTruth(raw, s, 0)
        PROVE  HoldsTruth(raw, t, 0)'
    <2>1. 0 \in 0 .. Len(s)
      BY <1>4
    <2>2. \A k \in Keys : raw[k] = to[k] \/ SaidAgain(t, 0, k)
      BY <1>5, <1>8, <2>1 DEF HoldsTruth
    <2> QED
      BY <2>2 DEF HoldsTruth, SaidAgain
  <1> QED
    BY <1>7, <1>8

\* An answer says how things are, and is said again by nothing that came before.
LEMMA AnswerSaid ==
    ASSUME NEW s \in Seq(PropMsgs), NEW reply \in PropReplies, world \in Devices,
           SaysTruth(s), reply.props = world, NEW t, t = Append(s, reply)
    PROVE  SaysTruth(t)
  <1>1. reply \in PropMsgs
    BY DEF PropMsgs
  <1>2. /\ Len(t) = Len(s) + 1 /\ Len(s) \in Nat /\ t[Len(s) + 1] = reply
        /\ \A i \in 1 .. Len(s) : i \in 1 .. Len(t) /\ t[i] = s[i]
        /\ \A i \in 1 .. Len(t) : i \in 1 .. Len(s) \/ i = Len(s) + 1
    BY <1>1, AppendFacts
  <1>3. ASSUME NEW j \in 1 .. Len(t), NEW k \in Keys, k \in DOMAIN t[j].props
        PROVE  t[j].props[k] = world[k] \/ SaidAgain(t, j, k)
    <2>1. CASE j \in 1 .. Len(s)
      <3>1. t[j].props[k] = world[k] \/ SaidAgain(s, j, k)
        BY <1>2, <1>3, <2>1 DEF SaysTruth
      <3>2. ASSUME SaidAgain(s, j, k)
            PROVE  SaidAgain(t, j, k)
        <4>1. PICK m \in 1 .. Len(s) : j < m /\ s[m].kind = "signal" /\ k \in DOMAIN s[m].props
          BY <3>2 DEF SaidAgain
        <4> QED
          BY <1>2, <4>1 DEF SaidAgain
      <3> QED
        BY <3>1, <3>2
    <2>2. CASE j = Len(s) + 1
      BY <1>2, <2>2
    <2> QED
      BY <1>2, <2>1, <2>2
  <1> QED
    BY <1>3 DEF SaysTruth

\* The answer is heard ahead of the signals before it: those after it are the ones
\* that say more.
LEMMA AnswerHeard ==
    ASSUME NEW s \in Seq(PropMsgs), NEW f \in 1 .. Len(s), s[f].kind = "reply", SaysTruth(s),
           NEW t, t = RemoveAt(s, f), NEW raw, \A k \in Keys : k \in DOMAIN s[f].props /\ raw[k] = s[f].props[k]
    PROVE  /\ SaysTruth(t) /\ HoldsTruth(raw, t, 0)
           /\ HoldsTruth(raw, SubSeq(s, f + 1, Len(s)), 0)
  <1>1. t \in Seq(PropMsgs) /\ Removed(t, s, f) /\ Len(s) \in Nat
    BY RemoveAtLemma
  <1>2. Len(t) = Len(s) - 1 /\ f \in Nat /\ \A n \in 1 .. Len(t) : t[n] = IF n < f THEN s[n] ELSE s[n + 1]
    BY <1>1 DEF Removed
  <1>3. ASSUME NEW j \in 0 .. Len(t), NEW i \in 0 .. Len(s), (j < f /\ j <= i) \/ j = i - 1,
               NEW k \in Keys, SaidAgain(s, i, k)
        PROVE  SaidAgain(t, j, k)
    <2>1. PICK m \in 1 .. Len(s) : i < m /\ s[m].kind = "signal" /\ k \in DOMAIN s[m].props
      BY <1>3 DEF SaidAgain
    <2>2. m # f
      BY <2>1
    <2>3. CASE m < f
      <3>1. m \in 1 .. Len(t) /\ t[m] = s[m] /\ j < m
        <4>1. m \in 1 .. Len(t)
          BY <1>1, <1>2, <2>3
        <4>2. j < m
          BY <1>1, <1>2, <1>3, <2>1
        <4> QED
          BY <1>2, <2>3, <4>1, <4>2
      <3> QED
        BY <2>1, <3>1 DEF SaidAgain
    <2>4. CASE m > f
      <3>1. m - 1 \in 1 .. Len(t) /\ t[m - 1] = s[m] /\ j < m - 1
        <4>1. m - 1 \in 1 .. Len(t) /\ ~(m - 1 < f) /\ m - 1 + 1 = m
          BY <1>1, <1>2, <2>4
        <4>2. j < m - 1
          BY <1>1, <1>2, <1>3, <2>1, <2>4
        <4> QED
          BY <1>2, <4>1, <4>2
      <3> QED
        BY <2>1, <3>1 DEF SaidAgain
    <2> QED
      BY <1>1, <2>2, <2>3, <2>4
  <1>4. ASSUME NEW j \in 1 .. Len(t), NEW k \in Keys, k \in DOMAIN t[j].props
        PROVE  t[j].props[k] = world[k] \/ SaidAgain(t, j, k)
    <2>1. PICK i : i = IF j < f THEN j ELSE j + 1
      OBVIOUS
    <2>2. i \in 1 .. Len(s) /\ i \in 0 .. Len(s) /\ t[j] = s[i] /\ ((j < f /\ j <= i) \/ j = i - 1)
          /\ j \in 0 .. Len(t)
      BY <1>1, <1>2, <2>1
    <2>3. s[i].props[k] = world[k] \/ SaidAgain(s, i, k)
      BY <1>4, <2>2 DEF SaysTruth
    <2> QED
      BY <1>3, <2>2, <2>3
  <1>5. ASSUME NEW k \in Keys
        PROVE  raw[k] = world[k] \/ SaidAgain(t, 0, k)
    <2>1. raw[k] = world[k] \/ SaidAgain(s, f, k)
      BY DEF SaysTruth
    <2>2. ASSUME SaidAgain(s, f, k)
          PROVE  SaidAgain(s, 0, k)
      <3>1. PICK m \in 1 .. Len(s) : f < m /\ s[m].kind = "signal" /\ k \in DOMAIN s[m].props
        BY <2>2 DEF SaidAgain
      <3>2. 0 < m
        BY <1>1, <3>1
      <3> QED
        BY <3>1, <3>2 DEF SaidAgain
    <2>3. 0 \in 0 .. Len(t) /\ 0 \in 0 .. Len(s)
      BY <1>1, <1>2
    <2> QED
      BY <1>3, <2>1, <2>2, <2>3
  <1>6. PICK u : u = SubSeq(s, f + 1, Len(s))
    OBVIOUS
  <1>7. Len(u) = Len(s) - f /\ \A n \in 1 .. Len(u) : u[n] = s[n + f]
    BY <1>1, <1>2, <1>6
  <1>8. ASSUME NEW k \in Keys
        PROVE  raw[k] = world[k] \/ SaidAgain(u, 0, k)
    <2>1. raw[k] = world[k] \/ SaidAgain(s, f, k)
      BY DEF SaysTruth
    <2>2. ASSUME SaidAgain(s, f, k)
          PROVE  SaidAgain(u, 0, k)
      <3>1. PICK m \in 1 .. Len(s) : f < m /\ s[m].kind = "signal" /\ k \in DOMAIN s[m].props
        BY <2>2 DEF SaidAgain
      <3>2. m - f \in 1 .. Len(u) /\ 0 < m - f /\ m - f + f = m
        BY <1>1, <1>2, <1>7, <3>1
      <3>3. u[m - f] = s[m]
        BY <1>7, <3>2
      <3> QED
        BY <3>1, <3>2, <3>3 DEF SaidAgain
    <2> QED
      BY <2>1, <2>2
  <1> QED
    BY <1>4, <1>5, <1>6, <1>8 DEF SaysTruth, HoldsTruth

\* Each step of the service and of the device keeps the invariant.
LEMMA BatteryStep ==
    ASSUME BatteryIInv, [BatteryNext]_bus
    PROVE  BatteryIInv'
  <1>0. /\ world \in Devices /\ model \in [Keys -> Values]
        /\ wire \in Seq(PropMsgs) /\ held \in Seq(PropMsgs)
        /\ Batch \in Seq(PropMsgs) /\ (held = <<>> => Batch = wire)
    BY BatchLemma DEF BatteryIInv, BatteryTyped
  <1>p. /\ phase \notin {"matched", "waiting", "on"} => wire = <<>>
        /\ phase # "waiting" => asked = <<>>
        /\ phase # "on" => held = <<>>
        /\ phase # "waiting" => AllSignals(Batch)
        /\ asked # <<>> => AllSignals(wire)
        /\ \A i, j \in 1 .. Len(wire) : wire[i].kind = "reply" /\ wire[j].kind = "reply" => i = j
    BY DEF BatteryIInv, BatteryPhases
  <1>e. ASSUME wire' = <<>>, held' = <<>>, asked' = <<>>, phase' # "on",
               world' \in Devices, model' \in [Keys -> Values]
        PROVE  BatteryIInv'
    <2>1. Batch' = <<>>
      BY <1>e DEF Batch
    <2>2. BatteryTyped' /\ SaysTruth(Batch)'
      BY <1>e, <2>1 DEF BatteryTyped, SaysTruth
    <2>3. BatteryPhases'
      BY <1>e, <2>1 DEF BatteryPhases, AllSignals
    <2> QED
      BY <1>e, <2>2, <2>3 DEF BatteryIInv
  <1>1. CASE BatteryChanges
    <2>1. /\ asked' = asked /\ held' = held /\ phase' = phase /\ model' = model
          /\ seed' = seed /\ shown' = shown
      BY <1>1 DEF BatteryChanges
    <2>2. PICK to \in Devices :
              /\ world' = to
              /\ Emit(BatteryMatched,
                      <<[kind |-> "signal", props |-> [k \in {k \in DOMAIN to : to[k] # world[k]} |-> to[k]]]>>)
      BY <1>1 DEF BatteryChanges, Devices
    <2>3. CASE ~BatteryMatched
      <3>1. wire' = wire
        BY <2>2, <2>3 DEF Emit
      <3>2. wire = <<>> /\ held = <<>> /\ asked = <<>> /\ phase # "on"
        BY <1>p, <2>3 DEF BatteryMatched
      <3> QED
        BY <1>0, <1>e, <2>1, <2>2, <3>1, <3>2
    <2>4. CASE BatteryMatched
      <3>1. PICK props : props = [k \in {k \in DOMAIN to : to[k] # world[k]} |-> to[k]]
        OBVIOUS
      <3>2. PICK sig : sig = [kind |-> "signal", props |-> props]
        OBVIOUS
      <3>3. props \in Props
        <4>1. DOMAIN to = Keys /\ to \in [Keys -> Values]
          BY DeviceFacts
        <4>2. PICK some : some = {k \in DOMAIN to : to[k] # world[k]}
          OBVIOUS
        <4>3. some \in SUBSET Keys /\ props = [k \in some |-> to[k]]
          BY <3>1, <4>1, <4>2
        <4>4. props \in [some -> Values]
          BY <4>1, <4>3
        <4> QED
          BY <4>3, <4>4 DEF Props
      <3>4. sig \in PropSignals /\ sig \in PropMsgs /\ sig.kind = "signal" /\ sig.props = props
        BY <3>2, <3>3 DEF PropSignals, PropMsgs
      <3>5. wire' = Append(wire, sig)
        <4>1. wire' = wire \o <<sig>>
          BY <2>2, <2>4, <3>1, <3>2 DEF Emit
        <4> QED
          BY <1>0, <3>4, <4>1, AppendOne
      <3>6. Batch' = Append(Batch, sig) /\ wire' \in Seq(PropMsgs)
        BY <1>0, <2>1, <3>4, <3>5, AppendBatch
      <3>7. PICK t : t = Append(Batch, sig)
        OBVIOUS
      <3>8. Batch' = t
        BY <3>6, <3>7
      <3>9. sig.props = [k \in {k \in DOMAIN to : to[k] # world[k]} |-> to[k]]
        BY <3>1, <3>4
      <3>18. PICK w : w = Append(wire, sig)
        OBVIOUS
      <3>19. wire' = w /\ \A raw : HoldsTruth(raw, wire, 0) => HoldsTruth(raw, w, 0)'
        <4>1. PICK s : s = wire
          OBVIOUS
        <4>2. \A raw : HoldsTruth(raw, s, 0) => HoldsTruth(raw, w, 0)'
          BY <1>0, <2>2, <3>4, <3>9, <3>18, <4>1, ChangeSaid
        <4> QED
          BY <3>5, <3>18, <4>1, <4>2
      <3>10. SaysTruth(t)' /\ \A raw : HoldsTruth(raw, Batch, 0) => HoldsTruth(raw, t, 0)'
        <4>1. SaysTruth(Batch)
          BY DEF BatteryIInv
        <4>2. PICK s : s = Batch
          OBVIOUS
        <4>3. SaysTruth(t)' /\ \A raw : HoldsTruth(raw, s, 0) => HoldsTruth(raw, t, 0)'
          BY <1>0, <2>2, <3>4, <3>7, <3>9, <4>1, <4>2, ChangeSaid
        <4> QED
          BY <4>2, <4>3
      <3>11. AllSignals(Batch) => AllSignals(Batch')
        BY <1>0, <3>4, <3>6, AppendFacts DEF AllSignals
      <3>12. BatteryTyped'
        BY <1>0, <2>1, <2>2, <3>6 DEF BatteryTyped
      <3>13. /\ AllSignals(wire) => AllSignals(wire')
             /\ \A i, j \in 1 .. Len(wire') : wire'[i].kind = "reply" /\ wire'[j].kind = "reply" => i = j
        <4>1. \A i \in 1 .. Len(wire') : (i \in 1 .. Len(wire) /\ wire'[i] = wire[i]) \/ wire'[i] = sig
          BY <1>0, <3>4, <3>5, AppendFacts
        <4> QED
          BY <1>p, <3>4, <4>1 DEF AllSignals
      <3>14. BatteryPhases'
        <4>1. (phase # "waiting" => AllSignals(Batch))' /\ (asked # <<>> => AllSignals(wire))'
          BY <1>p, <2>1, <3>11, <3>13 DEF AllSignals
        <4>2. phase' \in {"matched", "waiting", "on"}
          BY <2>1, <2>4 DEF BatteryMatched
        <4> QED
          BY <1>p, <2>1, <3>13, <4>1, <4>2 DEF BatteryPhases
      <3>15. SaysTruth(Batch)'
        BY <3>8, <3>10 DEF SaysTruth, SaidAgain
      <3>16. phase' = "on" => /\ HoldsTruth(model, Batch, 0)' /\ HoldsTruth(model, wire, 0)'
                              /\ seed' \/ shown' = BatterySnapshot(model')
        <4>1. SUFFICES ASSUME phase' = "on"
                       PROVE  /\ HoldsTruth(model, Batch, 0)' /\ HoldsTruth(model, wire, 0)'
                              /\ seed' \/ shown' = BatterySnapshot(model')
          OBVIOUS
        <4>2. HoldsTruth(model, Batch, 0) /\ HoldsTruth(model, wire, 0) /\ (seed \/ shown = BatterySnapshot(model))
          BY <2>1, <4>1 DEF BatteryIInv
        <4>3. PICK raw : raw = model
          OBVIOUS
        <4>4. HoldsTruth(raw, t, 0)' /\ HoldsTruth(raw, w, 0)'
          BY <3>10, <3>19, <4>2, <4>3
        <4> QED
          BY <2>1, <3>8, <3>19, <4>2, <4>3, <4>4 DEF HoldsTruth, SaidAgain
      <3>17. BatterySnapshot(model)' = BatterySnapshot(model')
        BY DEF BatterySnapshot
      <3> QED
        BY <3>12, <3>14, <3>15, <3>16, <3>17 DEF BatteryIInv
    <2> QED
      BY <2>3, <2>4
  <1>2. CASE UpowerAnswers
    <2>1. /\ world' = world /\ held' = held /\ phase' = phase /\ model' = model
          /\ seed' = seed /\ shown' = shown /\ asked' = <<>> /\ asked # <<>>
      BY <1>2 DEF UpowerAnswers
    <2>2. phase = "waiting" /\ held = <<>> /\ Batch = wire /\ AllSignals(wire)
      BY <1>0, <1>p, <2>1
    <2>3. PICK ok \in BOOLEAN : wire' = Append(wire, [kind |-> "reply", ok |-> ok, props |-> world])
      BY <1>2 DEF UpowerAnswers
    <2>4. PICK reply : reply = [kind |-> "reply", ok |-> ok, props |-> world]
      OBVIOUS
    <2>5. reply \in PropReplies /\ reply \in PropMsgs /\ reply.props = world
      BY <1>0, <2>3, <2>4 DEF PropReplies, PropMsgs
    <2>6. wire' = Append(wire, reply) /\ wire' \in Seq(PropMsgs) /\ Batch' = wire'
      <3>1. wire' = Append(wire, reply)
        BY <2>3, <2>4
      <3>2. wire' \in Seq(PropMsgs)
        BY <1>0, <2>5, <3>1
      <3>3. held' = <<>>
        BY <2>1, <2>2
      <3>4. <<>> \o wire' = wire'
        BY <3>2, ConcatEmptySeq
      <3> QED
        BY <3>1, <3>2, <3>3, <3>4 DEF Batch
    <2>7. PICK t : t = wire'
      OBVIOUS
    <2>8. SaysTruth(t)
      <3>1. SaysTruth(wire)
        BY <2>2 DEF BatteryIInv
      <3>2. t = Append(wire, reply)
        BY <2>6, <2>7
      <3> QED
        BY <1>0, <2>5, <3>1, <3>2, AnswerSaid
    <2>9. SaysTruth(Batch)'
      BY <2>1, <2>6, <2>7, <2>8 DEF SaysTruth, SaidAgain
    <2>10. \A i, j \in 1 .. Len(wire') : wire'[i].kind = "reply" /\ wire'[j].kind = "reply" => i = j
      <3>1. \A i \in 1 .. Len(wire') : (i \in 1 .. Len(wire) /\ wire'[i] = wire[i]) \/ i = Len(wire) + 1
        BY <1>0, <2>5, <2>6, AppendFacts
      <3> QED
        BY <2>2, <3>1 DEF AllSignals
    <2>11. BatteryPhases'
      BY <2>1, <2>2, <2>10 DEF BatteryPhases
    <2>12. BatteryTyped'
      BY <1>0, <2>1, <2>6 DEF BatteryTyped
    <2> QED
      BY <2>1, <2>2, <2>9, <2>11, <2>12 DEF BatteryIInv
  <1>3. CASE BatteryFallback
    <2>1. wire' = <<>> /\ held' = <<>> /\ asked' = <<>> /\ world' = world /\ model' = model /\ phase' # "on"
      BY <1>3 DEF BatteryFallback, Hangup, SysfsStart
    <2> QED
      BY <1>0, <1>e, <2>1
  <1>4. CASE BatteryMatch
    <2>1. /\ phase = "new" /\ phase' = "matched"
          /\ world' = world /\ asked' = asked /\ wire' = wire /\ held' = held /\ model' = model
      BY <1>4 DEF BatteryMatch
    <2>2. wire = <<>> /\ held = <<>> /\ asked = <<>>
      BY <1>p, <2>1
    <2> QED
      BY <1>0, <1>e, <2>1, <2>2
  <1>5. CASE BatteryGetAll
    <2>1. /\ phase = "matched" /\ phase' = "waiting" /\ asked' = <<"state">>
          /\ world' = world /\ wire' = wire /\ held' = held /\ model' = model
      BY <1>5 DEF BatteryGetAll
    <2>2. held = <<>> /\ AllSignals(wire) /\ Batch' = Batch
      BY <1>0, <1>p, <2>1 DEF Batch
    <2>3. BatteryPhases'
      BY <1>p, <2>1, <2>2 DEF BatteryPhases, AllSignals
    <2>4. BatteryTyped' /\ SaysTruth(Batch)'
      BY <1>0, <2>1, <2>2 DEF BatteryTyped, BatteryIInv, SaysTruth, SaidAgain
    <2> QED
      BY <2>1, <2>3, <2>4 DEF BatteryIInv
  <1>6. CASE BatteryStarted
    <2>1. /\ phase = "waiting" /\ ReadReply /\ phase' = "on" /\ seed' = TRUE
          /\ model' = ApplyProps(model, wire[FirstReply].props)
          /\ world' = world /\ asked' = asked
      BY <1>6 DEF BatteryStarted
    <2>2. PICK f : f = FirstReply
      OBVIOUS
    <2>3. f \in 1 .. Len(wire) /\ wire[f].kind = "reply"
      BY <1>0, <2>1, <2>2, FirstReplyLemma DEF ReadReply
    <2>4. held = <<>> /\ Batch = wire /\ asked = <<>>
      BY <1>0, <1>p, <2>1, <2>3 DEF AllSignals
    <2>5. wire' \in Seq(PropMsgs) /\ held' \in Seq(PropMsgs) /\ Batch' = RemoveAt(wire, f)
      BY <1>0, <2>1, <2>2, <2>4, ReplyTaken
    <2>6. PICK t : t = RemoveAt(wire, f)
      OBVIOUS
    <2>7. PICK raw : raw = ApplyProps(model, wire[f].props)
      OBVIOUS
    <2>8. wire[f] \in PropReplies /\ wire[f].props \in Devices
      <3>1. wire[f] \in PropMsgs
        BY <1>0, <2>3
      <3> QED
        BY <2>3, <3>1 DEF PropMsgs, PropSignals, PropReplies
    <2>9. raw \in [Keys -> Values] /\ \A k \in Keys : k \in DOMAIN wire[f].props /\ raw[k] = wire[f].props[k]
      <3>1. wire[f].props \in Props /\ DOMAIN wire[f].props = Keys
        BY <2>8, DeviceFacts
      <3> QED
        BY <1>0, <2>7, <3>1, ApplyType
    <2>10. SaysTruth(t) /\ HoldsTruth(raw, t, 0) /\ HoldsTruth(raw, SubSeq(wire, f + 1, Len(wire)), 0)
      <3>1. SaysTruth(wire)
        BY <2>4 DEF BatteryIInv
      <3> QED
        BY <1>0, <2>3, <2>6, <2>9, <3>1, AnswerHeard
    <2>11. SaysTruth(Batch)' /\ HoldsTruth(model, Batch, 0)' /\ HoldsTruth(model, wire, 0)'
      <3>1. wire' = SubSeq(wire, f + 1, Len(wire))
        BY <2>1, <2>2 DEF ReadReply
      <3>2. HoldsTruth(model, wire, 0)'
        BY <2>1, <2>2, <2>7, <2>10, <3>1 DEF HoldsTruth, SaidAgain
      <3> QED
        BY <2>1, <2>2, <2>5, <2>6, <2>7, <2>10, <3>2 DEF SaysTruth, HoldsTruth, SaidAgain
    <2>12. AllSignals(t)
      <3>1. Removed(t, wire, f) /\ Len(wire) \in Nat
        BY <1>0, <2>3, <2>6, RemoveAtLemma
      <3>2. ASSUME NEW n \in 1 .. Len(t)
            PROVE  t[n].kind = "signal"
        <4>1. PICK i : i = IF n < f THEN n ELSE n + 1
          OBVIOUS
        <4>2. i \in 1 .. Len(wire) /\ i # f /\ t[n] = wire[i]
          BY <2>3, <3>1, <4>1 DEF Removed
        <4>3. wire[i].kind # "reply" /\ wire[i] \in PropMsgs
          BY <1>0, <1>p, <2>3, <4>2
        <4> QED
          BY <4>2, <4>3 DEF PropMsgs, PropSignals, PropReplies
      <3> QED
        BY <3>2 DEF AllSignals
    <2>13. BatteryPhases'
      <3>1. AllSignals(Batch)'
        BY <2>5, <2>6, <2>12 DEF AllSignals
      <3>2. \A i, j \in 1 .. Len(wire') : wire'[i].kind = "reply" /\ wire'[j].kind = "reply" => i = j
        <4>1. wire' = SubSeq(wire, f + 1, Len(wire))
          BY <2>1, <2>2 DEF ReadReply
        <4>2. \A i \in 1 .. Len(wire') : i + f \in 1 .. Len(wire) /\ wire'[i] = wire[i + f]
          BY <1>0, <2>3, <4>1
        <4>3. \A i \in 1 .. Len(wire') : wire'[i].kind # "reply"
          <5>1. ASSUME NEW i \in 1 .. Len(wire')
                PROVE  wire'[i].kind # "reply"
            <6>1. i + f \in 1 .. Len(wire) /\ wire'[i] = wire[i + f] /\ i + f # f
              BY <2>3, <2>5, <4>2
            <6> QED
              BY <1>p, <2>3, <6>1
          <5> QED
            BY <5>1
        <4> QED
          BY <4>3
      <3> QED
        BY <2>1, <2>4, <3>1, <3>2 DEF BatteryPhases
    <2>14. BatteryTyped'
      BY <1>0, <2>1, <2>2, <2>5, <2>7, <2>9 DEF BatteryTyped
    <2> QED
      BY <2>1, <2>11, <2>13, <2>14 DEF BatteryIInv
  <1>s. ASSUME world' = world, asked' = asked, wire' = wire, held' = held, phase' = phase, model' = model,
               phase' = "on" => seed' \/ shown' = BatterySnapshot(model')
        PROVE  BatteryIInv'
    <2>1. Batch' = Batch
      BY <1>s DEF Batch
    <2>2. BatteryTyped' /\ BatteryPhases' /\ SaysTruth(Batch)'
      BY <1>s, <2>1 DEF BatteryIInv, BatteryTyped, BatteryPhases, AllSignals, SaysTruth, SaidAgain
    <2>3. phase = "on" => HoldsTruth(model, Batch, 0)' /\ HoldsTruth(model, wire, 0)'
      BY <1>s, <2>1 DEF BatteryIInv, HoldsTruth, SaidAgain
    <2>4. BatterySnapshot(model)' = BatterySnapshot(model')
      BY DEF BatterySnapshot
    <2> QED
      BY <1>s, <2>2, <2>3, <2>4 DEF BatteryIInv
  <1>7. CASE BatterySeed
    <2>1. /\ world' = world /\ asked' = asked /\ wire' = wire /\ held' = held /\ phase' = phase /\ model' = model
          /\ shown' = BatterySnapshot(model')
      BY <1>7 DEF BatterySeed
    <2> QED
      BY <1>s, <2>1
  <1>8. CASE BatteryWake
    <2>1. PICK s : s = Batch
      OBVIOUS
    <2>2. PICK raw : raw = model
      OBVIOUS
    <2>3. /\ phase = "on" /\ wire' = <<>> /\ held' = <<>> /\ phase' = phase /\ world' = world
          /\ asked' = asked /\ seed' = seed
      BY <1>8 DEF BatteryWake, ReadAll
    <2>4. s \in Seq(PropSignals)
      <3>1. s \in Seq(PropMsgs) /\ AllSignals(s)
        BY <1>0, <1>p, <2>1, <2>3
      <3>2. Len(s) \in Nat /\ \A i \in 1 .. Len(s) : s[i] \in PropMsgs /\ s[i].kind = "signal"
        BY <3>1 DEF AllSignals
      <3>3. \A i \in 1 .. Len(s) : s[i] \in PropSignals
        BY <3>2 DEF PropMsgs, PropReplies
      <3>4. s = [i \in 1 .. Len(s) |-> s[i]]
        BY <3>1
      <3> QED
        BY <3>1, <3>2, <3>3
    <2>5. Signals(s) = s
      BY <1>p, <2>1, <2>3, <2>4, AllOfKind DEF Signals, AllSignals
    <2>6. PICK after : after = FoldLeft(HandleProps, [model |-> raw, changed |-> FALSE], s)
      OBVIOUS
    <2>7. /\ model' = after.model
          /\ shown' = IF after.changed THEN BatterySnapshot(after.model) ELSE shown
      BY <1>8, <2>1, <2>2, <2>5, <2>6 DEF BatteryWake
    <2>8. /\ after \in PropAccs
          /\ \A k \in Keys : after.model[k] = world[k]
          /\ ~after.changed => BatterySnapshot(after.model) = BatterySnapshot(raw)
      <3>1. SaysTruth(s) /\ HoldsTruth(raw, s, 0)
        BY <2>1, <2>2, <2>3 DEF BatteryIInv
      <3>2. raw \in [Keys -> Values]
        BY <1>0, <2>2
      <3> QED
        BY <2>4, <2>6, <3>1, <3>2, WakeProps
    <2>9. Batch' = <<>>
      BY <2>3 DEF Batch
    <2>10. SaysTruth(Batch)' /\ HoldsTruth(model, Batch, 0)' /\ HoldsTruth(model, wire, 0)'
      BY <2>3, <2>7, <2>8, <2>9 DEF SaysTruth, HoldsTruth
    <2>11. BatteryTyped'
      BY <1>0, <2>3, <2>7, <2>8 DEF BatteryTyped, PropAccs
    <2>12. BatteryPhases'
      BY <1>p, <2>3, <2>9 DEF BatteryPhases, AllSignals
    <2>13. seed' \/ shown' = BatterySnapshot(model)'
      <3>1. seed \/ shown = BatterySnapshot(raw)
        BY <2>2, <2>3 DEF BatteryIInv
      <3>2. seed' \/ shown' = BatterySnapshot(after.model)
        BY <2>3, <2>7, <2>8, <3>1
      <3> QED
        BY <2>7, <3>2 DEF BatterySnapshot
    <2> QED
      BY <2>10, <2>11, <2>12, <2>13 DEF BatteryIInv
  <1>9. CASE BatteryBusLost
    <2>1. wire' = <<>> /\ held' = <<>> /\ asked' = <<>> /\ world' = world /\ model' = NoBattery /\ phase' # "on"
      BY <1>9 DEF BatteryBusLost, Hangup, SysfsStart
    <2> QED
      BY <1>0, <1>e, <2>1, NoBatteryType
  <1>10. CASE BatteryPoll
    <2>1. /\ world' = world /\ asked' = asked /\ wire' = wire /\ held' = held /\ phase' = phase /\ model' = model
          /\ phase # "on"
      BY <1>10 DEF BatteryPoll
    <2> QED
      BY <1>s, <2>1
  <1>11. CASE UNCHANGED bus
    <2>1. /\ world' = world /\ asked' = asked /\ wire' = wire /\ held' = held /\ phase' = phase /\ model' = model
          /\ seed' = seed /\ shown' = shown
      BY <1>11 DEF bus
    <2>2. phase' = "on" => seed' \/ shown' = BatterySnapshot(model')
      BY <2>1 DEF BatteryIInv
    <2> QED
      BY <1>s, <2>1, <2>2
  <1> QED
    BY <1>1, <1>2, <1>3, <1>4, <1>5, <1>6, <1>7, <1>8, <1>9, <1>10, <1>11 DEF BatteryNext

\* With the wire empty, what is held has been said last, so it is so.
LEMMA BatteryHold == BatteryIInv => BatterySettles
  <1> SUFFICES ASSUME BatteryIInv, phase = "on", wire = <<>>, ~seed
               PROVE  shown = BatterySnapshot(world)
    BY DEF BatterySettles
  <1>1. HoldsTruth(model, wire, 0) /\ shown = BatterySnapshot(model)
    BY DEF BatteryIInv
  <1>2. model \in [Keys -> Values] /\ world \in Devices
    BY DEF BatteryIInv, BatteryTyped
  <1>3. \A k \in Keys : model[k] = world[k]
    BY <1>1 DEF HoldsTruth, SaidAgain
  <1>4. model = world
    BY <1>2, <1>3, DeviceFacts
  <1> QED
    BY <1>1, <1>4

\* Once the wire is empty what is shown of a battery is what the device is, also
\* when it changed while it was asked for the first time.
THEOREM BatteryTheorem == BatterySpec => []BatterySettles
  <1>1. BatteryInit => BatteryIInv
    BY BatteryStart
  <1>2. BatteryIInv /\ [BatteryNext]_bus => BatteryIInv'
    BY BatteryStep
  <1>3. BatteryIInv => BatterySettles
    BY BatteryHold
  <1> QED
    BY <1>1, <1>2, <1>3, PTL DEF BatterySpec

-----------------------------------------------------------------------------
(* The tray.                                                               *)

Items == [service : Apps, title : {0, 1, 2}]
AppCalls   == [kind : {"call"}, who : Apps]
AppSignals == [kind : {"signal"}, what : {"gone", "new"}, who : Apps]
AppReplies == [kind : {"reply"}, who : Apps, title : {1, 2}, ok : BOOLEAN]
AppMsgs    == AppCalls \cup AppSignals \cup AppReplies
AppWorlds  == [Apps -> [on : {"off", "here", "registered", "gone", "missed"}, title : {1, 2}]]

TrayTyped ==
    /\ world \in AppWorlds /\ model \in Seq(Items)
    /\ wire \in Seq(AppMsgs) /\ held \in Seq(AppMsgs) /\ asked \in Seq(Apps)
    /\ phase \in {"new", "owner", "on", "off"}

OneEach(items) == \A i, j \in 1 .. Len(items) : items[i].service = items[j].service => i = j

\* What is still to be handled of an application.
Called(R, a)  == \E msg \in R : msg.kind = "call" /\ msg.who = a
GoneIn(R, a)  == \E msg \in R : msg.kind = "signal" /\ msg.what = "gone" /\ msg.who = a
NewIn(R, a)   == \E msg \in R : msg.kind = "signal" /\ msg.what = "new" /\ msg.who = a
Replied(R, a) == \E msg \in R : msg.kind = "reply" /\ msg.who = a

\* A call after a signal of the same application, and two of its replies.
Late(s, a)  == \E i, j \in 1 .. Len(s) : /\ i < j /\ s[i].kind = "signal" /\ s[j].kind = "call"
                                         /\ s[i].who = a /\ s[j].who = a
Twice(s, a) == \E i, j \in 1 .. Len(s) : /\ i # j /\ s[i].kind = "reply" /\ s[j].kind = "reply"
                                         /\ s[i].who = a /\ s[j].who = a

\* Its item is there once the messages are handled.
Stays(m, R, a) == (a \in Services(m) \/ Called(R, a)) /\ ~GoneIn(R, a)

\* Its title is what it calls itself, or will be asked for, or is answered.
HasTitle(m, a, title) == \E i \in 1 .. Len(m) : m[i].service = a /\ m[i].title = title
Answered(R, a, title) == \E msg \in R : msg.kind = "reply" /\ msg.who = a /\ msg.ok /\ msg.title = title
TitleHeld(m, R, Q, a, title) ==
    \/ a \in Q \/ Called(R, a) \/ NewIn(R, a) \/ Answered(R, a, title)
    \/ ~Replied(R, a) /\ HasTitle(m, a, title)

\* What holds of an application a that is w, while s is to be handled and Q is asked.
AppHeld(a, w, m, s) ==
    LET R == Rest(s, 0)
    IN  /\ w.on \notin {"registered", "missed"} => ~Stays(m, R, a)
        /\ a \notin WellKnown =>
              /\ w.on \in {"off", "here"} => a \notin Services(m) /\ ~Called(R, a)
              /\ Called(R, a) => a \notin Services(m)
AppKept(a, w, m, s, Q) ==
    LET R == Rest(s, 0)
    IN  w.on = "registered" /\ ~Late(s, a) =>
           /\ Stays(m, R, a)
           /\ a \notin WellKnown /\ ~Twice(s, a) => TitleHeld(m, R, Q, a, w.title)

TrayTold ==
    phase # "off" =>
       \A a \in Apps : /\ AppHeld(a, world[a], model, Batch)
                       /\ ~reordered => AppKept(a, world[a], model, Batch, ToSet(asked))

TrayIInv ==
    /\ TrayTyped /\ OneEach(model) /\ TrayTold
    /\ phase \in {"new", "owner"} => model = <<>> /\ shown = Nothing
    /\ phase = "on" => shown = model \/ (shown = Nothing /\ model = <<>>)

ItemAccs == [items : Seq(Items), asks : Seq(Apps), changed : BOOLEAN]

\* An application has an item if some position of the list is its.
LEMMA ServicesFacts ==
    ASSUME NEW items \in Seq(Items)
    PROVE  /\ \A a : a \in Services(items) <=> \E i \in 1 .. Len(items) : items[i].service = a
           /\ Len(items) \in Nat /\ Services(items) \subseteq Apps
           /\ \A i \in 1 .. Len(items) : items[i] \in Items /\ items[i].service \in Services(items)
  <1>1. Len(items) \in Nat /\ DOMAIN items = 1 .. Len(items) /\ \A i \in 1 .. Len(items) : items[i] \in Items
    OBVIOUS
  <1>2. \A a : a \in Services(items) <=> \E i \in 1 .. Len(items) : items[i].service = a
    BY <1>1 DEF Services
  <1>3. \A i \in 1 .. Len(items) : items[i].service \in Apps
    BY <1>1 DEF Items
  <1> QED
    BY <1>1, <1>2, <1>3

\* An application registers.
LEMMA RegisterLemma ==
    ASSUME NEW acc \in ItemAccs, NEW call \in AppCalls
    PROVE  LET new == Register(acc, call)
           IN  /\ new \in ItemAccs
               /\ OneEach(acc.items) => OneEach(new.items)
               /\ \A a : a \in Services(new.items) <=> a \in Services(acc.items) \/ a = call.who
               /\ \A a, title : HasTitle(acc.items, a, title) => HasTitle(new.items, a, title)
               /\ ToSet(new.asks) = ToSet(acc.asks) \cup (IF call.who \in Services(acc.items) THEN {} ELSE {call.who})
               /\ new = acc \/ new.changed
  <1>1. PICK new : new = Register(acc, call)
    OBVIOUS
  <1>2. PICK items \in Seq(Items) : items = acc.items
    BY DEF ItemAccs
  <1>3. PICK asks \in Seq(Apps) : asks = acc.asks
    BY DEF ItemAccs
  <1>4. call.who \in Apps
    BY DEF AppCalls
  <1>5. CASE call.who \in Services(items)
    <2>1. new = acc
      BY <1>1, <1>2, <1>5 DEF Register
    <2> QED
      BY <1>1, <1>2, <1>5, <2>1
  <1>6. CASE call.who \notin Services(items)
    <2>1. PICK item \in Items : item = [service |-> call.who, title |-> NoTitle]
      BY <1>4 DEF Items, NoTitle
    <2>2. PICK more : more = Append(items, item)
      OBVIOUS
    <2>3. PICK asked2 : asked2 = Append(asks, call.who)
      OBVIOUS
    <2>4. new = [items |-> more, asks |-> asked2, changed |-> TRUE]
      BY <1>1, <1>2, <1>3, <1>6, <2>1, <2>2, <2>3 DEF Register
    <2>5. /\ more \in Seq(Items) /\ Len(more) = Len(items) + 1 /\ Len(items) \in Nat
          /\ \A i \in 1 .. Len(items) : i \in 1 .. Len(items) + 1 /\ more[i] = items[i]
          /\ more[Len(items) + 1] = item
          /\ \A i \in 1 .. Len(items) + 1 : i \in 1 .. Len(items) \/ i = Len(items) + 1
      BY <2>2, AppendFacts
    <2>6. asked2 \in Seq(Apps) /\ ToSet(asked2) = ToSet(asks) \cup {call.who}
      <3>1. asked2 = asks \o <<call.who>> /\ asked2 \in Seq(Apps) /\ <<call.who>> \in Seq(Apps)
        BY <1>4, <2>3, AppendOne
      <3>2. ToSet(asks \o <<call.who>>) = ToSet(asks) \cup ToSet(<<call.who>>)
        BY <3>1, ToSetConcat
      <3> QED
        BY <3>1, <3>2, ToSetOne
    <2>7. new \in ItemAccs /\ new.items = more /\ new.asks = asked2 /\ new.changed
      BY <2>4, <2>5, <2>6 DEF ItemAccs
    <2>8. item.service = call.who
      BY <2>1
    <2>9. /\ \A a : a \in Services(items) <=> \E i \in 1 .. Len(items) : items[i].service = a
          /\ \A a : a \in Services(more) <=> \E i \in 1 .. Len(more) : more[i].service = a
      BY <2>5, ServicesFacts
    <2>10. \A a : a \in Services(more) <=> a \in Services(items) \/ a = call.who
      <3>1. Len(items) + 1 \in 1 .. Len(more)
        BY <2>5
      <3>2. more[Len(items) + 1].service = call.who
        BY <2>5, <2>8
      <3>3. call.who \in Services(more)
        BY <2>9, <3>1, <3>2
      <3>4. ASSUME NEW a, a \in Services(items)
            PROVE  a \in Services(more)
        <4>1. PICK i \in 1 .. Len(items) : items[i].service = a
          BY <2>9, <3>4
        <4>2. more[i].service = a /\ i \in 1 .. Len(more)
          BY <2>5, <4>1
        <4> QED
          BY <2>9, <4>2
      <3>5. ASSUME NEW a, a \in Services(more), a # call.who
            PROVE  a \in Services(items)
        <4>1. PICK i \in 1 .. Len(more) : more[i].service = a
          BY <2>9, <3>5
        <4>2. i \in 1 .. Len(items)
          BY <2>5, <3>2, <3>5, <4>1
        <4>3. items[i].service = a
          BY <2>5, <4>1, <4>2
        <4> QED
          BY <2>9, <4>2, <4>3
      <3> QED
        BY <3>3, <3>4, <3>5
    <2>11. OneEach(items) => OneEach(more)
      <3>1. ASSUME OneEach(items), NEW i \in 1 .. Len(more), NEW j \in 1 .. Len(more), more[i].service = more[j].service
            PROVE  i = j
        <4>1. CASE i \in 1 .. Len(items) /\ j \in 1 .. Len(items)
          BY <2>5, <3>1, <4>1 DEF OneEach
        <4>2. CASE i = Len(items) + 1 /\ j \in 1 .. Len(items)
          BY <1>6, <2>5, <2>8, <2>9, <3>1, <4>2
        <4>3. CASE j = Len(items) + 1 /\ i \in 1 .. Len(items)
          BY <1>6, <2>5, <2>8, <2>9, <3>1, <4>3
        <4> QED
          BY <2>5, <4>1, <4>2, <4>3
      <3> QED
        BY <3>1 DEF OneEach
    <2>12. \A a, title : HasTitle(items, a, title) => HasTitle(more, a, title)
      BY <2>5 DEF HasTitle
    <2> QED
      BY <1>1, <1>2, <1>3, <1>6, <2>6, <2>7, <2>10, <2>11, <2>12
  <1> QED
    BY <1>2, <1>5, <1>6

\* It leaves, or says that it has something new.
HeedsTo(acc, sig, new) ==
    /\ new \in ItemAccs
    /\ OneEach(acc.items) => OneEach(new.items)
    /\ \A a : a \in Services(new.items) <=> a \in Services(acc.items) /\ ~(sig.what = "gone" /\ sig.who = a)
    /\ \A a, title : HasTitle(acc.items, a, title) /\ ~(sig.what = "gone" /\ sig.who = a)
                       => HasTitle(new.items, a, title)
    /\ ToSet(acc.asks) \subseteq ToSet(new.asks)
    /\ sig.what = "new" /\ sig.who \in Services(acc.items) \ WellKnown => sig.who \in ToSet(new.asks)
    /\ new.changed \/ (new.items = acc.items /\ ~acc.changed)

\* A signal of the bus takes one application's item out, or has its title asked
\* for.
LEMMA HeedLemma ==
    ASSUME NEW acc \in ItemAccs, NEW sig \in AppSignals
    PROVE  HeedsTo(acc, sig, Heed(acc, sig))
  <1>1. PICK new : new = Heed(acc, sig)
    OBVIOUS
  <1>2. PICK items \in Seq(Items) : items = acc.items
    BY DEF ItemAccs
  <1>3. PICK asks \in Seq(Apps) : asks = acc.asks
    BY DEF ItemAccs
  <1>4. PICK changed \in BOOLEAN : changed = acc.changed
    BY DEF ItemAccs
  <1>5. sig.who \in Apps /\ sig.what \in {"gone", "new"}
    BY DEF AppSignals
  <1>6. acc = [items |-> items, asks |-> asks, changed |-> changed]
    BY <1>2, <1>3, <1>4 DEF ItemAccs
  <1>7. CASE sig.what = "gone"
    <2>1. PICK kept : kept = {item \in ToSet(items) : item.service # sig.who}
      OBVIOUS
    <2>2. PICK rest : rest = Retain(items, kept)
      OBVIOUS
    <2>3. PICK any : any = (changed \/ sig.who \in Services(items))
      OBVIOUS
    <2>4. new = [items |-> rest, asks |-> asks, changed |-> any]
      BY <1>1, <1>2, <1>3, <1>4, <1>7, <2>1, <2>2, <2>3 DEF Heed
    <2>5. rest \in Seq(Items) /\ Len(rest) \in Nat
      BY <2>2, RetainOrder
    <2>6. PICK pos : Places(pos, items, kept, rest)
      BY <2>2, RetainOrder
    <2>7. any \in BOOLEAN
      BY <2>3
    <2>8. new \in ItemAccs /\ new.items = rest /\ new.asks = asks /\ new.changed = any
      BY <2>4, <2>5, <2>7 DEF ItemAccs
    <2>9. \A i \in 1 .. Len(items) : items[i] \in kept <=> items[i].service # sig.who
      <3>1. DOMAIN items = 1 .. Len(items)
        OBVIOUS
      <3> QED
        BY <2>1, <3>1 DEF ToSet
    <2>10. /\ \A n \in 1 .. Len(rest) : pos[n] \in 1 .. Len(items) /\ rest[n] = items[pos[n]] /\ rest[n].service # sig.who
           /\ \A i \in 1 .. Len(items) : items[i].service # sig.who => \E n \in 1 .. Len(rest) : rest[n] = items[i]
           /\ \A k, n \in 1 .. Len(rest) : k < n => pos[k] < pos[n]
      <3>1. \A n \in 1 .. Len(rest) : pos[n] \in 1 .. Len(items) /\ rest[n] = items[pos[n]] /\ items[pos[n]] \in kept
        BY <2>6 DEF Places
      <3>2. \A n \in 1 .. Len(rest) : rest[n].service # sig.who
        BY <2>9, <3>1
      <3>3. \A i \in 1 .. Len(items) : items[i] \in kept => \E n \in 1 .. Len(rest) : pos[n] = i
        BY <2>6 DEF Places
      <3>4. \A i \in 1 .. Len(items) : items[i].service # sig.who => \E n \in 1 .. Len(rest) : rest[n] = items[i]
        BY <2>9, <3>1, <3>3
      <3>5. \A k, n \in 1 .. Len(rest) : k < n => pos[k] < pos[n]
        BY <2>6 DEF Places
      <3> QED
        BY <3>1, <3>2, <3>4, <3>5
    <2>11. /\ \A a : a \in Services(items) <=> \E i \in 1 .. Len(items) : items[i].service = a
           /\ \A a : a \in Services(rest) <=> \E i \in 1 .. Len(rest) : rest[i].service = a
      BY <2>5, ServicesFacts
    <2>12. \A a : a \in Services(rest) <=> a \in Services(items) /\ a # sig.who
      <3>1. ASSUME NEW a, a \in Services(rest)
            PROVE  a \in Services(items) /\ a # sig.who
        <4>1. PICK n \in 1 .. Len(rest) : rest[n].service = a
          BY <2>11, <3>1
        <4>2. pos[n] \in 1 .. Len(items) /\ items[pos[n]].service = a /\ a # sig.who
          BY <2>10, <4>1
        <4> QED
          BY <2>11, <4>2
      <3>2. ASSUME NEW a, a \in Services(items), a # sig.who
            PROVE  a \in Services(rest)
        <4>1. PICK i \in 1 .. Len(items) : items[i].service = a
          BY <2>11, <3>2
        <4>2. PICK n \in 1 .. Len(rest) : rest[n] = items[i]
          BY <2>10, <3>2, <4>1
        <4> QED
          BY <2>11, <4>1, <4>2
      <3> QED
        BY <3>1, <3>2
    <2>13. OneEach(items) => OneEach(rest)
      <3>1. ASSUME OneEach(items), NEW i \in 1 .. Len(rest), NEW j \in 1 .. Len(rest), rest[i].service = rest[j].service
            PROVE  i = j
        <4>1. pos[i] \in 1 .. Len(items) /\ rest[i] = items[pos[i]]
          BY <2>10
        <4>2. pos[j] \in 1 .. Len(items) /\ rest[j] = items[pos[j]]
          BY <2>10
        <4>3. items[pos[i]].service = items[pos[j]].service
          BY <3>1, <4>1, <4>2
        <4>4. pos[i] = pos[j]
          BY <3>1, <4>1, <4>2, <4>3 DEF OneEach
        <4>5. ~(i < j) /\ ~(j < i)
          BY <2>10, <4>1, <4>4
        <4> QED
          BY <2>5, <4>5
      <3> QED
        BY <3>1 DEF OneEach
    <2>14. \A a, title : HasTitle(items, a, title) /\ a # sig.who => HasTitle(rest, a, title)
      BY <2>10 DEF HasTitle
    <2>15. any \/ (rest = items /\ ~changed)
      <3>1. ASSUME ~any
            PROVE  rest = items
        <4>1. sig.who \notin Services(items)
          BY <2>3, <3>1
        <4>2. \A i \in 1 .. Len(items) : items[i] \in kept
          BY <2>9, <2>11, <4>1
        <4> QED
          BY <2>2, <4>2, RetainAll
      <3> QED
        BY <2>3, <3>1
    <2> QED
      BY <1>1, <1>2, <1>3, <1>4, <1>7, <2>8, <2>12, <2>13, <2>14, <2>15 DEF HeedsTo
  <1>8. CASE sig.what = "new" /\ sig.who \in Services(items) \ WellKnown
    <2>1. PICK more : more = Append(asks, sig.who)
      OBVIOUS
    <2>2. more \in Seq(Apps) /\ ToSet(more) = ToSet(asks) \cup {sig.who}
      <3>1. more = asks \o <<sig.who>> /\ more \in Seq(Apps) /\ <<sig.who>> \in Seq(Apps)
        BY <1>5, <2>1, AppendOne
      <3>2. ToSet(asks \o <<sig.who>>) = ToSet(asks) \cup ToSet(<<sig.who>>)
        BY <3>1, ToSetConcat
      <3> QED
        BY <3>1, <3>2, ToSetOne
    <2>3. new = [items |-> items, asks |-> more, changed |-> changed]
      <3>1. new = [acc EXCEPT !.asks = Append(acc.asks, sig.who)]
        BY <1>1, <1>2, <1>8 DEF Heed
      <3>2. more = Append(acc.asks, sig.who)
        BY <1>3, <2>1
      <3>3. new = [acc EXCEPT !.asks = more]
        BY <3>1, <3>2
      <3> QED
        BY <1>6, <3>3
    <2>4. new \in ItemAccs /\ new.items = items /\ new.asks = more /\ new.changed = changed
      BY <2>2, <2>3 DEF ItemAccs
    <2> QED
      BY <1>1, <1>2, <1>3, <1>4, <1>8, <2>2, <2>4 DEF HeedsTo
  <1>9. CASE sig.what = "new" /\ sig.who \notin Services(items) \ WellKnown
    <2>1. new = acc
      BY <1>1, <1>2, <1>9 DEF Heed
    <2> QED
      BY <1>1, <1>2, <1>3, <1>4, <1>9, <2>1 DEF HeedsTo
  <1> QED
    BY <1>5, <1>7, <1>8, <1>9

\* The results along a batch of registrations.
LEMMA RegisterRun ==
    ASSUME NEW base \in ItemAccs, NEW s \in Seq(AppCalls)
    PROVE  \E run \in [0 .. Len(s) -> ItemAccs] :
              /\ run[0] = base /\ run[Len(s)] = FoldLeft(Register, base, s)
              /\ \A n \in 1 .. Len(s) : run[n] = Register(run[n - 1], s[n])
  <1>1. PICK r : r = FoldLeft(Register, base, s)
    OBVIOUS
  <1>2. PICK it : /\ it = CHOOSE g : g = [t \in SUBSET DOMAIN s |->
                                IF t = {} THEN base ELSE Register(g[t \ {Max(t)}], s[Max(t)])]
                  /\ r = it[DOMAIN s]
    BY <1>1 DEF FoldLeft, MapThenFoldSet
  <1>3. PICK F : F = [p \in ItemAccs \X AppCalls |-> Register(p[1], p[2])]
    OBVIOUS
  <1>4. F \in [ItemAccs \X AppCalls -> ItemAccs]
        /\ \A a \in ItemAccs, m \in AppCalls : F[<<a, m>>] = Register(a, m)
    BY <1>3, RegisterLemma
  <1>5. PICK jt \in [SUBSET (1 .. Len(s)) -> ItemAccs] : IsFold(jt, base, F, s, Len(s))
    BY <1>4, FoldExists
  <1>6. Len(s) \in Nat /\ DOMAIN s = 1 .. Len(s) /\ \A n \in 1 .. Len(s) : s[n] \in AppCalls
    OBVIOUS
  <1>7. ASSUME NEW t \in SUBSET (1 .. Len(s)), t # {}
        PROVE  F[<<jt[t \ {Max(t)}], s[Max(t)]>>] = Register(jt[t \ {Max(t)}], s[Max(t)])
    <2>1. Max(t) \in 1 .. Len(s)
      BY <1>6, <1>7, MaxLemma
    <2>2. jt[t \ {Max(t)}] \in ItemAccs
      OBVIOUS
    <2> QED
      BY <1>4, <1>6, <2>1, <2>2
  <1>8. jt = [t \in SUBSET DOMAIN s |-> IF t = {} THEN base ELSE Register(jt[t \ {Max(t)}], s[Max(t)])]
    BY <1>5, <1>6, <1>7 DEF IsFold
  <1>9. it = [t \in SUBSET DOMAIN s |-> IF t = {} THEN base ELSE Register(it[t \ {Max(t)}], s[Max(t)])]
    BY <1>2, <1>8
  <1>10. it[{}] = base
    BY <1>9
  <1>11. ASSUME NEW n \in 1 .. Len(s), it[1 .. n - 1] \in ItemAccs
         PROVE  it[1 .. n] = F[<<it[1 .. n - 1], s[n]>>]
    <2>1. 1 .. n # {} /\ Max(1 .. n) = n /\ (1 .. n) \ {n} = 1 .. n - 1 /\ 1 .. n \in SUBSET DOMAIN s
      BY <1>6, MaxUpto
    <2>2. it[1 .. n] = Register(it[1 .. n - 1], s[n])
      BY <1>9, <2>1
    <2> QED
      BY <1>4, <1>6, <1>11, <2>2
  <1>12. PICK run : Run(run, ItemAccs, F, base, s) /\ run[Len(s)] = it[1 .. Len(s)]
    <2>1. Applies(it, ItemAccs, F, s)
      BY <1>11 DEF Applies
    <2>2. F \in [ItemAccs \X AppCalls -> ItemAccs]
      BY <1>4
    <2>3. Along(it[1 .. Len(s)], ItemAccs, F, base, s)
      BY <1>10, <2>1, <2>2, FoldRun
    <2> QED
      BY <2>3 DEF Along
  <1>13. run[0] = base /\ run \in [0 .. Len(s) -> ItemAccs]
    BY <1>12 DEF Run
  <1>14. \A n \in 1 .. Len(s) : run[n] = Register(run[n - 1], s[n])
    <2>1. ASSUME NEW n \in 1 .. Len(s)
          PROVE  run[n] = Register(run[n - 1], s[n])
      <3>1. n - 1 \in 0 .. Len(s)
        BY <1>6
      <3>2. run[n - 1] \in ItemAccs
        BY <1>13, <3>1
      <3>3. run[n] = F[<<run[n - 1], s[n]>>]
        BY <1>12 DEF Run
      <3> QED
        BY <1>4, <1>6, <3>2, <3>3
    <2> QED
      BY <2>1
  <1> QED
    BY <1>1, <1>2, <1>6, <1>12, <1>13, <1>14

\* The results along a batch of signals.
LEMMA HeedRun ==
    ASSUME NEW base \in ItemAccs, NEW s \in Seq(AppSignals)
    PROVE  \E run \in [0 .. Len(s) -> ItemAccs] :
              /\ run[0] = base /\ run[Len(s)] = FoldLeft(Heed, base, s)
              /\ \A n \in 1 .. Len(s) : run[n] = Heed(run[n - 1], s[n])
  <1>1. PICK r : r = FoldLeft(Heed, base, s)
    OBVIOUS
  <1>2. PICK it : /\ it = CHOOSE g : g = [t \in SUBSET DOMAIN s |->
                                IF t = {} THEN base ELSE Heed(g[t \ {Max(t)}], s[Max(t)])]
                  /\ r = it[DOMAIN s]
    BY <1>1 DEF FoldLeft, MapThenFoldSet
  <1>3. PICK F : F = [p \in ItemAccs \X AppSignals |-> Heed(p[1], p[2])]
    OBVIOUS
  <1>4. F \in [ItemAccs \X AppSignals -> ItemAccs]
        /\ \A a \in ItemAccs, m \in AppSignals : F[<<a, m>>] = Heed(a, m)
    BY <1>3, HeedLemma DEF HeedsTo
  <1>5. PICK jt \in [SUBSET (1 .. Len(s)) -> ItemAccs] : IsFold(jt, base, F, s, Len(s))
    BY <1>4, FoldExists
  <1>6. Len(s) \in Nat /\ DOMAIN s = 1 .. Len(s) /\ \A n \in 1 .. Len(s) : s[n] \in AppSignals
    OBVIOUS
  <1>7. ASSUME NEW t \in SUBSET (1 .. Len(s)), t # {}
        PROVE  F[<<jt[t \ {Max(t)}], s[Max(t)]>>] = Heed(jt[t \ {Max(t)}], s[Max(t)])
    <2>1. Max(t) \in 1 .. Len(s)
      BY <1>6, <1>7, MaxLemma
    <2>2. jt[t \ {Max(t)}] \in ItemAccs
      OBVIOUS
    <2> QED
      BY <1>4, <1>6, <2>1, <2>2
  <1>8. jt = [t \in SUBSET DOMAIN s |-> IF t = {} THEN base ELSE Heed(jt[t \ {Max(t)}], s[Max(t)])]
    BY <1>5, <1>6, <1>7 DEF IsFold
  <1>9. it = [t \in SUBSET DOMAIN s |-> IF t = {} THEN base ELSE Heed(it[t \ {Max(t)}], s[Max(t)])]
    BY <1>2, <1>8
  <1>10. it[{}] = base
    BY <1>9
  <1>11. ASSUME NEW n \in 1 .. Len(s), it[1 .. n - 1] \in ItemAccs
         PROVE  it[1 .. n] = F[<<it[1 .. n - 1], s[n]>>]
    <2>1. 1 .. n # {} /\ Max(1 .. n) = n /\ (1 .. n) \ {n} = 1 .. n - 1 /\ 1 .. n \in SUBSET DOMAIN s
      BY <1>6, MaxUpto
    <2>2. it[1 .. n] = Heed(it[1 .. n - 1], s[n])
      BY <1>9, <2>1
    <2> QED
      BY <1>4, <1>6, <1>11, <2>2
  <1>12. PICK run : Run(run, ItemAccs, F, base, s) /\ run[Len(s)] = it[1 .. Len(s)]
    <2>1. Applies(it, ItemAccs, F, s)
      BY <1>11 DEF Applies
    <2>2. F \in [ItemAccs \X AppSignals -> ItemAccs]
      BY <1>4
    <2>3. Along(it[1 .. Len(s)], ItemAccs, F, base, s)
      BY <1>10, <2>1, <2>2, FoldRun
    <2> QED
      BY <2>3 DEF Along
  <1>13. run[0] = base /\ run \in [0 .. Len(s) -> ItemAccs]
    BY <1>12 DEF Run
  <1>14. \A n \in 1 .. Len(s) : run[n] = Heed(run[n - 1], s[n])
    <2>1. ASSUME NEW n \in 1 .. Len(s)
          PROVE  run[n] = Heed(run[n - 1], s[n])
      <3>1. n - 1 \in 0 .. Len(s)
        BY <1>6
      <3>2. run[n - 1] \in ItemAccs
        BY <1>13, <3>1
      <3>3. run[n] = F[<<run[n - 1], s[n]>>]
        BY <1>12 DEF Run
      <3> QED
        BY <1>4, <1>6, <3>2, <3>3
    <2> QED
      BY <2>1
  <1> QED
    BY <1>1, <1>2, <1>6, <1>12, <1>13, <1>14

-----------------------------------------------------------------------------
\* All calls of a wake-up.
CalledBy(s, n, a) == \E j \in 1 .. n : s[j].who = a
Registered(acc, m, s, n) ==
    /\ acc \in ItemAccs /\ OneEach(acc.items)
    /\ \A a : a \in Services(acc.items) <=> a \in Services(m) \/ CalledBy(s, n, a)
    /\ \A a, title : HasTitle(m, a, title) => HasTitle(acc.items, a, title)
    /\ \A a : a \notin Services(m) /\ CalledBy(s, n, a) => a \in ToSet(acc.asks)
    /\ acc.changed \/ acc.items = m

\* Registrations add whoever calls, once, and change nothing else.
LEMMA AllRegister ==
    ASSUME NEW m \in Seq(Items), OneEach(m), NEW s \in Seq(AppCalls)
    PROVE  Registered(FoldLeft(Register, [items |-> m, asks |-> <<>>, changed |-> FALSE], s), m, s, Len(s))
  <1>1. PICK base : base = [items |-> m, asks |-> <<>>, changed |-> FALSE]
    OBVIOUS
  <1>2. base \in ItemAccs /\ base.items = m
    <2>1. <<>> \in Seq(Apps)
      OBVIOUS
    <2> QED
      BY <1>1, <2>1 DEF ItemAccs
  <1>3. PICK run \in [0 .. Len(s) -> ItemAccs] :
              /\ run[0] = base /\ run[Len(s)] = FoldLeft(Register, base, s)
              /\ \A n \in 1 .. Len(s) : run[n] = Register(run[n - 1], s[n])
    BY <1>2, RegisterRun
  <1>4. PICK G : G = {n \in 0 .. Len(s) : Registered(run[n], m, s, n)}
    OBVIOUS
  <1>5. Len(s) \in Nat /\ 0 \in 0 .. Len(s) /\ Len(s) \in 0 .. Len(s)
        /\ \A n \in 1 .. Len(s) : s[n] \in AppCalls /\ n \in 0 .. Len(s) /\ n - 1 \in 0 .. Len(s)
    OBVIOUS
  <1>6. Registered(run[0], m, s, 0)
    <2>1. \A a : ~CalledBy(s, 0, a)
      BY DEF CalledBy
    <2> QED
      BY <1>2, <1>3, <2>1 DEF Registered
  <1>7. ASSUME NEW n \in 1 .. Len(s), Registered(run[n - 1], m, s, n - 1)
        PROVE  Registered(run[n], m, s, n)
    <2>1. PICK acc \in ItemAccs : acc = run[n - 1]
      BY <1>3, <1>5
    <2>2. PICK call \in AppCalls : call = s[n]
      BY <1>5
    <2>3. PICK new : new = run[n]
      OBVIOUS
    <2>4. /\ new \in ItemAccs
          /\ OneEach(acc.items) => OneEach(new.items)
          /\ \A a : a \in Services(new.items) <=> a \in Services(acc.items) \/ a = call.who
          /\ \A a, title : HasTitle(acc.items, a, title) => HasTitle(new.items, a, title)
          /\ ToSet(new.asks) = ToSet(acc.asks) \cup (IF call.who \in Services(acc.items) THEN {} ELSE {call.who})
          /\ new = acc \/ new.changed
      <3>1. new = Register(acc, call)
        BY <1>3, <2>1, <2>2, <2>3
      <3> QED
        BY <3>1, RegisterLemma
    <2>5. \A a : CalledBy(s, n, a) <=> CalledBy(s, n - 1, a) \/ a = call.who
      <3>1. 1 .. n = (1 .. n - 1) \cup {n}
        BY <1>5
      <3> QED
        BY <2>2, <3>1 DEF CalledBy
    <2>6. /\ OneEach(acc.items)
          /\ \A a : a \in Services(acc.items) <=> a \in Services(m) \/ CalledBy(s, n - 1, a)
          /\ \A a, title : HasTitle(m, a, title) => HasTitle(acc.items, a, title)
          /\ \A a : a \notin Services(m) /\ CalledBy(s, n - 1, a) => a \in ToSet(acc.asks)
          /\ acc.changed \/ acc.items = m
      BY <1>7, <2>1 DEF Registered
    <2>7. /\ new \in ItemAccs /\ OneEach(new.items)
          /\ \A a, title : HasTitle(m, a, title) => HasTitle(new.items, a, title)
          /\ new.changed \/ new.items = m
      BY <2>4, <2>6
    <2>8. \A a : a \in Services(new.items) <=> a \in Services(m) \/ CalledBy(s, n, a)
      BY <2>4, <2>5, <2>6
    <2>9. ASSUME NEW a, a \notin Services(m), CalledBy(s, n, a)
          PROVE  a \in ToSet(new.asks)
      <3>1. CASE CalledBy(s, n - 1, a)
        BY <2>4, <2>6, <2>9, <3>1
      <3>2. CASE ~CalledBy(s, n - 1, a)
        <4>1. a = call.who /\ a \notin Services(acc.items)
          BY <2>5, <2>6, <2>9, <3>2
        <4> QED
          BY <2>4, <4>1
      <3> QED
        BY <3>1, <3>2
    <2> QED
      BY <2>3, <2>7, <2>8, <2>9 DEF Registered
  <1>8. G = 0 .. Len(s)
    <2>1. 0 \in G /\ \A n \in 1 .. Len(s) : n - 1 \in G => n \in G
      BY <1>4, <1>5, <1>6, <1>7
    <2>2. G \in SUBSET (0 .. Len(s))
      BY <1>4
    <2> QED
      BY <1>5, <2>1, <2>2, Induction
  <1> QED
    BY <1>1, <1>3, <1>4, <1>5, <1>8

\* All signals of a wake-up.
GoneBy(s, n, a) == \E j \in 1 .. n : s[j].what = "gone" /\ s[j].who = a
NewBy(s, n, a)  == \E j \in 1 .. n : s[j].what = "new" /\ s[j].who = a
Heeded(acc, base, s, n) ==
    /\ acc \in ItemAccs /\ OneEach(acc.items)
    /\ \A a : a \in Services(acc.items) <=> a \in Services(base.items) /\ ~GoneBy(s, n, a)
    /\ \A a, title : HasTitle(base.items, a, title) /\ ~GoneBy(s, n, a) => HasTitle(acc.items, a, title)
    /\ ToSet(base.asks) \subseteq ToSet(acc.asks)
    /\ \A a : a \in Services(base.items) \ WellKnown /\ ~GoneBy(s, n, a) /\ NewBy(s, n, a)
                => a \in ToSet(acc.asks)
    /\ acc.changed \/ (acc.items = base.items /\ ~base.changed)

\* Signals take out whoever is gone, and change nothing else.
LEMMA AllHeed ==
    ASSUME NEW base \in ItemAccs, OneEach(base.items), NEW s \in Seq(AppSignals)
    PROVE  Heeded(FoldLeft(Heed, base, s), base, s, Len(s))
  <1>3. PICK run \in [0 .. Len(s) -> ItemAccs] :
              /\ run[0] = base /\ run[Len(s)] = FoldLeft(Heed, base, s)
              /\ \A n \in 1 .. Len(s) : run[n] = Heed(run[n - 1], s[n])
    BY HeedRun
  <1>4. PICK G : G = {n \in 0 .. Len(s) : Heeded(run[n], base, s, n)}
    OBVIOUS
  <1>5. Len(s) \in Nat /\ 0 \in 0 .. Len(s) /\ Len(s) \in 0 .. Len(s)
        /\ \A n \in 1 .. Len(s) : s[n] \in AppSignals /\ n \in 0 .. Len(s) /\ n - 1 \in 0 .. Len(s)
    OBVIOUS
  <1>6. Heeded(run[0], base, s, 0)
    <2>1. \A a : ~GoneBy(s, 0, a) /\ ~NewBy(s, 0, a)
      BY DEF GoneBy, NewBy
    <2>2. base.changed \in BOOLEAN
      BY DEF ItemAccs
    <2> QED
      BY <1>3, <2>1, <2>2 DEF Heeded
  <1>7. ASSUME NEW n \in 1 .. Len(s), Heeded(run[n - 1], base, s, n - 1)
        PROVE  Heeded(run[n], base, s, n)
    <2>1. PICK acc \in ItemAccs : acc = run[n - 1]
      BY <1>3, <1>5
    <2>2. PICK sig \in AppSignals : sig = s[n]
      BY <1>5
    <2>3. PICK new : new = run[n]
      OBVIOUS
    <2>4. /\ new \in ItemAccs
          /\ OneEach(acc.items) => OneEach(new.items)
          /\ \A a : a \in Services(new.items) <=> a \in Services(acc.items) /\ ~(sig.what = "gone" /\ sig.who = a)
          /\ \A a, title : HasTitle(acc.items, a, title) /\ ~(sig.what = "gone" /\ sig.who = a)
                             => HasTitle(new.items, a, title)
          /\ ToSet(acc.asks) \subseteq ToSet(new.asks)
          /\ sig.what = "new" /\ sig.who \in Services(acc.items) \ WellKnown => sig.who \in ToSet(new.asks)
          /\ new.changed \/ (new.items = acc.items /\ ~acc.changed)
      <3>1. new = Heed(acc, sig)
        BY <1>3, <2>1, <2>2, <2>3
      <3>2. HeedsTo(acc, sig, new)
        BY <3>1, HeedLemma
      <3> QED
        BY <3>2 DEF HeedsTo
    <2>5. /\ \A a : GoneBy(s, n, a) <=> GoneBy(s, n - 1, a) \/ (sig.what = "gone" /\ sig.who = a)
          /\ \A a : NewBy(s, n, a) <=> NewBy(s, n - 1, a) \/ (sig.what = "new" /\ sig.who = a)
      <3>1. 1 .. n = (1 .. n - 1) \cup {n}
        BY <1>5
      <3> QED
        BY <2>2, <3>1 DEF GoneBy, NewBy
    <2>6. /\ OneEach(acc.items)
          /\ \A a : a \in Services(acc.items) <=> a \in Services(base.items) /\ ~GoneBy(s, n - 1, a)
          /\ \A a, title : HasTitle(base.items, a, title) /\ ~GoneBy(s, n - 1, a) => HasTitle(acc.items, a, title)
          /\ ToSet(base.asks) \subseteq ToSet(acc.asks)
          /\ \A a : a \in Services(base.items) \ WellKnown /\ ~GoneBy(s, n - 1, a) /\ NewBy(s, n - 1, a)
                      => a \in ToSet(acc.asks)
          /\ acc.changed \/ (acc.items = base.items /\ ~base.changed)
      BY <1>7, <2>1 DEF Heeded
    <2>7. /\ new \in ItemAccs /\ OneEach(new.items)
          /\ ToSet(base.asks) \subseteq ToSet(new.asks)
          /\ new.changed \/ (new.items = base.items /\ ~base.changed)
      BY <2>4, <2>6
    <2>8. \A a : a \in Services(new.items) <=> a \in Services(base.items) /\ ~GoneBy(s, n, a)
      BY <2>4, <2>5, <2>6
    <2>9. \A a, title : HasTitle(base.items, a, title) /\ ~GoneBy(s, n, a) => HasTitle(new.items, a, title)
      BY <2>4, <2>5, <2>6
    <2>10. ASSUME NEW a, a \in Services(base.items) \ WellKnown, ~GoneBy(s, n, a), NewBy(s, n, a)
           PROVE  a \in ToSet(new.asks)
      <3>1. CASE NewBy(s, n - 1, a)
        BY <2>4, <2>5, <2>6, <2>10, <3>1
      <3>2. CASE ~NewBy(s, n - 1, a)
        <4>1. sig.what = "new" /\ sig.who = a /\ a \in Services(acc.items) \ WellKnown
          BY <2>5, <2>6, <2>10, <3>2
        <4> QED
          BY <2>4, <4>1
      <3> QED
        BY <3>1, <3>2
    <2> QED
      BY <2>3, <2>7, <2>8, <2>9, <2>10 DEF Heeded
  <1>8. G = 0 .. Len(s)
    <2>1. 0 \in G /\ \A n \in 1 .. Len(s) : n - 1 \in G => n \in G
      BY <1>4, <1>5, <1>6, <1>7
    <2>2. G \in SUBSET (0 .. Len(s))
      BY <1>4
    <2> QED
      BY <1>5, <2>1, <2>2, Induction
  <1> QED
    BY <1>3, <1>4, <1>5, <1>8

-----------------------------------------------------------------------------
\* The messages of a kind, of a batch.
LEMMA SortedFacts ==
    ASSUME NEW s \in Seq(AppMsgs)
    PROVE  /\ Calls(s) \in Seq(AppCalls) /\ Signals(s) \in Seq(AppSignals) /\ Replies(s) \in Seq(AppReplies)
           /\ \A a : CalledBy(Calls(s), Len(Calls(s)), a) <=> Called(Rest(s, 0), a)
           /\ \A a : GoneBy(Signals(s), Len(Signals(s)), a) <=> GoneIn(Rest(s, 0), a)
           /\ \A a : NewBy(Signals(s), Len(Signals(s)), a) <=> NewIn(Rest(s, 0), a)
           /\ \A msg : (\E n \in 1 .. Len(Replies(s)) : Replies(s)[n] = msg) <=> msg \in Rest(s, 0) /\ msg.kind = "reply"
  <1>1. /\ Len(s) \in Nat /\ DOMAIN s = 1 .. Len(s) /\ \A i \in 1 .. Len(s) : s[i] \in AppMsgs
        /\ Rest(s, 0) = {s[i] : i \in 1 .. Len(s)} /\ ToSet(s) = Rest(s, 0)
    BY DEF Rest, ToSet
  <1>2. ASSUME NEW kind
        PROVE  /\ OfKind(s, kind) \in Seq(AppMsgs) /\ Len(OfKind(s, kind)) \in Nat
               /\ \A msg : (\E n \in 1 .. Len(OfKind(s, kind)) : OfKind(s, kind)[n] = msg)
                             <=> msg \in Rest(s, 0) /\ msg.kind = kind
    <2>1. PICK kept : kept = {msg \in ToSet(s) : msg.kind = kind}
      OBVIOUS
    <2>2. PICK t : t = Retain(s, kept)
      OBVIOUS
    <2>3. /\ t \in Seq(AppMsgs)
          /\ \A f : (\E n \in 1 .. Len(t) : t[n] = f) <=> f \in kept /\ \E i \in 1 .. Len(s) : s[i] = f
      BY <2>2, RetainLemma
    <2>4. \A msg : msg \in kept /\ (\E i \in 1 .. Len(s) : s[i] = msg) <=> msg \in Rest(s, 0) /\ msg.kind = kind
      BY <1>1, <2>1
    <2>5. t = OfKind(s, kind)
      BY <2>1, <2>2 DEF OfKind
    <2> QED
      BY <2>3, <2>4, <2>5
  <1>3. \A msg \in Rest(s, 0) : /\ msg.kind = "call" => msg \in AppCalls
                                /\ msg.kind = "signal" => msg \in AppSignals
                                /\ msg.kind = "reply" => msg \in AppReplies
    <2>1. \A msg \in Rest(s, 0) : msg \in AppMsgs
      BY <1>1
    <2> QED
      BY <2>1 DEF AppMsgs, AppCalls, AppSignals, AppReplies
  <1>4. PICK c : c = Calls(s)
    OBVIOUS
  <1>5. PICK g : g = Signals(s)
    OBVIOUS
  <1>6. PICK r : r = Replies(s)
    OBVIOUS
  <1>7. /\ c \in Seq(AppMsgs) /\ Len(c) \in Nat
        /\ \A msg : (\E n \in 1 .. Len(c) : c[n] = msg) <=> msg \in Rest(s, 0) /\ msg.kind = "call"
    BY <1>2, <1>4 DEF Calls
  <1>8. /\ g \in Seq(AppMsgs) /\ Len(g) \in Nat
        /\ \A msg : (\E n \in 1 .. Len(g) : g[n] = msg) <=> msg \in Rest(s, 0) /\ msg.kind = "signal"
    BY <1>2, <1>5 DEF Signals
  <1>9. /\ r \in Seq(AppMsgs) /\ Len(r) \in Nat
        /\ \A msg : (\E n \in 1 .. Len(r) : r[n] = msg) <=> msg \in Rest(s, 0) /\ msg.kind = "reply"
    BY <1>2, <1>6 DEF Replies
  <1>10. c \in Seq(AppCalls)
    <2>1. \A n \in 1 .. Len(c) : c[n] \in AppCalls
      BY <1>3, <1>7
    <2> QED
      BY <1>7, <2>1
  <1>11. g \in Seq(AppSignals)
    <2>1. \A n \in 1 .. Len(g) : g[n] \in AppSignals
      BY <1>3, <1>8
    <2> QED
      BY <1>8, <2>1
  <1>12. r \in Seq(AppReplies)
    <2>1. \A n \in 1 .. Len(r) : r[n] \in AppReplies
      BY <1>3, <1>9
    <2> QED
      BY <1>9, <2>1
  <1>13. \A a : CalledBy(c, Len(c), a) <=> Called(Rest(s, 0), a)
    BY <1>7 DEF CalledBy, Called
  <1>14. \A a : GoneBy(g, Len(g), a) <=> GoneIn(Rest(s, 0), a)
    BY <1>8 DEF GoneBy, GoneIn
  <1>15. \A a : NewBy(g, Len(g), a) <=> NewIn(Rest(s, 0), a)
    BY <1>8 DEF NewBy, NewIn
  <1> QED
    BY <1>4, <1>5, <1>6, <1>9, <1>10, <1>11, <1>12, <1>13, <1>14, <1>15

\* Nothing overtakes, so each application is heard in order and replies once.
LEMMA InTurn ==
    ASSUME NEW s \in Seq(AppMsgs), ~TrayOvertakes(s)
    PROVE  \A a : ~Late(s, a) /\ ~Twice(s, a)
  <1>1. DOMAIN s = 1 .. Len(s) /\ Len(s) \in Nat
    OBVIOUS
  <1>2. ASSUME NEW a, Late(s, a)
        PROVE  FALSE
    BY <1>1, <1>2 DEF Late, TrayOvertakes
  <1>3. ASSUME NEW a, Twice(s, a)
        PROVE  FALSE
    <2>1. PICK i \in 1 .. Len(s), j \in 1 .. Len(s) :
                /\ i # j /\ s[i].kind = "reply" /\ s[j].kind = "reply" /\ s[i].who = a /\ s[j].who = a
      BY <1>3 DEF Twice
    <2>2. PICK kept : kept = {msg \in ToSet(s) : msg.kind = "reply"}
      OBVIOUS
    <2>3. PICK r : r = Replies(s)
      OBVIOUS
    <2>4. r = Retain(s, kept) /\ s[i] \in kept /\ s[j] \in kept
      BY <1>1, <2>1, <2>2, <2>3 DEF Replies, OfKind, ToSet
    <2>5. r \in Seq(AppMsgs)
      BY <2>4, RetainOrder
    <2>6. PICK pos : Places(pos, s, kept, r)
      BY <2>4, RetainOrder
    <2>7. PICK m \in 1 .. Len(r) : pos[m] = i
      BY <2>4, <2>6 DEF Places
    <2>8. PICK n \in 1 .. Len(r) : pos[n] = j
      BY <2>4, <2>6 DEF Places
    <2>9. m # n /\ r[m].who = a /\ r[n].who = a
      BY <2>1, <2>6, <2>7, <2>8 DEF Places
    <2>10. DOMAIN r = 1 .. Len(r)
      BY <2>5
    <2> QED
      BY <2>3, <2>9, <2>10 DEF TrayOvertakes
  <1> QED
    BY <1>2, <1>3

\* Replies give titles.
LEMMA RetitledLemma ==
    ASSUME NEW items \in Seq(Items), OneEach(items), NEW s \in Seq(AppMsgs), NEW pick \in LastTaken(s)
    PROVE  LET new == Retitled(items, s, pick)
           IN  /\ new \in Seq(Items) /\ OneEach(new)
               /\ \A a : a \in Services(new) <=> a \in Services(items)
               /\ Replies(s) = <<>> => new = items
               /\ \A a, title : ~Twice(s, a) /\ Answered(Rest(s, 0), a, title) /\ a \in Services(items)
                                  => HasTitle(new, a, title)
               /\ \A a, title : ~Replied(Rest(s, 0), a) /\ HasTitle(items, a, title) => HasTitle(new, a, title)
  <1>1. PICK r : r = Replies(s)
    OBVIOUS
  <1>2. /\ r \in Seq(AppReplies)
        /\ \A msg : (\E n \in 1 .. Len(r) : r[n] = msg) <=> msg \in Rest(s, 0) /\ msg.kind = "reply"
    BY <1>1, SortedFacts
  <1>3. Len(r) \in Nat /\ DOMAIN r = 1 .. Len(r) /\ \A n \in 1 .. Len(r) : r[n] \in AppReplies /\ r[n].kind = "reply"
    <2>1. Len(r) \in Nat /\ DOMAIN r = 1 .. Len(r) /\ \A n \in 1 .. Len(r) : r[n] \in AppReplies
      BY <1>2
    <2> QED
      BY <2>1 DEF AppReplies
  <1>4. PICK good : good = {n \in 1 .. Len(r) : r[n].ok}
    OBVIOUS
  <1>5. PICK D : D = {r[n].who : n \in good}
    OBVIOUS
  <1>6. pick \in [D -> good] /\ DOMAIN pick = D /\ \A a \in D : pick[a] \in good /\ r[pick[a]].who = a
    <2>1. pick \in {p \in [D -> good] : \A a \in DOMAIN p : r[p[a]].who = a}
      BY <1>1, <1>3, <1>4, <1>5 DEF LastTaken
    <2> QED
      BY <2>1
  <1>7. PICK new : new = Retitled(items, s, pick)
    OBVIOUS
  <1>8. Len(items) \in Nat /\ DOMAIN items = 1 .. Len(items) /\ \A i \in 1 .. Len(items) : items[i] \in Items
    OBVIOUS
  <1>9. new = [i \in 1 .. Len(items) |-> IF items[i].service \in D
                                         THEN [items[i] EXCEPT !.title = r[pick[items[i].service]].title]
                                         ELSE items[i]]
    BY <1>1, <1>6, <1>7, <1>8 DEF Retitled
  <1>10. \A i \in 1 .. Len(items) :
            /\ new[i] \in Items /\ new[i].service = items[i].service
            /\ items[i].service \notin D => new[i] = items[i]
            /\ items[i].service \in D => new[i].title = r[pick[items[i].service]].title
    <2>1. ASSUME NEW i \in 1 .. Len(items), items[i].service \in D
          PROVE  /\ new[i] \in Items /\ new[i].service = items[i].service
                 /\ new[i].title = r[pick[items[i].service]].title
      <3>1. PICK k : k = pick[items[i].service]
        OBVIOUS
      <3>2. r[k].title \in {1, 2}
        BY <1>3, <1>4, <1>6, <2>1, <3>1 DEF AppReplies
      <3>3. PICK item \in Items : item = items[i]
        BY <1>8
      <3>4. new[i] = [item EXCEPT !.title = r[k].title]
        BY <1>9, <2>1, <3>1, <3>3
      <3> QED
        BY <3>1, <3>2, <3>3, <3>4 DEF Items
    <2>2. ASSUME NEW i \in 1 .. Len(items), items[i].service \notin D
          PROVE  new[i] = items[i] /\ new[i] \in Items
      BY <1>8, <1>9, <2>2
    <2> QED
      BY <2>1, <2>2
  <1>11. new \in Seq(Items) /\ Len(new) = Len(items)
    BY <1>8, <1>9, <1>10
  <1>12. OneEach(new)
    BY <1>10, <1>11 DEF OneEach
  <1>13. \A a : a \in Services(new) <=> a \in Services(items)
    <2>1. /\ \A a : a \in Services(items) <=> \E i \in 1 .. Len(items) : items[i].service = a
          /\ \A a : a \in Services(new) <=> \E i \in 1 .. Len(items) : new[i].service = a
      BY <1>11, ServicesFacts
    <2> QED
      BY <1>10, <2>1
  <1>14. r = <<>> => new = items
    <2>1. ASSUME r = <<>>
          PROVE  new = items
      <3>1. Len(r) = 0
        BY <2>1
      <3>2. 1 .. Len(r) = {}
        BY <3>1
      <3>3. D = {}
        BY <1>4, <1>5, <3>2
      <3>4. \A i \in 1 .. Len(items) : new[i] = items[i]
        BY <1>10, <3>3
      <3> QED
        BY <1>11, <3>4, SeqEqual
    <2> QED
      BY <2>1
  <1>15. ASSUME NEW a, NEW title, ~Twice(s, a), Answered(Rest(s, 0), a, title), a \in Services(items)
         PROVE  HasTitle(new, a, title)
    <2>1. PICK msg \in Rest(s, 0) : msg.kind = "reply" /\ msg.who = a /\ msg.ok /\ msg.title = title
      BY <1>15 DEF Answered
    <2>2. PICK n \in 1 .. Len(r) : r[n] = msg
      BY <1>2, <2>1
    <2>3. n \in good /\ a \in D
      BY <1>4, <1>5, <2>1, <2>2
    <2>4. PICK k : k = pick[a]
      OBVIOUS
    <2>5. k \in 1 .. Len(r) /\ r[k].who = a /\ r[k].kind = "reply"
      BY <1>3, <1>4, <1>6, <2>3, <2>4
    <2>6. r[k] \in Rest(s, 0)
      BY <1>2, <2>5
    <2>7. Len(s) \in Nat /\ Rest(s, 0) = {s[i] : i \in 1 .. Len(s)}
      BY DEF Rest
    <2>8. PICK i \in 1 .. Len(s) : s[i] = msg
      BY <2>1, <2>7
    <2>9. PICK j \in 1 .. Len(s) : s[j] = r[k]
      BY <2>6, <2>7
    <2>10. i = j
      BY <1>15, <2>1, <2>5, <2>8, <2>9 DEF Twice
    <2>11. r[k].title = title
      BY <2>1, <2>8, <2>9, <2>10
    <2>12. PICK q \in 1 .. Len(items) : items[q].service = a
      BY <1>15, ServicesFacts
    <2>13. new[q].title = title /\ new[q].service = a
      BY <1>10, <2>3, <2>4, <2>11, <2>12
    <2> QED
      BY <1>11, <2>13 DEF HasTitle
  <1>16. ASSUME NEW a, NEW title, ~Replied(Rest(s, 0), a), HasTitle(items, a, title)
         PROVE  HasTitle(new, a, title)
    <2>1. a \notin D
      <3>1. ASSUME a \in D
            PROVE  FALSE
        <4>1. PICK n \in good : r[n].who = a
          BY <1>5, <3>1
        <4>2. n \in 1 .. Len(r) /\ r[n].kind = "reply"
          BY <1>3, <1>4
        <4>3. r[n] \in Rest(s, 0)
          BY <1>2, <4>2
        <4> QED
          BY <1>16, <4>1, <4>2, <4>3 DEF Replied
      <3> QED
        BY <3>1
    <2> QED
      BY <1>10, <1>11, <1>16, <2>1 DEF HasTitle
  <1> QED
    BY <1>1, <1>7, <1>11, <1>12, <1>13, <1>14, <1>15, <1>16

-----------------------------------------------------------------------------
\* One message more.
LEMMA MoreOf ==
    ASSUME NEW s \in Seq(AppMsgs), NEW x \in AppMsgs, NEW t, t = Append(s, x)
    PROVE  /\ \A a : Called(Rest(t, 0), a) <=> Called(Rest(s, 0), a) \/ (x.kind = "call" /\ x.who = a)
           /\ \A a : GoneIn(Rest(t, 0), a) <=> GoneIn(Rest(s, 0), a) \/ (x.kind = "signal" /\ x.what = "gone" /\ x.who = a)
           /\ \A a : NewIn(Rest(t, 0), a) <=> NewIn(Rest(s, 0), a) \/ (x.kind = "signal" /\ x.what = "new" /\ x.who = a)
           /\ \A a : Replied(Rest(t, 0), a) <=> Replied(Rest(s, 0), a) \/ (x.kind = "reply" /\ x.who = a)
           /\ \A a, title : Answered(Rest(t, 0), a, title)
                              <=> \/ Answered(Rest(s, 0), a, title)
                                  \/ x.kind = "reply" /\ x.who = a /\ x.ok /\ x.title = title
           /\ \A a : (Late(s, a) => Late(t, a)) /\ (Twice(s, a) => Twice(t, a))
           /\ x.kind = "call" /\ GoneIn(Rest(s, 0), x.who) => Late(t, x.who)
  <1>1. /\ Len(t) = Len(s) + 1 /\ Len(s) \in Nat /\ t[Len(s) + 1] = x
        /\ \A i \in 1 .. Len(s) : i \in 1 .. Len(s) + 1 /\ t[i] = s[i]
    BY AppendFacts
  <1>2. PICK R : R = Rest(s, 0)
    OBVIOUS
  <1>3. Rest(t, 0) = R \cup {x}
    <2>1. 0 \in 0 .. Len(s)
      BY <1>1
    <2> QED
      BY <1>2, <2>1, RestFacts
  <1>4. \A a : Called(R \cup {x}, a) <=> Called(R, a) \/ (x.kind = "call" /\ x.who = a)
    BY DEF Called
  <1>5. \A a : GoneIn(R \cup {x}, a) <=> GoneIn(R, a) \/ (x.kind = "signal" /\ x.what = "gone" /\ x.who = a)
    BY DEF GoneIn
  <1>6. \A a : NewIn(R \cup {x}, a) <=> NewIn(R, a) \/ (x.kind = "signal" /\ x.what = "new" /\ x.who = a)
    BY DEF NewIn
  <1>7. \A a : Replied(R \cup {x}, a) <=> Replied(R, a) \/ (x.kind = "reply" /\ x.who = a)
    BY DEF Replied
  <1>8. \A a, title : Answered(R \cup {x}, a, title)
                        <=> \/ Answered(R, a, title)
                            \/ x.kind = "reply" /\ x.who = a /\ x.ok /\ x.title = title
    BY DEF Answered
  <1>9. \A a : Late(s, a) => Late(t, a)
    BY <1>1 DEF Late
  <1>10. \A a : Twice(s, a) => Twice(t, a)
    BY <1>1 DEF Twice
  <1>11. ASSUME x.kind = "call", GoneIn(R, x.who)
         PROVE  Late(t, x.who)
    <2>1. PICK msg \in R : msg.kind = "signal" /\ msg.who = x.who
      BY <1>11 DEF GoneIn
    <2>2. R = {s[i] : i \in 1 .. Len(s)}
      BY <1>2 DEF Rest
    <2>3. PICK i \in 1 .. Len(s) : s[i] = msg
      BY <2>1, <2>2
    <2>4. i < Len(s) + 1 /\ i \in 1 .. Len(t) /\ Len(s) + 1 \in 1 .. Len(t)
      BY <1>1
    <2> QED
      BY <1>1, <1>11, <2>1, <2>3, <2>4 DEF Late
  <1> QED
    BY <1>2, <1>3, <1>4, <1>5, <1>6, <1>7, <1>8, <1>9, <1>10, <1>11

\* A message of one application does nothing to another.
LEMMA OthersStand ==
    ASSUME NEW s \in Seq(AppMsgs), NEW x \in AppMsgs, NEW t, t = Append(s, x), NEW a, x.who # a,
           NEW w, NEW m, NEW Q, NEW P, a \in Q => a \in P
    PROVE  /\ AppHeld(a, w, m, s) => AppHeld(a, w, m, t)
           /\ AppKept(a, w, m, s, Q) => AppKept(a, w, m, t, P)
  <1>1. PICK R : R = Rest(s, 0)
    OBVIOUS
  <1>2. PICK N : N = Rest(t, 0)
    OBVIOUS
  <1>3. /\ Called(N, a) <=> Called(R, a)
        /\ GoneIn(N, a) <=> GoneIn(R, a)
        /\ NewIn(N, a) <=> NewIn(R, a)
        /\ Replied(N, a) <=> Replied(R, a)
        /\ \A title : Answered(N, a, title) <=> Answered(R, a, title)
        /\ Late(s, a) => Late(t, a)
        /\ Twice(s, a) => Twice(t, a)
    BY <1>1, <1>2, MoreOf
  <1>4. Stays(m, N, a) <=> Stays(m, R, a)
    BY <1>3 DEF Stays
  <1>5. \A title : TitleHeld(m, R, Q, a, title) => TitleHeld(m, N, P, a, title)
    BY <1>3 DEF TitleHeld
  <1>6. AppHeld(a, w, m, s) => AppHeld(a, w, m, t)
    BY <1>1, <1>2, <1>3, <1>4 DEF AppHeld
  <1>7. AppKept(a, w, m, s, Q) => AppKept(a, w, m, t, P)
    BY <1>1, <1>2, <1>3, <1>4, <1>5 DEF AppKept
  <1> QED
    BY <1>6, <1>7

\* What a wake-up makes of the items.
Woken(m, s, heard, new) ==
    /\ new \in Seq(Items) /\ OneEach(new) /\ heard.asks \in Seq(Apps)
    /\ \A a : a \in Services(new) <=> Stays(m, Rest(s, 0), a)
    /\ heard.changed \/ Replies(s) # <<>> \/ new = m
    /\ \A a, title, Q :
          /\ a \notin WellKnown /\ Stays(m, Rest(s, 0), a) /\ ~Twice(s, a)
          /\ Called(Rest(s, 0), a) => a \notin Services(m)
          /\ TitleHeld(m, Rest(s, 0), Q, a, title)
          => a \in Q \cup ToSet(heard.asks) \/ HasTitle(new, a, title)

\* What a wake-up makes of the items: registrations, then losses, then titles.
LEMMA WakeItems ==
    ASSUME NEW m \in Seq(Items), OneEach(m), NEW s \in Seq(AppMsgs), NEW pick \in LastTaken(s),
           NEW heard, heard = FoldLeft(Heed, FoldLeft(Register, [items |-> m, asks |-> <<>>, changed |-> FALSE],
                                                      Calls(s)), Signals(s)),
           NEW new, new = Retitled(heard.items, s, pick)
    PROVE  Woken(m, s, heard, new)
  <1>1. PICK c \in Seq(AppCalls) : c = Calls(s)
    BY SortedFacts
  <1>2. PICK g \in Seq(AppSignals) : g = Signals(s)
    BY SortedFacts
  <1>3. PICK called : called = FoldLeft(Register, [items |-> m, asks |-> <<>>, changed |-> FALSE], c)
    OBVIOUS
  <1>4. Registered(called, m, c, Len(c))
    BY <1>3, AllRegister
  <1>5. called \in ItemAccs /\ OneEach(called.items)
    BY <1>4 DEF Registered
  <1>6. Heeded(heard, called, g, Len(g))
    <2>1. heard = FoldLeft(Heed, called, g)
      BY <1>1, <1>2, <1>3
    <2> QED
      BY <1>5, <2>1, AllHeed
  <1>7. PICK R : R = Rest(s, 0)
    OBVIOUS
  <1>8. /\ \A a : CalledBy(c, Len(c), a) <=> Called(R, a)
        /\ \A a : GoneBy(g, Len(g), a) <=> GoneIn(R, a)
        /\ \A a : NewBy(g, Len(g), a) <=> NewIn(R, a)
    BY <1>1, <1>2, <1>7, SortedFacts
  <1>9. /\ \A a : a \in Services(called.items) <=> a \in Services(m) \/ Called(R, a)
        /\ \A a, title : HasTitle(m, a, title) => HasTitle(called.items, a, title)
        /\ \A a : a \notin Services(m) /\ Called(R, a) => a \in ToSet(called.asks)
        /\ called.changed \/ called.items = m
    BY <1>4, <1>8 DEF Registered
  <1>10. /\ heard \in ItemAccs /\ OneEach(heard.items)
         /\ \A a : a \in Services(heard.items) <=> a \in Services(called.items) /\ ~GoneIn(R, a)
         /\ \A a, title : HasTitle(called.items, a, title) /\ ~GoneIn(R, a) => HasTitle(heard.items, a, title)
         /\ ToSet(called.asks) \subseteq ToSet(heard.asks)
         /\ \A a : a \in Services(called.items) \ WellKnown /\ ~GoneIn(R, a) /\ NewIn(R, a) => a \in ToSet(heard.asks)
         /\ heard.changed \/ (heard.items = called.items /\ ~called.changed)
    BY <1>6, <1>8 DEF Heeded
  <1>11. heard.items \in Seq(Items) /\ heard.asks \in Seq(Apps)
    BY <1>10 DEF ItemAccs
  <1>12. /\ new \in Seq(Items) /\ OneEach(new)
         /\ \A a : a \in Services(new) <=> a \in Services(heard.items)
         /\ Replies(s) = <<>> => new = heard.items
         /\ \A a, title : ~Twice(s, a) /\ Answered(R, a, title) /\ a \in Services(heard.items)
                            => HasTitle(new, a, title)
         /\ \A a, title : ~Replied(R, a) /\ HasTitle(heard.items, a, title) => HasTitle(new, a, title)
    BY <1>7, <1>10, <1>11, RetitledLemma
  <1>13. \A a : a \in Services(new) <=> Stays(m, R, a)
    BY <1>9, <1>10, <1>12 DEF Stays
  <1>14. heard.changed \/ Replies(s) # <<>> \/ new = m
    BY <1>9, <1>10, <1>12
  <1>15. ASSUME NEW a, NEW title, NEW Q, a \notin WellKnown, Stays(m, R, a), ~Twice(s, a),
                Called(R, a) => a \notin Services(m), TitleHeld(m, R, Q, a, title)
         PROVE  a \in Q \cup ToSet(heard.asks) \/ HasTitle(new, a, title)
    <2>1. a \in Services(called.items) /\ ~GoneIn(R, a) /\ a \in Services(heard.items)
      BY <1>9, <1>10, <1>15 DEF Stays
    <2>2. CASE a \in Q
      BY <2>2
    <2>3. CASE Called(R, a)
      BY <1>9, <1>10, <1>15, <2>3
    <2>4. CASE NewIn(R, a)
      BY <1>10, <1>15, <2>1, <2>4
    <2>5. CASE Answered(R, a, title)
      BY <1>12, <1>15, <2>1, <2>5
    <2>6. CASE ~Replied(R, a) /\ HasTitle(m, a, title)
      BY <1>9, <1>10, <1>12, <2>1, <2>6
    <2> QED
      BY <1>15, <2>2, <2>3, <2>4, <2>5, <2>6 DEF TitleHeld
  <1> QED
    BY <1>7, <1>11, <1>12, <1>13, <1>14, <1>15 DEF Woken

\* What is told of each application is told of the tray.
LEMMA TrayToldFrom ==
    ASSUME NEW w, NEW m, NEW t, NEW Q, world' = w, model' = m, Batch' = t, ToSet(asked') = Q,
           \A b \in Apps : AppHeld(b, w[b], m, t) /\ (~reordered' => AppKept(b, w[b], m, t, Q))
    PROVE  TrayTold'
  BY DEF TrayTold

\* The service stands while the world goes on.
LEMMA WorldStep ==
    ASSUME TrayIInv, world' \in AppWorlds, wire' \in Seq(AppMsgs), asked' \in Seq(Apps), phase' = phase,
           held' = held, model' = model, shown' = shown, reordered' = reordered,
           phase # "off" => \A b \in Apps : /\ AppHeld(b, world'[b], model, Batch')
                                            /\ ~reordered => AppKept(b, world'[b], model, Batch', ToSet(asked'))
    PROVE  TrayIInv'
  <1>1. TrayTyped'
    BY DEF TrayIInv, TrayTyped
  <1>2. TrayTold'
    BY DEF TrayTold
  <1>3. OneEach(model)'
    BY DEF TrayIInv
  <1>4. (phase' \in {"new", "owner"} => model' = <<>> /\ shown' = Nothing)
        /\ (phase' = "on" => shown' = model' \/ (shown' = Nothing /\ model' = <<>>))
    BY DEF TrayIInv
  <1> QED
    BY <1>1, <1>2, <1>3, <1>4 DEF TrayIInv

\* The same for the messages of one application.
LEMMA OneSpeaks ==
    ASSUME TrayIInv, NEW a \in Apps, NEW v, world' = [world EXCEPT ![a] = v],
           v \in [on : {"off", "here", "registered", "gone", "missed"}, title : {1, 2}],
           NEW x \in AppMsgs, x.who = a, wire' = Append(wire, x),
           asked' \in Seq(Apps), \A b \in Apps : b # a /\ b \in ToSet(asked) => b \in ToSet(asked'),
           phase' = phase, held' = held, model' = model, shown' = shown, reordered' = reordered,
           phase # "off" => \A t : t = Append(Batch, x) =>
               AppHeld(a, v, model, t) /\ (~reordered => AppKept(a, v, model, t, ToSet(asked')))
    PROVE  TrayIInv'
  <1>1. wire \in Seq(AppMsgs) /\ held \in Seq(AppMsgs) /\ world \in AppWorlds
    BY DEF TrayIInv, TrayTyped
  <1>2. Batch' = Append(Batch, x) /\ wire' \in Seq(AppMsgs) /\ Batch \in Seq(AppMsgs)
    BY <1>1, AppendBatch, BatchLemma
  <1>3. world' \in AppWorlds /\ world'[a] = v /\ \A b \in Apps : b # a => world'[b] = world[b]
    BY <1>1 DEF AppWorlds
  <1>4. ASSUME phase # "off", NEW b \in Apps
        PROVE  /\ AppHeld(b, world'[b], model, Batch')
               /\ ~reordered => AppKept(b, world'[b], model, Batch', ToSet(asked'))
    <2>1. CASE b = a
      BY <1>2, <1>3, <1>4, <2>1
    <2>2. CASE b # a
      <3>1. AppHeld(b, world[b], model, Batch) /\ (~reordered => AppKept(b, world[b], model, Batch, ToSet(asked)))
        BY <1>4 DEF TrayIInv, TrayTold
      <3>2. PICK t : t = Append(Batch, x)
        OBVIOUS
      <3>3. PICK s \in Seq(AppMsgs) : s = Batch
        BY <1>2
      <3>4. PICK Q : Q = ToSet(asked)
        OBVIOUS
      <3>5. PICK P : P = ToSet(asked')
        OBVIOUS
      <3>6. /\ AppHeld(b, world[b], model, s) => AppHeld(b, world[b], model, t)
            /\ AppKept(b, world[b], model, s, Q) => AppKept(b, world[b], model, t, P)
        <4>1. (b \in Q => b \in P) /\ x.who # b
          BY <2>2, <3>4, <3>5
        <4> QED
          BY <3>2, <3>3, <4>1, OthersStand
      <3> QED
        BY <1>2, <1>3, <2>2, <3>1, <3>2, <3>3, <3>4, <3>5, <3>6
    <2> QED
      BY <2>1, <2>2
  <1> QED
    BY <1>2, <1>3, <1>4, WorldStep

\* The tray starts empty.
LEMMA TrayStart == TrayInit => TrayIInv
  <1> SUFFICES ASSUME TrayInit
               PROVE  TrayIInv
    OBVIOUS
  <1>1. /\ phase = "new" /\ asked = <<>> /\ wire = <<>> /\ held = <<>> /\ shown = Nothing /\ model = <<>>
        /\ world = [a \in Apps |-> [on |-> "off", title |-> 1]]
    BY DEF TrayInit, BusInit
  <1>2. TrayTyped
    <2>1. world \in AppWorlds
      BY <1>1 DEF AppWorlds
    <2> QED
      BY <1>1, <2>1 DEF TrayTyped
  <1>3. OneEach(model)
    BY <1>1 DEF OneEach
  <1>4. Batch = <<>> /\ Rest(<<>>, 0) = {} /\ Services(<<>>) = {}
    BY <1>1 DEF Batch, Rest, Services
  <1>5. \A a : ~Stays(<<>>, {}, a) /\ ~Called({}, a)
    BY <1>4 DEF Stays, Called
  <1>6. \A a \in Apps : AppHeld(a, world[a], <<>>, <<>>) /\ AppKept(a, world[a], <<>>, <<>>, ToSet(asked))
    <2>1. \A a \in Apps : world[a].on = "off"
      BY <1>1
    <2> QED
      BY <1>4, <1>5, <2>1 DEF AppHeld, AppKept
  <1>7. TrayTold
    BY <1>1, <1>4, <1>6 DEF TrayTold
  <1> QED
    BY <1>1, <1>2, <1>3, <1>7 DEF TrayIInv

\* An application comes.
LEMMA ComeStep ==
    ASSUME TrayIInv, AppComes
    PROVE  TrayIInv'
  <1>1. PICK a \in Apps : /\ world[a].on \in {"off"} \cup (IF a \in WellKnown THEN {"gone"} ELSE {})
                          /\ world' = [world EXCEPT ![a].on = "here"]
    BY DEF AppComes
  <1>2. /\ asked' = asked /\ wire' = wire /\ held' = held /\ phase' = phase /\ model' = model /\ shown' = shown
        /\ reordered' = reordered
    BY DEF AppComes
  <1>3. wire \in Seq(AppMsgs) /\ held \in Seq(AppMsgs) /\ world \in AppWorlds /\ asked \in Seq(Apps)
    BY DEF TrayIInv, TrayTyped
  <1>4. /\ world' \in AppWorlds /\ world'[a].on = "here" /\ \A b \in Apps : b # a => world'[b] = world[b]
    BY <1>1, <1>3 DEF AppWorlds
  <1>5. Batch' = Batch
    BY <1>2 DEF Batch
  <1>6. ASSUME phase # "off", NEW b \in Apps
        PROVE  /\ AppHeld(b, world'[b], model, Batch')
               /\ ~reordered => AppKept(b, world'[b], model, Batch', ToSet(asked'))
    <2>1. AppHeld(b, world[b], model, Batch) /\ (~reordered => AppKept(b, world[b], model, Batch, ToSet(asked)))
      BY <1>6 DEF TrayIInv, TrayTold
    <2>2. CASE b # a
      BY <1>2, <1>4, <1>5, <2>1, <2>2
    <2>3. CASE b = a
      <3>1. AppHeld(a, world[a], model, Batch)
        BY <2>1, <2>3
      <3>2. /\ ~Stays(model, Rest(Batch, 0), a)
            /\ a \notin WellKnown => /\ a \notin Services(model) /\ ~Called(Rest(Batch, 0), a)
                                     /\ Called(Rest(Batch, 0), a) => a \notin Services(model)
        BY <1>1, <3>1 DEF AppHeld
      <3>3. AppHeld(a, world'[a], model, Batch)
        BY <1>4, <3>2 DEF AppHeld
      <3>4. AppKept(a, world'[a], model, Batch, ToSet(asked))
        BY <1>4 DEF AppKept
      <3> QED
        BY <1>2, <1>5, <2>3, <3>3, <3>4
    <2> QED
      BY <2>2, <2>3
  <1> QED
    BY <1>2, <1>3, <1>4, <1>6, WorldStep

\* An application registers: its call is on the wire.
LEMMA RegisterStep ==
    ASSUME TrayIInv, AppRegisters
    PROVE  TrayIInv'
  <1>1. PICK a \in Apps : /\ world[a].on = "here" /\ world' = [world EXCEPT ![a].on = "registered"]
                          /\ wire' = Append(wire, [kind |-> "call", who |-> a])
    BY DEF AppRegisters
  <1>2. /\ asked' = asked /\ held' = held /\ phase' = phase /\ model' = model /\ shown' = shown
        /\ reordered' = reordered
    BY DEF AppRegisters
  <1>3. wire \in Seq(AppMsgs) /\ held \in Seq(AppMsgs) /\ world \in AppWorlds /\ asked \in Seq(Apps)
    BY DEF TrayIInv, TrayTyped
  <1>4. PICK x : x = [kind |-> "call", who |-> a]
    OBVIOUS
  <1>5. x \in AppMsgs /\ x.kind = "call" /\ x.who = a
    BY <1>4 DEF AppMsgs, AppCalls
  <1>6. PICK v : v = [world[a] EXCEPT !.on = "registered"]
    OBVIOUS
  <1>7. /\ world' = [world EXCEPT ![a] = v] /\ v.on = "registered"
        /\ v \in [on : {"off", "here", "registered", "gone", "missed"}, title : {1, 2}]
    BY <1>1, <1>3, <1>6 DEF AppWorlds
  <1>8. ASSUME phase # "off", NEW t, t = Append(Batch, x)
        PROVE  AppHeld(a, v, model, t) /\ (~reordered => AppKept(a, v, model, t, ToSet(asked')))
    <2>1. AppHeld(a, world[a], model, Batch)
      BY <1>8 DEF TrayIInv, TrayTold
    <2>2. PICK s \in Seq(AppMsgs) : s = Batch
      BY <1>3, BatchLemma
    <2>3. /\ Called(Rest(t, 0), a)
          /\ GoneIn(Rest(t, 0), a) <=> GoneIn(Rest(s, 0), a)
          /\ GoneIn(Rest(s, 0), a) => Late(t, a)
      <3>1. t = Append(s, x)
        BY <1>8, <2>2
      <3> QED
        BY <1>5, <3>1, MoreOf
    <2>4. a \notin WellKnown => a \notin Services(model)
      BY <1>1, <2>1 DEF AppHeld
    <2>5. AppHeld(a, v, model, t)
      BY <1>7, <2>4 DEF AppHeld
    <2>6. AppKept(a, v, model, t, ToSet(asked'))
      BY <2>3 DEF AppKept, Stays, TitleHeld
    <2> QED
      BY <2>5, <2>6
  <1>9. wire' = Append(wire, x)
    BY <1>1, <1>4
  <1> QED
    BY <1>2, <1>3, <1>5, <1>7, <1>8, <1>9, OneSpeaks

\* An application goes: the bus says so to whoever has the rules.
LEMMA GoStep ==
    ASSUME TrayIInv, AppGoes
    PROVE  TrayIInv'
  <1>1. PICK a \in Apps :
          /\ world[a].on \in {"here", "registered"}
          /\ world' = [world EXCEPT ![a].on = IF @ = "registered" /\ ~TrayMatched THEN "missed" ELSE "gone"]
          /\ Emit(TrayMatched, <<[kind |-> "signal", what |-> "gone", who |-> a]>>)
    BY DEF AppGoes
  <1>2. /\ asked' = asked /\ held' = held /\ phase' = phase /\ model' = model /\ shown' = shown
        /\ reordered' = reordered
    BY DEF AppGoes
  <1>3. wire \in Seq(AppMsgs) /\ held \in Seq(AppMsgs) /\ world \in AppWorlds /\ asked \in Seq(Apps)
    BY DEF TrayIInv, TrayTyped
  <1>4. PICK x : x = [kind |-> "signal", what |-> "gone", who |-> a]
    OBVIOUS
  <1>5. x \in AppMsgs /\ x.kind = "signal" /\ x.what = "gone" /\ x.who = a
    BY <1>4 DEF AppMsgs, AppSignals
  <1>6. PICK on : on = IF world[a].on = "registered" /\ ~TrayMatched THEN "missed" ELSE "gone"
    OBVIOUS
  <1>7. PICK v : v = [world[a] EXCEPT !.on = on]
    OBVIOUS
  <1>8. /\ world' = [world EXCEPT ![a] = v] /\ v.on = on
        /\ v \in [on : {"off", "here", "registered", "gone", "missed"}, title : {1, 2}]
    <2>1. world' = [world EXCEPT ![a].on = on]
      BY <1>1, <1>6
    <2>2. on \in {"missed", "gone"}
      BY <1>6
    <2> QED
      BY <1>3, <1>7, <2>1, <2>2 DEF AppWorlds
  <1>9. on \in {"missed", "gone"} /\ (on = "missed" => phase # "on")
        /\ (on = "gone" /\ phase # "on" => world[a].on = "here")
    BY <1>1, <1>6 DEF TrayMatched
  <1>10. CASE phase = "on"
    <2>1. wire' = Append(wire, x)
      <3>1. wire' = wire \o <<x>>
        BY <1>1, <1>4, <1>10 DEF Emit, TrayMatched
      <3> QED
        BY <1>3, <1>5, <3>1, AppendOne
    <2>2. ASSUME phase # "off", NEW t, t = Append(Batch, x)
          PROVE  AppHeld(a, v, model, t) /\ (~reordered => AppKept(a, v, model, t, ToSet(asked')))
      <3>1. AppHeld(a, world[a], model, Batch)
        BY <2>2 DEF TrayIInv, TrayTold
      <3>2. PICK s \in Seq(AppMsgs) : s = Batch
        BY <1>3, BatchLemma
      <3>3. /\ Called(Rest(t, 0), a) <=> Called(Rest(s, 0), a)
            /\ GoneIn(Rest(t, 0), a)
        <4>1. t = Append(s, x)
          BY <2>2, <3>2
        <4> QED
          BY <1>5, <4>1, MoreOf
      <3>4. a \notin WellKnown => (Called(Rest(t, 0), a) => a \notin Services(model))
        BY <3>1, <3>2, <3>3 DEF AppHeld
      <3>5. AppHeld(a, v, model, t)
        BY <1>8, <1>9, <3>3, <3>4 DEF AppHeld, Stays
      <3>6. AppKept(a, v, model, t, ToSet(asked'))
        BY <1>8, <1>9 DEF AppKept
      <3> QED
        BY <3>5, <3>6
    <2>3. \A b \in Apps : b # a /\ b \in ToSet(asked) => b \in ToSet(asked')
      BY <1>2
    <2> QED
      BY <1>2, <1>3, <1>5, <1>8, <2>1, <2>2, <2>3, OneSpeaks
  <1>11. CASE phase # "on"
    <2>1. wire' = wire
      BY <1>1, <1>11 DEF Emit, TrayMatched
    <2>2. /\ world' \in AppWorlds /\ world'[a] = v /\ \A b \in Apps : b # a => world'[b] = world[b]
      BY <1>3, <1>8 DEF AppWorlds
    <2>3. Batch' = Batch
      BY <1>2, <2>1 DEF Batch
    <2>4. ASSUME phase # "off", NEW b \in Apps
          PROVE  /\ AppHeld(b, world'[b], model, Batch')
                 /\ ~reordered => AppKept(b, world'[b], model, Batch', ToSet(asked'))
      <3>1. AppHeld(b, world[b], model, Batch) /\ (~reordered => AppKept(b, world[b], model, Batch, ToSet(asked)))
        BY <2>4 DEF TrayIInv, TrayTold
      <3>2. CASE b # a
        BY <1>2, <2>2, <2>3, <3>1, <3>2
      <3>3. CASE b = a
        <4>1. AppHeld(a, world[a], model, Batch)
          BY <3>1, <3>3
        <4>2. AppHeld(a, v, model, Batch)
          BY <1>8, <1>9, <1>11, <4>1 DEF AppHeld
        <4>3. AppKept(a, v, model, Batch, ToSet(asked))
          BY <1>8, <1>9 DEF AppKept
        <4> QED
          BY <1>2, <2>2, <2>3, <3>3, <4>2, <4>3
      <3> QED
        BY <3>2, <3>3
    <2> QED
      BY <1>2, <1>3, <2>1, <2>2, <2>4, WorldStep
  <1> QED
    BY <1>10, <1>11

\* An application is titled anew: a signal says so.
LEMMA RetitleStep ==
    ASSUME TrayIInv, AppRetitles
    PROVE  TrayIInv'
  <1>1. PICK a \in Apps :
          /\ world[a].on \in {"here", "registered"}
          /\ world' = [world EXCEPT ![a].title = 3 - @]
          /\ Emit(TrayMatched, <<[kind |-> "signal", what |-> "new", who |-> a]>>)
    BY DEF AppRetitles
  <1>2. /\ asked' = asked /\ held' = held /\ phase' = phase /\ model' = model /\ shown' = shown
        /\ reordered' = reordered
    BY DEF AppRetitles
  <1>3. wire \in Seq(AppMsgs) /\ held \in Seq(AppMsgs) /\ world \in AppWorlds /\ asked \in Seq(Apps)
    BY DEF TrayIInv, TrayTyped
  <1>4. PICK x : x = [kind |-> "signal", what |-> "new", who |-> a]
    OBVIOUS
  <1>5. x \in AppMsgs /\ x.kind = "signal" /\ x.what = "new" /\ x.who = a
    BY <1>4 DEF AppMsgs, AppSignals
  <1>6. PICK title : title = 3 - world[a].title
    OBVIOUS
  <1>7. PICK v : v = [world[a] EXCEPT !.title = title]
    OBVIOUS
  <1>8. /\ world' = [world EXCEPT ![a] = v] /\ v.on = world[a].on
        /\ v \in [on : {"off", "here", "registered", "gone", "missed"}, title : {1, 2}]
    <2>1. world' = [world EXCEPT ![a].title = title]
      BY <1>1, <1>6
    <2>2. world[a].title \in {1, 2} /\ world[a] \in [on : {"off", "here", "registered", "gone", "missed"}, title : {1, 2}]
      BY <1>3 DEF AppWorlds
    <2>3. title \in {1, 2}
      BY <1>6, <2>2
    <2> QED
      BY <1>3, <1>7, <2>1, <2>2, <2>3 DEF AppWorlds
  <1>10. CASE phase = "on"
    <2>1. wire' = Append(wire, x)
      <3>1. wire' = wire \o <<x>>
        BY <1>1, <1>4, <1>10 DEF Emit, TrayMatched
      <3> QED
        BY <1>3, <1>5, <3>1, AppendOne
    <2>2. ASSUME phase # "off", NEW t, t = Append(Batch, x)
          PROVE  AppHeld(a, v, model, t) /\ (~reordered => AppKept(a, v, model, t, ToSet(asked')))
      <3>1. AppHeld(a, world[a], model, Batch) /\ (~reordered => AppKept(a, world[a], model, Batch, ToSet(asked)))
        BY <2>2 DEF TrayIInv, TrayTold
      <3>2. PICK s \in Seq(AppMsgs) : s = Batch
        BY <1>3, BatchLemma
      <3>3. /\ Called(Rest(t, 0), a) <=> Called(Rest(s, 0), a)
            /\ GoneIn(Rest(t, 0), a) <=> GoneIn(Rest(s, 0), a)
            /\ NewIn(Rest(t, 0), a)
            /\ Late(s, a) => Late(t, a)
        <4>1. t = Append(s, x)
          BY <2>2, <3>2
        <4> QED
          BY <1>5, <4>1, MoreOf
      <3>4. Stays(model, Rest(t, 0), a) <=> Stays(model, Rest(s, 0), a)
        BY <3>3 DEF Stays
      <3>5. AppHeld(a, v, model, t)
        BY <1>8, <3>1, <3>2, <3>3, <3>4 DEF AppHeld
      <3>6. ASSUME ~reordered
            PROVE  AppKept(a, v, model, t, ToSet(asked'))
        <4>1. TitleHeld(model, Rest(t, 0), ToSet(asked'), a, v.title)
          BY <3>3 DEF TitleHeld
        <4>2. v.on = "registered" /\ ~Late(t, a) => Stays(model, Rest(t, 0), a)
          BY <1>8, <3>1, <3>2, <3>3, <3>4, <3>6 DEF AppKept
        <4> QED
          BY <4>1, <4>2 DEF AppKept
      <3> QED
        BY <3>5, <3>6
    <2>3. \A b \in Apps : b # a /\ b \in ToSet(asked) => b \in ToSet(asked')
      BY <1>2
    <2> QED
      BY <1>2, <1>3, <1>5, <1>8, <2>1, <2>2, <2>3, OneSpeaks
  <1>11. CASE phase # "on"
    <2>1. wire' = wire
      BY <1>1, <1>11 DEF Emit, TrayMatched
    <2>2. /\ world' \in AppWorlds /\ world'[a] = v /\ \A b \in Apps : b # a => world'[b] = world[b]
      BY <1>3, <1>8 DEF AppWorlds
    <2>3. Batch' = Batch
      BY <1>2, <2>1 DEF Batch
    <2>4. ASSUME phase # "off", NEW b \in Apps
          PROVE  /\ AppHeld(b, world'[b], model, Batch')
                 /\ ~reordered => AppKept(b, world'[b], model, Batch', ToSet(asked'))
      <3>1. AppHeld(b, world[b], model, Batch) /\ (~reordered => AppKept(b, world[b], model, Batch, ToSet(asked)))
        BY <2>4 DEF TrayIInv, TrayTold
      <3>2. CASE b # a
        BY <1>2, <2>2, <2>3, <3>1, <3>2
      <3>3. CASE b = a
        <4>1. AppHeld(a, world[a], model, Batch) /\ (~reordered => AppKept(a, world[a], model, Batch, ToSet(asked)))
          BY <3>1, <3>3
        <4>2. AppHeld(a, v, model, Batch)
          BY <1>8, <4>1 DEF AppHeld
        <4>3. a \notin Services(model)
          <5>1. model = <<>>
            BY <1>11, <2>4 DEF TrayIInv, TrayTyped
          <5> QED
            BY <5>1 DEF Services
        <4>4. ~reordered => AppKept(a, v, model, Batch, ToSet(asked))
          BY <1>8, <4>1, <4>3 DEF AppKept, Stays, TitleHeld
        <4> QED
          BY <1>2, <2>2, <2>3, <3>3, <4>2, <4>4
      <3> QED
        BY <3>2, <3>3
    <2> QED
      BY <1>2, <1>3, <2>1, <2>2, <2>4, WorldStep
  <1> QED
    BY <1>10, <1>11

\* An application answers with the title it has.
LEMMA TitleStep ==
    ASSUME TrayIInv, AppAnswers
    PROVE  TrayIInv'
  <1>1. PICK i \in DOMAIN asked :
          LET a == asked[i]
          IN  /\ asked' = RemoveAt(asked, i)
              /\ wire' = Append(wire, [kind |-> "reply", who |-> a, title |-> world[a].title,
                                       ok |-> world[a].on \in {"here", "registered"}])
    BY DEF AppAnswers
  <1>2. /\ world' = world /\ held' = held /\ phase' = phase /\ model' = model /\ shown' = shown
        /\ reordered' = reordered
    BY DEF AppAnswers
  <1>3. wire \in Seq(AppMsgs) /\ held \in Seq(AppMsgs) /\ world \in AppWorlds /\ asked \in Seq(Apps)
    BY DEF TrayIInv, TrayTyped
  <1>4. PICK a \in Apps : a = asked[i] /\ i \in 1 .. Len(asked)
    BY <1>3
  <1>5. PICK ok \in BOOLEAN : ok <=> world[a].on \in {"here", "registered"}
    <2>1. CASE world[a].on \in {"here", "registered"}
      BY <2>1
    <2>2. CASE world[a].on \notin {"here", "registered"}
      BY <2>2
    <2> QED
      BY <2>1, <2>2
  <1>6. PICK x : x = [kind |-> "reply", who |-> a, title |-> world[a].title, ok |-> ok]
    OBVIOUS
  <1>7. x \in AppMsgs /\ x.kind = "reply" /\ x.who = a /\ x.title = world[a].title /\ x.ok = ok
    <2>1. world[a].title \in {1, 2}
      BY <1>3 DEF AppWorlds
    <2> QED
      BY <1>6, <2>1 DEF AppMsgs, AppReplies
  <1>8. wire' = Append(wire, x)
    <2>1. PICK is : is = (world[a].on \in {"here", "registered"})
      OBVIOUS
    <2>2. is \in BOOLEAN /\ is = ok
      BY <1>5, <2>1
    <2>3. x = [kind |-> "reply", who |-> a, title |-> world[a].title, ok |-> is]
      BY <1>6, <2>2
    <2> QED
      BY <1>1, <1>4, <2>1, <2>3
  <1>9. /\ asked' \in Seq(Apps)
        /\ \A b \in Apps : b # a /\ b \in ToSet(asked) => b \in ToSet(asked')
    <2>1. asked' = RemoveAt(asked, i)
      BY <1>1
    <2>2. asked' \in Seq(Apps) /\ Removed(asked', asked, i)
      BY <1>3, <1>4, <2>1, RemoveAtLemma
    <2>3. DOMAIN asked = 1 .. Len(asked) /\ DOMAIN asked' = 1 .. Len(asked')
      BY <1>3, <2>2
    <2>4. ASSUME NEW b \in Apps, b # a, b \in ToSet(asked)
          PROVE  b \in ToSet(asked')
      <3>1. PICK k \in 1 .. Len(asked) : asked[k] = b
        BY <2>3, <2>4 DEF ToSet
      <3>2. k # i
        BY <1>4, <2>4, <3>1
      <3>3. PICK n \in 1 .. Len(asked') : asked'[n] = asked[k]
        BY <2>2, <3>2 DEF Removed
      <3> QED
        BY <2>3, <3>1, <3>3 DEF ToSet
    <2> QED
      BY <2>2, <2>4
  <1>10. PICK v : v = world[a]
    OBVIOUS
  <1>11. /\ world' = [world EXCEPT ![a] = v]
         /\ v \in [on : {"off", "here", "registered", "gone", "missed"}, title : {1, 2}]
    BY <1>2, <1>3, <1>10 DEF AppWorlds
  <1>12. ASSUME phase # "off", NEW t, t = Append(Batch, x)
         PROVE  AppHeld(a, v, model, t) /\ (~reordered => AppKept(a, v, model, t, ToSet(asked')))
    <2>1. AppHeld(a, v, model, Batch) /\ (~reordered => AppKept(a, v, model, Batch, ToSet(asked)))
      BY <1>10, <1>12 DEF TrayIInv, TrayTold
    <2>2. PICK s \in Seq(AppMsgs) : s = Batch
      BY <1>3, BatchLemma
    <2>3. /\ Called(Rest(t, 0), a) <=> Called(Rest(s, 0), a)
          /\ GoneIn(Rest(t, 0), a) <=> GoneIn(Rest(s, 0), a)
          /\ Answered(Rest(t, 0), a, v.title) <=> Answered(Rest(s, 0), a, v.title) \/ x.ok
          /\ Late(s, a) => Late(t, a)
      <3>1. t = Append(s, x)
        BY <1>12, <2>2
      <3> QED
        BY <1>7, <1>10, <3>1, MoreOf
    <2>4. Stays(model, Rest(t, 0), a) <=> Stays(model, Rest(s, 0), a)
      BY <2>3 DEF Stays
    <2>5. AppHeld(a, v, model, t)
      BY <2>1, <2>2, <2>3, <2>4 DEF AppHeld
    <2>6. ASSUME ~reordered
          PROVE  AppKept(a, v, model, t, ToSet(asked'))
      <3>1. v.on = "registered" => TitleHeld(model, Rest(t, 0), ToSet(asked'), a, v.title)
        BY <1>5, <1>7, <1>10, <2>3 DEF TitleHeld
      <3>2. v.on = "registered" /\ ~Late(t, a) => Stays(model, Rest(t, 0), a)
        BY <2>1, <2>2, <2>3, <2>4, <2>6 DEF AppKept
      <3> QED
        BY <3>1, <3>2 DEF AppKept
    <2> QED
      BY <2>5, <2>6
  <1> QED
    BY <1>2, <1>7, <1>8, <1>9, <1>11, <1>12, OneSpeaks

\* A wake-up of the tray.
LEMMA ItemsStep ==
    ASSUME TrayIInv, TrayWake
    PROVE  TrayIInv'
  <1>1. /\ phase = "on" /\ phase' = phase /\ wire' = <<>> /\ held' = <<>> /\ world' = world
        /\ reordered' = (reordered \/ TrayOvertakes(Batch))
    BY DEF TrayWake, ReadAll
  <1>2. /\ wire \in Seq(AppMsgs) /\ held \in Seq(AppMsgs) /\ world \in AppWorlds /\ asked \in Seq(Apps)
        /\ model \in Seq(Items) /\ OneEach(model) /\ TrayTold
    BY DEF TrayIInv, TrayTyped
  <1>3. PICK s \in Seq(AppMsgs) : s = Batch
    BY <1>2, BatchLemma
  <1>4. PICK m \in Seq(Items) : m = model
    BY <1>2
  <1>5. PICK heard : heard = FoldLeft(Heed, FoldLeft(Register, [items |-> m, asks |-> <<>>, changed |-> FALSE],
                                                      Calls(s)), Signals(s))
    OBVIOUS
  <1>6. PICK pick \in LastTaken(s) : model' = Retitled(heard.items, s, pick)
    BY <1>3, <1>4, <1>5 DEF TrayWake
  <1>7. /\ asked' = asked \o heard.asks
        /\ shown' = IF heard.changed \/ Replies(s) # <<>> THEN model' ELSE shown
    BY <1>3, <1>4, <1>5 DEF TrayWake
  <1>8. PICK new : new = Retitled(heard.items, s, pick)
    OBVIOUS
  <1>9. Woken(m, s, heard, new)
    <2>1. OneEach(m)
      BY <1>2, <1>4
    <2> QED
      BY <1>5, <1>8, <2>1, WakeItems
  <1>10. /\ new \in Seq(Items) /\ OneEach(new) /\ heard.asks \in Seq(Apps)
         /\ \A a : a \in Services(new) <=> Stays(m, Rest(s, 0), a)
         /\ heard.changed \/ Replies(s) # <<>> \/ new = m
    BY <1>9 DEF Woken
  <1>11. model' = new /\ Batch' = <<>>
    BY <1>1, <1>6, <1>8 DEF Batch
  <1>12. asked' \in Seq(Apps) /\ ToSet(asked') = ToSet(asked) \cup ToSet(heard.asks)
    BY <1>2, <1>7, <1>10, ConcatProperties, ToSetConcat
  <1>13. Rest(<<>>, 0) = {}
    BY DEF Rest
  <1>14. ASSUME NEW a
         PROVE  ~Called({}, a) /\ ~GoneIn({}, a) /\ ~Replied({}, a) /\ (Stays(new, {}, a) <=> a \in Services(new))
    BY DEF Called, GoneIn, Replied, Stays
  <1>15. ASSUME NEW a \in Apps
         PROVE  /\ AppHeld(a, world[a], new, <<>>)
                /\ ~reordered' => AppKept(a, world[a], new, <<>>, ToSet(asked'))
    <2>1. AppHeld(a, world[a], m, s) /\ (~reordered => AppKept(a, world[a], m, s, ToSet(asked)))
      BY <1>1, <1>2, <1>3, <1>4 DEF TrayTold
    <2>2. AppHeld(a, world[a], new, <<>>)
      <3>1. world[a].on \notin {"registered", "missed"} => ~Stays(new, {}, a)
        BY <1>10, <1>14, <2>1 DEF AppHeld
      <3>2. a \notin WellKnown /\ world[a].on \in {"off", "here"} => a \notin Services(new)
        BY <1>10, <2>1 DEF AppHeld, Stays
      <3> QED
        BY <1>13, <1>14, <3>1, <3>2 DEF AppHeld
    <2>3. ASSUME ~reordered', world[a].on = "registered"
          PROVE  /\ Stays(new, {}, a)
                 /\ a \notin WellKnown => TitleHeld(new, {}, ToSet(asked'), a, world[a].title)
      <3>1. ~reordered /\ ~Late(s, a) /\ ~Twice(s, a)
        BY <1>1, <1>3, <2>3, InTurn
      <3>2. /\ Stays(m, Rest(s, 0), a)
            /\ a \notin WellKnown => TitleHeld(m, Rest(s, 0), ToSet(asked), a, world[a].title)
        BY <2>1, <2>3, <3>1 DEF AppKept
      <3>3. ASSUME a \notin WellKnown
            PROVE  TitleHeld(new, {}, ToSet(asked'), a, world[a].title)
        <4>1. Called(Rest(s, 0), a) => a \notin Services(m)
          BY <2>1, <3>3 DEF AppHeld
        <4>2. a \in ToSet(asked) \cup ToSet(heard.asks) \/ HasTitle(new, a, world[a].title)
          BY <1>9, <3>1, <3>2, <3>3, <4>1 DEF Woken
        <4> QED
          BY <1>12, <1>14, <4>2 DEF TitleHeld
      <3> QED
        BY <1>10, <1>14, <3>2, <3>3
    <2>4. ~reordered' => AppKept(a, world[a], new, <<>>, ToSet(asked'))
      BY <1>13, <2>3 DEF AppKept
    <2> QED
      BY <2>2, <2>4
  <1>16. TrayTold'
    <2>1. PICK w : w = world
      OBVIOUS
    <2>2. PICK Q : Q = ToSet(asked')
      OBVIOUS
    <2>3. \A b \in Apps : AppHeld(b, w[b], new, <<>>) /\ (~reordered' => AppKept(b, w[b], new, <<>>, Q))
      BY <1>15, <2>1, <2>2
    <2>4. world' = w /\ model' = new /\ Batch' = <<>> /\ ToSet(asked') = Q
      BY <1>1, <1>11, <2>1, <2>2
    <2> QED
      BY <2>3, <2>4, TrayToldFrom
  <1>17. TrayTyped'
    <2>1. <<>> \in Seq(AppMsgs)
      OBVIOUS
    <2> QED
      BY <1>1, <1>2, <1>10, <1>11, <1>12, <2>1 DEF TrayTyped
  <1>18. shown' = model' \/ (shown' = Nothing /\ model' = <<>>)
    <2>1. shown = m \/ (shown = Nothing /\ m = <<>>)
      BY <1>1, <1>4 DEF TrayIInv
    <2> QED
      BY <1>7, <1>10, <1>11, <2>1
  <1> QED
    BY <1>1, <1>10, <1>11, <1>16, <1>17, <1>18 DEF TrayIInv

\* Each step of the tray and of the applications keeps the invariant.
LEMMA TrayStep == TrayIInv /\ [TrayNext]_bus => TrayIInv'
  <1> SUFFICES ASSUME TrayIInv, [TrayNext]_bus
               PROVE  TrayIInv'
    OBVIOUS
  <1>0. /\ wire \in Seq(AppMsgs) /\ held \in Seq(AppMsgs) /\ world \in AppWorlds /\ asked \in Seq(Apps)
        /\ model \in Seq(Items) /\ OneEach(model) /\ TrayTold
        /\ phase \in {"new", "owner"} => model = <<>> /\ shown = Nothing
        /\ phase = "on" => shown = model \/ (shown = Nothing /\ model = <<>>)
    BY DEF TrayIInv, TrayTyped
  <1>t. ASSUME world' = world, model' = model, Batch' = Batch, asked' = asked, reordered' = reordered,
               phase' = "off" \/ phase # "off"
        PROVE  TrayTold'
    BY <1>0, <1>t DEF TrayTold
  <1>1. CASE TrayOwns
    <2>1. /\ phase = "new" /\ phase' \in {"owner", "off"} /\ world' = world /\ asked' = asked /\ wire' = wire
          /\ held' = held /\ model' = model /\ shown' = shown /\ reordered' = reordered
      BY <1>1 DEF TrayOwns
    <2>2. Batch' = Batch
      BY <2>1 DEF Batch
    <2>3. TrayTold'
      BY <1>t, <2>1, <2>2
    <2>4. TrayTyped'
      BY <1>0, <2>1 DEF TrayTyped
    <2> QED
      BY <1>0, <2>1, <2>3, <2>4 DEF TrayIInv
  <1>2. CASE TrayStarted
    <2>1. /\ phase = "owner" /\ phase' = "on" /\ world' = world /\ asked' = asked /\ wire' = <<>>
          /\ held' = held \o wire /\ model' = model /\ shown' = shown /\ reordered' = reordered
      BY <1>2 DEF TrayStarted
    <2>2. held' \in Seq(AppMsgs) /\ wire' \in Seq(AppMsgs) /\ Batch' = Batch
      <3>1. held' \in Seq(AppMsgs) /\ wire' \in Seq(AppMsgs)
        BY <1>0, <2>1, ConcatProperties
      <3>2. Batch' = held' \o <<>>
        BY <2>1 DEF Batch
      <3>3. Batch' = held'
        BY <3>1, <3>2, ConcatEmptySeq
      <3> QED
        BY <2>1, <3>1, <3>3 DEF Batch
    <2>3. TrayTold'
      BY <1>t, <2>1, <2>2
    <2>4. TrayTyped'
      BY <1>0, <2>1, <2>2 DEF TrayTyped
    <2> QED
      BY <1>0, <2>1, <2>3, <2>4 DEF TrayIInv
  <1>3. CASE TrayBusLost
    <2>1. /\ phase' = "off" /\ world' = world /\ asked' = <<>> /\ wire' = <<>> /\ held' = <<>> /\ model' = model
      BY <1>3 DEF TrayBusLost, Hangup
    <2>2. TrayTyped' /\ TrayTold' /\ OneEach(model)'
      BY <1>0, <2>1 DEF TrayTyped, TrayTold
    <2> QED
      BY <2>1, <2>2 DEF TrayIInv
  <1>4. CASE UNCHANGED bus
    <2>1. /\ world' = world /\ asked' = asked /\ wire' = wire /\ held' = held /\ phase' = phase /\ model' = model
          /\ shown' = shown /\ reordered' = reordered
      BY <1>4 DEF bus
    <2>2. Batch' = Batch
      BY <2>1 DEF Batch
    <2>3. TrayTold'
      BY <1>0, <2>1, <2>2 DEF TrayTold
    <2>4. TrayTyped'
      BY <2>1 DEF TrayIInv, TrayTyped
    <2> QED
      BY <1>0, <2>1, <2>3, <2>4 DEF TrayIInv
  <1> QED
    BY <1>1, <1>2, <1>3, <1>4, ComeStep, RegisterStep, GoStep, RetitleStep, TitleStep, ItemsStep DEF TrayNext

\* With nothing under way the invariant leaves what the tray is to show.
LEMMA TrayHold == TrayIInv => TraySettles
  <1> SUFFICES ASSUME TrayIInv, phase = "on", Quiet, ~reordered
               PROVE  LET here == {a \in Apps : world[a].on = "registered"}
                      IN  /\ shown # Nothing \/ model = <<>>
                          /\ shown # Nothing => shown = model
                          /\ here \subseteq Services(model)
                          /\ Services(model) \subseteq here \cup {a \in Apps : world[a].on = "missed"}
                          /\ Len(model) = Cardinality(Services(model))
                          /\ \A i \in DOMAIN model :
                                model[i].service \in here \ WellKnown =>
                                    model[i].title = world[model[i].service].title
    BY DEF TraySettles
  <1>1. wire = <<>> /\ asked = <<>> /\ held = <<>>
    BY DEF Quiet
  <1>2. Batch = <<>> /\ Rest(<<>>, 0) = {} /\ ToSet(asked) = {}
    BY <1>1, ToSetOne DEF Batch, Rest
  <1>3. PICK m \in Seq(Items) : m = model /\ OneEach(m)
    BY DEF TrayIInv, TrayTyped
  <1>4. \A a \in Apps : AppHeld(a, world[a], m, <<>>) /\ AppKept(a, world[a], m, <<>>, {})
    BY <1>2, <1>3 DEF TrayIInv, TrayTold
  <1>5. \A a : /\ ~Called({}, a) /\ ~GoneIn({}, a) /\ ~NewIn({}, a) /\ ~Late(<<>>, a) /\ ~Twice(<<>>, a)
               /\ \A title : ~Answered({}, a, title)
    BY DEF Called, GoneIn, NewIn, Late, Twice, Answered
  <1>6. \A a \in Apps : /\ world[a].on = "registered" => a \in Services(m)
                        /\ a \in Services(m) => world[a].on \in {"registered", "missed"}
    BY <1>2, <1>4, <1>5 DEF AppHeld, AppKept, Stays
  <1>7. \A a \in Apps : world[a].on = "registered" /\ a \notin WellKnown => HasTitle(m, a, world[a].title)
    BY <1>2, <1>4, <1>5 DEF AppKept, TitleHeld
  <1>8. /\ Services(m) \subseteq Apps /\ Len(m) \in Nat /\ DOMAIN m = 1 .. Len(m)
        /\ \A i \in 1 .. Len(m) : m[i].service \in Services(m)
        /\ \A a : a \in Services(m) <=> \E i \in 1 .. Len(m) : m[i].service = a
    BY ServicesFacts
  <1>9. Cardinality(Services(m)) = Len(m)
    <2>1. PICK f : f = [i \in 1 .. Len(m) |-> m[i].service]
      OBVIOUS
    <2>2. f \in Bijection(1 .. Len(m), Services(m))
      <3>1. f \in [1 .. Len(m) -> Services(m)] /\ \A i \in 1 .. Len(m) : f[i] = m[i].service
        BY <1>8, <2>1
      <3>2. \A i, j \in 1 .. Len(m) : f[i] = f[j] => i = j
        BY <1>3, <3>1 DEF OneEach
      <3>3. \A a \in Services(m) : \E i \in 1 .. Len(m) : f[i] = a
        BY <1>8, <3>1
      <3> QED
        BY <3>1, <3>2, <3>3 DEF Bijection, Injection, Surjection, IsInjective
    <2>3. ExistsBijection(1 .. Len(m), Services(m))
      BY <2>2 DEF ExistsBijection
    <2> QED
      BY <1>8, <2>3, FS_CountingElements
  <1>10. shown = m \/ (shown = Nothing /\ m = <<>>)
    BY <1>3 DEF TrayIInv
  <1>11. ASSUME NEW i \in 1 .. Len(m), m[i].service \in Apps, world[m[i].service].on = "registered",
                m[i].service \notin WellKnown
         PROVE  m[i].title = world[m[i].service].title
    <2>1. PICK j \in 1 .. Len(m) : m[j].service = m[i].service /\ m[j].title = world[m[i].service].title
      BY <1>7, <1>11 DEF HasTitle
    <2> QED
      BY <1>3, <2>1 DEF OneEach
  <1>12. m # Nothing
    BY AppsAssumption DEF Items
  <1>13. PICK here : here = {a \in Apps : world[a].on = "registered"}
    OBVIOUS
  <1>14. /\ shown # Nothing \/ m = <<>>
         /\ shown # Nothing => shown = m
    BY <1>10, <1>12
  <1>15. /\ here \subseteq Services(m)
         /\ Services(m) \subseteq here \cup {a \in Apps : world[a].on = "missed"}
    BY <1>6, <1>8, <1>13
  <1>16. \A i \in DOMAIN m : m[i].service \in here \ WellKnown => m[i].title = world[m[i].service].title
    BY <1>8, <1>11, <1>13
  <1> QED
    BY <1>3, <1>9, <1>13, <1>14, <1>15, <1>16

\* With nothing under way the tray shows the applications that are there, each
\* once and titled as it is, unless a wake-up took messages out of order.
THEOREM TrayTheorem == TraySpec => []TraySettles
  <1>1. TrayInit => TrayIInv
    BY TrayStart
  <1>2. TrayIInv /\ [TrayNext]_bus => TrayIInv'
    BY TrayStep
  <1>3. TrayIInv => TraySettles
    BY TrayHold
  <1> QED
    BY <1>1, <1>2, <1>3, PTL DEF TraySpec
=============================================================================
