-------------------------- MODULE MiddlewareChainProofs -----------------------
(***************************************************************************)
(* Proofs about MiddlewareChain, for every list, key and number of edits:  *)
(* the nest is the registered list and the edits do to it what their names *)
(* say, observers agree with the report, a kept key decrypts.              *)
(***************************************************************************)
EXTENDS MiddlewareChain, SequenceTheorems, FiniteSetTheorems, WellFoundedInduction, TLAPS

-----------------------------------------------------------------------------
(* Induction over the naturals, as a fact about sets *)

\* A set of naturals that has no least missing one has them all.
LEMMA NatSetInduction ==
    ASSUME NEW S, 0 \in S, \A n \in Nat : n \in S => n + 1 \in S
    PROVE  Nat \subseteq S
<1> DEFINE T == Nat \ S
<1> DEFINE R == {ss \in Nat \X Nat : ss[1] < ss[2]}
<1> SUFFICES ASSUME T # {} PROVE FALSE
  OBVIOUS
<1>1. IsWellFoundedOn(R, Nat)
  BY NatLessThanWellFounded DEF OpToRel
<1>2. PICK x \in T : \A y \in T : ~(<<y, x>> \in R)
  <2> T \subseteq Nat OBVIOUS
  <2> HIDE DEF T, R
  <2> QED BY <1>1, WFMin
<1>3. x # 0 /\ x \in Nat
  OBVIOUS
<1>4. x - 1 \in Nat /\ x - 1 + 1 = x /\ x - 1 < x
  BY <1>3
<1>5. <<x - 1, x>> \in R
  BY <1>3, <1>4
<1>6. x - 1 \notin T
  BY <1>2, <1>5
<1>7. QED
  BY <1>3, <1>4, <1>6

-----------------------------------------------------------------------------
(* The list and the nest *)

\* The loop of wrap, from the last middleware to the first, makes the list as it
\* was registered: the first is outermost.
LEMMA WrapIsList ==
    ASSUME NEW S, NEW list \in Seq(S)
    PROVE  Wrap(list) = list
<1> DEFINE L == Len(list)
<1> DEFINE wrap(f) == [n \in 0..L |-> IF n = 0 THEN <<>> ELSE <<list[L - n + 1]>> \o f[n - 1]]
<1> DEFINE tails == [n \in 0..L |-> SubSeq(list, L - n + 1, L)]
<1> DEFINE wrapped == CHOOSE f : f = wrap(f)
<1>1. L \in Nat
  OBVIOUS
<1>2. ASSUME NEW n \in 1..L
      PROVE  SubSeq(list, L - n + 1, L) = <<list[L - n + 1]>> \o SubSeq(list, L - (n - 1) + 1, L)
  <2>1. L - n + 1 \in 1..L /\ L \in (L - n + 1)..L /\ (L - n + 1) + 1 = L - (n - 1) + 1
    BY <1>1
  <2>2. QED
    BY <2>1, SubSeqRecursiveFirst
<1>3. SubSeq(list, L - 0 + 1, L) = <<>>
  BY <1>1, SubSeqEmpty
<1>4. tails = wrap(tails)
  <2>1. ASSUME NEW n \in 0..L
        PROVE  tails[n] = wrap(tails)[n]
    <3>1. CASE n = 0
      BY <3>1, <1>1, <1>3
    <3>2. CASE n # 0
      <4>1. n \in 1..L /\ n - 1 \in 0..L
        BY <3>2, <1>1
      <4>2. QED
        BY <4>1, <3>2, <1>2
    <3>3. QED
      BY <3>1, <3>2
  <2>2. QED
    BY <2>1
<1>5. wrapped = wrap(wrapped)
  <2> HIDE DEF wrap, tails
  <2> QED BY <1>4
<1>6. Wrap(list) = wrapped[L]
  BY DEF Wrap
<1> HIDE DEF wrapped
<1> DEFINE Agree == {n \in Nat : n <= L => wrapped[n] = tails[n]}
<1>7. 0 \in Agree
  <2>1. 0 \in 0..L
    BY <1>1
  <2>2. wrapped[0] = <<>> /\ tails[0] = <<>>
    BY <2>1, <1>3, <1>5
  <2>3. QED
    BY <2>2
<1>8. ASSUME NEW n \in Nat, n \in Agree
      PROVE  n + 1 \in Agree
  <2> SUFFICES ASSUME n + 1 <= L PROVE wrapped[n + 1] = tails[n + 1]
    OBVIOUS
  <2>1. n + 1 \in 1..L /\ n + 1 \in 0..L /\ n \in 0..L /\ n <= L /\ (n + 1) - 1 = n /\ n + 1 # 0
    BY <1>1
  <2>2. wrapped[n + 1] = <<list[L - (n + 1) + 1]>> \o wrapped[n]
    BY <2>1, <1>5
  <2>3. wrapped[n] = tails[n] /\ tails[n] = SubSeq(list, L - n + 1, L)
    BY <1>8, <2>1
  <2>4. SubSeq(list, L - (n + 1) + 1, L) = <<list[L - (n + 1) + 1]>> \o SubSeq(list, L - n + 1, L)
    BY <2>1, <1>2
  <2>5. tails[n + 1] = SubSeq(list, L - (n + 1) + 1, L)
    BY <2>1
  <2>6. QED
    BY <2>2, <2>3, <2>4, <2>5
<1>9. Nat \subseteq Agree
  <2> HIDE DEF Agree
  <2> QED BY <1>7, <1>8, NatSetInduction
<1>10. wrapped[L] = SubSeq(list, L - L + 1, L)
  <2>1. L \in 0..L /\ L <= L
    BY <1>1
  <2>2. L \in Agree
    <3> HIDE DEF Agree
    <3> QED BY <1>9, <1>1
  <2>3. wrapped[L] = tails[L]
    BY <2>1, <2>2
  <2>4. QED
    BY <2>1, <2>3
<1>11. L - L + 1 = 1
  BY <1>1
<1>12. QED
  BY <1>6, <1>10, <1>11, SubSeqFull

\* The loop of remove keeps the others, all of them and in their order.
LEMMA RemovedShape ==
    ASSUME NEW S, NEW list \in Seq(S), NEW name
    PROVE  /\ RemoveNamed(list, name) \in Seq(S)
           /\ Len(RemoveNamed(list, name)) = Cardinality(Kept(list, name, Len(list)))
           /\ \A i \in Kept(list, name, Len(list)) :
                 RemoveNamed(list, name)[Cardinality(Kept(list, name, i))] = list[i]
<1> DEFINE L == Len(list)
<1> DEFINE one(r, n) == IF list[n].name = name THEN r ELSE Append(r, list[n])
<1> DEFINE step(f, m) == [n \in 0..m |-> IF n = 0 THEN <<>> ELSE one(f[n - 1], n)]
<1> DEFINE retained == CHOOSE f : f = step(f, L)
<1>1. L \in Nat
  OBVIOUS
<1>2. \E f : f = step(f, L)
  <2> DEFINE Solved == {m \in Nat : \E f : f = step(f, m)}
  <2>1. 0 \in Solved
    <3>1. 0..0 = {0}
      OBVIOUS
    <3> DEFINE f == [n \in {0} |-> <<>>]
    <3>2. f = step(f, 0)
      BY <3>1
    <3>3. QED
      BY <3>2
  <2>2. ASSUME NEW m \in Nat, m \in Solved
        PROVE  m + 1 \in Solved
    <3>1. PICK f : f = step(f, m)
      BY <2>2
    <3> DEFINE g == [n \in 0..(m + 1) |-> IF n = m + 1 THEN one(f[m], m + 1) ELSE f[n]]
    <3> HIDE DEF one
    <3>2. ASSUME NEW n \in 0..(m + 1)
          PROVE  g[n] = step(g, m + 1)[n]
      <4>1. CASE n = 0
        <5>1. n # m + 1 /\ n \in 0..m
          BY <4>1
        <5>2. f[n] = <<>>
          BY <4>1, <5>1, <3>1
        <5>3. QED
          BY <4>1, <5>1, <5>2
      <4>2. CASE n = m + 1
        <5>1. n - 1 = m /\ n # 0 /\ m \in 0..(m + 1) /\ m # m + 1
          BY <4>2
        <5>2. g[m] = f[m]
          BY <5>1
        <5>3. QED
          BY <4>2, <5>1, <5>2
      <4>3. CASE n # 0 /\ n # m + 1
        <5>1. n \in 0..m /\ n - 1 \in 0..(m + 1) /\ n - 1 # m + 1
          BY <4>3
        <5>2. g[n - 1] = f[n - 1] /\ g[n] = f[n]
          BY <5>1, <4>3
        <5>3. f[n] = one(f[n - 1], n)
          BY <5>1, <3>1, <4>3
        <5>4. QED
          BY <5>2, <5>3, <4>3
      <4>4. QED
        BY <4>1, <4>2, <4>3
    <3>3. g = step(g, m + 1)
      BY <3>2
    <3> HIDE DEF g, step
    <3>4. QED
      BY <3>3
  <2>3. Nat \subseteq Solved
    <3> HIDE DEF Solved
    <3> QED BY <2>1, <2>2, NatSetInduction
  <2>4. QED
    BY <2>3, <1>1
<1>3. retained = step(retained, L)
  <2> HIDE DEF step
  <2> QED BY <1>2
<1>4. RemoveNamed(list, name) = retained[L]
  BY DEF RemoveNamed
<1> HIDE DEF retained
<1>5. retained[0] = <<>>
  BY <1>1, <1>3
<1>6. ASSUME NEW n \in Nat, n + 1 <= L
      PROVE  retained[n + 1] = one(retained[n], n + 1)
  <2>1. n + 1 \in 0..L /\ n + 1 # 0 /\ (n + 1) - 1 = n
    BY <1>1, <1>6
  <2> HIDE DEF one
  <2>2. QED
    BY <2>1, <1>3
<1> DEFINE kept(n) == Kept(list, name, n)
<1> DEFINE Right(n) == /\ retained[n] \in Seq(S)
                       /\ Len(retained[n]) = Cardinality(kept(n))
                       /\ \A i \in kept(n) : retained[n][Cardinality(kept(i))] = list[i]
<1>7. \A n \in Nat : IsFiniteSet(kept(n)) /\ Cardinality(kept(n)) \in Nat
  <2>1. ASSUME NEW n \in Nat
        PROVE  IsFiniteSet(kept(n)) /\ Cardinality(kept(n)) \in Nat
    <3>1. IsFiniteSet(1..n)
      BY FS_Interval
    <3>2. kept(n) \subseteq 1..n
      BY DEF Kept
    <3>3. IsFiniteSet(kept(n))
      BY <3>1, <3>2, FS_Subset
    <3>4. QED
      BY <3>3, FS_CardinalityType
  <2>2. QED
    BY <2>1
<1>8. Right(0)
  <2>1. kept(0) = {}
    BY DEF Kept
  <2>2. Cardinality(kept(0)) = 0
    BY <2>1, FS_EmptySet
  <2> HIDE DEF kept
  <2>3. <<>> \in Seq(S) /\ Len(<<>>) = 0
    OBVIOUS
  <2>4. QED
    BY <2>1, <2>2, <2>3, <1>5
<1>9. ASSUME NEW n \in Nat, n + 1 <= L, Right(n)
      PROVE  Right(n + 1)
  <2>1. n + 1 \in 1..L /\ list[n + 1] \in S
    BY <1>1, <1>9
  <2>2. CASE list[n + 1].name = name
    <3>1. kept(n + 1) = kept(n)
      BY <2>2 DEF Kept
    <3>2. retained[n + 1] = retained[n]
      BY <2>2, <1>6, <1>9
    <3>3. QED
      BY <3>1, <3>2, <1>9
  <2>3. CASE list[n + 1].name # name
    <3>1. kept(n + 1) = kept(n) \cup {n + 1} /\ n + 1 \notin kept(n)
      BY <2>3 DEF Kept
    <3>2. retained[n + 1] = Append(retained[n], list[n + 1])
      BY <2>3, <1>6, <1>9
    <3>3. Cardinality(kept(n + 1)) = Cardinality(kept(n)) + 1
      BY <3>1, <1>7, FS_AddElement
    <3>4. ASSUME NEW i \in kept(n)
          PROVE  Cardinality(kept(i)) \in 1..Cardinality(kept(n))
      <4>1. i \in Nat /\ i \in kept(i) /\ kept(i) \subseteq kept(n)
        BY DEF Kept
      <4>2. Cardinality(kept(i)) <= Cardinality(kept(n))
        BY <4>1, <1>7, FS_Subset
      <4>3. Cardinality(kept(i)) # 0
        BY <4>1, <1>7, FS_EmptySet
      <4>4. QED
        BY <4>1, <4>2, <4>3, <1>7
    <3> HIDE DEF kept
    <3>5. retained[n + 1] \in Seq(S) /\ Len(retained[n + 1]) = Cardinality(kept(n + 1))
      BY <3>2, <3>3, <1>9, <2>1
    <3>6. ASSUME NEW i \in kept(n + 1)
          PROVE  retained[n + 1][Cardinality(kept(i))] = list[i]
      <4>1. CASE i \in kept(n)
        <5>1. Cardinality(kept(i)) \in 1..Len(retained[n])
          BY <4>1, <3>4, <1>9
        <5>2. QED
          BY <5>1, <4>1, <3>2, <1>9, <2>1
      <4>2. CASE i = n + 1
        <5>1. Cardinality(kept(i)) = Len(retained[n]) + 1
          BY <4>2, <3>3, <1>9
        <5>2. retained[n] \in Seq(S) /\ list[n + 1] \in S
          BY <1>9, <2>1
        <5>3. Append(retained[n], list[n + 1])[Len(retained[n]) + 1] = list[n + 1]
          BY <5>2
        <5>4. QED
          BY <4>2, <5>1, <5>3, <3>2
      <4>3. QED
        BY <4>1, <4>2, <3>1
    <3>7. QED
      BY <3>5, <3>6
  <2>4. QED
    BY <2>2, <2>3
<1>10. Right(L)
  <2> DEFINE Done == {n \in Nat : n <= L => Right(n)}
  <2> HIDE DEF Right
  <2>1. 0 \in Done
    BY <1>8
  <2>2. ASSUME NEW n \in Nat, n \in Done
        PROVE  n + 1 \in Done
    BY <2>2, <1>9, <1>1
  <2>3. Nat \subseteq Done
    <3> HIDE DEF Done
    <3> QED BY <2>1, <2>2, NatSetInduction
  <2>4. QED
    BY <2>3, <1>1
<1>11. QED
  BY <1>4, <1>10

\* What is inserted is there, and taking it out again gives the list back.
LEMMA InsertedShape ==
    ASSUME NEW S, NEW list \in Seq(S), NEW mw \in S, NEW i \in 1..(Len(list) + 1)
    PROVE  /\ InsertAt(list, i, mw) \in Seq(S)
           /\ i \in DOMAIN InsertAt(list, i, mw)
           /\ InsertAt(list, i, mw)[i] = mw
           /\ RemoveAt(InsertAt(list, i, mw), i) = list
<1> DEFINE L == Len(list)
<1> DEFINE before == SubSeq(list, 1, i - 1)
<1> DEFINE after == SubSeq(list, i, L)
<1> DEFINE new == before \o <<mw>> \o after
<1>1. L \in Nat /\ i \in Nat /\ i >= 1 /\ i <= L + 1 /\ \A k \in 1..L : list[k] \in S
  OBVIOUS
<1>2. before \in Seq(S) /\ Len(before) = i - 1 /\ \A k \in 1..(i - 1) : before[k] = list[k]
  <2>1. \A k \in 1..(i - 1) : list[k] \in S
    BY <1>1
  <2>2. before \in Seq(S) /\ Len(before) = (IF 1 <= i - 1 THEN (i - 1) - 1 + 1 ELSE 0)
        /\ \A k \in 1..((i - 1) - 1 + 1) : before[k] = list[1 + k - 1]
    BY <2>1, <1>1, SubSeqProperties
  <2> HIDE DEF before
  <2>3. QED
    BY <2>2, <1>1
<1>3. after \in Seq(S) /\ Len(after) = L - i + 1
      /\ \A k \in 1..(L - i + 1) : after[k] = list[i + k - 1]
  <2>1. \A k \in i..L : list[k] \in S
    BY <1>1
  <2>2. after \in Seq(S) /\ Len(after) = (IF i <= L THEN L - i + 1 ELSE 0)
        /\ \A k \in 1..(L - i + 1) : after[k] = list[i + k - 1]
    BY <2>1, <1>1, SubSeqProperties
  <2> HIDE DEF after
  <2>3. QED
    BY <2>2, <1>1
<1> HIDE DEF before, after
<1>4. new \in Seq(S) /\ Len(new) = L + 1 /\ new[i] = mw
      /\ (\A k \in 1..(i - 1) : new[k] = list[k])
      /\ \A k \in (i + 1)..(L + 1) : new[k] = list[k - 1]
  <2> DEFINE left == before \o <<mw>>
  <2>1. left \in Seq(S) /\ Len(left) = i /\ left[i] = mw /\ \A k \in 1..(i - 1) : left[k] = list[k]
    BY <1>1, <1>2
  <2> HIDE DEF left
  <2>2. (left \o after) \in Seq(S) /\ Len(left \o after) = L + 1
        /\ \A k \in 1..(L + 1) : (left \o after)[k] = IF k <= i THEN left[k] ELSE after[k - i]
    <3>1. (left \o after) \in Seq(S) /\ Len(left \o after) = Len(left) + Len(after)
          /\ \A k \in 1..(Len(left) + Len(after)) : (left \o after)[k] =
                IF k <= Len(left) THEN left[k] ELSE after[k - Len(left)]
      BY <1>3, <2>1, ConcatProperties
    <3>2. Len(left) = i /\ Len(left) + Len(after) = L + 1
      BY <1>1, <1>3, <2>1
    <3>3. QED
      BY <3>1, <3>2
  <2>3. ASSUME NEW k \in (i + 1)..(L + 1)
        PROVE  after[k - i] = list[k - 1] /\ k \in 1..(L + 1) /\ ~(k <= i)
    <3>1. k - i \in 1..(L - i + 1) /\ i + (k - i) - 1 = k - 1
      BY <1>1
    <3>2. QED
      BY <3>1, <1>1, <1>3
  <2>4. new = left \o after
    BY DEF left
  <2> HIDE DEF new
  <2>5. QED
    BY <2>1, <2>2, <2>3, <2>4, <1>1
<1>5. InsertAt(list, i, mw) = new
  BY DEF InsertAt, before, after
<1> HIDE DEF new
<1>6. SubSeq(new, 1, i - 1) = before
  <2>1. \A k \in 1..(i - 1) : new[k] \in S
    BY <1>1, <1>4
  <2>2. SubSeq(new, 1, i - 1) \in Seq(S)
        /\ Len(SubSeq(new, 1, i - 1)) = (IF 1 <= i - 1 THEN (i - 1) - 1 + 1 ELSE 0)
        /\ \A k \in 1..((i - 1) - 1 + 1) : SubSeq(new, 1, i - 1)[k] = new[1 + k - 1]
    BY <2>1, <1>1, SubSeqProperties
  <2> DEFINE s == SubSeq(new, 1, i - 1)
  <2> HIDE DEF s
  <2>3. s \in Seq(S) /\ Len(s) = Len(before) /\ \A k \in 1..Len(s) : s[k] = before[k]
    BY <2>2, <1>1, <1>2, <1>4 DEF s
  <2>4. s = before
    BY <2>3, <1>2, SeqEqual
  <2>5. QED
    BY <2>4 DEF s
<1>7. SubSeq(new, i + 1, Len(new)) = after
  <2>1. \A k \in (i + 1)..(L + 1) : new[k] \in S
    BY <1>1, <1>4
  <2> DEFINE s == SubSeq(new, i + 1, L + 1)
  <2>2. s \in Seq(S) /\ Len(s) = (IF i + 1 <= L + 1 THEN (L + 1) - (i + 1) + 1 ELSE 0)
        /\ \A k \in 1..((L + 1) - (i + 1) + 1) : s[k] = new[(i + 1) + k - 1]
    BY <2>1, <1>1, SubSeqProperties
  <2> HIDE DEF s
  <2>3. s \in Seq(S) /\ Len(s) = L - i + 1
    BY <2>2, <1>1
  <2>4. ASSUME NEW k \in 1..(L - i + 1)
        PROVE  s[k] = after[k]
    <3>1. s[k] = new[i + k]
      <4>1. (i + 1) + k - 1 = i + k /\ k \in 1..((L + 1) - (i + 1) + 1)
        BY <1>1
      <4>2. s[k] = new[(i + 1) + k - 1]
        BY <4>1, <2>2
      <4>3. QED
        BY <4>1, <4>2
    <3>2. i + k \in (i + 1)..(L + 1)
      BY <1>1
    <3>3. QED
      BY <3>1, <3>2, <1>1, <1>3, <1>4
  <2>5. s = after
    BY <2>3, <2>4, <1>3, SeqEqual
  <2>6. QED
    BY <2>5, <1>4 DEF s
<1>8. before \o after = list
  <2>1. (before \o after) \in Seq(S) /\ Len(before \o after) = L
    BY <1>1, <1>2, <1>3
  <2>2. ASSUME NEW k \in 1..L
        PROVE  (before \o after)[k] = list[k]
    <3>1. (before \o after)[k] = IF k <= i - 1 THEN before[k] ELSE after[k - (i - 1)]
      <4>1. \A n \in 1..(Len(before) + Len(after)) : (before \o after)[n] =
                IF n <= Len(before) THEN before[n] ELSE after[n - Len(before)]
        BY <1>2, <1>3, ConcatProperties
      <4>2. k \in 1..(Len(before) + Len(after))
        BY <1>1, <1>2, <1>3
      <4>3. QED
        BY <4>1, <4>2, <1>2
    <3>2. CASE k <= i - 1
      BY <3>1, <3>2, <1>1, <1>2
    <3>3. CASE ~(k <= i - 1)
      <4>1. k - (i - 1) \in 1..(L - i + 1) /\ i + (k - (i - 1)) - 1 = k
        BY <3>3, <1>1
      <4>2. QED
        BY <4>1, <3>1, <3>3, <1>3
    <3>4. QED
      BY <3>2, <3>3
  <2> DEFINE s == before \o after
  <2> HIDE DEF s
  <2>3. s \in Seq(S) /\ Len(s) = Len(list) /\ \A k \in 1..Len(s) : s[k] = list[k]
    BY <2>1, <2>2 DEF s
  <2>4. s = list
    BY <2>3, SeqEqual
  <2>5. QED
    BY <2>4 DEF s
<1>9. RemoveAt(new, i) = list
  BY <1>6, <1>7, <1>8 DEF RemoveAt
<1>10. QED
  BY <1>4, <1>5, <1>9, <1>1

\* Adding is inserting after the last one.
LEMMA AddedShape ==
    ASSUME NEW S, NEW list \in Seq(S), NEW mw \in S
    PROVE  Add(list, mw) = InsertAt(list, Len(list) + 1, mw)
<1> DEFINE L == Len(list)
<1>1. L \in Nat /\ L + 1 - 1 = L /\ L < L + 1
  OBVIOUS
<1>2. SubSeq(list, 1, L + 1 - 1) = list
  BY <1>1, SubSeqFull
<1>3. SubSeq(list, L + 1, L) = <<>>
  BY <1>1, SubSeqEmpty
<1>4. list \o <<mw>> \o <<>> = Append(list, mw)
  OBVIOUS
<1>5. QED
  BY <1>2, <1>3, <1>4 DEF Add, InsertAt

\* position finds the outermost middleware of the name, if there is one.
LEMMA PositionShape ==
    ASSUME NEW S, NEW list \in Seq(S), NEW name
    PROVE  /\ Position(list, name) \in 0..Len(list)
           /\ Position(list, name) = 0 <=> \A k \in 1..Len(list) : list[k].name # name
           /\ Position(list, name) # 0 =>
                 /\ list[Position(list, name)].name = name
                 /\ \A k \in 1..(Position(list, name) - 1) : list[k].name # name
<1> DEFINE I == {k \in 1..Len(list) : list[k].name = name}
<1>1. Position(list, name) = IF I # {} THEN Min(I) ELSE 0
  BY DEF Position, SelectInSeq
<1>2. Len(list) \in Nat
  OBVIOUS
<1>3. CASE I = {}
  BY <1>1, <1>2, <1>3
<1>4. CASE I # {}
  <2> DEFINE Below == {n \in Nat : \A k \in I : n <= k}
  <2>1. \E x \in I : \A y \in I : x <= y
    <3> SUFFICES ASSUME \A x \in I : \E y \in I : ~(x <= y) PROVE FALSE
      OBVIOUS
    <3>1. 0 \in Below
      OBVIOUS
    <3>2. ASSUME NEW n \in Nat, n \in Below
          PROVE  n + 1 \in Below
      <4>1. \A k \in I : k \in Nat /\ n <= k
        BY <3>2
      <4>2. n \notin I
        BY <4>1
      <4>3. QED
        BY <4>1, <4>2
    <3>3. Nat \subseteq Below
      <4> HIDE DEF Below
      <4> QED BY <3>1, <3>2, NatSetInduction
    <3>4. PICK k \in I : TRUE
      BY <1>4
    <3>5. k \in Nat /\ k + 1 \in Nat
      BY <3>4
    <3>6. k + 1 \in Below
      <4> HIDE DEF Below
      <4> QED BY <3>3, <3>5
    <3>7. QED
      BY <3>4, <3>5, <3>6
  <2>2. Min(I) \in I /\ \A y \in I : Min(I) <= y
    <3> HIDE DEF I
    <3> QED BY <2>1 DEF Min
  <2> DEFINE p == Position(list, name)
  <2>3. p = Min(I)
    BY <1>1, <1>4
  <2>4. p \in I /\ \A y \in I : p <= y
    BY <2>2, <2>3
  <2> HIDE DEF p
  <2>5. p \in 1..Len(list) /\ list[p].name = name
    BY <2>4
  <2>6. \A k \in 1..(p - 1) : list[k].name # name
    BY <2>4, <2>5, <1>2
  <2>7. QED
    BY <2>5, <2>6, <1>2 DEF p
<1>5. QED
  BY <1>3, <1>4

\* What each edit makes of a list of middlewares, told by the positions in it.
LEMMA EditShape ==
    ASSUME NEW S, NEW list \in Seq(S), NEW mw \in S, NEW name
    PROVE  LET p == Position(list, name) IN
           /\ Add(list, mw) = InsertAt(list, Len(list) + 1, mw)
           /\ Prepend(list, mw) = InsertAt(list, 1, mw)
           /\ InsertBefore(list, name, mw) = InsertAt(list, IF p = 0 THEN 1 ELSE p, mw)
           /\ InsertAfter(list, name, mw) = InsertAt(list, IF p = 0 THEN Len(list) + 1 ELSE p + 1, mw)
           /\ {Len(list) + 1, 1, IF p = 0 THEN 1 ELSE p, IF p = 0 THEN Len(list) + 1 ELSE p + 1}
                 \subseteq 1..(Len(list) + 1)
           /\ {Add(list, mw), Prepend(list, mw), InsertBefore(list, name, mw),
               InsertAfter(list, name, mw), RemoveNamed(list, name)} \subseteq Seq(S)
<1> DEFINE p == Position(list, name)
<1> DEFINE L == Len(list)
<1>1. L \in Nat /\ p \in 0..L
  BY PositionShape
<1>2. Add(list, mw) = InsertAt(list, L + 1, mw) /\ Prepend(list, mw) = InsertAt(list, 1, mw)
  BY AddedShape DEF Prepend
<1>3. InsertBefore(list, name, mw) = InsertAt(list, IF p = 0 THEN 1 ELSE p, mw)
  BY DEF InsertBefore
<1>4. InsertAfter(list, name, mw) = InsertAt(list, IF p = 0 THEN L + 1 ELSE p + 1, mw)
  BY DEF InsertAfter
<1>5. {L + 1, 1, IF p = 0 THEN 1 ELSE p, IF p = 0 THEN L + 1 ELSE p + 1} \subseteq 1..(L + 1)
  <2> HIDE DEF p, L
  <2>1. QED
    BY <1>1
<1>6. \A i \in 1..(L + 1) : InsertAt(list, i, mw) \in Seq(S)
  BY InsertedShape
<1>7. RemoveNamed(list, name) \in Seq(S)
  BY RemovedShape
<1>8. {Add(list, mw), Prepend(list, mw), InsertBefore(list, name, mw),
       InsertAfter(list, name, mw), RemoveNamed(list, name)} \subseteq Seq(S)
  BY <1>2, <1>3, <1>4, <1>5, <1>6, <1>7
<1>9. QED
  BY <1>2, <1>3, <1>4, <1>5, <1>8

\* The list is what says how the middlewares are nested.
LEMMA ListNests ==
    ASSUME chain \in Seq(Middlewares)
    PROVE  NestingAsRegistered
<1> DEFINE old == Wrap(chain)
<1> DEFINE Inserted(new, mw, i) == i \in DOMAIN new /\ new[i] = mw /\ old = RemoveAt(new, i)
<1> DEFINE Outermost(name) == {i \in DOMAIN old : old[i].name = name
                                  /\ \A k \in 1..(i - 1) : old[k].name # name}
<1> DEFINE Places(name, otherwise, offset) ==
              IF Outermost(name) = {} THEN {otherwise} ELSE {i + offset : i \in Outermost(name)}
<1>1. old = chain /\ DOMAIN chain = 1..Len(chain) /\ Len(chain) \in Nat
  BY WrapIsList
<1> HIDE DEF old
<1>2. ASSUME NEW mw \in Middlewares, NEW new \in Seq(Middlewares), NEW i \in 1..(Len(chain) + 1),
             new = InsertAt(chain, i, mw)
      PROVE  Inserted(Wrap(new), mw, i)
  <2>1. Wrap(new) = new
    BY <1>2, WrapIsList
  <2>2. i \in DOMAIN InsertAt(chain, i, mw) /\ InsertAt(chain, i, mw)[i] = mw
        /\ RemoveAt(InsertAt(chain, i, mw), i) = chain
    BY <1>2, InsertedShape
  <2>3. QED
    BY <1>1, <1>2, <2>1, <2>2
<1>3. ASSUME NEW name
      PROVE  Outermost(name) = IF Position(chain, name) = 0 THEN {} ELSE {Position(chain, name)}
  <2> DEFINE p == Position(chain, name)
  <2>1. /\ p \in 0..Len(chain)
        /\ p = 0 <=> \A k \in 1..Len(chain) : chain[k].name # name
        /\ p # 0 => chain[p].name = name /\ \A k \in 1..(p - 1) : chain[k].name # name
    BY PositionShape
  <2> HIDE DEF p
  <2>2. CASE p = 0
    BY <2>1, <2>2, <1>1 DEF p
  <2>3. CASE p # 0
    <3>1. p \in Outermost(name)
      BY <2>1, <2>3, <1>1
    <3>2. ASSUME NEW i \in Outermost(name)
          PROVE  i = p
      <4>1. i \in 1..Len(chain) /\ p \in 1..Len(chain)
        BY <2>1, <2>3, <1>1
      <4>2. ~(i < p)
        <5>1. i < p => i \in 1..(p - 1)
          BY <4>1
        <5>2. QED
          BY <5>1, <2>1, <2>3, <1>1
      <4>3. ~(p < i)
        <5>1. p < i => p \in 1..(i - 1)
          BY <4>1
        <5>2. QED
          BY <5>1, <2>1, <2>3, <1>1
      <4>4. QED
        BY <4>1, <4>2, <4>3
    <3>3. QED
      BY <3>1, <3>2, <2>3 DEF p
  <2>4. QED
    BY <2>2, <2>3
<1> HIDE DEF Outermost, Inserted
<1>4. ASSUME NEW mw \in Middlewares, NEW name \in Names
      PROVE  /\ Inserted(Wrap(Add(chain, mw)), mw, Len(chain) + 1)
             /\ Inserted(Wrap(Prepend(chain, mw)), mw, 1)
             /\ \A i \in Places(name, 1, 0) : Inserted(Wrap(InsertBefore(chain, name, mw)), mw, i)
             /\ \A i \in Places(name, Len(chain) + 1, 1) :
                   Inserted(Wrap(InsertAfter(chain, name, mw)), mw, i)
  <2> DEFINE p == Position(chain, name)
  <2>1. /\ Add(chain, mw) = InsertAt(chain, Len(chain) + 1, mw)
        /\ Prepend(chain, mw) = InsertAt(chain, 1, mw)
        /\ InsertBefore(chain, name, mw) = InsertAt(chain, IF p = 0 THEN 1 ELSE p, mw)
        /\ InsertAfter(chain, name, mw) = InsertAt(chain, IF p = 0 THEN Len(chain) + 1 ELSE p + 1, mw)
        /\ {Len(chain) + 1, 1, IF p = 0 THEN 1 ELSE p, IF p = 0 THEN Len(chain) + 1 ELSE p + 1}
              \subseteq 1..(Len(chain) + 1)
        /\ {Add(chain, mw), Prepend(chain, mw), InsertBefore(chain, name, mw),
            InsertAfter(chain, name, mw), RemoveNamed(chain, name)} \subseteq Seq(Middlewares)
    BY EditShape
  <2>2. p \in 0..Len(chain)
    BY PositionShape
  <2>3. Outermost(name) = IF p = 0 THEN {} ELSE {p}
    BY <1>3
  <2> HIDE DEF p
  <2>4. \A i \in Places(name, 1, 0) : i = IF p = 0 THEN 1 ELSE p
    BY <2>2, <2>3
  <2>5. \A i \in Places(name, Len(chain) + 1, 1) : i = IF p = 0 THEN Len(chain) + 1 ELSE p + 1
    BY <2>2, <2>3
  <2> HIDE DEF Places
  <2>6. Inserted(Wrap(Add(chain, mw)), mw, Len(chain) + 1) /\ Inserted(Wrap(Prepend(chain, mw)), mw, 1)
    BY <2>1, <1>2
  <2>7. Inserted(Wrap(InsertBefore(chain, name, mw)), mw, IF p = 0 THEN 1 ELSE p)
    BY <2>1, <1>2
  <2>8. Inserted(Wrap(InsertAfter(chain, name, mw)), mw, IF p = 0 THEN Len(chain) + 1 ELSE p + 1)
    BY <2>1, <1>2
  <2>9. QED
    BY <2>4, <2>5, <2>6, <2>7, <2>8
<1>5. ASSUME NEW name \in Names
      PROVE  /\ Len(Wrap(RemoveNamed(chain, name))) = Cardinality(Kept(old, name, Len(old)))
             /\ \A i \in Kept(old, name, Len(old)) :
                   Wrap(RemoveNamed(chain, name))[Cardinality(Kept(old, name, i))] = old[i]
  <2>1. /\ RemoveNamed(chain, name) \in Seq(Middlewares)
        /\ Len(RemoveNamed(chain, name)) = Cardinality(Kept(chain, name, Len(chain)))
        /\ \A i \in Kept(chain, name, Len(chain)) :
              RemoveNamed(chain, name)[Cardinality(Kept(chain, name, i))] = chain[i]
    BY RemovedShape
  <2>2. Wrap(RemoveNamed(chain, name)) = RemoveNamed(chain, name)
    BY <2>1, WrapIsList
  <2>3. QED
    BY <2>1, <2>2, <1>1
<1>6. QED
  BY <1>4, <1>5 DEF NestingAsRegistered, Inserted, Places, Outermost, old

-----------------------------------------------------------------------------
(* The invariant of a run *)

Recorded == UNION {Observers[kind].started \cup Observers[kind].ok \cup Observers[kind].failed :
                      kind \in DOMAIN Observers}

KeyMaps == UNION {[ids -> Keys] : ids \in SUBSET KeyIds}

Metas == [encodings : BOOLEAN, keyId : KeyIds \cup {None},
          legacy : BOOLEAN, legacyKeyId : KeyIds \cup {None}]

TypeOK ==
    /\ chain \in Seq(Middlewares)
    /\ handlers \in {None} \cup HandlerKinds
    /\ changes \in Nat
    /\ provider \in [keys : KeyMaps, current : KeyIds]
    /\ job \in [args : Seq(Keys), meta : Metas]
    /\ handler \in {None} \cup HandlerKinds
    /\ frames \in Seq(Middlewares)
    /\ phase \in {"queued", "found", "in", "handler", "out", "over", "unwound"}
    /\ depth \in Nat /\ depth <= Len(frames)
    /\ result \in Results \cup {None}
    /\ signals \in [DOMAIN frames -> SUBSET Recorded]
    /\ dropped \subseteq DOMAIN frames
    /\ refused \subseteq {"encryption", "typed"}

\* How far a run of the wrapped handler is in each phase.
PhaseInv ==
    /\ phase \in {"queued", "found"} => frames = <<>> /\ depth = 0 /\ refused = {} /\ ctx = job
    /\ phase = "handler" => depth = Len(frames)
    /\ phase = "over" => depth = 0

Outcome(i) == IF result = "ok" THEN Observers[frames[i].kind].ok ELSE Observers[frames[i].kind].failed

Started(i) == Observers[frames[i].kind].started

\* What frame i has recorded: its start while it is entered; when it is left, an
\* outcome too, the one that is passed on outside if only observers are there, or
\* no more if a timeout or a closure outside of it has dropped it.
FrameInv(i) ==
    /\ phase \in {"in", "handler", "out"} /\ i <= depth => signals[i] = Started(i)
    /\ phase \in {"in", "handler"} /\ i > depth => signals[i] = {}
    /\ phase \in {"out", "over"} /\ i > depth =>
          /\ \/ signals[i] \in {{}, Started(i) \cup Observers[frames[i].kind].ok,
                                Started(i) \cup Observers[frames[i].kind].failed}
             \/ \E k \in dropped : k < i
          /\ (\A k \in 1..i : Observes(frames[k])) => signals[i] = Started(i) \cup Outcome(i)

SignalsInv == \A i \in DOMAIN frames : Observes(frames[i]) => FrameInv(i)

KeptKey ==
    /\ Len(job.args) = 1
    /\ job.meta.encodings
    /\ Opens(job.args, GetKey(provider, job.meta.keyId))

Decrypts(i) == frames[i].kind = "encryption"

\* On the way in, the frames have before them the job as it was enqueued, or the
\* plaintext if one of those outside has decrypted it.
CipherInv ==
    KeptKey =>
        /\ "encryption" \notin refused
        /\ (\E i \in DOMAIN frames : Decrypts(i)) => "typed" \notin refused
        /\ phase \in {"in", "handler"} =>
              ctx = IF \E i \in 1..depth : Decrypts(i) THEN Queued(<<>>, NoMeta) ELSE job

IInv == TypeOK /\ PhaseInv /\ SignalsInv /\ CipherInv

-----------------------------------------------------------------------------
(* The crate's middlewares and the keys *)

\* Every observer has a start to record, and each of its outcomes is something else.
LEMMA ObserverShape ==
    /\ \A kind \in DOMAIN Observers :
          LET o == Observers[kind] IN
          /\ o.started \subseteq Recorded /\ o.ok \subseteq Recorded /\ o.failed \subseteq Recorded
          /\ o.started # {} /\ o.started \cup o.ok # o.started /\ o.started \cup o.failed # o.started
    /\ \A mw : mw.kind \in {"timeout", "encryption", "fn"} => ~Observes(mw)
<1>1. DOMAIN Observers = {"metrics", "logging", "tracing", "otelTracing", "otelMetrics"}
  BY DEF Observers
<1>2. ASSUME NEW kind \in DOMAIN Observers
      PROVE  /\ Observers[kind].started # {}
             /\ Observers[kind].started \cup Observers[kind].ok # Observers[kind].started
             /\ Observers[kind].started \cup Observers[kind].failed # Observers[kind].started
  <2>1. CASE kind = "metrics"
    BY <2>1 DEF Observers, MetricsMiddleware
  <2>2. CASE kind = "logging"
    BY <2>2 DEF Observers, LoggingMiddleware
  <2>3. CASE kind = "tracing"
    BY <2>3 DEF Observers, TracingMiddleware
  <2>4. CASE kind = "otelTracing"
    BY <2>4 DEF Observers, OtelTracingMiddleware
  <2>5. CASE kind = "otelMetrics"
    BY <2>5 DEF Observers, OtelMetricsMiddleware
  <2>6. QED
    BY <1>1, <2>1, <2>2, <2>3, <2>4, <2>5
<1>3. ASSUME NEW kind \in DOMAIN Observers
      PROVE  /\ Observers[kind].started \subseteq Recorded
             /\ Observers[kind].ok \subseteq Recorded
             /\ Observers[kind].failed \subseteq Recorded
  BY DEF Recorded
<1>4. \A mw : mw.kind \in {"timeout", "encryption", "fn"} => ~Observes(mw)
  BY <1>1 DEF Observes
<1>5. QED
  BY <1>2, <1>3, <1>4

\* A provider has the material it was given last for an id, and what it had for the others.
LEMMA ProviderShape ==
    ASSUME NEW id \in KeyIds, NEW key \in Keys
    PROVE  /\ NewProvider(id, key) \in [keys : KeyMaps, current : KeyIds]
           /\ NewProvider(id, key).current = id
           /\ GetKey(NewProvider(id, key), id) = key
           /\ \A p \in [keys : KeyMaps, current : KeyIds] :
                 AddKey(p, id, key) \in [keys : KeyMaps, current : KeyIds]
<1>1. [i \in {id} |-> key] \in KeyMaps
  <2>1. {id} \in SUBSET KeyIds /\ [i \in {id} |-> key] \in [{id} -> Keys]
    OBVIOUS
  <2>2. QED
    BY <2>1 DEF KeyMaps
<1>2. NewProvider(id, key) \in [keys : KeyMaps, current : KeyIds] /\ NewProvider(id, key).current = id
  BY <1>1 DEF NewProvider
<1>3. GetKey(NewProvider(id, key), id) = key
  BY DEF NewProvider, GetKey
<1>4. ASSUME NEW p \in [keys : KeyMaps, current : KeyIds]
      PROVE  AddKey(p, id, key) \in [keys : KeyMaps, current : KeyIds]
  <2> DEFINE keys == [i \in DOMAIN p.keys \cup {id} |-> IF i = id THEN key ELSE p.keys[i]]
  <2>1. PICK ids \in SUBSET KeyIds : p.keys \in [ids -> Keys]
    BY DEF KeyMaps
  <2>2. keys \in [ids \cup {id} -> Keys] /\ ids \cup {id} \in SUBSET KeyIds
    BY <2>1
  <2>3. keys \in KeyMaps
    BY <2>2 DEF KeyMaps
  <2>4. AddKey(p, id, key) = [p EXCEPT !.keys = keys]
    BY DEF AddKey
  <2> HIDE DEF keys
  <2>5. QED
    BY <2>3, <2>4
<1>5. QED
  BY <1>2, <1>3, <1>4

\* Encrypting adds a layer and marks the job; a job in the queue stays well-formed.
LEMMA EncryptedShape ==
    ASSUME NEW j \in [args : Seq(Keys), meta : Metas], NEW id \in KeyIds, NEW key \in Keys
    PROVE  EncryptJob(NewProvider(id, key), j) \in [args : Seq(Keys), meta : Metas]
<1> DEFINE p == NewProvider(id, key)
<1>1. p.current = id /\ GetKey(p, id) = key
  BY ProviderShape
<1> HIDE DEF p
<1>2. Append(j.args, key) \in Seq(Keys)
  OBVIOUS
<1>3. [j.meta EXCEPT !.encodings = TRUE, !.keyId = id] \in Metas
  BY DEF Metas
<1>4. EncryptJob(p, j) = [args |-> Append(j.args, key),
                          meta |-> [j.meta EXCEPT !.encodings = TRUE, !.keyId = id]]
  BY <1>1 DEF EncryptJob, Encrypt
<1>5. QED
  BY <1>2, <1>3, <1>4 DEF p

\* With a kept key the job can be decrypted, and is, into the plaintext; the
\* plaintext is passed on as it is.
LEMMA KeptKeyOpens ==
    ASSUME TypeOK, KeptKey
    PROVE  /\ ~Undecryptable(provider, job)
           /\ DecryptJob(provider, job) = Queued(<<>>, NoMeta)
           /\ ~Undecryptable(provider, Queued(<<>>, NoMeta))
           /\ DecryptJob(provider, Queued(<<>>, NoMeta)) = Queued(<<>>, NoMeta)
<1> DEFINE key == GetKey(provider, job.meta.keyId)
<1>1. job.args \in Seq(Keys) /\ Len(job.args) = 1 /\ job.meta \in Metas /\ job.meta.encodings
      /\ job.args[Len(job.args)] = key
  BY DEF TypeOK, KeptKey, Opens
<1>2. key \in Keys /\ key # None
  BY <1>1, NoneAssumption
<1>3. job.meta.keyId # None
  <2>1. PICK ids \in SUBSET KeyIds : provider.keys \in [ids -> Keys]
    BY DEF TypeOK, KeyMaps
  <2>2. None \notin DOMAIN provider.keys
    BY <2>1, NoneAssumption
  <2>3. QED
    BY <1>2, <2>2 DEF GetKey
<1>4. IsEncrypted(job.meta) /\ KeyIdOf(job.meta) = job.meta.keyId
  BY <1>1, <1>3 DEF IsEncrypted, KeyIdOf
<1>5. ~Undecryptable(provider, job)
  BY <1>2, <1>4 DEF Undecryptable, KeptKey
<1>6. Decrypt(job.args, key) = <<>>
  <2>1. SubSeq(job.args, 1, 1 - 1) = <<>>
    BY SubSeqEmpty
  <2>2. QED
    BY <1>1, <2>1 DEF Decrypt
<1>7. DecryptJob(provider, job) = Queued(<<>>, NoMeta)
  BY <1>4, <1>6 DEF DecryptJob, Queued
<1>8. Queued(<<>>, NoMeta).meta = NoMeta /\ ~IsEncrypted(NoMeta)
  BY DEF Queued, NoMeta, IsEncrypted
<1>9. QED
  BY <1>5, <1>7, <1>8 DEF Undecryptable, DecryptJob

-----------------------------------------------------------------------------
(* What each kind of step does to the invariant *)

\* A job is in the queue, in plain or as an older producer encrypted it.
LEMMA InitEstablishes == Init => IInv
<1> SUFFICES ASSUME Init PROVE IInv
  OBVIOUS
<1>1. <<>> \in Seq(Middlewares) /\ DOMAIN <<>> = {} /\ Len(<<>>) = 0
  OBVIOUS
<1>2. chain = <<>> /\ frames = <<>> /\ depth = 0 /\ phase = "queued" /\ result = None
      /\ signals = <<>> /\ dropped = {} /\ refused = {} /\ ctx = job /\ handler = None /\ changes = 0
      /\ handlers \in {None} \cup HandlerKinds
  BY DEF Init
<1>3. provider \in [keys : KeyMaps, current : KeyIds]
  BY ProviderShape DEF Init
<1>4. job \in [args : Seq(Keys), meta : Metas]
  <2>1. NoMeta \in Metas
    BY DEF NoMeta, Metas
  <2>2. \A id \in KeyIds : LegacyMeta(id) \in Metas
    BY <2>1 DEF LegacyMeta, Metas
  <2>3. <<>> \in Seq(Keys) /\ \A key \in Keys : <<key>> \in Seq(Keys)
    OBVIOUS
  <2>4. job \in Enqueued
    BY DEF Init
  <2>5. job = Queued(<<>>, NoMeta) \/ \E args \in {<<>>} \cup {<<key>> : key \in Keys}, id \in KeyIds :
            job = Queued(args, LegacyMeta(id))
    BY <2>4 DEF Enqueued
  <2>6. ASSUME NEW args \in Seq(Keys), NEW meta \in Metas
        PROVE  Queued(args, meta) \in [args : Seq(Keys), meta : Metas]
    BY DEF Queued
  <2>7. QED
    BY <2>1, <2>2, <2>3, <2>5, <2>6
<1>5. signals \in [DOMAIN frames -> SUBSET Recorded]
  BY <1>1, <1>2
<1>6. TypeOK
  BY <1>1, <1>2, <1>3, <1>4, <1>5 DEF TypeOK
<1>7. PhaseInv /\ SignalsInv /\ CipherInv
  BY <1>1, <1>2 DEF PhaseInv, SignalsInv, CipherInv
<1>8. QED
  BY <1>6, <1>7 DEF IInv

\* Edits of the list and registrations leave the run alone.
LEMMA EditsKeep ==
    ASSUME IInv, EditList \/ \E kind \in HandlerKinds : Register(kind)
    PROVE  IInv'
<1>1. chain' \in Seq(Middlewares) /\ handlers' \in {None} \cup HandlerKinds
      /\ changes' = changes + 1 /\ UNCHANGED <<jobVars, runVars>>
  <2>1. CASE EditList
    <3>1. chain \in Seq(Middlewares) /\ handlers \in {None} \cup HandlerKinds
      BY DEF IInv, TypeOK
    <3>2. ASSUME NEW mw \in Middlewares, NEW name
          PROVE  {Add(chain, mw), InsertBefore(chain, name, mw), InsertAfter(chain, name, mw)}
                    \subseteq Seq(Middlewares)
      BY <3>1, EditShape
    <3>3. ASSUME NEW name
          PROVE  RemoveNamed(chain, name) \in Seq(Middlewares)
      BY <3>1, RemovedShape
    <3>4. \E list \in Seq(Middlewares) : Edit(list)
      BY <2>1, <3>2, <3>3 DEF EditList
    <3>5. QED
      BY <3>1, <3>4 DEF Edit
  <2>2. CASE \E kind \in HandlerKinds : Register(kind)
    BY <2>2 DEF Register, IInv, TypeOK
  <2>3. QED
    BY <2>1, <2>2
<1>2. UNCHANGED <<provider, job, ctx, handler, frames, phase, depth, result, signals, dropped, refused>>
  BY <1>1 DEF jobVars, runVars
<1>3. TypeOK'
  BY <1>1, <1>2 DEF IInv, TypeOK
<1>4. PhaseInv' /\ SignalsInv'
  BY <1>2 DEF IInv, PhaseInv, SignalsInv, FrameInv, Started, Outcome
<1>5. CipherInv'
  BY <1>2 DEF IInv, CipherInv, KeptKey, Decrypts
<1>6. QED
  BY <1>3, <1>4, <1>5 DEF IInv

\* While the job is in the queue nothing of the run is there yet.
LEMMA QueueKeeps ==
    ASSUME IInv, NEW id \in KeyIds, NEW key \in Keys, EncryptStep(id, key) \/ AddKeyStep(id, key)
    PROVE  IInv'
<1>1. phase = "queued" /\ UNCHANGED <<chain, handlers, handler, frames, phase, depth, result,
                                     signals, dropped, refused>>
  BY DEF EncryptStep, AddKeyStep, listVars, runVars
<1>2. frames = <<>> /\ depth = 0 /\ refused = {} /\ ctx = job
  BY <1>1 DEF IInv, PhaseInv
<1>3. ctx' = job'
  BY <1>2 DEF EncryptStep, AddKeyStep, runVars
<1>4. changes' \in Nat /\ job' \in [args : Seq(Keys), meta : Metas]
      /\ provider' \in [keys : KeyMaps, current : KeyIds]
  <2>1. changes \in Nat /\ job \in [args : Seq(Keys), meta : Metas]
        /\ provider \in [keys : KeyMaps, current : KeyIds]
    BY DEF IInv, TypeOK
  <2>2. CASE EncryptStep(id, key)
    <3>1. job' = EncryptJob(NewProvider(id, key), job) /\ UNCHANGED <<changes, provider>>
      BY <2>2 DEF EncryptStep, listVars
    <3>2. QED
      BY <2>1, <3>1, EncryptedShape
  <2>3. CASE AddKeyStep(id, key)
    <3>1. provider' = AddKey(provider, id, key) /\ changes' = changes + 1 /\ UNCHANGED job
      BY <2>3 DEF AddKeyStep
    <3>2. QED
      BY <2>1, <3>1, ProviderShape
  <2>4. QED
    BY <2>2, <2>3
<1>5. TypeOK'
  BY <1>1, <1>4 DEF IInv, TypeOK
<1>6. DOMAIN <<>> = {}
  OBVIOUS
<1>7. PhaseInv' /\ SignalsInv' /\ CipherInv'
  BY <1>1, <1>2, <1>3, <1>6 DEF PhaseInv, SignalsInv, CipherInv
<1>8. QED
  BY <1>5, <1>7 DEF IInv

\* The job is found a handler, or is reported for want of one, and the list of the
\* moment is wrapped around it.
LEMMA StartKeeps ==
    ASSUME IInv, LookUp \/ Start
    PROVE  IInv'
<1>1. frames = <<>> /\ depth = 0 /\ refused = {} /\ ctx = job
  BY DEF LookUp, Start, IInv, PhaseInv
<1>2. DOMAIN <<>> = {} /\ Len(<<>>) = 0
  OBVIOUS
<1>3. CASE LookUp
  <2>1. /\ handler' \in {None} \cup HandlerKinds /\ phase' \in {"over", "found"}
        /\ result' \in Results \cup {None}
        /\ UNCHANGED <<chain, handlers, changes, provider, job, ctx, frames, depth, signals,
                       dropped, refused>>
    BY <1>3 DEF LookUp, IInv, TypeOK, Results, listVars, jobVars
  <2>2. TypeOK'
    BY <2>1 DEF IInv, TypeOK
  <2>3. PhaseInv' /\ SignalsInv' /\ CipherInv'
    BY <2>1, <1>1, <1>2 DEF PhaseInv, SignalsInv, CipherInv
  <2>4. QED
    BY <2>2, <2>3 DEF IInv
<1>4. CASE Start
  <2>1. /\ frames' = Wrap(chain) /\ phase' = "in" /\ signals' = [i \in DOMAIN frames' |-> {}]
        /\ UNCHANGED <<chain, handlers, changes, provider, job, ctx, handler, depth, result,
                       dropped, refused>>
    BY <1>4 DEF Start, listVars, jobVars
  <2>2. frames' \in Seq(Middlewares)
    <3>1. chain \in Seq(Middlewares)
      BY DEF IInv, TypeOK
    <3>2. QED
      BY <2>1, <3>1, WrapIsList
  <2>3. dropped = {}
    BY <1>1, <1>2 DEF IInv, TypeOK
  <2>4. Len(frames') \in Nat /\ DOMAIN frames' = 1..Len(frames')
    BY <2>2
  <2>5. TypeOK'
    <3>1. signals' \in [DOMAIN frames' -> SUBSET Recorded]
      BY <2>1
    <3>2. depth' \in Nat /\ depth' <= Len(frames')
      BY <2>1, <2>4, <1>1
    <3>3. QED
      BY <3>1, <3>2, <2>1, <2>2, <2>3 DEF IInv, TypeOK
  <2>6. PhaseInv'
    BY <2>1 DEF PhaseInv
  <2>7. SignalsInv'
    <3>1. ASSUME NEW i \in DOMAIN frames'
          PROVE  signals'[i] = {} /\ ~(i <= depth')
      BY <2>1, <2>4, <1>1
    <3>2. QED
      BY <3>1, <2>1 DEF SignalsInv, FrameInv
  <2>8. CipherInv'
    <3>1. 1..depth' = {}
      BY <2>1, <1>1
    <3>2. QED
      BY <3>1, <2>1, <1>1 DEF CipherInv
  <2>9. QED
    BY <2>5, <2>6, <2>7, <2>8 DEF IInv
<1>5. QED
  BY <1>3, <1>4

\* A frame is entered: an observer records its start, the encryption middleware
\* decrypts, and the next frame is called.
LEMMA EnterKeeps ==
    ASSUME IInv, phase = "in", depth < Len(frames), CallNext, UNCHANGED refused,
           signals' = IF Observes(frames[depth + 1])
                      THEN [signals EXCEPT ![depth + 1] = Started(depth + 1)] ELSE signals,
           ctx' = IF Decrypts(depth + 1) THEN DecryptJob(provider, ctx) ELSE ctx
    PROVE  IInv'
<1>1. /\ depth' = depth + 1
      /\ UNCHANGED <<chain, handlers, changes, provider, job, handler, frames, phase, result,
                     dropped, refused>>
  BY DEF CallNext, listVars, jobVars
<1>2. depth \in Nat /\ Len(frames) \in Nat /\ DOMAIN frames = 1..Len(frames)
      /\ depth + 1 \in DOMAIN frames /\ depth + 1 \in Nat /\ depth + 1 <= Len(frames)
      /\ signals \in [DOMAIN frames -> SUBSET Recorded]
  BY DEF IInv, TypeOK
<1>3. /\ signals' \in [DOMAIN frames -> SUBSET Recorded]
      /\ \A i \in DOMAIN frames : i # depth + 1 => signals'[i] = signals[i]
      /\ Observes(frames[depth + 1]) => signals'[depth + 1] = Started(depth + 1)
  <2>1. CASE Observes(frames[depth + 1])
    <3>1. Started(depth + 1) \subseteq Recorded
      BY <2>1, ObserverShape DEF Observes, Started
    <3>2. QED
      BY <2>1, <3>1, <1>2
  <2>2. CASE ~Observes(frames[depth + 1])
    BY <2>2, <1>2
  <2>3. QED
    BY <2>1, <2>2
<1>4. TypeOK'
  BY <1>1, <1>2, <1>3 DEF IInv, TypeOK
<1>5. PhaseInv'
  BY <1>1 DEF PhaseInv
<1>6. SignalsInv'
  <2>1. ASSUME NEW i \in DOMAIN frames, Observes(frames[i])
        PROVE  FrameInv(i)'
    <3>1. FrameInv(i) /\ i \in Nat
      BY <2>1, <1>2 DEF IInv, SignalsInv
    <3>2. i <= depth + 1 => signals'[i] = Started(i)
      BY <3>1, <2>1, <1>2, <1>3 DEF FrameInv
    <3>3. i > depth + 1 => signals'[i] = {}
      BY <3>1, <1>2, <1>3 DEF FrameInv
    <3>4. Started(i)' = Started(i)
      BY <1>1 DEF Started
    <3>5. QED
      BY <3>2, <3>3, <3>4, <1>1 DEF FrameInv
  <2>2. QED
    BY <2>1, <1>1 DEF SignalsInv
<1>7. CipherInv'
  <2> SUFFICES ASSUME KeptKey PROVE CipherInv'
    <3>1. KeptKey' = KeptKey
      BY <1>1 DEF KeptKey
    <3>2. QED
      BY <3>1 DEF CipherInv
  <2>1. /\ "encryption" \notin refused
        /\ (\E i \in DOMAIN frames : Decrypts(i)) => "typed" \notin refused
        /\ ctx = IF \E i \in 1..depth : Decrypts(i) THEN Queued(<<>>, NoMeta) ELSE job
    BY DEF IInv, CipherInv
  <2>2. DecryptJob(provider, ctx) = Queued(<<>>, NoMeta)
    BY <2>1, KeptKeyOpens DEF IInv
  <2>3. ctx' = IF \E i \in 1..(depth + 1) : Decrypts(i) THEN Queued(<<>>, NoMeta) ELSE job
    <3>1. 1..(depth + 1) = (1..depth) \cup {depth + 1}
      BY <1>2
    <3>2. QED
      BY <2>1, <2>2, <3>1
  <2>4. QED
    BY <2>1, <2>3, <1>1 DEF CipherInv, Decrypts
<1>8. QED
  BY <1>4, <1>5, <1>6, <1>7 DEF IInv

\* A frame returns to the one outside: what is left to show is what the frames have
\* recorded and who has refused the job.
LEMMA ReturnKeeps ==
    ASSUME IInv, NEW d \in Nat, d <= depth, NEW r \in Results \cup {None}, Return(d, r),
           phase \in {"in", "handler", "out"},
           signals' \in [DOMAIN frames -> SUBSET Recorded], dropped' \subseteq DOMAIN frames,
           refused' \subseteq {"encryption", "typed"},
           KeptKey => /\ "encryption" \notin refused'
                      /\ (\E i \in DOMAIN frames : Decrypts(i)) => "typed" \notin refused',
           SignalsInv'
    PROVE  IInv'
<1>1. /\ phase' = "out" /\ depth' = d /\ result' = r
      /\ UNCHANGED <<chain, handlers, changes, provider, job, ctx, handler, frames>>
  BY DEF Return, listVars, jobVars
<1>2. TypeOK'
  <2>1. depth \in Nat /\ depth <= Len(frames) /\ Len(frames) \in Nat
    BY DEF IInv, TypeOK
  <2>2. d <= Len(frames)
    BY <2>1
  <2>3. QED
    BY <1>1, <2>2 DEF IInv, TypeOK
<1>3. PhaseInv'
  BY <1>1 DEF PhaseInv
<1>4. CipherInv'
  BY <1>1 DEF CipherInv, KeptKey, Decrypts
<1>5. QED
  BY <1>2, <1>3, <1>4 DEF IInv

\* The way back begins: at the handler, or at a frame that answers in its place and
\* is no observer.
LEMMA TurnKeeps ==
    ASSUME IInv, phase \in {"in", "handler"}, NEW r \in Results,
           Return(depth, r),
           UNCHANGED <<signals, dropped>>,
           depth < Len(frames) => ~Observes(frames[depth + 1]),
           refused' \subseteq {"encryption", "typed"},
           KeptKey => /\ "encryption" \notin refused'
                      /\ (\E i \in DOMAIN frames : Decrypts(i)) => "typed" \notin refused'
    PROVE  IInv'
<1>1. phase' = "out" /\ depth' = depth /\ result' = r /\ UNCHANGED frames
  BY DEF Return
<1>2. depth \in Nat /\ Len(frames) \in Nat /\ DOMAIN frames = 1..Len(frames)
      /\ depth <= Len(frames)
      /\ signals \in [DOMAIN frames -> SUBSET Recorded] /\ dropped \subseteq DOMAIN frames
  BY DEF IInv, TypeOK
<1>3. SignalsInv'
  <2>1. ASSUME NEW i \in DOMAIN frames, Observes(frames[i])
        PROVE  FrameInv(i)'
    <3>1. FrameInv(i) /\ i \in Nat /\ i >= 1 /\ i <= Len(frames)
      BY <2>1, <1>2 DEF IInv, SignalsInv
    <3>2. i <= depth => signals'[i] = Started(i)
      BY <3>1 DEF FrameInv
    <3>3. i > depth => signals'[i] = {}
      BY <3>1 DEF FrameInv
    <3>4. i > depth => ~ \A k \in 1..i : Observes(frames[k])
      <4> SUFFICES ASSUME i > depth PROVE ~ \A k \in 1..i : Observes(frames[k])
        OBVIOUS
      <4>1. depth < Len(frames) /\ depth + 1 \in 1..i
        BY <3>1, <1>2
      <4>2. QED
        BY <4>1
    <3>5. Started(i)' = Started(i)
      BY <1>1 DEF Started
    <3>6. QED
      BY <3>2, <3>3, <3>4, <3>5, <1>1 DEF FrameInv
  <2>2. QED
    BY <2>1, <1>1 DEF SignalsInv
<1>4. depth \in Nat /\ depth <= depth
  BY <1>2
<1>5. signals' \in [DOMAIN frames -> SUBSET Recorded] /\ dropped' \subseteq DOMAIN frames
  BY <1>2
<1>6. QED
  BY <1>3, <1>4, <1>5, ReturnKeeps

\* A frame is left: an observer records the outcome that it passes on, and the
\* others pass on what they like.
LEMMA LeaveKeeps ==
    ASSUME IInv, phase = "out", depth > 0, NEW r \in Results \cup {None}, Return(depth - 1, r),
           UNCHANGED <<dropped, refused>>,
           IF Observes(frames[depth])
           THEN r = result /\ signals' = [signals EXCEPT ![depth] = @ \cup Outcome(depth)]
           ELSE UNCHANGED signals
    PROVE  IInv'
<1>1. phase' = "out" /\ depth' = depth - 1 /\ result' = r /\ UNCHANGED frames
  BY DEF Return
<1>2. depth \in DOMAIN frames /\ Len(frames) \in Nat /\ DOMAIN frames = 1..Len(frames)
      /\ depth - 1 \in Nat /\ depth - 1 <= depth /\ depth \in Nat
      /\ signals \in [DOMAIN frames -> SUBSET Recorded] /\ dropped \subseteq DOMAIN frames
      /\ refused \subseteq {"encryption", "typed"}
  BY DEF IInv, TypeOK
<1>3. /\ signals' \in [DOMAIN frames -> SUBSET Recorded]
      /\ \A i \in DOMAIN frames : i # depth => signals'[i] = signals[i]
      /\ Observes(frames[depth]) => signals'[depth] = Started(depth) \cup Outcome(depth)
  <2>1. CASE Observes(frames[depth])
    <3>1. Outcome(depth) \subseteq Recorded
      BY <2>1, ObserverShape DEF Observes, Outcome
    <3>2. FrameInv(depth)
      BY <2>1, <1>2 DEF IInv, SignalsInv
    <3>3. signals[depth] = Started(depth)
      BY <3>2, <1>2 DEF FrameInv
    <3>4. QED
      BY <2>1, <3>1, <3>3, <1>2
  <2>2. CASE ~Observes(frames[depth])
    BY <2>2, <1>2
  <2>3. QED
    BY <2>1, <2>2
<1>4. SignalsInv'
  <2>1. ASSUME NEW i \in DOMAIN frames, Observes(frames[i])
        PROVE  FrameInv(i)'
    <3>1. FrameInv(i) /\ i \in Nat /\ i >= 1 /\ i <= Len(frames)
      BY <2>1, <1>2 DEF IInv, SignalsInv
    <3>2. Started(i)' = Started(i) /\ (Outcome(i)' = Outcome(i) \/ r # result)
      BY <1>1 DEF Started, Outcome
    <3>3. i <= depth - 1 => signals'[i] = Started(i)
      BY <3>1, <1>2, <1>3 DEF FrameInv
    <3>4. i > depth - 1 =>
              /\ \/ signals'[i] \in {{}, Started(i) \cup Observers[frames[i].kind].ok,
                                     Started(i) \cup Observers[frames[i].kind].failed}
                 \/ \E k \in dropped : k < i
              /\ (\A k \in 1..i : Observes(frames[k])) =>
                     signals'[i] = Started(i) \cup Outcome(i) /\ r = result
      <4>1. CASE i = depth
        BY <4>1, <2>1, <1>3 DEF Outcome
      <4>2. CASE i > depth
        <5>1. signals'[i] = signals[i]
          BY <4>2, <1>2, <1>3
        <5>2. depth \in 1..i
          BY <4>2, <3>1, <1>2
        <5>3. QED
          BY <4>2, <5>1, <5>2, <3>1 DEF FrameInv
      <4>3. i > depth - 1 => i = depth \/ i > depth
        BY <3>1, <1>2
      <4>4. QED
        BY <4>1, <4>2, <4>3
    <3>5. QED
      BY <3>2, <3>3, <3>4, <1>1 DEF FrameInv
  <2>2. QED
    BY <2>1, <1>1 DEF SignalsInv
<1>5. KeptKey => /\ "encryption" \notin refused'
                 /\ (\E i \in DOMAIN frames : Decrypts(i)) => "typed" \notin refused'
  BY DEF IInv, CipherInv
<1>6. dropped' \subseteq DOMAIN frames /\ refused' \subseteq {"encryption", "typed"}
  BY <1>2
<1>7. QED
  BY <1>2, <1>3, <1>4, <1>5, <1>6, ReturnKeeps

\* A timer fires, or a closure gives up: the frames inside are dropped as they are.
LEMMA DropKeeps ==
    ASSUME IInv, NEW t \in DOMAIN frames, NEW r \in Results,
           \/ TimeoutFires(t) /\ r = "Handler"
           \/ FnDrops(t, r)
    PROVE  IInv'
<1>1. /\ t \in 1..depth /\ frames[t].kind \in {"timeout", "fn"} /\ dropped' = dropped \cup {t}
      /\ Return(t - 1, r) /\ UNCHANGED <<signals, refused>>
      /\ phase \in {"in", "handler", "out"}
  BY DEF TimeoutFires, FnDrops, Suspended, Leaving
<1>2. phase' = "out" /\ depth' = t - 1 /\ UNCHANGED frames
  BY <1>1 DEF Return
<1>3. depth \in Nat /\ Len(frames) \in Nat /\ DOMAIN frames = 1..Len(frames)
      /\ t - 1 \in Nat /\ t - 1 <= depth /\ t \in Nat
      /\ signals \in [DOMAIN frames -> SUBSET Recorded] /\ dropped \subseteq DOMAIN frames
      /\ refused \subseteq {"encryption", "typed"}
  BY <1>1 DEF IInv, TypeOK
<1>4. ~Observes(frames[t])
  BY <1>1, ObserverShape
<1>5. SignalsInv'
  <2>1. ASSUME NEW i \in DOMAIN frames, Observes(frames[i])
        PROVE  FrameInv(i)'
    <3>1. FrameInv(i) /\ i \in Nat /\ i # t
      BY <2>1, <1>3, <1>4 DEF IInv, SignalsInv
    <3>2. Started(i)' = Started(i) /\ signals'[i] = signals[i]
      BY <1>1, <1>2 DEF Started
    <3>3. CASE i <= t - 1
      <4>1. i <= depth /\ ~(i > t - 1)
        BY <3>3, <3>1, <1>1, <1>3
      <4>2. signals[i] = Started(i)
        BY <4>1, <3>1, <1>1 DEF FrameInv
      <4>3. QED
        BY <4>1, <4>2, <3>2, <1>2 DEF FrameInv
    <3>4. CASE ~(i <= t - 1)
      <4>1. t < i /\ t \in 1..i /\ t \in dropped'
        BY <3>4, <3>1, <1>1, <1>3
      <4>2. ~ \A k \in 1..i : Observes(frames[k])
        BY <4>1, <1>4
      <4>3. QED
        BY <4>1, <4>2, <3>2, <3>4, <1>2 DEF FrameInv
    <3>5. QED
      BY <3>3, <3>4
  <2>2. QED
    BY <2>1, <1>2 DEF SignalsInv
<1>6. KeptKey => /\ "encryption" \notin refused'
                 /\ (\E i \in DOMAIN frames : Decrypts(i)) => "typed" \notin refused'
  BY <1>1 DEF IInv, CipherInv
<1>7. dropped' \subseteq DOMAIN frames /\ signals' \in [DOMAIN frames -> SUBSET Recorded]
      /\ refused' \subseteq {"encryption", "typed"}
  BY <1>1, <1>3
<1>8. QED
  BY <1>1, <1>3, <1>5, <1>6, <1>7, ReturnKeeps

\* The handler starts, the worker reports, or user code panics.
LEMMA PhaseKeeps ==
    ASSUME IInv, HandlerStarts \/ Report \/ Unwind
    PROVE  IInv'
<1>1. /\ UNCHANGED <<chain, handlers, changes, provider, job, ctx, handler, frames, depth,
                     result, signals, dropped, refused>>
      /\ \/ phase = "in" /\ phase' = "handler" /\ depth = Len(frames)
         \/ phase = "out" /\ phase' = "over" /\ depth = 0
         \/ phase' = "unwound"
  BY DEF HandlerStarts, Report, Unwind, listVars, jobVars
<1>2. TypeOK' /\ PhaseInv'
  BY <1>1 DEF IInv, TypeOK, PhaseInv
<1>3. SignalsInv'
  <2>1. ASSUME NEW i \in DOMAIN frames, Observes(frames[i])
        PROVE  FrameInv(i)'
    <3>1. FrameInv(i)
      BY <2>1 DEF IInv, SignalsInv
    <3>2. Started(i)' = Started(i) /\ Outcome(i)' = Outcome(i) /\ signals'[i] = signals[i]
      BY <1>1 DEF Started, Outcome
    <3>3. QED
      BY <3>1, <3>2, <1>1 DEF FrameInv
  <2>2. QED
    BY <2>1, <1>1 DEF SignalsInv
<1>4. CipherInv'
  BY <1>1 DEF IInv, CipherInv, KeptKey, Decrypts
<1>5. QED
  BY <1>2, <1>3, <1>4 DEF IInv

\* A frame is entered, whichever it is.
LEMMA EnteringKeeps ==
    ASSUME IInv, \/ \E kind \in DOMAIN Observers : ObserverEnters(kind)
                 \/ TimeoutEnters \/ EncryptionEnters \/ FnEnters
    PROVE  IInv'
<1>1. ASSUME NEW kind \in DOMAIN Observers, ObserverEnters(kind)
      PROVE  IInv'
  <2>1. /\ phase = "in" /\ depth < Len(frames) /\ frames[depth + 1].kind = kind
        /\ signals' = [signals EXCEPT ![depth + 1] = Started(depth + 1)]
        /\ CallNext /\ UNCHANGED <<ctx, refused>>
    BY <1>1 DEF ObserverEnters, Entering, Started, CallNext
  <2>2. Observes(frames[depth + 1])
    BY <2>1 DEF Observes
  <2>3. ~Decrypts(depth + 1)
    BY <2>2, ObserverShape DEF Decrypts
  <2>4. QED
    BY <2>1, <2>2, <2>3, EnterKeeps
<1>2. CASE TimeoutEnters \/ FnEnters
  <2>1. /\ phase = "in" /\ depth < Len(frames) /\ frames[depth + 1].kind \in {"timeout", "fn"}
        /\ CallNext /\ UNCHANGED <<signals, ctx, refused>>
    BY <1>2 DEF TimeoutEnters, FnEnters, Entering, CallNext
  <2>2. ~Observes(frames[depth + 1]) /\ ~Decrypts(depth + 1)
    BY <2>1, ObserverShape DEF Decrypts
  <2>3. QED
    BY <2>1, <2>2, EnterKeeps
<1>3. CASE EncryptionEnters
  <2>1. /\ phase = "in" /\ depth < Len(frames) /\ frames[depth + 1].kind = "encryption"
        /\ ctx' = DecryptJob(provider, ctx) /\ CallNext /\ UNCHANGED <<signals, refused>>
    BY <1>3 DEF EncryptionEnters, Entering, CallNext
  <2>2. ~Observes(frames[depth + 1]) /\ Decrypts(depth + 1)
    BY <2>1, ObserverShape DEF Decrypts
  <2>3. QED
    BY <2>1, <2>2, EnterKeeps
<1>4. QED
  BY <1>1, <1>2, <1>3

\* The run turns back, for whichever reason.
LEMMA TurningKeeps ==
    ASSUME IInv, \/ EncryptionRefuses \/ TypedRefuses
                 \/ \E r \in Results : FnAnswers(r) \/ HandlerReturns(r)
    PROVE  IInv'
<1>1. refused \subseteq {"encryption", "typed"} /\ DOMAIN frames = 1..Len(frames)
      /\ "Handler" \in Results
  BY DEF IInv, TypeOK, Results
<1>2. KeptKey => /\ "encryption" \notin refused
                 /\ (\E i \in DOMAIN frames : Decrypts(i)) => "typed" \notin refused
                 /\ phase \in {"in", "handler"} =>
                       ctx = IF \E i \in 1..depth : Decrypts(i) THEN Queued(<<>>, NoMeta) ELSE job
  BY DEF IInv, CipherInv
<1>3. CASE EncryptionRefuses
  <2>1. /\ phase = "in" /\ depth < Len(frames) /\ frames[depth + 1].kind = "encryption"
        /\ Undecryptable(provider, ctx) /\ Return(depth, "Handler")
        /\ refused' = refused \cup {"encryption"} /\ UNCHANGED <<signals, dropped>>
    BY <1>3 DEF EncryptionRefuses, Entering
  <2>2. ~KeptKey
    BY <1>2, <2>1, KeptKeyOpens DEF IInv
  <2>3. ~Observes(frames[depth + 1])
    BY <2>1, ObserverShape
  <2>4. refused' \subseteq {"encryption", "typed"}
    BY <1>1, <2>1
  <2>5. QED
    BY <1>1, <2>1, <2>2, <2>3, <2>4, TurnKeeps
<1>4. CASE TypedRefuses
  <2>1. /\ phase = "in" /\ depth = Len(frames) /\ ctx.args # <<>> /\ Return(depth, "Handler")
        /\ refused' = refused \cup {"typed"} /\ UNCHANGED <<signals, dropped>>
    BY <1>4 DEF TypedRefuses
  <2>2. KeptKey => ~ \E i \in DOMAIN frames : Decrypts(i)
    <3> SUFFICES ASSUME KeptKey, \E i \in DOMAIN frames : Decrypts(i) PROVE FALSE
      OBVIOUS
    <3>1. ctx = Queued(<<>>, NoMeta)
      BY <1>1, <1>2, <2>1
    <3>2. QED
      BY <2>1, <3>1 DEF Queued
  <2>3. ~(depth < Len(frames))
    BY <2>1 DEF IInv, TypeOK
  <2>4. refused' \subseteq {"encryption", "typed"}
    BY <1>1, <2>1
  <2>5. KeptKey => /\ "encryption" \notin refused'
                   /\ (\E i \in DOMAIN frames : Decrypts(i)) => "typed" \notin refused'
    BY <1>2, <2>1, <2>2
  <2>6. QED
    BY <1>1, <2>1, <2>3, <2>4, <2>5, TurnKeeps
<1>5. ASSUME NEW r \in Results, FnAnswers(r) \/ HandlerReturns(r)
      PROVE  IInv'
  <2>1. /\ phase \in {"in", "handler"} /\ Return(depth, r) /\ UNCHANGED <<signals, dropped, refused>>
        /\ \/ phase = "in" /\ frames[depth + 1].kind = "fn"
           \/ phase = "handler"
    BY <1>5 DEF FnAnswers, HandlerReturns, Entering
  <2>2. depth < Len(frames) => ~Observes(frames[depth + 1])
    <3>1. phase = "handler" => ~(depth < Len(frames))
      BY DEF IInv, TypeOK, PhaseInv
    <3>2. QED
      BY <2>1, <3>1, ObserverShape
  <2>3. QED
    BY <1>1, <1>2, <2>1, <2>2, TurnKeeps
<1>6. QED
  BY <1>3, <1>4, <1>5

\* A frame is left, whichever it is.
LEMMA LeavingKeeps ==
    ASSUME IInv, \/ \E kind \in DOMAIN Observers : ObserverLeaves(kind)
                 \/ PlainLeaves \/ \E r \in Results : FnLeaves(r)
    PROVE  IInv'
<1>1. result \in Results \cup {None}
  BY DEF IInv, TypeOK
<1>2. ASSUME NEW kind \in DOMAIN Observers, ObserverLeaves(kind)
      PROVE  IInv'
  <2>1. /\ phase = "out" /\ depth > 0 /\ frames[depth].kind = kind /\ Return(depth - 1, result)
        /\ UNCHANGED <<dropped, refused>>
        /\ signals' = [signals EXCEPT ![depth] = @ \cup Outcome(depth)]
    BY <1>2 DEF ObserverLeaves, Leaving, Outcome
  <2>2. Observes(frames[depth])
    BY <2>1 DEF Observes
  <2>3. QED
    BY <1>1, <2>1, <2>2, LeaveKeeps
<1>3. ASSUME NEW r \in Results \cup {None}, FnLeaves(r) \/ (PlainLeaves /\ r = result)
      PROVE  IInv'
  <2>1. /\ phase = "out" /\ depth > 0 /\ frames[depth].kind \in {"timeout", "encryption", "fn"}
        /\ Return(depth - 1, r) /\ UNCHANGED <<signals, dropped, refused>>
    BY <1>3 DEF PlainLeaves, FnLeaves, Leaving
  <2>2. ~Observes(frames[depth])
    BY <2>1, ObserverShape
  <2>3. QED
    BY <2>1, <2>2, LeaveKeeps
<1>4. CASE PlainLeaves
  BY <1>1, <1>3, <1>4
<1>5. CASE \E r \in Results : FnLeaves(r)
  BY <1>3, <1>5
<1>6. QED
  BY <1>2, <1>4, <1>5

\* Every step preserves the invariant.
LEMMA NextKeeps == IInv /\ [Next]_vars => IInv'
<1> SUFFICES ASSUME IInv, [Next]_vars PROVE IInv'
  OBVIOUS
<1>1. CASE RunStep
  <2>1. CASE LookUp \/ Start
    BY <2>1, StartKeeps
  <2>2. CASE \/ \E kind \in DOMAIN Observers : ObserverEnters(kind)
             \/ TimeoutEnters \/ EncryptionEnters \/ FnEnters
    BY <2>2, EnteringKeeps
  <2>3. CASE \/ EncryptionRefuses \/ TypedRefuses
             \/ \E r \in Results : FnAnswers(r) \/ HandlerReturns(r)
    BY <2>3, TurningKeeps
  <2>4. CASE \/ \E kind \in DOMAIN Observers : ObserverLeaves(kind)
             \/ PlainLeaves \/ \E r \in Results : FnLeaves(r)
    BY <2>4, LeavingKeeps
  <2>5. CASE HandlerStarts \/ Unwind \/ Report
    BY <2>5, PhaseKeeps
  <2>6. CASE \E i \in DOMAIN frames : TimeoutFires(i) \/ \E r \in Results : FnDrops(i, r)
    <3>1. "Handler" \in Results
      BY DEF Results
    <3>2. QED
      BY <2>6, <3>1, DropKeeps
  <2>7. QED
    BY <1>1, <2>1, <2>2, <2>3, <2>4, <2>5, <2>6 DEF RunStep
<1>2. CASE EditList \/ \E kind \in HandlerKinds : Register(kind)
  BY <1>2, EditsKeep
<1>3. ASSUME NEW id \in KeyIds, NEW key \in Keys, EncryptStep(id, key) \/ AddKeyStep(id, key)
      PROVE  IInv'
  BY <1>3, QueueKeeps
<1>4. CASE Terminated \/ UNCHANGED vars
  <2>1. UNCHANGED vars
    BY <1>4 DEF Terminated
  <2>2. TypeOK' /\ PhaseInv'
    BY <2>1 DEF vars, IInv, TypeOK, PhaseInv
  <2>3. SignalsInv'
    BY <2>1 DEF vars, IInv, SignalsInv, FrameInv, Started, Outcome
  <2>4. CipherInv'
    BY <2>1 DEF vars, IInv, CipherInv, KeptKey, Decrypts
  <2>5. QED
    BY <2>2, <2>3, <2>4 DEF IInv
<1>5. QED
  BY <1>1, <1>2, <1>3, <1>4 DEF Next

\* The invariant of the proof, on which the results below rest.
THEOREM Invariance == Spec => []IInv
BY InitEstablishes, NextKeeps, PTL DEF Spec

\* The state of the list, of the keys and of the run is well-formed, and a run goes
\* no deeper than the nest it was given.
THEOREM TypeCorrectness == Spec => []TypeOK
<1>1. IInv => TypeOK
  BY DEF IInv
<1>2. QED
  BY Invariance, <1>1, PTL

\* Metrics, logs and spans agree with what the worker reports (middleware_common/,
\* otel.rs): an observer that nothing but observers encloses has recorded its start
\* and the outcome that is acked or nacked, and one without an outcome was dropped
\* by a timeout or a closure outside of it.
THEOREM RecordsAgree == Spec => []OutcomeRecorded
<1>1. IInv => OutcomeRecorded
  <2> SUFFICES ASSUME IInv, phase = "over",
                      NEW i \in DOMAIN frames, Observes(frames[i])
               PROVE  /\ (\A k \in 1..i : Observes(frames[k])) => signals[i] = Started(i) \cup Outcome(i)
                      /\ signals[i] = Started(i) => \E k \in dropped : k < i
    BY DEF OutcomeRecorded, Started, Outcome
  <2>1. i > depth
    BY DEF IInv, TypeOK, PhaseInv
  <2>2. FrameInv(i)
    BY DEF IInv, SignalsInv
  <2>3. /\ \/ signals[i] \in {{}, Started(i) \cup Observers[frames[i].kind].ok,
                              Started(i) \cup Observers[frames[i].kind].failed}
           \/ \E k \in dropped : k < i
        /\ (\A k \in 1..i : Observes(frames[k])) => signals[i] = Started(i) \cup Outcome(i)
    BY <2>1, <2>2 DEF FrameInv
  <2>4. /\ Started(i) # {}
        /\ Started(i) \cup Observers[frames[i].kind].ok # Started(i)
        /\ Started(i) \cup Observers[frames[i].kind].failed # Started(i)
    BY ObserverShape DEF Observes, Started
  <2>5. QED
    BY <2>3, <2>4
<1>2. QED
  BY Invariance, <1>1, PTL

\* Encryption is transparent while the key is kept (encryption.rs): the middleware
\* never refuses such a job, and whatever handler is inside of it sees the
\* plaintext without a marker.
THEOREM Transparency == Spec => []EncryptionTransparent
<1>1. IInv => EncryptionTransparent
  <2> SUFFICES ASSUME IInv, KeptKey
               PROVE  /\ "encryption" \notin refused
                      /\ (\E i \in DOMAIN frames : Decrypts(i)) =>
                            /\ "typed" \notin refused
                            /\ phase = "handler" => ctx = Queued(<<>>, NoMeta)
    BY DEF EncryptionTransparent, KeptKey, Decrypts
  <2>1. /\ "encryption" \notin refused
        /\ (\E i \in DOMAIN frames : Decrypts(i)) => "typed" \notin refused
        /\ phase = "handler" =>
              ctx = IF \E i \in 1..depth : Decrypts(i) THEN Queued(<<>>, NoMeta) ELSE job
    BY DEF IInv, CipherInv
  <2>2. phase = "handler" => DOMAIN frames = 1..depth
    BY DEF IInv, TypeOK, PhaseInv
  <2>3. QED
    BY <2>1, <2>2
<1>2. QED
  BY Invariance, <1>1, PTL

\* Nesting follows registration (MiddlewareChain, middleware.rs), for lists and
\* edits of any length: what wrap builds after an edit has the new middleware where
\* the edit says and the others as they were.
THEOREM Nesting == Spec => []NestingAsRegistered
<1>1. IInv => NestingAsRegistered
  BY ListNests DEF IInv, TypeOK
<1>2. QED
  BY Invariance, <1>1, PTL
=============================================================================
