---------------------------- MODULE SubscribeProofs ----------------------------
(***************************************************************************)
(* Proofs about Subscribe, for all lines, all lengths of streams and of    *)
(* chunks and every capacity of the channel: what the caller receives are  *)
(* the events that the lines hold.                                         *)
(***************************************************************************)
EXTENDS Subscribe, FiniteSetTheorems, SequenceTheorems, WellFoundedInduction, TLAPS

-----------------------------------------------------------------------------
(* Induction over the naturals, as a fact about sets *)

\* A set of naturals that has no least missing one has them all.
LEMMA NatSetInduction ==
    ASSUME NEW S, 0 \in S, \A n \in Nat : n \in S => n + 1 \in S
    PROVE  Nat \subseteq S
<1> DEFINE T == Nat \ S
<1> DEFINE R == {ss \in Nat \X Nat : ss[1] < ss[2]}
<1> SUFFICES ASSUME T # {} PROVE FALSE
  OBVIOUS
<1>1. IsWellFoundedOn(R, Nat)
  BY NatLessThanWellFounded DEF OpToRel
<1>2. PICK x \in T : \A y \in T : ~(<<y, x>> \in R)
  <2> T \subseteq Nat OBVIOUS
  <2> HIDE DEF T, R
  <2> QED BY <1>1, WFMin
<1>3. x # 0 /\ x \in Nat
  OBVIOUS
<1>4. x - 1 \in Nat /\ x - 1 + 1 = x /\ x - 1 < x
  BY <1>3
<1>5. <<x - 1, x>> \in R
  BY <1>3, <1>4
<1>6. x - 1 \notin T
  BY <1>2, <1>5
<1>7. QED
  BY <1>3, <1>4, <1>6

-----------------------------------------------------------------------------
(* Positions *)

\* The last of S before i is there, and nothing of S comes after it and before i.
LEMMA BeforeShape ==
    ASSUME NEW S \in SUBSET (Nat \ {0}), NEW i \in Nat
    PROVE  /\ Before(S, i) \in Nat
           /\ Before(S, i) = 0 \/ (Before(S, i) \in S /\ Before(S, i) < i)
           /\ \A j \in S : j < i => j <= Before(S, i)
<1> DEFINE LastOf(k, r) == /\ r \in {0} \cup {j \in S : j < k}
                         /\ \A j \in {0} \cup {j \in S : j < k} : r >= j
<1> DEFINE Known == {k \in Nat : \E r : LastOf(k, r)}
<1>1. 0 \in Known
  <2>1. LastOf(0, 0)
    OBVIOUS
  <2>2. QED
    BY <2>1
<1>2. ASSUME NEW k \in Nat, k \in Known
      PROVE  k + 1 \in Known
  <2>1. PICK r : LastOf(k, r)
    BY <1>2
  <2>2. CASE k \in S
    <3>1. LastOf(k + 1, k)
      BY <2>2
    <3>2. QED
      BY <3>1
  <2>3. CASE k \notin S
    <3>1. {j \in S : j < k + 1} = {j \in S : j < k}
      <4>1. \A j \in S : j \in Nat /\ j # k
        BY <2>3
      <4>2. \A j \in S : j < k + 1 <=> j < k
        BY <4>1
      <4>3. QED
        BY <4>2
    <3>2. LastOf(k + 1, r)
      BY <2>1, <3>1
    <3>3. QED
      BY <3>2
  <2>4. QED
    BY <2>2, <2>3
<1>3. Nat \subseteq Known
  <2> HIDE DEF Known
  <2> QED BY <1>1, <1>2, NatSetInduction
<1>4. PICK r : LastOf(i, r)
  BY <1>3
<1>5. LastOf(i, Before(S, i))
  BY <1>4 DEF Before, Max
<1>6. \A j \in S : j \in Nat
  OBVIOUS
<1>7. Before(S, i) \in {0} \cup {j \in S : j < i}
  BY <1>5
<1>8. \A j \in S : j < i => Before(S, i) >= j
  BY <1>5
<1>9. Before(S, i) \in Nat /\ (Before(S, i) = 0 \/ (Before(S, i) \in S /\ Before(S, i) < i))
  <2>1. CASE Before(S, i) = 0
    BY <2>1
  <2>2. CASE Before(S, i) \in {j \in S : j < i}
    BY <1>6, <2>2
  <2>3. QED
    BY <1>7, <2>1, <2>2
<1>10. QED
  BY <1>6, <1>8, <1>9

\* And nothing else is the last of S before i.
LEMMA BeforeUnique ==
    ASSUME NEW S \in SUBSET (Nat \ {0}), NEW i \in Nat, NEW r \in Nat,
           r = 0 \/ (r \in S /\ r < i), \A j \in S : j < i => j <= r
    PROVE  Before(S, i) = r
<1>1. CASE r = 0
  <2>1. \A j \in S : ~(j < i)
    BY <1>1
  <2>2. QED
    BY <1>1, <2>1, BeforeShape
<1>2. CASE r # 0
  <2>1. r <= Before(S, i) /\ Before(S, i) # 0
    BY <1>2, BeforeShape
  <2>2. Before(S, i) <= r
    BY <2>1, BeforeShape
  <2>3. QED
    BY <2>1, <2>2, BeforeShape
<1>3. QED
  BY <1>1, <1>2

\* Positions between which S has none have the same last one of S before them.
LEMMA BeforeGap ==
    ASSUME NEW S, NEW i, NEW j, {k \in S : k < i} = {k \in S : k < j}
    PROVE  Before(S, i) = Before(S, j)
  BY DEF Before

\* The last of S before i + 1 is i, or the last one before i.
LEMMA BeforeNext ==
    ASSUME NEW S \in SUBSET (Nat \ {0}), NEW i \in Nat
    PROVE  /\ i \in S => Before(S, i + 1) = i
           /\ i \notin S => Before(S, i + 1) = Before(S, i)
<1>1. CASE i \in S
  <2>1. i + 1 \in Nat /\ i < i + 1 /\ \A j \in S : j < i + 1 => j <= i
    OBVIOUS
  <2>2. QED
    BY <1>1, <2>1, BeforeUnique
<1>2. CASE i \notin S
  <2>1. {k \in S : k < i + 1} = {k \in S : k < i}
    <3>1. \A k \in S : k \in Nat /\ k # i
      BY <1>2
    <3>2. \A k \in S : k < i + 1 <=> k < i
      BY <3>1
    <3>3. QED
      BY <3>2
  <2>2. QED
    BY <1>2, <2>1, BeforeGap
<1>3. QED
  BY <1>1, <1>2

\* A position after all others is the last to be counted, and counts for no other.
LEMMA NthOfMore ==
    ASSUME NEW S \in SUBSET Nat, IsFiniteSet(S), NEW p \in Nat, \A j \in S : j < p
    PROVE  /\ IsFiniteSet(S \cup {p})
           /\ Cardinality(S) \in Nat
           /\ Cardinality(S \cup {p}) = Cardinality(S) + 1
           /\ Nth(S \cup {p}, Cardinality(S) + 1) = p
           /\ \A n \in 1..Cardinality(S) : Nth(S \cup {p}, n) = Nth(S, n)
<1> DEFINE N == Cardinality(S)
<1> DEFINE More == S \cup {p}
<1>1. N \in Nat /\ IsFiniteSet(More) /\ Cardinality(More) = N + 1
  <2>1. p \notin S
    OBVIOUS
  <2>2. QED
    BY <2>1, FS_CardinalityType, FS_AddElement
<1>2. {j \in More : j <= p} = More
  <2>1. \A j \in More : j \in Nat /\ j <= p
    OBVIOUS
  <2>2. QED
    BY <2>1
<1>3. \A i \in S : {j \in More : j <= i} = {j \in S : j <= i}
  OBVIOUS
<1>4. \A i \in S : Cardinality({j \in S : j <= i}) \in Nat /\ Cardinality({j \in S : j <= i}) <= N
  <2>1. \A i \in S : {j \in S : j <= i} \in SUBSET S
    OBVIOUS
  <2>2. QED
    BY <2>1, FS_Subset, FS_CardinalityType
<1>5. Nth(More, N + 1) = p
  <2>1. \A i \in More : Cardinality({j \in More : j <= i}) = N + 1 <=> i = p
    BY <1>1, <1>2, <1>3, <1>4
  <2> HIDE DEF N, More
  <2>2. p \in More
    BY DEF More
  <2>3. QED
    BY <2>1, <2>2 DEF Nth
<1>6. ASSUME NEW n \in 1..N
      PROVE  Nth(More, n) = Nth(S, n)
  <2>1. \A i : (i \in More /\ Cardinality({j \in More : j <= i}) = n) <=>
               (i \in S /\ Cardinality({j \in S : j <= i}) = n)
    <3>1. n # N + 1
      BY <1>1
    <3>2. QED
      BY <1>1, <1>2, <1>3, <3>1
  <2>2. QED
    BY <2>1 DEF Nth
<1>7. QED
  BY <1>1, <1>5, <1>6

-----------------------------------------------------------------------------
(* Texts and their lines *)

Symbols == Chars \cup {"nl", "?", "message"}

Texts == Seq(Symbols)

\* The kinds of lines are positions of the text.
LEMMA LinePositions ==
    ASSUME NEW text \in Texts
    PROVE  /\ Len(text) \in Nat /\ DOMAIN text = 1..Len(text)
           /\ NewLines(text) \in SUBSET (1..Len(text))
           /\ Blanks(text) \in SUBSET NewLines(text)
           /\ Ends(text) \in SUBSET Blanks(text)
           /\ \A field : FieldLines(text, field) \in SUBSET NewLines(text)
           /\ \A S \in SUBSET NewLines(text) : S \in SUBSET (Nat \ {0})
<1>1. Len(text) \in Nat /\ DOMAIN text = 1..Len(text)
  BY DEF Texts
<1>2. NewLines(text) \in SUBSET (1..Len(text))
  BY <1>1 DEF NewLines
<1>3. \A S \in SUBSET NewLines(text) : S \in SUBSET (Nat \ {0})
  <2>1. \A i \in 1..Len(text) : i \in Nat \ {0}
    BY <1>1
  <2>2. QED
    BY <1>2, <2>1
<1>4. /\ Blanks(text) \in SUBSET NewLines(text)
      /\ Ends(text) \in SUBSET Blanks(text)
      /\ \A field : FieldLines(text, field) \in SUBSET NewLines(text)
  BY DEF Blanks, Ends, FieldLines
<1>5. QED
  BY <1>1, <1>2, <1>3, <1>4

\* The part of a text between two positions.
LEMMA PartShape ==
    ASSUME NEW text \in Texts, NEW k \in Nat, NEW m \in Nat, k <= m, m <= Len(text)
    PROVE  /\ SubSeq(text, k + 1, m) \in Texts
           /\ Len(SubSeq(text, k + 1, m)) = m - k
           /\ DOMAIN SubSeq(text, k + 1, m) = 1..(m - k)
           /\ \A i \in 1..(m - k) : SubSeq(text, k + 1, m)[i] = text[k + i]
           /\ SubSeq(text, k + 1, m) = <<>> <=> m = k
<1>1. k + 1 \in 1..(Len(text) + 1) /\ m \in Nat /\ Len(text) \in Nat
  BY DEF Texts
<1>2. \A i \in (k + 1)..m : i \in 1..Len(text) /\ text[i] \in Symbols
  BY <1>1 DEF Texts
<1>3. SubSeq(text, k + 1, m) = [i \in 1..(m - k) |-> text[k + i]]
  BY <1>1 DEF Texts
<1>4. m - k \in Nat /\ \A i \in 1..(m - k) : k + i \in (k + 1)..m
  BY <1>1
<1>5. SubSeq(text, k + 1, m) \in Texts
  BY <1>2, <1>3, <1>4, IsASeq DEF Texts
<1>6. Len(SubSeq(text, k + 1, m)) = m - k
  BY <1>3, <1>4
<1>7. SubSeq(text, k + 1, m) = <<>> <=> m = k
  BY <1>1, <1>5, <1>6, EmptySeq DEF Texts
<1>8. QED
  BY <1>3, <1>5, <1>6, <1>7

\* A line is what is between its newline and the one before.
LEMMA LineShape ==
    ASSUME NEW text \in Texts, NEW p \in NewLines(text)
    PROVE  /\ Before(NewLines(text), p) \in 0..(p - 1)
           /\ LineAt(text, p) \in Texts
           /\ Len(LineAt(text, p)) = p - 1 - Before(NewLines(text), p)
           /\ LineAt(text, p) # <<>> =>
                 /\ Before(NewLines(text), p) + 1 \in 1..Len(text)
                 /\ LineAt(text, p)[1] = text[Before(NewLines(text), p) + 1]
                 /\ Tail(LineAt(text, p)) \in Texts
<1> DEFINE k == Before(NewLines(text), p)
<1>1. p \in 1..Len(text) /\ Len(text) \in Nat /\ NewLines(text) \in SUBSET (Nat \ {0})
  BY LinePositions
<1>2. k \in Nat /\ (k = 0 \/ k < p)
  BY <1>1, BeforeShape
<1> HIDE DEF k
<1>3. k \in Nat /\ p - 1 \in Nat /\ k <= p - 1 /\ p - 1 <= Len(text)
  BY <1>1, <1>2
<1>4. LineAt(text, p) = SubSeq(text, k + 1, p - 1)
  BY DEF LineAt, k
<1>5. /\ LineAt(text, p) \in Texts
      /\ Len(LineAt(text, p)) = p - 1 - k
      /\ \A i \in 1..(p - 1 - k) : LineAt(text, p)[i] = text[k + i]
      /\ LineAt(text, p) = <<>> <=> p - 1 = k
  BY <1>3, <1>4, PartShape
<1>6. ASSUME LineAt(text, p) # <<>>
      PROVE  /\ k + 1 \in 1..Len(text)
             /\ LineAt(text, p)[1] = text[k + 1]
             /\ Tail(LineAt(text, p)) \in Texts
  <2>1. 1 \in 1..(p - 1 - k) /\ k + 1 \in 1..Len(text)
    BY <1>1, <1>3, <1>5, <1>6
  <2>2. Tail(LineAt(text, p)) \in Texts
    BY <1>5, <1>6, HeadTailProperties DEF Texts
  <2>3. QED
    BY <1>5, <2>1, <2>2
<1>7. QED
  BY <1>3, <1>5, <1>6 DEF k

\* DataOf grows line by line.
LEMMA DataShape ==
    ASSUME NEW text \in Texts
    PROVE  /\ DataOf(text)[0] = <<>>
           /\ \A n \in Nat : n + 1 <= Len(text) =>
                 DataOf(text)[n + 1] =
                     IF n + 1 \in Blanks(text) THEN <<>>
                     ELSE IF n + 1 \notin FieldLines(text, "data") THEN DataOf(text)[n]
                     ELSE IF DataOf(text)[n] = <<>> THEN Tail(LineAt(text, n + 1))
                     ELSE DataOf(text)[n] \o <<"nl">> \o Tail(LineAt(text, n + 1))
           /\ \A n \in 0..Len(text) : DataOf(text)[n] \in Texts
<1> DEFINE L == Len(text)
<1> DEFINE one(d, n) == IF n \in Blanks(text) THEN <<>>
                        ELSE IF n \notin FieldLines(text, "data") THEN d
                        ELSE IF d = <<>> THEN Tail(LineAt(text, n))
                        ELSE d \o <<"nl">> \o Tail(LineAt(text, n))
<1> DEFINE step(f, m) == [n \in 0..m |-> IF n = 0 THEN <<>> ELSE one(f[n - 1], n)]
<1> DEFINE data == CHOOSE f : f = step(f, L)
<1>1. L \in Nat
  BY LinePositions
<1>2. \E f : f = step(f, L)
  <2> HIDE DEF one
  <2> DEFINE Solved == {m \in Nat : \E f : f = step(f, m)}
  <2>1. 0 \in Solved
    <3>1. 0..0 = {0}
      OBVIOUS
    <3> DEFINE f == [n \in {0} |-> <<>>]
    <3>2. f = step(f, 0)
      BY <3>1
    <3>3. QED
      BY <3>2
  <2>2. ASSUME NEW m \in Nat, m \in Solved
        PROVE  m + 1 \in Solved
    <3>1. PICK f : f = step(f, m)
      BY <2>2
    <3> DEFINE g == [n \in 0..(m + 1) |-> IF n = m + 1 THEN one(f[m], m + 1) ELSE f[n]]
    <3>2. ASSUME NEW n \in 0..(m + 1)
          PROVE  g[n] = step(g, m + 1)[n]
      <4>1. CASE n = 0
        <5>1. n # m + 1 /\ n \in 0..m
          BY <4>1
        <5>2. f[n] = <<>>
          BY <4>1, <5>1, <3>1
        <5>3. QED
          BY <4>1, <5>1, <5>2
      <4>2. CASE n = m + 1
        <5>1. n - 1 = m /\ n # 0 /\ m \in 0..(m + 1) /\ m # m + 1
          BY <4>2
        <5>2. g[m] = f[m]
          BY <5>1
        <5>3. QED
          BY <4>2, <5>1, <5>2
      <4>3. CASE n # 0 /\ n # m + 1
        <5>1. n \in 0..m /\ n - 1 \in 0..(m + 1) /\ n - 1 # m + 1
          BY <4>3
        <5>2. g[n - 1] = f[n - 1] /\ g[n] = f[n]
          BY <5>1, <4>3
        <5>3. f[n] = one(f[n - 1], n)
          BY <5>1, <3>1, <4>3
        <5>4. QED
          BY <5>2, <5>3, <4>3
      <4>4. QED
        BY <4>1, <4>2, <4>3
    <3>3. g = step(g, m + 1)
      BY <3>2
    <3> HIDE DEF g, step
    <3>4. QED
      BY <3>3
  <2>3. Nat \subseteq Solved
    <3> HIDE DEF Solved
    <3> QED BY <2>1, <2>2, NatSetInduction
  <2>4. QED
    BY <2>3, <1>1
<1>3. data = step(data, L)
  <2> HIDE DEF step
  <2> QED BY <1>2
<1>4. DataOf(text) = data
  BY DEF DataOf
<1> HIDE DEF data
<1>5. data[0] = <<>>
  <2> HIDE DEF one
  <2> QED BY <1>1, <1>3
<1>6. ASSUME NEW n \in Nat, n + 1 <= L
      PROVE  data[n + 1] = one(data[n], n + 1)
  <2>1. n + 1 \in 0..L /\ n + 1 # 0 /\ (n + 1) - 1 = n
    BY <1>1, <1>6
  <2> HIDE DEF one
  <2>2. QED
    BY <2>1, <1>3
<1> DEFINE Typed == {n \in Nat : n <= L => data[n] \in Texts}
<1>7. 0 \in Typed
  <2>1. <<>> \in Texts
    BY DEF Texts
  <2>2. QED
    BY <1>5, <2>1
<1>8. ASSUME NEW n \in Nat, n \in Typed
      PROVE  n + 1 \in Typed
  <2>1. SUFFICES ASSUME n + 1 <= L PROVE one(data[n], n + 1) \in Texts
    <3> HIDE DEF one
    <3> QED BY <1>6
  <2>2. data[n] \in Texts
    BY <1>1, <1>8, <2>1
  <2>3. CASE n + 1 \in FieldLines(text, "data")
    <3>1. n + 1 \in NewLines(text) /\ LineAt(text, n + 1) # <<>>
      BY <2>3 DEF FieldLines
    <3>2. Tail(LineAt(text, n + 1)) \in Texts
      BY <3>1, LineShape
    <3>3. <<"nl">> \in Texts
      BY DEF Texts, Symbols
    <3>4. data[n] \o <<"nl">> \o Tail(LineAt(text, n + 1)) \in Texts
      BY <2>2, <3>2, <3>3, ConcatProperties DEF Texts
    <3>5. <<>> \in Texts
      BY DEF Texts
    <3>6. QED
      BY <2>3, <3>2, <3>4, <3>5
  <2>4. CASE n + 1 \notin FieldLines(text, "data")
    <3>1. <<>> \in Texts
      BY DEF Texts
    <3>2. QED
      BY <2>2, <2>4, <3>1
  <2>5. QED
    BY <2>3, <2>4
<1>9. Nat \subseteq Typed
  <2> HIDE DEF Typed
  <2> QED BY <1>7, <1>8, NatSetInduction
<1>10. \A n \in 0..L : data[n] \in Texts
  BY <1>1, <1>9
<1>11. QED
  BY <1>4, <1>5, <1>6, <1>10

\* There is no other newline between k, the start or a newline, and the newline p.
NextLine(text, k, p) ==
    /\ p \in NewLines(text)
    /\ k \in 0..(p - 1)
    /\ k = 0 \/ k \in NewLines(text)
    /\ \A i \in NewLines(text) : ~(k < i /\ i < p)

\* What is kept of the last lines changes with the lines only.
LEMMA LastValueNext ==
    ASSUME NEW text \in Texts, NEW field, NEW S \in SUBSET NewLines(text),
           NEW k \in Nat, NEW p, NextLine(text, k, p)
    PROVE  /\ p \in S => LastValue(text, field, S, p + 1) = <<>>
           /\ p \notin S /\ p \in FieldLines(text, field) =>
                 LastValue(text, field, S, p + 1) = Tail(LineAt(text, p))
           /\ p \notin S /\ p \notin FieldLines(text, field) =>
                 LastValue(text, field, S, p + 1) = LastValue(text, field, S, k + 1)
<1> DEFINE F == FieldLines(text, field)
<1>1. /\ p \in Nat /\ k < p
      /\ F \in SUBSET (Nat \ {0}) /\ S \in SUBSET (Nat \ {0})
      /\ F \in SUBSET NewLines(text)
  BY LinePositions DEF NextLine
<1>2. ASSUME NEW T \in SUBSET NewLines(text)
      PROVE  Before(T, p) = Before(T, k + 1)
  <2>1. \A i \in T : i \in Nat /\ ~(k < i /\ i < p)
    BY LinePositions DEF NextLine
  <2>2. \A i \in T : i < p <=> i < k + 1
    BY <1>1, <2>1
  <2>3. {i \in T : i < p} = {i \in T : i < k + 1}
    BY <2>2
  <2>4. QED
    BY <2>3, BeforeGap
<1>3. Before(F, p) = Before(F, k + 1) /\ Before(S, p) = Before(S, k + 1)
  BY <1>1, <1>2
<1>4. /\ Before(F, p + 1) \in Nat
      /\ Before(S, p) \in Nat
      /\ Before(F, p + 1) <= p /\ Before(S, p) < p
  <2>1. Before(F, p + 1) \in Nat /\ (Before(F, p + 1) = 0 \/ Before(F, p + 1) < p + 1)
    BY <1>1, BeforeShape
  <2>2. Before(S, p) \in Nat /\ (Before(S, p) = 0 \/ Before(S, p) < p)
    BY <1>1, BeforeShape
  <2>3. QED
    BY <1>1, <2>1, <2>2
<1>5. /\ p \in S => Before(S, p + 1) = p
      /\ p \notin S => Before(S, p + 1) = Before(S, p)
  BY <1>1, BeforeNext
<1>6. /\ p \in F => Before(F, p + 1) = p
      /\ p \notin F => Before(F, p + 1) = Before(F, p)
  BY <1>1, BeforeNext
<1>7. LastValue(text, field, S, p + 1) = IF Before(F, p + 1) > Before(S, p + 1)
                                         THEN Tail(LineAt(text, Before(F, p + 1))) ELSE <<>>
  BY DEF LastValue
<1>8. LastValue(text, field, S, k + 1) = IF Before(F, p) > Before(S, p)
                                         THEN Tail(LineAt(text, Before(F, p))) ELSE <<>>
  BY <1>3 DEF LastValue
<1> HIDE DEF F
<1>9. CASE p \in S
  <2>1. ~(Before(F, p + 1) > Before(S, p + 1))
    BY <1>1, <1>4, <1>5, <1>9
  <2>2. QED
    BY <1>7, <1>9, <2>1
<1>10. CASE p \notin S /\ p \in F
  <2>1. Before(F, p + 1) > Before(S, p + 1)
    BY <1>1, <1>4, <1>5, <1>6, <1>10
  <2>2. QED
    BY <1>6, <1>7, <1>10, <2>1 DEF F
<1>11. CASE p \notin S /\ p \notin F
  BY <1>5, <1>6, <1>7, <1>8, <1>11 DEF F
<1>12. QED
  BY <1>9, <1>10, <1>11

LEMMA LastValueType ==
    ASSUME NEW text \in Texts, NEW field, NEW S \in SUBSET NewLines(text), NEW i \in Nat
    PROVE  LastValue(text, field, S, i) \in Texts
<1> DEFINE F == FieldLines(text, field)
<1> DEFINE q == Before(F, i)
<1>1. F \in SUBSET (Nat \ {0}) /\ F \in SUBSET NewLines(text) /\ S \in SUBSET (Nat \ {0})
  BY LinePositions
<1>2. q \in Nat /\ Before(S, i) \in Nat /\ (q = 0 \/ q \in F)
  BY <1>1, BeforeShape
<1>3. CASE q > Before(S, i)
  <2>1. q \in NewLines(text) /\ LineAt(text, q) # <<>>
    BY <1>1, <1>2, <1>3 DEF FieldLines
  <2>2. Tail(LineAt(text, q)) \in Texts
    BY <2>1, LineShape
  <2>3. LastValue(text, field, S, i) = Tail(LineAt(text, q))
    BY <1>3 DEF LastValue
  <2>4. QED
    BY <2>2, <2>3
<1>4. CASE ~(q > Before(S, i))
  <2>1. LastValue(text, field, S, i) = <<>>
    BY <1>4 DEF LastValue
  <2>2. QED
    BY <2>1 DEF Texts
<1>5. QED
  BY <1>3, <1>4

\* Data changes with the lines only.
LEMMA DataSteady ==
    ASSUME NEW text \in Texts, NEW k \in Nat, NEW m \in Nat, k <= m, m <= Len(text),
           \A i \in NewLines(text) : ~(k < i /\ i <= m)
    PROVE  DataOf(text)[m] = DataOf(text)[k]
<1> DEFINE Same == {n \in Nat : k + n <= m => DataOf(text)[k + n] = DataOf(text)[k]}
<1>1. 0 \in Same
  OBVIOUS
<1>2. ASSUME NEW n \in Nat, n \in Same
      PROVE  n + 1 \in Same
  <2>1. SUFFICES ASSUME k + (n + 1) <= m PROVE DataOf(text)[k + (n + 1)] = DataOf(text)[k]
    OBVIOUS
  <2>2. k + n \in Nat /\ k + (n + 1) = (k + n) + 1 /\ (k + n) + 1 <= Len(text)
    BY <2>1, LinePositions
  <2>3. (k + n) + 1 \notin NewLines(text)
    BY <2>1
  <2>4. (k + n) + 1 \notin Blanks(text) /\ (k + n) + 1 \notin FieldLines(text, "data")
    BY <2>3, LinePositions
  <2>5. DataOf(text)[(k + n) + 1] = DataOf(text)[k + n]
    BY <2>2, <2>4, DataShape
  <2>6. DataOf(text)[k + n] = DataOf(text)[k]
    BY <1>2, <2>1
  <2>7. QED
    BY <2>2, <2>5, <2>6
<1>3. Nat \subseteq Same
  <2> HIDE DEF Same
  <2> QED BY <1>1, <1>2, NatSetInduction
<1>4. m - k \in Nat /\ k + (m - k) = m
  OBVIOUS
<1>5. m - k \in Same
  <2> HIDE DEF Same
  <2> QED BY <1>3, <1>4
<1>6. QED
  BY <1>4, <1>5

\* What the lines up to position k leave for the next event.
Pending(text, k) ==
    [type |-> LastValue(text, "event", Blanks(text), k + 1),
     id   |-> LastValue(text, "id", Ends(text), k + 1),
     data |-> DataOf(text)[k]]

\* The text of the next line is between its newline and the one before.
LEMMA NextLineShape ==
    ASSUME NEW text \in Texts, NEW k \in Nat, NEW p, NextLine(text, k, p)
    PROVE  /\ p \in 1..Len(text) /\ p - 1 \in Nat /\ (p - 1) + 1 = p /\ k <= p - 1
           /\ Before(NewLines(text), p) = k
           /\ LineAt(text, p) = SubSeq(text, k + 1, p - 1)
           /\ DataOf(text)[p - 1] = DataOf(text)[k]
<1>1. /\ p \in 1..Len(text) /\ Len(text) \in Nat /\ k < p
      /\ NewLines(text) \in SUBSET (Nat \ {0})
  BY LinePositions DEF NextLine
<1>2. p - 1 \in Nat /\ (p - 1) + 1 = p /\ k <= p - 1 /\ p - 1 <= Len(text)
  BY <1>1
<1>3. \A i \in NewLines(text) : i \in Nat /\ ~(k < i /\ i < p)
  BY <1>1 DEF NextLine
<1>4. Before(NewLines(text), p) = k
  <2>1. \A i \in NewLines(text) : i < p => i <= k
    BY <1>1, <1>3
  <2>2. k = 0 \/ (k \in NewLines(text) /\ k < p)
    BY <1>1 DEF NextLine
  <2>3. p \in Nat
    BY <1>1
  <2>4. QED
    BY <1>1, <2>1, <2>2, <2>3, BeforeUnique
<1>5. LineAt(text, p) = SubSeq(text, k + 1, p - 1)
  BY <1>4 DEF LineAt
<1>6. DataOf(text)[p - 1] = DataOf(text)[k]
  <2>1. \A i \in NewLines(text) : ~(k < i /\ i <= p - 1)
    BY <1>1, <1>3
  <2>2. QED
    BY <1>2, <2>1, DataSteady
<1>7. QED
  BY <1>1, <1>2, <1>4, <1>5, <1>6

\* What a line makes of the pending event now.
LineMakes(text, p, line, now) ==
    /\ line = <<>> /\ now.data = <<>> =>
          p \notin Ends(text) /\ Pending(text, p) = [now EXCEPT !.type = <<>>]
    /\ line = <<>> /\ now.data # <<>> =>
          /\ p \in Ends(text)
          /\ Pending(text, p) = Empty
          /\ EventAt(text, p) =
                [now EXCEPT !.type = IF @ = <<>> THEN <<"message">> ELSE @]
    /\ line # <<>> =>
          /\ p \notin Ends(text)
          /\ Pending(text, p) =
                CASE line[1] = "event" -> [now EXCEPT !.type = Tail(line)]
                  [] line[1] = "id"    -> [now EXCEPT !.id = Tail(line)]
                  [] line[1] = "data"  -> [now EXCEPT !.data =
                                              IF @ = <<>> THEN Tail(line)
                                              ELSE @ \o <<"nl">> \o Tail(line)]
                  [] OTHER             -> now

\* What the next line does to what is pending, and whether it ends an event.
LEMMA LineStep ==
    ASSUME NEW text \in Texts, NEW k \in Nat, NEW p, NextLine(text, k, p)
    PROVE  LineMakes(text, p, SubSeq(text, k + 1, p - 1), Pending(text, k))
<1> DEFINE line == SubSeq(text, k + 1, p - 1)
<1> DEFINE now == Pending(text, k)
<1>1. /\ p \in 1..Len(text) /\ p - 1 \in Nat /\ (p - 1) + 1 = p
      /\ line = LineAt(text, p)
      /\ DataOf(text)[p - 1] = DataOf(text)[k]
  BY NextLineShape
<1> HIDE DEF line
<1>2. p \in NewLines(text) /\ Len(text) \in Nat
  BY LinePositions DEF NextLine
<1>3. /\ p \in Blanks(text) <=> line = <<>>
      /\ p \in Ends(text) <=> line = <<>> /\ DataOf(text)[k] # <<>>
      /\ \A field : p \in FieldLines(text, field) <=> line # <<>> /\ line[1] = field
  BY <1>1, <1>2 DEF Blanks, Ends, FieldLines
<1>4. /\ now = [type |-> now.type, id |-> now.id, data |-> now.data]
      /\ now.type = LastValue(text, "event", Blanks(text), k + 1)
      /\ now.id = LastValue(text, "id", Ends(text), k + 1)
      /\ now.data = DataOf(text)[k]
  BY DEF Pending
<1> SUFFICES LineMakes(text, p, line, now)
  BY DEF line
<1> HIDE DEF now
<1>5. Blanks(text) \in SUBSET NewLines(text) /\ Ends(text) \in SUBSET NewLines(text)
  BY LinePositions
<1>6. ASSUME NEW field, NEW S \in SUBSET NewLines(text)
      PROVE  /\ p \in S => LastValue(text, field, S, p + 1) = <<>>
             /\ p \notin S /\ p \in FieldLines(text, field) =>
                   LastValue(text, field, S, p + 1) = Tail(LineAt(text, p))
             /\ p \notin S /\ p \notin FieldLines(text, field) =>
                   LastValue(text, field, S, p + 1) = LastValue(text, field, S, k + 1)
  BY LastValueNext
<1>7. LastValue(text, "event", Blanks(text), p + 1) =
          IF line = <<>> THEN <<>> ELSE IF line[1] = "event" THEN Tail(line) ELSE now.type
  <2>1. LastValue(text, "event", Blanks(text), p + 1) =
            IF p \in Blanks(text) THEN <<>>
            ELSE IF p \in FieldLines(text, "event") THEN Tail(LineAt(text, p))
            ELSE LastValue(text, "event", Blanks(text), k + 1)
    BY <1>5, <1>6
  <2>2. QED
    BY <1>1, <1>3, <1>4, <2>1
<1>8. LastValue(text, "id", Ends(text), p + 1) =
          IF p \in Ends(text) THEN <<>>
          ELSE IF line # <<>> /\ line[1] = "id" THEN Tail(line) ELSE now.id
  <2>1. LastValue(text, "id", Ends(text), p + 1) =
            IF p \in Ends(text) THEN <<>>
            ELSE IF p \in FieldLines(text, "id") THEN Tail(LineAt(text, p))
            ELSE LastValue(text, "id", Ends(text), k + 1)
    BY <1>5, <1>6
  <2>2. QED
    BY <1>1, <1>3, <1>4, <2>1
<1>9. DataOf(text)[p] = IF line = <<>> THEN <<>>
                        ELSE IF line[1] # "data" THEN now.data
                        ELSE IF now.data = <<>> THEN Tail(line)
                        ELSE now.data \o <<"nl">> \o Tail(line)
  <2>1. DataOf(text)[p] = IF p \in Blanks(text) THEN <<>>
                          ELSE IF p \notin FieldLines(text, "data") THEN DataOf(text)[p - 1]
                          ELSE IF DataOf(text)[p - 1] = <<>> THEN Tail(LineAt(text, p))
                          ELSE DataOf(text)[p - 1] \o <<"nl">> \o Tail(LineAt(text, p))
    <3>1. p - 1 \in Nat /\ (p - 1) + 1 <= Len(text)
      BY <1>1, <1>2
    <3>2. QED
      BY <1>1, <3>1, DataShape
  <2>2. QED
    BY <1>1, <1>3, <1>4, <2>1
<1>10. Pending(text, p) = [type |-> LastValue(text, "event", Blanks(text), p + 1),
                          id |-> LastValue(text, "id", Ends(text), p + 1),
                          data |-> DataOf(text)[p]]
  BY DEF Pending
<1>11. CASE line = <<>> /\ now.data = <<>>
  <2>1. p \notin Ends(text) /\ ~(line # <<>> /\ line[1] = "id")
    BY <1>3, <1>4, <1>11
  <2>2. Pending(text, p) = [type |-> <<>>, id |-> now.id, data |-> <<>>]
    BY <1>7, <1>8, <1>9, <1>10, <1>11, <2>1
  <2>3. [now EXCEPT !.type = <<>>] = [type |-> <<>>, id |-> now.id, data |-> now.data]
    BY <1>4
  <2>4. QED
    BY <1>11, <2>1, <2>2, <2>3 DEF LineMakes
<1>12. CASE line = <<>> /\ now.data # <<>>
  <2>1. p \in Ends(text)
    BY <1>3, <1>4, <1>12
  <2>2. Pending(text, p) = Empty
    BY <1>7, <1>8, <1>9, <1>10, <1>12, <2>1 DEF Empty
  <2>3. ASSUME NEW field, NEW S \in SUBSET NewLines(text)
        PROVE  LastValue(text, field, S, p) = LastValue(text, field, S, k + 1)
    <3>1. ASSUME NEW T \in SUBSET NewLines(text)
          PROVE  Before(T, p) = Before(T, k + 1)
      <4>1. \A i \in T : i \in Nat /\ ~(k < i /\ i < p)
        BY LinePositions DEF NextLine
      <4>2. \A i \in T : i < p <=> i < k + 1
        BY <1>1, <4>1 DEF NextLine
      <4>3. {i \in T : i < p} = {i \in T : i < k + 1}
        BY <4>2
      <4>4. QED
        BY <4>3, BeforeGap
    <3>2. FieldLines(text, field) \in SUBSET NewLines(text)
      BY LinePositions
    <3>3. QED
      BY <3>1, <3>2 DEF LastValue
  <2>4. /\ LastValue(text, "event", Blanks(text), p) = now.type
        /\ LastValue(text, "id", Ends(text), p) = now.id
    BY <1>4, <1>5, <2>3
  <2>5. EventAt(text, p) = [type |-> IF now.type = <<>> THEN <<"message">> ELSE now.type,
                            id |-> now.id, data |-> now.data]
    BY <1>1, <1>4, <2>4 DEF EventAt
  <2>6. [now EXCEPT !.type = IF @ = <<>> THEN <<"message">> ELSE @] =
            [type |-> IF now.type = <<>> THEN <<"message">> ELSE now.type,
             id |-> now.id, data |-> now.data]
    BY <1>4
  <2>7. QED
    BY <1>12, <2>1, <2>2, <2>5, <2>6 DEF LineMakes
<1>13. CASE line # <<>>
  <2>1. p \notin Ends(text)
    BY <1>3, <1>13
  <2>2. Pending(text, p) =
            [type |-> IF line[1] = "event" THEN Tail(line) ELSE now.type,
             id   |-> IF line[1] = "id" THEN Tail(line) ELSE now.id,
             data |-> IF line[1] # "data" THEN now.data
                      ELSE IF now.data = <<>> THEN Tail(line)
                      ELSE now.data \o <<"nl">> \o Tail(line)]
    BY <1>7, <1>8, <1>9, <1>10, <1>13, <2>1
  <2>3. CASE line[1] = "event"
    BY <1>4, <1>13, <2>1, <2>2, <2>3 DEF LineMakes
  <2>4. CASE line[1] = "id"
    BY <1>4, <1>13, <2>1, <2>2, <2>4 DEF LineMakes
  <2>5. CASE line[1] = "data"
    <3> DEFINE d == IF now.data = <<>> THEN Tail(line)
                    ELSE now.data \o <<"nl">> \o Tail(line)
    <3> DEFINE then == [now EXCEPT !.data = d]
    <3>1. Pending(text, p) = [type |-> now.type, id |-> now.id, data |-> d]
      BY <2>2, <2>5
    <3> HIDE DEF d
    <3>2. then = Pending(text, p)
      BY <1>4, <3>1
    <3> HIDE DEF then
    <3>3. Pending(text, p) = CASE line[1] = "event" -> [now EXCEPT !.type = Tail(line)]
                               [] line[1] = "id"    -> [now EXCEPT !.id = Tail(line)]
                               [] line[1] = "data"  -> then
                               [] OTHER             -> now
      BY <2>5, <3>2
    <3>4. QED
      BY <1>13, <2>1, <3>3 DEF LineMakes, then, d
  <2>6. CASE line[1] \notin {"event", "id", "data"}
    BY <1>4, <1>13, <2>1, <2>2, <2>6 DEF LineMakes
  <2>7. QED
    BY <2>3, <2>4, <2>5, <2>6
<1>14. QED
  BY <1>11, <1>12, <1>13

-----------------------------------------------------------------------------
(* The events of a text, in order *)

EndsTo(text, k) == Ends(text) \cap (1..k)

\* The events that end by position k.
EventsTo(text, k) ==
    [n \in 1..Cardinality(EndsTo(text, k)) |-> EventAt(text, Nth(EndsTo(text, k), n))]

LEMMA EventsToShape ==
    ASSUME NEW text \in Texts, NEW k \in Nat
    PROVE  /\ IsFiniteSet(EndsTo(text, k))
           /\ Cardinality(EndsTo(text, k)) \in Nat
           /\ Len(EventsTo(text, k)) = Cardinality(EndsTo(text, k))
           /\ DOMAIN EventsTo(text, k) = 1..Len(EventsTo(text, k))
<1>1. IsFiniteSet(1..k)
  BY FS_Interval
<1>2. IsFiniteSet(EndsTo(text, k)) /\ Cardinality(EndsTo(text, k)) \in Nat
  BY <1>1, FS_Subset, FS_CardinalityType DEF EndsTo
<1>3. QED
  BY <1>2 DEF EventsTo

\* One position more ends one event more, or none.
LEMMA EventsToNext ==
    ASSUME NEW text \in Texts, NEW k \in Nat
    PROVE  /\ k + 1 \notin Ends(text) => EventsTo(text, k + 1) = EventsTo(text, k)
           /\ k + 1 \in Ends(text) =>
                 EventsTo(text, k + 1) = Append(EventsTo(text, k), EventAt(text, k + 1))
<1> DEFINE S == EndsTo(text, k)
<1>1. 1..(k + 1) = (1..k) \cup {k + 1}
  OBVIOUS
<1>2. CASE k + 1 \notin Ends(text)
  <2>1. EndsTo(text, k + 1) = EndsTo(text, k)
    BY <1>1, <1>2 DEF EndsTo
  <2>2. QED
    BY <1>2, <2>1 DEF EventsTo
<1>3. CASE k + 1 \in Ends(text)
  <2>1. EndsTo(text, k + 1) = S \cup {k + 1}
    BY <1>1, <1>3 DEF EndsTo
  <2>2. IsFiniteSet(S) /\ S \in SUBSET Nat /\ \A j \in S : j < k + 1
    BY EventsToShape DEF EndsTo
  <2>3. /\ Cardinality(S) \in Nat
        /\ Cardinality(EndsTo(text, k + 1)) = Cardinality(S) + 1
        /\ Nth(EndsTo(text, k + 1), Cardinality(S) + 1) = k + 1
        /\ \A n \in 1..Cardinality(S) : Nth(EndsTo(text, k + 1), n) = Nth(S, n)
    <3>1. k + 1 \in Nat
      OBVIOUS
    <3> HIDE DEF S
    <3>2. QED
      BY <2>1, <2>2, <3>1, NthOfMore
  <2> DEFINE N == Cardinality(S)
  <2>4. EventsTo(text, k + 1) = [n \in 1..(N + 1) |-> EventAt(text, Nth(EndsTo(text, k + 1), n))]
    BY <2>3 DEF EventsTo
  <2>5. EventsTo(text, k) = [n \in 1..N |-> EventAt(text, Nth(S, n))]
    BY DEF EventsTo
  <2> HIDE DEF N, S
  <2>6. Append(EventsTo(text, k), EventAt(text, k + 1)) =
            [n \in 1..(N + 1) |-> IF n = N + 1 THEN EventAt(text, k + 1)
                                  ELSE EventAt(text, Nth(S, n))]
    <3>1. N \in Nat /\ Len(EventsTo(text, k)) = N
      BY <2>3, <2>5 DEF N
    <3>2. QED
      BY <2>5, <3>1
  <2>7. \A n \in 1..(N + 1) : EventAt(text, Nth(EndsTo(text, k + 1), n)) =
            IF n = N + 1 THEN EventAt(text, k + 1) ELSE EventAt(text, Nth(S, n))
    <3>1. ASSUME NEW n \in 1..(N + 1), n # N + 1 PROVE n \in 1..N
      BY <2>3, <3>1 DEF N
    <3>2. QED
      BY <2>3, <3>1 DEF N
  <2>8. QED
    BY <1>3, <2>4, <2>6, <2>7
<1>4. QED
  BY <1>2, <1>3

EventSet == [type : Texts, id : Texts, data : Texts]

LEMMA EventType ==
    ASSUME NEW text \in Texts, NEW p \in Ends(text)
    PROVE  EventAt(text, p) \in EventSet
<1>1. /\ p \in Nat /\ p - 1 \in 0..Len(text)
      /\ Blanks(text) \in SUBSET NewLines(text) /\ Ends(text) \in SUBSET NewLines(text)
  BY LinePositions
<1>2. /\ LastValue(text, "event", Blanks(text), p) \in Texts
      /\ LastValue(text, "id", Ends(text), p) \in Texts
  BY <1>1, LastValueType
<1>3. DataOf(text)[p - 1] \in Texts
  BY <1>1, DataShape
<1>4. <<"message">> \in Texts
  BY DEF Texts, Symbols
<1>5. QED
  BY <1>2, <1>3, <1>4 DEF EventAt, EventSet

LEMMA EventsToType ==
    ASSUME NEW text \in Texts
    PROVE  \A k \in Nat : EventsTo(text, k) \in Seq(EventSet)
<1> DEFINE Typed == {k \in Nat : EventsTo(text, k) \in Seq(EventSet)}
<1>1. 0 \in Typed
  <2>1. EndsTo(text, 0) = {}
    BY DEF EndsTo
  <2>2. Cardinality(EndsTo(text, 0)) = 0
    BY <2>1, FS_EmptySet
  <2>3. EventsTo(text, 0) = <<>>
    BY <2>2 DEF EventsTo
  <2>4. <<>> \in Seq(EventSet)
    OBVIOUS
  <2>5. QED
    BY <2>3, <2>4
<1>2. ASSUME NEW k \in Nat, k \in Typed
      PROVE  k + 1 \in Typed
  <2>1. CASE k + 1 \notin Ends(text)
    BY <1>2, <2>1, EventsToNext
  <2>2. CASE k + 1 \in Ends(text)
    <3>1. EventAt(text, k + 1) \in EventSet
      BY <2>2, EventType
    <3>2. EventsTo(text, k + 1) = Append(EventsTo(text, k), EventAt(text, k + 1))
      BY <2>2, EventsToNext
    <3>3. Append(EventsTo(text, k), EventAt(text, k + 1)) \in Seq(EventSet)
      BY <1>2, <3>1, AppendProperties
    <3>4. QED
      BY <3>2, <3>3
  <2>3. QED
    BY <2>1, <2>2
<1>3. Nat \subseteq Typed
  <2> HIDE DEF Typed
  <2> QED BY <1>1, <1>2, NatSetInduction
<1>4. QED
  BY <1>3

\* Between two newlines no event ends.
LEMMA EventsToSteady ==
    ASSUME NEW text \in Texts, NEW k \in Nat, NEW m \in Nat, k <= m,
           \A i \in NewLines(text) : ~(k < i /\ i <= m)
    PROVE  EventsTo(text, m) = EventsTo(text, k)
<1>1. \A i \in Ends(text) : i \in Nat /\ ~(k < i /\ i <= m)
  BY LinePositions
<1>2. \A i \in Ends(text) : i \in 1..m <=> i \in 1..k
  BY <1>1
<1>3. EndsTo(text, m) = EndsTo(text, k)
  BY <1>2 DEF EndsTo
<1>4. QED
  BY <1>3 DEF EventsTo

\* The next line ends one event, or none.
LEMMA EventsToLine ==
    ASSUME NEW text \in Texts, NEW k \in Nat, NEW p, NextLine(text, k, p)
    PROVE  /\ p \notin Ends(text) => EventsTo(text, p) = EventsTo(text, k)
           /\ p \in Ends(text) => EventsTo(text, p) = Append(EventsTo(text, k), EventAt(text, p))
<1>1. p - 1 \in Nat /\ (p - 1) + 1 = p /\ k <= p - 1 /\ p \in Nat
  BY NextLineShape
<1>2. EventsTo(text, p - 1) = EventsTo(text, k)
  <2>1. \A i \in NewLines(text) : i \in Nat
    BY LinePositions
  <2>2. \A i \in NewLines(text) : ~(k < i /\ i <= p - 1)
    BY <1>1, <2>1 DEF NextLine
  <2>3. QED
    BY <1>1, <2>2, EventsToSteady
<1> DEFINE q == p - 1
<1>3. q \in Nat /\ q + 1 = p
  BY <1>1
<1> HIDE DEF q
<1>4. /\ p \notin Ends(text) => EventsTo(text, p) = EventsTo(text, q)
      /\ p \in Ends(text) => EventsTo(text, p) = Append(EventsTo(text, q), EventAt(text, p))
  BY <1>3, EventsToNext
<1>5. QED
  BY <1>2, <1>4 DEF q

\* Later positions have the same events first.
LEMMA EventsToGrow ==
    ASSUME NEW text \in Texts, NEW k \in Nat, NEW m \in Nat, k <= m
    PROVE  /\ Len(EventsTo(text, k)) <= Len(EventsTo(text, m))
           /\ \A n \in 1..Len(EventsTo(text, k)) : EventsTo(text, m)[n] = EventsTo(text, k)[n]
<1> DEFINE E(i) == EventsTo(text, i)
<1> DEFINE Grown == {i \in Nat : /\ Len(E(k)) <= Len(E(k + i))
                                 /\ \A n \in 1..Len(E(k)) : E(k + i)[n] = E(k)[n]}
<1>1. \A i \in Nat : Len(E(i)) \in Nat /\ DOMAIN E(i) = 1..Len(E(i))
  BY EventsToShape
<1>2. 0 \in Grown
  BY <1>1
<1>3. ASSUME NEW i \in Nat, i \in Grown
      PROVE  i + 1 \in Grown
  <2>1. k + i \in Nat /\ k + (i + 1) = (k + i) + 1
    OBVIOUS
  <2>2. CASE (k + i) + 1 \notin Ends(text)
    BY <1>3, <2>1, <2>2, EventsToNext
  <2>3. CASE (k + i) + 1 \in Ends(text)
    <3> DEFINE s == E(k + i)
    <3> DEFINE e == EventAt(text, (k + i) + 1)
    <3>1. /\ E(k) \in Seq(EventSet) /\ s \in Seq(EventSet)
          /\ Len(E(k)) <= Len(s) /\ \A n \in 1..Len(E(k)) : s[n] = E(k)[n]
      BY <1>3, <2>1, EventsToType
    <3>2. E(k + (i + 1)) = Append(s, e) /\ e \in EventSet
      BY <2>1, <2>3, EventsToNext, EventType
    <3> HIDE DEF s, e, E
    <3>3. Len(Append(s, e)) = Len(s) + 1 /\ \A n \in 1..Len(s) : Append(s, e)[n] = s[n]
      BY <3>1, <3>2, AppendProperties
    <3>4. Len(E(k)) \in Nat /\ Len(s) \in Nat
      BY <3>1
    <3>5. \A n \in 1..Len(E(k)) : n \in 1..Len(s)
      BY <3>1, <3>4
    <3>6. /\ Len(E(k)) <= Len(E(k + (i + 1)))
          /\ \A n \in 1..Len(E(k)) : E(k + (i + 1))[n] = E(k)[n]
      BY <3>1, <3>2, <3>3, <3>4, <3>5
    <3>7. QED
      BY <3>6
  <2>4. QED
    BY <2>2, <2>3
<1>4. Nat \subseteq Grown
  <2> HIDE DEF Grown
  <2> QED BY <1>2, <1>3, NatSetInduction
<1>5. m - k \in Nat /\ k + (m - k) = m
  OBVIOUS
<1>6. m - k \in Grown
  <2> HIDE DEF Grown
  <2> QED BY <1>4, <1>5
<1>7. QED
  BY <1>5, <1>6

\* All events end by the end of the text.
LEMMA EventsToEnd ==
    ASSUME NEW text \in Texts
    PROVE  EventsTo(text, Len(text)) = Events(text)
<1>1. EndsTo(text, Len(text)) = Ends(text)
  BY LinePositions DEF EndsTo
<1>2. QED
  BY <1>1 DEF EventsTo, Events

-----------------------------------------------------------------------------
(* Blurred texts *)

LEMMA BlurShape ==
    ASSUME NEW text \in Texts
    PROVE  /\ Blur(text) \in Texts
           /\ Len(Blur(text)) = Len(text) /\ DOMAIN Blur(text) = 1..Len(text)
           /\ \A i \in 1..Len(text) :
                 Blur(text)[i] = IF text[i] \in {"m1", "m2"} THEN "?" ELSE text[i]
           /\ Blur(text) = <<>> <=> text = <<>>
<1>1. Len(text) \in Nat /\ DOMAIN text = 1..Len(text) /\ \A i \in 1..Len(text) : text[i] \in Symbols
  BY DEF Texts
<1>2. Blur(text) = [i \in 1..Len(text) |-> IF text[i] \in {"m1", "m2"} THEN "?" ELSE text[i]]
  BY <1>1 DEF Blur
<1>3. \A i \in 1..Len(text) : (IF text[i] \in {"m1", "m2"} THEN "?" ELSE text[i]) \in Symbols
  BY <1>1 DEF Symbols
<1>4. Blur(text) \in Texts
  BY <1>1, <1>2, <1>3, IsASeq DEF Texts
<1>5. Len(Blur(text)) = Len(text) /\ DOMAIN Blur(text) = 1..Len(text)
  BY <1>1, <1>2
<1>6. Blur(text) = <<>> <=> text = <<>>
  BY <1>4, <1>5, EmptySeq DEF Texts
<1>7. QED
  BY <1>2, <1>4, <1>5, <1>6

\* A symbol is blurred by itself.
LEMMA BlurEqual ==
    ASSUME NEW s \in Texts, NEW t \in Texts, Len(s) = Len(t),
           \A i \in 1..Len(s) : s[i] = IF t[i] \in {"m1", "m2"} THEN "?" ELSE t[i]
    PROVE  s = Blur(t)
<1>1. Blur(t) \in Texts /\ Len(Blur(t)) = Len(s)
  BY BlurShape
<1>2. \A i \in 1..Len(s) : s[i] = Blur(t)[i]
  BY BlurShape
<1>3. QED
  BY <1>1, <1>2, SeqEqual DEF Texts

LEMMA BlurPart ==
    ASSUME NEW text \in Texts, NEW k \in Nat, NEW m \in Nat, k <= m, m <= Len(text)
    PROVE  SubSeq(Blur(text), k + 1, m) = Blur(SubSeq(text, k + 1, m))
<1>1. Blur(text) \in Texts /\ Len(Blur(text)) = Len(text)
  BY BlurShape
<1> DEFINE s == SubSeq(Blur(text), k + 1, m)
<1> DEFINE t == SubSeq(text, k + 1, m)
<1>2. /\ t \in Texts /\ Len(t) = m - k
      /\ \A i \in 1..(m - k) : t[i] = text[k + i]
  BY PartShape
<1>3. /\ s \in Texts /\ Len(s) = m - k
      /\ \A i \in 1..(m - k) : s[i] = Blur(text)[k + i]
  BY <1>1, PartShape
<1>4. \A i \in 1..(m - k) : k + i \in 1..Len(text)
  BY DEF Texts
<1> HIDE DEF s, t
<1>5. \A i \in 1..Len(s) : s[i] = IF t[i] \in {"m1", "m2"} THEN "?" ELSE t[i]
  <2> SUFFICES ASSUME NEW i \in 1..Len(s)
               PROVE  s[i] = IF t[i] \in {"m1", "m2"} THEN "?" ELSE t[i]
    OBVIOUS
  <2>1. s[i] = Blur(text)[k + i] /\ t[i] = text[k + i] /\ k + i \in 1..Len(text)
    BY <1>2, <1>3, <1>4
  <2>2. QED
    BY <2>1, BlurShape
<1>6. s = Blur(t)
  BY <1>2, <1>3, <1>5, BlurEqual
<1>7. QED
  BY <1>6 DEF s, t

LEMMA BlurTail ==
    ASSUME NEW text \in Texts, text # <<>>
    PROVE  Tail(Blur(text)) = Blur(Tail(text))
<1>1. Len(text) \in Nat /\ Len(text) # 0 /\ 1 <= Len(text)
  BY EmptySeq DEF Texts
<1>2. Tail(text) = SubSeq(text, 1 + 1, Len(text))
  BY <1>1, TailIsSubSeq DEF Texts
<1>3. Tail(Blur(text)) = SubSeq(Blur(text), 1 + 1, Len(text))
  BY <1>1, BlurShape, TailIsSubSeq DEF Texts
<1>4. PICK one \in Nat : one = 1
  OBVIOUS
<1>5. SubSeq(Blur(text), one + 1, Len(text)) = Blur(SubSeq(text, one + 1, Len(text)))
  <2>1. one <= Len(text)
    BY <1>1, <1>4
  <2>2. QED
    BY <1>1, <2>1, BlurPart
<1>6. QED
  BY <1>2, <1>3, <1>4, <1>5

LEMMA BlurConcat ==
    ASSUME NEW s \in Texts, NEW t \in Texts
    PROVE  /\ s \o t \in Texts
           /\ Blur(s \o t) = Blur(s) \o Blur(t)
<1>1. /\ s \o t \in Texts /\ Len(s \o t) = Len(s) + Len(t)
      /\ \A i \in 1..(Len(s) + Len(t)) :
            (s \o t)[i] = IF i <= Len(s) THEN s[i] ELSE t[i - Len(s)]
  BY ConcatProperties DEF Texts
<1>2. /\ Blur(s) \o Blur(t) \in Texts /\ Len(Blur(s) \o Blur(t)) = Len(s) + Len(t)
      /\ \A i \in 1..(Len(s) + Len(t)) :
            (Blur(s) \o Blur(t))[i] = IF i <= Len(s) THEN Blur(s)[i] ELSE Blur(t)[i - Len(s)]
  <2> DEFINE b == Blur(s)
  <2> DEFINE c == Blur(t)
  <2>1. b \in Texts /\ Len(b) = Len(s) /\ c \in Texts /\ Len(c) = Len(t)
    BY BlurShape
  <2> HIDE DEF b, c
  <2>2. /\ b \o c \in Texts /\ Len(b \o c) = Len(b) + Len(c)
        /\ \A i \in 1..(Len(b) + Len(c)) :
              (b \o c)[i] = IF i <= Len(b) THEN b[i] ELSE c[i - Len(b)]
    BY <2>1, ConcatProperties DEF Texts
  <2>3. QED
    BY <2>1, <2>2 DEF b, c
<1> DEFINE both == s \o t
<1> DEFINE blurred == Blur(s) \o Blur(t)
<1>3. Len(s) \in Nat /\ Len(t) \in Nat
  BY DEF Texts
<1>4. ASSUME NEW i \in 1..(Len(s) + Len(t))
      PROVE  blurred[i] = IF both[i] \in {"m1", "m2"} THEN "?" ELSE both[i]
  <2>1. CASE i <= Len(s)
    <3>1. i \in 1..Len(s)
      BY <1>3, <2>1
    <3>2. blurred[i] = Blur(s)[i] /\ both[i] = s[i]
      BY <1>1, <1>2, <2>1
    <3> HIDE DEF both, blurred
    <3>3. QED
      BY <3>1, <3>2, BlurShape
  <2>2. CASE ~(i <= Len(s))
    <3>1. i - Len(s) \in 1..Len(t)
      BY <1>3, <2>2
    <3>2. blurred[i] = Blur(t)[i - Len(s)] /\ both[i] = t[i - Len(s)]
      BY <1>1, <1>2, <2>2
    <3> HIDE DEF both, blurred
    <3>3. QED
      BY <3>1, <3>2, BlurShape
  <2>3. QED
    BY <2>1, <2>2
<1>5. blurred = Blur(both)
  <2>1. /\ both \in Texts /\ blurred \in Texts
        /\ Len(blurred) = Len(both) /\ Len(blurred) = Len(s) + Len(t)
    BY <1>1, <1>2
  <2> HIDE DEF both, blurred
  <2>2. QED
    BY <1>4, <2>1, BlurEqual
<1>6. QED
  BY <1>1, <1>5

\* Blurring leaves newlines and fields where they are.
LEMMA BlurLines ==
    ASSUME NEW text \in Texts
    PROVE  /\ NewLines(Blur(text)) = NewLines(text)
           /\ \A p \in NewLines(text) : LineAt(Blur(text), p) = Blur(LineAt(text, p))
           /\ Blanks(Blur(text)) = Blanks(text)
           /\ \A field \in {"data", "event", "id"} :
                 FieldLines(Blur(text), field) = FieldLines(text, field)
<1> DEFINE blurred == Blur(text)
<1>1. /\ blurred \in Texts /\ DOMAIN blurred = 1..Len(text) /\ Len(blurred) = Len(text)
      /\ \A i \in 1..Len(text) :
            blurred[i] = IF text[i] \in {"m1", "m2"} THEN "?" ELSE text[i]
  BY BlurShape
<1>2. DOMAIN text = 1..Len(text)
  BY LinePositions
<1>3. NewLines(blurred) = NewLines(text)
  <2> HIDE DEF blurred
  <2>1. \A i \in 1..Len(text) : blurred[i] = "nl" <=> text[i] = "nl"
    BY <1>1
  <2>2. QED
    BY <1>1, <1>2, <2>1 DEF NewLines
<1>4. ASSUME NEW p \in NewLines(text)
      PROVE  LineAt(blurred, p) = Blur(LineAt(text, p))
  <2> DEFINE k == Before(NewLines(text), p)
  <2>1. k \in 0..(p - 1) /\ p \in 1..Len(text) /\ Len(text) \in Nat
    BY LineShape, LinePositions
  <2>2. /\ LineAt(text, p) = SubSeq(text, k + 1, p - 1)
        /\ LineAt(blurred, p) = SubSeq(blurred, k + 1, p - 1)
    BY <1>3 DEF LineAt
  <2> HIDE DEF k
  <2>3. k \in Nat /\ p - 1 \in Nat /\ k <= p - 1 /\ p - 1 <= Len(text)
    BY <2>1
  <2>4. SubSeq(blurred, k + 1, p - 1) = Blur(SubSeq(text, k + 1, p - 1))
    BY <2>3, BlurPart
  <2>5. QED
    BY <2>2, <2>4
<1>5. \A p \in NewLines(text) : LineAt(text, p) \in Texts
  BY LineShape
<1>6. \A p \in NewLines(text) : LineAt(blurred, p) = <<>> <=> LineAt(text, p) = <<>>
  BY <1>4, <1>5, BlurShape
<1>7. Blanks(blurred) = Blanks(text)
  BY <1>3, <1>6 DEF Blanks
<1>8. ASSUME NEW field \in {"data", "event", "id"}
      PROVE  FieldLines(blurred, field) = FieldLines(text, field)
  <2>1. ASSUME NEW p \in NewLines(text), LineAt(text, p) # <<>>
        PROVE  LineAt(blurred, p)[1] = field <=> LineAt(text, p)[1] = field
    <3> DEFINE line == LineAt(text, p)
    <3>1. line \in Texts /\ LineAt(blurred, p) = Blur(line) /\ line # <<>>
      BY <1>4, <1>5, <2>1
    <3> HIDE DEF line
    <3>2. 1 \in 1..Len(line)
      BY <3>1, EmptySeq DEF Texts
    <3>3. Blur(line)[1] = IF line[1] \in {"m1", "m2"} THEN "?" ELSE line[1]
      BY <3>1, <3>2, BlurShape
    <3>4. QED
      BY <3>1, <3>3 DEF line
  <2> HIDE DEF blurred
  <2>2. QED
    BY <1>3, <1>6, <2>1 DEF FieldLines
<1>9. QED
  BY <1>3, <1>4, <1>7, <1>8

\* A symbol of its own, and an empty text, stay as they are.
LEMMA BlurBase ==
    /\ <<>> \in Texts /\ Blur(<<>>) = <<>>
    /\ \A c \in Symbols \ {"m1", "m2"} : <<c>> \in Texts /\ Blur(<<c>>) = <<c>>
<1>1. <<>> \in Texts
  BY DEF Texts
<1>2. Blur(<<>>) = <<>>
  BY <1>1, BlurShape
<1>3. ASSUME NEW c \in Symbols \ {"m1", "m2"}
      PROVE  <<c>> \in Texts /\ Blur(<<c>>) = <<c>>
  <2>1. <<c>> \in Texts
    BY DEF Texts
  <2>2. Len(<<c>>) = 1 /\ <<c>>[1] = c
    OBVIOUS
  <2>3. <<c>> = Blur(<<c>>)
    BY <2>1, <2>2, BlurEqual
  <2>4. QED
    BY <2>1, <2>3
<1>4. QED
  BY <1>1, <1>2, <1>3

\* So the data, the ends of events and the values of the fields are those of the text.
LEMMA BlurData ==
    ASSUME NEW text \in Texts
    PROVE  /\ \A n \in 0..Len(text) : DataOf(Blur(text))[n] = Blur(DataOf(text)[n])
           /\ Ends(Blur(text)) = Ends(text)
<1> DEFINE blurred == Blur(text)
<1> DEFINE L == Len(text)
<1>1. blurred \in Texts /\ Len(blurred) = L /\ L \in Nat
  BY BlurShape, LinePositions
<1> HIDE DEF blurred, L
<1>2. \A n \in 0..L : DataOf(text)[n] \in Texts /\ DataOf(blurred)[n] \in Texts
  BY <1>1, DataShape DEF L
<1> DEFINE Same == {n \in Nat : n <= L => DataOf(blurred)[n] = Blur(DataOf(text)[n])}
<1>3. 0 \in Same
  <2>1. DataOf(blurred)[0] = <<>> /\ DataOf(text)[0] = <<>>
    BY <1>1, DataShape
  <2>2. QED
    BY <2>1, BlurBase
<1>4. ASSUME NEW n \in Nat, n \in Same
      PROVE  n + 1 \in Same
  <2> SUFFICES ASSUME n + 1 <= L PROVE DataOf(blurred)[n + 1] = Blur(DataOf(text)[n + 1])
    OBVIOUS
  <2> DEFINE d == DataOf(text)[n]
  <2> DEFINE e == DataOf(blurred)[n]
  <2>1. d \in Texts /\ e \in Texts /\ e = Blur(d) /\ n \in 0..L
    BY <1>1, <1>2, <1>4
  <2>2. DataOf(text)[n + 1] = IF n + 1 \in Blanks(text) THEN <<>>
                              ELSE IF n + 1 \notin FieldLines(text, "data") THEN d
                              ELSE IF d = <<>> THEN Tail(LineAt(text, n + 1))
                              ELSE d \o <<"nl">> \o Tail(LineAt(text, n + 1))
    BY DataShape DEF L
  <2>3. DataOf(blurred)[n + 1] = IF n + 1 \in Blanks(text) THEN <<>>
                                 ELSE IF n + 1 \notin FieldLines(text, "data") THEN e
                                 ELSE IF e = <<>> THEN Tail(LineAt(blurred, n + 1))
                                 ELSE e \o <<"nl">> \o Tail(LineAt(blurred, n + 1))
    <3>1. /\ Blanks(blurred) = Blanks(text)
          /\ FieldLines(blurred, "data") = FieldLines(text, "data")
      BY BlurLines DEF blurred
    <3>2. DataOf(blurred)[n + 1] = IF n + 1 \in Blanks(blurred) THEN <<>>
                                   ELSE IF n + 1 \notin FieldLines(blurred, "data") THEN e
                                   ELSE IF e = <<>> THEN Tail(LineAt(blurred, n + 1))
                                   ELSE e \o <<"nl">> \o Tail(LineAt(blurred, n + 1))
      BY <1>1, DataShape
    <3>3. QED
      BY <3>1, <3>2
  <2> HIDE DEF d, e
  <2>4. CASE n + 1 \in Blanks(text)
    BY <2>2, <2>3, <2>4, BlurBase
  <2>5. CASE n + 1 \notin Blanks(text) /\ n + 1 \notin FieldLines(text, "data")
    BY <2>1, <2>2, <2>3, <2>5
  <2>6. CASE n + 1 \notin Blanks(text) /\ n + 1 \in FieldLines(text, "data")
    <3> DEFINE v == Tail(LineAt(text, n + 1))
    <3>1. n + 1 \in NewLines(text) /\ LineAt(text, n + 1) # <<>>
      BY <2>6 DEF FieldLines
    <3>2. v \in Texts /\ LineAt(text, n + 1) \in Texts
      BY <3>1, LineShape
    <3>3. Tail(LineAt(blurred, n + 1)) = Blur(v)
      BY <3>1, <3>2, BlurLines, BlurTail DEF blurred
    <3> HIDE DEF v
    <3>4. CASE d = <<>>
      <4>1. e = <<>>
        BY <2>1, <3>4, BlurShape
      <4>2. QED
        BY <2>2, <2>3, <2>6, <3>3, <3>4, <4>1 DEF v
    <3>5. CASE d # <<>>
      <4>1. e # <<>>
        BY <2>1, <3>5, BlurShape
      <4>2. PICK nl : nl = <<"nl">>
        OBVIOUS
      <4>3. nl \in Texts /\ Blur(nl) = nl
        BY <4>2, BlurBase DEF Symbols
      <4>4. d \o nl \in Texts /\ Blur(d \o nl) = Blur(d) \o Blur(nl)
        BY <2>1, <4>3, BlurConcat
      <4>5. Blur((d \o nl) \o v) = Blur(d \o nl) \o Blur(v)
        BY <3>2, <4>4, BlurConcat
      <4>6. Blur((d \o nl) \o v) = (e \o nl) \o Blur(v)
        BY <2>1, <4>3, <4>4, <4>5
      <4>7. DataOf(text)[n + 1] = (d \o nl) \o v /\ DataOf(blurred)[n + 1] = (e \o nl) \o Blur(v)
        BY <2>2, <2>3, <2>6, <3>3, <3>5, <4>1, <4>2 DEF v
      <4>8. QED
        BY <4>6, <4>7
    <3>6. QED
      BY <3>4, <3>5
  <2>7. QED
    BY <2>4, <2>5, <2>6
<1>5. Nat \subseteq Same
  <2> HIDE DEF Same
  <2> QED BY <1>3, <1>4, NatSetInduction
<1>6. \A n \in 0..L : DataOf(blurred)[n] = Blur(DataOf(text)[n])
  BY <1>1, <1>5
<1>7. Ends(blurred) = Ends(text)
  <2>1. Blanks(blurred) = Blanks(text)
    BY BlurLines DEF blurred
  <2>2. \A p \in Blanks(text) : p - 1 \in 0..L
    BY LinePositions DEF L
  <2>3. \A p \in Blanks(text) : DataOf(blurred)[p - 1] = <<>> <=> DataOf(text)[p - 1] = <<>>
    BY <1>2, <1>6, <2>2, BlurShape
  <2>4. QED
    BY <2>1, <2>3 DEF Ends
<1>8. QED
  BY <1>6, <1>7 DEF blurred, L

\* What an event says is blurred by itself.
LEMMA BlurLast ==
    ASSUME NEW text \in Texts, NEW field \in {"event", "id"},
           NEW S \in SUBSET NewLines(text), NEW i \in Nat
    PROVE  LastValue(Blur(text), field, S, i) = Blur(LastValue(text, field, S, i))
<1> DEFINE F == FieldLines(text, field)
<1> DEFINE k == Before(F, i)
<1>1. FieldLines(Blur(text), field) = F
  BY BlurLines
<1>2. /\ F \in SUBSET (Nat \ {0}) /\ S \in SUBSET (Nat \ {0})
      /\ F \in SUBSET NewLines(text)
  BY LinePositions
<1>3. k \in Nat /\ (k = 0 \/ k \in F) /\ Before(S, i) \in Nat
  BY <1>2, BeforeShape
<1>4. LastValue(text, field, S, i) = IF k > Before(S, i) THEN Tail(LineAt(text, k)) ELSE <<>>
  BY DEF LastValue
<1>5. LastValue(Blur(text), field, S, i) =
          IF k > Before(S, i) THEN Tail(LineAt(Blur(text), k)) ELSE <<>>
  BY <1>1 DEF LastValue
<1>6. CASE k > Before(S, i)
  <2>1. k \in F
    BY <1>3, <1>6
  <2>2. k \in NewLines(text) /\ LineAt(text, k) # <<>>
    BY <2>1 DEF FieldLines
  <2>3. LineAt(text, k) \in Texts
    BY <2>2, LineShape
  <2>4. Tail(LineAt(Blur(text), k)) = Blur(Tail(LineAt(text, k)))
    BY <2>2, <2>3, BlurLines, BlurTail
  <2>5. QED
    BY <1>4, <1>5, <1>6, <2>4
<1>7. CASE ~(k > Before(S, i))
  BY <1>4, <1>5, <1>7, BlurBase
<1>8. QED
  BY <1>6, <1>7

LEMMA BlurEventAt ==
    ASSUME NEW text \in Texts, NEW p \in Ends(text)
    PROVE  EventAt(Blur(text), p) = BlurEvent(EventAt(text, p))
<1>1. /\ Blanks(text) \in SUBSET NewLines(text) /\ Ends(text) \in SUBSET NewLines(text)
      /\ p \in 1..Len(text) /\ Len(text) \in Nat
  BY LinePositions
<1>2. p \in Nat /\ p - 1 \in 0..Len(text)
  BY <1>1
<1>3. Blanks(Blur(text)) = Blanks(text) /\ Ends(Blur(text)) = Ends(text)
  BY BlurLines, BlurData
<1> DEFINE type == LastValue(text, "event", Blanks(text), p)
<1> DEFINE id == LastValue(text, "id", Ends(text), p)
<1>4. LastValue(Blur(text), "event", Blanks(text), p) = Blur(type)
  BY <1>1, <1>2, BlurLast
<1>5. LastValue(Blur(text), "id", Ends(text), p) = Blur(id)
  BY <1>1, <1>2, BlurLast
<1>6. DataOf(Blur(text))[p - 1] = Blur(DataOf(text)[p - 1])
  BY <1>2, BlurData
<1>7. type \in Texts
  BY <1>1, <1>2, LastValueType
<1> HIDE DEF type, id
<1>8. Blur(type) = <<>> <=> type = <<>>
  BY <1>7, BlurShape
<1>9. Blur(<<"message">>) = <<"message">>
  BY BlurBase DEF Symbols
<1>10. EventAt(text, p) = [type |-> IF type = <<>> THEN <<"message">> ELSE type,
                           id   |-> id,
                           data |-> DataOf(text)[p - 1]]
  BY DEF EventAt, type, id
<1>11. EventAt(Blur(text), p) = [type |-> IF Blur(type) = <<>> THEN <<"message">> ELSE Blur(type),
                                 id   |-> Blur(id),
                                 data |-> Blur(DataOf(text)[p - 1])]
  BY <1>3, <1>4, <1>5, <1>6 DEF EventAt
<1>12. QED
  BY <1>8, <1>9, <1>10, <1>11 DEF BlurEvent

\* The events that end by k are blurred one by one.
LEMMA BlurAppend ==
    ASSUME NEW events \in Seq(EventSet), NEW e \in EventSet
    PROVE  BlurAll(Append(events, e)) = Append(BlurAll(events), BlurEvent(e))
<1> DEFINE more == Append(events, e)
<1> DEFINE L == Len(events)
<1> DEFINE left == BlurAll(more)
<1> DEFINE right == Append(BlurAll(events), BlurEvent(e))
<1>1. /\ L \in Nat /\ DOMAIN events = 1..L
      /\ more \in Seq(EventSet) /\ Len(more) = L + 1 /\ DOMAIN more = 1..(L + 1)
      /\ \A n \in 1..L : more[n] = events[n]
      /\ more[L + 1] = e
  BY AppendProperties
<1> HIDE DEF more, L
<1>2. /\ left = [n \in 1..(L + 1) |-> BlurEvent(more[n])]
      /\ BlurAll(events) = [n \in 1..L |-> BlurEvent(events[n])]
  BY <1>1 DEF BlurAll
<1> DEFINE T == {BlurEvent(events[n]) : n \in 1..L} \cup {BlurEvent(e)}
<1>3. BlurAll(events) \in Seq(T) /\ BlurEvent(e) \in T
  BY <1>1, <1>2
<1>4. Len(BlurAll(events)) = L
  BY <1>1, <1>2
<1> HIDE DEF T
<1>5. /\ right \in Seq(T) /\ Len(right) = L + 1 /\ DOMAIN right = 1..(L + 1)
      /\ \A n \in 1..L : right[n] = BlurAll(events)[n]
      /\ right[L + 1] = BlurEvent(e)
  BY <1>1, <1>3, <1>4, AppendProperties
<1> HIDE DEF right
<1>6. \A n \in 1..(L + 1) : right[n] = BlurEvent(more[n])
  <2> TAKE n \in 1..(L + 1)
  <2>1. CASE n = L + 1
    BY <1>1, <1>5, <2>1
  <2>2. CASE n # L + 1
    <3>1. n \in 1..L
      BY <1>1, <2>2
    <3>2. QED
      BY <1>1, <1>2, <1>5, <3>1
  <2>3. QED
    BY <2>1, <2>2
<1>7. right = [n \in 1..(L + 1) |-> right[n]]
  BY <1>5
<1>8. right = left
  BY <1>2, <1>6, <1>7
<1>9. QED
  BY <1>8 DEF right, more

LEMMA BlurEvents ==
    ASSUME NEW text \in Texts
    PROVE  BlurAll(Events(text)) = Events(Blur(text))
<1> DEFINE blurred == Blur(text)
<1>1. blurred \in Texts /\ Len(blurred) = Len(text) /\ Len(text) \in Nat
  BY BlurShape, LinePositions
<1>2. Ends(blurred) = Ends(text)
  BY BlurData
<1>3. \A p \in Ends(text) : EventAt(blurred, p) = BlurEvent(EventAt(text, p))
  BY BlurEventAt
<1> HIDE DEF blurred
<1> DEFINE Same == {k \in Nat : BlurAll(EventsTo(text, k)) = EventsTo(blurred, k)}
<1>4. 0 \in Same
  <2>1. Len(EventsTo(text, 0)) = 0 /\ DOMAIN EventsTo(text, 0) = 1..0
    <3>1. EndsTo(text, 0) = {}
      BY DEF EndsTo
    <3>2. QED
      BY <3>1, EventsToShape, FS_EmptySet
  <2>2. EventsTo(blurred, 0) = [n \in 1..0 |-> EventAt(blurred, Nth(EndsTo(blurred, 0), n))]
    <3>1. EndsTo(blurred, 0) = {}
      BY DEF EndsTo
    <3>2. QED
      BY <3>1, FS_EmptySet DEF EventsTo
  <2>3. BlurAll(EventsTo(text, 0)) = [n \in 1..0 |-> BlurEvent(EventsTo(text, 0)[n])]
    BY <2>1 DEF BlurAll
  <2>4. BlurAll(EventsTo(text, 0)) = EventsTo(blurred, 0)
    BY <2>2, <2>3
  <2>5. QED
    BY <2>4
<1>5. ASSUME NEW k \in Nat, k \in Same
      PROVE  k + 1 \in Same
  <2>1. CASE k + 1 \in Ends(text)
    <3>1. EventsTo(text, k) \in Seq(EventSet) /\ EventAt(text, k + 1) \in EventSet
      BY <2>1, EventsToType, EventType
    <3>2. EventsTo(text, k + 1) = Append(EventsTo(text, k), EventAt(text, k + 1))
      BY <2>1, EventsToNext
    <3>3. EventsTo(blurred, k + 1) = Append(EventsTo(blurred, k), EventAt(blurred, k + 1))
      BY <1>1, <1>2, <2>1, EventsToNext
    <3>4. BlurAll(EventsTo(text, k + 1)) =
              Append(BlurAll(EventsTo(text, k)), BlurEvent(EventAt(text, k + 1)))
      BY <3>1, <3>2, BlurAppend
    <3>5. QED
      BY <1>3, <1>5, <2>1, <3>3, <3>4
  <2>2. CASE k + 1 \notin Ends(text)
    <3>1. EventsTo(text, k + 1) = EventsTo(text, k)
      BY <2>2, EventsToNext
    <3>2. EventsTo(blurred, k + 1) = EventsTo(blurred, k)
      BY <1>1, <1>2, <2>2, EventsToNext
    <3>3. QED
      BY <1>5, <3>1, <3>2
  <2>3. QED
    BY <2>1, <2>2
<1>6. Nat \subseteq Same
  <2> HIDE DEF Same
  <2> QED BY <1>4, <1>5, NatSetInduction
<1>7. BlurAll(EventsTo(text, Len(text))) = EventsTo(blurred, Len(blurred))
  BY <1>1, <1>6
<1>8. QED
  BY <1>1, <1>7, EventsToEnd DEF blurred

-----------------------------------------------------------------------------
(* Streams *)

\* The second byte of a character always has the first one before it.
Streams ==
    {s \in Seq(Chars \cup {"nl"}) :
        \A i \in 1..Len(s) : s[i] = "m2" => i > 1 /\ s[i - 1] = "m1"}

LEMMA StreamShape ==
    ASSUME NEW s \in Streams
    PROVE  /\ s \in Texts
           /\ Len(s) \in Nat /\ DOMAIN s = 1..Len(s)
           /\ \A i \in 1..Len(s) : s[i] = "m2" => i > 1 /\ s[i - 1] = "m1"
<1>1. s \in Seq(Chars \cup {"nl"})
  BY DEF Streams
<1>2. (Chars \cup {"nl"}) \subseteq Symbols
  BY DEF Symbols
<1>3. s \in Texts
  BY <1>1, <1>2, SeqMonotonic DEF Texts
<1>4. QED
  BY <1>1, <1>3, LenProperties DEF Streams

LEMMA StreamConcat ==
    ASSUME NEW s \in Streams, NEW t \in Streams
    PROVE  s \o t \in Streams
<1> DEFINE both == s \o t
<1>1. /\ s \in Seq(Chars \cup {"nl"}) /\ t \in Seq(Chars \cup {"nl"})
      /\ Len(s) \in Nat /\ Len(t) \in Nat
  BY LenProperties DEF Streams
<1>2. /\ both \in Seq(Chars \cup {"nl"})
      /\ Len(both) = Len(s) + Len(t)
      /\ \A i \in 1..(Len(s) + Len(t)) :
            both[i] = IF i <= Len(s) THEN s[i] ELSE t[i - Len(s)]
  BY <1>1, ConcatProperties
<1> HIDE DEF both
<1>3. ASSUME NEW i \in 1..Len(both), both[i] = "m2"
      PROVE  i > 1 /\ both[i - 1] = "m1"
  <2>1. CASE i <= Len(s)
    <3>1. i \in 1..Len(s) /\ s[i] = "m2"
      BY <1>1, <1>2, <1>3, <2>1
    <3>2. i > 1 /\ s[i - 1] = "m1"
      BY <3>1, StreamShape
    <3>3. i - 1 \in 1..(Len(s) + Len(t)) /\ i - 1 <= Len(s)
      BY <1>1, <2>1, <3>2
    <3>4. QED
      BY <1>2, <3>2, <3>3
  <2>2. CASE ~(i <= Len(s))
    <3> DEFINE j == i - Len(s)
    <3>1. j \in 1..Len(t) /\ t[j] = "m2"
      BY <1>1, <1>2, <1>3, <2>2
    <3>2. j > 1 /\ t[j - 1] = "m1"
      BY <3>1, StreamShape
    <3>3. /\ i > 1 /\ i - 1 \in 1..(Len(s) + Len(t)) /\ ~(i - 1 <= Len(s))
          /\ (i - 1) - Len(s) = j - 1
      BY <1>1, <1>2, <3>1, <3>2
    <3>4. QED
      BY <1>2, <3>2, <3>3
  <2>3. QED
    BY <2>1, <2>2
<1>4. QED
  BY <1>2, <1>3 DEF Streams, both

LEMMA StreamLine ==
    ASSUME NEW line \in Lines
    PROVE  line \o <<"nl">> \in Streams
<1>1. line \in Seq(Chars)
  BY LinesAssumption
<1>2. line \in Seq(Chars \cup {"nl"}) /\ Len(line) \in Nat /\ DOMAIN line = 1..Len(line)
  BY <1>1, SeqMonotonic, LenProperties
<1>3. \A i \in 1..Len(line) : line[i] = "m2" => i > 1 /\ line[i - 1] = "m1"
  BY <1>2, LinesAssumption
<1>4. line \in Streams
  BY <1>2, <1>3 DEF Streams
<1>5. <<"nl">> \in Streams
  BY DEF Streams
<1>6. QED
  BY <1>4, <1>5, StreamConcat

\* The lines one after the other.
LEMMA StreamFlat ==
    ASSUME NEW seqs, NEW L \in Nat, Len(seqs) = L, seqs \in [1..L -> Streams]
    PROVE  FlattenSeq(seqs) \in Streams
<1>1. CASE L = 0
  <2>1. FlattenSeq(seqs) = seqs
    BY <1>1 DEF FlattenSeq
  <2>2. seqs = <<>>
    BY <1>1
  <2>3. <<>> \in Streams
    BY DEF Streams
  <2>4. QED
    BY <2>1, <2>2, <2>3
<1>2. CASE L # 0
  <2> DEFINE one(f, n) == IF n = 1 THEN seqs[n] ELSE f[n - 1] \o seqs[n]
  <2> DEFINE step(f, m) == [n \in 1..m |-> IF n = 1 THEN seqs[n] ELSE f[n - 1] \o seqs[n]]
  <2> DEFINE flat == CHOOSE f : f = step(f, L)
  <2>1. \E f : f = step(f, L)
    <3> DEFINE Solved == {m \in Nat : \E f : f = step(f, m)}
    <3>1. 0 \in Solved
      <4> DEFINE f == [n \in {} |-> <<>>]
      <4>1. 1..0 = {}
        OBVIOUS
      <4>2. f = step(f, 0)
        BY <4>1
      <4>3. QED
        BY <4>2
    <3>2. ASSUME NEW m \in Nat, m \in Solved
          PROVE  m + 1 \in Solved
      <4>1. PICK f : f = step(f, m)
        BY <3>2
      <4> DEFINE last == IF m + 1 = 1 THEN seqs[m + 1] ELSE f[m] \o seqs[m + 1]
      <4> DEFINE g == [n \in 1..(m + 1) |-> IF n = m + 1 THEN last ELSE f[n]]
      <4> HIDE DEF last
      <4>2. ASSUME NEW n \in 1..(m + 1)
            PROVE  g[n] = IF n = 1 THEN seqs[n] ELSE g[n - 1] \o seqs[n]
        <5>1. CASE n = m + 1
          <6>1. g[n] = last /\ n - 1 = m
            BY <5>1
          <6>2. n # 1 => g[n - 1] = f[m]
            BY <5>1, <6>1
          <6>3. QED
            BY <5>1, <6>1, <6>2 DEF last
        <5>2. CASE n # m + 1
          <6>1. n \in 1..m /\ g[n] = f[n]
            BY <5>2
          <6>2. f[n] = IF n = 1 THEN seqs[n] ELSE f[n - 1] \o seqs[n]
            BY <4>1, <6>1
          <6>3. n # 1 => g[n - 1] = f[n - 1]
            BY <6>1
          <6>4. QED
            BY <6>1, <6>2, <6>3
        <5>3. QED
          BY <5>1, <5>2
      <4>3. g = step(g, m + 1)
        BY <4>2
      <4> HIDE DEF g, step
      <4>4. QED
        BY <4>3
    <3>3. Nat \subseteq Solved
      <4> HIDE DEF Solved
      <4> QED BY <3>1, <3>2, NatSetInduction
    <3>4. QED
      BY <3>3
  <2>2. flat = step(flat, L)
    <3> HIDE DEF step
    <3> QED BY <2>1
  <2>3. FlattenSeq(seqs) = flat[L]
    BY <1>2 DEF FlattenSeq
  <2> HIDE DEF flat
  <2>4. \A n \in 1..L : flat[n] = IF n = 1 THEN seqs[n] ELSE flat[n - 1] \o seqs[n]
    BY <2>2
  <2> DEFINE Whole == {n \in Nat : n + 1 <= L => flat[n + 1] \in Streams}
  <2>5. 0 \in Whole
    BY <1>2, <2>4
  <2>6. ASSUME NEW n \in Nat, n \in Whole
        PROVE  n + 1 \in Whole
    <3> SUFFICES ASSUME (n + 1) + 1 <= L PROVE flat[(n + 1) + 1] \in Streams
      OBVIOUS
    <3> DEFINE q == (n + 1) + 1
    <3>1. q \in 1..L /\ q # 1 /\ q - 1 = n + 1
      OBVIOUS
    <3>2. flat[n + 1] \in Streams
      BY <2>6
    <3>3. seqs[q] \in Streams
      BY <3>1
    <3> HIDE DEF q
    <3>4. flat[q] = flat[n + 1] \o seqs[q]
      BY <2>4, <3>1
    <3>5. flat[q] \in Streams
      BY <3>2, <3>3, <3>4, StreamConcat
    <3>6. QED
      BY <3>5 DEF q
  <2>7. Nat \subseteq Whole
    <3> HIDE DEF Whole
    <3> QED BY <2>5, <2>6, NatSetInduction
  <2>8. L - 1 \in Nat /\ (L - 1) + 1 = L
    BY <1>2
  <2>9. QED
    BY <2>3, <2>7, <2>8
<1>3. QED
  BY <1>1, <1>2

\* What the server sends is a stream.
LEMMA StreamOfLines ==
    ASSUME NEW lines \in SeqOf(Lines, MaxLines)
    PROVE  Bytes(lines) \in Streams
<1>1. PICK L \in 0..MaxLines : lines \in [1..L -> Lines]
  BY DEF SeqOf
<1> DEFINE seqs == [i \in DOMAIN lines |-> lines[i] \o <<"nl">>]
<1>2. L \in Nat /\ DOMAIN lines = 1..L
  BY <1>1
<1>3. \A i \in 1..L : lines[i] \o <<"nl">> \in Streams
  BY <1>1, StreamLine
<1>4. seqs \in [1..L -> Streams]
  BY <1>2, <1>3
<1>5. Len(seqs) = L
  BY <1>2
<1> HIDE DEF seqs
<1>6. FlattenSeq(seqs) \in Streams
  BY <1>2, <1>4, <1>5, StreamFlat
<1>7. QED
  BY <1>6 DEF Bytes, seqs

-----------------------------------------------------------------------------
(* Chunks *)

\* A chunk keeps its length and all of its text but characters on its edges.
LEMMA LossyShape ==
    ASSUME NEW chunk \in Texts
    PROVE  /\ Lossy(chunk) \in Texts
           /\ Len(Lossy(chunk)) = Len(chunk)
           /\ Blur(Lossy(chunk)) = Blur(chunk)
           /\ (chunk # <<>> => chunk[1] # "m2" /\ chunk[Len(chunk)] # "m1") =>
                 Lossy(chunk) = chunk
<1> DEFINE L == Len(chunk)
<1> DEFINE lossy == Lossy(chunk)
<1>1. /\ L \in Nat /\ DOMAIN chunk = 1..L /\ chunk = [i \in 1..L |-> chunk[i]]
      /\ \A i \in 1..L : chunk[i] \in Symbols
      /\ chunk = <<>> <=> L = 0
  BY DEF Texts
<1> HIDE DEF L
<1>2. lossy = [i \in 1..L |->
                  IF (chunk[i] = "m1" /\ i = L) \/ (chunk[i] = "m2" /\ i = 1)
                  THEN "?" ELSE chunk[i]]
  BY <1>1 DEF Lossy, L
<1> HIDE DEF lossy
<1>3. lossy \in [1..L -> Symbols]
  BY <1>1, <1>2 DEF Symbols
<1>4. lossy \in Texts /\ Len(lossy) = L
  BY <1>1, <1>3 DEF Texts
<1>5. Blur(lossy) = Blur(chunk)
  <2>1. /\ Blur(lossy) \in Texts /\ Len(Blur(lossy)) = L
        /\ \A i \in 1..L : Blur(lossy)[i] = IF lossy[i] \in {"m1", "m2"} THEN "?" ELSE lossy[i]
    BY <1>4, BlurShape
  <2>2. \A i \in 1..L : Blur(lossy)[i] = IF chunk[i] \in {"m1", "m2"} THEN "?" ELSE chunk[i]
    BY <1>2, <2>1
  <2>3. QED
    BY <2>1, <2>2, BlurEqual DEF L
<1>6. ASSUME chunk # <<>> => chunk[1] # "m2" /\ chunk[L] # "m1"
      PROVE  lossy = chunk
  <2>1. \A i \in 1..L : lossy[i] = chunk[i]
    BY <1>1, <1>2, <1>6
  <2>2. QED
    BY <1>1, <1>3, <2>1
<1>7. QED
  BY <1>4, <1>5, <1>6 DEF L, lossy

-----------------------------------------------------------------------------
(* The lines of a text, and of every text that goes on from it *)

Extends(D, D0) == Len(D0) <= Len(D) /\ \A i \in 1..Len(D0) : D[i] = D0[i]

LEMMA NextLineExtends ==
    ASSUME NEW D0 \in Texts, NEW D \in Texts, Extends(D, D0),
           NEW k \in Nat, NEW p, NextLine(D0, k, p)
    PROVE  /\ NextLine(D, k, p)
           /\ SubSeq(D, k + 1, p - 1) = SubSeq(D0, k + 1, p - 1)
<1>1. /\ Len(D0) \in Nat /\ Len(D) \in Nat /\ Len(D0) <= Len(D)
      /\ DOMAIN D0 = 1..Len(D0) /\ DOMAIN D = 1..Len(D)
      /\ \A i \in 1..Len(D0) : D[i] = D0[i]
  BY LinePositions DEF Extends
<1>2. /\ p \in 1..Len(D0) /\ D0[p] = "nl" /\ k \in 0..(p - 1)
      /\ k = 0 \/ k \in NewLines(D0)
      /\ \A i \in NewLines(D0) : ~(k < i /\ i < p)
  BY <1>1 DEF NextLine, NewLines
<1>3. \A i \in 1..Len(D0) : i \in NewLines(D) <=> i \in NewLines(D0)
  BY <1>1 DEF NewLines
<1>4. p \in NewLines(D) /\ p \in NewLines(D0)
  BY <1>1, <1>2, <1>3 DEF NewLines
<1>5. k = 0 \/ k \in NewLines(D)
  BY <1>1, <1>2, <1>3
<1>6. ASSUME NEW i \in NewLines(D), k < i, i < p
      PROVE  FALSE
  <2>1. i \in 1..Len(D)
    BY <1>1 DEF NewLines
  <2>2. i \in 1..Len(D0)
    BY <1>1, <1>2, <1>6, <2>1
  <2>3. QED
    BY <1>2, <1>3, <1>6, <2>2
<1>7. NextLine(D, k, p)
  BY <1>2, <1>4, <1>5, <1>6 DEF NextLine
<1> DEFINE m == p - 1
<1>8. m \in Nat /\ k <= m /\ m <= Len(D0) /\ m <= Len(D)
  BY <1>1, <1>2
<1> HIDE DEF m
<1>9. /\ SubSeq(D, k + 1, m) \in Texts /\ SubSeq(D0, k + 1, m) \in Texts
      /\ Len(SubSeq(D, k + 1, m)) = m - k /\ Len(SubSeq(D0, k + 1, m)) = m - k
      /\ \A i \in 1..(m - k) : SubSeq(D, k + 1, m)[i] = D[k + i]
      /\ \A i \in 1..(m - k) : SubSeq(D0, k + 1, m)[i] = D0[k + i]
  BY <1>8, PartShape
<1>10. \A i \in 1..(m - k) : D[k + i] = D0[k + i]
  BY <1>1, <1>8
<1>11. SubSeq(D, k + 1, m) = SubSeq(D0, k + 1, m)
  BY <1>9, <1>10, SeqEqual DEF Texts
<1>12. QED
  BY <1>7, <1>11 DEF m

\* SelectInSeq finds the first one.
LEMMA FirstNewline ==
    ASSUME NEW b \in Texts, Contains(b, "nl")
    PROVE  LET q == SelectInSeq(b, LAMBDA c : c = "nl")
           IN /\ q \in 1..Len(b) /\ b[q] = "nl"
              /\ \A i \in 1..Len(b) : b[i] = "nl" => q <= i
<1> DEFINE I == {i \in 1..Len(b) : b[i] = "nl"}
<1> DEFINE q == SelectInSeq(b, LAMBDA c : c = "nl")
<1>1. I # {} /\ I \subseteq Nat
  BY DEF Contains
<1>2. q = Min(I)
  BY <1>1 DEF SelectInSeq
<1> HIDE DEF q
<1>3. \E x \in I : \A y \in I : x <= y
  <2> DEFINE R == {ss \in Nat \X Nat : ss[1] < ss[2]}
  <2>1. IsWellFoundedOn(R, Nat)
    BY NatLessThanWellFounded DEF OpToRel
  <2>2. PICK x \in I : \A y \in I : ~(<<y, x>> \in R)
    <3> HIDE DEF I, R
    <3> QED BY <1>1, <2>1, WFMin
  <2>3. \A y \in I : x <= y
    <3> TAKE y \in I
    <3>1. x \in Nat /\ y \in Nat
      BY <1>1
    <3>2. ~(y < x)
      BY <2>2, <3>1
    <3>3. QED
      BY <3>1, <3>2
  <2>4. QED
    BY <2>2, <2>3
<1>4. q \in I /\ \A y \in I : q <= y
  <2> HIDE DEF I
  <2> QED BY <1>2, <1>3 DEF Min
<1>5. QED
  BY <1>4 DEF q

\* A part of a text that starts with it.
LEMMA PrefixShape ==
    ASSUME NEW text \in Texts, NEW m \in Nat, m <= Len(text)
    PROVE  /\ SubSeq(text, 1, m) \in Texts
           /\ Len(SubSeq(text, 1, m)) = m
           /\ \A i \in 1..m : SubSeq(text, 1, m)[i] = text[i]
<1>1. /\ Len(text) \in Nat /\ \A i \in 1..m : text[i] \in Symbols
  BY DEF Texts
<1>2. 1 \in Int /\ m \in Int
  OBVIOUS
<1>3. /\ SubSeq(text, 1, m) \in Seq(Symbols)
      /\ Len(SubSeq(text, 1, m)) = IF 1 <= m THEN m - 1 + 1 ELSE 0
      /\ \A i \in 1..(m - 1 + 1) : SubSeq(text, 1, m)[i] = text[1 + i - 1]
  BY <1>1, <1>2, SubSeqProperties
<1>4. Len(SubSeq(text, 1, m)) = m
  BY <1>3
<1>5. \A i \in 1..m : i \in 1..(m - 1 + 1) /\ 1 + i - 1 = i
  OBVIOUS
<1>6. QED
  BY <1>3, <1>4, <1>5 DEF Texts

\* The first newline of what is left of a text ends its next line.
LEMMA LineTaken ==
    ASSUME NEW D0 \in Texts, NEW k \in Nat, k <= Len(D0), k = 0 \/ k \in NewLines(D0),
           NEW b \in Texts, Len(b) = Len(D0) - k, \A i \in 1..Len(b) : b[i] = D0[k + i],
           NEW q \in 1..Len(b), b[q] = "nl", \A i \in 1..Len(b) : b[i] = "nl" => q <= i
    PROVE  /\ k + q \in 1..Len(D0)
           /\ NextLine(D0, k, k + q)
           /\ SubSeq(b, 1, q - 1) = SubSeq(D0, k + 1, (k + q) - 1)
           /\ SubSeq(b, q + 1, Len(b)) = SubSeq(D0, (k + q) + 1, Len(D0))
<1>1. Len(b) \in Nat /\ Len(D0) \in Nat /\ q \in Nat
  BY LinePositions
<1>2. PICK L \in Nat : L = Len(D0)
  BY <1>1
<1>3. PICK p \in Nat : p = k + q
  BY <1>1
<1>4. L \in Nat /\ k <= L /\ DOMAIN D0 = 1..L /\ L <= Len(D0) /\ Len(D0) <= L
  BY <1>2, LinePositions
<1>5. b \in Texts /\ Len(b) = L - k /\ \A i \in 1..(L - k) : b[i] = D0[k + i]
  BY <1>2
<1>6. p \in Nat /\ p <= k + q /\ k + q <= p
  BY <1>1, <1>3
<1>7. q \in 1..(L - k) /\ b[q] = "nl" /\ \A i \in 1..(L - k) : b[i] = "nl" => q <= i
  BY <1>5
<1>8. p \in 1..L /\ k <= p - 1 /\ p - 1 \in Nat /\ p - 1 <= L /\ p <= L /\ p \in Nat
  BY <1>4, <1>6, <1>7
<1>9. NextLine(D0, k, p)
  <2>1. D0[p] = "nl" /\ k \in 0..(p - 1)
    BY <1>5, <1>7, <1>8, <1>3
  <2>2. ASSUME NEW i \in NewLines(D0), k < i, i < p
        PROVE  FALSE
    <3>1. i \in 1..L /\ D0[i] = "nl"
      BY <1>4 DEF NewLines
    <3>2. i - k \in 1..(L - k) /\ k + (i - k) = i
      BY <1>4, <2>2, <3>1
    <3>3. b[i - k] = "nl"
      BY <1>5, <3>1, <3>2
    <3>4. q <= i - k
      BY <1>7, <3>2, <3>3
    <3>5. QED
      BY <1>4, <1>7, <2>2, <1>6, <3>1, <3>4
  <2>3. p \in NewLines(D0)
    BY <1>4, <1>8, <2>1 DEF NewLines
  <2>4. QED
    BY <2>1, <2>2, <2>3 DEF NextLine
<1>10. SubSeq(b, 1, q - 1) = SubSeq(D0, k + 1, p - 1)
  <2> DEFINE m == q - 1
  <2> DEFINE s == SubSeq(b, 1, m)
  <2> DEFINE t == SubSeq(D0, k + 1, p - 1)
  <2>1. m \in Nat /\ m <= Len(b) /\ (p - 1) - k = m /\ Len(b) = L - k
    BY <1>4, <1>5, <1>7, <1>6
  <2> HIDE DEF m
  <2>2. /\ t \in Texts /\ Len(t) = m
        /\ \A i \in 1..m : t[i] = D0[k + i]
    <3> DEFINE u == p - 1
    <3>1. u \in Nat /\ k <= u /\ u <= Len(D0) /\ u - k = m
      BY <1>4, <1>8, <2>1
    <3> HIDE DEF u
    <3>2. /\ SubSeq(D0, k + 1, u) \in Texts /\ Len(SubSeq(D0, k + 1, u)) = u - k
          /\ \A i \in 1..(u - k) : SubSeq(D0, k + 1, u)[i] = D0[k + i]
      BY <3>1, PartShape
    <3>3. QED
      BY <3>1, <3>2 DEF u
  <2>3. s \in Texts /\ Len(s) = m /\ \A i \in 1..m : s[i] = b[i]
    BY <1>5, <2>1, PrefixShape
  <2>4. \A i \in 1..m : b[i] = D0[k + i]
    BY <1>4, <1>5, <2>1, <1>6
  <2>5. s = t
    BY <2>2, <2>3, <2>4, SeqEqual DEF Texts
  <2>6. QED
    BY <2>5 DEF m
<1>11. /\ SubSeq(b, q + 1, Len(b)) = SubSeq(D0, p + 1, L)
       /\ Len(SubSeq(b, q + 1, Len(b))) = L - p
  <2> DEFINE M == Len(b)
  <2>1. q \in Nat /\ q <= M /\ M \in Nat /\ M <= L - k /\ L - k <= M /\ M - q = L - p
    BY <1>1, <1>4, <1>5, <1>7, <1>3
  <2>2. M <= Len(b)
    BY <2>1
  <2> HIDE DEF M
  <2>3. p <= L /\ L - p <= M - q /\ M - q <= L - p /\ L <= Len(D0) /\ p \in Nat
    BY <1>4, <1>8, <2>1
  <2>4. \A i \in 1..(L - p) : b[q + i] = D0[p + i]
    <3> TAKE i \in 1..(L - p)
    <3>1. q + i \in 1..(L - k) /\ k + (q + i) = p + i
      BY <1>4, <1>7, <1>8, <2>1
    <3>2. b[q + i] = D0[k + (q + i)]
      BY <1>5, <3>1
    <3>3. QED
      BY <3>1, <3>2
  <2>5. /\ SubSeq(b, q + 1, M) \in Texts /\ Len(SubSeq(b, q + 1, M)) = M - q
        /\ \A i \in 1..(M - q) : SubSeq(b, q + 1, M)[i] = b[q + i]
    BY <2>1, <2>2, PartShape
  <2>6. /\ SubSeq(D0, p + 1, L) \in Texts /\ Len(SubSeq(D0, p + 1, L)) = L - p
        /\ \A i \in 1..(L - p) : SubSeq(D0, p + 1, L)[i] = D0[p + i]
    BY <2>3, PartShape
  <2> DEFINE s == SubSeq(b, q + 1, M)
  <2> DEFINE t == SubSeq(D0, p + 1, L)
  <2>7. /\ s \in Texts /\ Len(s) = L - p /\ \A i \in 1..(L - p) : s[i] = b[q + i]
        /\ t \in Texts /\ Len(t) = L - p /\ \A i \in 1..(L - p) : t[i] = D0[p + i]
    BY <2>1, <2>5, <2>6
  <2> HIDE DEF s, t
  <2>8. s = t
    <3>1. \A i \in 1..(L - p) : s[i] = t[i]
      BY <2>4, <2>7
    <3>2. Len(s) = Len(t) /\ \A i \in 1..Len(s) : s[i] = t[i]
      BY <2>7, <3>1
    <3>3. s \in Texts /\ t \in Texts
      BY <2>7
    <3>4. QED
      BY <3>2, <3>3, SeqEqual DEF Texts
  <2>9. SubSeq(b, q + 1, M) = SubSeq(D0, p + 1, L)
    BY <2>8 DEF s, t
  <2>10. QED
    BY <2>1, <2>5, <2>9 DEF M
<1>12. QED
  BY <1>5, <1>7, <1>8, <1>6, <1>9, <1>10, <1>11, <1>2, <1>3

-----------------------------------------------------------------------------
(* Sequences *)

LEMMA PrefixIs ==
    ASSUME NEW S, NEW s \in Seq(S), NEW t \in Seq(S)
    PROVE  IsPrefix(s, t) <=> Len(s) <= Len(t) /\ \A i \in 1..Len(s) : s[i] = t[i]
<1> DEFINE L == Len(s)
<1> DEFINE u == SubSeq(t, 1, L)
<1>1. L \in Nat /\ Len(t) \in Nat /\ SubSeq(s, 1, L) = s
  BY LenProperties, SubSeqFull
<1>2. ASSUME L <= Len(t)
      PROVE  u \in Seq(S) /\ Len(u) = L /\ \A i \in 1..L : u[i] = t[i]
  <2>1. \A i \in 1..L : t[i] \in S
    BY <1>1, <1>2, ElementOfSeq
  <2>2. 1 \in Int /\ L \in Int
    BY <1>1
  <2>3. /\ u \in Seq(S)
        /\ Len(u) = IF 1 <= L THEN L - 1 + 1 ELSE 0
        /\ \A i \in 1..(L - 1 + 1) : u[i] = t[1 + i - 1]
    BY <2>1, <2>2, SubSeqProperties
  <2>4. Len(u) = L
    BY <1>1, <2>3
  <2>5. \A i \in 1..L : i \in 1..(L - 1 + 1) /\ 1 + i - 1 = i
    BY <1>1
  <2>6. QED
    BY <2>3, <2>4, <2>5
<1>3. IsPrefix(s, t) <=> L <= Len(t) /\ s = u
  BY <1>1 DEF IsPrefix
<1> HIDE DEF u
<1>4. ASSUME L <= Len(t), \A i \in 1..L : s[i] = t[i]
      PROVE  s = u
  <2>1. u \in Seq(S) /\ Len(s) = Len(u) /\ \A i \in 1..Len(s) : s[i] = u[i]
    BY <1>2, <1>4
  <2>2. QED
    BY <2>1, SeqEqual
<1>5. QED
  BY <1>2, <1>3, <1>4

LEMMA PrefixMore ==
    ASSUME NEW S, NEW s \in Seq(S), NEW t \in Seq(S), NEW e \in S
    PROVE  /\ IsPrefix(s, s \o t)
           /\ IsPrefix(s, t) => IsPrefix(s, Append(t, e))
<1> DEFINE both == s \o t
<1> DEFINE more == Append(t, e)
<1>1. Len(s) \in Nat /\ Len(t) \in Nat
  BY LenProperties
<1>2. /\ both \in Seq(S)
      /\ Len(both) = Len(s) + Len(t)
      /\ \A i \in 1..(Len(s) + Len(t)) : both[i] = IF i <= Len(s) THEN s[i] ELSE t[i - Len(s)]
  BY ConcatProperties
<1>3. more \in Seq(S) /\ Len(more) = Len(t) + 1 /\ \A i \in 1..Len(t) : more[i] = t[i]
  BY AppendProperties
<1> HIDE DEF both, more
<1>4. IsPrefix(s, both)
  <2>1. Len(s) <= Len(both)
    BY <1>1, <1>2
  <2>2. \A i \in 1..Len(s) : i \in 1..(Len(s) + Len(t)) /\ i <= Len(s)
    BY <1>1
  <2>3. \A i \in 1..Len(s) : s[i] = both[i]
    BY <1>2, <2>2
  <2>4. QED
    BY <1>2, <2>1, <2>3, PrefixIs
<1>5. ASSUME IsPrefix(s, t)
      PROVE  IsPrefix(s, more)
  <2>1. Len(s) <= Len(t) /\ \A i \in 1..Len(s) : s[i] = t[i]
    BY <1>5, PrefixIs
  <2>2. Len(s) <= Len(more)
    BY <1>1, <1>3, <2>1
  <2>3. \A i \in 1..Len(s) : i \in 1..Len(t)
    BY <1>1, <2>1
  <2>4. \A i \in 1..Len(s) : s[i] = more[i]
    BY <1>3, <2>1, <2>3
  <2>5. QED
    BY <1>3, <2>2, <2>4, PrefixIs
<1>6. QED
  BY <1>4, <1>5 DEF both, more

\* What is sent and received moves along and keeps its order.
LEMMA AppendAfter ==
    ASSUME NEW S, NEW r \in Seq(S), NEW c \in Seq(S), NEW e \in S
    PROVE  r \o Append(c, e) = Append(r \o c, e)
<1>1. <<e>> \in Seq(S)
  OBVIOUS
<1>2. r \o c \in Seq(S)
  BY ConcatProperties
<1>3. Append(c, e) = c \o <<e>> /\ Append(r \o c, e) = (r \o c) \o <<e>>
  BY <1>2, AppendIsConcat
<1>4. (r \o c) \o <<e>> = r \o (c \o <<e>>)
  BY <1>1, ConcatAssociative
<1>5. QED
  BY <1>3, <1>4

LEMMA HeadMoves ==
    ASSUME NEW S, NEW r \in Seq(S), NEW c \in Seq(S), c # <<>>
    PROVE  /\ Head(c) \in S /\ Tail(c) \in Seq(S)
           /\ Append(r, Head(c)) \in Seq(S)
           /\ Append(r, Head(c)) \o Tail(c) = r \o c
           /\ Len(Tail(c)) <= Len(c)
<1>1. Head(c) \in S /\ Tail(c) \in Seq(S) /\ Len(Tail(c)) = Len(c) - 1
  BY HeadTailProperties
<1>2. <<Head(c)>> \in Seq(S)
  BY <1>1
<1>3. Append(r, Head(c)) \in Seq(S) /\ Append(r, Head(c)) = r \o <<Head(c)>>
  BY <1>1, AppendProperties, AppendIsConcat
<1>4. (r \o <<Head(c)>>) \o Tail(c) = r \o (<<Head(c)>> \o Tail(c))
  BY <1>1, <1>2, ConcatAssociative
<1>5. <<Head(c)>> \o Tail(c) = c
  OBVIOUS
<1>6. Len(Tail(c)) <= Len(c)
  BY <1>1, LenProperties
<1>7. QED
  BY <1>1, <1>3, <1>4, <1>5, <1>6

\* The end of a text that has grown.
LEMMA PartConcat ==
    ASSUME NEW s \in Texts, NEW t \in Texts, NEW k \in Nat, k <= Len(s)
    PROVE  SubSeq(s \o t, k + 1, Len(s \o t)) = SubSeq(s, k + 1, Len(s)) \o t
<1> DEFINE L == Len(s)
<1> DEFINE both == s \o t
<1> DEFINE M == Len(both)
<1>1. L \in Nat /\ M \in Nat /\ k <= L /\ L <= Len(s) /\ M <= Len(both)
  <2>1. both \in Texts
    BY ConcatProperties DEF Texts
  <2>2. QED
    BY <2>1, LinePositions
<1> HIDE DEF M
<1> DEFINE part == SubSeq(s, k + 1, L)
<1> DEFINE left == SubSeq(both, k + 1, M)
<1> DEFINE right == part \o t
<1>2. Len(t) \in Nat /\ L \in Nat /\ M \in Nat /\ k <= L /\ L <= Len(s) /\ M <= Len(both)
  BY <1>1, LinePositions
<1>3. /\ both \in Texts /\ M = L + Len(t)
      /\ \A i \in 1..(L + Len(t)) : both[i] = IF i <= L THEN s[i] ELSE t[i - L]
  BY ConcatProperties DEF Texts, M
<1> HIDE DEF L
<1>4. /\ part \in Texts /\ Len(part) = L - k
      /\ \A i \in 1..(L - k) : part[i] = s[k + i]
  BY <1>2, PartShape
<1> HIDE DEF both
<1>5. k <= M
  BY <1>2, <1>3
<1>6. /\ left \in Texts /\ Len(left) = M - k
      /\ \A i \in 1..(M - k) : left[i] = both[k + i]
  BY <1>2, <1>3, <1>5, PartShape
<1> HIDE DEF part, left
<1>7. /\ right \in Texts /\ Len(right) = Len(part) + Len(t)
      /\ \A i \in 1..(Len(part) + Len(t)) :
            right[i] = IF i <= Len(part) THEN part[i] ELSE t[i - Len(part)]
  BY <1>4, ConcatProperties DEF Texts
<1> HIDE DEF right
<1>8. Len(left) = Len(right)
  BY <1>2, <1>3, <1>4, <1>6, <1>7
<1>9. ASSUME NEW i \in 1..Len(left)
      PROVE  left[i] = right[i]
  <2>1. i \in 1..(M - k) /\ i \in 1..(Len(part) + Len(t)) /\ k + i \in 1..(L + Len(t))
    BY <1>2, <1>3, <1>4, <1>6
  <2>2. left[i] = IF k + i <= L THEN s[k + i] ELSE t[(k + i) - L]
    BY <1>3, <1>6, <2>1
  <2>3. CASE k + i <= L
    <3>1. i \in 1..(L - k) /\ i <= Len(part)
      BY <1>2, <1>4, <2>1, <2>3
    <3>2. right[i] = part[i] /\ part[i] = s[k + i]
      BY <1>4, <1>7, <2>1, <3>1
    <3>3. QED
      BY <2>2, <2>3, <3>2
  <2>4. CASE ~(k + i <= L)
    <3>1. ~(i <= Len(part)) /\ i - Len(part) = (k + i) - L
      BY <1>2, <1>4, <2>1, <2>4
    <3>2. right[i] = t[i - Len(part)]
      BY <1>7, <2>1, <3>1
    <3>3. QED
      BY <2>2, <2>4, <3>1, <3>2
  <2>5. QED
    BY <2>3, <2>4
<1>10. left = right
  BY <1>6, <1>7, <1>8, <1>9, SeqEqual DEF Texts
<1>11. QED
  BY <1>10 DEF left, right, part, both, L, M

-----------------------------------------------------------------------------
(* The invariant *)

\* The values that the variables take; the channel is never over its capacity.
TypeInvariant ==
    /\ stream \in Streams
    /\ pos \in 0..Len(stream)
    /\ cut \in BOOLEAN
    /\ reader \in {"reading", "parsing", "sending", "ended"}
    /\ evt \in EventSet
    /\ channel \in Seq(EventSet) /\ Len(channel) <= Capacity
    /\ receiver \in {"open", "done", "dropped"}
    /\ received \in Seq(EventSet)

\* Until a character has been cut, chunks end on whole ones; and nothing is left to do
\* where the task or the caller's loop has come to rest.
AtRest ==
    /\ ~cut => pos = 0 \/ stream[pos] # "m1"
    /\ reader = "reading" => ~HasLine
    /\ reader = "ended" /\ receiver # "dropped" => ~HasLine
    /\ receiver = "done" => reader = "ended" /\ channel = <<>>

\* The task has read the text D0, and its lines to position k.
ReadText(D0, k) ==
    /\ Len(D0) = pos
    /\ Blur(D0) = Blur(SubSeq(stream, 1, pos))
    /\ ~cut => D0 = SubSeq(stream, 1, pos)
    /\ k <= pos
    /\ k = 0 \/ k \in NewLines(D0)
    /\ buffer = SubSeq(D0, k + 1, pos)

InHand == IF reader = "sending" THEN Append(channel, evt) ELSE channel

Delivered(events) ==
    IF receiver = "dropped" THEN IsPrefix(received, events) ELSE received \o InHand = events

\* Whatever comes after D0, the lines to k make the event and the events that there are.
Told(D0, k) ==
    \A D \in Texts : Extends(D, D0) => event = Pending(D, k) /\ Delivered(EventsTo(D, k))

Progress == \E D0 \in Texts, k \in Nat : ReadText(D0, k) /\ Told(D0, k)

Inv == TypeInvariant /\ AtRest /\ Progress

LEMMA PendingType ==
    ASSUME NEW text \in Texts, NEW k \in Nat, k <= Len(text)
    PROVE  Pending(text, k) \in EventSet
<1>1. Blanks(text) \in SUBSET NewLines(text) /\ Ends(text) \in SUBSET NewLines(text)
  BY LinePositions
<1>2. LastValue(text, "event", Blanks(text), k + 1) \in Texts
  BY <1>1, LastValueType
<1>3. LastValue(text, "id", Ends(text), k + 1) \in Texts
  BY <1>1, LastValueType
<1>4. k \in 0..Len(text)
  BY LinePositions
<1>5. DataOf(text)[k] \in Texts
  BY <1>4, DataShape
<1>6. QED
  BY <1>2, <1>3, <1>5 DEF Pending, EventSet

LEMMA PendingStart ==
    ASSUME NEW text \in Texts
    PROVE  Pending(text, 0) = Empty /\ EventsTo(text, 0) = <<>>
<1>1. \A field : FieldLines(text, field) \in SUBSET (Nat \ {0})
  BY LinePositions
<1>2. Blanks(text) \in SUBSET (Nat \ {0}) /\ Ends(text) \in SUBSET (Nat \ {0})
  BY LinePositions
<1>3. PICK one \in Nat : one = 1
  OBVIOUS
<1>4. ASSUME NEW S \in SUBSET (Nat \ {0})
      PROVE  Before(S, one) = 0
  <2>1. \A j \in S : ~(j < one)
    BY <1>3
  <2>2. QED
    BY <2>1, BeforeUnique
<1>5. ASSUME NEW field, NEW S \in SUBSET (Nat \ {0})
      PROVE  LastValue(text, field, S, one) = <<>>
  <2>1. Before(FieldLines(text, field), one) = 0 /\ Before(S, one) = 0
    BY <1>1, <1>4
  <2>2. QED
    BY <2>1 DEF LastValue
<1>6. DataOf(text)[0] = <<>>
  BY DataShape
<1>7. /\ LastValue(text, "event", Blanks(text), one) = <<>>
      /\ LastValue(text, "id", Ends(text), one) = <<>>
  BY <1>2, <1>5
<1>8. 0 + 1 = one
  BY <1>3
<1>9. Pending(text, 0) = Empty
  BY <1>6, <1>7, <1>8 DEF Pending, Empty
<1>10. EventsTo(text, 0) = <<>>
  <2>1. EndsTo(text, 0) = {}
    BY DEF EndsTo
  <2>2. Len(EventsTo(text, 0)) = 0
    BY <2>1, EventsToShape, FS_EmptySet
  <2>3. EventsTo(text, 0) \in Seq(EventSet)
    BY EventsToType
  <2>4. QED
    BY <2>2, <2>3, EmptySeq
<1>11. QED
  BY <1>9, <1>10

LEMMA InHandType ==
    ASSUME TypeInvariant
    PROVE  InHand \in Seq(EventSet)
  BY AppendProperties DEF TypeInvariant, InHand

LEMMA ExtendsSelf ==
    ASSUME NEW D0 \in Texts
    PROVE  Extends(D0, D0)
  BY LinePositions DEF Extends

-----------------------------------------------------------------------------
(* The steps of the task *)

LEMMA Initially ==
    ASSUME Init
    PROVE  Inv
<1>1. stream \in Streams
  BY StreamOfLines DEF Init
<1>2. Len(stream) \in Nat /\ stream \in Texts
  BY <1>1, StreamShape
<1>3. <<>> \in Texts /\ Len(<<>>) = 0
  BY BlurBase
<1>4. TypeInvariant
  <2>1. Empty \in EventSet
    BY <1>3 DEF Empty, EventSet
  <2>2. <<>> \in Seq(EventSet) /\ 0 <= Capacity
    BY CapacityAssumption
  <2>3. 0 \in 0..Len(stream)
    BY <1>2
  <2>4. channel \in Seq(EventSet) /\ received \in Seq(EventSet) /\ Len(channel) <= Capacity
    BY <1>3, <2>2 DEF Init
  <2>5. evt \in EventSet /\ pos \in 0..Len(stream)
    BY <2>1, <2>3 DEF Init
  <2>6. /\ cut \in BOOLEAN /\ reader \in {"reading", "parsing", "sending", "ended"}
        /\ receiver \in {"open", "done", "dropped"}
    BY DEF Init
  <2>7. QED
    BY <1>1, <2>4, <2>5, <2>6 DEF TypeInvariant
<1>5. SubSeq(stream, 1, 0) = <<>>
  BY SubSeqEmpty
<1>6. AtRest
  BY DEF Init, AtRest, HasLine, Contains
<1>7. ReadText(<<>>, 0)
  <2>1. SubSeq(<<>>, 1, 0) = <<>> /\ 0 + 1 = 1 /\ 0 <= 0
    BY SubSeqEmpty
  <2>2. pos = 0 /\ buffer = <<>>
    BY DEF Init
  <2>3. Len(<<>>) = pos /\ <<>> = SubSeq(stream, 1, pos) /\ buffer = SubSeq(<<>>, 0 + 1, pos)
    BY <1>3, <1>5, <2>1, <2>2
  <2>4. Blur(<<>>) = Blur(SubSeq(stream, 1, pos))
    BY <2>3
  <2>5. QED
    BY <2>1, <2>2, <2>3, <2>4 DEF ReadText
<1>8. Told(<<>>, 0)
  <2>1. <<>> \o <<>> = <<>>
    OBVIOUS
  <2>2. InHand = <<>>
    BY DEF Init, InHand
  <2>3. Delivered(<<>>)
    BY <2>1, <2>2 DEF Init, Delivered
  <2>4. QED
    BY <2>3, PendingStart DEF Init, Told
<1>9. QED
  BY <1>3, <1>4, <1>6, <1>7, <1>8 DEF Inv, Progress

\* The chunk follows the text that has been read.
LEMMA ChunkText ==
    ASSUME TypeInvariant, AtRest, NEW D0 \in Texts, NEW k \in Nat, ReadText(D0, k),
           NEW n \in Nat \ {0}, ChunkArrives(n)
    PROVE  \E D1 \in Texts : ReadText(D1, k)' /\ \A D \in Texts : Extends(D, D1) => Extends(D, D0)
<1> DEFINE m == pos + n
<1> DEFINE c == SubSeq(stream, pos + 1, m)
<1> DEFINE S == SubSeq(stream, 1, pos)
<1>1. /\ stream \in Texts /\ Len(stream) \in Nat /\ pos \in Nat /\ pos <= Len(stream)
      /\ \A i \in 1..Len(stream) : stream[i] = "m2" => i > 1 /\ stream[i - 1] = "m1"
  BY StreamShape DEF TypeInvariant
<1>2. m \in Nat /\ pos < m /\ m <= Len(stream) /\ pos <= m
  BY <1>1 DEF ChunkArrives
<1>3. /\ pos' = m /\ stream' = stream
      /\ cut' = (cut \/ stream[m] = "m1")
      /\ buffer' = buffer \o Lossy(c)
  BY DEF ChunkArrives
<1> HIDE DEF m
<1>4. /\ c \in Texts /\ Len(c) = m - pos
      /\ \A i \in 1..(m - pos) : c[i] = stream[pos + i]
  BY <1>1, <1>2, PartShape
<1>5. S \in Texts /\ S \o c = SubSeq(stream, 1, m)
  <2>1. S \in Texts
    BY <1>1, PrefixShape
  <2>2. 1 \in 1..(Len(stream) + 1) /\ pos \in (1 - 1)..Len(stream) /\ m \in pos..Len(stream)
    BY <1>1, <1>2
  <2>3. QED
    BY <1>1, <2>1, <2>2, ConcatAdjacentSubSeq DEF Texts
<1> HIDE DEF c, S
<1>6. Lossy(c) \in Texts /\ Len(Lossy(c)) = m - pos /\ Blur(Lossy(c)) = Blur(c)
  BY <1>4, LossyShape
<1>7. ~cut' => Lossy(c) = c
  <2>1. SUFFICES ASSUME ~cut, stream[m] # "m1" PROVE Lossy(c) = c
    BY <1>3
  <2>2. c # <<>> /\ 1 \in 1..(m - pos) /\ m - pos \in 1..(m - pos) /\ pos + (m - pos) = m
    BY <1>1, <1>2, <1>4
  <2>3. c[Len(c)] # "m1"
    BY <1>4, <2>1, <2>2
  <2>4. c[1] = stream[pos + 1] /\ pos + 1 \in 1..Len(stream) /\ (pos + 1) - 1 = pos
    BY <1>1, <1>2, <1>4, <2>2
  <2>5. pos = 0 \/ stream[pos] # "m1"
    BY <2>1 DEF AtRest
  <2>6. c[1] # "m2"
    BY <1>1, <2>4, <2>5
  <2>7. QED
    BY <1>4, <2>3, <2>6, LossyShape
<1> DEFINE e == Lossy(c)
<1>8. /\ Len(D0) = pos /\ Blur(D0) = Blur(S) /\ (~cut => D0 = S)
      /\ k <= pos /\ (k = 0 \/ k \in NewLines(D0)) /\ buffer = SubSeq(D0, k + 1, pos)
  BY DEF ReadText, S
<1>9. /\ e \in Texts /\ Len(e) = m - pos /\ Blur(e) = Blur(c)
      /\ ~cut' => e = c
      /\ buffer' = buffer \o e
  BY <1>3, <1>6, <1>7
<1> HIDE DEF e
<1> DEFINE T == D0 \o e
<1>10. T \in Texts /\ Blur(T) = Blur(D0) \o Blur(e)
  BY <1>9, BlurConcat
<1>11. Blur(S \o c) = Blur(S) \o Blur(c)
  BY <1>4, <1>5, BlurConcat
<1>12. Blur(T) = Blur(SubSeq(stream, 1, m))
  BY <1>5, <1>8, <1>9, <1>10, <1>11
<1>13. Len(T) = m /\ \A i \in 1..pos : T[i] = D0[i]
  <2>1. /\ Len(T) = Len(D0) + Len(e)
        /\ \A i \in 1..(Len(D0) + Len(e)) : T[i] = IF i <= Len(D0) THEN D0[i] ELSE e[i - Len(D0)]
    BY <1>9, ConcatProperties DEF Texts
  <2>2. Len(T) = m
    BY <1>1, <1>2, <1>8, <1>9, <2>1
  <2>3. \A i \in 1..pos : i \in 1..(Len(D0) + Len(e)) /\ i <= Len(D0)
    BY <1>1, <1>2, <1>8, <1>9
  <2>4. QED
    BY <2>1, <2>2, <2>3
<1>14. buffer' = SubSeq(T, k + 1, m)
  <2>1. Len(D0) = pos /\ Len(D0 \o e) = m /\ pos \in Nat
    BY <1>1, <1>8, <1>13
  <2> DEFINE L == pos
  <2>2. L \in Nat /\ L = Len(D0) /\ k <= L
    BY <1>1, <1>8
  <2> HIDE DEF L
  <2>3. SubSeq(D0 \o e, k + 1, m) = SubSeq(D0, k + 1, L) \o e
    BY <1>9, <2>1, <2>2, PartConcat
  <2>4. QED
    BY <1>8, <1>9, <2>3 DEF L
<1>15. ~cut' => T = SubSeq(stream, 1, m)
  BY <1>3, <1>5, <1>8, <1>9
<1>16. k = 0 \/ k \in NewLines(T)
  <2>1. DOMAIN D0 = 1..pos /\ DOMAIN T = 1..m
    BY <1>8, <1>10, <1>13, LinePositions
  <2>2. SUFFICES ASSUME k \in NewLines(D0) PROVE k \in NewLines(T)
    BY <1>8
  <2>3. k \in 1..pos /\ D0[k] = "nl" /\ k \in 1..m
    BY <1>1, <1>2, <2>1, <2>2 DEF NewLines
  <2>4. QED
    BY <1>13, <2>1, <2>3 DEF NewLines
<1>17. \A D \in Texts : Extends(D, T) => Extends(D, D0)
  <2> TAKE D \in Texts
  <2> HAVE Extends(D, T)
  <2>1. Len(D) \in Nat /\ m <= Len(D) /\ \A i \in 1..m : D[i] = T[i]
    BY <1>13, LinePositions DEF Extends
  <2>2. pos <= Len(D) /\ \A i \in 1..pos : i \in 1..m
    BY <1>1, <1>2, <2>1
  <2>3. \A i \in 1..pos : D[i] = D0[i]
    BY <1>13, <2>1, <2>2
  <2>4. QED
    BY <1>8, <2>2, <2>3 DEF Extends
<1> HIDE DEF T
<1>18. k <= m
  BY <1>1, <1>2, <1>8
<1>19. PICK D1 \in Texts : D1 = T
  BY <1>10
<1>20. ReadText(D1, k)'
  <2>1. /\ Len(D1) = pos'
        /\ Blur(D1) = Blur(SubSeq(stream', 1, pos'))
        /\ ~cut' => D1 = SubSeq(stream', 1, pos')
        /\ k <= pos'
        /\ k = 0 \/ k \in NewLines(D1)
        /\ buffer' = SubSeq(D1, k + 1, pos')
    BY <1>3, <1>12, <1>13, <1>14, <1>15, <1>16, <1>18, <1>19
  <2>2. QED
    BY <2>1 DEF ReadText
<1>21. QED
  BY <1>17, <1>19, <1>20

LEMMA ChunkStep ==
    ASSUME Inv, NEW n \in Nat \ {0}, ChunkArrives(n)
    PROVE  Inv'
<1>1. TypeInvariant /\ AtRest
  BY DEF Inv
<1>2. PICK D0 \in Texts, k \in Nat : ReadText(D0, k) /\ Told(D0, k)
  BY DEF Inv, Progress
<1>3. PICK D1 \in Texts : ReadText(D1, k)' /\ \A D \in Texts : Extends(D, D1) => Extends(D, D0)
  BY <1>1, <1>2, ChunkText
<1>4. Told(D1, k)'
  <2>1. /\ event' = event /\ receiver' = receiver /\ received' = received
        /\ reader = "reading" /\ reader' = "parsing" /\ channel' = channel
    BY DEF ChunkArrives
  <2>2. InHand' = InHand
    BY <2>1 DEF InHand
  <2>3. ASSUME NEW D \in Texts, Extends(D, D1)
        PROVE  event' = Pending(D, k) /\ Delivered(EventsTo(D, k))'
    <3>1. event = Pending(D, k) /\ Delivered(EventsTo(D, k))
      BY <1>2, <1>3, <2>3 DEF Told
    <3>2. QED
      BY <2>1, <2>2, <3>1 DEF Delivered
  <2>4. QED
    BY <2>3 DEF Told
<1>5. Progress'
  BY <1>3, <1>4 DEF Progress
<1>6. TypeInvariant'
  <2>1. pos + n \in 0..Len(stream)
    BY <1>1, StreamShape DEF TypeInvariant, ChunkArrives
  <2>2. QED
    BY <1>1, <2>1 DEF TypeInvariant, ChunkArrives
<1>7. AtRest'
  <2>1. stream' = stream /\ pos' = pos + n /\ cut' = (cut \/ stream[pos + n] = "m1")
    BY DEF ChunkArrives
  <2>2. ~cut' => stream'[pos'] # "m1"
    BY <2>1
  <2>3. receiver' # "done"
    BY <1>1 DEF AtRest, ChunkArrives
  <2>4. reader' = "parsing"
    BY DEF ChunkArrives
  <2>5. QED
    BY <2>2, <2>3, <2>4 DEF AtRest
<1>8. QED
  BY <1>5, <1>6, <1>7 DEF Inv

\* A step that moves neither the text nor the events.
LEMMA QuietProgress ==
    ASSUME Progress, stream' = stream, pos' = pos, cut' = cut, buffer' = buffer, event' = event,
           receiver' = "dropped" <=> receiver = "dropped", received' = received,
           receiver = "dropped" \/ InHand' = InHand
    PROVE  Progress'
<1>1. PICK D0 \in Texts, k \in Nat : ReadText(D0, k) /\ Told(D0, k)
  BY DEF Progress
<1>2. ReadText(D0, k)'
  BY <1>1 DEF ReadText
<1>3. Told(D0, k)'
  BY <1>1 DEF Told, Delivered
<1>4. QED
  BY <1>2, <1>3 DEF Progress

LEMMA StreamEndsStep ==
    ASSUME Inv, StreamEnds
    PROVE  Inv'
<1>1. TypeInvariant' /\ AtRest'
  BY DEF Inv, TypeInvariant, AtRest, HasLine, StreamEnds, parseVars
<1>2. InHand' = InHand
  BY DEF InHand, StreamEnds
<1>3. Progress'
  BY <1>2, QuietProgress DEF Inv, StreamEnds, parseVars
<1>4. QED
  BY <1>1, <1>3 DEF Inv

LEMMA NoLineLeftStep ==
    ASSUME Inv, NoLineLeft
    PROVE  Inv'
<1>1. TypeInvariant' /\ AtRest'
  BY DEF Inv, TypeInvariant, AtRest, HasLine, NoLineLeft, parseVars
<1>2. InHand' = InHand
  BY DEF InHand, NoLineLeft
<1>3. Progress'
  BY <1>2, QuietProgress DEF Inv, NoLineLeft, parseVars
<1>4. QED
  BY <1>1, <1>3 DEF Inv

\* The line that is taken is the next one of the text.
LEMMA LineText ==
    ASSUME TypeInvariant, NEW D0 \in Texts, NEW k \in Nat, ReadText(D0, k), TakeLine
    PROVE  \E p \in Nat : /\ ReadText(D0, p)' /\ NextLine(D0, k, p)
                          /\ Line = SubSeq(D0, k + 1, p - 1)
<1>1. /\ Len(D0) = pos /\ k <= pos /\ (k = 0 \/ k \in NewLines(D0))
      /\ buffer = SubSeq(D0, k + 1, pos)
  BY DEF ReadText
<1>2. pos \in Nat /\ pos <= Len(D0) /\ Len(D0) <= pos
  BY <1>1, LinePositions
<1>3. PICK b \in Texts : b = buffer
  BY <1>1, <1>2, PartShape
<1>4. Len(b) = pos - k /\ \A i \in 1..(pos - k) : b[i] = D0[k + i]
  BY <1>1, <1>2, <1>3, PartShape
<1>5. Contains(b, "nl")
  BY <1>3 DEF TakeLine, HasLine
<1>6. PICK q \in 1..Len(b) : /\ q = Newline /\ b[q] = "nl"
                             /\ \A i \in 1..Len(b) : b[i] = "nl" => q <= i
  BY <1>3, <1>5, FirstNewline DEF Newline
<1>7. Len(b) \in Nat
  BY LinePositions
<1>8. /\ Len(b) = Len(D0) - k
      /\ \A i \in 1..Len(b) : b[i] = D0[k + i]
      /\ k <= Len(D0)
  BY <1>1, <1>4
<1>9. /\ k + q \in 1..Len(D0)
      /\ NextLine(D0, k, k + q)
      /\ SubSeq(b, 1, q - 1) = SubSeq(D0, k + 1, (k + q) - 1)
      /\ SubSeq(b, q + 1, Len(b)) = SubSeq(D0, (k + q) + 1, Len(D0))
  BY <1>1, <1>6, <1>8, LineTaken
<1> DEFINE p == k + q
<1>10. p \in Nat
  BY <1>7
<1>11. /\ p \in 1..pos /\ NextLine(D0, k, p)
       /\ SubSeq(b, 1, q - 1) = SubSeq(D0, k + 1, p - 1)
       /\ SubSeq(b, q + 1, Len(b)) = SubSeq(D0, p + 1, pos)
  BY <1>1, <1>9
<1> HIDE DEF p
<1>12. Line = SubSeq(D0, k + 1, p - 1)
  BY <1>3, <1>6, <1>11 DEF Line
<1>13. buffer' = SubSeq(D0, p + 1, pos)
  BY <1>3, <1>6, <1>11 DEF TakeLine
<1>14. p <= pos /\ p \in NewLines(D0)
  BY <1>2, <1>11 DEF NextLine
<1>15. PICK r \in Nat : r = p
  BY <1>10
<1>16. ReadText(D0, r)'
  <2>1. stream' = stream /\ pos' = pos /\ cut' = cut
    BY DEF TakeLine
  <2>2. /\ Len(D0) = pos
        /\ Blur(D0) = Blur(SubSeq(stream, 1, pos))
        /\ ~cut => D0 = SubSeq(stream, 1, pos)
    BY DEF ReadText
  <2>3. /\ r <= pos' /\ r \in NewLines(D0) /\ buffer' = SubSeq(D0, r + 1, pos')
    BY <1>13, <1>14, <1>15, <2>1
  <2>4. QED
    BY <2>1, <2>2, <2>3 DEF ReadText
<1>17. QED
  BY <1>11, <1>12, <1>15, <1>16

\* What the line says, whatever follows it.
LEMMA LineTold ==
    ASSUME NEW D0 \in Texts, NEW k \in Nat, Told(D0, k), NEW p \in Nat, NextLine(D0, k, p),
           Line = SubSeq(D0, k + 1, p - 1), NEW D \in Texts, Extends(D, D0)
    PROVE  /\ Delivered(EventsTo(D, k))
           /\ p \notin Ends(D) => EventsTo(D, p) = EventsTo(D, k)
           /\ p \in Ends(D) => EventsTo(D, p) = Append(EventsTo(D, k), EventAt(D, p))
           /\ LineMakes(D, p, Line, event)
<1>1. event = Pending(D, k) /\ Delivered(EventsTo(D, k))
  BY DEF Told
<1>2. NextLine(D, k, p) /\ SubSeq(D, k + 1, p - 1) = SubSeq(D0, k + 1, p - 1)
  BY NextLineExtends
<1>3. Line = SubSeq(D, k + 1, p - 1)
  BY <1>2
<1>4. LineMakes(D, p, SubSeq(D, k + 1, p - 1), Pending(D, k))
  BY <1>2, LineStep
<1>5. LineMakes(D, p, Line, event)
  BY <1>1, <1>3, <1>4
<1>6. /\ p \notin Ends(D) => EventsTo(D, p) = EventsTo(D, k)
      /\ p \in Ends(D) => EventsTo(D, p) = Append(EventsTo(D, k), EventAt(D, p))
  BY <1>2, EventsToLine
<1>7. QED
  BY <1>1, <1>5, <1>6

LEMMA LineTypes ==
    ASSUME Inv, TakeLine, reader' \in {"parsing", "sending"}, evt' \in EventSet
    PROVE  TypeInvariant' /\ AtRest'
  BY DEF Inv, TypeInvariant, AtRest, TakeLine

LEMMA BlankLineStep ==
    ASSUME Inv, BlankLine
    PROVE  Inv'
<1>1. TypeInvariant /\ TakeLine
  BY DEF Inv, BlankLine
<1>2. PICK D0 \in Texts, k \in Nat : ReadText(D0, k) /\ Told(D0, k)
  BY DEF Inv, Progress
<1>3. PICK p \in Nat : /\ ReadText(D0, p)' /\ NextLine(D0, k, p)
                       /\ Line = SubSeq(D0, k + 1, p - 1)
  BY <1>1, <1>2, LineText
<1>4. /\ Line = <<>> /\ event.data = <<>> /\ event' = [event EXCEPT !.type = <<>>]
      /\ reader' = reader /\ evt' = evt /\ receiver' = receiver /\ received' = received
      /\ channel' = channel /\ reader = "parsing"
  BY DEF BlankLine, TakeLine
<1>5. Told(D0, p)'
  <2>1. InHand' = InHand
    BY <1>4 DEF InHand
  <2>2. ASSUME NEW D \in Texts, Extends(D, D0)
        PROVE  event' = Pending(D, p) /\ Delivered(EventsTo(D, p))'
    <3>1. /\ Delivered(EventsTo(D, k)) /\ EventsTo(D, p) = EventsTo(D, k)
          /\ Pending(D, p) = [event EXCEPT !.type = <<>>]
      BY <1>2, <1>3, <1>4, <2>2, LineTold DEF LineMakes
    <3>2. QED
      BY <1>4, <2>1, <3>1 DEF Delivered
  <2>3. QED
    BY <2>2 DEF Told
<1>6. TypeInvariant' /\ AtRest'
  BY <1>1, <1>4, LineTypes DEF TypeInvariant
<1>7. QED
  BY <1>3, <1>5, <1>6 DEF Inv, Progress

LEMMA FieldLineStep ==
    ASSUME Inv, FieldLine
    PROVE  Inv'
<1>1. TypeInvariant /\ TakeLine
  BY DEF Inv, FieldLine
<1>2. PICK D0 \in Texts, k \in Nat : ReadText(D0, k) /\ Told(D0, k)
  BY DEF Inv, Progress
<1>3. PICK p \in Nat : /\ ReadText(D0, p)' /\ NextLine(D0, k, p)
                       /\ Line = SubSeq(D0, k + 1, p - 1)
  BY <1>1, <1>2, LineText
<1>4. /\ Line # <<>>
      /\ event' = CASE Line[1] = "event" -> [event EXCEPT !.type = Tail(Line)]
                    [] Line[1] = "id"    -> [event EXCEPT !.id = Tail(Line)]
                    [] Line[1] = "data"  -> [event EXCEPT !.data =
                                                IF @ = <<>> THEN Tail(Line)
                                                ELSE @ \o <<"nl">> \o Tail(Line)]
                    [] OTHER             -> event
      /\ reader' = reader /\ evt' = evt /\ receiver' = receiver /\ received' = received
      /\ channel' = channel /\ reader = "parsing"
  BY DEF FieldLine, TakeLine
<1>5. Told(D0, p)'
  <2>1. InHand' = InHand
    BY <1>4 DEF InHand
  <2>2. ASSUME NEW D \in Texts, Extends(D, D0)
        PROVE  event' = Pending(D, p) /\ Delivered(EventsTo(D, p))'
    <3>1. /\ Delivered(EventsTo(D, k)) /\ EventsTo(D, p) = EventsTo(D, k)
          /\ Pending(D, p) =
                CASE Line[1] = "event" -> [event EXCEPT !.type = Tail(Line)]
                  [] Line[1] = "id"    -> [event EXCEPT !.id = Tail(Line)]
                  [] Line[1] = "data"  -> [event EXCEPT !.data =
                                              IF @ = <<>> THEN Tail(Line)
                                              ELSE @ \o <<"nl">> \o Tail(Line)]
                  [] OTHER             -> event
      BY <1>2, <1>3, <1>4, <2>2, LineTold DEF LineMakes
    <3>2. event' = Pending(D, p)
      BY <1>4, <3>1
    <3>3. Delivered(EventsTo(D, p))'
      BY <1>4, <2>1, <3>1 DEF Delivered
    <3>4. QED
      BY <3>2, <3>3
  <2>3. QED
    BY <2>2 DEF Told
<1>6. TypeInvariant' /\ AtRest'
  BY <1>1, <1>4, LineTypes DEF TypeInvariant
<1>7. QED
  BY <1>3, <1>5, <1>6 DEF Inv, Progress

LEMMA DispatchStep ==
    ASSUME Inv, Dispatch
    PROVE  Inv'
<1>1. TypeInvariant /\ TakeLine
  BY DEF Inv, Dispatch
<1>2. PICK D0 \in Texts, k \in Nat : ReadText(D0, k) /\ Told(D0, k)
  BY DEF Inv, Progress
<1>3. PICK p \in Nat : /\ ReadText(D0, p)' /\ NextLine(D0, k, p)
                       /\ Line = SubSeq(D0, k + 1, p - 1)
  BY <1>1, <1>2, LineText
<1>4. /\ Line = <<>> /\ event.data # <<>> /\ event' = Empty
      /\ evt' = [event EXCEPT !.type = IF @ = <<>> THEN <<"message">> ELSE @]
      /\ reader' = "sending" /\ receiver' = receiver /\ received' = received
      /\ channel' = channel /\ reader = "parsing"
  BY DEF Dispatch, TakeLine
<1>5. evt' \in EventSet
  <2>1. Extends(D0, D0)
    BY ExtendsSelf
  <2>2. p \in Ends(D0) /\ EventAt(D0, p) = evt'
    BY <1>2, <1>3, <1>4, <2>1, LineTold DEF LineMakes
  <2>3. QED
    BY <2>2, EventType
<1>6. Told(D0, p)'
  <2>1. InHand = channel /\ InHand' = Append(channel, evt')
    BY <1>4 DEF InHand
  <2>2. channel \in Seq(EventSet) /\ received \in Seq(EventSet)
    BY <1>1 DEF TypeInvariant
  <2>3. received \o Append(channel, evt') = Append(received \o channel, evt')
    BY <1>5, <2>2, AppendAfter
  <2>4. ASSUME NEW D \in Texts, Extends(D, D0)
        PROVE  event' = Pending(D, p) /\ Delivered(EventsTo(D, p))'
    <3>1. /\ Delivered(EventsTo(D, k)) /\ Pending(D, p) = Empty
          /\ EventsTo(D, p) = Append(EventsTo(D, k), evt')
      <4>1. /\ Delivered(EventsTo(D, k)) /\ LineMakes(D, p, Line, event)
            /\ p \in Ends(D) => EventsTo(D, p) = Append(EventsTo(D, k), EventAt(D, p))
        BY <1>2, <1>3, <2>4, LineTold
      <4>2. /\ p \in Ends(D) /\ Pending(D, p) = Empty
            /\ EventAt(D, p) = [event EXCEPT !.type = IF @ = <<>> THEN <<"message">> ELSE @]
        BY <1>4, <4>1 DEF LineMakes
      <4>3. QED
        BY <1>4, <4>1, <4>2
    <3>2. EventsTo(D, k) \in Seq(EventSet)
      BY EventsToType
    <3>3. CASE receiver = "dropped"
      <4>1. IsPrefix(received, EventsTo(D, k))
        BY <3>1, <3>3 DEF Delivered
      <4>2. IsPrefix(received, Append(EventsTo(D, k), evt'))
        BY <1>5, <2>2, <3>2, <4>1, PrefixMore
      <4>3. QED
        BY <1>4, <3>1, <3>3, <4>2 DEF Delivered
    <3>4. CASE receiver # "dropped"
      <4>1. received \o channel = EventsTo(D, k)
        BY <2>1, <3>1, <3>4 DEF Delivered
      <4>2. received \o Append(channel, evt') = EventsTo(D, p)
        BY <2>3, <3>1, <4>1
      <4>3. received' \o InHand' = EventsTo(D, p)
        BY <1>4, <2>1, <4>2
      <4>4. QED
        BY <1>4, <3>1, <3>4, <4>3 DEF Delivered
    <3>5. QED
      BY <3>3, <3>4
  <2>5. QED
    BY <2>4 DEF Told
<1>7. TypeInvariant' /\ AtRest'
  BY <1>1, <1>4, <1>5, LineTypes
<1>8. QED
  BY <1>3, <1>6, <1>7 DEF Inv, Progress

LEMMA SendStep ==
    ASSUME Inv, Send
    PROVE  Inv'
<1>1. TypeInvariant
  BY DEF Inv
<1>2. Empty \in EventSet
  BY BlurBase DEF Empty, EventSet
<1>3. /\ Append(channel, evt) \in Seq(EventSet)
      /\ Len(Append(channel, evt)) = Len(channel) + 1 /\ Len(channel) \in Nat
  BY <1>1, AppendProperties, LenProperties DEF TypeInvariant
<1>4. Len(Append(channel, evt)) <= Capacity
  BY <1>3, CapacityAssumption DEF Send
<1>5. TypeInvariant'
  BY <1>1, <1>2, <1>3, <1>4 DEF TypeInvariant, Send
<1>6. AtRest'
  BY DEF Inv, AtRest, Send
<1>7. InHand' = InHand
  BY DEF InHand, Send
<1>8. Progress'
  BY <1>7, QuietProgress DEF Inv, Send
<1>9. QED
  BY <1>5, <1>6, <1>8 DEF Inv

LEMMA ReceiverGoneStep ==
    ASSUME Inv, ReceiverGone
    PROVE  Inv'
<1>1. TypeInvariant' /\ AtRest'
  BY DEF Inv, TypeInvariant, AtRest, HasLine, ReceiverGone, parseVars
<1>2. Progress'
  BY QuietProgress DEF Inv, ReceiverGone, parseVars
<1>3. QED
  BY <1>1, <1>2 DEF Inv

-----------------------------------------------------------------------------
(* The steps of the caller *)

LEMMA RecvStep ==
    ASSUME Inv, Recv
    PROVE  Inv'
<1>1. TypeInvariant
  BY DEF Inv
<1>2. /\ receiver = "open" /\ receiver' = receiver /\ channel # <<>>
      /\ received' = Append(received, Head(channel)) /\ channel' = Tail(channel)
      /\ stream' = stream /\ pos' = pos /\ cut' = cut /\ buffer' = buffer
      /\ event' = event /\ evt' = evt /\ reader' = reader
  BY DEF Recv, parseVars
<1>3. channel \in Seq(EventSet) /\ received \in Seq(EventSet) /\ evt \in EventSet
  BY <1>1 DEF TypeInvariant
<1>4. /\ Head(channel) \in EventSet /\ Tail(channel) \in Seq(EventSet)
      /\ Append(received, Head(channel)) \in Seq(EventSet)
      /\ Append(received, Head(channel)) \o Tail(channel) = received \o channel
      /\ Len(Tail(channel)) <= Len(channel)
  BY <1>2, <1>3, HeadMoves
<1>5. TypeInvariant'
  <2>1. Len(channel) \in Nat /\ Len(Tail(channel)) \in Nat /\ Len(channel) <= Capacity
    BY <1>1, <1>3, <1>4, LenProperties DEF TypeInvariant
  <2>2. Len(Tail(channel)) <= Capacity
    BY <1>4, <2>1, CapacityAssumption
  <2>3. QED
    BY <1>1, <1>2, <1>4, <2>2 DEF TypeInvariant
<1>6. AtRest'
  BY <1>2 DEF Inv, AtRest, HasLine
<1>7. received' \o InHand' = received \o InHand
  <2>1. CASE reader = "sending"
    <3>1. InHand = Append(channel, evt) /\ InHand' = Append(Tail(channel), evt)
      BY <1>2, <2>1 DEF InHand
    <3>2. received' \o Append(Tail(channel), evt) = Append(received' \o Tail(channel), evt)
      BY <1>2, <1>3, <1>4, AppendAfter
    <3>3. received \o Append(channel, evt) = Append(received \o channel, evt)
      BY <1>3, AppendAfter
    <3>4. QED
      BY <1>2, <1>4, <3>1, <3>2, <3>3
  <2>2. CASE reader # "sending"
    BY <1>2, <1>4, <2>2 DEF InHand
  <2>3. QED
    BY <2>1, <2>2
<1>8. Progress'
  <2>1. PICK D0 \in Texts, k \in Nat : ReadText(D0, k) /\ Told(D0, k)
    BY DEF Inv, Progress
  <2>2. ReadText(D0, k)'
    BY <1>2, <2>1 DEF ReadText
  <2>3. Told(D0, k)'
    BY <1>2, <1>7, <2>1 DEF Told, Delivered
  <2>4. QED
    BY <2>2, <2>3 DEF Progress
<1>9. QED
  BY <1>5, <1>6, <1>8 DEF Inv

LEMMA RecvNoneStep ==
    ASSUME Inv, RecvNone
    PROVE  Inv'
<1>1. TypeInvariant' /\ AtRest'
  BY DEF Inv, TypeInvariant, AtRest, HasLine, RecvNone, parseVars
<1>2. InHand' = InHand
  BY DEF InHand, RecvNone, parseVars
<1>3. Progress'
  BY <1>2, QuietProgress DEF Inv, RecvNone, parseVars
<1>4. QED
  BY <1>1, <1>3 DEF Inv

LEMMA DropReceiverStep ==
    ASSUME Inv, DropReceiver
    PROVE  Inv'
<1>1. TypeInvariant
  BY DEF Inv
<1>2. /\ receiver = "open" /\ receiver' = "dropped" /\ channel' = <<>> /\ received' = received
      /\ stream' = stream /\ pos' = pos /\ cut' = cut /\ buffer' = buffer
      /\ event' = event /\ evt' = evt /\ reader' = reader
  BY DEF DropReceiver, parseVars
<1>3. TypeInvariant'
  <2>1. channel' \in Seq(EventSet) /\ Len(channel') <= Capacity
    BY <1>2, EmptySeq, CapacityAssumption
  <2>2. QED
    BY <1>1, <1>2, <2>1 DEF TypeInvariant
<1>4. AtRest'
  BY <1>2 DEF Inv, AtRest, HasLine
<1>5. Progress'
  <2>1. PICK D0 \in Texts, k \in Nat : ReadText(D0, k) /\ Told(D0, k)
    BY DEF Inv, Progress
  <2>2. ReadText(D0, k)'
    BY <1>2, <2>1 DEF ReadText
  <2>3. InHand \in Seq(EventSet) /\ received \in Seq(EventSet)
    BY <1>1, InHandType DEF TypeInvariant
  <2>4. IsPrefix(received, received \o InHand)
    <3>1. evt \in EventSet
      BY <1>1 DEF TypeInvariant
    <3>2. QED
      BY <2>3, <3>1, PrefixMore
  <2>5. ASSUME NEW D \in Texts, Extends(D, D0)
        PROVE  event' = Pending(D, k) /\ Delivered(EventsTo(D, k))'
    <3>1. event = Pending(D, k) /\ Delivered(EventsTo(D, k))
      BY <2>1, <2>5 DEF Told
    <3>2. received \o InHand = EventsTo(D, k)
      BY <1>2, <3>1 DEF Delivered
    <3>3. QED
      BY <1>2, <2>4, <3>1, <3>2 DEF Delivered
  <2>6. QED
    BY <2>2, <2>5 DEF Progress, Told
<1>6. QED
  BY <1>3, <1>4, <1>5 DEF Inv

LEMMA UnchangedStep ==
    ASSUME Inv, UNCHANGED vars
    PROVE  Inv'
<1>1. TypeInvariant' /\ AtRest'
  BY DEF Inv, TypeInvariant, AtRest, HasLine, vars, parseVars
<1>2. InHand' = InHand
  BY DEF InHand, vars, parseVars
<1>3. Progress'
  BY <1>2, QuietProgress DEF Inv, vars, parseVars
<1>4. QED
  BY <1>1, <1>3 DEF Inv

\* The invariant holds for all lines, lengths and capacities.
THEOREM Invariance == Spec => []Inv
<1>1. Init => Inv
  BY Initially
<1>2. Inv /\ [Next]_vars => Inv'
  <2> SUFFICES ASSUME Inv, [Next]_vars PROVE Inv'
    OBVIOUS
  <2>1. CASE \E n \in 1..MaxChunk : ChunkArrives(n)
    <3>1. PICK n \in 1..MaxChunk : ChunkArrives(n)
      BY <2>1
    <3>2. n \in Nat \ {0}
      OBVIOUS
    <3>3. QED
      BY <3>1, <3>2, ChunkStep
  <2>2. CASE StreamEnds
    BY <2>2, StreamEndsStep
  <2>3. CASE Parse
    BY <2>3, NoLineLeftStep, BlankLineStep, DispatchStep, FieldLineStep, SendStep,
       ReceiverGoneStep DEF Parse
  <2>4. CASE Recv
    BY <2>4, RecvStep
  <2>5. CASE RecvNone
    BY <2>5, RecvNoneStep
  <2>6. CASE DropReceiver
    BY <2>6, DropReceiverStep
  <2>7. CASE Over \/ UNCHANGED vars
    BY <2>7, UnchangedStep DEF Over
  <2>8. QED
    BY <2>1, <2>2, <2>3, <2>4, <2>5, <2>6, <2>7 DEF Next
<1>3. QED
  BY <1>1, <1>2, PTL DEF Spec

-----------------------------------------------------------------------------
(* What the caller receives *)

LEMMA BlurPrefix ==
    ASSUME NEW s \in Seq(EventSet), NEW t \in Seq(EventSet), IsPrefix(s, t)
    PROVE  IsPrefix(BlurAll(s), BlurAll(t))
<1>1. \A u \in Seq(EventSet) : Len(u) \in Nat /\ DOMAIN u = 1..Len(u)
  BY LenProperties
<1>2. ASSUME NEW e \in EventSet
      PROVE  BlurEvent(e) \in EventSet
  BY BlurShape DEF EventSet, BlurEvent
<1>3. ASSUME NEW u \in Seq(EventSet)
      PROVE  /\ BlurAll(u) \in Seq(EventSet) /\ Len(BlurAll(u)) = Len(u)
             /\ \A i \in 1..Len(u) : BlurAll(u)[i] = BlurEvent(u[i])
  <2>1. BlurAll(u) = [i \in 1..Len(u) |-> BlurEvent(u[i])]
    BY <1>1 DEF BlurAll
  <2>2. \A i \in 1..Len(u) : BlurEvent(u[i]) \in EventSet
    BY <1>2, ElementOfSeq
  <2>3. QED
    BY <1>1, <2>1, <2>2
<1>4. Len(s) <= Len(t) /\ \A i \in 1..Len(s) : s[i] = t[i]
  BY PrefixIs
<1>5. Len(BlurAll(s)) <= Len(BlurAll(t))
  BY <1>3, <1>4
<1>6. ASSUME NEW i \in 1..Len(BlurAll(s))
      PROVE  BlurAll(s)[i] = BlurAll(t)[i]
  <2>1. i \in 1..Len(s) /\ i \in 1..Len(t)
    BY <1>1, <1>3, <1>4, <1>6
  <2>2. BlurAll(s)[i] = BlurEvent(s[i]) /\ BlurAll(t)[i] = BlurEvent(t[i]) /\ s[i] = t[i]
    BY <1>3, <1>4, <2>1
  <2>3. QED
    BY <2>2
<1>7. BlurAll(s) \in Seq(EventSet) /\ BlurAll(t) \in Seq(EventSet)
  BY <1>3
<1>8. QED
  BY <1>5, <1>6, <1>7, PrefixIs

LEMMA BlurLen ==
    ASSUME NEW s \in Seq(EventSet)
    PROVE  Len(BlurAll(s)) = Len(s)
<1>1. Len(s) \in Nat /\ DOMAIN s = 1..Len(s)
  BY LenProperties
<1>2. QED
  BY <1>1 DEF BlurAll

LEMMA EventsArePart ==
    ASSUME NEW text \in Texts, NEW k \in Nat, k <= Len(text)
    PROVE  /\ EventsTo(text, k) \in Seq(EventSet) /\ Events(text) \in Seq(EventSet)
           /\ IsPrefix(EventsTo(text, k), Events(text))
           /\ (\A i \in NewLines(text) : ~(k < i /\ i <= Len(text))) =>
                 Events(text) = EventsTo(text, k)
<1> DEFINE m == Len(text)
<1>1. m \in Nat /\ k <= m /\ m <= Len(text)
  BY LinePositions
<1>2. EventsTo(text, m) = Events(text)
  BY EventsToEnd
<1> HIDE DEF m
<1>3. EventsTo(text, k) \in Seq(EventSet) /\ EventsTo(text, m) \in Seq(EventSet)
  BY <1>1, EventsToType
<1>4. /\ Len(EventsTo(text, k)) <= Len(EventsTo(text, m))
      /\ \A n \in 1..Len(EventsTo(text, k)) : EventsTo(text, m)[n] = EventsTo(text, k)[n]
  BY <1>1, EventsToGrow
<1>5. IsPrefix(EventsTo(text, k), EventsTo(text, m))
  BY <1>3, <1>4, PrefixIs
<1>6. ASSUME \A i \in NewLines(text) : ~(k < i /\ i <= m)
      PROVE  EventsTo(text, m) = EventsTo(text, k)
  BY <1>1, <1>6, EventsToSteady
<1>7. QED
  BY <1>2, <1>3, <1>5, <1>6 DEF m

\* What was left of the text when the task had no line left.
LEMMA NoLineText ==
    ASSUME TypeInvariant, NEW D0 \in Texts, NEW k \in Nat, ReadText(D0, k), ~HasLine
    PROVE  \A i \in NewLines(D0) : ~(k < i /\ i <= Len(D0))
<1>1. /\ Len(D0) = pos /\ k <= pos /\ buffer = SubSeq(D0, k + 1, pos)
  BY DEF ReadText
<1>2. pos \in Nat /\ pos <= Len(D0) /\ DOMAIN D0 = 1..pos
  BY <1>1, LinePositions
<1>3. Len(buffer) = pos - k /\ \A i \in 1..(pos - k) : buffer[i] = D0[k + i]
  BY <1>1, <1>2, PartShape
<1>4. SUFFICES ASSUME NEW i \in NewLines(D0), k < i, i <= Len(D0) PROVE FALSE
  OBVIOUS
<1>5. i \in 1..pos /\ D0[i] = "nl"
  BY <1>2 DEF NewLines
<1> DEFINE j == i - k
<1>6. j \in 1..(pos - k) /\ k + j = i
  BY <1>1, <1>2, <1>4, <1>5
<1>7. buffer[j] = "nl" /\ j \in 1..Len(buffer)
  BY <1>3, <1>5, <1>6
<1>8. QED
  BY <1>7 DEF HasLine, Contains

LEMMA WholeFromInv ==
    ASSUME Inv
    PROVE  EventsWhole
<1>1. TypeInvariant /\ AtRest
  BY DEF Inv
<1>2. PICK D0 \in Texts, k \in Nat : ReadText(D0, k) /\ Told(D0, k)
  BY DEF Inv, Progress
<1> DEFINE S == SubSeq(stream, 1, pos)
<1> DEFINE T == Lossy(S)
<1> DEFINE Expected == Events(T)
<1> DEFINE Known == IF receiver = "dropped" THEN received ELSE received \o InHand
<1>3. /\ Len(D0) = pos /\ Blur(D0) = Blur(S) /\ (~cut => D0 = S) /\ k <= pos
  BY <1>2 DEF ReadText
<1>4. /\ stream \in Texts /\ pos \in Nat /\ pos <= Len(stream) /\ Len(stream) \in Nat
      /\ \A i \in 1..Len(stream) : stream[i] = "m2" => i > 1 /\ stream[i - 1] = "m1"
  BY <1>1, StreamShape DEF TypeInvariant
<1>5. S \in Texts /\ Len(S) = pos /\ \A i \in 1..pos : S[i] = stream[i]
  BY <1>4, PrefixShape
<1>6. T \in Texts /\ Blur(T) = Blur(S)
  <2> HIDE DEF S
  <2> QED BY <1>5, LossyShape
<1>7. ~cut => T = D0
  <2>1. SUFFICES ASSUME ~cut PROVE T = D0
    OBVIOUS
  <2>2. ASSUME S # <<>>
        PROVE  S[1] # "m2" /\ S[Len(S)] # "m1"
    <3>1. pos # 0
      BY <1>5, <2>2, EmptySeq DEF Texts
    <3>2. 1 \in 1..pos /\ pos \in 1..pos /\ 1 \in 1..Len(stream)
      BY <1>4, <3>1
    <3>3. S[1] = stream[1] /\ S[Len(S)] = stream[pos]
      BY <1>5, <3>2
    <3>4. stream[1] # "m2"
      BY <1>4, <3>2
    <3>5. stream[pos] # "m1"
      BY <1>1, <2>1, <3>1 DEF AtRest
    <3>6. QED
      BY <3>3, <3>4, <3>5
  <2>3. T = S
    <3> HIDE DEF S
    <3> QED BY <1>5, <2>2, LossyShape
  <2>4. QED
    BY <1>3, <2>1, <2>3
<1>8. Delivered(EventsTo(D0, k))
  BY <1>2, ExtendsSelf DEF Told
<1>9. /\ EventsTo(D0, k) \in Seq(EventSet) /\ Events(D0) \in Seq(EventSet)
      /\ IsPrefix(EventsTo(D0, k), Events(D0))
      /\ (\A i \in NewLines(D0) : ~(k < i /\ i <= Len(D0))) => Events(D0) = EventsTo(D0, k)
  BY <1>3, EventsArePart
<1>10. received \in Seq(EventSet) /\ InHand \in Seq(EventSet)
  BY <1>1, InHandType DEF TypeInvariant
<1>11. Known \in Seq(EventSet) /\ IsPrefix(Known, Events(D0))
  <2>1. CASE receiver = "dropped"
    <3>1. Known = received /\ IsPrefix(received, EventsTo(D0, k))
      BY <1>8, <2>1 DEF Delivered
    <3>2. IsPrefix(received, Events(D0))
      <4>1. /\ Len(received) <= Len(EventsTo(D0, k))
            /\ \A i \in 1..Len(received) : received[i] = EventsTo(D0, k)[i]
        BY <1>9, <1>10, <3>1, PrefixIs
      <4>2. /\ Len(EventsTo(D0, k)) <= Len(Events(D0))
            /\ \A i \in 1..Len(EventsTo(D0, k)) : EventsTo(D0, k)[i] = Events(D0)[i]
        BY <1>9, PrefixIs
      <4>3. /\ Len(received) \in Nat /\ Len(EventsTo(D0, k)) \in Nat /\ Len(Events(D0)) \in Nat
        BY <1>9, <1>10, LenProperties
      <4>4. Len(received) <= Len(Events(D0))
        BY <4>1, <4>2, <4>3
      <4>5. \A i \in 1..Len(received) : received[i] = Events(D0)[i]
        BY <4>1, <4>2, <4>3
      <4>6. QED
        BY <1>9, <1>10, <4>4, <4>5, PrefixIs
    <3>3. QED
      BY <1>10, <3>1, <3>2
  <2>2. CASE receiver # "dropped"
    <3>1. Known = EventsTo(D0, k)
      BY <1>8, <2>2 DEF Delivered
    <3>2. QED
      BY <1>9, <3>1
  <2>3. QED
    BY <2>1, <2>2
<1> HIDE DEF S, T, Known
<1>12. BlurAll(Events(D0)) = BlurAll(Expected)
  BY <1>3, <1>6, BlurEvents
<1>13. IsPrefix(BlurAll(Known), BlurAll(Expected))
  <2>1. IsPrefix(BlurAll(Known), BlurAll(Events(D0)))
    BY <1>9, <1>11, BlurPrefix
  <2>2. QED
    BY <1>12, <2>1
<1>14. ~cut => IsPrefix(Known, Expected)
  BY <1>7, <1>11
<1>15. Expected \in Seq(EventSet)
  <2>1. PICK z \in Nat : z = 0
    OBVIOUS
  <2>2. z <= Len(T)
    BY <1>6, <2>1, LinePositions
  <2>3. QED
    BY <1>6, <2>2, EventsArePart
<1>16. receiver = "done" => Len(received) = Len(Expected)
  <2>1. SUFFICES ASSUME receiver = "done" PROVE Len(received) = Len(Expected)
    OBVIOUS
  <2>2. reader = "ended" /\ channel = <<>> /\ ~HasLine
    BY <1>1, <2>1 DEF AtRest
  <2>3. InHand = <<>>
    BY <2>2 DEF InHand
  <2>4. received \o InHand = received
    BY <1>10, <2>3, ConcatEmptySeq
  <2>5. received = EventsTo(D0, k)
    BY <1>8, <2>1, <2>4 DEF Delivered
  <2>6. Events(D0) = EventsTo(D0, k)
    BY <1>1, <1>2, <1>9, <2>2, NoLineText
  <2>7. Len(Events(D0)) = Len(Expected)
    <3>1. Len(BlurAll(Events(D0))) = Len(Events(D0)) /\ Len(BlurAll(Expected)) = Len(Expected)
      <4> HIDE DEF Expected
      <4> QED BY <1>9, <1>15, BlurLen
    <3>2. QED
      BY <1>12, <3>1
  <2>8. QED
    BY <2>5, <2>6, <2>7
<1>17. QED
  BY <1>13, <1>14, <1>16 DEF EventsWhole, S, T, Known, InHand

\* However the network cuts the stream, the caller receives its events whole, in order
\* and once, and all of them when it reads to the end.
THEOREM Whole == Spec => []EventsWhole
<1>1. Inv => EventsWhole
  BY WholeFromInv
<1>2. QED
  BY <1>1, Invariance, PTL

\* The types of the variables, and the bound on the channel.
THEOREM Types == Spec => []TypeInvariant
<1>1. Inv => TypeInvariant
  BY DEF Inv
<1>2. QED
  BY <1>1, Invariance, PTL

================================================================================
