----------------------------- MODULE ClientProofs -----------------------------
(***************************************************************************)
(* Proofs about Client and Requests: the names that send() accepts, the    *)
(* body it posts for every draft, and the order in which a workflow runs,  *)
(* for every set of items, options and names and any bound on the calls.   *)
(***************************************************************************)
EXTENDS Client, SequenceTheorems, WellFoundedInduction, TLAPS

-----------------------------------------------------------------------------
(* Induction over the naturals, as a fact about sets *)

\* A set of naturals that has no least missing one has them all.
LEMMA NatSetInduction ==
    ASSUME NEW S, 0 \in S, \A n \in Nat : n \in S => n + 1 \in S
    PROVE  Nat \subseteq S
<1> DEFINE T == Nat \ S
<1> DEFINE R == {ss \in Nat \X Nat : ss[1] < ss[2]}
<1> SUFFICES ASSUME T # {} PROVE FALSE
  OBVIOUS
<1>1. IsWellFoundedOn(R, Nat)
  BY NatLessThanWellFounded DEF OpToRel
<1>2. PICK x \in T : \A y \in T : ~(<<y, x>> \in R)
  <2> T \subseteq Nat OBVIOUS
  <2> HIDE DEF T, R
  <2> QED BY <1>1, WFMin
<1>3. x # 0 /\ x \in Nat
  OBVIOUS
<1>4. x - 1 \in Nat /\ x - 1 + 1 = x /\ x - 1 < x
  BY <1>3
<1>5. <<x - 1, x>> \in R
  BY <1>3, <1>4
<1>6. x - 1 \notin T
  BY <1>2, <1>5
<1>7. QED
  BY <1>3, <1>4, <1>6

\* Between two numbers of a set there are two neighbours around any number between.
LEMMA Neighbours ==
    ASSUME NEW S \in SUBSET Nat, NEW n \in Nat, n \notin S,
           NEW lo \in S, lo < n, NEW hi \in S, n < hi
    PROVE  \E p, q \in S : p < n /\ n < q /\ \A k \in S : k <= p \/ k >= q
<1>1. \E p \in S : p < n /\ \A k \in S : k < n => k <= p
  <2> DEFINE Without == {m \in Nat : \A k \in S : k < n => k + m < n}
  <2> SUFFICES ASSUME \A p \in S : p < n => \E k \in S : k < n /\ ~(k <= p) PROVE FALSE
    OBVIOUS
  <2>1. 0 \in Without
    BY DEF Without
  <2>2. ASSUME NEW m \in Nat, m \in Without
        PROVE  m + 1 \in Without
    <3>1. ASSUME NEW k \in S, k < n
          PROVE  k + (m + 1) < n
      <4>1. PICK l \in S : l < n /\ ~(l <= k)
        BY <3>1
      <4>2. l + m < n /\ k \in Nat /\ l \in Nat
        BY <2>2, <4>1
      <4>3. QED
        BY <4>1, <4>2
    <3>2. QED
      BY <3>1
  <2>3. Nat \subseteq Without
    <3> HIDE DEF Without
    <3> QED BY <2>1, <2>2, NatSetInduction
  <2>4. n \in Without
    <3> HIDE DEF Without
    <3> QED BY <2>3
  <2>5. lo + n < n /\ lo \in Nat
    BY <2>4
  <2>6. QED
    BY <2>5
<1>2. \E q \in S : n < q /\ \A k \in S : n < k => k >= q
  <2> DEFINE Below == {m \in Nat : \A k \in S : n < k => m <= k}
  <2> SUFFICES ASSUME \A q \in S : n < q => \E k \in S : n < k /\ ~(k >= q) PROVE FALSE
    OBVIOUS
  <2>1. 0 \in Below
    OBVIOUS
  <2>2. ASSUME NEW m \in Nat, m \in Below
        PROVE  m + 1 \in Below
    <3>1. ASSUME NEW k \in S, n < k
          PROVE  m + 1 <= k
      <4>1. PICK l \in S : n < l /\ ~(l >= k)
        BY <3>1
      <4>2. m <= l /\ k \in Nat /\ l \in Nat
        BY <2>2, <4>1
      <4>3. QED
        BY <4>1, <4>2
    <3>2. QED
      BY <3>1
  <2>3. Nat \subseteq Below
    <3> HIDE DEF Below
    <3> QED BY <2>1, <2>2, NatSetInduction
  <2>4. hi \in Nat /\ hi + 1 \in Nat
    OBVIOUS
  <2>5. hi + 1 \in Below
    <3> HIDE DEF Below
    <3> QED BY <2>3, <2>4
  <2>6. hi + 1 <= hi
    BY <2>5
  <2>7. QED
    BY <2>4, <2>6
<1>3. PICK p \in S : p < n /\ \A k \in S : k < n => k <= p
  BY <1>1
<1>4. PICK q \in S : n < q /\ \A k \in S : n < k => k >= q
  BY <1>2
<1>5. \A k \in S : k < n \/ n < k
  OBVIOUS
<1>6. QED
  BY <1>3, <1>4, <1>5

-----------------------------------------------------------------------------
(* Names *)

\* What split('.') cuts a name at, and the piece between two neighbouring cuts.
Cuts(name) == {0, Len(name) + 1} \cup {i \in DOMAIN name : name[i] = "."}

LEMMA SegmentShape ==
    ASSUME NEW name \in Seq(Classes)
    PROVE  /\ Cuts(name) \in SUBSET Nat
           /\ \A s \in Segments(name) :
                 \E p, q \in Cuts(name) : /\ p < q /\ \A k \in Cuts(name) : k <= p \/ k >= q
                                          /\ s = SubSeq(name, p + 1, q - 1)
           /\ \A p, q \in Cuts(name) : p < q /\ (\A k \in Cuts(name) : k <= p \/ k >= q)
                 => SubSeq(name, p + 1, q - 1) \in Segments(name)
<1>1. Cuts(name) \in SUBSET Nat
  BY DEF Cuts
<1> DEFINE ends == {c \in Cuts(name) \X Cuts(name) :
                       c[1] < c[2] /\ \A k \in Cuts(name) : k <= c[1] \/ k >= c[2]}
<1>2. Segments(name) = {SubSeq(name, c[1] + 1, c[2] - 1) : c \in ends}
  BY DEF Segments, Cuts
<1>3. ASSUME NEW s, s \in Segments(name)
      PROVE  \E p, q \in Cuts(name) : /\ p < q /\ \A k \in Cuts(name) : k <= p \/ k >= q
                                      /\ s = SubSeq(name, p + 1, q - 1)
  <2>1. PICK c \in ends : s = SubSeq(name, c[1] + 1, c[2] - 1)
    BY <1>2, <1>3
  <2>2. c[1] \in Cuts(name) /\ c[2] \in Cuts(name) /\ c[1] < c[2]
        /\ \A k \in Cuts(name) : k <= c[1] \/ k >= c[2]
    OBVIOUS
  <2>3. QED
    BY <2>1, <2>2
<1>4. ASSUME NEW p \in Cuts(name), NEW q \in Cuts(name), p < q,
             \A k \in Cuts(name) : k <= p \/ k >= q
      PROVE  SubSeq(name, p + 1, q - 1) \in Segments(name)
  <2> DEFINE c == <<p, q>>
  <2>1. c \in ends /\ c[1] = p /\ c[2] = q
    BY <1>4
  <2> HIDE DEF c
  <2>2. SubSeq(name, c[1] + 1, c[2] - 1) \in Segments(name)
    BY <1>2, <2>1
  <2>3. QED
    BY <2>1, <2>2
<1>5. QED
  BY <1>1, <1>3, <1>4

\* s has the characters of name between p and q, and none of these is a separator.
Between(s, name, p, q) ==
    /\ s = <<>> <=> q = p + 1
    /\ DOMAIN s = 1..(q - 1 - p)
    /\ \A i \in 1..(q - 1 - p) : s[i] = name[p + i] /\ s[i] \in Classes \ {"."}
    /\ \A i \in (p + 1)..(q - 1) : i \in DOMAIN name /\ name[i] = s[i - p]

\* So the piece between two neighbouring cuts.
LEMMA PieceShape ==
    ASSUME NEW name \in Seq(Classes), NEW p \in Cuts(name), NEW q \in Cuts(name), p < q,
           \A k \in Cuts(name) : k <= p \/ k >= q,
           NEW s, s = SubSeq(name, p + 1, q - 1)
    PROVE  Between(s, name, p, q)
<1>1. p \in Nat /\ q \in Nat /\ Len(name) \in Nat /\ q <= Len(name) + 1
      /\ DOMAIN name = 1..Len(name) /\ \A i \in 1..Len(name) : name[i] \in Classes
  BY DEF Cuts
<1>2. \A i \in (p + 1)..(q - 1) : i \in 1..Len(name) /\ i \notin Cuts(name)
  BY <1>1
<1>3. \A i \in (p + 1)..(q - 1) : name[i] # "." /\ name[i] \in Classes
  BY <1>1, <1>2 DEF Cuts
<1>4. /\ s \in Seq(Classes) /\ Len(s) = IF p + 1 <= q - 1 THEN (q - 1) - (p + 1) + 1 ELSE 0
      /\ \A i \in 1..((q - 1) - (p + 1) + 1) : s[i] = name[(p + 1) + i - 1]
  BY <1>1, <1>3, SubSeqProperties
<1>5. Len(s) = q - 1 - p
  BY <1>1, <1>4
<1>6. ASSUME NEW i \in 1..(q - 1 - p)
      PROVE  s[i] = name[p + i] /\ s[i] \in Classes \ {"."}
  <2>1. i \in 1..((q - 1) - (p + 1) + 1) /\ (p + 1) + i - 1 = p + i /\ p + i \in (p + 1)..(q - 1)
    BY <1>1
  <2>2. s[i] = name[p + i]
    BY <2>1, <1>4
  <2>3. QED
    BY <2>1, <2>2, <1>3
<1>7. ASSUME NEW i \in (p + 1)..(q - 1)
      PROVE  i \in DOMAIN name /\ name[i] = s[i - p]
  <2>1. i - p \in 1..(q - 1 - p) /\ p + (i - p) = i
    BY <1>1
  <2>2. QED
    BY <2>1, <1>1, <1>2, <1>6
<1>8. s = <<>> <=> q = p + 1
  <2>1. \A t \in Seq(Classes) : t = <<>> <=> Len(t) = 0
    OBVIOUS
  <2>2. QED
    BY <2>1, <1>1, <1>4, <1>5
<1>9. DOMAIN s = 1..(q - 1 - p)
  BY <1>4, <1>5
<1>10. QED
  BY <1>6, <1>7, <1>8, <1>9 DEF Between

\* validate_job_type accepts what its error message says: segments that start with
\* a letter, joined by dots.
LEMMA JobTypeGrammar ==
    ASSUME NEW name \in Seq(Classes)
    PROVE  ValidateJobType(name) <=> IsJobType(name)
<1> DEFINE L == Len(name)
<1>1. L \in Nat /\ DOMAIN name = 1..L /\ \A i \in 1..L : name[i] \in Classes
  OBVIOUS
<1>2. name # <<>> /\ L <= MAX_TYPE_LENGTH <=> L \in 1..MAX_TYPE_LENGTH
  BY <1>1, NamesAssumption
<1>3. 0 \in Cuts(name) /\ L + 1 \in Cuts(name) /\ (\A i \in 1..L : name[i] = "." <=> i \in Cuts(name))
      /\ Cuts(name) \in SUBSET Nat /\ Cuts(name) \subseteq 0..(L + 1)
  BY <1>1 DEF Cuts
<1> DEFINE Good(s) == s # <<>> /\ s[1] = "a" /\ \A i \in DOMAIN s : s[i] \in {"a", "d"}
<1> DEFINE ends(p, q) == p < q /\ \A k \in Cuts(name) : k <= p \/ k >= q
<1> HIDE DEF L
<1>4. ASSUME \A s \in Segments(name) : Good(s), L > 0
      PROVE  /\ \A i \in 1..L : /\ name[i] \in {"a", "d", "."}
                                /\ i = 1 \/ name[i - 1] = "." => name[i] = "a"
             /\ name[L] # "."
  <2>1. ASSUME NEW p \in Cuts(name), NEW q \in Cuts(name), ends(p, q)
        PROVE  /\ q # p + 1
               /\ name[p + 1] = "a"
               /\ \A i \in (p + 1)..(q - 1) : name[i] \in {"a", "d"}
    <3>0. PICK s : s = SubSeq(name, p + 1, q - 1)
      OBVIOUS
    <3>1. s \in Segments(name)
      BY <2>1, <3>0, SegmentShape
    <3>2. Good(s)
      BY <3>1, <1>4
    <3>3. /\ s = <<>> <=> q = p + 1
          /\ DOMAIN s = 1..(q - 1 - p)
          /\ \A i \in 1..(q - 1 - p) : s[i] = name[p + i] /\ s[i] \in Classes \ {"."}
          /\ \A i \in (p + 1)..(q - 1) : i \in DOMAIN name /\ name[i] = s[i - p]
      <4>1. Between(s, name, p, q)
        BY <2>1, <3>0, PieceShape
      <4>2. QED
        BY <4>1 DEF Between
    <3>4. p \in Nat /\ q \in Nat
      BY <1>3
    <3>5. q # p + 1 /\ 1 \in 1..(q - 1 - p)
      BY <3>2, <3>3, <3>4, <2>1
    <3>6. name[p + 1] = "a"
      BY <3>2, <3>3, <3>5
    <3>7. ASSUME NEW i \in (p + 1)..(q - 1)
          PROVE  name[i] \in {"a", "d"}
      <4>1. i - p \in 1..(q - 1 - p)
        BY <3>4
      <4>2. QED
        BY <4>1, <3>2, <3>3
    <3>8. QED
      BY <3>5, <3>6, <3>7
  <2>2. ASSUME NEW i \in 1..L
        PROVE  name[i] \in {"a", "d", "."} /\ (i \notin Cuts(name) => name[i] # ".")
    <3>1. CASE i \in Cuts(name)
      BY <3>1, <1>3
    <3>2. CASE i \notin Cuts(name)
      <4>1. i \in Nat /\ 0 < i /\ i < L + 1
        BY <1>1
      <4>2. PICK p, q \in Cuts(name) : p < i /\ i < q /\ \A k \in Cuts(name) : k <= p \/ k >= q
        BY <4>1, <3>2, <1>3, Neighbours
      <4>3. p \in Nat /\ q \in Nat
        BY <1>3
      <4>4. ends(p, q) /\ i \in (p + 1)..(q - 1)
        BY <4>1, <4>2, <4>3
      <4>5. QED
        BY <2>1, <4>4
    <3>3. QED
      BY <3>1, <3>2
  <2>3. ASSUME NEW p \in Cuts(name), p <= L
        PROVE  p + 1 \notin Cuts(name) /\ name[p + 1] = "a" /\ p + 1 <= L
    <3>1. p \in Nat /\ p + 1 \in Nat /\ p < p + 1
      BY <1>3
    <3>2. p + 1 \notin Cuts(name)
      <4> SUFFICES ASSUME p + 1 \in Cuts(name) PROVE FALSE
        OBVIOUS
      <4>1. \A k \in Cuts(name) : k <= p \/ k >= p + 1
        BY <3>1, <1>3
      <4>2. ends(p, p + 1)
        BY <3>1, <4>1
      <4>3. QED
        BY <2>1, <4>2
    <3>3. p + 1 < L + 1
      BY <2>3, <3>1, <3>2, <1>1, <1>3
    <3>4. PICK r, q \in Cuts(name) : r < p + 1 /\ p + 1 < q /\ \A k \in Cuts(name) : k <= r \/ k >= q
      BY <3>1, <3>2, <3>3, <1>3, Neighbours
    <3>5. r = p
      BY <3>1, <3>4, <1>3
    <3>6. ends(p, q)
      BY <3>1, <3>4, <3>5, <1>3
    <3>7. QED
      BY <3>1, <3>2, <3>3, <3>6, <2>1, <1>1
  <2>4. ASSUME NEW i \in 1..L, i = 1 \/ name[i - 1] = "."
        PROVE  name[i] = "a"
    <3>1. i - 1 \in Cuts(name) /\ i - 1 <= L /\ (i - 1) + 1 = i
      BY <2>4, <1>1, <1>3
    <3>2. QED
      BY <3>1, <2>3
  <2>5. name[L] # "."
    <3> SUFFICES ASSUME name[L] = "." PROVE FALSE
      OBVIOUS
    <3>1. L \in Cuts(name) /\ L <= L
      BY <1>1, <1>3, <1>4
    <3>2. QED
      BY <3>1, <2>3, <1>3
  <2>6. QED
    BY <2>2, <2>4, <2>5
<1>5. ASSUME L > 0, name[L] # ".",
             \A i \in 1..L : /\ name[i] \in {"a", "d", "."}
                             /\ i = 1 \/ name[i - 1] = "." => name[i] = "a",
             NEW s \in Segments(name)
      PROVE  Good(s)
  <2>1. PICK p, q \in Cuts(name) : /\ p < q /\ \A k \in Cuts(name) : k <= p \/ k >= q
                                   /\ s = SubSeq(name, p + 1, q - 1)
    BY SegmentShape
  <2>2. /\ s = <<>> <=> q = p + 1
        /\ DOMAIN s = 1..(q - 1 - p)
        /\ \A i \in 1..(q - 1 - p) : s[i] = name[p + i] /\ s[i] \in Classes \ {"."}
        /\ \A i \in (p + 1)..(q - 1) : i \in DOMAIN name /\ name[i] = s[i - p]
    <3>1. Between(s, name, p, q)
      BY <2>1, PieceShape
    <3>2. QED
      BY <3>1 DEF Between
  <2>3. p \in Nat /\ q \in Nat /\ q <= L + 1
    BY <1>1, <1>3
  <2>4. p + 1 \in 1..L /\ name[p + 1] = "a"
    <3>1. p # L
      <4>1. p # 0 => name[p] = "."
        BY <2>1, <2>3, <1>1, <1>3
      <4>2. QED
        BY <4>1, <1>1, <1>5
    <3>2. p + 1 \in 1..L
      BY <3>1, <2>1, <2>3, <1>1
    <3>3. p = 0 \/ name[p] = "."
      BY <2>3, <3>2, <1>1, <1>3
    <3>4. p + 1 = 1 \/ name[(p + 1) - 1] = "."
      BY <2>3, <3>3
    <3>5. QED
      BY <3>2, <3>4, <1>5
  <2>5. q # p + 1
    <3> SUFFICES ASSUME q = p + 1 PROVE FALSE
      OBVIOUS
    <3>1. name[p + 1] = "."
      BY <2>4, <1>3
    <3>2. QED
      BY <3>1, <2>4
  <2>6. 1 \in 1..(q - 1 - p) /\ s[1] = "a"
    BY <2>1, <2>2, <2>3, <2>4, <2>5
  <2>7. ASSUME NEW i \in DOMAIN s
        PROVE  s[i] \in {"a", "d"}
    <3>1. i \in 1..(q - 1 - p) /\ p + i \in 1..L
      BY <2>2, <2>3, <1>1
    <3>2. s[i] = name[p + i] /\ s[i] # "."
      BY <3>1, <2>2
    <3>3. QED
      BY <3>1, <3>2, <1>5
  <2>8. QED
    BY <2>2, <2>5, <2>6, <2>7
<1>6. ValidateJobType(name) <=> L \in 1..MAX_TYPE_LENGTH /\ \A s \in Segments(name) : Good(s)
  BY <1>2 DEF ValidateJobType, L
<1>7. IsJobType(name) <=> /\ L \in 1..MAX_TYPE_LENGTH
                          /\ \A i \in 1..L : /\ name[i] \in {"a", "d", "."}
                                             /\ i = 1 \/ name[i - 1] = "." => name[i] = "a"
                          /\ name[L] # "."
  BY <1>1 DEF IsJobType, L
<1> HIDE DEF Good
<1>8. L \in 1..MAX_TYPE_LENGTH => L > 0
  BY <1>1
<1>9. QED
  BY <1>4, <1>5, <1>6, <1>7, <1>8

\* validate_queue_name accepts runs of letters and digits joined by single separators.
LEMMA QueueNameGrammar ==
    ASSUME NEW name \in Seq(Classes)
    PROVE  ValidateQueueName(name) <=> IsQueueName(name)
<1> DEFINE L == Len(name)
<1>1. L \in Nat /\ DOMAIN name = 1..L /\ \A i \in 1..L : name[i] \in Classes
  OBVIOUS
<1>2. name # <<>> /\ L <= MAX_QUEUE_LENGTH <=> L \in 1..MAX_QUEUE_LENGTH
  BY <1>1, NamesAssumption
<1> HIDE DEF L
<1>3. ASSUME ValidateQueueName(name)
      PROVE  IsQueueName(name)
  <2>1. /\ L \in 1..MAX_QUEUE_LENGTH /\ name[1] \in {"a", "d"} /\ name[L] \in {"a", "d"}
        /\ \A i \in 1..L : /\ name[i] \in {"a", "d", "."}
                           /\ ~(name[i] = "." /\ i < L /\ name[i + 1] = ".")
    BY <1>1, <1>2, <1>3 DEF ValidateQueueName, L
  <2>2. ASSUME NEW i \in 1..L, name[i] = "."
        PROVE  i \in 2..(L - 1) /\ {name[i - 1], name[i + 1]} \subseteq {"a", "d"}
    <3>1. i # 1 /\ i # L
      BY <2>1, <2>2
    <3>2. i \in 2..(L - 1) /\ i - 1 \in 1..L /\ i + 1 \in 1..L /\ (i - 1) + 1 = i /\ i - 1 < L /\ i < L
      BY <3>1, <1>1
    <3>3. name[i + 1] \in {"a", "d"}
      BY <2>1, <2>2, <3>2
    <3>4. name[i - 1] \in {"a", "d"}
      BY <2>1, <2>2, <3>2
    <3>5. QED
      BY <3>2, <3>3, <3>4
  <2>3. QED
    BY <1>1, <2>1, <2>2 DEF IsQueueName, L
<1>4. ASSUME IsQueueName(name)
      PROVE  ValidateQueueName(name)
  <2>1. /\ L \in 1..MAX_QUEUE_LENGTH
        /\ \A i \in 1..L : \/ name[i] \in {"a", "d"}
                           \/ /\ name[i] = "." /\ i \in 2..(L - 1)
                              /\ {name[i - 1], name[i + 1]} \subseteq {"a", "d"}
    BY <1>1, <1>4 DEF IsQueueName, L
  <2>2. 1 \in 1..L /\ L \in 1..L /\ 1 \notin 2..(L - 1) /\ L \notin 2..(L - 1)
    BY <1>1, <2>1
  <2>3. name[1] \in {"a", "d"} /\ name[L] \in {"a", "d"}
    BY <2>1, <2>2
  <2>4. \A i \in 1..L : /\ name[i] \in {"a", "d", "."}
                        /\ ~(name[i] = "." /\ i < L /\ name[i + 1] = ".")
    BY <2>1
  <2>5. QED
    BY <1>1, <1>2, <2>1, <2>3, <2>4 DEF ValidateQueueName, L
<1>5. QED
  BY <1>3, <1>4

-----------------------------------------------------------------------------
(* The inductive invariant *)

AllItems == MoreItems \cup UNION {FirstItems[kind] : kind \in Kinds}

ItemSet ==
    [type : Seq(Classes), args : {item.args : item \in AllItems},
     options : Seq(OptionSet), meta : Metas \cup {None}, schema : Schemas \cup {None}]

CallbackSet == UNION {[set -> CallbackItems] : set \in SUBSET CallbackNames}

DraftSet == [kind : Kinds \cup {None}, items : Seq(ItemSet), callbacks : CallbackSet]

States == {"waiting", "running"} \cup Over

\* What the caller has built; only the options of an enqueue can not be metadata.
DraftInv ==
    /\ draft \in DraftSet
    /\ draft.kind = None => draft.items = <<>>
    /\ draft.kind # "callbacks" => draft.callbacks = NoCallbacks
    /\ draft.kind = "enqueue" =>
          \A i \in DOMAIN draft.items : \A o \in DOMAIN draft.items[i].options :
              draft.items[i].options[o].kind # "Meta"

\* A call that has returned was made for a draft, which does not change after it; what
\* the server has is the body of that draft, and it runs nothing else.
SentInv ==
    /\ outcome # None => draft.kind # None
    /\ sent.wire # <<>> => outcome # None /\ sent.wire = Body(sent.at)
    /\ sent.at \in Int
    /\ run \in [DOMAIN sent.wire -> States]

\* send() refuses a job exactly when it is not valid.
RefusalInv ==
    draft.kind = "enqueue" /\ outcome # None =>
        /\ draft.items # <<>>
        /\ outcome = "Builder" <=> Invalid(draft.items[1])

IInv == DraftInv /\ SentInv /\ RefusalInv /\ WorkflowOrder
-----------------------------------------------------------------------------
(* Options and arguments *)

\* What the kind of an option says of its value.
LEMMA OptionShape ==
    ASSUME NEW option \in OptionSet
    PROVE  /\ option.kind \in DOMAIN FieldOf \cup {"Meta"}
           /\ option.kind = "Queue" => option.value \in QueueNames
           /\ option.kind = "Delay" => option.value \in Delays
           /\ option.kind \in {"Timeout", "VisibilityTimeout"} => option.value \in Timeouts
  BY DEF OptionSet, FieldOf

\* The positions among the first n options that say something about a field.
Says(options, f, n) ==
    {i \in 1..n : options[i].kind # "Meta" /\ FieldOf[options[i].kind] = f}

\* resolve_options goes through the options in order: a field has the value of the last
\* option that sets it, and is absent when none does.
LEMMA LastOneCounts ==
    ASSUME NEW options \in Seq(OptionSet), options # <<>>, NEW now
    PROVE  /\ DOMAIN ResolveOptions(options, now) = Fields
           /\ \A f \in Fields :
                 /\ Says(options, f, Len(options)) = {} => ResolveOptions(options, now)[f] = None
                 /\ Says(options, f, Len(options)) # {} =>
                       \E i \in Says(options, f, Len(options)) :
                          \A j \in Says(options, f, Len(options)) : j <= i
                 /\ \A i \in Says(options, f, Len(options)) :
                       (\A j \in Says(options, f, Len(options)) : j <= i) =>
                          ResolveOptions(options, now)[f] = OnWire(options[i], now)
<1> DEFINE L == Len(options)
<1> DEFINE first == [f \in Fields |-> None]
<1> DEFINE one(r, n) == IF options[n].kind = "Meta" THEN r
                        ELSE [r EXCEPT ![FieldOf[options[n].kind]] = OnWire(options[n], now)]
<1> DEFINE step(f, m) == [n \in 0..m |-> IF n = 0 THEN first ELSE one(f[n - 1], n)]
<1> DEFINE wire == CHOOSE f : f = step(f, L)
<1>1. L \in Nat /\ \A n \in 1..L : options[n] \in OptionSet
  OBVIOUS
<1>2. \E f : f = step(f, L)
  <2> HIDE DEF first, one
  <2> DEFINE Solved == {m \in Nat : \E f : f = step(f, m)}
  <2>1. 0 \in Solved
    <3>1. 0..0 = {0}
      OBVIOUS
    <3> DEFINE f == [n \in {0} |-> first]
    <3>2. f = step(f, 0)
      BY <3>1
    <3>3. QED
      BY <3>2
  <2>2. ASSUME NEW m \in Nat, m \in Solved
        PROVE  m + 1 \in Solved
    <3>1. PICK f : f = step(f, m)
      BY <2>2
    <3> DEFINE g == [n \in 0..(m + 1) |-> IF n = m + 1 THEN one(f[m], m + 1) ELSE f[n]]
    <3>2. ASSUME NEW n \in 0..(m + 1)
          PROVE  g[n] = step(g, m + 1)[n]
      <4>1. CASE n = 0
        <5>1. n # m + 1 /\ n \in 0..m
          BY <4>1
        <5>2. f[n] = first
          BY <4>1, <5>1, <3>1
        <5>3. QED
          BY <4>1, <5>1, <5>2
      <4>2. CASE n = m + 1
        <5>1. n - 1 = m /\ n # 0 /\ m \in 0..(m + 1) /\ m # m + 1
          BY <4>2
        <5>2. g[m] = f[m]
          BY <5>1
        <5>3. QED
          BY <4>2, <5>1, <5>2
      <4>3. CASE n # 0 /\ n # m + 1
        <5>1. n \in 0..m /\ n - 1 \in 0..(m + 1) /\ n - 1 # m + 1
          BY <4>3
        <5>2. g[n - 1] = f[n - 1] /\ g[n] = f[n]
          BY <5>1, <4>3
        <5>3. f[n] = one(f[n - 1], n)
          BY <5>1, <3>1, <4>3
        <5>4. QED
          BY <5>2, <5>3, <4>3
      <4>4. QED
        BY <4>1, <4>2, <4>3
    <3>3. g = step(g, m + 1)
      BY <3>2
    <3> HIDE DEF g, step
    <3>4. QED
      BY <3>3
  <2>3. Nat \subseteq Solved
    <3> HIDE DEF Solved
    <3> QED BY <2>1, <2>2, NatSetInduction
  <2>4. QED
    BY <2>3, <1>1
<1>3. wire = step(wire, L)
  <2> HIDE DEF step
  <2> QED BY <1>2
<1>4. ResolveOptions(options, now) = wire[L]
  BY DEF ResolveOptions
<1> HIDE DEF wire
<1>5. wire[0] = first
  <2> HIDE DEF first, one
  <2> QED BY <1>1, <1>3
<1>6. ASSUME NEW n \in Nat, n + 1 <= L
      PROVE  wire[n + 1] = one(wire[n], n + 1)
  <2>1. n + 1 \in 0..L /\ n + 1 # 0 /\ (n + 1) - 1 = n
    BY <1>1, <1>6
  <2> HIDE DEF one, first
  <2>2. QED
    BY <2>1, <1>3
<1> DEFINE said(f, n) == Says(options, f, n)
<1> DEFINE Right(n) ==
       /\ DOMAIN wire[n] = Fields
       /\ \A f \in Fields :
             /\ said(f, n) = {} => wire[n][f] = None
             /\ said(f, n) # {} => \E i \in said(f, n) : \A j \in said(f, n) : j <= i
             /\ \A i \in said(f, n) :
                   (\A j \in said(f, n) : j <= i) => wire[n][f] = OnWire(options[i], now)
<1>7. Right(0)
  <2>1. \A f : said(f, 0) = {}
    BY DEF Says
  <2>2. QED
    BY <2>1, <1>5
<1>8. ASSUME NEW n \in Nat, n + 1 <= L, Right(n)
      PROVE  Right(n + 1)
  <2> DEFINE o == options[n + 1]
  <2>1. n + 1 \in 1..L /\ o \in OptionSet
    BY <1>1, <1>8
  <2>2. \A f : said(f, n) \subseteq 1..n
    BY DEF Says
  <2>3. CASE o.kind = "Meta"
    <3>1. \A f : said(f, n + 1) = said(f, n)
      BY <2>3 DEF Says
    <3>2. wire[n + 1] = wire[n]
      BY <2>3, <1>6, <1>8
    <3> HIDE DEF said, o
    <3>3. QED
      BY <3>1, <3>2, <1>8
  <2>4. CASE o.kind # "Meta"
    <3> DEFINE g == FieldOf[o.kind]
    <3>1. g \in Fields
      BY <2>1, <2>4, OptionShape DEF Fields
    <3>2. said(g, n + 1) = said(g, n) \cup {n + 1}
      BY <2>4 DEF Says
    <3>3. \A f : f # g => said(f, n + 1) = said(f, n)
      BY <2>4 DEF Says
    <3>4. wire[n + 1] = [wire[n] EXCEPT ![g] = OnWire(o, now)]
      BY <2>4, <1>6, <1>8
    <3> HIDE DEF said, g
    <3>5. wire[n + 1][g] = OnWire(o, now) /\ DOMAIN wire[n + 1] = Fields
      BY <3>1, <3>4, <1>8
    <3>6. \A f \in Fields : f # g => wire[n + 1][f] = wire[n][f]
      BY <3>4, <1>8
    <3>7. ASSUME NEW i \in said(g, n + 1), \A j \in said(g, n + 1) : j <= i
          PROVE  wire[n + 1][g] = OnWire(options[i], now)
      <4>1. said(g, n) \subseteq 1..n
        BY <2>2
      <4>2. n + 1 <= i /\ i \in 1..n \cup {n + 1}
        BY <4>1, <3>2, <3>7
      <4>3. i = n + 1
        BY <4>2
      <4>4. QED
        BY <4>3, <3>5
    <3>8. n + 1 \in said(g, n + 1) /\ \A j \in said(g, n + 1) : j <= n + 1
      BY <3>2, <2>2
    <3> HIDE DEF o
    <3>9. QED
      BY <3>3, <3>5, <3>6, <3>7, <3>8, <1>8
  <2>5. QED
    BY <2>3, <2>4
<1> HIDE DEF said, first, one, step
<1>9. Right(L)
  <2> HIDE DEF Right, L
  <2> DEFINE Done == {m \in Nat : m <= L => Right(m)}
  <2>1. 0 \in Done
    BY <1>7
  <2>2. ASSUME NEW m \in Nat, m \in Done
        PROVE  m + 1 \in Done
    <3>1. m + 1 <= L => m <= L
      BY <1>1
    <3>2. QED
      BY <3>1, <2>2, <1>8
  <2>3. Nat \subseteq Done
    <3> HIDE DEF Done
    <3> QED BY <2>1, <2>2, NatSetInduction
  <2>4. QED
    BY <2>3, <1>1
<1>10. QED
  BY <1>4, <1>9 DEF said

\* What args_as and arg return of the arguments as they are sent: a value that is not an
\* array of one element comes back, and an object is opened.
LEMMA ArgsComeBack ==
    ASSUME NEW args
    PROVE  /\ args.tag # "array" \/ Len(args.in) # 1 => ArgsAs(NormalizeArgs(args)) = args
           /\ args.tag = "object" => Arg(NormalizeArgs(args)) = args.in[1]
<1>1. CASE args.tag = "array"
  BY <1>1 DEF NormalizeArgs, ArgsAs
<1>2. CASE args.tag # "array"
  <2> DEFINE w == NormalizeArgs(args)
  <2>1. w.tag = "array" /\ w.in = <<args>>
    BY <1>2 DEF NormalizeArgs, Array
  <2>2. Len(w.in) = 1 /\ w.in[1] = args
    BY <2>1
  <2> HIDE DEF w
  <2>3. ArgsAs(w) = args
    BY <2>1, <2>2 DEF ArgsAs
  <2>4. args.tag = "object" => Arg(w) = args.in[1]
    BY <2>1, <2>2 DEF Arg
  <2>5. QED
    BY <2>3, <2>4 DEF w
<1>3. QED
  BY <1>1, <1>2
-----------------------------------------------------------------------------
(* Request bodies *)

\* A job or step of the request has the type, the arguments and the options of an item.
Carries(request, item, now) ==
    /\ request.type = item.type
    /\ request.args = NormalizeArgs(item.args)
    /\ request.options = ResolveOptions(item.options, now)

\* The request starts with one job or step for each item, and only callbacks follow.
Faithful(W, now) ==
    LET N == Len(draft.items)
    IN /\ Len(W) \in Nat /\ DOMAIN W = 1..Len(W) /\ N <= Len(W)
       /\ draft.kind # "callbacks" => Len(W) = N
       /\ \A i \in 1..N :
             /\ Carries(W[i], draft.items[i], now)
             /\ draft.kind = "enqueue" =>
                   /\ W[i].meta = IF draft.items[i].meta # None THEN draft.items[i].meta
                                  ELSE ExtractMeta(draft.items[i].options)
                   /\ W[i].schema = draft.items[i].schema
             /\ draft.kind = "batch" => W[i].meta = draft.items[i].meta
       /\ \A c \in DOMAIN draft.callbacks : \E k \in (N + 1)..Len(W) : W[k].id = <<c, 0>>
       /\ \A k \in (N + 1)..Len(W) : \E c \in DOMAIN draft.callbacks :
             W[k].id = <<c, 0>> /\ Carries(W[k], draft.callbacks[c], now)

\* A step of a chain waits for the one before it, a callback for all jobs, and any other
\* job for nobody.
Ordered(W) ==
    LET N == Len(draft.items)
    IN /\ \A i \in 1..N :
             /\ draft.kind = "chain" =>
                   /\ W[i].id = <<"step", i>>
                   /\ i > 1 => W[i].depends_on = {<<"step", i - 1>>}
             /\ draft.kind # "chain" => W[i].depends_on = {}
             /\ draft.kind = "callbacks" => W[i].id = <<"job", i>>
       /\ \A c \in (N + 1)..Len(W) :
             /\ W[c].depends_on = {<<"job", i>> : i \in 1..N}
             /\ \E name \in CallbackNames : W[c].id = <<name, 0>>

\* What the constructors of a job and of a step take from an item.
LEMMA RequestShape ==
    ASSUME NEW item, NEW now
    PROVE  /\ Carries(EnqueueRequest(item, now), item, now)
           /\ EnqueueRequest(item, now).depends_on = {}
           /\ EnqueueRequest(item, now).meta =
                 IF item.meta # None THEN item.meta ELSE ExtractMeta(item.options)
           /\ EnqueueRequest(item, now).schema = item.schema
           /\ Carries(BatchedRequest(item, now), item, now)
           /\ BatchedRequest(item, now).depends_on = {}
           /\ BatchedRequest(item, now).meta = item.meta
<1> DEFINE r == EnqueueRequest(item, now)
<1>1. r.type = item.type /\ r.args = NormalizeArgs(item.args)
  BY DEF EnqueueRequest
<1>2. r.options = ResolveOptions(item.options, now) /\ r.depends_on = {}
  BY DEF EnqueueRequest
<1>3. /\ r.meta = IF item.meta # None THEN item.meta ELSE ExtractMeta(item.options)
      /\ r.schema = item.schema
  BY DEF EnqueueRequest
<1>4. DOMAIN r = {"id", "type", "args", "depends_on", "options", "meta", "schema"}
  BY DEF EnqueueRequest
<1>5. BatchedRequest(item, now) = [r EXCEPT !.meta = item.meta, !.schema = None]
  BY DEF BatchedRequest
<1> HIDE DEF r
<1>6. /\ BatchedRequest(item, now).type = r.type /\ BatchedRequest(item, now).args = r.args
      /\ BatchedRequest(item, now).options = r.options
  BY <1>4, <1>5
<1>7. BatchedRequest(item, now).depends_on = r.depends_on /\ BatchedRequest(item, now).meta = item.meta
  BY <1>4, <1>5
<1>8. QED
  BY <1>1, <1>2, <1>3, <1>6, <1>7 DEF Carries, r

LEMMA StepShape ==
    ASSUME NEW item, NEW id, NEW deps, NEW now
    PROVE  /\ Carries(WireStep(item, id, deps, now), item, now)
           /\ WireStep(item, id, deps, now).id = id
           /\ WireStep(item, id, deps, now).depends_on = deps
<1> DEFINE r == WireStep(item, id, deps, now)
<1>1. r.type = item.type /\ r.args = NormalizeArgs(item.args)
  BY DEF WireStep
<1>2. r.options = ResolveOptions(item.options, now)
  BY DEF WireStep
<1>3. r.id = id /\ r.depends_on = deps
  BY DEF WireStep
<1> HIDE DEF r
<1>4. QED
  BY <1>1, <1>2, <1>3 DEF Carries, r

Elements(s) == {s[k] : k \in 1..Len(s)}

\* What is in one of three sequences is in their concatenation.
LEMMA InConcat ==
    ASSUME NEW S, NEW a \in Seq(S), NEW b \in Seq(S), NEW c \in Seq(S)
    PROVE  /\ a \o b \o c \in Seq(S)
           /\ Elements(a) \cup Elements(b) \cup Elements(c) \subseteq Elements(a \o b \o c)
<1> DEFINE ab == a \o b
<1> DEFINE abc == ab \o c
<1>1. /\ ab \in Seq(S) /\ Len(ab) = Len(a) + Len(b)
      /\ \A i \in 1..(Len(a) + Len(b)) : ab[i] = IF i <= Len(a) THEN a[i] ELSE b[i - Len(a)]
  BY ConcatProperties
<1> HIDE DEF ab
<1>2. /\ abc \in Seq(S) /\ Len(abc) = Len(ab) + Len(c)
      /\ \A i \in 1..(Len(ab) + Len(c)) : abc[i] = IF i <= Len(ab) THEN ab[i] ELSE c[i - Len(ab)]
  <2>1. ab \in Seq(S)
    BY <1>1
  <2>2. QED
    BY <2>1, ConcatProperties
<1> HIDE DEF abc
<1>3. Len(a) \in Nat /\ Len(b) \in Nat /\ Len(c) \in Nat
  OBVIOUS
<1>4. ASSUME NEW k \in 1..Len(a)
      PROVE  k \in 1..Len(abc) /\ abc[k] = a[k]
  BY <1>1, <1>2, <1>3
<1>5. ASSUME NEW k \in 1..Len(b)
      PROVE  k + Len(a) \in 1..Len(abc) /\ abc[k + Len(a)] = b[k]
  <2>1. k + Len(a) \in 1..(Len(a) + Len(b)) /\ ~(k + Len(a) <= Len(a)) /\ (k + Len(a)) - Len(a) = k
    BY <1>3
  <2>2. ab[k + Len(a)] = b[k]
    BY <2>1, <1>1
  <2>3. QED
    BY <2>1, <2>2, <1>1, <1>2, <1>3
<1>6. ASSUME NEW k \in 1..Len(c)
      PROVE  k + Len(ab) \in 1..Len(abc) /\ abc[k + Len(ab)] = c[k]
  <2>1. /\ k + Len(ab) \in 1..(Len(ab) + Len(c)) /\ ~(k + Len(ab) <= Len(ab))
        /\ (k + Len(ab)) - Len(ab) = k
    BY <1>1, <1>3
  <2>2. QED
    BY <2>1, <1>2
<1>7. abc \in Seq(S) /\ Elements(a) \cup Elements(b) \cup Elements(c) \subseteq Elements(abc)
  <2>1. Elements(a) \subseteq Elements(abc)
    BY <1>4 DEF Elements
  <2>2. Elements(b) \subseteq Elements(abc)
    BY <1>5 DEF Elements
  <2>3. Elements(c) \subseteq Elements(abc)
    BY <1>6 DEF Elements
  <2>4. QED
    BY <2>1, <2>2, <2>3, <1>2
<1>8. QED
  BY <1>7 DEF abc, ab

\* So is the body of every kind of request.
LEMMA BodyShape ==
    ASSUME DraftInv, draft.kind # None, NEW now
    PROVE  Faithful(Body(now), now) /\ Ordered(Body(now))
<1> DEFINE items == draft.items
<1> DEFINE N == Len(items)
<1> DEFINE W == Body(now)
<1>1. /\ draft.kind \in Kinds /\ items \in Seq(ItemSet)
      /\ DOMAIN draft.callbacks \subseteq CallbackNames
      /\ draft.kind # "callbacks" => DOMAIN draft.callbacks = {}
  BY DEF DraftInv, DraftSet, CallbackSet, NoCallbacks
<1>2. N \in Nat /\ DOMAIN items = 1..N
  BY <1>1
<1> HIDE DEF items
<1>3. CASE draft.kind = "enqueue"
  <2>1. W = [i \in 1..N |-> EnqueueRequest(items[i], now)]
    BY <1>2, <1>3 DEF Body, items
  <2> HIDE DEF W, N
  <2>2. Len(W) = N /\ DOMAIN W = 1..N
    BY <1>2, <2>1
  <2>3. \A i \in 1..N : W[i] = EnqueueRequest(items[i], now)
    BY <2>1
  <2>4. \A i \in 1..N : /\ Carries(W[i], items[i], now) /\ W[i].depends_on = {}
                        /\ W[i].meta = IF items[i].meta # None THEN items[i].meta
                                       ELSE ExtractMeta(items[i].options)
                        /\ W[i].schema = items[i].schema
    BY <2>3, RequestShape
  <2>5. QED
    BY <1>1, <1>2, <1>3, <2>2, <2>4 DEF Faithful, Ordered, items, N, W
<1>4. CASE draft.kind = "batch"
  <2>1. W = [i \in 1..N |-> BatchedRequest(items[i], now)]
    BY <1>2, <1>4 DEF Body, items
  <2> HIDE DEF W, N
  <2>2. Len(W) = N /\ DOMAIN W = 1..N
    BY <1>2, <2>1
  <2>3. \A i \in 1..N : W[i] = BatchedRequest(items[i], now)
    BY <2>1
  <2>4. \A i \in 1..N : /\ Carries(W[i], items[i], now) /\ W[i].depends_on = {}
                        /\ W[i].meta = items[i].meta
    BY <2>3, RequestShape
  <2>5. QED
    BY <1>1, <1>2, <1>4, <2>2, <2>4 DEF Faithful, Ordered, items, N, W
<1>5. CASE draft.kind = "chain"
  <2>1. W = [i \in 1..N |->
               WireStep(items[i], <<"step", i>>, IF i > 1 THEN {<<"step", i - 1>>} ELSE {}, now)]
    BY <1>2, <1>5 DEF Body, ChainSteps, items
  <2> HIDE DEF W, N
  <2>2. Len(W) = N /\ DOMAIN W = 1..N
    BY <1>2, <2>1
  <2>3. \A i \in 1..N : W[i] =
               WireStep(items[i], <<"step", i>>, IF i > 1 THEN {<<"step", i - 1>>} ELSE {}, now)
    BY <2>1
  <2>4. ASSUME NEW i \in 1..N
        PROVE  /\ Carries(W[i], items[i], now) /\ W[i].id = <<"step", i>>
               /\ i > 1 => W[i].depends_on = {<<"step", i - 1>>}
    <3> DEFINE id == <<"step", i>>
    <3> DEFINE deps == IF i > 1 THEN {<<"step", i - 1>>} ELSE {}
    <3>1. W[i] = WireStep(items[i], id, deps, now)
      BY <2>3
    <3>2. i > 1 => deps = {<<"step", i - 1>>}
      OBVIOUS
    <3> HIDE DEF id, deps
    <3>3. Carries(W[i], items[i], now) /\ W[i].id = id /\ W[i].depends_on = deps
      BY <3>1, StepShape
    <3>4. QED
      BY <3>2, <3>3 DEF id
  <2>5. QED
    BY <1>1, <1>2, <1>5, <2>2, <2>4 DEF Faithful, Ordered, items, N, W
<1>6. /\ Len(ParallelSteps(items, now)) = N /\ DOMAIN ParallelSteps(items, now) = 1..N
      /\ \A i \in 1..N : LET s == ParallelSteps(items, now)[i]
                         IN Carries(s, items[i], now) /\ s.id = <<"job", i>> /\ s.depends_on = {}
  <2> DEFINE P == ParallelSteps(items, now)
  <2>1. P = [i \in 1..N |-> WireStep(items[i], <<"job", i>>, {}, now)]
    BY <1>2 DEF ParallelSteps
  <2> HIDE DEF P, N
  <2>2. Len(P) = N /\ DOMAIN P = 1..N
    BY <1>2, <2>1
  <2>3. \A i \in 1..N : P[i] = WireStep(items[i], <<"job", i>>, {}, now)
    BY <2>1
  <2>4. ASSUME NEW i \in 1..N
        PROVE  Carries(P[i], items[i], now) /\ P[i].id = <<"job", i>> /\ P[i].depends_on = {}
    <3> DEFINE id == <<"job", i>>
    <3>1. P[i] = WireStep(items[i], id, {}, now)
      BY <2>3
    <3> HIDE DEF id
    <3>2. Carries(P[i], items[i], now) /\ P[i].id = id /\ P[i].depends_on = {}
      BY <3>1, StepShape
    <3>3. QED
      BY <3>2 DEF id
  <2>5. QED
    BY <2>2, <2>4 DEF P
<1>7. CASE draft.kind = "group"
  <2>1. W = ParallelSteps(items, now)
    BY <1>7 DEF Body, items
  <2> HIDE DEF W, N
  <2>2. QED
    BY <1>1, <1>2, <1>6, <1>7, <2>1 DEF Faithful, Ordered, items, N, W
<1>8. CASE draft.kind = "callbacks"
  <2> DEFINE P == ParallelSteps(items, now)
  <2> DEFINE C == CallbackSteps(draft.callbacks, items, now)
  <2> DEFINE jobs == {<<"job", i>> : i \in 1..N}
  <2> DEFINE step(name) == WireStep(draft.callbacks[name], <<name, 0>>, jobs, now)
  <2> DEFINE S == {step(name) : name \in DOMAIN draft.callbacks}
  <2> DEFINE pushed(name) == IF name \in DOMAIN draft.callbacks THEN <<step(name)>> ELSE <<>>
  <2>1. W = P \o C
    BY <1>8 DEF Body, items
  <2>2. C = pushed("on-complete") \o pushed("on-success") \o pushed("on-failure")
    BY <1>2 DEF CallbackSteps
  <2> HIDE DEF C
  <2>3. C \in Seq(S) /\ \A name \in DOMAIN draft.callbacks : \E k \in 1..Len(C) : C[k] = step(name)
    <3>1. ASSUME NEW name \in CallbackNames
          PROVE  pushed(name) \in Seq(S)
      <4> DEFINE s == step(name)
      <4>1. name \in DOMAIN draft.callbacks => s \in S
        OBVIOUS
      <4>2. pushed(name) = IF name \in DOMAIN draft.callbacks THEN <<s>> ELSE <<>>
        OBVIOUS
      <4> HIDE DEF s, S
      <4>3. (name \in DOMAIN draft.callbacks => <<s>> \in Seq(S)) /\ <<>> \in Seq(S)
        BY <4>1
      <4> HIDE DEF pushed
      <4>4. QED
        BY <4>2, <4>3
    <3>2. ASSUME NEW name \in DOMAIN draft.callbacks
          PROVE  /\ name \in CallbackNames
                 /\ \E k \in 1..Len(pushed(name)) : pushed(name)[k] = step(name)
      <4> DEFINE s == step(name)
      <4>1. pushed(name) = <<s>> /\ name \in CallbackNames
        BY <1>1
      <4> HIDE DEF s, pushed
      <4>2. 1 \in 1..Len(pushed(name)) /\ pushed(name)[1] = s
        BY <4>1
      <4>3. QED
        BY <4>1, <4>2 DEF s
    <3> HIDE DEF pushed, step
    <3> DEFINE c == pushed("on-complete")
    <3> DEFINE s == pushed("on-success")
    <3> DEFINE f == pushed("on-failure")
    <3>3. c \in Seq(S) /\ s \in Seq(S) /\ f \in Seq(S)
      BY <3>1 DEF CallbackNames
    <3>4. ASSUME NEW name \in DOMAIN draft.callbacks
          PROVE  step(name) \in Elements(c) \cup Elements(s) \cup Elements(f)
      BY <3>2 DEF CallbackNames, Elements
    <3> HIDE DEF c, s, f, S
    <3>5. C = c \o s \o f
      BY <2>2 DEF c, s, f
    <3>6. /\ c \o s \o f \in Seq(S)
          /\ Elements(c) \cup Elements(s) \cup Elements(f) \subseteq Elements(c \o s \o f)
      BY <3>3, InConcat
    <3>7. QED
      BY <3>4, <3>5, <3>6 DEF Elements
  <2>4. \A c \in S : c.depends_on = jobs /\ \E name \in DOMAIN draft.callbacks :
                          c.id = <<name, 0>> /\ Carries(c, draft.callbacks[name], now)
    <3>1. ASSUME NEW name \in DOMAIN draft.callbacks
          PROVE  /\ step(name).depends_on = jobs /\ step(name).id = <<name, 0>>
                 /\ Carries(step(name), draft.callbacks[name], now)
      <4> DEFINE id == <<name, 0>>
      <4> HIDE DEF id, jobs
      <4>1. LET s == WireStep(draft.callbacks[name], id, jobs, now)
            IN s.depends_on = jobs /\ s.id = id /\ Carries(s, draft.callbacks[name], now)
        BY StepShape
      <4>2. QED
        BY <4>1 DEF id
    <3> HIDE DEF jobs, step
    <3>2. QED
      BY <3>1
  <2>5. P \in Seq({P[i] : i \in 1..N})
    <3> HIDE DEF P, N
    <3>1. Len(P) = N /\ DOMAIN P = 1..N /\ N \in Nat
      BY <1>2, <1>6 DEF P
    <3>2. P = [i \in 1..N |-> P[i]]
      BY <3>1, <1>2 DEF P, ParallelSteps
    <3>3. QED
      BY <3>1, <3>2
  <2>5a. \A name \in DOMAIN draft.callbacks : step(name).id = <<name, 0>>
    <3> DEFINE id(name) == <<name, 0>>
    <3> HIDE DEF id, jobs
    <3>1. \A name : WireStep(draft.callbacks[name], id(name), jobs, now).id = id(name)
      BY StepShape
    <3>2. QED
      BY <3>1 DEF id
  <2> HIDE DEF P, S, W, N, pushed, step
  <2>6. Len(C) \in Nat /\ DOMAIN C = 1..Len(C) /\ \A c \in 1..Len(C) : C[c] \in S
    BY <2>3
  <2>7. /\ Len(W) = N + Len(C) /\ DOMAIN W = 1..(N + Len(C))
        /\ \A i \in 1..N : W[i] = P[i]
        /\ \A c \in (N + 1)..(N + Len(C)) : W[c] = C[c - N]
    <3>1. Len(P) = N
      BY <1>6 DEF P
    <3>2. ASSUME NEW R, P \in Seq(R), C \in Seq(R)
          PROVE  /\ P \o C \in Seq(R) /\ Len(P \o C) = Len(P) + Len(C)
                 /\ \A i \in 1..(Len(P) + Len(C)) :
                       (P \o C)[i] = IF i <= Len(P) THEN P[i] ELSE C[i - Len(P)]
      BY <3>2, ConcatProperties
    <3> DEFINE R == {P[i] : i \in 1..N} \cup S
    <3>3. P \in Seq(R) /\ C \in Seq(R)
      BY <2>3, <2>5
    <3> HIDE DEF R
    <3>4. /\ W \in Seq(R) /\ Len(W) = N + Len(C)
          /\ \A i \in 1..(N + Len(C)) : W[i] = IF i <= N THEN P[i] ELSE C[i - N]
      BY <3>1, <3>2, <3>3, <2>1
    <3>5. DOMAIN W = 1..(N + Len(C))
      BY <3>4
    <3>6. QED
      BY <3>4, <3>5, <2>6, <1>2
  <2>8. \A i \in 1..N : Carries(W[i], items[i], now) /\ W[i].id = <<"job", i>> /\ W[i].depends_on = {}
    BY <1>6, <2>7 DEF P
  <2>9. ASSUME NEW c \in (N + 1)..Len(W)
        PROVE  W[c].depends_on = jobs /\ \E name \in DOMAIN draft.callbacks :
                  W[c].id = <<name, 0>> /\ Carries(W[c], draft.callbacks[name], now)
    <3>1. c - N \in 1..Len(C) /\ W[c] = C[c - N]
      BY <1>2, <2>6, <2>7
    <3>2. W[c] \in S
      BY <3>1, <2>6
    <3>3. QED
      BY <3>2, <2>4
  <2>10. ASSUME NEW name \in DOMAIN draft.callbacks
         PROVE  \E k \in (N + 1)..Len(W) : W[k].id = <<name, 0>>
    <3>1. PICK k \in 1..Len(C) : C[k] = step(name)
      BY <2>3
    <3>2. k + N \in (N + 1)..Len(W) /\ W[k + N] = C[k]
      <4>1. k + N \in (N + 1)..(N + Len(C)) /\ (k + N) - N = k
        BY <1>2, <2>6
      <4>2. QED
        BY <4>1, <2>7
    <3>3. QED
      BY <3>1, <3>2, <2>5a
  <2>12. Faithful(W, now)
    BY <1>2, <1>8, <2>6, <2>7, <2>8, <2>9, <2>10 DEF Faithful, items, N
  <2>13. Ordered(W)
    BY <1>1, <1>2, <1>8, <2>6, <2>7, <2>8, <2>9 DEF Ordered, items, N
  <2>14. QED
    BY <2>12, <2>13 DEF W
<1>9. QED
  BY <1>1, <1>3, <1>4, <1>5, <1>7, <1>8 DEF Kinds
-----------------------------------------------------------------------------
(* The invariant holds initially and every step preserves it *)

LEMMA OptionKinds ==
    /\ {"Queue", "Priority", "Timeout", "VisibilityTimeout", "Delay", "ScheduledAt", "ExpiresAt",
     "Retry", "Unique", "Tags"} \subseteq DOMAIN FieldOf
    /\ \A v \in QueueNames : [kind |-> "Queue", value |-> v] \in OptionSet
    /\ \A v \in Timeouts : /\ [kind |-> "Timeout", value |-> v] \in OptionSet
                          /\ [kind |-> "VisibilityTimeout", value |-> v] \in OptionSet
    /\ \A v \in Delays : [kind |-> "Delay", value |-> v] \in OptionSet
    /\ \A v \in Dates : /\ [kind |-> "ScheduledAt", value |-> v] \in OptionSet
                       /\ [kind |-> "ExpiresAt", value |-> v] \in OptionSet
    /\ \A v \in Policies : /\ [kind |-> "Priority", value |-> v] \in OptionSet
                          /\ [kind |-> "Retry", value |-> v] \in OptionSet
                          /\ [kind |-> "Unique", value |-> v] \in OptionSet
                          /\ [kind |-> "Tags", value |-> v] \in OptionSet
    /\ \A v \in Metas : [kind |-> "Meta", value |-> v] \in OptionSet
  BY DEF FieldOf, OptionSet

LEMMA NoCallbacksShape == NoCallbacks \in CallbackSet /\ DOMAIN NoCallbacks = {}
<1>1. NoCallbacks \in [{} -> CallbackItems] /\ {} \in SUBSET CallbackNames
  BY DEF NoCallbacks
<1>2. QED
  BY <1>1 DEF CallbackSet, NoCallbacks

LEMMA InitInv == Init => IInv
<1> SUFFICES ASSUME Init PROVE IInv
  OBVIOUS
<1>1. DraftInv
  BY NoCallbacksShape DEF Init, NoDraft, DraftInv, DraftSet
<1>2. SentInv
  BY DEF Init, SentInv
<1>3. RefusalInv /\ WorkflowOrder
  BY DEF Init, RefusalInv, WorkflowOrder, Accepted
<1>4. QED
  BY <1>1, <1>2, <1>3 DEF IInv

\* As long as the call has not returned the server has nothing.
LEMMA BuildingKeeps ==
    ASSUME SentInv, outcome = None, UNCHANGED <<sent, outcome, run>>
    PROVE  SentInv' /\ RefusalInv' /\ WorkflowOrder'
<1>1. sent.wire = <<>> /\ sent'.wire = <<>>
  BY DEF SentInv
<1>2. SentInv'
  BY <1>1 DEF SentInv
<1>3. RefusalInv' /\ WorkflowOrder'
  BY <1>1 DEF RefusalInv, WorkflowOrder, Accepted
<1>4. QED
  BY <1>2, <1>3

LEMMA BeginKeeps ==
    ASSUME IInv, NEW kind \in Kinds, NEW callbacks \in CallbackSet, Begin(kind, callbacks)
    PROVE  IInv'
<1>1. outcome = None
  BY DEF IInv, SentInv, Begin, NoDraft
<1>2. draft' = [kind |-> kind, items |-> <<>>, callbacks |-> callbacks]
  BY DEF Begin, NoDraft
<1>3. DraftInv'
  <2>1. /\ draft'.kind = kind /\ draft'.items = <<>> /\ draft'.callbacks = callbacks
        /\ draft' \in DraftSet
    BY <1>2 DEF DraftSet
  <2>2. kind # None
    BY NoneAssumption
  <2>3. kind # "callbacks" => callbacks = NoCallbacks
    BY DEF Begin
  <2>4. QED
    BY <2>1, <2>2, <2>3 DEF DraftInv
<1>4. QED
  BY <1>1, <1>3, BuildingKeeps DEF IInv, Begin

\* Only the newest item changes, or one is added.
LEMMA AddItemKeeps ==
    ASSUME IInv, NEW item \in AllItems, AddItem(item)
    PROVE  IInv'
<1>1. draft.kind # None /\ outcome = None /\ UNCHANGED <<sent, outcome, run>>
  BY DEF AddItem, Building
<1>2. draft \in DraftSet
  BY DEF IInv, DraftInv
<1>3. item = NewItem(item.type, item.args) /\ item.type \in Seq(Classes)
  BY ItemsAssumption DEF AllItems, BareItems
<1>4. item \in ItemSet /\ item.options = <<>>
  <2>1. item = [type |-> item.type, args |-> item.args, options |-> <<>>, meta |-> None,
              schema |-> None]
    BY <1>3 DEF NewItem
  <2>2. item.args \in {other.args : other \in AllItems} /\ <<>> \in Seq(OptionSet)
    OBVIOUS
  <2>3. ASSUME NEW t \in Seq(Classes), NEW a \in {other.args : other \in AllItems},
               NEW none \in Seq(OptionSet), none = <<>>
        PROVE  [type |-> t, args |-> a, options |-> none, meta |-> None, schema |-> None]
                  \in ItemSet
    BY DEF ItemSet
  <2>4. item.options = <<>>
    BY <2>1
  <2>5. item \in ItemSet
    BY <2>1, <2>2, <2>3, <1>3
  <2>6. QED
    BY <2>4, <2>5
<1> DEFINE more == Append(draft.items, item)
<1>5. draft' = [draft EXCEPT !.items = more] /\ more \in Seq(ItemSet)
  BY <1>2, <1>4 DEF AddItem, DraftSet
<1>6. /\ draft'.kind = draft.kind /\ draft'.items = Append(draft.items, item)
      /\ draft' \in DraftSet
  <2> HIDE DEF more
  <2>1. draft'.kind = draft.kind /\ draft'.items = more
    BY <1>2, <1>5
  <2>2. draft' \in DraftSet
    BY <1>2, <1>5 DEF DraftSet
  <2>3. QED
    BY <2>1, <2>2 DEF more
<1>7. DraftInv'
  <2>1. ASSUME NEW i \in DOMAIN draft'.items, NEW o \in DOMAIN draft'.items[i].options,
               draft'.kind = "enqueue"
        PROVE  draft'.items[i].options[o].kind # "Meta"
    <3>1. i \in 1..(Len(draft.items) + 1) /\ Len(draft.items) \in Nat
          /\ DOMAIN draft.items = 1..Len(draft.items)
      BY <1>2, <1>6
    <3>2. CASE i \in DOMAIN draft.items
      <4>1. draft'.items[i] = draft.items[i]
        BY <1>2, <1>6, <3>1, <3>2
      <4>2. QED
        BY <4>1, <3>2, <2>1, <1>6 DEF IInv, DraftInv
    <3>3. CASE i = Len(draft.items) + 1
      <4>1. draft'.items[i] = item
        BY <1>2, <1>6, <3>1, <3>3
      <4>2. QED
        BY <4>1, <2>1, <1>4
    <3>4. QED
      BY <3>1, <3>2, <3>3
  <2>2. draft'.kind # None
    BY <1>1, <1>6
  <2>3. draft'.kind # "callbacks" => draft'.callbacks = NoCallbacks
    <3>1. draft'.callbacks = draft.callbacks
      BY <1>2, <1>5 DEF DraftSet
    <3>2. QED
      BY <3>1, <1>6 DEF IInv, DraftInv
  <2>4. QED
    BY <1>6, <2>1, <2>2, <2>3 DEF DraftInv
<1>8. QED
  BY <1>1, <1>7, BuildingKeeps DEF IInv

LEMMA ReplacedItemKeeps ==
    ASSUME IInv, draft.kind # None, outcome = None, UNCHANGED <<sent, outcome, run>>,
           NEW n \in DOMAIN draft.items, NEW item \in ItemSet,
           draft' = [draft EXCEPT !.items = [draft.items EXCEPT ![n] = item]],
           draft.kind = "enqueue" => \A o \in DOMAIN item.options : item.options[o].kind # "Meta"
    PROVE  IInv'
<1>1. draft \in DraftSet
  BY DEF IInv, DraftInv
<1>2. /\ draft'.kind = draft.kind /\ draft'.callbacks = draft.callbacks
      /\ draft'.items = [draft.items EXCEPT ![n] = item]
  BY <1>1
<1>3. draft'.items \in Seq(ItemSet) /\ DOMAIN draft'.items = DOMAIN draft.items
  BY <1>1, <1>2 DEF DraftSet
<1>4. draft' \in DraftSet
  BY <1>1, <1>3 DEF DraftSet
<1>5. ASSUME NEW i \in DOMAIN draft'.items, NEW o \in DOMAIN draft'.items[i].options,
             draft'.kind = "enqueue"
      PROVE  draft'.items[i].options[o].kind # "Meta"
  <2>1. CASE i = n
    <3>1. draft'.items[i] = item
      BY <1>1, <1>2, <2>1
    <3>2. QED
      BY <3>1, <1>2, <1>5
  <2>2. CASE i # n
    <3>1. draft'.items[i] = draft.items[i] /\ i \in DOMAIN draft.items
      BY <1>1, <1>2, <1>3, <2>2
    <3>2. QED
      BY <3>1, <1>2, <1>5 DEF IInv, DraftInv
  <2>3. QED
    BY <2>1, <2>2
<1>6. DraftInv'
  <2>1. draft'.kind # None
    BY <1>2
  <2>2. draft'.kind = "enqueue" =>
          \A i \in DOMAIN draft'.items : \A o \in DOMAIN draft'.items[i].options :
              draft'.items[i].options[o].kind # "Meta"
    BY <1>5
  <2>3. draft'.kind # "callbacks" => draft'.callbacks = NoCallbacks
    BY <1>2 DEF IInv, DraftInv
  <2>4. QED
    BY <2>1, <2>2, <2>3, <1>4, Zenon DEF DraftInv
<1>7. QED
  BY <1>6, BuildingKeeps DEF IInv

LEMMA WithKeeps ==
    ASSUME IInv, NEW kind \in DOMAIN FieldOf \cup {"Meta"},
           NEW value, [kind |-> kind, value |-> value] \in OptionSet,
           With(kind, value)
    PROVE  IInv'
<1> DEFINE n == Len(draft.items)
<1> DEFINE o == [kind |-> kind, value |-> value]
<1> DEFINE item == [draft.items[n] EXCEPT !.options = Append(draft.items[n].options, o)]
<1>1. /\ draft.kind # None /\ outcome = None /\ UNCHANGED <<sent, outcome, run>> /\ n > 0
      /\ draft' = [draft EXCEPT !.items = [draft.items EXCEPT ![n] = item]]
      /\ draft.kind = "enqueue" => kind # "Meta"
  BY DEF With, BuilderSetter, WithOption, PushOption, Building, Newest
<1>2. draft.items \in Seq(ItemSet)
  BY DEF IInv, DraftInv, DraftSet
<1>3. n \in DOMAIN draft.items /\ draft.items[n] \in ItemSet
  BY <1>1, <1>2
<1>4. o \in OptionSet
  OBVIOUS
<1>5. /\ draft.items[n].options \in Seq(OptionSet)
      /\ item.options = Append(draft.items[n].options, o)
      /\ item \in ItemSet
  <2> DEFINE more == Append(draft.items[n].options, o)
  <2> HIDE DEF o, n
  <2>1. draft.items[n].options \in Seq(OptionSet)
    BY <1>3 DEF ItemSet
  <2>2. more \in Seq(OptionSet) /\ item = [draft.items[n] EXCEPT !.options = more]
    BY <2>1, <1>4
  <2> HIDE DEF item, more
  <2>3. item.options = more /\ item \in ItemSet
    BY <2>2, <1>3 DEF ItemSet
  <2>4. QED
    BY <2>1, <2>3 DEF more
<1>6. ASSUME draft.kind = "enqueue", NEW p \in DOMAIN item.options
      PROVE  item.options[p].kind # "Meta"
  <2> DEFINE old == draft.items[n].options
  <2> HIDE DEF item
  <2>1. p \in 1..(Len(old) + 1) /\ old \in Seq(OptionSet) /\ Len(old) \in Nat
    BY <1>5
  <2>2. CASE p \in DOMAIN old
    <3>1. item.options[p] = old[p]
      BY <2>1, <2>2, <1>5
    <3>2. old[p].kind # "Meta"
      BY <2>2, <1>3, <1>6 DEF IInv, DraftInv
    <3>3. QED
      BY <3>1, <3>2
  <2>3. CASE p = Len(old) + 1
    <3>1. item.options[p] = o
      BY <2>1, <2>3, <1>5
    <3>2. QED
      BY <3>1, <1>1, <1>6
  <2>4. p \in DOMAIN old \/ p = Len(old) + 1
    <3> HIDE DEF old
    <3> QED BY <2>1
  <2>5. QED
    BY <2>2, <2>3, <2>4
<1> HIDE DEF item, n
<1>7. QED
  BY <1>1, <1>3, <1>5, <1>6, ReplacedItemKeeps

LEMMA SetMetaKeeps ==
    ASSUME IInv, NEW meta \in Metas, SetMeta(meta)
    PROVE  IInv'
<1> DEFINE n == Len(draft.items)
<1> DEFINE item == [draft.items[n] EXCEPT !.meta = meta]
<1>1. /\ draft.kind # None /\ outcome = None /\ UNCHANGED <<sent, outcome, run>> /\ n > 0
      /\ draft' = [draft EXCEPT !.items = [draft.items EXCEPT ![n] = item]]
  BY DEF SetMeta, Building, Newest
<1>2. draft.items \in Seq(ItemSet)
  BY DEF IInv, DraftInv, DraftSet
<1>3. n \in DOMAIN draft.items /\ draft.items[n] \in ItemSet
  BY <1>1, <1>2
<1>4. item \in ItemSet /\ item.options = draft.items[n].options
  <2> HIDE DEF n
  <2> QED BY <1>3 DEF ItemSet
<1>5. draft.kind = "enqueue" => \A o \in DOMAIN item.options : item.options[o].kind # "Meta"
  BY <1>3, <1>4 DEF IInv, DraftInv
<1> HIDE DEF item, n
<1>6. QED
  BY <1>1, <1>3, <1>4, <1>5, ReplacedItemKeeps

LEMMA SetSchemaKeeps ==
    ASSUME IInv, NEW schema \in Schemas, SetSchema(schema)
    PROVE  IInv'
<1> DEFINE n == Len(draft.items)
<1> DEFINE item == [draft.items[n] EXCEPT !.schema = schema]
<1>1. /\ draft.kind # None /\ outcome = None /\ UNCHANGED <<sent, outcome, run>> /\ n > 0
      /\ draft' = [draft EXCEPT !.items = [draft.items EXCEPT ![n] = item]]
  BY DEF SetSchema, Building, Newest
<1>2. draft.items \in Seq(ItemSet)
  BY DEF IInv, DraftInv, DraftSet
<1>3. n \in DOMAIN draft.items /\ draft.items[n] \in ItemSet
  BY <1>1, <1>2
<1>4. item \in ItemSet /\ item.options = draft.items[n].options
  <2> HIDE DEF n
  <2> QED BY <1>3 DEF ItemSet
<1>5. draft.kind = "enqueue" => \A o \in DOMAIN item.options : item.options[o].kind # "Meta"
  BY <1>3, <1>4 DEF IInv, DraftInv
<1> HIDE DEF item, n
<1>6. QED
  BY <1>1, <1>3, <1>4, <1>5, ReplacedItemKeeps

\* The draft is not touched, and the call returns.
LEMMA RefusedKeeps ==
    ASSUME IInv, Refused
    PROVE  IInv'
<1>1. /\ draft.kind = "enqueue" /\ draft.items # <<>> /\ outcome = None /\ Invalid(draft.items[1])
      /\ draft' = draft /\ sent' = sent /\ run' = run /\ outcome' = "Builder"
  BY DEF Refused
<1>2. sent.wire = <<>>
  BY <1>1 DEF IInv, SentInv
<1>3. DraftInv'
  BY <1>1 DEF IInv, DraftInv
<1>4. SentInv'
  <2>1. "enqueue" # None
    BY NoneAssumption DEF Kinds
  <2>2. QED
    BY <1>1, <1>2, <2>1 DEF IInv, SentInv
<1>5. RefusalInv'
  <2>1. Invalid(draft.items[1])'
    BY <1>1 DEF Invalid
  <2>2. QED
    BY <1>1, <2>1 DEF RefusalInv
<1>6. WorkflowOrder'
  BY <1>1, <1>2 DEF WorkflowOrder, Accepted
<1>7. QED
  BY <1>3, <1>4, <1>5, <1>6 DEF IInv

LEMMA FailureKeeps ==
    ASSUME IInv, outcome = None, outcome' \in {"panic", "Err"}, UNCHANGED <<draft, sent, run>>,
           draft.kind # None,
           draft.kind = "enqueue" => draft.items # <<>> /\ ~Invalid(draft.items[1])
    PROVE  IInv'
<1>1. sent.wire = <<>>
  BY DEF IInv, SentInv
<1>2. DraftInv'
  BY DEF IInv, DraftInv
<1>3. SentInv'
  BY <1>1 DEF IInv, SentInv
<1>4. RefusalInv'
  <2>1. draft.kind = "enqueue" => ~Invalid(draft.items[1])'
    BY DEF Invalid
  <2>2. QED
    BY <2>1 DEF RefusalInv
<1>5. WorkflowOrder'
  BY <1>1 DEF WorkflowOrder, Accepted
<1>6. QED
  BY <1>2, <1>3, <1>4, <1>5 DEF IInv

LEMMA SendPanicsKeeps ==
    ASSUME IInv, NEW now, SendPanics(now)
    PROVE  IInv'
  BY FailureKeeps DEF SendPanics

LEMMA PostFailsKeeps ==
    ASSUME IInv, NEW now, PostFails(now)
    PROVE  IInv'
  BY FailureKeeps DEF PostFails, Ready

\* All that is posted waits.
LEMMA PostKeeps ==
    ASSUME IInv, NEW now \in Times, NEW reply \in Replies, Post(now, reply)
    PROVE  IInv'
<1> DEFINE W == Body(now)
<1> DEFINE N == Len(draft.items)
<1>1. /\ draft.kind # None /\ draft' = draft /\ outcome' = reply
      /\ sent' = [wire |-> W, at |-> now] /\ run' = [i \in DOMAIN sent'.wire |-> "waiting"]
      /\ draft.kind = "enqueue" => draft.items # <<>> /\ ~Invalid(draft.items[1])
  BY DEF Post, Ready
<1>2. reply # None /\ reply # "Builder"
  BY NoneAssumption DEF Replies
<1>3. Faithful(W, now) /\ Ordered(W)
  BY <1>1, BodyShape DEF IInv
<1>4. sent'.wire = W /\ sent'.at = now
  BY <1>1
<1>5. DraftInv'
  BY <1>1 DEF IInv, DraftInv
<1>6. SentInv'
  <2>1. \A t : Body(t)' = Body(t)
    BY <1>1 DEF Body
  <2>2. Body(sent.at)' = W
    BY <1>1, <1>4, <2>1 DEF Body
  <2> HIDE DEF W
  <2>3. run' \in [DOMAIN sent'.wire -> States]
    BY <1>1 DEF States
  <2>4. QED
    BY <1>1, <1>2, <1>4, <2>2, <2>3, RangesAssumption DEF SentInv
<1>7. RefusalInv'
  <2>1. draft.kind = "enqueue" => ~Invalid(draft.items[1])'
    BY <1>1 DEF Invalid
  <2>2. QED
    BY <2>1, <1>1, <1>2 DEF RefusalInv
<1>8. WorkflowOrder'
  <2> HIDE DEF W
  <2>1. N \in Nat /\ Len(W) \in Nat /\ DOMAIN W = 1..Len(W) /\ N <= Len(W)
    BY <1>3 DEF IInv, DraftInv, DraftSet, Faithful
  <2>2. \A i \in DOMAIN W : run'[i] = "waiting" /\ ~Started(i)'
    BY <1>1, <1>4 DEF Started
  <2>3. ASSUME NEW i \in 1..N, draft.kind # "chain"
        PROVE  DepsOver(i)'
    <3>1. W[i].depends_on = {}
      BY <1>3, <2>3 DEF Ordered
    <3>2. QED
      BY <3>1, <1>4 DEF DepsOver, Awaited
  <2>4. 2..N \subseteq DOMAIN W /\ (N + 1)..Len(W) \subseteq DOMAIN W
    BY <2>1
  <2>5. /\ \A i \in 2..N : ~Started(i)'
        /\ \A i \in (N + 1)..Len(W) : ~Started(i)'
    BY <2>2, <2>4
  <2>6. draft'.items = draft.items /\ draft'.kind = draft.kind
    BY <1>1
  <2>7. QED
    BY <1>4, <2>3, <2>5, <2>6 DEF WorkflowOrder
<1>9. QED
  BY <1>5, <1>6, <1>7, <1>8 DEF IInv

-----------------------------------------------------------------------------
(* Steps of the server *)

\* The order is kept by any step in which what is over stays as it is, and nothing starts
\* but what the server may start.
LEMMA OrderKeeps ==
    ASSUME DraftInv, SentInv, WorkflowOrder, UNCHANGED <<draft, sent>>,
           \A i \in DOMAIN run : run[i] \in Over => run'[i] = run[i],
           \A i \in DOMAIN run : Started(i)' => Started(i) \/ (DepsOver(i) /\ Wanted(i)),
           Accepted
    PROVE  WorkflowOrder'
<1> DEFINE W == sent.wire
<1> DEFINE N == Len(draft.items)
<1>1. Faithful(W, sent.at) /\ Ordered(W) /\ DOMAIN run = DOMAIN W
  BY BodyShape DEF SentInv, Accepted
<1> DEFINE M == Len(W)
<1>2. /\ N \in Nat /\ M \in Nat /\ DOMAIN W = 1..M /\ DOMAIN run = 1..M /\ N <= M
      /\ draft.kind # "callbacks" => M = N
  BY <1>1 DEF DraftInv, Faithful
<1>3. sent' = sent /\ draft' = draft
  OBVIOUS
<1> HIDE DEF W, N, M
<1>4. /\ draft.kind = "chain" => \A i \in 2..N : Started(i) => run[i - 1] = "completed"
      /\ \A c \in (N + 1)..M : Started(c) =>
            /\ \A i \in 1..N : run[i] \in Over
            /\ W[c].id[1] = "on-success" => \A i \in 1..N : run[i] = "completed"
            /\ W[c].id[1] = "on-failure" => \E i \in 1..N : run[i] = "failed"
  BY DEF WorkflowOrder, W, N, M
<1>5. "completed" \in Over /\ "failed" \in Over
  BY DEF Over
<1>6. ASSUME draft.kind = "chain", NEW i \in 2..N, Started(i)'
      PROVE  run'[i - 1] = "completed"
  <2>1. i \in DOMAIN run /\ i - 1 \in DOMAIN run /\ i \in 1..N /\ i - 1 \in 1..N /\ i > 1
    BY <1>2
  <2>2. run[i - 1] = "completed"
    <3>1. CASE Started(i)
      BY <3>1, <1>4, <1>6
    <3>2. CASE Wanted(i)
      <4>1. /\ W[i].id = <<"step", i>> /\ W[i].depends_on = {<<"step", i - 1>>}
            /\ W[i - 1].id = <<"step", i - 1>>
        BY <2>1, <1>1, <1>6 DEF Ordered, N, M
      <4>2. i - 1 \in Awaited(i)
        BY <4>1, <2>1, <1>1 DEF Awaited, W
      <4>3. W[i].id # <<"on-complete", 0>> /\ W[i].id # <<"on-failure", 0>>
        BY <4>1
      <4>4. \A j \in Awaited(i) : run[j] = "completed"
        BY <3>2, <4>3 DEF Wanted, W
      <4>5. QED
        BY <4>2, <4>4
    <3>3. QED
      BY <1>6, <2>1, <3>1, <3>2
  <2>3. QED
    BY <2>1, <2>2, <1>5
<1>7. ASSUME draft.kind # "chain", NEW i \in 1..N
      PROVE  DepsOver(i)'
  <2>1. sent'.wire[i].depends_on = {}
    BY <1>1, <1>3, <1>7 DEF Ordered, W, N, M
  <2>2. QED
    BY <2>1 DEF DepsOver, Awaited
<1>8. ASSUME NEW c \in (N + 1)..M, Started(c)'
      PROVE  /\ \A i \in 1..N : run[i] \in Over
             /\ W[c].id[1] = "on-success" => \A i \in 1..N : run[i] = "completed"
             /\ W[c].id[1] = "on-failure" => \E i \in 1..N : run[i] = "failed"
  <2>1. c \in DOMAIN run
    BY <1>2
  <2>2. CASE Started(c)
    BY <2>2, <1>4
  <2>3. CASE DepsOver(c) /\ Wanted(c)
    <3>1. draft.kind = "callbacks"
      BY <1>2
    <3>2. W[c].depends_on = {<<"job", i>> : i \in 1..N} /\ \A i \in 1..N : W[i].id = <<"job", i>>
      BY <1>1, <3>1 DEF Ordered, N, M
    <3>3. PICK name \in CallbackNames : W[c].id = <<name, 0>>
      BY <1>1 DEF Ordered, N, M
    <3>4. ASSUME NEW i \in 1..N
          PROVE  i \in Awaited(c)
      <4>1. i \in DOMAIN W
        BY <1>2
      <4>2. W[i].id = <<"job", i>> /\ <<"job", i>> \in W[c].depends_on
        BY <3>2
      <4>3. QED
        BY <4>1, <4>2 DEF Awaited, W
    <3>5. ASSUME NEW j \in Awaited(c)
          PROVE  j \in 1..N
      <4>1. j \in 1..M /\ W[j].id \in {<<"job", i>> : i \in 1..N}
        BY <3>2, <1>2 DEF Awaited, W
      <4>2. SUFFICES ASSUME j \in (N + 1)..M PROVE FALSE
        BY <4>1, <1>2
      <4>3. PICK other \in CallbackNames : W[j].id = <<other, 0>>
        BY <4>2, <1>1 DEF Ordered, N, M
      <4>4. other # "job"
        BY DEF CallbackNames
      <4>5. QED
        BY <4>1, <4>3, <4>4
    <3>6. \A i \in 1..N : run[i] \in Over
      BY <2>3, <3>4 DEF DepsOver
    <3>7. ASSUME W[c].id[1] = "on-success"
          PROVE  \A i \in 1..N : run[i] = "completed"
      <4>1. W[c].id # <<"on-complete", 0>> /\ W[c].id # <<"on-failure", 0>>
        BY <3>3, <3>7
      <4>2. QED
        BY <4>1, <2>3, <3>4 DEF Wanted, W
    <3>8. ASSUME W[c].id[1] = "on-failure"
          PROVE  \E i \in 1..N : run[i] = "failed"
      <4>1. W[c].id = <<"on-failure", 0>> /\ W[c].id # <<"on-complete", 0>>
        BY <3>3, <3>8
      <4>2. \E j \in Awaited(c) : run[j] = "failed"
        BY <4>1, <2>3 DEF Wanted, W
      <4>3. QED
        BY <4>2, <3>5
    <3>9. QED
      BY <3>6, <3>7, <3>8
  <2>4. QED
    BY <1>8, <2>1, <2>2, <2>3
<1>9. \A i \in 1..N : i \in DOMAIN run
  BY <1>2
<1>10. ASSUME NEW c \in (N + 1)..M, Started(c)'
       PROVE  /\ \A i \in 1..N : run'[i] \in Over
              /\ W[c].id[1] = "on-success" => \A i \in 1..N : run'[i] = "completed"
              /\ W[c].id[1] = "on-failure" => \E i \in 1..N : run'[i] = "failed"
  <2>1. \A i \in 1..N : run[i] \in Over /\ run'[i] = run[i]
    BY <1>8, <1>9, <1>10
  <2>2. QED
    BY <2>1, <1>8, <1>10
<1>11. sent'.wire = W /\ Len(sent'.wire) = M /\ Len(draft'.items) = N /\ draft'.kind = draft.kind
  BY <1>3 DEF W, N, M
<1>12. QED
  BY <1>6, <1>7, <1>10, <1>11 DEF WorkflowOrder

\* A step of the server changes nothing but the states of what it has.
LEMMA ServerKeeps ==
    ASSUME IInv, UNCHANGED <<draft, sent, outcome>>, run' \in [DOMAIN sent.wire -> States],
           \A i \in DOMAIN run : run[i] \in Over => run'[i] = run[i],
           \A i \in DOMAIN run : Started(i)' => Started(i) \/ (DepsOver(i) /\ Wanted(i))
    PROVE  IInv'
<1>1. DraftInv'
  BY DEF IInv, DraftInv
<1>2. Body(sent.at)' = Body(sent.at)
  BY DEF Body
<1>3. SentInv'
  BY <1>2 DEF IInv, SentInv
<1>4. RefusalInv'
  BY DEF IInv, RefusalInv, Invalid
<1>5. WorkflowOrder'
  <2>1. CASE Accepted
    BY <2>1, OrderKeeps DEF IInv
  <2>2. CASE ~Accepted
    BY <2>2 DEF WorkflowOrder, Accepted
  <2>3. QED
    BY <2>1, <2>2
<1>6. QED
  BY <1>1, <1>3, <1>4, <1>5 DEF IInv

LEMMA StepStartsKeeps ==
    ASSUME IInv, NEW k \in DOMAIN run, StepStarts(k)
    PROVE  IInv'
<1>1. run \in [DOMAIN sent.wire -> States]
  BY DEF IInv, SentInv
<1>2. /\ run[k] = "waiting" /\ DepsOver(k) /\ UNCHANGED <<draft, sent, outcome>>
      /\ run' = [run EXCEPT ![k] = IF Wanted(k) THEN "running" ELSE "skipped"]
  BY DEF StepStarts
<1>3. run' \in [DOMAIN sent.wire -> States]
  BY <1>1, <1>2 DEF States, Over
<1>4. \A i \in DOMAIN run : i # k => run'[i] = run[i]
  BY <1>2
<1>5. \A i \in DOMAIN run : run[i] \in Over => run'[i] = run[i]
  BY <1>2, <1>4 DEF Over
<1>6. ASSUME NEW i \in DOMAIN run, Started(i)'
      PROVE  Started(i) \/ (DepsOver(i) /\ Wanted(i))
  <2>1. CASE i = k
    <3>1. run'[k] = IF Wanted(k) THEN "running" ELSE "skipped"
      BY <1>2
    <3>2. Wanted(k)
      BY <3>1, <2>1, <1>6 DEF Started
    <3>3. QED
      BY <2>1, <3>2, <1>2
  <2>2. CASE i # k
    BY <2>2, <1>4, <1>6 DEF Started
  <2>3. QED
    BY <2>1, <2>2
<1>7. QED
  BY <1>2, <1>3, <1>5, <1>6, ServerKeeps

LEMMA StepEndsKeeps ==
    ASSUME IInv, NEW k \in DOMAIN run, NEW state \in {"completed", "failed"}, StepEnds(k, state)
    PROVE  IInv'
<1>1. run \in [DOMAIN sent.wire -> States]
  BY DEF IInv, SentInv
<1>2. /\ run[k] = "running" /\ UNCHANGED <<draft, sent, outcome>>
      /\ run' = [run EXCEPT ![k] = state]
  BY DEF StepEnds
<1>3. run' \in [DOMAIN sent.wire -> States]
  BY <1>1, <1>2 DEF States, Over
<1>4. \A i \in DOMAIN run : i # k => run'[i] = run[i]
  BY <1>2
<1>5. \A i \in DOMAIN run : run[i] \in Over => run'[i] = run[i]
  BY <1>2, <1>4 DEF Over
<1>6. \A i \in DOMAIN run : Started(i)' => Started(i)
  BY <1>2, <1>4 DEF Started
<1>7. QED
  BY <1>2, <1>3, <1>5, <1>6, ServerKeeps

LEMMA CancelSentKeeps ==
    ASSUME IInv, CancelSent
    PROVE  IInv'
<1>1. run \in [DOMAIN sent.wire -> States]
  BY DEF IInv, SentInv
<1>2. /\ UNCHANGED <<draft, sent, outcome>>
      /\ run' = [i \in DOMAIN run |-> IF run[i] = "waiting" THEN "cancelled" ELSE run[i]]
  BY DEF CancelSent
<1>3. run' \in [DOMAIN sent.wire -> States]
  BY <1>1, <1>2 DEF States, Over
<1>4. \A i \in DOMAIN run : run[i] \in Over => run'[i] = run[i]
  BY <1>2 DEF Over
<1>5. \A i \in DOMAIN run : Started(i)' => Started(i)
  BY <1>2 DEF Started
<1>6. QED
  BY <1>2, <1>3, <1>4, <1>5, ServerKeeps

LEMMA UnchangedKeeps ==
    ASSUME IInv, UNCHANGED vars
    PROVE  IInv'
<1>1. UNCHANGED <<draft, sent, outcome, run>>
  BY DEF vars
<1>2. run' \in [DOMAIN sent.wire -> States]
  BY <1>1 DEF IInv, SentInv
<1>3. \A i \in DOMAIN run : Started(i)' => Started(i)
  BY <1>1 DEF Started
<1>4. QED
  BY <1>1, <1>2, <1>3, ServerKeeps

LEMMA NextKeeps ==
    ASSUME IInv, [Next]_vars
    PROVE  IInv'
<1>1. CASE \E kind \in Kinds, set \in SUBSET CallbackNames :
              \E callbacks \in [set -> CallbackItems] : Begin(kind, callbacks)
  BY <1>1, BeginKeeps DEF CallbackSet
<1>2. CASE \E item \in AllItems : AddItem(item)
  BY <1>2, AddItemKeeps
<1>3. CASE \E q \in QueueNames : With("Queue", q)
  BY <1>3, WithKeeps, OptionKinds
<1>4. CASE \E t \in Timeouts : With("Timeout", t) \/ With("VisibilityTimeout", t)
  BY <1>4, WithKeeps, OptionKinds
<1>5. CASE \E d \in Delays : With("Delay", d)
  BY <1>5, WithKeeps, OptionKinds
<1>6. CASE \E t \in Dates : With("ScheduledAt", t) \/ With("ExpiresAt", t)
  BY <1>6, WithKeeps, OptionKinds
<1>7. CASE \E p \in Policies :
              With("Priority", p) \/ With("Retry", p) \/ With("Unique", p) \/ With("Tags", p)
  BY <1>7, WithKeeps, OptionKinds
<1>8. CASE \E m \in Metas : With("Meta", m) \/ SetMeta(m)
  BY <1>8, WithKeeps, SetMetaKeeps, OptionKinds
<1>8a. CASE \E schema \in Schemas : SetSchema(schema)
  BY <1>8a, SetSchemaKeeps
<1>9. CASE Refused
  BY <1>9, RefusedKeeps
<1>10. CASE \E now \in Times : SendPanics(now)
  BY <1>10, SendPanicsKeeps
<1>11. CASE \E now \in Times : \E reply \in Replies : Post(now, reply)
  BY <1>11, PostKeeps
<1>12. CASE \E now \in Times : PostFails(now)
  BY <1>12, PostFailsKeeps
<1>13. CASE \E i \in DOMAIN run : ServerStep(i)
  BY <1>13, StepStartsKeeps, StepEndsKeeps DEF ServerStep
<1>14. CASE CancelSent
  BY <1>14, CancelSentKeeps
<1>15. CASE UNCHANGED vars
  BY <1>15, UnchangedKeeps
<1>16. QED
  BY <1>1, <1>2, <1>3, <1>4, <1>5, <1>6, <1>7, <1>8, <1>9, <1>10, <1>11, <1>12, <1>13, <1>14,
     <1>15, <1>8a DEF Next, AllItems

-----------------------------------------------------------------------------
(* Theorems *)

\* The draft, what the server has of it and the refusals of send() are consistent in every
\* reachable state (client.rs, workflow.rs).
THEOREM Invariance == Spec => []IInv
<1>1. Init => IInv
  BY InitInv
<1>2. IInv /\ [Next]_vars => IInv'
  BY NextKeeps
<1>3. QED
  BY <1>1, <1>2, PTL DEF Spec

\* The steps of a chain run one after the other, jobs of a group or a batch wait for nobody,
\* and a callback runs when all jobs have ended as it asks (Workflow::to_wire).
THEOREM Order == Spec => []WorkflowOrder
<1>1. IInv => WorkflowOrder
  BY DEF IInv
<1>2. QED
  BY <1>1, Invariance, PTL

\* A value that fits is not changed by the conversions, and no other gets larger.
LEMMA ConversionHonours ==
    ASSUME NEW option \in OptionSet, sent.at \in Int
    PROVE  Honours(option, OnWire(option, sent.at))
<1> DEFINE asked == option.value
<1>1. CASE option.kind = "Delay"
  <2>1. asked \in Nat
    BY <1>1, OptionShape, RangesAssumption
  <2>2. OnWire(option, sent.at) = IF asked > MaxDuration THEN sent.at ELSE sent.at + asked
    BY <1>1 DEF OnWire, DelayUntil
  <2>3. QED
    BY <1>1, <2>1, <2>2, RangesAssumption DEF Honours
<1>2. CASE option.kind \in {"Timeout", "VisibilityTimeout"}
  <2>1. asked \in Nat
    BY <1>2, OptionShape, RangesAssumption
  <2>2. OnWire(option, sent.at) = asked % MillisRange
    BY <1>2 DEF OnWire
  <2> HIDE DEF asked
  <2>3. /\ asked % MillisRange \in 0..(MillisRange - 1)
        /\ asked < MillisRange => asked % MillisRange = asked
    BY <2>1, RangesAssumption
  <2>4. asked % MillisRange \in 0..asked
    BY <2>1, <2>3, RangesAssumption
  <2>5. QED
    BY <1>2, <2>2, <2>3, <2>4 DEF Honours, asked
<1>3. CASE option.kind \notin {"Delay", "Timeout", "VisibilityTimeout"}
  BY <1>3 DEF OnWire, Honours
<1>4. QED
  BY <1>1, <1>2, <1>3

\* What the server has says of every field what the caller said last of it, whatever the
\* options are and however many (resolve_options).
LEMMA FieldsAsSaid ==
    ASSUME NEW options \in Seq(OptionSet), sent.at \in Int
    PROVE  OptionsAsSaid(options, ResolveOptions(options, sent.at))
<1> DEFINE wire == ResolveOptions(options, sent.at)
<1> SUFFICES ASSUME NEW f \in Fields
             PROVE  LET says  == {i \in DOMAIN options :
                                    options[i].kind # "Meta" /\ FieldOf[options[i].kind] = f}
                        value == IF f \in DOMAIN wire THEN wire[f] ELSE None
                    IN /\ says = {} => value = None
                       /\ \A i \in says : (\A j \in says : j <= i) => Honours(options[i], value)
  BY DEF OptionsAsSaid
<1> DEFINE says == Says(options, f, Len(options))
<1>1. says = {i \in DOMAIN options : options[i].kind # "Meta" /\ FieldOf[options[i].kind] = f}
  BY DEF Says
<1> HIDE DEF says
<1>2. CASE options = <<>>
  <2>1. wire = <<>> /\ says = {}
    BY <1>1, <1>2 DEF ResolveOptions
  <2>2. f \notin DOMAIN wire
    BY <2>1 DEF Fields
  <2>3. QED
    BY <1>1, <2>1, <2>2
<1>3. CASE options # <<>>
  <2>1. /\ DOMAIN wire = Fields
        /\ says = {} => wire[f] = None
        /\ \A i \in says : (\A j \in says : j <= i) => wire[f] = OnWire(options[i], sent.at)
    BY <1>3, LastOneCounts DEF says
  <2>2. \A i \in says : options[i] \in OptionSet
    BY <1>1
  <2> HIDE DEF wire
  <2>3. \A i \in says : (\A j \in says : j <= i) => Honours(options[i], wire[f])
    BY <2>1, <2>2, ConversionHonours
  <2>4. QED
    BY <1>1, <2>1, <2>3
<1>4. QED
  BY <1>2, <1>3

\* So does a job or a step that carries an item.
LEMMA CarriesAsGiven ==
    ASSUME NEW item, item.options \in Seq(OptionSet), NEW request, sent.at \in Int,
           Carries(request, item, sent.at)
    PROVE  AsGiven(item, request)
<1>1. OptionsAsSaid(item.options, request.options)
  BY FieldsAsSaid DEF Carries
<1>2. /\ item.args.tag # "array" \/ Len(item.args.in) # 1 => ArgsAs(request.args) = item.args
      /\ item.args.tag = "object" => Arg(request.args) = item.args.in[1]
  BY ArgsComeBack DEF Carries
<1>3. QED
  BY <1>1, <1>2 DEF AsGiven, Carries

\* The server gets what the caller built, and send() refuses exactly the names that do not
\* follow the grammars of its error messages (client.rs, job.rs).
THEOREM AsBuilt == Spec => []RequestAsBuilt
<1>1. ASSUME IInv
      PROVE  RequestAsBuilt
  <2> DEFINE Items == draft.items
  <2>1. Items \in Seq(ItemSet) /\ DOMAIN Items = 1..Len(Items)
    BY <1>1 DEF IInv, DraftInv, DraftSet
  <2>2. ASSUME Accepted
        PROVE  LET N == Len(Items)
                   Callbacks == (N + 1)..Len(sent.wire)
               IN /\ \A i \in 1..N :
                        /\ AsGiven(Items[i], sent.wire[i])
                        /\ draft.kind \in {"enqueue", "batch"} => sent.wire[i].meta = Items[i].meta
                        /\ draft.kind = "enqueue" => sent.wire[i].schema = Items[i].schema
                  /\ \A c \in DOMAIN draft.callbacks :
                        \E k \in Callbacks : sent.wire[k].id = <<c, 0>>
                  /\ \A k \in Callbacks : \E c \in DOMAIN draft.callbacks :
                        sent.wire[k].id = <<c, 0>> /\ AsGiven(draft.callbacks[c], sent.wire[k])
    <3> DEFINE N == Len(Items)
    <3>1. draft.kind # None /\ sent.wire = Body(sent.at) /\ sent.at \in Int
      BY <1>1, <2>2 DEF IInv, SentInv, Accepted
    <3>2. Faithful(sent.wire, sent.at)
      BY <3>1, <1>1, BodyShape DEF IInv
    <3>3. ASSUME NEW i \in 1..N
          PROVE  /\ AsGiven(Items[i], sent.wire[i])
                 /\ draft.kind \in {"enqueue", "batch"} => sent.wire[i].meta = Items[i].meta
                 /\ draft.kind = "enqueue" => sent.wire[i].schema = Items[i].schema
      <4> DEFINE Item == Items[i]
      <4> DEFINE Wire == sent.wire[i]
      <4>1. /\ Carries(Wire, Item, sent.at)
            /\ draft.kind = "enqueue" => /\ Wire.meta = IF Item.meta # None THEN Item.meta
                                                        ELSE ExtractMeta(Item.options)
                                         /\ Wire.schema = Item.schema
            /\ draft.kind = "batch" => Wire.meta = Item.meta
        BY <3>2 DEF Faithful
      <4>2. Item \in ItemSet
        BY <2>1
      <4>3. draft.kind = "enqueue" => \A o \in DOMAIN Item.options : Item.options[o].kind # "Meta"
        BY <1>1, <2>1 DEF IInv, DraftInv
      <4> HIDE DEF Item, Wire
      <4>4. draft.kind = "enqueue" => ExtractMeta(Item.options) = None
        BY <4>3 DEF ExtractMeta
      <4>5. AsGiven(Item, Wire)
        BY <4>1, <4>2, <3>1, CarriesAsGiven DEF ItemSet
      <4>6. QED
        BY <4>1, <4>4, <4>5 DEF Item, Wire
    <3>4. \A c \in DOMAIN draft.callbacks : draft.callbacks[c].options \in Seq(OptionSet)
      BY <1>1, ItemsAssumption DEF IInv, DraftInv, DraftSet, CallbackSet
    <3>5. ASSUME NEW k \in (N + 1)..Len(sent.wire)
          PROVE  \E c \in DOMAIN draft.callbacks :
                    sent.wire[k].id = <<c, 0>> /\ AsGiven(draft.callbacks[c], sent.wire[k])
      <4>1. PICK c \in DOMAIN draft.callbacks :
               sent.wire[k].id = <<c, 0>> /\ Carries(sent.wire[k], draft.callbacks[c], sent.at)
        BY <3>2 DEF Faithful
      <4>2. QED
        BY <4>1, <3>1, <3>4, CarriesAsGiven
    <3>6. QED
      BY <3>2, <3>3, <3>5 DEF Faithful
  <2>3. ASSUME draft.kind = "enqueue", outcome # None
        PROVE  outcome = "Builder" <=>
                  ~ /\ IsJobType(Items[1].type)
                    /\ \A i \in DOMAIN Items[1].options :
                          Items[1].options[i].kind = "Queue" => IsQueueName(Items[1].options[i].value)
    <3>1. Items # <<>> /\ (outcome = "Builder" <=> Invalid(Items[1]))
      BY <1>1, <2>3 DEF IInv, RefusalInv
    <3>2. Items[1] \in ItemSet
      BY <2>1, <3>1
    <3>3. Items[1].type \in Seq(Classes) /\ Items[1].options \in Seq(OptionSet)
      BY <3>2 DEF ItemSet
    <3>4. ValidateJobType(Items[1].type) <=> IsJobType(Items[1].type)
      BY <3>3, JobTypeGrammar
    <3>5. ASSUME NEW i \in DOMAIN Items[1].options, Items[1].options[i].kind = "Queue"
          PROVE  ValidateQueueName(Items[1].options[i].value) <=> IsQueueName(Items[1].options[i].value)
      <4>1. Items[1].options[i] \in OptionSet
        BY <3>3
      <4>2. Items[1].options[i].value \in Seq(Classes)
        BY <4>1, <3>5, OptionShape, NamesAssumption
      <4>3. QED
        BY <4>2, QueueNameGrammar
    <3> HIDE DEF Items
    <3>6. QED
      BY <3>1, <3>4, <3>5 DEF Invalid
  <2>4. QED
    BY <2>2, <2>3 DEF RequestAsBuilt
<1>2. QED
  BY <1>1, Invariance, PTL
=============================================================================
