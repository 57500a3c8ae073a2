------------------------- MODULE HttpTransportProofs -------------------------
(***************************************************************************)
(* Proofs about HttpTransport, for every retry configuration, every width  *)
(* of the integers and every Retry-After.                                  *)
(***************************************************************************)
EXTENDS HttpTransport, FiniteSetTheorems, TLAPS

USE U32Assumption, U64Assumption, RetryLimitsAssumption, BackoffsAssumption,
    RetryAftersAssumption

-----------------------------------------------------------------------------
(* The backoff *)

\* The fields of a configuration.
LEMMA ConfigTypes ==
    ASSUME config \in Configs
    PROVE  /\ config.enabled \in BOOLEAN
           /\ config.retry_server_errors \in BOOLEAN
           /\ config.max_retries \in Nat
           /\ config.max_retries <= U32Max
           /\ config.min_backoff \in Nat
           /\ config.max_backoff \in Nat
  <1>1. /\ config.enabled \in BOOLEAN
        /\ config.retry_server_errors \in BOOLEAN
        /\ config.max_retries \in RetryLimits
        /\ config.min_backoff \in Backoffs
        /\ config.max_backoff \in Backoffs
    BY DEF Configs
  <1>2. config.max_retries \in 0..U32Max
    BY <1>1
  <1>3. config.min_backoff \in Nat /\ config.max_backoff \in Nat
    BY <1>1
  <1> QED
    BY <1>1, <1>2, <1>3

\* The cast to u64 never makes a duration longer, and keeps one that fits.
LEMMA CastShortens ==
    ASSUME NEW ms \in Nat
    PROVE  /\ AsMillis(ms) \in 0..U64Max
           /\ AsMillis(ms) <= ms
           /\ ms <= U64Max => AsMillis(ms) = ms
  <1> DEFINE w == U64Max + 1
  <1>1. w \in Nat /\ w > 0
    OBVIOUS
  <1> HIDE DEF w
  <1>2. ms % w \in Nat /\ ms % w < w /\ ms = w * (ms \div w) + (ms % w)
    BY <1>1
  <1>3. ms \div w \in Nat
    BY <1>1
  <1>4. w * (ms \div w) \in Nat
    BY <1>1, <1>3
  <1>5. ms % w <= ms
    BY <1>2, <1>4
  <1>6. ms < w => ms % w = ms
    BY <1>1
  <1> QED
    BY <1>2, <1>5, <1>6 DEF AsMillis, w

\* The loop makes at most max_retries + 1 attempts, even if the sum wraps.
LEMMA MaxAttemptsBound ==
    ASSUME config \in Configs
    PROVE  /\ MaxAttempts \in Nat
           /\ config.enabled => MaxAttempts <= config.max_retries + 1
           /\ ~config.enabled => MaxAttempts = 1
           /\ MaxAttempts = 0 => config.enabled /\ config.max_retries = U32Max
  <1>1. \A n \in 0..U32Max : /\ (n + 1) % (U32Max + 1) \in Nat
                             /\ (n + 1) % (U32Max + 1) <= n + 1
                             /\ (n + 1) % (U32Max + 1) = 0 => n = U32Max
    <2> TAKE n \in 0..U32Max
    <2>1. CASE n = U32Max
      <3>1. (n + 1) % (U32Max + 1) = 0
        BY <2>1
      <3> QED
        BY <3>1, <2>1
    <2>2. CASE n # U32Max
      <3>1. (n + 1) % (U32Max + 1) = n + 1
        BY <2>2
      <3> QED
        BY <3>1
    <2> QED
      BY <2>1, <2>2
  <1>2. config.max_retries \in 0..U32Max
    BY ConfigTypes
  <1> QED
    BY <1>1, <1>2, ConfigTypes DEF MaxAttempts

\* Whatever attempt number and header it is given, compute_backoff returns a
\* delay between zero and max_backoff.
LEMMA BackoffBound ==
    ASSUME config \in Configs, NEW n \in Nat,
           NEW retryAfter \in RetryAfterOptions, NEW d \in Backoff(n, retryAfter)
    PROVE  d \in Nat /\ d <= config.max_backoff
  <1>1. CASE retryAfter # {}
    <2>1. PICK ms \in retryAfter : d = Least(ms, config.max_backoff)
      BY <1>1 DEF Backoff
    <2>2. ms \in Nat
      BY DEF RetryAfterOptions
    <2> QED
      BY <2>1, <2>2, ConfigTypes DEF Least
  <1>2. CASE retryAfter = {}
    <2> DEFINE clamped == ClampedDelay(n)
    <2>1. Shl(n) \in Nat
      <3>1. 2 ^ n \in Int
        OBVIOUS
      <3>2. \A x \in Int : x % (U64Max + 1) \in Nat
        OBVIOUS
      <3> QED
        BY <3>1, <3>2 DEF Shl
    <2>2. \A x, y \in Nat : x * y \in Nat
      OBVIOUS
    <2>3. /\ AsMillis(config.min_backoff) \in Nat
          /\ AsMillis(config.max_backoff) \in Nat
          /\ AsMillis(config.max_backoff) <= config.max_backoff
      BY CastShortens, ConfigTypes
    <2>7. SaturatingMul(AsMillis(config.min_backoff), Shl(n)) \in Nat
      BY <2>1, <2>2, <2>3 DEF SaturatingMul, Least
    <2>4. clamped \in Nat /\ clamped <= config.max_backoff
      BY <2>3, <2>7, ConfigTypes DEF ClampedDelay, Least
    <2>5. d \in IF clamped > clamped \div 2
                THEN (clamped \div 2)..(clamped - 1) ELSE {clamped \div 2}
      BY <1>2 DEF Backoff
    <2> HIDE DEF clamped
    <2>6. \A c \in Nat : c \div 2 \in Nat /\ c \div 2 <= c
      OBVIOUS
    <2> QED
      BY <2>4, <2>5, <2>6, ConfigTypes
  <1> QED
    BY <1>1, <1>2

\* 2 ^ n is the number of subsets of 1..n, so it is a positive number that grows with n.
LEMMA PowersGrow ==
    ASSUME NEW m \in Nat, NEW n \in Nat, m <= n
    PROVE  /\ 2 ^ m \in Nat /\ 2 ^ n \in Nat /\ 1 <= 2 ^ m
           /\ 2 ^ m <= 2 ^ n
           /\ m < n => 2 ^ m < 2 ^ n
  <1>1. \A k \in Nat : /\ IsFiniteSet(1..k)
                       /\ Cardinality(1..k) = k
    BY FS_Interval
  <1>2. ASSUME NEW k \in Nat
        PROVE  /\ IsFiniteSet(SUBSET (1..k))
               /\ Cardinality(SUBSET (1..k)) = 2 ^ k
               /\ 2 ^ k \in Nat
    <2>1. IsFiniteSet(1..k) /\ Cardinality(1..k) = k
      BY <1>1
    <2>2. IsFiniteSet(SUBSET (1..k)) /\ Cardinality(SUBSET (1..k)) = 2 ^ Cardinality(1..k)
      BY <2>1, FS_SUBSET
    <2>3. Cardinality(SUBSET (1..k)) \in Nat
      BY <2>2, FS_CardinalityType
    <2> QED
      BY <2>1, <2>2, <2>3
  <1> DEFINE S == SUBSET (1..m)
  <1> DEFINE T == SUBSET (1..n)
  <1>3. S \subseteq T /\ {} \in S
    BY DEF S, T
  <1>4. m < n => (1..n) \in T /\ (1..n) \notin S
    OBVIOUS
  <1>5. /\ IsFiniteSet(S) /\ Cardinality(S) = 2 ^ m /\ 2 ^ m \in Nat
        /\ IsFiniteSet(T) /\ Cardinality(T) = 2 ^ n /\ 2 ^ n \in Nat
    BY <1>2
  <1> HIDE DEF S, T
  <1>6. Cardinality(S) <= Cardinality(T) /\ (Cardinality(T) = Cardinality(S) => T = S)
    BY <1>3, <1>5, FS_Subset
  <1>7. Cardinality(S) # 0
    BY <1>3, <1>5, FS_EmptySet
  <1> DEFINE x == 2 ^ m
  <1> DEFINE y == 2 ^ n
  <1>8. /\ x \in Nat /\ y \in Nat /\ x # 0 /\ x <= y
        /\ m < n => x # y
    BY <1>4, <1>5, <1>6, <1>7
  <1> HIDE DEF x, y
  <1>9. 1 <= x /\ (m < n => x < y)
    BY <1>8
  <1> QED
    BY <1>8, <1>9 DEF x, y

\* The clamped delay is the documented one, although the shift and the product may
\* overflow, when the casts lose nothing.
LEMMA ClampedAsDocumented ==
    ASSUME config \in Configs, BackoffsFit, NEW n \in Nat
    PROVE  /\ ClampedDelay(n) = Documented(n)
           /\ Documented(n) \in Nat
  <1> DEFINE low == config.min_backoff
  <1> DEFINE high == config.max_backoff
  <1> DEFINE p == 2 ^ n
  <1>1. low \in 0..U64Max /\ high \in 0..U64Max
    BY ConfigTypes DEF BackoffsFit
  <1>2. p \in Nat /\ 1 <= p /\ (n < U64Bits => p <= U64Max) /\ (n >= U64Bits => U64Max < p)
    <2>1. p \in Nat /\ 1 <= p
      BY PowersGrow
    <2>2. CASE n < U64Bits
      <3>1. p < 2 ^ U64Bits
        BY <2>2, PowersGrow
      <3> QED
        BY <2>1, <2>2, <3>1
    <2>3. CASE n >= U64Bits
      <3>1. 2 ^ U64Bits <= p
        BY <2>3, PowersGrow
      <3> QED
        BY <2>1, <2>3, <3>1
    <2> QED
      BY <2>2, <2>3
  <1> HIDE DEF p
  <1>3. Documented(n) = Least(low * p, high)
    BY DEF Documented, p
  <1>4. ClampedDelay(n) = Least(Least(low * Shl(n), U64Max), high)
    <2>1. AsMillis(low) = low /\ AsMillis(high) = high
      BY <1>1, CastShortens
    <2> QED
      BY <2>1 DEF ClampedDelay, SaturatingMul
  <1> HIDE DEF low, high
  <1>5. low * p \in Nat
    BY <1>1, <1>2
  <1>6. CASE n < U64Bits
    <2>1. p % (U64Max + 1) = p
      BY <1>2, <1>6
    <2>2. Shl(n) = p
      BY <2>1, <1>6 DEF Shl, p
    <2> QED
      BY <2>2, <1>1, <1>3, <1>4, <1>5 DEF Least
  <1>7. CASE n >= U64Bits
    <2>1. Shl(n) = U64Max
      BY <1>7 DEF Shl
    <2>2. CASE low = 0
      <3>1. low * p = 0 /\ low * U64Max = 0
        BY <2>2, <1>2
      <3> QED
        BY <3>1, <2>1, <1>1, <1>3, <1>4 DEF Least
    <2>3. CASE low # 0
      <3>1. \A x \in Nat : low * x \in Nat /\ low * x >= x
        BY <2>3, <1>1
      <3>2. low * p >= high /\ low * U64Max >= U64Max
        BY <3>1, <1>1, <1>2, <1>7
      <3> QED
        BY <3>1, <3>2, <2>1, <1>1, <1>2, <1>3, <1>4 DEF Least
    <2> QED
      BY <2>2, <2>3
  <1>8. Documented(n) \in Nat
    BY <1>1, <1>3, <1>5 DEF Least
  <1> QED
    BY <1>6, <1>7, <1>8

\* compute_backoff returns the server's delay, clamped, and without one stays in the
\* documented range.
LEMMA BackoffAsDocumented ==
    ASSUME config \in Configs, NEW n \in Nat,
           NEW retryAfter \in RetryAfterOptions, NEW d \in Backoff(n, retryAfter)
    PROVE  /\ retryAfter # {} =>
                 \A ms \in retryAfter : d = Least(ms, config.max_backoff)
           /\ retryAfter = {} /\ BackoffsFit =>
                 Documented(n) \div 2 <= d /\ d <= Documented(n)
  <1>1. ASSUME retryAfter # {}, NEW ms \in retryAfter
        PROVE  d = Least(ms, config.max_backoff)
    <2>1. retryAfter = {ms}
      BY <1>1 DEF RetryAfterOptions
    <2> QED
      BY <2>1 DEF Backoff
  <1>2. ASSUME retryAfter = {}, BackoffsFit
        PROVE  Documented(n) \div 2 <= d /\ d <= Documented(n)
    <2> DEFINE c == Documented(n)
    <2>1. ClampedDelay(n) = c /\ c \in Nat
      BY <1>2, ClampedAsDocumented
    <2>2. d \in IF c > c \div 2 THEN (c \div 2)..(c - 1) ELSE {c \div 2}
      BY <1>2, <2>1 DEF Backoff
    <2> HIDE DEF c
    <2>3. c \div 2 \in Nat /\ c \div 2 <= c
      BY <2>1
    <2>4. c \div 2 <= d /\ d <= c
      BY <2>1, <2>2, <2>3
    <2> QED
      BY <2>4 DEF c
  <1> QED
    BY <1>1, <1>2

-----------------------------------------------------------------------------
(* The inductive invariant *)

\* Where the attempts stand: none is repeated, none is beyond the limit, and
\* the next one has not been sent yet.
AttemptsInv ==
    /\ attempt = 0 \/ attempt < MaxAttempts
    /\ pc = "wait" => attempt < MaxAttempts
    /\ pc = "sleep" => attempt + 1 < MaxAttempts
    /\ pc = "unreachable" => MaxAttempts = 0
    /\ Effects \subseteq 0..attempt
    /\ pc = "send" => attempt \notin Effects
    /\ inTransit \cap executed = {}

\* Only a call that has returned has an error.
ErrorInv == error # "none" => pc = "err"

\* Without retries of server errors, an attempt is followed by another one
\* only if it has left nothing behind.
OnceInv ==
    ~(config.enabled /\ config.retry_server_errors) =>
        /\ Effects \subseteq {attempt}
        /\ pc \in {"send", "sleep"} => Effects = {}

\* Each attempt but the last is followed by one sleep of at most max_backoff.
SleepInv ==
    /\ pc \in {"send", "wait"} => slept <= attempt * config.max_backoff
    /\ \/ slept <= attempt * config.max_backoff
       \/ /\ attempt + 1 < MaxAttempts
          /\ slept <= (attempt + 1) * config.max_backoff

IInv ==
    /\ TypeOK
    /\ AttemptsInv
    /\ ErrorInv
    /\ OnceInv
    /\ RateLimitedMeansUnexecuted
    /\ SleepInv

LEMMA InitIInv == Init => IInv
  <1> SUFFICES ASSUME Init PROVE IInv
    OBVIOUS
  <1> USE DEF Init
  <1>1. TypeOK
    BY DEF TypeOK, NoReply, Statuses, RetryAfterOptions
  <1>2. AttemptsInv /\ ErrorInv /\ OnceInv /\ RateLimitedMeansUnexecuted
    BY DEF AttemptsInv, ErrorInv, OnceInv, RateLimitedMeansUnexecuted, Effects
  <1>3. SleepInv
    BY ConfigTypes DEF SleepInv
  <1> QED
    BY <1>1, <1>2, <1>3 DEF IInv

\* Steps that move pc from an await to an end and touch nothing on the server.
LEMMA EndStep ==
    ASSUME IInv,
           pc \in {"wait", "sleep"}, pc' \in {"ok", "err", "dropped", "panicked"},
           error' = error \/ (pc' = "err" /\ error' \in {"serialization", "transport"}),
           UNCHANGED <<config, attempt, delay, slept, reply, inTransit, executed>>
    PROVE  IInv'
  <1> USE DEF IInv
  <1>1. TypeOK'
    BY DEF TypeOK, Ended
  <1>2. MaxAttempts' = MaxAttempts
    BY DEF MaxAttempts
  <1>3. AttemptsInv'
    BY <1>2 DEF AttemptsInv, Effects
  <1>4. ErrorInv'
    BY DEF ErrorInv
  <1>5. OnceInv'
    BY DEF OnceInv, Effects
  <1>6. RateLimitedMeansUnexecuted'
    BY DEF RateLimitedMeansUnexecuted, ErrorInv, Effects
  <1>7. SleepInv'
    BY <1>2 DEF SleepInv
  <1> QED
    BY <1>1, <1>3, <1>4, <1>5, <1>6, <1>7

LEMMA SendIInv == IInv /\ Send => IInv'
  <1> SUFFICES ASSUME IInv, Send PROVE IInv'
    OBVIOUS
  <1> USE DEF IInv, Send
  <1>1. TypeOK'
    BY DEF TypeOK
  <1>2. MaxAttempts' = MaxAttempts
    BY DEF MaxAttempts
  <1>3. AttemptsInv'
    BY <1>2 DEF AttemptsInv, Effects, TypeOK
  <1>4. ErrorInv' /\ OnceInv' /\ RateLimitedMeansUnexecuted'
    BY DEF ErrorInv, OnceInv, RateLimitedMeansUnexecuted, Effects
  <1>5. SleepInv'
    BY <1>2 DEF SleepInv
  <1> QED
    BY <1>1, <1>3, <1>4, <1>5

LEMMA FallsIInv == IInv /\ LoopFallsThrough => IInv'
  <1> SUFFICES ASSUME IInv, LoopFallsThrough PROVE IInv'
    OBVIOUS
  <1> USE DEF IInv, LoopFallsThrough
  <1>1. TypeOK'
    BY DEF TypeOK, Ended
  <1>2. MaxAttempts' = MaxAttempts /\ MaxAttempts \in Nat
    BY MaxAttemptsBound DEF MaxAttempts, TypeOK
  <1>3. AttemptsInv'
    BY <1>2 DEF AttemptsInv, Effects, TypeOK
  <1>4. ErrorInv' /\ OnceInv' /\ RateLimitedMeansUnexecuted'
    BY DEF ErrorInv, OnceInv, RateLimitedMeansUnexecuted, Effects
  <1>5. SleepInv'
    BY <1>2 DEF SleepInv
  <1> QED
    BY <1>1, <1>3, <1>4, <1>5

LEMMA ReturnedIInv ==
    ASSUME NEW status \in Statuses, IInv, ReplyReturned(status)
    PROVE  IInv'
  <1> USE DEF IInv, ReplyReturned, Answered
  <1>1. TypeOK'
    BY DEF TypeOK, Ended
  <1>2. MaxAttempts' = MaxAttempts
    BY DEF MaxAttempts
  <1>3. AttemptsInv'
    BY <1>2 DEF AttemptsInv, Effects
  <1>4. ErrorInv'
    BY DEF ErrorInv
  <1>5. OnceInv'
    BY DEF OnceInv, Effects
  <1>6. RateLimitedMeansUnexecuted'
    BY DEF RateLimitedMeansUnexecuted, OnceInv, AttemptsInv, Effects
  <1>7. SleepInv'
    BY <1>2 DEF SleepInv
  <1> QED
    BY <1>1, <1>3, <1>4, <1>5, <1>6, <1>7

LEMMA RetriedIInv ==
    ASSUME NEW status \in Statuses, NEW retryAfter \in RetryAfterOptions,
           IInv, ReplyRetried(status, retryAfter)
    PROVE  IInv'
  <1> USE DEF IInv
  <1>1. delay' \in Nat /\ delay' <= config.max_backoff
    <2>1. {} \in RetryAfterOptions
      BY DEF RetryAfterOptions
    <2> QED
      BY <2>1, BackoffBound DEF ReplyRetried, TypeOK
  <1>2. attempt + 1 < MaxAttempts
    BY MaxAttemptsBound DEF ReplyRetried, IsLast, TypeOK
  <1>3. MaxAttempts' = MaxAttempts
    BY DEF MaxAttempts, ReplyRetried
  <1>4. TypeOK'
    <2>1. slept' \in Nat
      <3>1. slept \in Nat /\ slept' = slept + delay'
        BY DEF TypeOK, ReplyRetried
      <3>2. \A x, y \in Nat : x + y \in Nat
        OBVIOUS
      <3> QED
        BY <1>1, <3>1, <3>2
    <2>2. inTransit' \subseteq Nat
      BY DEF TypeOK, ReplyRetried, Answered
    <2> QED
      BY <1>1, <2>1, <2>2 DEF TypeOK, ReplyRetried
  <1>5. AttemptsInv'
    <2>1. /\ pc' = "sleep"
          /\ attempt' = attempt
          /\ executed' = executed
          /\ inTransit' \subseteq inTransit
      BY DEF ReplyRetried, Answered
    <2>2. /\ Effects' \subseteq 0..attempt'
          /\ inTransit' \cap executed' = {}
      BY <2>1 DEF AttemptsInv, Effects
    <2> QED
      BY <1>2, <1>3, <2>1, <2>2 DEF AttemptsInv
  <1>6. ErrorInv'
    BY DEF ErrorInv, ReplyRetried
  <1>7. OnceInv'
    <2> SUFFICES ASSUME ~(config.enabled /\ config.retry_server_errors)
                 PROVE  Effects' = {}
      BY DEF OnceInv, ReplyRetried
    <2>1. config.enabled
      BY <1>2, MaxAttemptsBound DEF TypeOK
    <2>2. status = "rateLimited"
      BY <2>1 DEF ReplyRetried, Retryable
    <2> QED
      BY <2>2 DEF OnceInv, AttemptsInv, Effects, ReplyRetried, Answered
  <1>8. RateLimitedMeansUnexecuted'
    BY DEF RateLimitedMeansUnexecuted, ErrorInv, ReplyRetried
  <1>9. SleepInv'
    <2>1. \A s, a, b, d \in Nat : s <= a * b /\ d <= b => s + d <= (a + 1) * b
      OBVIOUS
    <2>2. slept' <= (attempt + 1) * config.max_backoff
      BY <1>1, <2>1, ConfigTypes DEF SleepInv, TypeOK, ReplyRetried
    <2> QED
      BY <1>2, <1>3, <2>2 DEF SleepInv, ReplyRetried
  <1> QED
    BY <1>4, <1>5, <1>6, <1>7, <1>8, <1>9

LEMMA WakeIInv == IInv /\ Wake => IInv'
  <1> SUFFICES ASSUME IInv, Wake PROVE IInv'
    OBVIOUS
  <1> USE DEF IInv, Wake
  <1>1. TypeOK'
    BY DEF TypeOK, NoReply, Statuses, RetryAfterOptions
  <1>2. MaxAttempts' = MaxAttempts
    BY DEF MaxAttempts
  <1>3. AttemptsInv'
    BY <1>2 DEF AttemptsInv, Effects, TypeOK
  <1>4. ErrorInv' /\ OnceInv' /\ RateLimitedMeansUnexecuted'
    BY DEF ErrorInv, OnceInv, RateLimitedMeansUnexecuted, Effects
  <1>5. SleepInv'
    <2>1. \A a, b \in Nat : a * b <= (a + 1) * b /\ a * b \in Nat /\ (a + 1) * b \in Nat
      OBVIOUS
    <2>2. slept <= (attempt + 1) * config.max_backoff
      BY <2>1, ConfigTypes DEF SleepInv, TypeOK
    <2> QED
      BY <2>2 DEF SleepInv
  <1> QED
    BY <1>1, <1>3, <1>4, <1>5

LEMMA ExecuteIInv ==
    ASSUME NEW a \in inTransit, IInv, Execute(a)
    PROVE  IInv'
  <1> USE DEF IInv, Execute, callVars
  <1>1. TypeOK'
    BY DEF TypeOK
  <1>2. MaxAttempts' = MaxAttempts /\ Effects' = Effects
    BY DEF MaxAttempts, Effects
  <1>3. AttemptsInv'
    BY <1>2 DEF AttemptsInv
  <1>4. ErrorInv' /\ OnceInv' /\ RateLimitedMeansUnexecuted'
    BY <1>2 DEF ErrorInv, OnceInv, RateLimitedMeansUnexecuted
  <1>5. SleepInv'
    BY <1>2 DEF SleepInv
  <1> QED
    BY <1>1, <1>3, <1>4, <1>5

LEMMA StutterIInv == IInv /\ UNCHANGED vars => IInv'
  BY DEF IInv, vars, TypeOK, AttemptsInv, ErrorInv, OnceInv,
         RateLimitedMeansUnexecuted, SleepInv, MaxAttempts, Effects

LEMMA NextIInv == IInv /\ [Next]_vars => IInv'
  <1> SUFFICES ASSUME IInv, [Next]_vars PROVE IInv'
    OBVIOUS
  <1>1. CASE ReplyOk \/ ReplyGarbled \/ TransportFails \/ ReplyBadRetryAfter \/ Drop
    <2>1. /\ pc \in {"wait", "sleep"}
          /\ pc' \in {"ok", "err", "dropped", "panicked"}
          /\ error' = error \/ (pc' = "err" /\ error' \in {"serialization", "transport"})
          /\ UNCHANGED <<config, attempt, delay, slept, reply, inTransit, executed>>
      BY <1>1 DEF ReplyOk, ReplyGarbled, TransportFails, ReplyBadRetryAfter, Drop
    <2> QED
      BY <2>1, EndStep
  <1>2. CASE \E status \in Statuses : ReplyReturned(status)
    BY <1>2, ReturnedIInv
  <1>3. CASE \E status \in Statuses, retryAfter \in RetryAfterOptions :
                ReplyRetried(status, retryAfter)
    BY <1>3, RetriedIInv
  <1>4. CASE \E a \in inTransit : Execute(a)
    BY <1>4, ExecuteIInv
  <1>5. CASE Terminated \/ UNCHANGED vars
    BY <1>5, StutterIInv DEF Terminated
  <1> QED
    BY <1>1, <1>2, <1>3, <1>4, <1>5, SendIInv, FallsIInv, WakeIInv DEF Next

\* The inductive invariant holds in every reachable state.
THEOREM HttpInductive == Spec => []IInv
  BY InitIInv, NextIInv, PTL DEF Spec

-----------------------------------------------------------------------------
(* What follows from it *)

\* Every reachable state is well typed; no delay is negative, whatever
\* overflows while it is computed.
THEOREM HttpTypeCorrect == Spec => []TypeOK
  <1>1. IInv => TypeOK
    BY DEF IInv
  <1> QED
    BY <1>1, HttpInductive, PTL

\* One call has at most max_retries + 1 effects on the server.
THEOREM EffectsSafety == Spec => []EffectsBounded
  <1>1. IInv => EffectsBounded
    <2> SUFFICES ASSUME IInv PROVE EffectsBounded
      OBVIOUS
    <2>1. attempt \in Nat /\ config \in Configs /\ Effects \subseteq 0..attempt
      BY DEF IInv, TypeOK, AttemptsInv
    <2>2. /\ IsFiniteSet(0..attempt)
          /\ Cardinality(0..attempt) = attempt + 1
      BY <2>1, FS_Interval
    <2>3. /\ IsFiniteSet(Effects)
          /\ Cardinality(Effects) <= attempt + 1
          /\ Cardinality(Effects) \in Nat
      BY <2>1, <2>2, FS_Subset, FS_CardinalityType
    <2>4. attempt + 1 <= IF config.enabled THEN config.max_retries + 1 ELSE 1
      BY <2>1, MaxAttemptsBound, ConfigTypes DEF IInv, AttemptsInv
    <2> QED
      BY <2>1, <2>3, <2>4, ConfigTypes DEF EffectsBounded
  <1> QED
    BY <1>1, HttpInductive, PTL

\* A call that does not retry server errors has at most one effect.
THEOREM OnceSafety == Spec => []AtMostOnce
  <1>1. IInv => AtMostOnce
    <2> SUFFICES ASSUME IInv, ~(config.enabled /\ config.retry_server_errors)
                 PROVE  Cardinality(Effects) <= 1
      BY DEF AtMostOnce
    <2>1. Effects \subseteq {attempt}
      BY DEF IInv, OnceInv
    <2>2. IsFiniteSet({attempt}) /\ Cardinality({attempt}) = 1
      BY FS_Singleton
    <2> QED
      BY <2>1, <2>2, FS_Subset
  <1> QED
    BY <1>1, HttpInductive, PTL

\* A rate-limit error of such a call means that nothing will be executed.
THEOREM RateLimitSafety == Spec => []RateLimitedMeansUnexecuted
  <1>1. IInv => RateLimitedMeansUnexecuted
    BY DEF IInv
  <1> QED
    BY <1>1, HttpInductive, PTL

\* A call sleeps at most max_retries times max_backoff.
THEOREM SleepSafety == Spec => []SleepBounded
  <1>1. IInv => SleepBounded
    <2> SUFFICES ASSUME IInv PROVE SleepBounded
      OBVIOUS
    <2>1. config \in Configs /\ attempt \in Nat /\ slept \in Nat
      BY DEF IInv, TypeOK
    <2>2. \A a, b, c \in Nat : a <= b => a * c <= b * c /\ a * c \in Nat /\ b * c \in Nat
      OBVIOUS
    <2>3. attempt <= config.max_retries
      BY <2>1, MaxAttemptsBound, ConfigTypes DEF IInv, AttemptsInv
    <2>4. attempt + 1 < MaxAttempts => attempt + 1 <= config.max_retries
      BY <2>1, MaxAttemptsBound, ConfigTypes
    <2>5. CASE slept <= attempt * config.max_backoff
      BY <2>1, <2>2, <2>3, <2>5, ConfigTypes DEF SleepBounded
    <2>6. CASE /\ attempt + 1 < MaxAttempts
               /\ slept <= (attempt + 1) * config.max_backoff
      BY <2>1, <2>2, <2>4, <2>6, ConfigTypes DEF SleepBounded
    <2> QED
      BY <2>5, <2>6 DEF IInv, SleepInv
  <1> QED
    BY <1>1, HttpInductive, PTL

\* A Retry-After is respected, clamped; every other sleep is in the documented range
\* if both backoffs fit into a u64 (compute_backoff, RetryConfig).
THEOREM DelaySafety == Spec => []DelayAsDocumented
  <1>1. Init => DelayAsDocumented
    BY DEF Init, DelayAsDocumented
  <1>2. TypeOK /\ DelayAsDocumented /\ [Next]_vars => DelayAsDocumented'
    <2> SUFFICES ASSUME TypeOK, DelayAsDocumented, [Next]_vars, pc' = "sleep"
                 PROVE  DelayAsDocumented'
      BY DEF DelayAsDocumented
    <2>1. ASSUME NEW status \in Statuses, NEW retryAfter \in RetryAfterOptions,
                 ReplyRetried(status, retryAfter)
          PROVE  DelayAsDocumented'
      <3> DEFINE header == IF status = "rateLimited" THEN retryAfter ELSE {}
      <3>1. header \in RetryAfterOptions /\ delay' \in Backoff(attempt, header)
        BY <2>1 DEF ReplyRetried, RetryAfterOptions
      <3>2. /\ config \in Configs /\ attempt \in Nat
            /\ config' = config /\ attempt' = attempt
            /\ reply'.status = status /\ reply'.retryAfter = retryAfter
        BY <2>1 DEF TypeOK, ReplyRetried
      <3>3. /\ header # {} => \A ms \in header : delay' = Least(ms, config.max_backoff)
            /\ header = {} /\ BackoffsFit =>
                  /\ Documented(attempt) \div 2 <= delay'
                  /\ delay' <= Documented(attempt)
        BY <3>1, <3>2, BackoffAsDocumented
      <3>4. Documented(attempt)' = Documented(attempt) /\ BackoffsFit' = BackoffsFit
        BY <3>2 DEF Documented, BackoffsFit
      <3>5. CASE status = "rateLimited" /\ retryAfter # {}
        BY <3>2, <3>3, <3>5 DEF DelayAsDocumented
      <3>6. CASE ~(status = "rateLimited" /\ retryAfter # {})
        <4>1. header = {}
          BY <3>6
        <4> HIDE DEF header
        <4> QED
          BY <3>2, <3>3, <3>4, <3>6, <4>1 DEF DelayAsDocumented
      <3> QED
        BY <3>5, <3>6
    <2>2. ASSUME pc = "sleep", UNCHANGED <<delay, attempt, config, reply>>
          PROVE  DelayAsDocumented'
      <3>1. Documented(attempt)' = Documented(attempt) /\ BackoffsFit' = BackoffsFit
        BY <2>2 DEF Documented, BackoffsFit
      <3> QED
        BY <2>2, <3>1 DEF DelayAsDocumented
    <2>3. CASE \E a \in inTransit : Execute(a)
      BY <2>2, <2>3 DEF Execute, callVars
    <2>4. CASE UNCHANGED vars
      BY <2>2, <2>4 DEF vars
    <2> QED
      BY <2>1, <2>3, <2>4
      DEF Next, Send, LoopFallsThrough, ReplyOk, ReplyGarbled, TransportFails,
          ReplyBadRetryAfter, ReplyReturned, Wake, Drop, Terminated
  <1> QED
    BY <1>1, <1>2, HttpTypeCorrect, PTL DEF Spec

\* The unreachable!() is reached for no configuration but one.
THEOREM LoopSafety == Spec => []ReturnsFromLoop
  <1>1. IInv => ReturnsFromLoop
    BY MaxAttemptsBound DEF IInv, TypeOK, AttemptsInv, ReturnsFromLoop
  <1> QED
    BY <1>1, HttpInductive, PTL
=============================================================================
