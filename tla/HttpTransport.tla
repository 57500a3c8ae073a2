---------------------------- MODULE HttpTransport ----------------------------
(***************************************************************************)
(* One call of HttpTransport::request (src/src/transport/http.rs): the     *)
(* retry loop, what it sends again, and how long compute_backoff           *)
(* (src/src/rate_limiter.rs) makes it sleep in between.  On the other end  *)
(* is a server that may execute an attempt whose reply never arrives or    *)
(* comes from a gateway, and may do so after the caller has given up.      *)
(* Nothing in two attempts tells the server that they are the same call    *)
(* (X-Request-ID is drawn anew for each), so each may be executed.         *)
(***************************************************************************)
EXTENDS Integers, FiniteSets

CONSTANTS
    RetryLimits,    \* the values of max_retries
    Backoffs,       \* the values of min_backoff and max_backoff, in ms
    RetryAfters,    \* the delays that Retry-After headers carry, in ms
    U32Max,         \* u32::MAX
    U64Bits,        \* u64::BITS
    U64Max          \* u64::MAX

ASSUME U32Assumption == U32Max \in Nat
ASSUME U64Assumption == U64Bits \in Nat /\ U64Max \in Nat /\ U64Max + 1 = 2 ^ U64Bits
ASSUME RetryLimitsAssumption == RetryLimits \subseteq 0..U32Max
ASSUME BackoffsAssumption == Backoffs \subseteq Nat
ASSUME RetryAftersAssumption == RetryAfters \subseteq Nat

\* The statuses the loop tells apart: 429; 502, 503 and 504; any other that
\* is not a success.  Whatever the body of the reply, parse_error_response keeps
\* the HTTP status: a "retryable" in the body decides nothing here.
Statuses == {"rateLimited", "gateway", "refused"}

\* Retry-After as an option: absent (or unreadable), or one delay.
RetryAfterOptions == {{}} \cup {{ms} : ms \in RetryAfters}

VARIABLES
    config,         \* the RetryConfig
    pc,             \* "send", "wait", "sleep", or how the call ended
    attempt,        \* the loop variable
    delay,          \* the backoff being slept, else 0
    slept,          \* the sum of the backoffs so far
    reply,          \* history: the reply that is being slept out, else NoReply
    error,          \* the kind of error returned, or "none"
    inTransit,      \* attempts that the server may still execute
    executed        \* attempts that the server has executed

callVars == <<config, pc, attempt, delay, slept, reply, error>>
vars == <<config, pc, attempt, delay, slept, reply, error, inTransit, executed>>

Ended == {"ok", "err", "dropped", "panicked", "unreachable"}

\* Whatever the setters of RetryConfig build: each sets one field, to any value.
Configs == [enabled: BOOLEAN, retry_server_errors: BOOLEAN,
            max_retries: RetryLimits, min_backoff: Backoffs, max_backoff: Backoffs]

NoReply == [status |-> "refused", retryAfter |-> {}]

Init ==
    /\ config \in Configs
    /\ pc = "send"
    /\ attempt = 0
    /\ delay = 0
    /\ slept = 0
    /\ reply = NoReply
    /\ error = "none"
    /\ inTransit = {}
    /\ executed = {}

-----------------------------------------------------------------------------
(* compute_backoff *)

Least(x, y) == IF x < y THEN x ELSE y

\* Mutant: a plain multiplication, which wraps in a release build.
WrappingMul(x, y) == (x * y) % (U64Max + 1)

\* Duration::as_millis() as u64: the cast of a u128 truncates.
AsMillis(ms) == ms % (U64Max + 1)

\* u64::saturating_mul
SaturatingMul(x, y) == Least(x * y, U64Max)

\* 1u64.checked_shl(n).unwrap_or(u64::MAX)
Shl(n) == IF n < U64Bits THEN (2 ^ n) % (U64Max + 1) ELSE U64Max

\* The exponential delay before jitter, clamped to max_backoff.
ClampedDelay(n) ==
    Least(SaturatingMul(AsMillis(config.min_backoff), Shl(n)), AsMillis(config.max_backoff))

\* Mutant: a Retry-After is taken as it is.
BackoffUnclamped(n, retryAfter) ==
    IF retryAfter # {} THEN retryAfter
    ELSE LET clamped == ClampedDelay(n)
         IN  IF clamped > 0 THEN (clamped \div 2)..(clamped - 1) ELSE {0}

\* Mutant: the jitter is taken off the half instead of being added to it.
BackoffJitterBelow(n, retryAfter) ==
    IF retryAfter # {}
    THEN {Least(ms, config.max_backoff) : ms \in retryAfter}
    ELSE LET clamped == ClampedDelay(n)
         IN  {clamped \div 2 - jitter : jitter \in 0..clamped}

\* What compute_backoff can return: the clock picks a value of the upper half
\* of the clamped delay, the clamped delay itself excluded.
Backoff(n, retryAfter) ==
    IF retryAfter # {}
    THEN {Least(ms, config.max_backoff) : ms \in retryAfter}
    ELSE LET clamped == ClampedDelay(n)
             half    == clamped \div 2
         IN  IF clamped > half THEN half..(clamped - 1) ELSE {half}

-----------------------------------------------------------------------------
(* The retry loop *)

\* Mutant: the retries are counted inclusively.
MaxAttemptsInclusive == IF config.enabled THEN config.max_retries + 2 ELSE 1

\* The addition wraps in a release build (and panics in a debug one).
MaxAttempts ==
    IF config.enabled THEN (config.max_retries + 1) % (U32Max + 1) ELSE 1

\* build_request makes the request anew, from the same method, URL and body.
Send ==
    /\ pc = "send"
    /\ attempt < MaxAttempts
    /\ pc' = "wait"
    /\ inTransit' = inTransit \cup {attempt}
    /\ UNCHANGED <<config, attempt, delay, slept, reply, error, executed>>

\* The range is empty: unreachable!() panics.
LoopFallsThrough ==
    /\ pc = "send"
    /\ attempt >= MaxAttempts
    /\ pc' = "unreachable"
    /\ UNCHANGED <<config, attempt, delay, slept, reply, error, inTransit, executed>>

\* A success, with an empty body or a JSON one.
ReplyOk ==
    /\ pc = "wait"
    /\ attempt \in executed
    /\ pc' = "ok"
    /\ UNCHANGED <<config, attempt, delay, slept, reply, error, inTransit, executed>>

\* A success whose body is not JSON.
ReplyGarbled ==
    /\ pc = "wait"
    /\ attempt \in executed
    /\ pc' = "err"
    /\ error' = "serialization"
    /\ UNCHANGED <<config, attempt, delay, slept, reply, inTransit, executed>>

\* The connection fails, the client's timeout passes, or the body is cut off.
TransportFails ==
    /\ pc = "wait"
    /\ pc' = "err"
    /\ error' = "transport"
    /\ UNCHANGED <<config, attempt, delay, slept, reply, inTransit, executed>>

\* The reply carries a number that from_secs_f64 refuses: it panics.
ReplyBadRetryAfter ==
    /\ pc = "wait"
    /\ pc' = "panicked"
    /\ UNCHANGED <<config, attempt, delay, slept, reply, error, inTransit, executed>>

\* The server turns a 429 away before executing anything (external); of any
\* other failure nothing is known.
Answered(status) ==
    /\ status = "rateLimited" => attempt \in inTransit
    /\ inTransit' = IF status = "rateLimited" THEN inTransit \ {attempt} ELSE inTransit

\* Mutant: a gateway error is retried whatever the configuration says.
RetryableAlways(status) == status \in {"rateLimited", "gateway"}

Retryable(status) ==
    \/ status = "rateLimited"
    \/ status = "gateway" /\ config.retry_server_errors

\* Mutant: the last attempt is the one after the last.
IsLastOffByOne == attempt >= MaxAttempts

IsLast == attempt + 1 >= MaxAttempts

ReplyReturned(status) ==
    /\ pc = "wait"
    /\ IsLast \/ ~Retryable(status)
    /\ Answered(status)
    /\ pc' = "err"
    /\ error' = status
    /\ UNCHANGED <<config, attempt, delay, slept, reply, executed>>

\* Only a 429 has its Retry-After looked at.
ReplyRetried(status, retryAfter) ==
    /\ pc = "wait"
    /\ ~IsLast
    /\ Retryable(status)
    /\ Answered(status)
    /\ delay' \in Backoff(attempt, IF status = "rateLimited" THEN retryAfter ELSE {})
    /\ slept' = slept + delay'
    /\ reply' = [status |-> status, retryAfter |-> retryAfter]
    /\ pc' = "sleep"
    /\ UNCHANGED <<config, attempt, error, executed>>

Wake ==
    /\ pc = "sleep"
    /\ attempt' = attempt + 1
    /\ delay' = 0
    /\ reply' = NoReply
    /\ pc' = "send"
    /\ UNCHANGED <<config, slept, error, inTransit, executed>>

\* The caller drops the future at one of its awaits.
Drop ==
    /\ pc \in {"wait", "sleep"}
    /\ pc' = "dropped"
    /\ UNCHANGED <<config, attempt, delay, slept, reply, error, inTransit, executed>>

\* The server executes an attempt that has reached it (external).
Execute(a) ==
    /\ a \in inTransit
    /\ inTransit' = inTransit \ {a}
    /\ executed' = executed \cup {a}
    /\ UNCHANGED callVars

Terminated ==
    /\ pc \in Ended
    /\ UNCHANGED vars

Next ==
    \/ Send
    \/ LoopFallsThrough
    \/ ReplyOk
    \/ ReplyGarbled
    \/ TransportFails
    \/ ReplyBadRetryAfter
    \/ \E status \in Statuses : ReplyReturned(status)
    \/ \E status \in Statuses, retryAfter \in RetryAfterOptions :
          ReplyRetried(status, retryAfter)
    \/ Wake
    \/ Drop
    \/ \E a \in inTransit : Execute(a)
    \/ Terminated

Spec == Init /\ [][Next]_vars
-----------------------------------------------------------------------------
(* Properties *)

\* Every variable stays in its range; times are never negative.
TypeOK ==
    /\ config \in Configs
    /\ pc \in {"send", "wait", "sleep"} \cup Ended
    /\ attempt \in Nat
    /\ delay \in Nat
    /\ slept \in Nat
    /\ reply \in [status: Statuses, retryAfter: RetryAfterOptions]
    /\ error \in Statuses \cup {"none", "transport", "serialization"}
    /\ inTransit \subseteq Nat
    /\ executed \subseteq Nat

\* Attempts that have had, or may yet have, an effect on the server.
Effects == executed \cup inTransit

\* One call has at most max_retries + 1 effects, and one when retries are off.
EffectsBounded ==
    Cardinality(Effects) <= IF config.enabled THEN config.max_retries + 1 ELSE 1

\* Unless it is told to retry server errors, the loop repeats only what the
\* server has turned away: an enqueue is never executed twice, not even
\* by a late execution of an earlier attempt.
AtMostOnce ==
    ~(config.enabled /\ config.retry_server_errors) => Cardinality(Effects) <= 1

\* In that case a rate-limit error that reaches the caller means that nothing
\* was and nothing will be executed: the caller may safely call again.
RateLimitedMeansUnexecuted ==
    (error = "rateLimited" /\ ~config.retry_server_errors) => Effects = {}

\* "Maximum backoff duration; delays are clamped to this value": a call never
\* sleeps longer than max_retries times max_backoff, whatever the server asks.
SleepBounded == slept <= config.max_retries * config.max_backoff

\* The documented delay, in unbounded arithmetic: min_backoff * 2^attempt
\* clamped to max_backoff, with a jitter in its upper half.
Documented(n) == Least(config.min_backoff * 2 ^ n, config.max_backoff)

\* Both backoffs fit into the u64 that compute_backoff casts them to.
BackoffsFit == config.min_backoff <= U64Max /\ config.max_backoff <= U64Max

\* "Respect the server's Retry-After, clamped to max_backoff": a 429 that names a
\* delay is waited out for exactly that long, or for max_backoff.  After any
\* other reply the delay is the documented one, although the shift and
\* the product may overflow, provided that the casts lose nothing.
DelayAsDocumented ==
    pc = "sleep" =>
        IF reply.status = "rateLimited" /\ reply.retryAfter # {}
        THEN \A ms \in reply.retryAfter : delay = Least(ms, config.max_backoff)
        ELSE BackoffsFit =>
                Documented(attempt) \div 2 <= delay /\ delay <= Documented(attempt)

\* The loop returns from inside, so that the unreachable!() at its end is not
\* reached, except when retries are on and max_retries is the u32 maximum.
ReturnsFromLoop ==
    pc = "unreachable" => config.enabled /\ config.max_retries = U32Max
=============================================================================
