------------------------------- MODULE Requests -------------------------------
(***************************************************************************)
(* What the client makes of the caller's builder calls (src/src/client.rs, *)
(* src/src/workflow.rs) and what a handler makes of the arguments it gets  *)
(* (src/src/job.rs).  A name is a sequence of character classes: "a" a     *)
(* lower-case letter, "d" what else the name may hold (a digit, and an     *)
(* underscore in a type), "." a separator, "x" any other character.        *)
(***************************************************************************)
EXTENDS Integers, Sequences, SequencesExt

CONSTANTS
    None,
    MAX_TYPE_LENGTH,
    MAX_QUEUE_LENGTH,
    MaxDuration,    \* the longest chrono::Duration
    MaxDate,        \* the last DateTime<Utc>
    MillisRange     \* 2^64: the width of timeout_ms

-----------------------------------------------------------------------------
(* Names *)

\* str::split('.')
Segments(name) ==
    LET Cuts == {0, Len(name) + 1} \cup {i \in DOMAIN name : name[i] = "."}
        Ends == {c \in Cuts \X Cuts : c[1] < c[2] /\ \A k \in Cuts : k <= c[1] \/ k >= c[2]}
    IN {SubSeq(name, c[1] + 1, c[2] - 1) : c \in Ends}

ValidateJobType(name) ==
    /\ name # <<>>
    /\ Len(name) <= MAX_TYPE_LENGTH
    /\ \A segment \in Segments(name) :
          /\ segment # <<>>
          /\ segment[1] = "a"
          /\ \A i \in DOMAIN segment : segment[i] \in {"a", "d"}

\* Letters and digits are alike in a queue name, and so are hyphens and dots.
ValidateQueueName(name) ==
    /\ name # <<>>
    /\ Len(name) <= MAX_QUEUE_LENGTH
    /\ name[1] \in {"a", "d"}
    /\ name[Len(name)] \in {"a", "d"}
    /\ \A i \in DOMAIN name :
          /\ name[i] \in {"a", "d", "."}
          /\ ~(name[i] = "." /\ i < Len(name) /\ name[i + 1] = ".")

-----------------------------------------------------------------------------
(* Arguments: JSON values.  An object has the one key that a handler asks    *)
(* for.                                                                      *)

Scalar == [tag |-> "scalar", in |-> <<>>]
Object(value) == [tag |-> "object", in |-> <<value>>]
Array(values) == [tag |-> "array", in |-> values]

NormalizeArgs(args) == IF args.tag = "array" THEN args ELSE Array(<<args>>)

\* Job::args_as
ArgsAs(args) == IF args.tag = "array" /\ Len(args.in) = 1 THEN args.in[1] ELSE args

\* Job::arg, or None for its errors.
Arg(args) ==
    LET Held == IF args.tag = "array" /\ Len(args.in) = 1 THEN args.in[1] ELSE args
    IN IF Held.tag = "object" THEN Held.in[1] ELSE None

-----------------------------------------------------------------------------
(* Options *)

\* What each EnqueueOption sets.
FieldOf ==
    [Queue |-> "queue", Priority |-> "priority", Timeout |-> "timeout_ms",
     Delay |-> "delay_until", ScheduledAt |-> "delay_until", ExpiresAt |-> "expires_at",
     Retry |-> "retry", Unique |-> "unique", Tags |-> "tags",
     VisibilityTimeout |-> "visibility_timeout_ms"]

Fields == {FieldOf[kind] : kind \in DOMAIN FieldOf}

\* Utc::now() + chrono::Duration::from_std(d).unwrap_or_default()
DelayUntil(now, delay) == IF delay > MaxDuration THEN now ELSE now + delay

\* The sum does not fit: the addition panics.
Panics(options, now) ==
    \E i \in DOMAIN options : options[i].kind = "Delay" /\ DelayUntil(now, options[i].value) > MaxDate

OnWire(option, now) ==
    CASE option.kind = "Delay"                            -> DelayUntil(now, option.value)
      [] option.kind \in {"Timeout", "VisibilityTimeout"} -> option.value % MillisRange
      [] OTHER                                            -> option.value

\* Mutant: an option does not replace an earlier one.
ResolveOptionsFirstWins(options, now) ==
    LET Apply(wire, option) ==
            IF option.kind = "Meta" \/ wire[FieldOf[option.kind]] # None THEN wire
            ELSE [wire EXCEPT ![FieldOf[option.kind]] = OnWire(option, now)]
    IN IF options = <<>> THEN <<>> ELSE FoldLeft(Apply, [f \in Fields |-> None], options)

\* wire[n] is what the first n options make of it; without options there are no fields.
ResolveOptions(options, now) ==
    LET wire[n \in 0..Len(options)] ==
            IF n = 0 THEN [f \in Fields |-> None]
            ELSE IF options[n].kind = "Meta" THEN wire[n - 1]
            ELSE [wire[n - 1] EXCEPT ![FieldOf[options[n].kind]] = OnWire(options[n], now)]
    IN IF options = <<>> THEN <<>> ELSE wire[Len(options)]

ExtractMeta(options) ==
    LET Calls == {i \in DOMAIN options : options[i].kind = "Meta"}
    IN IF Calls = {} THEN None ELSE options[Min(Calls)].value

-----------------------------------------------------------------------------
(* Request bodies.  An item is an EnqueueBuilder, a JobRequest or a Step:    *)
(* a type, arguments, options and, for the first two, metadata; a schema URI *)
(* for the first alone.                                                      *)

NewItem(type, args) ==
    [type |-> type, args |-> args, options |-> <<>>, meta |-> None, schema |-> None]

EnqueueRequest(item, now) ==
    [id |-> None, type |-> item.type, args |-> NormalizeArgs(item.args), depends_on |-> {},
     options |-> ResolveOptions(item.options, now),
     meta |-> IF item.meta # None THEN item.meta ELSE ExtractMeta(item.options),
     schema |-> item.schema]

\* A job of enqueue_batch: options of kind Meta are not looked at.
BatchedRequest(item, now) ==
    [EnqueueRequest(item, now) EXCEPT !.meta = item.meta, !.schema = None]

WireStep(item, id, deps, now) ==
    [id |-> id, type |-> item.type, args |-> NormalizeArgs(item.args), depends_on |-> deps,
     options |-> ResolveOptions(item.options, now), meta |-> None, schema |-> None]

\* Mutants: the second step waits for nobody; every step waits for itself.
ChainStepsFromTwo(steps, now) ==
    [i \in DOMAIN steps |->
        WireStep(steps[i], <<"step", i>>, IF i > 2 THEN {<<"step", i - 1>>} ELSE {}, now)]
ChainStepsOnSelf(steps, now) ==
    [i \in DOMAIN steps |->
        WireStep(steps[i], <<"step", i>>, IF i > 1 THEN {<<"step", i>>} ELSE {}, now)]

\* to_wire, a chain: a step waits for the one before.
ChainSteps(steps, now) ==
    [i \in DOMAIN steps |->
        WireStep(steps[i], <<"step", i>>, IF i > 1 THEN {<<"step", i - 1>>} ELSE {}, now)]

\* to_wire, a group, and the jobs of a batch.
ParallelSteps(jobs, now) == [i \in DOMAIN jobs |-> WireStep(jobs[i], <<"job", i>>, {}, now)]

\* BatchCallbacks
CallbackNames == {"on-complete", "on-success", "on-failure"}

\* to_wire, a batch: every callback that is set is a step that waits for all jobs.
CallbackSteps(callbacks, jobs, now) ==
    LET Jobs == {<<"job", i>> : i \in DOMAIN jobs}
        Pushed(c) == IF c \in DOMAIN callbacks
                     THEN <<WireStep(callbacks[c], <<c, 0>>, Jobs, now)>> ELSE <<>>
    IN Pushed("on-complete") \o Pushed("on-success") \o Pushed("on-failure")
=============================================================================
