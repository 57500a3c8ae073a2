--------------------------- MODULE MiddlewareChain ---------------------------
(***************************************************************************)
(* The middleware list of a worker (src/src/middleware.rs), edited while   *)
(* jobs run, and one run of a job through it: process_job looks up the     *)
(* handler, then wraps it in the list of that moment, the middlewares the  *)
(* crate provides (middleware_common/, otel.rs, tracing_mw.rs,             *)
(* encryption.rs) and a user's closure (FnMiddleware) act on the way in    *)
(* and on the way out, a typed handler decodes the arguments it is given,  *)
(* a timeout drops what it encloses, and a panic or an abort drops it all. *)
(***************************************************************************)
EXTENDS Encryption, SequencesExt

CONSTANTS
    Middlewares,    \* what may be registered: a set of [name, kind]
    MaxChain,       \* bound on the length of the list
    MaxChanges,     \* bound on the edits of the list and the keys added
    MaxLayers       \* bound on the times a job is encrypted

VARIABLES
    chain,          \* MiddlewareChain.middleware
    handlers,       \* what is registered for the job's type, None if nothing is
    changes,        \* how many edits, registrations and keys added there were
    provider,       \* the key provider of the worker
    job,            \* the job as it was enqueued
    ctx,            \* the job as the running frame sees it
    handler,        \* the handler that process_job has found
    frames,         \* the wrapped handler: its middlewares, outermost first
    phase,          \* "queued", "found", "in", "handler", "out", "over" or "unwound"
    depth,          \* frames entered and not left
    result,         \* what the frame left last returned
    signals,        \* signals[i]: what frame i has told its recorder
    dropped,        \* frames that have dropped the future they enclose
    refused         \* who has failed the job on account of its arguments

listVars == <<chain, handlers, changes>>
jobVars  == <<provider, job>>
runVars  == <<ctx, handler, frames, phase, depth, result, signals, dropped, refused>>
vars     == <<chain, handlers, changes, provider, job, ctx, handler, frames, phase,
              depth, result, signals, dropped, refused>>

Results == {"ok", "Handler", "NonRetryable"}

\* Worker::register and Worker::register_typed
HandlerKinds == {"plain", "typed"}

\* What the five observing middlewares record before they call next and after
\* it has returned Ok or Err.
MetricsMiddleware ==
    [started |-> {"job_started"}, ok |-> {"job_completed"}, failed |-> {"job_failed"}]

LoggingMiddleware ==
    [started |-> {"debug"}, ok |-> {"info"}, failed |-> {"error"}]

TracingMiddleware ==
    [started |-> {"span"}, ok |-> {"info"}, failed |-> {"error"}]

OtelTracingMiddleware ==
    [started |-> {"span"}, ok |-> {"Status::Ok"}, failed |-> {"Status::Error", "exception"}]

OtelMetricsMiddleware ==
    [started |-> {"started"}, ok |-> {"completed", "duration"}, failed |-> {"failed", "duration"}]

Observers ==
    [metrics |-> MetricsMiddleware, logging |-> LoggingMiddleware,
     tracing |-> TracingMiddleware, otelTracing |-> OtelTracingMiddleware,
     otelMetrics |-> OtelMetricsMiddleware]

Observes(mw) == mw.kind \in DOMAIN Observers

Kinds == DOMAIN Observers \cup {"timeout", "encryption", "fn"}

ASSUME MiddlewaresAssumption == \A mw \in Middlewares : mw.kind \in Kinds

Queued(args, meta) == [args |-> args, meta |-> meta]

\* The markers of an older producer.
LegacyMeta(id) == [NoMeta EXCEPT !.legacy = TRUE, !.legacyKeyId = id]

\* A job is enqueued in plain, by an older producer that encrypts with the legacy
\* markers, or in plain under legacy markers that its own metadata happens to have.
Enqueued ==
    {Queued(<<>>, NoMeta)} \cup {Queued(args, LegacyMeta(id)) :
        args \in {<<>>} \cup {<<key>> : key \in Keys}, id \in KeyIds}

Init ==
    /\ chain = <<>>
    /\ handlers \in {None} \cup HandlerKinds
    /\ changes = 0
    /\ provider \in {NewProvider(id, key) : id \in KeyIds, key \in Keys}
    /\ job \in Enqueued
    /\ ctx = job
    /\ handler = None
    /\ frames = <<>>
    /\ phase = "queued"
    /\ depth = 0
    /\ result = None
    /\ signals = <<>>
    /\ dropped = {}
    /\ refused = {}

-----------------------------------------------------------------------------
(* Edits, under the write lock: Worker::use_middleware and its siblings.    *)

\* The position of the first middleware of that name, 0 when there is none.
Position(list, name) == SelectInSeq(list, LAMBDA mw : mw.name = name)

Add(list, mw) == Append(list, mw)

Prepend(list, mw) == InsertAt(list, 1, mw)

\* A name that is not there: position(..).unwrap_or(0).
InsertBefore(list, name, mw) ==
    InsertAt(list, IF Position(list, name) = 0 THEN 1 ELSE Position(list, name), mw)

\* Mutant: the new one takes the place of the old instead of the place after it.
InsertAfterAtSamePlace(list, name, mw) ==
    InsertAt(list, IF Position(list, name) = 0 THEN Len(list) + 1 ELSE Position(list, name), mw)

InsertAfter(list, name, mw) ==
    InsertAt(list, (IF Position(list, name) = 0 THEN Len(list) ELSE Position(list, name)) + 1, mw)

\* retain: every middleware of that name goes.
RemoveNamed(list, name) ==
    LET retained[n \in 0..Len(list)] ==
            IF n = 0 THEN <<>>
            ELSE IF list[n].name = name THEN retained[n - 1]
            ELSE Append(retained[n - 1], list[n])
    IN retained[Len(list)]

\* An edit goes through the worker while it holds the write lock; Prepend has no caller.
Edit(list) ==
    /\ changes < MaxChanges
    /\ Len(list) <= MaxChain
    /\ chain' = list
    /\ changes' = changes + 1
    /\ UNCHANGED <<handlers, jobVars, runVars>>

Names == {mw.name : mw \in Middlewares}

EditList ==
    \/ \E mw \in Middlewares :
          \/ Edit(Add(chain, mw))
          \/ \E name \in Names : \/ Edit(InsertBefore(chain, name, mw))
                                 \/ Edit(InsertAfter(chain, name, mw))
    \/ \E name \in Names : Edit(RemoveNamed(chain, name))

\* The handlers have a lock of their own; the last registration for a type counts.
Register(kind) ==
    /\ changes < MaxChanges
    /\ handlers # kind
    /\ handlers' = kind
    /\ changes' = changes + 1
    /\ UNCHANGED <<chain, jobVars, runVars>>

-----------------------------------------------------------------------------
(* Before the run: producers encrypt, the worker's keys change.             *)

\* A producer encrypts the job, with whatever key it was deployed with.
EncryptStep(id, key) ==
    /\ phase = "queued"
    /\ Len(job.args) < MaxLayers
    /\ job' = EncryptJob(NewProvider(id, key), job)
    /\ ctx' = job'
    /\ UNCHANGED <<listVars, provider, handler, frames, phase, depth, result, signals,
                   dropped, refused>>

AddKeyStep(id, key) ==
    /\ phase = "queued"
    /\ changes < MaxChanges
    /\ changes' = changes + 1
    /\ provider' = AddKey(provider, id, key)
    /\ UNCHANGED <<chain, handlers, job, runVars>>

-----------------------------------------------------------------------------
(* The run. *)

\* wrap: each middleware, from the last to the first, wraps what there is so far.
Wrap(list) ==
    LET wrapped[n \in 0..Len(list)] ==
            IF n = 0 THEN <<>> ELSE <<list[Len(list) - n + 1]>> \o wrapped[n - 1]
    IN wrapped[Len(list)]

\* Nothing is wrapped and no middleware runs for a job without a handler: it is
\* nacked, not to be retried.
LookUp ==
    /\ phase = "queued"
    /\ handler' = handlers
    /\ phase' = IF handlers = None THEN "over" ELSE "found"
    /\ result' = IF handlers = None THEN "NonRetryable" ELSE result
    /\ UNCHANGED <<listVars, jobVars, ctx, frames, depth, signals, dropped, refused>>

\* The list is read under its own lock, so later than the handler.
Start ==
    /\ phase = "found"
    /\ frames' = Wrap(chain)
    /\ phase' = "in"
    /\ signals' = [i \in DOMAIN frames' |-> {}]
    /\ UNCHANGED <<listVars, jobVars, ctx, handler, depth, result, dropped, refused>>

Entering(kind) ==
    /\ phase = "in"
    /\ depth < Len(frames)
    /\ frames[depth + 1].kind = kind

\* The future of a frame returns r to the frame outside of it.
Return(d, r) ==
    /\ phase' = "out"
    /\ depth' = d
    /\ result' = r
    /\ UNCHANGED <<listVars, jobVars, ctx, handler, frames>>

\* A frame calls next.run.
CallNext ==
    /\ depth' = depth + 1
    /\ UNCHANGED <<listVars, jobVars, handler, frames, phase, result, dropped, refused>>

ObserverEnters(kind) ==
    /\ Entering(kind)
    /\ signals' = [signals EXCEPT ![depth + 1] = Observers[kind].started]
    /\ CallNext
    /\ UNCHANGED ctx

TimeoutEnters ==
    /\ Entering("timeout")
    /\ CallNext
    /\ UNCHANGED <<ctx, signals>>

EncryptionEnters ==
    /\ Entering("encryption")
    /\ ~Undecryptable(provider, ctx)
    /\ ctx' = DecryptJob(provider, ctx)
    /\ CallNext
    /\ UNCHANGED signals

EncryptionRefuses ==
    /\ Entering("encryption")
    /\ Undecryptable(provider, ctx)
    /\ Return(depth, "Handler")
    /\ refused' = refused \cup {"encryption"}
    /\ UNCHANGED <<signals, dropped>>

FnEnters ==
    /\ Entering("fn")
    /\ CallNext
    /\ UNCHANGED <<ctx, signals>>

\* A closure may answer in place of the handler.
FnAnswers(r) ==
    /\ Entering("fn")
    /\ Return(depth, r)
    /\ UNCHANGED <<signals, dropped, refused>>

\* A plain handler starts, or the arguments decode into the type of a typed one: a
\* ciphertext may too, when the type is as lax as a JSON value.
HandlerStarts ==
    /\ phase = "in"
    /\ depth = Len(frames)
    /\ phase' = "handler"
    /\ UNCHANGED <<listVars, jobVars, ctx, handler, frames, depth, result, signals,
                   dropped, refused>>

\* register_typed: they do not.  Plaintext is taken to be of the handler's type.
TypedRefuses ==
    /\ phase = "in"
    /\ depth = Len(frames)
    /\ handler = "typed"
    /\ ctx.args # <<>>
    /\ Return(depth, "Handler")
    /\ refused' = refused \cup {"typed"}
    /\ UNCHANGED <<signals, dropped>>

HandlerReturns(r) ==
    /\ phase = "handler"
    /\ Return(depth, r)
    /\ UNCHANGED <<signals, dropped, refused>>

Leaving(kind) ==
    /\ phase = "out"
    /\ depth > 0
    /\ frames[depth].kind = kind

\* Mutant: the outcome is recorded on success only.
ObserverLeavesOnSuccess(kind) ==
    /\ Leaving(kind)
    /\ signals' = [signals EXCEPT ![depth] =
          @ \cup (IF result = "ok" THEN Observers[kind].ok ELSE {})]
    /\ Return(depth - 1, result)
    /\ UNCHANGED <<dropped, refused>>

ObserverLeaves(kind) ==
    /\ Leaving(kind)
    /\ signals' = [signals EXCEPT ![depth] =
          @ \cup (IF result = "ok" THEN Observers[kind].ok ELSE Observers[kind].failed)]
    /\ Return(depth - 1, result)
    /\ UNCHANGED <<dropped, refused>>

\* The timeout got its answer in time; the encryption middleware ends in next.run.
PlainLeaves ==
    /\ \/ Leaving("timeout")
       \/ Leaving("encryption")
    /\ Return(depth - 1, result)
    /\ UNCHANGED <<signals, dropped, refused>>

\* A closure may replace the result.
FnLeaves(r) ==
    /\ Leaving("fn")
    /\ Return(depth - 1, r)
    /\ UNCHANGED <<signals, dropped, refused>>

\* User code is running, the only code here with an await of its own: the handler,
\* or a closure before or after its next.run.
Suspended ==
    \/ phase = "handler"
    \/ phase = "in" /\ depth > 0 /\ frames[depth].kind = "fn"
    \/ Leaving("fn")

\* tokio::time::timeout drops the enclosed future: its frames record nothing more.
TimeoutFires(i) ==
    /\ Suspended
    /\ i \in 1..depth
    /\ frames[i].kind = "timeout"
    /\ Return(i - 1, "Handler")
    /\ dropped' = dropped \cup {i}
    /\ UNCHANGED <<signals, refused>>

\* A closure may drop next.run itself, say in a select!, and answer in its place.
FnDrops(i, r) ==
    /\ Suspended
    /\ i \in 1..depth
    /\ phase = "handler" \/ i < depth
    /\ frames[i].kind = "fn"
    /\ Return(i - 1, r)
    /\ dropped' = dropped \cup {i}
    /\ UNCHANGED <<signals, refused>>

\* A panic, or the worker dropping its JoinSet.
Unwind ==
    /\ Suspended
    /\ phase' = "unwound"
    /\ UNCHANGED <<listVars, jobVars, ctx, handler, frames, depth, result, signals,
                   dropped, refused>>

\* process_job has the result of the outermost frame and reports it.
Report ==
    /\ phase = "out"
    /\ depth = 0
    /\ phase' = "over"
    /\ UNCHANGED <<listVars, jobVars, ctx, handler, frames, depth, result, signals,
                   dropped, refused>>

Terminated ==
    /\ phase \in {"over", "unwound"}
    /\ UNCHANGED vars

RunStep ==
    \/ LookUp
    \/ Start
    \/ \E kind \in DOMAIN Observers : ObserverEnters(kind) \/ ObserverLeaves(kind)
    \/ TimeoutEnters
    \/ EncryptionEnters
    \/ EncryptionRefuses
    \/ FnEnters
    \/ \E r \in Results : FnAnswers(r) \/ FnLeaves(r) \/ HandlerReturns(r)
    \/ HandlerStarts
    \/ TypedRefuses
    \/ PlainLeaves
    \/ \E i \in DOMAIN frames : TimeoutFires(i) \/ \E r \in Results : FnDrops(i, r)
    \/ Unwind
    \/ Report

Next ==
    \/ EditList
    \/ \E kind \in HandlerKinds : Register(kind)
    \/ \E id \in KeyIds, key \in Keys : EncryptStep(id, key) \/ AddKeyStep(id, key)
    \/ RunStep
    \/ Terminated

Spec == Init /\ [][Next]_vars

-----------------------------------------------------------------------------
(* Properties *)

\* Where, up to n, the middlewares of other names are.
Kept(list, name, n) == {i \in 1..n : list[i].name # name}

\* Nesting follows registration ("first registered = outermost wrapper",
\* worker.rs:395): in the handler that wrap builds after an edit, a middleware
\* that was added is inside of all the others, one inserted before (after) a
\* name is just outside (inside) of the outermost middleware of that name, a
\* name not found means the outermost (innermost) place, removal removes every
\* middleware of the name, and no edit changes how the others are nested.
NestingAsRegistered ==
    phase = "queued" =>
        LET old == Wrap(chain)
            Inserted(new, mw, i) ==
                i \in DOMAIN new /\ new[i] = mw /\ old = RemoveAt(new, i)
            Outermost(name) == {i \in DOMAIN old : old[i].name = name
                                  /\ \A k \in 1..(i - 1) : old[k].name # name}
            Places(name, otherwise, offset) ==
                IF Outermost(name) = {} THEN {otherwise} ELSE {i + offset : i \in Outermost(name)}
            innermost == Len(chain) + 1
        IN \A mw \in Middlewares, name \in Names :
              /\ Inserted(Wrap(Add(chain, mw)), mw, innermost)
              /\ Inserted(Wrap(Prepend(chain, mw)), mw, 1)
              /\ \A i \in Places(name, 1, 0) :
                    Inserted(Wrap(InsertBefore(chain, name, mw)), mw, i)
              /\ \A i \in Places(name, innermost, 1) :
                    Inserted(Wrap(InsertAfter(chain, name, mw)), mw, i)
              /\ Len(Wrap(RemoveNamed(chain, name))) = Cardinality(Kept(old, name, Len(old)))
              /\ \A i \in Kept(old, name, Len(old)) :
                    Wrap(RemoveNamed(chain, name))[Cardinality(Kept(old, name, i))] = old[i]

\* Metrics, logs and spans agree with what the worker reports: an observer with
\* only observers outside of it has recorded, when the run is over, its start and
\* exactly the outcome that is acked or nacked, whatever timed out, was refused or
\* short-circuited inside of it; and any observer that has started and recorded
\* no outcome was dropped by a timeout or a closure that encloses it.
OutcomeRecorded ==
    phase = "over" =>
        \A i \in DOMAIN frames : Observes(frames[i]) =>
            LET o == Observers[frames[i].kind]
                outcome == IF result = "ok" THEN o.ok ELSE o.failed
            IN /\ (\A k \in 1..i : Observes(frames[k])) => signals[i] = o.started \cup outcome
               /\ signals[i] = o.started => \E k \in dropped : k < i

\* Encryption is transparent while the key is kept: a job encrypted once under a
\* key that the worker's provider still has under that id is never refused by the
\* middleware, however its legacy markers, the keys added and the list have
\* changed, a typed handler inside of the middleware can always decode its
\* arguments, and any handler there sees the plaintext and no marker.
EncryptionTransparent ==
    (Len(job.args) = 1 /\ job.meta.encodings
       /\ Opens(job.args, GetKey(provider, job.meta.keyId))) =>
        /\ "encryption" \notin refused
        /\ (\E i \in DOMAIN frames : frames[i].kind = "encryption") =>
              /\ "typed" \notin refused
              /\ phase = "handler" => ctx = Queued(<<>>, NoMeta)
=============================================================================
