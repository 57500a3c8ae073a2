# Formal verification of the OJS Rust SDK

TLA+ models of the `ojs` crate (`src/src/`), the TLC configurations that check
them on small instances, and theorems about them that TLAPS proves for every
value of the constants.

- [Inventory](#inventory): the parts of the system
- [Plan](#plan): the modules, done and to come
- [Worker](#worker): the model of `Worker::start`, its runs, bounds and fairness
- [Job service](#job-service): the worker against the server's leases
- [HTTP transport](#http-transport): the model of one `request`, its run and bounds
- [Middlewares and encryption](#middlewares-and-encryption): the chain, edited and run
- [Durable execution](#durable-execution): replay across crashes
- [Lambda handler](#lambda-handler): batches, pushes and direct calls
- [Fake store](#fake-store): the test store under its mutex
- [Client and workflows](#client-and-workflows): requests built, sent and run
- [SSE subscription](#sse-subscription): the stream, the parser and the channel
- [What is proved](#what-is-proved)
- [Disagreements found](#disagreements-found)
- [Not modelled](#not-modelled)
- [Limits](#limits)

To check a run: `tlc -config <cfg> <module>` with the pair of its table row, as in
`tlc -config MCWorker_safety.cfg MCWorker`. To check the proofs:
`tlapm <module>.tla` with `JobServiceProofs` (which has those about `Worker` too),
`HttpTransportProofs`, `MiddlewareChainProofs`, `DurableProofs`, `LambdaHandlerProofs`,
`FakeStoreProofs`, `ClientProofs` and `SubscribeProofs`. Every module with an `MC` in
front gives the constants of the module it names; `FakeStore` and `HttpTransport` need
none.

## Inventory

The crate is a client library. Everything durable lives on the OJS server; the
crate holds in-memory state only, talks to the server over HTTP, and runs user
code (handlers, middlewares, side effects) in between.

| Component | Source | State it keeps | Operations | Hard behaviour | Correct when |
|---|---|---|---|---|---|
| Worker | `worker.rs` | handlers (lock), `state`, `active_count` (atomics), `active_jobs` (lock), semaphore, `JoinSet`, watch channel, grace deadline | `start`, `register`, `fetch_jobs`, `process_job`, `ack_job`, `nack_job`, heartbeat loop | four kinds of task interleave; panics; aborts; a server that over-delivers; directives that overwrite each other | never more than `concurrency` jobs in progress; counters exact; shutdown ends, and ends gracefully; quiet stops fetching |
| Middleware chain | `middleware.rs` | an ordered list of named middlewares, edited while jobs run | `add`, `prepend`, `insert_before`, `insert_after`, `remove`, `wrap` | order of nesting; missing and repeated names | the order of calls is the documented one |
| Provided middlewares | `middleware_common/*`, `otel.rs`, `tracing_mw.rs` | none (metrics calls a recorder) | one `handle` each | the timeout drops a handler half way | a result is recorded once, whatever the handler does |
| HTTP transport | `transport/http.rs` | none between requests | `request` (retry loop), header parsing | a POST repeated after an ambiguous failure; the last attempt; unsigned arithmetic | no more than `max_retries` repeats; only retryable replies are repeated |
| Backoff | `rate_limiter.rs` | none | `compute_backoff` | saturation, clamping, jitter | the delay stays within the documented bounds |
| Client | `client.rs`, `config.rs` | none | one REST call each; validation of types and queues | validation of a batch as a whole | an invalid request is never sent |
| Workflow builder | `workflow.rs` | the definition under construction | `chain`, `group`, `batch`, `to_wire` | step names and dependencies | the step graph is acyclic and has the documented order |
| Durable execution | `durable.rs` | replay log and cursor | `now`, `random`, `side_effect`, `checkpoint`, `resume`, `delete` | a crash between an effect and its record; a log that does not match the code | replayed values are the recorded ones |
| Fake store | `testing.rs` | the enqueued and performed jobs, handlers, one mutex | `record_enqueue`, `register_handler`, `clear_all`, `drain`, assertions | the mutex is held while a handler runs | every drained job ends up in one state |
| Lambda handler | `serverless/aws_lambda.rs` | handlers | `register`, `handle_sqs`, `handle_http`, `handle_direct` | partial batch failures; deliveries that overlap | what is deleted was done; one bad record holds no other back |
| SSE subscription | `subscribe.rs` | parse buffer, bounded channel | `subscribe` and its reader task | chunk boundaries, a full channel, a dropped receiver | events arrive once, whole and in order |
| Encryption | `encryption.rs` | keys and the id of the current one | `add_key`, `encrypt_job`, `EncryptionMiddleware::handle` | keys added or replaced in between; legacy markers | what was encrypted can be decrypted while its key is kept |
| Recorder | `recorder/mod.rs` | a list of trace entries | `record_call`, `record_error`, `attach_source_map`, `reset` | days-to-date arithmetic | the date is right (not modelled) |
| Agent client, attestation, data types | `agent.rs`, `attest.rs`, `job.rs`, `errors.rs`, ... | none | one request each, or serialisation | none | (not modelled) |

How they interact:

- `Worker::start` uses the HTTP transport for fetch, ack, nack and heartbeat,
  wraps the registered handler in the middleware chain for each job, and hands
  the handler a `JobContext` that can itself send heartbeats.
- The worker's tasks share `state`, `active_count` and `active_jobs` with its
  fetch loop and its heartbeat loop; the semaphore and the watch channel are the
  only points at which one waits for another.
- The client and the worker go through the same `request` loop, so whatever it
  repeats (enqueue, fetch, ack) is repeated for both.
- `DurableContext` and the Lambda handler are used by user code in place of
  parts of the worker; the fake store replaces client and worker in tests.

The behaviours of this code that tests hardly reach are listed, each at its
line, under `hazards` in `PROJECT.json`, with the properties that cover them.

## Plan

In order of importance; everything but the marked items is done.

1. `Worker` with its abstract specification `GracefulPool`.
2. `HttpTransport`: the retry loop, `compute_backoff`, a server that may execute an
   attempt late or without its reply arriving; `HttpTransportProofs`.
3. `JobService`: `Worker` composed with a server that leases jobs; `JobServiceProofs`, on
   the worker alone first and on both then.
4. `MiddlewareChain` over `Encryption`: the list, its edits, one run through it;
   `MiddlewareChainProofs`.
5. `Durable`: replay log and cursor across crashes; `DurableProofs`.
6. `LambdaHandler` and `FakeStore`: overlapping deliveries; drains under one mutex;
   `LambdaHandlerProofs` and `FakeStoreProofs`.
7. `Client` over `Requests`: validation, conversion, step graphs, the run of the steps;
   `ClientProofs`.
8. `Subscribe`: the line parser and the channel; `SubscribeProofs`.
9. *To model*: a second call of `start()`, `days_to_date`.

## Worker

`Worker` models one worker between the call of `start()` and the end of the
future it returns, with everything that future spawns.

| Variable | Code (`worker.rs`) |
|---|---|
| `state` | `Worker.state`, an `AtomicU8` |
| `shutdown` | the value in the `watch` channel |
| `pc` | where `start()` stands: the fetch loop (`top`, `state`, `capacity`, `fetch`, `acquire`, `insert`, `reap`), an idle `select!` (`idle`, or `idleErr` after a failed fetch), the drain loop (`drain`, `drainWait`), the end (`stopped`, or `cancelled` when the caller drops the future or it panics) |
| `fetchCount`, `batch` | the `count` of the fetch request; the rest of `for job in jobs` |
| `permits` | the semaphore |
| `activeCount`, `activeJobs` | `active_count`, `active_jobs` |
| `finished` | ended tasks the `JoinSet` has not given back yet |
| `graceOver` | the deadline of the drain loop has passed |
| `task`, `job` | a spawned task's place (`lookup`, `handler`, `report`, `count`, `untrack`, `release`) and its job; a task id is reused when its task is gone |
| `hb` | the heartbeat loop: between ticks, request in flight, ended |
| `panics` | how many spawned tasks have panicked (a history variable and a bound) |

A step runs from one point another task can observe to the next: an await, or an
access to an atomic, a lock or a channel. So the fetch loop's three reads (the
channel, the state, the count) are three steps, and a task's cleanup
(`fetch_sub`, `remove`, `drop(permit)`) is three steps. The actions follow the code in
order and are named after what happens; `map` in `PROJECT.json` gives the lines
of each. Points worth knowing:

- The four `select!`s on the poll interval are the actions `PollElapsed` and
  `IdleSeesShutdown` on `pc = "idle"` or `"idleErr"`: the first three `continue` at
  the top (and so skip the reaping), the one after a failed fetch falls through
  to it.
- `HandlerPanics` and `ReportPanics` unwind a task (`Unwind`): the permit is dropped, the
  two lines of cleanup after `process_job` (595-601) are not run, the `JoinSet` counts
  the task as ended. The second is the SDK's own panic: an error reply to an ack or a nack
  with a `Retry-After` that is no duration makes `Duration::from_secs_f64` panic
  (`transport/http.rs:254`). The same reply to a fetch unwinds `start()` (`FetchPanics`,
  as if its future had been dropped), and to a heartbeat ends the heartbeat loop
  (`HeartbeatPanics`), which nobody notices.
- `Stop` is everything after the drain loop: the heartbeat task is aborted, the
  channel set, and the `JoinSet` dropped, after which `TaskAborted` drops what is
  still running at its next await.
- `Cancel` is the caller dropping the future at one of its awaits.
- The server is external. `FetchOk` accepts any sequence of distinct jobs of
  length up to `fetchCount + Overfill`, none of which a task still holds
  except at the points `RedeliverAt` allows.

What a job contains, which report is sent for it, and what a heartbeat lists
are left out: nothing in `start()` branches on them.

### Properties

`GracefulPool` is what `start()` promises: at most `Size` jobs run, none starts
after the pool begins to close, and it is closed only when every job has ended
or the grace period has. `GracefulShutdown` is the refinement, with the tasks
that the count covers (`Counted`) as the running ones.

| Run | Checks | Shows |
|---|---|---|
| `worker_safety` | `TypeOK`, `PermitsConserved`, `ConcurrencyRespected`, `CountAccurate`, `JoinSetBounded`, `TrackingExact` | permits, count, tracked ids and the `JoinSet` stay consistent whatever interleaves, panics, is aborted, is cancelled or is over-delivered |
| `worker_liveness` | `DispatchWaitsOnlyForCleanup`, `GracefulShutdown`, `ShutdownStops`, `LastingTerminateStops`, `QuietStopsFetching`, `RunningFetches` | `start()` is a graceful pool; ctrl-c and a lasting terminate end it even if handlers hang; quiet stops fetching; running keeps fetching while fewer tasks panic than there are slots |

Three more definitions of `Worker` state what the documentation says and the code
does not do: `StoppingIsTerminate`, `TerminateStops` and `JobsDroppedOnlyAfterGrace`
(see [disagreements](#disagreements-found)). They belong to no run: put in the
place of the properties of a copy of `MCWorker_safety.cfg` or
`MCWorker_liveness.cfg`, TLC refutes each in seconds.

`DispatchWaitsOnlyForCleanup` is the reason `ShutdownStops` holds: the dispatch
loop awaits a permit without watching the shutdown channel, which is harmless
only because a batch never exceeds the free slots by more than the tasks that
are past their report. It needs a server that returns no more jobs than
requested (`Overfill = 0`); with `Overfill = 1` a hanging handler keeps
`start()` from ending, which is why the safety run, not the liveness run, has
the over-delivering server.

### Bounds

| Constant | safety | liveness | Why it is enough |
|---|---|---|---|
| `Jobs` | 3 | 3 | one more than the slots, so a batch can exceed the free permits and a job id can return |
| `Tasks` | 3 | 2 | ids are reused, so runs are unbounded in length; three let a task linger at `release` while two others start |
| `Concurrency` | 2 | 2 | the least with a partly full pool |
| `BatchCap` | 10 | 10 | the code's literal; never reached here, and the proofs cover every value |
| `Overfill` | 1 | 0 | one job too many, or none |
| `RedeliverAt` | `release` | `release` | the server may hand a job out again once the worker has untracked it |
| `Directives` | all | all | `active` stands for any value the code ignores |
| `MaxPanics` | 1 | 1 | one leak, of a handler or of a report, and one slot left |
| `BadReplies` | yes | no | whether the server sends a `Retry-After` that makes the SDK panic; a `start()` that panics does not end gracefully |
| `Cancellable` | yes | no | `GracefulShutdown` is about a `start()` that is awaited to its end |

No other counter needs a bound: `finished` is bounded by `JoinSetBounded`, the
rest by the pool.

### Fairness

`Fairness` assumes what tokio and the HTTP client give: `start()` takes a step
when it can (`WF` on `MainStep`; timers fire, and every request ends because the
client has a timeout, 30 s by default), each spawned task takes
its own steps (`WF` on `TaskStep(t)`), and time passes (`WF` on `GraceExpires`).
It assumes nothing of handlers, of the user, of the heartbeat replies or of the server's
choices. Only `RunningFetches` assumes in addition, as a hypothesis in the
property, that every handler returns or panics.

## Job service

`JobService` extends `Worker` with the messages between it and the server, and
with the server's side of the protocol (external). Every step of `Worker`
is a step here together with its effect on the messages; nothing of the worker is
modelled twice.

| Variable | Meaning |
|---|---|
| `server` | what the server holds of a job: `available`, `leased` to the worker, in `backoff` after a retryable nack, `completed`, `discarded` |
| `missed` | heartbeat intervals since the lease was granted or last renewed |
| `granted` | the jobs of a fetch reply on its way: leased, but unknown to the worker |
| `due` | ticks of the heartbeat interval that the loop has not seen yet |
| `listed` | `active_jobs` as copied into the heartbeat in flight (`worker.rs:486`), until the server has it |
| `sent` | the ack or nack a task waits for the reply of, until it arrives |
| `late` | reports that may still arrive though nobody waits for them: the request failed, was repeated by the transport, or its task was aborted or panicked |
| `lost` | messages lost or repeated so far |
| `slow` | history: the heartbeat loop or a dispatch has taken longer than `Slow` intervals |
| `succeeded`, `early` | history: jobs for which a handler returned `Ok`; jobs handed out again while an earlier task was still between its report and the removal of its id |

An ack or nack carries a job id and nothing that names the run
(`worker.rs:763-792`), so `Apply` ends the lease of the job whoever reports.

Time is counted in heartbeat intervals, and `Tick` may happen at any moment: while the
loop waits, while its POST is awaited (`worker.rs:485-512`), while a fetch reply is on its
way and while a batch is handed out. A lease is granted when the fetch arrives, not when
its reply does, and ends `Beats` intervals after it was granted or renewed. A loop that is
late for its ticks sees them one after the other (`MissedTickBehavior::Burst`), and a
heartbeat renews the leases of the jobs it lists when it arrives, whether somebody waits
for the answer or not.

How long a request takes is not assumed. The step in which the loop falls more than `Slow`
ticks behind, or a leased job has been more than `Slow` intervals on its way to its task,
sets `slow`; from then on the properties about undisturbed jobs promise nothing, since
slowness can cost a lease as well as a lost message can. With the defaults of the crate (an
interval of 5 s, a timeout of 30 s, four attempts and backoffs), a heartbeat that needs
every attempt takes more than 24 intervals, so `Beats > 2 * Slow + 1` with a `Slow` that
covers it means leases of more than four minutes. The crate does not ask the server for a
length, and a server with shorter leases takes the job of a running handler away when
requests are that slow.

| Run | Checks | Shows |
|---|---|---|
| `service_leases` | `ServiceTypeOK`, `LeaseHeldWhileRunning`, `NoConcurrentRuns` | an undisturbed job keeps its lease however long its handler runs, and is not run twice at a time, provided that `Beats > 2 * Slow + 1` |
| `service_liveness` | `CompletedMeansSucceeded`, `OrphanFreed`, `SuccessRecorded` | a job is completed only by a success; one the worker has finished with, given up or never received is freed; the success of an undisturbed job is recorded |
| `service_panic` | `OrphanFreed` | violated after a panic: see [findings](#disagreements-found) |

`Undisturbed` lists exactly what may cost a running job its lease: a lost
message, slowness, a panic, the end of the heartbeats (ctrl-c ends them while the drain
still waits for handlers), and `early`. The last needs no failure: the server
retries a nacked job before the reply of the nack has come back, the same worker runs it
again, and the first task's `active_jobs.remove` (598) removes the id of
the second run. Without `j \notin early`, and likewise without `~slow`, TLC violates
`LeaseHeldWhileRunning`.

Bounds. Jobs do not depend on each other on the server, and what the worker does
with several is the subject of `Worker` and of the proofs; the runs have one job, and the
safety run two slots and two tasks, so that two runs of the job can overlap, with one
panic and the future possibly dropped. `Slow = 1` lets an interval pass during each request,
reply and dispatch; `Beats = 4` is then the least lease that lasts: the job may be an
interval on its way, the heartbeat in flight may have copied the ids just before it
arrived and take another, and the one that lists it a third. With `Beats = 3` TLC finds the
lease that ends. `MaxBurst = 1` is what the loop can fall behind before `slow` is set.
`MaxLost` bounds the disturbances, lost or repeated messages and slowness together. The
safety run has none of them: both of its lease properties say nothing any more once there was
one, and the proofs cover any number. The liveness run has one. `RedeliverAt`
holds every point of a task, so that only the server's own state decides what it hands out.
The liveness run has one slot, no panic and a future that is awaited (a dropped
future leaves a detached heartbeat loop that renews the leases of aborted jobs, the same
leak as a panic's).

Fairness, beyond `Worker`'s: time passes (`Tick`), the loop sees its ticks (`Beat`),
heartbeats and reports arrive or fail, as the client's timeout makes them, and leases that
have run out end (all `WF`).

## HTTP transport

`HttpTransport` models one call of `HttpTransport::request`
(`transport/http.rs:151-213`) with `RetryConfig::compute_backoff`
(`rate_limiter.rs`). Calls share nothing, so one is enough.

| Variable | Code |
|---|---|
| `config` | the `RetryConfig`, chosen once: `enabled`, `retry_server_errors`, `max_retries`, `min_backoff`, `max_backoff` |
| `pc` | where the call stands: `send` (the head of the `for`), `wait` (in `execute`), `sleep`, or how it ended: `ok`, `err`, `dropped`, `panicked`, `unreachable` |
| `attempt` | the loop variable |
| `delay`, `slept` | the backoff being slept, and the sum of all so far (a history variable) |
| `reply` | history: the reply that is being slept out |
| `error` | the kind of error returned |
| `inTransit`, `executed` | what the server (external) may still execute and has executed, by attempt |

Each iteration is `Send`, one of the replies, and, after `ReplyRetried`, `Wake`.
The replies follow `execute` and `parse_error_response`: `ReplyOk`,
`ReplyGarbled` (a success whose body is not JSON), `TransportFails` (returned,
never retried), `ReplyReturned` and `ReplyRetried` for an error status, and
`ReplyBadRetryAfter` for a `Retry-After` from which `Duration::from_secs_f64`
panics. `Drop` is the caller dropping the future at an await.

`X-Request-ID` is drawn anew for each attempt and nothing else identifies the
call, so the server treats each attempt as a request of its own: `Execute(a)`
may happen to any attempt sent, before or after the reply, and after the call is
over. The one thing assumed of the server is that what it answers with a 429 it
has not executed and will not. A gateway error says nothing.

The run `http_retry` checks:

| Property | Shows |
|---|---|
| `EffectsBounded` | a call is executed at most `max_retries + 1` times, once with retries off |
| `AtMostOnce` | without `retry_server_errors` it is executed at most once, late executions included |
| `RateLimitedMeansUnexecuted` | in that case a rate-limit error means that nothing was or will be executed, so the caller may safely call again |
| `SleepBounded` | a call never sleeps longer than `max_retries * max_backoff`, whatever the server asks for |
| `DelayAsDocumented` | a 429 that names a delay is waited out for exactly that long or for `max_backoff`; after any other reply the fixed-width arithmetic gives the documented delay, `min_backoff * 2^attempt` clamped and jittered within its upper half, if both backoffs fit into the u64 they are cast to |
| `ReturnsFromLoop` | the `unreachable!()` after the loop is reached only with retries on and `max_retries` the u32 maximum, where `max_retries + 1` wraps to 0 in a release build |

Bounds. Both integer types have four bits, so that within five retries the
product saturates, the shift loses its bit and the limit `u32::MAX` wraps.
The retry limits are 0, 1, 5 (past the width of the shift) and the maximum; the
backoffs are 0, 3, the maximum and 20, which is beyond the width and is cut to 4 by
the casts `as_millis() as u64` (`rate_limiter.rs:98`, 100), each as lower and as upper
bound, a lower bound above the upper one included; the `Retry-After` delays are one below and
one above every backoff but 0. The attempts need no bound: the loop is one.
`U64Assumption` says that `U64Max` is the largest number of `U64Bits` bits.

There are no liveness properties: that a call ends follows from a bounded loop whose
every await has a timeout. Left out: URLs, headers, the decoding of bodies into
types, and what the error value carries.

## Middlewares and encryption

`MiddlewareChain` models the list of a worker (`middleware.rs`), the table of
handlers, their edits while jobs run, and one run of a job: `process_job` looks up
the handler, wraps it in the list of that moment and calls the outermost frame.
`Encryption` has the operators of `encryption.rs` it uses.

| Variable | Code |
|---|---|
| `chain`, `handlers` | `MiddlewareChain.middleware`; `Worker.handlers` for the job's type: nothing, a plain or a typed handler |
| `provider`, `job` | the worker's `StaticKeyProvider`; the job as producers left it: the keys its arguments are encrypted under, and its four markers |
| `ctx`, `handler`, `frames` | the job as the innermost running frame sees it; the handler looked up; the middlewares of `wrap`'s result, outermost first |
| `phase`, `depth`, `result` | whether the run goes in, is in the handler or comes out, the frames it is inside of, and what the frame left last returned |
| `signals`, `dropped`, `refused` | what each frame has told its recorder, the frames that have dropped the future they enclose (a timer that fired, or a closure), and who has failed the job on account of its arguments |

Edits are under the write lock and `wrap` is under the read lock, so each is one
step; the handler is looked up under a lock of its own, one step earlier. A run
advances frame by frame: an observer (metrics, logging, tracing, the two
OpenTelemetry ones) records before and after `next.run`, the timeout drops
everything inside of it when user code is suspended there, the encryption
middleware decrypts or refuses, a closure may answer instead, replace the
result, or drop `next.run` half way and answer (`FnDrops`), a typed handler decodes its arguments first, and a panic or the worker's
`JoinSet` being dropped unwinds it all. AES-GCM is an ideal cipher: the wrong key
is an error.

Run `middleware` (`MCMiddlewareChain_run.cfg`, `MCMiddlewareChain`):

| Property | Shows |
|---|---|
| `NestingAsRegistered` | every edit puts the new middleware where its name says, seen from the handler `wrap` builds, and moves no other |
| `OutcomeRecorded` | metrics, logs and spans agree with the ack or nack, and an observer without an outcome was inside of a timeout or a closure that dropped it |
| `EncryptionTransparent` | a job encrypted once under a key the worker keeps is never refused, and a plain or typed handler inside of the middleware sees the plaintext |

Bounds: lists of up to three middlewares out of five, one of each behaviour and
two under one name (for the "first of that name" and `retain` cases); three edits,
registrations or added keys in all; two layers of encryption, two ids and two keys,
which is enough to replace a key and to encrypt under a foreign one. Ids and keys are
symmetric. `wrap` and `remove` are loops, and so recursive functions over the list.
Assumed: plaintext arguments decode into the type of a typed handler. A closure can also
edit the `JobContext` before it passes it on; that is its own code's doing and not modelled, so
`EncryptionTransparent` is about closures that leave arguments and markers alone.

## Durable execution

`Durable` models a job handler as the sequence of helper calls it makes; each
execution may run another version of it (`program`). The state is the context
(`log`, `cursor`), the server's checkpoint (`saved`), and the checkpoints under way:
`put` whose reply is awaited, `late` those of calls given up, which may be applied
at any later time, even after the next resume or after `delete`. `base`,
`returned` and `fresh` are history: the log this execution started from, what its
helpers returned, which of its calls ran their closure, and across executions `acked`, the
number of entries of the last checkpoint whose call returned `Ok`, and `astray`: the code has
changed between two executions, a late checkpoint has overwritten a longer one, or a `delete`
that was reported as failed has been applied.

`Now`, `Random` and `SideEffect` return the entry at the cursor when it answers the
call (`Recall`), and otherwise run and push at the end of the log with the cursor as
sequence number (`Record`). `RecallFails` is an entry whose result does not
deserialize: the call fails, and the cursor has advanced already (`durable.rs:274-275`).
`Crash`, `SideEffectFails`, `CheckpointFails`,
`DeleteFails` and `ResumeFails` are the failures; `Resume` replaces the context.

Run `durable` (`MCDurable_replay.cfg`, `MCDurable`):

| Property | Shows |
|---|---|
| `ReplayIdentical` | as far as the log answers the calls of the code, replay returns the recorded results |
| `RecordedEffectsOnce` | (an action property) no closure runs for a call that the log the execution resumed from answers in its position, nor, unless something went `astray`, for any call that an acknowledged checkpoint has, whatever crashes, fails or arrives late in between |
| `LogTellsAll` | while the code is unchanged a checkpoint taken at any time holds everything the handler has seen, numbered from 0 |

The recall goes by the position in the log and not by the key: after a change of the code a
call whose result stands elsewhere in the log runs again, so the property does not say "no
recorded closure", and each part of `astray` is needed: without it TLC finds the repeated
effect.

Bounds: four versions that add, drop, swap and repeat calls, two results, two
failures (enough for a late checkpoint overtaken by a newer one).

## Lambda handler

`LambdaHandler` models `handle_sqs`, `handle_http` (and `handle_http_raw`) and
`handle_direct` as one loop over the deliveries of an event, in invocations that
run concurrently and share the table of handlers. `inv[i]` holds the batch, the
position, the failures listed so far and the last error; `place[d]` where a
delivery is. SQS and the push server are external: SQS deletes what a response
does not name, makes a record visible again when its timeout passes, and returns
the batch of an invocation that dies.

Run `lambda` (`MCLambdaHandler_batches.cfg`, `MCLambdaHandler`): `DeletedMeansDone`, no
record is deleted and no push completed unless the handler has returned `Ok` for it;
`GoodRecordsLeave`, a record whose handler succeeds leaves although its batch-mates
fail for ever. Fairness: invocations go on, types get registered, and a good
record that waits is delivered again (`SF`: batches compete for it). Bounds: three
records (one good, one failing in every way, one unparsable), one push, one direct
call, two invocations, batches of two, one death or visibility timeout. Assumed: no
delivery comes by two triggers, and a direct call has a body (the runtime has
decoded it).

## Fake store

`FakeStore` models the operations of `testing.rs` by threads that share one mutex.
`drain` holds it while the handlers run, so `HandlerCallsStore` is a thread that
waits for itself, and a panic, of a handler or of a failed assertion, poisons it
for everyone (`PoisonedCall`).

Run `fakestore` (`FakeStore_drain.cfg`, `FakeStore`): `PerformedIsSettled`, the
performed jobs are exactly the settled ones among the enqueued, which come first and in
order, each tried once, and a job is active only while a handler has it or because
that handler panicked; `DrainCompletes`, a drain ends and gives the lock back unless a handler
panics or comes back to the store. Fairness: a thread in `drain` runs on.
Bounds: two threads, two types, two queues, four jobs.

## Client and workflows

`Requests` has the pure part: the validation of names, the conversion of
arguments, options and metadata, and the steps of a workflow on the wire. `Client`
builds a job, a batch or a workflow call by call, validates, sends, and lets the
accepted steps run.

| Variable | Code |
|---|---|
| `draft` | the `EnqueueBuilder`, the `Vec<JobRequest>` or the `WorkflowDefinition` under construction: items with type, arguments, options, metadata and schema URI, and the callbacks that are set, each a step of its own with options of its own |
| `sent`, `outcome` | what the server has accepted, and when; what the caller got: `Ok`, `Err`, `Builder` (an invalid name) or a panic |
| `run` | the state of each accepted job or step (external) |

A name is a sequence of character classes, a date a number in a calendar that ends
at `MaxDate`, so that the delay that overflows the calendar panics as in
`workflow.rs:118`, and one beyond `MaxDuration` becomes no delay; a timeout is cut to
`MillisRange`. The server starts a
step when the steps it depends on are over and have ended the way the step asks
for. The wire carries no workflow type, so what a callback waits for can be told
by its id only.

Run `client` (`MCClient_requests.cfg`, `MCClient`):

| Property | Shows |
|---|---|
| `RequestAsBuilt` | of several calls for one field the last counts, metadata and schema included, for every job, step and callback; what the wire can hold arrives exactly, and what it cannot hold never makes a job later or longer than was asked; arguments arrive as `args_as` and `arg` promise; `send` refuses exactly the names outside of the documented grammar |
| `WorkflowOrder` | chains run in order and only after success; groups wait for nobody; callbacks run after all jobs, `on_success` and `on_failure` as documented |
| `WorkflowCompletes` | every dependency names a step that will be over, so an accepted workflow ends |

Fairness: the server goes on with what it has accepted and handlers return.
`RequestAsBuilt` is stated in terms of the calls the caller made (`Honours`,
`OptionsAsSaid`, `AsGiven`), not by way of the conversion that `to_wire` does.
Bounds: five calls (an item or a callback costs one; an option, a first `meta` and a first
`schema` two, and calling these two again nothing), names of up to five classes with limits of
four, two metadata and two schemas, callbacks of three kinds (bare, with a timeout to be cut and
a queue, with a delay), one value of most options, timeouts below and above the width, delays
below and above both overflows: 318 396 states. `CHECK_DEADLOCK` is off because a client that is done stops.

## SSE subscription

`Subscribe` models the task of `subscribe` (`subscribe.rs:84-130`): a stream of
lines is cut anywhere into chunks, each chunk is decoded on its own
(`from_utf8_lossy`), lines are cut off the buffer, fields collected and events sent
through the bounded channel to a receiver that may be dropped at any time. A text is a
sequence of characters, of which one takes two bytes, `m1` and `m2`; the half of it that
a chunk is left with becomes `?`. What is assumed of a line is that it is UTF-8 and has no
newline (`LinesAssumption`).

What is expected of the task is stated without it: `Events` finds the events of a text
from the positions of its newlines (`Ends`: a blank line after some data; `EventAt`: the
data since the last blank line, the last type since then, the last id since the last
event), with no buffer and no order of evaluation in common with the loop.

Run `subscribe` (`MCSubscribe_chunks.cfg`, `MCSubscribe`): `EventsWhole`, the events
received are a prefix of those the lines hold, computed from the lines alone,
whatever the chunks, and all of them when the receiver reads to the end (only a
character cut by a chunk boundary is garbled); `SubscriptionEnds`, a full channel does not
keep the task from its connection for ever, a task whose receiver was dropped ends with the
first event it has for it, also when it was waiting in the full channel, and the caller's loop
ends after the task. While the task waits for the stream it does not notice that the
receiver is gone (see [disagreements](#disagreements-found)), so nothing more is claimed. Fairness: the task runs and the caller's loop goes on; nothing is asked of
the server. Bounds: streams of up to four lines of seven kinds, chunks of up to
three bytes, a channel of one, so that it is full at once.

## What is proved

`JobServiceProofs` proves of `Worker`, for every number of jobs and tasks, every
concurrency (0 included), every batch cap, and every set of directives and
redelivery points:

| Theorem | States |
|---|---|
| `Inductive` | the inductive invariant `IInv` holds |
| `TypeCorrect` | `[]TypeOK`; in particular `active_count` and the permits never go below zero |
| `PermitSafety` | `[]PermitsConserved` |
| `ConcurrencySafety` | `[]ConcurrencyRespected`, for every `Overfill` |
| `CountSafety` | `[]CountAccurate`: the count is off by the tasks that have panicked, in user code or in the SDK |
| `DispatchSafety` | `[]DispatchWaitsOnlyForCleanup` |
| `JoinSetSafety` | `[]JoinSetBounded` |
| `TrackingSafety` | `[]TrackingExact`: the ids in `active_jobs` are those of the tasks that hold them |
| `Graceful` | `Spec => GracefulShutdown` when the future is not dropped and does not panic |

The argument. Each task is at one point, so a step moves at most one task
between the sets `Counted`, `Tracked` and `Holding`; the lemmas `MoveOut`,
`MoveIn`, `MoveWithin` and `MoveCounts` say what that does to their cardinalities.
`PermitsConserved` is then inductive once the permit in the dispatch loop's hand is
counted (`InHand`). `TypeOK` alone is not inductive: that `CountDown` does not
take `activeCount` below zero needs `CountAccurate`, and once the worker is over
(when aborted tasks no longer count down) the weaker `CountCovers`. `IInv`
is the conjunction of `TypeOK`, `BatchInHand` (at `insert` there is a job to
insert), `HeldFinite` (the tasks that hold a permit are finitely many, which is needed
because `Tasks` need not be finite), `PermitsConserved`, `CountCovers` and
`CountAccurate`. `DispatchSafety` adds `BatchFits` (the rest of a batch fits in
the capacity not counted), `JoinSetSafety` adds `JoinSetInv`, which bounds
the set at each point of the loop, `TrackingSafety` adds `TrackInv` (the exact
set at each point, and `DistinctJobs`: no two tasks hold the same job and none in
the rest of the batch is held), and `Graceful` shows that every step is a step of
`GracefulPool` or a stutter.

Assumptions: those the modules name on the constants (`ConcurrencyAssumption`
and so on).

`HttpTransportProofs` proves, for every width of the two integer types and every
set of limits, backoffs and `Retry-After` delays:

| Theorem | States |
|---|---|
| `HttpInductive` | the inductive invariant `IInv` holds |
| `HttpTypeCorrect` | `[]TypeOK`; no delay is negative, whatever overflows or is truncated |
| `EffectsSafety` | `[]EffectsBounded`, even when `max_retries + 1` wraps |
| `OnceSafety` | `[]AtMostOnce` |
| `RateLimitSafety` | `[]RateLimitedMeansUnexecuted` |
| `SleepSafety` | `[]SleepBounded` |
| `LoopSafety` | `[]ReturnsFromLoop` |
| `DelaySafety` | `[]DelayAsDocumented`: shift and product may overflow; the casts may lose nothing (`BackoffsFit`) |

The argument. `AttemptsInv` places every effect among the attempts sent so far and
those below the loop's bound; `MaxAttemptsBound` gives that bound from the
wrapping addition. `OnceInv` says that, while server errors are not retried, the
current attempt is the only one that can have an effect: a retry follows a 429,
which removed the attempt before. `ErrorInv` ties the error returned to the last reply.
`SleepInv` bounds `slept` by `attempt` times `max_backoff`, from `BackoffBound`:
whatever the shift and the product come to, the clamp and the jitter keep the
delay at or below `max_backoff`, and the casts only make the bounds smaller
(`CastShortens`). `DelaySafety` needs that powers of two grow
(`PowersGrow`), which is proved without induction, from the number of subsets of
`1..n`; then either the shift keeps its bit and the product its value or both clamp
to the upper bound (`ClampedAsDocumented`).

`JobServiceProofs` proves of `JobService`, for all jobs, tasks, slots, replies, directives and any number
of lost messages:

| Theorem | States |
|---|---|
| `WorkerInService` | `ServiceSpec => Spec`: all that is proved of `Worker` holds in the service |
| `ServiceTypeSafety` | `[]ServiceTypeOK` |
| `CompletionSafety` | `[]CompletedMeansSucceeded` |
| `LeaseSafety` | `[]LeaseHeldWhileRunning`, if `Beats > 2 * Slow + 1` |
| `RunSafety` | `[]NoConcurrentRuns`, if `Beats > 2 * Slow + 1` |

The argument. `ServiceStepIsWorkerStep` maps every step to one of the worker or a
stutter, so `Worker`'s `IInv` comes for free; `HandInv` adds that tasks have jobs and that
only the dispatch loop has a batch. A completed job is one somebody acked, and an ack
still on its way names a job that has succeeded (`AckInv`), because a task keeps its job
until its report is answered. For the leases, `LeaseInv` says of every undisturbed job that it is in one hand
(`OneHolder`: one tracked task, or one place of the batch or of the reply on its way) and,
while it is about to run or runs, how old its lease may be (`Leased`): `Slow` intervals from
its way to the task, and what the heartbeat loop owes it (`Owed`: the ticks the loop has not
seen, at most `Slow` of them, and one more while the heartbeat that lists it is in flight). So
a lease is never older than `2 * Slow + 1` intervals. This is inductive because a tick that
ages the lease is one more that the loop owes (`TickKeepsLease`), a heartbeat sent turns a
tick owed into the one in flight (`BeatKeepsLease`), its arrival renews what it
lists, and the worker's steps only narrow what is in hand, but for two: a spawn hands a job
on (`SpawnKeepsHolder`), and a fetch granted brings none that some task still has, or it would
be `early` (`GrantKeepsLeases`).

`MiddlewareChainProofs` proves, for lists of any length and any number of edits,
registrations and keys:

| Theorem | States |
|---|---|
| `TypeCorrectness` | `[]TypeOK`; in particular a run goes no deeper than its nest |
| `Nesting` | `NestingAsRegistered`, an action property |
| `RecordsAgree` | `[]OutcomeRecorded` |
| `Transparency` | `[]EncryptionTransparent` |

The argument. `WrapIsList`: the loop of `wrap` gives the list as it stands; `RemovedShape`,
`InsertedShape`, `AddedShape` and `PositionShape` say what each edit does to the positions
in it, which `Nesting` reads off. For a run, `FrameInv` says what a frame has recorded at
each stage: its start while it is entered, its start and the outcome passed outwards once
it is left, or less if a timeout or closure outside of it dropped it. `CipherInv` says what the frames on
the way in see of a job whose key is kept: the job as enqueued before the first
encryption middleware, the plaintext after it.

`DurableProofs` proves, for every set of programs, values and keys and any number of
crashes, failures and late checkpoints:

| Theorem | States |
|---|---|
| `TypeCorrectness` | `[]TypeOK` |
| `Replays` | `[]ReplayIdentical` |
| `EffectsOnce` | `RecordedEffectsOnce`, an action property |
| `LogComplete` | `[]LogTellsAll` |

The argument. The log always begins with the entries the execution started from, and the
cursor counts its calls (`PrefixInv`), so a call the base covers finds its entry. While
the code is unchanged, the log ends where the calls do (`ExtentInv`), so the next push
lands on the position its sequence number names; without this, `LogTellsAll` is not
inductive. For these nothing is needed of the server: a resumed log may be any log. That an
effect is not repeated across executions does need it: `HistoryInv` says that until something
goes astray, the log in hand and every checkpoint under way, applied or late answer the first
calls of the code (`Fits`), and neither the log nor the checkpoint on the server has fewer
entries than were acknowledged; then a call without an answer is the one behind the end of
the log (`BehindTheEnd`), and so behind what was acknowledged.

`LambdaHandlerProofs` proves `TypeCorrectness` (`[]TypeOK`) and `NothingLost`
(`[]DeletedMeansDone`) for any deliveries, batches, overlapping invocations and deaths. The
invariant is `BatchesInv`: in each invocation the records before `at` are done or listed as
failures, and an `Ok` as the last error means that the last of them is done, which is what
the answer to a push or a direct call goes by.

`FakeStoreProofs` proves `OneDrain` (the mutex has one holder, and it is the thread in a
drain) and `PerformedSafety` (`[]PerformedIsSettled`) for any threads, types, queues and
numbers of jobs. `DrainInv` says that the drain works on the jobs there were when it began,
that those before its index are settled, and that one is active just while its handler
runs; `at - 1 <= Len(performed)` is what makes the next job settled the next performed.

`ClientProofs` proves, for every set of items, options, names and dates and any bound on the
calls:

| Theorem | States |
|---|---|
| `AsBuilt` | `[]RequestAsBuilt` |
| `Order` | `[]WorkflowOrder` |

The argument. `JobTypeGrammar` and `QueueNameGrammar`: the validators, which split a
name at its dots or look at its neighbours, accept exactly the grammars of their
error messages, for names of any length. `LastOneCounts`: `resolve_options` leaves in each
field the value of the last option that sets it, as the conversion makes it, and
`ConversionHonours` that this is what was asked for where the wire can hold it, and neither
later nor longer where it cannot. `BodyShape`: the body of any draft has a
job or step for each item and each callback, with its type, arguments and options, and
dependencies as the kind of draft asks. `SentInv` carries this over time: what the server has is the body of the
draft as it was sent, and the draft no longer changes. `Order` then follows from what the
server may start.

`SubscribeProofs` proves, for every set of lines, any length of streams and of chunks and
every capacity of the channel:

| Theorem | States |
|---|---|
| `Invariance` | the inductive invariant `Inv` holds |
| `Types` | `[]TypeInvariant`; in particular the channel stays within its capacity |
| `Whole` | `[]EventsWhole` |

The argument. `EventsWhole` compares what the caller has with the events of the text read
so far, but it is not inductive: it does not say how far the task has come in that text,
nor what the rest of the buffer and the event in parts stand for. `Progress` does: there
are a text `D0`, as the chunks were decoded, and a newline `k` of it such that the buffer
is what follows `k` (`ReadText`), the event in parts is what the lines to `k` make of it
(`Pending`), and what the caller has, followed by what is in the channel and in hand, are
exactly the events that end by `k` (`EventsTo`), or begin with what the caller had when it
dropped the receiver (`Told`). `Told` says so of every text that begins with `D0`, so that
a chunk, which only lengthens `D0`, disturbs none of it. A line taken moves `k` to the next
newline (`LineTaken`), which is the same in every longer text (`NextLineExtends`);
`LineStep` says what one more line does to `Pending`, by the cases of the code, and
`EventsToLine` whether it ends an event. The events that end by `k` are the first of all
events (`EventsToGrow`, `EventsToEnd`), which gives `EventsWhole`. `AtRest` says
that no line is left in the buffer where the task waits or has ended, from which a caller
that reads to the end has all events. For cut characters, `BlurEvents`: a text and the same
text with its two-byte characters unreadable have the same events, unreadable in the same
places; `StreamShape` that no half of a character stands alone in a stream, so without a
cut the decoded text is the stream itself.

Assumptions: those the modules name on their constants, `Beats > 2 * Slow + 1` where a table
says so, and nothing else. They say which values the constants range over (names are sequences
of character classes, the integers have their widths, `None` is no key and no thread) and
that an item, a delivery or a middleware has the shape its type gives it in the code.

On induction. The induction theorems of the library take a predicate as a parameter, which
the installed provers cannot instantiate. `NatSetInduction` states induction over `Nat` for
sets instead, from the well-foundedness of `<`; each loop (`wrap`, `remove`,
`resolve_options`) and each fold over lines or newlines is then proved about with the set of the lengths for which its
claim holds.

Every safety property of the passing runs is a theorem. Only model-checked are the
liveness properties: `ShutdownStops`, `LastingTerminateStops`, `QuietStopsFetching`,
`RunningFetches`, `OrphanFreed`, `SuccessRecorded`, `GoodRecordsLeave`, `DrainCompletes`,
`WorkflowCompletes` and `SubscriptionEnds`. Fairness and ENABLED are out of the prover's
reach.

## Disagreements found

One is a run of its own:

- **`service_panic`**: the id of a panicked job stays in `active_jobs`
  (`worker.rs:596`) and no nack is sent; heartbeats renew its lease for as long
  as the worker lives, so that nobody retries it, although `error_codes.rs:74`
  declares a handler panic retryable.

Met while modelling, worker:

- ctrl-c during an idle wait ends the fetch loop without storing `Terminate`
  (`worker.rs:541`, 553, 566, 610), so `state()` goes on returning `Running` or
  `Quiet`; the README's state diagram (lines 257-258) has `ctrl+c / shutdown` lead to
  `Terminate` from both (`StoppingIsTerminate`).
- A `quiet` reply that follows a `terminate` reply before the fetch loop has read
  the state overwrites it (`worker.rs:498`), and the worker does not end; the
  diagram (line 259) has no way back from `Terminate` (`TerminateStops`).
- A task that panics, in its handler or in the SDK over a bad `Retry-After`, leaks its
  `active_count` (`worker.rs:595`); after `concurrency` panics a running worker has no
  capacity left and never fetches again (`RunningFetches` with `MaxPanics = 2`).
- A heartbeat every five seconds (`worker.rs:128`) does not keep leases alive by itself: the
  POST is awaited before the next tick is looked at (493), with up to four attempts of 30 s
  and the backoffs between them. Leases that are shorter than that end while their jobs
  run, although every request succeeds (`LeaseHeldWhileRunning` without `~slow`).
- Dropping the future of `start()` aborts the jobs in progress at once
  (`worker.rs:522`), where its documentation (447-449) speaks of a graceful shutdown
  "via signal or context cancellation" (`JobsDroppedOnlyAfterGrace`).
- `register_typed` decodes the arguments as they are (`worker.rs:382`), but
  `normalize_args` has wrapped an object into an array of one (`workflow.rs:369`).
  `Job::args_as` unwraps it, `register_typed` does not, so the struct of the
  documented example (`worker.rs:365`, README line 205) cannot be decoded from what
  the client sends. `docs/testing/TEST_STRUCTURE_ANALYSIS.md:435` lists it as untested.

Middlewares and serverless:

- `MiddlewareChain::add` says "outermost position" (`middleware.rs:93`); the last
  added is the innermost, as `worker.rs:395` says. The model follows `wrap`.
- `TimeoutMiddleware` is documented to fail with `OjsError::Timeout`
  (`middleware_common/timeout.rs:25`); there is no such variant and it is `Handler`.
- A `NonRetryable` error "will not be retried" (`aws_lambda.rs:264`), but
  `handle_sqs` reports it to SQS like any other failure, so the record comes back.

Durable execution, client and the rest:

- "Execute a side effect exactly once" (`durable.rs:260`) holds for what an acknowledged
  checkpoint has: after a crash in between, the effect is repeated, and so is one in a
  checkpoint that a late PUT of an earlier call has overwritten (114), or that a `delete` has
  removed whose reply was lost.
- `side_effect` is documented to recall by its key (`durable.rs:262-264`): it looks at the
  entry at the cursor only, so after a change of the code a recorded effect under the same
  key runs again.
- `FakeStore`'s assertions ignore `args` and `meta` of a `MatchCriteria`
  (`testing.rs:358`).
- `delay` is documented to delay a job by the given duration (`client.rs:453`): one longer than
  chrono's longest becomes no delay at all (`workflow.rs:118`, `unwrap_or_default`), one that
  ends beyond the calendar panics. A `Timeout` or `VisibilityTimeout` of 2^64 ms or more
  keeps its low 64 bits (`as_millis() as u64`).
- "delays are clamped" (`rate_limiter.rs`): a `min_backoff` or `max_backoff` of 2^64 ms or
  more is truncated by the casts (98, 100), so that the exponential delay can be far below the
  documented one, but never above `max_backoff` (`BackoffsFit` is the condition of
  `DelayAsDocumented`).
- A `Meta` option is lost in `enqueue_batch` and in steps, although
  `workflow.rs:128` says it is handled separately: `extract_meta` is called by
  `EnqueueBuilder::send` alone, whose builder has no way to push that option.
- "Drop the receiver to disconnect" (`subscribe.rs:50`): the task notices at its next
  event, not while it waits for the stream. Lines that end in CRLF never make an
  event, since a line of one CR is not empty.
- `enqueue_batch` and `create_workflow` send names that `send` would refuse.

## Not modelled

- **Recorder** (`recorder/mod.rs`): not declared in `lib.rs`, so not part of the
  crate. A list only its owner appends to, and `days_to_date`, a closed formula.
- **Agent client**, and the **other methods of the client** (jobs, queues, cron, dead
  letters, schemas, health): one HTTP request each, no state and no order between
  calls. `HttpTransport` is what they have in common.
- **Attestation**: stubs that return constants.
- **Data types** (`job.rs`, `errors.rs`, `error_codes.rs`, `retry.rs`, `queue.rs`,
  `events.rs`, `schema.rs`): records and enumerations that serde reads and writes,
  except `Job::arg` and `Job::args_as`, which `Requests` has. `RetryPolicy` is carried
  out by the server.
- **Connection builders** (`config.rs`, the URL, token and header setters of both
  builders): values passed on once.
- A **second call of `start()`** on the same worker: nothing documents what it does.
- `JobBuilder` (`testing.rs`); the name of a workflow, which is passed on, and its default
  options, which are converted as a step's are.

## Limits

- Proved results are about the model. The correspondence of each definition to
  its lines is by reading.
- Liveness under fairness is checked by TLC on the instances above, not proved.
- Memory ordering: the atomics are `SeqCst` in the code and the model is
  sequentially consistent.
- Of the panics in the SDK's own code those are modelled that a reply or a legal call can
  cause: the bad `Retry-After`, the wrapped attempt count, the delay beyond the calendar,
  the poisoned mutex. A panic that aborts the process is not.
- `durable.rs` is modelled as it is written; `lib.rs` does not declare it.
