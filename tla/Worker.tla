------------------------------- MODULE Worker -------------------------------
(***************************************************************************)
(* One ojs::Worker between the call of start() and the end of the future   *)
(* it returns (src/src/worker.rs).  Four kinds of tokio tasks interleave:  *)
(*                                                                         *)
(*   - start() itself: the fetch loop, then the drain loop (variable pc);  *)
(*   - one spawned task per fetched job: process_job and its cleanup;      *)
(*   - the heartbeat loop, which stores the server's directives in state;  *)
(*   - the ctrl-c task, which sends TRUE on the shutdown watch channel.    *)
(*                                                                         *)
(* A step is what runs between two points at which another task can be     *)
(* observed: an await, or an access to an atomic, a lock or a channel.     *)
(* What a job contains, which report (ack, retryable or final nack) is     *)
(* sent for it and what a heartbeat lists are data that nothing in this    *)
(* module depends on.                                                      *)
(***************************************************************************)
EXTENDS Integers, Sequences, FiniteSets

CONSTANTS
    Jobs,           \* ids of the jobs the server may hand out
    Tasks,          \* ids of spawned tasks; an id is reused once its task ends
    Concurrency,    \* WorkerBuilder::concurrency
    BatchCap,       \* the literal 10 of the fetch loop
    Overfill,       \* how many jobs beyond the requested count a reply may hold
    RedeliverAt,    \* points of a task at which the server may hand its job out again
    Directives,     \* the values of "state" that heartbeat replies carry
    MaxPanics,      \* bound on the number of tasks that panic
    BadReplies,     \* whether a reply may carry a Retry-After that makes the SDK panic
    Cancellable,    \* whether the caller may drop the future of start()
    NoJob           \* the job of an idle task id

\* Where a spawned task stands.  "idle" is an id with no task.
Counted == {"lookup", "handler", "report", "count"}    \* in active_count
Tracked == Counted \cup {"untrack"}                    \* in active_jobs
Holding == Tracked \cup {"release"}                    \* owns a permit
Points  == Holding \cup {"idle"}

ASSUME ConcurrencyAssumption == Concurrency \in Nat
ASSUME BatchCapAssumption == BatchCap \in Nat \ {0}
ASSUME OverfillAssumption == Overfill \in Nat
ASSUME RedeliverAssumption == RedeliverAt \subseteq Holding
ASSUME BadRepliesAssumption == BadReplies \in BOOLEAN
ASSUME CancellableAssumption == Cancellable \in BOOLEAN
ASSUME NoJobAssumption == NoJob \notin Jobs

VARIABLES
    state,          \* Worker.state: "Running", "Quiet" or "Terminate"
    shutdown,       \* the value in the shutdown watch channel
    pc,             \* where start() stands; "cancelled" when its future was dropped or panicked
    fetchCount,     \* the count sent in the fetch request in flight
    batch,          \* the fetched jobs the dispatch loop still has to spawn
    permits,        \* free permits of the semaphore
    activeCount,    \* Worker.active_count
    activeJobs,     \* Worker.active_jobs
    finished,       \* ended tasks that the JoinSet still holds
    graceOver,      \* the grace deadline has passed
    task,           \* task[t] \in Points
    job,            \* job[t]: the job task t works on
    hb,             \* the heartbeat loop: "wait", "post" (request in flight), "done"
    panics          \* how many spawned tasks have panicked

mainVars == <<fetchCount, batch>>
poolVars == <<permits, activeCount, activeJobs, finished, task, job, panics>>
hbVars   == <<hb>>
vars     == <<state, shutdown, pc, fetchCount, batch, permits, activeCount,
              activeJobs, finished, graceOver, task, job, hb, panics>>

TasksAt(S) == {t \in Tasks : task[t] \in S}

\* start() has left its fetch loop, or its future is gone.
Draining == pc \in {"drain", "drainWait"}
Over     == pc \in {"stopped", "cancelled"}

Init ==
    /\ state = "Running"
    /\ shutdown = FALSE
    /\ pc = "top"
    /\ fetchCount = 0
    /\ batch = <<>>
    /\ permits = Concurrency
    /\ activeCount = 0
    /\ activeJobs = {}
    /\ finished = 0
    /\ graceOver = FALSE
    /\ task = [t \in Tasks |-> "idle"]
    /\ job = [t \in Tasks |-> NoJob]
    /\ hb = "wait"
    /\ panics = 0

-----------------------------------------------------------------------------
(* The fetch loop of start(), lines 524-621. *)

\* Top of the loop: the watch channel holds TRUE, so the state becomes
\* Terminate and the loop ends.
SeeShutdown ==
    /\ pc = "top"
    /\ shutdown
    /\ state' = "Terminate"
    /\ pc' = "drain"
    /\ UNCHANGED <<shutdown, graceOver>>
    /\ UNCHANGED <<mainVars, poolVars, hbVars>>

NoShutdownYet ==
    /\ pc = "top"
    /\ ~shutdown
    /\ pc' = "state"
    /\ UNCHANGED <<state, shutdown, graceOver>>
    /\ UNCHANGED <<mainVars, poolVars, hbVars>>

\* Mutant: a worker told to go quiet goes on to fetch.
ReadStateIgnoringQuiet ==
    /\ pc = "state"
    /\ pc' = IF state = "Terminate" THEN "drain" ELSE "capacity"
    /\ UNCHANGED <<state, shutdown, graceOver>>
    /\ UNCHANGED <<mainVars, poolVars, hbVars>>

\* Mutant: a worker told to terminate only stops fetching.
ReadStateTerminateIdles ==
    /\ pc = "state"
    /\ pc' = IF state = "Running" THEN "capacity" ELSE "idle"
    /\ UNCHANGED <<state, shutdown, graceOver>>
    /\ UNCHANGED <<mainVars, poolVars, hbVars>>

\* One load of the state decides between draining, idling and fetching.
ReadState ==
    /\ pc = "state"
    /\ pc' = CASE state = "Terminate" -> "drain"
               [] state = "Quiet"     -> "idle"
               [] OTHER               -> "capacity"
    /\ UNCHANGED <<state, shutdown, graceOver>>
    /\ UNCHANGED <<mainVars, poolVars, hbVars>>

\* saturating_sub, then min with the batch cap.
Capacity == IF activeCount < Concurrency THEN Concurrency - activeCount ELSE 0

\* Mutant: the request asks for the whole concurrency whatever is running.
ReadCapacityIgnoringActive ==
    /\ pc = "capacity"
    /\ pc' = IF Capacity = 0 THEN "idle" ELSE "fetch"
    /\ fetchCount' = IF Concurrency < BatchCap THEN Concurrency ELSE BatchCap
    /\ UNCHANGED <<state, shutdown, graceOver, batch>>
    /\ UNCHANGED <<poolVars, hbVars>>

ReadCapacity ==
    /\ pc = "capacity"
    /\ pc' = IF Capacity = 0 THEN "idle" ELSE "fetch"
    /\ fetchCount' = IF Capacity < BatchCap THEN Capacity ELSE BatchCap
    /\ UNCHANGED <<state, shutdown, graceOver, batch>>
    /\ UNCHANGED <<poolVars, hbVars>>

\* The four selects on the poll interval and the watch channel.  "idle" is
\* followed by `continue`, "idleErr" (after a failed fetch) by the reaping.
PollElapsed ==
    /\ pc \in {"idle", "idleErr"}
    /\ pc' = IF pc = "idle" THEN "top" ELSE "reap"
    /\ UNCHANGED <<state, shutdown, graceOver>>
    /\ UNCHANGED <<mainVars, poolVars, hbVars>>

\* shutdown_rx.changed() is ready: the loop ends, and state is left as it is.
IdleSeesShutdown ==
    /\ pc \in {"idle", "idleErr"}
    /\ shutdown
    /\ pc' = "drain"
    /\ UNCHANGED <<state, shutdown, graceOver>>
    /\ UNCHANGED <<mainVars, poolVars, hbVars>>

\* The server side of a fetch (external): a non-empty reply holds distinct
\* jobs, none of which a task still holds except where RedeliverAt allows it.
Offered(reply) ==
    /\ \A i, k \in DOMAIN reply : reply[i] = reply[k] => i = k
    /\ \A i \in DOMAIN reply, t \in Tasks :
          job[t] = reply[i] => task[t] \in RedeliverAt

Replies == UNION {[1..n -> Jobs] : n \in 1..(fetchCount + Overfill)}

FetchOk(reply) ==
    /\ pc = "fetch"
    /\ Offered(reply)
    /\ batch' = reply
    /\ fetchCount' = 0
    /\ pc' = "acquire"
    /\ UNCHANGED <<state, shutdown, graceOver>>
    /\ UNCHANGED <<poolVars, hbVars>>

FetchEmpty ==
    /\ pc = "fetch"
    /\ fetchCount' = 0
    /\ pc' = "idle"
    /\ UNCHANGED <<state, shutdown, graceOver, batch>>
    /\ UNCHANGED <<poolVars, hbVars>>

FetchErr ==
    /\ pc = "fetch"
    /\ fetchCount' = 0
    /\ pc' = "idleErr"
    /\ UNCHANGED <<state, shutdown, graceOver, batch>>
    /\ UNCHANGED <<poolVars, hbVars>>

-----------------------------------------------------------------------------
(* Dispatch, lines 571-604, and the reaping of ended tasks. *)

\* Mutant: the job is dispatched without waiting for a permit.
AcquireWithoutWaiting ==
    /\ pc = "acquire"
    /\ batch # <<>>
    /\ permits' = permits - 1
    /\ activeCount' = activeCount + 1
    /\ pc' = "insert"
    /\ UNCHANGED <<state, shutdown, graceOver, activeJobs, finished, task, job, panics>>
    /\ UNCHANGED <<mainVars, hbVars>>

\* acquire_owned().await, then fetch_add: the wait does not watch shutdown.
Acquire ==
    /\ pc = "acquire"
    /\ batch # <<>>
    /\ permits > 0
    /\ permits' = permits - 1
    /\ activeCount' = activeCount + 1
    /\ pc' = "insert"
    /\ UNCHANGED <<state, shutdown, graceOver, activeJobs, finished, task, job, panics>>
    /\ UNCHANGED <<mainVars, hbVars>>

\* Mutant: the id is inserted by the task itself, after a lookup it may not reach.
SpawnUntracked(t) ==
    /\ pc = "insert"
    /\ task[t] = "idle"
    /\ task' = [task EXCEPT ![t] = "lookup"]
    /\ job' = [job EXCEPT ![t] = Head(batch)]
    /\ batch' = Tail(batch)
    /\ pc' = "acquire"
    /\ UNCHANGED <<state, shutdown, graceOver, fetchCount, permits, activeCount>>
    /\ UNCHANGED <<activeJobs, finished, panics, hbVars>>

\* active_jobs.write().await, the insertion, then join_set.spawn.
Spawn(t) ==
    /\ pc = "insert"
    /\ task[t] = "idle"
    /\ activeJobs' = activeJobs \cup {Head(batch)}
    /\ task' = [task EXCEPT ![t] = "lookup"]
    /\ job' = [job EXCEPT ![t] = Head(batch)]
    /\ batch' = Tail(batch)
    /\ pc' = "acquire"
    /\ UNCHANGED <<state, shutdown, graceOver, fetchCount, permits, activeCount>>
    /\ UNCHANGED <<finished, panics, hbVars>>

BatchDone ==
    /\ pc = "acquire"
    /\ batch = <<>>
    /\ pc' = "reap"
    /\ UNCHANGED <<state, shutdown, graceOver>>
    /\ UNCHANGED <<mainVars, poolVars, hbVars>>

\* Mutant: the loop goes round without reaping.
ReapNothing ==
    /\ pc = "reap"
    /\ pc' = "top"
    /\ UNCHANGED <<state, shutdown, graceOver, finished>>
    /\ UNCHANGED <<permits, activeCount, activeJobs, task, job, panics>>
    /\ UNCHANGED <<mainVars, hbVars>>

\* try_join_next until it returns None.
Reap ==
    /\ pc = "reap"
    /\ finished' = 0
    /\ pc' = "top"
    /\ UNCHANGED <<state, shutdown, graceOver>>
    /\ UNCHANGED <<permits, activeCount, activeJobs, task, job, panics>>
    /\ UNCHANGED <<mainVars, hbVars>>

-----------------------------------------------------------------------------
(* The drain loop, lines 623-658.  Leaving it aborts the heartbeat loop,   *)
(* sends TRUE on the channel and drops the JoinSet, which aborts what is   *)
(* still running.                                                          *)

Stop ==
    /\ pc' = "stopped"
    /\ shutdown' = TRUE
    /\ hb' = "done"
    /\ UNCHANGED <<state, graceOver>>
    /\ UNCHANGED <<mainVars, poolVars>>

\* Mutant: having no ended task to reap is taken for having no active job.
DrainDoneEarly ==
    /\ pc = "drain"
    /\ activeCount = 0 \/ finished = 0
    /\ Stop

DrainDone ==
    /\ pc = "drain"
    /\ activeCount = 0
    /\ Stop

\* Mutant: the drain goes on waiting after the grace period.
DrainExpiredWaits ==
    /\ pc = "drain"
    /\ activeCount # 0
    /\ graceOver
    /\ pc' = "drainWait"
    /\ UNCHANGED <<state, shutdown, graceOver>>
    /\ UNCHANGED <<mainVars, poolVars, hbVars>>

DrainExpired ==
    /\ pc = "drain"
    /\ activeCount # 0
    /\ graceOver
    /\ Stop

DrainWaits ==
    /\ pc = "drain"
    /\ activeCount # 0
    /\ ~graceOver
    /\ pc' = "drainWait"
    /\ UNCHANGED <<state, shutdown, graceOver>>
    /\ UNCHANGED <<mainVars, poolVars, hbVars>>

\* join_next() delivers an ended task.
DrainReaps ==
    /\ pc = "drainWait"
    /\ finished > 0
    /\ finished' = finished - 1
    /\ pc' = "drain"
    /\ UNCHANGED <<state, shutdown, graceOver>>
    /\ UNCHANGED <<permits, activeCount, activeJobs, task, job, panics>>
    /\ UNCHANGED <<mainVars, hbVars>>

\* 100 ms pass, or join_next() returns None at once because the set is empty.
DrainPolls ==
    /\ pc = "drainWait"
    /\ pc' = "drain"
    /\ UNCHANGED <<state, shutdown, graceOver>>
    /\ UNCHANGED <<mainVars, poolVars, hbVars>>

\* Time passes the deadline set when the drain began (external).
GraceExpires ==
    /\ Draining
    /\ ~graceOver
    /\ graceOver' = TRUE
    /\ UNCHANGED <<state, shutdown, pc>>
    /\ UNCHANGED <<mainVars, poolVars, hbVars>>

\* The future of start() is gone: its locals go (a permit in hand returns, the
\* rest of the batch is forgotten), the JoinSet aborts its tasks, and the
\* heartbeat loop is merely detached.
Abandon ==
    /\ permits' = IF pc = "insert" THEN permits + 1 ELSE permits
    /\ pc' = "cancelled"
    /\ batch' = <<>>
    /\ fetchCount' = 0
    /\ UNCHANGED <<state, shutdown, graceOver, activeCount, activeJobs, finished>>
    /\ UNCHANGED <<task, job, panics, hbVars>>

\* The caller drops it at one of its awaits.
Cancel ==
    /\ Cancellable
    /\ pc \in {"idle", "idleErr", "fetch", "acquire", "insert", "drainWait"}
    /\ Abandon

\* The error reply of a fetch has a Retry-After that is no duration, and the
\* transport panics inside start() (HttpTransport!ReplyBadRetryAfter).
FetchPanics ==
    /\ BadReplies
    /\ pc = "fetch"
    /\ Abandon

-----------------------------------------------------------------------------
(* A spawned task, lines 589-603 and process_job. *)

\* What a step of one task leaves alone.
TaskFrame == UNCHANGED <<state, shutdown, pc, graceOver, mainVars, hbVars>>

Goto(t, from, to) ==
    /\ task[t] = from
    /\ task' = [task EXCEPT ![t] = to]

\* The task is gone and its permit is back.
Leave(t) ==
    /\ task' = [task EXCEPT ![t] = "idle"]
    /\ job' = [job EXCEPT ![t] = NoJob]
    /\ permits' = permits + 1

HandlerFound(t) ==
    /\ Goto(t, "lookup", "handler")
    /\ UNCHANGED <<permits, activeCount, activeJobs, finished, job, panics>>
    /\ TaskFrame

\* Mutant: the early return for a missing handler skips the cleanup's count.
MissingSkipsCount(t) ==
    /\ Goto(t, "lookup", "untrack")
    /\ UNCHANGED <<permits, activeCount, activeJobs, finished, job, panics>>
    /\ TaskFrame

\* No handler is registered for the job's type: a final nack is sent.
HandlerMissing(t) ==
    /\ Goto(t, "lookup", "report")
    /\ UNCHANGED <<permits, activeCount, activeJobs, finished, job, panics>>
    /\ TaskFrame

\* The wrapped handler returns: an ack for Ok, a nack for Err.
HandlerReturns(t) ==
    /\ Goto(t, "handler", "report")
    /\ UNCHANGED <<permits, activeCount, activeJobs, finished, job, panics>>
    /\ TaskFrame

\* Mutant: the permit of a panicking task is lost.
UnwindKeepsPermit(t) ==
    /\ panics < MaxPanics
    /\ task' = [task EXCEPT ![t] = "idle"]
    /\ job' = [job EXCEPT ![t] = NoJob]
    /\ finished' = finished + 1
    /\ panics' = panics + 1
    /\ UNCHANGED <<permits, activeCount, activeJobs>>
    /\ TaskFrame

\* A panic inside process_job: unwinding drops the permit, and the cleanup
\* behind process_job is not reached.
Unwind(t) ==
    /\ panics < MaxPanics
    /\ Leave(t)
    /\ finished' = finished + 1
    /\ panics' = panics + 1
    /\ UNCHANGED <<activeCount, activeJobs>>
    /\ TaskFrame

\* The handler or a middleware panics.
HandlerPanics(t) == task[t] = "handler" /\ Unwind(t)

\* The error reply of an ack or a nack has a Retry-After that is no duration.
ReportPanics(t) == BadReplies /\ task[t] = "report" /\ Unwind(t)

TaskPanics(t) == HandlerPanics(t) \/ ReportPanics(t)

\* The ack or nack request ends; an error of it is dropped with the result.
Reported(t) ==
    /\ Goto(t, "report", "count")
    /\ UNCHANGED <<permits, activeCount, activeJobs, finished, job, panics>>
    /\ TaskFrame

\* active_count.fetch_sub
CountDown(t) ==
    /\ Goto(t, "count", "untrack")
    /\ activeCount' = activeCount - 1
    /\ UNCHANGED <<permits, activeJobs, finished, job, panics>>
    /\ TaskFrame

\* Mutant: the id stays listed.
UntrackForgets(t) ==
    /\ Goto(t, "untrack", "release")
    /\ UNCHANGED <<permits, activeCount, activeJobs, finished, job, panics>>
    /\ TaskFrame

\* active_jobs.write().await.remove
Untrack(t) ==
    /\ Goto(t, "untrack", "release")
    /\ activeJobs' = activeJobs \ {job[t]}
    /\ UNCHANGED <<permits, activeCount, finished, job, panics>>
    /\ TaskFrame

\* drop(permit), and the task ends.
Release(t) ==
    /\ task[t] = "release"
    /\ Leave(t)
    /\ finished' = finished + 1
    /\ UNCHANGED <<activeCount, activeJobs, panics>>
    /\ TaskFrame

\* The JoinSet has been dropped: a task that reaches an await is dropped there,
\* in the handler, in a request, or before it takes a lock.
TaskAborted(t) ==
    /\ Over
    /\ task[t] \in {"lookup", "handler", "report", "untrack"}
    /\ Leave(t)
    /\ UNCHANGED <<activeCount, activeJobs, finished, panics>>
    /\ TaskFrame

-----------------------------------------------------------------------------
(* The ctrl-c task and the heartbeat loop. *)

CtrlC ==
    /\ ~shutdown
    /\ shutdown' = TRUE
    /\ UNCHANGED <<state, pc, graceOver>>
    /\ UNCHANGED <<mainVars, poolVars, hbVars>>

\* The interval ticks and a heartbeat with a copy of active_jobs goes out.
HeartbeatTick ==
    /\ hb = "wait"
    /\ hb' = "post"
    /\ UNCHANGED <<state, shutdown, pc, graceOver>>
    /\ UNCHANGED <<mainVars, poolVars>>

\* The reply's directive is stored whatever the state is by then.
HeartbeatReply(directive) ==
    /\ hb = "post"
    /\ hb' = "wait"
    /\ state' = CASE directive = "quiet"     -> "Quiet"
                  [] directive = "terminate" -> "Terminate"
                  [] OTHER                   -> state
    /\ UNCHANGED <<shutdown, pc, graceOver>>
    /\ UNCHANGED <<mainVars, poolVars>>

HeartbeatFails ==
    /\ hb = "post"
    /\ hb' = "wait"
    /\ UNCHANGED <<state, shutdown, pc, graceOver>>
    /\ UNCHANGED <<mainVars, poolVars>>

\* The error reply of a heartbeat has a Retry-After that is no duration: the
\* panic ends the loop, which nobody joins.
HeartbeatPanics ==
    /\ BadReplies
    /\ hb = "post"
    /\ hb' = "done"
    /\ UNCHANGED <<state, shutdown, pc, graceOver>>
    /\ UNCHANGED <<mainVars, poolVars>>

HeartbeatSeesShutdown ==
    /\ hb = "wait"
    /\ shutdown
    /\ hb' = "done"
    /\ UNCHANGED <<state, shutdown, pc, graceOver>>
    /\ UNCHANGED <<mainVars, poolVars>>

-----------------------------------------------------------------------------

FetchStep ==
    \/ \E reply \in Replies : FetchOk(reply)
    \/ FetchEmpty
    \/ FetchErr
    \/ FetchPanics

MainStep ==
    \/ SeeShutdown
    \/ NoShutdownYet
    \/ ReadState
    \/ ReadCapacity
    \/ PollElapsed
    \/ IdleSeesShutdown
    \/ FetchStep
    \/ Acquire
    \/ \E t \in Tasks : Spawn(t)
    \/ BatchDone
    \/ Reap
    \/ DrainDone
    \/ DrainExpired
    \/ DrainWaits
    \/ DrainReaps
    \/ DrainPolls

\* The steps of a task that need nothing from user code.
TaskStep(t) ==
    \/ HandlerFound(t)
    \/ HandlerMissing(t)
    \/ Reported(t)
    \/ CountDown(t)
    \/ Untrack(t)
    \/ Release(t)
    \/ TaskAborted(t)

HeartbeatStep ==
    \/ HeartbeatTick
    \/ \E directive \in Directives : HeartbeatReply(directive)
    \/ HeartbeatFails
    \/ HeartbeatPanics
    \/ HeartbeatSeesShutdown

\* start() is over and nothing it spawned is left.
Terminated ==
    /\ Over
    /\ hb = "done"
    /\ TasksAt(Holding) = {}
    /\ UNCHANGED vars

Next ==
    \/ MainStep
    \/ GraceExpires
    \/ Cancel
    \/ \E t \in Tasks : TaskStep(t)
    \/ \E t \in Tasks : HandlerReturns(t)
    \/ \E t \in Tasks : TaskPanics(t)
    \/ CtrlC
    \/ HeartbeatStep
    \/ Terminated

Spec == Init /\ [][Next]_vars

\* What tokio and the HTTP client's timeout guarantee: a runnable task runs,
\* timers fire, requests end.  Nothing is assumed of handlers, of the user
\* (ctrl-c, dropping the future) or of the server's directives.
Fairness ==
    /\ WF_vars(MainStep)
    /\ WF_vars(GraceExpires)
    /\ \A t \in Tasks : WF_vars(TaskStep(t))

FairSpec == Spec /\ Fairness

\* The further assumption that every handler returns or panics.
HandlersReturn == \A t \in Tasks : WF_vars(HandlerReturns(t) \/ HandlerPanics(t))
-----------------------------------------------------------------------------
(* Safety *)

\* Every variable stays in its range.  active_count is an AtomicI64 that the
\* fetch loop reads `as usize`: below zero it would stop all fetching.
TypeOK ==
    /\ state \in {"Running", "Quiet", "Terminate"}
    /\ shutdown \in BOOLEAN
    /\ pc \in {"top", "state", "capacity", "idle", "idleErr", "fetch", "acquire",
              "insert", "reap", "drain", "drainWait", "stopped", "cancelled"}
    /\ fetchCount \in Nat
    /\ batch \in Seq(Jobs)
    /\ permits \in Nat
    /\ activeCount \in Nat
    /\ activeJobs \subseteq Jobs
    /\ finished \in Nat
    /\ graceOver \in BOOLEAN
    /\ task \in [Tasks -> Points]
    /\ job \in [Tasks -> Jobs \cup {NoJob}]
    /\ hb \in {"wait", "post", "done"}
    /\ panics \in Nat

\* The permit and the count that the dispatch loop holds between taking them
\* and spawning the task that will give them back.
InHand == IF pc = "insert" THEN 1 ELSE 0

\* No permit is lost or returned twice, whatever panics, is aborted or is
\* dropped on the way: those free, those the tasks own and the one in the
\* dispatch loop's hand always make up the configured concurrency.
PermitsConserved ==
    permits + Cardinality(TasksAt(Holding)) + InHand = Concurrency

\* At most `concurrency` jobs are in the hands of user code or on their way to
\* being reported, even when the server returns more jobs than were asked for.
ConcurrencyRespected == Cardinality(TasksAt(Counted)) <= Concurrency

\* While start() runs, active_count exceeds the jobs really in progress by
\* exactly the tasks that have panicked, in a handler, in a middleware or in
\* the transport while reporting: no other path leaks or loses one.
CountAccurate ==
    ~Over => activeCount = Cardinality(TasksAt(Counted)) + InHand + panics

\* The JoinSet is reaped often enough: it never holds more than two rounds of
\* tasks, although the `continue` of every idle branch skips the reaping.
JoinSetBounded ==
    finished + Cardinality(TasksAt(Holding)) + Len(batch) <= 2 * Concurrency + Overfill

\* As long as no job is handed out again before its task is done with it and
\* no task has panicked, the heartbeat's view of the active jobs is exact:
\* a job in progress is listed, and a listed job is in progress.
TrackingExact ==
    (RedeliverAt \cap Tracked = {} /\ panics = 0 /\ ~Over) =>
        activeJobs = {job[t] : t \in TasksAt(Tracked)}

\* The dispatch loop does not watch the shutdown channel while it waits for a
\* permit.  It may wait only for a task that is past its handler and its
\* report and is about to drop its permit, never for user code.
DispatchWaitsOnlyForCleanup ==
    (Overfill = 0 /\ pc = "acquire" /\ batch # <<>> /\ permits = 0) =>
        TasksAt({"untrack", "release"}) # {}

-----------------------------------------------------------------------------
(* Refinement *)

\* The jobs in progress are the running tasks of the abstract pool.
Pool == INSTANCE GracefulPool WITH
    Size    <- Concurrency,
    running <- TasksAt(Counted),
    phase   <- IF Over THEN "closed" ELSE IF Draining THEN "closing" ELSE "open",
    expired <- graceOver

\* start() is a graceful pool: it never runs more than `concurrency` jobs,
\* starts none once it has left the fetch loop, and returns only with every
\* job ended or the grace period over.
GracefulShutdown == Pool!Spec

\* A job that is being worked on or reported is dropped only after the grace
\* period, however start() ends ("via signal or context cancellation").
JobsDroppedOnlyAfterGrace ==
    [][\A t \in Tasks :
          task[t] \in Counted /\ task'[t] = "idle" =>
              graceOver \/ panics' = panics + 1]_vars

-----------------------------------------------------------------------------
(* The state the worker reports, and what must eventually happen *)

\* When start() stops because of ctrl-c, state() says so: from the moment it
\* leaves the fetch loop the worker is in Terminate.
StoppingIsTerminate == Draining \/ pc = "stopped" => state = "Terminate"

\* ctrl-c ends start(), even if every handler hangs for ever.
ShutdownStops == shutdown ~> (pc = "stopped")

\* A terminate directive that no later directive overwrites ends start().
LastingTerminateStops == <>[](state = "Terminate") => <>(pc = "stopped")

\* A terminate directive ends start().
TerminateStops == (state = "Terminate") ~> (pc = "stopped")

\* In quiet mode the worker stops asking for jobs: a request already decided
\* on may still go out, but from some point on there are none.
QuietStopsFetching ==
    <>[](state = "Quiet") => <>[](pc \notin {"fetch", "acquire", "insert"})

\* A running worker whose handlers all return or panic keeps fetching.
RunningFetches ==
    HandlersReturn => []<>(pc = "fetch" \/ state # "Running" \/ shutdown \/ Draining \/ Over)
=============================================================================
