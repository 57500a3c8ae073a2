----------------------------- MODULE JobService -----------------------------
(***************************************************************************)
(* A Worker and the server it works for: the part of the job protocol      *)
(* that src/src/worker.rs relies on.  Fetching leases jobs to the worker;  *)
(* a lease lasts for Beats heartbeat intervals after it was granted or     *)
(* last renewed by a heartbeat that lists the job; a job whose lease has   *)
(* ended is handed out again.  An ack or a nack names a job and nothing    *)
(* else, so the server cannot tell whose run of the job it ends.           *)
(*                                                                         *)
(* Time passes in heartbeat intervals, at any moment: while requests and   *)
(* replies are on their way, and while a batch is handed out.  That they   *)
(* take no longer than Slow intervals is not built in: the history         *)
(* variable slow records when the heartbeat loop or a dispatch has.        *)
(*                                                                         *)
(* Every step of Worker is a step here, with its effect on the messages    *)
(* and the server; the server's own steps are external.  Requests and      *)
(* replies may be lost, repeated or late, MaxLost times in all.            *)
(***************************************************************************)
EXTENDS Worker

CONSTANTS
    Beats,          \* the length of a lease in heartbeat intervals
    Slow,           \* how many intervals requests and dispatch take, unless recorded as slow
    MaxBurst,       \* bound on the ticks that the heartbeat loop has not seen yet
    MaxLost         \* bound on the disturbances: messages lost or repeated, and slowness

\* It is the leases that decide when a job is handed out again.
ASSUME LeasesDecide == RedeliverAt = Holding
ASSUME SlowAssumption == Slow \in Nat \ {0}
ASSUME MaxBurstAssumption == MaxBurst \in Nat /\ MaxBurst >= Slow
ASSUME BeatsAssumption == Beats \in Nat \ {0}
ASSUME MaxLostAssumption == MaxLost \in Nat

\* What process_job sends: ack_job, or nack_job with retryable or without.
Reports == {"ack", "retry", "final"}

VARIABLES
    server,         \* server[j]: "available", "leased", "backoff", "completed", "discarded"
    missed,         \* missed[j]: intervals since the lease was granted or renewed
    granted,        \* the reply of a fetch on its way, or <<>>
    due,            \* ticks of the interval that the heartbeat loop has not seen
    listed,         \* the active_jobs of the last heartbeat until the server has it
    sent,           \* sent[t]: the report of task t on its way, or "none"
    late,           \* reports on their way that no task waits for any more
    lost,           \* how many messages were lost or repeated
    succeeded,      \* jobs for which some handler has returned Ok
    early,          \* jobs handed out again before their last task had untracked them
    slow            \* history: a heartbeat or a dispatch has taken longer than that

beatVars    == <<due, listed>>
reportVars  == <<sent, late, succeeded>>
serviceVars == <<server, missed, granted, beatVars, reportVars, lost, early, slow>>
allVars     == <<vars, serviceVars>>

ServiceInit ==
    /\ Init
    /\ server = [j \in Jobs |-> "available"]
    /\ missed = [j \in Jobs |-> 0]
    /\ granted = <<>>
    /\ due = 0
    /\ listed = {}
    /\ sent = [t \in Tasks |-> "none"]
    /\ late = {}
    /\ lost = 0
    /\ succeeded = {}
    /\ early = {}
    /\ slow = FALSE

\* The bound leaves room for one more disturbance; slowness counts as one.
Spare == lost + (IF slow THEN 1 ELSE 0) < MaxLost

Lose ==
    /\ Spare
    /\ lost' = lost + 1

-----------------------------------------------------------------------------
(* Fetching *)

JobsOf(reply) == {reply[i] : i \in DOMAIN reply}

\* The leased jobs that are on their way to a task.
Coming == JobsOf(granted) \cup JobsOf(batch)

\* A task's step between the arrival of its report and the removal of its id.
Finishing == {"report", "count", "untrack"}

\* The server leases the jobs of a reply (external).
Lease(reply) ==
    /\ \A j \in JobsOf(reply) : server[j] = "available"
    /\ server' = [j \in Jobs |-> IF j \in JobsOf(reply) THEN "leased" ELSE server[j]]
    /\ missed' = [j \in Jobs |-> IF j \in JobsOf(reply) THEN 0 ELSE missed[j]]

\* The fetch request arrives, and the reply sets out.
FetchGranted(reply) ==
    /\ pc = "fetch"
    /\ granted = <<>>
    /\ Offered(reply)
    /\ Lease(reply)
    /\ granted' = reply
    /\ early' = early \cup {j \in JobsOf(reply) :
                              \E t \in TasksAt(Finishing) : job[t] = j}
    /\ UNCHANGED <<vars, beatVars, reportVars, lost, slow>>

FetchDelivered(reply) ==
    /\ granted = reply
    /\ FetchOk(reply)
    /\ granted' = <<>>
    /\ UNCHANGED <<server, missed, beatVars, reportVars, lost, early, slow>>

\* The worker never learns of the jobs that the server has leased to it.
ReplyLost ==
    /\ granted # <<>>
    /\ Lose
    /\ granted' = <<>>
    /\ UNCHANGED <<server, missed, beatVars, reportVars, early, slow>>

\* Either the fetch fails, or the transport repeats it after a gateway error.
FetchReplyLost == FetchErr /\ ReplyLost
FetchRepeated == pc = "fetch" /\ ReplyLost /\ UNCHANGED vars

FetchFutile ==
    /\ granted = <<>>
    /\ FetchEmpty \/ FetchErr
    /\ UNCHANGED serviceVars

\* start() between its fetches.
StartStep ==
    /\ pc # "fetch"
    /\ MainStep
    /\ UNCHANGED serviceVars

\* The future of start() is gone, and with it a reply on its way.
Abandoned ==
    /\ Cancel \/ FetchPanics
    /\ granted' = <<>>
    /\ UNCHANGED <<server, missed, beatVars, reportVars, lost, early, slow>>

-----------------------------------------------------------------------------
(* Working and reporting *)

Send(t, report) ==
    /\ sent' = [sent EXCEPT ![t] = report]
    /\ UNCHANGED <<server, missed, granted, beatVars, late, lost, early, slow>>

\* Mutant: a job without a handler is acked.
AckMissing(t) ==
    /\ HandlerMissing(t)
    /\ Send(t, "ack")
    /\ UNCHANGED succeeded

NackMissing(t) ==
    /\ HandlerMissing(t)
    /\ Send(t, "final")
    /\ UNCHANGED succeeded

\* Mutant: a result of null is not acked.
ReturnsNullUnsent(t, report) ==
    /\ HandlerReturns(t)
    /\ Send(t, IF report = "ack" THEN "none" ELSE report)
    /\ succeeded' = IF report = "ack" THEN succeeded \cup {job[t]} ELSE succeeded

\* Ok is acked; of the errors only NonRetryable is final.
Returns(t, report) ==
    /\ HandlerReturns(t)
    /\ Send(t, report)
    /\ succeeded' = IF report = "ack" THEN succeeded \cup {job[t]} ELSE succeeded

\* JobContext::heartbeat renews the lease of the one job; the directive in
\* its reply is ignored.
ContextHeartbeat(t) ==
    /\ task[t] = "handler"
    /\ server[job[t]] = "leased"
    /\ missed[job[t]] > 0
    /\ missed' = [missed EXCEPT ![job[t]] = 0]
    /\ UNCHANGED <<vars, server, granted, beatVars, reportVars, lost, early, slow>>

\* The server ends the lease of the job a report names, whichever run of it
\* the report is from, and refuses a report on any other job (external).
Apply(j, report) ==
    /\ server' = IF server[j] # "leased" THEN server
                 ELSE [server EXCEPT ![j] = CASE report = "ack"   -> "completed"
                                              [] report = "retry" -> "backoff"
                                              [] report = "final" -> "discarded"]
    /\ UNCHANGED <<vars, missed, granted, beatVars, succeeded, early, slow>>

ReportArrives(t) ==
    /\ sent[t] # "none"
    /\ Apply(job[t], sent[t])
    /\ sent' = [sent EXCEPT ![t] = "none"]
    /\ UNCHANGED <<late, lost>>

\* The transport repeats the request after a gateway error: it arrives, and
\* will arrive once more.
ReportRepeated(t) ==
    /\ sent[t] # "none"
    /\ Apply(job[t], sent[t])
    /\ Lose
    /\ sent' = [sent EXCEPT ![t] = "none"]
    /\ late' = late \cup {<<job[t], sent[t]>>}

LateArrives(j, report) ==
    /\ <<j, report>> \in late
    /\ Apply(j, report)
    /\ late' = late \ {<<j, report>>}
    /\ UNCHANGED <<sent, lost>>

LateVanishes(j, report) ==
    /\ <<j, report>> \in late
    /\ late' = late \ {<<j, report>>}
    /\ UNCHANGED <<vars, server, missed, granted, beatVars, sent, lost, succeeded, early, slow>>

ReportAnswered(t) ==
    /\ Reported(t)
    /\ sent[t] = "none"
    /\ UNCHANGED serviceVars

\* Nobody waits for the report of task t any more: it never arrives, or it
\* arrives later.
Detach(t) ==
    /\ sent' = [sent EXCEPT ![t] = "none"]
    /\ \/ late' = late
       \/ late' = late \cup {<<job[t], sent[t]>>}
    /\ Lose
    /\ UNCHANGED <<server, missed, granted, beatVars, succeeded, early, slow>>

\* The request fails; process_job returns the error and nobody reads it.
ReportFails(t) ==
    /\ Reported(t)
    /\ sent[t] # "none"
    /\ Detach(t)

\* The task is aborted, with the request in flight or without one.
AbortedReporting(t) ==
    /\ TaskAborted(t)
    /\ sent[t] # "none"
    /\ Detach(t)

Aborted(t) ==
    /\ TaskAborted(t)
    /\ sent' = [sent EXCEPT ![t] = "none"]
    /\ UNCHANGED <<server, missed, granted, beatVars, late, lost, succeeded, early, slow>>

\* The transport panics on an error reply, the report having arrived or not.
ReportPanicked(t) ==
    /\ ReportPanics(t)
    /\ IF sent[t] = "none" THEN UNCHANGED serviceVars ELSE Detach(t)

LocalTaskStep(t) ==
    /\ \/ HandlerFound(t)
       \/ CountDown(t)
       \/ Untrack(t)
       \/ Release(t)
       \/ HandlerPanics(t)
    /\ UNCHANGED serviceVars

-----------------------------------------------------------------------------
(* Heartbeats and leases *)

Bump(n, max) == IF n < max THEN n + 1 ELSE n

\* The heartbeat loop is Slow ticks behind, or a leased job has been on its way
\* to its task for Slow intervals.
Overdue ==
    \/ hb # "done" /\ due >= Slow
    \/ \E j \in Coming : missed[j] >= Slow

\* An interval passes (external): leases get older, and the interval ticks,
\* whether the heartbeat loop waits for it or for an answer.
Tick ==
    /\ missed' = [j \in Jobs |-> IF server[j] = "leased" THEN Bump(missed[j], Beats)
                                                         ELSE missed[j]]
    /\ due' = Bump(due, MaxBurst)
    /\ Overdue => slow \/ Spare
    /\ slow' = (slow \/ Overdue)
    /\ UNCHANGED <<vars, server, granted, listed, reportVars, lost, early>>

\* Mutant: the heartbeat does not list the active jobs.
BeatListsNothing ==
    /\ due > 0
    /\ HeartbeatTick
    /\ due' = due - 1
    /\ listed' = {}
    /\ UNCHANGED <<server, missed, granted, reportVars, lost, early, slow>>

\* The loop sees a tick, the next one at once if it was late for it
\* (MissedTickBehavior::Burst), and sends a heartbeat with the active jobs.
Beat ==
    /\ due > 0
    /\ HeartbeatTick
    /\ due' = due - 1
    /\ listed' = activeJobs
    /\ UNCHANGED <<server, missed, granted, reportVars, lost, early, slow>>

\* The heartbeat arrives, even if nobody waits for it any more, and the server
\* renews the leases of the jobs it lists (external).
HeartbeatArrives ==
    /\ listed # {}
    /\ missed' = [j \in Jobs |-> IF j \in listed THEN 0 ELSE missed[j]]
    /\ listed' = {}
    /\ UNCHANGED <<vars, server, granted, due, reportVars, lost, early, slow>>

\* The answer to a heartbeat that has arrived comes back.
HeartbeatAnswered(directive) ==
    /\ listed = {}
    /\ HeartbeatReply(directive)
    /\ UNCHANGED <<server, missed, granted, due, listed, reportVars, lost, early, slow>>

\* The request fails; it may have been lost, or may still arrive.
HeartbeatLost ==
    /\ HeartbeatFails
    /\ Lose
    /\ listed' \in {listed, {}}
    /\ UNCHANGED <<server, missed, granted, due, reportVars, early, slow>>

HeartbeatBroken ==
    /\ HeartbeatPanics
    /\ UNCHANGED <<server, missed, granted, due, listed, reportVars, lost, early, slow>>

HeartbeatEnds ==
    /\ HeartbeatSeesShutdown
    /\ UNCHANGED serviceVars

\* The server makes job j available again.
Free(j) ==
    /\ server' = [server EXCEPT ![j] = "available"]
    /\ missed' = [missed EXCEPT ![j] = 0]
    /\ UNCHANGED <<vars, granted, beatVars, reportVars, lost, early, slow>>

\* The lease ends (external).
LeaseExpires(j) ==
    /\ server[j] = "leased"
    /\ missed[j] = Beats
    /\ Free(j)

\* The server's retry delay is over (external).
BackoffEnds(j) ==
    /\ server[j] = "backoff"
    /\ Free(j)

-----------------------------------------------------------------------------

\* Steps that concern nobody but the worker, the user and the caller.
Elsewhere ==
    /\ GraceExpires \/ CtrlC \/ Terminated
    /\ UNCHANGED serviceVars

ServiceMainStep ==
    \/ StartStep
    \/ \E reply \in Replies : FetchDelivered(reply)
    \/ FetchReplyLost
    \/ FetchFutile

ServiceTaskStep(t) ==
    \/ NackMissing(t)
    \/ ReportAnswered(t)
    \/ ReportFails(t)
    \/ AbortedReporting(t)
    \/ Aborted(t)
    \/ LocalTaskStep(t)

HeartbeatPost ==
    \/ HeartbeatArrives
    \/ \E directive \in Directives : HeartbeatAnswered(directive)
    \/ HeartbeatLost

ServiceNext ==
    \/ ServiceMainStep
    \/ \E reply \in Replies : FetchGranted(reply)
    \/ FetchRepeated
    \/ Abandoned
    \/ Elsewhere
    \/ \E t \in Tasks : ServiceTaskStep(t)
    \/ \E t \in Tasks, report \in Reports : Returns(t, report)
    \/ \E t \in Tasks : ReportPanicked(t)
    \/ \E t \in Tasks : ContextHeartbeat(t)
    \/ \E t \in Tasks : ReportArrives(t) \/ ReportRepeated(t)
    \/ \E j \in Jobs, report \in Reports : LateArrives(j, report) \/ LateVanishes(j, report)
    \/ Tick
    \/ Beat
    \/ HeartbeatPost
    \/ HeartbeatBroken
    \/ HeartbeatEnds
    \/ \E j \in Jobs : LeaseExpires(j) \/ BackoffEnds(j)

ServiceSpec == ServiceInit /\ [][ServiceNext]_allVars

\* Worker's fairness, and: time passes, the heartbeat loop sees its ticks, heartbeats
\* and reports arrive or fail, and the server ends what has run out.
ServiceFairness ==
    /\ WF_allVars(ServiceMainStep)
    /\ \A t \in Tasks : WF_allVars(ServiceTaskStep(t)) /\ WF_allVars(ReportArrives(t))
    /\ WF_allVars(Tick)
    /\ WF_allVars(Beat)
    /\ WF_allVars(HeartbeatPost)
    /\ \A j \in Jobs : WF_allVars(LeaseExpires(j))

FairServiceSpec == ServiceSpec /\ ServiceFairness
-----------------------------------------------------------------------------
(* Properties *)

ServiceTypeOK ==
    /\ TypeOK
    /\ server \in [Jobs -> {"available", "leased", "backoff", "completed", "discarded"}]
    /\ missed \in [Jobs -> 0..Beats]
    /\ granted # <<>> => pc = "fetch" /\ granted \in Replies
    /\ due \in 0..MaxBurst
    /\ listed \subseteq Jobs
    /\ sent \in [Tasks -> Reports \cup {"none"}]
    /\ \A t \in Tasks : sent[t] # "none" => task[t] = "report"
    /\ late \subseteq Jobs \X Reports
    /\ lost \in 0..MaxLost
    /\ succeeded \subseteq Jobs
    /\ early \subseteq Jobs
    /\ slow \in BOOLEAN

\* The server counts a job as completed only if a handler has returned Ok for
\* it, however late, repeated or mixed up with another run the ack arrived.
CompletedMeansSucceeded ==
    \A j \in Jobs : server[j] = "completed" => j \in succeeded

\* Nothing has gone wrong with job j that the worker is not answerable for:
\* no message was lost or slow, the heartbeat loop runs, and the server has not
\* been quicker to hand j out again than the worker to clean up after it.
Undisturbed(j) ==
    lost = 0 /\ ~slow /\ hb # "done" /\ panics = 0 /\ ~Over /\ j \notin early

\* An undisturbed job keeps its lease for as long as its handler runs, however
\* long that is, if a lease outlasts the fetch that brings it, the heartbeat that
\* misses it and the one that lists it (Beats > 2 * Slow + 1).
LeaseHeldWhileRunning ==
    \A t \in TasksAt({"lookup", "handler"}) :
        Undisturbed(job[t]) => server[job[t]] = "leased"

\* Two tasks never run the same undisturbed job at the same time.
NoConcurrentRuns ==
    \A t, u \in TasksAt({"lookup", "handler"}) :
        (t # u /\ job[t] = job[u]) => ~Undisturbed(job[t])

\* The server waits for a job that nobody works on or is about to.
Orphan(j) ==
    /\ server[j] = "leased"
    /\ j \notin Coming
    /\ \A t \in TasksAt(Holding) : job[t] # j

\* The worker never keeps such a job from being handed out again: what it has
\* finished with, given up or never received is not listed for ever.
OrphanFreed == \A j \in Jobs : Orphan(j) ~> ~Orphan(j)

\* The success of an undisturbed job is recorded by the server.
SuccessRecorded ==
    \A j \in Jobs :
        (j \in succeeded) ~> (server[j] = "completed" \/ ~Undisturbed(j))
=============================================================================
