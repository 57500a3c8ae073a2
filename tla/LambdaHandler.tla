---------------------------- MODULE LambdaHandler ----------------------------
(***************************************************************************)
(* serverless::LambdaHandler (src/src/serverless/aws_lambda.rs): batches   *)
(* of SQS records, HTTP push deliveries and direct invocations, dispatched *)
(* to the registered handlers by invocations that run concurrently.        *)
(*                                                                         *)
(* External: who delivers.  SQS hands out visible messages in batches,     *)
(* makes one visible again when its visibility timeout passes while it is  *)
(* still worked on, after a response deletes what is not named as failed,  *)
(* and returns the whole batch of an invocation that dies.  The OJS server *)
(* repeats a push until it is completed or failed for good.                *)
(***************************************************************************)
EXTENDS Naturals, Sequences, FiniteSets, SequencesExt

CONSTANTS
    Records,        \* SQS messages
    Pushes,         \* jobs delivered by HTTP push
    Directs,        \* jobs that a caller passes in itself
    Type,           \* Type[d]: the job type in the body of d, or Garbage
    Garbage,        \* a body that does not deserialize
    Good,           \* deliveries whose handler always returns Ok
    Invocations,    \* invocations that may run at the same time
    MaxBatch,       \* SQS batch size
    MaxDeaths       \* bound on invocations that die and on visibility timeouts

Deliveries == Records \cup Pushes \cup Directs

Types == {Type[d] : d \in Deliveries} \ {Garbage}

\* A delivery comes by one trigger.
ASSUME TriggersAssumption == Records \cap (Pushes \cup Directs) = {}
ASSUME MaxBatchAssumption == MaxBatch \in Nat
ASSUME BodiesAssumption == DOMAIN Type = Deliveries
ASSUME DirectsAssumption == \A d \in Directs : Type[d] # Garbage

VARIABLES
    handlers,       \* LambdaHandler.handlers: the types that have one
    place,          \* place[d]: "waiting", "flying" or how it ended
    inv,            \* inv[i]: the batch, the record it is at, its failures, its pc
    done,           \* deliveries whose handler has returned Ok
    deaths

vars == <<handlers, place, inv, done, deaths>>

\* The state of one handle_sqs, handle_http or handle_direct; error is what
\* process_job returned last.
Idle == [pc |-> "idle", batch |-> <<>>, at |-> 1, failures |-> {}, error |-> "Ok"]

Init ==
    /\ handlers = {}
    /\ place = [d \in Deliveries |-> "waiting"]
    /\ inv = [i \in Invocations |-> Idle]
    /\ done = {}
    /\ deaths = 0

\* register and register_async; the lock is free whenever a handler runs.
Register(type) ==
    /\ type \notin handlers
    /\ handlers' = handlers \cup {type}
    /\ UNCHANGED <<place, inv, done, deaths>>

\* An event arrives: an SqsEvent of waiting records, or one PushDeliveryRequest
\* or JobEvent.
Batches ==
    {b \in SeqOf(Records, MaxBatch) : b # <<>> /\ IsInjective(b)}
        \cup {<<d>> : d \in Pushes \cup Directs}

Invoke(i, batch) ==
    /\ inv[i].pc = "idle"
    /\ \A k \in DOMAIN batch : place[batch[k]] = "waiting"
    /\ inv' = [inv EXCEPT ![i] = [Idle EXCEPT !.pc = "next", !.batch = batch]]
    /\ place' = [d \in Deliveries |-> IF d \in ToSet(batch) THEN "flying" ELSE place[d]]
    /\ UNCHANGED <<handlers, done, deaths>>

-----------------------------------------------------------------------------
(* handle_sqs: one record after the other.  handle_http and handle_direct    *)
(* are the same loop over one.                                               *)

Current(i) == inv[i].batch[inv[i].at]

AtRecord(i) == inv[i].pc = "next" /\ inv[i].at <= Len(inv[i].batch)

\* The record is over: a failure of any kind is named in the response.
Settle(i, error) ==
    LET state == inv[i]
    IN inv' = [inv EXCEPT ![i] = [state EXCEPT
                  !.pc = "next", !.at = state.at + 1, !.error = error,
                  !.failures = IF error = "Ok" THEN state.failures
                                               ELSE state.failures \cup {Current(i)}]]

\* Mutant: a body that does not parse is skipped.
ParseFailsSkips(i) ==
    /\ AtRecord(i)
    /\ Type[Current(i)] = Garbage
    /\ inv' = [inv EXCEPT ![i].at = @ + 1]
    /\ UNCHANGED <<handlers, place, done, deaths>>

ParseFails(i) ==
    /\ AtRecord(i)
    /\ Type[Current(i)] = Garbage
    /\ Settle(i, "Deserialization")
    /\ UNCHANGED <<handlers, place, done, deaths>>

\* process_job: the handler is looked up under the read lock.
NoHandler(i) ==
    /\ AtRecord(i)
    /\ Type[Current(i)] \notin handlers \cup {Garbage}
    /\ Settle(i, "NoHandler")
    /\ UNCHANGED <<handlers, place, done, deaths>>

HandlerStarts(i) ==
    /\ AtRecord(i)
    /\ Type[Current(i)] \in handlers
    /\ inv' = [inv EXCEPT ![i].pc = "handler"]
    /\ UNCHANGED <<handlers, place, done, deaths>>

HandlerReturns(i, error) ==
    /\ inv[i].pc = "handler"
    /\ Current(i) \in Good => error = "Ok"
    /\ Settle(i, error)
    /\ done' = IF error = "Ok" THEN done \cup {Current(i)} ELSE done
    /\ UNCHANGED <<handlers, place, deaths>>

-----------------------------------------------------------------------------
(* Responses, and what the other side makes of them.                         *)

Over(i) == inv[i].pc = "next" /\ inv[i].at > Len(inv[i].batch)

Entry(i, deliveries) == Over(i) /\ inv[i].batch[1] \in deliveries

\* outcome[d] becomes of each d that was answered for.
Answer(i, outcome) ==
    /\ place' = [d \in Deliveries |->
          IF d \in ToSet(inv[i].batch) THEN outcome[d] ELSE place[d]]
    /\ inv' = [inv EXCEPT ![i] = Idle]
    /\ UNCHANGED <<handlers, done, deaths>>

\* Mutant: one failure makes the whole batch fail.
SqsRespondAllOrNothing(i) ==
    /\ Entry(i, Records)
    /\ Answer(i, [d \in Records |->
          IF place[d] # "deleted" /\ inv[i].failures # {} THEN "waiting" ELSE "deleted"])

\* SqsBatchResponse, read by SQS.  A message stays deleted.
SqsRespond(i) ==
    /\ Entry(i, Records)
    /\ Answer(i, [d \in Records |->
          IF place[d] # "deleted" /\ d \in inv[i].failures THEN "waiting" ELSE "deleted"])

\* PushDeliveryResponse: only NonRetryable is not retryable.  A body that does
\* not parse is an Err of handle_http_raw, and a push without an answer.
HttpRespond(i) ==
    /\ Entry(i, Pushes)
    /\ Answer(i, [d \in Pushes |-> CASE inv[i].error = "Ok"           -> "completed"
                                    [] inv[i].error = "NonRetryable" -> "discarded"
                                    [] OTHER                         -> "waiting"])

\* DirectResponse: the caller is told, and that is all.
DirectRespond(i) ==
    /\ Entry(i, Directs)
    /\ Answer(i, [d \in Directs |-> IF inv[i].error = "Ok" THEN "completed" ELSE "failed"])

Return(d) == IF place[d] = "flying" THEN "waiting" ELSE place[d]

\* A handler panics, the function times out or the environment is reclaimed:
\* nothing of the batch is answered.
Die(i) ==
    /\ inv[i].pc # "idle"
    /\ deaths < MaxDeaths
    /\ deaths' = deaths + 1
    /\ place' = [d \in Deliveries |-> IF d \in ToSet(inv[i].batch) THEN Return(d) ELSE place[d]]
    /\ inv' = [inv EXCEPT ![i] = Idle]
    /\ UNCHANGED <<handlers, done>>

\* A record becomes visible again while an invocation still works on it.
VisibilityEnds(d) ==
    /\ d \in Records
    /\ place[d] = "flying"
    /\ deaths < MaxDeaths
    /\ deaths' = deaths + 1
    /\ place' = [place EXCEPT ![d] = "waiting"]
    /\ UNCHANGED <<handlers, inv, done>>

Work(i) ==
    \/ ParseFails(i)
    \/ NoHandler(i)
    \/ HandlerStarts(i)
    \/ \E error \in {"Ok", "Handler", "NonRetryable"} : HandlerReturns(i, error)
    \/ SqsRespond(i)
    \/ HttpRespond(i)
    \/ DirectRespond(i)

Next ==
    \/ \E type \in Types : Register(type)
    \/ \E i \in Invocations : Work(i) \/ Die(i) \/ \E batch \in Batches : Invoke(i, batch)
    \/ \E d \in Deliveries : VisibilityEnds(d)

Delivered(d) == \E i \in Invocations, batch \in {b \in Batches : d \in ToSet(b)} : Invoke(i, batch)

\* Invocations go on, types are registered, and a good delivery that waits is
\* delivered again; nothing is asked of the others.
Fairness ==
    /\ \A i \in Invocations : WF_vars(Work(i))
    /\ \A type \in Types : WF_vars(Register(type))
    /\ \A d \in Good : SF_vars(Delivered(d))

Spec == Init /\ [][Next]_vars /\ Fairness

-----------------------------------------------------------------------------
(* Properties *)

\* Nothing is lost: a record leaves SQS, and a push is completed, only after the
\* handler of that very delivery has returned Ok, whatever failed, died or was
\* delivered twice in the same batch.
DeletedMeansDone ==
    \A d \in Deliveries : place[d] \in {"deleted", "completed"} => d \in done

\* "SQS only retries failed messages" (aws_lambda.rs:389-390): a bad batch-mate does
\* not hold a good record back.  What always succeeds is in the end deleted or
\* completed, though other records of its batches fail for ever.
GoodRecordsLeave ==
    \A d \in Good : <>(place[d] \in {"deleted", "completed"})
=============================================================================
