------------------------------ MODULE FakeStore ------------------------------
(***************************************************************************)
(* The in-memory store of the crate's test mode (src/src/testing.rs),      *)
(* shared by the threads of a test.  Every operation runs under one mutex. *)
(* drain keeps it while the handlers run: a handler that comes back to the *)
(* store waits for its own thread, and a panic, of a handler or of a       *)
(* failed assertion, poisons the mutex for everyone.                       *)
(***************************************************************************)
EXTENDS Naturals, Sequences, SequencesExt

CONSTANTS
    Threads,
    Types,          \* job types
    Queues,         \* queue names; one of them is the default
    MaxJobs,        \* bound on the jobs enqueued
    None            \* nobody, or no criterion

ASSUME NoneAssumption == None \notin Threads \cup Queues

VARIABLES
    enqueued,       \* FakeStoreInner.enqueued: [id, type, queue, state, attempt]
    performed,      \* FakeStoreInner.performed
    handlers,       \* the types that have a handler
    nextId,
    holder,         \* the thread that has locked the mutex, or None
    poisoned,
    pc,             \* pc[t]: "idle", "drain", "handler", "blocked" or "dead"
    at, upto        \* the job the drain is at, and the length when it began

storeVars == <<enqueued, performed, handlers, nextId>>
vars      == <<enqueued, performed, handlers, nextId, holder, poisoned, pc, at, upto>>

Init ==
    /\ enqueued = <<>>
    /\ performed = <<>>
    /\ handlers = {}
    /\ nextId = 0
    /\ holder = None
    /\ poisoned = FALSE
    /\ pc = [t \in Threads |-> "idle"]
    /\ at = 1
    /\ upto = 0

\* A call that takes the lock and gives it back.
Locked(t) ==
    /\ pc[t] = "idle"
    /\ holder = None
    /\ ~poisoned
    /\ UNCHANGED <<holder, poisoned, pc, at, upto>>

RecordEnqueue(t, type, queue) ==
    /\ Locked(t)
    /\ nextId < MaxJobs
    /\ nextId' = nextId + 1
    /\ enqueued' = Append(enqueued, [id |-> nextId', type |-> type, queue |-> queue,
                                     state |-> "available", attempt |-> 0])
    /\ UNCHANGED <<performed, handlers>>

RegisterHandler(t, type) ==
    /\ Locked(t)
    /\ handlers' = handlers \cup {type}
    /\ UNCHANGED <<enqueued, performed, nextId>>

\* Mutant: only the enqueued jobs are cleared.
ClearEnqueued(t) ==
    /\ Locked(t)
    /\ enqueued' = <<>>
    /\ UNCHANGED <<performed, handlers, nextId>>

\* Ids go on from where they were, and the handlers stay.
ClearAll(t) ==
    /\ Locked(t)
    /\ enqueued' = <<>>
    /\ performed' = <<>>
    /\ UNCHANGED <<handlers, nextId>>

-----------------------------------------------------------------------------
(* Assertions.  One that fails panics with the lock in its hand.             *)

\* filter_jobs: type and queue are compared; the args and meta of the criteria are not.
FilterJobs(type, queue) ==
    SelectSeq(enqueued, LAMBDA j : j.type = type /\ queue \in {None, j.queue})

AssertEnqueued(type, queue, count) ==
    IF count = None THEN FilterJobs(type, queue) # <<>>
                    ELSE Len(FilterJobs(type, queue)) = count

RefuteEnqueued(type) == \A i \in DOMAIN enqueued : enqueued[i].type # type

AssertPerformed(type) == \E i \in DOMAIN performed : performed[i].type = type

AssertCompleted(type) ==
    \E i \in DOMAIN performed : performed[i].type = type /\ performed[i].state = "completed"

Assertions(type) ==
    {AssertEnqueued(type, queue, count) : queue \in Queues \cup {None}, count \in {None, 1}}
        \cup {RefuteEnqueued(type), AssertPerformed(type), AssertCompleted(type)}

AssertionFails(t, type) ==
    /\ pc[t] = "idle"
    /\ holder = None
    /\ ~poisoned
    /\ FALSE \in Assertions(type)
    /\ poisoned' = TRUE
    /\ pc' = [pc EXCEPT ![t] = "dead"]
    /\ UNCHANGED <<storeVars, holder, at, upto>>

\* lock().unwrap() on a poisoned mutex.
PoisonedCall(t) ==
    /\ pc[t] = "idle"
    /\ holder = None
    /\ poisoned
    /\ pc' = [pc EXCEPT ![t] = "dead"]
    /\ UNCHANGED <<storeVars, holder, poisoned, at, upto>>

-----------------------------------------------------------------------------
(* drain *)

DrainBegins(t) ==
    /\ pc[t] = "idle"
    /\ holder = None
    /\ ~poisoned
    /\ holder' = t
    /\ pc' = [pc EXCEPT ![t] = "drain"]
    /\ at' = 1
    /\ upto' = Len(enqueued)
    /\ UNCHANGED <<storeVars, poisoned>>

Skip(t) ==
    /\ pc[t] = "drain"
    /\ at <= upto
    /\ enqueued[at].state # "available"
    /\ at' = at + 1
    /\ UNCHANGED <<storeVars, holder, poisoned, pc, upto>>

Attempted == [enqueued[at] EXCEPT !.attempt = @ + 1]

\* The job's final state, its copy among the performed ones, the next index.
Settle(t, j) ==
    /\ enqueued' = [enqueued EXCEPT ![at] = j]
    /\ performed' = Append(performed, j)
    /\ at' = at + 1
    /\ pc' = [pc EXCEPT ![t] = "drain"]
    /\ UNCHANGED <<handlers, nextId, holder, poisoned, upto>>

Taking(t) == pc[t] = "drain" /\ at <= upto /\ enqueued[at].state = "available"

\* A type without a handler counts as completed.
CompleteUnhandled(t) ==
    /\ Taking(t)
    /\ enqueued[at].type \notin handlers
    /\ Settle(t, [Attempted EXCEPT !.state = "completed"])

CallHandler(t) ==
    /\ Taking(t)
    /\ enqueued[at].type \in handlers
    /\ enqueued' = [enqueued EXCEPT ![at] = [Attempted EXCEPT !.state = "active"]]
    /\ pc' = [pc EXCEPT ![t] = "handler"]
    /\ UNCHANGED <<performed, handlers, nextId, holder, poisoned, at, upto>>

\* Mutant: a failed job goes back to be tried again.
HandlerReturnsRetries(t, state) ==
    /\ pc[t] = "handler"
    /\ IF state = "completed" THEN Settle(t, [enqueued[at] EXCEPT !.state = state])
       ELSE /\ enqueued' = [enqueued EXCEPT ![at] = [@ EXCEPT !.state = "available", !.attempt = 0]]
            /\ pc' = [pc EXCEPT ![t] = "drain"]
            /\ UNCHANGED <<performed, handlers, nextId, holder, poisoned, at, upto>>

HandlerReturns(t, state) ==
    /\ pc[t] = "handler"
    /\ Settle(t, [enqueued[at] EXCEPT !.state = state])

\* The job stays active; unwinding drops the guard, which poisons the mutex.
HandlerPanics(t) ==
    /\ pc[t] = "handler"
    /\ pc' = [pc EXCEPT ![t] = "dead"]
    /\ holder' = None
    /\ poisoned' = TRUE
    /\ UNCHANGED <<storeVars, at, upto>>

\* The handler calls any operation of the store: its own thread has the lock.
HandlerCallsStore(t) ==
    /\ pc[t] = "handler"
    /\ pc' = [pc EXCEPT ![t] = "blocked"]
    /\ UNCHANGED <<storeVars, holder, poisoned, at, upto>>

DrainEnds(t) ==
    /\ pc[t] = "drain"
    /\ at > upto
    /\ pc' = [pc EXCEPT ![t] = "idle"]
    /\ holder' = None
    /\ UNCHANGED <<storeVars, poisoned, at, upto>>

DrainStep(t) ==
    \/ Skip(t)
    \/ CompleteUnhandled(t)
    \/ CallHandler(t)
    \/ \E state \in {"completed", "discarded"} : HandlerReturns(t, state)
    \/ HandlerPanics(t)
    \/ HandlerCallsStore(t)
    \/ DrainEnds(t)

\* Everyone is dead, or waits for a lock whose holder waits for itself.
Halted ==
    /\ \/ \A t \in Threads : pc[t] = "dead"
       \/ \E t \in Threads : pc[t] = "blocked"
    /\ UNCHANGED vars

Next ==
    \/ \E t \in Threads :
          \/ \E type \in Types : \/ \E queue \in Queues : RecordEnqueue(t, type, queue)
                                 \/ RegisterHandler(t, type)
                                 \/ AssertionFails(t, type)
          \/ ClearAll(t)
          \/ PoisonedCall(t)
          \/ DrainBegins(t)
          \/ DrainStep(t)
    \/ Halted

\* A thread in drain runs on.
Spec == Init /\ [][Next]_vars /\ \A t \in Threads : WF_vars(DrainStep(t))

-----------------------------------------------------------------------------
(* Properties *)

\* What the assertions read is what the drains did: whatever was enqueued, drained
\* and cleared, and by whom, the performed jobs are the settled ones among the
\* enqueued, which come first, in the order they were enqueued, each tried exactly
\* once; and no job is left active but the one a handler holds, or held when it
\* panicked.
PerformedIsSettled ==
    /\ \A i \in DOMAIN performed : i \in DOMAIN enqueued /\ performed[i] = enqueued[i]
    /\ \A i \in DOMAIN enqueued :
          /\ enqueued[i].state \in {"completed", "discarded"} <=> i \in DOMAIN performed
          /\ enqueued[i].attempt = IF enqueued[i].state = "available" THEN 0 ELSE 1
          /\ enqueued[i].state = "active" => i = at /\ (poisoned \/ holder # None)

\* drain ends, and the other threads get the lock, unless a handler panics or comes
\* back to the store.
DrainCompletes ==
    \A t \in Threads :
        pc[t] \in {"drain", "handler"} ~> (pc[t] \in {"dead", "blocked"} \/ holder = None)
=============================================================================
