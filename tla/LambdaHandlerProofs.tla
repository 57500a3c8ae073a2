------------------------- MODULE LambdaHandlerProofs -------------------------
(***************************************************************************)
(* Proofs about LambdaHandler, for all deliveries, batches, invocations    *)
(* and deaths: nothing that was not done leaves its queue.                 *)
(***************************************************************************)
EXTENDS LambdaHandler, TLAPS

Places == {"waiting", "flying", "deleted", "completed", "discarded", "failed"}

Errors == {"Ok", "Deserialization", "NoHandler", "Handler", "NonRetryable"}

InvocationStates ==
    [pc : {"idle", "next", "handler"}, batch : Batches \cup {<<>>}, at : Nat,
     failures : SUBSET Deliveries, error : Errors]

TypeOK ==
    /\ place \in [Deliveries -> Places]
    /\ inv \in [Invocations -> InvocationStates]
    /\ done \subseteq Deliveries

\* What an invocation's state stands for: the records before `at` are settled,
\* and its error is the last one's.
Settled(successes, batch, at, failures, error) ==
    /\ at \in 1..(Len(batch) + 1)
    /\ \A k \in 1..(at - 1) : batch[k] \in successes \cup failures
    /\ error = "Ok" /\ at > 1 => batch[at - 1] \in successes

InvocationInv(i) ==
    /\ Settled(done, inv[i].batch, inv[i].at, inv[i].failures, inv[i].error)
    /\ inv[i].pc # "idle" => inv[i].batch # <<>>
    /\ inv[i].pc = "handler" => inv[i].at <= Len(inv[i].batch)

BatchesInv == \A i \in Invocations : InvocationInv(i)

IInv == TypeOK /\ BatchesInv /\ DeletedMeansDone

-----------------------------------------------------------------------------
(* Batches *)

\* A batch is a sequence of records, or of the one delivery of another trigger.
LEMMA BatchShape ==
    ASSUME NEW batch \in Batches
    PROVE  /\ batch \in Seq(Deliveries) /\ batch # <<>>
           /\ Len(batch) \in Nat \ {0} /\ DOMAIN batch = 1..Len(batch)
           /\ \A k \in 1..Len(batch) : batch[k] \in Deliveries
           /\ batch[1] \in Records => \A k \in 1..Len(batch) : batch[k] \in Records
           /\ batch[1] \notin Records => Len(batch) = 1
<1>1. CASE batch \in {b \in SeqOf(Records, MaxBatch) : b # <<>> /\ IsInjective(b)}
  <2>1. PICK m \in 0..MaxBatch : batch \in [1..m -> Records]
    BY <1>1 DEF SeqOf
  <2>2. m \in Nat /\ batch # <<>>
    BY <1>1, <2>1, MaxBatchAssumption
  <2>3. batch \in Seq(Records) /\ Len(batch) = m
    BY <2>1, <2>2
  <2>4. m # 0
    BY <2>2, <2>3
  <2>5. \A k \in 1..m : batch[k] \in Records
    BY <2>1
  <2>6. Records \subseteq Deliveries
    BY DEF Deliveries
  <2>7. batch \in Seq(Deliveries)
    BY <2>1, <2>2, <2>6
  <2>8. 1 \in 1..m
    BY <2>2, <2>4
  <2>9. QED
    BY <2>2, <2>3, <2>4, <2>5, <2>6, <2>7, <2>8
<1>2. CASE batch \in {<<d>> : d \in Pushes \cup Directs}
  <2>1. PICK d \in Pushes \cup Directs : batch = <<d>>
    BY <1>2
  <2>2. d \in Deliveries /\ d \notin Records
    BY TriggersAssumption DEF Deliveries
  <2>3. QED
    BY <2>1, <2>2
<1>3. QED
  BY <1>1, <1>2 DEF Batches

\* The state of an invocation, part by part.
LEMMA InvocationShape ==
    ASSUME TypeOK, NEW i \in Invocations
    PROVE  /\ inv[i] \in InvocationStates
           /\ inv[i].pc \in {"idle", "next", "handler"}
           /\ inv[i].batch \in Batches \cup {<<>>}
           /\ inv[i].at \in Nat /\ inv[i].failures \subseteq Deliveries
           /\ inv[i].error \in Errors
<1>1. inv[i] \in InvocationStates
  BY DEF TypeOK
<1>2. QED
  BY <1>1 DEF InvocationStates

LEMMA IdleShape ==
    /\ Idle \in InvocationStates
    /\ Idle.pc = "idle" /\ Idle.batch = <<>> /\ Idle.at = 1
<1>1. {} \in SUBSET Deliveries /\ <<>> \in Batches \cup {<<>>}
  OBVIOUS
<1>2. QED
  BY <1>1 DEF Idle, InvocationStates, Errors

-----------------------------------------------------------------------------
(* What each kind of step does to the invariant *)

\* One invocation changes, deliveries are done and stay done.
LEMMA OneInvocation ==
    ASSUME IInv, NEW i \in Invocations, NEW state \in InvocationStates,
           inv' = [inv EXCEPT ![i] = state],
           done \subseteq done', done' \subseteq Deliveries,
           state.pc # "idle" => state.batch # <<>>,
           state.pc = "handler" => state.at <= Len(state.batch),
           Settled(done', state.batch, state.at, state.failures, state.error),
           place' \in [Deliveries -> Places], DeletedMeansDone'
    PROVE  IInv'
<1>1. TypeOK'
  BY DEF IInv, TypeOK
<1>2. ASSUME NEW j \in Invocations
      PROVE  InvocationInv(j)'
  <2>1. CASE j = i
    <3>1. inv'[j] = state
      BY <2>1 DEF IInv, TypeOK
    <3>2. QED
      BY <3>1 DEF InvocationInv, Settled
  <2>2. CASE j # i
    <3>1. inv'[j] = inv[j]
      BY <2>2 DEF IInv, TypeOK
    <3>2. InvocationInv(j)
      BY DEF IInv, BatchesInv
    <3>3. Settled(done', inv[j].batch, inv[j].at, inv[j].failures, inv[j].error)
      BY <3>1, <3>2 DEF InvocationInv, Settled
    <3>4. QED
      BY <3>1, <3>2, <3>3 DEF InvocationInv
  <2>3. QED
    BY <2>1, <2>2
<1>3. QED
  BY <1>1, <1>2 DEF IInv, BatchesInv

\* A record is over, done or named as failed (process_job, aws_lambda.rs).
LEMMA SettleKeeps ==
    ASSUME IInv, NEW i \in Invocations, NEW error \in Errors,
           inv[i].pc # "idle", inv[i].at <= Len(inv[i].batch), Settle(i, error),
           done' = IF error = "Ok" THEN done \cup {Current(i)} ELSE done,
           UNCHANGED place
    PROVE  IInv'
<1> DEFINE failed == IF error = "Ok" THEN inv[i].failures
                     ELSE inv[i].failures \cup {Current(i)}
           state == [inv[i] EXCEPT !.pc = "next", !.at = inv[i].at + 1, !.error = error,
                                   !.failures = failed]
<1>1. inv[i] \in InvocationStates /\ inv[i].at \in Nat /\ InvocationInv(i)
  BY InvocationShape DEF IInv, BatchesInv
<1>2. inv[i].batch \in Batches
  BY <1>1, InvocationShape DEF IInv, InvocationInv
<1>3. Len(inv[i].batch) \in Nat /\ inv[i].at \in 1..Len(inv[i].batch)
  BY <1>1, <1>2, BatchShape DEF InvocationInv, Settled
<1>4. Current(i) \in Deliveries
  BY <1>2, <1>3, BatchShape DEF Current
<1>5. /\ inv' = [inv EXCEPT ![i] = state]
      /\ state \in InvocationStates
      /\ state.pc = "next" /\ state.batch = inv[i].batch /\ state.at = inv[i].at + 1
      /\ state.error = error /\ state.failures = failed
  <2>1. failed \subseteq Deliveries
    BY <1>4, InvocationShape DEF IInv
  <2>2. inv' = [inv EXCEPT ![i] = state]
    BY DEF Settle, IInv, TypeOK
  <2>3. error \in Errors /\ "next" \in {"idle", "next", "handler"} /\ inv[i].at + 1 \in Nat
    BY <1>1
  <2> HIDE DEF failed
  <2>4. /\ state \in InvocationStates
        /\ state.pc = "next" /\ state.batch = inv[i].batch /\ state.at = inv[i].at + 1
        /\ state.error = error /\ state.failures = failed
    BY <1>1, <2>1, <2>3 DEF InvocationStates
  <2>5. QED
    BY <2>2, <2>4
<1>6. done \subseteq done' /\ done' \subseteq Deliveries
  BY <1>4 DEF IInv, TypeOK
<1>7. Current(i) \in done' \cup failed /\ (error = "Ok" => Current(i) \in done')
  OBVIOUS
<1>8. Settled(done', inv[i].batch, inv[i].at + 1, failed, error)
  <2> DEFINE after == inv[i].at + 1
  <2>1. after \in 1..(Len(inv[i].batch) + 1) /\ after - 1 = inv[i].at
    BY <1>3
  <2>2. ASSUME NEW k \in 1..inv[i].at
        PROVE  inv[i].batch[k] \in done' \cup failed
    <3>1. CASE k = inv[i].at
      BY <3>1, <1>7 DEF Current
    <3>2. CASE k # inv[i].at
      <4>1. k \in 1..(inv[i].at - 1)
        BY <3>2, <1>3
      <4>2. inv[i].batch[k] \in done \cup inv[i].failures
        BY <4>1, <1>1 DEF InvocationInv, Settled
      <4>3. QED
        BY <4>2, <1>6
    <3>3. QED
      BY <3>1, <3>2
  <2>3. error = "Ok" => inv[i].batch[inv[i].at] \in done'
    BY <1>7 DEF Current
  <2> HIDE DEF failed, after, state
  <2>4. Settled(done', inv[i].batch, after, failed, error)
    BY <2>1, <2>2, <2>3 DEF Settled
  <2>5. QED
    BY <2>4 DEF after
<1>9. DeletedMeansDone' /\ place' \in [Deliveries -> Places]
  BY <1>6 DEF IInv, DeletedMeansDone, TypeOK
<1>10. Settled(done', state.batch, state.at, state.failures, state.error)
  BY <1>5, <1>8
<1>11. state.batch # <<>>
  BY <1>1, <1>5 DEF InvocationInv
<1> HIDE DEF failed, state
<1>12. state.pc # "handler"
  BY <1>5
<1>13. QED
  BY <1>5, <1>6, <1>9, <1>10, <1>11, <1>12, OneInvocation

\* An invocation ends: only what it has done is deleted or completed.
LEMMA EndKeeps ==
    ASSUME IInv, NEW i \in Invocations, inv' = [inv EXCEPT ![i] = Idle],
           place' \in [Deliveries -> Places], UNCHANGED done,
           \A d \in Deliveries : place'[d] \in {"deleted", "completed"} => d \in done
    PROVE  IInv'
<1>1. Settled(done', <<>>, 1, Idle.failures, Idle.error)
  BY DEF Settled
<1>2. DeletedMeansDone'
  BY DEF DeletedMeansDone
<1>3. Settled(done', Idle.batch, Idle.at, Idle.failures, Idle.error)
  BY <1>1, IdleShape
<1>4. done \subseteq done' /\ done' \subseteq Deliveries
  BY DEF IInv, TypeOK
<1>5. QED
  BY <1>2, <1>3, <1>4, IdleShape, OneInvocation

\* The response names what failed; the outcome of the rest is what was done.
LEMMA AnswerKeeps ==
    ASSUME IInv, NEW i \in Invocations, NEW outcome, Answer(i, outcome),
           \A d \in ToSet(inv[i].batch) :
               /\ outcome[d] \in Places
               /\ outcome[d] \in {"deleted", "completed"} => d \in done
    PROVE  IInv'
<1>1. \A d \in Deliveries :
          place'[d] = IF d \in ToSet(inv[i].batch) THEN outcome[d] ELSE place[d]
  BY DEF Answer
<1>2. \A d \in Deliveries : place[d] \in Places
  BY DEF IInv, TypeOK
<1>3. \A d \in Deliveries : place'[d] \in Places
  BY <1>1, <1>2
<1>4. place' \in [Deliveries -> Places]
  BY <1>3 DEF Answer
<1>5. \A d \in Deliveries : place'[d] \in {"deleted", "completed"} => d \in done
  BY <1>1 DEF IInv, DeletedMeansDone
<1>6. QED
  BY <1>4, <1>5, EndKeeps DEF Answer

\* When a batch is over, what is not named as failed is done.
LEMMA OverMeansSettled ==
    ASSUME IInv, NEW i \in Invocations, Over(i)
    PROVE  /\ inv[i].batch \in Batches
           /\ ToSet(inv[i].batch) \subseteq done \cup inv[i].failures
           /\ Len(inv[i].batch) = 1 /\ inv[i].error = "Ok" => inv[i].batch[1] \in done
<1>1. inv[i].at \in Nat /\ InvocationInv(i) /\ inv[i].pc = "next"
  BY InvocationShape DEF IInv, BatchesInv, Over
<1>2. inv[i].batch \in Batches
  BY <1>1, InvocationShape DEF IInv, InvocationInv
<1>3. Len(inv[i].batch) \in Nat \ {0} /\ DOMAIN inv[i].batch = 1..Len(inv[i].batch)
  BY <1>2, BatchShape
<1>4. inv[i].at = Len(inv[i].batch) + 1 /\ inv[i].at > 1
  <2>1. inv[i].at \in 1..(Len(inv[i].batch) + 1) /\ inv[i].at > Len(inv[i].batch)
    BY <1>1 DEF InvocationInv, Settled, Over
  <2>2. QED
    BY <2>1, <1>1, <1>3
<1>5. inv[i].at - 1 = Len(inv[i].batch)
  BY <1>3, <1>4
<1>6. \A k \in 1..Len(inv[i].batch) : inv[i].batch[k] \in done \cup inv[i].failures
  BY <1>1, <1>5 DEF InvocationInv, Settled
<1>7. ToSet(inv[i].batch) \subseteq done \cup inv[i].failures
  BY <1>3, <1>6 DEF ToSet
<1>8. inv[i].error = "Ok" => inv[i].batch[Len(inv[i].batch)] \in done
  BY <1>1, <1>4, <1>5 DEF InvocationInv, Settled
<1>9. QED
  BY <1>2, <1>7, <1>8

\* The three responses.
LEMMA RespondKeeps ==
    ASSUME IInv, NEW i \in Invocations,
           SqsRespond(i) \/ HttpRespond(i) \/ DirectRespond(i)
    PROVE  IInv'
<1> DEFINE batch == inv[i].batch
<1>1. Over(i)
  BY DEF SqsRespond, HttpRespond, DirectRespond, Entry
<1>2. /\ batch \in Batches /\ ToSet(batch) \subseteq done \cup inv[i].failures
      /\ Len(batch) = 1 /\ inv[i].error = "Ok" => batch[1] \in done
  BY <1>1, OverMeansSettled
<1>3. /\ Len(batch) \in Nat \ {0} /\ DOMAIN batch = 1..Len(batch)
      /\ batch[1] \in Records => \A k \in 1..Len(batch) : batch[k] \in Records
      /\ batch[1] \notin Records => Len(batch) = 1
  BY <1>2, BatchShape
<1>4. CASE SqsRespond(i)
  <2> DEFINE outcome == [d \in Records |->
          IF place[d] # "deleted" /\ d \in inv[i].failures THEN "waiting" ELSE "deleted"]
  <2>1. ToSet(batch) \subseteq Records /\ Answer(i, outcome)
    BY <1>3, <1>4 DEF SqsRespond, Entry, ToSet
  <2>2. ASSUME NEW d \in ToSet(batch)
        PROVE  /\ outcome[d] \in Places
               /\ outcome[d] \in {"deleted", "completed"} => d \in done
    <3>1. d \in Deliveries
      BY <2>1 DEF Deliveries
    <3>2. outcome[d] \in {"waiting", "deleted"}
      BY <2>1
    <3>3. outcome[d] = "deleted" => place[d] = "deleted" \/ d \notin inv[i].failures
      BY <2>1
    <3>4. outcome[d] = "deleted" => d \in done
      BY <3>1, <3>3, <1>2 DEF IInv, DeletedMeansDone
    <3>5. QED
      BY <3>2, <3>4 DEF Places
  <2> HIDE DEF outcome
  <2>3. QED
    BY <2>1, <2>2, AnswerKeeps
<1>5. CASE HttpRespond(i)
  <2> DEFINE outcome == [d \in Pushes |-> CASE inv[i].error = "Ok"           -> "completed"
                                           [] inv[i].error = "NonRetryable" -> "discarded"
                                           [] OTHER                         -> "waiting"]
  <2>1. batch[1] \in Pushes /\ Answer(i, outcome)
    BY <1>5 DEF HttpRespond, Entry
  <2>2. ToSet(batch) = {batch[1]} /\ Len(batch) = 1
    BY <1>3, <2>1, TriggersAssumption DEF ToSet
  <2>3. \/ outcome[batch[1]] \in {"discarded", "waiting"}
        \/ outcome[batch[1]] = "completed" /\ inv[i].error = "Ok"
    BY <2>1
  <2> HIDE DEF outcome
  <2>4. ASSUME NEW d \in ToSet(batch)
        PROVE  /\ outcome[d] \in Places
               /\ outcome[d] \in {"deleted", "completed"} => d \in done
    BY <2>2, <2>3, <1>2 DEF Places
  <2>5. QED
    BY <2>1, <2>4, AnswerKeeps
<1>6. CASE DirectRespond(i)
  <2> DEFINE outcome == [d \in Directs |-> IF inv[i].error = "Ok" THEN "completed" ELSE "failed"]
  <2>1. batch[1] \in Directs /\ Answer(i, outcome)
    BY <1>6 DEF DirectRespond, Entry
  <2>2. ToSet(batch) = {batch[1]} /\ Len(batch) = 1
    BY <1>3, <2>1, TriggersAssumption DEF ToSet
  <2>3. outcome[batch[1]] = IF inv[i].error = "Ok" THEN "completed" ELSE "failed"
    BY <2>1
  <2> HIDE DEF outcome
  <2>4. ASSUME NEW d \in ToSet(batch)
        PROVE  /\ outcome[d] \in Places
               /\ outcome[d] \in {"deleted", "completed"} => d \in done
    BY <2>2, <2>3, <1>2 DEF Places
  <2>5. QED
    BY <2>1, <2>4, AnswerKeeps
<1>7. QED
  BY <1>4, <1>5, <1>6

\* One record of a batch, from the look at its body to the handler's return.
LEMMA RecordKeeps ==
    ASSUME IInv, NEW i \in Invocations,
           \/ ParseFails(i) \/ NoHandler(i) \/ HandlerStarts(i)
           \/ \E error \in {"Ok", "Handler", "NonRetryable"} : HandlerReturns(i, error)
    PROVE  IInv'
<1>1. InvocationInv(i)
  BY DEF IInv, BatchesInv
<1>2. CASE ParseFails(i)
  BY <1>2, SettleKeeps DEF ParseFails, AtRecord, Errors
<1>3. CASE NoHandler(i)
  BY <1>3, SettleKeeps DEF NoHandler, AtRecord, Errors
<1>4. ASSUME NEW error \in {"Ok", "Handler", "NonRetryable"}, HandlerReturns(i, error)
      PROVE  IInv'
  <2>1. inv[i].pc = "handler" /\ inv[i].at <= Len(inv[i].batch)
    BY <1>1, <1>4 DEF HandlerReturns, InvocationInv
  <2>2. error \in Errors
    BY DEF Errors
  <2>3. QED
    BY <2>1, <2>2, <1>4, SettleKeeps DEF HandlerReturns
<1>5. CASE HandlerStarts(i)
  <2> DEFINE state == [inv[i] EXCEPT !.pc = "handler"]
  <2>1. inv' = [inv EXCEPT ![i] = state] /\ AtRecord(i) /\ UNCHANGED <<place, done>>
    BY <1>5 DEF HandlerStarts
  <2>2. /\ state \in InvocationStates /\ state.batch = inv[i].batch /\ state.at = inv[i].at
        /\ state.failures = inv[i].failures /\ state.error = inv[i].error
    BY InvocationShape DEF IInv, InvocationStates
  <2>3. Settled(done', state.batch, state.at, state.failures, state.error)
    BY <1>1, <2>1, <2>2 DEF InvocationInv, Settled
  <2>4. state.batch # <<>> /\ state.at <= Len(state.batch)
    BY <1>1, <2>1, <2>2 DEF InvocationInv, AtRecord
  <2>5. /\ done \subseteq done' /\ done' \subseteq Deliveries
        /\ place' \in [Deliveries -> Places] /\ DeletedMeansDone'
    BY <2>1 DEF IInv, TypeOK, DeletedMeansDone
  <2> HIDE DEF state
  <2>6. QED
    BY <2>1, <2>2, <2>3, <2>4, <2>5, OneInvocation
<1>6. QED
  BY <1>2, <1>3, <1>4, <1>5

\* A batch is handed out.
LEMMA InvokeKeeps ==
    ASSUME IInv, NEW i \in Invocations, NEW batch \in Batches, Invoke(i, batch)
    PROVE  IInv'
<1> DEFINE state == [Idle EXCEPT !.pc = "next", !.batch = batch]
<1>1. /\ inv' = [inv EXCEPT ![i] = state] /\ UNCHANGED done
      /\ place' = [d \in Deliveries |-> IF d \in ToSet(batch) THEN "flying" ELSE place[d]]
  BY DEF Invoke
<1>2. /\ state \in InvocationStates /\ state.pc = "next"
      /\ state.batch = batch /\ state.at = 1
  BY DEF Idle, InvocationStates, Errors
<1>3. Len(batch) \in Nat /\ batch # <<>>
  BY BatchShape
<1>4. Settled(done', batch, 1, state.failures, state.error)
  BY <1>3 DEF Settled
<1>5. \A d \in Deliveries : place'[d] \in {"flying", place[d]}
  BY <1>1
<1>6. place' \in [Deliveries -> Places] /\ DeletedMeansDone'
  BY <1>1, <1>5 DEF IInv, TypeOK, Places, DeletedMeansDone
<1>7. done \subseteq done' /\ done' \subseteq Deliveries
  BY <1>1 DEF IInv, TypeOK
<1> HIDE DEF state
<1>8. QED
  BY <1>1, <1>2, <1>3, <1>4, <1>6, <1>7, OneInvocation

-----------------------------------------------------------------------------
(* The invariant *)

\* All deliveries wait, and nothing is invoked.
LEMMA InitEstablishes == Init => IInv
<1> SUFFICES ASSUME Init PROVE IInv
  OBVIOUS
<1>1. TypeOK
  BY IdleShape DEF Init, TypeOK, Places
<1>2. BatchesInv
  BY IdleShape DEF Init, BatchesInv, InvocationInv, Settled
<1>3. DeletedMeansDone
  BY DEF Init, DeletedMeansDone
<1>4. QED
  BY <1>1, <1>2, <1>3 DEF IInv

\* Every step preserves it.
LEMMA NextKeeps == IInv /\ [Next]_vars => IInv'
<1> SUFFICES ASSUME IInv, [Next]_vars PROVE IInv'
  OBVIOUS
<1>1. ASSUME NEW i \in Invocations, Work(i)
      PROVE  IInv'
  BY <1>1, RecordKeeps, RespondKeeps DEF Work
<1>2. ASSUME NEW i \in Invocations, NEW batch \in Batches, Invoke(i, batch)
      PROVE  IInv'
  BY <1>2, InvokeKeeps
<1>3. ASSUME NEW i \in Invocations, Die(i)
      PROVE  IInv'
  <2>1. \A d \in Deliveries : place'[d] \in {"waiting", place[d]}
    BY <1>3 DEF Die, Return
  <2>2. place' \in [Deliveries -> Places]
    BY <1>3, <2>1 DEF Die, IInv, TypeOK, Places
  <2>3. \A d \in Deliveries : place'[d] \in {"deleted", "completed"} => d \in done
    BY <2>1 DEF IInv, DeletedMeansDone
  <2>4. QED
    BY <1>3, <2>2, <2>3, EndKeeps DEF Die
<1>4. ASSUME UNCHANGED <<inv, done>>,
             \/ UNCHANGED place
             \/ \E d \in Deliveries : place' = [place EXCEPT ![d] = "waiting"]
      PROVE  IInv'
  <2>1. TypeOK'
    BY <1>4 DEF IInv, TypeOK, Places
  <2>2. BatchesInv'
    BY <1>4 DEF IInv, BatchesInv, InvocationInv, Settled
  <2>3. DeletedMeansDone'
    BY <1>4 DEF IInv, TypeOK, DeletedMeansDone
  <2>4. QED
    BY <2>1, <2>2, <2>3 DEF IInv
<1>5. ASSUME \/ \E type \in Types : Register(type)
             \/ \E d \in Deliveries : VisibilityEnds(d)
             \/ UNCHANGED vars
      PROVE  IInv'
  BY <1>4, <1>5 DEF Register, VisibilityEnds, vars
<1>6. QED
  BY <1>1, <1>2, <1>3, <1>5 DEF Next

\* The invariant of the proof, on which the result below rests.
THEOREM Invariance == Spec => []IInv
BY InitEstablishes, NextKeeps, PTL DEF Spec

\* What the deliveries and the invocations are made of.
THEOREM TypeCorrectness == Spec => []TypeOK
<1>1. IInv => TypeOK
  BY DEF IInv
<1>2. QED
  BY Invariance, <1>1, PTL

\* A record is deleted from SQS, and a push or a direct call completed, only after
\* its handler has returned Ok (handle_sqs, aws_lambda.rs): for any deliveries in
\* any batches, any invocations at the same time, and any deaths among them.
THEOREM NothingLost == Spec => []DeletedMeansDone
<1>1. IInv => DeletedMeansDone
  BY DEF IInv
<1>2. QED
  BY Invariance, <1>1, PTL
=============================================================================
