--------------------------- MODULE FakeStoreProofs ---------------------------
(***************************************************************************)
(* Proofs about FakeStore, for all threads, types, queues and numbers of   *)
(* jobs: what the assertions of a test read is what the drains have done.  *)
(***************************************************************************)
EXTENDS FakeStore, TLAPS

States == {"available", "active", "completed", "discarded"}

JobRecords == [id : Nat, type : Types, queue : Queues, state : States, attempt : Nat]

TypeOK ==
    /\ enqueued \in Seq(JobRecords)
    /\ performed \in Seq(JobRecords)
    /\ nextId \in Nat
    /\ holder \in Threads \cup {None}
    /\ poisoned \in BOOLEAN
    /\ pc \in [Threads -> {"idle", "drain", "handler", "blocked", "dead"}]
    /\ at \in Nat \ {0}
    /\ upto \in Nat

\* The thread in a drain has the lock.
HolderInv == \A t \in Threads : pc[t] \in {"drain", "handler", "blocked"} <=> holder = t

\* The drain works through the jobs there were, leaves settled ones behind, and
\* has one active just while its handler runs.
DrainInv ==
    holder # None =>
        /\ upto = Len(enqueued)
        /\ at <= upto + 1
        /\ at - 1 <= Len(performed)
        /\ pc[holder] = "drain" => \A i \in DOMAIN enqueued : enqueued[i].state # "active"
        /\ pc[holder] # "drain" => at <= upto /\ enqueued[at].state = "active"

IInv == TypeOK /\ HolderInv /\ DrainInv /\ PerformedIsSettled

-----------------------------------------------------------------------------
(* Records and places *)

\* The jobs are well-typed records, and the performed ones come first.
LEMMA JobShape ==
    ASSUME IInv
    PROVE  /\ Len(enqueued) \in Nat /\ DOMAIN enqueued = 1..Len(enqueued)
           /\ Len(performed) \in Nat /\ DOMAIN performed = 1..Len(performed)
           /\ Len(performed) <= Len(enqueued)
           /\ \A i \in 1..Len(enqueued) :
                 /\ enqueued[i] \in JobRecords
                 /\ enqueued[i].state \in States
                 /\ enqueued[i].attempt \in Nat
<1>1. enqueued \in Seq(JobRecords) /\ performed \in Seq(JobRecords)
  BY DEF IInv, TypeOK
<1>2. \A i \in 1..Len(enqueued) : enqueued[i] \in JobRecords
  BY <1>1
<1>3. \A j \in JobRecords : j.state \in States /\ j.attempt \in Nat
  BY DEF JobRecords
<1>4. \A i \in 1..Len(performed) : i \in 1..Len(enqueued)
  BY <1>1 DEF IInv, PerformedIsSettled
<1>5. Len(performed) <= Len(enqueued)
  BY <1>1, <1>4
<1>6. QED
  BY <1>1, <1>2, <1>3, <1>5

\* The job at the drain's index, when it is not settled, is the first that is not.
LEMMA DrainIndex ==
    ASSUME IInv, holder # None, at <= upto,
           enqueued[at].state \notin {"completed", "discarded"}
    PROVE  at \in 1..Len(enqueued) /\ Len(performed) = at - 1
<1>1. at \in Nat \ {0} /\ upto = Len(enqueued) /\ at - 1 <= Len(performed)
  BY DEF IInv, TypeOK, DrainInv
<1>2. at \in DOMAIN enqueued
  BY <1>1, JobShape
<1>3. at \notin DOMAIN performed
  BY <1>2 DEF IInv, PerformedIsSettled
<1>4. QED
  BY <1>1, <1>2, <1>3, JobShape

\* The job that the drain takes is tried for the first time.
LEMMA AttemptedShape ==
    ASSUME IInv, holder # None, at <= upto, enqueued[at].state = "available"
    PROVE  Attempted \in JobRecords /\ Attempted.attempt = 1
<1> DEFINE j == enqueued[at]
<1>1. at \in 1..Len(enqueued)
  BY DrainIndex
<1>2. j \in JobRecords /\ j.attempt = 0
  BY <1>1, JobShape DEF IInv, PerformedIsSettled
<1>3. Attempted = [j EXCEPT !.attempt = 1]
  BY <1>2 DEF Attempted
<1> HIDE DEF j
<1>4. QED
  BY <1>2, <1>3 DEF JobRecords

\* A job keeps its shape in another state.
LEMMA RestatedJob ==
    ASSUME NEW j \in JobRecords, NEW s \in States
    PROVE  /\ [j EXCEPT !.state = s] \in JobRecords
           /\ [j EXCEPT !.state = s].state = s
           /\ [j EXCEPT !.state = s].attempt = j.attempt
BY DEF JobRecords

-----------------------------------------------------------------------------
(* What each kind of step does to the invariant *)

\* The job at the index is settled, and its copy goes to the performed ones.
LEMMA SettleKeeps ==
    ASSUME IInv, NEW t \in Threads, holder = t, at <= upto,
           enqueued[at].state \notin {"completed", "discarded"},
           NEW j \in JobRecords, j.state \in {"completed", "discarded"}, j.attempt = 1,
           Settle(t, j)
    PROVE  IInv'
<1>1. /\ enqueued' = [enqueued EXCEPT ![at] = j] /\ performed' = Append(performed, j)
      /\ at' = at + 1 /\ pc' = [pc EXCEPT ![t] = "drain"]
      /\ UNCHANGED <<nextId, holder, poisoned, upto>>
  BY DEF Settle
<1>2. t # None /\ holder # None
  BY NoneAssumption
<1>3. at \in 1..Len(enqueued) /\ Len(performed) = at - 1 /\ at \in Nat
  BY <1>2, DrainIndex
<1>4. /\ enqueued' \in Seq(JobRecords) /\ Len(enqueued') = Len(enqueued)
      /\ enqueued'[at] = j /\ \A i \in 1..Len(enqueued) : i # at => enqueued'[i] = enqueued[i]
      /\ DOMAIN enqueued' = 1..Len(enqueued)
  BY <1>1, <1>3 DEF IInv, TypeOK
<1>5. /\ performed' \in Seq(JobRecords) /\ Len(performed') = at
      /\ performed'[at] = j /\ \A i \in 1..(at - 1) : performed'[i] = performed[i]
      /\ DOMAIN performed' = 1..at
  BY <1>1, <1>3 DEF IInv, TypeOK
<1>6. TypeOK'
  BY <1>1, <1>3, <1>4, <1>5 DEF IInv, TypeOK
<1>7. HolderInv'
  BY <1>1 DEF IInv, TypeOK, HolderInv
<1>8. \A i \in 1..Len(enqueued) : i # at => enqueued[i].state # "active"
  BY JobShape DEF IInv, PerformedIsSettled
<1>9. pc'[holder'] = "drain"
  BY <1>1 DEF IInv, TypeOK
<1>10. DrainInv'
  <2>1. \A i \in DOMAIN enqueued' : enqueued'[i].state # "active"
    BY <1>4, <1>8
  <2>2. upto' = Len(enqueued') /\ at' <= upto' + 1 /\ at' - 1 <= Len(performed')
    BY <1>1, <1>2, <1>3, <1>4, <1>5 DEF IInv, DrainInv, TypeOK
  <2>3. QED
    BY <2>1, <2>2, <1>9 DEF DrainInv
<1>11. PerformedIsSettled'
  <2>1. ASSUME NEW i \in DOMAIN performed'
        PROVE  i \in DOMAIN enqueued' /\ performed'[i] = enqueued'[i]
    <3>1. CASE i = at
      BY <3>1, <1>3, <1>4, <1>5
    <3>2. CASE i # at
      <4>1. i \in 1..(at - 1) /\ i \in 1..Len(enqueued) /\ i \in DOMAIN performed
        BY <3>2, <1>3, <1>5, JobShape
      <4>2. performed[i] = enqueued[i]
        BY <4>1 DEF IInv, PerformedIsSettled
      <4>3. QED
        BY <3>2, <4>1, <4>2, <1>4, <1>5
    <3>3. QED
      BY <3>1, <3>2
  <2>2. ASSUME NEW i \in DOMAIN enqueued'
        PROVE  /\ enqueued'[i].state \in {"completed", "discarded"} <=> i \in DOMAIN performed'
               /\ enqueued'[i].attempt = IF enqueued'[i].state = "available" THEN 0 ELSE 1
               /\ enqueued'[i].state # "active"
    <3>1. CASE i = at
      BY <3>1, <1>4, <1>5, <1>3
    <3>2. CASE i # at
      <4>1. i \in DOMAIN enqueued /\ enqueued'[i] = enqueued[i]
        BY <3>2, <1>4, JobShape
      <4>2. i \in DOMAIN performed' <=> i \in DOMAIN performed
        BY <3>2, <1>3, <1>4, <1>5, JobShape
      <4>3. QED
        BY <4>1, <4>2, <1>4, <1>8 DEF IInv, PerformedIsSettled
    <3>3. QED
      BY <3>1, <3>2
  <2>3. QED
    BY <2>1, <2>2 DEF PerformedIsSettled
<1>12. QED
  BY <1>6, <1>7, <1>10, <1>11 DEF IInv

\* The job at the index becomes active: it has been taken once.
LEMMA CallKeeps ==
    ASSUME IInv, NEW t \in Threads, CallHandler(t)
    PROVE  IInv'
<1> DEFINE j == [Attempted EXCEPT !.state = "active"]
<1>1. /\ enqueued' = [enqueued EXCEPT ![at] = j] /\ pc' = [pc EXCEPT ![t] = "handler"]
      /\ UNCHANGED <<performed, nextId, holder, poisoned, at, upto>>
      /\ pc[t] = "drain" /\ at <= upto /\ enqueued[at].state = "available"
  BY DEF CallHandler, Taking
<1>2. t # None /\ holder = t /\ holder # None
  BY <1>1, NoneAssumption DEF IInv, HolderInv
<1>3. at \in 1..Len(enqueued) /\ Len(performed) = at - 1 /\ at \in Nat
  BY <1>1, <1>2, DrainIndex
<1>4. j \in JobRecords /\ j.state = "active" /\ j.attempt = 1
  <2>1. Attempted \in JobRecords /\ Attempted.attempt = 1
    BY <1>1, <1>2, AttemptedShape DEF Taking
  <2>2. QED
    BY <2>1, RestatedJob DEF States
<1> HIDE DEF j
<1>5. /\ enqueued' \in Seq(JobRecords) /\ Len(enqueued') = Len(enqueued)
      /\ enqueued'[at] = j /\ \A i \in 1..Len(enqueued) : i # at => enqueued'[i] = enqueued[i]
      /\ DOMAIN enqueued' = 1..Len(enqueued)
  BY <1>1, <1>3, <1>4 DEF IInv, TypeOK
<1>6. TypeOK'
  BY <1>1, <1>5 DEF IInv, TypeOK
<1>7. HolderInv'
  BY <1>1 DEF IInv, TypeOK, HolderInv
<1>8. DrainInv'
  <2>1. pc'[holder'] = "handler"
    BY <1>1, <1>2 DEF IInv, TypeOK
  <2>2. QED
    BY <2>1, <1>1, <1>2, <1>4, <1>5 DEF IInv, DrainInv
<1>9. PerformedIsSettled'
  <2>1. ASSUME NEW i \in DOMAIN performed'
        PROVE  i \in DOMAIN enqueued' /\ performed'[i] = enqueued'[i]
    <3>1. i # at /\ i \in 1..Len(enqueued) /\ i \in DOMAIN performed
      BY <1>1, <1>3, JobShape
    <3>2. QED
      BY <3>1, <1>1, <1>5 DEF IInv, PerformedIsSettled
  <2>2. ASSUME NEW i \in DOMAIN enqueued'
        PROVE  /\ enqueued'[i].state \in {"completed", "discarded"} <=> i \in DOMAIN performed'
               /\ enqueued'[i].attempt = IF enqueued'[i].state = "available" THEN 0 ELSE 1
               /\ enqueued'[i].state = "active" => i = at' /\ holder' # None
    <3>1. CASE i = at
      BY <3>1, <1>1, <1>2, <1>3, <1>4, <1>5, JobShape
    <3>2. CASE i # at
      <4>1. i \in DOMAIN enqueued /\ enqueued'[i] = enqueued[i]
        BY <3>2, <1>5, JobShape
      <4>2. QED
        BY <3>2, <4>1, <1>1, <1>2 DEF IInv, PerformedIsSettled
    <3>3. QED
      BY <3>1, <3>2
  <2>3. QED
    BY <2>1, <2>2 DEF PerformedIsSettled
<1>10. QED
  BY <1>6, <1>7, <1>8, <1>9 DEF IInv

\* A settled job is passed over.
LEMMA SkipKeeps ==
    ASSUME IInv, NEW t \in Threads, Skip(t)
    PROVE  IInv'
<1>1. /\ at' = at + 1 /\ pc[t] = "drain" /\ at <= upto /\ enqueued[at].state # "available"
      /\ UNCHANGED <<enqueued, performed, handlers, nextId, holder, poisoned, pc, upto>>
  BY DEF Skip, storeVars
<1>2. holder = t /\ holder # None
  BY <1>1, NoneAssumption DEF IInv, HolderInv
<1>3. at \in 1..Len(enqueued) /\ upto = Len(enqueued)
      /\ \A i \in DOMAIN enqueued : enqueued[i].state # "active"
  BY <1>1, <1>2 DEF IInv, DrainInv, TypeOK
<1>4. at \in DOMAIN performed
  BY <1>1, <1>3, JobShape DEF IInv, PerformedIsSettled, States
<1>5. at' - 1 = at /\ at \in Nat
  BY <1>1 DEF IInv, TypeOK
<1>6. DrainInv'
  <2>1. at' <= upto + 1 /\ at' - 1 <= Len(performed)
    BY <1>1, <1>3, <1>4, <1>5, JobShape
  <2>2. pc[holder] = "drain"
    BY <1>1, <1>2
  <2>3. QED
    BY <2>1, <2>2, <1>1, <1>3 DEF DrainInv
<1>7. TypeOK' /\ HolderInv'
  BY <1>1, <1>5 DEF IInv, TypeOK, HolderInv
<1>8. PerformedIsSettled'
  BY <1>1, <1>3 DEF IInv, PerformedIsSettled
<1>9. QED
  BY <1>6, <1>7, <1>8 DEF IInv

\* A step of an operation that is not in a drain: the lists change together.
LEMMA LockedKeeps ==
    ASSUME IInv, NEW t \in Threads, Locked(t), UNCHANGED handlers \/ UNCHANGED <<enqueued, performed, nextId>>,
           \/ UNCHANGED <<enqueued, performed, nextId>>
           \/ enqueued' = <<>> /\ performed' = <<>> /\ UNCHANGED nextId
           \/ \E j \in JobRecords : /\ j.state = "available" /\ j.attempt = 0
                                   /\ enqueued' = Append(enqueued, j)
                                   /\ UNCHANGED performed /\ nextId' = nextId + 1
    PROVE  IInv'
<1>1. /\ holder = None /\ ~poisoned /\ UNCHANGED <<holder, poisoned, pc, at, upto>>
  BY DEF Locked
<1>2. HolderInv' /\ DrainInv'
  BY <1>1 DEF IInv, HolderInv, DrainInv
<1>3. CASE UNCHANGED <<enqueued, performed, nextId>>
  BY <1>1, <1>2, <1>3 DEF IInv, TypeOK, PerformedIsSettled
<1>4. CASE enqueued' = <<>> /\ performed' = <<>> /\ UNCHANGED nextId
  <2>1. enqueued' \in Seq(JobRecords) /\ performed' \in Seq(JobRecords)
        /\ DOMAIN enqueued' = {} /\ DOMAIN performed' = {}
    BY <1>4
  <2>2. TypeOK' /\ PerformedIsSettled'
    BY <1>1, <1>4, <2>1 DEF IInv, TypeOK, PerformedIsSettled
  <2>3. QED
    BY <1>2, <2>2 DEF IInv
<1>5. ASSUME NEW j \in JobRecords, j.state = "available", j.attempt = 0,
             enqueued' = Append(enqueued, j), UNCHANGED performed, nextId' = nextId + 1
      PROVE  IInv'
  <2>1. /\ enqueued' \in Seq(JobRecords) /\ Len(enqueued') = Len(enqueued) + 1
        /\ DOMAIN enqueued' = 1..(Len(enqueued) + 1)
        /\ enqueued'[Len(enqueued) + 1] = j
        /\ \A i \in 1..Len(enqueued) : enqueued'[i] = enqueued[i]
    BY <1>5 DEF IInv, TypeOK
  <2>2. TypeOK'
    BY <1>1, <1>5, <2>1 DEF IInv, TypeOK
  <2>3. ASSUME NEW i \in DOMAIN performed'
        PROVE  i \in DOMAIN enqueued' /\ performed'[i] = enqueued'[i]
    <3>1. performed' = performed /\ i \in DOMAIN performed
      BY <1>5
    <3>2. i \in DOMAIN enqueued /\ performed[i] = enqueued[i]
      BY <3>1 DEF IInv, PerformedIsSettled
    <3>3. i \in 1..Len(enqueued) /\ Len(enqueued) \in Nat
      BY <3>2, JobShape
    <3>4. i \in 1..(Len(enqueued) + 1)
      BY <3>3
    <3>5. QED
      BY <3>1, <3>2, <3>3, <3>4, <2>1
  <2>4. ASSUME NEW i \in DOMAIN enqueued'
        PROVE  /\ enqueued'[i].state \in {"completed", "discarded"} <=> i \in DOMAIN performed'
               /\ enqueued'[i].attempt = IF enqueued'[i].state = "available" THEN 0 ELSE 1
               /\ enqueued'[i].state # "active"
    <3>1. CASE i = Len(enqueued) + 1
      <4>1. enqueued'[i] = j /\ performed' = performed
        BY <3>1, <1>5, <2>1
      <4>2. i \notin DOMAIN performed
        BY <3>1, JobShape
      <4>3. QED
        BY <4>1, <4>2, <1>5
    <3>2. CASE i # Len(enqueued) + 1
      <4>1. i \in DOMAIN enqueued /\ enqueued'[i] = enqueued[i]
        BY <3>2, <2>1, JobShape
      <4>2. QED
        BY <4>1, <1>1, <1>5 DEF IInv, PerformedIsSettled
    <3>3. QED
      BY <3>1, <3>2
  <2>5. PerformedIsSettled'
    BY <2>3, <2>4 DEF PerformedIsSettled
  <2>6. QED
    BY <1>2, <2>2, <2>5 DEF IInv
<1>6. QED
  BY <1>3, <1>4, <1>5

\* A drain begins, with no job left active, or a thread stops for good.
LEMMA ThreadKeeps ==
    ASSUME IInv, NEW t \in Threads,
           DrainBegins(t) \/ DrainEnds(t) \/ HandlerPanics(t) \/ HandlerCallsStore(t)
               \/ PoisonedCall(t) \/ \E type \in Types : AssertionFails(t, type)
    PROVE  IInv'
<1>1. UNCHANGED <<enqueued, performed, nextId>> /\ t # None
  BY NoneAssumption DEF DrainBegins, DrainEnds, HandlerPanics, HandlerCallsStore, PoisonedCall,
     AssertionFails, storeVars
<1>2. CASE DrainBegins(t)
  <2>1. /\ pc[t] = "idle" /\ holder = None /\ ~poisoned /\ holder' = t /\ UNCHANGED poisoned
        /\ pc' = [pc EXCEPT ![t] = "drain"] /\ at' = 1 /\ upto' = Len(enqueued)
    BY <1>2 DEF DrainBegins
  <2>2. TypeOK'
    BY <1>1, <2>1, JobShape DEF IInv, TypeOK
  <2>3. HolderInv'
    BY <1>1, <2>1, NoneAssumption DEF IInv, TypeOK, HolderInv
  <2>4. \A i \in DOMAIN enqueued : enqueued[i].state # "active"
    BY <2>1 DEF IInv, PerformedIsSettled
  <2>5. pc'[holder'] = "drain" /\ at' <= upto' + 1 /\ at' - 1 <= Len(performed)
    BY <2>1, JobShape DEF IInv, TypeOK
  <2>6. DrainInv'
    BY <1>1, <2>1, <2>4, <2>5 DEF DrainInv
  <2>7. PerformedIsSettled'
    BY <1>1, <2>4 DEF IInv, PerformedIsSettled
  <2>8. QED
    BY <2>2, <2>3, <2>6, <2>7 DEF IInv
<1>3. CASE DrainEnds(t) \/ HandlerPanics(t)
  <2>1. /\ pc[t] \in {"drain", "handler"} /\ holder' = None /\ UNCHANGED <<at, upto>>
        /\ pc[t] = "drain" \/ poisoned' = TRUE
        /\ poisoned' \in {TRUE, poisoned}
    BY <1>3 DEF DrainEnds, HandlerPanics
  <2>2. PICK point \in {"idle", "dead"} : pc' = [pc EXCEPT ![t] = point]
    BY <1>3 DEF DrainEnds, HandlerPanics
  <2>3. holder = t
    BY <2>1 DEF IInv, HolderInv
  <2>4. TypeOK'
    BY <1>1, <2>1, <2>2 DEF IInv, TypeOK
  <2>5. HolderInv' /\ DrainInv'
    BY <1>1, <2>1, <2>2, <2>3, NoneAssumption DEF IInv, TypeOK, HolderInv, DrainInv
  <2>6. pc[t] = "drain" => \A i \in DOMAIN enqueued : enqueued[i].state # "active"
    BY <1>1, <2>3 DEF IInv, DrainInv
  <2>7. PerformedIsSettled'
    BY <1>1, <2>1, <2>6 DEF IInv, PerformedIsSettled
  <2>8. QED
    BY <2>4, <2>5, <2>7 DEF IInv
<1>4. CASE HandlerCallsStore(t)
  <2>1. /\ pc[t] = "handler" /\ pc' = [pc EXCEPT ![t] = "blocked"]
        /\ UNCHANGED <<holder, poisoned, at, upto>>
    BY <1>4 DEF HandlerCallsStore
  <2>2. holder = t /\ pc'[holder] = "blocked"
    BY <2>1 DEF IInv, HolderInv, TypeOK
  <2>3. TypeOK' /\ HolderInv'
    BY <1>1, <2>1 DEF IInv, TypeOK, HolderInv
  <2>4. DrainInv'
    BY <1>1, <2>1, <2>2 DEF IInv, DrainInv
  <2>5. PerformedIsSettled'
    BY <1>1, <2>1 DEF IInv, PerformedIsSettled
  <2>6. QED
    BY <2>3, <2>4, <2>5 DEF IInv
<1>5. CASE PoisonedCall(t) \/ \E type \in Types : AssertionFails(t, type)
  <2>1. /\ pc[t] = "idle" /\ holder = None /\ pc' = [pc EXCEPT ![t] = "dead"]
        /\ poisoned' = TRUE /\ UNCHANGED <<holder, at, upto>>
    BY <1>5 DEF PoisonedCall, AssertionFails, IInv, TypeOK
  <2>2. TypeOK' /\ HolderInv'
    BY <1>1, <2>1 DEF IInv, TypeOK, HolderInv
  <2>3. DrainInv' /\ PerformedIsSettled'
    BY <1>1, <2>1 DEF IInv, DrainInv, PerformedIsSettled
  <2>4. QED
    BY <2>2, <2>3 DEF IInv
<1>6. QED
  BY <1>2, <1>3, <1>4, <1>5

-----------------------------------------------------------------------------
(* The invariant *)

\* An empty store, and nobody has the lock.
LEMMA InitEstablishes == Init => IInv
<1> SUFFICES ASSUME Init PROVE IInv
  OBVIOUS
<1>1. <<>> \in Seq(JobRecords) /\ DOMAIN <<>> = {}
  OBVIOUS
<1>2. TypeOK
  <2>1. enqueued \in Seq(JobRecords) /\ performed \in Seq(JobRecords)
    BY <1>1 DEF Init
  <2>2. pc \in [Threads -> {"idle", "drain", "handler", "blocked", "dead"}]
    BY DEF Init
  <2>3. nextId \in Nat /\ at \in Nat \ {0} /\ upto \in Nat
    BY DEF Init
  <2>4. holder \in Threads \cup {None} /\ poisoned \in BOOLEAN
    BY DEF Init
  <2>5. QED
    BY <2>1, <2>2, <2>3, <2>4 DEF TypeOK
<1>3. HolderInv /\ DrainInv
  BY NoneAssumption DEF Init, HolderInv, DrainInv
<1>4. PerformedIsSettled
  BY <1>1 DEF Init, PerformedIsSettled
<1>5. QED
  BY <1>2, <1>3, <1>4 DEF IInv

\* Every step preserves it.
LEMMA NextKeeps == IInv /\ [Next]_vars => IInv'
<1> SUFFICES ASSUME IInv, [Next]_vars PROVE IInv'
  OBVIOUS
<1>1. ASSUME NEW t \in Threads, NEW type \in Types, NEW queue \in Queues,
             RecordEnqueue(t, type, queue)
      PROVE  IInv'
  <2> DEFINE j == [id |-> nextId', type |-> type, queue |-> queue,
                   state |-> "available", attempt |-> 0]
  <2>1. nextId' = nextId + 1 /\ nextId' \in Nat /\ enqueued' = Append(enqueued, j)
        /\ UNCHANGED <<performed, handlers>> /\ Locked(t)
    BY <1>1 DEF RecordEnqueue, IInv, TypeOK
  <2>2. j \in JobRecords /\ j.state = "available" /\ j.attempt = 0
    BY <2>1 DEF JobRecords, States
  <2> HIDE DEF j
  <2>3. QED
    BY <2>1, <2>2, LockedKeeps
<1>2. ASSUME NEW t \in Threads, ClearAll(t) \/ \E type \in Types : RegisterHandler(t, type)
      PROVE  IInv'
  BY <1>2, LockedKeeps DEF ClearAll, RegisterHandler
<1>3. ASSUME NEW t \in Threads,
             PoisonedCall(t) \/ DrainBegins(t) \/ \E type \in Types : AssertionFails(t, type)
      PROVE  IInv'
  BY <1>3, ThreadKeeps
<1>4. ASSUME NEW t \in Threads, DrainStep(t)
      PROVE  IInv'
  <2>1. CASE Skip(t)
    BY <2>1, SkipKeeps
  <2>2. CASE CallHandler(t)
    BY <2>2, CallKeeps
  <2>3. CASE CompleteUnhandled(t)
    <3>1. /\ pc[t] = "drain" /\ at <= upto /\ enqueued[at].state = "available"
          /\ Settle(t, [Attempted EXCEPT !.state = "completed"])
      BY <2>3 DEF CompleteUnhandled, Taking
    <3>2. holder = t /\ holder # None
      BY <3>1, NoneAssumption DEF IInv, HolderInv
    <3>3. Attempted \in JobRecords /\ Attempted.attempt = 1
      BY <3>1, <3>2, AttemptedShape
    <3>4. QED
      BY <3>1, <3>2, <3>3, RestatedJob, SettleKeeps DEF States
  <2>4. ASSUME NEW state \in {"completed", "discarded"}, HandlerReturns(t, state)
        PROVE  IInv'
    <3> DEFINE j == [enqueued[at] EXCEPT !.state = state]
    <3>1. pc[t] = "handler" /\ Settle(t, j)
      BY <2>4 DEF HandlerReturns
    <3>2. holder = t /\ holder # None
      BY <3>1, NoneAssumption DEF IInv, HolderInv
    <3>3. at <= upto /\ enqueued[at].state = "active"
      BY <3>1, <3>2 DEF IInv, DrainInv
    <3>4. at \in 1..Len(enqueued)
      BY <3>2, <3>3, DrainIndex
    <3>5. enqueued[at] \in JobRecords /\ enqueued[at].attempt = 1
      BY <3>3, <3>4, JobShape DEF IInv, PerformedIsSettled
    <3>6. j \in JobRecords /\ j.state = state /\ j.attempt = 1
      <4> DEFINE k == enqueued[at]
      <4>1. state \in States /\ k \in JobRecords /\ k.attempt = 1
        BY <3>5 DEF States
      <4> HIDE DEF k
      <4>2. [k EXCEPT !.state = state] \in JobRecords /\ [k EXCEPT !.state = state].state = state
            /\ [k EXCEPT !.state = state].attempt = k.attempt
        BY <4>1, RestatedJob
      <4>3. QED
        BY <4>1, <4>2 DEF k
    <3> HIDE DEF j
    <3>7. QED
      BY <3>1, <3>2, <3>3, <3>6, SettleKeeps
  <2>5. CASE HandlerPanics(t) \/ HandlerCallsStore(t) \/ DrainEnds(t)
    BY <2>5, ThreadKeeps
  <2>6. QED
    BY <1>4, <2>1, <2>2, <2>3, <2>4, <2>5 DEF DrainStep
<1>5. CASE Halted \/ UNCHANGED vars
  <2>1. UNCHANGED vars
    BY <1>5 DEF Halted
  <2>2. TypeOK' /\ HolderInv' /\ DrainInv' /\ PerformedIsSettled'
    BY <2>1 DEF vars, IInv, TypeOK, HolderInv, DrainInv, PerformedIsSettled
  <2>3. QED
    BY <2>2 DEF IInv
<1>6. QED
  BY <1>1, <1>2, <1>3, <1>4, <1>5 DEF Next

\* The invariant of the proof, on which the results below rest.
THEOREM Invariance == Spec => []IInv
BY InitEstablishes, NextKeeps, PTL DEF Spec

\* The mutex has one holder, and it is in a drain: whoever else is alive is idle.
THEOREM OneDrain == Spec => []HolderInv
<1>1. IInv => HolderInv
  BY DEF IInv
<1>2. QED
  BY Invariance, <1>1, PTL

\* What a test asserts on is what its drains have done (drain, testing.rs): the
\* performed jobs are the settled ones, each tried once, in the order they were
\* enqueued, whatever panics, comes back to the store or is cleared.
THEOREM PerformedSafety == Spec => []PerformedIsSettled
<1>1. IInv => PerformedIsSettled
  BY DEF IInv
<1>2. QED
  BY Invariance, <1>1, PTL
=============================================================================
