-------------------------- MODULE JobServiceProofs --------------------------
(***************************************************************************)
(* Proofs about Worker and about JobService, for every number of jobs,     *)
(* tasks and panics, every concurrency and batch cap, all replies,         *)
(* directives and losses.                                                  *)
(*                                                                         *)
(* The first part is about Worker alone and uses nothing of JobService.    *)
(* Its core is a counting argument: the cardinality of the set of tasks at *)
(* a given set of points changes by at most one in a step, and the         *)
(* counters of the code change with it.                                    *)
(*                                                                         *)
(* The second part: the worker and the server refine the worker alone,     *)
(* what the server calls completed has succeeded, and an undisturbed job   *)
(* keeps its lease and is run once at a time.                              *)
(***************************************************************************)
EXTENDS JobService, FiniteSetTheorems, TLAPS

\* Which points count, which hold a permit.
LEMMA PointFacts ==
  /\ Counted \subseteq Tracked /\ Tracked \subseteq Holding /\ Holding \subseteq Points
  /\ {"lookup", "handler", "report", "count"} \subseteq Counted
  /\ "untrack" \in Tracked /\ "untrack" \notin Counted
  /\ "release" \in Holding /\ "release" \notin Tracked
  /\ "idle" \in Points /\ "idle" \notin Holding
BY DEF Counted, Tracked, Holding, Points

-----------------------------------------------------------------------------
(* Counting tasks *)

At(f, S) == {t \in Tasks : f[t] \in S}

\* A task that goes from a point of S to a point outside it (or the other way
\* round) changes the number of tasks in S by one; any other move keeps it.
LEMMA MoveOut ==
  ASSUME NEW f, NEW S, NEW t \in Tasks, NEW v,
         f \in [Tasks -> Points], f[t] \in S, v \notin S, IsFiniteSet(At(f, S))
  PROVE  /\ IsFiniteSet(At([f EXCEPT ![t] = v], S))
         /\ Cardinality(At([f EXCEPT ![t] = v], S)) = Cardinality(At(f, S)) - 1
<1> DEFINE g == [f EXCEPT ![t] = v]
<1>1. At(g, S) = At(f, S) \ {t}
  BY DEF At
<1>2. t \in At(f, S)
  BY DEF At
<1>. QED  BY <1>1, <1>2, FS_RemoveElement

LEMMA MoveIn ==
  ASSUME NEW f, NEW S, NEW t \in Tasks, NEW v,
         f \in [Tasks -> Points], f[t] \notin S, v \in S, IsFiniteSet(At(f, S))
  PROVE  /\ IsFiniteSet(At([f EXCEPT ![t] = v], S))
         /\ Cardinality(At([f EXCEPT ![t] = v], S)) = Cardinality(At(f, S)) + 1
<1> DEFINE g == [f EXCEPT ![t] = v]
<1>1. At(g, S) = At(f, S) \cup {t}
  BY DEF At
<1>2. t \notin At(f, S)
  BY DEF At
<1>. QED  BY <1>1, <1>2, FS_AddElement

LEMMA MoveWithin ==
  ASSUME NEW f, NEW S, NEW t \in Tasks, NEW v,
         f \in [Tasks -> Points], f[t] \in S <=> v \in S
  PROVE  At([f EXCEPT ![t] = v], S) = At(f, S)
BY DEF At

-----------------------------------------------------------------------------
(* The inductive invariant *)

\* active_count covers every counted task, so that no fetch_sub underflows,
\* even after start() is over and aborted tasks have left their count behind.
CountCovers == activeCount >= Cardinality(TasksAt(Counted)) + InHand

\* The dispatch loop inserts the id of a job it has.
BatchInHand == pc = "insert" => batch # <<>>

HeldFinite == IsFiniteSet(TasksAt(Holding))

Counts ==
    /\ HeldFinite
    /\ PermitsConserved
    /\ CountCovers
    /\ CountAccurate

IInv == TypeOK /\ BatchInHand /\ Counts

\* The counted tasks are among those that hold a permit, hence finitely many.
LEMMA CountedFinite ==
  ASSUME HeldFinite
  PROVE  /\ IsFiniteSet(TasksAt(Counted))
         /\ Cardinality(TasksAt(Counted)) \in Nat
         /\ Cardinality(TasksAt(Holding)) \in Nat
         /\ Cardinality(TasksAt(Counted)) <= Cardinality(TasksAt(Holding))
<1>1. TasksAt(Counted) \subseteq TasksAt(Holding)
  BY PointFacts DEF TasksAt
<1>. QED  BY <1>1, FS_Subset, FS_CardinalityType DEF HeldFinite

LEMMA InitIInv == Init => IInv
<1> SUFFICES ASSUME Init PROVE IInv
  OBVIOUS
<1>1. TasksAt(Holding) = {} /\ TasksAt(Counted) = {}
  BY PointFacts DEF Init, TasksAt
<1>2. Counts
  <2>1. /\ IsFiniteSet(TasksAt(Holding))
        /\ Cardinality(TasksAt(Holding)) = 0
        /\ Cardinality(TasksAt(Counted)) = 0
    BY <1>1, FS_EmptySet
  <2>2. /\ permits = Concurrency /\ activeCount = 0 /\ panics = 0
        /\ InHand = 0
    BY DEF Init, InHand
  <2>. QED  BY <2>1, <2>2, ConcurrencyAssumption
            DEF Counts, HeldFinite, PermitsConserved, CountCovers, CountAccurate
<1>3. TypeOK
  <2>1. task \in [Tasks -> Points]
    BY PointFacts DEF Init
  <2>2. job \in [Tasks -> Jobs \cup {NoJob}]
    BY DEF Init
  <2>3. batch \in Seq(Jobs)
    BY DEF Init
  <2>. QED  BY <2>1, <2>2, <2>3, ConcurrencyAssumption DEF Init, TypeOK
<1>4. BatchInHand
  BY DEF Init, BatchInHand
<1>. QED  BY <1>2, <1>3, <1>4 DEF IInv

-----------------------------------------------------------------------------
(* The counting part is preserved *)

\* A step that moves no task and no counter, and leaves the dispatch loop as
\* full-handed as it was, keeps the counting invariant.
LEMMA CountsKept ==
  ASSUME Counts, UNCHANGED <<task, permits, activeCount, panics>>,
         InHand' = InHand, Over => Over'
  PROVE  Counts'
<1>1. TasksAt(Holding)' = TasksAt(Holding) /\ TasksAt(Counted)' = TasksAt(Counted)
  BY DEF TasksAt
<1>. QED  BY <1>1
     DEF Counts, HeldFinite, PermitsConserved, CountCovers, CountAccurate

\* Most steps of start(), of the heartbeat and of the environment are such.
LEMMA QuietStepKeepsCounts ==
  ASSUME Counts,
         \/ SeeShutdown \/ NoShutdownYet \/ ReadState \/ ReadCapacity
         \/ PollElapsed \/ IdleSeesShutdown \/ FetchStep \/ BatchDone \/ Reap
         \/ DrainDone \/ DrainExpired \/ DrainWaits \/ DrainReaps \/ DrainPolls
         \/ GraceExpires \/ CtrlC \/ HeartbeatStep \/ Terminated
  PROVE  Counts'
<1> DEFINE Kept == /\ UNCHANGED <<task, permits, activeCount, panics>>
                   /\ InHand' = InHand
                   /\ Over => Over'
<1>1. CASE SeeShutdown \/ NoShutdownYet \/ PollElapsed \/ IdleSeesShutdown \/ BatchDone
  <2>. Kept
    BY <1>1 DEF SeeShutdown, NoShutdownYet, PollElapsed, IdleSeesShutdown,
       BatchDone, poolVars, InHand, Over
  <2>. QED  BY CountsKept
<1>2. CASE ReadState \/ ReadCapacity
  <2>. Kept
    BY <1>2 DEF ReadState, ReadCapacity, poolVars, InHand, Over
  <2>. QED  BY CountsKept
<1>3. CASE FetchStep
  <2>. Kept
    BY <1>3 DEF FetchStep, FetchOk, FetchEmpty, FetchErr, FetchPanics, Abandon, poolVars,
       InHand, Over
  <2>. QED  BY CountsKept
<1>4. CASE Reap \/ DrainWaits \/ DrainReaps \/ DrainPolls
  <2>. Kept
    BY <1>4 DEF Reap, DrainWaits, DrainReaps, DrainPolls, poolVars, InHand, Over
  <2>. QED  BY CountsKept
<1>5. CASE DrainDone \/ DrainExpired
  <2>. Kept
    BY <1>5 DEF DrainDone, DrainExpired, Stop, poolVars, InHand, Over
  <2>. QED  BY CountsKept
<1>6. CASE GraceExpires \/ CtrlC \/ Terminated
  <2>. Kept
    BY <1>6 DEF GraceExpires, CtrlC, Terminated, poolVars, vars, InHand, Over
  <2>. QED  BY CountsKept
<1>7. CASE HeartbeatStep
  <2>. Kept
    BY <1>7 DEF HeartbeatStep, HeartbeatTick, HeartbeatReply, HeartbeatFails, HeartbeatPanics,
       HeartbeatSeesShutdown, poolVars, InHand, Over
  <2>. QED  BY CountsKept
<1>. QED  BY <1>1, <1>2, <1>3, <1>4, <1>5, <1>6, <1>7

\* The effect of a step that moves task t from a to b on both task counts.
LEMMA MoveCounts ==
  ASSUME TypeOK, HeldFinite, NEW t \in Tasks, NEW b \in Points,
         task' = [task EXCEPT ![t] = b]
  PROVE  /\ HeldFinite'
         /\ (task[t] \in Holding <=> b \in Holding) =>
              Cardinality(TasksAt(Holding))' = Cardinality(TasksAt(Holding))
         /\ (task[t] \in Holding /\ b \notin Holding) =>
              Cardinality(TasksAt(Holding))' = Cardinality(TasksAt(Holding)) - 1
         /\ (task[t] \notin Holding /\ b \in Holding) =>
              Cardinality(TasksAt(Holding))' = Cardinality(TasksAt(Holding)) + 1
         /\ (task[t] \in Counted <=> b \in Counted) =>
              Cardinality(TasksAt(Counted))' = Cardinality(TasksAt(Counted))
         /\ (task[t] \in Counted /\ b \notin Counted) =>
              Cardinality(TasksAt(Counted))' = Cardinality(TasksAt(Counted)) - 1
         /\ (task[t] \notin Counted /\ b \in Counted) =>
              Cardinality(TasksAt(Counted))' = Cardinality(TasksAt(Counted)) + 1
<1>1. task \in [Tasks -> Points]
  BY DEF TypeOK
<1>2. ASSUME NEW S, IsFiniteSet(TasksAt(S))
      PROVE  /\ IsFiniteSet(TasksAt(S)')
             /\ (task[t] \in S <=> b \in S) =>
                  Cardinality(TasksAt(S)') = Cardinality(TasksAt(S))
             /\ (task[t] \in S /\ b \notin S) =>
                  Cardinality(TasksAt(S)') = Cardinality(TasksAt(S)) - 1
             /\ (task[t] \notin S /\ b \in S) =>
                  Cardinality(TasksAt(S)') = Cardinality(TasksAt(S)) + 1
  <2>1. TasksAt(S) = At(task, S) /\ TasksAt(S)' = At([task EXCEPT ![t] = b], S)
    BY DEF TasksAt, At
  <2>2. CASE task[t] \in S /\ b \notin S
    <3>1. /\ IsFiniteSet(At([task EXCEPT ![t] = b], S))
          /\ Cardinality(At([task EXCEPT ![t] = b], S)) = Cardinality(At(task, S)) - 1
      BY <1>1, <1>2, <2>1, <2>2, MoveOut
    <3>. QED  BY <2>1, <2>2, <3>1
  <2>3. CASE task[t] \notin S /\ b \in S
    <3>1. /\ IsFiniteSet(At([task EXCEPT ![t] = b], S))
          /\ Cardinality(At([task EXCEPT ![t] = b], S)) = Cardinality(At(task, S)) + 1
      BY <1>1, <1>2, <2>1, <2>3, MoveIn
    <3>. QED  BY <2>1, <2>3, <3>1
  <2>4. CASE task[t] \in S <=> b \in S
    BY <1>1, <1>2, <2>1, <2>4, MoveWithin
  <2>. QED  BY <2>2, <2>3, <2>4
<1>3. IsFiniteSet(TasksAt(Holding)) /\ IsFiniteSet(TasksAt(Counted))
  BY CountedFinite DEF HeldFinite
<1>4. HeldFinite' /\ IsFiniteSet(TasksAt(Counted)')
  BY <1>2, <1>3 DEF HeldFinite
<1>. QED  BY <1>2, <1>3, <1>4

\* The steps of a task, each with what it does to the two counts.
LEMMA TaskStepKeepsCounts ==
  ASSUME TypeOK, Counts, NEW t \in Tasks,
         TaskStep(t) \/ HandlerReturns(t) \/ TaskPanics(t)
  PROVE  Counts'
<1> DEFINE H == Cardinality(TasksAt(Holding))
           C == Cardinality(TasksAt(Counted))
<1>1. H \in Nat /\ C \in Nat /\ IsFiniteSet(TasksAt(Holding))
  BY CountedFinite DEF Counts, HeldFinite
<1>2. /\ permits \in Nat /\ activeCount \in Nat /\ panics \in Nat
      /\ task[t] \in Points
  BY DEF TypeOK
<1>3. UNCHANGED pc
  BY DEF TaskStep, HandlerFound, HandlerMissing, HandlerReturns, TaskPanics, HandlerPanics,
     ReportPanics, Unwind, Reported, CountDown, Untrack, Release, TaskAborted, TaskFrame
<1>4. InHand' = InHand /\ InHand \in {0, 1} /\ (Over <=> Over')
  BY <1>3 DEF InHand, Over
<1>5. CASE HandlerFound(t) \/ HandlerMissing(t) \/ HandlerReturns(t) \/ Reported(t)
  <2>1. PICK b \in Counted : task' = [task EXCEPT ![t] = b] /\ task[t] \in Counted
    BY <1>5 DEF HandlerFound, HandlerMissing, HandlerReturns, Reported, Goto, Counted
  <2>2. HeldFinite' /\ H' = H /\ C' = C
    BY <2>1, MoveCounts, PointFacts DEF Counts
  <2>3. UNCHANGED <<permits, activeCount, panics>>
    BY <1>5 DEF HandlerFound, HandlerMissing, HandlerReturns, Reported
  <2>. QED  BY <1>4, <2>2, <2>3 DEF Counts, PermitsConserved, CountCovers, CountAccurate
<1>6. CASE TaskPanics(t)
  <2>1. /\ task' = [task EXCEPT ![t] = "idle"] /\ task[t] \in Counted
        /\ permits' = permits + 1 /\ panics' = panics + 1 /\ UNCHANGED activeCount
    BY <1>6, PointFacts DEF TaskPanics, HandlerPanics, ReportPanics, Unwind, Leave
  <2>2. HeldFinite' /\ H' = H - 1 /\ C' = C - 1
    BY <2>1, MoveCounts, PointFacts DEF Counts
  <2>. QED  BY <1>1, <1>2, <1>4, <2>1, <2>2
            DEF Counts, PermitsConserved, CountCovers, CountAccurate
<1>7. CASE CountDown(t)
  <2>1. /\ task' = [task EXCEPT ![t] = "untrack"] /\ task[t] = "count"
        /\ activeCount' = activeCount - 1 /\ UNCHANGED <<permits, panics>>
    BY <1>7 DEF CountDown, Goto
  <2>2. HeldFinite' /\ H' = H /\ C' = C - 1
    BY <2>1, MoveCounts, PointFacts DEF Counts
  <2>. QED  BY <1>1, <1>2, <1>4, <2>1, <2>2
            DEF Counts, PermitsConserved, CountCovers, CountAccurate
<1>8. CASE Untrack(t)
  <2>1. /\ task' = [task EXCEPT ![t] = "release"] /\ task[t] = "untrack"
        /\ UNCHANGED <<permits, activeCount, panics>>
    BY <1>8 DEF Untrack, Goto
  <2>2. HeldFinite' /\ H' = H /\ C' = C
    BY <2>1, MoveCounts, PointFacts DEF Counts
  <2>. QED  BY <1>4, <2>1, <2>2
            DEF Counts, PermitsConserved, CountCovers, CountAccurate
<1>9. CASE Release(t)
  <2>1. /\ task' = [task EXCEPT ![t] = "idle"] /\ task[t] = "release"
        /\ permits' = permits + 1 /\ UNCHANGED <<activeCount, panics>>
    BY <1>9 DEF Release, Leave
  <2>2. HeldFinite' /\ H' = H - 1 /\ C' = C
    BY <2>1, MoveCounts, PointFacts DEF Counts
  <2>. QED  BY <1>1, <1>2, <1>4, <2>1, <2>2
            DEF Counts, PermitsConserved, CountCovers, CountAccurate
<1>10. CASE TaskAborted(t)
  <2>1. /\ task' = [task EXCEPT ![t] = "idle"] /\ task[t] \in Tracked /\ Over
        /\ permits' = permits + 1 /\ UNCHANGED <<activeCount, panics>>
    BY <1>10, PointFacts DEF TaskAborted, Leave
  <2>2. HeldFinite' /\ H' = H - 1 /\ (C' = C \/ C' = C - 1)
    BY <2>1, MoveCounts, PointFacts DEF Counts
  <2>. QED  BY <1>1, <1>2, <1>4, <2>1, <2>2
            DEF Counts, PermitsConserved, CountCovers, CountAccurate
<1>. QED  BY <1>5, <1>6, <1>7, <1>8, <1>9, <1>10 DEF TaskStep

\* Dispatch: a permit and a count are taken in hand, then handed to the task;
\* dropping the future at that very point returns the permit only.
LEMMA DispatchKeepsCounts ==
  ASSUME TypeOK, Counts, Acquire \/ (\E t \in Tasks : Spawn(t)) \/ Cancel
  PROVE  Counts'
<1> DEFINE H == Cardinality(TasksAt(Holding))
           C == Cardinality(TasksAt(Counted))
<1>1. H \in Nat /\ C \in Nat
  BY CountedFinite DEF Counts
<1>2. permits \in Nat /\ activeCount \in Nat /\ panics \in Nat
  BY DEF TypeOK
<1>3. CASE Acquire
  <2>1. HeldFinite' /\ H' = H /\ C' = C
    BY <1>3 DEF Acquire, TasksAt, Counts, HeldFinite
  <2>2. /\ InHand = 0 /\ InHand' = 1 /\ ~Over /\ permits' = permits - 1
        /\ activeCount' = activeCount + 1 /\ UNCHANGED panics
    BY <1>3 DEF Acquire, InHand, Over
  <2>. QED  BY <1>1, <1>2, <2>1, <2>2
            DEF Counts, PermitsConserved, CountCovers, CountAccurate
<1>4. CASE \E t \in Tasks : Spawn(t)
  <2>1. PICK t \in Tasks : Spawn(t)
    BY <1>4
  <2>2. /\ task' = [task EXCEPT ![t] = "lookup"] /\ task[t] = "idle"
        /\ InHand = 1 /\ InHand' = 0 /\ ~Over /\ ~Over'
        /\ UNCHANGED <<permits, activeCount, panics>>
    BY <2>1 DEF Spawn, InHand, Over
  <2>3. HeldFinite' /\ H' = H + 1 /\ C' = C + 1
    BY <2>2, MoveCounts, PointFacts DEF Counts
  <2>. QED  BY <1>1, <1>2, <2>2, <2>3
            DEF Counts, PermitsConserved, CountCovers, CountAccurate
<1>5. CASE Cancel
  <2>1. HeldFinite' /\ H' = H /\ C' = C
    BY <1>5 DEF Cancel, Abandon, TasksAt, Counts, HeldFinite
  <2>2. /\ InHand' = 0 /\ Over' /\ permits' = permits + InHand
        /\ InHand \in {0, 1} /\ UNCHANGED <<activeCount, panics>>
    BY <1>2, <1>5 DEF Cancel, Abandon, InHand, Over
  <2>. QED  BY <1>1, <1>2, <2>1, <2>2
            DEF Counts, PermitsConserved, CountCovers, CountAccurate
<1>. QED  BY <1>3, <1>4, <1>5

\* Every step of the specification keeps the counting invariant.
LEMMA NextKeepsCounts ==
  ASSUME TypeOK, Counts, [Next]_vars
  PROVE  Counts'
<1>1. CASE Acquire \/ (\E t \in Tasks : Spawn(t)) \/ Cancel
  BY <1>1, DispatchKeepsCounts
<1>2. CASE \E t \in Tasks : TaskStep(t) \/ HandlerReturns(t) \/ TaskPanics(t)
  BY <1>2, TaskStepKeepsCounts
<1>3. CASE UNCHANGED vars
  <2>. /\ UNCHANGED <<task, permits, activeCount, panics>>
       /\ InHand' = InHand
       /\ Over => Over'
    BY <1>3 DEF vars, InHand, Over
  <2>. QED  BY CountsKept
<1>4. CASE ~(Acquire \/ (\E t \in Tasks : Spawn(t)) \/ Cancel)
           /\ ~(\E t \in Tasks : TaskStep(t) \/ HandlerReturns(t) \/ TaskPanics(t))
           /\ Next
  <2>. \/ SeeShutdown \/ NoShutdownYet \/ ReadState \/ ReadCapacity
       \/ PollElapsed \/ IdleSeesShutdown \/ FetchStep \/ BatchDone \/ Reap
       \/ DrainDone \/ DrainExpired \/ DrainWaits \/ DrainReaps \/ DrainPolls
       \/ GraceExpires \/ CtrlC \/ HeartbeatStep \/ Terminated
    BY <1>4 DEF Next, MainStep
  <2>. QED  BY QuietStepKeepsCounts
<1>. QED  BY <1>1, <1>2, <1>3, <1>4

-----------------------------------------------------------------------------
(* The types are preserved *)

\* A fetch reply is a sequence of jobs.
LEMMA ReplyType == ASSUME TypeOK, NEW reply \in Replies PROVE reply \in Seq(Jobs)
<1>1. PICK n \in 1..(fetchCount + Overfill) : reply \in [1..n -> Jobs]
  BY DEF Replies
<1>2. n \in Nat
  BY <1>1, OverfillAssumption DEF TypeOK
<1>. QED  BY <1>1, <1>2

\* The future of start() goes.
LEMMA AbandonType ==
  ASSUME TypeOK, Abandon
  PROVE  TypeOK' /\ BatchInHand'
<1>1. permits' \in Nat
  BY DEF TypeOK, Abandon
<1>2. pc' = "cancelled" /\ batch' = <<>> /\ fetchCount' = 0 /\ batch' \in Seq(Jobs)
  BY DEF Abandon
<1>3. /\ UNCHANGED <<state, shutdown, graceOver, activeCount, activeJobs, finished>>
      /\ UNCHANGED <<task, job, panics, hb>>
  BY DEF Abandon, hbVars
<1>. QED  BY <1>1, <1>2, <1>3 DEF TypeOK, BatchInHand

LEMMA TypeStep ==
  ASSUME TypeOK, BatchInHand, Counts, [Next]_vars
  PROVE  TypeOK' /\ BatchInHand'
<1> USE DEF TypeOK, BatchInHand
<1>1. CASE SeeShutdown \/ NoShutdownYet \/ PollElapsed \/ IdleSeesShutdown \/ BatchDone
  BY <1>1 DEF SeeShutdown, NoShutdownYet, PollElapsed, IdleSeesShutdown, BatchDone,
     mainVars, poolVars, hbVars
<1>2. CASE ReadState
  BY <1>2 DEF ReadState, mainVars, poolVars, hbVars
<1>3. CASE ReadCapacity
  BY <1>3, ConcurrencyAssumption, BatchCapAssumption
     DEF ReadCapacity, Capacity, poolVars, hbVars
<1>4. CASE FetchStep
  <2>1. CASE \E reply \in Replies : FetchOk(reply)
    BY <2>1, ReplyType DEF FetchOk, poolVars, hbVars
  <2>2. CASE FetchEmpty \/ FetchErr
    BY <2>2 DEF FetchEmpty, FetchErr, poolVars, hbVars
  <2>3. CASE FetchPanics
    <3>1. pc = "fetch" /\ Abandon
      BY <2>3 DEF FetchPanics
    <3>. QED  BY <3>1, AbandonType
  <2>. QED  BY <1>4, <2>1, <2>2, <2>3 DEF FetchStep
<1>5. CASE Acquire
  BY <1>5 DEF Acquire, mainVars, hbVars
<1>6. ASSUME NEW t \in Tasks, Spawn(t) PROVE TypeOK' /\ BatchInHand'
  <2>1. Head(batch) \in Jobs /\ Tail(batch) \in Seq(Jobs)
    BY <1>6 DEF Spawn
  <2>2. task' \in [Tasks -> Points] /\ job' \in [Tasks -> Jobs \cup {NoJob}]
    BY <1>6, <2>1, PointFacts DEF Spawn
  <2>. QED  BY <1>6, <2>1, <2>2 DEF Spawn, hbVars
<1>7. CASE Reap \/ DrainWaits \/ DrainReaps \/ DrainPolls
  BY <1>7 DEF Reap, DrainWaits, DrainReaps, DrainPolls, mainVars, poolVars, hbVars
<1>8. CASE DrainDone \/ DrainExpired
  BY <1>8 DEF DrainDone, DrainExpired, Stop, mainVars, poolVars
<1>9. CASE GraceExpires \/ CtrlC \/ Terminated \/ UNCHANGED vars
  <2>1. CASE GraceExpires \/ CtrlC
    BY <2>1 DEF GraceExpires, CtrlC, mainVars, poolVars, hbVars
  <2>2. CASE UNCHANGED vars
    BY <2>2 DEF vars
  <2>. QED  BY <1>9, <2>1, <2>2 DEF Terminated
<1>10. CASE Cancel
  <2>1. Abandon
    BY <1>10 DEF Cancel
  <2>. QED  BY <2>1, AbandonType
<1>11. CASE HeartbeatStep
  BY <1>11 DEF HeartbeatStep, HeartbeatTick, HeartbeatReply, HeartbeatFails, HeartbeatPanics,
     HeartbeatSeesShutdown, mainVars, poolVars
<1>12. ASSUME NEW t \in Tasks, TaskStep(t) \/ HandlerReturns(t) \/ TaskPanics(t)
       PROVE  TypeOK' /\ BatchInHand'
  <2>1. task' \in [Tasks -> Points] /\ job' \in [Tasks -> Jobs \cup {NoJob}]
    BY <1>12, PointFacts DEF TaskStep, HandlerFound, HandlerMissing, HandlerReturns,
       TaskPanics, HandlerPanics, ReportPanics, Unwind, Reported, CountDown, Untrack,
       Release, TaskAborted, Leave, Goto
  <2>2. activeCount' \in Nat
    <3>1. CASE CountDown(t)
      <4>1. t \in TasksAt(Counted)
        BY <3>1, PointFacts DEF CountDown, Goto, TasksAt
      <4>2. IsFiniteSet(TasksAt(Counted)) /\ Cardinality(TasksAt(Counted)) \in Nat
        BY CountedFinite DEF Counts
      <4>3. Cardinality(TasksAt(Counted)) # 0
        BY <4>1, <4>2, FS_EmptySet
      <4>4. activeCount >= 1
        BY <4>2, <4>3 DEF Counts, CountCovers, InHand
      <4>. QED  BY <3>1, <4>4 DEF CountDown
    <3>2. CASE ~CountDown(t)
      BY <1>12, <3>2 DEF TaskStep, HandlerFound, HandlerMissing, HandlerReturns, TaskPanics,
         HandlerPanics, ReportPanics, Unwind, Reported, Untrack, Release, TaskAborted
    <3>. QED  BY <3>1, <3>2
  <2>3. /\ permits' \in Nat /\ finished' \in Nat /\ panics' \in Nat
        /\ activeJobs' \subseteq Jobs
    BY <1>12 DEF TaskStep, HandlerFound, HandlerMissing, HandlerReturns, TaskPanics,
       HandlerPanics, ReportPanics, Unwind, Reported, CountDown, Untrack, Release,
       TaskAborted, Leave
  <2>4. UNCHANGED <<state, shutdown, pc, graceOver, fetchCount, batch, hb>>
    BY <1>12 DEF TaskStep, HandlerFound, HandlerMissing, HandlerReturns, TaskPanics,
       HandlerPanics, ReportPanics, Unwind, Reported, CountDown, Untrack, Release,
       TaskAborted, TaskFrame, mainVars, hbVars
  <2>. QED  BY <2>1, <2>2, <2>3, <2>4
<1>. QED
  BY <1>1, <1>2, <1>3, <1>4, <1>5, <1>6, <1>7, <1>8, <1>9, <1>10, <1>11, <1>12
     DEF Next, MainStep

-----------------------------------------------------------------------------
(* The theorems *)

THEOREM Inductive == Spec => []IInv
<1>1. Init => IInv
  BY InitIInv
<1>2. IInv /\ [Next]_vars => IInv'
  BY NextKeepsCounts, TypeStep DEF IInv
<1>. QED  BY <1>1, <1>2, PTL DEF Spec

\* Every reachable state is well typed; in particular neither active_count nor
\* the semaphore is ever taken below zero (worker.rs 572-601).
THEOREM TypeCorrect == Spec => []TypeOK
<1>1. IInv => TypeOK
  BY DEF IInv
<1>. QED  BY <1>1, Inductive, PTL

\* No path through a job task, a panic, an abort or a dropped start() future
\* loses or duplicates a permit (worker.rs 572-603).
THEOREM PermitSafety == Spec => []PermitsConserved
<1>1. IInv => PermitsConserved
  BY DEF IInv, Counts
<1>. QED  BY <1>1, Inductive, PTL

\* Never more than `concurrency` jobs are in progress, however many jobs the
\* server returns (worker.rs 468, 571-604).
THEOREM ConcurrencySafety == Spec => []ConcurrencyRespected
<1>1. IInv => ConcurrencyRespected
  <2> SUFFICES ASSUME IInv PROVE ConcurrencyRespected
    OBVIOUS
  <2>1. /\ Cardinality(TasksAt(Counted)) \in Nat
        /\ Cardinality(TasksAt(Holding)) \in Nat
        /\ Cardinality(TasksAt(Counted)) <= Cardinality(TasksAt(Holding))
    BY CountedFinite DEF IInv, Counts
  <2>2. permits \in Nat /\ InHand \in Nat
    BY DEF IInv, TypeOK, InHand
  <2>. QED  BY <2>1, <2>2, ConcurrencyAssumption
            DEF IInv, Counts, PermitsConserved, ConcurrencyRespected
<1>. QED  BY <1>1, Inductive, PTL

\* While start() runs, active_count is off by exactly the number of tasks
\* that have panicked, in a handler or while reporting (worker.rs 579, 595).
THEOREM CountSafety == Spec => []CountAccurate
<1>1. IInv => CountAccurate
  BY DEF IInv, Counts
<1>. QED  BY <1>1, Inductive, PTL

-----------------------------------------------------------------------------
(* Dispatch never waits for user code *)

\* What a fetch asks for fits in the free capacity, and so does what is left
\* of its reply while the loop dispatches it: active_count can only fall
\* meanwhile, except for the loop's own increments.
FetchFits == pc = "fetch" => fetchCount + activeCount <= Concurrency

DispatchFits ==
    pc \in {"acquire", "insert"} => Len(batch) + activeCount - InHand <= Concurrency

BatchFits == Overfill = 0 => FetchFits /\ DispatchFits

\* A step of a task leaves start() alone and never raises active_count.
LEMMA TaskStepFrame ==
  ASSUME TypeOK, NEW t \in Tasks, TaskStep(t) \/ HandlerReturns(t) \/ TaskPanics(t)
  PROVE  UNCHANGED <<pc, fetchCount, batch>> /\ activeCount' <= activeCount
BY DEF TypeOK, TaskStep, HandlerFound, HandlerMissing, HandlerReturns, TaskPanics,
   HandlerPanics, ReportPanics, Unwind, Reported, CountDown, Untrack, Release, TaskAborted,
   TaskFrame, mainVars

LEMMA BatchFitsStep ==
  ASSUME IInv, BatchFits, [Next]_vars
  PROVE  BatchFits'
<1> SUFFICES ASSUME Overfill = 0 PROVE FetchFits' /\ DispatchFits'
  BY DEF BatchFits
<1>0. /\ TypeOK /\ TypeOK' /\ BatchInHand /\ FetchFits /\ DispatchFits
      /\ activeCount \in Nat /\ activeCount' \in Nat /\ fetchCount \in Nat
      /\ batch \in Seq(Jobs) /\ Len(batch) \in Nat
  BY TypeStep DEF IInv, TypeOK, BatchFits
<1>1. CASE ReadCapacity
  BY <1>0, <1>1, ConcurrencyAssumption, BatchCapAssumption
     DEF ReadCapacity, Capacity, poolVars, FetchFits, DispatchFits
<1>2. ASSUME NEW reply \in Replies, FetchOk(reply)
      PROVE  FetchFits' /\ DispatchFits'
  <2>1. PICK n \in 1..(fetchCount + Overfill) : reply \in [1..n -> Jobs]
    BY DEF Replies
  <2>2. n \in Nat /\ n <= fetchCount
    BY <1>0, <2>1
  <2>3. Len(reply) = n
    BY <2>1, <2>2
  <2>4. /\ pc = "fetch" /\ pc' = "acquire" /\ batch' = reply
        /\ activeCount' = activeCount /\ InHand' = 0
    BY <1>2 DEF FetchOk, poolVars, InHand
  <2>. QED  BY <1>0, <2>2, <2>3, <2>4, ConcurrencyAssumption DEF FetchFits, DispatchFits
<1>3. CASE Acquire
  <2>1. /\ pc = "acquire" /\ pc' = "insert" /\ batch' = batch
        /\ activeCount' = activeCount + 1 /\ InHand = 0 /\ InHand' = 1
    BY <1>3 DEF Acquire, mainVars, InHand
  <2>. QED  BY <1>0, <2>1, ConcurrencyAssumption DEF FetchFits, DispatchFits
<1>4. ASSUME NEW t \in Tasks, Spawn(t)
      PROVE  FetchFits' /\ DispatchFits'
  <2>1. Len(Tail(batch)) = Len(batch) - 1
    BY <1>0, <1>4 DEF Spawn, BatchInHand
  <2>2. /\ pc = "insert" /\ pc' = "acquire" /\ batch' = Tail(batch)
        /\ activeCount' = activeCount /\ InHand = 1 /\ InHand' = 0
    BY <1>4 DEF Spawn, InHand
  <2>. QED  BY <1>0, <2>1, <2>2, ConcurrencyAssumption DEF FetchFits, DispatchFits
<1>5. ASSUME NEW t \in Tasks, TaskStep(t) \/ HandlerReturns(t) \/ TaskPanics(t)
      PROVE  FetchFits' /\ DispatchFits'
  <2>1. /\ pc' = pc /\ fetchCount' = fetchCount /\ batch' = batch
        /\ activeCount' <= activeCount
    BY <1>0, <1>5, TaskStepFrame
  <2>2. InHand' = InHand /\ InHand \in Nat
    BY <2>1 DEF InHand
  <2>3. ASSUME pc' = "fetch"
        PROVE  fetchCount' + activeCount' <= Concurrency
    <3>1. fetchCount + activeCount <= Concurrency
      BY <1>0, <2>1, <2>3 DEF FetchFits
    <3>2. /\ activeCount \in Nat /\ activeCount' \in Nat /\ fetchCount \in Nat
          /\ fetchCount' = fetchCount /\ activeCount' <= activeCount
      BY <1>0, <2>1
    <3>3. \A f, a, b, c \in Nat : f + a <= c /\ b <= a => f + b <= c
      OBVIOUS
    <3>. QED  BY <3>1, <3>2, <3>3, ConcurrencyAssumption
  <2>4. ASSUME pc' \in {"acquire", "insert"}
        PROVE  Len(batch)' + activeCount' - InHand' <= Concurrency
    <3>1. Len(batch) + activeCount - InHand <= Concurrency
      BY <1>0, <2>1, <2>4 DEF DispatchFits
    <3>2. Len(batch)' = Len(batch)
      BY <2>1
    <3>. QED  BY <1>0, <2>1, <2>2, <3>1, <3>2, ConcurrencyAssumption
  <2>. QED  BY <2>3, <2>4 DEF FetchFits, DispatchFits
<1>6. CASE \/ SeeShutdown \/ NoShutdownYet \/ ReadState \/ PollElapsed
           \/ IdleSeesShutdown \/ FetchEmpty \/ FetchErr \/ FetchPanics \/ BatchDone \/ Reap
           \/ DrainDone \/ DrainExpired \/ DrainWaits \/ DrainReaps \/ DrainPolls \/ Cancel
  <2>. pc' \notin {"fetch", "acquire", "insert"}
    BY <1>6 DEF SeeShutdown, NoShutdownYet, ReadState, PollElapsed, IdleSeesShutdown,
       FetchEmpty, FetchErr, FetchPanics, Abandon, BatchDone, Reap, DrainDone, DrainExpired,
       DrainWaits, DrainReaps, DrainPolls, Cancel, Abandon, Stop
  <2>. QED  BY DEF FetchFits, DispatchFits
<1>7. CASE GraceExpires \/ CtrlC \/ HeartbeatStep \/ Terminated \/ UNCHANGED vars
  <2>. UNCHANGED <<pc, fetchCount, batch, activeCount>>
    BY <1>7 DEF GraceExpires, CtrlC, HeartbeatStep, HeartbeatTick, HeartbeatReply,
       HeartbeatFails, HeartbeatPanics, HeartbeatSeesShutdown, Terminated, vars, mainVars,
       poolVars
  <2>. QED  BY <1>0 DEF FetchFits, DispatchFits, InHand
<1>. QED
  BY <1>1, <1>2, <1>3, <1>4, <1>5, <1>6, <1>7 DEF Next, MainStep, FetchStep

\* When the server returns no more jobs than it was asked for, the dispatch
\* loop - which does not watch for shutdown - waits only for tasks that have
\* done everything but drop their permit (worker.rs 547-559, 571-575, 595-601).
THEOREM DispatchSafety == Spec => []DispatchWaitsOnlyForCleanup
<1>1. Init => BatchFits
  BY DEF Init, BatchFits, FetchFits, DispatchFits
<1>2. IInv /\ BatchFits => DispatchWaitsOnlyForCleanup
  <2> SUFFICES ASSUME IInv, BatchFits, Overfill = 0, pc = "acquire", batch # <<>>,
                      permits = 0, TasksAt({"untrack", "release"}) = {}
               PROVE  FALSE
    BY DEF DispatchWaitsOnlyForCleanup
  <2>1. TasksAt(Holding) = TasksAt(Counted)
    <3>1. Holding = Counted \cup {"untrack", "release"}
      BY DEF Holding, Tracked, Counted
    <3>. QED  BY <3>1 DEF TasksAt
  <2>2. Cardinality(TasksAt(Counted)) = Concurrency
    BY <2>1, CountedFinite, ConcurrencyAssumption
       DEF IInv, Counts, PermitsConserved, InHand
  <2>3. activeCount >= Concurrency
    BY <2>2, ConcurrencyAssumption DEF IInv, Counts, CountCovers, InHand
  <2>4. Len(batch) \in Nat \ {0}
    BY DEF IInv, TypeOK
  <2>. QED  BY <2>3, <2>4, ConcurrencyAssumption
            DEF BatchFits, DispatchFits, InHand, IInv, TypeOK
<1>3. IInv /\ BatchFits /\ [Next]_vars => BatchFits'
  BY BatchFitsStep
<1>. QED  BY <1>1, <1>2, <1>3, Inductive, PTL DEF Spec

-----------------------------------------------------------------------------
(* start() is a graceful pool *)

Phase == IF Over THEN "closed" ELSE IF Draining THEN "closing" ELSE "open"

LEMMA PoolInit == Init => Pool!Init
BY PointFacts DEF Init, Pool!Init, TasksAt, Over, Draining

\* Each step of the worker is a step of the pool or changes nothing of it.
LEMMA PoolStep ==
  ASSUME IInv, [Next]_vars, ~Cancellable, ~BadReplies
  PROVE  [Pool!Next]_(Pool!vars)
<1> DEFINE running == TasksAt(Counted)
<1>0. /\ task \in [Tasks -> Points] /\ IsFiniteSet(running)
      /\ permits \in Nat /\ activeCount \in Nat
      /\ Cardinality(running) \in Nat /\ Cardinality(TasksAt(Holding)) \in Nat
      /\ Cardinality(running) <= Cardinality(TasksAt(Holding))
  BY CountedFinite DEF IInv, TypeOK, Counts
<1>1. ASSUME UNCHANGED <<running, graceOver>>, Phase' = Phase
      PROVE  UNCHANGED Pool!vars
  BY <1>1 DEF Pool!vars, Phase
<1>2. CASE SeeShutdown \/ ReadState \/ IdleSeesShutdown
  <2>1. UNCHANGED <<running, graceOver>>
    BY <1>2 DEF SeeShutdown, ReadState, IdleSeesShutdown, poolVars, TasksAt
  <2>2. Phase = "open" /\ Phase' \in {"open", "closing"}
    BY <1>2 DEF SeeShutdown, ReadState, IdleSeesShutdown, Phase, Over, Draining
  <2>3. CASE Phase' = "open"
    BY <1>1, <2>1, <2>2, <2>3
  <2>4. CASE Phase' = "closing"
    <3>1. Pool!Close
      BY <2>1, <2>2, <2>4 DEF Pool!Close, Phase
    <3>. QED  BY <3>1 DEF Pool!Next
  <2>. QED  BY <2>2, <2>3, <2>4
<1>3. CASE \/ NoShutdownYet \/ ReadCapacity \/ PollElapsed \/ FetchStep \/ Acquire
           \/ BatchDone \/ Reap \/ DrainWaits \/ DrainReaps \/ DrainPolls
  <2>1. UNCHANGED <<running, graceOver>>
    BY <1>3 DEF NoShutdownYet, ReadCapacity, PollElapsed, FetchStep, FetchOk, FetchEmpty,
       FetchErr, FetchPanics, Abandon, Acquire, BatchDone, Reap, DrainWaits, DrainReaps,
       DrainPolls, poolVars, TasksAt
  <2>2. Phase' = Phase
    BY <1>3 DEF NoShutdownYet, ReadCapacity, PollElapsed, FetchStep, FetchOk, FetchEmpty,
       FetchErr, FetchPanics, Abandon, Acquire, BatchDone, Reap, DrainWaits, DrainReaps,
       DrainPolls, Phase, Over, Draining
  <2>. QED  BY <1>1, <2>1, <2>2
<1>4. ASSUME NEW t \in Tasks, Spawn(t)
      PROVE  [Pool!Next]_(Pool!vars)
  <2>1. task[t] = "idle" /\ task' = [task EXCEPT ![t] = "lookup"]
    BY <1>4 DEF Spawn
  <2>2. t \notin running /\ running' = running \cup {t}
    BY <1>0, <2>1, PointFacts DEF TasksAt
  <2>3. Cardinality(running) < Concurrency
    <3>1. permits + Cardinality(TasksAt(Holding)) + 1 = Concurrency
      BY <1>4 DEF Spawn, IInv, Counts, PermitsConserved, InHand
    <3>. QED  BY <1>0, <3>1, ConcurrencyAssumption
  <2>4. Phase = "open" /\ Phase' = Phase /\ UNCHANGED graceOver
    BY <1>4 DEF Spawn, Phase, Over, Draining
  <2>5. Pool!Cardinality(running) < Concurrency
    BY <2>3 DEF Cardinality, Pool!Cardinality
  <2>6. Pool!Start(t)
    BY <2>2, <2>4, <2>5 DEF Pool!Start, Phase
  <2>. QED  BY <2>6 DEF Pool!Next
<1>5. CASE DrainDone \/ DrainExpired
  <2>1. UNCHANGED <<running, graceOver>> /\ Phase = "closing" /\ Phase' = "closed"
    BY <1>5 DEF DrainDone, DrainExpired, Stop, poolVars, TasksAt, Phase, Over, Draining
  <2>2. running = {} \/ graceOver
    <3>1. CASE DrainDone
      <4>1. Cardinality(running) = 0
        <5>1. activeCount = 0 /\ InHand = 0
          BY <3>1 DEF DrainDone, InHand
        <5>2. activeCount >= Cardinality(running) + InHand
          BY DEF IInv, Counts, CountCovers
        <5>. QED  BY <1>0, <5>1, <5>2
      <4>. QED  BY <1>0, <4>1, FS_EmptySet
    <3>2. CASE DrainExpired
      BY <3>2 DEF DrainExpired
    <3>. QED  BY <1>5, <3>1, <3>2
  <2>3. Pool!Finish
    BY <2>1, <2>2 DEF Pool!Finish, Phase
  <2>. QED  BY <2>3 DEF Pool!Next
<1>6. CASE GraceExpires
  <2>1. UNCHANGED running /\ Phase = "closing" /\ Phase' = Phase
    BY <1>6 DEF GraceExpires, poolVars, TasksAt, Phase, Over, Draining
  <2>2. Pool!Expire
    BY <1>6, <2>1 DEF GraceExpires, Pool!Expire, Phase
  <2>. QED  BY <2>2 DEF Pool!Next
<1>7. CASE CtrlC \/ HeartbeatStep \/ Terminated \/ UNCHANGED vars
  <2>1. UNCHANGED <<running, graceOver>> /\ UNCHANGED pc
    BY <1>7 DEF CtrlC, HeartbeatStep, HeartbeatTick, HeartbeatReply, HeartbeatFails,
       HeartbeatPanics, HeartbeatSeesShutdown, Terminated, vars, poolVars, TasksAt
  <2>2. Phase' = Phase
    BY <2>1 DEF Phase, Over, Draining
  <2>. QED  BY <1>1, <2>1, <2>2
<1>8. ASSUME NEW t \in Tasks, TaskStep(t) \/ HandlerReturns(t) \/ TaskPanics(t)
      PROVE  [Pool!Next]_(Pool!vars)
  <2>1. PICK b \in Points : /\ task' = [task EXCEPT ![t] = b]
                            /\ task[t] \in Counted \/ b \notin Counted
    BY <1>8, PointFacts DEF TaskStep, HandlerFound, HandlerMissing, HandlerReturns,
       TaskPanics, HandlerPanics, ReportPanics, Unwind, Reported, CountDown, Untrack,
       Release, TaskAborted, Goto, Leave
  <2>2. UNCHANGED <<pc, graceOver>>
    BY <1>8 DEF TaskStep, HandlerFound, HandlerMissing, HandlerReturns, TaskPanics,
       HandlerPanics, ReportPanics, Unwind, Reported, CountDown, Untrack, Release,
       TaskAborted, TaskFrame
  <2>3. Phase' = Phase
    BY <2>2 DEF Phase, Over, Draining
  <2>4. CASE task[t] \in Counted /\ b \notin Counted
    <3>1. t \in running /\ running' = running \ {t}
      BY <1>0, <2>1, <2>4 DEF TasksAt
    <3>2. Pool!End(t)
      BY <2>2, <2>3, <3>1 DEF Pool!End, Phase
    <3>. QED  BY <3>2 DEF Pool!Next
  <2>5. CASE task[t] \in Counted <=> b \in Counted
    <3>1. running' = running
      BY <1>0, <2>1, <2>5 DEF TasksAt
    <3>. QED  BY <1>1, <2>2, <2>3, <3>1
  <2>. QED  BY <2>1, <2>4, <2>5
<1>. QED
  BY <1>2, <1>3, <1>4, <1>5, <1>6, <1>7, <1>8 DEF Next, MainStep, Cancel, Abandon

\* Unless its future is dropped or panics, start() implements the graceful pool: it never
\* runs more than `concurrency` jobs, starts none once it drains, and returns
\* only with every job ended or the grace period over (worker.rs 445-449,
\* 623-651).
THEOREM Graceful == ASSUME ~Cancellable, ~BadReplies PROVE Spec => GracefulShutdown
<1>1. Init => Pool!Init
  BY PoolInit
<1>2. IInv /\ [Next]_vars => [Pool!Next]_(Pool!vars)
  BY PoolStep
<1>. QED  BY <1>1, <1>2, Inductive, PTL DEF Spec, GracefulShutdown, Pool!Spec

-----------------------------------------------------------------------------
(* The JoinSet is bounded *)

\* Tasks in the JoinSet: those that run and those that ended unreaped.
JoinSize == finished + Cardinality(TasksAt(Holding))

\* Outside dispatch (and what may directly follow it) the JoinSet holds one
\* round of tasks at most, so that dispatch adds a second one at most.
JoinSetInv ==
    /\ pc \notin {"acquire", "insert"} => batch = <<>>
    /\ fetchCount <= Concurrency
    /\ pc \notin {"acquire", "insert", "reap", "cancelled"} => JoinSize <= Concurrency
    /\ JoinSize + Len(batch) <= 2 * Concurrency + Overfill

\* A task that ends goes from the running to the unreaped; none is added.
LEMMA TaskStepJoinSize ==
  ASSUME TypeOK, Counts, NEW t \in Tasks,
         TaskStep(t) \/ HandlerReturns(t) \/ TaskPanics(t)
  PROVE  JoinSize' <= JoinSize
<1> DEFINE H == Cardinality(TasksAt(Holding))
<1>1. H \in Nat /\ finished \in Nat
  BY CountedFinite DEF Counts, TypeOK
<1>2. CASE HandlerFound(t) \/ HandlerMissing(t) \/ HandlerReturns(t) \/ Reported(t)
           \/ CountDown(t) \/ Untrack(t)
  <2>1. PICK b \in Holding : task' = [task EXCEPT ![t] = b] /\ task[t] \in Holding
    BY <1>2, PointFacts DEF HandlerFound, HandlerMissing, HandlerReturns, Reported,
       CountDown, Untrack, Goto
  <2>2. H' = H
    BY <2>1, MoveCounts, PointFacts DEF Counts
  <2>3. finished' = finished
    BY <1>2 DEF HandlerFound, HandlerMissing, HandlerReturns, Reported, CountDown, Untrack
  <2>. QED  BY <1>1, <2>2, <2>3 DEF JoinSize
<1>3. CASE TaskPanics(t) \/ Release(t) \/ TaskAborted(t)
  <2>1. task' = [task EXCEPT ![t] = "idle"] /\ task[t] \in Holding
    BY <1>3, PointFacts DEF TaskPanics, HandlerPanics, ReportPanics, Unwind, Release,
       TaskAborted, Leave
  <2>2. H' = H - 1
    BY <2>1, MoveCounts, PointFacts DEF Counts
  <2>3. finished' = finished + 1 \/ finished' = finished
    BY <1>3 DEF TaskPanics, HandlerPanics, ReportPanics, Unwind, Release, TaskAborted
  <2>. QED  BY <1>1, <2>2, <2>3 DEF JoinSize
<1>. QED  BY <1>2, <1>3 DEF TaskStep

LEMMA JoinSetStep ==
  ASSUME IInv, IInv', JoinSetInv, [Next]_vars
  PROVE  JoinSetInv'
<1>0. /\ finished \in Nat /\ finished' \in Nat
      /\ Cardinality(TasksAt(Holding)) \in Nat /\ Cardinality(TasksAt(Holding))' \in Nat
      /\ fetchCount \in Nat /\ fetchCount' \in Nat
      /\ batch \in Seq(Jobs) /\ batch' \in Seq(Jobs)
      /\ Len(batch) \in Nat /\ Len(batch') \in Nat
  <2>1. TypeOK /\ TypeOK'
    BY DEF IInv
  <2>2. IsFiniteSet(TasksAt(Holding)) /\ IsFiniteSet(TasksAt(Holding)')
    BY DEF IInv, Counts, HeldFinite
  <2>3. Cardinality(TasksAt(Holding)) \in Nat /\ Cardinality(TasksAt(Holding))' \in Nat
    BY <2>2, FS_CardinalityType
  <2>. QED  BY <2>1, <2>3 DEF TypeOK
<1>1. JoinSize \in Nat /\ JoinSize' \in Nat
  BY <1>0 DEF JoinSize
<1>2. Cardinality(TasksAt(Holding)) <= Concurrency
  <2>1. permits \in Nat /\ InHand \in Nat
    BY DEF IInv, TypeOK, InHand
  <2>. QED  BY <1>0, <2>1, ConcurrencyAssumption DEF IInv, Counts, PermitsConserved
<1>3. CASE ReadCapacity
  <2>1. JoinSize' = JoinSize /\ batch' = batch /\ pc = "capacity" /\ pc' \in {"idle", "fetch"}
    BY <1>3 DEF ReadCapacity, poolVars, TasksAt, JoinSize
  <2>2. fetchCount' <= Concurrency
    BY <1>3, ConcurrencyAssumption, BatchCapAssumption
       DEF ReadCapacity, Capacity, IInv, TypeOK
  <2>. QED  BY <1>0, <2>1, <2>2 DEF JoinSetInv
<1>4. ASSUME NEW reply \in Replies, FetchOk(reply)
      PROVE  JoinSetInv'
  <2>1. PICK n \in 1..(fetchCount + Overfill) : reply \in [1..n -> Jobs]
    BY DEF Replies
  <2>2. n \in Nat /\ n <= Concurrency + Overfill
    BY <1>0, <2>1, OverfillAssumption, ConcurrencyAssumption DEF JoinSetInv
  <2>3. Len(reply) = n
    BY <2>1, <2>2
  <2>4. /\ pc = "fetch" /\ pc' = "acquire" /\ batch' = reply /\ fetchCount' = 0
        /\ JoinSize' = JoinSize
    BY <1>4 DEF FetchOk, poolVars, TasksAt, JoinSize
  <2>5. JoinSize <= Concurrency
    BY <2>4 DEF JoinSetInv
  <2>. QED  BY <1>1, <2>2, <2>3, <2>4, <2>5, ConcurrencyAssumption, OverfillAssumption
            DEF JoinSetInv
<1>5. ASSUME NEW t \in Tasks, Spawn(t)
      PROVE  JoinSetInv'
  <2>1. Len(Tail(batch)) = Len(batch) - 1
    BY <1>0, <1>5 DEF Spawn, IInv, BatchInHand
  <2>2. /\ pc = "insert" /\ pc' = "acquire" /\ batch' = Tail(batch)
        /\ UNCHANGED <<fetchCount, finished>>
        /\ task[t] = "idle" /\ task' = [task EXCEPT ![t] = "lookup"]
    BY <1>5 DEF Spawn
  <2>3. Cardinality(TasksAt(Holding))' = Cardinality(TasksAt(Holding)) + 1
    BY <2>2, MoveCounts, PointFacts DEF IInv, Counts
  <2>4. JoinSize' = JoinSize + 1
    BY <1>0, <2>2, <2>3 DEF JoinSize
  <2>. QED  BY <1>0, <1>1, <2>1, <2>2, <2>4, ConcurrencyAssumption, OverfillAssumption
            DEF JoinSetInv
<1>6. ASSUME NEW t \in Tasks, TaskStep(t) \/ HandlerReturns(t) \/ TaskPanics(t)
      PROVE  JoinSetInv'
  <2>1. JoinSize' <= JoinSize
    BY <1>6, TaskStepJoinSize DEF IInv
  <2>2. pc' = pc /\ fetchCount' = fetchCount /\ batch' = batch
    BY <1>6, TaskStepFrame DEF IInv
  <2>3. JoinSize' + Len(batch') <= 2 * Concurrency + Overfill
    <3>1. JoinSize + Len(batch) <= 2 * Concurrency + Overfill /\ Len(batch') = Len(batch)
      BY <2>2 DEF JoinSetInv
    <3>. QED  BY <1>0, <1>1, <2>1, <3>1, ConcurrencyAssumption, OverfillAssumption
  <2>4. JoinSize <= Concurrency => JoinSize' <= Concurrency
    BY <1>1, <2>1, ConcurrencyAssumption
  <2>5. pc' \notin {"acquire", "insert"} => batch' = <<>>
    BY <2>2 DEF JoinSetInv
  <2>6. fetchCount' <= Concurrency
    BY <2>2 DEF JoinSetInv
  <2>7. pc' \notin {"acquire", "insert", "reap", "cancelled"} => JoinSize' <= Concurrency
    BY <2>2, <2>4 DEF JoinSetInv
  <2>8. JoinSize' + Len(batch)' <= 2 * Concurrency + Overfill
    BY <2>3
  <2>. QED  BY <2>5, <2>6, <2>7, <2>8 DEF JoinSetInv
<1>7. CASE Reap
  <2>1. /\ pc = "reap" /\ finished' = 0 /\ UNCHANGED <<fetchCount, batch, task>>
    BY <1>7 DEF Reap, mainVars
  <2>2. JoinSize' <= Concurrency
    BY <1>0, <1>2, <2>1, ConcurrencyAssumption DEF JoinSize, TasksAt
  <2>3. batch' = <<>> /\ fetchCount' <= Concurrency
    BY <2>1 DEF JoinSetInv
  <2>4. Len(batch') = 0
    BY <2>3
  <2>5. JoinSize' + Len(batch') <= 2 * Concurrency + Overfill
    <3>1. \A j, l, c, o \in Nat : j <= c /\ l = 0 => j + l <= 2 * c + o
      OBVIOUS
    <3>. QED  BY <1>0, <1>1, <2>2, <2>4, <3>1, ConcurrencyAssumption, OverfillAssumption
  <2>. QED  BY <2>2, <2>3, <2>5 DEF JoinSetInv
<1>8. CASE DrainReaps
  <2>1. /\ pc = "drainWait" /\ pc' = "drain" /\ finished' = finished - 1
        /\ UNCHANGED <<fetchCount, batch, task>>
    BY <1>8 DEF DrainReaps, mainVars
  <2>2. JoinSize' = JoinSize - 1
    BY <1>0, <2>1 DEF JoinSize, TasksAt
  <2>. QED  BY <1>0, <1>1, <2>1, <2>2, ConcurrencyAssumption, OverfillAssumption
            DEF JoinSetInv
<1>9. CASE BatchDone
  <2>1. pc' = "reap" /\ batch = <<>> /\ UNCHANGED <<fetchCount, batch, task, finished>>
    BY <1>9 DEF BatchDone, mainVars, poolVars
  <2>2. JoinSize' = JoinSize
    BY <2>1 DEF JoinSize, TasksAt
  <2>. QED  BY <2>1, <2>2 DEF JoinSetInv
<1>10. CASE Acquire
  <2>1. /\ pc = "acquire" /\ pc' = "insert"
        /\ UNCHANGED <<fetchCount, batch, task, finished>>
    BY <1>10 DEF Acquire, mainVars
  <2>2. JoinSize' = JoinSize
    BY <2>1 DEF JoinSize, TasksAt
  <2>. QED  BY <2>1, <2>2 DEF JoinSetInv
<1>11. CASE Cancel \/ FetchPanics
  <2>1. /\ pc' = "cancelled" /\ batch' = <<>> /\ fetchCount' = 0
        /\ UNCHANGED <<task, finished>>
    BY <1>11 DEF Cancel, FetchPanics, Abandon
  <2>2. JoinSize' = JoinSize /\ Len(batch') = 0
    BY <2>1 DEF JoinSize, TasksAt
  <2>. QED  BY <1>0, <1>1, <2>1, <2>2, ConcurrencyAssumption, OverfillAssumption
            DEF JoinSetInv
<1>12. CASE \/ SeeShutdown \/ NoShutdownYet \/ ReadState \/ PollElapsed
            \/ IdleSeesShutdown \/ FetchEmpty \/ FetchErr
            \/ DrainDone \/ DrainExpired \/ DrainWaits \/ DrainPolls
  <2>1. /\ pc \notin {"acquire", "insert", "reap", "cancelled"}
        /\ pc' \notin {"acquire", "insert", "cancelled"}
        /\ UNCHANGED <<batch, task, finished>>
        /\ fetchCount' \in {0, fetchCount}
    BY <1>12 DEF SeeShutdown, NoShutdownYet, ReadState, PollElapsed, IdleSeesShutdown,
       FetchEmpty, FetchErr, FetchPanics, Abandon, DrainDone, DrainExpired, DrainWaits,
       DrainPolls, Stop, mainVars, poolVars
  <2>2. JoinSize' = JoinSize
    BY <2>1 DEF JoinSize, TasksAt
  <2>. QED  BY <2>1, <2>2, ConcurrencyAssumption DEF JoinSetInv
<1>13. CASE GraceExpires \/ CtrlC \/ HeartbeatStep \/ Terminated \/ UNCHANGED vars
  <2>1. UNCHANGED <<pc, fetchCount, batch, task, finished>>
    BY <1>13 DEF GraceExpires, CtrlC, HeartbeatStep, HeartbeatTick, HeartbeatReply,
       HeartbeatFails, HeartbeatPanics, HeartbeatSeesShutdown, Terminated, vars, mainVars,
       poolVars
  <2>2. JoinSize' = JoinSize
    BY <2>1 DEF JoinSize, TasksAt
  <2>. QED  BY <2>1, <2>2 DEF JoinSetInv
<1>. QED
  BY <1>3, <1>4, <1>5, <1>6, <1>7, <1>8, <1>9, <1>10, <1>11, <1>12, <1>13
     DEF Next, MainStep, FetchStep

\* The JoinSet never holds more than two rounds of tasks, although every idle
\* branch of the fetch loop skips the reaping (worker.rs 537-569, 615-620).
THEOREM JoinSetSafety == Spec => []JoinSetBounded
<1>1. Init => JoinSetInv
  <2> SUFFICES ASSUME Init PROVE JoinSetInv
    OBVIOUS
  <2>1. TasksAt(Holding) = {}
    BY PointFacts DEF Init, TasksAt
  <2>2. JoinSize = 0 /\ Len(batch) = 0
    BY <2>1, FS_EmptySet DEF JoinSize, Init
  <2>. QED  BY <2>2, ConcurrencyAssumption, OverfillAssumption DEF JoinSetInv, Init
<1>2. IInv /\ IInv' /\ JoinSetInv /\ [Next]_vars => JoinSetInv'
  BY JoinSetStep
<1>3. JoinSetInv => JoinSetBounded
  BY DEF JoinSetInv, JoinSize, JoinSetBounded
<1>. QED  BY <1>1, <1>2, <1>3, Inductive, PTL DEF Spec

-----------------------------------------------------------------------------
(* The tracked jobs *)

\* If the server does not hand out again a job that a task is still tracked
\* for, the jobs the worker has in hand are all different.
DistinctJobs ==
  RedeliverAt \cap Tracked = {} =>
    /\ \A t, u \in TasksAt(Tracked) : job[t] = job[u] => t = u
    /\ \A i, k \in DOMAIN batch : batch[i] = batch[k] => i = k
    /\ \A t \in TasksAt(Tracked), i \in DOMAIN batch : job[t] # batch[i]

TrackInv == DistinctJobs /\ TrackingExact

\* A step that keeps what the tracked tasks and the rest of the batch are.
LEMMA TrackKept ==
  ASSUME TrackInv, TasksAt(Tracked)' = TasksAt(Tracked),
         \A t \in TasksAt(Tracked) : job'[t] = job[t],
         batch' = batch \/ batch' = <<>>,
         activeJobs' = activeJobs, panics = 0 \/ panics' # 0, Over => Over'
  PROVE  TrackInv'
<1>1. \A i \in DOMAIN batch' : i \in DOMAIN batch /\ batch'[i] = batch[i]
  OBVIOUS
<1>2. DistinctJobs'
  BY <1>1 DEF TrackInv, DistinctJobs
<1>3. {job[t] : t \in TasksAt(Tracked)}' = {job[t] : t \in TasksAt(Tracked)}
  OBVIOUS
<1>4. TrackingExact'
  BY <1>3 DEF TrackInv, TrackingExact
<1>. QED  BY <1>2, <1>4 DEF TrackInv

LEMMA TrackFetch ==
  ASSUME TypeOK, TrackInv, NEW reply \in Replies, FetchOk(reply)
  PROVE  TrackInv'
<1>1. /\ batch' = reply /\ UNCHANGED <<task, job, activeJobs, panics>>
      /\ ~Over /\ ~Over' /\ Offered(reply)
  BY DEF FetchOk, poolVars, Over
<1>2. TasksAt(Tracked)' = TasksAt(Tracked)
  BY <1>1 DEF TasksAt
<1>3. DistinctJobs'
  BY <1>1, <1>2 DEF TrackInv, DistinctJobs, Offered, TasksAt
<1>4. TrackingExact'
  BY <1>1, <1>2 DEF TrackInv, TrackingExact
<1>. QED  BY <1>3, <1>4 DEF TrackInv

LEMMA TrackSpawn ==
  ASSUME IInv, TrackInv, NEW t \in Tasks, Spawn(t)
  PROVE  TrackInv'
<1>1. /\ batch \in Seq(Jobs) /\ batch # <<>>
      /\ task \in [Tasks -> Points] /\ job \in [Tasks -> Jobs \cup {NoJob}]
  BY DEF IInv, TypeOK, BatchInHand, Spawn
<1>2. /\ Head(batch) = batch[1] /\ 1 \in DOMAIN batch
      /\ \A i \in DOMAIN Tail(batch) :
            i + 1 \in DOMAIN batch /\ i + 1 # 1 /\ Tail(batch)[i] = batch[i + 1]
      /\ \A i \in DOMAIN Tail(batch) : i \in Nat
  BY <1>1
<1>3. /\ task[t] = "idle" /\ task' = [task EXCEPT ![t] = "lookup"]
      /\ job' = [job EXCEPT ![t] = batch[1]] /\ batch' = Tail(batch)
      /\ activeJobs' = activeJobs \cup {batch[1]} /\ panics' = panics
      /\ ~Over /\ ~Over'
  BY <1>2 DEF Spawn, Over
<1>4. t \notin TasksAt(Tracked) /\ TasksAt(Tracked)' = TasksAt(Tracked) \cup {t}
  BY <1>1, <1>3, PointFacts DEF TasksAt
<1>5. /\ job'[t] = batch[1]
      /\ \A u \in TasksAt(Tracked) : job'[u] = job[u]
  BY <1>1, <1>3, <1>4 DEF TasksAt
<1>6. DistinctJobs'
  <2> SUFFICES ASSUME RedeliverAt \cap Tracked = {}
               PROVE  /\ \A u, v \in TasksAt(Tracked)' : job'[u] = job'[v] => u = v
                      /\ \A i, k \in DOMAIN batch' : batch'[i] = batch'[k] => i = k
                      /\ \A u \in TasksAt(Tracked)', i \in DOMAIN batch' : job'[u] # batch'[i]
    BY DEF DistinctJobs
  <2>1. /\ \A u, v \in TasksAt(Tracked) : job[u] = job[v] => u = v
        /\ \A i, k \in DOMAIN batch : batch[i] = batch[k] => i = k
        /\ \A u \in TasksAt(Tracked), i \in DOMAIN batch : job[u] # batch[i]
    BY DEF TrackInv, DistinctJobs
  <2>2. \A u, v \in TasksAt(Tracked)' : job'[u] = job'[v] => u = v
    BY <1>2, <1>4, <1>5, <2>1
  <2>3. \A i, k \in DOMAIN batch' : batch'[i] = batch'[k] => i = k
    BY <1>2, <1>3, <2>1
  <2>4. \A u \in TasksAt(Tracked)', i \in DOMAIN batch' : job'[u] # batch'[i]
    BY <1>2, <1>3, <1>4, <1>5, <2>1
  <2>. QED  BY <2>2, <2>3, <2>4
<1>7. {job[u] : u \in TasksAt(Tracked)}'
        = {job[u] : u \in TasksAt(Tracked)} \cup {batch[1]}
  BY <1>4, <1>5
<1>8. TrackingExact'
  BY <1>3, <1>7 DEF TrackInv, TrackingExact
<1>. QED  BY <1>6, <1>8 DEF TrackInv

LEMMA TrackUntrack ==
  ASSUME TypeOK, TrackInv, NEW t \in Tasks, Untrack(t)
  PROVE  TrackInv'
<1>1. /\ task \in [Tasks -> Points]
      /\ task[t] = "untrack" /\ task' = [task EXCEPT ![t] = "release"]
      /\ UNCHANGED <<job, batch, panics, pc>>
      /\ activeJobs' = activeJobs \ {job[t]}
  BY DEF TypeOK, Untrack, Goto, TaskFrame, mainVars
<1>2. t \in TasksAt(Tracked) /\ TasksAt(Tracked)' = TasksAt(Tracked) \ {t}
  BY <1>1, PointFacts DEF TasksAt
<1>3. DistinctJobs'
  BY <1>1, <1>2 DEF TrackInv, DistinctJobs
<1>4. TrackingExact'
  <2> SUFFICES ASSUME RedeliverAt \cap Tracked = {}, panics = 0, ~Over
               PROVE  activeJobs' = {job[u] : u \in TasksAt(Tracked)'}
    BY <1>1 DEF TrackingExact, Over
  <2>1. activeJobs = {job[u] : u \in TasksAt(Tracked)}
    BY DEF TrackInv, TrackingExact
  <2>2. \A u \in TasksAt(Tracked) : job[u] = job[t] => u = t
    BY <1>2 DEF TrackInv, DistinctJobs
  <2>. QED  BY <1>1, <1>2, <2>1, <2>2
<1>. QED  BY <1>3, <1>4 DEF TrackInv

\* A task that ends while it is tracked panics, or is aborted once start() is
\* over: neither case is one in which the tracked set is claimed to be exact.
LEMMA TrackEnd ==
  ASSUME TypeOK, TrackInv, NEW t \in Tasks,
         TaskPanics(t) \/ Release(t) \/ TaskAborted(t)
  PROVE  TrackInv'
<1>1. /\ task \in [Tasks -> Points] /\ job \in [Tasks -> Jobs \cup {NoJob}]
      /\ task' = [task EXCEPT ![t] = "idle"] /\ job' = [job EXCEPT ![t] = NoJob]
      /\ UNCHANGED <<batch, activeJobs, pc>>
      /\ panics \in Nat /\ (panics' = panics \/ panics' = panics + 1)
  BY DEF TypeOK, TaskPanics, HandlerPanics, ReportPanics, Unwind, Release, TaskAborted,
     Leave, TaskFrame, mainVars
<1>2. TasksAt(Tracked)' = TasksAt(Tracked) \ {t}
  BY <1>1, PointFacts DEF TasksAt
<1>3. \A u \in TasksAt(Tracked)' : u \in TasksAt(Tracked) /\ job'[u] = job[u]
  BY <1>1, <1>2 DEF TasksAt
<1>4. CASE TaskPanics(t) \/ TaskAborted(t)
  <2>1. panics' # 0 \/ Over'
    BY <1>1, <1>4 DEF TaskPanics, HandlerPanics, ReportPanics, Unwind, TaskAborted, Over
  <2>2. DistinctJobs'
    BY <1>1, <1>3 DEF TrackInv, DistinctJobs
  <2>. QED  BY <2>1, <2>2 DEF TrackInv, TrackingExact
<1>5. CASE Release(t)
  <2>1. t \notin TasksAt(Tracked)
    BY <1>5, PointFacts DEF Release, TasksAt
  <2>2. panics' = panics /\ (Over => Over')
    BY <1>1, <1>5 DEF Release, Over
  <2>. QED  BY <1>1, <1>2, <1>3, <2>1, <2>2, TrackKept
<1>. QED  BY <1>4, <1>5

LEMMA TrackStep ==
  ASSUME IInv, TrackInv, [Next]_vars
  PROVE  TrackInv'
<1>0. TypeOK /\ task \in [Tasks -> Points]
  BY DEF IInv, TypeOK
<1>1. CASE \/ SeeShutdown \/ NoShutdownYet \/ ReadState \/ ReadCapacity \/ PollElapsed
           \/ IdleSeesShutdown \/ FetchEmpty \/ FetchErr \/ Acquire \/ BatchDone \/ Reap
           \/ DrainDone \/ DrainExpired \/ DrainWaits \/ DrainReaps \/ DrainPolls
  <2>1. /\ UNCHANGED <<task, job, batch, activeJobs, panics>>
        /\ Over => Over'
    BY <1>1 DEF SeeShutdown, NoShutdownYet, ReadState, ReadCapacity, PollElapsed,
       IdleSeesShutdown, FetchEmpty, FetchErr, Acquire, BatchDone, Reap, DrainDone,
       DrainExpired, DrainWaits, DrainReaps, DrainPolls, Stop, mainVars, poolVars, Over
  <2>2. TasksAt(Tracked)' = TasksAt(Tracked)
    BY <2>1 DEF TasksAt
  <2>. QED  BY <2>1, <2>2, TrackKept
<1>2. CASE \/ GraceExpires \/ CtrlC \/ HeartbeatStep \/ Cancel \/ FetchPanics
           \/ Terminated \/ UNCHANGED vars
  <2>1. /\ UNCHANGED <<task, job, activeJobs, panics>>
        /\ batch' = batch \/ batch' = <<>>
        /\ Over => Over'
    BY <1>2 DEF GraceExpires, CtrlC, HeartbeatStep, HeartbeatTick, HeartbeatReply,
       HeartbeatFails, HeartbeatPanics, HeartbeatSeesShutdown, Cancel, FetchPanics, Abandon,
       Terminated, vars, mainVars, poolVars, Over
  <2>2. TasksAt(Tracked)' = TasksAt(Tracked)
    BY <2>1 DEF TasksAt
  <2>. QED  BY <2>1, <2>2, TrackKept
<1>3. ASSUME NEW t \in Tasks,
             \/ HandlerFound(t) \/ HandlerMissing(t) \/ HandlerReturns(t)
             \/ Reported(t) \/ CountDown(t)
      PROVE  TrackInv'
  <2>1. PICK b \in Tracked : task' = [task EXCEPT ![t] = b] /\ task[t] \in Tracked
    BY <1>3, PointFacts DEF HandlerFound, HandlerMissing, HandlerReturns, Reported,
       CountDown, Goto
  <2>2. UNCHANGED <<job, batch, activeJobs, panics, pc>>
    BY <1>3 DEF HandlerFound, HandlerMissing, HandlerReturns, Reported, CountDown,
       TaskFrame, mainVars
  <2>3. TasksAt(Tracked)' = TasksAt(Tracked)
    BY <1>0, <2>1 DEF TasksAt
  <2>4. Over => Over'
    BY <2>2 DEF Over
  <2>. QED  BY <2>2, <2>3, <2>4, TrackKept
<1>4. ASSUME NEW reply \in Replies, FetchOk(reply)
      PROVE  TrackInv'
  BY <1>0, <1>4, TrackFetch
<1>5. ASSUME NEW t \in Tasks, Spawn(t)
      PROVE  TrackInv'
  BY <1>5, TrackSpawn
<1>6. ASSUME NEW t \in Tasks, Untrack(t)
      PROVE  TrackInv'
  BY <1>0, <1>6, TrackUntrack
<1>7. ASSUME NEW t \in Tasks, TaskPanics(t) \/ Release(t) \/ TaskAborted(t)
      PROVE  TrackInv'
  BY <1>0, <1>7, TrackEnd
<1>. QED
  BY <1>1, <1>2, <1>3, <1>4, <1>5, <1>6, <1>7 DEF Next, MainStep, FetchStep, TaskStep

\* As long as no job is handed out again while it is tracked and no handler
\* has panicked, active_jobs - which every heartbeat sends to the server - is
\* exactly the set of jobs in progress (worker.rs 486, 580-584, 596-599).
THEOREM TrackingSafety == Spec => []TrackingExact
<1>1. Init => TrackInv
  <2> SUFFICES ASSUME Init PROVE TrackInv
    OBVIOUS
  <2>1. TasksAt(Tracked) = {} /\ activeJobs = {} /\ DOMAIN batch = {}
    BY PointFacts DEF Init, TasksAt
  <2>. QED  BY <2>1 DEF TrackInv, DistinctJobs, TrackingExact
<1>2. TrackInv => TrackingExact
  BY DEF TrackInv
<1>3. IInv /\ TrackInv /\ [Next]_vars => TrackInv'
  BY TrackStep
<1>. QED  BY <1>1, <1>2, <1>3, Inductive, PTL DEF Spec

-----------------------------------------------------------------------------
(* The worker in the service is the Worker of its own module *)

\* Every step of the service is a step of the worker, or none of its business.
LEMMA ServiceStepIsWorkerStep == [ServiceNext]_allVars => [Next]_vars
<1> SUFFICES ASSUME [ServiceNext]_allVars PROVE [Next]_vars
  OBVIOUS
<1>1. CASE ServiceMainStep
  BY <1>1 DEF ServiceMainStep, StartStep, FetchFutile, FetchDelivered, FetchReplyLost, Next,
     MainStep, FetchStep
<1>2. ASSUME NEW t \in Tasks, ServiceTaskStep(t)
      PROVE  Next
  <2>1. TaskStep(t) \/ TaskPanics(t)
    BY <1>2 DEF ServiceTaskStep, NackMissing, ReportAnswered, ReportFails, AbortedReporting,
                Aborted, LocalTaskStep, TaskStep, TaskPanics
  <2>2. QED
    BY <2>1 DEF Next
<1>3. ASSUME NEW t \in Tasks, ReportPanicked(t) \/ \E report \in Reports : Returns(t, report)
      PROVE  Next
  BY <1>3 DEF ReportPanicked, TaskPanics, Returns, Next
<1>4. CASE Beat \/ HeartbeatPost \/ HeartbeatBroken \/ HeartbeatEnds
  BY <1>4 DEF Beat, HeartbeatPost, HeartbeatArrives, HeartbeatAnswered, HeartbeatLost,
              HeartbeatBroken, HeartbeatEnds, HeartbeatStep, Next
<1>5. CASE Elsewhere \/ Abandoned
  BY <1>5 DEF Elsewhere, Abandoned, MainStep, FetchStep, Next
<1>6. CASE \/ \E t \in Tasks : ContextHeartbeat(t) \/ ReportArrives(t) \/ ReportRepeated(t)
           \/ \E j \in Jobs, report \in Reports : LateArrives(j, report) \/ LateVanishes(j, report)
           \/ \E j \in Jobs : LeaseExpires(j) \/ BackoffEnds(j)
           \/ (\E reply \in Replies : FetchGranted(reply)) \/ FetchRepeated \/ Tick
  BY <1>6 DEF ContextHeartbeat, ReportArrives, ReportRepeated, LateArrives, LateVanishes,
              LeaseExpires, BackoffEnds, Free, Apply, FetchGranted, FetchRepeated, Tick
<1>7. CASE UNCHANGED allVars
  BY <1>7 DEF allVars
<1>8. QED
  BY <1>1, <1>2, <1>3, <1>4, <1>5, <1>6, <1>7 DEF ServiceNext

\* The server, the network and the leases add nothing to what the worker does:
\* all that is proved of Worker holds of the worker in the service.
THEOREM WorkerInService == ServiceSpec => Spec
<1>1. ServiceInit => Init
  BY DEF ServiceInit
<1>2. QED
  BY <1>1, ServiceStepIsWorkerStep, PTL DEF ServiceSpec, Spec

-----------------------------------------------------------------------------
(* What the worker's steps do to the jobs in hand *)

Running == {"lookup", "handler"}

\* A task has a job.
TasksHaveJobs == \A t \in TasksAt(Holding) : job[t] \in Jobs

\* Only the dispatch loop has jobs that no task has.
BatchDispatched == pc \notin {"acquire", "insert"} => batch = <<>>

HandInv == IInv /\ TasksHaveJobs /\ BatchDispatched

\* No task starts, and none changes its job; only a task that removes its id
\* shortens the list of active jobs.
Narrows ==
    /\ \A t \in Tasks : task'[t] # "idle" => task[t] # "idle" /\ job'[t] = job[t]
    /\ TasksAt(Tracked)' \subseteq TasksAt(Tracked)
    /\ TasksAt(Running)' \subseteq TasksAt(Running)
    /\ batch' \in {batch, <<>>}
    /\ \A j \in activeJobs \ activeJobs' :
          \E t \in TasksAt(Tracked) : job[t] = j /\ t \notin TasksAt(Tracked)'

\* Every step of the worker narrows what it has in hand, except the arrival of a
\* reply and the spawning of a task.
LEMMA WorkerStepShape ==
    ASSUME TypeOK, [Next]_vars
    PROVE  \/ Narrows
           \/ \E reply \in Replies : FetchOk(reply)
           \/ \E t \in Tasks : Spawn(t)
<1>0. task \in [Tasks -> Points] /\ job \in [Tasks -> Jobs \cup {NoJob}]
  BY DEF TypeOK
<1>1. ASSUME UNCHANGED <<task, job, activeJobs>>, batch' \in {batch, <<>>}
      PROVE  Narrows
  BY <1>1 DEF Narrows, TasksAt
<1>2. CASE \/ SeeShutdown \/ NoShutdownYet \/ ReadState \/ ReadCapacity \/ PollElapsed
           \/ IdleSeesShutdown \/ FetchEmpty \/ FetchErr \/ FetchPanics \/ Acquire
           \/ BatchDone \/ Reap
           \/ DrainDone \/ DrainExpired \/ DrainWaits \/ DrainReaps \/ DrainPolls
  BY <1>1, <1>2 DEF SeeShutdown, NoShutdownYet, ReadState, ReadCapacity, PollElapsed,
     IdleSeesShutdown, FetchEmpty, FetchErr, FetchPanics, Abandon, Acquire, BatchDone, Reap,
     DrainDone, DrainExpired, DrainWaits, DrainReaps, DrainPolls, Stop, mainVars, poolVars
<1>3. CASE GraceExpires \/ CtrlC \/ HeartbeatStep \/ Cancel \/ Terminated \/ UNCHANGED vars
  BY <1>1, <1>3 DEF GraceExpires, CtrlC, HeartbeatStep, HeartbeatTick, HeartbeatReply,
     HeartbeatFails, HeartbeatPanics, HeartbeatSeesShutdown, Cancel, Abandon, Terminated,
     vars, mainVars, poolVars
<1>4. ASSUME NEW t \in Tasks, TaskStep(t) \/ HandlerReturns(t) \/ TaskPanics(t)
      PROVE  Narrows
  <2>1. batch' = batch
    BY <1>4, TaskStepFrame
  <2>2. CASE HandlerFound(t) \/ HandlerMissing(t) \/ HandlerReturns(t) \/ Reported(t) \/ CountDown(t)
    <3>1. PICK b \in Tracked : /\ task' = [task EXCEPT ![t] = b] /\ task[t] \in Tracked
                               /\ b \in Running => task[t] \in Running
      BY <2>2, PointFacts DEF HandlerFound, HandlerMissing, HandlerReturns, Reported,
         CountDown, Goto, Running
    <3>2. UNCHANGED <<job, activeJobs>>
      BY <2>2 DEF HandlerFound, HandlerMissing, HandlerReturns, Reported, CountDown
    <3>3. task[t] # "idle"
      BY <3>1, PointFacts
    <3>4. QED
      BY <1>0, <2>1, <3>1, <3>2, <3>3 DEF Narrows, TasksAt
  <2>3. CASE Untrack(t)
    <3>1. /\ task[t] = "untrack" /\ task' = [task EXCEPT ![t] = "release"]
          /\ UNCHANGED job /\ activeJobs' = activeJobs \ {job[t]}
      BY <2>3 DEF Untrack, Goto
    <3>2. t \in TasksAt(Tracked) /\ t \notin TasksAt(Tracked)'
      BY <1>0, <3>1, PointFacts DEF TasksAt
    <3>3. TasksAt(Tracked)' \subseteq TasksAt(Tracked) /\ TasksAt(Running)' \subseteq TasksAt(Running)
      BY <1>0, <3>1, PointFacts DEF TasksAt, Running
    <3>4. QED
      BY <1>0, <2>1, <3>1, <3>2, <3>3 DEF Narrows
  <2>4. CASE TaskPanics(t) \/ Release(t) \/ TaskAborted(t)
    <3>1. /\ task' = [task EXCEPT ![t] = "idle"] /\ job' = [job EXCEPT ![t] = NoJob]
          /\ UNCHANGED activeJobs
      BY <2>4 DEF TaskPanics, HandlerPanics, ReportPanics, Unwind, Release, TaskAborted, Leave
    <3>2. TasksAt(Tracked)' \subseteq TasksAt(Tracked) /\ TasksAt(Running)' \subseteq TasksAt(Running)
      BY <1>0, <3>1, PointFacts DEF TasksAt, Running
    <3>3. QED
      BY <1>0, <2>1, <3>1, <3>2 DEF Narrows
  <2>5. QED
    BY <1>4, <2>2, <2>3, <2>4 DEF TaskStep
<1>5. QED
  BY <1>2, <1>3, <1>4 DEF Next, MainStep, FetchStep

\* The jobs of the tasks and the place of the batch.
LEMMA HandInvStep ==
    ASSUME HandInv, [Next]_vars
    PROVE  HandInv'
<1>1. IInv'
  BY NextKeepsCounts, TypeStep DEF HandInv, IInv
<1>2. TypeOK /\ TypeOK' /\ BatchInHand
  BY <1>1 DEF HandInv, IInv
<1>3. TasksHaveJobs'
  <2>1. CASE Narrows
    <3>1. ASSUME NEW t \in TasksAt(Holding)' PROVE job'[t] \in Jobs
      <4>1. t \in Tasks /\ task'[t] # "idle" /\ task[t] \in Points
        BY <1>2, PointFacts DEF TasksAt, TypeOK
      <4>2. task[t] # "idle" /\ job'[t] = job[t]
        BY <2>1, <4>1 DEF Narrows
      <4>3. t \in TasksAt(Holding)
        BY <4>1, <4>2 DEF TasksAt, Points
      <4>4. QED
        BY <4>2, <4>3 DEF HandInv, TasksHaveJobs
    <3>2. QED
      BY <3>1 DEF TasksHaveJobs
  <2>2. CASE \E reply \in Replies : FetchOk(reply)
    BY <2>2 DEF FetchOk, poolVars, HandInv, TasksHaveJobs, TasksAt
  <2>3. ASSUME NEW t \in Tasks, Spawn(t) PROVE TasksHaveJobs'
    <3>1. Head(batch) \in Jobs
      BY <1>2, <2>3 DEF Spawn, BatchInHand, TypeOK
    <3>2. \A u \in Tasks : u # t => task'[u] = task[u] /\ job'[u] = job[u]
      BY <1>2, <2>3 DEF Spawn, TypeOK
    <3>3. job'[t] = Head(batch)
      BY <1>2, <2>3 DEF Spawn, TypeOK
    <3>4. QED
      BY <3>1, <3>2, <3>3 DEF HandInv, TasksHaveJobs, TasksAt
  <2>4. QED
    BY <1>2, <2>1, <2>2, <2>3, WorkerStepShape
<1>4. BatchDispatched'
  <2>1. CASE \/ SeeShutdown \/ NoShutdownYet \/ ReadState \/ ReadCapacity \/ PollElapsed
             \/ IdleSeesShutdown \/ FetchStep \/ Acquire \/ BatchDone \/ Reap
             \/ DrainDone \/ DrainExpired \/ DrainWaits \/ DrainReaps \/ DrainPolls
    BY <2>1 DEF HandInv, BatchDispatched, SeeShutdown, NoShutdownYet, ReadState,
       ReadCapacity, PollElapsed, IdleSeesShutdown, FetchStep, FetchOk, FetchEmpty,
       FetchErr, FetchPanics, Abandon, Acquire, BatchDone, Reap, DrainDone, DrainExpired,
       DrainWaits, DrainReaps, DrainPolls, Stop, mainVars
  <2>2. CASE \E t \in Tasks : Spawn(t)
    BY <2>2 DEF Spawn, BatchDispatched
  <2>3. CASE GraceExpires \/ CtrlC \/ HeartbeatStep \/ Cancel \/ Terminated \/ UNCHANGED vars
    BY <2>3 DEF HandInv, BatchDispatched, GraceExpires, CtrlC, HeartbeatStep, HeartbeatTick,
       HeartbeatReply, HeartbeatFails, HeartbeatPanics, HeartbeatSeesShutdown, Cancel,
       Abandon, Terminated, vars, mainVars
  <2>4. ASSUME NEW t \in Tasks, TaskStep(t) \/ HandlerReturns(t) \/ TaskPanics(t)
        PROVE  BatchDispatched'
    BY <1>2, <2>4, TaskStepFrame DEF HandInv, BatchDispatched
  <2>5. QED
    BY <2>1, <2>2, <2>3, <2>4 DEF Next, MainStep
<1>5. QED
  BY <1>1, <1>3, <1>4 DEF HandInv

-----------------------------------------------------------------------------
(* Types *)

\* The part of ServiceTypeOK that is about the server and the messages.
MessagesOK ==
    /\ server \in [Jobs -> {"available", "leased", "backoff", "completed", "discarded"}]
    /\ missed \in [Jobs -> 0..Beats]
    /\ due \in 0..MaxBurst
    /\ listed \subseteq Jobs
    /\ sent \in [Tasks -> Reports \cup {"none"}]
    /\ late \subseteq Jobs \X Reports
    /\ lost \in 0..MaxLost
    /\ succeeded \subseteq Jobs
    /\ early \subseteq Jobs
    /\ slow \in BOOLEAN

\* A reply is on its way only while start() waits for it.
GrantInv == granted # <<>> => pc = "fetch" /\ granted \in Replies

\* A report is on its way only while its task waits for the answer.
SentWaits == \A t \in Tasks : sent[t] # "none" => task[t] = "report"

LEMMA TypeParts == ServiceTypeOK <=> TypeOK /\ MessagesOK /\ GrantInv /\ SentWaits
BY DEF ServiceTypeOK, MessagesOK, GrantInv, SentWaits

\* The job of a task that reports is one of the server's.
LEMMA ReportingHasJob ==
    ASSUME HandInv, SentWaits, NEW t \in Tasks, sent[t] # "none" \/ task[t] # "idle"
    PROVE  job[t] \in Jobs
<1>1. task[t] # "idle" /\ task[t] \in Points
  BY DEF SentWaits, HandInv, IInv, TypeOK
<1>2. t \in TasksAt(Holding)
  BY <1>1 DEF TasksAt, Points
<1>3. QED
  BY <1>2 DEF HandInv, TasksHaveJobs

LEMMA BeatsFacts ==
    /\ Beats \in Nat /\ 0 \in 0..Beats /\ Beats \in 0..Beats
    /\ \A n \in 0..Beats : n < Beats => n + 1 \in 0..Beats
BY BeatsAssumption

LEMMA DueFacts ==
    /\ MaxBurst \in Nat /\ Slow \in Nat /\ 1 <= Slow /\ Slow <= MaxBurst
    /\ 0 \in 0..MaxBurst
    /\ \A n \in 0..MaxBurst : /\ n < MaxBurst => n + 1 \in 0..MaxBurst
                              /\ n > 0 => n - 1 \in 0..MaxBurst
BY MaxBurstAssumption, SlowAssumption

\* One more message is lost.
LEMMA LoseType ==
    ASSUME lost \in 0..MaxLost, Lose
    PROVE  lost' \in 0..MaxLost /\ lost' # 0
BY MaxLostAssumption DEF Lose, Spare

\* A reply leases jobs of the server's.
LEMMA LeaseType ==
    ASSUME TypeOK, MessagesOK, NEW reply \in Replies, Lease(reply)
    PROVE  /\ server' \in [Jobs -> {"available", "leased", "backoff", "completed", "discarded"}]
           /\ missed' \in [Jobs -> 0..Beats]
           /\ JobsOf(reply) \subseteq Jobs
<1>1. JobsOf(reply) \subseteq Jobs
  BY ReplyType DEF JobsOf
<1>2. QED
  BY <1>1, BeatsFacts DEF Lease, MessagesOK

\* A report ends the lease of the job it names, and changes no other job.
LEMMA ApplyShape ==
    ASSUME MessagesOK, NEW j \in Jobs, NEW report \in Reports, Apply(j, report)
    PROVE  /\ server' \in [Jobs -> {"available", "leased", "backoff", "completed", "discarded"}]
           /\ \A k \in Jobs : k # j => server'[k] = server[k]
           /\ server'[j] = "completed" => server[j] = "completed" \/ report = "ack"
           /\ UNCHANGED <<vars, missed, granted, beatVars, succeeded, early, slow>>
<1> DEFINE end == CASE report = "ack"   -> "completed"
                    [] report = "retry" -> "backoff"
                    [] report = "final" -> "discarded"
<1>1. end \in {"completed", "backoff", "discarded"} /\ (end = "completed" => report = "ack")
  BY DEF Reports
<1>2. server' = server \/ server' = [server EXCEPT ![j] = end]
  BY DEF Apply
<1> HIDE DEF end
<1>3. QED
  BY <1>1, <1>2 DEF MessagesOK, Apply

\* A report on its way becomes a late one.
LEMMA LateType ==
    ASSUME HandInv, MessagesOK, SentWaits, NEW t \in Tasks, sent[t] # "none"
    PROVE  job[t] \in Jobs /\ sent[t] \in Reports /\ <<job[t], sent[t]>> \in Jobs \X Reports
BY ReportingHasJob DEF MessagesOK

LEMMA MessagesStep ==
    ASSUME HandInv, MessagesOK, SentWaits, [ServiceNext]_allVars
    PROVE  MessagesOK'
<1>0. TypeOK /\ TypeOK'
  BY ServiceStepIsWorkerStep, HandInvStep DEF HandInv, IInv
<1>1. CASE \/ StartStep \/ FetchFutile \/ HeartbeatBroken \/ HeartbeatEnds \/ Elsewhere
           \/ Abandoned \/ UNCHANGED allVars
           \/ \E reply \in Replies : FetchDelivered(reply)
           \/ \E t \in Tasks : ReportAnswered(t) \/ LocalTaskStep(t)
  BY <1>1 DEF StartStep, FetchFutile, HeartbeatBroken, HeartbeatEnds, Elsewhere, Abandoned,
     FetchDelivered, ReportAnswered, LocalTaskStep, serviceVars, beatVars, reportVars,
     allVars, MessagesOK
<1>2. ASSUME NEW reply \in Replies, FetchGranted(reply)
      PROVE  MessagesOK'
  BY <1>0, <1>2, LeaseType DEF FetchGranted, beatVars, reportVars, MessagesOK
<1>3. CASE FetchReplyLost \/ FetchRepeated
  BY <1>0, <1>3, LoseType DEF FetchReplyLost, FetchRepeated, ReplyLost, beatVars, reportVars,
     MessagesOK
<1>4. ASSUME NEW t \in Tasks, NackMissing(t)
      PROVE  MessagesOK'
  BY <1>4 DEF NackMissing, Send, Reports, beatVars, MessagesOK
<1>5. ASSUME NEW t \in Tasks, NEW report \in Reports, Returns(t, report)
      PROVE  MessagesOK'
  <2>1. job[t] \in Jobs
    BY <1>5, PointFacts, ReportingHasJob DEF Returns, HandlerReturns, Goto
  <2>2. QED
    BY <1>5, <2>1 DEF Returns, Send, beatVars, MessagesOK
<1>6. ASSUME NEW t \in Tasks, ReportFails(t) \/ AbortedReporting(t) \/ ReportPanicked(t)
      PROVE  MessagesOK'
  <2>1. CASE sent[t] # "none" /\ Detach(t)
    BY <2>1, LateType, LoseType DEF Detach, beatVars, MessagesOK
  <2>2. CASE UNCHANGED serviceVars
    BY <2>2 DEF serviceVars, beatVars, reportVars, MessagesOK
  <2>3. QED
    BY <1>6, <2>1, <2>2 DEF ReportFails, AbortedReporting, ReportPanicked
<1>7. ASSUME NEW t \in Tasks, Aborted(t)
      PROVE  MessagesOK'
  BY <1>7 DEF Aborted, beatVars, MessagesOK
<1>8. ASSUME NEW t \in Tasks, ContextHeartbeat(t)
      PROVE  MessagesOK'
  BY <1>8, BeatsFacts DEF ContextHeartbeat, beatVars, reportVars, MessagesOK
<1>9. ASSUME NEW t \in Tasks, ReportArrives(t) \/ ReportRepeated(t)
      PROVE  MessagesOK'
  <2>1. sent[t] # "none" /\ Apply(job[t], sent[t])
    BY <1>9 DEF ReportArrives, ReportRepeated
  <2>2. /\ server' \in [Jobs -> {"available", "leased", "backoff", "completed", "discarded"}]
        /\ UNCHANGED <<missed, beatVars, succeeded, early, slow>>
    BY <2>1, LateType, ApplyShape
  <2>3. lost' \in 0..MaxLost /\ late' \subseteq Jobs \X Reports
    BY <1>9, <2>1, LateType, LoseType DEF ReportArrives, ReportRepeated, MessagesOK
  <2>4. sent' \in [Tasks -> Reports \cup {"none"}]
    BY <1>9 DEF ReportArrives, ReportRepeated, MessagesOK
  <2>5. QED
    BY <2>2, <2>3, <2>4 DEF beatVars, MessagesOK
<1>10. ASSUME NEW j \in Jobs, NEW report \in Reports,
              LateArrives(j, report) \/ LateVanishes(j, report)
       PROVE  MessagesOK'
  BY <1>10, ApplyShape DEF LateArrives, LateVanishes, beatVars, MessagesOK
<1>11. CASE Tick
  <2>1. \A j \in Jobs : missed'[j] \in 0..Beats
    BY <1>11, BeatsFacts DEF Tick, Bump, MessagesOK
  <2>2. due' \in 0..MaxBurst
    BY <1>11, DueFacts DEF Tick, Bump, MessagesOK
  <2>3. slow' \in BOOLEAN
    BY <1>11 DEF Tick
  <2>4. QED
    BY <1>11, <2>1, <2>2, <2>3 DEF Tick, reportVars, MessagesOK
<1>12. CASE Beat
  <2>1. due' \in 0..MaxBurst
    BY <1>12, DueFacts DEF Beat, MessagesOK
  <2>2. QED
    BY <1>0, <1>12, <2>1 DEF Beat, reportVars, MessagesOK, TypeOK
<1>13. CASE HeartbeatPost
  BY <1>13, BeatsFacts, LoseType DEF HeartbeatPost, HeartbeatArrives, HeartbeatAnswered,
     HeartbeatLost, reportVars, MessagesOK
<1>14. ASSUME NEW j \in Jobs, LeaseExpires(j) \/ BackoffEnds(j)
       PROVE  MessagesOK'
  BY <1>14, BeatsFacts DEF LeaseExpires, BackoffEnds, Free, beatVars, reportVars, MessagesOK
<1>15. QED
  BY <1>1, <1>2, <1>3, <1>4, <1>5, <1>6, <1>7, <1>8, <1>9, <1>10, <1>11, <1>12, <1>13, <1>14
     DEF ServiceNext, ServiceMainStep, ServiceTaskStep

\* Apart from start() itself and what drops its future, no step moves it.
LEMMA StartStands ==
    ASSUME TypeOK, [ServiceNext]_allVars, ~ServiceMainStep, ~Abandoned
    PROVE  UNCHANGED <<pc, fetchCount>>
<1>1. CASE \E t \in Tasks : \/ ServiceTaskStep(t) \/ ReportPanicked(t)
                           \/ \E report \in Reports : Returns(t, report)
  <2>1. PICK t \in Tasks : TaskStep(t) \/ HandlerReturns(t) \/ TaskPanics(t)
    BY <1>1 DEF ServiceTaskStep, NackMissing, ReportAnswered, ReportFails, AbortedReporting,
                Aborted, LocalTaskStep, TaskStep, TaskPanics, Returns, ReportPanicked
  <2>2. QED
    BY <2>1, TaskStepFrame
<1>2. CASE Beat \/ HeartbeatPost \/ HeartbeatBroken \/ HeartbeatEnds \/ Elsewhere
  BY <1>2 DEF Beat, HeartbeatPost, HeartbeatArrives, HeartbeatAnswered, HeartbeatLost,
     HeartbeatBroken, HeartbeatEnds, HeartbeatTick, HeartbeatReply, HeartbeatFails,
     HeartbeatPanics, HeartbeatSeesShutdown, Elsewhere, GraceExpires, CtrlC, Terminated,
     mainVars, vars
<1>3. CASE \/ \E t \in Tasks : ContextHeartbeat(t) \/ ReportArrives(t) \/ ReportRepeated(t)
           \/ \E j \in Jobs, report \in Reports : LateArrives(j, report) \/ LateVanishes(j, report)
           \/ \E j \in Jobs : LeaseExpires(j) \/ BackoffEnds(j)
           \/ (\E reply \in Replies : FetchGranted(reply)) \/ FetchRepeated \/ Tick
           \/ UNCHANGED allVars
  BY <1>3 DEF ContextHeartbeat, ReportArrives, ReportRepeated, LateArrives, LateVanishes,
     LeaseExpires, BackoffEnds, Free, Apply, FetchGranted, FetchRepeated, Tick, allVars, vars
<1>4. QED
  BY <1>1, <1>2, <1>3 DEF ServiceNext

\* Only the server puts a reply on its way.
LEMMA GrantedShape ==
    ASSUME [ServiceNext]_allVars
    PROVE  \/ granted' \in {granted, <<>>}
           \/ \E reply \in Replies : FetchGranted(reply) /\ granted' = reply
BY DEF ServiceNext, ServiceMainStep, ServiceTaskStep, HeartbeatPost, StartStep,
   FetchGranted, FetchDelivered, FetchReplyLost, FetchRepeated, ReplyLost, FetchFutile,
   Abandoned, Elsewhere, NackMissing, ReportAnswered, ReportFails, AbortedReporting, Aborted,
   ReportPanicked, LocalTaskStep, Returns, ContextHeartbeat, ReportArrives, ReportRepeated,
   LateArrives, LateVanishes, Tick, Beat, HeartbeatArrives, HeartbeatAnswered, HeartbeatLost,
   HeartbeatBroken, HeartbeatEnds, LeaseExpires, BackoffEnds, Free, Send, Detach, Apply,
   serviceVars, allVars

LEMMA GrantStep ==
    ASSUME TypeOK, GrantInv, [ServiceNext]_allVars
    PROVE  GrantInv'
<1> SUFFICES ASSUME granted' # <<>> PROVE (pc = "fetch" /\ granted \in Replies)'
  BY DEF GrantInv
<1>1. CASE \E reply \in Replies : FetchGranted(reply) /\ granted' = reply
  BY <1>1 DEF FetchGranted, Replies, vars
<1>2. CASE granted' = granted
  <2>1. pc = "fetch" /\ granted \in Replies /\ granted # <<>>
    BY <1>2 DEF GrantInv
  <2>2. ~ServiceMainStep /\ ~Abandoned
    BY <1>2, <2>1 DEF ServiceMainStep, StartStep, FetchDelivered, FetchReplyLost, ReplyLost,
       FetchFutile, Abandoned
  <2>3. QED
    BY <1>2, <2>1, <2>2, StartStands DEF Replies
<1>3. QED
  BY <1>1, <1>2, GrantedShape

\* The end of one task's report is a step of no other task.
LEMMA OneStepOfATask ==
    ASSUME TypeOK, NEW t \in Tasks, Reported(t) \/ TaskAborted(t) \/ TaskPanics(t)
    PROVE  \A u \in Tasks : u # t => task'[u] = task[u]
BY DEF TypeOK, Reported, TaskAborted, TaskPanics, HandlerPanics, ReportPanics, Unwind, Goto,
   Leave

LEMMA SentStep ==
    ASSUME HandInv, MessagesOK, SentWaits, [ServiceNext]_allVars
    PROVE  SentWaits'
<1>0. TypeOK /\ task \in [Tasks -> Points] /\ sent \in [Tasks -> Reports \cup {"none"}]
      /\ [Next]_vars
  BY ServiceStepIsWorkerStep DEF HandInv, IInv, TypeOK, MessagesOK
<1>1. ASSUME UNCHANGED <<task, sent>> \/ (\E t \in Tasks : UNCHANGED task /\ sent' = [sent EXCEPT ![t] = "none"])
      PROVE  SentWaits'
  BY <1>0, <1>1 DEF SentWaits
<1>2. ASSUME UNCHANGED sent, \A t \in Tasks : task[t] = "report" => task'[t] = "report"
      PROVE  SentWaits'
  BY <1>2 DEF SentWaits
<1>3. CASE ServiceMainStep \/ Abandoned
  <2>1. UNCHANGED sent
    BY <1>3 DEF ServiceMainStep, StartStep, FetchFutile, FetchDelivered, FetchReplyLost,
       ReplyLost, Abandoned, serviceVars, reportVars
  <2>2. CASE \E t \in Tasks : Spawn(t)
    BY <1>0, <1>2, <2>1, <2>2 DEF Spawn
  <2>3. CASE ~\E t \in Tasks : Spawn(t)
    <3>1. UNCHANGED task
      BY <1>3, <2>3 DEF ServiceMainStep, StartStep, FetchFutile, FetchDelivered,
         FetchReplyLost, Abandoned, Cancel, Abandon, MainStep, SeeShutdown, NoShutdownYet,
         ReadState, ReadCapacity, PollElapsed, IdleSeesShutdown, FetchStep, FetchOk,
         FetchEmpty, FetchErr, FetchPanics, Acquire, BatchDone, Reap, DrainDone,
         DrainExpired, DrainWaits, DrainReaps, DrainPolls, Stop, poolVars
    <3>2. QED
      BY <1>1, <2>1, <3>1
  <2>4. QED
    BY <2>2, <2>3
<1>4. CASE \/ Elsewhere \/ Tick \/ Beat \/ HeartbeatPost \/ HeartbeatBroken \/ HeartbeatEnds
           \/ FetchRepeated \/ (\E reply \in Replies : FetchGranted(reply))
           \/ UNCHANGED allVars
  <2>1. UNCHANGED <<task, sent>>
    BY <1>4 DEF Elsewhere, Tick, Beat, HeartbeatPost, HeartbeatBroken, HeartbeatEnds,
       HeartbeatArrives, HeartbeatAnswered, HeartbeatLost, GraceExpires, CtrlC, Terminated,
       HeartbeatTick, HeartbeatReply, HeartbeatFails, HeartbeatPanics,
       HeartbeatSeesShutdown, FetchRepeated, ReplyLost, FetchGranted, serviceVars, reportVars,
       allVars, vars, poolVars
  <2>2. QED
    BY <1>1, <2>1
<1>5. ASSUME NEW t \in Tasks, NEW report, (NackMissing(t) /\ report = "final") \/ Returns(t, report)
      PROVE  SentWaits'
  <2>1. task' = [task EXCEPT ![t] = "report"] /\ sent' = [sent EXCEPT ![t] = report]
    BY <1>5 DEF NackMissing, Returns, HandlerMissing, HandlerReturns, Goto, Send
  <2>2. QED
    BY <1>0, <2>1 DEF SentWaits
<1>6. ASSUME NEW t \in Tasks,
             \/ ReportAnswered(t) \/ ReportFails(t) \/ ReportPanicked(t)
             \/ AbortedReporting(t) \/ Aborted(t)
      PROVE  SentWaits'
  <2>1. sent' = [sent EXCEPT ![t] = "none"]
    BY <1>0, <1>6 DEF ReportAnswered, ReportFails, ReportPanicked, AbortedReporting, Aborted,
       Detach, serviceVars, reportVars
  <2>2. \A u \in Tasks : u # t => task'[u] = task[u]
    BY <1>0, <1>6, OneStepOfATask DEF ReportAnswered, ReportFails, ReportPanicked,
       AbortedReporting, Aborted, TaskPanics
  <2>3. QED
    BY <1>0, <2>1, <2>2 DEF SentWaits
<1>7. ASSUME NEW t \in Tasks, LocalTaskStep(t)
      PROVE  SentWaits'
  <2>1. PICK b : task' = [task EXCEPT ![t] = b]
    BY <1>7 DEF LocalTaskStep, HandlerFound, CountDown, Untrack, Release, HandlerPanics,
       Unwind, Leave, Goto
  <2>2. task[t] # "report" /\ UNCHANGED sent
    BY <1>7 DEF LocalTaskStep, HandlerFound, CountDown, Untrack, Release, HandlerPanics,
       Unwind, Goto, serviceVars, reportVars
  <2>3. QED
    BY <1>0, <1>2, <2>1, <2>2
<1>8. ASSUME NEW t \in Tasks, ContextHeartbeat(t) \/ ReportArrives(t) \/ ReportRepeated(t)
      PROVE  SentWaits'
  BY <1>1, <1>8 DEF ContextHeartbeat, ReportArrives, ReportRepeated, Apply, vars, reportVars
<1>9. CASE \/ \E j \in Jobs, report \in Reports : LateArrives(j, report) \/ LateVanishes(j, report)
           \/ \E j \in Jobs : LeaseExpires(j) \/ BackoffEnds(j)
  BY <1>1, <1>9 DEF LateArrives, LateVanishes, LeaseExpires, BackoffEnds, Free, Apply, vars,
     reportVars
<1>10. QED
  BY <1>3, <1>4, <1>5, <1>6, <1>7, <1>8, <1>9
     DEF ServiceNext, ServiceMainStep, ServiceTaskStep

-----------------------------------------------------------------------------
(* What the server calls completed *)

\* An ack on its way for job j.
AckComing(j) ==
    \/ <<j, "ack">> \in late
    \/ \E t \in Tasks : sent[t] = "ack" /\ job[t] = j

AckInv == \A j \in Jobs : AckComing(j) => j \in succeeded

\* A task keeps its job until its report is over.
LEMMA ReportKeepsJob ==
    ASSUME TypeOK, [Next]_vars, NEW t \in Tasks, task'[t] = "report"
    PROVE  job'[t] = job[t]
<1>1. CASE Narrows
  BY <1>1 DEF Narrows
<1>2. CASE \E reply \in Replies : FetchOk(reply)
  BY <1>2 DEF FetchOk, poolVars
<1>3. CASE \E u \in Tasks : Spawn(u)
  BY <1>3 DEF Spawn, TypeOK
<1>4. QED
  BY <1>1, <1>2, <1>3, WorkerStepShape

\* A new ack is that of a success; a job is completed by an ack that names it.
LEMMA AckStep ==
    ASSUME HandInv, MessagesOK, SentWaits, [ServiceNext]_allVars
    PROVE  /\ succeeded \subseteq succeeded'
           /\ \A t \in Tasks : sent'[t] = "ack" => sent[t] = "ack" \/ job[t] \in succeeded'
           /\ \A j \in Jobs : <<j, "ack">> \in late' => AckComing(j)
           /\ \A j \in Jobs : server'[j] = "completed" => server[j] = "completed" \/ AckComing(j)
<1> DEFINE Goal == /\ succeeded \subseteq succeeded'
                   /\ \A t \in Tasks : sent'[t] = "ack" => sent[t] = "ack" \/ job[t] \in succeeded'
                   /\ \A j \in Jobs : <<j, "ack">> \in late' => AckComing(j)
                   /\ \A j \in Jobs : server'[j] = "completed" => server[j] = "completed" \/ AckComing(j)
<1>0. /\ sent \in [Tasks -> Reports \cup {"none"}]
      /\ server \in [Jobs -> {"available", "leased", "backoff", "completed", "discarded"}]
  BY DEF MessagesOK
<1>1. CASE \/ StartStep \/ FetchFutile \/ HeartbeatBroken \/ HeartbeatEnds \/ Elsewhere
           \/ Abandoned \/ FetchReplyLost \/ FetchRepeated \/ UNCHANGED allVars
           \/ \E reply \in Replies : FetchDelivered(reply)
           \/ \E t \in Tasks : ReportAnswered(t) \/ LocalTaskStep(t)
  <2>1. UNCHANGED <<server, sent, late, succeeded>>
    BY <1>1 DEF StartStep, FetchFutile, HeartbeatBroken, HeartbeatEnds, Elsewhere, Abandoned,
       FetchReplyLost, FetchRepeated, ReplyLost, FetchDelivered, ReportAnswered,
       LocalTaskStep, serviceVars, reportVars, allVars
  <2>2. QED
    BY <2>1 DEF AckComing
<1>2. CASE \E reply \in Replies : FetchGranted(reply)
  BY <1>0, <1>2 DEF FetchGranted, Lease, reportVars, AckComing
<1>3. ASSUME NEW t \in Tasks, NackMissing(t)
      PROVE  Goal
  BY <1>0, <1>3 DEF NackMissing, Send, AckComing
<1>4. ASSUME NEW t \in Tasks, NEW report \in Reports, Returns(t, report)
      PROVE  Goal
  BY <1>0, <1>4 DEF Returns, Send, AckComing
<1>5. ASSUME NEW t \in Tasks,
             ReportFails(t) \/ ReportPanicked(t) \/ AbortedReporting(t) \/ Aborted(t)
      PROVE  Goal
  <2>1. /\ sent' = [sent EXCEPT ![t] = "none"] /\ UNCHANGED <<server, succeeded>>
        /\ late' \subseteq late \cup {<<job[t], sent[t]>>}
    BY <1>0, <1>5 DEF ReportFails, ReportPanicked, AbortedReporting, Aborted, Detach,
       serviceVars, reportVars
  <2>2. QED
    BY <1>0, <2>1 DEF AckComing
<1>6. ASSUME NEW t \in Tasks, ReportArrives(t) \/ ReportRepeated(t)
      PROVE  Goal
  <2>1. /\ sent[t] # "none" /\ Apply(job[t], sent[t])
        /\ sent' = [sent EXCEPT ![t] = "none"]
        /\ late' \subseteq late \cup {<<job[t], sent[t]>>}
    BY <1>6 DEF ReportArrives, ReportRepeated
  <2>2. job[t] \in Jobs /\ sent[t] \in Reports
    BY <2>1, LateType
  <2>3. /\ \A k \in Jobs : k # job[t] => server'[k] = server[k]
        /\ server'[job[t]] = "completed" => server[job[t]] = "completed" \/ sent[t] = "ack"
        /\ UNCHANGED succeeded
    BY <2>1, <2>2, ApplyShape
  <2>4. QED
    BY <1>0, <2>1, <2>3 DEF AckComing
<1>7. ASSUME NEW j \in Jobs, NEW report \in Reports,
             LateArrives(j, report) \/ LateVanishes(j, report)
      PROVE  Goal
  <2>1. <<j, report>> \in late /\ late' \subseteq late /\ UNCHANGED sent
    BY <1>7 DEF LateArrives, LateVanishes
  <2>2. /\ \A k \in Jobs : k # j => server'[k] = server[k]
        /\ server'[j] = "completed" => server[j] = "completed" \/ report = "ack"
        /\ UNCHANGED succeeded
    BY <1>7, ApplyShape DEF LateArrives, LateVanishes
  <2>3. QED
    BY <2>1, <2>2 DEF AckComing
<1>8. CASE Tick \/ Beat \/ HeartbeatPost \/ \E t \in Tasks : ContextHeartbeat(t)
  BY <1>8 DEF Tick, Beat, HeartbeatPost, HeartbeatArrives, HeartbeatAnswered, HeartbeatLost,
     ContextHeartbeat, reportVars, AckComing
<1>9. ASSUME NEW j \in Jobs, LeaseExpires(j) \/ BackoffEnds(j)
      PROVE  Goal
  BY <1>0, <1>9 DEF LeaseExpires, BackoffEnds, Free, reportVars, AckComing
<1>10. QED
  BY <1>1, <1>2, <1>3, <1>4, <1>5, <1>6, <1>7, <1>8, <1>9
     DEF ServiceNext, ServiceMainStep, ServiceTaskStep

MessagesInv ==
    HandInv /\ MessagesOK /\ GrantInv /\ SentWaits /\ AckInv /\ CompletedMeansSucceeded

LEMMA MessagesInit == ServiceInit => MessagesInv
<1> SUFFICES ASSUME ServiceInit PROVE MessagesInv
  OBVIOUS
<1>1. IInv
  BY InitIInv DEF ServiceInit
<1>2. TasksHaveJobs /\ BatchDispatched
  BY PointFacts DEF ServiceInit, Init, TasksHaveJobs, TasksAt, BatchDispatched
<1>3. MessagesOK
  <2>1. 0 \in 0..Beats /\ 0 \in 0..MaxBurst /\ 0 \in 0..MaxLost
    BY BeatsFacts, DueFacts, MaxLostAssumption
  <2>2. /\ due \in 0..MaxBurst /\ lost \in 0..MaxLost
        /\ missed \in [Jobs -> 0..Beats]
    BY <2>1 DEF ServiceInit
  <2>3. /\ server \in [Jobs -> {"available", "leased", "backoff", "completed", "discarded"}]
        /\ sent \in [Tasks -> Reports \cup {"none"}]
    BY DEF ServiceInit
  <2>4. QED
    BY <2>2, <2>3 DEF ServiceInit, MessagesOK
<1>4. GrantInv /\ SentWaits /\ AckInv /\ CompletedMeansSucceeded
  BY DEF ServiceInit, GrantInv, SentWaits, AckInv, AckComing, CompletedMeansSucceeded
<1>5. QED
  BY <1>1, <1>2, <1>3, <1>4 DEF MessagesInv, HandInv

LEMMA MessagesInvStep == MessagesInv /\ [ServiceNext]_allVars => MessagesInv'
<1> SUFFICES ASSUME MessagesInv, [ServiceNext]_allVars PROVE MessagesInv'
  OBVIOUS
<1>1. HandInv' /\ MessagesOK' /\ GrantInv' /\ SentWaits'
  BY ServiceStepIsWorkerStep, HandInvStep, MessagesStep, GrantStep, SentStep
     DEF MessagesInv, HandInv, IInv
<1>2. /\ succeeded \subseteq succeeded'
      /\ \A t \in Tasks : sent'[t] = "ack" => sent[t] = "ack" \/ job[t] \in succeeded'
      /\ \A j \in Jobs : <<j, "ack">> \in late' => AckComing(j)
      /\ \A j \in Jobs : server'[j] = "completed" => server[j] = "completed" \/ AckComing(j)
  BY AckStep DEF MessagesInv
<1>3. ASSUME NEW t \in Tasks, sent'[t] = "ack"
      PROVE  job'[t] = job[t]
  BY <1>1, <1>3, ServiceStepIsWorkerStep, ReportKeepsJob DEF MessagesInv, HandInv, IInv,
     SentWaits
<1>4. AckInv'
  <2>1. SUFFICES ASSUME NEW j \in Jobs, AckComing(j)' PROVE j \in succeeded'
    BY DEF AckInv
  <2>2. CASE <<j, "ack">> \in late'
    BY <2>2, <1>2 DEF MessagesInv, AckInv
  <2>3. ASSUME NEW t \in Tasks, sent'[t] = "ack", job'[t] = j
        PROVE  j \in succeeded'
    BY <2>3, <1>2, <1>3 DEF MessagesInv, AckInv, AckComing
  <2>4. QED
    BY <2>1, <2>2, <2>3 DEF AckComing
<1>5. CompletedMeansSucceeded'
  BY <1>2 DEF MessagesInv, AckInv, CompletedMeansSucceeded
<1>6. QED
  BY <1>1, <1>4, <1>5 DEF MessagesInv

\* The invariant of the messages, on which the results below rest.
THEOREM MessagesInvariance == ServiceSpec => []MessagesInv
BY MessagesInit, MessagesInvStep, PTL DEF ServiceSpec

\* Worker, server and messages stay well typed, and a report is on its way only
\* while its task waits (process_job, worker.rs).
THEOREM ServiceTypeSafety == ServiceSpec => []ServiceTypeOK
<1>1. MessagesInv => ServiceTypeOK
  BY TypeParts DEF MessagesInv, HandInv, IInv
<1>2. QED
  BY <1>1, MessagesInvariance, PTL

\* The server counts a job as completed only if one of its handlers has returned
\* Ok (ack_job, worker.rs), whatever was lost, repeated or late.
THEOREM CompletionSafety == ServiceSpec => []CompletedMeansSucceeded
<1>1. MessagesInv => CompletedMeansSucceeded
  BY DEF MessagesInv
<1>2. QED
  BY <1>1, MessagesInvariance, PTL

-----------------------------------------------------------------------------
(* Leases: an undisturbed job is in one hand only, listed, and leased *)

\* Job j is in the hands of one tracked task or on its way to one, once, and
\* the heartbeat's list names it while a task has it.
OneHolder(j) ==
    /\ \A t, u \in TasksAt(Tracked) : job[t] = j /\ job[u] = j => t = u
    /\ \A t \in TasksAt(Tracked) : job[t] = j => j \in activeJobs /\ j \notin Coming
    /\ \A i, k \in DOMAIN granted : granted[i] = j /\ granted[k] = j => i = k
    /\ \A i, k \in DOMAIN batch : batch[i] = j /\ batch[k] = j => i = k

\* Job j is about to run, or runs.
InHands(j) == j \in Coming \/ \E t \in TasksAt(Running) : job[t] = j

\* How old its lease may be: it has been on its way for Slow intervals at most, and
\* the heartbeat loop owes it the ticks that it has not seen and, if it is listed
\* by the heartbeat in flight, the one that this heartbeat answers to.
Owed(j) == due + (IF hb = "post" /\ j \in listed THEN 1 ELSE 0)

Leased(j) ==
    /\ server[j] = "leased"
    /\ j \in Coming => missed[j] <= Slow
    /\ missed[j] <= Slow + Owed(j)

\* What the proof of the lease properties rests on.
LeaseInv ==
    /\ lost = 0 => late = {}
    /\ hb # "done" /\ ~slow => due <= Slow
    /\ \A j \in Jobs : Undisturbed(j) => OneHolder(j) /\ (InHands(j) => Leased(j))

\* What a step can do to the records of what has gone wrong.
LEMMA RecordsShape ==
    ASSUME [ServiceNext]_allVars
    PROVE  /\ Lose \/ (lost' = lost /\ late' \subseteq late)
           /\ early \subseteq early'
           /\ slow => slow'
<1>1. CASE Tick
  BY <1>1 DEF Tick, reportVars
<1>2. CASE \/ ServiceMainStep \/ FetchRepeated \/ Abandoned \/ Elsewhere \/ Beat
           \/ HeartbeatPost \/ HeartbeatBroken \/ HeartbeatEnds \/ UNCHANGED allVars
  BY <1>2 DEF ServiceMainStep, HeartbeatPost, StartStep, FetchDelivered, FetchReplyLost,
     FetchRepeated, ReplyLost, FetchFutile, Abandoned, Elsewhere, Beat, HeartbeatArrives,
     HeartbeatAnswered, HeartbeatLost, HeartbeatBroken, HeartbeatEnds, serviceVars,
     reportVars, allVars
<1>3. CASE \E reply \in Replies : FetchGranted(reply)
  BY <1>3 DEF FetchGranted, reportVars
<1>4. CASE \E t \in Tasks : \/ ServiceTaskStep(t) \/ ContextHeartbeat(t) \/ ReportPanicked(t)
                           \/ \E report \in Reports : Returns(t, report)
  BY <1>4 DEF ServiceTaskStep, NackMissing, ReportAnswered, ReportFails, AbortedReporting,
     Aborted, ReportPanicked, LocalTaskStep, Returns, ContextHeartbeat, Send, Detach,
     serviceVars, reportVars
<1>5. CASE \E t \in Tasks : ReportArrives(t) \/ ReportRepeated(t)
  BY <1>5 DEF ReportArrives, ReportRepeated, Apply
<1>6. CASE \E j \in Jobs, report \in Reports : LateArrives(j, report) \/ LateVanishes(j, report)
  BY <1>6 DEF LateArrives, LateVanishes, Apply
<1>7. CASE \E j \in Jobs : LeaseExpires(j) \/ BackoffEnds(j)
  BY <1>7 DEF LeaseExpires, BackoffEnds, Free, reportVars
<1>8. QED
  BY <1>1, <1>2, <1>3, <1>4, <1>5, <1>6, <1>7 DEF ServiceNext

\* The end of the loop and of start(), and the panics, are for ever.
LEMMA LoopStaysDone ==
    ASSUME TypeOK, [Next]_vars
    PROVE  (hb = "done" => hb' = "done") /\ (Over => Over') /\ (panics' = 0 => panics = 0)
<1>1. CASE \/ SeeShutdown \/ NoShutdownYet \/ ReadState \/ ReadCapacity \/ PollElapsed
           \/ IdleSeesShutdown \/ FetchStep \/ Acquire \/ BatchDone \/ Reap
           \/ DrainDone \/ DrainExpired \/ DrainWaits \/ DrainReaps \/ DrainPolls
  BY <1>1 DEF Over, SeeShutdown, NoShutdownYet, ReadState, ReadCapacity, PollElapsed,
     IdleSeesShutdown, FetchStep, FetchOk, FetchEmpty, FetchErr, FetchPanics, Abandon,
     Acquire, BatchDone, Reap, DrainDone, DrainExpired, DrainWaits, DrainReaps,
     DrainPolls, Stop, poolVars, hbVars
<1>2. CASE \E t \in Tasks : Spawn(t)
  BY <1>2 DEF Over, Spawn, hbVars
<1>3. CASE GraceExpires \/ CtrlC \/ HeartbeatStep \/ Cancel \/ Terminated \/ UNCHANGED vars
  BY <1>3 DEF Over, GraceExpires, CtrlC, HeartbeatStep, HeartbeatTick, HeartbeatReply,
     HeartbeatFails, HeartbeatPanics, HeartbeatSeesShutdown, Cancel, Abandon, Terminated,
     vars, poolVars, hbVars
<1>4. ASSUME NEW t \in Tasks, TaskStep(t) \/ HandlerReturns(t) \/ TaskPanics(t)
      PROVE  UNCHANGED <<hb, pc>> /\ panics' \in {panics, panics + 1}
  BY <1>4 DEF TaskStep, HandlerFound, HandlerMissing, HandlerReturns, TaskPanics,
     HandlerPanics, ReportPanics, Unwind, Reported, CountDown, Untrack, Release,
     TaskAborted, TaskFrame, hbVars
<1>5. \A n \in Nat : n + 1 # 0
  OBVIOUS
<1>6. CASE \E t \in Tasks : TaskStep(t) \/ HandlerReturns(t) \/ TaskPanics(t)
  BY <1>4, <1>5, <1>6 DEF Over, TypeOK
<1>7. QED
  BY <1>1, <1>2, <1>3, <1>6 DEF Next, MainStep

\* A disturbance is for ever.
LEMMA DisturbedStays ==
    ASSUME TypeOK, MessagesOK, [ServiceNext]_allVars, NEW j \in Jobs, Undisturbed(j)'
    PROVE  Undisturbed(j)
<1>1. (hb = "done" => hb' = "done") /\ (Over => Over') /\ (panics' = 0 => panics = 0)
  BY ServiceStepIsWorkerStep, LoopStaysDone
<1>2. (lost' = 0 => lost = 0) /\ early \subseteq early' /\ (slow => slow')
  BY LoseType, RecordsShape DEF MessagesOK
<1>3. QED
  BY <1>1, <1>2 DEF Undisturbed

\* Nothing of a job is taken in hand by a step that narrows.
LEMMA NarrowKeepsHolder ==
    ASSUME TypeOK, Narrows, granted' \in {granted, <<>>}, NEW j \in Jobs, OneHolder(j)
    PROVE  OneHolder(j)' /\ Coming' \subseteq Coming /\ (InHands(j)' => InHands(j))
<1>1. \A t \in TasksAt(Tracked)' : t \in TasksAt(Tracked) /\ job'[t] = job[t]
  BY PointFacts DEF Narrows, TasksAt
<1>2. \A t \in TasksAt(Running)' : t \in TasksAt(Running) /\ job'[t] = job[t]
  BY DEF Narrows, TasksAt, Running
<1>3. /\ \A i \in DOMAIN batch' : i \in DOMAIN batch /\ batch'[i] = batch[i]
      /\ \A i \in DOMAIN granted' : i \in DOMAIN granted /\ granted'[i] = granted[i]
  BY DEF Narrows
<1>4. Coming' \subseteq Coming
  BY <1>3 DEF Coming, JobsOf
<1>5. ASSUME NEW t \in TasksAt(Tracked)', job'[t] = j
      PROVE  j \in activeJobs'
  BY <1>1, <1>5 DEF OneHolder, Narrows
<1>6. OneHolder(j)'
  BY <1>1, <1>3, <1>4, <1>5 DEF OneHolder
<1>7. QED
  BY <1>2, <1>4, <1>6 DEF InHands

\* The dispatch loop hands a job on to the task it spawns.
LEMMA SpawnKeepsHolder ==
    ASSUME HandInv, GrantInv, granted' \in {granted, <<>>}, NEW t \in Tasks, Spawn(t),
           NEW j \in Jobs, OneHolder(j)
    PROVE  OneHolder(j)' /\ Coming' \subseteq Coming /\ (InHands(j)' => InHands(j))
<1>0. granted = <<>> /\ granted' = <<>> /\ JobsOf(granted) = {} /\ JobsOf(granted)' = {}
  BY DEF GrantInv, Spawn, JobsOf
<1>1. /\ batch \in Seq(Jobs) /\ batch # <<>>
      /\ task \in [Tasks -> Points] /\ job \in [Tasks -> Jobs \cup {NoJob}]
  BY DEF HandInv, IInv, TypeOK, BatchInHand, Spawn
<1>2. /\ Head(batch) = batch[1] /\ 1 \in DOMAIN batch
      /\ \A i \in DOMAIN Tail(batch) :
            i + 1 \in DOMAIN batch /\ i + 1 # 1 /\ Tail(batch)[i] = batch[i + 1]
      /\ \A i \in DOMAIN Tail(batch) : i \in Nat
  BY <1>1
<1>3. /\ task[t] = "idle" /\ task' = [task EXCEPT ![t] = "lookup"]
      /\ job' = [job EXCEPT ![t] = batch[1]] /\ batch' = Tail(batch)
      /\ activeJobs' = activeJobs \cup {batch[1]}
  BY <1>2 DEF Spawn
<1>4. /\ t \notin TasksAt(Tracked) /\ TasksAt(Tracked)' = TasksAt(Tracked) \cup {t}
      /\ TasksAt(Running)' = TasksAt(Running) \cup {t}
  BY <1>1, <1>3, PointFacts DEF TasksAt, Running
<1>5. /\ job'[t] = batch[1] /\ batch[1] \in JobsOf(batch)
      /\ \A u \in TasksAt(Tracked) \cup TasksAt(Running) : u # t => job'[u] = job[u]
  BY <1>1, <1>2, <1>3 DEF TasksAt, JobsOf
<1>6. /\ JobsOf(batch)' \subseteq JobsOf(batch)
      /\ Coming = JobsOf(batch) /\ Coming' = JobsOf(batch)'
  BY <1>0, <1>2, <1>3 DEF JobsOf, Coming
<1>7. OneHolder(j)'
  <2>1. ASSUME NEW u \in TasksAt(Tracked)', NEW v \in TasksAt(Tracked)',
               job'[u] = j, job'[v] = j
        PROVE  u = v
    BY <2>1, <1>4, <1>5, <1>6 DEF OneHolder
  <2>2. ASSUME NEW u \in TasksAt(Tracked)', job'[u] = j
        PROVE  j \in activeJobs' /\ j \notin Coming'
    <3>1. CASE u = t
      <4>1. j = batch[1]
        BY <2>2, <3>1, <1>5
      <4>2. \A i \in DOMAIN Tail(batch) : Tail(batch)[i] # j
        BY <4>1, <1>2 DEF OneHolder
      <4>3. QED
        BY <4>1, <4>2, <1>3, <1>6 DEF JobsOf
    <3>2. CASE u # t
      BY <2>2, <3>2, <1>3, <1>4, <1>5, <1>6 DEF OneHolder
    <3>3. QED
      BY <3>1, <3>2
  <2>3. /\ \A i, k \in DOMAIN batch' : batch'[i] = j /\ batch'[k] = j => i = k
        /\ \A i, k \in DOMAIN granted' : granted'[i] = j /\ granted'[k] = j => i = k
    BY <1>0, <1>2, <1>3 DEF OneHolder
  <2>4. QED
    BY <2>1, <2>2, <2>3 DEF OneHolder
<1>8. InHands(j)' => InHands(j)
  BY <1>4, <1>5, <1>6 DEF InHands
<1>9. QED
  BY <1>6, <1>7, <1>8

\* The dispatch loop gets its batch from the server.
LEMMA NoOtherFetch ==
    ASSUME TypeOK, ServiceNext, pc = "fetch", \A reply \in Replies : ~FetchDelivered(reply)
    PROVE  pc' # "acquire"
<1>1. CASE ServiceMainStep \/ Abandoned
  BY <1>1 DEF ServiceMainStep, StartStep, FetchFutile, FetchReplyLost, FetchEmpty, FetchErr,
     FetchPanics, Abandoned, Cancel, Abandon
<1>2. CASE ~ServiceMainStep /\ ~Abandoned
  BY <1>2, StartStands
<1>3. QED
  BY <1>1, <1>2

\* No step but the server's puts a job into a second hand.
LEMMA HolderKept ==
    ASSUME HandInv, GrantInv, ServiceNext, \A reply \in Replies : ~FetchGranted(reply),
           NEW j \in Jobs, OneHolder(j)
    PROVE  OneHolder(j)' /\ Coming' \subseteq Coming /\ (InHands(j)' => InHands(j))
<1>0. TypeOK /\ [Next]_vars /\ granted' \in {granted, <<>>}
  BY ServiceStepIsWorkerStep, GrantedShape DEF HandInv, IInv
<1>1. CASE Narrows
  BY <1>0, <1>1, NarrowKeepsHolder
<1>2. CASE \E t \in Tasks : Spawn(t)
  BY <1>0, <1>2, SpawnKeepsHolder
<1>3. ASSUME NEW reply \in Replies, FetchDelivered(reply)
      PROVE  OneHolder(j)' /\ Coming' \subseteq Coming /\ (InHands(j)' => InHands(j))
  <2>1. /\ batch = <<>> /\ batch' = granted /\ granted' = <<>>
        /\ UNCHANGED <<task, job, activeJobs>>
    BY <1>3 DEF FetchDelivered, FetchOk, poolVars, HandInv, BatchDispatched
  <2>2. /\ TasksAt(Tracked)' = TasksAt(Tracked) /\ TasksAt(Running)' = TasksAt(Running)
        /\ Coming' = Coming
    BY <2>1 DEF TasksAt, Coming, JobsOf
  <2>3. QED
    BY <2>1, <2>2 DEF OneHolder, InHands
<1>4. CASE (\E reply \in Replies : FetchOk(reply)) /\ \A reply \in Replies : ~FetchDelivered(reply)
  BY <1>0, <1>4, NoOtherFetch DEF FetchOk
<1>5. QED
  BY <1>0, <1>1, <1>2, <1>3, <1>4, WorkerStepShape

\* A reply does not bring an undisturbed job that some task still has: while it
\* runs it is leased, and while it is being finished its return would be early.
LEMMA GrantKeepsLeases ==
    ASSUME HandInv, MessagesOK, NEW reply \in Replies, FetchGranted(reply), NEW j \in Jobs,
           OneHolder(j), InHands(j) => Leased(j), Undisturbed(j)'
    PROVE  OneHolder(j)' /\ (InHands(j)' => Leased(j)')
<1>1. /\ batch = <<>> /\ granted = <<>> /\ granted' = reply
      /\ UNCHANGED <<batch, task, job, activeJobs, hb, due, listed>>
      /\ Offered(reply) /\ Lease(reply)
  BY DEF FetchGranted, vars, beatVars, HandInv, BatchDispatched
<1>2. /\ TasksAt(Tracked)' = TasksAt(Tracked) /\ TasksAt(Running)' = TasksAt(Running)
      /\ TasksAt(Tracked) = TasksAt(Running) \cup TasksAt(Finishing)
      /\ Coming = {} /\ Coming' = JobsOf(reply)
  BY <1>1 DEF TasksAt, Tracked, Counted, Running, Finishing, Coming, JobsOf
<1>3. CASE j \in JobsOf(reply)
  <2>1. server[j] = "available" /\ server'[j] = "leased" /\ missed'[j] = 0
    BY <1>1, <1>3 DEF Lease
  <2>2. \A t \in TasksAt(Running) : job[t] # j
    BY <2>1 DEF InHands, Leased
  <2>3. \A t \in TasksAt(Finishing) : job[t] # j
    BY <1>3 DEF FetchGranted, Undisturbed
  <2>4. \A t \in TasksAt(Tracked)' : job'[t] # j
    BY <2>2, <2>3, <1>1, <1>2
  <2>5. OneHolder(j)'
    BY <2>4, <1>1 DEF OneHolder, Offered
  <2>6. 0 <= Slow /\ 0 <= Slow + Owed(j)'
    <3>1. due \in Nat /\ Slow \in Nat
      BY DueFacts DEF MessagesOK
    <3>2. Owed(j)' = Owed(j) /\ Owed(j) \in Nat
      BY <3>1, <1>1 DEF Owed
    <3>3. QED
      BY <3>1, <3>2
  <2>7. QED
    BY <2>1, <2>5, <2>6 DEF Leased
<1>4. CASE j \notin JobsOf(reply)
  <2>1. server'[j] = server[j] /\ missed'[j] = missed[j] /\ j \notin Coming'
    BY <1>1, <1>2, <1>4 DEF Lease
  <2>2. \A i \in DOMAIN reply : reply[i] # j
    BY <1>4 DEF JobsOf
  <2>3. OneHolder(j)'
    BY <2>1, <2>2, <1>1, <1>2 DEF OneHolder
  <2>4. InHands(j)' => InHands(j)
    BY <2>1, <1>1, <1>2 DEF InHands
  <2>5. QED
    BY <2>1, <2>3, <2>4, <1>1 DEF Leased, Owed
<1>5. QED
  BY <1>3, <1>4

\* An interval passes: the lease of an undisturbed job in hand gets older by as
\* much as the heartbeat loop owes it more.
LEMMA TickKeepsLease ==
    ASSUME MessagesOK, Tick, NEW j \in Jobs, Leased(j), hb # "done", ~slow', due <= Slow
    PROVE  Leased(j)' /\ due' <= Slow
<1>1. /\ Slow \in Nat /\ due \in Nat /\ MaxBurst \in Nat /\ Slow <= MaxBurst
      /\ missed[j] \in Nat /\ missed \in [Jobs -> 0..Beats]
  BY DueFacts, BeatsFacts DEF MessagesOK
<1>2. ~Overdue /\ hb' = hb /\ listed' = listed /\ server' = server /\ Coming' = Coming
  BY DEF Tick, vars, Coming, JobsOf
<1>3. due < Slow /\ (j \in Coming => missed[j] < Slow)
  BY <1>1, <1>2 DEF Overdue
<1>4. due' = due + 1
  BY <1>1, <1>3 DEF Tick, Bump
<1>5. missed'[j] <= missed[j] + 1
  BY <1>1 DEF Tick, Bump, Leased
<1>6. missed'[j] \in Nat
  BY <1>1 DEF Tick, Bump, Leased
<1>7. Owed(j)' = Owed(j) + 1 /\ Owed(j) \in Nat
  BY <1>1, <1>2, <1>4 DEF Owed
<1>8. missed[j] <= Slow + Owed(j) /\ server[j] = "leased"
  BY DEF Leased
<1> HIDE DEF Owed
<1>9. missed'[j] <= Slow + Owed(j)' /\ (j \in Coming' => missed'[j] <= Slow)
  BY <1>1, <1>2, <1>3, <1>5, <1>6, <1>7, <1>8
<1>10. due' <= Slow
  BY <1>1, <1>3, <1>4
<1>11. QED
  BY <1>2, <1>8, <1>9, <1>10 DEF Leased

\* A heartbeat goes out, and lists the undisturbed jobs that run.
LEMMA BeatKeepsLease ==
    ASSUME MessagesOK, Beat, NEW j \in Jobs, InHands(j), OneHolder(j), Leased(j)
    PROVE  Leased(j)'
<1>1. /\ Slow \in Nat /\ 1 <= Slow /\ due \in Nat /\ missed[j] \in Nat
      /\ due' = due - 1 /\ 0 < due /\ due' \in Nat
  BY DueFacts, BeatsFacts DEF MessagesOK, Beat
<1>2. /\ hb = "wait" /\ hb' = "post" /\ listed' = activeJobs
      /\ server' = server /\ missed' = missed /\ Coming' = Coming
  BY DEF Beat, HeartbeatTick, mainVars, Coming, JobsOf
<1>3. missed[j] <= Slow + due /\ server[j] = "leased" /\ (j \in Coming => missed[j] <= Slow)
  BY <1>1, <1>2 DEF Leased, Owed
<1>4. CASE j \in Coming
  <2>1. due' <= Owed(j)' /\ Owed(j)' \in Nat
    BY <1>1 DEF Owed
  <2>2. missed'[j] <= Slow + Owed(j)'
    BY <1>1, <1>2, <1>3, <1>4, <2>1
  <2>3. QED
    BY <1>2, <1>3, <2>2 DEF Leased
<1>5. CASE j \notin Coming
  <2>1. j \in activeJobs
    <3>1. PICK t \in TasksAt(Running) : job[t] = j
      BY <1>5 DEF InHands
    <3>2. t \in TasksAt(Tracked)
      BY PointFacts DEF TasksAt, Running
    <3>3. QED
      BY <3>1, <3>2 DEF OneHolder
  <2>2. Owed(j)' = due' + 1
    BY <1>2, <2>1 DEF Owed
  <2>3. missed'[j] <= Slow + Owed(j)'
    BY <1>1, <1>2, <1>3, <2>2
  <2>4. QED
    BY <1>2, <1>3, <1>5, <2>3 DEF Leased
<1>6. QED
  BY <1>4, <1>5

\* Any other step keeps the lease of an undisturbed job in hand: nothing reports
\* on it, and a heartbeat that lists it renews the lease before it ends.
LEMMA LeaseKept ==
    ASSUME Beats > 2 * Slow + 1, HandInv, MessagesOK, SentWaits, LeaseInv,
           ServiceNext, \A reply \in Replies : ~FetchGranted(reply),
           NEW j \in Jobs, OneHolder(j), InHands(j), Leased(j), Coming' \subseteq Coming,
           Undisturbed(j), Undisturbed(j)'
    PROVE  Leased(j)'
<1>0. /\ lost = 0 /\ lost' = 0 /\ hb # "done" /\ hb' # "done" /\ ~slow /\ ~slow' /\ ~Over'
      /\ panics = 0 /\ panics' = 0 /\ late = {} /\ due <= Slow
  BY DEF Undisturbed, LeaseInv
<1>1. /\ Slow \in Nat /\ due \in Nat /\ missed[j] \in Nat /\ missed \in [Jobs -> 0..Beats]
      /\ server \in [Jobs -> {"available", "leased", "backoff", "completed", "discarded"}]
  BY DueFacts, BeatsFacts DEF MessagesOK
<1>2. ~Lose
  BY <1>0, LoseType DEF MessagesOK
<1>3. ASSUME server'[j] = server[j], missed'[j] = missed[j] \/ missed'[j] = 0,
             UNCHANGED <<hb, due, listed>>
      PROVE  Leased(j)'
  <2>1. Owed(j)' = Owed(j) /\ Owed(j) \in Nat
    BY <1>1, <1>3 DEF Owed
  <2>2. QED
    BY <1>1, <1>3, <2>1 DEF Leased
<1>4. CASE ServiceMainStep \/ Elsewhere
  <2>1. UNCHANGED <<server, missed, due, listed>>
    BY <1>2, <1>4 DEF ServiceMainStep, StartStep, FetchDelivered, FetchReplyLost, ReplyLost,
       FetchFutile, Elsewhere, beatVars, serviceVars
  <2>2. UNCHANGED hb
    BY <1>0, <1>4 DEF ServiceMainStep, StartStep, FetchDelivered, FetchReplyLost, FetchFutile,
       Elsewhere, MainStep, SeeShutdown, NoShutdownYet, ReadState, ReadCapacity, PollElapsed,
       IdleSeesShutdown, FetchStep, FetchOk, FetchEmpty, FetchErr, FetchPanics, Abandon,
       Acquire, Spawn, BatchDone, Reap, DrainDone, DrainExpired, DrainWaits, DrainReaps,
       DrainPolls, Stop, GraceExpires, CtrlC, Terminated, hbVars, vars
  <2>3. QED
    BY <1>3, <2>1, <2>2
<1>5. CASE Abandoned \/ FetchRepeated
  BY <1>0, <1>2, <1>5 DEF Abandoned, Cancel, FetchPanics, Abandon, Over, FetchRepeated,
     ReplyLost
<1>6. ASSUME NEW t \in Tasks, \/ ServiceTaskStep(t) \/ ContextHeartbeat(t) \/ ReportPanicked(t)
                              \/ \E report \in Reports : Returns(t, report)
      PROVE  Leased(j)'
  <2>1. UNCHANGED <<server, due, listed>>
    BY <1>2, <1>6 DEF ServiceTaskStep, NackMissing, ReportAnswered, ReportFails,
       AbortedReporting, Aborted, LocalTaskStep, ContextHeartbeat, ReportPanicked, Returns,
       Send, Detach, beatVars, serviceVars
  <2>2. UNCHANGED hb
    BY <1>6 DEF ServiceTaskStep, NackMissing, ReportAnswered, ReportFails, AbortedReporting,
       Aborted, LocalTaskStep, ContextHeartbeat, ReportPanicked, Returns, HandlerMissing,
       HandlerReturns, Reported, TaskAborted, HandlerFound, CountDown, Untrack, Release,
       HandlerPanics, ReportPanics, Unwind, TaskFrame, hbVars, vars
  <2>3. missed'[j] = missed[j] \/ missed'[j] = 0
    BY <1>1, <1>2, <1>6 DEF ServiceTaskStep, NackMissing, ReportAnswered, ReportFails,
       AbortedReporting, Aborted, LocalTaskStep, ContextHeartbeat, ReportPanicked, Returns,
       Send, Detach, serviceVars
  <2>4. QED
    BY <1>3, <2>1, <2>2, <2>3
<1>7. ASSUME NEW t \in Tasks, ReportArrives(t) \/ ReportRepeated(t)
      PROVE  Leased(j)'
  <2>1. sent[t] # "none" /\ Apply(job[t], sent[t])
    BY <1>7 DEF ReportArrives, ReportRepeated
  <2>2. task[t] = "report"
    BY <2>1 DEF SentWaits
  <2>3. t \in TasksAt(Tracked) /\ t \notin TasksAt(Running)
    BY <2>2, PointFacts DEF TasksAt, Running
  <2>4. TasksAt(Running) \subseteq TasksAt(Tracked)
    BY PointFacts DEF TasksAt, Running
  <2>5. job[t] # j
    BY <2>3, <2>4 DEF OneHolder, InHands
  <2>6. server'[j] = server[j] /\ UNCHANGED <<vars, missed, beatVars>>
    BY <2>1, <2>5, LateType, ApplyShape
  <2>7. QED
    BY <1>3, <2>6 DEF vars, beatVars
<1>8. CASE \E k \in Jobs, report \in Reports : LateArrives(k, report) \/ LateVanishes(k, report)
  BY <1>0, <1>8 DEF LateArrives, LateVanishes
<1>9. CASE Tick
  BY <1>0, <1>9, TickKeepsLease
<1>10. CASE Beat
  BY <1>10, BeatKeepsLease
<1>11. CASE HeartbeatArrives
  <2>1. /\ listed' = {} /\ UNCHANGED <<hb, due, server>> /\ Coming' = Coming
        /\ missed'[j] = IF j \in listed THEN 0 ELSE missed[j]
    BY <1>11 DEF HeartbeatArrives, vars, Coming, JobsOf
  <2>2. Owed(j)' = due
    BY <1>1, <2>1 DEF Owed
  <2>3. CASE j \in listed
    BY <1>1, <2>1, <2>2, <2>3 DEF Leased
  <2>4. CASE j \notin listed
    <3>1. Owed(j) = due
      BY <1>1, <2>4 DEF Owed
    <3>2. QED
      BY <2>1, <2>2, <2>4, <3>1 DEF Leased
  <2>5. QED
    BY <2>3, <2>4
<1>12. ASSUME NEW directive \in Directives, HeartbeatAnswered(directive)
       PROVE  Leased(j)'
  <2>1. listed = {} /\ UNCHANGED <<listed, due, server, missed>>
    BY <1>12 DEF HeartbeatAnswered
  <2>2. Owed(j)' = Owed(j)
    BY <2>1 DEF Owed
  <2>3. QED
    BY <2>1, <2>2 DEF Leased
<1>13. CASE HeartbeatLost \/ HeartbeatBroken \/ HeartbeatEnds
  BY <1>0, <1>2, <1>13 DEF HeartbeatLost, HeartbeatBroken, HeartbeatPanics, HeartbeatEnds,
     HeartbeatSeesShutdown
<1>14. ASSUME NEW k \in Jobs, LeaseExpires(k) \/ BackoffEnds(k)
       PROVE  Leased(j)'
  <2>1. missed[j] # Beats /\ server[j] = "leased"
    <3>1. Owed(j) <= due + 1 /\ Owed(j) \in Nat
      BY <1>1 DEF Owed
    <3>2. missed[j] <= Slow + Owed(j) /\ server[j] = "leased"
      BY DEF Leased
    <3>3. QED
      BY <1>0, <1>1, <3>1, <3>2, BeatsAssumption
  <2>2. k # j
    BY <1>14, <2>1 DEF LeaseExpires, BackoffEnds
  <2>3. server'[j] = server[j] /\ missed'[j] = missed[j] /\ UNCHANGED <<hb, due, listed>>
    BY <1>1, <1>14, <2>2 DEF LeaseExpires, BackoffEnds, Free, beatVars, vars
  <2>4. QED
    BY <1>3, <2>3
<1>15. QED
  BY <1>4, <1>5, <1>6, <1>7, <1>8, <1>9, <1>10, <1>11, <1>12, <1>13, <1>14
     DEF ServiceNext, HeartbeatPost

\* The heartbeat loop falls behind by more than Slow ticks only when slow records it.
LEMMA DueStep ==
    ASSUME MessagesOK, hb # "done" /\ ~slow => due <= Slow, [ServiceNext]_allVars,
           hb = "done" => hb' = "done"
    PROVE  (hb # "done" /\ ~slow => due <= Slow)'
<1> SUFFICES ASSUME hb # "done", ~slow, due <= Slow, ~slow' PROVE due' <= Slow
  BY RecordsShape
<1>1. Slow \in Nat /\ due \in Nat /\ MaxBurst \in Nat
  BY DueFacts DEF MessagesOK
<1>2. CASE Tick
  <2>1. ~Overdue
    BY <1>2 DEF Tick
  <2>2. due < Slow
    BY <1>1, <2>1 DEF Overdue
  <2>3. QED
    BY <1>1, <1>2, <2>2 DEF Tick, Bump
<1>3. CASE ~Tick
  <2>1. due' = due \/ Beat
    BY <1>3 DEF ServiceNext, ServiceMainStep, ServiceTaskStep, HeartbeatPost, StartStep,
       FetchGranted, FetchDelivered, FetchReplyLost, FetchRepeated, ReplyLost, FetchFutile,
       Abandoned, Elsewhere, NackMissing, ReportAnswered, ReportFails, AbortedReporting,
       Aborted, ReportPanicked, LocalTaskStep, Returns, ContextHeartbeat, ReportArrives,
       ReportRepeated, LateArrives, LateVanishes, HeartbeatArrives, HeartbeatAnswered,
       HeartbeatLost, HeartbeatBroken, HeartbeatEnds, LeaseExpires, BackoffEnds, Free, Send,
       Detach, Apply, serviceVars, beatVars, allVars
  <2>2. Beat => due' = due - 1
    BY DEF Beat
  <2>3. QED
    BY <1>1, <2>1, <2>2
<1>4. QED
  BY <1>2, <1>3

\* Every step of the service keeps the lease invariant.
LEMMA LeaseStep ==
    ASSUME Beats > 2 * Slow + 1, HandInv, MessagesOK, GrantInv, SentWaits, LeaseInv,
           [ServiceNext]_allVars
    PROVE  LeaseInv'
<1>0. TypeOK /\ [Next]_vars
  BY ServiceStepIsWorkerStep DEF HandInv, IInv
<1>1. lost' = 0 => late' = {}
  BY LoseType, RecordsShape DEF MessagesOK, LeaseInv
<1>2. ASSUME NEW j \in Jobs, Undisturbed(j)'
      PROVE  OneHolder(j)' /\ (InHands(j)' => Leased(j)')
  <2>1. Undisturbed(j) /\ OneHolder(j) /\ (InHands(j) => Leased(j))
    BY <1>0, <1>2, DisturbedStays DEF LeaseInv
  <2>2. ASSUME NEW reply \in Replies, FetchGranted(reply)
        PROVE  OneHolder(j)' /\ (InHands(j)' => Leased(j)')
    BY <1>2, <2>1, <2>2, GrantKeepsLeases
  <2>3. CASE ServiceNext /\ \A reply \in Replies : ~FetchGranted(reply)
    <3>1. OneHolder(j)' /\ Coming' \subseteq Coming /\ (InHands(j)' => InHands(j))
      BY <2>1, <2>3, HolderKept
    <3>2. InHands(j) => Leased(j)'
      BY <1>2, <2>1, <2>3, <3>1, LeaseKept
    <3>3. QED
      BY <3>1, <3>2
  <2>4. CASE UNCHANGED allVars
    BY <2>1, <2>4 DEF allVars, vars, serviceVars, beatVars, OneHolder, InHands, Leased, Owed,
       Coming, JobsOf, TasksAt
  <2>5. QED
    BY <2>2, <2>3, <2>4
<1>3. (hb # "done" /\ ~slow => due <= Slow)'
  <2>1. hb = "done" => hb' = "done"
    BY <1>0, LoopStaysDone
  <2>2. QED
    BY <2>1, DueStep DEF LeaseInv
<1>4. QED
  BY <1>1, <1>2, <1>3 DEF LeaseInv

\* The invariant of the leases, of services whose leases outlast what is not slow.
THEOREM LeaseInvariance == ASSUME Beats > 2 * Slow + 1 PROVE ServiceSpec => []LeaseInv
<1>1. ServiceInit => LeaseInv
  <2> SUFFICES ASSUME ServiceInit PROVE LeaseInv
    OBVIOUS
  <2>1. /\ TasksAt(Tracked) = {} /\ TasksAt(Running) = {} /\ Coming = {}
        /\ DOMAIN batch = {} /\ DOMAIN granted = {}
    BY PointFacts DEF ServiceInit, Init, TasksAt, Running, Coming, JobsOf
  <2>2. due <= Slow
    BY DueFacts DEF ServiceInit
  <2>3. QED
    BY <2>1, <2>2 DEF ServiceInit, LeaseInv, OneHolder, InHands
<1>2. MessagesInv /\ LeaseInv /\ [ServiceNext]_allVars => LeaseInv'
  BY LeaseStep DEF MessagesInv
<1>3. QED
  BY <1>1, <1>2, MessagesInvariance, PTL DEF ServiceSpec

\* The job of a running handler keeps its lease for as long as the handler runs,
\* because the heartbeats list it (worker.rs, heartbeat loop), unless a message was
\* lost or slow, the loop has ended or the job was handed out again too early.
THEOREM LeaseSafety ==
    ASSUME Beats > 2 * Slow + 1 PROVE ServiceSpec => []LeaseHeldWhileRunning
<1>1. MessagesInv /\ LeaseInv => LeaseHeldWhileRunning
  <2> SUFFICES ASSUME MessagesInv, LeaseInv, NEW t \in TasksAt(Running), Undisturbed(job[t])
               PROVE  server[job[t]] = "leased"
    BY DEF LeaseHeldWhileRunning, Running
  <2>1. job[t] \in Jobs
    BY PointFacts DEF MessagesInv, HandInv, TasksHaveJobs, TasksAt, Running
  <2>2. QED
    BY <2>1 DEF LeaseInv, InHands, Leased
<1>2. QED
  BY <1>1, MessagesInvariance, LeaseInvariance, PTL

\* Two tasks of a worker never run the same undisturbed job at the same time.
THEOREM RunSafety ==
    ASSUME Beats > 2 * Slow + 1 PROVE ServiceSpec => []NoConcurrentRuns
<1>1. MessagesInv /\ LeaseInv => NoConcurrentRuns
  <2> SUFFICES ASSUME MessagesInv, LeaseInv, NEW t \in TasksAt(Running),
                      NEW u \in TasksAt(Running), t # u, job[t] = job[u]
               PROVE  ~Undisturbed(job[t])
    BY DEF NoConcurrentRuns, Running
  <2>1. job[t] \in Jobs /\ t \in TasksAt(Tracked) /\ u \in TasksAt(Tracked)
    BY PointFacts DEF MessagesInv, HandInv, TasksHaveJobs, TasksAt, Running
  <2>2. QED
    BY <2>1 DEF LeaseInv, OneHolder
<1>2. QED
  BY <1>1, MessagesInvariance, LeaseInvariance, PTL
=============================================================================
