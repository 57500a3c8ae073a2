---------------------------- MODULE DurableProofs ----------------------------
(***************************************************************************)
(* Proofs about Durable, for all keys, values, programs and numbers of     *)
(* failures: what replay returns, which effects are repeated, and what the *)
(* log tells.                                                              *)
(***************************************************************************)
EXTENDS Durable, TLAPS

\* The log begins with the entries this execution started from, and the cursor
\* counts the calls it has made until one of them fails.
PrefixInv ==
    /\ status # "down" => cursor = Len(returned)
    /\ Len(base) <= Len(log)
    /\ \A k \in 1..Len(base) : log[k] = base[k]

\* The code has not changed under its log.
Unchanged == \A k \in DOMAIN base : base[k].seq = k - 1 /\ Covers(k)

\* Then what has been replayed or recorded is all there is beyond the base.
ExtentInv == Unchanged => Len(log) = IF cursor <= Len(base) THEN Len(base) ELSE cursor

IInv ==
    /\ TypeOK
    /\ PrefixInv
    /\ ReplayIdentical
    /\ ExtentInv
    /\ LogTellsAll

\* The entry that a call pushes.
NewEntry(value) == [seq |-> cursor, type |-> program[Position].type,
                    key |-> program[Position].key, result |-> value]

-----------------------------------------------------------------------------
(* What the programs and the entries are made of *)

LEMMA CallShape ==
    ASSUME NEW call \in Calls
    PROVE  /\ call.type \in {"now", "random", "side_effect"}
           /\ call.key \in Keys \cup {"now", "random"}
BY DEF Calls, Call

LEMMA ProgramShape ==
    ASSUME TypeOK
    PROVE  /\ program \in Seq(Calls)
           /\ Len(program) \in Nat
           /\ \A k \in 1..Len(program) : program[k] \in Calls
<1>1. program \in Seq(Calls)
  BY ProgramsAssumption DEF TypeOK
<1>2. QED
  BY <1>1

\* A call that is not answered makes an entry.
LEMMA NewEntryType ==
    ASSUME TypeOK, Position \in 1..Len(program), NEW value \in Values
    PROVE  NewEntry(value) \in Entries
<1>1. program[Position] \in Calls
  BY ProgramShape
<1>2. cursor \in Nat
  BY DEF TypeOK
<1>3. QED
  BY <1>1, <1>2, CallShape DEF NewEntry, Entries

\* Where the base covers the calls up to the position, the log answers there.
LEMMA CoveredIsRecorded ==
    ASSUME TypeOK, PrefixInv, status = "up", Covers(Position)
    PROVE  Recorded /\ log[Position] = base[Position]
<1>1. /\ Position = cursor + 1 /\ cursor \in Nat
      /\ Len(base) \in Nat /\ Len(log) \in Nat /\ Len(program) \in Nat
  BY ProgramShape DEF TypeOK, PrefixInv, Position
<1>2. Position <= Len(base) /\ Answers(base[Position], program[Position])
  BY <1>1 DEF Covers
<1>3. Position \in 1..Len(base)
  BY <1>1, <1>2
<1>4. log[Position] = base[Position]
  BY <1>3 DEF PrefixInv
<1>5. cursor < Len(log)
  BY <1>1, <1>2 DEF PrefixInv
<1>6. QED
  BY <1>1, <1>2, <1>4, <1>5 DEF Recorded

-----------------------------------------------------------------------------
(* What each kind of step does to the invariant *)

\* A helper that finds its entry.
LEMMA RecallKeeps ==
    ASSUME IInv, status = "up", Position <= Len(program),
           UNCHANGED <<program, serverVars, historyVars>>, Recall
    PROVE  IInv'
<1> USE DEF IInv
<1>1. /\ returned' = Append(returned, log[Position].result)
      /\ cursor' = cursor + 1
      /\ UNCHANGED <<program, status, log, base, fresh, failures, saved, put, late>>
      /\ UNCHANGED <<acked, astray>>
  BY DEF Recall, serverVars, historyVars, PrefixInv, Position
<1>2. /\ cursor \in Nat /\ Len(log) \in Nat /\ Len(base) \in Nat
      /\ cursor = Len(returned) /\ Position = cursor + 1 /\ cursor < Len(log)
      /\ Position \in 1..Len(log)
  BY DEF TypeOK, PrefixInv, Position, Recall, Recorded
<1>3. /\ log[Position] \in Entries /\ log[Position].result \in Values
      /\ returned \in Seq(Values)
  <2>1. log \in Seq(Entries) /\ returned \in Seq(Values)
    BY DEF TypeOK
  <2>2. log[Position] \in Entries
    BY <2>1, <1>2
  <2>3. QED
    BY <2>1, <2>2 DEF Entries
<1>4. /\ returned' \in Seq(Values) /\ Len(returned') = cursor + 1
      /\ DOMAIN returned' = 1..Position /\ DOMAIN returned = 1..cursor
      /\ returned'[Position] = log[Position].result
      /\ \A i \in DOMAIN returned : returned'[i] = returned[i]
  BY <1>1, <1>2, <1>3
<1>5. TypeOK'
  BY <1>1, <1>2, <1>4 DEF TypeOK
<1>6. PrefixInv'
  BY <1>1, <1>2, <1>4 DEF PrefixInv
<1>7. \A i : Covers(i)' <=> Covers(i)
  BY <1>1 DEF Covers
<1>8. ReplayIdentical'
  <2>1. SUFFICES ASSUME NEW i \in 1..Position, Covers(i)
                 PROVE  returned'[i] = base[i].result
    BY <1>1, <1>4, <1>7 DEF ReplayIdentical
  <2>2. CASE i = Position
    BY <2>1, <2>2, <1>4, CoveredIsRecorded
  <2>3. CASE i # Position
    <3>1. i \in DOMAIN returned
      BY <1>2, <1>4, <2>3
    <3>2. QED
      BY <3>1, <2>1, <1>4 DEF ReplayIdentical
  <2>4. QED
    BY <2>2, <2>3
<1>10. Unchanged' <=> Unchanged
  BY <1>1, <1>7 DEF Unchanged
<1>11. ASSUME Unchanged
       PROVE  Len(log) = Len(base) /\ Position \in 1..Len(base)
  BY <1>11, <1>2 DEF ExtentInv
<1>12. ExtentInv'
  BY <1>1, <1>2, <1>10, <1>11 DEF ExtentInv
<1>13. LogTellsAll'
  <2>1. SUFFICES ASSUME Unchanged, NEW i \in 1..Position
                 PROVE  /\ i \in DOMAIN log
                        /\ log[i].result = returned'[i]
                        /\ log[i].seq = i - 1
    BY <1>1, <1>4, <1>10 DEF LogTellsAll, Unchanged
  <2>2. CASE i = Position
    <3>1. base[Position].seq = Position - 1 /\ Covers(Position)
      BY <2>1, <1>11, <1>2 DEF Unchanged, TypeOK
    <3>2. log[Position] = base[Position]
      BY <3>1, CoveredIsRecorded
    <3>3. Position \in DOMAIN log
      BY <1>2 DEF TypeOK
    <3>4. QED
      BY <2>2, <3>1, <3>2, <3>3, <1>4
  <2>3. CASE i # Position
    <3>1. i \in DOMAIN returned
      BY <1>2, <1>4, <2>3
    <3>2. QED
      BY <3>1, <2>1, <1>4 DEF LogTellsAll, Unchanged
  <2>4. QED
    BY <2>2, <2>3
<1>14. QED
  BY <1>5, <1>6, <1>8, <1>12, <1>13

\* A helper that records its result, after calling a closure or not.
LEMMA RecordKeeps ==
    ASSUME IInv, status = "up", Position <= Len(program),
           UNCHANGED <<program, serverVars, historyVars>>,
           NEW value \in Values, Record(value), fresh' \in {fresh, fresh \cup {Position}}
    PROVE  IInv'
<1> USE DEF IInv
<1>1. /\ log' = Append(log, NewEntry(value))
      /\ returned' = Append(returned, value)
      /\ cursor' = cursor + 1
      /\ UNCHANGED <<program, status, base, failures, saved, put, late, acked, astray>>
  BY DEF Record, serverVars, historyVars, NewEntry
<1>2. /\ cursor \in Nat /\ Len(log) \in Nat /\ Len(base) \in Nat /\ Len(program) \in Nat
      /\ cursor = Len(returned) /\ Position = cursor + 1 /\ cursor <= Len(log)
      /\ Len(base) <= Len(log) /\ Position \in 1..Len(program)
  BY ProgramShape DEF TypeOK, PrefixInv, Position
<1>3. NewEntry(value) \in Entries
  BY <1>2, NewEntryType
<1>4. /\ returned' \in Seq(Values) /\ Len(returned') = cursor + 1
      /\ DOMAIN returned' = 1..Position /\ DOMAIN returned = 1..cursor
      /\ returned'[Position] = value
      /\ \A i \in DOMAIN returned : returned'[i] = returned[i]
  BY <1>1, <1>2 DEF TypeOK
<1>5. /\ log' \in Seq(Entries) /\ Len(log') = Len(log) + 1
      /\ DOMAIN log' = 1..(Len(log) + 1) /\ DOMAIN log = 1..Len(log)
      /\ log'[Len(log) + 1] = NewEntry(value)
      /\ \A i \in 1..Len(log) : log'[i] = log[i]
  BY <1>1, <1>2, <1>3 DEF TypeOK
<1>6. fresh' \subseteq Nat
  BY <1>2 DEF TypeOK
<1>7. TypeOK'
  BY <1>1, <1>2, <1>4, <1>5, <1>6 DEF TypeOK
<1>8. PrefixInv'
  <2>1. \A k \in 1..Len(base) : k \in 1..Len(log)
    BY <1>2
  <2>2. \A k \in 1..Len(base) : log'[k] = base[k]
    BY <2>1, <1>5 DEF PrefixInv
  <2>3. QED
    BY <2>2, <1>1, <1>2, <1>4, <1>5 DEF PrefixInv
<1>9. \A i : Covers(i)' <=> Covers(i)
  BY <1>1 DEF Covers
<1>10. ~Covers(Position)
  BY CoveredIsRecorded DEF Record
<1>11. ReplayIdentical'
  <2>1. SUFFICES ASSUME NEW i \in 1..Position, Covers(i)
                 PROVE  returned'[i] = base[i].result
    BY <1>1, <1>4, <1>9 DEF ReplayIdentical
  <2>2. i # Position
    BY <2>1, <1>10
  <2>3. i \in DOMAIN returned
    BY <1>2, <1>4, <2>2
  <2>4. QED
    BY <2>1, <2>3, <1>4 DEF ReplayIdentical
<1>13. Unchanged' <=> Unchanged
  BY <1>1, <1>9 DEF Unchanged
<1>14. ASSUME Unchanged
       PROVE  Len(log) = cursor /\ Len(base) <= cursor
  <2>1. SUFFICES ASSUME Position <= Len(base) PROVE FALSE
    BY <1>2, <1>14 DEF ExtentInv
  <2>2. Position \in DOMAIN base
    BY <2>1, <1>2 DEF TypeOK
  <2>3. QED
    BY <2>2, <1>10, <1>14 DEF Unchanged
<1>15. ExtentInv'
  <2>1. ASSUME Unchanged
        PROVE  Len(log') = cursor' /\ ~(cursor' <= Len(base'))
    BY <2>1, <1>1, <1>2, <1>5, <1>14
  <2>2. QED
    BY <2>1, <1>13 DEF ExtentInv
<1>16. LogTellsAll'
  <2>1. SUFFICES ASSUME Unchanged, NEW i \in 1..Position
                 PROVE  /\ i \in DOMAIN log'
                        /\ log'[i].result = returned'[i]
                        /\ log'[i].seq = i - 1
    BY <1>1, <1>4, <1>13 DEF LogTellsAll, Unchanged
  <2>2. i \in DOMAIN log' /\ Len(log) = cursor
    BY <2>1, <1>2, <1>5, <1>14
  <2>3. CASE i = Position
    <3>1. log'[i] = NewEntry(value)
      BY <2>2, <2>3, <1>2, <1>5
    <3>2. NewEntry(value).result = value /\ NewEntry(value).seq = i - 1
      BY <2>3, <1>2 DEF NewEntry
    <3>3. QED
      BY <3>1, <3>2, <2>2, <2>3, <1>4
  <2>4. CASE i # Position
    <3>1. i \in DOMAIN returned /\ i \in 1..Len(log)
      BY <1>2, <1>4, <2>2, <2>4
    <3>2. log[i].result = returned[i] /\ log[i].seq = i - 1
      BY <3>1, <2>1 DEF LogTellsAll, Unchanged
    <3>3. QED
      BY <3>1, <3>2, <2>2, <1>4, <1>5
  <2>5. QED
    BY <2>3, <2>4
<1>17. QED
  BY <1>7, <1>8, <1>11, <1>15, <1>16

\* A closure that fails, or a recorded result of another type: the log stays.
LEMMA SideEffectFailsKeeps ==
    ASSUME IInv, SideEffectFails \/ RecallFails
    PROVE  IInv'
<1> USE DEF IInv
<1>1. /\ UNCHANGED <<program, log, base, returned, saved, put, late, acked, astray>>
      /\ fresh' \in {fresh, fresh \cup {Position}}
      /\ status' = "down" /\ failures' = failures + 1
      /\ cursor' = cursor \/ (cursor' = cursor + 1 /\ Recorded)
      /\ status = "up"
  BY DEF SideEffectFails, RecallFails, Calling, serverVars, historyVars, Fail
<1>2. /\ Position \in Nat /\ cursor \in Nat /\ Len(log) \in Nat /\ Len(base) \in Nat
      /\ cursor <= Len(log) /\ (Recorded => cursor < Len(log))
  BY DEF TypeOK, Position, Recorded
<1>3. TypeOK'
  BY <1>1, <1>2 DEF TypeOK
<1>4. \A i : Covers(i)' <=> Covers(i)
  BY <1>1 DEF Covers
<1>5. PrefixInv'
  BY <1>1 DEF PrefixInv
<1>6. ReplayIdentical' /\ (Unchanged' <=> Unchanged)
  BY <1>1, <1>4 DEF ReplayIdentical, Unchanged
<1>7. ExtentInv'
  BY <1>1, <1>2, <1>6 DEF ExtentInv
<1>8. LogTellsAll'
  BY <1>1, <1>6 DEF LogTellsAll, Unchanged
<1>9. QED
  BY <1>3, <1>5, <1>6, <1>7, <1>8

\* A fresh context satisfies the invariant, whatever log it is made from.
LEMMA NewContextKeeps ==
    ASSUME TypeOK', NEW entries \in Seq(Entries), NewContext(entries)
    PROVE  IInv'
<1>1. /\ log' = entries /\ base' = entries /\ cursor' = 0
      /\ returned' = <<>> /\ fresh' = {}
  BY DEF NewContext
<1>2. /\ Len(entries) \in Nat /\ DOMAIN returned' = {}
      /\ Len(returned') = 0
  BY <1>1
<1>3. PrefixInv'
  BY <1>1, <1>2 DEF PrefixInv
<1>4. ReplayIdentical' /\ LogTellsAll'
  BY <1>1, <1>2 DEF ReplayIdentical, LogTellsAll
<1>5. ExtentInv'
  BY <1>1, <1>2 DEF ExtentInv
<1>6. QED
  BY <1>3, <1>4, <1>5 DEF IInv

\* Steps that touch neither the context nor the program.
LEMMA IdleKeeps ==
    ASSUME IInv, UNCHANGED <<program, contextVars>>, TypeOK',
           status = "down" => status' = "down"
    PROVE  IInv'
<1>1. UNCHANGED <<program, log, cursor, base, returned, fresh>>
  BY DEF contextVars
<1>2. (\A i : Covers(i)' <=> Covers(i)) /\ (Unchanged' <=> Unchanged)
  BY <1>1 DEF Covers, Unchanged
<1>3. PrefixInv' /\ ReplayIdentical' /\ ExtentInv'
  BY <1>1, <1>2 DEF IInv, PrefixInv, ReplayIdentical, ExtentInv
<1>4. LogTellsAll'
  BY <1>1, <1>2 DEF IInv, LogTellsAll, Unchanged
<1>5. QED
  BY <1>3, <1>4 DEF IInv

-----------------------------------------------------------------------------
(* The invariant *)

\* The first execution, with an empty log.
LEMMA InitEstablishes == Init => IInv
<1> SUFFICES ASSUME Init PROVE IInv
  OBVIOUS
<1>1. <<>> \in Seq(Entries) /\ <<>> \in Seq(Values) /\ Len(<<>>) = 0
  OBVIOUS
<1>2. TypeOK
  <2>1. astray \in BOOLEAN
    BY DEF Init
  <2>2. /\ log = <<>> /\ base = <<>> /\ returned = <<>> /\ late = {} /\ fresh = {}
        /\ saved = None /\ put = None /\ status = "up" /\ program \in Programs
        /\ cursor = 0 /\ failures = 0 /\ acked = 0
    BY DEF Init
  <2>3. QED
    BY <1>1, <2>1, <2>2 DEF TypeOK
<1>3. PrefixInv /\ ExtentInv
  BY DEF Init, PrefixInv, ExtentInv
<1>4. ReplayIdentical /\ LogTellsAll
  BY DEF Init, ReplayIdentical, LogTellsAll
<1>5. QED
  BY <1>2, <1>3, <1>4 DEF IInv

\* Every step preserves it.
LEMMA NextKeeps == IInv /\ [Next]_vars => IInv'
<1> SUFFICES ASSUME IInv, [Next]_vars PROVE IInv'
  OBVIOUS
<1>1. ASSUME NEW value \in Values, Now(value) \/ Random(value) \/ SideEffect(value)
      PROVE  IInv'
  <2>1. /\ status = "up" /\ Position <= Len(program)
        /\ UNCHANGED <<program, serverVars, historyVars>>
    BY <1>1 DEF Now, Random, SideEffect, Calling
  <2>2. \/ Recall
        \/ Record(value) /\ fresh' \in {fresh, fresh \cup {Position}}
    BY <1>1 DEF Now, Random, SideEffect
  <2>3. QED
    BY <2>1, <2>2, RecallKeeps, RecordKeeps
<1>2. CASE SideEffectFails \/ RecallFails
  BY <1>2, SideEffectFailsKeeps
<1>3. CASE Checkpoint \/ CheckpointOk \/ ResumeFails \/ Delete \/ DeleteFails
  <2>1. UNCHANGED <<program, contextVars>>
    BY <1>3 DEF Checkpoint, CheckpointOk, ResumeFails, Delete, DeleteFails
  <2>2. UNCHANGED <<log, cursor, base, returned, fresh>>
    BY <2>1 DEF contextVars
  <2>3. /\ status' \in {"up", "saving", "down", "done"} /\ failures' \in Nat
        /\ saved' \in {saved, None} /\ put' \in {put, log} /\ late' = late
        /\ acked' \in {acked, Len(log)}
        /\ status = "down" => status' = "down"
    BY <1>3 DEF Checkpoint, CheckpointOk, ResumeFails, Delete, DeleteFails, Finished, Fail,
                serverVars, historyVars, IInv, TypeOK
  <2>4. astray' \in BOOLEAN
    BY <1>3 DEF Checkpoint, CheckpointOk, ResumeFails, Delete, DeleteFails, historyVars, IInv,
                TypeOK
  <2>5. TypeOK'
    BY <2>1, <2>2, <2>3, <2>4 DEF IInv, TypeOK
  <2>6. QED
    BY <2>1, <2>3, <2>5, IdleKeeps
<1>4. CASE PutApplied \/ \E entries \in late : LatePutApplied(entries)
  <2>1. UNCHANGED <<program, status, contextVars, failures>>
    BY <1>4 DEF PutApplied, LatePutApplied
  <2>2. UNCHANGED <<log, cursor, base, returned, fresh>>
    BY <2>1 DEF contextVars
  <2>3. /\ saved' \in late \cup {put} /\ put' \in {put, None} /\ late' \subseteq late
        /\ acked' = acked /\ astray' \in BOOLEAN
    BY <1>4 DEF PutApplied, LatePutApplied, historyVars, IInv, TypeOK
  <2>4. TypeOK'
    BY <2>1, <2>2, <2>3 DEF IInv, TypeOK
  <2>5. QED
    BY <2>1, <2>4, IdleKeeps
<1>5. CASE CheckpointFails \/ Crash
  <2>1. UNCHANGED <<program, contextVars, saved, acked, astray>>
    BY <1>5 DEF CheckpointFails, Crash, Abandoned, historyVars
  <2>2. UNCHANGED <<log, cursor, base, returned, fresh>>
    BY <2>1 DEF contextVars
  <2>3. /\ status' = "down" /\ failures' = failures + 1 /\ put' = None
        /\ late' \in {late, late \cup ({put} \ {None})}
    BY <1>5 DEF CheckpointFails, Crash, Abandoned, Fail
  <2>4. late' \subseteq Seq(Entries)
    BY <2>3 DEF IInv, TypeOK
  <2>5. TypeOK'
    BY <2>1, <2>2, <2>3, <2>4 DEF IInv, TypeOK
  <2>6. QED
    BY <2>1, <2>3, <2>5, IdleKeeps
<1>6. ASSUME NEW p \in Programs, Resume(p)
      PROVE  IInv'
  <2> DEFINE entries == IF saved = None THEN <<>> ELSE saved
  <2>1. entries \in Seq(Entries)
    BY DEF IInv, TypeOK
  <2>2. /\ status' = "up" /\ program' = p /\ NewContext(entries)
        /\ UNCHANGED <<saved, put, late, failures, acked>> /\ astray' \in BOOLEAN
    BY <1>6 DEF Resume, serverVars, IInv, TypeOK
  <2> HIDE DEF entries
  <2>3. TypeOK'
    BY <2>1, <2>2 DEF IInv, TypeOK, NewContext
  <2>4. QED
    BY <2>1, <2>2, <2>3, NewContextKeeps
<1>7. CASE Terminated \/ UNCHANGED vars
  <2>1. UNCHANGED vars
    BY <1>7 DEF Terminated
  <2>2. TypeOK' /\ UNCHANGED <<program, contextVars>>
    BY <2>1 DEF vars, contextVars, serverVars, historyVars, IInv, TypeOK
  <2>3. status' = status
    BY <2>1 DEF vars
  <2>4. QED
    BY <2>2, <2>3, IdleKeeps
<1>8. QED
  BY <1>1, <1>2, <1>3, <1>4, <1>5, <1>6, <1>7 DEF Next

-----------------------------------------------------------------------------
(* The checkpoints of code that has not changed *)

\* The entries answer the first calls of the program.
Fits(entries) ==
    /\ Len(entries) <= Len(program)
    /\ \A k \in 1..Len(entries) : Answers(entries[k], program[k])

\* Until something goes astray every log fits the program, and neither the log in
\* hand nor the one on the server falls behind what was acknowledged.
KeptInv ==
    /\ Fits(log) /\ acked <= Len(log)
    /\ \A entries \in late : Fits(entries)
    /\ put # None => status = "saving" /\ put = log
    /\ saved # None => Fits(saved)
    /\ status # "done" => IF saved = None THEN acked = 0 ELSE acked <= Len(saved)
    /\ status = "saving" /\ put = None => saved # None /\ Len(log) <= Len(saved)

HistoryInv == ~astray => KeptInv

\* In a log that fits, a call that is not answered is the one behind its end.
LEMMA BehindTheEnd ==
    ASSUME TypeOK, PrefixInv, status = "up", Fits(log), ~Recorded
    PROVE  cursor = Len(log) /\ Position = Len(log) + 1
<1>1. /\ cursor \in Nat /\ Len(log) \in Nat /\ cursor <= Len(log)
      /\ Position = cursor + 1
  BY DEF TypeOK, PrefixInv, Position
<1>2. ASSUME cursor < Len(log) PROVE FALSE
  <2>1. Position \in 1..Len(log)
    BY <1>1, <1>2
  <2>2. Answers(log[Position], program[Position])
    BY <2>1 DEF Fits
  <2>3. QED
    BY <1>1, <1>2, <2>2 DEF Recorded
<1>3. QED
  BY <1>1, <1>2

\* What a helper records fits as well.
LEMMA RecordFits ==
    ASSUME IInv, status = "up", Fits(log), Position <= Len(program), program' = program,
           NEW value \in Values, Record(value)
    PROVE  Fits(log)' /\ Len(log') = Len(log) + 1
<1>1. Position = Len(log) + 1 /\ Len(log) \in Nat /\ Len(program) \in Nat
  BY BehindTheEnd, ProgramShape DEF IInv, TypeOK, Record
<1>2. NewEntry(value) \in Entries /\ log' = Append(log, NewEntry(value))
  BY <1>1, NewEntryType DEF IInv, Record, NewEntry
<1>3. /\ Len(log') = Len(log) + 1 /\ log'[Position] = NewEntry(value)
      /\ \A k \in 1..Len(log) : log'[k] = log[k]
  BY <1>1, <1>2 DEF IInv, TypeOK
<1>4. Answers(NewEntry(value), program[Position])
  BY DEF Answers, NewEntry
<1>5. ASSUME NEW k \in 1..Len(log') PROVE Answers(log'[k], program[k])
  <2>1. k = Position \/ k \in 1..Len(log)
    BY <1>1, <1>3
  <2>2. QED
    BY <1>3, <1>4, <2>1 DEF Fits
<1>6. QED
  BY <1>1, <1>3, <1>5 DEF Fits

\* Every step of code that goes on unchanged keeps it.
LEMMA HistoryKeeps == IInv /\ HistoryInv /\ [Next]_vars => HistoryInv'
<1> SUFFICES ASSUME IInv, HistoryInv, [Next]_vars, ~astray' PROVE KeptInv'
  BY DEF HistoryInv
<1>1. TypeOK /\ Len(log) \in Nat /\ log # None /\ None \notin late
  BY NoneAssumption DEF IInv, TypeOK
<1>2. astray => astray'
  BY DEF Next, Now, Random, SideEffect, RecallFails, SideEffectFails, Calling, Checkpoint,
     PutApplied, CheckpointOk, CheckpointFails, Abandoned, LatePutApplied, Delete,
     DeleteFails, Crash, Resume, ResumeFails, Terminated, historyVars, vars
<1>3. KeptInv
  BY <1>2 DEF HistoryInv
<1>4. ASSUME NEW value \in Values, Now(value) \/ Random(value) \/ SideEffect(value)
      PROVE  KeptInv'
  <2>1. /\ status = "up" /\ Position <= Len(program)
        /\ UNCHANGED <<program, saved, put, late, acked>>
    BY <1>4 DEF Now, Random, SideEffect, Calling, serverVars, historyVars
  <2>2. CASE Recall
    BY <1>3, <2>1, <2>2 DEF Recall, KeptInv, Fits
  <2>3. CASE Record(value)
    <3>1. Fits(log)' /\ Len(log') = Len(log) + 1
      BY <1>3, <2>1, <2>3, RecordFits DEF KeptInv
    <3>2. status' = "up" /\ acked' <= Len(log')
      BY <1>1, <1>3, <2>1, <2>3, <3>1 DEF Record, KeptInv, TypeOK
    <3>3. QED
      BY <1>3, <2>1, <3>1, <3>2 DEF KeptInv, Fits
  <2>4. QED
    BY <1>4, <2>2, <2>3 DEF Now, Random, SideEffect
<1>5. CASE \/ SideEffectFails \/ RecallFails \/ ResumeFails \/ Delete \/ DeleteFails
           \/ Terminated \/ UNCHANGED vars
  <2>1. /\ UNCHANGED <<program, log, put, late, acked>>
        /\ saved' = saved \/ (saved' = None /\ status' = "done")
        /\ status' \in {status, "down", "done"} /\ (put # None => status' = status)
        /\ status = "done" => status' = "done"
    BY <1>3, <1>5 DEF SideEffectFails, RecallFails, Calling, ResumeFails, Delete, DeleteFails,
       Finished, Fail, Terminated, vars, contextVars, serverVars, historyVars, KeptInv
  <2>2. QED
    BY <1>3, <2>1 DEF KeptInv, Fits
<1>6. CASE Checkpoint
  <2>1. /\ UNCHANGED <<program, log, saved, late, acked>> /\ status = "up"
        /\ status' = "saving" /\ put' = log
    BY <1>6 DEF Checkpoint, contextVars, historyVars
  <2>2. QED
    BY <1>1, <1>3, <2>1 DEF KeptInv, Fits
<1>7. CASE PutApplied
  <2>1. /\ UNCHANGED <<program, status, log, late, acked>>
        /\ put # None /\ saved' = put /\ put' = None
    BY <1>7 DEF PutApplied, contextVars, historyVars
  <2>2. QED
    BY <1>1, <1>3, <2>1 DEF KeptInv, Fits
<1>8. CASE CheckpointOk
  <2>1. /\ UNCHANGED <<program, log, saved, put, late>>
        /\ status = "saving" /\ put = None /\ status' = "up" /\ acked' = Len(log)
    BY <1>8 DEF CheckpointOk, contextVars, serverVars
  <2>2. QED
    BY <1>1, <1>3, <2>1 DEF KeptInv, Fits
<1>9. CASE CheckpointFails \/ Crash
  <2>1. /\ UNCHANGED <<program, log, saved, acked>> /\ status \in {"up", "saving"}
        /\ status' = "down" /\ put' = None /\ late' \subseteq late \cup ({put} \ {None})
    BY <1>9 DEF CheckpointFails, Crash, Abandoned, Fail, contextVars, historyVars
  <2>2. QED
    BY <1>3, <2>1 DEF KeptInv, Fits
<1>10. ASSUME NEW entries \in late, LatePutApplied(entries)
       PROVE  KeptInv'
  <2>1. /\ UNCHANGED <<program, status, log, put, acked>>
        /\ saved' = entries /\ late' \subseteq late
        /\ saved = None \/ ~(Len(entries) < Len(saved))
    BY <1>10 DEF LatePutApplied, contextVars
  <2>2. /\ entries \in Seq(Entries) /\ Len(entries) \in Nat /\ entries # None
        /\ acked \in Nat /\ (saved # None => Len(saved) \in Nat)
    BY <1>1 DEF TypeOK
  <2>3. saved # None => Len(saved) <= Len(entries)
    BY <2>1, <2>2
  <2>4. status # "done" => acked <= Len(entries)
    BY <1>3, <2>2, <2>3 DEF KeptInv
  <2>5. QED
    BY <1>1, <1>3, <2>1, <2>2, <2>3, <2>4 DEF KeptInv, Fits
<1>11. ASSUME NEW p \in Programs, Resume(p)
       PROVE  KeptInv'
  <2>1. /\ UNCHANGED <<program, saved, put, late, acked>>
        /\ status = "down" /\ status' = "up"
        /\ log' = IF saved = None THEN <<>> ELSE saved
    BY <1>11 DEF Resume, NewContext, serverVars
  <2>2. put = None
    BY <1>3, <2>1 DEF KeptInv
  <2>3. Len(<<>>) = 0 /\ 1..0 = {} /\ Len(program) \in Nat
    BY <1>1, ProgramShape
  <2>4. QED
    BY <1>3, <2>1, <2>2, <2>3 DEF KeptInv, Fits
<1>12. QED
  BY <1>4, <1>5, <1>6, <1>7, <1>8, <1>9, <1>10, <1>11 DEF Next

\* The first execution has nothing to answer its calls, and nothing acknowledged.
LEMMA HistoryInit == Init => HistoryInv
<1> SUFFICES ASSUME Init PROVE KeptInv
  BY DEF HistoryInv
<1>1. Len(<<>>) = 0 /\ 1..0 = {} /\ Len(program) \in Nat
  BY InitEstablishes, ProgramShape DEF IInv
<1>2. QED
  BY <1>1 DEF Init, KeptInv, Fits

\* The invariant of the proof, on which the results below rest.
THEOREM Invariance == Spec => [](IInv /\ HistoryInv)
<1>1. Init => IInv /\ HistoryInv
  BY InitEstablishes, HistoryInit
<1>2. (IInv /\ HistoryInv) /\ [Next]_vars => (IInv /\ HistoryInv)'
  BY NextKeeps, HistoryKeeps
<1>3. QED
  BY <1>1, <1>2, PTL DEF Spec

\* The log, the cursor and the checkpoints are what the code takes them for, in
\* every reachable state.
THEOREM TypeCorrectness == Spec => []TypeOK
<1>1. IInv => TypeOK
  BY DEF IInv
<1>2. QED
  BY Invariance, <1>1, PTL

\* "Re-executions after a crash produce identical values" (durable.rs:8), as far
\* as the log answers the calls of the code that is executed.
THEOREM Replays == Spec => []ReplayIdentical
<1>1. IInv => ReplayIdentical
  BY DEF IInv
<1>2. QED
  BY Invariance, <1>1, PTL

\* No closure is called for a call that the log resumed from answers in its place,
\* nor for one whose result was in an acknowledged checkpoint, unless the code has
\* changed or a checkpoint was overwritten by an older one or deleted (side_effect,
\* durable.rs:260).
THEOREM EffectsOnce == Spec => RecordedEffectsOnce
<1> DEFINE Once == \A i \in fresh' \ fresh : ~Covers(i) /\ (~astray => i > acked)
<1>1. IInv /\ HistoryInv /\ [Next]_vars => [Once]_vars
  <2> SUFFICES ASSUME IInv, HistoryInv, Next, NEW i \in fresh' \ fresh
               PROVE  ~Covers(i) /\ (~astray => i > acked)
    BY DEF vars, contextVars
  <2>1. i = Position /\ ~Recorded /\ status = "up"
    <3>1. CASE \E value \in Values : Now(value) \/ Random(value) \/ SideEffect(value)
      BY <3>1 DEF Now, Random, SideEffect, Calling, Recall, Record
    <3>2. CASE SideEffectFails
      BY <3>2 DEF SideEffectFails, Calling
    <3>3. CASE ~SideEffectFails
               /\ ~\E value \in Values : Now(value) \/ Random(value) \/ SideEffect(value)
      <4>1. fresh' \in {fresh, {}}
        BY <3>3 DEF Next, RecallFails, Checkpoint, PutApplied, CheckpointOk, CheckpointFails,
           Abandoned, LatePutApplied, Delete, DeleteFails, Crash, Resume, NewContext,
           ResumeFails, Terminated, contextVars, vars
      <4>2. QED
        BY <4>1
    <3>4. QED
      BY <3>1, <3>2, <3>3
  <2>2. ~Covers(Position)
    BY <2>1, CoveredIsRecorded DEF IInv
  <2>3. ASSUME ~astray PROVE Position > acked
    <3>1. KeptInv
      BY <2>3 DEF HistoryInv
    <3>2. Position = Len(log) + 1
      BY <2>1, <3>1, BehindTheEnd DEF IInv, KeptInv
    <3>3. QED
      BY <3>1, <3>2 DEF KeptInv, IInv, TypeOK
  <2>4. QED
    BY <2>1, <2>2, <2>3
<1>2. QED
  BY Invariance, <1>1, PTL DEF Spec, RecordedEffectsOnce

\* While the code is the one that wrote the log, the log tells all that the
\* helpers have returned (checkpoint, durable.rs).
THEOREM LogComplete == Spec => []LogTellsAll
<1>1. IInv => LogTellsAll
  BY DEF IInv
<1>2. QED
  BY Invariance, <1>1, PTL
=============================================================================
