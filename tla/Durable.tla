------------------------------- MODULE Durable -------------------------------
(***************************************************************************)
(* Durable execution (src/src/durable.rs): a job handler that calls the    *)
(* deterministic helpers of a DurableContext, saves its replay log as the  *)
(* job's checkpoint, crashes or fails anywhere and is executed again from  *)
(* the checkpoint, perhaps by a newer version of its code.                 *)
(*                                                                         *)
(* A handler is the sequence of the helper calls it makes.  It passes every *)
(* error on, as the module's example does, and the job is then retried.    *)
(* The server's checkpoint is external: a PUT whose reply is lost may have *)
(* been applied, or be applied later, even after the next resume.          *)
(***************************************************************************)
EXTENDS Naturals, Sequences

CONSTANTS
    Keys,           \* the keys of side effects
    Values,         \* the results of the helpers
    Programs,       \* the versions of the handler's code
    MaxFailures,    \* bound on crashes and failed calls
    None            \* no checkpoint

Call(type, key) == [type |-> type, key |-> key]

Calls == {Call("now", "now"), Call("random", "random")}
            \cup {Call("side_effect", key) : key \in Keys}

\* ReplayEntry
Entries == [seq : Nat, type : {"now", "random", "side_effect"},
            key : Keys \cup {"now", "random"}, result : Values]

ASSUME ProgramsAssumption == Programs \subseteq Seq(Calls)
ASSUME NoneAssumption == None \notin Seq(Entries)

VARIABLES
    program,        \* the code of this execution
    status,         \* "up", "saving" (a PUT without a reply yet), "down" or "done"
    log,            \* DurableContext.replay_log
    cursor,         \* DurableContext.replay_cursor
    base,           \* the log that this execution started with
    returned,       \* what the helpers have returned to this execution
    fresh,          \* the calls of this execution whose closure was called
    saved,          \* the checkpoint on the server
    put,            \* the checkpoint sent and not applied yet, or None
    late,           \* checkpoints of failed calls that may still be applied
    failures,
    acked,          \* history: the entries of the last checkpoint that was acknowledged
    astray          \* history: the code has changed, or a newer checkpoint was overwritten

contextVars == <<log, cursor, base, returned, fresh>>
serverVars  == <<saved, put, late>>
historyVars == <<acked, astray>>
vars        == <<program, status, contextVars, serverVars, failures, historyVars>>

\* DurableContext::new, or new_with_replay.
NewContext(entries) ==
    /\ log' = entries
    /\ base' = entries
    /\ cursor' = 0
    /\ returned' = <<>>
    /\ fresh' = {}

Init ==
    /\ program \in Programs
    /\ status = "up"
    /\ log = <<>>
    /\ cursor = 0
    /\ base = <<>>
    /\ returned = <<>>
    /\ fresh = {}
    /\ saved = None
    /\ put = None
    /\ late = {}
    /\ failures = 0
    /\ acked = 0
    /\ astray = FALSE

-----------------------------------------------------------------------------
(* The helpers. *)

Position == Len(returned) + 1

Calling(type) ==
    /\ status = "up"
    /\ Position <= Len(program)
    /\ program[Position].type = type
    /\ UNCHANGED <<program, serverVars, historyVars>>

\* An entry answers a call of its type; a side effect's key counts too.
Answers(entry, call) ==
    /\ entry.type = call.type
    /\ call.type = "side_effect" => entry.key = call.key

Recorded ==
    /\ cursor < Len(log)
    /\ Answers(log[cursor + 1], program[Position])

\* Mutant: the recorded result is returned, and the cursor stays.
RecallInPlace ==
    /\ Recorded
    /\ returned' = Append(returned, log[cursor + 1].result)
    /\ UNCHANGED <<status, log, cursor, base, fresh, failures>>

Recall ==
    /\ Recorded
    /\ returned' = Append(returned, log[cursor + 1].result)
    /\ cursor' = cursor + 1
    /\ UNCHANGED <<status, log, base, fresh, failures>>

\* Mutant: the cursor is left for the entry that was just pushed.
RecordInPlace(value) ==
    /\ ~Recorded
    /\ log' = Append(log, [seq |-> cursor, type |-> program[Position].type,
                           key |-> program[Position].key, result |-> value])
    /\ returned' = Append(returned, value)
    /\ UNCHANGED <<status, base, cursor, failures>>

\* No entry at the cursor, or one of another call: the new entry goes to the
\* end of the log, with the cursor as its sequence number.
Record(value) ==
    /\ ~Recorded
    /\ log' = Append(log, [seq |-> cursor, type |-> program[Position].type,
                           key |-> program[Position].key, result |-> value])
    /\ cursor' = cursor + 1
    /\ returned' = Append(returned, value)
    /\ UNCHANGED <<status, base, failures>>

Now(value) == Calling("now") /\ (Recall \/ (Record(value) /\ UNCHANGED fresh))

Random(value) == Calling("random") /\ (Recall \/ (Record(value) /\ UNCHANGED fresh))

\* Mutant: the log is looked at after the closure was called.
SideEffectAlways(value) ==
    /\ Calling("side_effect")
    /\ fresh' = fresh \cup {Position}
    /\ \/ Record(value)
       \/ /\ Recorded
          /\ returned' = Append(returned, log[cursor + 1].result)
          /\ cursor' = cursor + 1
          /\ UNCHANGED <<status, log, base, failures>>

SideEffect(value) ==
    /\ Calling("side_effect")
    /\ \/ Recall
       \/ Record(value) /\ fresh' = fresh \cup {Position}

Fail ==
    /\ failures < MaxFailures
    /\ failures' = failures + 1
    /\ status' = "down"

\* The recorded result is none of the type asked for; the cursor has moved on.
RecallFails ==
    /\ Calling("side_effect")
    /\ Recorded
    /\ cursor' = cursor + 1
    /\ Fail
    /\ UNCHANGED <<log, base, returned, fresh>>

\* f() returns Err, with or without its effect: nothing is recorded.
SideEffectFails ==
    /\ Calling("side_effect")
    /\ ~Recorded
    /\ fresh' = fresh \cup {Position}
    /\ Fail
    /\ UNCHANGED <<log, cursor, base, returned>>

-----------------------------------------------------------------------------
(* The checkpoint calls. *)

Checkpoint ==
    /\ status = "up"
    /\ status' = "saving"
    /\ put' = log
    /\ UNCHANGED <<program, contextVars, saved, late, failures, historyVars>>

\* External: the server applies the PUT.
PutApplied ==
    /\ put # None
    /\ saved' = put
    /\ put' = None
    /\ UNCHANGED <<program, status, contextVars, late, failures, historyVars>>

CheckpointOk ==
    /\ status = "saving"
    /\ put = None
    /\ status' = "up"
    /\ acked' = Len(log)
    /\ UNCHANGED <<program, contextVars, serverVars, failures, astray>>

\* A transport error, an error status or a crash; what was sent may still arrive.
Abandoned ==
    /\ put' = None
    /\ late' \in {late, late \cup ({put} \ {None})}
    /\ UNCHANGED <<program, contextVars, saved, historyVars>>

CheckpointFails ==
    /\ status = "saving"
    /\ Fail
    /\ Abandoned

\* External: a PUT of an earlier call is applied.
LatePutApplied(entries) ==
    /\ entries \in late
    /\ late' = late \ {entries}
    /\ saved' = entries
    /\ astray' = (astray \/ (saved # None /\ Len(entries) < Len(saved)))
    /\ UNCHANGED <<program, status, contextVars, put, failures, acked>>

Finished == status = "up" /\ Len(returned) = Len(program)

\* 200 and 404 alike.
Delete ==
    /\ Finished
    /\ status' = "done"
    /\ saved' = None
    /\ UNCHANGED <<program, contextVars, put, late, failures, historyVars>>

\* The call fails; it may have been applied.
DeleteFails ==
    /\ Finished
    /\ saved' \in {saved, None}
    /\ astray' = (astray \/ saved' # saved)
    /\ Fail
    /\ UNCHANGED <<program, contextVars, put, late, acked>>

Crash ==
    /\ status \in {"up", "saving"}
    /\ Fail
    /\ Abandoned

\* The job is executed again, by the code p that is deployed by then: resume()
\* returns the checkpoint, or None after a 404.
Resume(p) ==
    /\ status = "down"
    /\ status' = "up"
    /\ program' = p
    /\ NewContext(IF saved = None THEN <<>> ELSE saved)
    /\ astray' = (astray \/ p # program)
    /\ UNCHANGED <<serverVars, failures, acked>>

ResumeFails ==
    /\ status = "down"
    /\ Fail
    /\ UNCHANGED <<program, contextVars, serverVars, historyVars>>

Terminated ==
    /\ status = "done"
    /\ UNCHANGED vars

Next ==
    \/ \E value \in Values : Now(value) \/ Random(value) \/ SideEffect(value)
    \/ RecallFails
    \/ SideEffectFails
    \/ Checkpoint
    \/ PutApplied
    \/ CheckpointOk
    \/ CheckpointFails
    \/ \E entries \in late : LatePutApplied(entries)
    \/ Delete
    \/ DeleteFails
    \/ Crash
    \/ \E p \in Programs : Resume(p)
    \/ ResumeFails
    \/ Terminated

Spec == Init /\ [][Next]_vars

-----------------------------------------------------------------------------
(* Properties *)

\* The log this execution started with answers its first n calls.
Covers(n) ==
    /\ n <= Len(base)
    /\ n <= Len(program)
    /\ \A k \in 1..n : Answers(base[k], program[k])

\* "Re-executions after a crash produce identical values" (durable.rs:8): as far
\* as the log an execution resumes from answers its calls one by one, each helper
\* returns the recorded result, whatever was crashed, redeployed or saved since.
ReplayIdentical ==
    \A i \in DOMAIN returned : Covers(i) => returned[i] = base[i].result

\* "Execute a side effect exactly once" (durable.rs:260), as far as the code can:
\* recall goes by the position in the log, not by the key.  No closure is called
\* for the i-th call of the handler while the log resumed from answers the first i
\* calls one by one; and once a checkpoint with i entries was acknowledged, none is
\* called for the i-th call in any later execution, however often the job crashes,
\* unless its code has changed, a late checkpoint has overwritten a newer one, or a
\* delete that was reported as failed has been applied.
RecordedEffectsOnce ==
    [][\A i \in fresh' \ fresh : ~Covers(i) /\ (~astray => i > acked)]_vars

\* A checkpoint taken at any moment tells all the handler has seen: unless the code
\* has changed under its log, the first entries of the log are, in order and
\* numbered from 0, the results the helpers have returned to it.
LogTellsAll ==
    LET unchanged == \A k \in DOMAIN base : base[k].seq = k - 1 /\ Covers(k)
    IN unchanged => \A i \in DOMAIN returned :
                       i \in DOMAIN log /\ log[i].result = returned[i] /\ log[i].seq = i - 1

\* The position in the log is the number of calls made, and within the log.
TypeOK ==
    /\ program \in Programs
    /\ status \in {"up", "saving", "down", "done"}
    /\ log \in Seq(Entries) /\ base \in Seq(Entries)
    /\ returned \in Seq(Values)
    /\ cursor \in Nat /\ cursor <= Len(log)
    /\ fresh \subseteq Nat
    /\ saved \in Seq(Entries) \cup {None} /\ put \in Seq(Entries) \cup {None}
    /\ late \subseteq Seq(Entries)
    /\ failures \in Nat
    /\ acked \in Nat
    /\ astray \in BOOLEAN
=============================================================================
