---------------------------- MODULE GracefulPool ----------------------------
(***************************************************************************)
(* What Worker::start promises (its documentation, src/src/worker.rs lines *)
(* 445-449): at most Size jobs run at once; once it closes it starts none; *)
(* and it is over only when every job has ended or the grace period has.   *)
(***************************************************************************)
EXTENDS Naturals, FiniteSets

CONSTANTS
    Tasks,      \* what can run
    Size        \* the concurrency limit

VARIABLES
    running,    \* the tasks that run
    phase,      \* "open", "closing" or "closed"
    expired     \* the grace period has passed

vars == <<running, phase, expired>>

Init ==
    /\ running = {}
    /\ phase = "open"
    /\ expired = FALSE

Start(t) ==
    /\ phase = "open"
    /\ t \notin running
    /\ Cardinality(running) < Size
    /\ running' = running \cup {t}
    /\ UNCHANGED <<phase, expired>>

\* A task ends, or is dropped once the pool is closed.
End(t) ==
    /\ t \in running
    /\ running' = running \ {t}
    /\ UNCHANGED <<phase, expired>>

Close ==
    /\ phase = "open"
    /\ phase' = "closing"
    /\ UNCHANGED <<running, expired>>

Expire ==
    /\ phase = "closing"
    /\ ~expired
    /\ expired' = TRUE
    /\ UNCHANGED <<running, phase>>

Finish ==
    /\ phase = "closing"
    /\ running = {} \/ expired
    /\ phase' = "closed"
    /\ UNCHANGED <<running, expired>>

Next ==
    \/ \E t \in Tasks : Start(t) \/ End(t)
    \/ Close
    \/ Expire
    \/ Finish

Spec == Init /\ [][Next]_vars
=============================================================================
