------------------------------ MODULE Readiness ------------------------------
(***************************************************************************)
(* What pugjs/startup.go and controllers/ready.go promise together: the    *)
(* startup consists of tasks, the module becomes ready once, and not       *)
(* before the whole startup is over.                                       *)
(***************************************************************************)
CONSTANT Tasks

VARIABLES
    pending,   \* tasks that have been added and have not returned
    closed,    \* no further task will be added
    ready      \* /pugjs/ready answers 200

vars == <<pending, closed, ready>>

Init ==
    /\ pending = {}
    /\ closed = FALSE
    /\ ready = FALSE

Add(t) ==
    /\ ~closed
    /\ t \notin pending
    /\ pending' = pending \cup {t}
    /\ UNCHANGED <<closed, ready>>

Return(t) ==
    /\ t \in pending
    /\ pending' = pending \ {t}
    /\ UNCHANGED <<closed, ready>>

Close ==
    /\ ~closed
    /\ closed' = TRUE
    /\ UNCHANGED <<pending, ready>>

BecomeReady ==
    /\ closed
    /\ pending = {}
    /\ ~ready
    /\ ready' = TRUE
    /\ UNCHANGED <<pending, closed>>

Next ==
    \/ \E t \in Tasks : Add(t) \/ Return(t)
    \/ Close
    \/ BecomeReady

Spec == Init /\ [][Next]_vars
=============================================================================
