--------------------------- MODULE GracefulService ---------------------------
(***************************************************************************)
(* What a process of the platform promises when it is told to stop: it     *)
(* takes on no more clients, and it ends when those it has are through,    *)
(* unless it gave up on them.  ("Graceful shutdown - in-flight requests    *)
(* ... are drained before exit", README.md:20)                             *)
(***************************************************************************)
CONSTANT Clients

VARIABLES
    phase,   \* starting, up, stopping, down
    active,  \* clients being served
    gaveUp   \* the process no longer waits for its clients

vars == <<phase, active, gaveUp>>

Init == phase = "starting" /\ active = {} /\ gaveUp = FALSE

\* A process may come up with clients of its own: the goroutines of a worker.
ComeUp ==
    /\ phase = "starting" /\ phase' = "up"
    /\ active' \in SUBSET Clients
    /\ UNCHANGED gaveUp

Admit(c) ==
    /\ phase = "up"
    /\ active' = active \cup {c}
    /\ UNCHANGED <<phase, gaveUp>>

Leave(c) ==
    /\ active' = active \ {c}
    /\ UNCHANGED <<phase, gaveUp>>

Stop ==
    /\ phase \in {"starting", "up"} /\ phase' = "stopping"
    /\ UNCHANGED <<active, gaveUp>>

GiveUp ==
    /\ phase \in {"up", "stopping"}
    /\ gaveUp' = TRUE
    /\ UNCHANGED <<phase, active>>

\* The process is gone, and with it whoever it gave up on.
End ==
    /\ phase \in {"starting", "stopping"} /\ phase' = "down"
    /\ active = {} \/ gaveUp
    /\ active' = {}
    /\ UNCHANGED gaveUp

Next == ComeUp \/ Stop \/ GiveUp \/ End \/ \E c \in Clients : Admit(c) \/ Leave(c)

Spec == Init /\ [][Next]_vars
=============================================================================
