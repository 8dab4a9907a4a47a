---------------------------- MODULE EventLifecycle ----------------------------
(***************************************************************************)
(* What the platform promises about the life of one event, as the status   *)
(* column of webhook_events shows it: accepted, queued, taken up, and      *)
(* settled once, as processed or as failed.  The statuses are those of     *)
(* internal/core/domain/event.go; the abstract steps say nothing of        *)
(* messages, attempts, workers or faults.                                  *)
(***************************************************************************)
CONSTANT Events

VARIABLES
    status,  \* webhook_events.status by event, "absent" without a row
    queued   \* events a message was published for

vars == <<status, queued>>

Init ==
    /\ status = [e \in Events |-> "absent"]
    /\ queued = {}

Move(e, from, to) ==
    /\ status[e] \in from
    /\ status' = [status EXCEPT ![e] = to]
    /\ UNCHANGED queued

Accept(e) == Move(e, {"absent"}, "pending")

Enqueue(e) ==
    /\ status[e] # "absent"
    /\ queued' = queued \cup {e}
    /\ UNCHANGED status

Start(e)  == e \in queued /\ Move(e, {"pending"}, "processing")
Finish(e) == e \in queued /\ Move(e, {"processing"}, "processed")
Fail(e)   == e \in queued /\ Move(e, {"pending", "processing"}, "failed")

Next == \E e \in Events : Accept(e) \/ Enqueue(e) \/ Start(e) \/ Finish(e) \/ Fail(e)

Spec == Init /\ [][Next]_vars
=============================================================================
