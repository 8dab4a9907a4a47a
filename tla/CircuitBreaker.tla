---------------------------- MODULE CircuitBreaker ----------------------------
(***************************************************************************)
(* The circuit breaker of internal/infra/outbound/httpclient/breaker.go:   *)
(* its fields and its three methods, each atomic because it holds cb.mu.   *)
(*                                                                         *)
(* The clock is kept as the time since an instant, saturated at            *)
(* OpenTimeout because the code only compares it with >= OpenTimeout.      *)
(***************************************************************************)
EXTENDS Integers

CONSTANTS
    MaxFailures,     \* BreakerConfig.MaxFailures
    OpenTimeout,     \* BreakerConfig.OpenTimeout, in ticks
    HalfOpenProbes   \* BreakerConfig.HalfOpenProbes

ASSUME BreakerAssumption ==
    MaxFailures \in Nat /\ OpenTimeout \in Nat /\ HalfOpenProbes \in Nat

VARIABLES
    state,         \* cb.state
    failures,      \* cb.failures
    probes,        \* cb.probes
    sinceFailure,  \* time since cb.lastFailure
    sinceOpened    \* history: time since the last transition to open

counters == <<failures, probes>>
breaker  == <<state, counters, sinceFailure, sinceOpened>>

BreakerInit ==
    /\ state = "closed"
    /\ failures = 0 /\ probes = 0
    /\ sinceFailure = OpenTimeout
    /\ sinceOpened = OpenTimeout

\* Faulty variant: a transition leaves the counters.
transitionKeepingCounters(next) ==
    /\ state' = next
    /\ UNCHANGED counters
    /\ sinceOpened' = IF next = "open" THEN 0 ELSE sinceOpened

transition(next) ==
    /\ state' = next
    /\ failures' = 0 /\ probes' = 0
    /\ sinceOpened' = IF next = "open" THEN 0 ELSE sinceOpened

-----------------------------------------------------------------------------
\* Faulty variant: only an answer moves the breaker out of open.
AllowsUnlessOpen == state # "open"

\* Allow returns nil.
Allows == state = "open" => sinceFailure >= OpenTimeout

Allow ==
    /\ IF state = "open" /\ Allows
       THEN transition("half-open")
       ELSE UNCHANGED <<state, counters, sinceOpened>>
    /\ UNCHANGED sinceFailure

\* A success while open is ignored.
RecordSuccess ==
    /\ \/ /\ state = "closed"
          /\ failures' = 0
          /\ UNCHANGED <<state, probes, sinceOpened>>
       \/ /\ state = "open"
          /\ UNCHANGED <<state, counters, sinceOpened>>
       \/ /\ state = "half-open" /\ probes + 1 >= HalfOpenProbes
          /\ transition("closed")
       \/ /\ state = "half-open" /\ probes + 1 < HalfOpenProbes
          /\ probes' = probes + 1
          /\ UNCHANGED <<state, failures, sinceOpened>>
    /\ UNCHANGED sinceFailure

\* A failure while closed, counted against a limit.
CountFailure(limit) ==
    \/ /\ failures + 1 >= limit
       /\ transition("open")
    \/ /\ failures + 1 < limit
       /\ failures' = failures + 1
       /\ UNCHANGED <<state, probes, sinceOpened>>

\* Faulty variant: the failure after the last tolerated one trips.
RecordFailureOffByOne ==
    /\ sinceFailure' = 0
    /\ \/ state = "closed" /\ CountFailure(MaxFailures + 1)
       \/ state = "open" /\ UNCHANGED <<state, counters, sinceOpened>>
       \/ state = "half-open" /\ transition("open")

\* Faulty variant: the failure of a probe reopens without renewing lastFailure.
RecordFailureKeepingTime ==
    \/ state = "closed" /\ CountFailure(MaxFailures) /\ sinceFailure' = 0
    \/ state = "open" /\ sinceFailure' = 0 /\ UNCHANGED <<state, counters, sinceOpened>>
    \/ state = "half-open" /\ transition("open") /\ UNCHANGED sinceFailure

\* A failure while open only renews lastFailure.
RecordFailure ==
    /\ sinceFailure' = 0
    /\ \/ state = "closed" /\ CountFailure(MaxFailures)
       \/ state = "open" /\ UNCHANGED <<state, counters, sinceOpened>>
       \/ state = "half-open" /\ transition("open")

\* A tick of the clock.
Later(t) == IF t < OpenTimeout THEN t + 1 ELSE t

Wait ==
    /\ sinceFailure' = Later(sinceFailure)
    /\ sinceOpened' = Later(sinceOpened)
    /\ UNCHANGED <<state, counters>>

-----------------------------------------------------------------------------
BreakerTypeOK ==
    /\ state \in {"closed", "open", "half-open"}
    /\ failures \in Nat /\ probes \in Nat
    /\ sinceFailure \in 0..OpenTimeout
    /\ sinceOpened \in 0..OpenTimeout
=============================================================================
