---------------------------- MODULE OutboundClient ----------------------------
(***************************************************************************)
(* Concurrent callers of Client.Do (internal/infra/outbound/httpclient/    *)
(* client.go), who share one circuit breaker and one server.               *)
(*                                                                         *)
(* A call is a loop of attempts: ask the breaker, send the request, take   *)
(* the answer, record it, back off.  Other callers run between any two of  *)
(* these steps, so an answer may be recorded long after the breaker let    *)
(* the request through.  The answers are what the code tells apart: an     *)
(* error of the transport, a status retryableStatus accepts (429 or 5xx),  *)
(* and any other status, which is final.                                   *)
(***************************************************************************)
EXTENDS CircuitBreaker, Sequences

CONSTANTS
    Callers,      \* goroutines that call Do
    MaxRetries,   \* Config.MaxRetries
    Cancellable,  \* callers whose context may be cancelled during a call
    BaseDelay,    \* baseDelay, in units of time
    MaxDelay,     \* maxDelay
    Width         \* bits of time.Duration

ASSUME ClientAssumption == MaxRetries \in Nat /\ Cancellable \subseteq Callers

ASSUME DelayAssumption ==
    /\ Width \in Nat \ {0} /\ BaseDelay \in Nat \ {0}
    /\ MaxDelay \in 1..2^(Width - 1) - 2

Answers  == {"error", "retryable", "final"}
Failures == {"error", "retryable"}

VARIABLES
    pc,         \* what a caller does next
    attempt,    \* its attempt, from 0
    answer,     \* the answer to its last attempt
    cancelled,  \* callers whose context is done
    healthy,    \* the server answers every request with a final status
    history     \* the last outcomes recorded: [answer, as]

calls == <<pc, attempt, answer, cancelled>>
vars  == <<breaker, calls, healthy, history>>

Init ==
    /\ BreakerInit
    /\ pc = [c \in Callers |-> "idle"]
    /\ attempt = [c \in Callers |-> 0]
    /\ answer = [c \in Callers |-> "final"]
    /\ cancelled = {}
    /\ healthy \in BOOLEAN
    /\ history = << >>

Goto(c, next) == pc' = [pc EXCEPT ![c] = next]

\* The outcome joins the history, which is as long as the properties look back.
AtLeast(m, n) == IF m > n THEN m ELSE n
Window == AtLeast(1, AtLeast(MaxFailures, HalfOpenProbes))
Logged(a, as) ==
    LET longer == Append(history, [answer |-> a, as |-> as]) IN
    history' = IF Len(longer) > Window THEN Tail(longer) ELSE longer

-----------------------------------------------------------------------------
Call(c) ==
    /\ pc[c] = "idle"
    /\ Goto(c, "allow")
    /\ attempt' = [attempt EXCEPT ![c] = 0]
    /\ answer' = [answer EXCEPT ![c] = "final"]
    /\ cancelled' = cancelled \ {c}
    /\ UNCHANGED <<breaker, healthy, history>>

\* The breaker is asked before each attempt; ErrCircuitOpen ends the call.
AskBreaker(c) ==
    /\ pc[c] = "allow"
    /\ Allow
    /\ Goto(c, IF Allows THEN "sent" ELSE "idle")
    /\ UNCHANGED <<attempt, answer, cancelled, healthy, history>>

\* doOnce returns.  Under a context that is done it may fail on any server.
Answer(c) ==
    /\ pc[c] = "sent"
    /\ answer' \in {[answer EXCEPT ![c] = a] :
                       a \in IF ~healthy THEN Answers
                             ELSE {"final"} \cup (IF c \in cancelled THEN {"error"} ELSE {})}
    /\ Goto(c, "record")
    /\ UNCHANGED <<breaker, attempt, cancelled, healthy, history>>

Retry(c) == Goto(c, "backoff") /\ attempt' = [attempt EXCEPT ![c] = @ + 1]
Return(c) == Goto(c, "idle") /\ UNCHANGED attempt

\* Faulty variant: an error of the transport does not use an attempt up.
FailedFree(c) ==
    /\ answer[c] = "error" \/ (answer[c] = "retryable" /\ attempt[c] < MaxRetries)
    /\ RecordFailure /\ Logged(answer[c], "failure")
    /\ IF answer[c] = "error" THEN Goto(c, "backoff") /\ UNCHANGED attempt ELSE Retry(c)

\* Faulty variant: the loop runs once more after the last attempt.
FailedOnceMore(c) ==
    /\ answer[c] = "error" \/ (answer[c] = "retryable" /\ attempt[c] < MaxRetries)
    /\ RecordFailure /\ Logged(answer[c], "failure")
    /\ IF attempt[c] <= MaxRetries THEN Retry(c) ELSE Return(c)

\* The attempt is recorded as a failure: every error is, and a retryable status
\* if another attempt follows.
Failed(c) ==
    /\ answer[c] = "error" \/ (answer[c] = "retryable" /\ attempt[c] < MaxRetries)
    /\ RecordFailure /\ Logged(answer[c], "failure")
    /\ IF attempt[c] < MaxRetries THEN Retry(c) ELSE Return(c)

\* The attempt is recorded as a success, which a retryable status of the last
\* attempt is too.
Succeeded(c) ==
    /\ answer[c] = "final" \/ (answer[c] = "retryable" /\ attempt[c] = MaxRetries)
    /\ RecordSuccess /\ Logged(answer[c], "success")
    /\ Return(c)

Record(c) ==
    /\ pc[c] = "record"
    /\ Failed(c) \/ Succeeded(c)
    /\ UNCHANGED <<answer, cancelled, healthy>>

\* The float baseDelay * 2^n as a Duration: one that does not fit becomes what
\* the processor makes of it, the least value or the greatest.
AsDuration(n) ==
    LET exact == BaseDelay * 2^n
        limit == 2^(Width - 1) IN
    IF exact < limit THEN {exact} ELSE {-limit, limit - 1}

\* Faulty variant: nothing caps the delay.
CeilingsUncapped(n) == AsDuration(n)

\* The ceilings backoff(n) may draw a delay below.
Ceilings(n) == {IF d > MaxDelay THEN MaxDelay ELSE d : d \in AsDuration(n)}

\* The delay has passed, or the context is done; select takes either when both.
BackOff(c) ==
    /\ pc[c] = "backoff"
    /\ Goto(c, "allow") \/ (c \in cancelled /\ Goto(c, "idle"))
    /\ UNCHANGED <<breaker, attempt, answer, cancelled, healthy, history>>

Cancel(c) ==
    /\ c \in Cancellable \ cancelled
    /\ pc[c] # "idle"
    /\ cancelled' = cancelled \cup {c}
    /\ UNCHANGED <<breaker, pc, attempt, answer, healthy, history>>

-----------------------------------------------------------------------------
Tick == Wait /\ UNCHANGED <<calls, healthy, history>>

\* The server breaks down, or recovers.
Server ==
    /\ healthy' = ~healthy
    /\ UNCHANGED <<breaker, calls, history>>

Proceed(c) == AskBreaker(c) \/ Answer(c) \/ Record(c) \/ BackOff(c)

Next == (\E c \in Callers : Call(c) \/ Proceed(c) \/ Cancel(c)) \/ Tick \/ Server

Spec == Init /\ [][Next]_vars

\* A call goes on: attempts have a timeout and delays are finite.  The clock
\* goes on.  Callers call again, which a breaker needs to notice a recovery.
Fairness ==
    /\ \A c \in Callers : WF_vars(Proceed(c)) /\ WF_vars(Call(c))
    /\ WF_vars(Tick)

FairSpec == Spec /\ Fairness

-----------------------------------------------------------------------------
TypeOK ==
    /\ BreakerTypeOK
    /\ pc \in [Callers -> {"idle", "allow", "sent", "record", "backoff"}]
    /\ attempt \in [Callers -> 0..MaxRetries]
    /\ answer \in [Callers -> Answers]
    /\ cancelled \subseteq Cancellable
    /\ healthy \in BOOLEAN
    /\ history \in Seq([answer : Answers, as : {"failure", "success"}])

\* c is let through to the server in this step.
Admits(c) == pc[c] = "allow" /\ pc'[c] = "sent"

\* Failing fast: once the breaker opens, no attempt is sent to the server for
\* OpenTimeout, whatever answers of earlier attempts arrive meanwhile and however
\* often it has been open before.  (breaker.go:67-87)
FailsFast == [][\A c \in Callers : Admits(c) => sinceOpened >= OpenTimeout]_vars

\* The last n outcomes of hist were all recorded as the same.
LastRecorded(hist, n, as) ==
    /\ Len(hist) >= n
    /\ \A i \in Len(hist) - n + 1..Len(hist) : hist[i].as = as

\* A closed breaker has not just been told of MaxFailures failures in a row, by
\* whichever callers: it trips at the last of them.  (breaker.go:117-121)
TripsInTime == state = "closed" /\ MaxFailures > 0 => ~LastRecorded(history, MaxFailures, "failure")

\* The breaker opens only after MaxFailures failures in a row, or one failed
\* probe, and closes only after HalfOpenProbes successes in a row; it goes from
\* open to half-open first.  (breaker.go:50, :93-129)
TransitionsJustified ==
    [][state' # state =>
        \/ /\ state = "closed" /\ state' = "open"
           /\ LastRecorded(history', MaxFailures, "failure")
        \/ /\ state = "open" /\ state' = "half-open"
        \/ /\ state = "half-open" /\ state' = "open"
           /\ LastRecorded(history', 1, "failure")
        \/ /\ state = "half-open" /\ state' = "closed"
           /\ LastRecorded(history', HalfOpenProbes, "success")]_vars

\* Every call of Do returns.  (client.go:106-162)
EveryCallReturns == \A c \in Callers : pc[c] # "idle" ~> pc[c] = "idle"

\* Every delay is drawn below a ceiling that rand.Int63n accepts and maxDelay
\* bounds, at each attempt the loop makes.  (retry.go:26-34, client.go:106-108)
DelaysBounded ==
    \A c \in Callers : pc[c] = "backoff" => Ceilings(attempt[c] - 1) \subseteq 0..MaxDelay

\* When the server recovers for good, calls keep coming and callers stop giving
\* up, the breaker closes for good: neither late answers nor the failures that
\* cancelled callers reported leave it open or half-open.
\* (breaker.go:75-80, :101-105, client.go:122-124)
Recovers == <>[](healthy /\ cancelled = {}) => <>[](state = "closed")

-----------------------------------------------------------------------------
(* What the documentation says and the code does not do.                    *)

\* "MaxFailures is the number of consecutive failures that trip the breaker":
\* so many attempts in a row that met an error or a retryable status leave no
\* breaker closed.  (breaker.go:34)
FailingServerTrips ==
    state = "closed" =>
        ~ /\ Len(history) >= MaxFailures
          /\ \A i \in Len(history) - MaxFailures + 1..Len(history) : history[i].answer \in Failures
=============================================================================
