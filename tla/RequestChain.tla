----------------------------- MODULE RequestChain -----------------------------
(***************************************************************************)
(* What a request leaves behind, as it comes out through the middleware    *)
(* that NewServer puts around the handlers (internal/app/http/http.go,     *)
(* internal/app/http/middleware/middleware.go).  A middleware is an        *)
(* operator on the outcome of what it wraps, so that the order of the      *)
(* chain is the order of application.                                      *)
(***************************************************************************)
EXTENDS Naturals

\* An outcome: the status on the wire, 0 while none is written; whether a panic
\* is on its way up the stack; the statuses added to http_requests_total; whether
\* Recover ended a panic, of which nothing but the log tells (history).
Statuses == {200, 400, 500}
Outcomes == [status : Statuses \cup {0}, panics : BOOLEAN, counted : SUBSET Statuses,
             recovered : BOOLEAN]

NoOutcome == [status |-> 0, panics |-> FALSE, counted |-> {}, recovered |-> FALSE]

\* Faulty variant: a handler writes a status of its own making.
HandledAnyhow == {[NoOutcome EXCEPT !.status = 600]}

\* A handler answers once, by writeJSON, and returns, or panics before or after
\* that: any status and any panic, which of them a route has is left open.
Handled ==
    [status : Statuses, panics : {FALSE}, counted : {{}}, recovered : {FALSE}] \cup
    [status : {0, 200}, panics : {TRUE}, counted : {{}}, recovered : {FALSE}]

\* The status as responseWriter saw it, which starts out with 200.
Seen(out) == IF out.status = 0 THEN 200 ELSE out.status

Counted(out) == [out EXCEPT !.counted = @ \cup {Seen(out)}]

\* Faulty variant: the request is counted in a deferred call.
LoggerDeferred(out) == Counted(out)

\* Logger counts the request when the handler returns: a panic passes it by.
Logger(out) == IF out.panics THEN out ELSE Counted(out)

\* Faulty variant: the panic is logged, and nothing is written.
RecoverSilent(out) == [out EXCEPT !.panics = FALSE, !.recovered = @ \/ out.panics]

\* Recover ends a panic with a 500, which has no effect on a status sent before.
Recover(out) ==
    IF ~out.panics THEN out
    ELSE [out EXCEPT !.panics = FALSE, !.recovered = TRUE, !.status = IF @ = 0 THEN 500 ELSE @]

\* The chain, outermost first: Recover, Logger, RequestID, MaxBodySize.  The last
\* two change the request (an identifier, a bound on what the handler reads: a
\* larger body is answered 400) and leave the outcome as it is.
Chain(out) == Recover(Logger(out))
=============================================================================
