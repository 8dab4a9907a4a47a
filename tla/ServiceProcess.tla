---------------------------- MODULE ServiceProcess ----------------------------
(***************************************************************************)
(* A process of the platform from start to exit: RunServer of              *)
(* internal/app/service/server.go, or RunWorker of worker.go with          *)
(* initInfra and Infra.Shutdown of infra.go.  It opens its resources in    *)
(* order, serves clients that call them, is told to stop, waits for the    *)
(* clients up to a deadline, and closes the resources in the order of the  *)
(* code: those of the shutdown first, then the deferred ones, last         *)
(* deferred first.                                                         *)
(*                                                                         *)
(* The clients of a server are HTTP requests, which go on whatever the     *)
(* process is told; those of a worker are its two goroutines.  A client    *)
(* has a list of calls to make, each on one resource.                      *)
(***************************************************************************)
EXTENDS RequestChain, Sequences, SequencesExt

CONSTANTS
    Clients,    \* requests of a server, goroutines of a worker
    Processor   \* the goroutine that runs Processor, the others run DLQHandler

ASSUME ServiceAssumption == Processor \in Clients

Kinds     == {"server", "worker"}
Resources == {"tracing", "postgres", "producer", "clickhouse", "events", "dlq"}

\* Resources whose constructor may fail, and those whose Close waits for the
\* calls in progress: pgxpool.Pool and kafka.Writer.
Fallible == {"tracing", "postgres", "clickhouse"}
Waits    == {"postgres", "producer"}

VARIABLES
    kind,        \* the program
    phase,       \* loading, starting, serving, draining, stopping, exited
    toOpen,      \* resources still to open, in order
    toClose,     \* resources still to close, in order
    open,        \* resources in use
    told,        \* ctx is done: SIGINT or SIGTERM
    expired,     \* the shutdown deadline passed while the process waited
    late,        \* the context the spans are flushed under is done
    broken,      \* ListenAndServe failed
    code,        \* exit code
    at,          \* where a client is: away, running, in a call, done, killed
    calls,       \* calls a client has still to make
    outcome,     \* what a request left behind
    met,         \* history: clients that met a closed resource
    unexported   \* clients with a span that ended and was not exported

program  == <<kind, phase, toOpen, toClose, open, code>>
signals  == <<told, expired, late, broken>>
clients  == <<at, calls, outcome, met>>
vars     == <<program, signals, clients, unexported>>

Active == {c \in Clients : at[c] \in {"running"} \cup Resources}

-----------------------------------------------------------------------------
\* server.go:34-87; infra.go:45-93, worker.go:28-40.
OpenOrder == IF kind = "server" THEN <<"tracing", "postgres", "producer", "clickhouse">>
             ELSE <<"tracing", "postgres", "clickhouse", "producer", "events", "dlq">>

\* Faulty variant: a server that leaves the flushing of spans to the exporter.
CloseOrderWithoutTracing ==
    IF kind = "server" THEN <<"clickhouse", "producer", "postgres">>
    ELSE <<"producer", "clickhouse", "postgres", "tracing", "dlq", "events">>

\* After the clients were waited for: server.go:134 and its deferred calls;
\* infra.go:100-111, then the deferred calls of worker.go.
CloseOrder ==
    IF kind = "server" THEN <<"tracing", "clickhouse", "producer", "postgres">>
    ELSE <<"producer", "clickhouse", "postgres", "tracing", "dlq", "events">>

\* RunServer has not deferred shutdownTracing, the first it got, and returns
\* without it.
Deferred(opened) == IF kind = "server" THEN SubSeq(opened, 2, Len(opened)) ELSE opened

\* Faulty variant: initInfra returns on an error without closing anything.
AfterFailureLeaking(opened) == IF kind = "server" THEN Reverse(Deferred(opened)) ELSE << >>

\* When a constructor failed: what was opened, in the opposite order.
AfterFailure(opened) == Reverse(Deferred(opened))

\* An attempt that fails: the updates of the event up to the last that is made
\* (two after a failed look-up, up to four), then a retry or a dead letter.
FailedAttempt(updates) ==
    <<"events">> \o [i \in 1..updates |-> "postgres"] \o <<"producer", "events">>

\* The calls of a client; a request may end before it made all of them.  The
\* Processor also asks its consumer for the lag, from memory.
Plans(c) ==
    IF kind = "server"
    THEN {<< >>, <<"postgres">>, <<"clickhouse">>, <<"postgres", "postgres", "producer", "postgres">>}
    ELSE IF c = Processor
    THEN {<<"events", "postgres", "events">>,
          <<"events", "postgres", "postgres", "clickhouse", "postgres", "events">>}
         \cup {FailedAttempt(updates) : updates \in 2..4}
    ELSE {<<"dlq", "postgres", "dlq">>}

-----------------------------------------------------------------------------
Init ==
    /\ kind \in Kinds
    /\ phase = "loading"
    /\ toOpen = OpenOrder
    /\ toClose = << >>
    /\ open = {}
    /\ told = FALSE /\ expired = FALSE /\ late = FALSE /\ broken = FALSE
    /\ code = 0
    /\ at = [c \in Clients |-> "away"]
    /\ calls = [c \in Clients |-> << >>]
    /\ outcome = [c \in Clients |-> NoOutcome]
    /\ met = {}
    /\ unexported = {}

\* The process goes on to close what order says, and exits with status.
GoStop(order, status) ==
    /\ phase' = "stopping"
    /\ toClose' = order
    /\ code' = status

\* Load fails when POSTGRES_DSN is not set; every other setting has a default.
Load ==
    /\ phase = "loading"
    /\ \/ phase' = "starting" /\ UNCHANGED <<toClose, code>>
       \/ GoStop(<< >>, 1)
    /\ UNCHANGED <<kind, toOpen, open, signals, clients, unexported>>

Open ==
    LET r == Head(toOpen)
        opened == SubSeq(OpenOrder, 1, Len(OpenOrder) - Len(toOpen)) IN
    /\ phase = "starting" /\ toOpen # << >>
    /\ \/ /\ open' = open \cup {r}
          /\ toOpen' = Tail(toOpen)
          /\ UNCHANGED <<phase, toClose, code>>
       \/ /\ r \in Fallible
          /\ GoStop(AfterFailure(opened), 1)
          \* clickhouse.New keeps the connection whose ping failed.
          /\ open' \in {open} \cup (IF r = "clickhouse" THEN {open \cup {r}} ELSE {})
          /\ UNCHANGED toOpen
    /\ UNCHANGED <<kind, signals, clients, unexported>>

\* The server listens; the goroutines of a worker run.
Ready ==
    /\ phase = "starting" /\ toOpen = << >>
    /\ phase' = "serving"
    /\ at' = [c \in Clients |-> IF kind = "worker" THEN "running" ELSE at[c]]
    /\ UNCHANGED <<kind, toOpen, toClose, open, code, signals, calls, outcome, met, unexported>>

Tell ==
    /\ ~told /\ phase # "exited"
    /\ told' = TRUE
    /\ UNCHANGED <<program, expired, late, broken, clients, unexported>>

\* ListenAndServe returns an error other than ErrServerClosed.
Break ==
    /\ kind = "server" /\ phase = "serving" /\ ~broken
    /\ broken' = TRUE
    /\ UNCHANGED <<program, told, expired, late, clients, unexported>>

\* select: ctx.Done.  srv.Shutdown closes the listener.
StopServing ==
    /\ phase = "serving" /\ told
    /\ phase' = "draining"
    /\ UNCHANGED <<kind, toOpen, toClose, open, code, signals, clients, unexported>>

\* select: srvErr.  RunServer returns, and does not wait for anyone.
BreakOff ==
    /\ phase = "serving" /\ broken
    /\ GoStop(AfterFailure(OpenOrder), 1)
    /\ UNCHANGED <<kind, toOpen, open, signals, clients, unexported>>

\* Faulty variant: srv.Close in the place of srv.Shutdown.
DrainedAtOnce ==
    /\ phase = "draining"
    /\ GoStop(CloseOrder, 0)
    /\ UNCHANGED <<kind, toOpen, open, signals, clients, unexported>>

\* srv.Shutdown returns, or wg.Wait does.
Drained ==
    /\ phase = "draining" /\ Active = {}
    /\ GoStop(CloseOrder, 0)
    /\ UNCHANGED <<kind, toOpen, open, signals, clients, unexported>>

\* Faulty variant: a shutdown without a deadline.
ExpireNever == FALSE

\* 30 s have passed first; the error is logged.  A server flushes its spans under
\* the same deadline, a worker sets a new one of 5 s.
Expire ==
    /\ phase = "draining"
    /\ expired' = TRUE
    /\ late' = (kind = "server")
    /\ GoStop(CloseOrder, 0)
    /\ UNCHANGED <<kind, toOpen, open, told, broken, clients, unexported>>

\* The deadline of the flush passes before its turn, or during it: what the drain
\* left of a server's 30 s, or a worker's 5 s, in which its producer, ClickHouse
\* and PostgreSQL are closed first.
RunOut ==
    /\ phase = "stopping" /\ "tracing" \in open /\ ~late
    /\ late' = TRUE
    /\ UNCHANGED <<program, told, expired, broken, clients, unexported>>

\* Close of the next resource: it refuses new calls, and returns when those it
\* waits for have ended.  Closing the tracer flushes the spans, which fails if
\* the deadline passes.  The exporter is up.
Close ==
    LET r == Head(toClose)
        inUse == r \in Waits /\ \E c \in Clients : at[c] = r IN
    /\ phase = "stopping" /\ toClose # << >>
    /\ r \in open \/ ~inUse
    /\ open' = open \ {r}
    /\ toClose' = IF inUse THEN toClose ELSE Tail(toClose)
    /\ IF r # "tracing" THEN UNCHANGED unexported
       ELSE unexported' \in {{}} \cup (IF late THEN {unexported} ELSE {})
    /\ UNCHANGED <<kind, phase, toOpen, code, signals, clients>>

\* main returns, or calls os.Exit: whoever still runs is gone.
Exit ==
    /\ phase = "stopping" /\ toClose = << >>
    /\ phase' = "exited"
    /\ at' = [c \in Clients |-> IF c \in Active THEN "killed" ELSE at[c]]
    /\ UNCHANGED <<kind, toOpen, toClose, open, code, signals, calls, outcome, met, unexported>>

-----------------------------------------------------------------------------
\* Faulty variant: the listener stays open while the server drains.
AcceptWhileDraining(c) ==
    /\ kind = "server" /\ phase \in {"serving", "draining"} /\ ~broken
    /\ at[c] = "away"
    /\ at' = [at EXCEPT ![c] = "running"]
    /\ \E plan \in Plans(c) : calls' = [calls EXCEPT ![c] = plan]
    /\ UNCHANGED <<program, signals, outcome, met, unexported>>

\* A request arrives; its path decides what it calls.
Accept(c) ==
    /\ kind = "server" /\ phase = "serving" /\ ~broken
    /\ at[c] = "away"
    /\ at' = [at EXCEPT ![c] = "running"]
    /\ \E plan \in Plans(c) : calls' = [calls EXCEPT ![c] = plan]
    /\ UNCHANGED <<program, signals, outcome, met, unexported>>

\* A goroutine of a worker goes for its next message, which it may still get
\* with ctx done.
Fetch(c) ==
    /\ kind = "worker" /\ at[c] = "running" /\ calls[c] = << >>
    /\ \E plan \in Plans(c) : calls' = [calls EXCEPT ![c] = plan]
    /\ UNCHANGED <<program, signals, at, outcome, met, unexported>>

\* The next call; a closed resource answers with an error.
Begin(c) ==
    LET r == Head(calls[c]) IN
    /\ at[c] = "running" /\ calls[c] # << >>
    /\ calls' = [calls EXCEPT ![c] = Tail(@)]
    /\ IF r \in open THEN at' = [at EXCEPT ![c] = r] /\ UNCHANGED met
       ELSE met' = met \cup {c} /\ UNCHANGED at
    /\ UNCHANGED <<program, signals, outcome, unexported>>

\* The call ends; one that Close did not wait for may fail.
EndCall(c) ==
    /\ at[c] \in Resources
    /\ at' = [at EXCEPT ![c] = "running"]
    /\ met' = IF at[c] \in open \cup Waits THEN met ELSE met \cup {c}
    /\ UNCHANGED <<program, signals, calls, outcome, unexported>>

\* A request ends, with all its calls made, or early: an error, a duplicate, a
\* body that is too large, a panic.  Its span ends.
Finish(c) ==
    /\ kind = "server" /\ at[c] = "running"
    /\ at' = [at EXCEPT ![c] = "done"]
    /\ \E out \in Handled : outcome' = [outcome EXCEPT ![c] = Chain(out)]
    /\ unexported' = unexported \cup {c}
    /\ UNCHANGED <<program, signals, calls, met>>

\* With ctx done a goroutine of a worker returns when it fetches or commits; the
\* span of its last message has ended.
Return(c) ==
    /\ kind = "worker" /\ at[c] = "running" /\ told
    /\ calls[c] # << >> => Head(calls[c]) \in {"events", "dlq"}
    /\ at' = [at EXCEPT ![c] = "done"]
    /\ unexported' = unexported \cup {c}
    /\ UNCHANGED <<program, signals, calls, outcome, met>>

\* The batcher sends what it has.
Export ==
    /\ phase # "exited" /\ "tracing" \in open /\ unexported # {}
    /\ unexported' = {}
    /\ UNCHANGED <<program, signals, clients>>

Exited == phase = "exited" /\ UNCHANGED vars

-----------------------------------------------------------------------------
Advance == Load \/ Open \/ Ready \/ StopServing \/ BreakOff \/ Drained \/ Expire \/ Close \/ Exit

Running(c) == Begin(c) \/ EndCall(c) \/ Finish(c)

\* A process that exited runs nothing: its clients are done, or killed.
Next ==
    \/ Advance \/ Tell \/ Break \/ RunOut \/ Export \/ Exited
    \/ \E c \in Clients : Accept(c) \/ Fetch(c) \/ Return(c) \/ Running(c)

Spec == Init /\ [][Next]_vars

\* The process goes on; constructors and the wait have deadlines.  A call ends.
Fairness == WF_vars(Advance) /\ \A c \in Clients : WF_vars(EndCall(c))

FairSpec == Spec /\ Fairness

-----------------------------------------------------------------------------
TypeOK ==
    /\ kind \in Kinds
    /\ phase \in {"loading", "starting", "serving", "draining", "stopping", "exited"}
    /\ toOpen \in Seq(Resources) /\ toClose \in Seq(Resources)
    /\ open \subseteq Resources
    /\ told \in BOOLEAN /\ expired \in BOOLEAN /\ late \in BOOLEAN /\ broken \in BOOLEAN
    /\ code \in {0, 1}
    /\ at \in [Clients -> {"away", "running", "done", "killed"} \cup Resources]
    /\ calls \in [Clients -> Seq(Resources)]
    /\ outcome \in [Clients -> Outcomes]
    /\ met \subseteq Clients
    /\ unexported \subseteq Clients

\* No client ever calls a resource that is closed under it, unless the deadline
\* passed or the listener failed.  (server.go:120-139, worker.go:79-92)
ClientsMeetNothingClosed == met # {} => expired \/ broken

\* "in-flight requests ... are drained before exit": when the process ends within
\* its deadline every request it accepted was answered, those that panicked
\* included.  (README.md:20; server.go:127-132, middleware.go:73-90)
AnsweredBeforeExit ==
    phase = "exited" /\ ~expired /\ code = 0 =>
        \A c \in Clients : at[c] \in {"away", "done"} /\
            (kind = "server" /\ at[c] = "done" => outcome[c].status # 0)

\* http_requests_total counts every request that was answered, once and under the
\* status the client got, but for one whose panic Recover answered outside of
\* Logger: that passed Logger by, and nothing counts it, contrary to metrics.go:37.
\* (http.go:81-88, middleware.go:52-66)
CountedAsSent ==
    \A c \in Clients : kind = "server" /\ at[c] = "done" =>
        outcome[c].counted = IF outcome[c].recovered THEN {} ELSE {outcome[c].status}

\* When the process ends within its deadlines, that of the drain and that of the
\* flush, no span of a client is lost: they are flushed after the clients ended.
\* (server.go:134, infra.go:108)
SpansReachExporter ==
    phase = "exited" /\ ~expired /\ ~late /\ code = 0 => unexported = {}

\* Nothing is left open at a clean exit, deadline or not.  After a failure only
\* the tracer of a server, and a ClickHouse connection whose ping failed.
\* (server.go:57-87, infra.go:68-84)
ClosedAtExit ==
    phase = "exited" =>
        open \subseteq IF code = 0 THEN {}
                       ELSE {"clickhouse"} \cup (IF kind = "server" THEN {"tracing"} ELSE {})

\* A process that is told to stop, or cannot listen, exits, if the calls of its
\* clients end: the deadline alone does not bound it, because closing the pool
\* waits for the connections in use.  (server.go:60, :127, worker.go:82-92)
StopsWhenTold == told \/ broken ~> phase = "exited"

-----------------------------------------------------------------------------
Service == INSTANCE GracefulService WITH
    phase  <- CASE phase \in {"loading", "starting"}   -> "starting"
                [] phase = "serving"                   -> "up"
                [] phase \in {"draining", "stopping"}  -> "stopping"
                [] phase = "exited"                    -> "down",
    active <- Active,
    gaveUp <- expired \/ broken

\* The server and the worker both stop as GracefulService says.
ImplementsGracefulService == Service!Spec
=============================================================================
