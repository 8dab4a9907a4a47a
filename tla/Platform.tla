------------------------------- MODULE Platform -------------------------------
(***************************************************************************)
(* The platform from the request to the settled event: the ingest side     *)
(* (WebhookIngest) and the workers (EventPipeline) over one table of       *)
(* events and one topic.  What the ingest side calls persisted is a row of *)
(* the pipeline, and what it calls published is a message of its log: a    *)
(* request that inserts or publishes takes the pipeline's step with it,    *)
(* and the workers run between any two steps of a request.                 *)
(***************************************************************************)
EXTENDS EventPipeline

CONSTANTS
    Keys, NoEntry, TTL,                \* of WebhookIngest
    IngestFaults,                      \* its calls that may fail
    MaxInFlight, MaxTime, ServerCrashes

ASSUME PlatformAssumption ==
    /\ TTL \in Nat \ {0}
    /\ IngestFaults \subseteq {"get", "insert", "publish", "set"}
    /\ MaxInFlight \in Nat /\ MaxTime \in Nat /\ ServerCrashes \in Nat
    /\ NoEntry \notin [event : Events, expires : Nat]

VARIABLES now, reqPc, key, idem, reply, promise, prior, serverCrashes

\* A request stands for the event it inserts.
Ingest == INSTANCE WebhookIngest WITH
    Requests   <- Events,
    Faults     <- IngestFaults,
    MaxCrashes <- ServerCrashes,
    pc         <- reqPc,
    crashes    <- serverCrashes,
    persisted  <- {e \in Events : status[e] # "absent"},
    published  <- {e \in Events : Queued(e)}

requests == <<now, reqPc, key, idem, reply, promise, prior, serverCrashes>>
platform == <<vars, requests>>

PlatformInit == Init /\ Ingest!Init

-----------------------------------------------------------------------------
\* Faulty variant: the row is left to a goroutine of its own.
AcceptInBackground(e) ==
    /\ reqPc[e] = "insert"
    /\ reqPc' = [reqPc EXCEPT ![e] = "publish"]
    /\ toPublish' = toPublish \cup {e}
    /\ UNCHANGED <<store, broker, procs, disruptions>>
    /\ UNCHANGED <<now, key, idem, reply, promise, prior, serverCrashes>>

\* The request's INSERT creates the row; an INSERT that fails may leave one.
Accept(e) == (Insert(e) \/ UNCHANGED vars) /\ Ingest!Insert(e)

\* The first message of the event is published, or the publish fails.
Enqueue(e) == PublishNew(e) /\ Ingest!Publish(e)

\* Every other step of the ingest side, which the workers do not see.
Request(e) ==
    /\ UNCHANGED vars
    /\ Ingest!Arrive(e) \/ Ingest!Get(e) \/ Ingest!Set(e) \/ Ingest!Respond(e)

Server == UNCHANGED vars /\ (Ingest!Tick \/ Ingest!Crash)

\* The steps of the broker, the workers and their processes.
Worker ==
    /\ \/ \E p \in Partitions, g \in Goroutines : Assign(p, g)
       \/ \E p \in Partitions : Revoke(p)
       \/ \E g \in Goroutines : Fetch(g) \/ Process(g)
       \/ \E w \in Workers : Crash(w) \/ Shutdown(w) \/ Exit(w)
    /\ UNCHANGED requests

\* No request is left, and no message to fetch.
Quiet ==
    /\ \A e \in Events : reqPc[e] = "done"
    /\ \A p \in Partitions : owner[p] # NoOwner /\ position[p] = Len(log[p])
    /\ \A g \in Goroutines : pc[g] = "fetch"
    /\ UNCHANGED platform

PlatformNext == (\E e \in Events : Accept(e) \/ Enqueue(e) \/ Request(e)) \/ Server \/ Worker \/ Quiet

PlatformSpec == PlatformInit /\ [][PlatformNext]_platform

\* The workers run as in EventPipeline; nothing is assumed of clients or server.
PlatformFairSpec ==
    /\ PlatformSpec
    /\ \A g \in Goroutines : WF_platform(Fetch(g) /\ UNCHANGED requests)
                          /\ WF_platform(Process(g) /\ UNCHANGED requests)
    /\ \A p \in Partitions : WF_platform((\E g \in Goroutines : Assign(p, g)) /\ UNCHANGED requests)
    /\ \A w \in Workers : WF_platform(Exit(w) /\ UNCHANGED requests)

-----------------------------------------------------------------------------
\* An acceptance or a replay of event f was sent.
Answered(f) == \E e \in Events : reply[e].code \in {200, 202} /\ reply[e].event = f

\* What a client was told of is settled in the end: the event named by an
\* acceptance or a replay becomes processed or failed, for good, whichever
\* worker dies on the way.  (README.md:72-81)
AnsweredAreSettled == \A f \in Events : Answered(f) ~> [](status[f] \in Terminal)

\* "duplicate requests are safely absorbed, not double-processed": an event whose
\* request came after an acceptance of its key is not processed.  Only requests
\* that overlap get two events of a key as far as the analytics.
\* (README.md:16; webhook.go:134-186, process_event.go:61)
KeyProcessedOnce ==
    \A r, s \in rows : key[r.event] = key[s.event] => r.event \notin prior[s.event]

\* A worker never looks up an event whose row is not there yet, which it would
\* take for a handled one and drop.  (process_event.go:44-48, ingest_event.go:56-60)
LookupsFindRows ==
    \A g \in Goroutines : pc[g] = "findEvent" => status[Event(g)] # "absent"

\* "Duplicate requests within the TTL window return the original response", with
\* workers at work and other requests in flight.  (README.md:127-129)
AbsorbedWithinTTL == Ingest!AbsorbedWithinTTL
=============================================================================
