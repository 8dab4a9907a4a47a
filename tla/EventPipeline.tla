---------------------------- MODULE EventPipeline ----------------------------
(***************************************************************************)
(* The asynchronous half of the platform: the worker process of            *)
(* internal/app/service/worker.go, with its two goroutines (the Processor  *)
(* of the events topic and the DLQHandler of the dead letter topic), the   *)
(* ProcessEvent use case they run, the event rows of PostgreSQL, the rows  *)
(* and counters of ClickHouse, and the Kafka topics and consumer groups    *)
(* that connect everything.                                                *)
(*                                                                         *)
(* The grain is one external call.  A goroutine's pc names the call it is  *)
(* about to make, and every call is one action: it may return, fail        *)
(* without an effect, or fail after its effect took place (the reply was   *)
(* lost).  Which calls may fail is a constant, so that a run can say under *)
(* which faults its properties hold.                                       *)
(***************************************************************************)
EXTENDS Integers, Sequences

CONSTANTS
    Events,           \* ids of webhook_events rows
    Workers,          \* worker processes (replicas of cmd/worker)
    EventPartitions,  \* partitions of topics.Events
    DLQPartitions,    \* partitions of topics.DLQ
    NoOwner,          \* owner of a partition no group member holds
    MaxRetries,       \* KAFKA_MAX_RETRIES
    Faults,           \* the calls that may fail
    MaxCrashes,       \* bound: worker processes killed
    MaxRevocations,   \* bound: partitions taken from a live consumer
    MaxShutdowns,     \* bound: workers told to stop
    MaxDisruptions    \* bound: all three together

Roles      == {"processor", "dlq"}
Goroutines == Workers \X Roles
Partitions == EventPartitions \cup DLQPartitions

\* The calls of a goroutine, in the order of the code, and the points between
\* them where it waits for a message or has returned.
ProcessorCalls == {"findEvent", "setProcessing", "writeEvent", "setProcessed",
                   "incrementRetry", "setFailed", "publishRetry", "publishDLQ"}
Calls == ProcessorCalls \cup {"markFailed", "commit"}

ASSUME PipelineAssumption ==
    /\ EventPartitions \cap DLQPartitions = {}
    /\ NoOwner \notin Goroutines
    /\ MaxRetries \in Nat
    /\ Faults \subseteq Calls \cup {"publishNew", "duplicate"}
    /\ MaxCrashes \in Nat /\ MaxRevocations \in Nat /\ MaxShutdowns \in Nat
    /\ MaxDisruptions \in Nat

Statuses == {"absent", "pending", "processing", "processed", "failed"}
Terminal == {"processed", "failed"}

\* dto.EventMessage.
Messages == [event : Events, attempt : Nat]

VARIABLES
    status,       \* webhook_events.status by event
    retryCount,   \* webhook_events.retry_count by event
    rows,         \* events_log: the pairs (event, status column) inserted
    counted,      \* daily_event_stats: inserts counted by event
    toPublish,    \* events inserted, whose first message is not published yet
    log,          \* messages of a partition, oldest first
    committed,    \* committed offset of a partition in its consumer group
    position,     \* fetch position of the partition's owner
    owner,        \* the goroutine that holds the partition, or NoOwner
    pc,           \* the next call of a goroutine
    held,         \* where the message a goroutine works on is in the log
    seen,         \* the status FindByID read
    ctx,          \* state of the context a goroutine's calls are made under
    crashes,      \* workers killed so far
    revocations,  \* partitions revoked so far
    shutdowns     \* workers told to stop so far

store  == <<status, retryCount, rows, counted>>
broker == <<log, committed, position, owner>>
procs  == <<pc, held, seen, ctx>>
disruptions == <<crashes, revocations, shutdowns>>
vars   == <<store, broker, procs, toPublish, disruptions>>

\* Bound of what may go wrong in one execution.
MayDisrupt == crashes + revocations + shutdowns < MaxDisruptions

\* processor.go:83 compares with >=, so the first attempt is never skipped.
MaxAttempts == IF MaxRetries = 0 THEN 1 ELSE MaxRetries

PartitionsOf(g) == IF g[2] = "processor" THEN EventPartitions ELSE DLQPartitions

Message(g) == log[held[g].part][held[g].off]
Event(g)   == Message(g).event
Busy(g)    == pc[g] \in Calls

NoMessage == << >>

-----------------------------------------------------------------------------
Init ==
    /\ status = [e \in Events |-> "absent"]
    /\ retryCount = [e \in Events |-> 0]
    /\ rows = {}
    /\ counted = [e \in Events |-> 0]
    /\ toPublish = {}
    /\ log = [p \in Partitions |-> << >>]
    /\ committed = [p \in Partitions |-> 0]
    /\ position = [p \in Partitions |-> 0]
    /\ owner = [p \in Partitions |-> NoOwner]
    /\ pc = [g \in Goroutines |-> "fetch"]
    /\ held = [g \in Goroutines |-> NoMessage]
    /\ seen = [g \in Goroutines |-> "absent"]
    /\ ctx = [g \in Goroutines |-> "live"]
    /\ crashes = 0 /\ revocations = 0 /\ shutdowns = 0

\* How a call under ctx can end.  While the context is being cancelled the call
\* in flight may still come back, fail unsent, or fail after it was sent; every
\* later call fails before it is sent.
Succeeds(g)    == ctx[g] # "cancelled"
FailsUnsent(g) == pc[g] \in Faults \/ ctx[g] # "live"
FailsLate(g)   == FailsUnsent(g) /\ ctx[g] # "cancelled"

\* Goroutine g goes on to its next call.
Continue(g, next) ==
    /\ pc' = [pc EXCEPT ![g] = next]
    /\ ctx' = [ctx EXCEPT ![g] = IF @ = "live" THEN "live" ELSE "cancelled"]

-----------------------------------------------------------------------------
(* The ingest side, as far as the worker sees it: usecase.IngestEvent       *)
(* inserts the row, then publishes attempt 1; a failed publish is logged    *)
(* and the event stays unpublished.  Module WebhookIngest has the details.  *)

Insert(e) ==
    /\ status[e] = "absent"
    /\ status' = [status EXCEPT ![e] = "pending"]
    /\ toPublish' = toPublish \cup {e}
    /\ UNCHANGED <<retryCount, rows, counted, broker, procs, disruptions>>

\* Producer.Publish: the LeastBytes balancer may choose any partition of the
\* topic.  The writer retries a batch on the same partition, so that a lost
\* acknowledgement leaves the message there twice.
Appended(topic, m) ==
    \/ \E p \in topic : log' = [log EXCEPT ![p] = Append(@, m)]
    \/ /\ "duplicate" \in Faults
       /\ \E p \in topic : log' = [log EXCEPT ![p] = Append(Append(@, m), m)]

PublishNew(e) ==
    /\ e \in toPublish
    /\ toPublish' = toPublish \ {e}
    /\ \/ Appended(EventPartitions, [event |-> e, attempt |-> 1])
       \/ "publishNew" \in Faults /\ UNCHANGED log
    /\ UNCHANGED <<store, committed, position, owner, procs, disruptions>>

-----------------------------------------------------------------------------
(* The consumer groups.                                                     *)

Assign(p, g) ==
    /\ owner[p] = NoOwner
    /\ p \in PartitionsOf(g)
    /\ owner' = [owner EXCEPT ![p] = g]
    /\ position' = [position EXCEPT ![p] = committed[p]]
    /\ UNCHANGED <<store, log, committed, procs, toPublish, disruptions>>

\* A rebalance takes the partition from a live member, which is not told: it
\* finishes the message it holds.
Revoke(p) ==
    /\ owner[p] # NoOwner
    /\ revocations < MaxRevocations /\ MayDisrupt
    /\ owner' = [owner EXCEPT ![p] = NoOwner]
    /\ revocations' = revocations + 1
    /\ UNCHANGED <<store, log, committed, position, procs, toPublish, crashes, shutdowns>>

\* FetchMessage returns the next message of a partition g holds.  With ctx
\* cancelled it may still return one that is buffered.
FetchMessage(g, autoCommit) ==
    /\ pc[g] = "fetch"
    /\ \E p \in PartitionsOf(g) :
         /\ owner[p] = g
         /\ position[p] < Len(log[p])
         /\ position' = [position EXCEPT ![p] = @ + 1]
         /\ committed' = [committed EXCEPT ![p] = IF autoCommit THEN position[p] + 1 ELSE @]
         /\ held' = [held EXCEPT ![g] = [part |-> p, off |-> position[p] + 1]]
    /\ Continue(g, IF g[2] = "processor" THEN "findEvent" ELSE "markFailed")
    /\ UNCHANGED <<store, log, owner, seen, toPublish, disruptions>>

\* Faulty variant: a consumer that reads instead of fetching, which commits.
FetchAutoCommit(g) == FetchMessage(g, TRUE)

\* CommitInterval 0 and FetchMessage: the code commits for itself.
Fetch(g) == FetchMessage(g, FALSE)

\* CommitMessages sets the offset of the group, whoever holds the partition by
\* then; the broker may refuse a member that lost it.  A failed commit is
\* logged and the loop goes on, unless ctx is done.
CommitMessages(g) ==
    LET done == [committed EXCEPT ![held[g].part] = held[g].off]
        mayFail == FailsUnsent(g) \/ owner[held[g].part] # g IN
    /\ pc[g] = "commit"
    /\ \/ committed' = done /\ Continue(g, "fetch")
       \/ /\ mayFail
          /\ committed' \in {committed, done}
          /\ Continue(g, IF ctx[g] = "live" THEN "fetch" ELSE "returned")
    /\ held' = [held EXCEPT ![g] = NoMessage]
    /\ seen' = [seen EXCEPT ![g] = "absent"]
    /\ UNCHANGED <<store, log, position, owner, toPublish, disruptions>>

-----------------------------------------------------------------------------
(* usecase.ProcessEvent.Execute, call by call.                              *)

\* An error of FindByID other than ErrNotFound goes to handleFailure.  An event
\* whose status is in done only has its message committed.
FindEventUnless(g, done) ==
    /\ pc[g] = "findEvent"
    /\ \/ /\ Succeeds(g)
          /\ seen' = [seen EXCEPT ![g] = status[Event(g)]]
          /\ Continue(g, IF status[Event(g)] \in done THEN "commit" ELSE "setProcessing")
       \/ /\ FailsUnsent(g)
          /\ Continue(g, "incrementRetry")
          /\ UNCHANGED seen
    /\ UNCHANGED <<store, broker, held, toPublish, disruptions>>

\* Faulty variant: an event in processing is left to whoever set that status.
FindEventSkipsBusy(g) == FindEventUnless(g, Terminal \cup {"absent", "processing"})

FindEvent(g) == FindEventUnless(g, Terminal \cup {"absent"})

\* EventRepository.UpdateStatus, called by g: an unconditional UPDATE.  Control
\* goes to ok or to err.
UpdateStatus(g, new, ok, err) ==
    LET updated == [status EXCEPT ![Event(g)] = new] IN
    /\ \/ Succeeds(g)    /\ status' = updated /\ Continue(g, ok)
       \/ FailsUnsent(g) /\ UNCHANGED status  /\ Continue(g, err)
       \/ FailsLate(g)   /\ status' = updated /\ Continue(g, err)
    /\ UNCHANGED <<retryCount, rows, counted, broker, held, seen, toPublish, disruptions>>

\* Faulty variant: the row of an event found in processing is taken as written.
SetProcessingAssumesRow(g) ==
    /\ pc[g] = "setProcessing"
    /\ UpdateStatus(g, "processing", IF seen[g] = "processing" THEN "setProcessed" ELSE "writeEvent",
                    "incrementRetry")

SetProcessing(g) ==
    /\ pc[g] = "setProcessing"
    /\ UpdateStatus(g, "processing", "writeEvent", "incrementRetry")


\* EventWriter.WriteEvent, with the event as FindByID read it.  The
\* materialized view counts every insert, the one of a row written before
\* included.  A failed write is logged and processing goes on.
WriteEvent(g) ==
    LET written == /\ rows' = rows \cup {[event |-> Event(g), status |-> seen[g]]}
                   /\ counted' = [counted EXCEPT ![Event(g)] = @ + 1] IN
    /\ pc[g] = "writeEvent"
    /\ Continue(g, "setProcessed")
    /\ \/ (Succeeds(g) \/ FailsLate(g)) /\ written
       \/ FailsUnsent(g) /\ UNCHANGED <<rows, counted>>
    /\ UNCHANGED <<status, retryCount, broker, held, seen, toPublish, disruptions>>

\* Faulty variant: a failure to set processed is handled as any other failure.
SetProcessedOrRetry(g) ==
    /\ pc[g] = "setProcessed"
    /\ UpdateStatus(g, "processed", "commit", "incrementRetry")

\* A failure to set processed is logged: the result is ProcessActionDone.
SetProcessed(g) ==
    /\ pc[g] = "setProcessed"
    /\ UpdateStatus(g, "processed", "commit", "commit")

\* Faulty variant: N retries after the first attempt instead of N attempts.
AfterIncrementOffByOne(g) ==
    IF Message(g).attempt > MaxRetries THEN "setFailed" ELSE "publishRetry"

\* handleFailure retries or gives up by the attempt number in the message, not
\* by the counter.
AfterIncrement(g) ==
    IF Message(g).attempt >= MaxRetries THEN "setFailed" ELSE "publishRetry"

\* Faulty variant: the counter is set from the message, which counts from 1.
IncrementRetryFromMessage(g) ==
    /\ pc[g] = "incrementRetry"
    /\ Continue(g, AfterIncrement(g))
    /\ retryCount' = [retryCount EXCEPT ![Event(g)] = Message(g).attempt - 1]
    /\ UNCHANGED <<status, rows, counted, broker, held, seen, toPublish, disruptions>>

\* handleFailure counts the failure first; a failure to count is logged.
IncrementRetry(g) ==
    /\ pc[g] = "incrementRetry"
    /\ Continue(g, AfterIncrement(g))
    /\ \/ /\ Succeeds(g) \/ FailsLate(g)
          /\ retryCount' = [retryCount EXCEPT ![Event(g)] = @ + 1]
       \/ FailsUnsent(g) /\ UNCHANGED retryCount
    /\ UNCHANGED <<status, rows, counted, broker, held, seen, toPublish, disruptions>>

SetFailed(g) ==
    /\ pc[g] = "setFailed"
    /\ UpdateStatus(g, "failed", "publishDLQ", "publishDLQ")

-----------------------------------------------------------------------------
(* Processor.publishRetry and publishToDLQ: a failed publish is logged, and *)
(* Run commits the message all the same.                                    *)

\* A message published under a context that is cancelled may or may not be sent.
Publish(g, topic, m) ==
    /\ \/ Appended(topic, m)
       \/ FailsUnsent(g) /\ UNCHANGED log
    /\ Continue(g, "commit")
    /\ UNCHANGED <<store, committed, position, owner, held, seen, toPublish, disruptions>>

PublishRetry(g) ==
    /\ pc[g] = "publishRetry"
    /\ Publish(g, EventPartitions, [event |-> Event(g), attempt |-> Message(g).attempt + 1])

PublishToDLQ(g) ==
    /\ pc[g] = "publishDLQ"
    /\ Publish(g, DLQPartitions, Message(g))

\* Faulty variant: a status the other parts do not know.
MarkDead(g) ==
    /\ pc[g] = "markFailed"
    /\ UpdateStatus(g, "dead", "commit", "commit")

\* DLQHandler.Run: mark the event failed, whatever its status is by now.
MarkFailed(g) ==
    /\ pc[g] = "markFailed"
    /\ UpdateStatus(g, "failed", "commit", "commit")

-----------------------------------------------------------------------------
(* Worker processes.                                                        *)

\* The process of w is gone, with what its goroutines held in memory, and its
\* replacement starts.  The group takes the partitions back.
Restart(w) ==
    LET fresh(f, v) == [g \in Goroutines |-> IF g[1] = w THEN v ELSE f[g]] IN
    /\ pc' = fresh(pc, "fetch")
    /\ held' = fresh(held, NoMessage)
    /\ seen' = fresh(seen, "absent")
    /\ ctx' = fresh(ctx, "live")
    /\ owner' = [p \in Partitions |-> IF owner[p] \in {w} \X Roles THEN NoOwner ELSE owner[p]]
    /\ UNCHANGED <<store, log, committed, position, toPublish>>

Crash(w) ==
    /\ crashes < MaxCrashes /\ MayDisrupt
    /\ crashes' = crashes + 1
    /\ Restart(w)
    /\ UNCHANGED <<revocations, shutdowns>>

\* SIGTERM: RunWorker's ctx is cancelled under both goroutines.
Shutdown(w) ==
    /\ shutdowns < MaxShutdowns /\ MayDisrupt
    /\ \A g \in {w} \X Roles : ctx[g] = "live"
    /\ shutdowns' = shutdowns + 1
    /\ ctx' = [g \in Goroutines |-> IF g[1] = w THEN "cancelling" ELSE ctx[g]]
    /\ UNCHANGED <<store, broker, pc, held, seen, toPublish, crashes, revocations>>

\* The process ends, both goroutines having returned or 30 s having passed.
Exit(w) ==
    /\ \A g \in {w} \X Roles : ctx[g] # "live"
    /\ Restart(w)
    /\ UNCHANGED disruptions

-----------------------------------------------------------------------------
\* Every message is handled and nothing is left to ingest: FetchMessage blocks.
Idle ==
    /\ \A e \in Events : status[e] # "absent"
    /\ toPublish = {}
    /\ \A p \in Partitions : owner[p] # NoOwner /\ position[p] = Len(log[p])
    /\ \A g \in Goroutines : pc[g] = "fetch"
    /\ UNCHANGED vars

Process(g) ==
    \/ FindEvent(g) \/ SetProcessing(g) \/ WriteEvent(g) \/ SetProcessed(g)
    \/ IncrementRetry(g) \/ SetFailed(g) \/ PublishRetry(g) \/ PublishToDLQ(g)
    \/ MarkFailed(g) \/ CommitMessages(g)

Next ==
    \/ \E e \in Events : Insert(e) \/ PublishNew(e)
    \/ \E p \in Partitions, g \in Goroutines : Assign(p, g)
    \/ \E p \in Partitions : Revoke(p)
    \/ \E g \in Goroutines : Fetch(g) \/ Process(g)
    \/ \E w \in Workers : Crash(w) \/ Shutdown(w) \/ Exit(w)
    \/ Idle

Spec == Init /\ [][Next]_vars

\* A goroutine that can take a step takes it: a consumer with a message to fetch
\* fetches it, and it is assumed that calls end, those of pgx too, which are made
\* under a context without a deadline.  The group gives a free partition to a
\* member; a process told to stop ends.
Fairness ==
    /\ \A g \in Goroutines : WF_vars(Fetch(g)) /\ WF_vars(Process(g))
    /\ \A p \in Partitions : WF_vars(\E g \in Goroutines : Assign(p, g))
    /\ \A w \in Workers : WF_vars(Exit(w))

FairSpec == Spec /\ Fairness

-----------------------------------------------------------------------------
Positions == [part : Partitions, off : Nat \ {0}]

TypeOK ==
    /\ status \in [Events -> Statuses]
    /\ retryCount \in [Events -> Nat]
    /\ rows \subseteq [event : Events, status : Statuses]
    /\ counted \in [Events -> Nat]
    /\ toPublish \subseteq Events
    /\ log \in [Partitions -> Seq(Messages)]
    /\ committed \in [Partitions -> Nat]
    /\ position \in [Partitions -> Nat]
    /\ owner \in [Partitions -> Goroutines \cup {NoOwner}]
    /\ pc \in [Goroutines -> Calls \cup {"fetch", "returned"}]
    /\ held \in [Goroutines -> Positions \cup {NoMessage}]
    /\ seen \in [Goroutines -> Statuses]
    /\ ctx \in [Goroutines -> {"live", "cancelling", "cancelled"}]
    /\ crashes \in 0..MaxCrashes /\ revocations \in 0..MaxRevocations
    /\ shutdowns \in 0..MaxShutdowns

\* A message for e was accepted by the broker.
Queued(e) == \E p \in EventPartitions : \E i \in 1..Len(log[p]) : log[p][i].event = e

\* Goroutine g has work left to do for e.
WorksOn(g, e) == pc[g] \in Calls \ {"commit"} /\ Event(g) = e

\* The next message of p that is not fetched, by its owner or by the next one.
NextOffset(p) == IF owner[p] = NoOwner THEN committed[p] ELSE position[p]

\* A message for e, of either topic, is still to be fetched.
Awaits(e) == \E p \in Partitions : \E i \in NextOffset(p) + 1..Len(log[p]) :
                log[p][i].event = e

\* An event the queue accepted and that is not settled is never forgotten: a
\* message for it is still to be fetched, or a goroutine has work left to do
\* for it.  This is what committing after processing must give.
\* (processor.go:73-75, usecase/process_event.go:43-91)
NoEventForgotten ==
    \A e \in Events :
        Queued(e) /\ status[e] \notin Terminal =>
            Awaits(e) \/ \E g \in Goroutines : WorksOn(g, e)

\* "retry up to N times, then publish to events.dlq": no message of the events
\* topic is a later attempt than N, and whatever reaches the dead letter topic
\* has used all of them.  (processor.go:139-164, process_event.go:83)
AttemptsBounded ==
    /\ \A p \in EventPartitions : \A i \in 1..Len(log[p]) : log[p][i].attempt \in 1..MaxAttempts
    /\ \A p \in DLQPartitions : \A i \in 1..Len(log[p]) : log[p][i].attempt = MaxAttempts

\* retry_count, which operators read, never falls behind the attempts that are
\* queued, when counting itself does not fail.  (process_event.go:79)
RetryCountCoversAttempts ==
    \A p \in Partitions : \A i \in 1..Len(log[p]) :
        LET m == log[p][i] IN
        retryCount[m.event] >= IF p \in DLQPartitions THEN m.attempt ELSE m.attempt - 1

\* The analytics write comes before the processed status: a processed event has
\* its row in events_log, when the write itself does not fail.
\* (process_event.go:60-71)
ProcessedWasWritten ==
    \A e \in Events : status[e] = "processed" => \E r \in rows : r.event = e

\* Without redelivery and duplicates, the daily statistics count an event once,
\* however its calls fail.  (migrations/clickhouse/002, event_writer.go:27-69)
CountedOnce == \A e \in Events : counted[e] <= 1


\* Every event the queue accepted is settled in the end, and stays settled.
\* (README.md:80-81)
EventuallySettled ==
    \A e \in Events : Queued(e) ~> [](status[e] \in Terminal)

-----------------------------------------------------------------------------
(* The abstract life of an event that the pipeline implements when nothing   *)
(* is delivered twice.                                                       *)

Lifecycle == INSTANCE EventLifecycle WITH queued <- {e \in Events : Queued(e)}

\* The status column only moves pending -> processing -> processed, or to
\* failed, never back and never out of a terminal status, however the calls
\* fail.  (event_repository.go:78-103 updates unconditionally: only the order of
\* the calls of process_event.go:43-91 and dlq.go:81 keeps this)
ImplementsLifecycle == Lifecycle!Spec

=============================================================================
