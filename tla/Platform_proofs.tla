---------------------------- MODULE Platform_proofs ----------------------------
(***************************************************************************)
(* The platform is WebhookIngest and EventPipeline at once: a run of it,   *)
(* seen from either side, is a run of that side.  So whatever is proved of *)
(* a part holds of the platform, and what is proved here is what takes     *)
(* both parts: that a lookup finds its row, and that a duplicate request   *)
(* does not come as far as the analytics.                                  *)
(***************************************************************************)
EXTENDS Platform, PipelineRecords_proofs

\* WebhookIngest as Platform instantiates it, with what is proved of it.
Requested == INSTANCE WebhookIngest_proofs WITH
    Requests   <- Events,
    Faults     <- IngestFaults,
    MaxCrashes <- ServerCrashes,
    pc         <- reqPc,
    crashes    <- serverCrashes,
    persisted  <- {e \in Events : status[e] # "absent"},
    published  <- {e \in Events : Queued(e)}

\* What every run of the workers keeps: messages and analytics rows are about
\* rows of webhook_events, and a dead letter was an event message before.
RowsHaveEvents == \A r \in rows : r.event \in Events /\ status[r.event] # "absent"

WorkersInv == TypeInv /\ RowsExist /\ DeadWereQueued /\ RowsHaveEvents

\* No step takes a row of webhook_events away.
LEMMA RowStays ==
    ASSUME TypeInv, [Next]_vars, NEW e \in Events, status[e] # "absent"
    PROVE  status'[e] # "absent"
<1>1. ASSUME NEW g \in Goroutines, NEW new \in Statuses \ {"absent"}, NEW ok, NEW err,
             UpdateStatus(g, new, ok, err)
      PROVE  status'[e] # "absent"
  BY <1>1 DEF UpdateStatus, TypeInv, TypeOK
<1>2. ASSUME NEW g \in Goroutines, SetProcessing(g) \/ SetProcessed(g) \/ SetFailed(g) \/ MarkFailed(g)
      PROVE  status'[e] # "absent"
  BY <1>1, <1>2 DEF SetProcessing, SetProcessed, SetFailed, MarkFailed, Statuses
<1>3. ASSUME NEW f \in Events, Insert(f) PROVE status'[e] # "absent"
  BY <1>3 DEF Insert, TypeInv, TypeOK
<1>4. CASE UNCHANGED status
  BY <1>4
<1> QED
  BY <1>2, <1>3, <1>4 DEF Next, Process, PublishNew, Assign, Revoke, Fetch, FetchMessage, Crash, Exit,
     Restart, Shutdown, Idle, vars, store, FindEvent, FindEventUnless, WriteEvent, IncrementRetry,
     PublishRetry, PublishToDLQ, Publish, CommitMessages

\* A goroutine works on an event that has a row.
LEMMA HeldRow ==
    ASSUME TypeInv, RowsExist, NEW g \in Goroutines, Busy(g)
    PROVE  Event(g) \in Events /\ status[Event(g)] # "absent"
BY HeldMessage DEF RowsExist, Event, Message

LEMMA RowsHaveStep ==
    ASSUME TypeInv, RowsExist, RowsHaveEvents, [Next]_vars
    PROVE  RowsHaveEvents'
<1>1. ASSUME NEW r \in rows', r.event \in Events, status[r.event] # "absent"
      PROVE  r.event \in Events /\ status'[r.event] # "absent"
  BY <1>1, RowStays
<1>2. ASSUME NEW g \in Goroutines, WriteEvent(g), NEW r \in rows'
      PROVE  r.event \in Events /\ status[r.event] # "absent"
  <2>1. Busy(g)
    BY <1>2 DEF WriteEvent, Busy, Calls, ProcessorCalls
  <2>2. r \in rows \/ r = [event |-> Event(g), status |-> seen[g]]
    BY <1>2 DEF WriteEvent
  <2>3. r \in rows \/ r.event = Event(g)
    BY <2>2
  <2> QED BY <2>1, <2>3, HeldRow DEF RowsHaveEvents
<1>3. rows' = rows \/ \E g \in Goroutines : WriteEvent(g)
  BY DEF Next, Process, Insert, PublishNew, Assign, Revoke, Fetch, FetchMessage, Crash, Exit, Restart,
     Shutdown, Idle, vars, store, FindEvent, FindEventUnless, SetProcessing, SetProcessed, SetFailed,
     MarkFailed, UpdateStatus, IncrementRetry, PublishRetry, PublishToDLQ, Publish, CommitMessages
<1> QED BY <1>1, <1>2, <1>3 DEF RowsHaveEvents

LEMMA WorkersInit == Init => WorkersInv
<1> SUFFICES ASSUME Init PROVE WorkersInv
  OBVIOUS
<1>1. TypeInv
  BY TypeInit
<1>2. \A p \in Partitions : log[p] = << >>
  BY DEF Init
<1>3. RowsExist /\ DeadWereQueued
  BY <1>2 DEF Init, RowsExist, DeadWereQueued, Partitions
<1> QED BY <1>1, <1>3 DEF Init, WorkersInv, RowsHaveEvents

LEMMA WorkersStep == WorkersInv /\ [Next]_vars => WorkersInv'
BY TypeStep, RowsStep, DeadStep, RowsHaveStep DEF WorkersInv

-----------------------------------------------------------------------------
(* The two projections.                                                      *)

\* Seen from the workers, the requests are the ingest side of EventPipeline.
LEMMA PipelineStep == [PlatformNext]_platform => [Next]_vars
<1> SUFFICES ASSUME PlatformNext PROVE [Next]_vars
  BY DEF platform
<1>1. ASSUME NEW e \in Events, Accept(e) \/ Enqueue(e) \/ Request(e) PROVE [Next]_vars
  BY <1>1 DEF Accept, Enqueue, Request, Next
<1>2. CASE Server \/ Quiet
  BY <1>2 DEF Server, Quiet, platform
<1>3. CASE Worker
  BY <1>3 DEF Worker, Next
<1> QED BY <1>1, <1>2, <1>3 DEF PlatformNext

\* Every run of the platform is one of EventPipeline: all that is proved of the
\* pipeline, whatever it assumes of the faults, holds of the platform.
THEOREM PlatformRunsPipeline == PlatformSpec => Spec
BY PipelineStep, PTL DEF PlatformSpec, PlatformInit, Spec

LEMMA WorkersInvariant == PlatformSpec => []WorkersInv
BY PlatformRunsPipeline, WorkersInit, WorkersStep, PTL DEF Spec

-----------------------------------------------------------------------------
\* The steps of the ingest side, under the name this module gives it.
LEMMA SameSteps ==
    ASSUME NEW e \in Events
    PROVE  /\ Ingest!Arrive(e) => Requested!Arrive(e)
           /\ Ingest!Get(e) => Requested!Get(e)
           /\ Ingest!Insert(e) => Requested!Insert(e)
           /\ Ingest!Publish(e) => Requested!Publish(e)
           /\ Ingest!Set(e) => Requested!Set(e)
           /\ Ingest!Respond(e) => Requested!Respond(e)
<1>1. Ingest!Arrive(e) => Requested!Arrive(e)
  BY DEF Ingest!Arrive, Ingest!Goto, Ingest!Reply, Ingest!InFlight, Ingest!Calls, Ingest!db,
         Ingest!Cardinality, Requested!Arrive, Requested!Goto, Requested!Reply, Requested!InFlight,
         Requested!Calls, Requested!db, Requested!Cardinality
<1>2. Ingest!Get(e) => Requested!Get(e)
  BY DEF Ingest!Get, Ingest!Goto, Ingest!Reply, Ingest!Live, Ingest!db,
         Requested!Get, Requested!Goto, Requested!Reply, Requested!Live, Requested!db
<1>3. Ingest!Insert(e) => Requested!Insert(e)
  BY DEF Ingest!Insert, Ingest!Goto, Ingest!Reply, Requested!Insert, Requested!Goto, Requested!Reply
<1>4. Ingest!Publish(e) => Requested!Publish(e)
  BY DEF Ingest!Publish, Ingest!Goto, Requested!Publish, Requested!Goto
<1>5. Ingest!Set(e) => Requested!Set(e)
  BY DEF Ingest!Set, Ingest!Goto, Ingest!Stored, Requested!Set, Requested!Goto, Requested!Stored
<1>6. Ingest!Respond(e) => Requested!Respond(e)
  BY DEF Ingest!Respond, Ingest!Goto, Ingest!Reply, Ingest!db,
         Requested!Respond, Requested!Goto, Requested!Reply, Requested!db
<1> QED BY <1>1, <1>2, <1>3, <1>4, <1>5, <1>6

\* What the workers write neither adds a row nor queues an event for the first
\* time: the requests do not see them.
LEMMA WorkersUnseen ==
    ASSUME WorkersInv, Worker
    PROVE  UNCHANGED Requested!vars
<1>1. [Next]_vars /\ TypeInv /\ RowsExist /\ DeadWereQueued
  BY DEF Worker, Next, WorkersInv
<1>2. ASSUME NEW e \in Events, status[e] = "absent" PROVE status'[e] = "absent"
  <2>1. ASSUME NEW g \in Goroutines, Busy(g), NEW new, NEW ok, NEW err, UpdateStatus(g, new, ok, err)
        PROVE  status'[e] = "absent"
    <3>1. Event(g) # e
      BY <1>1, <1>2, <2>1, HeldRow
    <3> QED BY <1>1, <1>2, <2>1, <3>1 DEF UpdateStatus, TypeInv, TypeOK
  <2>2. ASSUME NEW g \in Goroutines, SetProcessing(g) \/ SetProcessed(g) \/ SetFailed(g) \/ MarkFailed(g)
        PROVE  status'[e] = "absent"
    <3>1. Busy(g)
      BY <2>2 DEF SetProcessing, SetProcessed, SetFailed, MarkFailed, Busy, Calls, ProcessorCalls
    <3> QED BY <2>1, <2>2, <3>1 DEF SetProcessing, SetProcessed, SetFailed, MarkFailed
  <2>3. CASE UNCHANGED status
    BY <1>2, <2>3
  <2> QED
    BY <2>2, <2>3 DEF Worker, Process, Assign, Revoke, Fetch, FetchMessage, Crash, Exit, Restart,
       Shutdown, store, FindEvent, FindEventUnless, WriteEvent, IncrementRetry, PublishRetry,
       PublishToDLQ, Publish, CommitMessages
<1>3. {e \in Events : status'[e] # "absent"} = {e \in Events : status[e] # "absent"}
  BY <1>1, <1>2, RowStays
<1>4. QueuedEvents' = QueuedEvents
  <2>1. CASE UNCHANGED log
    BY <2>1, QueuedFrame
  <2>2. ASSUME NEW g \in Goroutines, PublishRetry(g) PROVE QueuedEvents' = QueuedEvents
    <3> DEFINE m == [event |-> Event(g), attempt |-> Message(g).attempt + 1]
    <3>1. Busy(g) /\ Publish(g, EventPartitions, m)
      BY <2>2 DEF PublishRetry, Busy, Calls, ProcessorCalls
    <3>2. m \in Messages /\ m.event = Event(g) /\ Event(g) \in QueuedEvents
      BY <1>1, <3>1, HeldMessage, WorkedOnIsQueued DEF Messages
    <3> HIDE DEF m
    <3>3. CASE Appended(EventPartitions, m)
      BY <1>1, <3>2, <3>3, QueuedGrows
    <3> QED BY <2>1, <3>1, <3>3 DEF Publish
  <2>3. ASSUME NEW g \in Goroutines, PublishToDLQ(g), Appended(DLQPartitions, Message(g))
        PROVE  QueuedEvents' = QueuedEvents
    <3>1. Busy(g) /\ DLQPartitions \subseteq Partitions
      BY <2>3 DEF PublishToDLQ, Busy, Calls, ProcessorCalls, Partitions
    <3>2. PICK p \in DLQPartitions : \A q \in Partitions : q # p => log'[q] = log[q]
      BY <1>1, <2>3, <3>1, HeldMessage, AppendedGrows DEF TypeInv
    <3>3. \A q \in EventPartitions : log'[q] = log[q]
      BY <3>2, PipelineAssumption DEF Partitions
    <3> QED BY <3>3, QueuedFrame
  <2> QED
    BY <2>1, <2>2, <2>3 DEF Worker, Process, Assign, Revoke, Fetch, FetchMessage, Crash, Exit,
       Restart, Shutdown, broker, FindEvent, FindEventUnless, SetProcessing, SetProcessed, SetFailed,
       MarkFailed, UpdateStatus, WriteEvent, IncrementRetry, PublishToDLQ, Publish, CommitMessages
<1>5. {e \in Events : Queued(e)}' = {e \in Events : Queued(e)}
  BY <1>4 DEF QueuedEvents
<1>6. UNCHANGED requests
  BY DEF Worker
<1> QED BY <1>3, <1>5, <1>6 DEF Requested!vars, Requested!db, requests

LEMMA RequestedStep == WorkersInv /\ [PlatformNext]_platform => [Requested!Next]_Requested!vars
<1> SUFFICES ASSUME WorkersInv, [PlatformNext]_platform PROVE [Requested!Next]_Requested!vars
  OBVIOUS
<1>1. ASSUME NEW e \in Events, Accept(e) \/ Enqueue(e) \/ Request(e) PROVE Requested!Next
  BY <1>1, SameSteps DEF Accept, Enqueue, Request, Requested!Next, Requested!Handle
<1>2. CASE Server
  <2>1. Ingest!Tick => Requested!Tick
    BY DEF Ingest!Tick, Requested!Tick, Ingest!db, Requested!db
  <2>2. Ingest!Crash => Requested!Crash
    BY DEF Ingest!Crash, Requested!Crash, Ingest!db, Requested!db, Ingest!InFlight,
           Requested!InFlight, Ingest!Calls, Requested!Calls
  <2> QED BY <1>2, <2>1, <2>2 DEF Server, Requested!Next
<1>3. CASE UNCHANGED platform
  <2>1. status' = status /\ log' = log
    BY <1>3 DEF platform, vars, store, broker
  <2>2. \A e : Queued(e)' <=> Queued(e)
    BY <2>1 DEF Queued
  <2>3. /\ {e \in Events : status[e] # "absent"}' = {e \in Events : status[e] # "absent"}
        /\ {e \in Events : Queued(e)}' = {e \in Events : Queued(e)}
    BY <2>1, <2>2
  <2> QED BY <1>3, <2>3 DEF platform, requests, Requested!vars, Requested!db
<1> QED BY <1>1, <1>2, <1>3, WorkersUnseen DEF PlatformNext, Quiet

\* Every run of the platform is one of WebhookIngest: the workers change nothing
\* a request can see, so what is proved of the requests holds beside them.
THEOREM PlatformRunsIngest == PlatformSpec => Requested!Spec
<1>1. PlatformInit => Requested!Init
  <2> SUFFICES ASSUME PlatformInit PROVE Requested!Init
    OBVIOUS
  <2>1. /\ {e \in Events : status[e] # "absent"} = {}
        /\ {e \in Events : Queued(e)} = {}
    BY DEF PlatformInit, Ingest!Init
  <2> QED BY <2>1 DEF PlatformInit, Ingest!Init, Requested!Init
<1> QED BY <1>1, RequestedStep, WorkersInvariant, PTL DEF PlatformSpec, Requested!Spec

-----------------------------------------------------------------------------
\* A worker never looks up an event whose row is not there, which it would take
\* for a handled one: the row is inserted before the first message, and no call
\* that fails, no crash and no duplicate changes that.
THEOREM LookupsAlwaysFindRows == PlatformSpec => []LookupsFindRows
<1>1. WorkersInv => LookupsFindRows
  BY HeldRow DEF WorkersInv, LookupsFindRows, Busy, Calls, ProcessorCalls
<1> QED BY <1>1, WorkersInvariant, PTL

\* What storing a key must give: it does not fail, and no entry expires yet.
KeysHold == "set" \notin IngestFaults /\ MaxTime < TTL

LEMMA IngestAssumed == Requested!IngestAssumption
BY PlatformAssumption DEF Requested!Calls

\* With workers at work and other requests in flight, a duplicate of an
\* acceptance is answered from the store while the first entries live.
THEOREM AlwaysAbsorbed == ASSUME KeysHold PROVE PlatformSpec => []AbsorbedWithinTTL
<1>1. Requested!Spec => []Requested!AbsorbedWithinTTL
  BY IngestAssumed, Requested!AbsorbedInFirstTTL DEF KeysHold
<1>2. Requested!AbsorbedWithinTTL => AbsorbedWithinTTL
  BY DEF Requested!AbsorbedWithinTTL, AbsorbedWithinTTL, Ingest!AbsorbedWithinTTL
<1> QED BY <1>1, <1>2, PlatformRunsIngest, PTL

\* The event of a duplicate does not come as far as the analytics, whatever the
\* workers redeliver and retry: its row was never inserted.
THEOREM KeyAlwaysProcessedOnce == ASSUME KeysHold PROVE PlatformSpec => []KeyProcessedOnce
<1>1. Requested!Spec => []Requested!DuplicatesInsertNothing
  BY IngestAssumed, Requested!DuplicatesNeverInsert DEF KeysHold
<1>2. WorkersInv /\ Requested!DuplicatesInsertNothing => KeyProcessedOnce
  BY DEF WorkersInv, RowsHaveEvents, Requested!DuplicatesInsertNothing, KeyProcessedOnce
<1> QED BY <1>1, <1>2, PlatformRunsIngest, WorkersInvariant, PTL
=============================================================================
