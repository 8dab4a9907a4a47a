------------------------ MODULE PipelineDelivery_proofs ------------------------
(***************************************************************************)
(* No queued event is forgotten, for every instance in which the code      *)
(* cannot lose a message.  NoEventForgotten is not inductive: it says      *)
(* nothing of the offsets, which decide what is fetched again after a      *)
(* crash.  DeliveryInv adds what relates them to the messages in hand.     *)
(***************************************************************************)
EXTENDS EventPipeline_proofs

\* The calls whose failure is only logged do not fail, no worker is told to
\* stop, and the disruptions are crashes or revocations, not both: a worker that
\* dies after its partition was taken from it leaves a message nobody holds.
LosesNothing ==
    /\ Faults \cap {"setProcessed", "publishRetry", "publishDLQ", "markFailed"} = {}
    /\ MaxShutdowns = 0
    /\ MaxRevocations = 0 \/ MaxCrashes = 0

NeverStopped == \A g \in Goroutines : ctx[g] = "live"

\* Offsets stay within the log.
OffsetsOK ==
    \A p \in Partitions : position[p] <= Len(log[p]) /\ committed[p] <= Len(log[p])

\* Messages are about events that have a row, which no step deletes.
RowsExist ==
    /\ \A e \in toPublish : status[e] # "absent"
    /\ \A p \in Partitions : \A i \in 1..Len(log[p]) : status[log[p][i].event] # "absent"

\* While no live consumer is preempted, a goroutine works on the last message
\* fetched from a partition it owns, and that message is not committed.
OwnersHold ==
    MaxRevocations = 0 =>
        /\ \A p \in Partitions : owner[p] # NoOwner => committed[p] <= position[p]
        /\ \A g \in Goroutines : Busy(g) =>
             /\ owner[held[g].part] = g
             /\ committed[held[g].part] < held[g].off
             /\ position[held[g].part] = held[g].off

\* Message i of p is beyond everything fetched or committed, so that whoever
\* owns p will come to it.
Unread(p, i) ==
    /\ i > NextOffset(p) /\ i > committed[p]
    /\ \A g \in Goroutines : Busy(g) /\ held[g].part = p => i > held[g].off

Pending(e) == \E p \in Partitions : \E i \in 1..Len(log[p]) :
                 log[p][i].event = e /\ Unread(p, i)

CaredFor(e) == Pending(e) \/ \E g \in Goroutines : WorksOn(g, e)

Remembered == \A e \in Events : Queued(e) /\ status[e] \notin Terminal => CaredFor(e)

DeliveryInv == NeverStopped /\ OffsetsOK /\ RowsExist /\ OwnersHold /\ Remembered

-----------------------------------------------------------------------------
LEMMA DeliveryInit == Init => DeliveryInv
<1> SUFFICES ASSUME Init PROVE DeliveryInv
  OBVIOUS
<1>1. NeverStopped /\ OffsetsOK /\ OwnersHold
  BY DEF Init, NeverStopped, OffsetsOK, OwnersHold, Busy, Calls, ProcessorCalls
<1>2. RowsExist /\ Remembered
  BY DEF Init, RowsExist, Remembered, Queued, Partitions
<1> QED
  BY <1>1, <1>2 DEF DeliveryInv

LEMMA DeliveryImplies == TypeInv /\ DeliveryInv => NoEventForgotten
<1> SUFFICES ASSUME TypeInv, DeliveryInv, NEW e \in Events, Pending(e) PROVE Awaits(e)
  BY DEF DeliveryInv, Remembered, CaredFor, NoEventForgotten
<1>1. PICK p \in Partitions : \E i \in 1..Len(log[p]) : log[p][i].event = e /\ Unread(p, i)
  BY DEF Pending
<1>. PICK i \in 1..Len(log[p]) : log[p][i].event = e /\ Unread(p, i)
  BY <1>1
<1>2. i \in NextOffset(p) + 1..Len(log[p])
  BY DEF Unread, NextOffset, TypeInv, TypeOK
<1> QED
  BY <1>2 DEF Awaits

\* What has to be shown of a step: that it takes no event out of care unless it
\* settles it, and that it brings no event back unsettled and uncared for.
LEMMA RememberedStep ==
    ASSUME Remembered,
           \A e \in Events : Queued(e)' => Queued(e) \/ CaredFor(e)',
           \A e \in Events : status'[e] \notin Terminal => status[e] \notin Terminal \/ CaredFor(e)',
           \A e \in Events : CaredFor(e) => CaredFor(e)' \/ status'[e] \in Terminal
    PROVE  Remembered'
BY DEF Remembered, Terminal

\* A goroutine goes on to a call that still works on its message.
LEMMA WorkGoesOn ==
    ASSUME TypeInv, NEW g \in Goroutines, Busy(g), NEW next \in Calls \ {"commit"},
           Continue(g, next), UNCHANGED <<broker, held>>
    PROVE  \A e \in Events : /\ CaredFor(e) => CaredFor(e)'
                             /\ e = Event(g) => CaredFor(e)'
<1>1. \A h \in Goroutines : pc'[h] = IF h = g THEN next ELSE pc[h]
  BY DEF Continue, TypeInv, TypeOK
<1>2. \A h \in Goroutines : Busy(h)' <=> Busy(h)
  BY <1>1 DEF Busy
<1>3. UNCHANGED <<log, committed, position, owner>>
  BY DEF broker
<1>4. \A p, i : Unread(p, i)' <=> Unread(p, i)
  BY <1>2, <1>3 DEF Unread, NextOffset
<1>5. \A e : Pending(e) => Pending(e)'
  BY <1>3, <1>4 DEF Pending
<1>6. \A h \in Goroutines : Event(h)' = Event(h)
  BY <1>3 DEF Event, Message
<1>7. \A h \in Goroutines, e \in Events :
        WorksOn(h, e) \/ (h = g /\ e = Event(g)) => WorksOn(h, e)'
  BY <1>1, <1>6 DEF WorksOn
<1> QED
  BY <1>5, <1>7 DEF CaredFor

\* A goroutine is done with its message: the other events keep their care.
LEMMA WorkEnds ==
    ASSUME TypeInv, NEW g \in Goroutines, Busy(g), Continue(g, "commit"),
           UNCHANGED <<broker, held>>
    PROVE  \A e \in Events : CaredFor(e) => CaredFor(e)' \/ e = Event(g)
<1>1. \A h \in Goroutines : pc'[h] = IF h = g THEN "commit" ELSE pc[h]
  BY DEF Continue, TypeInv, TypeOK
<1>2. \A h \in Goroutines : Busy(h)' <=> Busy(h)
  BY <1>1 DEF Busy, Calls
<1>3. UNCHANGED <<log, committed, position, owner>>
  BY DEF broker
<1>4. \A p, i : Unread(p, i)' <=> Unread(p, i)
  BY <1>2, <1>3 DEF Unread, NextOffset
<1>5. \A e : Pending(e) => Pending(e)'
  BY <1>3, <1>4 DEF Pending
<1>6. \A h \in Goroutines, e \in Events : WorksOn(h, e) => WorksOn(h, e)' \/ e = Event(g)
  BY <1>1, <1>3 DEF WorksOn, Event, Message
<1> QED
  BY <1>5, <1>6 DEF CaredFor

\* A message appended to a topic is unread.
LEMMA AppendedIsPending ==
    ASSUME TypeInv, OffsetsOK, NEW topic, topic \subseteq Partitions, NEW m \in Messages,
           Appended(topic, m), UNCHANGED <<committed, position, owner, held>>,
           \A h \in Goroutines : Busy(h)' <=> Busy(h)
    PROVE  /\ Pending(m.event)'
           /\ \A e \in Events : Pending(e) => Pending(e)'
           /\ \A e \in Events : Queued(e)' => Queued(e) \/ e = m.event
           /\ \A h \in Goroutines : Busy(h) => Event(h)' = Event(h)
<1>1. PICK p \in topic : /\ Grown(log[p], log'[p], m)
                         /\ \A q \in Partitions : q # p => log'[q] = log[q]
  BY AppendedGrows DEF TypeInv
<1>2. p \in Partitions /\ Len(log[p]) \in Nat /\ Len(log'[p]) \in Nat
  BY <1>1 DEF TypeInv, TypeOK, Grown
<1>3. \A q, i : Unread(q, i)' <=> Unread(q, i)
  BY DEF Unread, NextOffset
<1>4. Pending(m.event)'
  <2>1. Unread(p, Len(log'[p]))
    <3>1. Len(log'[p]) > NextOffset(p) /\ Len(log'[p]) > committed[p]
      BY <1>1, <1>2 DEF Grown, OffsetsOK, NextOffset, TypeInv, TypeOK
    <3>2. \A h \in Goroutines : Busy(h) /\ held[h].part = p => Len(log'[p]) > held[h].off
      BY <1>1, <1>2, HeldMessage DEF Grown
    <3> QED
      BY <3>1, <3>2 DEF Unread
  <2>2. Len(log'[p]) \in 1..Len(log'[p]) /\ log'[p][Len(log'[p])] = m
    BY <1>1, <1>2 DEF Grown
  <2> QED
    BY <1>2, <1>3, <2>1, <2>2 DEF Pending
<1>5. ASSUME NEW e \in Events, Pending(e) PROVE Pending(e)'
  <2>1. \A q \in Partitions : \A i \in 1..Len(log[q]) :
          i \in 1..Len(log'[q]) /\ log'[q][i] = log[q][i]
    BY <1>1, <1>2 DEF Grown
  <2> QED
    BY <1>3, <1>5, <2>1 DEF Pending
<1>6. ASSUME NEW e \in Events, Queued(e)', ~Queued(e) PROVE e = m.event
  <2>1. PICK q \in EventPartitions : \E i \in 1..Len(log'[q]) : log'[q][i].event = e
    BY <1>6 DEF Queued
  <2>2. PICK i \in 1..Len(log'[q]) : log'[q][i].event = e
    BY <2>1
  <2>3. q = p /\ i \notin 1..Len(log[p])
    BY <1>1, <1>6, <2>2 DEF Queued, Grown, Partitions
  <2>4. i \in Len(log[p]) + 1..Len(log'[p])
    BY <1>2, <2>2, <2>3
  <2> QED
    BY <1>1, <2>2, <2>3, <2>4 DEF Grown
<1>7. \A h \in Goroutines : Busy(h) => Event(h)' = Event(h)
  BY HeldMessageStays DEF Event
<1> QED
  BY <1>4, <1>5, <1>6, <1>7

-----------------------------------------------------------------------------
\* The shape of the steps of a goroutine that has a message.
LEMMA ProcessShape ==
    ASSUME TypeInv, NEW g \in Goroutines, Process(g)
    PROVE  /\ Busy(g)
           /\ UNCHANGED <<position, owner, toPublish, disruptions>>
           /\ pc[g] # "commit" =>
                UNCHANGED <<committed, held>> /\ \E n \in Calls : Continue(g, n)
           /\ \A p \in Partitions : Len(log'[p]) \in Nat /\ Len(log'[p]) >= Len(log[p])
<1>1. CASE FindEvent(g)
  BY <1>1 DEF FindEvent, FindEventUnless, Busy, Calls, ProcessorCalls, broker, TypeInv, TypeOK
<1>2. CASE SetProcessing(g) \/ SetProcessed(g) \/ SetFailed(g) \/ MarkFailed(g)
  BY <1>2 DEF SetProcessing, SetProcessed, SetFailed, MarkFailed, UpdateStatus, Busy, Calls,
              ProcessorCalls, broker, TypeInv, TypeOK
<1>3. CASE WriteEvent(g)
  BY <1>3 DEF WriteEvent, Busy, Calls, ProcessorCalls, broker, TypeInv, TypeOK
<1>4. CASE IncrementRetry(g)
  BY <1>4 DEF IncrementRetry, AfterIncrement, Busy, Calls, ProcessorCalls, broker, TypeInv, TypeOK
<1>5. ASSUME NEW topic, topic \subseteq Partitions, NEW m \in Messages, Publish(g, topic, m)
      PROVE  \A p \in Partitions : Len(log'[p]) \in Nat /\ Len(log'[p]) >= Len(log[p])
  BY <1>5, AppendedTyped DEF Publish, TypeInv, TypeOK
<1>6. CASE PublishRetry(g)
  <2>1. Busy(g) /\ pc[g] = "publishRetry"
    BY <1>6 DEF PublishRetry, Busy, Calls, ProcessorCalls
  <2>2. [event |-> Event(g), attempt |-> Message(g).attempt + 1] \in Messages
    BY <2>1, HeldMessage DEF Messages
  <2> QED
    BY <1>5, <1>6, <2>1, <2>2 DEF PublishRetry, Publish, Calls, Partitions
<1>7. CASE PublishToDLQ(g)
  <2>1. Busy(g) /\ pc[g] = "publishDLQ"
    BY <1>7 DEF PublishToDLQ, Busy, Calls, ProcessorCalls
  <2>2. Message(g) \in Messages
    BY <2>1, HeldMessage
  <2> QED
    BY <1>5, <1>7, <2>1, <2>2 DEF PublishToDLQ, Publish, Calls, Partitions
<1>8. CASE CommitMessages(g)
  BY <1>8 DEF CommitMessages, Busy, Calls, TypeInv, TypeOK
<1> QED
  BY <1>1, <1>2, <1>3, <1>4, <1>6, <1>7, <1>8 DEF Process

\* What CommitMessages does to the offsets.
LEMMA CommitShape ==
    ASSUME TypeInv, NEW g \in Goroutines, Process(g), pc[g] = "commit"
    PROVE  /\ committed' \in {committed, [committed EXCEPT ![held[g].part] = held[g].off]}
           /\ \A h \in Goroutines : h # g => held'[h] = held[h]
           /\ \A h \in Goroutines : Busy(h)' <=> (Busy(h) /\ h # g)
           /\ UNCHANGED <<log, status>>
<1>1. CommitMessages(g)
  BY DEF Process, FindEvent, FindEventUnless, SetProcessing, SetProcessed, SetFailed, MarkFailed,
         WriteEvent, IncrementRetry, PublishRetry, PublishToDLQ
<1>2. PICK n \in {"fetch", "returned"} : Continue(g, n)
  BY <1>1 DEF CommitMessages
<1>3. \A h \in Goroutines : pc'[h] = IF h = g THEN n ELSE pc[h]
  BY <1>2 DEF Continue, TypeInv, TypeOK
<1>4. \A h \in Goroutines : Busy(h)' <=> (Busy(h) /\ h # g)
  BY <1>3 DEF Busy, Calls, ProcessorCalls
<1>5. \A h \in Goroutines : h # g => held'[h] = held[h]
  BY <1>1 DEF CommitMessages, TypeInv, TypeOK
<1> QED
  BY <1>1, <1>4, <1>5 DEF CommitMessages, store

\* What Fetch does.
LEMMA FetchShape ==
    ASSUME TypeInv, NEW g \in Goroutines, Fetch(g)
    PROVE  \E p \in Partitions :
             /\ owner[p] = g /\ position[p] < Len(log[p])
             /\ position' = [position EXCEPT ![p] = @ + 1]
             /\ held' = [held EXCEPT ![g] = [part |-> p, off |-> position[p] + 1]]
             /\ UNCHANGED <<status, log, committed, owner, toPublish>>
             /\ ~Busy(g)
             /\ \A h \in Goroutines : Busy(h)' <=> (Busy(h) \/ h = g)
             /\ pc'[g] \in {"findEvent", "markFailed"}
             /\ \A h \in Goroutines : h # g => pc'[h] = pc[h]
<1>1. PICK p \in PartitionsOf(g) :
        /\ owner[p] = g /\ position[p] < Len(log[p])
        /\ position' = [position EXCEPT ![p] = @ + 1]
        /\ committed' = [committed EXCEPT ![p] = @]
        /\ held' = [held EXCEPT ![g] = [part |-> p, off |-> position[p] + 1]]
  BY DEF Fetch, FetchMessage
<1>2. p \in Partitions
  BY DEF PartitionsOf, Partitions
<1>3. UNCHANGED <<status, log, committed, owner, toPublish>>
  BY <1>1, <1>2 DEF Fetch, FetchMessage, store, TypeInv, TypeOK
<1>4. PICK n \in {"findEvent", "markFailed"} : Continue(g, n)
  BY DEF Fetch, FetchMessage
<1>5. pc[g] = "fetch" /\ \A h \in Goroutines : pc'[h] = IF h = g THEN n ELSE pc[h]
  BY <1>4 DEF Fetch, FetchMessage, Continue, TypeInv, TypeOK
<1>6. ~Busy(g) /\ \A h \in Goroutines : Busy(h)' <=> (Busy(h) \/ h = g)
  BY <1>5 DEF Busy, Calls, ProcessorCalls
<1> QED
  BY <1>1, <1>2, <1>3, <1>5, <1>6

-----------------------------------------------------------------------------
LEMMA NeverStoppedStep ==
    MaxShutdowns = 0 /\ TypeInv /\ NeverStopped /\ [Next]_vars => NeverStopped'
<1> SUFFICES ASSUME MaxShutdowns = 0, TypeInv, NeverStopped, [Next]_vars PROVE NeverStopped'
  OBVIOUS
<1>1. ASSUME NEW g \in Goroutines, NEW n, Continue(g, n) PROVE NeverStopped'
  BY <1>1 DEF Continue, NeverStopped, TypeInv, TypeOK
<1>2. ASSUME NEW w \in Workers, Restart(w) PROVE NeverStopped'
  BY <1>2 DEF Restart, NeverStopped
<1>3. ASSUME NEW w \in Workers, Shutdown(w) PROVE FALSE
  BY <1>3 DEF Shutdown, TypeInv, TypeOK
<1>4. ASSUME NEW g \in Goroutines, Process(g) PROVE \E n : Continue(g, n)
  BY <1>4 DEF Process, FindEvent, FindEventUnless, SetProcessing, SetProcessed, SetFailed, MarkFailed,
              UpdateStatus, WriteEvent, IncrementRetry, PublishRetry, PublishToDLQ, Publish,
              CommitMessages
<1>5. ASSUME NEW g \in Goroutines, Fetch(g) PROVE \E n : Continue(g, n)
  BY <1>5 DEF Fetch, FetchMessage
<1>6. ASSUME UNCHANGED ctx PROVE NeverStopped'
  BY <1>6 DEF NeverStopped
<1> QED
  BY <1>1, <1>2, <1>3, <1>4, <1>5, <1>6
     DEF Next, Insert, PublishNew, Assign, Revoke, Crash, Exit, Idle, vars, procs

LEMMA OffsetsStep == TypeInv /\ OffsetsOK /\ [Next]_vars => OffsetsOK'
<1> SUFFICES ASSUME TypeInv, OffsetsOK, [Next]_vars PROVE OffsetsOK'
  OBVIOUS
<1> USE DEF OffsetsOK
<1>1. \A p \in Partitions : position[p] \in Nat /\ committed[p] \in Nat /\ Len(log[p]) \in Nat
  BY DEF TypeInv, TypeOK
<1>2. ASSUME NEW e \in Events, PublishNew(e) PROVE OffsetsOK'
  <2>1. [event |-> e, attempt |-> 1] \in Messages /\ EventPartitions \subseteq Partitions
    BY DEF Messages, Partitions
  <2>2. CASE Appended(EventPartitions, [event |-> e, attempt |-> 1])
    <3>1. \A p \in Partitions : Len(log'[p]) \in Nat /\ Len(log'[p]) >= Len(log[p])
      BY <2>1, <2>2, AppendedTyped DEF TypeInv
    <3> QED
      BY <1>1, <1>2, <3>1 DEF PublishNew
  <2> QED
    BY <1>2, <2>2 DEF PublishNew
<1>3. ASSUME NEW g \in Goroutines, Process(g) PROVE OffsetsOK'
  <2>1. /\ UNCHANGED position
        /\ \A p \in Partitions : Len(log'[p]) \in Nat /\ Len(log'[p]) >= Len(log[p])
    BY <1>3, ProcessShape
  <2>2. CASE pc[g] = "commit"
    <3>1. held[g].part \in Partitions /\ held[g].off \in 1..Len(log[held[g].part])
      BY <1>3, ProcessShape, HeldMessage
    <3>2. committed' \in {committed, [committed EXCEPT ![held[g].part] = held[g].off]}
      BY <1>3, <2>2, CommitShape
    <3>3. \A p \in Partitions : committed'[p] \in {committed[p], held[g].off}
                                 /\ (committed'[p] # committed[p] => p = held[g].part)
      BY <3>2 DEF TypeInv, TypeOK
    <3>4. UNCHANGED log
      BY <1>3, <2>2, CommitShape
    <3> QED
      BY <1>1, <2>1, <3>1, <3>3, <3>4
  <2>3. CASE pc[g] # "commit"
    BY <1>1, <1>3, <2>1, <2>3, ProcessShape
  <2> QED
    BY <2>2, <2>3
<1>4. ASSUME NEW g \in Goroutines, Fetch(g) PROVE OffsetsOK'
  <2>1. PICK p \in Partitions : /\ position[p] < Len(log[p])
                                /\ position' = [position EXCEPT ![p] = @ + 1]
                                /\ UNCHANGED <<log, committed>>
    BY <1>4, FetchShape
  <2>2. \A q \in Partitions : position'[q] = IF q = p THEN position[q] + 1 ELSE position[q]
    BY <2>1 DEF TypeInv, TypeOK
  <2> QED
    BY <1>1, <2>1, <2>2
<1>5. ASSUME NEW p \in Partitions, NEW g \in Goroutines, Assign(p, g) PROVE OffsetsOK'
  BY <1>5 DEF Assign, TypeInv, TypeOK
<1>6. ASSUME UNCHANGED <<log, committed, position>> PROVE OffsetsOK'
  BY <1>6
<1> QED
  BY <1>2, <1>3, <1>4, <1>5, <1>6
     DEF Next, Insert, Revoke, Crash, Exit, Restart, Shutdown, Idle, vars, broker

LEMMA RowsStep == TypeInv /\ RowsExist /\ [Next]_vars => RowsExist'
<1> SUFFICES ASSUME TypeInv, RowsExist, [Next]_vars PROVE RowsExist'
  OBVIOUS
<1>1. \A e \in Events : status'[e] = "absent" => status[e] = "absent"
  <2>1. ASSUME NEW g \in Goroutines, NEW new \in Statuses \ {"absent"}, NEW ok, NEW err,
               Busy(g), UpdateStatus(g, new, ok, err)
        PROVE  \A e \in Events : status'[e] = "absent" => status[e] = "absent"
    BY <2>1, HeldMessage DEF UpdateStatus, TypeInv, TypeOK
  <2>2. ASSUME NEW g \in Goroutines, Process(g)
        PROVE  \A e \in Events : status'[e] = "absent" => status[e] = "absent"
    <3>1. CASE SetProcessing(g) \/ SetProcessed(g) \/ SetFailed(g) \/ MarkFailed(g)
      BY <2>1, <2>2, <3>1, ProcessShape
         DEF SetProcessing, SetProcessed, SetFailed, MarkFailed, Statuses
    <3>2. CASE UNCHANGED status
      BY <3>2
    <3> QED
      BY <2>2, <3>1, <3>2 DEF Process, FindEvent, FindEventUnless, WriteEvent, IncrementRetry,
         PublishRetry, PublishToDLQ, Publish, CommitMessages, store
  <2>3. ASSUME NEW e \in Events, Insert(e)
        PROVE  \A f \in Events : status'[f] = "absent" => status[f] = "absent"
    BY <2>3 DEF Insert, TypeInv, TypeOK
  <2> QED
    BY <2>2, <2>3 DEF Next, PublishNew, Assign, Revoke, Fetch, FetchMessage, Crash, Exit, Restart,
       Shutdown, Idle, vars, store
<1>2. ASSUME \A p \in Partitions : \A i \in 1..Len(log'[p]) :
               \/ i \in 1..Len(log[p]) /\ log'[p][i] = log[p][i]
               \/ log'[p][i].event \in Events /\ status[log'[p][i].event] # "absent"
      PROVE  \A p \in Partitions : \A i \in 1..Len(log'[p]) : status'[log'[p][i].event] # "absent"
  <2> SUFFICES ASSUME NEW p \in Partitions, NEW i \in 1..Len(log'[p])
               PROVE  status'[log'[p][i].event] # "absent"
    OBVIOUS
  <2>1. CASE i \in 1..Len(log[p]) /\ log'[p][i] = log[p][i]
    <3>1. log[p][i].event \in Events
      <4>1. log[p] \in Seq(Messages)
        BY DEF TypeInv, TypeOK
      <4>2. log[p][i] \in Messages
        BY <2>1, <4>1
      <4> QED
        BY <4>2 DEF Messages
    <3>2. status[log[p][i].event] # "absent"
      BY <2>1 DEF RowsExist
    <3>3. status'[log[p][i].event] # "absent"
      BY <1>1, <3>1, <3>2
    <3> QED
      BY <2>1, <3>3
  <2>2. CASE log'[p][i].event \in Events /\ status[log'[p][i].event] # "absent"
    BY <1>1, <2>2
  <2> QED
    BY <1>2, <2>1, <2>2
<1>3. ASSUME NEW topic, topic \subseteq Partitions, NEW m \in Messages, Appended(topic, m),
             status[m.event] # "absent"
      PROVE  \A p \in Partitions : \A i \in 1..Len(log'[p]) : status'[log'[p][i].event] # "absent"
  <2>1. PICK p \in topic : /\ Grown(log[p], log'[p], m)
                           /\ \A q \in Partitions : q # p => log'[q] = log[q]
    BY <1>3, AppendedGrows DEF TypeInv
  <2>2. p \in Partitions /\ Len(log[p]) \in Nat /\ Len(log'[p]) \in Nat /\ m.event \in Events
    BY <1>3, <2>1 DEF TypeInv, TypeOK, Grown, Messages
  <2>3. \A i \in 1..Len(log'[p]) : i \in 1..Len(log[p]) \/ i \in Len(log[p]) + 1..Len(log'[p])
    BY <2>2
  <2> QED
    BY <1>2, <1>3, <2>1, <2>2, <2>3 DEF Grown
<1>4. ASSUME UNCHANGED log
      PROVE  \A p \in Partitions : \A i \in 1..Len(log'[p]) : status'[log'[p][i].event] # "absent"
  BY <1>2, <1>4
<1>5. \A p \in Partitions : \A i \in 1..Len(log'[p]) : status'[log'[p][i].event] # "absent"
  <2>1. ASSUME NEW e \in Events, PublishNew(e)
        PROVE  \/ UNCHANGED log
               \/ \E m \in Messages : Appended(EventPartitions, m) /\ status[m.event] # "absent"
    <3>1. [event |-> e, attempt |-> 1] \in Messages /\ status[e] # "absent"
      BY <2>1 DEF PublishNew, Messages, RowsExist
    <3> QED
      BY <2>1, <3>1 DEF PublishNew
  <2>2. ASSUME NEW g \in Goroutines, Process(g)
        PROVE  \/ UNCHANGED log
               \/ \E topic \in SUBSET Partitions, m \in Messages :
                    Appended(topic, m) /\ status[m.event] # "absent"
    <3>1. Busy(g)
      BY <2>2, ProcessShape
    <3>2. /\ Message(g) \in Messages
          /\ [event |-> Event(g), attempt |-> Message(g).attempt + 1] \in Messages
          /\ status[Event(g)] # "absent"
      BY <3>1, HeldMessage DEF Messages, RowsExist, Event, Message
    <3>3. CASE PublishRetry(g)
      <4> DEFINE m == [event |-> Event(g), attempt |-> Message(g).attempt + 1]
      <4>1. m \in Messages /\ status[m.event] # "absent"
        BY <3>2
      <4>2. UNCHANGED log \/ Appended(EventPartitions, m)
        BY <3>3 DEF PublishRetry, Publish
      <4> HIDE DEF m
      <4> QED
        BY <4>1, <4>2 DEF Partitions
    <3>4. CASE PublishToDLQ(g)
      BY <3>2, <3>4 DEF PublishToDLQ, Publish, Event, Partitions
    <3> QED
      BY <2>2, <3>3, <3>4 DEF Process, FindEvent, FindEventUnless, SetProcessing, SetProcessed,
         SetFailed, MarkFailed, UpdateStatus, WriteEvent, IncrementRetry, CommitMessages, broker
  <2>3. ASSUME NEW e \in Events, PublishNew(e)
        PROVE  \A p \in Partitions : \A i \in 1..Len(log'[p]) : status'[log'[p][i].event] # "absent"
    BY <1>3, <1>4, <2>1, <2>3 DEF Partitions
  <2>4. ASSUME NEW g \in Goroutines, Process(g)
        PROVE  \A p \in Partitions : \A i \in 1..Len(log'[p]) : status'[log'[p][i].event] # "absent"
    BY <1>3, <1>4, <2>2, <2>4
  <2> QED
    BY <1>4, <2>3, <2>4 DEF Next, Insert, Assign, Revoke, Fetch, FetchMessage, Crash, Exit, Restart,
       Shutdown, Idle, vars, broker
<1>6. \A e \in toPublish' : status'[e] # "absent"
  <2>1. ASSUME NEW e \in Events, Insert(e) PROVE \A f \in toPublish' : status'[f] # "absent"
    BY <2>1 DEF Insert, RowsExist, TypeInv, TypeOK
  <2>2. CASE toPublish' \subseteq toPublish
    BY <1>1, <2>2 DEF RowsExist, TypeInv, TypeOK
  <2> QED
    BY <2>1, <2>2, ProcessShape DEF Next, PublishNew, Assign, Revoke, Fetch, FetchMessage, Crash, Exit,
       Restart, Shutdown, Idle, vars
<1> QED
  BY <1>5, <1>6 DEF RowsExist

LEMMA OwnersStep == TypeInv /\ OwnersHold /\ [Next]_vars => OwnersHold'
<1> SUFFICES ASSUME TypeInv, OwnersHold, [Next]_vars, MaxRevocations = 0
             PROVE  /\ \A p \in Partitions : owner'[p] # NoOwner => committed'[p] <= position'[p]
                    /\ \A g \in Goroutines : Busy(g)' =>
                         /\ owner'[held'[g].part] = g
                         /\ committed'[held'[g].part] < held'[g].off
                         /\ position'[held'[g].part] = held'[g].off
  BY DEF OwnersHold
<1> DEFINE Goal == /\ \A p \in Partitions : owner'[p] # NoOwner => committed'[p] <= position'[p]
                   /\ \A g \in Goroutines : Busy(g)' =>
                        /\ owner'[held'[g].part] = g
                        /\ committed'[held'[g].part] < held'[g].off
                        /\ position'[held'[g].part] = held'[g].off
<1>1. /\ \A p \in Partitions : owner[p] # NoOwner => committed[p] <= position[p]
      /\ \A g \in Goroutines : Busy(g) =>
           /\ owner[held[g].part] = g
           /\ committed[held[g].part] < held[g].off
           /\ position[held[g].part] = held[g].off
  BY DEF OwnersHold
<1>2. \A p \in Partitions : position[p] \in Nat /\ committed[p] \in Nat
  BY DEF TypeInv, TypeOK
<1>3. \A g \in Goroutines : Busy(g) => held[g].part \in Partitions /\ held[g].off \in Nat
  BY HeldMessage
<1>4. ASSUME UNCHANGED <<held, committed, position, owner>>,
             \A g \in Goroutines : Busy(g)' => Busy(g)
      PROVE  Goal
  BY <1>1, <1>4
<1>5. ASSUME NEW p \in Partitions, NEW g \in Goroutines, Assign(p, g) PROVE Goal
  <2>1. /\ \A q \in Partitions : owner'[q] = IF q = p THEN g ELSE owner[q]
        /\ \A q \in Partitions : position'[q] = IF q = p THEN committed[p] ELSE position[q]
        /\ UNCHANGED <<committed, held>> /\ owner[p] = NoOwner
        /\ \A h \in Goroutines : Busy(h)' => Busy(h)
    BY <1>5 DEF Assign, TypeInv, TypeOK, procs, Busy
  <2>2. \A h \in Goroutines : Busy(h) => held[h].part # p
    BY <1>1, <2>1, PipelineAssumption
  <2> QED
    BY <1>1, <1>2, <1>3, <2>1, <2>2
<1>6. ASSUME NEW p \in Partitions, Revoke(p) PROVE FALSE
  BY <1>6 DEF Revoke, TypeInv, TypeOK
<1>7. ASSUME NEW g \in Goroutines, Fetch(g) PROVE Goal
  <2>1. PICK p \in Partitions :
             /\ owner[p] = g /\ position[p] < Len(log[p])
             /\ position' = [position EXCEPT ![p] = @ + 1]
             /\ held' = [held EXCEPT ![g] = [part |-> p, off |-> position[p] + 1]]
             /\ UNCHANGED <<committed, owner>>
             /\ \A h \in Goroutines : Busy(h)' <=> (Busy(h) \/ h = g)
             /\ ~Busy(g)
    BY <1>7, FetchShape
  <2>2. \A q \in Partitions : position'[q] = IF q = p THEN position[q] + 1 ELSE position[q]
    BY <2>1 DEF TypeInv, TypeOK
  <2>3. held'[g].part = p /\ held'[g].off = position[p] + 1
    BY <2>1 DEF TypeInv, TypeOK
  <2>4. \A h \in Goroutines : Busy(h) => held'[h] = held[h] /\ held[h].part # p
    BY <1>1, <2>1
  <2>5. owner[p] # NoOwner
    BY <2>1, PipelineAssumption
  <2>6. \A q \in Partitions : owner'[q] # NoOwner => committed'[q] <= position'[q]
    BY <1>1, <1>2, <2>1, <2>2
  <2>7. /\ owner'[held'[g].part] = g
        /\ committed'[held'[g].part] < held'[g].off
        /\ position'[held'[g].part] = held'[g].off
    BY <1>1, <1>2, <2>1, <2>2, <2>3, <2>5
  <2>8. ASSUME NEW h \in Goroutines, Busy(h)
        PROVE  /\ owner'[held'[h].part] = h
               /\ committed'[held'[h].part] < held'[h].off
               /\ position'[held'[h].part] = held'[h].off
    BY <1>1, <1>3, <2>1, <2>2, <2>4, <2>8
  <2> QED
    BY <2>1, <2>6, <2>7, <2>8
<1>8. ASSUME NEW g \in Goroutines, Process(g) PROVE Goal
  <2>1. CASE pc[g] # "commit"
    <3>1. PICK n \in Calls : Continue(g, n)
      BY <1>8, <2>1, ProcessShape
    <3>2. \A h \in Goroutines : Busy(h)' => Busy(h)
      BY <1>8, <3>1, ProcessShape DEF Continue, Busy, TypeInv, TypeOK
    <3> QED
      BY <1>4, <1>8, <2>1, <3>2, ProcessShape
  <2>2. CASE pc[g] = "commit"
    <3> DEFINE p == held[g].part
    <3>1. Busy(g) /\ UNCHANGED <<position, owner>>
      BY <1>8, ProcessShape
    <3>2. /\ \A h \in Goroutines : h # g => held'[h] = held[h]
          /\ \A h \in Goroutines : Busy(h)' <=> (Busy(h) /\ h # g)
      BY <1>8, <2>2, CommitShape
    <3>3. committed' \in {committed, [committed EXCEPT ![held[g].part] = held[g].off]}
      BY <1>8, <2>2, CommitShape
    <3>4. \A q \in Partitions : committed'[q] = committed[q] \/ (q = p /\ committed'[q] = held[g].off)
      BY <3>3 DEF TypeInv, TypeOK
    <3>5. \A h \in Goroutines : Busy(h) /\ h # g => held[h].part # p
      BY <1>1, <3>1
    <3>6. owner[p] = g /\ position[p] = held[g].off /\ p \in Partitions
      BY <1>1, <1>3, <3>1
    <3> HIDE DEF p
    <3>7. \A q \in Partitions : owner'[q] # NoOwner => committed'[q] <= position'[q]
      BY <1>1, <1>2, <3>1, <3>4, <3>6
    <3> QED
      BY <1>1, <1>3, <3>1, <3>2, <3>4, <3>5, <3>7
  <2> QED
    BY <2>1, <2>2
<1>9. ASSUME NEW w \in Workers, Restart(w) PROVE Goal
  <2>1. /\ UNCHANGED <<committed, position>>
        /\ \A q \in Partitions : owner'[q] = IF owner[q] \in {w} \X Roles THEN NoOwner ELSE owner[q]
        /\ \A h \in Goroutines : Busy(h)' => h[1] # w /\ Busy(h) /\ held'[h] = held[h]
    BY <1>9 DEF Restart, Busy, Calls, ProcessorCalls
  <2>2. \A h \in Goroutines : h[1] # w => h \notin {w} \X Roles
    OBVIOUS
  <2> QED
    BY <1>1, <1>3, <2>1, <2>2
<1>10. ASSUME NEW w \in Workers, Shutdown(w) PROVE Goal
  BY <1>4, <1>10 DEF Shutdown, broker, Busy
<1>11. ASSUME UNCHANGED <<procs, committed, position, owner>> PROVE Goal
  BY <1>4, <1>11 DEF procs, Busy
<1> QED
  BY <1>5, <1>6, <1>7, <1>8, <1>9, <1>10, <1>11
     DEF Next, Insert, PublishNew, Crash, Exit, Idle, vars, broker

\* A step that touches no log, offset, or goroutine takes no event out of care.
LEMMA CareFrame ==
    ASSUME UNCHANGED <<log, committed, position, owner, pc, held>>
    PROVE  \A e \in Events : CaredFor(e)' <=> CaredFor(e)
BY DEF CaredFor, Pending, Unread, NextOffset, Busy, WorksOn, Event, Message

\* The calls of g that publish nothing.
LEMMA RememberedProcess ==
    ASSUME TypeInv, LosesNothing, NeverStopped, RowsExist, Remembered,
           NEW g \in Goroutines, Process(g), UNCHANGED <<log, committed>>, pc[g] # "commit"
    PROVE  \/ Remembered'
           \/ pc[g] \in {"publishRetry", "publishDLQ"}
<1>1. Busy(g) /\ UNCHANGED <<broker, held>>
  BY ProcessShape DEF broker
<1>2. Event(g) \in Events /\ status[Event(g)] # "absent" /\ status \in [Events -> Statuses]
  BY <1>1, HeldMessage DEF RowsExist, Event, Message, TypeInv, TypeOK
<1>3. ASSUME NEW next \in Calls \ {"commit"}, Continue(g, next),
             \A e \in Events : e # Event(g) => status'[e] = status[e]
      PROVE  Remembered'
  <2>1. \A e \in Events : Queued(e)' <=> Queued(e)
    BY <1>1 DEF Queued, broker
  <2> QED
    BY <1>1, <1>3, <2>1, WorkGoesOn, RememberedStep
<1>4. ASSUME Continue(g, "commit"), status'[Event(g)] \in Terminal,
             \A e \in Events : e # Event(g) => status'[e] = status[e]
      PROVE  Remembered'
  <2>1. \A e \in Events : Queued(e)' <=> Queued(e)
    BY <1>1 DEF Queued, broker
  <2>2. \A e \in Events : CaredFor(e) => CaredFor(e)' \/ status'[e] \in Terminal
    BY <1>1, <1>4, WorkEnds
  <2> QED
    BY <1>4, <2>1, <2>2, RememberedStep
<1>5. CASE FindEvent(g)
  <2>1. UNCHANGED status
    BY <1>5 DEF FindEvent, FindEventUnless, store
  <2>2. \/ Continue(g, "commit") /\ status[Event(g)] \in Terminal \cup {"absent"}
        \/ \E next \in {"setProcessing", "incrementRetry"} : Continue(g, next)
    BY <1>5 DEF FindEvent, FindEventUnless
  <2> QED
    BY <1>2, <1>3, <1>4, <2>1, <2>2 DEF Calls, ProcessorCalls
<1>6. CASE SetProcessing(g)
  <2>1. /\ \E next \in {"writeEvent", "incrementRetry"} : Continue(g, next)
        /\ status' \in {status, [status EXCEPT ![Event(g)] = "processing"]}
    BY <1>6 DEF SetProcessing, UpdateStatus
  <2>2. \A e \in Events : e # Event(g) => status'[e] = status[e]
    BY <1>2, <2>1
  <2> QED
    BY <1>3, <2>1, <2>2 DEF Calls, ProcessorCalls
<1>7. CASE WriteEvent(g)
  BY <1>3, <1>7 DEF WriteEvent, Calls, ProcessorCalls
<1>8. CASE SetProcessed(g) \/ MarkFailed(g)
  <2>1. ~FailsUnsent(g) /\ ~FailsLate(g)
    BY <1>8 DEF SetProcessed, MarkFailed, FailsUnsent, FailsLate, LosesNothing, NeverStopped
  <2>2. /\ Continue(g, "commit")
        /\ \E new \in Terminal : status' = [status EXCEPT ![Event(g)] = new]
    BY <1>8, <2>1 DEF SetProcessed, MarkFailed, UpdateStatus, Terminal
  <2>3. /\ status'[Event(g)] \in Terminal
        /\ \A e \in Events : e # Event(g) => status'[e] = status[e]
    BY <1>2, <2>2
  <2> QED
    BY <1>4, <2>2, <2>3
<1>9. CASE IncrementRetry(g)
  <2>1. Continue(g, AfterIncrement(g)) /\ UNCHANGED status
    BY <1>9 DEF IncrementRetry
  <2>2. AfterIncrement(g) \in Calls \ {"commit"}
    BY DEF AfterIncrement, Calls, ProcessorCalls
  <2> QED
    BY <1>3, <2>1, <2>2
<1>10. CASE SetFailed(g)
  <2>1. /\ Continue(g, "publishDLQ")
        /\ status' \in {status, [status EXCEPT ![Event(g)] = "failed"]}
    BY <1>10 DEF SetFailed, UpdateStatus
  <2>2. \A e \in Events : e # Event(g) => status'[e] = status[e]
    BY <1>2, <2>1
  <2> QED
    BY <1>3, <2>1, <2>2 DEF Calls, ProcessorCalls
<1> QED
  BY <1>5, <1>6, <1>7, <1>8, <1>9, <1>10 DEF Process, PublishRetry, PublishToDLQ, CommitMessages

\* The calls of g that publish: its event gets an unread message.
LEMMA RememberedPublish ==
    ASSUME TypeInv, OffsetsOK, LosesNothing, NeverStopped, Remembered,
           NEW g \in Goroutines, NEW topic, topic \subseteq Partitions, NEW m \in Messages,
           pc[g] \in {"publishRetry", "publishDLQ"}, m.event = Event(g), Publish(g, topic, m)
    PROVE  Remembered'
<1>1. Appended(topic, m) /\ Continue(g, "commit") /\ UNCHANGED <<store, committed, position, owner, held>>
  BY DEF Publish, FailsUnsent, LosesNothing, NeverStopped
<1>2. \A h \in Goroutines : pc'[h] = IF h = g THEN "commit" ELSE pc[h]
  BY <1>1 DEF Continue, TypeInv, TypeOK
<1>3. \A h \in Goroutines : Busy(h)' <=> Busy(h)
  BY <1>2 DEF Busy, Calls, ProcessorCalls
<1>4. /\ Pending(m.event)'
      /\ \A e \in Events : Pending(e) => Pending(e)'
      /\ \A e \in Events : Queued(e)' => Queued(e) \/ e = m.event
      /\ \A h \in Goroutines : Busy(h) => Event(h)' = Event(h)
  BY <1>1, <1>3, AppendedIsPending
<1>5. \A h \in Goroutines, e \in Events : WorksOn(h, e) => WorksOn(h, e)' \/ e = m.event
  BY <1>2, <1>4 DEF WorksOn, Busy
<1>6. \A e \in Events : e = m.event => Pending(e)'
  BY <1>4
<1> QED
  BY <1>1, <1>4, <1>5, <1>6, RememberedStep DEF CaredFor, store

LEMMA RememberStep ==
    TypeInv /\ LosesNothing /\ DeliveryInv /\ [Next]_vars => Remembered'
<1> SUFFICES ASSUME TypeInv, LosesNothing, NeverStopped, OffsetsOK, RowsExist, OwnersHold,
                    Remembered, [Next]_vars
             PROVE  Remembered'
  BY DEF DeliveryInv
<1>1. \A p \in Partitions : position[p] \in Nat /\ committed[p] \in Nat /\ Len(log[p]) \in Nat
  BY DEF TypeInv, TypeOK
<1>2. ASSUME NEW e \in Events, Insert(e) PROVE Remembered'
  <2>1. UNCHANGED <<log, committed, position, owner, pc, held>>
    BY <1>2 DEF Insert, broker, procs
  <2>2. \A f \in Events : status'[f] \notin Terminal => status[f] \notin Terminal
    BY <1>2 DEF Insert, TypeInv, TypeOK, Terminal
  <2> QED
    BY <2>1, <2>2, CareFrame, RememberedStep DEF Queued
<1>3. ASSUME NEW e \in Events, PublishNew(e) PROVE Remembered'
  <2> DEFINE m == [event |-> e, attempt |-> 1]
  <2>1. m \in Messages /\ EventPartitions \subseteq Partitions
    BY DEF Messages, Partitions
  <2>2. UNCHANGED <<status, committed, position, owner, pc, held>>
    BY <1>3 DEF PublishNew, store, procs
  <2>3. CASE Appended(EventPartitions, m)
    <3> HIDE DEF m
    <3>1. /\ Pending(m.event)'
          /\ \A f \in Events : Pending(f) => Pending(f)'
          /\ \A f \in Events : Queued(f)' => Queued(f) \/ f = m.event
          /\ \A h \in Goroutines : Busy(h) => Event(h)' = Event(h)
      BY <2>1, <2>2, <2>3, AppendedIsPending DEF Busy
    <3>2. \A h \in Goroutines, f \in Events : WorksOn(h, f) => WorksOn(h, f)'
      BY <2>2, <3>1 DEF WorksOn, Busy
    <3>3. \A f \in Events : f = m.event => Pending(f)'
      BY <3>1
    <3> QED
      BY <2>2, <3>1, <3>2, <3>3, RememberedStep DEF CaredFor
  <2>4. CASE UNCHANGED log
    BY <2>2, <2>4, CareFrame, RememberedStep DEF Queued
  <2> QED
    BY <1>3, <2>3, <2>4 DEF PublishNew
<1>4. ASSUME UNCHANGED <<status, log>>,
             \A p \in Partitions : \A i \in 1..Len(log[p]) : Unread(p, i) => Unread(p, i)',
             \A h \in Goroutines : pc'[h] = pc[h] /\ held'[h] = held[h]
      PROVE  Remembered'
  <2>1. \A e \in Events : Pending(e) => Pending(e)'
    BY <1>4 DEF Pending
  <2>2. \A h \in Goroutines, e \in Events : WorksOn(h, e) => WorksOn(h, e)'
    BY <1>4 DEF WorksOn, Event, Message
  <2> QED
    BY <1>4, <2>1, <2>2, RememberedStep DEF CaredFor, Queued
<1>5. ASSUME NEW p \in Partitions, NEW g \in Goroutines, Assign(p, g) PROVE Remembered'
  <2>1. /\ UNCHANGED <<status, log, committed, pc, held>> /\ owner[p] = NoOwner
        /\ \A q \in Partitions : owner'[q] = IF q = p THEN g ELSE owner[q]
        /\ \A q \in Partitions : position'[q] = IF q = p THEN committed[p] ELSE position[q]
    BY <1>5 DEF Assign, store, procs, TypeInv, TypeOK
  <2>2. \A q \in Partitions : NextOffset(q)' = NextOffset(q)
    BY <2>1, PipelineAssumption DEF NextOffset
  <2> QED
    BY <1>4, <2>1, <2>2 DEF Unread, Busy
<1>6. ASSUME NEW p \in Partitions, Revoke(p) PROVE Remembered'
  <2>1. /\ UNCHANGED <<status, log, committed, position, pc, held>>
        /\ \A q \in Partitions : owner'[q] = IF q = p THEN NoOwner ELSE owner[q]
    BY <1>6 DEF Revoke, store, procs, TypeInv, TypeOK
  <2>2. \A q \in Partitions : NextOffset(q)' \in {NextOffset(q), committed[q]}
    BY <2>1 DEF NextOffset
  <2> QED
    BY <1>4, <2>1, <2>2 DEF Unread, Busy
<1>7. ASSUME NEW g \in Goroutines, Fetch(g) PROVE Remembered'
  <2>1. PICK p \in Partitions :
             /\ owner[p] = g /\ position[p] < Len(log[p])
             /\ position' = [position EXCEPT ![p] = @ + 1]
             /\ held' = [held EXCEPT ![g] = [part |-> p, off |-> position[p] + 1]]
             /\ UNCHANGED <<status, log, committed, owner>>
             /\ ~Busy(g)
             /\ \A h \in Goroutines : Busy(h)' <=> (Busy(h) \/ h = g)
             /\ pc'[g] \in {"findEvent", "markFailed"}
             /\ \A h \in Goroutines : h # g => pc'[h] = pc[h]
    BY <1>7, FetchShape
  <2>2. \A q \in Partitions : position'[q] = IF q = p THEN position[q] + 1 ELSE position[q]
    BY <2>1 DEF TypeInv, TypeOK
  <2>3. /\ held'[g].part = p /\ held'[g].off = position[p] + 1
        /\ \A h \in Goroutines : h # g => held'[h] = held[h]
    BY <2>1 DEF TypeInv, TypeOK
  <2>4. NextOffset(p) = position[p]
    BY <2>1, PipelineAssumption DEF NextOffset
  <2>5. ASSUME NEW e \in Events, log[p][position[p] + 1].event = e PROVE WorksOn(g, e)'
    BY <2>1, <2>3, <2>5 DEF WorksOn, Event, Message, Calls, ProcessorCalls
  <2>6. ASSUME NEW q \in Partitions, NEW i \in 1..Len(log[q]), Unread(q, i)
        PROVE  Unread(q, i)' \/ (q = p /\ i = position[p] + 1)
    <3>1. NextOffset(q)' = IF q = p THEN position[p] + 1 ELSE NextOffset(q)
      BY <2>1, <2>2, <2>4, PipelineAssumption DEF NextOffset
    <3> SUFFICES ASSUME ~(q = p /\ i = position[p] + 1) PROVE Unread(q, i)'
      OBVIOUS
    <3>2. i > NextOffset(q)'
      BY <1>1, <2>4, <2>6, <3>1 DEF Unread
    <3>3. i > committed'[q]
      BY <2>1, <2>6 DEF Unread
    <3>4. ASSUME NEW h \in Goroutines, Busy(h)', held'[h].part = q PROVE i > held'[h].off
      <4>1. CASE h = g
        BY <1>1, <2>3, <2>4, <2>6, <3>4, <4>1 DEF Unread
      <4>2. CASE h # g
        BY <2>1, <2>3, <2>6, <3>4, <4>2 DEF Unread
      <4> QED
        BY <4>1, <4>2
    <3> QED
      BY <3>2, <3>3, <3>4 DEF Unread
  <2>7. \A e \in Events : Pending(e) => Pending(e)' \/ WorksOn(g, e)'
    <3> SUFFICES ASSUME NEW e \in Events, NEW q \in Partitions, NEW i \in 1..Len(log[q]),
                        log[q][i].event = e, Unread(q, i)
                 PROVE  Pending(e)' \/ WorksOn(g, e)'
      BY DEF Pending
    <3>1. CASE q = p /\ i = position[p] + 1
      BY <2>5, <3>1
    <3>2. CASE Unread(q, i)'
      BY <2>1, <3>2 DEF Pending
    <3> QED
      BY <2>6, <3>1, <3>2
  <2>8. \A h \in Goroutines, e \in Events : WorksOn(h, e) => WorksOn(h, e)'
    BY <2>1, <2>3 DEF WorksOn, Event, Message, Busy
  <2>9. \A e \in Events : Queued(e)' <=> Queued(e)
    BY <2>1 DEF Queued
  <2> QED
    BY <2>1, <2>7, <2>8, <2>9, RememberedStep DEF CaredFor
<1>8. ASSUME NEW g \in Goroutines, Process(g) PROVE Remembered'
  <2>1. CASE pc[g] = "commit"
    <3>1. Busy(g) /\ UNCHANGED <<position, owner>>
      BY <1>8, ProcessShape
    <3>2. /\ committed' \in {committed, [committed EXCEPT ![held[g].part] = held[g].off]}
          /\ \A h \in Goroutines : h # g => held'[h] = held[h]
          /\ \A h \in Goroutines : Busy(h)' <=> (Busy(h) /\ h # g)
          /\ UNCHANGED <<log, status>>
      BY <1>8, <2>1, CommitShape
    <3>3. \A q \in Partitions : \/ committed'[q] = committed[q]
                                \/ q = held[g].part /\ committed'[q] = held[g].off
      BY <3>2 DEF TypeInv, TypeOK
    <3>4. ASSUME NEW q \in Partitions, NEW i \in 1..Len(log[q]), Unread(q, i) PROVE Unread(q, i)'
      <4>1. i > committed'[q]
        BY <3>1, <3>3, <3>4 DEF Unread
      <4>2. NextOffset(q)' = NextOffset(q) \/ NextOffset(q)' = committed'[q]
        BY <3>1 DEF NextOffset
      <4>3. \A h \in Goroutines : Busy(h)' /\ held'[h].part = q => i > held'[h].off
        BY <3>2, <3>4 DEF Unread
      <4>4. i > NextOffset(q)'
        BY <3>4, <4>1, <4>2 DEF Unread
      <4> QED
        BY <4>1, <4>3, <4>4 DEF Unread
    <3>5. \A e \in Events : Pending(e) => Pending(e)'
      BY <3>2, <3>4 DEF Pending
    <3>6. \A h \in Goroutines, e \in Events : WorksOn(h, e) => h # g /\ Busy(h)
      BY <2>1 DEF WorksOn, Busy
    <3>7. \A h \in Goroutines : h # g => pc'[h] = pc[h]
      BY <1>8, <2>1 DEF Process, CommitMessages, Continue, FindEvent, FindEventUnless, SetProcessing,
         SetProcessed, SetFailed, MarkFailed, WriteEvent, IncrementRetry, PublishRetry, PublishToDLQ,
         TypeInv, TypeOK
    <3>8. \A h \in Goroutines, e \in Events : WorksOn(h, e) => WorksOn(h, e)'
      BY <3>2, <3>6, <3>7 DEF WorksOn, Event, Message
    <3> QED
      BY <3>2, <3>5, <3>8, RememberedStep DEF CaredFor, Queued
  <2>2. CASE PublishRetry(g)
    <3> DEFINE m == [event |-> Event(g), attempt |-> Message(g).attempt + 1]
    <3>1. Busy(g) /\ pc[g] = "publishRetry" /\ Publish(g, EventPartitions, m)
      BY <2>2 DEF PublishRetry, Busy, Calls, ProcessorCalls
    <3>2. m \in Messages /\ m.event = Event(g)
      BY <3>1, HeldMessage DEF Messages
    <3>3. EventPartitions \subseteq Partitions
      BY DEF Partitions
    <3> HIDE DEF m
    <3> QED
      BY <3>1, <3>2, <3>3, RememberedPublish
  <2>3. CASE PublishToDLQ(g)
    <3>1. Busy(g) /\ pc[g] = "publishDLQ" /\ Publish(g, DLQPartitions, Message(g))
      BY <2>3 DEF PublishToDLQ, Busy, Calls, ProcessorCalls
    <3>2. Message(g) \in Messages /\ Message(g).event = Event(g)
      BY <3>1, HeldMessage DEF Event
    <3>3. DLQPartitions \subseteq Partitions
      BY DEF Partitions
    <3> QED
      BY <3>1, <3>2, <3>3, RememberedPublish
  <2>4. CASE ~(PublishRetry(g) \/ PublishToDLQ(g)) /\ pc[g] # "commit"
    <3>1. UNCHANGED <<log, committed>> /\ pc[g] \notin {"publishRetry", "publishDLQ"}
      BY <1>8, <2>4 DEF Process, CommitMessages, FindEvent, FindEventUnless, SetProcessing,
         SetProcessed, SetFailed, MarkFailed, UpdateStatus, WriteEvent, IncrementRetry, broker
    <3> QED
      BY <1>8, <2>4, <3>1, RememberedProcess
  <2> QED
    BY <2>1, <2>2, <2>3, <2>4
<1>9. ASSUME NEW w \in Workers, Crash(w) PROVE Remembered'
  <2>1. MaxRevocations = 0
    BY <1>9 DEF Crash, LosesNothing, TypeInv, TypeOK
  <2>2. \A g \in Goroutines : Busy(g) => /\ owner[held[g].part] = g
                                         /\ committed[held[g].part] < held[g].off
    BY <2>1 DEF OwnersHold
  <2>3. /\ UNCHANGED <<status, log, committed, position>>
        /\ \A q \in Partitions : owner'[q] = IF owner[q] \in {w} \X Roles THEN NoOwner ELSE owner[q]
        /\ \A h \in Goroutines : pc'[h] = IF h[1] = w THEN "fetch" ELSE pc[h]
        /\ \A h \in Goroutines : h[1] # w => held'[h] = held[h]
    BY <1>9 DEF Crash, Restart, store
  <2>4. \A h \in Goroutines : Busy(h)' <=> (Busy(h) /\ h[1] # w)
    BY <2>3 DEF Busy, Calls, ProcessorCalls
  <2>5. \A q \in Partitions : NextOffset(q)' = NextOffset(q) \/ NextOffset(q)' = committed[q]
    BY <2>3 DEF NextOffset
  <2>6. ASSUME NEW q \in Partitions, NEW i \in 1..Len(log[q]), Unread(q, i) PROVE Unread(q, i)'
    BY <2>3, <2>4, <2>5, <2>6 DEF Unread
  <2>7. \A e \in Events : Pending(e) => Pending(e)'
    BY <2>3, <2>6 DEF Pending
  <2>8. ASSUME NEW g \in Goroutines, NEW e \in Events, WorksOn(g, e), g[1] = w PROVE Pending(e)'
    <3>1. Busy(g) /\ Event(g) = e
      BY <2>8 DEF WorksOn, Busy
    <3> PICK p \in Partitions : p = held[g].part
      BY <3>1, HeldMessage
    <3> PICK i \in 1..Len(log[p]) : i = held[g].off
      BY <3>1, HeldMessage
    <3>2. owner[p] = g /\ committed[p] < i /\ log[p][i].event = e
      BY <2>2, <3>1 DEF Event, Message
    <3>3. owner'[p] = NoOwner
      BY <2>3, <2>8, <3>2 DEF Goroutines
    <3>4. NextOffset(p)' = committed[p]
      BY <2>3, <3>3 DEF NextOffset
    <3>5. ASSUME NEW h \in Goroutines, Busy(h)', held'[h].part = p PROVE FALSE
      BY <2>2, <2>3, <2>4, <2>8, <3>2, <3>5
    <3>6. Unread(p, i)'
      BY <2>3, <3>2, <3>4, <3>5 DEF Unread
    <3> QED
      BY <2>3, <3>2, <3>6 DEF Pending
  <2>9. \A g \in Goroutines, e \in Events : WorksOn(g, e) /\ g[1] # w => WorksOn(g, e)'
    BY <2>3 DEF WorksOn, Event, Message
  <2> QED
    BY <2>3, <2>7, <2>8, <2>9, RememberedStep DEF CaredFor, Queued
<1>10. ASSUME NEW w \in Workers, Exit(w) PROVE FALSE
  <2>1. <<w, "processor">> \in {w} \X Roles /\ <<w, "processor">> \in Goroutines
    BY DEF Goroutines, Roles
  <2> QED
    BY <1>10, <2>1 DEF Exit, NeverStopped
<1>11. ASSUME NEW w \in Workers, Shutdown(w) PROVE FALSE
  BY <1>11 DEF Shutdown, LosesNothing, TypeInv, TypeOK
<1>12. CASE UNCHANGED vars
  BY <1>12, CareFrame, RememberedStep DEF Queued, vars, store, broker, procs
<1> QED
  BY <1>2, <1>3, <1>5, <1>6, <1>7, <1>8, <1>9, <1>10, <1>11, <1>12 DEF Next, Idle

\* When the calls whose failure is only logged do not fail, a queued event that
\* is not settled is never forgotten: across any number of crashes of any number
\* of workers, or any number of rebalances, whatever else fails or is duplicated.
THEOREM NothingForgotten == LosesNothing => (Spec => []NoEventForgotten)
<1> SUFFICES ASSUME LosesNothing PROVE Spec => []NoEventForgotten
  OBVIOUS
<1>1. Init => TypeInv /\ DeliveryInv
  BY TypeInit, DeliveryInit
<1>2. TypeInv /\ DeliveryInv /\ [Next]_vars => TypeInv' /\ DeliveryInv'
  BY TypeStep, NeverStoppedStep, OffsetsStep, RowsStep, OwnersStep, RememberStep DEF DeliveryInv, LosesNothing
<1>3. TypeInv /\ DeliveryInv => NoEventForgotten
  BY DeliveryImplies
<1> QED
  BY <1>1, <1>2, <1>3, PTL DEF Spec
=============================================================================
